--------------------------- MODULE MCLensPolling ---------------------------
(***************************************************************************)
(* LensPolling for TLC: devices 1 and 2 belong to t1, device 3 to t2.      *)
(***************************************************************************)
EXTENDS LensPolling

CONSTANTS t1, t2

MCTenants == <<t1, t2>>
MCTenantOf == [d \in 1 .. 3 |-> IF d = 3 THEN t2 ELSE t1]

\* Device 2 was last detected in the exporter's future, device 3 at a time
\* that does not parse.
MCLastDetected == [d \in 1 .. 3 |-> CASE d = 1 -> 5 [] d = 2 -> -1 [] d = 3 -> Unparsable]

Discovery == <<>>
=============================================================================
