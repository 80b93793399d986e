----------------------------- MODULE MCLensCDR -----------------------------
(***************************************************************************)
(* LensCDR for TLC: r2 and r3 start at the same instant, bad does not      *)
(* parse and starts after all others.                                      *)
(***************************************************************************)
EXTENDS LensCDR, TLC

CONSTANTS r1, r2, r3, bad, c1

MCRows == {r1, r2, r3, bad}
MCRowsNoBad == {r1, r2, r3}
MCStartTime == (r1 :> 1) @@ (r2 :> 2) @@ (r3 :> 2) @@ (bad :> 3)
MCStartTimeNoBad == [r \in MCRowsNoBad |-> MCStartTime[r]]
MCUnparsable == {bad}
=============================================================================
