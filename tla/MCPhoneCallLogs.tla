-------------------------- MODULE MCPhoneCallLogs --------------------------
(***************************************************************************)
(* PhoneCallLogs for TLC.  Phone 1 was already collected by a release with *)
(* legacy watermarks (o1, o2); n1, d1 and n2 are new calls on phone 1, m1  *)
(* is one on phone 2, bad an old row of phone 1 that does not parse.  Zone *)
(* "west" ends its daylight saving between wall clocks 3 and 4, so that 3  *)
(* comes twice: d1 may appear after n1.                                    *)
(***************************************************************************)
EXTENDS PhoneCallLogs, TLC

CONSTANTS o1, o2, n1, n2, d1, m1, bad

MCOffset(z, w) == IF z = "plain" THEN 0 ELSE IF w >= 4 THEN 2 ELSE 1

\* Each phone has calls in one list only, as in the recorded phone fixtures.
OneListRows == {o1, o2, d1, n1, m1, bad}
OneListPhone == [r \in OneListRows |-> IF r = m1 THEN 2 ELSE 1]
OneListDirection == [r \in OneListRows |-> IF r = m1 THEN "missed" ELSE "placed"]
OneListWall == (o1 :> 1) @@ (o2 :> 2) @@ (d1 :> 3) @@ (n1 :> 4) @@ (m1 :> 1) @@ (bad :> 1)
OneListUnparsable == {bad}
OneListLegacy == <<<<bad, o1, o2>>, <<>>>>

\* One phone, two new calls in different lists.
TwoListRows == {n1, n2}
TwoListPhone == [r \in TwoListRows |-> 1]
TwoListDirection == (n1 :> "received") @@ (n2 :> "placed")
TwoListWall == (n1 :> 1) @@ (n2 :> 2)
TwoListLegacy == <<<<>>>>
=============================================================================
