-------------------------- MODULE MCPhonePolling ---------------------------
(***************************************************************************)
(* PhonePolling for TLC.                                                   *)
(***************************************************************************)
EXTENDS PhonePolling

Reading(u, n) == [UpTime |-> u, RxPackets |-> n, TxPackets |-> 1]
LastSecond == [days |-> 1, hours |-> 23, minutes |-> 59, seconds |-> 59]

\* A good reading, one with an hour too many, one with a malformed count.
MCStats ==
    { Reading(LastSecond, 1), Reading([LastSecond EXCEPT !.hours = 24], 1),
      Reading(LastSecond, Malformed) }
GoodStats == { Reading(LastSecond, 1) }

OneRecord(n, l, r) == [LineNumber |-> n, Label |-> l, registered |-> r]

\* Line 1 with two records that differ and two records without a number; two
\* lines, one of them line 1 with another label; none.
MCLineInfos ==
    { <<OneRecord("1", "desk", TRUE), OneRecord("", "desk", FALSE),
         OneRecord("1", "desk", FALSE), OneRecord("", "hall", TRUE)>>,
      <<OneRecord("2", "hall", FALSE), OneRecord("1", "hall", FALSE)>>,
      <<>> }

MCParams == <<"label", "address">>
Config(s1, s2) == [n \in Range(MCParams) |-> IF n = "label" THEN s1 ELSE s2]
MCConfigGets ==
    { Config("web", "phone"), Config("phone", "phone"),
      Config("phone", "omitted"), Config("phone", "invalid") }
=============================================================================
