---------------------------- MODULE AtLeastOnce ----------------------------
(***************************************************************************)
(* What a log shipper with a persistent checkpoint promises, without its   *)
(* passes, pages, files and failures.                                      *)
(*                                                                         *)
(* Items are offered by a source and may expire there.  The shipper logs   *)
(* an offered item, any number of times, until it closes it; it closes an  *)
(* item only after logging it or once it has expired, and a closed item is *)
(* never logged again and never reopened.                                  *)
(***************************************************************************)
EXTENDS Naturals

CONSTANT Items

VARIABLES
    offered,    \* items the source has offered so far
    expired,    \* those it no longer offers
    logged,     \* logged[i]: how often i was logged
    closed      \* items the checkpoint excludes from now on

vars == <<offered, expired, logged, closed>>

Init ==
    /\ offered = {}
    /\ expired = {}
    /\ logged = [i \in Items |-> 0]
    /\ closed = {}

Offer(i) ==
    /\ i \notin offered
    /\ offered' = offered \cup {i}
    /\ UNCHANGED <<expired, logged, closed>>

Expire(i) ==
    /\ i \in offered \ expired
    /\ expired' = expired \cup {i}
    /\ UNCHANGED <<offered, logged, closed>>

Log(i) ==
    /\ i \in offered \ closed
    /\ logged' = [logged EXCEPT ![i] = @ + 1]
    /\ UNCHANGED <<offered, expired, closed>>

Close ==
    /\ closed \subseteq closed'
    /\ closed' \subseteq offered
    /\ \A i \in closed' \ closed : logged[i] > 0 \/ i \in expired
    /\ UNCHANGED <<offered, expired, logged>>

Next ==
    \/ \E i \in Items : Offer(i) \/ Expire(i) \/ Log(i)
    \/ Close

Spec == Init /\ [][Next]_vars
=============================================================================
