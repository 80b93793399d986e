------------------------------ MODULE Backoff ------------------------------
(***************************************************************************)
(* The doubling backoff that lensclient.Client.backoff and                 *)
(* lensstream.Stream.backoff share line for line.                          *)
(***************************************************************************)
EXTENDS Naturals

\* One turn of the loop: doubling stops at the cap, before it could overflow.
DoubleUpTo(d, max) == IF d >= max \div 2 THEN max ELSE 2 * d

AtMost(d, max) == IF d > max THEN max ELSE d

\* Doubles once too often: n turns of the loop instead of n - 1.
backoff_extraTurn(min, max, n) ==
    LET d[k \in 0 .. n] == IF k = 0 THEN min ELSE DoubleUpTo(d[k - 1], max)
    IN  AtMost(d[n], max)

\* The delay before the n-th retry: n - 1 turns of the loop.
backoff(min, max, n) ==
    LET d[k \in 1 .. n] == IF k = 1 THEN min ELSE DoubleUpTo(d[k - 1], max)
    IN  AtMost(d[n], max)
=============================================================================
