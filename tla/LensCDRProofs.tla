--------------------------- MODULE LensCDRProofs ---------------------------
(***************************************************************************)
(* Proofs about LensCDR, for every set of rows, collectors and failures.   *)
(***************************************************************************)
EXTENDS LensCDR, TLAPS

\* advanceWatermark returns a watermark: it keeps the file's content well-formed.
LEMMA AdvanceType ==
    ASSUME NEW mark \in Watermark, NEW r \in Rows
    PROVE  advanceWatermark(mark, r) \in Watermark
  BY StartTimeAssumption DEF Watermark, advanceWatermark

\* One step of any actor preserves the types.
LEMMA TypeStep == TypeOK /\ [Next]_vars => TypeOK'
<1> SUFFICES ASSUME TypeOK, [Next]_vars PROVE TypeOK'
  OBVIOUS
<1> USE DEF TypeOK, PCs
<1>1. ASSUME NEW r \in Rows, Arrive(r) PROVE TypeOK'
  BY <1>1 DEF Arrive, pass
<1>2. ASSUME NEW r \in Rows, Expire(r) PROVE TypeOK'
  BY <1>2 DEF Expire, pass
<1>3. ASSUME NEW c \in Collectors, LoadWatermark(c) PROVE TypeOK'
  BY <1>3 DEF LoadWatermark, source, Watermark
<1>4. ASSUME NEW c \in Collectors, FirstPage(c) PROVE TypeOK'
  BY <1>4 DEF FirstPage, ServePage, source
<1>5. ASSUME NEW c \in Collectors, NextPage(c) PROVE TypeOK'
  BY <1>5 DEF NextPage, ServePage, source
<1>6. ASSUME NEW c \in Collectors, NEW r \in Rows, SkipRow(c, r) PROVE TypeOK'
  BY <1>6 DEF SkipRow, eventTimes, source
<1>7. ASSUME NEW c \in Collectors, NEW r \in Rows, EmitRow(c, r) PROVE TypeOK'
  BY <1>7, AdvanceType DEF EmitRow, eventTimes, source
<1>8. ASSUME NEW c \in Collectors, EndPage(c) PROVE TypeOK'
  BY <1>8 DEF EndPage, source
<1>9. ASSUME NEW c \in Collectors, SaveWatermark(c) PROVE TypeOK'
  BY <1>9 DEF SaveWatermark, Return, source, NoWatermark, Watermark
<1>10. ASSUME NEW c \in Collectors, PassFails(c) PROVE TypeOK'
  BY <1>10, FailuresAssumption DEF PassFails, Return, source, NoWatermark, Watermark
<1>11. ASSUME Crash PROVE TypeOK'
  BY <1>11, FailuresAssumption DEF Crash, source, NoWatermark, Watermark
<1>12. ASSUME UNCHANGED vars PROVE TypeOK'
  BY <1>12 DEF vars
<1> QED
  BY <1>1, <1>2, <1>3, <1>4, <1>5, <1>6, <1>7, <1>8, <1>9, <1>10, <1>11, <1>12
     DEF Next, PassStep

\* The watermark file and every pass stay well-typed: no failing step of
\* Collect or saveWatermark leaves a malformed watermark.
THEOREM TypeCorrect == Spec => []TypeOK
<1>1. Init => TypeOK
  BY FailuresAssumption DEF Init, TypeOK, PCs, NoWatermark, Watermark
<1> QED
  BY <1>1, TypeStep, PTL DEF Spec

----------------------------------------------------------------------------
(* No row is lost.  The inductive invariant says what a pass knows about    *)
(* the rows of the window at each of its points.                            *)

\* A watermark never runs ahead of the rows that have become queryable.
Known(mark) ==
    /\ mark.keys \subseteq arrived
    /\ mark.start = 0 \/ \E q \in arrived : mark.start <= StartTime[q]

\* Where a pass stands determines how far the cursor has come.
Shape(c) ==
    /\ snapshot[c] \subseteq arrived
    /\ served[c] \subseteq snapshot[c]
    /\ page[c] \subseteq served[c]
    /\ pc[c] \in {"idle", "loaded"} => snapshot[c] = {}
    /\ pc[c] \in {"query", "save"} => page[c] = {}
    /\ pc[c] = "save" => snapshot[c] \subseteq served[c]

Handled(c) == served[c] \ page[c]

Parsable == window \ Unparsable

\* What the pass has decided about the rows of the window.
Decided(c) ==
    /\ seen[c] \subseteq arrived
    /\ \A r \in Parsable :
        /\ Covered(r, checkpoint[c]) \/ r \in seen[c] => emitted[r] > 0
        /\ r \in Handled(c) => emitted[r] > 0
        /\ Covered(r, wm[c]) => emitted[r] > 0 \/ r \in snapshot[c] \ Handled(c)

\* A row that became queryable during the pass starts no earlier than any row
\* the cursor ranges over.
Ordered(c) ==
    pc[c] \notin {"idle", "loaded"} =>
        \A q \in window \ snapshot[c], s \in snapshot[c] :
            StartTime[s] <= StartTime[q]

PassInv(c) ==
    Known(checkpoint[c]) /\ Known(wm[c]) /\ Shape(c) /\ Decided(c) /\ Ordered(c)

NoLossInv ==
    /\ TypeOK
    /\ Known(stored)
    /\ NoRowLost
    /\ \A c \in Collectors : PassInv(c)

\* What advanceWatermark newly excludes: the row itself and earlier ones.
LEMMA AdvanceCovers ==
    ASSUME NEW mark \in Watermark, NEW r \in Rows, NEW q \in Rows,
           Covered(q, advanceWatermark(mark, r))
    PROVE  Covered(q, mark) \/ q = r \/ StartTime[q] < StartTime[r]
  BY StartTimeAssumption DEF Watermark, advanceWatermark, Covered

\* advanceWatermark keeps a watermark within what has become queryable.
LEMMA AdvanceKnown ==
    ASSUME TypeOK, NEW mark \in Watermark, Known(mark), NEW r \in arrived
    PROVE  Known(advanceWatermark(mark, r))
  BY StartTimeAssumption DEF Watermark, advanceWatermark, Known, TypeOK

\* A row that becomes queryable in start order is excluded by no watermark.
LEMMA ArrivalUncovered ==
    ASSUME TypeOK, NEW mark \in Watermark, Known(mark),
           NEW r \in Rows \ arrived, InOrder(r)
    PROVE  ~ Covered(r, mark)
  BY StartTimeAssumption DEF Watermark, Known, Covered, InOrder, TypeOK

\* Each step preserves the invariant when rows become queryable in start order.
LEMMA NoLossStep ==
    ASSUME LateArrivals = FALSE, NoLossInv, [Next]_vars
    PROVE  NoLossInv'
<1> USE DEF NoLossInv, PassInv
<1>t. TypeOK'
  BY TypeStep
<1> DEFINE Rest == Known(stored)' /\ NoRowLost' /\ \A d \in Collectors : PassInv(d)'
<1>1. ASSUME NEW r \in Rows, Arrive(r) PROVE Rest
  <2>1. InOrder(r) /\ r \notin arrived
    BY <1>1 DEF Arrive
  <2>2. Known(stored)' /\ NoRowLost'
    BY <1>1, <2>1, ArrivalUncovered DEF Arrive, Known, NoRowLost, Covered, TypeOK, pass
  <2>3. ASSUME NEW d \in Collectors PROVE PassInv(d)'
    <3>1. Known(checkpoint[d])' /\ Known(wm[d])'
      BY <1>1 DEF Arrive, Known, pass
    <3>2. Shape(d)'
      BY <1>1 DEF Arrive, Shape, pass
    <3>3. ~ Covered(r, checkpoint[d]) /\ ~ Covered(r, wm[d])
      BY <2>1, ArrivalUncovered DEF TypeOK
    <3>4. Decided(d)'
      BY <1>1, <2>1, <3>3 DEF Arrive, Decided, Handled, Parsable, Covered, Shape, TypeOK, pass
    <3>5. Ordered(d)'
      BY <1>1, <2>1 DEF Arrive, Ordered, Shape, InOrder, pass
    <3> QED BY <3>1, <3>2, <3>4, <3>5
  <2> QED BY <2>2, <2>3
<1>2. ASSUME NEW r \in Rows, Expire(r) PROVE Rest
  BY <1>2 DEF Expire, pass, Known, NoRowLost, Covered, Shape, Decided, Handled,
              Parsable, Ordered
<1>3. ASSUME NEW c \in Collectors, LoadWatermark(c) PROVE Rest
  <2>1. Known(stored)' /\ NoRowLost'
    BY <1>3 DEF LoadWatermark, source, Known, NoRowLost, Covered
  <2>2. ASSUME NEW d \in Collectors PROVE PassInv(d)'
    <3>1. Known(checkpoint[d])' /\ Known(wm[d])'
      BY <1>3 DEF LoadWatermark, source, Known, TypeOK
    <3>2. Shape(d)' /\ Ordered(d)'
      BY <1>3 DEF LoadWatermark, source, Shape, Ordered, TypeOK
    <3>3. Decided(d)'
      BY <1>3 DEF LoadWatermark, source, Decided, Handled, Parsable, Covered, Shape,
                  NoRowLost, Known, TypeOK
    <3> QED BY <3>1, <3>2, <3>3
  <2> QED BY <2>1, <2>2
<1>4. ASSUME NEW c \in Collectors, FirstPage(c) PROVE Rest
  <2>1. Known(stored)' /\ NoRowLost'
    BY <1>4 DEF FirstPage, ServePage, source, Known, NoRowLost, Covered
  <2>2. ASSUME NEW d \in Collectors PROVE PassInv(d)'
    <3>1. Known(checkpoint[d])' /\ Known(wm[d])'
      BY <1>4 DEF FirstPage, ServePage, source, Known
    <3>2. Shape(d)' /\ Ordered(d)'
      BY <1>4 DEF FirstPage, ServePage, source, Shape, Ordered, TypeOK
    <3>3. Decided(d)'
      BY <1>4 DEF FirstPage, ServePage, source, Decided, Handled, Parsable, Covered,
                  Shape, TypeOK
    <3> QED BY <3>1, <3>2, <3>3
  <2> QED BY <2>1, <2>2
<1>5. ASSUME NEW c \in Collectors, NextPage(c) PROVE Rest
  <2>1. Known(stored)' /\ NoRowLost'
    BY <1>5 DEF NextPage, ServePage, source, Known, NoRowLost, Covered
  <2>2. ASSUME NEW d \in Collectors PROVE PassInv(d)'
    <3>1. Known(checkpoint[d])' /\ Known(wm[d])'
      BY <1>5 DEF NextPage, ServePage, source, Known
    <3>2. Shape(d)' /\ Ordered(d)'
      BY <1>5 DEF NextPage, ServePage, source, Shape, Ordered, TypeOK
    <3>3. Decided(d)'
      BY <1>5 DEF NextPage, ServePage, source, Decided, Handled, Parsable, Covered,
                  Shape, TypeOK
    <3> QED BY <3>1, <3>2, <3>3
  <2> QED BY <2>1, <2>2
<1>6. ASSUME NEW c \in Collectors, NEW r \in Rows, SkipRow(c, r) PROVE Rest
  <2>1. Known(stored)' /\ NoRowLost'
    BY <1>6 DEF SkipRow, eventTimes, source, Known, NoRowLost, Covered
  <2>2. ASSUME NEW d \in Collectors PROVE PassInv(d)'
    <3>1. Known(checkpoint[d])' /\ Known(wm[d])'
      BY <1>6 DEF SkipRow, eventTimes, source, Known
    <3>2. Shape(d)' /\ Ordered(d)'
      BY <1>6 DEF SkipRow, eventTimes, source, Shape, Ordered, TypeOK
    <3>3. r \in Parsable => emitted[r] > 0
      BY <1>6, StartTimeAssumption
         DEF SkipRow, eventTimes, isNew, Decided, Parsable, Covered, TypeOK, Watermark
    <3>4. Decided(d)'
      BY <1>6, <3>3 DEF SkipRow, eventTimes, source, Decided, Handled, Parsable, Covered,
                  Shape, TypeOK
    <3> QED BY <3>1, <3>2, <3>4
  <2> QED BY <2>1, <2>2
<1>7. ASSUME NEW c \in Collectors, NEW r \in Rows, EmitRow(c, r) PROVE Rest
  <2>1. /\ emitted' = [emitted EXCEPT ![r] = @ + 1]
        /\ \A q \in Rows : emitted[q] > 0 => emitted'[q] > 0
        /\ emitted'[r] > 0
        /\ r \in page[c] /\ r \in arrived /\ r \in snapshot[c]
    BY <1>7 DEF EmitRow, eventTimes, TypeOK, Shape
  <2>2. Known(stored)' /\ NoRowLost'
    BY <1>7, <2>1 DEF EmitRow, eventTimes, source, Known, NoRowLost, Covered, TypeOK
  <2>3. ASSUME NEW d \in Collectors PROVE PassInv(d)'
    <3>1. Known(checkpoint[d])'
      BY <1>7 DEF EmitRow, eventTimes, source, Known
    <3>2. Known(wm[d])'
      <4>1. CASE d = c
        <5>1. Known(advanceWatermark(wm[c], r))
          BY <2>1, AdvanceKnown DEF TypeOK
        <5> QED BY <1>7, <4>1, <5>1 DEF EmitRow, eventTimes, source, Known, TypeOK
      <4>2. CASE d # c
        BY <1>7, <4>2 DEF EmitRow, eventTimes, source, Known, TypeOK
      <4> QED BY <4>1, <4>2
    <3>3. Shape(d)' /\ Ordered(d)'
      BY <1>7 DEF EmitRow, eventTimes, source, Shape, Ordered, TypeOK
    <3>4. Decided(d)'
      <4>1. CASE d # c
        BY <1>7, <2>1, <4>1 DEF EmitRow, eventTimes, source, Decided, Handled, Parsable, Covered,
                    Shape, TypeOK
      <4>2. CASE d = c
        <5>1. /\ (seen[c])' = seen[c] \cup {r}
              /\ Handled(c)' = Handled(c) \cup {r}
              /\ Parsable' = Parsable /\ snapshot' = snapshot
              /\ checkpoint' = checkpoint /\ arrived' = arrived
              /\ (wm[c])' = advanceWatermark(wm[c], r)
          BY <1>7, <2>1 DEF EmitRow, eventTimes, source, Handled, Parsable, Shape, TypeOK
        <5>2. ASSUME NEW q \in Parsable, Covered(q, advanceWatermark(wm[c], r))
              PROVE  emitted'[q] > 0 \/ q \in snapshot[c] \ Handled(c)'
          <6>1. q \in Rows /\ wm[c] \in Watermark
            BY DEF Parsable, TypeOK
          <6>2. Covered(q, wm[c]) \/ q = r \/ StartTime[q] < StartTime[r]
            BY <5>2, <6>1, AdvanceCovers
          <6>3. CASE q = r
            BY <6>3, <2>1
          <6>4. CASE Covered(q, wm[c]) /\ q # r
            BY <6>1, <6>4, <5>1, <2>1 DEF Decided
          <6>5. CASE StartTime[q] < StartTime[r] /\ q # r
            <7>1. q \in snapshot[c]
              BY <6>1, <6>5, <1>7, <2>1, StartTimeAssumption
                 DEF Ordered, EmitRow, eventTimes, Parsable
            <7>2. q \in Handled(c) => emitted'[q] > 0
              BY <6>1, <2>1 DEF Decided
            <7> QED BY <5>1, <6>5, <7>1, <7>2
          <6> QED BY <6>2, <6>3, <6>4, <6>5
        <5>3. ASSUME NEW q \in Parsable
              PROVE  /\ Covered(q, checkpoint[c]) \/ q \in seen[c] \cup {r} => emitted'[q] > 0
                     /\ q \in Handled(c) \cup {r} => emitted'[q] > 0
          BY <2>1 DEF Decided, Parsable, TypeOK
        <5>4. seen[c] \cup {r} \subseteq arrived
          BY <2>1 DEF Decided
        <5> QED BY <4>2, <5>1, <5>2, <5>3, <5>4 DEF Decided, Covered
      <4> QED BY <4>1, <4>2
    <3> QED BY <3>1, <3>2, <3>3, <3>4
  <2> QED BY <2>2, <2>3
<1>8. ASSUME NEW c \in Collectors, EndPage(c) PROVE Rest
  <2>1. Known(stored)' /\ NoRowLost'
    BY <1>8 DEF EndPage, source, Known, NoRowLost, Covered
  <2>2. ASSUME NEW d \in Collectors PROVE PassInv(d)'
    BY <1>8 DEF EndPage, source, Known, Shape, Decided, Handled, Parsable, Covered,
                Ordered, TypeOK
  <2> QED BY <2>1, <2>2
<1>9. ASSUME NEW c \in Collectors, SaveWatermark(c) PROVE Rest
  <2>1. Known(stored)'
    BY <1>9 DEF SaveWatermark, source, Known
  <2>2. NoRowLost'
    BY <1>9 DEF SaveWatermark, source, NoRowLost, Decided, Handled, Shape, Parsable,
                Covered, TypeOK
  <2>3. ASSUME NEW d \in Collectors PROVE PassInv(d)'
    BY <1>9 DEF SaveWatermark, Return, source, Known, Shape, Decided, Handled,
                Parsable, Covered, Ordered, NoWatermark, TypeOK
  <2> QED BY <2>1, <2>2, <2>3
<1>10. ASSUME NEW c \in Collectors, PassFails(c) PROVE Rest
  <2>1. Known(stored)' /\ NoRowLost'
    BY <1>10 DEF PassFails, source, Known, NoRowLost, Covered
  <2>2. ASSUME NEW d \in Collectors PROVE PassInv(d)'
    BY <1>10 DEF PassFails, Return, source, Known, Shape, Decided, Handled,
                Parsable, Covered, Ordered, NoWatermark, TypeOK
  <2> QED BY <2>1, <2>2
<1>11. ASSUME Crash PROVE Rest
  BY <1>11 DEF Crash, source, Known, NoRowLost, Shape, Decided, Handled,
               Parsable, Covered, Ordered, NoWatermark, TypeOK
<1>12. ASSUME UNCHANGED vars PROVE Rest
  BY <1>12 DEF vars, Known, NoRowLost, Shape, Decided, Handled, Parsable, Covered, Ordered
<1>13. Rest
  BY <1>1, <1>2, <1>3, <1>4, <1>5, <1>6, <1>7, <1>8, <1>9, <1>10, <1>11, <1>12
     DEF Next, PassStep
<1> QED
  BY <1>t, <1>13

\* The initial state satisfies the no-loss invariant.
LEMMA NoLossInit == Init => NoLossInv
  BY FailuresAssumption
     DEF Init, NoLossInv, PassInv, TypeOK, PCs, NoWatermark, Watermark, Known,
         NoRowLost, Shape, Decided, Handled, Parsable, Covered, Ordered

\* For any rows, any number of collectors on one watermark file and any failures:
\* when rows become queryable in start order, Collect never passes a row over.
THEOREM NoLoss ==
    ASSUME LateArrivals = FALSE
    PROVE  Spec => []NoRowLost
<1>1. Init => NoLossInv
  BY NoLossInit
<1>2. NoLossInv /\ [Next]_vars => NoLossInv'
  BY NoLossStep
<1>3. NoLossInv => NoRowLost
  BY DEF NoLossInv
<1> QED
  BY <1>1, <1>2, <1>3, PTL DEF Spec

----------------------------------------------------------------------------
(* One collector per tenant: replay only after a failure, and no save       *)
(* reopens what an earlier one closed.                                      *)

\* A watermark names only keys of its own instant.
WellFormed(mark) == \A q \in mark.keys : StartTime[q] = mark.start

\* What was excluded stays excluded when the watermark advances.
LEMMA AdvanceKeeps ==
    ASSUME NEW mark \in Watermark, WellFormed(mark), NEW r \in Rows
    PROVE  /\ WellFormed(advanceWatermark(mark, r))
           /\ Covered(r, advanceWatermark(mark, r))
           /\ \A q \in Rows : Covered(q, mark) => Covered(q, advanceWatermark(mark, r))
<1>1. CASE mark.start = 0 \/ StartTime[r] > mark.start
  BY <1>1, StartTimeAssumption DEF Watermark, advanceWatermark, Covered, WellFormed
<1>2. CASE mark.start # 0 /\ StartTime[r] = mark.start
  BY <1>2, StartTimeAssumption DEF Watermark, advanceWatermark, Covered, WellFormed
<1>3. CASE mark.start # 0 /\ StartTime[r] < mark.start
  BY <1>3, StartTimeAssumption DEF Watermark, advanceWatermark, Covered, WellFormed
<1> QED
  BY <1>1, <1>2, <1>3, StartTimeAssumption DEF Watermark

\* The rows a pass has logged or excluded so far, or the file excludes.
Closed(c, r) == Covered(r, stored) \/ r \in seen[c]

\* A running pass compares with the file's own watermark, and the watermark it
\* will save excludes everything it has seen.
PassSync(c) ==
    /\ WellFormed(wm[c])
    /\ pc[c] = "idle" => seen[c] = {}
    /\ pc[c] # "idle" =>
          /\ checkpoint[c] = stored
          /\ stored.keys \subseteq seen[c]
          /\ \A r \in Rows : Closed(c, r) => Covered(r, wm[c])

Counted(c) ==
    \A r \in Rows : /\ emitted[r] <= failures + 1
                    /\ ~ Closed(c, r) => emitted[r] <= failures

ReplayInv(c) == TypeOK /\ WellFormed(stored) /\ PassSync(c) /\ Counted(c)

\* Each step of the single collector preserves the replay invariant and never
\* reopens a row the watermark file excludes.
LEMMA ReplayStep ==
    ASSUME NEW c, Collectors = {c}, ReplayInv(c), [Next]_vars
    PROVE  /\ ReplayInv(c)'
           /\ \A r \in Rows : Covered(r, stored) => Covered(r, stored')
<1> USE DEF ReplayInv
<1>t. TypeOK'
  BY TypeStep
<1> DEFINE Rest == /\ WellFormed(stored)' /\ PassSync(c)' /\ Counted(c)'
                   /\ \A r \in Rows : Covered(r, stored) => Covered(r, stored')
<1>1. ASSUME NEW r \in Rows, Arrive(r) \/ Expire(r) PROVE Rest
  BY <1>1 DEF Arrive, Expire, pass, WellFormed, PassSync, Counted, Closed, Covered
<1>3. ASSUME LoadWatermark(c) PROVE Rest
  BY <1>3 DEF LoadWatermark, source, WellFormed, PassSync, Counted, Closed, Covered, TypeOK
<1>4. ASSUME FirstPage(c) \/ NextPage(c) PROVE Rest
  BY <1>4 DEF FirstPage, NextPage, ServePage, source, WellFormed, PassSync, Counted,
              Closed, Covered, TypeOK
<1>6. ASSUME NEW r \in Rows, SkipRow(c, r) PROVE Rest
  BY <1>6 DEF SkipRow, eventTimes, source, WellFormed, PassSync, Counted, Closed, Covered, TypeOK
<1>7. ASSUME NEW r \in Rows, EmitRow(c, r) PROVE Rest
  <2>1. wm[c] \in Watermark /\ stored \in Watermark /\ pc[c] # "idle"
    BY <1>7 DEF EmitRow, eventTimes, TypeOK
  <2>2. /\ (wm[c])' = advanceWatermark(wm[c], r)
        /\ (seen[c])' = seen[c] \cup {r}
        /\ stored' = stored /\ pc' = pc /\ checkpoint' = checkpoint
        /\ failures' = failures
        /\ emitted' = [emitted EXCEPT ![r] = @ + 1]
    BY <1>7 DEF EmitRow, eventTimes, TypeOK
  <2>3. ~ Closed(c, r)
    BY <1>7, <2>1, StartTimeAssumption
       DEF EmitRow, eventTimes, isNew, PassSync, Closed, Covered, Watermark
  <2>4. PassSync(c)'
    BY <2>1, <2>2, AdvanceKeeps DEF PassSync, Closed, WellFormed, Covered
  <2>5. Counted(c)'
    BY <2>2, <2>3 DEF Counted, Closed, Covered, TypeOK
  <2> QED BY <2>2, <2>4, <2>5 DEF WellFormed, Covered
<1>8. ASSUME EndPage(c) PROVE Rest
  BY <1>8 DEF EndPage, source, WellFormed, PassSync, Counted, Closed, Covered, TypeOK
<1>9. ASSUME SaveWatermark(c) PROVE Rest
  <2>1. /\ pc[c] = "save" /\ stored' = wm[c] /\ emitted' = emitted
        /\ failures' = failures /\ (pc[c])' = "idle" /\ (seen[c])' = {}
        /\ (wm[c])' = NoWatermark
    BY <1>9 DEF SaveWatermark, Return, TypeOK
  <2> QED
    BY <2>1 DEF WellFormed, PassSync, Counted, Closed, Covered, NoWatermark, TypeOK
<1>10. ASSUME PassFails(c) \/ Crash PROVE Rest
  <2>1. /\ stored' = stored /\ emitted' = emitted
        /\ failures' = failures + 1 /\ (pc[c])' = "idle" /\ (seen[c])' = {}
        /\ (wm[c])' = NoWatermark
    BY <1>10 DEF PassFails, Crash, Return, TypeOK
  <2> QED
    BY <2>1 DEF WellFormed, PassSync, Counted, Closed, Covered, NoWatermark, TypeOK
<1>12. ASSUME UNCHANGED vars PROVE Rest
  BY <1>12 DEF vars, WellFormed, PassSync, Counted, Closed, Covered
<1>13. Rest
  BY <1>1, <1>3, <1>4, <1>6, <1>7, <1>8, <1>9, <1>10, <1>12 DEF Next, PassStep
<1> QED
  BY <1>t, <1>13

\* The initial state satisfies the replay invariant.
LEMMA ReplayInit ==
    ASSUME NEW c, Collectors = {c}, Init
    PROVE  ReplayInv(c)
  BY FailuresAssumption
     DEF Init, ReplayInv, TypeOK, PCs, NoWatermark, Watermark, WellFormed, PassSync,
         Counted, Closed, Covered

\* With one collector per tenant, only a failed pass or a crash makes Collect log
\* a row again, and never more than once for each.
THEOREM Replay ==
    ASSUME NEW c, Collectors = {c}
    PROVE  Spec => []ReplayOnlyAfterFailure
<1>1. Init => ReplayInv(c)
  BY ReplayInit
<1>2. ReplayInv(c) /\ [Next]_vars => ReplayInv(c)'
  BY ReplayStep
<1>3. ReplayInv(c) => ReplayOnlyAfterFailure
  BY DEF ReplayInv, Counted, ReplayOnlyAfterFailure
<1> QED
  BY <1>1, <1>2, <1>3, PTL DEF Spec

----------------------------------------------------------------------------
(* Refinement: the collector implements AtLeastOnce.  Both inductive        *)
(* invariants are needed: the first says that what a save closes was logged *)
(* or has expired, the second that nothing closed is reopened or logged.    *)

\* The mapped variables.
offered == arrived \ Unparsable
expired == (arrived \ window) \ Unparsable
closed == {r \in arrived \ Unparsable : Covered(r, stored)}
logged == [r \in Rows \ Unparsable |-> emitted[r]]

\* A row that Collect logs is open: the file does not exclude it.
LEMMA EmitsOpen ==
    ASSUME NEW c \in Collectors, ReplayInv(c), NoLossInv, NEW r \in Rows, EmitRow(c, r)
    PROVE  r \in offered \ closed
<1>1. /\ r \in page[c] /\ r \notin Unparsable /\ pc[c] # "idle"
      /\ isNew(r, checkpoint[c], seen[c])
  BY DEF EmitRow, eventTimes
<1>2. r \in arrived
  BY <1>1 DEF NoLossInv, PassInv, Shape
<1>3. ~ Covered(r, stored)
  BY <1>1, StartTimeAssumption
     DEF isNew, ReplayInv, PassSync, Covered, Watermark, TypeOK
<1> QED BY <1>1, <1>2, <1>3 DEF offered, closed

\* Every step of the collector or the service is an abstract step or a stutter.
LEMMA RefinementStep ==
    ASSUME NEW c, Collectors = {c}, LateArrivals = FALSE,
           NoLossInv, ReplayInv(c), [Next]_vars
    PROVE  [Ledger!Next]_(Ledger!vars)
<1> DEFINE Same == /\ offered' = offered /\ expired' = expired
                   /\ logged' = logged /\ closed' = closed
           Step == Same \/ Ledger!Next
<1>t. TypeOK
  BY DEF ReplayInv
<1>1. ASSUME NEW r \in Rows, Arrive(r) PROVE Step
  <2>1. ~ Covered(r, stored) /\ r \notin arrived
    BY <1>1, <1>t, ArrivalUncovered DEF Arrive, NoLossInv, TypeOK
  <2>2. CASE r \in Unparsable
    BY <1>1, <2>2 DEF Arrive, offered, expired, logged, closed, pass
  <2>3. CASE r \notin Unparsable
    <3>1. offered' = offered \cup {r} /\ r \notin offered
      BY <1>1, <2>1, <2>3 DEF Arrive, offered
    <3>2. expired' = expired /\ logged' = logged
      BY <1>1, <2>1 DEF Arrive, expired, logged
    <3>3. closed' = closed
      BY <1>1, <2>1 DEF Arrive, closed
    <3>4. Ledger!Offer(r)
      BY <3>1, <3>2, <3>3 DEF Ledger!Offer, offered, expired, logged, closed
    <3> QED BY <2>3, <3>4 DEF Ledger!Next
  <2> QED BY <2>2, <2>3
<1>2. ASSUME NEW r \in Rows, Expire(r) PROVE Step
  <2>1. /\ r \in window /\ r \in arrived /\ window' = window \ {r}
        /\ offered' = offered /\ logged' = logged /\ closed' = closed
        /\ arrived' = arrived
    BY <1>2, <1>t DEF Expire, offered, logged, closed, TypeOK
  <2>2. CASE r \in Unparsable
    BY <2>1, <2>2 DEF expired
  <2>3. CASE r \notin Unparsable
    <3>1. expired' = expired \cup {r} /\ r \in offered \ expired
      BY <2>1, <2>3 DEF expired, offered
    <3>2. Ledger!Expire(r)
      BY <2>1, <3>1 DEF Ledger!Expire, offered, expired, logged, closed
    <3> QED BY <2>3, <3>2 DEF Ledger!Next
  <2> QED BY <2>2, <2>3
<1>3. ASSUME NEW r \in Rows, EmitRow(c, r) PROVE Step
  <2>1. r \in offered \ closed
    BY <1>3, EmitsOpen
  <2>2. r \in Rows \ Unparsable
    BY <2>1 DEF offered
  <2>3. /\ arrived' = arrived /\ window' = window /\ stored' = stored
        /\ emitted' = [emitted EXCEPT ![r] = @ + 1]
    BY <1>3 DEF EmitRow, source
  <2>4. logged' = [logged EXCEPT ![r] = @ + 1]
    BY <2>2, <2>3, <1>t DEF logged, TypeOK
  <2>5. offered' = offered /\ expired' = expired /\ closed' = closed
    BY <2>3 DEF offered, expired, closed
  <2>6. Ledger!Log(r)
    BY <2>1, <2>4, <2>5 DEF Ledger!Log, offered, expired, logged, closed
  <2> QED BY <2>2, <2>6 DEF Ledger!Next
<1>4. ASSUME SaveWatermark(c) PROVE Step
  <2>1. /\ arrived' = arrived /\ window' = window /\ emitted' = emitted
    BY <1>4 DEF SaveWatermark, source
  <2>2. offered' = offered /\ expired' = expired /\ logged' = logged
    BY <2>1 DEF offered, expired, logged
  <2>3. closed \subseteq closed'
    <3>1. \A r \in Rows : Covered(r, stored) => Covered(r, stored')
      BY ReplayStep
    <3> QED BY <2>1, <3>1, <1>t DEF closed, TypeOK, Covered
  <2>4. closed' \subseteq offered
    BY <2>1 DEF closed, offered
  <2>5. ASSUME NEW r \in closed' \ closed
        PROVE  logged[r] > 0 \/ r \in expired
    <3>1. r \in arrived \ Unparsable /\ r \in Rows \ Unparsable /\ Covered(r, stored)'
      BY <2>1, <2>5, <1>t DEF closed, TypeOK
    <3>2. NoRowLost'
      BY NoLossStep DEF NoLossInv
    <3>3. r \in window => emitted[r] > 0
      BY <2>1, <3>1, <3>2 DEF NoRowLost
    <3> QED BY <3>1, <3>3 DEF logged, expired
  <2>6. Ledger!Close
    BY <2>2, <2>3, <2>4, <2>5 DEF Ledger!Close, offered, expired, logged, closed
  <2> QED BY <2>6 DEF Ledger!Next
<1>5. ASSUME UNCHANGED <<arrived, window, stored, emitted>> PROVE Step
  BY <1>5 DEF offered, expired, logged, closed
<1>6. ASSUME \/ LoadWatermark(c) \/ FirstPage(c) \/ NextPage(c) \/ EndPage(c)
             \/ (\E r \in Rows : SkipRow(c, r)) \/ PassFails(c) \/ Crash
             \/ UNCHANGED vars
      PROVE  UNCHANGED <<arrived, window, stored, emitted>>
  BY <1>6 DEF LoadWatermark, FirstPage, NextPage, ServePage, EndPage, SkipRow,
              PassFails, Crash, source, vars
<1>7. Step
  BY <1>1, <1>2, <1>3, <1>4, <1>5, <1>6 DEF Next, PassStep
<1> QED
  BY <1>7 DEF Ledger!vars, offered, expired, logged, closed

\* For any rows and any failures: with one collector per tenant and rows that
\* become queryable in start order, Collect and its watermark file implement the
\* abstract at-least-once shipper.
THEOREM Refinement ==
    ASSUME NEW c, Collectors = {c}, LateArrivals = FALSE
    PROVE  Spec => ImplementsAtLeastOnce
<1>1. Init => NoLossInv /\ ReplayInv(c) /\ Ledger!Init
  <2>1. Init => NoLossInv
    BY NoLossInit
  <2>2. Init => ReplayInv(c)
    BY ReplayInit
  <2>3. Init => Ledger!Init
    BY DEF Init, Ledger!Init
  <2> QED BY <2>1, <2>2, <2>3
<1>2. NoLossInv /\ [Next]_vars => NoLossInv'
  BY NoLossStep
<1>3. ReplayInv(c) /\ [Next]_vars => ReplayInv(c)'
  BY ReplayStep
<1>4. NoLossInv /\ ReplayInv(c) /\ [Next]_vars => [Ledger!Next]_(Ledger!vars)
  BY RefinementStep
<1> QED
  BY <1>1, <1>2, <1>3, <1>4, PTL DEF Spec, ImplementsAtLeastOnce, Ledger!Spec

=============================================================================
