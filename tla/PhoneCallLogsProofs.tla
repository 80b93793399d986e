------------------------ MODULE PhoneCallLogsProofs ------------------------
(***************************************************************************)
(* Proofs about PhoneCallLogs for any phones, rows, zones, failures and    *)
(* timezone changes.                                                       *)
(***************************************************************************)
EXTENDS PhoneCallLogs, FiniteSetTheorems, TLAPS

----------------------------------------------------------------------------
(* The inductive invariants. *)

\* The pass is at a phone whose watermark it has loaded.
Open == pc \in {"opened", "rows", "count", "save"}

\* Rows are only uncounted while a phone is open and its rows are handled.
Uncounted == pc \notin {"rows", "count"} => callsByDirection = NoCalls

KeysSeen == Open => checkpoint.keys \subseteq seen

\* A phone shows its own rows, and a pass handles those of the phone it is at.
OwnRows ==
    /\ \A p \in Phones : \A r \in ElementsOf(log[p]) : PhoneOf[r] = p
    /\ pc = "rows" => \A r \in ElementsOf(entries) : PhoneOf[r] = cur

\* A pass that reads mark in zone z passes over r because of when it was, whatever
\* rows it logs before.
Settled(r, mark, z) ==
    /\ mark.start # 0
    /\ \/ Instant(r, z) < mark.start
       \/ Instant(r, z) = mark.start /\ Wall[r] \in mark.keys

\* How often anything can have gone wrong.
Incidents == failures + zoneChanges

\* The zone of the open phone was changed after the pass had read it.
Moved == IF location # zone[cur] THEN 1 ELSE 0

\* A row is only logged again after an incident; a row that an idle pass, or a pass at
\* another phone, may log again has had its incident already.
StoredReplay ==
    \A r \in Rows :
        LET p == PhoneOf[r] IN
        ~ (Open /\ p = cur) /\ ~ Settled(r, loadWatermark(stored[p], zone[p]), zone[p])
            => emitted[r] <= Incidents

\* The same for the open phone, in the zone the pass has read.
OpenReplay ==
    Open => \A r \in Rows :
        PhoneOf[r] = cur =>
            /\ emitted[r] + Moved <= 1 + Incidents
            /\ ~ Settled(r, checkpoint, location) => emitted[r] + Moved <= Incidents

ReplayInv == KeysSeen /\ ReplayOnlyAfterFailure /\ StoredReplay /\ OpenReplay

----------------------------------------------------------------------------

\* A mark with this start and these keys stands at rows that s shows, and the rows in
\* turn that it excludes in zone z were logged.
MarkSound(start, keys, z, s, em) ==
    /\ start = 0 \/ \E q \in ElementsOf(s) \ Unparsable : start = Instant(q, z)
    /\ \A k \in keys : \E q \in ElementsOf(s) \ Unparsable : k = Wall[q]
    /\ \A r \in Rows \ Unparsable :
          InTurn(s, r) /\ (Wall[r] \in keys \/ (start # 0 /\ Instant(r, z) < start))
              => em[r] > 0

StoredSound ==
    \A p \in Phones :
        LET mark == loadWatermark(stored[p], zone[p])
        IN  MarkSound(mark.start, mark.keys, zone[p], log[p], emitted)

PassSound ==
    Open => /\ location = zone[cur]
            /\ MarkSound(checkpoint.start, seen, location, log[cur], emitted)

\* Every parsable row of s has an earlier wall clock than r.
Later(r, s) == \A e \in ElementsOf(s) \ Unparsable : Wall[e] < Wall[r]

\* While rows are handled, a row in turn was logged, is still to come in turn, or is
\* later than all that are still to come.
RowsSound ==
    pc = "rows" =>
        /\ ElementsOf(entries) \subseteq ElementsOf(log[cur])
        /\ \A r \in Rows \ Unparsable :
              InTurn(log[cur], r) => emitted[r] > 0 \/ InTurn(entries, r) \/ Later(r, entries)

LostInv == zoneChanges = 0 => StoredSound /\ PassSound /\ RowsSound

\* Every phone has calls in one list only.
OneList == \A q, r \in Rows : PhoneOf[q] = PhoneOf[r] => DirectionOf[q] = DirectionOf[r]

----------------------------------------------------------------------------
(* Marks. *)

LEMMA MakeMark ==
    ASSUME NEW n \in Nat, NEW K \in SUBSET Nat
    PROVE  [version |-> 1, start |-> n, keys |-> K] \in Watermark
  BY DEF Watermark

LEMMA MarkFields ==
    ASSUME NEW mark \in Watermark
    PROVE  mark.version = 1 /\ mark.start \in Nat /\ mark.keys \in SUBSET Nat
  BY DEF Watermark

LEMMA RowFields ==
    ASSUME NEW r \in Rows
    PROVE  /\ Wall[r] \in Nat \ {0} /\ PhoneOf[r] \in Phones /\ DirectionOf[r] \in Directions
           /\ \A z \in Zones : Instant(r, z) \in Nat \ {0}
<1>1. Wall[r] \in Nat \ {0} /\ Wall[r] \in Walls
  BY RowsAssumption DEF Walls
<1>2. \A z \in Zones : Offset(z, Wall[r]) \in Nat
  BY <1>1, ZonesAssumption
<1> QED
  BY <1>1, <1>2, RowsAssumption DEF Instant

\* A zone's rules keep the order of wall clocks.
LEMMA InstantOrder ==
    ASSUME NEW z \in Zones, NEW q \in Rows, NEW r \in Rows
    PROVE  /\ Wall[q] < Wall[r] => Instant(q, z) < Instant(r, z)
           /\ Wall[q] = Wall[r] => Instant(q, z) = Instant(r, z)
           /\ Instant(r, z) < Instant(q, z) => Wall[r] < Wall[q]
<1>1. Wall[q] \in Walls /\ Wall[r] \in Walls /\ Wall[q] \in Nat /\ Wall[r] \in Nat
  BY RowsAssumption DEF Walls
<1>2. Wall[q] < Wall[r] => Instant(q, z) < Instant(r, z)
  BY <1>1, ZonesAssumption DEF Instant
<1>3. Wall[q] = Wall[r] => Instant(q, z) = Instant(r, z)
  BY DEF Instant
<1>4. Instant(q, z) \in Nat /\ Instant(r, z) \in Nat
  BY RowFields
<1> QED
  BY <1>1, <1>2, <1>3, <1>4

LEMMA LoadFacts ==
    ASSUME NEW mark \in LegacyWatermark \cup Watermark, NEW z \in Zones
    PROVE  /\ loadWatermark(mark, z) \in Watermark
           /\ loadWatermark(mark, z).keys = mark.keys
           /\ loadWatermark(mark, z).start
              = IF mark.version = 0 /\ mark.start # 0
                THEN mark.start + Offset(z, mark.start) ELSE mark.start
<1>1. CASE mark \in Watermark
  BY <1>1, MarkFields DEF loadWatermark
<1>2. CASE mark \in LegacyWatermark
  <2> DEFINE start == IF mark.start = 0 THEN 0 ELSE mark.start + Offset(z, mark.start)
  <2>1. /\ mark.version = 0 /\ mark.start \in {0} \cup Walls /\ mark.keys \in SUBSET Nat
        /\ mark = [version |-> 0, start |-> mark.start, keys |-> mark.keys]
    BY <1>2 DEF LegacyWatermark
  <2>2. Walls \subseteq Nat
    BY RowsAssumption DEF Walls
  <2>3. start \in Nat
    BY <2>1, <2>2, ZonesAssumption
  <2>4. migrateLegacy(mark, z) = [version |-> 1, start |-> start, keys |-> mark.keys]
    <3>1. migrateLegacy(mark, z) = [mark EXCEPT !.version = 1, !.start = start]
      BY DEF migrateLegacy
    <3> HIDE DEF start
    <3> QED BY <2>1, <3>1
  <2>5. loadWatermark(mark, z) = migrateLegacy(mark, z)
    BY <2>1 DEF loadWatermark
  <2>6. start = IF mark.version = 0 /\ mark.start # 0
                THEN mark.start + Offset(z, mark.start) ELSE mark.start
    BY <2>1
  <2> HIDE DEF start
  <2>7. loadWatermark(mark, z) \in Watermark
    BY <2>1, <2>3, <2>4, <2>5, MakeMark
  <2>8. loadWatermark(mark, z).start = start /\ loadWatermark(mark, z).keys = mark.keys
    BY <2>4, <2>5
  <2> QED BY <2>6, <2>7, <2>8
<1> QED
  BY <1>1, <1>2

\* What saveWatermark writes is read back as it was.
LEMMA SaveFacts ==
    ASSUME NEW mark \in Watermark, NEW z \in Zones
    PROVE  LET saved == [mark EXCEPT !.version = 1] IN
           /\ saved \in Watermark
           /\ loadWatermark(saved, z).start = mark.start
           /\ loadWatermark(saved, z).keys = mark.keys
<1> DEFINE saved == [mark EXCEPT !.version = 1]
<1>1. saved = [version |-> 1, start |-> mark.start, keys |-> mark.keys]
  BY DEF Watermark
<1>2. saved \in Watermark
  BY <1>1, MakeMark, MarkFields
<1>3. saved.version = 1 /\ saved.start = mark.start /\ saved.keys = mark.keys
  BY <1>1
<1> HIDE DEF saved
<1>4. /\ loadWatermark(saved, z).start = mark.start
      /\ loadWatermark(saved, z).keys = mark.keys
  BY <1>3 DEF loadWatermark
<1> QED
  BY <1>2, <1>4 DEF saved

\* callLogAdvance of a row at or after the mark: the mark stands at the row, and keeps
\* its keys only if it did before.
LEMMA AdvanceFacts ==
    ASSUME NEW mark \in Watermark, NEW z \in Zones, NEW r \in Rows
    PROVE  /\ callLogAdvance(mark, r, z) \in Watermark
           /\ mark.start = 0 \/ Instant(r, z) >= mark.start =>
                 /\ callLogAdvance(mark, r, z).start = Instant(r, z)
                 /\ callLogAdvance(mark, r, z).keys
                    = IF Instant(r, z) = mark.start THEN mark.keys \cup {Wall[r]}
                      ELSE {Wall[r]}
<1> DEFINE t == Instant(r, z)
           m == callLogAdvance(mark, r, z)
<1>1. Wall[r] \in Nat /\ t \in Nat \ {0}
  BY RowFields
<1>2. mark.version = 1 /\ mark.start \in Nat /\ mark.keys \in SUBSET Nat
  BY MarkFields
<1> HIDE DEF t
<1>3. CASE mark.start = 0 \/ t > mark.start
  <2>1. m = [version |-> mark.version, start |-> t, keys |-> {Wall[r]}]
    BY <1>1, <1>2, <1>3 DEF callLogAdvance, t
  <2> HIDE DEF m
  <2>2. m \in Watermark
    BY <2>1, <1>1, <1>2, MakeMark
  <2>3. m.start = t /\ m.keys = {Wall[r]} /\ t # mark.start
    BY <2>1, <1>1, <1>2, <1>3
  <2> QED BY <2>2, <2>3 DEF m, t
<1>4. CASE mark.start # 0 /\ t = mark.start
  <2>1. m = [mark EXCEPT !.keys = @ \cup {Wall[r]}]
    BY <1>1, <1>2, <1>4 DEF callLogAdvance, t
  <2> HIDE DEF m
  <2>2. m = [version |-> mark.version, start |-> mark.start, keys |-> mark.keys \cup {Wall[r]}]
    BY <2>1 DEF Watermark
  <2>3. mark.keys \cup {Wall[r]} \in SUBSET Nat
    BY <1>1, <1>2
  <2>4. m \in Watermark
    BY <2>2, <2>3, <1>2, MakeMark
  <2>5. m.start = mark.start /\ m.keys = mark.keys \cup {Wall[r]}
    BY <2>2
  <2> QED BY <2>4, <2>5, <1>4 DEF m, t
<1>5. CASE mark.start # 0 /\ t < mark.start
  <2>1. m = mark
    BY <1>1, <1>2, <1>5 DEF callLogAdvance, t
  <2>2. ~ (mark.start = 0 \/ t >= mark.start)
    BY <1>1, <1>2, <1>5
  <2> QED BY <2>1, <2>2 DEF t
<1> QED
  BY <1>1, <1>2, <1>3, <1>4, <1>5

LEMMA NoMarkType == NoWatermark \in Watermark
  BY DEF NoWatermark, Watermark

LEMMA LegacyMarkType ==
    ASSUME NEW p \in Phones
    PROVE  LegacyMark(LegacyLog[p]) \in LegacyWatermark \cup Watermark
<1>1. LegacyLog[p] \in Seq(Rows)
  BY LegacyAssumption
<1>2. LegacyLog[p] # <<>> => LegacyLog[p][Len(LegacyLog[p])] \in Rows
  BY <1>1
<1> QED
  BY <1>2, NoMarkType, RowsAssumption DEF LegacyMark, LegacyWatermark, Walls

----------------------------------------------------------------------------
(* The lists. *)

\* Every non-empty set of naturals has a least element.
LEMMA NatMin ==
    ASSUME NEW T, T \subseteq Nat, T # {}
    PROVE  \E x \in T : \A y \in T : x <= y
<1> DEFINE less == OpToRel(<, Nat)
<1>1. IsWellFoundedOn(less, Nat)
  BY NatLessThanWellFounded
<1>2. \A x, y \in T : y < x => <<y, x>> \in less
  BY DEF OpToRel
<1> HIDE DEF less
<1>3. PICK x \in T : \A y \in T : ~ (<<y, x>> \in less)
  BY <1>1, WFMin
<1>4. ASSUME NEW y \in T PROVE x <= y
  <2>1. ~ (y < x)
    BY <1>2, <1>3
  <2> QED BY <2>1
<1> QED
  BY <1>4

\* One turn of the recursion of OfDirection.
ListTurn(list, s, d, i) ==
    IF i = 0 THEN <<>>
    ELSE IF DirectionOf[s[i]] = d THEN Append(list[i - 1], s[i])
    ELSE list[i - 1]

\* The recursive definition of OfDirection has a solution.
LEMMA ListExists ==
    ASSUME NEW s \in Seq(Rows), NEW d
    PROVE  \E list : list = [i \in 0 .. Len(s) |-> ListTurn(list, s, d, i)]
<1> DEFINE Lists(m) == \E list \in [0 .. m -> Seq(Rows)] :
                          \A i \in 0 .. m : list[i] = ListTurn(list, s, d, i)
           Bad == {m \in Nat : m <= Len(s) /\ ~ Lists(m)}
<1>0. Len(s) \in Nat
  OBVIOUS
<1>a. ASSUME Lists(Len(s)) PROVE \E list : list = [i \in 0 .. Len(s) |-> ListTurn(list, s, d, i)]
  <2>1. PICK list \in [0 .. Len(s) -> Seq(Rows)] :
           \A i \in 0 .. Len(s) : list[i] = ListTurn(list, s, d, i)
    BY <1>a
  <2>2. list = [i \in 0 .. Len(s) |-> ListTurn(list, s, d, i)]
    BY <2>1
  <2> QED BY <2>2
<1> SUFFICES ASSUME Bad # {} PROVE FALSE
  BY <1>0, <1>a
<1>1. PICK m \in Bad : \A y \in Bad : m <= y
  BY NatMin
<1>2. m \in Nat /\ m <= Len(s) /\ ~ Lists(m)
  BY <1>1
<1>3. m # 0
  <2> DEFINE e == [i \in 0 .. 0 |-> <<>>]
  <2>1. e \in [0 .. 0 -> Seq(Rows)] /\ \A i \in 0 .. 0 : e[i] = ListTurn(e, s, d, i)
    BY DEF ListTurn
  <2> HIDE DEF e
  <2>2. Lists(0)
    BY <2>1
  <2> QED BY <1>2, <2>2
<1>4. m - 1 \in Nat /\ m - 1 <= Len(s) /\ ~ (m <= m - 1)
  BY <1>0, <1>2, <1>3
<1>5. Lists(m - 1)
  BY <1>1, <1>4
<1>6. PICK list \in [0 .. m - 1 -> Seq(Rows)] :
         \A i \in 0 .. m - 1 : list[i] = ListTurn(list, s, d, i)
  BY <1>5
<1> DEFINE e == [i \in 0 .. m |-> IF i = m THEN ListTurn(list, s, d, m) ELSE list[i]]
<1>7. s[m] \in Rows /\ list[m - 1] \in Seq(Rows)
  BY <1>2, <1>3, <1>4, <1>6
<1>8. ListTurn(list, s, d, m) \in Seq(Rows)
  BY <1>3, <1>7 DEF ListTurn
<1>9. e \in [0 .. m -> Seq(Rows)]
  BY <1>6, <1>8, <1>2
<1>10. ASSUME NEW i \in 0 .. m PROVE e[i] = ListTurn(e, s, d, i)
  <2>1. CASE i = m
    <3>1. e[m - 1] = list[m - 1]
      BY <1>4, <1>2
    <3> QED BY <2>1, <3>1, <1>3 DEF ListTurn
  <2>2. CASE i # m
    <3>1. i \in 0 .. m - 1
      BY <2>2, <1>2
    <3>2. i = 0 \/ (i - 1 \in 0 .. m /\ e[i - 1] = list[i - 1])
      BY <3>1, <1>2
    <3>3. e[i] = ListTurn(list, s, d, i)
      BY <3>1, <2>2, <1>6
    <3> QED BY <3>2, <3>3 DEF ListTurn
  <2> QED BY <2>1, <2>2
<1>11. Lists(m)
  BY <1>9, <1>10
<1> QED
  BY <1>2, <1>11

\* e holds the rows of direction d among the first i of s, in the order of s.
PrefixList(e, s, d, i) ==
    /\ e \in Seq(Rows)
    /\ \A k \in 1 .. Len(e) : \E j \in 1 .. i : e[k] = s[j] /\ DirectionOf[s[j]] = d
    /\ \A j \in 1 .. i : DirectionOf[s[j]] = d =>
          \E k \in 1 .. Len(e) :
              e[k] = s[j] /\ \A h \in 1 .. k - 1 : \E g \in 1 .. j - 1 : e[h] = s[g]

\* OfDirection returns the rows of direction d, and keeps their order.
LEMMA OfDirectionFacts ==
    ASSUME NEW s \in Seq(Rows), NEW d
    PROVE  PrefixList(OfDirection(s, d), s, d, Len(s))
<1> DEFINE L == CHOOSE list : list = [i \in 0 .. Len(s) |-> ListTurn(list, s, d, i)]
           Bad == {i \in 0 .. Len(s) : ~ PrefixList(L[i], s, d, i)}
<1>1. OfDirection(s, d) = L[Len(s)]
  BY DEF OfDirection, ListTurn
<1>2. L = [i \in 0 .. Len(s) |-> ListTurn(L, s, d, i)]
  BY ListExists
<1> HIDE DEF L
<1>3. \A i \in 0 .. Len(s) : L[i] = ListTurn(L, s, d, i)
  BY <1>2
<1>4. Len(s) \in Nat /\ Len(s) \in 0 .. Len(s)
  OBVIOUS
<1> SUFFICES ASSUME Bad # {} PROVE FALSE
  BY <1>1, <1>4
<1>5. PICK m \in Bad : \A y \in Bad : m <= y
  <2>1. Bad \subseteq Nat
    OBVIOUS
  <2> QED BY <2>1, NatMin
<1>6. m \in 0 .. Len(s) /\ ~ PrefixList(L[m], s, d, m)
  BY <1>5
<1>7. m # 0
  <2>1. L[0] = <<>>
    BY <1>3, <1>4 DEF ListTurn
  <2>2. PrefixList(L[0], s, d, 0)
    BY <2>1 DEF PrefixList
  <2> QED BY <1>6, <2>2
<1>8. m \in 1 .. Len(s) /\ m - 1 \in 0 .. Len(s) /\ ~ (m <= m - 1) /\ s[m] \in Rows
  BY <1>4, <1>6, <1>7
<1>9. PrefixList(L[m - 1], s, d, m - 1)
  BY <1>5, <1>8
<1> DEFINE e == L[m - 1]
<1>10. e \in Seq(Rows) /\ Len(e) \in Nat
  BY <1>9 DEF PrefixList
<1>11. \A j \in 1 .. m : j = m \/ j \in 1 .. m - 1
  BY <1>8
<1>12. 1 .. m - 1 \subseteq 1 .. m /\ m \in 1 .. m
  BY <1>8
<1>13. CASE DirectionOf[s[m]] # d
  <2>1. L[m] = e
    BY <1>13, <1>3, <1>6, <1>7 DEF ListTurn
  <2> HIDE DEF e
  <2>2. PrefixList(e, s, d, m)
    BY <1>9, <1>11, <1>12, <1>13 DEF PrefixList, e
  <2> QED BY <2>1, <2>2, <1>6
<1>14. CASE DirectionOf[s[m]] = d
  <2> DEFINE f == Append(e, s[m])
  <2>1. L[m] = f
    BY <1>14, <1>3, <1>6, <1>7 DEF ListTurn
  <2> HIDE DEF e
  <2>2. /\ f \in Seq(Rows) /\ Len(f) = Len(e) + 1
        /\ f[Len(e) + 1] = s[m]
        /\ \A k \in 1 .. Len(e) : f[k] = e[k]
    BY <1>8, <1>10
  <2> HIDE DEF f
  <2>3. \A k \in 1 .. Len(f) : k = Len(e) + 1 \/ k \in 1 .. Len(e)
    BY <1>10, <2>2
  <2>4. 1 .. Len(e) \subseteq 1 .. Len(f) /\ Len(e) + 1 \in 1 .. Len(f)
    BY <1>10, <2>2
  <2>5. \A k \in 1 .. Len(e) : \E j \in 1 .. m - 1 : e[k] = s[j] /\ DirectionOf[s[j]] = d
    BY <1>9 DEF PrefixList, e
  <2>6. ASSUME NEW k \in 1 .. Len(f)
        PROVE  \E j \in 1 .. m : f[k] = s[j] /\ DirectionOf[s[j]] = d
    BY <2>2, <2>3, <2>5, <1>12, <1>14
  <2>7. ASSUME NEW j \in 1 .. m, DirectionOf[s[j]] = d
        PROVE  \E k \in 1 .. Len(f) :
                  f[k] = s[j] /\ \A h \in 1 .. k - 1 : \E g \in 1 .. j - 1 : f[h] = s[g]
    <3>1. CASE j = m
      <4>1. ASSUME NEW h \in 1 .. (Len(e) + 1) - 1 PROVE \E g \in 1 .. m - 1 : f[h] = s[g]
        <5>1. h \in 1 .. Len(e)
          BY <1>10
        <5> QED BY <5>1, <2>2, <2>5
      <4> QED BY <3>1, <4>1, <2>2, <2>4
    <3>2. CASE j \in 1 .. m - 1
      <4>1. PICK k \in 1 .. Len(e) :
               e[k] = s[j] /\ \A h \in 1 .. k - 1 : \E g \in 1 .. j - 1 : e[h] = s[g]
        BY <1>9, <2>7, <3>2 DEF PrefixList, e
      <4>2. \A h \in 1 .. k - 1 : h \in 1 .. Len(e)
        BY <1>10
      <4>3. \A h \in 1 .. k - 1 : \E g \in 1 .. j - 1 : f[h] = s[g]
        BY <4>1, <4>2, <2>2
      <4> QED BY <4>1, <4>3, <2>2, <2>4
    <3> QED BY <3>1, <3>2, <1>11
  <2>9. PrefixList(f, s, d, m)
    BY <2>2, <2>6, <2>7 DEF PrefixList
  <2> QED BY <2>1, <2>9, <1>6
<1> QED
  BY <1>13, <1>14

\* The lists a pass goes through hold the rows the phone shows, all of them.
LEMMA EntriesFacts ==
    ASSUME NEW s \in Seq(Rows)
    PROVE  /\ callLogEntries(s) \in Seq(Rows)
           /\ ElementsOf(callLogEntries(s)) = ElementsOf(s)
<1> DEFINE a == OfDirection(s, "placed")
           b == OfDirection(s, "received")
           c == OfDirection(s, "missed")
           e == a \o b \o c
<1>1. PrefixList(a, s, "placed", Len(s)) /\ PrefixList(b, s, "received", Len(s))
      /\ PrefixList(c, s, "missed", Len(s))
  BY OfDirectionFacts
<1>2. callLogEntries(s) = e
  BY DEF callLogEntries
<1>3. ElementsOf(a) = {r \in ElementsOf(s) : DirectionOf[r] = "placed"}
      /\ ElementsOf(b) = {r \in ElementsOf(s) : DirectionOf[r] = "received"}
      /\ ElementsOf(c) = {r \in ElementsOf(s) : DirectionOf[r] = "missed"}
  <2> HIDE DEF a, b, c
  <2>1. ASSUME NEW x, NEW d, PrefixList(x, s, d, Len(s))
        PROVE  ElementsOf(x) = {r \in ElementsOf(s) : DirectionOf[r] = d}
    <3>1. ASSUME NEW r \in ElementsOf(x) PROVE r \in ElementsOf(s) /\ DirectionOf[r] = d
      <4>1. PICK k \in 1 .. Len(x) : r = x[k]
        BY DEF ElementsOf
      <4>2. PICK j \in 1 .. Len(s) : x[k] = s[j] /\ DirectionOf[s[j]] = d
        BY <2>1 DEF PrefixList
      <4> QED BY <4>1, <4>2 DEF ElementsOf
    <3>2. ASSUME NEW r \in ElementsOf(s), DirectionOf[r] = d PROVE r \in ElementsOf(x)
      <4>1. PICK j \in 1 .. Len(s) : r = s[j]
        BY DEF ElementsOf
      <4>2. PICK k \in 1 .. Len(x) : x[k] = s[j]
        BY <2>1, <3>2, <4>1 DEF PrefixList
      <4> QED BY <4>1, <4>2 DEF ElementsOf
    <3> QED BY <3>1, <3>2
  <2> QED BY <1>1, <2>1
<1>4. a \in Seq(Rows) /\ b \in Seq(Rows) /\ c \in Seq(Rows)
  BY <1>1 DEF PrefixList
<1> HIDE DEF a, b, c
<1>5. ASSUME NEW x \in Seq(Rows), NEW y \in Seq(Rows)
      PROVE  x \o y \in Seq(Rows) /\ ElementsOf(x \o y) = ElementsOf(x) \cup ElementsOf(y)
  <2>1. x \o y \in Seq(Rows) /\ Len(x \o y) = Len(x) + Len(y)
        /\ Len(x) \in Nat /\ Len(y) \in Nat
    OBVIOUS
  <2>2. \A i \in 1 .. Len(x) + Len(y) :
           (x \o y)[i] = IF i <= Len(x) THEN x[i] ELSE y[i - Len(x)]
    OBVIOUS
  <2>3. ElementsOf(x \o y) \subseteq ElementsOf(x) \cup ElementsOf(y)
    <3> SUFFICES ASSUME NEW i \in 1 .. Len(x) + Len(y)
                 PROVE  (x \o y)[i] \in ElementsOf(x) \cup ElementsOf(y)
      BY <2>1 DEF ElementsOf
    <3>1. i \in 1 .. Len(x) \/ (~ (i <= Len(x)) /\ i - Len(x) \in 1 .. Len(y))
      BY <2>1
    <3>2. CASE i \in 1 .. Len(x)
      <4>1. (x \o y)[i] = x[i]
        BY <2>1, <2>2, <3>2
      <4> QED BY <3>2, <4>1 DEF ElementsOf
    <3>3. CASE ~ (i <= Len(x)) /\ i - Len(x) \in 1 .. Len(y)
      <4>1. (x \o y)[i] = y[i - Len(x)]
        BY <2>2, <3>3
      <4> QED BY <3>3, <4>1 DEF ElementsOf
    <3> QED BY <3>1, <3>2, <3>3
  <2>4. ElementsOf(x) \subseteq ElementsOf(x \o y)
    BY <2>1, <2>2 DEF ElementsOf
  <2>5. ElementsOf(y) \subseteq ElementsOf(x \o y)
    <3> SUFFICES ASSUME NEW i \in 1 .. Len(y) PROVE y[i] \in ElementsOf(x \o y)
      BY DEF ElementsOf
    <3>1. Len(x) + i \in 1 .. Len(x) + Len(y) /\ ~ (Len(x) + i <= Len(x))
          /\ (Len(x) + i) - Len(x) = i
      BY <2>1
    <3>2. (x \o y)[Len(x) + i] = y[i]
      BY <2>2, <3>1
    <3> QED BY <2>1, <3>1, <3>2 DEF ElementsOf
  <2> QED BY <2>1, <2>3, <2>4, <2>5
<1>6. e \in Seq(Rows) /\ ElementsOf(e) = ElementsOf(a) \cup ElementsOf(b) \cup ElementsOf(c)
  <2>1. a \o b \in Seq(Rows) /\ ElementsOf(a \o b) = ElementsOf(a) \cup ElementsOf(b)
    BY <1>4, <1>5
  <2> DEFINE g == a \o b
  <2>2. g \in Seq(Rows)
    BY <2>1
  <2> HIDE DEF g
  <2>3. g \o c \in Seq(Rows) /\ ElementsOf(g \o c) = ElementsOf(g) \cup ElementsOf(c)
    BY <1>4, <1>5, <2>2
  <2> QED BY <2>1, <2>3 DEF g
<1>7. \A r \in ElementsOf(s) : DirectionOf[r] \in Directions
  BY RowsAssumption DEF ElementsOf
<1> QED
  BY <1>2, <1>3, <1>6, <1>7 DEF Directions

\* With all its rows in one list, a phone's rows keep their turn.
LEMMA EntriesInTurn ==
    ASSUME NEW s \in Seq(Rows), NEW d \in Directions,
           \A q \in ElementsOf(s) : DirectionOf[q] = d,
           NEW r \in Rows, InTurn(s, r)
    PROVE  InTurn(callLogEntries(s), r)
<1> DEFINE a == OfDirection(s, "placed")
           b == OfDirection(s, "received")
           c == OfDirection(s, "missed")
<1>1. PrefixList(a, s, "placed", Len(s)) /\ PrefixList(b, s, "received", Len(s))
      /\ PrefixList(c, s, "missed", Len(s))
  BY OfDirectionFacts
<1>2. callLogEntries(s) = a \o b \o c
  BY DEF callLogEntries
<1> HIDE DEF a, b, c
<1>3. a \in Seq(Rows) /\ b \in Seq(Rows) /\ c \in Seq(Rows)
  BY <1>1 DEF PrefixList
<1>t. ASSUME NEW x \in Seq(Rows), PrefixList(x, s, d, Len(s)) PROVE InTurn(x, r)
  <2>1. PICK j \in 1 .. Len(s) :
           s[j] = r /\ \A g \in 1 .. j - 1 : s[g] \notin Unparsable => Wall[s[g]] < Wall[r]
    BY DEF InTurn
  <2>2. DirectionOf[s[j]] = d
    BY DEF ElementsOf
  <2>3. PICK k \in 1 .. Len(x) :
           x[k] = s[j] /\ \A h \in 1 .. k - 1 : \E g \in 1 .. j - 1 : x[h] = s[g]
    BY <1>t, <2>2 DEF PrefixList
  <2>4. \A h \in 1 .. k - 1 : x[h] \notin Unparsable => Wall[x[h]] < Wall[r]
    BY <2>1, <2>3
  <2> QED BY <2>1, <2>3, <2>4 DEF InTurn
<1>4. ASSUME NEW x \in Seq(Rows), NEW f, f # d, PrefixList(x, s, f, Len(s))
      PROVE  x = <<>>
  <2>1. ~ (1 \in 1 .. Len(x))
    <3> SUFFICES ASSUME 1 \in 1 .. Len(x) PROVE FALSE
      OBVIOUS
    <3>1. PICK j \in 1 .. Len(s) : x[1] = s[j] /\ DirectionOf[s[j]] = f
      BY <1>4 DEF PrefixList
    <3>2. s[j] \in ElementsOf(s)
      BY DEF ElementsOf
    <3> QED BY <1>4, <3>1, <3>2
  <2>2. Len(x) \in Nat
    OBVIOUS
  <2> QED BY <2>1, <2>2
<1>5. ASSUME NEW x \in Seq(Rows) PROVE x \o <<>> = x /\ <<>> \o x = x
  OBVIOUS
<1>6. CASE d = "placed"
  <2>1. b = <<>> /\ c = <<>>
    BY <1>1, <1>3, <1>4, <1>6
  <2>2. callLogEntries(s) = a
    BY <1>2, <1>3, <1>5, <2>1
  <2> QED BY <1>1, <1>3, <1>6, <1>t, <2>2
<1>7. CASE d = "received"
  <2>1. a = <<>> /\ c = <<>>
    BY <1>1, <1>3, <1>4, <1>7
  <2>2. callLogEntries(s) = b
    BY <1>2, <1>3, <1>5, <2>1
  <2> QED BY <1>1, <1>3, <1>7, <1>t, <2>2
<1>8. CASE d = "missed"
  <2>1. a = <<>> /\ b = <<>>
    BY <1>1, <1>3, <1>4, <1>8
  <2>2. <<>> \in Seq(Rows)
    OBVIOUS
  <2>3. callLogEntries(s) = c
    BY <1>2, <1>3, <1>5, <2>1, <2>2
  <2> QED BY <1>1, <1>3, <1>8, <1>t, <2>3
<1> QED
  BY <1>6, <1>7, <1>8 DEF Directions

----------------------------------------------------------------------------
(* Types. *)

LEMMA InitTyped == Init => TypeOK
<1> SUFFICES ASSUME Init PROVE TypeOK
  OBVIOUS
<1>1. stored \in [Phones -> LegacyWatermark \cup Watermark]
  BY LegacyMarkType DEF Init
<1>2. 1 \in Phones
  BY TargetsAssumption DEF Phones
<1>3. zone \in [Phones -> Zones]
  BY DEF Init
<1>4. calls \in [Directions -> Nat]
  <2>1. ASSUME NEW d \in Directions
        PROVE  Cardinality({r \in Rows : DirectionOf[r] = d /\ AlreadyLogged(r)}) \in Nat
    <3> DEFINE C == {r \in Rows : DirectionOf[r] = d /\ AlreadyLogged(r)}
    <3>1. C \in SUBSET Rows
      OBVIOUS
    <3> HIDE DEF C
    <3>2. IsFiniteSet(C)
      BY <3>1, FS_Subset, RowsAssumption
    <3>3. Cardinality(C) \in Nat
      BY <3>2, FS_CardinalityType
    <3> QED BY <3>3 DEF C
  <2> QED BY <2>1 DEF Init
<1>5. emitted \in [Rows -> Nat]
  BY DEF Init
<1> QED
  BY <1>1, <1>2, <1>3, <1>4, <1>5, LegacyAssumption, BoundsAssumption, NoMarkType
  DEF Init, TypeOK, NoCalls

LEMMA NextTargetTyped ==
    ASSUME cur \in Phones, NextTarget
    PROVE  cur' \in Phones /\ pc' \in {"idle", "probe"}
  BY TargetsAssumption DEF NextTarget, Phones

LEMMA NextTyped == TypeOK /\ [Next]_vars => TypeOK'
<1> SUFFICES ASSUME TypeOK, [Next]_vars PROVE TypeOK'
  OBVIOUS
<1> USE DEF TypeOK, phoneVars, passVars
<1>1. ASSUME NEW r \in Rows, Arrive(r) PROVE TypeOK'
  <2>1. PhoneOf[r] \in Phones
    BY RowsAssumption
  <2>2. log' \in [Phones -> Seq(Rows)]
    BY <1>1, <2>1 DEF Arrive
  <2> QED BY <1>1, <2>2 DEF Arrive
<1>2. ASSUME NEW p \in Phones, Toggle(p) PROVE TypeOK'
  BY <1>2 DEF Toggle
<1>3. ASSUME NEW p \in Phones, ChangeZone(p) PROVE TypeOK'
  BY <1>3, BoundsAssumption DEF ChangeZone
<1>4. CASE StartPass
  BY <1>4 DEF StartPass
<1>5. CASE SkipTarget
  BY <1>5, NextTargetTyped DEF SkipTarget
<1>6. CASE OpenTarget
  <2>1. zone[cur] \in Zones /\ stored[cur] \in LegacyWatermark \cup Watermark
    OBVIOUS
  <2>2. loadWatermark(stored[cur], zone[cur]) \in Watermark
    BY <2>1, LoadFacts
  <2>3. loadWatermark(stored[cur], zone[cur]).keys \subseteq Nat
    BY <2>2 DEF Watermark
  <2> QED BY <1>6, <2>1, <2>2, <2>3 DEF OpenTarget
<1>7. CASE FetchLogs
  <2>1. entries' \in Seq(Rows)
    BY <1>7, EntriesFacts DEF FetchLogs
  <2> QED BY <1>7, <2>1 DEF FetchLogs
<1>8. CASE SkipRow
  <2>1. entries' \in Seq(Rows)
    BY <1>8 DEF SkipRow
  <2> QED BY <1>8, <2>1 DEF SkipRow
<1>9. CASE EmitRow
  <2>1. Head(entries) \in Rows /\ entries' \in Seq(Rows) /\ location \in Zones
    BY <1>9 DEF EmitRow
  <2>2. checkpoint' \in Watermark
    BY <1>9, <2>1, AdvanceFacts DEF EmitRow
  <2>3. Wall[Head(entries)] \in Nat /\ DirectionOf[Head(entries)] \in Directions
    BY <2>1, RowsAssumption
  <2>4. emitted' \in [Rows -> Nat]
    BY <1>9, <2>1 DEF EmitRow
  <2>5. callsByDirection' \in [Directions -> Nat]
    BY <1>9, <2>3 DEF EmitRow
  <2> QED BY <1>9, <2>1, <2>2, <2>3, <2>4, <2>5 DEF EmitRow
<1>10. CASE EndRows
  BY <1>10 DEF EndRows
<1>11. ASSUME NEW d \in Directions, CountCalls(d) PROVE TypeOK'
  BY <1>11 DEF CountCalls
<1>12. CASE EndCount
  BY <1>12 DEF EndCount
<1>13. CASE SaveWatermark
  <2>1. [checkpoint EXCEPT !.version = 1] \in Watermark
    BY SaveFacts
  <2>2. stored' \in [Phones -> LegacyWatermark \cup Watermark]
    BY <1>13, <2>1 DEF SaveWatermark
  <2> QED BY <1>13, <2>2, NextTargetTyped, NoMarkType DEF SaveWatermark, DropLocals, NoCalls
<1>14. CASE PassFails
  <2>1. 1 \in Phones
    BY TargetsAssumption DEF Phones
  <2> QED BY <1>14, <2>1, NoMarkType, BoundsAssumption DEF PassFails, DropLocals, NoCalls
<1>15. CASE UNCHANGED vars
  BY <1>15 DEF vars
<1> QED
  BY <1>1, <1>2, <1>3, <1>4, <1>5, <1>6, <1>7, <1>8, <1>9, <1>10, <1>11, <1>12, <1>13,
     <1>14, <1>15 DEF Next, PassStep

\* Every variable keeps its type, whatever the phones show and whenever a pass fails:
\* watermarks are well formed and counters are never negative.
THEOREM CallLogsTyped == Spec => []TypeOK
  BY InitTyped, NextTyped, PTL DEF Spec

----------------------------------------------------------------------------
(* Rows and the phones they are from. *)

LEMMA HeadTail ==
    ASSUME NEW s \in Seq(Rows), s # <<>>
    PROVE  /\ Head(s) \in Rows /\ Tail(s) \in Seq(Rows)
           /\ ElementsOf(s) = {Head(s)} \cup ElementsOf(Tail(s))
           /\ \A r : InTurn(s, r) =>
                 \/ r = Head(s)
                 \/ /\ InTurn(Tail(s), r)
                    /\ Head(s) \notin Unparsable => Wall[Head(s)] < Wall[r]
<1> DEFINE n == Len(s)
           t == Tail(s)
<1>1. n \in Nat \ {0} /\ Head(s) = s[1] /\ Head(s) \in Rows
  OBVIOUS
<1>2. t \in Seq(Rows) /\ Len(t) = n - 1 /\ \A i \in 1 .. n - 1 : t[i] = s[i + 1]
  OBVIOUS
<1>3. \A i \in 1 .. n : i = 1 \/ (i - 1 \in 1 .. n - 1 /\ (i - 1) + 1 = i)
  BY <1>1
<1>4. \A i \in 1 .. n - 1 : i + 1 \in 1 .. n
  BY <1>1
<1>5. 1 \in 1 .. n
  BY <1>1
<1> HIDE DEF n, t
<1>6. ASSUME NEW r \in ElementsOf(s) PROVE r = s[1] \/ r \in ElementsOf(t)
  <2>1. PICK i \in 1 .. n : r = s[i]
    BY DEF ElementsOf, n
  <2>2. CASE i # 1
    <3>1. r = t[i - 1]
      BY <2>1, <2>2, <1>2, <1>3
    <3> QED BY <3>1, <2>2, <1>2, <1>3 DEF ElementsOf
  <2> QED BY <2>1, <2>2
<1>7. ASSUME NEW r \in ElementsOf(t) PROVE r \in ElementsOf(s)
  <2>1. PICK i \in 1 .. n - 1 : r = t[i]
    BY <1>2 DEF ElementsOf
  <2>2. r = s[i + 1]
    BY <2>1, <1>2
  <2> QED BY <2>2, <1>4 DEF ElementsOf, n
<1>8. s[1] \in ElementsOf(s)
  BY <1>5 DEF ElementsOf, n
<1>9. ElementsOf(s) = {Head(s)} \cup ElementsOf(t)
  BY <1>1, <1>6, <1>7, <1>8
<1>10. ASSUME NEW r, InTurn(s, r), r # s[1]
       PROVE  InTurn(t, r) /\ (s[1] \notin Unparsable => Wall[s[1]] < Wall[r])
  <2>1. PICK i \in 1 .. n :
           s[i] = r /\ \A j \in 1 .. i - 1 : s[j] \notin Unparsable => Wall[s[j]] < Wall[r]
    BY <1>10 DEF InTurn, n
  <2>2. i # 1
    BY <1>10, <2>1
  <2>3. i - 1 \in 1 .. n - 1 /\ t[i - 1] = r /\ 1 \in 1 .. i - 1
    BY <1>1, <1>2, <1>3, <2>1, <2>2
  <2>4. ASSUME NEW j \in 1 .. (i - 1) - 1, t[j] \notin Unparsable PROVE Wall[t[j]] < Wall[r]
    <3>1. j \in 1 .. n - 1 /\ j + 1 \in 1 .. i - 1
      BY <1>1
    <3>2. t[j] = s[j + 1]
      BY <1>2, <3>1
    <3> QED BY <2>1, <2>4, <3>1, <3>2
  <2> QED BY <1>2, <2>1, <2>3, <2>4 DEF InTurn
<1> QED
  BY <1>1, <1>2, <1>9, <1>10 DEF t

LEMMA AppendFacts ==
    ASSUME NEW s \in Seq(Rows), NEW r \in Rows
    PROVE  /\ ElementsOf(Append(s, r)) = ElementsOf(s) \cup {r}
           /\ \A q : InTurn(Append(s, r), q) => InTurn(s, q) \/ (q = r /\ Later(r, s))
<1> DEFINE n == Len(s)
           t == Append(s, r)
<1>1. n \in Nat /\ t \in Seq(Rows) /\ Len(t) = n + 1 /\ t[n + 1] = r
      /\ \A i \in 1 .. n : t[i] = s[i]
  OBVIOUS
<1>2. \A i \in 1 .. n + 1 : i = n + 1 \/ i \in 1 .. n
  BY <1>1
<1>3. 1 .. n \subseteq 1 .. n + 1 /\ n + 1 \in 1 .. n + 1
  BY <1>1
<1> HIDE DEF n, t
<1>4. ElementsOf(t) = ElementsOf(s) \cup {r}
  BY <1>1, <1>2, <1>3 DEF ElementsOf, n
<1>5. ASSUME NEW q, InTurn(t, q) PROVE InTurn(s, q) \/ (q = r /\ Later(r, s))
  <2>1. PICK i \in 1 .. n + 1 :
           t[i] = q /\ \A j \in 1 .. i - 1 : t[j] \notin Unparsable => Wall[t[j]] < Wall[q]
    BY <1>1, <1>5 DEF InTurn
  <2>2. \A j \in 1 .. i - 1 : j \in 1 .. n /\ t[j] = s[j]
    BY <1>1
  <2>3. CASE i = n + 1
    <3>1. i - 1 = n
      BY <1>1, <2>3
    <3>2. \A j \in 1 .. n : s[j] \notin Unparsable => Wall[s[j]] < Wall[q]
      BY <2>1, <2>2, <3>1
    <3> QED BY <1>1, <2>1, <2>3, <3>2 DEF Later, ElementsOf, n
  <2>4. CASE i \in 1 .. n
    BY <1>1, <2>1, <2>2, <2>4 DEF InTurn, n
  <2> QED BY <1>2, <2>3, <2>4
<1> QED
  BY <1>4, <1>5 DEF t

LEMMA OwnRowsInvariant ==
    /\ Init => OwnRows
    /\ TypeOK /\ OwnRows /\ [Next]_vars => OwnRows'
<1>1. ASSUME Init PROVE OwnRows
  BY <1>1, LegacyAssumption DEF Init, OwnRows, ElementsOf
<1>2. ASSUME TypeOK, OwnRows, [Next]_vars PROVE OwnRows'
  <2> USE DEF phoneVars, passVars
  <2>1. ASSUME NEW r \in Rows, Arrive(r) PROVE OwnRows'
    <3>1. /\ log' = [log EXCEPT ![PhoneOf[r]] = Append(@, r)]
          /\ UNCHANGED <<pc, entries, cur>>
      BY <2>1 DEF Arrive
    <3>2. log \in [Phones -> Seq(Rows)] /\ PhoneOf[r] \in Phones
      BY <1>2, RowFields DEF TypeOK
    <3>3. ASSUME NEW p \in Phones, NEW q \in ElementsOf(log'[p]) PROVE PhoneOf[q] = p
      <4>1. CASE p = PhoneOf[r]
        <5>1. log'[p] = Append(log[p], r)
          BY <3>1, <3>2, <4>1
        <5>2. q \in ElementsOf(log[p]) \cup {r}
          BY <3>2, <3>3, <5>1, AppendFacts
        <5> QED BY <1>2, <4>1, <5>2 DEF OwnRows
      <4>2. CASE p # PhoneOf[r]
        <5>1. log'[p] = log[p]
          BY <3>1, <3>2, <4>2
        <5> QED BY <1>2, <3>3, <5>1 DEF OwnRows
      <4> QED BY <4>1, <4>2
    <3> QED BY <1>2, <3>1, <3>3 DEF OwnRows
  <2>2. CASE FetchLogs
    <3>1. entries' = callLogEntries(log[cur]) /\ UNCHANGED <<log, cur>>
      BY <2>2 DEF FetchLogs
    <3>2. log[cur] \in Seq(Rows) /\ cur \in Phones
      BY <1>2 DEF TypeOK
    <3>3. ElementsOf(entries') = ElementsOf(log[cur])
      BY <3>1, <3>2, EntriesFacts
    <3> QED BY <1>2, <3>1, <3>2, <3>3 DEF OwnRows
  <2>3. CASE SkipRow \/ EmitRow
    <3>1. entries' = Tail(entries) /\ entries # <<>> /\ pc = "rows" /\ UNCHANGED <<log, cur>>
      BY <2>3 DEF SkipRow, EmitRow
    <3>2. ElementsOf(entries') \subseteq ElementsOf(entries)
      BY <1>2, <3>1, HeadTail DEF TypeOK
    <3> QED BY <1>2, <3>1, <3>2 DEF OwnRows
  <2>4. CASE \/ \E p \in Phones : Toggle(p) \/ ChangeZone(p)
             \/ \E d \in Directions : CountCalls(d)
             \/ UNCHANGED vars
    BY <1>2, <2>4 DEF OwnRows, Toggle, ChangeZone, CountCalls, vars
  <2>5. CASE StartPass \/ SkipTarget \/ OpenTarget \/ EndRows \/ EndCount \/ SaveWatermark
             \/ PassFails
    <3>1. pc' # "rows" /\ log' = log
      BY <2>5 DEF StartPass, SkipTarget, OpenTarget, EndRows, EndCount, SaveWatermark,
                  PassFails, NextTarget
    <3> QED BY <1>2, <3>1 DEF OwnRows
  <2> QED BY <1>2, <2>1, <2>2, <2>3, <2>4, <2>5 DEF Next, PassStep
<1> QED
  BY <1>1, <1>2

----------------------------------------------------------------------------
(* Nothing is logged twice without an incident. *)

\* A row that is logged settles itself, and unsettles no other.
LEMMA AdvanceSettles ==
    ASSUME NEW mark \in Watermark, NEW z \in Zones, NEW q \in Rows,
           mark.start = 0 \/ Instant(q, z) >= mark.start
    PROVE  /\ Settled(q, callLogAdvance(mark, q, z), z)
           /\ \A r \in Rows : Settled(r, mark, z) => Settled(r, callLogAdvance(mark, q, z), z)
<1> DEFINE m == callLogAdvance(mark, q, z)
<1>1. m.start = Instant(q, z)
      /\ m.keys = IF Instant(q, z) = mark.start THEN mark.keys \cup {Wall[q]} ELSE {Wall[q]}
  BY AdvanceFacts
<1> HIDE DEF m
<1>2. mark.start \in Nat /\ Instant(q, z) \in Nat \ {0}
  BY MarkFields, RowFields
<1>3. Settled(q, m, z)
  BY <1>1, <1>2 DEF Settled
<1>4. ASSUME NEW r \in Rows, Settled(r, mark, z) PROVE Settled(r, m, z)
  <2>1. Instant(r, z) \in Nat
    BY RowFields
  <2> QED BY <1>1, <1>2, <1>4, <2>1 DEF Settled
<1> QED
  BY <1>3, <1>4 DEF m

\* The open phone's rows obey the bound that holds for all of them.
LEMMA ReplayUnlessMoved ==
    ASSUME TypeOK, ReplayOnlyAfterFailure, NEW r \in Rows
    PROVE  emitted[r] \in Nat /\ emitted[r] <= 1 + Incidents /\ Incidents \in Nat
           /\ failures \in Nat /\ zoneChanges \in Nat
  BY BoundsAssumption DEF TypeOK, ReplayOnlyAfterFailure, Incidents

LEMMA MarksTyped ==
    ASSUME TypeOK, NEW p \in Phones
    PROVE  /\ zone[p] \in Zones /\ stored[p] \in LegacyWatermark \cup Watermark
           /\ loadWatermark(stored[p], zone[p]) \in Watermark
<1>1. zone[p] \in Zones /\ stored[p] \in LegacyWatermark \cup Watermark
  BY DEF TypeOK
<1> QED
  BY <1>1, LoadFacts

LEMMA InitReplay == Init => ReplayInv
<1> SUFFICES ASSUME Init PROVE ReplayInv
  OBVIOUS
<1>0. TypeOK
  BY InitTyped
<1>1. ~ Open /\ Incidents = 0
  BY DEF Init, Open, Incidents
<1>2. \A r \in Rows : emitted[r] = IF AlreadyLogged(r) THEN 1 ELSE 0
  BY DEF Init
<1>3. ReplayOnlyAfterFailure
  BY <1>2 DEF ReplayOnlyAfterFailure, Init
<1>4. ASSUME NEW r \in Rows, AlreadyLogged(r)
      PROVE  LET p == PhoneOf[r]
             IN  Settled(r, loadWatermark(stored[p], zone[p]), zone[p])
  <2> DEFINE p == PhoneOf[r]
             s == LegacyLog[p]
             n == Len(s)
             last == Wall[s[n]]
             mark == loadWatermark(stored[p], zone[p])
  <2>1. p \in Phones /\ s \in Seq(Rows)
    BY RowFields, LegacyAssumption
  <2>2. PICK i \in 1 .. n : r = s[i]
    BY <1>4 DEF AlreadyLogged, ElementsOf
  <2>3. n \in Nat /\ n \in 1 .. n /\ s[n] \in Rows /\ s # <<>>
    BY <2>1, <2>2
  <2>4. Wall[r] <= last
    BY <2>1, <2>2, <2>3, LegacyAssumption
  <2>5. stored[p] = [version |-> 0, start |-> last, keys |-> {last}]
    BY <2>1, <2>3 DEF Init, LegacyMark
  <2>6. last \in Nat \ {0} /\ Wall[r] \in Nat \ {0}
    BY <2>3, RowFields
  <2>7. zone[p] \in Zones /\ stored[p] \in LegacyWatermark \cup Watermark
    BY <1>0, <2>1, MarksTyped
  <2>8. stored[p].version = 0 /\ stored[p].start = last /\ stored[p].keys = {last}
    BY <2>5
  <2> HIDE DEF last
  <2>9. mark.start = last + Offset(zone[p], last) /\ mark.keys = {last}
    BY <2>6, <2>7, <2>8, LoadFacts
  <2>10. mark.start = Instant(s[n], zone[p])
    BY <2>9 DEF Instant, last
  <2>a. mark.start # 0
    BY <2>3, <2>7, <2>10, RowFields
  <2>b. /\ Wall[r] < last => Instant(r, zone[p]) < mark.start
        /\ Wall[r] = last => Instant(r, zone[p]) = mark.start
    BY <2>3, <2>7, <2>10, InstantOrder DEF last
  <2> HIDE DEF mark, p
  <2>11. Settled(r, mark, zone[p])
    BY <2>4, <2>6, <2>9, <2>a, <2>b DEF Settled
  <2> QED BY <2>11 DEF mark, p
<1>5. StoredReplay
  BY <1>1, <1>2, <1>4 DEF StoredReplay
<1> QED
  BY <1>1, <1>3, <1>5 DEF ReplayInv, KeysSeen, OpenReplay

\* A step that logs nothing and leaves marks and zones alone.
LEMMA ReplayQuiet ==
    ASSUME ReplayInv, UNCHANGED <<stored, zone, emitted, failures, zoneChanges>>,
           Open' <=> Open, Open => UNCHANGED <<cur, location, checkpoint, seen>>
    PROVE  ReplayInv'
<1>1. KeysSeen' /\ ReplayOnlyAfterFailure'
  BY DEF ReplayInv, KeysSeen, ReplayOnlyAfterFailure
<1>2. StoredReplay'
  BY DEF ReplayInv, StoredReplay, Incidents, Settled, Instant
<1>3. OpenReplay'
  BY DEF ReplayInv, OpenReplay, Incidents, Moved, Settled, Instant
<1> QED
  BY <1>1, <1>2, <1>3 DEF ReplayInv

LEMMA NextReplay == TypeOK /\ OwnRows /\ ReplayInv /\ [Next]_vars => ReplayInv'
<1> SUFFICES ASSUME TypeOK, OwnRows, ReplayInv, [Next]_vars PROVE ReplayInv'
  OBVIOUS
<1> USE DEF phoneVars, passVars
<1>0. /\ KeysSeen /\ ReplayOnlyAfterFailure /\ StoredReplay /\ OpenReplay
      /\ cur \in Phones
  BY DEF ReplayInv, TypeOK
<1>00. \A r \in Rows : /\ emitted[r] \in Nat /\ emitted[r] <= 1 + Incidents
                       /\ Incidents \in Nat /\ failures \in Nat /\ zoneChanges \in Nat
  BY <1>0, ReplayUnlessMoved
<1>1. ASSUME NEW r \in Rows, Arrive(r) PROVE ReplayInv'
  BY <1>1, ReplayQuiet DEF Arrive, Open
<1>2. ASSUME NEW p \in Phones, Toggle(p) PROVE ReplayInv'
  BY <1>2, ReplayQuiet DEF Toggle, Open
<1>3. ASSUME NEW p \in Phones, ChangeZone(p) PROVE ReplayInv'
  <2>1. /\ zoneChanges' = zoneChanges + 1 /\ failures' = failures /\ emitted' = emitted
        /\ UNCHANGED <<stored, pc, cur, location, checkpoint, seen>>
    BY <1>3 DEF ChangeZone
  <2>2. (Open' <=> Open) /\ KeysSeen'
    BY <1>0, <2>1 DEF Open, KeysSeen
  <2>3. \A r \in Rows : Incidents' = Incidents + 1
    BY <1>00, <2>1 DEF Incidents
  <2>4. \A r \in Rows : emitted'[r] <= Incidents'
    BY <1>00, <2>1, <2>3
  <2>5. ReplayOnlyAfterFailure'
    BY <1>00, <2>1, <2>3, <2>4 DEF ReplayOnlyAfterFailure, Incidents
  <2>6. StoredReplay'
    BY <2>4 DEF StoredReplay
  <2>7. OpenReplay'
    <3> SUFFICES ASSUME Open', NEW r \in Rows, PhoneOf[r] = cur'
                 PROVE  /\ emitted'[r] + Moved' <= 1 + Incidents'
                        /\ ~ Settled(r, checkpoint', location')
                              => emitted'[r] + Moved' <= Incidents'
      BY DEF OpenReplay
    <3>1. Moved' \in {0, 1} /\ Moved \in {0, 1}
      BY DEF Moved
    <3>2. /\ emitted[r] + Moved <= 1 + Incidents
          /\ ~ Settled(r, checkpoint, location) => emitted[r] + Moved <= Incidents
      BY <1>0, <2>1, <2>2 DEF OpenReplay
    <3>3. Settled(r, checkpoint', location') <=> Settled(r, checkpoint, location)
      BY <2>1
    <3> QED BY <1>00, <2>1, <2>3, <3>1, <3>2, <3>3
  <2> QED BY <2>2, <2>5, <2>6, <2>7 DEF ReplayInv
<1>4. CASE StartPass
  BY <1>4, ReplayQuiet DEF StartPass, Open
<1>5. CASE SkipTarget
  BY <1>5, ReplayQuiet DEF SkipTarget, Open, NextTarget
<1>6. CASE OpenTarget
  <2> DEFINE mark == loadWatermark(stored[cur], zone[cur])
  <2>1. /\ location' = zone[cur] /\ checkpoint' = mark /\ seen' = mark.keys
        /\ UNCHANGED <<stored, cur, zone, emitted, failures, zoneChanges>>
        /\ ~ Open /\ Open'
    BY <1>6 DEF OpenTarget, Open
  <2> HIDE DEF mark
  <2>2. KeysSeen' /\ ReplayOnlyAfterFailure'
    BY <1>0, <2>1 DEF KeysSeen, ReplayOnlyAfterFailure
  <2>3. StoredReplay'
    BY <1>0, <2>1 DEF StoredReplay, Incidents, Settled, Instant
  <2>4. OpenReplay'
    <3> SUFFICES ASSUME NEW r \in Rows, PhoneOf[r] = cur
                 PROVE  /\ emitted'[r] + Moved' <= 1 + Incidents'
                        /\ ~ Settled(r, mark, zone[cur]) => emitted'[r] + Moved' <= Incidents'
      BY <2>1 DEF OpenReplay
    <3>1. Moved' = 0 /\ Incidents' = Incidents
      BY <2>1 DEF Moved, Incidents
    <3>2. ~ Settled(r, mark, zone[cur]) => emitted[r] <= Incidents
      BY <1>0, <2>1 DEF StoredReplay, mark
    <3> QED BY <1>00, <2>1, <3>1, <3>2
  <2> QED BY <2>2, <2>3, <2>4 DEF ReplayInv
<1>7. CASE FetchLogs
  BY <1>7, ReplayQuiet DEF FetchLogs, Open
<1>8. CASE SkipRow
  BY <1>8, ReplayQuiet DEF SkipRow, Open
<1>9. CASE EmitRow
  <2> DEFINE q == Head(entries)
  <2>1. q \in Rows
    BY <1>9 DEF EmitRow, TypeOK
  <2>2. /\ callLogIsNew(q, location, checkpoint, seen)
        /\ emitted' = [emitted EXCEPT ![q] = @ + 1]
        /\ checkpoint' = callLogAdvance(checkpoint, q, location)
        /\ seen' = seen \cup {Wall[q]}
        /\ UNCHANGED <<stored, zone, cur, location, failures, zoneChanges>>
        /\ Open /\ Open'
    BY <1>9 DEF EmitRow, Open
  <2> HIDE DEF q
  <2>3. checkpoint \in Watermark /\ location \in Zones /\ checkpoint.start \in Nat
    BY <1>9, MarkFields DEF TypeOK, EmitRow
  <2>4. checkpoint.start = 0 \/ Instant(q, location) >= checkpoint.start
    BY <2>2 DEF callLogIsNew
  <2>5. /\ Settled(q, checkpoint', location)
        /\ \A r \in Rows : Settled(r, checkpoint, location) => Settled(r, checkpoint', location)
    BY <2>1, <2>2, <2>3, <2>4, AdvanceSettles
  <2>6. ~ Settled(q, checkpoint, location)
    <3>1. Instant(q, location) \in Nat
      BY <2>1, <2>3, RowFields
    <3>2. Wall[q] \notin checkpoint.keys
      BY <1>0, <2>2 DEF KeysSeen, callLogIsNew
    <3> QED BY <2>3, <2>4, <3>1, <3>2 DEF Settled
  <2>7. Incidents' = Incidents /\ Moved' = Moved /\ Moved \in {0, 1}
    BY <2>2 DEF Incidents, Moved
  <2>8. \A r \in Rows : emitted'[r] = IF r = q THEN emitted[r] + 1 ELSE emitted[r]
    BY <2>1, <2>2 DEF TypeOK
  <2>9. KeysSeen'
    <3>1. checkpoint'.keys \subseteq checkpoint.keys \cup {Wall[q]}
      BY <2>1, <2>2, <2>3, <2>4, AdvanceFacts
    <3> QED BY <1>0, <2>2, <3>1 DEF KeysSeen
  <2>10. PhoneOf[q] = cur
    BY <1>9, HeadTail DEF EmitRow, OwnRows, TypeOK, q
  <2>11. OpenReplay'
    <3> SUFFICES ASSUME NEW r \in Rows, PhoneOf[r] = cur
                 PROVE  /\ emitted'[r] + Moved <= 1 + Incidents
                        /\ ~ Settled(r, checkpoint', location) => emitted'[r] + Moved <= Incidents
      BY <2>2, <2>7 DEF OpenReplay
    <3>1. /\ emitted[r] + Moved <= 1 + Incidents
          /\ ~ Settled(r, checkpoint, location) => emitted[r] + Moved <= Incidents
      BY <1>0, <2>2 DEF OpenReplay
    <3> QED BY <1>00, <2>5, <2>6, <2>7, <2>8, <3>1
  <2>12. ReplayOnlyAfterFailure'
    <3> SUFFICES ASSUME NEW r \in Rows PROVE emitted'[r] <= 1 + Incidents'
      BY <1>00, <2>2 DEF ReplayOnlyAfterFailure, Incidents
    <3>1. CASE r = q
      BY <3>1, <1>00, <2>2, <2>7, <2>10, <2>11 DEF OpenReplay
    <3>2. CASE r # q
      BY <3>2, <1>00, <2>7, <2>8
    <3> QED BY <3>1, <3>2
  <2>13. StoredReplay'
    <3>1. \A r \in Rows : PhoneOf[r] # cur => emitted'[r] = emitted[r]
      BY <2>8, <2>10
    <3> QED BY <1>0, <2>2, <2>7, <3>1 DEF StoredReplay, Settled, Instant
  <2> QED BY <2>9, <2>11, <2>12, <2>13 DEF ReplayInv
<1>10. CASE EndRows
  BY <1>10, ReplayQuiet DEF EndRows, Open
<1>11. ASSUME NEW d \in Directions, CountCalls(d) PROVE ReplayInv'
  BY <1>11, ReplayQuiet DEF CountCalls, Open
<1>12. CASE EndCount
  BY <1>12, ReplayQuiet DEF EndCount, Open
<1>13. CASE SaveWatermark
  <2> DEFINE saved == [checkpoint EXCEPT !.version = 1]
  <2>1. /\ stored' = [stored EXCEPT ![cur] = saved]
        /\ UNCHANGED <<zone, emitted, failures, zoneChanges>>
        /\ Open /\ ~ Open'
    BY <1>13 DEF SaveWatermark, NextTarget, Open
  <2> HIDE DEF saved
  <2>2. KeysSeen' /\ OpenReplay' /\ ReplayOnlyAfterFailure'
    BY <1>0, <2>1 DEF KeysSeen, OpenReplay, ReplayOnlyAfterFailure
  <2>3. Incidents' = Incidents
    BY <2>1 DEF Incidents
  <2>4. StoredReplay'
    <3> SUFFICES ASSUME NEW r \in Rows,
                        ~ Settled(r, loadWatermark(stored'[PhoneOf[r]], zone[PhoneOf[r]]),
                                  zone[PhoneOf[r]])
                 PROVE  emitted[r] <= Incidents
      BY <2>1, <2>3 DEF StoredReplay
    <3>1. CASE PhoneOf[r] # cur
      <4>1. stored'[PhoneOf[r]] = stored[PhoneOf[r]]
        BY <2>1, <3>1, RowFields DEF TypeOK
      <4> QED BY <1>0, <3>1, <4>1 DEF StoredReplay
    <3>2. CASE PhoneOf[r] = cur
      <4>1. stored'[cur] = saved /\ zone[cur] \in Zones /\ checkpoint \in Watermark
        BY <1>0, <2>1, MarksTyped DEF TypeOK
      <4>2. /\ loadWatermark(saved, zone[cur]).start = checkpoint.start
            /\ loadWatermark(saved, zone[cur]).keys = checkpoint.keys
        BY <4>1, SaveFacts DEF saved
      <4>3. ~ Settled(r, checkpoint, zone[cur])
        BY <3>2, <4>1, <4>2 DEF Settled
      <4>4. /\ emitted[r] + Moved <= 1 + Incidents
            /\ ~ Settled(r, checkpoint, location) => emitted[r] + Moved <= Incidents
        BY <1>0, <2>1, <3>2 DEF OpenReplay
      <4>5. location = zone[cur] => Moved = 0
        BY DEF Moved
      <4>6. location # zone[cur] => Moved = 1
        BY DEF Moved
      <4> QED BY <1>00, <4>3, <4>4, <4>5, <4>6
    <3> QED BY <3>1, <3>2
  <2> QED BY <2>2, <2>4 DEF ReplayInv
<1>14. CASE PassFails
  <2>1. /\ failures' = failures + 1 /\ zoneChanges' = zoneChanges /\ emitted' = emitted
        /\ ~ Open'
    BY <1>14 DEF PassFails, Open
  <2>2. \A r \in Rows : emitted'[r] <= Incidents' /\ emitted'[r] <= 1 + failures' + zoneChanges'
    BY <1>00, <2>1 DEF Incidents
  <2> QED BY <2>1, <2>2 DEF ReplayInv, KeysSeen, OpenReplay, StoredReplay, ReplayOnlyAfterFailure
<1>15. CASE UNCHANGED vars
  BY <1>15, ReplayQuiet DEF vars, Open
<1> QED
  BY <1>1, <1>2, <1>3, <1>4, <1>5, <1>6, <1>7, <1>8, <1>9, <1>10, <1>11, <1>12, <1>13,
     <1>14, <1>15 DEF Next, PassStep

\* However passes are interleaved with arriving rows, timezone changes, failures and the
\* upgrade from a legacy file, each repeated log of a row is matched by an abandoned pass
\* or a timezone change.
THEOREM ReplaysBounded == Spec => []ReplayOnlyAfterFailure
<1>1. Init => TypeOK /\ OwnRows /\ ReplayInv
  BY InitTyped, OwnRowsInvariant, InitReplay
<1>2. TypeOK /\ OwnRows /\ ReplayInv /\ [Next]_vars => (TypeOK /\ OwnRows /\ ReplayInv)'
  BY NextTyped, OwnRowsInvariant, NextReplay
<1>3. ReplayInv => ReplayOnlyAfterFailure
  BY DEF ReplayInv
<1> QED
  BY <1>1, <1>2, <1>3, PTL DEF Spec

----------------------------------------------------------------------------
(* No call is lost. *)

\* Logging more keeps a mark sound, and so does forgetting keys.
LEMMA SoundWhenMoreLogged ==
    ASSUME NEW start, NEW keys, NEW fewer, fewer \subseteq keys, NEW z, NEW s, NEW em, NEW em2,
           \A q \in Rows : em[q] > 0 => em2[q] > 0,
           MarkSound(start, keys, z, s, em)
    PROVE  MarkSound(start, fewer, z, s, em2)
  BY DEF MarkSound

\* So does a row that arrives, in turn or not.
LEMMA SoundWhenRowArrives ==
    ASSUME NEW start \in Nat, NEW keys, NEW z \in Zones, NEW s \in Seq(Rows), NEW em,
           NEW r \in Rows, MarkSound(start, keys, z, s, em)
    PROVE  MarkSound(start, keys, z, Append(s, r), em)
<1> DEFINE t == Append(s, r)
<1>1. ElementsOf(t) = ElementsOf(s) \cup {r}
      /\ \A q : InTurn(t, q) => InTurn(s, q) \/ (q = r /\ Later(r, s))
  BY AppendFacts
<1> HIDE DEF t
<1>2. ASSUME Later(r, s)
      PROVE  Wall[r] \notin keys /\ ~ (start # 0 /\ Instant(r, z) < start)
  <2>1. \A q \in ElementsOf(s) : q \in Rows
    BY DEF ElementsOf
  <2>2. \A q \in ElementsOf(s) \ Unparsable : Wall[q] < Wall[r] /\ Wall[q] \in Nat
    BY <1>2, <2>1, RowFields DEF Later
  <2>3. Wall[r] \in Nat /\ Instant(r, z) \in Nat
    BY RowFields
  <2>4. Wall[r] \notin keys
    BY <2>2, <2>3 DEF MarkSound
  <2>5. ASSUME NEW q \in ElementsOf(s) \ Unparsable, start = Instant(q, z)
        PROVE  ~ (Instant(r, z) < start)
    <3>1. Instant(q, z) < Instant(r, z)
      BY <2>1, <2>2, InstantOrder
    <3> QED BY <2>3, <2>5, <3>1
  <2> QED BY <2>4, <2>5 DEF MarkSound
<1>3. start = 0 \/ \E q \in ElementsOf(t) \ Unparsable : start = Instant(q, z)
  BY <1>1 DEF MarkSound
<1>4. \A k \in keys : \E q \in ElementsOf(t) \ Unparsable : k = Wall[q]
  BY <1>1 DEF MarkSound
<1>5. ASSUME NEW q \in Rows \ Unparsable, InTurn(t, q),
             Wall[q] \in keys \/ (start # 0 /\ Instant(q, z) < start)
      PROVE  em[q] > 0
  <2>1. CASE InTurn(s, q)
    BY <1>5, <2>1 DEF MarkSound
  <2>2. CASE q = r /\ Later(r, s)
    BY <1>2, <1>5, <2>2
  <2> QED BY <1>1, <1>5, <2>1, <2>2
<1> QED
  BY <1>3, <1>4, <1>5 DEF MarkSound, t

LEMMA InitLost == Init => LostInv
<1> SUFFICES ASSUME Init PROVE LostInv
  OBVIOUS
<1>0. TypeOK
  BY InitTyped
<1>1. ~ Open /\ pc # "rows"
  BY DEF Init, Open
<1>2. ASSUME NEW p \in Phones
      PROVE  LET mark == loadWatermark(stored[p], zone[p])
             IN  MarkSound(mark.start, mark.keys, zone[p], log[p], emitted)
  <2> DEFINE s == LegacyLog[p]
             n == Len(s)
             last == Wall[s[n]]
             mark == loadWatermark(stored[p], zone[p])
  <2>1. log[p] = s /\ s \in Seq(Rows) /\ stored[p] = LegacyMark(s)
    BY LegacyAssumption DEF Init
  <2>2. zone[p] \in Zones /\ stored[p] \in LegacyWatermark \cup Watermark
    BY <1>0, MarksTyped
  <2>3. CASE s = <<>>
    <3>1. stored[p].version = 1 /\ stored[p].start = 0 /\ stored[p].keys = {}
      BY <2>1, <2>3 DEF LegacyMark, NoWatermark
    <3>2. mark.start = 0 /\ mark.keys = {}
      BY <2>2, <3>1, LoadFacts
    <3> HIDE DEF mark
    <3>3. MarkSound(mark.start, mark.keys, zone[p], log[p], emitted)
      BY <3>2 DEF MarkSound
    <3> QED BY <3>3 DEF mark
  <2>4. CASE s # <<>>
    <3>1. n \in Nat /\ n \in 1 .. n /\ s[n] \in Rows
      BY <2>1, <2>4
    <3>2. stored[p] = [version |-> 0, start |-> last, keys |-> {last}]
      BY <2>1, <2>4 DEF LegacyMark
    <3>3. stored[p].version = 0 /\ stored[p].start = last /\ stored[p].keys = {last}
      BY <3>2
    <3>4. last \in Nat \ {0}
      BY <3>1, RowFields
    <3>5. mark.start = last + Offset(zone[p], last) /\ mark.keys = {last}
      BY <2>2, <3>3, <3>4, LoadFacts
    <3>6. mark.start = Instant(s[n], zone[p])
      BY <3>5 DEF Instant
    <3>7. s[n] \in ElementsOf(s) \ Unparsable
      BY <3>1, LegacyAssumption DEF ElementsOf
    <3>8. ASSUME NEW r \in Rows \ Unparsable, InTurn(s, r) PROVE emitted[r] > 0
      <4>1. PICK i \in 1 .. n : r = s[i]
        BY <3>8 DEF InTurn
      <4>2. PhoneOf[r] = p
        BY <2>1, <4>1, LegacyAssumption
      <4>3. AlreadyLogged(r)
        BY <4>1, <4>2 DEF AlreadyLogged, ElementsOf
      <4> QED BY <4>3 DEF Init
    <3>9. last = Wall[s[n]]
      OBVIOUS
    <3> HIDE DEF mark, s, last, n
    <3>10. MarkSound(mark.start, mark.keys, zone[p], s, emitted)
      BY <3>5, <3>6, <3>7, <3>8, <3>9 DEF MarkSound
    <3> QED BY <2>1, <3>10 DEF mark
  <2> QED BY <2>3, <2>4
<1>3. StoredSound
  BY <1>2 DEF StoredSound
<1> QED
  BY <1>1, <1>3 DEF LostInv, PassSound, RowsSound

\* A step that logs nothing, shows no new row and leaves marks and zones alone.
LEMMA LostQuiet ==
    ASSUME StoredSound, PassSound, RowsSound,
           UNCHANGED <<log, zone, stored, emitted>>,
           Open' => Open /\ UNCHANGED <<cur, location, checkpoint, seen>>,
           pc' = "rows" => pc = "rows" /\ UNCHANGED <<entries, cur>>
    PROVE  StoredSound' /\ PassSound' /\ RowsSound'
<1>1. StoredSound'
  BY DEF StoredSound
<1>2. PassSound'
  BY DEF PassSound
<1>3. RowsSound'
  BY DEF RowsSound
<1> QED
  BY <1>1, <1>2, <1>3

LEMMA NextLost ==
    ASSUME OneList, TypeOK, OwnRows, KeysSeen, LostInv, [Next]_vars
    PROVE  LostInv'
<1> DEFINE Goal == StoredSound' /\ PassSound' /\ RowsSound'
<1> SUFFICES ASSUME zoneChanges' = 0 PROVE Goal
  BY DEF LostInv
<1> USE DEF phoneVars, passVars
<1>3. ASSUME NEW p \in Phones, ChangeZone(p) PROVE FALSE
  <2>1. zoneChanges \in Nat /\ zoneChanges' = zoneChanges + 1
    BY <1>3, BoundsAssumption DEF ChangeZone, TypeOK
  <2> QED BY <2>1
<1>z. zoneChanges = 0
  BY <1>3 DEF Next, PassStep, Arrive, Toggle, StartPass, SkipTarget, OpenTarget, FetchLogs,
      SkipRow, EmitRow, EndRows, CountCalls, EndCount, SaveWatermark, PassFails, vars
<1>0. StoredSound /\ PassSound /\ RowsSound
  BY <1>z DEF LostInv
<1>00. /\ log \in [Phones -> Seq(Rows)] /\ cur \in Phones /\ log[cur] \in Seq(Rows)
       /\ checkpoint \in Watermark /\ checkpoint.start \in Nat
       /\ Open => location \in Zones
       /\ entries \in Seq(Rows) /\ emitted \in [Rows -> Nat]
       /\ stored \in [Phones -> LegacyWatermark \cup Watermark]
  BY MarkFields DEF TypeOK, Open
<1> HIDE DEF Goal
<1>1. ASSUME NEW r \in Rows, Arrive(r) PROVE Goal
  <2> DEFINE p == PhoneOf[r]
  <2>1. /\ log' = [log EXCEPT ![p] = Append(@, r)]
        /\ UNCHANGED <<zone, stored, emitted, pc, cur, location, checkpoint, seen, entries>>
    BY <1>1 DEF Arrive
  <2>2. p \in Phones /\ log[p] \in Seq(Rows)
    BY <1>00, RowFields
  <2> HIDE DEF p
  <2>3. log'[p] = Append(log[p], r) /\ \A o \in Phones \ {p} : log'[o] = log[o]
    BY <1>00, <2>1, <2>2
  <2>4. /\ ElementsOf(log'[p]) = ElementsOf(log[p]) \cup {r}
        /\ \A q : InTurn(log'[p], q) => InTurn(log[p], q) \/ (q = r /\ Later(r, log[p]))
    BY <2>2, <2>3, AppendFacts
  <2>6. ASSUME NEW start \in Nat, NEW keys, NEW z \in Zones, NEW o \in Phones,
               MarkSound(start, keys, z, log[o], emitted)
        PROVE  MarkSound(start, keys, z, log'[o], emitted)
    BY <2>2, <2>3, <2>6, SoundWhenRowArrives
  <2>7. StoredSound'
    <3> SUFFICES ASSUME NEW o \in Phones
                 PROVE  LET mark == loadWatermark(stored[o], zone[o])
                        IN  MarkSound(mark.start, mark.keys, zone[o], log'[o], emitted)
      BY <2>1 DEF StoredSound
    <3>1. zone[o] \in Zones /\ loadWatermark(stored[o], zone[o]).start \in Nat
      BY MarksTyped, MarkFields
    <3> QED BY <1>0, <2>6, <3>1 DEF StoredSound
  <2>8. PassSound'
    <3> SUFFICES ASSUME Open
                 PROVE  /\ location = zone[cur]
                        /\ MarkSound(checkpoint.start, seen, location, log'[cur], emitted)
      BY <2>1 DEF PassSound, Open
    <3> QED BY <1>0, <1>00, <2>6 DEF PassSound
  <2>9. RowsSound'
    <3> SUFFICES ASSUME pc = "rows"
                 PROVE  /\ ElementsOf(entries) \subseteq ElementsOf(log'[cur])
                        /\ \A q \in Rows \ Unparsable :
                              InTurn(log'[cur], q) =>
                                  emitted[q] > 0 \/ InTurn(entries, q) \/ Later(q, entries)
      BY <2>1 DEF RowsSound
    <3>1. CASE cur # p
      BY <1>0, <1>00, <2>3, <3>1 DEF RowsSound
    <3>2. CASE cur = p
      <4>1. Later(r, log[p]) => Later(r, entries)
        BY <1>0, <3>2 DEF RowsSound, Later
      <4> QED BY <1>0, <2>4, <3>2, <4>1 DEF RowsSound
    <3> QED BY <3>1, <3>2
  <2> QED BY <2>7, <2>8, <2>9 DEF Goal
<1>2. ASSUME NEW p \in Phones, Toggle(p) PROVE Goal
  BY <1>0, <1>2, LostQuiet DEF Toggle, Open, Goal
<1>4. CASE StartPass
  BY <1>0, <1>4, LostQuiet DEF StartPass, Open, Goal
<1>5. CASE SkipTarget
  BY <1>0, <1>5, LostQuiet DEF SkipTarget, NextTarget, Open, Goal
<1>6. CASE OpenTarget
  <2> DEFINE mark == loadWatermark(stored[cur], zone[cur])
  <2>1. /\ location' = zone[cur] /\ checkpoint' = mark /\ seen' = mark.keys
        /\ UNCHANGED <<log, zone, stored, cur, emitted>>
        /\ pc' = "opened"
    BY <1>6 DEF OpenTarget
  <2>2. MarkSound(mark.start, mark.keys, zone[cur], log[cur], emitted)
    BY <1>0, <1>00 DEF StoredSound
  <2> HIDE DEF mark
  <2>4. PassSound'
    BY <2>1, <2>2 DEF PassSound
  <2>5. StoredSound'
    BY <1>0, <2>1 DEF StoredSound
  <2>6. RowsSound'
    BY <2>1 DEF RowsSound
  <2> QED BY <2>4, <2>5, <2>6 DEF Goal
<1>7. CASE FetchLogs
  <2>1. /\ entries' = callLogEntries(log[cur]) /\ pc = "opened" /\ pc' = "rows"
        /\ UNCHANGED <<log, zone, stored, cur, location, checkpoint, seen, emitted>>
    BY <1>7 DEF FetchLogs
  <2>2. ElementsOf(entries') = ElementsOf(log[cur])
    BY <1>00, <2>1, EntriesFacts
  <2>3. PICK d \in Directions : \A r \in ElementsOf(log[cur]) : DirectionOf[r] = d
    <3>1. \A r \in ElementsOf(log[cur]) : r \in Rows /\ PhoneOf[r] = cur
      BY <1>00 DEF OwnRows, ElementsOf
    <3>2. \A q, r \in ElementsOf(log[cur]) : DirectionOf[q] = DirectionOf[r]
      BY <3>1 DEF OneList
    <3>3. CASE ElementsOf(log[cur]) = {}
      BY <3>3 DEF Directions
    <3>4. CASE ElementsOf(log[cur]) # {}
      <4>1. PICK q \in ElementsOf(log[cur]) : TRUE
        BY <3>4
      <4>2. DirectionOf[q] \in Directions
        BY <3>1, RowFields
      <4> QED BY <3>2, <4>2
    <3> QED BY <3>3, <3>4
  <2>4. \A r \in Rows : InTurn(log[cur], r) => InTurn(entries', r)
    BY <1>00, <2>1, <2>3, EntriesInTurn
  <2>5. RowsSound'
    BY <2>1, <2>2, <2>4 DEF RowsSound
  <2>6. StoredSound'
    BY <1>0, <2>1 DEF StoredSound
  <2>7. PassSound'
    BY <1>0, <2>1 DEF PassSound, Open
  <2> QED BY <2>5, <2>6, <2>7 DEF Goal
<1>8. CASE SkipRow
  <2> DEFINE q == Head(entries)
  <2>1. /\ entries' = Tail(entries) /\ entries # <<>> /\ pc = "rows" /\ pc' = "rows"
        /\ q \in Unparsable \/ ~ callLogIsNew(q, location, checkpoint, seen)
        /\ UNCHANGED <<log, zone, stored, cur, location, checkpoint, seen, emitted>>
    BY <1>8 DEF SkipRow, parseCallLog
  <2>2. /\ q \in Rows /\ ElementsOf(entries) = {q} \cup ElementsOf(entries')
        /\ \A r : InTurn(entries, r) => r = q \/ InTurn(entries', r)
    BY <1>00, <2>1, HeadTail
  <2> HIDE DEF q
  <2>3. q \notin Unparsable /\ InTurn(log[cur], q) => emitted[q] > 0
    <3> SUFFICES ASSUME q \notin Unparsable, InTurn(log[cur], q) PROVE emitted[q] > 0
      OBVIOUS
    <3>1. Open /\ MarkSound(checkpoint.start, seen, location, log[cur], emitted)
      BY <1>0, <2>1 DEF PassSound, Open
    <3>2. Wall[q] \in seen \/ (checkpoint.start # 0 /\ ~ (Instant(q, location) >= checkpoint.start))
      BY <2>1 DEF callLogIsNew
    <3>3. Instant(q, location) \in Nat
      BY <1>00, <2>2, <3>1, RowFields
    <3>4. Wall[q] \in seen \/ (checkpoint.start # 0 /\ Instant(q, location) < checkpoint.start)
      BY <1>00, <3>2, <3>3
    <3> QED BY <2>2, <3>1, <3>4 DEF MarkSound
  <2>4. \A r : Later(r, entries) => Later(r, entries')
    BY <2>2 DEF Later
  <2>5. RowsSound'
    BY <1>0, <2>1, <2>2, <2>3, <2>4 DEF RowsSound
  <2>6. StoredSound' /\ PassSound'
    BY <1>0, <2>1 DEF StoredSound, PassSound, Open
  <2> QED BY <2>5, <2>6 DEF Goal
<1>9. CASE EmitRow
  <2> DEFINE q == Head(entries)
  <2>1. /\ entries' = Tail(entries) /\ entries # <<>> /\ pc = "rows" /\ pc' = "rows"
        /\ q \notin Unparsable
        /\ callLogIsNew(q, location, checkpoint, seen)
        /\ emitted' = [emitted EXCEPT ![q] = @ + 1]
        /\ checkpoint' = callLogAdvance(checkpoint, q, location)
        /\ seen' = seen \cup {Wall[q]}
        /\ UNCHANGED <<log, zone, stored, cur, location>>
    BY <1>9 DEF EmitRow, parseCallLog
  <2>2. /\ q \in Rows /\ ElementsOf(entries) = {q} \cup ElementsOf(entries')
        /\ \A r : InTurn(entries, r) => r = q \/ (InTurn(entries', r) /\ Wall[q] < Wall[r])
    BY <1>00, <2>1, HeadTail
  <2> HIDE DEF q
  <2>3. \A r \in Rows : emitted[r] > 0 => emitted'[r] > 0
    BY <1>00, <2>1, <2>2
  <2>4. emitted'[q] > 0
    BY <1>00, <2>1, <2>2
  <2>5. Open /\ Open' /\ location \in Zones
    BY <1>00, <2>1 DEF Open
  <2>7. q \in ElementsOf(log[cur]) \ Unparsable
    BY <1>0, <2>1, <2>2 DEF RowsSound
  <2>8. StoredSound'
    <3> SUFFICES ASSUME NEW p \in Phones
                 PROVE  LET mark == loadWatermark(stored[p], zone[p])
                        IN  MarkSound(mark.start, mark.keys, zone[p], log[p], emitted')
      BY <2>1 DEF StoredSound
    <3> DEFINE mark == loadWatermark(stored[p], zone[p])
    <3>1. MarkSound(mark.start, mark.keys, zone[p], log[p], emitted)
      BY <1>0 DEF StoredSound
    <3> HIDE DEF mark
    <3>2. MarkSound(mark.start, mark.keys, zone[p], log[p], emitted')
      BY <2>3, <3>1, SoundWhenMoreLogged
    <3> QED BY <3>2 DEF mark
  <2>9. checkpoint.start = 0 \/ Instant(q, location) >= checkpoint.start
    BY <2>1 DEF callLogIsNew
  <2>10. checkpoint'.start = Instant(q, location)
    BY <1>00, <2>1, <2>2, <2>5, <2>9, AdvanceFacts
  <2>11. MarkSound(checkpoint.start, seen, location, log[cur], emitted)
    BY <1>0, <2>5 DEF PassSound
  <2>12. MarkSound(Instant(q, location), seen', location, log[cur], emitted')
    <3>1. \A k \in seen' : \E o \in ElementsOf(log[cur]) \ Unparsable : k = Wall[o]
      BY <2>1, <2>7, <2>11 DEF MarkSound
    <3>2. ASSUME NEW r \in Rows \ Unparsable, InTurn(log[cur], r),
                 Wall[r] \in seen' \/ Instant(r, location) < Instant(q, location)
          PROVE  emitted'[r] > 0
      <4>1. CASE Wall[r] \in seen
        <5>1. emitted[r] > 0
          BY <2>11, <3>2, <4>1 DEF MarkSound
        <5> QED BY <2>3, <5>1
      <4>2. CASE Wall[r] = Wall[q] \/ Instant(r, location) < Instant(q, location)
        <5>1. Wall[r] \in Nat /\ Wall[q] \in Nat
          BY <2>2, RowFields
        <5>2. ~ (Wall[q] < Wall[r])
          BY <2>2, <2>5, <4>2, <5>1, InstantOrder
        <5>3. emitted[r] > 0 \/ InTurn(entries, r) \/ Later(r, entries)
          BY <1>0, <2>1, <3>2 DEF RowsSound
        <5>4. ~ Later(r, entries)
          BY <2>1, <2>2, <5>2 DEF Later
        <5> QED BY <2>2, <2>3, <2>4, <5>2, <5>3, <5>4
      <4> QED BY <2>1, <3>2, <4>1, <4>2
    <3> QED BY <2>7, <3>1, <3>2 DEF MarkSound
  <2>13. PassSound'
    <3>1. location = zone[cur]
      BY <1>0, <2>5 DEF PassSound
    <3> QED BY <2>1, <2>10, <2>12, <3>1 DEF PassSound
  <2>14. \A r : Later(r, entries) => Later(r, entries')
    BY <2>2 DEF Later
  <2>15. RowsSound'
    BY <1>0, <2>1, <2>2, <2>3, <2>4, <2>14 DEF RowsSound
  <2> QED BY <2>8, <2>13, <2>15 DEF Goal
<1>10. CASE EndRows
  BY <1>0, <1>10, LostQuiet DEF EndRows, Open, Goal
<1>11. ASSUME NEW d \in Directions, CountCalls(d) PROVE Goal
  BY <1>0, <1>11, LostQuiet DEF CountCalls, Open, Goal
<1>12. CASE EndCount
  BY <1>0, <1>12, LostQuiet DEF EndCount, Open, Goal
<1>13. CASE SaveWatermark
  <2> DEFINE saved == [checkpoint EXCEPT !.version = 1]
  <2>1. /\ stored' = [stored EXCEPT ![cur] = saved]
        /\ UNCHANGED <<log, zone, emitted>>
        /\ Open /\ ~ Open' /\ pc' # "rows"
    BY <1>13 DEF SaveWatermark, NextTarget, Open
  <2> HIDE DEF saved
  <2>2. PassSound' /\ RowsSound'
    BY <2>1 DEF PassSound, RowsSound
  <2>3. StoredSound'
    <3> SUFFICES ASSUME NEW p \in Phones
                 PROVE  LET mark == loadWatermark(stored'[p], zone[p])
                        IN  MarkSound(mark.start, mark.keys, zone[p], log[p], emitted)
      BY <2>1 DEF StoredSound
    <3>1. CASE p # cur
      <4>1. stored'[p] = stored[p]
        BY <1>00, <2>1, <3>1
      <4> QED BY <1>0, <4>1 DEF StoredSound
    <3>2. CASE p = cur
      <4>1. stored'[cur] = saved /\ zone[cur] \in Zones
        BY <1>00, <2>1, MarksTyped
      <4>2. /\ loadWatermark(saved, zone[cur]).start = checkpoint.start
            /\ loadWatermark(saved, zone[cur]).keys = checkpoint.keys
        BY <1>00, <4>1, SaveFacts DEF saved
      <4>3. /\ MarkSound(checkpoint.start, seen, zone[cur], log[cur], emitted)
            /\ checkpoint.keys \subseteq seen
        BY <1>0, <2>1 DEF PassSound, KeysSeen
      <4>4. MarkSound(checkpoint.start, checkpoint.keys, zone[cur], log[cur], emitted)
        BY <4>3, SoundWhenMoreLogged
      <4> QED BY <3>2, <4>1, <4>2, <4>4
    <3> QED BY <3>1, <3>2
  <2> QED BY <2>2, <2>3 DEF Goal
<1>14. CASE PassFails
  BY <1>0, <1>14, LostQuiet DEF PassFails, Open, Goal
<1>15. CASE UNCHANGED vars
  BY <1>0, <1>15, LostQuiet DEF vars, Open, Goal
<1> QED
  BY <1>1, <1>2, <1>3, <1>4, <1>5, <1>6, <1>7, <1>8, <1>9, <1>10, <1>11, <1>12, <1>13,
     <1>14, <1>15 DEF Next, PassStep

LEMMA LostImplies ==
    ASSUME TypeOK, LostInv PROVE NoCallLost
<1> SUFFICES ASSUME zoneChanges = 0, NEW r \in Rows \ Unparsable,
                    InTurn(log[PhoneOf[r]], r), Covered(r)
             PROVE  emitted[r] > 0
  BY DEF NoCallLost
<1> DEFINE p == PhoneOf[r]
           mark == loadWatermark(stored[p], zone[p])
<1>1. p \in Phones
  BY RowFields
<1>2. MarkSound(mark.start, mark.keys, zone[p], log[p], emitted)
  BY <1>1 DEF LostInv, StoredSound
<1>3. mark \in Watermark /\ zone[p] \in Zones
  BY <1>1, MarksTyped
<1>4. ~ callLogIsNew(r, zone[p], mark, mark.keys)
  BY DEF Covered
<1> HIDE DEF mark
<1>5. Instant(r, zone[p]) \in Nat /\ mark.start \in Nat
  BY <1>3, RowFields, MarkFields
<1>6. Wall[r] \in mark.keys \/ (mark.start # 0 /\ Instant(r, zone[p]) < mark.start)
  BY <1>4, <1>5 DEF callLogIsNew
<1> QED
  BY <1>2, <1>6 DEF MarkSound

\* If every phone has its calls in one list, no call is lost whose wall clock is later than
\* those before it: by whatever daylight-saving rules, whatever rows arrive while a pass
\* runs, repeated hours included, and wherever passes are abandoned, such a row was logged
\* if the saved watermark excludes it.  (Without the hypothesis the run
\* phone_call_logs_two_lists shows a call that is lost.)
THEOREM NoCallIsLost == ASSUME OneList PROVE Spec => []NoCallLost
<1> DEFINE Inv == TypeOK /\ OwnRows /\ ReplayInv /\ LostInv
<1>1. Init => Inv
  BY InitTyped, OwnRowsInvariant, InitReplay, InitLost
<1>2. Inv /\ [Next]_vars => Inv'
  <2>1. ReplayInv => KeysSeen
    BY DEF ReplayInv
  <2> QED BY <2>1, NextTyped, OwnRowsInvariant, NextReplay, NextLost
<1>3. Inv => NoCallLost
  BY LostImplies
<1> QED
  BY <1>1, <1>2, <1>3, PTL DEF Spec

----------------------------------------------------------------------------
(* Sums over rows. *)

\* One turn of the fold that adds up em over a set of rows.
SumTurn(sum, em, s) ==
    IF s = {} THEN 0
    ELSE LET x == CHOOSE x \in s : TRUE IN em[x] + sum[s \ {x}]

\* The fold over S.
SumOver(em, S) ==
    (CHOOSE sum : sum = [s \in SUBSET S |-> SumTurn(sum, em, s)])[S]

RowsOf(d) == {r \in Rows : DirectionOf[r] = d}

LEMMA LoggedInIsSum ==
    \A d : /\ LoggedIn(d) = SumOver(emitted, RowsOf(d))
           /\ LoggedIn(d)' = SumOver(emitted', RowsOf(d))
  BY DEF LoggedIn, MapThenSumSet, MapThenFoldSet, SumOver, SumTurn, RowsOf

\* A smallest set of a kind loses the kind with any of its elements.
LEMMA SubsetMin ==
    ASSUME NEW S, IsFiniteSet(S), NEW Bad, Bad \subseteq SUBSET S, Bad # {}
    PROVE  \E s \in Bad : \A x \in s : s \ {x} \notin Bad
<1> DEFINE T == {Cardinality(s) : s \in Bad}
<1>1. \A s \in Bad : IsFiniteSet(s) /\ Cardinality(s) \in Nat
  BY FS_Subset, FS_CardinalityType
<1>2. T \subseteq Nat /\ T # {}
  BY <1>1
<1>3. PICK n \in T : \A y \in T : n <= y
  BY <1>2, NatMin
<1>4. PICK s \in Bad : n = Cardinality(s)
  BY <1>3
<1>5. ASSUME NEW x \in s, s \ {x} \in Bad PROVE FALSE
  <2>1. Cardinality(s \ {x}) = Cardinality(s) - 1
    BY <1>1, FS_RemoveElement
  <2>2. Cardinality(s \ {x}) \in T
    BY <1>5
  <2>3. Cardinality(s) <= Cardinality(s \ {x})
    BY <1>3, <1>4, <2>2
  <2>4. Cardinality(s) \in Nat
    BY <1>1
  <2> QED BY <2>1, <2>3, <2>4
<1> QED
  BY <1>5

\* The recursive definition of the sum has a solution.
LEMMA SumExists ==
    ASSUME NEW S \in SUBSET Rows, IsFiniteSet(S), NEW em \in [Rows -> Nat]
    PROVE  \E sum : sum = [s \in SUBSET S |-> SumTurn(sum, em, s)]
<1> DEFINE Small(n) == {s \in SUBSET S : Cardinality(s) <= n}
           Sums(n) == \E sum \in [Small(n) -> Nat] :
                         \A s \in Small(n) : sum[s] = SumTurn(sum, em, s)
           Bad == {n \in Nat : ~ Sums(n)}
<1>1. \A s \in SUBSET S : IsFiniteSet(s) /\ Cardinality(s) \in Nat
                          /\ Cardinality(s) <= Cardinality(S)
  BY FS_Subset, FS_CardinalityType
<1>2. Cardinality(S) \in Nat /\ Small(Cardinality(S)) = SUBSET S
  BY <1>1, FS_CardinalityType
<1>3. ASSUME Sums(Cardinality(S)) PROVE \E sum : sum = [s \in SUBSET S |-> SumTurn(sum, em, s)]
  <2>1. PICK sum \in [SUBSET S -> Nat] : \A s \in SUBSET S : sum[s] = SumTurn(sum, em, s)
    BY <1>2, <1>3
  <2>2. sum = [s \in SUBSET S |-> SumTurn(sum, em, s)]
    BY <2>1
  <2> QED BY <2>2
<1> SUFFICES ASSUME Bad # {} PROVE FALSE
  BY <1>2, <1>3
<1>4. PICK m \in Bad : \A y \in Bad : m <= y
  BY NatMin
<1>5. m \in Nat /\ ~ Sums(m)
  BY <1>4
<1>6. ASSUME NEW s \in SUBSET S, s # {}
      PROVE  LET x == CHOOSE x \in s : TRUE
             IN  /\ x \in s /\ em[x] \in Nat
                 /\ s \ {x} \in SUBSET S /\ Cardinality(s \ {x}) = Cardinality(s) - 1
  <2> DEFINE x == CHOOSE x \in s : TRUE
  <2>1. x \in s
    BY <1>6
  <2> HIDE DEF x
  <2>2. em[x] \in Nat /\ s \ {x} \in SUBSET S
    BY <2>1
  <2>3. Cardinality(s \ {x}) = Cardinality(s) - 1
    BY <1>1, <2>1, FS_RemoveElement
  <2> QED BY <2>1, <2>2, <2>3 DEF x
<1>7. m # 0
  <2> DEFINE e == [s \in Small(0) |-> 0]
  <2>1. \A s \in Small(0) : s = {}
    BY <1>1, FS_EmptySet
  <2>2. e \in [Small(0) -> Nat] /\ \A s \in Small(0) : e[s] = SumTurn(e, em, s)
    BY <2>1 DEF SumTurn
  <2> HIDE DEF e
  <2>3. Sums(0)
    BY <2>2
  <2> HIDE DEF Sums
  <2> QED BY <1>5, <2>3
<1>8. m - 1 \in Nat /\ ~ (m <= m - 1)
  BY <1>5, <1>7
<1>9. Sums(m - 1)
  BY <1>4, <1>8
<1>10. PICK sum \in [Small(m - 1) -> Nat] :
          \A s \in Small(m - 1) : sum[s] = SumTurn(sum, em, s)
  BY <1>9
<1> DEFINE e == [s \in Small(m) |-> SumTurn(sum, em, s)]
<1>11. ASSUME NEW s \in Small(m), s # {}
       PROVE  LET x == CHOOSE x \in s : TRUE IN s \ {x} \in Small(m - 1)
  BY <1>1, <1>5, <1>6, <1>11
<1>12. ASSUME NEW s \in Small(m - 1) PROVE s \in Small(m) /\ e[s] = sum[s]
  BY <1>1, <1>5, <1>10
<1>13. ASSUME NEW s \in Small(m)
       PROVE  SumTurn(sum, em, s) \in Nat /\ SumTurn(sum, em, s) = SumTurn(e, em, s)
  <2>1. CASE s = {}
    BY <2>1 DEF SumTurn
  <2>2. CASE s # {}
    <3> DEFINE x == CHOOSE x \in s : TRUE
    <3>1. s \ {x} \in Small(m - 1) /\ em[x] \in Nat
      BY <1>6, <1>11, <2>2
    <3>2. e[s \ {x}] = sum[s \ {x}] /\ sum[s \ {x}] \in Nat
      BY <1>10, <1>12, <3>1
    <3>3. SumTurn(sum, em, s) = em[x] + sum[s \ {x}] /\ SumTurn(e, em, s) = em[x] + e[s \ {x}]
      BY <2>2 DEF SumTurn
    <3> HIDE DEF x, e
    <3> QED BY <3>1, <3>2, <3>3
  <2> QED BY <2>1, <2>2
<1>14. e \in [Small(m) -> Nat] /\ \A s \in Small(m) : e[s] = SumTurn(e, em, s)
  BY <1>13
<1> HIDE DEF e
<1>15. Sums(m)
  BY <1>14
<1> QED
  BY <1>5, <1>15

\* What the sum over S is, for every subset of S.
LEMMA SumUnfolds ==
    ASSUME NEW S \in SUBSET Rows, IsFiniteSet(S), NEW em \in [Rows -> Nat]
    PROVE  \E sum : /\ SumOver(em, S) = sum[S]
                    /\ sum[{}] = 0
                    /\ \A s \in SUBSET S :
                          s # {} => LET x == CHOOSE x \in s : TRUE
                                    IN  x \in s /\ sum[s] = em[x] + sum[s \ {x}]
<1> DEFINE sum == CHOOSE sum : sum = [s \in SUBSET S |-> SumTurn(sum, em, s)]
<1>1. SumOver(em, S) = sum[S]
  BY DEF SumOver
<1>2. sum = [s \in SUBSET S |-> SumTurn(sum, em, s)]
  BY SumExists
<1> HIDE DEF sum
<1>3. \A s \in SUBSET S : sum[s] = SumTurn(sum, em, s)
  BY <1>2
<1>4. sum[{}] = 0
  <2>1. {} \in SUBSET S
    OBVIOUS
  <2> QED BY <1>3, <2>1 DEF SumTurn
<1>5. ASSUME NEW s \in SUBSET S, s # {}
      PROVE  LET x == CHOOSE x \in s : TRUE IN x \in s /\ sum[s] = em[x] + sum[s \ {x}]
  BY <1>3, <1>5 DEF SumTurn
<1> QED
  BY <1>1, <1>4, <1>5

LEMMA SumType ==
    ASSUME NEW S \in SUBSET Rows, IsFiniteSet(S), NEW em \in [Rows -> Nat]
    PROVE  SumOver(em, S) \in Nat
<1>1. PICK sum : /\ SumOver(em, S) = sum[S]
                 /\ sum[{}] = 0
                 /\ \A s \in SUBSET S :
                       s # {} => LET x == CHOOSE x \in s : TRUE
                                 IN  x \in s /\ sum[s] = em[x] + sum[s \ {x}]
  BY SumUnfolds
<1> DEFINE Bad == {s \in SUBSET S : sum[s] \notin Nat}
<1> SUFFICES ASSUME Bad # {} PROVE FALSE
  BY <1>1
<1>2. PICK s \in Bad : \A x \in s : s \ {x} \notin Bad
  <2>1. Bad \subseteq SUBSET S
    OBVIOUS
  <2> HIDE DEF Bad
  <2> QED BY <2>1, SubsetMin
<1>3. s # {} /\ s \in SUBSET S
  <2>1. s \in SUBSET S /\ sum[s] \notin Nat
    BY <1>2
  <2> HIDE DEF Bad
  <2> SUFFICES ASSUME s = {} PROVE FALSE
    BY <2>1
  <2>2. sum[s] = 0
    BY <1>1
  <2> QED BY <2>1, <2>2
<1> DEFINE x == CHOOSE x \in s : TRUE
<1>4. x \in s /\ sum[s] = em[x] + sum[s \ {x}]
  BY <1>1, <1>3
<1> HIDE DEF x
<1>5. em[x] \in Nat /\ s \ {x} \in SUBSET S
  BY <1>3, <1>4
<1>6. sum[s \ {x}] \in Nat
  BY <1>2, <1>4, <1>5
<1> QED
  BY <1>4, <1>5, <1>6

\* One more log of q adds one to the sum over every set that holds q.
LEMMA SumBump ==
    ASSUME NEW S \in SUBSET Rows, IsFiniteSet(S), NEW em \in [Rows -> Nat], NEW q \in Rows
    PROVE  SumOver([em EXCEPT ![q] = @ + 1], S)
               = SumOver(em, S) + (IF q \in S THEN 1 ELSE 0)
<1> DEFINE em2 == [em EXCEPT ![q] = @ + 1]
           one(s) == IF q \in s THEN 1 ELSE 0
<1>1. em2 \in [Rows -> Nat] /\ em2[q] = em[q] + 1 /\ \A r \in Rows \ {q} : em2[r] = em[r]
  OBVIOUS
<1> HIDE DEF em2
<1>2. PICK sum : /\ SumOver(em, S) = sum[S]
                 /\ sum[{}] = 0
                 /\ \A s \in SUBSET S :
                       s # {} => LET x == CHOOSE x \in s : TRUE
                                 IN  x \in s /\ sum[s] = em[x] + sum[s \ {x}]
  BY SumUnfolds
<1>3. PICK sum2 : /\ SumOver(em2, S) = sum2[S]
                  /\ sum2[{}] = 0
                  /\ \A s \in SUBSET S :
                        s # {} => LET x == CHOOSE x \in s : TRUE
                                  IN  x \in s /\ sum2[s] = em2[x] + sum2[s \ {x}]
  BY <1>1, SumUnfolds
<1> DEFINE Bad == {s \in SUBSET S : ~ (sum[s] \in Nat /\ sum2[s] = sum[s] + one(s))}
<1>4. ASSUME Bad # {} PROVE FALSE
  <2>1. PICK s \in Bad : \A x \in s : s \ {x} \notin Bad
    <3>1. Bad \subseteq SUBSET S
      OBVIOUS
    <3> HIDE DEF Bad
    <3> QED BY <1>4, <3>1, SubsetMin
  <2>a. s \in SUBSET S /\ ~ (sum[s] \in Nat /\ sum2[s] = sum[s] + one(s))
    BY <2>1
  <2>b. one({}) = 0 /\ sum[{}] = 0 /\ sum2[{}] = 0
    BY <1>2, <1>3
  <2>2. s # {}
    <3> HIDE DEF one, Bad
    <3> SUFFICES ASSUME s = {} PROVE FALSE
      OBVIOUS
    <3>1. sum[s] = 0 /\ sum2[s] = 0 /\ one(s) = 0
      BY <2>b
    <3> QED BY <2>a, <3>1
  <2> DEFINE x == CHOOSE x \in s : TRUE
  <2>3. x \in s /\ sum[s] = em[x] + sum[s \ {x}] /\ sum2[s] = em2[x] + sum2[s \ {x}]
    BY <1>2, <1>3, <2>a, <2>2
  <2> HIDE DEF x
  <2>4. x \in Rows /\ em[x] \in Nat /\ s \ {x} \in SUBSET S
    BY <2>a, <2>3
  <2>5. sum[s \ {x}] \in Nat /\ sum2[s \ {x}] = sum[s \ {x}] + one(s \ {x})
    BY <2>1, <2>3, <2>4
  <2>6. CASE x = q
    <3>1. one(s) = 1 /\ one(s \ {x}) = 0 /\ em2[x] = em[x] + 1
      BY <1>1, <2>3, <2>6
    <3> QED BY <2>a, <2>3, <2>4, <2>5, <3>1
  <2>7. CASE x # q
    <3>1. one(s) = one(s \ {x}) /\ one(s) \in Nat /\ em2[x] = em[x]
      BY <1>1, <2>4, <2>7
    <3> HIDE DEF one
    <3> QED BY <2>a, <2>3, <2>4, <2>5, <3>1
  <2> QED BY <2>6, <2>7
<1>5. S \notin Bad
  BY <1>4
<1> QED
  BY <1>2, <1>3, <1>5 DEF em2

\* The sum of a set's indicator is the number of its elements.
LEMMA SumCounts ==
    ASSUME NEW S \in SUBSET Rows, IsFiniteSet(S), NEW B \in SUBSET Rows,
           NEW em \in [Rows -> Nat], \A r \in Rows : em[r] = IF r \in B THEN 1 ELSE 0
    PROVE  SumOver(em, S) = Cardinality(S \cap B)
<1>1. PICK sum : /\ SumOver(em, S) = sum[S]
                 /\ sum[{}] = 0
                 /\ \A s \in SUBSET S :
                       s # {} => LET x == CHOOSE x \in s : TRUE
                                 IN  x \in s /\ sum[s] = em[x] + sum[s \ {x}]
  BY SumUnfolds
<1> DEFINE Bad == {s \in SUBSET S : sum[s] # Cardinality(s \cap B)}
<1>2. ASSUME Bad # {} PROVE FALSE
  <2>1. PICK s \in Bad : \A x \in s : s \ {x} \notin Bad
    <3>1. Bad \subseteq SUBSET S
      OBVIOUS
    <3> HIDE DEF Bad
    <3> QED BY <1>2, <3>1, SubsetMin
  <2>2. s \in SUBSET S /\ sum[s] # Cardinality(s \cap B)
    BY <2>1
  <2>3. s # {}
    <3>1. {} \cap B = {}
      OBVIOUS
    <3> QED BY <1>1, <2>2, <3>1, FS_EmptySet
  <2> DEFINE x == CHOOSE x \in s : TRUE
  <2>4. x \in s /\ sum[s] = em[x] + sum[s \ {x}]
    BY <1>1, <2>2, <2>3
  <2> HIDE DEF x
  <2>5. x \in Rows /\ s \ {x} \in SUBSET S
    BY <2>2, <2>4
  <2>6. sum[s \ {x}] = Cardinality((s \ {x}) \cap B)
    BY <2>1, <2>4, <2>5
  <2> DEFINE t == s \cap B
  <2>7. t \in SUBSET S /\ (s \ {x}) \cap B = t \ {x} /\ (x \in t <=> x \in B)
    BY <2>2, <2>4
  <2> HIDE DEF t
  <2>8. IsFiniteSet(t) /\ Cardinality(t) \in Nat
    BY <2>7, FS_Subset, FS_CardinalityType
  <2>9. Cardinality(t \ {x}) = IF x \in t THEN Cardinality(t) - 1 ELSE Cardinality(t)
    BY <2>8, FS_RemoveElement
  <2>10. em[x] = IF x \in B THEN 1 ELSE 0
    BY <2>5
  <2>11. sum[s] = Cardinality(t)
    <3>1. sum[s] = em[x] + Cardinality(t \ {x})
      BY <2>4, <2>6, <2>7
    <3>2. CASE x \in t
      <4>1. em[x] = 1 /\ Cardinality(t \ {x}) = Cardinality(t) - 1
        BY <2>7, <2>9, <2>10, <3>2
      <4> QED BY <2>8, <3>1, <4>1
    <3>3. CASE x \notin t
      <4>1. em[x] = 0 /\ Cardinality(t \ {x}) = Cardinality(t)
        BY <2>7, <2>9, <2>10, <3>3
      <4> QED BY <2>8, <3>1, <4>1
    <3> QED BY <3>2, <3>3
  <2> QED BY <2>2, <2>11 DEF t
<1>3. S \notin Bad
  BY <1>2
<1> QED
  BY <1>1, <1>3

----------------------------------------------------------------------------
(* The counter and the log. *)

CountInv == Uncounted /\ CallsMatchLogs

LEMMA DirectionRows ==
    \A d : RowsOf(d) \in SUBSET Rows /\ IsFiniteSet(RowsOf(d))
<1> TAKE d
<1>1. RowsOf(d) \in SUBSET Rows
  BY DEF RowsOf
<1> QED
  BY <1>1, RowsAssumption, FS_Subset

LEMMA InitCount == Init => CountInv
<1> SUFFICES ASSUME Init PROVE CountInv
  OBVIOUS
<1> DEFINE B == {r \in Rows : AlreadyLogged(r)}
<1>1. emitted \in [Rows -> Nat] /\ \A r \in Rows : emitted[r] = IF r \in B THEN 1 ELSE 0
  BY DEF Init
<1>2. ASSUME NEW d \in Directions
      PROVE  calls[d] + callsByDirection[d] = LoggedIn(d) /\ LoggedIn(d) \in Nat
  <2>1. RowsOf(d) \cap B = {r \in Rows : DirectionOf[r] = d /\ AlreadyLogged(r)}
    BY DEF RowsOf
  <2>2. calls[d] = Cardinality(RowsOf(d) \cap B) /\ callsByDirection[d] = 0
    BY <2>1 DEF Init, NoCalls
  <2>3. B \in SUBSET Rows
    OBVIOUS
  <2> HIDE DEF B
  <2>4. SumOver(emitted, RowsOf(d)) = Cardinality(RowsOf(d) \cap B)
    BY <1>1, <2>3, DirectionRows, SumCounts
  <2>5. SumOver(emitted, RowsOf(d)) \in Nat
    BY <1>1, DirectionRows, SumType
  <2> QED BY <2>2, <2>4, <2>5, LoggedInIsSum
<1>3. CallsMatchLogs
  <2> SUFFICES ASSUME NEW d \in Directions
               PROVE  /\ calls[d] + callsByDirection[d] <= LoggedIn(d)
                      /\ failures = 0 => calls[d] + callsByDirection[d] = LoggedIn(d)
    BY DEF CallsMatchLogs
  <2> QED BY <1>2
<1> QED
  BY <1>3 DEF CountInv, Uncounted, Init

\* Nothing is logged or counted.
LEMMA CountQuiet ==
    ASSUME CountInv, UNCHANGED <<emitted, calls, callsByDirection, failures>>,
           pc \in {"rows", "count"} => pc' \in {"rows", "count"} \/ callsByDirection = NoCalls
    PROVE  CountInv'
<1>1. \A d : LoggedIn(d)' = LoggedIn(d)
  BY LoggedInIsSum
<1>2. CallsMatchLogs'
  BY <1>1 DEF CountInv, CallsMatchLogs
<1> QED
  BY <1>2 DEF CountInv, Uncounted, NoCalls

LEMMA NextCount == TypeOK /\ CountInv /\ [Next]_vars => CountInv'
<1> SUFFICES ASSUME TypeOK, CountInv, [Next]_vars PROVE CountInv'
  OBVIOUS
<1> USE DEF phoneVars, passVars
<1>0. /\ emitted \in [Rows -> Nat] /\ callsByDirection \in [Directions -> Nat]
      /\ calls \in [Directions -> Nat]
  BY DEF TypeOK
<1>00. \A d \in Directions :
          /\ LoggedIn(d) \in Nat /\ calls[d] \in Nat /\ callsByDirection[d] \in Nat
          /\ calls[d] + callsByDirection[d] <= LoggedIn(d)
          /\ failures = 0 => calls[d] + callsByDirection[d] = LoggedIn(d)
  BY <1>0, DirectionRows, SumType, LoggedInIsSum DEF CountInv, CallsMatchLogs
<1>1. CASE EmitRow
  <2> DEFINE q == Head(entries)
  <2>1. /\ emitted' = [emitted EXCEPT ![q] = @ + 1]
        /\ callsByDirection' = [callsByDirection EXCEPT ![DirectionOf[q]] = @ + 1]
        /\ calls' = calls /\ failures' = failures /\ pc' = "rows"
    BY <1>1 DEF EmitRow
  <2>2. q \in Rows /\ DirectionOf[q] \in Directions
    <3>1. entries # <<>> /\ entries \in Seq(Rows)
      BY <1>1 DEF EmitRow, TypeOK
    <3>2. q \in Rows
      BY <3>1, HeadTail
    <3> QED BY <3>2, RowFields
  <2> HIDE DEF q
  <2>3. ASSUME NEW d \in Directions
        PROVE  /\ calls'[d] + callsByDirection'[d] <= LoggedIn(d)'
               /\ failures' = 0 => calls'[d] + callsByDirection'[d] = LoggedIn(d)'
    <3> DEFINE one == IF d = DirectionOf[q] THEN 1 ELSE 0
    <3>1. callsByDirection'[d] = callsByDirection[d] + one
      BY <1>0, <2>1, <2>2, <1>00
    <3>2. LoggedIn(d)' = SumOver(emitted', RowsOf(d)) /\ LoggedIn(d) = SumOver(emitted, RowsOf(d))
      BY LoggedInIsSum
    <3>3. q \in RowsOf(d) <=> d = DirectionOf[q]
      BY <2>2 DEF RowsOf
    <3>4. LoggedIn(d)' = LoggedIn(d) + one
      <4>1. SumOver(emitted', RowsOf(d))
            = SumOver(emitted, RowsOf(d)) + (IF q \in RowsOf(d) THEN 1 ELSE 0)
        BY <1>0, <2>1, <2>2, DirectionRows, SumBump
      <4> QED BY <3>2, <3>3, <4>1
    <3>5. one \in Nat
      OBVIOUS
    <3> HIDE DEF one
    <3> QED BY <1>00, <2>1, <3>1, <3>4, <3>5
  <2> QED BY <2>1, <2>3 DEF CountInv, Uncounted, CallsMatchLogs
<1>2. ASSUME NEW d \in Directions, CountCalls(d) PROVE CountInv'
  <2>1. /\ calls' = [calls EXCEPT ![d] = @ + callsByDirection[d]]
        /\ callsByDirection' = [callsByDirection EXCEPT ![d] = 0]
        /\ emitted' = emitted /\ failures' = failures /\ pc' = "count"
    BY <1>2 DEF CountCalls
  <2>2. ASSUME NEW e \in Directions
        PROVE  calls'[e] + callsByDirection'[e] = calls[e] + callsByDirection[e]
               /\ LoggedIn(e)' = LoggedIn(e)
    <3>1. LoggedIn(e)' = LoggedIn(e)
      BY <2>1, LoggedInIsSum
    <3>2. CASE e = d
      BY <1>0, <1>00, <2>1, <3>1, <3>2
    <3>3. CASE e # d
      BY <1>0, <1>00, <2>1, <3>1, <3>3
    <3> QED BY <3>2, <3>3
  <2> QED BY <1>00, <2>1, <2>2 DEF CountInv, Uncounted, CallsMatchLogs
<1>3. CASE PassFails
  <2>1. /\ failures' = failures + 1 /\ failures \in Nat /\ calls' = calls /\ emitted' = emitted
        /\ callsByDirection' = NoCalls
    BY <1>3, BoundsAssumption DEF PassFails, DropLocals, TypeOK
  <2>2. ASSUME NEW d \in Directions
        PROVE  LoggedIn(d)' = LoggedIn(d) /\ callsByDirection'[d] = 0
    BY <2>1, LoggedInIsSum DEF NoCalls
  <2>3. CallsMatchLogs'
    <3> SUFFICES ASSUME NEW d \in Directions
                 PROVE  /\ calls'[d] + callsByDirection'[d] <= LoggedIn(d)'
                        /\ failures' = 0 => calls'[d] + callsByDirection'[d] = LoggedIn(d)'
      BY DEF CallsMatchLogs
    <3> QED BY <1>00, <2>1, <2>2
  <2> QED BY <2>1, <2>3 DEF CountInv, Uncounted, NoCalls
<1>4. CASE SaveWatermark
  <2>1. callsByDirection = NoCalls
    BY <1>4 DEF CountInv, Uncounted, SaveWatermark
  <2>2. UNCHANGED <<emitted, calls, callsByDirection, failures>> /\ pc = "save"
    BY <1>4, <2>1 DEF SaveWatermark, DropLocals, NoCalls
  <2> QED BY <2>2, CountQuiet
<1>5. CASE EndCount
  BY <1>5, CountQuiet DEF EndCount
<1>6. CASE \/ \E r \in Rows : Arrive(r)
           \/ \E p \in Phones : Toggle(p) \/ ChangeZone(p)
           \/ UNCHANGED vars
  BY <1>6, CountQuiet DEF Arrive, Toggle, ChangeZone, vars
<1>7. CASE StartPass \/ SkipTarget \/ OpenTarget \/ FetchLogs \/ SkipRow \/ EndRows
  <2>1. UNCHANGED <<emitted, calls, callsByDirection, failures>>
    BY <1>7 DEF StartPass, SkipTarget, OpenTarget, FetchLogs, SkipRow, EndRows
  <2>2. pc \in {"rows", "count"} => pc' \in {"rows", "count"}
    BY <1>7 DEF StartPass, SkipTarget, OpenTarget, FetchLogs, SkipRow, EndRows
  <2> QED BY <2>1, <2>2, CountQuiet
<1> QED
  BY <1>1, <1>2, <1>3, <1>4, <1>5, <1>6, <1>7 DEF Next, PassStep

\* For any number of rows: polyphone.calls never runs ahead of the logs made, and as long as
\* no pass was abandoned it equals them, but for the rows of the phone at hand that the pass
\* has still to count.
THEOREM CounterMatchesLogs == Spec => []CallsMatchLogs
<1>1. Init => TypeOK /\ CountInv
  BY InitTyped, InitCount
<1>2. TypeOK /\ CountInv /\ [Next]_vars => (TypeOK /\ CountInv)'
  BY NextTyped, NextCount
<1>3. CountInv => CallsMatchLogs
  BY DEF CountInv
<1> QED
  BY <1>1, <1>2, <1>3, PTL DEF Spec
=============================================================================
