------------------------- MODULE PhonePollingProofs -------------------------
(***************************************************************************)
(* Proofs about PhonePolling for any number of phones and any answers.     *)
(***************************************************************************)
EXTENDS PhonePolling, Integers, FiniteSetTheorems, SequenceTheorems, TLAPS

----------------------------------------------------------------------------
(* The inductive invariants. *)

Attrs == STRING \cup (STRING \X STRING) \cup NetworkInfos \cup States \cup {"", "rx", "tx"}
SeriesSet == Metrics \X Phones \X Attrs
Sample == [series : SeriesSet, value : Nat, adds : BOOLEAN]

\* The samples still to record are of the phone the pass is at.
QueueInv ==
    /\ queue \in Seq(Sample)
    /\ \A i \in 1 .. Len(queue) : queue[i].series[2] = cur
    /\ DOMAIN shown \subseteq SeriesSet
    /\ pc \in {"idle", "probe"} => queue = <<>>
    /\ pc = "idle" => steady = {} /\ cur = 1

\* What a pass promises of a phone that is OK: series k shows v.
Promised(p, k, v) ==
    \/ /\ id = "phone.status"
       /\ \/ k = <<"uptime", p, "">> /\ v = parseUptime(answer[p].UpTime)
          \/ \E t \in States : k = <<"api_state", p, t>> /\ v = Bit(t = "ok")
    \/ /\ id = "phone.lines"
       /\ \/ /\ k = <<"lines_total", p, "">>
             /\ v = Cardinality(LineNumbers(p)) + Cardinality(Nameless(p))
          \/ \E i \in DOMAIN answer[p] \ Nameless(p) :
                /\ \A j \in 1 .. i - 1 : answer[p][j].LineNumber # answer[p][i].LineNumber
                /\ k = <<"line", p, LineAttrs(answer[p][i])>>
                /\ v = Bit(answer[p][i].registered)
    \/ /\ id = "phone.config"
       /\ \E n \in Range(Params) : k = <<"config_source", p, <<n, answer[p][n]>>>> /\ v = 1
    \/ id = "phone.network_info" /\ k = <<"network", p, answer[p]>> /\ v = 1

\* Series k shows v once the samples s are recorded: it already does or one of them
\* sets it, and none of them sets it otherwise.
WillShow(k, v, s) ==
    /\ \A i \in 1 .. Len(s) : s[i].series = k => ~ s[i].adds /\ s[i].value = v
    /\ Shows(k, v) \/ \E i \in 1 .. Len(s) : s[i].series = k

\* The phones the pass is done with, but for the samples still to record.
Done(p) == p < cur \/ (p = cur /\ pc = "next")

\* The promise is kept for phones it is done with, and the api_state of the phone it
\* asks is on its way.
ShownInv ==
    failures = 0 =>
        \A p \in steady : state[p] = "ok" =>
            /\ Done(p) => \A k, v : Promised(p, k, v) => WillShow(k, v, queue)
            /\ pc = "request" /\ p = cur /\ id = "phone.status" =>
                  \A t \in States : WillShow(<<"api_state", p, t>>, Bit(t = "ok"), queue)

----------------------------------------------------------------------------
(* Numbers and sets. *)

\* Every non-empty set of naturals has a least element.
LEMMA LeastNat ==
    ASSUME NEW T, T \subseteq Nat, T # {}
    PROVE  \E x \in T : \A y \in T : x <= y
<1> DEFINE less == OpToRel(<, Nat)
<1>1. IsWellFoundedOn(less, Nat)
  BY NatLessThanWellFounded
<1>2. \A x, y \in T : y < x => <<y, x>> \in less
  BY DEF OpToRel
<1> HIDE DEF less
<1>3. PICK x \in T : \A y \in T : ~ (<<y, x>> \in less)
  BY <1>1, WFMin
<1>4. ASSUME NEW y \in T PROVE x <= y
  <2>1. ~ (y < x)
    BY <1>2, <1>3
  <2> QED BY <2>1
<1> QED
  BY <1>4

LEMMA MinFacts ==
    ASSUME NEW T, T \subseteq Nat, T # {}
    PROVE  Min(T) \in T
<1>1. PICK x \in T : \A y \in T : x <= y
  BY LeastNat
<1> QED
  BY <1>1 DEF Min

----------------------------------------------------------------------------
(* uniqueLines. *)

LineTurn(u, records, i) ==
    IF i = 0 THEN <<>>
    ELSE IF NotSeen(records, i) THEN Append(u[i - 1], records[i])
    ELSE u[i - 1]

\* The loop yields a list for every number of records.
LEMMA LinesExist ==
    ASSUME NEW L, NEW records \in Seq(L)
    PROVE  \E u : u = [i \in 0 .. Len(records) |-> LineTurn(u, records, i)]
<1> DEFINE Lists(m) == \E u \in [0 .. m -> Seq(L)] :
                          \A i \in 0 .. m : u[i] = LineTurn(u, records, i)
           Bad == {m \in Nat : m <= Len(records) /\ ~ Lists(m)}
<1>0. Len(records) \in Nat
  OBVIOUS
<1>a. ASSUME Lists(Len(records))
      PROVE  \E u : u = [i \in 0 .. Len(records) |-> LineTurn(u, records, i)]
  <2>1. PICK u \in [0 .. Len(records) -> Seq(L)] :
           \A i \in 0 .. Len(records) : u[i] = LineTurn(u, records, i)
    BY <1>a
  <2>2. u = [i \in 0 .. Len(records) |-> LineTurn(u, records, i)]
    BY <2>1
  <2> QED BY <2>2
<1> SUFFICES ASSUME Bad # {} PROVE FALSE
  BY <1>0, <1>a
<1>1. PICK m \in Bad : \A y \in Bad : m <= y
  BY LeastNat
<1>2. m \in Nat /\ m <= Len(records) /\ ~ Lists(m)
  BY <1>1
<1>3. m # 0
  <2> DEFINE e == [i \in 0 .. 0 |-> <<>>]
  <2>1. e \in [0 .. 0 -> Seq(L)] /\ \A i \in 0 .. 0 : e[i] = LineTurn(e, records, i)
    BY DEF LineTurn
  <2> HIDE DEF e
  <2>2. Lists(0)
    BY <2>1
  <2> QED BY <1>2, <2>2
<1>4. m - 1 \in Nat /\ m - 1 <= Len(records) /\ ~ (m <= m - 1)
  BY <1>0, <1>2, <1>3
<1>5. Lists(m - 1)
  BY <1>1, <1>4
<1>6. PICK u \in [0 .. m - 1 -> Seq(L)] :
         \A i \in 0 .. m - 1 : u[i] = LineTurn(u, records, i)
  BY <1>5
<1> DEFINE e == [i \in 0 .. m |-> IF i = m THEN LineTurn(u, records, m) ELSE u[i]]
<1>7. records[m] \in L /\ u[m - 1] \in Seq(L)
  BY <1>2, <1>3, <1>4, <1>6
<1>8. LineTurn(u, records, m) \in Seq(L)
  BY <1>3, <1>7 DEF LineTurn
<1>9. e \in [0 .. m -> Seq(L)]
  BY <1>2, <1>6, <1>8
<1>10. ASSUME NEW i \in 0 .. m PROVE e[i] = LineTurn(e, records, i)
  <2>1. CASE i = m
    <3>1. e[m] = LineTurn(u, records, m) /\ e[m - 1] = u[m - 1]
      BY <1>2, <1>4
    <3> QED BY <1>3, <2>1, <3>1 DEF LineTurn
  <2>2. CASE i # m
    <3>1. i \in 0 .. m - 1 /\ e[i] = u[i]
      BY <1>2, <2>2
    <3>2. i # 0 => e[i - 1] = u[i - 1]
      BY <1>2, <3>1
    <3> QED BY <1>6, <3>1, <3>2 DEF LineTurn
  <2> QED BY <2>1, <2>2
<1> HIDE DEF e
<1>11. Lists(m)
  BY <1>9, <1>10
<1> QED
  BY <1>2, <1>11

\* The first i records, without those whose number was seen.
Kept(records, i) == {j \in 1 .. i : NotSeen(records, j)}

\* u lists the first i records but those whose number was seen, each once.
ListsKept(u, L, records, i) ==
    /\ u \in Seq(L)
    /\ IsFiniteSet(Kept(records, i)) /\ Len(u) = Cardinality(Kept(records, i))
    /\ \A k \in 1 .. Len(u) : \E j \in Kept(records, i) : u[k] = records[j]
    /\ \A j \in Kept(records, i) : \E k \in 1 .. Len(u) : u[k] = records[j]

LEMMA UniqueLinesFacts ==
    ASSUME NEW L, NEW records \in Seq(L)
    PROVE  ListsKept(uniqueLines(records), L, records, Len(records))
<1> DEFINE U == CHOOSE u : u = [i \in 0 .. Len(records) |-> LineTurn(u, records, i)]
           Bad == {i \in 0 .. Len(records) : ~ ListsKept(U[i], L, records, i)}
<1>1. uniqueLines(records) = U[Len(records)]
  BY DEF uniqueLines, LineTurn
<1>2. U = [i \in 0 .. Len(records) |-> LineTurn(U, records, i)]
  BY LinesExist
<1> HIDE DEF U
<1>3. \A i \in 0 .. Len(records) : U[i] = LineTurn(U, records, i)
  BY <1>2
<1>4. Len(records) \in Nat /\ Len(records) \in 0 .. Len(records)
  OBVIOUS
<1> SUFFICES ASSUME Bad # {} PROVE FALSE
  BY <1>1, <1>4
<1>5. PICK m \in Bad : \A y \in Bad : m <= y
  <2>1. Bad \subseteq Nat
    OBVIOUS
  <2> QED BY <2>1, LeastNat
<1>6. m \in 0 .. Len(records) /\ ~ ListsKept(U[m], L, records, m)
  BY <1>5
<1>7. m # 0
  <2>1. U[0] = <<>>
    BY <1>3, <1>4 DEF LineTurn
  <2>2. Kept(records, 0) = {}
    BY DEF Kept
  <2>a. IsFiniteSet({}) /\ Cardinality({}) = 0
    BY FS_EmptySet
  <2>b. <<>> \in Seq(L) /\ Len(<<>>) = 0 /\ 1 .. 0 = {}
    OBVIOUS
  <2>3. ListsKept(U[0], L, records, 0)
    BY <2>1, <2>2, <2>a, <2>b DEF ListsKept
  <2> QED BY <1>6, <2>3
<1>8. m \in 1 .. Len(records) /\ m - 1 \in 0 .. Len(records) /\ ~ (m <= m - 1)
      /\ records[m] \in L
  BY <1>4, <1>6, <1>7
<1> DEFINE e == U[m - 1]
           K == Kept(records, m - 1)
<1>9. ListsKept(e, L, records, m - 1)
  BY <1>5, <1>8
<1>10. /\ e \in Seq(L) /\ Len(e) \in Nat /\ IsFiniteSet(K) /\ Len(e) = Cardinality(K)
       /\ \A k \in 1 .. Len(e) : \E j \in K : e[k] = records[j]
       /\ \A j \in K : \E k \in 1 .. Len(e) : e[k] = records[j]
  BY <1>9 DEF ListsKept
<1>11. Kept(records, m) = IF NotSeen(records, m) THEN K \cup {m} ELSE K
  BY <1>8 DEF Kept
<1>12. m \notin K
  BY <1>8 DEF Kept
<1>13. CASE ~ NotSeen(records, m)
  <2>1. U[m] = e
    BY <1>3, <1>6, <1>7, <1>13 DEF LineTurn
  <2>2. Kept(records, m) = K
    BY <1>11, <1>13
  <2> HIDE DEF e, K
  <2> QED BY <1>6, <1>10, <2>1, <2>2 DEF ListsKept
<1>14. CASE NotSeen(records, m)
  <2>1. U[m] = Append(e, records[m])
    BY <1>3, <1>6, <1>7, <1>14 DEF LineTurn
  <2> DEFINE f == U[m]
  <2> HIDE DEF e, K
  <2>2. Kept(records, m) = K \cup {m}
    BY <1>11, <1>14
  <2>3. IsFiniteSet(K \cup {m}) /\ Cardinality(K \cup {m}) = Cardinality(K) + 1
    BY <1>10, <1>12, FS_AddElement
  <2>4. /\ f \in Seq(L) /\ Len(f) = Len(e) + 1
        /\ \A k \in 1 .. Len(e) : f[k] = e[k]
        /\ f[Len(e) + 1] = records[m]
    BY <1>8, <1>10, <2>1, AppendProperties
  <2>5. /\ 1 .. Len(e) \subseteq 1 .. Len(f) /\ Len(e) + 1 \in 1 .. Len(f)
        /\ \A k \in 1 .. Len(f) : k \in 1 .. Len(e) \/ k = Len(e) + 1
    BY <1>10, <2>4
  <2> HIDE DEF f
  <2>6. ASSUME NEW k \in 1 .. Len(f) PROVE \E j \in K \cup {m} : f[k] = records[j]
    <3>1. CASE k \in 1 .. Len(e)
      <4>1. PICK j \in K : e[k] = records[j]
        BY <1>10, <3>1
      <4> QED BY <2>4, <3>1, <4>1
    <3>2. CASE k = Len(e) + 1
      BY <2>4, <3>2
    <3> QED BY <2>5, <3>1, <3>2
  <2>7. ASSUME NEW j \in K \cup {m} PROVE \E k \in 1 .. Len(f) : f[k] = records[j]
    <3>1. CASE j \in K
      <4>1. PICK k \in 1 .. Len(e) : e[k] = records[j]
        BY <1>10, <3>1
      <4> QED BY <2>4, <2>5, <4>1
    <3>2. CASE j = m
      BY <2>4, <2>5, <3>2
    <3> QED BY <3>1, <3>2
  <2>8. ListsKept(f, L, records, m)
    BY <1>10, <2>2, <2>3, <2>4, <2>6, <2>7 DEF ListsKept
  <2> QED BY <1>6, <2>8 DEF f
<1> QED
  BY <1>13, <1>14

\* Two kept records of one number are the same record.
LEMMA KeptOnce ==
    ASSUME NEW records, NEW n \in Nat, NEW i \in Kept(records, n), NEW j \in Kept(records, n),
           records[i].LineNumber = records[j].LineNumber, records[i].LineNumber # ""
    PROVE  i = j
<1>1. i \in 1 .. n /\ j \in 1 .. n /\ NotSeen(records, i) /\ NotSeen(records, j)
  BY DEF Kept
<1>2. i \in 1 .. n /\ j \in 1 .. n => i = j \/ i \in 1 .. j - 1 \/ j \in 1 .. i - 1
  BY ONLY n \in Nat
<1>3. i \notin 1 .. j - 1 /\ j \notin 1 .. i - 1
  BY <1>1 DEF NotSeen
<1> QED
  BY <1>1, <1>2, <1>3

\* The kept records are the first ones of their numbers and the ones without a number.
LEMMA KeptCount ==
    ASSUME NEW p, answer[p] \in Seq(Line)
    PROVE  /\ Len(uniqueLines(answer[p])) = Cardinality(LineNumbers(p)) + Cardinality(Nameless(p))
           /\ IsFiniteSet(LineNumbers(p)) /\ IsFiniteSet(Nameless(p))
<1> DEFINE a == answer[p]
           n == Len(a)
           K == Kept(a, n)
           F == {i \in K : a[i].LineNumber # ""}
           f == [i \in F |-> a[i].LineNumber]
<1>1. n \in Nat /\ DOMAIN a = 1 .. n
  BY LenProperties
<1>2. IsFiniteSet(K) /\ Len(uniqueLines(a)) = Cardinality(K)
  BY UniqueLinesFacts DEF ListsKept
<1>3. Nameless(p) = {i \in K : a[i].LineNumber = ""}
  BY <1>1 DEF Nameless, Kept, NotSeen
<1>4. F \cup Nameless(p) = K /\ F \cap Nameless(p) = {} /\ F \in SUBSET K /\ Nameless(p) \in SUBSET K
  BY <1>3
<1>5. ASSUME NEW x \in LineNumbers(p) PROVE \E i \in F : a[i].LineNumber = x
  <2> DEFINE T == {i \in 1 .. n : a[i].LineNumber = x}
  <2>a. x # "" /\ \E i \in DOMAIN a : a[i].LineNumber = x
    BY DEF LineNumbers
  <2>1. x # "" /\ T # {} /\ T \subseteq Nat
    <3>1. T # {}
      BY <1>1, <2>a
    <3>2. T \subseteq 1 .. n
      OBVIOUS
    <3>3. 1 .. n \subseteq Nat
      OBVIOUS
    <3> QED BY <2>a, <3>1, <3>2, <3>3
  <2>2. PICK i \in T : \A j \in T : i <= j
    BY <2>1, LeastNat
  <2>3. \A j \in 1 .. i - 1 : j \in 1 .. n /\ ~ (i <= j)
    BY <1>1
  <2>4. \A j \in 1 .. i - 1 : a[j].LineNumber # a[i].LineNumber
    BY <2>2, <2>3
  <2>5. i \in K
    BY <2>4 DEF Kept, NotSeen
  <2> QED BY <2>1, <2>5
<1>6. ASSUME NEW i \in F PROVE a[i].LineNumber \in LineNumbers(p)
  BY <1>1 DEF LineNumbers, Kept
<1>7. \A i, j \in F : a[i].LineNumber = a[j].LineNumber => i = j
  BY <1>1, KeptOnce
<1> HIDE DEF a, n, K
<1>8. f \in Bijection(F, LineNumbers(p))
  <2>1. f \in [F -> LineNumbers(p)]
    BY <1>6
  <2>2. \A i, j \in F : f[i] = f[j] => i = j
    BY <1>7
  <2>3. \A x \in LineNumbers(p) : \E i \in F : f[i] = x
    BY <1>5
  <2> HIDE DEF f, F
  <2> QED BY <2>1, <2>2, <2>3 DEF Bijection, Injection, Surjection, IsInjective
<1> HIDE DEF f, F
<1>9. IsFiniteSet(F) /\ IsFiniteSet(Nameless(p))
  BY <1>2, <1>4, FS_Subset
<1>10. IsFiniteSet(LineNumbers(p)) /\ Cardinality(F) = Cardinality(LineNumbers(p))
  BY <1>8, <1>9, FS_Bijection DEF ExistsBijection
<1>11. Cardinality(K) = Cardinality(F) + Cardinality(Nameless(p)) - Cardinality({})
  BY <1>4, <1>9, FS_Union
<1>12. Cardinality({}) = 0 /\ Cardinality(F) \in Nat /\ Cardinality(Nameless(p)) \in Nat
  BY <1>9, FS_EmptySet, FS_CardinalityType
<1>13. Cardinality(K) = Cardinality(LineNumbers(p)) + Cardinality(Nameless(p))
  BY <1>10, <1>11, <1>12
<1> QED
  BY <1>2, <1>9, <1>10, <1>13 DEF a

----------------------------------------------------------------------------
(* Samples. *)

\* Sample g sets series k to v.
IsGauge(g, k, v) == g \in Sample /\ g.series = k /\ g.value = v /\ g.adds = FALSE

LEMMA SampleFacts ==
    ASSUME NEW metric \in Metrics, NEW p \in Phones, NEW attr \in Attrs, NEW v \in Nat
    PROVE  /\ <<metric, p, attr>> \in SeriesSet
           /\ IsGauge(GaugeOf(metric, p, attr, v), <<metric, p, attr>>, v)
           /\ CounterOf(metric, p, attr, v) \in Sample
           /\ CounterOf(metric, p, attr, v).series = <<metric, p, attr>>
<1> DEFINE k == <<metric, p, attr>>
<1>1. k \in SeriesSet
  BY DEF SeriesSet
<1> HIDE DEF k
<1>2. /\ GaugeOf(metric, p, attr, v) = [series |-> k, value |-> v, adds |-> FALSE]
      /\ CounterOf(metric, p, attr, v) = [series |-> k, value |-> v, adds |-> TRUE]
  BY DEF GaugeOf, CounterOf, k
<1> QED
  BY <1>1, <1>2 DEF Sample, IsGauge, k

\* s is a sequence of samples of phone p.
SamplesOf(p, s) == s \in Seq(Sample) /\ \A i \in 1 .. Len(s) : s[i].series[2] = p

\* s sets series k, and to nothing but v.
Sets(s, k, v) ==
    /\ \E i \in 1 .. Len(s) : s[i].series = k
    /\ \A i \in 1 .. Len(s) : s[i].series = k => ~ s[i].adds /\ s[i].value = v

\* The phone of a series.
LEMMA PhoneOf == \A k, m, p, x : k = <<m, p, x>> => k[2] = p
  OBVIOUS

LEMMA StateFacts == States = {"ok", "api_disabled", "auth_failed", "unreachable"}
                    /\ apiStates \in Seq(States) /\ Len(apiStates) = 4
  BY DEF States, apiStates, Range

\* The api_state gauges.
LEMMA StateSamplesFacts ==
    ASSUME NEW p \in Phones, NEW verdict \in States
    PROVE  /\ SamplesOf(p, StateSamples(p, verdict))
           /\ \A t \in States :
                 Sets(StateSamples(p, verdict), <<"api_state", p, t>>, Bit(t = verdict))
<1> DEFINE g(t) == GaugeOf("api_state", p, t, Bit(t = verdict))
           s == StateSamples(p, verdict)
<1>1. ASSUME NEW t \in States PROVE IsGauge(g(t), <<"api_state", p, t>>, Bit(t = verdict))
  <2>1. t \in Attrs /\ "api_state" \in Metrics
    BY DEF Attrs, Metrics
  <2> DEFINE v == Bit(t = verdict)
  <2>2. v \in Nat
    BY DEF Bit
  <2> HIDE DEF v
  <2>3. IsGauge(GaugeOf("api_state", p, t, v), <<"api_state", p, t>>, v)
    BY <2>1, <2>2, SampleFacts
  <2> QED BY <2>3 DEF v
<1>2. /\ DOMAIN apiStates = 1 .. 4 /\ \A i \in 1 .. 4 : apiStates[i] \in States
      /\ \A t \in States : \E i \in 1 .. 4 : apiStates[i] = t
  BY StateFacts DEF apiStates, States, Range
<1>3. s = [i \in 1 .. 4 |-> g(apiStates[i])]
  BY <1>2 DEF StateSamples
<1> HIDE DEF g, s
<1>4. s \in [1 .. 4 -> Sample]
  BY <1>1, <1>2, <1>3 DEF IsGauge
<1>5. s \in Seq(Sample) /\ DOMAIN s = 1 .. 4
  BY <1>4, SeqDef
<1>6. Len(s) = 4
  BY <1>5, LenProperties
<1>7. \A i \in 1 .. 4 : s[i] = g(apiStates[i])
  BY <1>3
<1>8. \A i \in 1 .. 4 : s[i].series = <<"api_state", p, apiStates[i]>>
  BY <1>1, <1>2, <1>7 DEF IsGauge
<1>9. SamplesOf(p, s)
  BY <1>5, <1>6, <1>8 DEF SamplesOf
<1>10. ASSUME NEW t \in States PROVE Sets(s, <<"api_state", p, t>>, Bit(t = verdict))
  <2>1. \E i \in 1 .. 4 : s[i].series = <<"api_state", p, t>>
    BY <1>2, <1>8
  <2>2. ASSUME NEW i \in 1 .. 4, s[i].series = <<"api_state", p, t>>
        PROVE  ~ s[i].adds /\ s[i].value = Bit(t = verdict)
    <3>1. apiStates[i] = t
      BY <1>8, <2>2
    <3> QED BY <1>1, <1>7, <3>1 DEF IsGauge
  <2> QED BY <1>6, <2>1, <2>2 DEF Sets
<1> QED
  BY <1>9, <1>10 DEF s

\* Recorded after the api_state gauges, s keeps the promise for phone p.
Tells(p, s) ==
    \A k, v : Promised(p, k, v) =>
        \/ Sets(s, k, v)
        \/ /\ id = "phone.status" /\ \A i \in 1 .. Len(s) : s[i].series # k
           /\ \E t \in States : k = <<"api_state", p, t>> /\ v = Bit(t = "ok")

LEMMA StatsTell ==
    ASSUME TypeOK, NEW p \in Phones, id = "phone.status", ~ Refused(p)
    PROVE  SamplesOf(p, StatsSamples(p)) /\ Tells(p, StatsSamples(p))
<1> DEFINE a == answer[p]
           u == parseUptime(a.UpTime)
           g1 == GaugeOf("uptime", p, "", u)
           g2 == CounterOf("packets", p, "rx", a.RxPackets)
           g3 == CounterOf("packets", p, "tx", a.TxPackets)
           s == StatsSamples(p)
<1>1. a \in Stats
  BY DEF TypeOK, AnswersTo
<1>2. a.UpTime \in UpTime /\ a.RxPackets \in Nat /\ a.TxPackets \in Nat
  BY <1>1, AnswersAssumption DEF Refused, UpTimeParses, parseCounterOK
<1>3. u \in Nat
  <2> DEFINE x == a.UpTime
  <2>1. x.days \in Nat /\ x.hours \in Nat /\ x.minutes \in Nat /\ x.seconds \in Nat
    BY <1>2 DEF UpTime
  <2>2. u = x.days * 86400 + x.hours * 3600 + x.minutes * 60 + x.seconds
    BY DEF parseUptime
  <2> HIDE DEF x, u
  <2> QED BY <2>1, <2>2
<1>4. s = <<g1, g2, g3>>
  BY DEF StatsSamples
<1>5. /\ "uptime" \in Metrics /\ "packets" \in Metrics
      /\ "" \in Attrs /\ "rx" \in Attrs /\ "tx" \in Attrs
  BY DEF Metrics, Attrs
<1>6. /\ IsGauge(g1, <<"uptime", p, "">>, u)
      /\ g2 \in Sample /\ g2.series = <<"packets", p, "rx">>
      /\ g3 \in Sample /\ g3.series = <<"packets", p, "tx">>
  <2> HIDE DEF a, u
  <2> QED BY <1>2, <1>3, <1>5, SampleFacts DEF a
<1> HIDE DEF g1, g2, g3, s
<1>7. g1 \in Sample /\ g1.series = <<"uptime", p, "">> /\ g1.value = u /\ g1.adds = FALSE
  BY <1>6 DEF IsGauge
<1>8. /\ s \in Seq(Sample) /\ Len(s) = 3 /\ s[1] = g1 /\ s[2] = g2 /\ s[3] = g3
  <2> DEFINE S == Sample
  <2>1. g1 \in S /\ g2 \in S /\ g3 \in S
    BY <1>6, <1>7
  <2> HIDE DEF S
  <2>2. s \in Seq(S) /\ Len(s) = 3 /\ s[1] = g1 /\ s[2] = g2 /\ s[3] = g3
    BY <1>4, <2>1
  <2> QED BY <2>2 DEF S
<1>9. 1 .. Len(s) = {1, 2, 3}
  BY <1>8
<1>10. SamplesOf(p, s)
  <2>a. g1.series[2] = p
    <3>1. g1.series = <<"uptime", p, "">>
      BY <1>7
    <3> QED BY <3>1, PhoneOf, Zenon
  <2>b. g2.series[2] = p
    <3>1. g2.series = <<"packets", p, "rx">>
      BY <1>6
    <3> QED BY ONLY <3>1
  <2>c. g3.series[2] = p
    <3>1. g3.series = <<"packets", p, "tx">>
      BY <1>6
    <3> QED BY ONLY <3>1
  <2>1. g1.series[2] = p /\ g2.series[2] = p /\ g3.series[2] = p
    BY <2>a, <2>b, <2>c
  <2> QED BY <1>8, <1>9, <2>1 DEF SamplesOf
<1>11. Sets(s, <<"uptime", p, "">>, u)
  <2>1. g2.series # <<"uptime", p, "">> /\ g3.series # <<"uptime", p, "">>
    <3>1. \A x : <<"packets", p, x>> # <<"uptime", p, "">>
      OBVIOUS
    <3> QED BY <1>6, <3>1, Zenon
  <2> QED BY <1>7, <1>8, <1>9, <2>1 DEF Sets
<1>12. ASSUME NEW t \in States, NEW i \in 1 .. Len(s) PROVE s[i].series # <<"api_state", p, t>>
  <2>1. /\ g1.series # <<"api_state", p, t>> /\ g2.series # <<"api_state", p, t>>
        /\ g3.series # <<"api_state", p, t>>
    <3>1. \A x : <<"packets", p, x>> # <<"api_state", p, t>>
      OBVIOUS
    <3>2. <<"uptime", p, "">> # <<"api_state", p, t>>
      OBVIOUS
    <3> QED BY <1>6, <1>7, <3>1, <3>2, Zenon
  <2> QED BY <1>8, <1>9, <2>1
<1>13. Tells(p, s)
  <2> SUFFICES ASSUME NEW k, NEW v, Promised(p, k, v)
               PROVE  \/ Sets(s, k, v)
                      \/ /\ \A i \in 1 .. Len(s) : s[i].series # k
                         /\ \E t \in States : k = <<"api_state", p, t>> /\ v = Bit(t = "ok")
    BY DEF Tells
  <2>1. \/ k = <<"uptime", p, "">> /\ v = u
        \/ \E t \in States : k = <<"api_state", p, t>> /\ v = Bit(t = "ok")
    BY DEF Promised
  <2> QED BY <1>11, <1>12, <2>1
<1> QED
  BY <1>10, <1>13 DEF s

LEMMA LinesTell ==
    ASSUME TypeOK, NEW p \in Phones, id = "phone.lines"
    PROVE  SamplesOf(p, LineSamples(p)) /\ Tells(p, LineSamples(p))
<1> DEFINE a == answer[p]
           q == uniqueLines(a)
           n == Len(q)
           g == GaugeOf("lines_total", p, "", n)
           h(r) == GaugeOf("line", p, LineAttrs(r), Bit(r.registered))
           l == [i \in 1 .. n |-> h(q[i])]
           s == LineSamples(p)
           K == Kept(a, Len(a))
<1>1. a \in Seq(Line) /\ Len(a) \in Nat /\ DOMAIN a = 1 .. Len(a)
  <2>1. a \in LineInfos
    BY DEF TypeOK, AnswersTo
  <2>2. a \in Seq(Line)
    BY <2>1, AnswersAssumption
  <2> QED BY <2>2, LenProperties
<1>2. ListsKept(q, Line, a, Len(a))
  BY <1>1, UniqueLinesFacts
<1>3. n = Cardinality(LineNumbers(p)) + Cardinality(Nameless(p))
  BY <1>1, KeptCount
<1> HIDE DEF a, q
<1>4. /\ q \in Seq(Line) /\ n \in Nat /\ DOMAIN q = 1 .. n
      /\ \A i \in 1 .. n : q[i] \in Line
      /\ \A i \in 1 .. n : \E j \in K : q[i] = a[j]
      /\ \A j \in K : \E i \in 1 .. n : q[i] = a[j]
  BY <1>2, LenProperties, ElementOfSeq DEF ListsKept
<1>5. s = <<g>> \o l
  BY <1>4 DEF LineSamples, q, a
<1>6. /\ "lines_total" \in Metrics /\ "line" \in Metrics /\ "" \in Attrs
      /\ \A r \in Line : LineAttrs(r) \in Attrs /\ Bit(r.registered) \in Nat
      /\ \A r, t \in Line : LineAttrs(r) = LineAttrs(t) => r.LineNumber = t.LineNumber
  BY DEF Metrics, Attrs, Line, LineAttrs, Bit
<1>7. IsGauge(g, <<"lines_total", p, "">>, n)
  <2> HIDE DEF n
  <2> QED BY <1>4, <1>6, SampleFacts
<1>8. ASSUME NEW r \in Line PROVE IsGauge(h(r), <<"line", p, LineAttrs(r)>>, Bit(r.registered))
  <2> DEFINE b == Bit(r.registered)
             m == LineAttrs(r)
  <2>1. b \in Nat /\ m \in Attrs
    BY <1>6
  <2> HIDE DEF b, m
  <2>2. IsGauge(GaugeOf("line", p, m, b), <<"line", p, m>>, b)
    BY <1>6, <2>1, SampleFacts
  <2> QED BY <2>2 DEF b, m
<1> HIDE DEF n, g, h, s, K
<1>9. l \in [1 .. n -> Sample]
  BY <1>4, <1>8 DEF IsGauge
<1>10. l \in Seq(Sample) /\ Len(l) = n /\ \A i \in 1 .. n : l[i] = h(q[i])
  <2>1. l \in Seq(Sample) /\ DOMAIN l = 1 .. n
    BY <1>4, <1>9, SeqDef
  <2>2. Len(l) = n
    BY <1>4, <2>1, LenProperties
  <2> QED BY <2>1, <2>2
<1> HIDE DEF l
<1>11. /\ s \in Seq(Sample) /\ Len(s) = n + 1 /\ s[1] = g
       /\ \A i \in 1 .. n : s[i + 1] = h(q[i])
  <2> DEFINE S == Sample
  <2>1. g \in S /\ l \in Seq(S)
    BY <1>7, <1>10 DEF IsGauge
  <2> HIDE DEF S
  <2>2. <<g>> \in Seq(S) /\ Len(<<g>>) = 1 /\ <<g>>[1] = g
    BY <2>1
  <2>3. /\ s \in Seq(S) /\ Len(s) = 1 + n
        /\ \A i \in 1 .. 1 + n : s[i] = IF i <= 1 THEN <<g>>[i] ELSE l[i - 1]
    BY <1>5, <1>10, <2>1, <2>2, ConcatProperties
  <2>4. 1 \in 1 .. 1 + n /\ \A i \in 1 .. n : i + 1 \in 1 .. 1 + n /\ ~ (i + 1 <= 1) /\ i + 1 - 1 = i
    BY <1>4
  <2>5. 1 + n = n + 1
    BY <1>4
  <2> QED BY <1>10, <2>2, <2>3, <2>4, <2>5 DEF S
<1>12. \A i \in 1 .. Len(s) : i = 1 \/ \E j \in 1 .. n : i = j + 1
  <2>1. \A i \in 1 .. n + 1 : i = 1 \/ (i - 1 \in 1 .. n /\ i = i - 1 + 1)
    BY <1>4
  <2> QED BY <1>11, <2>1
<1>13. \A j \in 1 .. n : j + 1 \in 1 .. Len(s)
  BY <1>4, <1>11
<1>14. \A j \in 1 .. n : IsGauge(s[j + 1], <<"line", p, LineAttrs(q[j])>>, Bit(q[j].registered))
  BY <1>4, <1>8, <1>11
<1>15. SamplesOf(p, s)
  <2>a. g.series = <<"lines_total", p, "">>
    BY <1>7 DEF IsGauge
  <2>1. s[1].series[2] = p
    <3>1. s[1].series = <<"lines_total", p, "">>
      BY <1>11, <2>a
    <3> QED BY <3>1, PhoneOf, Zenon
  <2>2. \A j \in 1 .. n : s[j + 1].series[2] = p
    BY <1>14 DEF IsGauge
  <2> QED BY <1>11, <1>12, <2>1, <2>2 DEF SamplesOf
<1>16. Sets(s, <<"lines_total", p, "">>, n)
  <2>1. s[1].series = <<"lines_total", p, "">> /\ s[1].value = n /\ s[1].adds = FALSE
    BY <1>7, <1>11 DEF IsGauge
  <2>2. ASSUME NEW j \in 1 .. n PROVE s[j + 1].series # <<"lines_total", p, "">>
    <3>1. s[j + 1].series = <<"line", p, LineAttrs(q[j])>>
      BY <1>14 DEF IsGauge
    <3> QED BY ONLY <3>1
  <2>3. 1 \in 1 .. Len(s)
    BY <1>4, <1>11
  <2> QED BY <1>12, <2>1, <2>2, <2>3 DEF Sets
<1>17. ASSUME NEW j \in K, a[j].LineNumber # ""
       PROVE  Sets(s, <<"line", p, LineAttrs(a[j])>>, Bit(a[j].registered))
  <2> DEFINE k == <<"line", p, LineAttrs(a[j])>>
  <2>1. PICK i \in 1 .. n : q[i] = a[j]
    BY <1>4
  <2>2. s[i + 1].series = k /\ i + 1 \in 1 .. Len(s)
    BY <1>13, <1>14, <2>1 DEF IsGauge
  <2>3. ASSUME NEW m \in 1 .. Len(s), s[m].series = k
        PROVE  ~ s[m].adds /\ s[m].value = Bit(a[j].registered)
    <3>a. s[1].series = <<"lines_total", p, "">>
      BY <1>7, <1>11 DEF IsGauge
    <3>1. m # 1
      <4>1. \A x : <<"line", p, x>> # <<"lines_total", p, "">>
        OBVIOUS
      <4> QED BY <2>3, <3>a, <4>1, Zenon
    <3>2. PICK o \in 1 .. n : m = o + 1
      BY <1>12, <3>1
    <3>3. /\ s[m].series = <<"line", p, LineAttrs(q[o])>> /\ s[m].value = Bit(q[o].registered)
          /\ s[m].adds = FALSE
      BY <1>14, <3>2 DEF IsGauge
    <3>4. q[o].LineNumber = a[j].LineNumber
      <4>1. LineAttrs(q[o]) = LineAttrs(a[j])
        BY <2>3, <3>3
      <4>2. q[o] \in Line /\ a[j] \in Line
        BY <1>4, <2>1
      <4> QED BY <1>6, <4>1, <4>2
    <3>5. PICK z \in K : q[o] = a[z]
      BY <1>4
    <3>6. z = j
      BY <1>1, <1>17, <3>4, <3>5, KeptOnce DEF K
    <3> QED BY <3>3, <3>5, <3>6
  <2> QED BY <2>2, <2>3 DEF Sets
<1>18. Tells(p, s)
  <2> SUFFICES ASSUME NEW k, NEW v, Promised(p, k, v) PROVE Sets(s, k, v)
    BY DEF Tells
  <2>1. \/ k = <<"lines_total", p, "">> /\ v = n
        \/ \E i \in DOMAIN a \ Nameless(p) :
              /\ \A j \in 1 .. i - 1 : a[j].LineNumber # a[i].LineNumber
              /\ k = <<"line", p, LineAttrs(a[i])>> /\ v = Bit(a[i].registered)
    BY <1>3 DEF Promised, a
  <2>2. ASSUME NEW i \in DOMAIN a \ Nameless(p),
               \A j \in 1 .. i - 1 : a[j].LineNumber # a[i].LineNumber
        PROVE  i \in K /\ a[i].LineNumber # ""
    BY <1>1, <2>2 DEF K, Kept, NotSeen, Nameless, a
  <2> QED BY <1>16, <1>17, <2>1, <2>2
<1> QED
  BY <1>15, <1>18 DEF s

\* The parameters recorded: all of them unless the answer is cut short.
LEMMA PresentFacts ==
    ASSUME TypeOK, NEW p \in Phones, id = "phone.config"
    PROVE  Present(p) \in 0 .. Len(Params) /\ Len(Params) \in Nat
<1> DEFINE gaps == {i \in DOMAIN Params : answer[p][Params[i]] = "omitted"}
           m == Min(gaps)
<1>1. Len(Params) \in Nat /\ DOMAIN Params = 1 .. Len(Params)
  BY AnswersAssumption, LenProperties
<1>2. gaps \subseteq 1 .. Len(Params) /\ gaps \subseteq Nat
  BY <1>1
<1>3. Present(p) = IF gaps = {} THEN Len(Params) ELSE m - 1
  BY DEF Present
<1>4. gaps # {} => m \in gaps
  <2> HIDE DEF gaps
  <2> QED BY <1>2, MinFacts
<1> HIDE DEF gaps, m
<1>5. CASE gaps = {}
  BY <1>1, <1>3, <1>5
<1>6. CASE gaps # {}
  <2>1. m \in 1 .. Len(Params) /\ Present(p) = m - 1
    BY <1>2, <1>3, <1>4, <1>6
  <2> QED BY <1>1, <2>1
<1> QED
  BY <1>5, <1>6

LEMMA ConfigTells ==
    ASSUME TypeOK, NEW p \in Phones, id = "phone.config"
    PROVE  SamplesOf(p, ConfigSamples(p)) /\ (~ CutShort(p) => Tells(p, ConfigSamples(p)))
<1> DEFINE n == Present(p)
           x(m) == <<m, answer[p][m]>>
           g(m) == GaugeOf("config_source", p, x(m), 1)
           s == ConfigSamples(p)
<1>1. n \in 0 .. Len(Params) /\ Len(Params) \in Nat
  BY PresentFacts
<1>2. /\ \A i \in 1 .. Len(Params) : Params[i] \in Range(Params) /\ Params[i] \in STRING
      /\ \A m \in Range(Params) : \E i \in 1 .. Len(Params) : Params[i] = m
  <2>1. Params \in Seq(STRING) /\ DOMAIN Params = 1 .. Len(Params)
    BY AnswersAssumption, LenProperties
  <2> QED BY <2>1, ElementOfSeq DEF Range
<1>3. ASSUME NEW m \in Range(Params) PROVE x(m) \in Attrs
  <2>1. answer[p] \in ConfigGets
    BY DEF TypeOK, AnswersTo
  <2>2. answer[p] \in [Range(Params) -> STRING]
    BY <2>1, AnswersAssumption
  <2>3. answer[p][m] \in STRING /\ m \in STRING
    BY <1>2, <2>2
  <2>4. x(m) \in STRING \X STRING
    BY <2>3
  <2> HIDE DEF x
  <2> QED BY <2>4 DEF Attrs
<1>4. ASSUME NEW m \in Range(Params)
      PROVE  IsGauge(g(m), <<"config_source", p, x(m)>>, 1)
  <2>1. "config_source" \in Metrics /\ 1 \in Nat
    BY DEF Metrics
  <2> HIDE DEF x
  <2> QED BY <1>3, <2>1, SampleFacts
<1>5. s = [i \in 1 .. n |-> g(Params[i])]
  BY DEF ConfigSamples
<1>6. \A i \in 1 .. n : i \in 1 .. Len(Params) /\ Params[i] \in Range(Params)
  BY <1>1, <1>2
<1> HIDE DEF n, g, s, x
<1>7. s \in [1 .. n -> Sample]
  BY <1>4, <1>5, <1>6 DEF IsGauge
<1>8. s \in Seq(Sample) /\ Len(s) = n
  <2>1. s \in Seq(Sample) /\ DOMAIN s = 1 .. n
    BY <1>1, <1>7, SeqDef
  <2> QED BY <1>1, <2>1, LenProperties
<1>9. \A i \in 1 .. n : IsGauge(s[i], <<"config_source", p, x(Params[i])>>, 1)
  BY <1>4, <1>5, <1>6
<1>10. SamplesOf(p, s)
  <2>1. ASSUME NEW i \in 1 .. n PROVE s[i].series[2] = p
    <3>1. s[i].series = <<"config_source", p, x(Params[i])>>
      BY <1>9 DEF IsGauge
    <3> QED BY <3>1, PhoneOf, Zenon
  <2> QED BY <1>8, <2>1 DEF SamplesOf
<1>11. ASSUME ~ CutShort(p) PROVE Tells(p, s)
  <2>1. n = Len(Params)
    <3>1. ~ (n < Len(Params))
      BY <1>11 DEF CutShort, n
    <3> QED BY <1>1, <3>1
  <2>2. ASSUME NEW m \in Range(Params) PROVE Sets(s, <<"config_source", p, x(m)>>, 1)
    <3>1. PICK i \in 1 .. n : Params[i] = m
      BY <1>2, <2>1
    <3>2. s[i].series = <<"config_source", p, x(m)>>
      BY <1>9, <3>1 DEF IsGauge
    <3>3. \A j \in 1 .. n : ~ s[j].adds /\ s[j].value = 1
      BY <1>9 DEF IsGauge
    <3> QED BY <1>8, <3>2, <3>3 DEF Sets
  <2> SUFFICES ASSUME NEW k, NEW v, Promised(p, k, v) PROVE Sets(s, k, v)
    BY DEF Tells
  <2>3. \E m \in Range(Params) : k = <<"config_source", p, x(m)>> /\ v = 1
    BY DEF Promised, x
  <2> QED BY <2>2, <2>3
<1> QED
  BY <1>10, <1>11 DEF s

LEMMA NetworkTells ==
    ASSUME TypeOK, NEW p \in Phones, id = "phone.network_info"
    PROVE  SamplesOf(p, NetworkSamples(p)) /\ Tells(p, NetworkSamples(p))
<1> DEFINE a == answer[p]
           g == GaugeOf("network", p, a, 1)
           s == NetworkSamples(p)
<1>1. a \in NetworkInfos
  BY DEF TypeOK, AnswersTo
<1>2. a \in Attrs /\ "network" \in Metrics /\ 1 \in Nat
  BY <1>1 DEF Attrs, Metrics
<1>3. s = <<g>>
  BY DEF NetworkSamples
<1>4. IsGauge(g, <<"network", p, a>>, 1)
  <2> HIDE DEF a
  <2> QED BY <1>2, SampleFacts
<1> HIDE DEF g, s
<1>5. s \in Seq(Sample) /\ Len(s) = 1 /\ s[1] = g
  <2> DEFINE S == Sample
  <2>1. g \in S
    BY <1>4 DEF IsGauge
  <2> HIDE DEF S
  <2>2. s \in Seq(S) /\ Len(s) = 1 /\ s[1] = g
    BY <1>3, <2>1
  <2> QED BY <2>2 DEF S
<1>6. g.series = <<"network", p, a>> /\ g.value = 1 /\ g.adds = FALSE
  BY <1>4 DEF IsGauge
<1>7. 1 .. Len(s) = {1}
  BY <1>5
<1>8. g.series[2] = p
  <2>1. g.series = <<"network", p, a>>
    BY <1>6
  <2> QED BY <2>1, PhoneOf, Zenon
<1>9. SamplesOf(p, s)
  BY <1>5, <1>7, <1>8 DEF SamplesOf
<1>10. Sets(s, <<"network", p, a>>, 1)
  BY <1>5, <1>6, <1>7 DEF Sets
<1>11. Tells(p, s)
  <2> SUFFICES ASSUME NEW k, NEW v, Promised(p, k, v) PROVE Sets(s, k, v)
    BY DEF Tells
  <2>1. k = <<"network", p, a>> /\ v = 1
    BY DEF Promised
  <2> QED BY <1>10, <2>1
<1> QED
  BY <1>9, <1>11 DEF s

\* The answer of a phone that is not refused is recorded as promised.
LEMMA SamplesTell ==
    ASSUME TypeOK, NEW p \in Phones, ~ Refused(p)
    PROVE  SamplesOf(p, Samples(p)) /\ (~ CutShort(p) => Tells(p, Samples(p)))
<1>1. id \in CollectorIDs
  BY TargetsAssumption DEF TypeOK
<1>2. CASE id = "phone.status"
  <2>1. Samples(p) = StatsSamples(p)
    BY <1>2 DEF Samples
  <2> QED BY <1>2, <2>1, StatsTell
<1>3. CASE id = "phone.lines"
  <2>1. Samples(p) = LineSamples(p)
    BY <1>3 DEF Samples
  <2> QED BY <1>3, <2>1, LinesTell
<1>4. CASE id = "phone.config"
  <2>1. Samples(p) = ConfigSamples(p)
    BY <1>4 DEF Samples
  <2> QED BY <1>4, <2>1, ConfigTells
<1>5. CASE id = "phone.network_info"
  <2>1. Samples(p) = NetworkSamples(p)
    BY <1>5 DEF Samples
  <2> QED BY <1>5, <2>1, NetworkTells
<1> QED
  BY <1>1, <1>2, <1>3, <1>4, <1>5 DEF CollectorIDs

----------------------------------------------------------------------------
(* Types. *)

\* The next sample is recorded.
RecordEffect(h) ==
    /\ h = queue[1] /\ h \in Sample
    /\ DOMAIN shown' = DOMAIN shown \cup {h.series}
    /\ \A k \in DOMAIN shown : k # h.series => shown'[k] = shown[k]
    /\ shown'[h.series] \in Nat
    /\ ~ h.adds => shown'[h.series] = h.value
    /\ queue' \in Seq(Sample)
    /\ Len(queue) \in Nat \ {0} /\ Len(queue') = Len(queue) - 1
    /\ \A i \in 1 .. Len(queue') : i + 1 \in 1 .. Len(queue) /\ queue'[i] = queue[i + 1]

LEMMA RecordFacts ==
    ASSUME TypeOK, QueueInv, Record
    PROVE  RecordEffect(Head(queue))
<1> DEFINE h == Head(queue)
           old == IF h.series \in DOMAIN shown THEN shown[h.series] ELSE 0
           sum == IF old + h.value < SumCap THEN old + h.value ELSE SumCap
           new == IF h.adds THEN sum ELSE h.value
<1>1. /\ queue # <<>> /\ queue' = Tail(queue)
      /\ shown' = [k \in DOMAIN shown \cup {h.series} |->
                      IF k = h.series THEN new ELSE shown[k]]
  BY DEF Record
<1>2. /\ h \in Sample /\ h = queue[1] /\ queue' \in Seq(Sample)
      /\ Len(queue) \in Nat \ {0} /\ Len(queue') = Len(queue) - 1
      /\ \A i \in 1 .. Len(queue') : queue'[i] = queue[i + 1]
  <2> DEFINE S == Sample
  <2> HIDE DEF S
  <2>1. queue \in Seq(S)
    BY DEF QueueInv, S
  <2>2. /\ h \in S /\ h = queue[1] /\ queue' \in Seq(S)
        /\ Len(queue) \in Nat \ {0} /\ Len(queue') = Len(queue) - 1
        /\ \A i \in 1 .. Len(queue') : queue'[i] = queue[i + 1]
    BY <1>1, <2>1
  <2> QED BY <2>2 DEF S
<1>3. \A i \in 1 .. Len(queue') : i + 1 \in 1 .. Len(queue)
  BY <1>2
<1>4. h.value \in Nat
  BY <1>2 DEF Sample
<1>5. old \in Nat
  BY DEF TypeOK
<1> HIDE DEF h, old
<1>6. sum \in Nat
  BY <1>4, <1>5, BoundsAssumption
<1> HIDE DEF sum
<1>7. new \in Nat /\ (~ h.adds => new = h.value)
  BY <1>4, <1>6
<1> HIDE DEF new
<1>8. /\ DOMAIN shown' = DOMAIN shown \cup {h.series} /\ shown'[h.series] = new
      /\ \A k \in DOMAIN shown : k # h.series => shown'[k] = shown[k]
  BY <1>1
<1> QED
  BY <1>2, <1>3, <1>7, <1>8 DEF RecordEffect, h

\* Samples of the phone the pass is at.
LEMMA QueueTyped ==
    ASSUME SamplesOf(cur', queue')
    PROVE  /\ queue' \in Seq(Sample) /\ \A i \in 1 .. Len(queue') : queue'[i].series[2] = cur'
           /\ \A i \in DOMAIN queue' : queue'[i].value \in Nat /\ queue'[i].series[2] = cur'
<1>1. queue' \in Seq(Sample) /\ \A i \in 1 .. Len(queue') : queue'[i].series[2] = cur'
  BY DEF SamplesOf
<1>2. DOMAIN queue' = 1 .. Len(queue') /\ \A i \in 1 .. Len(queue') : queue'[i] \in Sample
  BY <1>1, LenProperties, ElementOfSeq
<1>3. \A i \in 1 .. Len(queue') : queue'[i].value \in Nat
  BY <1>2 DEF Sample
<1> QED
  BY <1>1, <1>2, <1>3

LEMMA EmptySamples == \A p : SamplesOf(p, <<>>)
  BY DEF SamplesOf

\* Every series has a metric and a phone.
LEMMA ShownTyped ==
    ASSUME DOMAIN shown' \subseteq SeriesSet, \A k \in DOMAIN shown' : shown'[k] \in Nat
    PROVE  \A k \in DOMAIN shown' : shown'[k] \in Nat /\ k[1] \in Metrics /\ k[2] \in Phones
<1>1. \A k \in SeriesSet : k[1] \in Metrics /\ k[2] \in Phones
  BY DEF SeriesSet
<1> QED
  BY <1>1

PassInv == TypeOK /\ QueueInv

\* A step that leaves what is shown, and what it takes to keep the types.
LEMMA QuietStep ==
    ASSUME PassInv, UNCHANGED <<id, state, shown, changes>>,
           UNCHANGED answer, failures' \in 0 .. MaxFailures,
           SamplesOf(cur', queue'), cur' \in Phones, steady' \subseteq Phones,
           pc' \in {"idle", "probe", "request", "next", "abort"},
           pc' \in {"idle", "probe"} => queue' = <<>>,
           pc' = "idle" => steady' = {} /\ cur' = 1
    PROVE  PassInv'
<1>1. QueueInv'
  BY QueueTyped DEF PassInv, QueueInv
<1>2. TypeOK'
  BY QueueTyped DEF PassInv, TypeOK
<1> QED
  BY <1>1, <1>2 DEF PassInv

LEMMA ChangeStep ==
    ASSUME PassInv, NEW p \in Phones, ChangeState(p) \/ ChangeAnswer(p)
    PROVE  PassInv'
<1>1. /\ UNCHANGED <<id, pc, cur, queue, shown, failures>>
      /\ steady' = steady \ {p} /\ changes' \in 0 .. MaxChanges
  BY BoundsAssumption DEF ChangeState, ChangeAnswer, Change, PassInv, TypeOK
<1>2. state' \in [Phones -> States] /\ answer' \in [Phones -> AnswersTo(id)]
  BY DEF ChangeState, ChangeAnswer, PassInv, TypeOK
<1>3. AnswersTo(id)' = AnswersTo(id)
  BY <1>1 DEF AnswersTo
<1>4. TypeOK'
  BY <1>1, <1>2, <1>3 DEF PassInv, TypeOK
<1>5. QueueInv'
  BY <1>1 DEF PassInv, QueueInv
<1> QED
  BY <1>4, <1>5 DEF PassInv

LEMMA FirstPhone == 1 \in Phones
  BY TargetsAssumption DEF Phones

LEMMA PassInvariant == PassInv /\ [Next]_vars => PassInv'
<1> SUFFICES ASSUME PassInv, [Next]_vars PROVE PassInv'
  OBVIOUS
<1> USE DEF phones
<1>1. ASSUME NEW p \in Phones, ChangeState(p) \/ ChangeAnswer(p) PROVE PassInv'
  BY <1>1, ChangeStep
<1>2. CASE StartPass
  <2>1. queue' = <<>> /\ queue = <<>>
    BY <1>2 DEF StartPass, PassInv, QueueInv
  <2> QED BY <1>2, <2>1, QuietStep, EmptySamples DEF StartPass, PassInv, TypeOK
<1>3. CASE Probe
  <2>1. PICK verdict \in States :
           /\ Verdict(verdict)
           /\ queue' = IF id = "phone.status" THEN StateSamples(cur, verdict) ELSE <<>>
           /\ pc' = IF verdict = "ok" THEN "request" ELSE "next"
    BY <1>3 DEF Probe
  <2>2. cur \in Phones /\ cur' = cur
    BY <1>3 DEF Probe, PassInv, TypeOK
  <2>3. SamplesOf(cur', queue')
    BY <2>1, <2>2, StateSamplesFacts, EmptySamples
  <2>4. failures' \in 0 .. MaxFailures
    BY <2>1, BoundsAssumption DEF Verdict, PassInv, TypeOK
  <2>5. pc' \in {"request", "next"}
    BY <2>1
  <2> QED BY <1>3, <2>2, <2>3, <2>4, <2>5, QuietStep DEF Probe, PassInv, TypeOK
<1>4. CASE Request
  <2>1. cur \in Phones /\ cur' = cur /\ ~ Refused(cur) /\ queue' = Samples(cur)
        /\ pc' \in {"abort", "next"}
    BY <1>4 DEF Request, PassInv, TypeOK
  <2>2. SamplesOf(cur', queue')
    BY <2>1, SamplesTell DEF PassInv
  <2> QED BY <1>4, <2>1, <2>2, QuietStep DEF Request, PassInv, TypeOK
<1>5. CASE RequestRefused \/ EndPass \/ Abort \/ Fails
  <2>1. Return /\ UNCHANGED <<id, state, answer, shown, changes>>
    BY <1>5 DEF RequestRefused, EndPass, Abort, Fails
  <2>2. failures' \in 0 .. MaxFailures
    BY <1>5, BoundsAssumption DEF RequestRefused, EndPass, Abort, Fails, PassInv, TypeOK
  <2> QED BY <2>1, <2>2, QuietStep, EmptySamples, FirstPhone DEF Return
<1>6. CASE Record
  <2> DEFINE h == Head(queue)
  <2>1. RecordEffect(h)
    BY <1>6, RecordFacts DEF PassInv
  <2>2. UNCHANGED <<id, pc, cur, state, answer, steady, changes, failures>>
    BY <1>6 DEF Record
  <2> HIDE DEF h
  <2>3. SamplesOf(cur', queue')
    BY <2>1, <2>2 DEF RecordEffect, SamplesOf, PassInv, QueueInv
  <2>4. h.series \in SeriesSet
    BY <2>1 DEF RecordEffect, Sample
  <2>5. DOMAIN shown' \subseteq SeriesSet
    BY <2>1, <2>4 DEF RecordEffect, PassInv, QueueInv
  <2>6. \A k \in DOMAIN shown' : shown'[k] \in Nat
    BY <2>1 DEF RecordEffect, PassInv, TypeOK
  <2>7. pc \notin {"idle", "probe"}
    BY <1>6 DEF Record, PassInv, QueueInv
  <2>8. AnswersTo(id)' = AnswersTo(id)
    BY <2>2 DEF AnswersTo
  <2>9. QueueInv'
    BY <2>2, <2>3, <2>5, <2>7, QueueTyped DEF QueueInv
  <2>10. TypeOK'
    BY <2>2, <2>3, <2>5, <2>6, <2>8, QueueTyped, ShownTyped DEF PassInv, TypeOK
  <2> QED BY <2>9, <2>10 DEF PassInv
<1>7. CASE NextTarget
  <2>1. queue' = <<>> /\ pc' = "probe" /\ UNCHANGED <<id, state, answer, shown, steady, changes, failures>>
    BY <1>7 DEF NextTarget
  <2>2. cur' \in Phones
    BY <1>7, TargetsAssumption DEF NextTarget, PassInv, TypeOK, Phones
  <2> QED BY <2>1, <2>2, QuietStep, EmptySamples DEF PassInv, TypeOK
<1>8. CASE UNCHANGED vars
  <2>1. AnswersTo(id)' = AnswersTo(id)
    BY <1>8 DEF AnswersTo, vars
  <2> QED BY <1>8, <2>1 DEF vars, PassInv, TypeOK, QueueInv
<1> QED
  BY <1>1, <1>2, <1>3, <1>4, <1>5, <1>6, <1>7, <1>8 DEF Next, PassStep

LEMMA InitPassInv == Init => PassInv
<1> SUFFICES ASSUME Init PROVE PassInv
  OBVIOUS
<1>1. DOMAIN shown = {} /\ queue = <<>> /\ queue \in Seq(Sample)
  BY DEF Init
<1>2. state \in [Phones -> States]
  BY StateFacts DEF Init
<1>3. QueueInv
  BY <1>1 DEF Init, QueueInv
<1>4. TypeOK
  BY <1>1, <1>2, FirstPhone, BoundsAssumption DEF Init, TypeOK
<1> QED
  BY <1>3, <1>4 DEF PassInv

\* For any phones and answers: the pass is always at one of its phones, it only ever
\* records samples of that phone, and no exported value is negative.
THEOREM PhonePassTyped == Spec => []TypeOK
<1>1. PassInv => TypeOK
  BY DEF PassInv
<1> QED
  BY <1>1, InitPassInv, PassInvariant, PTL DEF Spec

----------------------------------------------------------------------------
(* Complete passes. *)

\* A promise depends on the answer of its phone only, and is about its series.
LEMMA PromisedFacts ==
    ASSUME NEW p, NEW k, NEW v, Promised(p, k, v)
    PROVE  k[2] = p
<1>1. \E m, x : k = <<m, p, x>>
  BY DEF Promised
<1> QED
  BY <1>1, PhoneOf

LEMMA PromisedStays ==
    ASSUME NEW p, id' = id, answer'[p] = answer[p], NEW k, NEW v
    PROVE  Promised(p, k, v)' = Promised(p, k, v)
  BY DEF Promised, LineNumbers, Nameless

\* With nothing left to record, what will be shown is shown, and samples of other
\* series leave it so.
LEMMA NothingLeft ==
    ASSUME NEW k, NEW v, WillShow(k, v, <<>>)
    PROVE  /\ Shows(k, v)
           /\ \A s : (\A i \in 1 .. Len(s) : s[i].series # k) => WillShow(k, v, s)
<1>1. 1 .. Len(<<>>) = {}
  OBVIOUS
<1>2. Shows(k, v)
  BY <1>1 DEF WillShow
<1> QED
  BY <1>2 DEF WillShow

LEMMA WillShowSets ==
    ASSUME NEW k, NEW v, NEW s, Sets(s, k, v) PROVE WillShow(k, v, s)
  BY DEF Sets, WillShow

\* Recording a sample brings nothing else.
LEMMA WillShowRecord ==
    ASSUME PassInv, Record, NEW k, NEW v, WillShow(k, v, queue)
    PROVE  WillShow(k, v, queue)'
<1> DEFINE h == Head(queue)
<1>1. RecordEffect(h)
  BY RecordFacts DEF PassInv
<1> HIDE DEF h
<1>2. /\ \A i \in 1 .. Len(queue') : i + 1 \in 1 .. Len(queue) /\ queue'[i] = queue[i + 1]
      /\ Len(queue) \in Nat \ {0} /\ Len(queue') = Len(queue) - 1 /\ h = queue[1]
  BY <1>1 DEF RecordEffect
<1>3. \A i \in 1 .. Len(queue) : queue[i].series = k => ~ queue[i].adds /\ queue[i].value = v
  BY DEF WillShow
<1>4. \A i \in 1 .. Len(queue') : queue'[i].series = k => ~ queue'[i].adds /\ queue'[i].value = v
  BY <1>2, <1>3
<1>5. 1 \in 1 .. Len(queue)
  BY <1>2
<1>6. CASE h.series = k
  <2>1. ~ h.adds /\ h.value = v
    BY <1>2, <1>3, <1>5, <1>6
  <2>2. k \in DOMAIN shown' /\ shown'[k] = v
    BY <1>1, <1>6, <2>1 DEF RecordEffect
  <2> QED BY <1>4, <2>2 DEF WillShow, Shows
<1>7. CASE h.series # k
  <2>1. CASE Shows(k, v)
    <3>1. k \in DOMAIN shown' /\ shown'[k] = v
      BY <1>1, <1>7, <2>1 DEF RecordEffect, Shows
    <3> QED BY <1>4, <3>1 DEF WillShow, Shows
  <2>2. CASE \E i \in 1 .. Len(queue) : queue[i].series = k
    <3>1. PICK i \in 1 .. Len(queue) : queue[i].series = k
      BY <2>2
    <3>2. i # 1
      BY <1>2, <1>7, <3>1
    <3>3. i - 1 \in 1 .. Len(queue') /\ i - 1 + 1 = i
      BY <1>2, <3>2
    <3>4. queue'[i - 1].series = k
      BY <1>2, <3>1, <3>3
    <3> QED BY <1>4, <3>3, <3>4 DEF WillShow
  <2> QED BY <2>1, <2>2 DEF WillShow
<1> QED
  BY <1>6, <1>7

\* New samples of the phone the pass is at leave what is shown of the phones before.
LEMMA KeptForDone ==
    ASSUME PassInv, queue = <<>>, cur' = cur, UNCHANGED <<id, answer, shown>>,
           SamplesOf(cur, queue'), NEW p \in Phones, p # cur,
           \A k, v : Promised(p, k, v) => WillShow(k, v, queue)
    PROVE  \A k, v : Promised(p, k, v)' => WillShow(k, v, queue)'
<1> SUFFICES ASSUME NEW k, NEW v, Promised(p, k, v)' PROVE WillShow(k, v, queue)'
  OBVIOUS
<1>1. Promised(p, k, v)
  BY PromisedStays
<1>2. WillShow(k, v, <<>>) /\ k[2] = p
  BY <1>1, PromisedFacts
<1>3. \A i \in 1 .. Len(queue') : queue'[i].series # k
  BY <1>2 DEF SamplesOf
<1>4. WillShow(k, v, queue')
  BY <1>2, <1>3, NothingLeft
<1> QED
  BY <1>4 DEF WillShow, Shows

LEMMA NoneSteady == ASSUME steady' = {} PROVE ShownInv'
  BY DEF ShownInv

LEMMA ShownProbe == ASSUME PassInv, ShownInv, Probe PROVE ShownInv'
<1>1. PICK verdict \in States :
         /\ Verdict(verdict)
         /\ queue' = IF id = "phone.status" THEN StateSamples(cur, verdict) ELSE <<>>
         /\ pc' = IF verdict = "ok" THEN "request" ELSE "next"
  BY DEF Probe
<1>2. /\ pc = "probe" /\ queue = <<>> /\ UNCHANGED <<state, answer, id, cur, shown, steady>>
      /\ cur \in Phones /\ steady \subseteq Phones /\ failures \in Nat
  BY DEF Probe, phones, PassInv, QueueInv, TypeOK
<1>3. SamplesOf(cur, queue')
  BY <1>1, <1>2, StateSamplesFacts, EmptySamples
<1> SUFFICES ASSUME failures' = 0, NEW p \in steady, state[p] = "ok"
             PROVE  /\ Done(p)' => \A k, v : Promised(p, k, v)' => WillShow(k, v, queue)'
                    /\ pc' = "request" /\ p = cur /\ id = "phone.status" =>
                          \A t \in States : WillShow(<<"api_state", p, t>>, Bit(t = "ok"), queue)'
  BY <1>2 DEF ShownInv
<1>4. failures = 0 /\ verdict = state[cur]
  BY <1>1, <1>2 DEF Verdict
<1>5. ASSUME Done(p)' PROVE \A k, v : Promised(p, k, v)' => WillShow(k, v, queue)'
  <2>1. p # cur
    BY <1>1, <1>2, <1>4, <1>5 DEF Done, Phones
  <2>2. Done(p)
    BY <1>2, <1>5, <2>1 DEF Done
  <2>3. \A k, v : Promised(p, k, v) => WillShow(k, v, queue)
    BY <1>4, <2>2 DEF ShownInv
  <2> QED BY <1>2, <1>3, <2>1, <2>3, KeptForDone
<1>6. ASSUME pc' = "request", p = cur, id = "phone.status", NEW t \in States
      PROVE  WillShow(<<"api_state", p, t>>, Bit(t = "ok"), queue)'
  <2>1. verdict = "ok" /\ queue' = StateSamples(p, verdict)
    BY <1>1, <1>6
  <2>2. Sets(queue', <<"api_state", p, t>>, Bit(t = "ok"))
    BY <1>2, <2>1, StateSamplesFacts
  <2>3. WillShow(<<"api_state", p, t>>, Bit(t = "ok"), queue')
    BY <2>2, WillShowSets
  <2> QED BY <1>2, <2>3 DEF WillShow, Shows
<1> QED
  BY <1>5, <1>6

LEMMA ShownRequest == ASSUME PassInv, ShownInv, Request PROVE ShownInv'
<1>1. /\ pc = "request" /\ queue = <<>> /\ ~ Refused(cur) /\ queue' = Samples(cur)
      /\ pc' = IF CutShort(cur) THEN "abort" ELSE "next"
      /\ UNCHANGED <<state, answer, id, cur, shown, steady, failures>>
      /\ cur \in Phones /\ steady \subseteq Phones
  BY DEF Request, phones, PassInv, TypeOK
<1>2. SamplesOf(cur, queue') /\ (~ CutShort(cur) => Tells(cur, queue'))
  BY <1>1, SamplesTell DEF PassInv
<1>3. pc' # "request"
  BY <1>1
<1> SUFFICES ASSUME failures = 0, NEW p \in steady, state[p] = "ok", Done(p)'
             PROVE  \A k, v : Promised(p, k, v)' => WillShow(k, v, queue)'
  BY <1>1, <1>3 DEF ShownInv
<1>4. CASE p # cur
  <2>1. Done(p)
    BY <1>1, <1>4 DEF Done
  <2>2. \A k, v : Promised(p, k, v) => WillShow(k, v, queue)
    BY <2>1 DEF ShownInv
  <2> QED BY <1>1, <1>2, <1>4, <2>2, KeptForDone
<1>5. CASE p = cur
  <2>1. Tells(p, queue')
    <3>1. ~ (p < cur)
      BY <1>1, <1>5 DEF Phones
    <3>2. pc' = "next"
      BY <1>1, <1>5, <3>1 DEF Done
    <3> QED BY <1>1, <1>2, <1>5, <3>2
  <2> SUFFICES ASSUME NEW k, NEW v, Promised(p, k, v)' PROVE WillShow(k, v, queue)'
    OBVIOUS
  <2>2. Promised(p, k, v)
    BY <1>1, PromisedStays
  <2>3. WillShow(k, v, queue')
    <3>1. CASE Sets(queue', k, v)
      BY <3>1, WillShowSets
    <3>2. CASE /\ id = "phone.status" /\ \A i \in 1 .. Len(queue') : queue'[i].series # k
               /\ \E t \in States : k = <<"api_state", p, t>> /\ v = Bit(t = "ok")
      <4>1. WillShow(k, v, <<>>)
        BY <1>1, <1>5, <3>2 DEF ShownInv
      <4> QED BY <3>2, <4>1, NothingLeft
    <3> QED BY <2>1, <2>2, <3>1, <3>2 DEF Tells
  <2> QED BY <1>1, <2>3 DEF WillShow, Shows
<1> QED
  BY <1>4, <1>5

LEMMA ShownInvariant == PassInv /\ ShownInv /\ [Next]_vars => ShownInv'
<1> SUFFICES ASSUME PassInv, ShownInv, [Next]_vars PROVE ShownInv'
  OBVIOUS
<1>1. ASSUME NEW q \in Phones, ChangeState(q) \/ ChangeAnswer(q) PROVE ShownInv'
  <2>1. /\ UNCHANGED <<id, pc, cur, queue, shown, failures>> /\ steady' = steady \ {q}
    BY <1>1 DEF ChangeState, ChangeAnswer, Change
  <2>2. ASSUME NEW p \in steady \ {q} PROVE state'[p] = state[p] /\ answer'[p] = answer[p]
    <3>1. p \in Phones /\ state \in [Phones -> States] /\ answer \in [Phones -> AnswersTo(id)]
      BY DEF PassInv, TypeOK
    <3> QED BY <1>1, <3>1 DEF ChangeState, ChangeAnswer
  <2>3. \A p \in steady \ {q} : \A k, v : Promised(p, k, v)' => Promised(p, k, v)
    BY <2>1, <2>2, PromisedStays
  <2>4. \A k, v : WillShow(k, v, queue) => WillShow(k, v, queue)'
    BY <2>1 DEF WillShow, Shows
  <2>5. \A p : Done(p)' => Done(p)
    BY <2>1 DEF Done
  <2> QED BY <2>1, <2>2, <2>3, <2>4, <2>5 DEF ShownInv
<1>2. CASE StartPass
  <2>1. pc' = "probe" /\ cur' = cur /\ cur = 1 /\ steady' = Phones
    BY <1>2 DEF StartPass, PassInv, QueueInv
  <2>2. \A p \in Phones : ~ (p < 1)
    BY DEF Phones
  <2>3. \A p \in Phones : ~ Done(p)'
    BY <2>1, <2>2 DEF Done
  <2> QED BY <2>1, <2>3 DEF ShownInv
<1>3. CASE Probe
  BY <1>3, ShownProbe
<1>4. CASE Request
  BY <1>4, ShownRequest
<1>5. CASE RequestRefused \/ EndPass \/ Abort \/ Fails
  <2>1. steady' = {}
    BY <1>5 DEF RequestRefused, EndPass, Abort, Fails, Return
  <2> QED BY <2>1, NoneSteady
<1>6. CASE Record
  <2>1. UNCHANGED <<id, pc, cur, state, answer, steady, failures>>
    BY <1>6 DEF Record, phones
  <2>2. \A p, k, v : Promised(p, k, v)' => Promised(p, k, v)
    BY <2>1, PromisedStays
  <2>3. \A k, v : WillShow(k, v, queue) => WillShow(k, v, queue)'
    BY <1>6, WillShowRecord
  <2> QED BY <2>1, <2>2, <2>3 DEF ShownInv, Done
<1>7. CASE NextTarget
  <2>1. /\ pc = "next" /\ pc' = "probe" /\ cur' = cur + 1
        /\ UNCHANGED <<id, queue, shown, state, answer, steady, failures>>
    BY <1>7 DEF NextTarget, phones
  <2>2. \A p, k, v : Promised(p, k, v)' => Promised(p, k, v)
    BY <2>1, PromisedStays
  <2>3. \A k, v : WillShow(k, v, queue) => WillShow(k, v, queue)'
    BY <2>1 DEF WillShow, Shows
  <2>4. ASSUME NEW p \in steady, Done(p)' PROVE Done(p)
    <3>1. p \in Nat /\ cur \in Nat
      BY DEF PassInv, TypeOK, Phones
    <3>2. p < cur + 1
      BY <2>1, <2>4 DEF Done
    <3>3. p < cur \/ p = cur
      BY <3>1, <3>2
    <3> QED BY <2>1, <3>3 DEF Done
  <2> QED BY <2>1, <2>2, <2>3, <2>4 DEF ShownInv
<1>8. CASE UNCHANGED vars
  <2>1. UNCHANGED <<id, pc, cur, queue, shown, state, answer, steady, failures>>
    BY <1>8 DEF vars, phones
  <2>2. \A p, k, v : Promised(p, k, v)' => Promised(p, k, v)
    BY <2>1, PromisedStays
  <2>3. \A k, v : WillShow(k, v, queue) => WillShow(k, v, queue)'
    BY <2>1 DEF WillShow, Shows
  <2>4. \A p : Done(p)' => Done(p)
    BY <2>1 DEF Done
  <2> QED BY <2>1, <2>2, <2>3, <2>4 DEF ShownInv
<1> QED
  BY <1>1, <1>2, <1>3, <1>4, <1>5, <1>6, <1>7, <1>8 DEF Next, PassStep

\* With every promise kept, what is exported of phone p is true.
LEMMA PromisesTrue ==
    ASSUME TypeOK, NEW p \in Phones, \A k, v : Promised(p, k, v) => Shows(k, v)
    PROVE  Truthful(p)
<1>1. id \in CollectorIDs
  BY TargetsAssumption DEF TypeOK
<1>2. CASE id = "phone.status"
  <2>1. Shows(<<"uptime", p, "">>, parseUptime(answer[p].UpTime))
    BY <1>2 DEF Promised
  <2>2. StateShown(p, "ok")
    BY <1>2 DEF Promised, StateShown
  <2> QED BY <1>2, <2>1, <2>2 DEF Truthful
<1>3. CASE id = "phone.lines"
  <2>1. Shows(<<"lines_total", p, "">>, Cardinality(LineNumbers(p)) + Cardinality(Nameless(p)))
    BY <1>3 DEF Promised
  <2>2. \A i \in DOMAIN answer[p] \ Nameless(p) :
           (\A j \in 1 .. i - 1 : answer[p][j].LineNumber # answer[p][i].LineNumber)
           => Shows(<<"line", p, LineAttrs(answer[p][i])>>, Bit(answer[p][i].registered))
    BY <1>3 DEF Promised
  <2> QED BY <1>3, <2>1, <2>2 DEF Truthful
<1>4. CASE id = "phone.config"
  <2>1. \A n \in Range(Params) : Shows(<<"config_source", p, <<n, answer[p][n]>>>>, 1)
    BY <1>4 DEF Promised
  <2> QED BY <1>4, <2>1 DEF Truthful
<1>5. CASE id = "phone.network_info"
  <2>1. Shows(<<"network", p, answer[p]>>, 1)
    BY <1>5 DEF Promised
  <2> QED BY <1>5, <2>1 DEF Truthful
<1> QED
  BY <1>1, <1>2, <1>3, <1>4, <1>5 DEF CollectorIDs

\* For any number of phones: a pass that returns without an error has recorded the truth
\* about every phone that was OK and did not change, lines counted once each, whatever
\* the phones before it were and whichever of them changed.
THEOREM PhonePassesTellTruth == Spec => []PassShowsSteady
<1>1. Init => PassInv /\ ShownInv
  BY InitPassInv DEF Init, ShownInv
<1>2. PassInv /\ ShownInv /\ [Next]_vars => (PassInv /\ ShownInv)'
  BY PassInvariant, ShownInvariant
<1>3. ASSUME PassInv, ShownInv PROVE PassShowsSteady
  <2> SUFFICES ASSUME PassComplete, failures = 0, NEW p \in steady, state[p] = "ok"
               PROVE  Truthful(p)
    BY DEF PassShowsSteady
  <2>1. p \in Phones /\ p \in Nat /\ p <= NumTargets /\ NumTargets \in Nat
    BY <1>3, TargetsAssumption DEF PassInv, TypeOK, Phones
  <2>2. Done(p) /\ queue = <<>>
    BY <2>1 DEF Done, PassComplete
  <2>3. \A k, v : Promised(p, k, v) => Shows(k, v)
    BY <1>3, <2>2, NothingLeft DEF ShownInv
  <2> QED BY <1>3, <2>1, <2>3, PromisesTrue DEF PassInv
<1> QED
  BY <1>1, <1>2, <1>3, PTL DEF Spec
=============================================================================
