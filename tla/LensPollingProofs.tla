-------------------------- MODULE LensPollingProofs --------------------------
(***************************************************************************)
(* Proofs about LensPolling for any tenants, devices, pages and caps.      *)
(***************************************************************************)
EXTENDS LensPolling, FiniteSetTheorems, SequenceTheorems, TLAPS

----------------------------------------------------------------------------
(* The inductive invariants. *)

\* The tenants a pass goes through.
PassTenants == IF TenantIDs # <<>> THEN TenantIDs ELSE AllTenants

\* Where the locals of a pass are set.
LocalsInv ==
    /\ pc # "list" => tenants = <<>>
    /\ tenants = <<>> => nextToken = 0
    /\ pc \in {"idle", "tenants"} => devices = <<>>
    /\ pc # "report" => reported = {}

\* The devices reported and those still to report are no more than the cap allows.
CapInv ==
    /\ IsFiniteSet(reported)
    /\ pc = "report" => Cardinality(reported) + Len(devices) <= MaxDevices

Listed(d) == \E i \in 1 .. Len(devices) : devices[i].ID = d

\* Device d is on a page of the listing that is still to come.
ToCome(d) ==
    \/ tenants # <<>> /\ tenants[1] = TenantOf[d] /\ d > nextToken
    \/ \E j \in 2 .. Len(tenants) : tenants[j] = TenantOf[d]

\* Steady devices are in the inventory.
SteadyEnrolled == steady \subseteq enrolled

\* What the pass knows of a listed device that has not changed is still so.
ListedTrue ==
    \A i \in 1 .. Len(devices) :
        devices[i].ID \in steady =>
            /\ devices[i].Connected = (devices[i].ID \in connected)
            /\ devices[i].SoftwareVersion = installed[devices[i].ID]

\* No page, no tenant and no listed device is left out.
NoneLeftOut ==
    \A d \in steady \cap Tracked :
        /\ pc = "list" => Listed(d) \/ ToCome(d)
        /\ pc = "report" => Listed(d) \/ d \in reported

\* The series of d show what is so.
TruthShown(d, seriesShown) ==
    LET Shown(k, v) == k \in DOMAIN seriesShown /\ seriesShown[k] = v IN
    /\ id = "lens.devices" =>
          /\ Shown(DeviceSeries("device.connected", d), Bit(d \in connected))
          /\ Shown(<<"device.firmware_info", d, installed[d]>>, 1)
    /\ id = "lens.firmware" =>
          Shown(DeviceSeries("device.firmware_current", d), Bit(installed[d] = latest))
    /\ id = "lens.active_calls" =>
          \A s \in CallStates :
              calls[d][s] > 0 => Shown(<<"device.active_calls", d, s>>, calls[d][s])

\* A reported device that has not changed is shown as it is.
ReportedTrue == \A d \in steady \cap reported : TruthShown(d, shown)

SteadyInv ==
    LocalsInv /\ SteadyEnrolled /\ ListedTrue /\ NoneLeftOut /\ ReportedTrue

----------------------------------------------------------------------------
(* Sets and sequences. *)

\* A finite set of numbers that is not empty has a greatest element.
LEMMA MaxFacts ==
    ASSUME NEW S, S \subseteq Nat, IsFiniteSet(S), S # {}
    PROVE  Max(S) \in S /\ \A y \in S : y <= Max(S)
<1> DEFINE HasMax(T) == \E x \in T : \A y \in T : x >= y
           Bad == {T \in SUBSET S : T # {} /\ ~ HasMax(T)}
           R == StrictSubsetOrdering(S)
<1>1. ASSUME Bad # {} PROVE FALSE
  <2>1. IsWellFoundedOn(R, SUBSET S)
    BY FS_StrictSubsetOrderingWellFounded, FS_FiniteSubsetsOfFinite
  <2>2. Bad \subseteq SUBSET S
    OBVIOUS
  <2> HIDE DEF R, Bad
  <2>3. PICK T \in Bad : \A U \in Bad : ~ (<<U, T>> \in R)
    BY <1>1, <2>1, <2>2, WFMin
  <2>4. T \in SUBSET S /\ T # {} /\ ~ HasMax(T)
    BY DEF Bad
  <2>5. PICK x \in T : TRUE
    BY <2>4
  <2>6. <<T \ {x}, T>> \in R
    BY <2>4 DEF R, StrictSubsetOrdering
  <2>7. T \ {x} = {} \/ HasMax(T \ {x})
    BY <2>3, <2>4, <2>6 DEF Bad
  <2>8. x \in Nat
    BY <2>4
  <2>9. CASE T \ {x} = {}
    <3>1. \A y \in T : x >= y
      BY <2>8, <2>9
    <3> QED BY <2>4, <3>1
  <2>10. CASE HasMax(T \ {x})
    <3>1. PICK m \in T \ {x} : \A y \in T \ {x} : m >= y
      BY <2>10
    <3>2. m \in Nat
      BY <2>4
    <3>3. CASE x >= m
      <4>1. \A y \in T : x >= y
        <5> TAKE y \in T
        <5>1. y \in Nat /\ (y = x \/ m >= y)
          BY <2>4, <3>1
        <5> QED BY <2>8, <3>2, <3>3, <5>1
      <4> QED BY <2>4, <4>1
    <3>4. CASE ~ (x >= m)
      <4>1. \A y \in T : m >= y
        <5> TAKE y \in T
        <5>1. y \in Nat /\ (y = x \/ m >= y)
          BY <2>4, <3>1
        <5> QED BY <2>8, <3>2, <3>4, <5>1
      <4> QED BY <2>4, <4>1
    <3> QED BY <3>3, <3>4
  <2> QED BY <2>7, <2>9, <2>10
<1>2. HasMax(S)
  BY <1>1
<1>3. Max(S) \in S /\ \A y \in S : Max(S) >= y
  BY <1>2 DEF Max
<1>4. \A y \in S : y \in Nat
  OBVIOUS
<1> QED
  BY <1>3, <1>4

\* The functions that SetToSeqs lists go through the whole set.
LEMMA SetToSeqsFacts ==
    ASSUME NEW S, IsFiniteSet(S), NEW f \in SetToSeqs(S)
    PROVE  /\ f \in Seq(S) /\ DOMAIN f = 1 .. Len(f)
           /\ \A x \in S : \E i \in 1 .. Len(f) : f[i] = x
<1> DEFINE n == Cardinality(S)
<1>1. n \in Nat
  BY FS_CardinalityType
<1>2. f \in [1 .. n -> S] /\ \A i, j \in 1 .. n : i # j => f[i] # f[j]
  BY DEF SetToSeqs
<1>3. IsFiniteSet(1 .. n) /\ Cardinality(1 .. n) = n
  BY <1>1, FS_Interval
<1>4. f \in Injection(1 .. n, S)
  BY <1>2 DEF Injection, IsInjective
<1> HIDE DEF n
<1>5. Cardinality(1 .. n) = Cardinality(S)
  BY <1>3 DEF n
<1>6. f \in Surjection(1 .. n, S)
  BY <1>4, <1>5, FS_Injection
<1>7. f \in Seq(S)
  BY <1>1, <1>2, SeqDef
<1>8. Len(f) = n /\ DOMAIN f = 1 .. n
  BY <1>1, <1>2, <1>7, LenProperties
<1> QED
  BY <1>6, <1>7, <1>8 DEF Surjection

\* The sequences of a page.
LEMMA PageFacts ==
    ASSUME NEW page \in SUBSET Devices
    PROVE  /\ IsFiniteSet(page)
           /\ \A order \in InOrder(page) :
                 /\ order \in Seq(Devices) /\ DOMAIN order = 1 .. Len(order)
                 /\ \A i \in 1 .. Len(order) : order[i] \in page
                 /\ \A d \in page : \E i \in 1 .. Len(order) : order[i] = d
<1>1. IsFiniteSet(page)
  BY DevicesAssumption, FS_Subset
<1>2. ASSUME NEW order \in InOrder(page)
      PROVE  /\ order \in Seq(Devices) /\ DOMAIN order = 1 .. Len(order)
             /\ \A i \in 1 .. Len(order) : order[i] \in page
             /\ \A d \in page : \E i \in 1 .. Len(order) : order[i] = d
  <2>1. order \in SetToSeqs(page)
    BY DEF InOrder
  <2>2. /\ order \in Seq(page) /\ DOMAIN order = 1 .. Len(order)
        /\ \A d \in page : \E i \in 1 .. Len(order) : order[i] = d
    BY <1>1, <2>1, SetToSeqsFacts
  <2>3. \A i \in 1 .. Len(order) : order[i] \in page
    BY <2>2, ElementOfSeq
  <2>4. order \in Seq(Devices)
    BY <2>2, SeqMonotonic
  <2> QED BY <2>2, <2>3, <2>4
<1> QED
  BY <1>1, <1>2

\* What the listing says of a page.
LEMMA NodesFacts ==
    ASSUME TypeOK, NEW order \in Seq(Devices), DOMAIN order = 1 .. Len(order)
    PROVE  /\ Nodes(order) \in Seq(Node)
           /\ Len(Nodes(order)) = Len(order)
           /\ \A i \in 1 .. Len(order) :
                 /\ Nodes(order)[i].ID = order[i]
                 /\ Nodes(order)[i].Connected = (order[i] \in connected)
                 /\ Nodes(order)[i].SoftwareVersion = installed[order[i]]
<1> DEFINE n == Len(order)
           nodes == Nodes(order)
<1>1. n \in Nat /\ \A i \in 1 .. n : order[i] \in Devices
  BY LenProperties
<1>2. nodes = [i \in 1 .. n |-> [ID |-> order[i], Connected |-> order[i] \in connected,
                                 SoftwareVersion |-> installed[order[i]]]]
  BY DEF Nodes
<1> HIDE DEF n
<1>3. ASSUME NEW i \in 1 .. n
      PROVE  [ID |-> order[i], Connected |-> order[i] \in connected,
              SoftwareVersion |-> installed[order[i]]] \in Node
  <2>1. order[i] \in Devices /\ (order[i] \in connected) \in BOOLEAN
        /\ installed[order[i]] \in Versions
    BY <1>1 DEF TypeOK
  <2> QED BY <2>1 DEF Node
<1>4. nodes \in [1 .. n -> Node]
  BY <1>2, <1>3
<1>5. nodes \in Seq(Node)
  BY <1>1, <1>4, SeqDef
<1>6. DOMAIN nodes = 1 .. n /\ DOMAIN nodes = 1 .. Len(nodes) /\ Len(nodes) \in Nat
  BY <1>2, <1>5, LenProperties
<1>7. Len(nodes) = n
  BY <1>1, <1>6
<1> QED
  BY <1>2, <1>5, <1>7 DEF n

----------------------------------------------------------------------------
(* Samples. *)

\* The series of one device.
SeriesOf(d) == {k \in Series : k[2] = d}

SampleOf(d) == SeriesOf(d) \X Nat

LEMMA SeriesFacts ==
    ASSUME NEW d \in Devices, NEW v \in Versions, NEW s \in CallStates
    PROVE  /\ DeviceSeries("device.connected", d) \in SeriesOf(d)
           /\ DeviceSeries("device.last_detected", d) \in SeriesOf(d)
           /\ DeviceSeries("device.firmware_current", d) \in SeriesOf(d)
           /\ <<"device.firmware_info", d, v>> \in SeriesOf(d)
           /\ <<"device.active_calls", d, s>> \in SeriesOf(d)
  BY DEF DeviceSeries, SeriesOf, Series

LEMMA AgeFacts ==
    ASSUME NEW d \in Devices
    PROVE  /\ emitAge(d) \in Seq(SampleOf(d))
           /\ Len(emitAge(d)) \in {0, 1}
           /\ Len(emitAge(d)) = 1 => emitAge(d)[1][1] = DeviceSeries("device.last_detected", d)
<1>1. CASE LastDetected[d] = Unparsable
  <2>1. emitAge(d) = <<>>
    BY <1>1 DEF emitAge
  <2> QED BY <2>1
<1>2. CASE LastDetected[d] # Unparsable
  <2> DEFINE age == IF LastDetected[d] < 0 THEN 0 ELSE LastDetected[d]
             x == <<DeviceSeries("device.last_detected", d), age>>
  <2>1. LastDetected[d] \in Int
    BY <1>2, DevicesAssumption
  <2>2. age \in Nat
    BY <2>1
  <2>3. emitAge(d) = <<x>>
    BY <1>2 DEF emitAge
  <2>4. DeviceSeries("device.last_detected", d) \in SeriesOf(d)
    BY DEF DeviceSeries, SeriesOf, Series
  <2> HIDE DEF age
  <2>5. x \in SampleOf(d) /\ x[1] = DeviceSeries("device.last_detected", d)
    BY <2>2, <2>4 DEF SampleOf
  <2> HIDE DEF x
  <2>6. <<x>> \in Seq(SampleOf(d)) /\ Len(<<x>>) = 1 /\ <<x>>[1] = x
    BY <2>5
  <2> QED BY <2>3, <2>5, <2>6
<1> QED
  BY <1>1, <1>2

\* The sequence of samples records v, and nothing else, for series k.
Records(samples, k, v) ==
    /\ \E i \in 1 .. Len(samples) : samples[i][1] = k
    /\ \A i \in 1 .. Len(samples) : samples[i][1] = k => samples[i][2] = v

LEMMA DevicesSamples ==
    ASSUME TypeOK, NEW node \in Node, NEW samples \in Samples(node), id = "lens.devices"
    PROVE  /\ samples \in Seq(SampleOf(node.ID))
           /\ Records(samples, DeviceSeries("device.connected", node.ID), Bit(node.Connected))
           /\ Records(samples, <<"device.firmware_info", node.ID, node.SoftwareVersion>>, 1)
<1> DEFINE d == node.ID
           v == node.SoftwareVersion
           k1 == DeviceSeries("device.connected", d)
           k2 == DeviceSeries("device.last_detected", d)
           k3 == <<"device.firmware_info", d, v>>
           a == <<k1, Bit(node.Connected)>>
           c == <<k3, 1>>
           age == emitAge(d)
<1>1. samples = <<a>> \o age \o <<c>>
  BY DEF Samples
<1>2. d \in Devices /\ v \in Versions /\ Bit(node.Connected) \in Nat
  BY DEF Node, Bit
<1>3. k1 \in SeriesOf(d) /\ k3 \in SeriesOf(d)
  BY <1>2 DEF DeviceSeries, SeriesOf, Series
<1>4. k1 # k2 /\ k1 # k3 /\ k2 # k3
  BY DEF DeviceSeries
<1>5. /\ age \in Seq(SampleOf(d)) /\ Len(age) \in {0, 1}
      /\ Len(age) = 1 => age[1][1] = k2
  BY <1>2, AgeFacts
<1> HIDE DEF d, v, k1, k2, k3, age
<1>6. a \in SampleOf(d) /\ c \in SampleOf(d)
      /\ a[1] = k1 /\ a[2] = Bit(node.Connected) /\ c[1] = k3 /\ c[2] = 1
  BY <1>2, <1>3 DEF SampleOf
<1> HIDE DEF a, c
<1>7. <<a>> \in Seq(SampleOf(d)) /\ <<c>> \in Seq(SampleOf(d))
      /\ Len(<<a>>) = 1 /\ Len(<<c>>) = 1 /\ <<a>>[1] = a /\ <<c>>[1] = c
  BY <1>6
<1> DEFINE b == <<a>> \o age
<1>8. /\ b \in Seq(SampleOf(d)) /\ Len(b) = 1 + Len(age)
      /\ b[1] = a
      /\ Len(age) = 1 => b[2] = age[1]
  BY <1>5, <1>7, ConcatProperties
<1>9. samples = b \o <<c>>
  BY <1>1
<1> HIDE DEF b
<1>10. /\ samples \in Seq(SampleOf(d)) /\ Len(samples) = Len(b) + 1
       /\ \A i \in 1 .. Len(b) : samples[i] = b[i]
       /\ samples[Len(b) + 1] = c
  BY <1>5, <1>7, <1>8, <1>9, ConcatProperties
<1>11. CASE Len(age) = 0
  <2>1. Len(samples) = 2 /\ samples[1] = a /\ samples[2] = c
    BY <1>8, <1>10, <1>11
  <2>2. \A i \in 1 .. Len(samples) : i = 1 \/ i = 2
    BY <2>1
  <2>3. 1 \in 1 .. Len(samples) /\ 2 \in 1 .. Len(samples)
    BY <2>1
  <2> QED BY <1>4, <1>6, <1>10, <2>1, <2>2, <2>3 DEF Records, k1, k3, d, v
<1>12. CASE Len(age) = 1
  <2>1. Len(samples) = 3 /\ samples[1] = a /\ samples[2] = age[1] /\ samples[3] = c
    BY <1>8, <1>10, <1>12
  <2>2. \A i \in 1 .. Len(samples) : i = 1 \/ i = 2 \/ i = 3
    BY <2>1
  <2>3. 1 \in 1 .. Len(samples) /\ 3 \in 1 .. Len(samples)
    BY <2>1
  <2>4. samples[2][1] = k2
    BY <1>5, <1>12, <2>1
  <2> QED BY <1>4, <1>6, <1>10, <2>1, <2>2, <2>3, <2>4 DEF Records, k1, k3, d, v
<1> QED
  BY <1>5, <1>11, <1>12

LEMMA FirmwareSamples ==
    ASSUME TypeOK, NEW node \in Node, NEW samples \in Samples(node), id = "lens.firmware"
    PROVE  /\ samples \in Seq(SampleOf(node.ID))
           /\ Records(samples, DeviceSeries("device.firmware_current", node.ID),
                      Bit(node.SoftwareVersion = latest))
<1> DEFINE d == node.ID
           k == DeviceSeries("device.firmware_current", d)
           n == Bit(node.SoftwareVersion = latest)
           a == <<k, n>>
<1>1. samples = <<a>>
  BY DEF Samples
<1>2. d \in Devices /\ n \in Nat
  BY DEF Node, Bit
<1>3. k \in SeriesOf(d)
  BY <1>2 DEF DeviceSeries, SeriesOf, Series
<1> HIDE DEF d, k, n
<1>4. a \in SampleOf(d) /\ a[1] = k /\ a[2] = n
  BY <1>2, <1>3 DEF SampleOf
<1> HIDE DEF a
<1>5. samples \in Seq(SampleOf(d)) /\ Len(samples) = 1 /\ samples[1] = a
  BY <1>1, <1>4
<1>6. \A i \in 1 .. Len(samples) : i = 1
  BY <1>5
<1>7. 1 \in 1 .. Len(samples)
  BY <1>5
<1> QED
  BY <1>4, <1>5, <1>6, <1>7 DEF Records, k, d, n

LEMMA CallSamples ==
    ASSUME TypeOK, NEW node \in Node, NEW samples \in Samples(node), id = "lens.active_calls"
    PROVE  /\ samples \in Seq(SampleOf(node.ID))
           /\ \A s \in CallStates :
                 calls[node.ID][s] > 0 =>
                    Records(samples, <<"device.active_calls", node.ID, s>>, calls[node.ID][s])
<1> DEFINE d == node.ID
           k(s) == <<"device.active_calls", d, s>>
           Live == {t \in CallStates : calls[d][t] > 0}
           S == {<<k(s), calls[d][s]>> : s \in Live}
<1>1. samples \in SetToSeqs(S)
  BY DEF Samples
<1>2. d \in Devices
  BY DEF Node
<1>3. \A s \in CallStates : calls[d][s] \in Nat /\ k(s) \in SeriesOf(d)
  <2>1. \A s \in CallStates : calls[d][s] \in Nat
    BY <1>2 DEF TypeOK
  <2> QED BY <1>2, <2>1 DEF SeriesOf, Series
<1>4. \A s, t \in CallStates : k(s) = k(t) => s = t
  OBVIOUS
<1> HIDE DEF k
<1>5. S \subseteq SampleOf(d)
  BY <1>3 DEF SampleOf
<1>6. IsFiniteSet(S)
  <2>1. S \subseteq {<<k("ringing"), calls[d]["ringing"]>>} \cup {<<k("connected"), calls[d]["connected"]>>}
    BY DEF CallStates
  <2> DEFINE U == {<<k("ringing"), calls[d]["ringing"]>>} \cup {<<k("connected"), calls[d]["connected"]>>}
  <2>2. IsFiniteSet(U)
    BY FS_Singleton, FS_Union
  <2> HIDE DEF U, S
  <2>3. S \in SUBSET U
    BY <2>1 DEF U
  <2> QED BY <2>2, <2>3, FS_Subset
<1>7. /\ samples \in Seq(S) /\ \A x \in S : \E i \in 1 .. Len(samples) : samples[i] = x
  BY <1>1, <1>6, SetToSeqsFacts
<1>8. samples \in Seq(SampleOf(d)) /\ \A i \in 1 .. Len(samples) : samples[i] \in S
  BY <1>5, <1>7, SeqMonotonic, ElementOfSeq
<1>9. ASSUME NEW s \in CallStates, calls[d][s] > 0
      PROVE  Records(samples, k(s), calls[d][s])
  <2>1. <<k(s), calls[d][s]>> \in S
    BY <1>9
  <2>2. PICK i \in 1 .. Len(samples) : samples[i] = <<k(s), calls[d][s]>>
    BY <1>7, <2>1
  <2>3. samples[i][1] = k(s)
    BY <2>2
  <2>4. ASSUME NEW j \in 1 .. Len(samples), samples[j][1] = k(s)
        PROVE  samples[j][2] = calls[d][s]
    <3>1. PICK t \in Live : samples[j] = <<k(t), calls[d][t]>>
      BY <1>8
    <3>2. k(t) = k(s) /\ t \in CallStates
      BY <2>4, <3>1
    <3>3. t = s
      BY <1>4, <3>2
    <3> QED BY <3>1, <3>3
  <2> QED BY <2>3, <2>4 DEF Records
<1> QED
  BY <1>8, <1>9 DEF k

LEMMA SamplesTyped ==
    ASSUME TypeOK, NEW node \in Node, NEW samples \in Samples(node)
    PROVE  samples \in Seq(SampleOf(node.ID)) /\ node.ID \in Devices
<1>1. id \in CollectorIDs
  BY CollectorsAssumption DEF TypeOK
<1>2. node.ID \in Devices
  BY DEF Node
<1> QED
  BY <1>1, <1>2, DevicesSamples, FirmwareSamples, CallSamples DEF CollectorIDs

\* Of what is shown, Gauge changes and adds the series of its samples.
GaugeEffect(T, samples) ==
    /\ DOMAIN shown' = DOMAIN shown \cup {samples[i][1] : i \in 1 .. Len(samples)}
    /\ \A k \in DOMAIN shown :
          (\A i \in 1 .. Len(samples) : samples[i][1] # k) => shown'[k] = shown[k]
    /\ \A i \in 1 .. Len(samples) :
          /\ samples[i][1] \in T
          /\ \E j \in 1 .. Len(samples) :
                /\ samples[j][1] = samples[i][1]
                /\ shown'[samples[i][1]] = samples[j][2] /\ samples[j][2] \in Nat
    /\ \A k, v : Records(samples, k, v) => k \in DOMAIN shown' /\ shown'[k] = v

LEMMA GaugeFacts ==
    ASSUME NEW T, NEW samples \in Seq(T \X Nat), Gauge(samples)
    PROVE  GaugeEffect(T, samples)
<1> DEFINE n == Len(samples)
           At(k) == {i \in 1 .. n : samples[i][1] = k}
           Keys == {samples[i][1] : i \in 1 .. n}
<1>1. n \in Nat /\ DOMAIN samples = 1 .. n /\ \A i \in 1 .. n : samples[i] \in T \X Nat
  BY LenProperties, ElementOfSeq
<1>2. shown' = [k \in DOMAIN shown \cup Keys |->
                  IF \E i \in 1 .. n : samples[i][1] = k
                  THEN samples[Max(At(k))][2] ELSE shown[k]]
  BY <1>1 DEF Gauge
<1>3. \A i \in 1 .. n : samples[i][1] \in T /\ samples[i][2] \in Nat
  BY <1>1
<1> HIDE DEF n
<1>4. ASSUME NEW k, At(k) # {} PROVE Max(At(k)) \in At(k)
  <2>1. At(k) \in SUBSET (1 .. n) /\ At(k) \subseteq Nat
    BY <1>1
  <2>2. IsFiniteSet(1 .. n)
    BY <1>1, FS_Interval
  <2> HIDE DEF At
  <2>3. IsFiniteSet(At(k))
    BY <2>1, <2>2, FS_Subset
  <2> QED BY <1>4, <2>1, <2>3, MaxFacts
<1>5. DOMAIN shown' = DOMAIN shown \cup Keys
  BY <1>2
<1>6. ASSUME NEW k \in DOMAIN shown, \A i \in 1 .. n : samples[i][1] # k
      PROVE  shown'[k] = shown[k]
  BY <1>2, <1>6
<1>7. ASSUME NEW i \in 1 .. n
      PROVE  \E j \in 1 .. n : /\ samples[j][1] = samples[i][1]
                               /\ shown'[samples[i][1]] = samples[j][2]
  <2> DEFINE k == samples[i][1]
             m == Max(At(k))
  <2>1. k \in Keys /\ At(k) # {}
    OBVIOUS
  <2>2. m \in At(k)
    BY <1>4, <2>1
  <2>3. shown'[k] = samples[m][2]
    BY <1>2, <2>1
  <2>4. m \in 1 .. n /\ samples[m][1] = k
    BY <2>2
  <2> HIDE DEF m
  <2> QED BY <2>3, <2>4
<1>8. ASSUME NEW k, NEW v, Records(samples, k, v) PROVE k \in DOMAIN shown' /\ shown'[k] = v
  <2>1. PICK i \in 1 .. n : samples[i][1] = k
    BY <1>8 DEF Records, n
  <2>2. PICK j \in 1 .. n : samples[j][1] = k /\ shown'[k] = samples[j][2]
    BY <1>7, <2>1
  <2>3. samples[j][2] = v
    BY <1>8, <2>2 DEF Records, n
  <2> QED BY <1>5, <2>1, <2>2, <2>3
<1> HIDE DEF At, Keys
<1>9. \A i \in 1 .. n :
         /\ samples[i][1] \in T
         /\ \E j \in 1 .. n :
               /\ samples[j][1] = samples[i][1]
               /\ shown'[samples[i][1]] = samples[j][2] /\ samples[j][2] \in Nat
  BY <1>3, <1>7
<1> QED
  BY <1>5, <1>6, <1>8, <1>9 DEF n, Keys, GaugeEffect

----------------------------------------------------------------------------
(* Types and the cap. *)

LEMMA GaugeTyped ==
    ASSUME TypeOK, NEW T, T \subseteq Series, NEW samples \in Seq(T \X Nat), Gauge(samples)
    PROVE  DOMAIN shown' \subseteq Series /\ \A k \in DOMAIN shown' : shown'[k] \in Nat
<1>1. GaugeEffect(T, samples)
  BY GaugeFacts
<1>2. DOMAIN shown \subseteq Series /\ \A k \in DOMAIN shown : shown[k] \in Nat
  BY DEF TypeOK
<1>3. DOMAIN shown' \subseteq Series
  BY <1>1, <1>2 DEF GaugeEffect
<1>4. ASSUME NEW k \in DOMAIN shown' PROVE shown'[k] \in Nat
  <2>1. CASE \A i \in 1 .. Len(samples) : samples[i][1] # k
    BY <1>1, <1>2, <2>1 DEF GaugeEffect
  <2>2. CASE \E i \in 1 .. Len(samples) : samples[i][1] = k
    BY <1>1, <2>2 DEF GaugeEffect
  <2> QED BY <2>1, <2>2
<1> QED
  BY <1>3, <1>4

\* The first samples of those for a device.
LEMMA FirstSamples ==
    ASSUME NEW T, NEW samples \in Seq(T \X Nat), NEW n \in 0 .. Len(samples) - 1
    PROVE  SubSeq(samples, 1, n) \in Seq(T \X Nat)
<1>1. Len(samples) \in Nat /\ \A i \in 1 .. Len(samples) : samples[i] \in T \X Nat
  BY LenProperties, ElementOfSeq
<1>2. n \in Nat /\ \A i \in 1 .. n : samples[i] \in T \X Nat
  BY <1>1
<1> DEFINE U == T \X Nat
<1> HIDE DEF U
<1>3. \A i \in 1 .. n : samples[i] \in U
  BY <1>2 DEF U
<1>4. SubSeq(samples, 1, n) \in Seq(U)
  BY <1>2, <1>3, SubSeqProperties
<1> QED
  BY <1>4 DEF U

LEMMA InitTyped == Init => TypeOK
<1> SUFFICES ASSUME Init PROVE TypeOK
  OBVIOUS
<1>1. installed \in [Devices -> Versions] /\ calls \in [Devices -> [CallStates -> Nat]]
  BY DEF Init, NoCalls, Versions
<1>2. DOMAIN shown = {}
  BY DEF Init
<1> QED
  BY <1>1, <1>2, LimitsAssumption DEF Init, TypeOK, Versions

LEMMA ReturnTyped ==
    ASSUME Return
    PROVE  /\ pc' \in {"idle", "tenants", "list", "report"}
           /\ tenants' \in Seq(Range(AllTenants)) /\ nextToken' \in Devices \cup {0}
           /\ devices' \in Seq(Node) /\ reported' \subseteq Devices /\ steady' \subseteq Devices
  BY DEF Return

\* The device being reported.
LEMMA HeadNode ==
    ASSUME TypeOK, devices # <<>>
    PROVE  /\ Head(devices) \in Node /\ Head(devices).ID \in Devices
           /\ Head(devices) = devices[1]
           /\ Tail(devices) \in Seq(Node) /\ Len(devices) \in Nat \ {0}
           /\ Len(Tail(devices)) = Len(devices) - 1
           /\ \A i \in 1 .. Len(Tail(devices)) : Tail(devices)[i] = devices[i + 1]
<1> DEFINE N == Node
<1> HIDE DEF N
<1>1. devices \in Seq(N)
  BY DEF TypeOK, N
<1>2. /\ Head(devices) \in N /\ Tail(devices) \in Seq(N)
      /\ Head(devices) = devices[1] /\ Len(devices) \in Nat \ {0}
      /\ Len(Tail(devices)) = Len(devices) - 1
      /\ \A i \in 1 .. Len(Tail(devices)) : Tail(devices)[i] = devices[i + 1]
  BY <1>1
<1>3. Head(devices).ID \in Devices
  BY <1>2 DEF N, Node
<1> QED
  BY <1>2, <1>3 DEF N

LEMMA SeriesOfSeries == \A d : SeriesOf(d) \subseteq Series
  BY DEF SeriesOf

LEMMA ChangeTyped ==
    ASSUME TypeOK, NEW d \in Devices, Change(d)
    PROVE  /\ changes' \in 0 .. MaxChanges /\ steady' \subseteq Devices
           /\ UNCHANGED <<id, pc, tenants, nextToken, devices, reported, shown, failures>>
  BY LimitsAssumption DEF TypeOK, Change, pass

\* The next page, and where the listing stands after it.
LEMMA PageStep ==
    ASSUME TypeOK, DevicesPage
    PROVE  \E page \in SUBSET Devices, order \in Seq(Devices) :
              /\ ServePage(page) /\ DOMAIN order = 1 .. Len(order)
              /\ \A i \in 1 .. Len(order) : order[i] \in page
              /\ \A d \in page : \E i \in 1 .. Len(order) : order[i] = d
              /\ devices' = devices \o Nodes(order)
              /\ \/ /\ page # Remaining /\ tenants' = tenants
                    /\ nextToken' \in page /\ \A d \in page : d <= nextToken'
                 \/ page = Remaining /\ tenants' = Tail(tenants) /\ nextToken' = 0
<1>0. PICK page \in SUBSET Devices :
         /\ ServePage(page)
         /\ \E order \in InOrder(page) : devices' = devices \o Nodes(order)
         /\ IF page # Remaining
            THEN nextToken' = Max(page) /\ UNCHANGED tenants
            ELSE nextToken' = 0 /\ tenants' = Tail(tenants)
  BY DEF DevicesPage
<1>1. PICK order \in InOrder(page) : devices' = devices \o Nodes(order)
  BY <1>0
<1>2. page # Remaining => page # {}
  BY <1>0 DEF ServePage
<1>3. page \subseteq Nat /\ IsFiniteSet(page)
  BY DevicesAssumption, PageFacts
<1>4. page # Remaining => nextToken' \in page /\ \A d \in page : d <= nextToken'
  BY <1>0, <1>2, <1>3, MaxFacts
<1> QED
  BY <1>0, <1>1, <1>4, PageFacts

\* What the stream records for an event.
LEMMA StreamSamples ==
    ASSUME NEW d \in Devices, StreamEvent(d)
    PROVE  \E samples \in Seq({StreamSeries(d)} \X Nat) : Gauge(samples)
<1> DEFINE x == <<StreamSeries(d), Bit(d \in connected)>>
<1>1. Gauge(<<x>>)
  BY DEF StreamEvent
<1>2. x \in {StreamSeries(d)} \X Nat
  BY DEF Bit
<1> HIDE DEF x
<1>3. <<x>> \in Seq({StreamSeries(d)} \X Nat)
  BY <1>2
<1> QED
  BY <1>1, <1>3

LEMMA NextTyped == TypeOK /\ [Next]_vars => TypeOK'
<1> SUFFICES ASSUME TypeOK, [Next]_vars PROVE TypeOK'
  OBVIOUS
<1> USE DEF inventory
<1>1. ASSUME NEW d \in Devices, Enrol(d) PROVE TypeOK'
  <2>1. Change(d)
    BY <1>1 DEF Enrol
  <2> QED BY <1>1, <2>1, ChangeTyped DEF Enrol, TypeOK
<1>2. ASSUME NEW d \in Devices, Unenrol(d) PROVE TypeOK'
  <2>1. Change(d)
    BY <1>2 DEF Unenrol
  <2> QED BY <1>2, <2>1, ChangeTyped DEF Unenrol, TypeOK
<1>3. ASSUME NEW d \in Devices, Toggle(d) PROVE TypeOK'
  <2>1. Change(d)
    BY <1>3 DEF Toggle
  <2>2. connected' \subseteq Devices /\ events' \subseteq Devices
    BY <1>3 DEF Toggle, TypeOK
  <2> QED BY <1>3, <2>1, <2>2, ChangeTyped DEF Toggle, TypeOK
<1>4. ASSUME NEW d \in Devices, Install(d) PROVE TypeOK'
  <2>1. Change(d)
    BY <1>4 DEF Install
  <2>2. installed' \in [Devices -> Versions]
    BY <1>4 DEF Install, TypeOK
  <2> QED BY <1>4, <2>1, <2>2, ChangeTyped DEF Install, TypeOK
<1>5. ASSUME NEW d \in Devices, CallChanges(d) PROVE TypeOK'
  <2>1. Change(d)
    BY <1>5 DEF CallChanges
  <2>2. calls' \in [Devices -> [CallStates -> Nat]]
    <3>0. calls \in [Devices -> [CallStates -> Nat]] /\ calls[d] \in [CallStates -> Nat]
      BY DEF TypeOK
    <3>1. CASE \E s \in CallStates : calls' = [calls EXCEPT ![d][s] = @ + 1]
      BY <3>0, <3>1
    <3>2. ASSUME NEW s \in CallStates, calls[d][s] > 0,
                 calls' = [calls EXCEPT ![d][s] = @ - 1]
          PROVE  calls' \in [Devices -> [CallStates -> Nat]]
      <4>1. calls[d][s] - 1 \in Nat
        BY <3>0, <3>2
      <4> QED BY <3>0, <3>2, <4>1
    <3>3. ASSUME NEW s \in CallStates, NEW t \in CallStates \ {s}, calls[d][s] > 0,
                 calls' = [calls EXCEPT ![d][s] = @ - 1, ![d][t] = @ + 1]
          PROVE  calls' \in [Devices -> [CallStates -> Nat]]
      <4>1. calls[d][s] - 1 \in Nat
        BY <3>0, <3>3
      <4> DEFINE c == [calls EXCEPT ![d][s] = @ - 1]
      <4>2. c \in [Devices -> [CallStates -> Nat]]
        BY <3>0, <4>1
      <4>3. calls' = [c EXCEPT ![d][t] = @ + 1]
        BY <3>3
      <4> HIDE DEF c
      <4> QED BY <4>2, <4>3
    <3> QED BY <1>5, <3>1, <3>2, <3>3 DEF CallChanges
  <2> QED BY <1>5, <2>1, <2>2, ChangeTyped DEF CallChanges, TypeOK
<1>6. CASE Publish
  BY <1>6, LimitsAssumption DEF Publish, TypeOK, pass
<1>7. CASE StartPass
  BY <1>7 DEF StartPass, TypeOK
<1>8. CASE resolveTenants
  BY <1>8, TenantsAssumption DEF resolveTenants, TypeOK
<1>9. CASE DevicesPage
  <2>1. PICK page \in SUBSET Devices, order \in Seq(Devices) :
           /\ DOMAIN order = 1 .. Len(order)
           /\ devices' = devices \o Nodes(order)
           /\ \/ tenants' = tenants /\ nextToken' \in page
              \/ tenants' = Tail(tenants) /\ nextToken' = 0
    BY <1>9, PageStep
  <2>2. Nodes(order) \in Seq(Node)
    BY <2>1, NodesFacts
  <2>3. devices' \in Seq(Node)
    <3> DEFINE N == Node
    <3> HIDE DEF N
    <3>1. devices \in Seq(N) /\ Nodes(order) \in Seq(N)
      BY <2>2 DEF TypeOK, N
    <3>2. devices' \in Seq(N)
      BY <2>1, <3>1
    <3> QED BY <3>2 DEF N
  <2>4. tenants' \in Seq(Range(AllTenants)) /\ nextToken' \in Devices \cup {0}
    <3>1. tenants # <<>>
      BY <1>9 DEF DevicesPage
    <3> DEFINE A == Range(AllTenants)
    <3> HIDE DEF A
    <3>2. tenants \in Seq(A)
      BY DEF TypeOK, A
    <3>a. Tail(tenants) \in Seq(A)
      BY <3>1, <3>2
    <3>3. tenants' \in Seq(A)
      BY <2>1, <3>2, <3>a
    <3> QED BY <2>1, <3>3 DEF A
  <2> QED BY <1>9, <2>3, <2>4 DEF DevicesPage, TypeOK
<1>10. CASE WithinCap
  BY <1>10 DEF WithinCap, TypeOK
<1>11. CASE OverCap
  <2> DEFINE samples == <<<<Unexpected, 1>>>>
  <2>1. Gauge(samples)
    BY <1>11 DEF OverCap
  <2>2. samples \in Seq({Unexpected} \X Nat)
    OBVIOUS
  <2>3. {Unexpected} \subseteq Series
    BY DEF Series
  <2> HIDE DEF samples
  <2>4. DOMAIN shown' \subseteq Series /\ \A k \in DOMAIN shown' : shown'[k] \in Nat
    BY <2>1, <2>2, <2>3, GaugeTyped
  <2>5. Return
    BY <1>11 DEF OverCap
  <2> QED BY <1>11, <2>4, <2>5, ReturnTyped DEF OverCap, TypeOK
<1>12. CASE Report
  <2> DEFINE node == Head(devices)
  <2>1. /\ devices # <<>> /\ devices' = Tail(devices)
        /\ reported' = reported \cup {node.ID}
    BY <1>12 DEF Report
  <2>2. PICK samples \in Samples(node) : Gauge(samples)
    BY <1>12 DEF Report
  <2>3. node \in Node /\ node.ID \in Devices /\ devices' \in Seq(Node)
    BY <2>1, HeadNode
  <2>4. samples \in Seq(SeriesOf(node.ID) \X Nat)
    BY <2>3, SamplesTyped DEF SampleOf
  <2>5. DOMAIN shown' \subseteq Series /\ \A k \in DOMAIN shown' : shown'[k] \in Nat
    BY <2>2, <2>4, GaugeTyped, SeriesOfSeries
  <2> QED BY <1>12, <2>1, <2>3, <2>5 DEF Report, TypeOK
<1>13. CASE EndPass
  <2>1. Return
    BY <1>13 DEF EndPass
  <2> QED BY <1>13, <2>1, ReturnTyped DEF EndPass, TypeOK
<1>14. CASE QueryFails
  <2>1. Return
    BY <1>14 DEF QueryFails
  <2>2. failures' \in 0 .. MaxFailures
    BY <1>14, LimitsAssumption DEF QueryFails, TypeOK
  <2> QED BY <1>14, <2>1, <2>2, ReturnTyped DEF QueryFails, TypeOK
<1>15. CASE GaugeFails
  <2> DEFINE node == Head(devices)
  <2>1. Return /\ devices # <<>>
    BY <1>15 DEF GaugeFails
  <2>2. failures' \in 0 .. MaxFailures
    BY <1>15, LimitsAssumption DEF GaugeFails, TypeOK
  <2>3. PICK samples \in Samples(node) :
           \E n \in 0 .. Len(samples) - 1 : Gauge(SubSeq(samples, 1, n))
    BY <1>15 DEF GaugeFails
  <2>4. PICK n \in 0 .. Len(samples) - 1 : Gauge(SubSeq(samples, 1, n))
    BY <2>3
  <2>5. node \in Node
    BY <2>1, HeadNode
  <2>6. samples \in Seq(SeriesOf(node.ID) \X Nat)
    BY <2>5, SamplesTyped DEF SampleOf
  <2>7. SubSeq(samples, 1, n) \in Seq(SeriesOf(node.ID) \X Nat)
    BY <2>6, FirstSamples
  <2>8. DOMAIN shown' \subseteq Series /\ \A k \in DOMAIN shown' : shown'[k] \in Nat
    BY <2>4, <2>7, GaugeTyped, SeriesOfSeries
  <2> QED BY <1>15, <2>1, <2>2, <2>8, ReturnTyped DEF GaugeFails, TypeOK
<1>16. ASSUME NEW d \in Devices, StreamEvent(d) PROVE TypeOK'
  <2>1. PICK samples \in Seq({StreamSeries(d)} \X Nat) : Gauge(samples)
    BY <1>16, StreamSamples
  <2>2. {StreamSeries(d)} \subseteq Series
    <3>1. StreamSeries(d) \in {"device.connected"} \X Devices \X {"productId"}
      BY DEF StreamSeries
    <3> QED BY <3>1 DEF Series
  <2>3. DOMAIN shown' \subseteq Series /\ \A k \in DOMAIN shown' : shown'[k] \in Nat
    BY <2>1, <2>2, GaugeTyped
  <2> QED BY <1>16, <2>3 DEF StreamEvent, TypeOK, pass
<1>17. ASSUME NEW d \in Devices, StreamMisses(d) PROVE TypeOK'
  BY <1>17 DEF StreamMisses, TypeOK, pass
<1>18. CASE UNCHANGED vars
  BY <1>18 DEF vars, pass, TypeOK
<1> QED
  BY <1>1, <1>2, <1>3, <1>4, <1>5, <1>6, <1>7, <1>8, <1>9, <1>10, <1>11, <1>12, <1>13,
     <1>14, <1>15, <1>16, <1>17, <1>18 DEF Next, PassStep

\* Every variable keeps its type and no series is ever negative, whatever ages, calls and
\* firmware the inventory has while it is listed.
THEOREM PollingTyped == Spec => []TypeOK
  BY InitTyped, NextTyped, PTL DEF Spec

LEMMA LocalsInvariant ==
    /\ Init => LocalsInv
    /\ TypeOK /\ LocalsInv /\ [Next]_vars => LocalsInv'
<1>1. Init => LocalsInv
  BY DEF Init, LocalsInv
<1>2. ASSUME TypeOK, LocalsInv, [Next]_vars PROVE LocalsInv'
  <2> USE DEF LocalsInv
  <2>1. CASE \/ \E d \in Devices :
                  Enrol(d) \/ Unenrol(d) \/ Toggle(d) \/ Install(d) \/ CallChanges(d)
             \/ Publish \/ UNCHANGED vars
             \/ \E d \in Devices : StreamEvent(d) \/ StreamMisses(d)
    <3>1. UNCHANGED pass
      BY <2>1 DEF Enrol, Unenrol, Toggle, Install, CallChanges, Change, Publish,
                  StreamEvent, StreamMisses, vars
    <3> QED BY <1>2, <3>1 DEF pass
  <2>2. CASE OverCap \/ EndPass \/ QueryFails \/ GaugeFails
    BY <2>2 DEF OverCap, EndPass, QueryFails, GaugeFails, Return
  <2>3. CASE StartPass
    BY <1>2, <2>3 DEF StartPass
  <2>4. CASE resolveTenants
    BY <1>2, <2>4 DEF resolveTenants
  <2>5. CASE DevicesPage
    <3>1. /\ pc = "list" /\ pc' = pc /\ reported' = reported
          /\ tenants # <<>> /\ (tenants' = tenants \/ nextToken' = 0)
      BY <2>5 DEF DevicesPage
    <3> QED BY <1>2, <3>1
  <2>6. CASE WithinCap
    BY <1>2, <2>6 DEF WithinCap
  <2>7. CASE Report
    <3>1. pc = "report" /\ pc' = pc /\ UNCHANGED <<tenants, nextToken>>
      BY <2>7 DEF Report
    <3> QED BY <1>2, <3>1
  <2> QED BY <1>2, <2>1, <2>2, <2>3, <2>4, <2>5, <2>6, <2>7 DEF Next, PassStep
<1> QED
  BY <1>1, <1>2

LEMMA CapInvariant ==
    /\ Init => CapInv
    /\ TypeOK /\ LocalsInv /\ CapInv /\ [Next]_vars => CapInv'
    /\ TypeOK /\ LocalsInv /\ CapInv => CapHolds
<1>1. Init => CapInv
  BY FS_EmptySet DEF Init, CapInv
<1>2. ASSUME TypeOK, LocalsInv, CapInv, [Next]_vars PROVE CapInv'
  <2>1. CASE \/ \E d \in Devices :
                  Enrol(d) \/ Unenrol(d) \/ Toggle(d) \/ Install(d) \/ CallChanges(d)
             \/ Publish \/ UNCHANGED vars
             \/ \E d \in Devices : StreamEvent(d) \/ StreamMisses(d)
    <3>1. UNCHANGED pass
      BY <2>1 DEF Enrol, Unenrol, Toggle, Install, CallChanges, Change, Publish,
                  StreamEvent, StreamMisses, vars
    <3> QED BY <1>2, <3>1 DEF CapInv, pass
  <2>2. CASE OverCap \/ EndPass \/ QueryFails \/ GaugeFails
    <3>1. pc' = "idle" /\ reported' = {}
      BY <2>2 DEF OverCap, EndPass, QueryFails, GaugeFails, Return
    <3> QED BY <3>1, FS_EmptySet DEF CapInv
  <2>3. CASE StartPass \/ resolveTenants \/ DevicesPage
    <3>1. pc' # "report" /\ reported' = reported
      BY <2>3 DEF StartPass, resolveTenants, DevicesPage
    <3> QED BY <1>2, <3>1 DEF CapInv
  <2>4. CASE WithinCap
    <3>1. /\ reported' = {} /\ devices' = devices /\ Len(devices) <= MaxDevices
      BY <1>2, <2>4 DEF WithinCap, LocalsInv
    <3>2. Len(devices) \in Nat
      BY <1>2, LenProperties DEF TypeOK
    <3> QED BY <3>1, <3>2, FS_EmptySet DEF CapInv
  <2>5. CASE Report
    <3> DEFINE x == Head(devices).ID
    <3>1. /\ pc = "report" /\ devices # <<>> /\ devices' = Tail(devices)
          /\ reported' = reported \cup {x}
      BY <2>5 DEF Report
    <3> HIDE DEF x
    <3>2. Len(devices) \in Nat /\ Len(devices') = Len(devices) - 1
      BY <1>2, <3>1, HeadNode
    <3>3. IsFiniteSet(reported) /\ Cardinality(reported) + Len(devices) <= MaxDevices
      BY <1>2, <3>1 DEF CapInv
    <3>4. /\ IsFiniteSet(reported')
          /\ Cardinality(reported')
             = IF x \in reported THEN Cardinality(reported) ELSE Cardinality(reported) + 1
          /\ Cardinality(reported) \in Nat
      BY <3>1, <3>3, FS_AddElement, FS_CardinalityType
    <3>5. Cardinality(reported') + Len(devices') <= MaxDevices
      BY <3>2, <3>3, <3>4, LimitsAssumption
    <3> QED BY <3>4, <3>5 DEF CapInv
  <2> QED BY <1>2, <2>1, <2>2, <2>3, <2>4, <2>5 DEF Next, PassStep
<1>3. ASSUME TypeOK, LocalsInv, CapInv PROVE CapHolds
  <2>1. CASE pc = "report"
    <3>1. Len(devices) \in Nat /\ Cardinality(reported) \in Nat
      BY <1>3, LenProperties, FS_CardinalityType DEF TypeOK, CapInv
    <3>2. Cardinality(reported) + Len(devices) <= MaxDevices
      BY <1>3, <2>1 DEF CapInv
    <3> QED BY <3>1, <3>2, LimitsAssumption DEF CapHolds
  <2>2. CASE pc # "report"
    <3>1. Cardinality(reported) = 0
      BY <1>3, <2>2, FS_EmptySet DEF LocalsInv
    <3> QED BY <3>1, LimitsAssumption DEF CapHolds
  <2> QED BY <2>1, <2>2
<1> QED
  BY <1>1, <1>2, <1>3

\* Over all pages and tenants of a listing that changes under the pass, and however often a
\* device is listed, no pass reports more devices than cardinality.max_devices.
THEOREM CapAlwaysHolds == Spec => []CapHolds
<1>1. Init => TypeOK /\ LocalsInv /\ CapInv
  BY InitTyped, LocalsInvariant, CapInvariant
<1>2. TypeOK /\ LocalsInv /\ CapInv /\ [Next]_vars => (TypeOK /\ LocalsInv /\ CapInv)'
  BY NextTyped, LocalsInvariant, CapInvariant
<1>3. TypeOK /\ LocalsInv /\ CapInv => CapHolds
  BY CapInvariant
<1> QED
  BY <1>1, <1>2, <1>3, PTL DEF Spec

----------------------------------------------------------------------------
(* Complete passes. *)

\* A device changes and is steady no more; the others stay as they are.
LEMMA SteadyWhenChanged ==
    ASSUME TypeOK, SteadyInv, NEW d \in Devices,
           steady' = steady \ {d}, UNCHANGED <<latest, id, pass, shown>>,
           \A e \in Devices \ {d} :
              /\ (e \in enrolled' <=> e \in enrolled) /\ (e \in connected' <=> e \in connected)
              /\ installed'[e] = installed[e] /\ calls'[e] = calls[e]
    PROVE  SteadyInv'
<1>1. steady \subseteq Devices /\ devices \in Seq(Node)
  BY DEF TypeOK
<1>2. LocalsInv' /\ SteadyEnrolled'
  BY <1>1 DEF SteadyInv, LocalsInv, SteadyEnrolled, pass
<1>3. ListedTrue'
  <2> SUFFICES ASSUME NEW i \in 1 .. Len(devices), devices[i].ID \in steady \ {d}
               PROVE  /\ devices[i].Connected = (devices[i].ID \in connected')
                      /\ devices[i].SoftwareVersion = installed'[devices[i].ID]
    BY DEF ListedTrue, pass
  <2>1. /\ devices[i].Connected = (devices[i].ID \in connected)
        /\ devices[i].SoftwareVersion = installed[devices[i].ID]
    BY DEF SteadyInv, ListedTrue
  <2>2. devices[i].ID \in Devices \ {d}
    BY <1>1
  <2>3. (devices[i].ID \in connected') = (devices[i].ID \in connected)
    BY <2>2
  <2> QED BY <2>1, <2>2, <2>3
<1>4. NoneLeftOut'
  BY DEF SteadyInv, NoneLeftOut, Listed, ToCome, pass, Tracked
<1>5. ReportedTrue'
  <2> SUFFICES ASSUME NEW e \in (steady \ {d}) \cap reported PROVE TruthShown(e, shown)'
    BY DEF ReportedTrue, pass
  <2>1. e \in Devices \ {d} /\ TruthShown(e, shown)
    BY <1>1 DEF SteadyInv, ReportedTrue
  <2>2. /\ (e \in connected') = (e \in connected)
        /\ installed'[e] = installed[e] /\ calls'[e] = calls[e]
    BY <2>1
  <2> QED BY <2>1, <2>2 DEF TruthShown
<1> QED
  BY <1>2, <1>3, <1>4, <1>5 DEF SteadyInv

\* Without steady devices there is nothing to show.
LEMMA SteadyWhenNone ==
    ASSUME LocalsInv', steady' = {} PROVE SteadyInv'
  BY DEF SteadyInv, SteadyEnrolled, ListedTrue, NoneLeftOut, ReportedTrue

\* Recording the samples of a listed device that is steady shows the truth about it.
LEMMA ReportTells ==
    ASSUME TypeOK, NEW node \in Node, NEW samples \in Samples(node), Gauge(samples),
           UNCHANGED <<inventory, id>>,
           node.Connected = (node.ID \in connected),
           node.SoftwareVersion = installed[node.ID]
    PROVE  TruthShown(node.ID, shown)'
<1> DEFINE d == node.ID
<1>1. samples \in Seq(SeriesOf(d) \X Nat)
  BY SamplesTyped DEF SampleOf
<1>a. GaugeEffect(SeriesOf(d), samples)
  BY <1>1, GaugeFacts
<1>2. \A k, v : Records(samples, k, v) => k \in DOMAIN shown' /\ shown'[k] = v
  BY <1>a DEF GaugeEffect
<1>3. UNCHANGED <<connected, installed, latest, calls, id>>
  BY DEF inventory
<1>4. ASSUME id = "lens.devices"
      PROVE  /\ Records(samples, DeviceSeries("device.connected", d), Bit(d \in connected))
             /\ Records(samples, <<"device.firmware_info", d, installed[d]>>, 1)
  <2>1. Bit(node.Connected) = Bit(d \in connected)
    OBVIOUS
  <2> QED BY <1>4, <2>1, DevicesSamples
<1>5. ASSUME id = "lens.firmware"
      PROVE  Records(samples, DeviceSeries("device.firmware_current", d), Bit(installed[d] = latest))
  BY <1>5, FirmwareSamples
<1>6. ASSUME id = "lens.active_calls", NEW s \in CallStates, calls[d][s] > 0
      PROVE  Records(samples, <<"device.active_calls", d, s>>, calls[d][s])
  BY <1>6, CallSamples
<1> HIDE DEF d
<1>7. TruthShown(d, shown)'
  BY <1>2, <1>3, <1>4, <1>5, <1>6 DEF TruthShown
<1> QED
  BY <1>7 DEF d

\* Recording other series leaves what is shown of a device.
LEMMA ReportKeeps ==
    ASSUME NEW T, NEW samples \in Seq(T \X Nat), Gauge(samples), NEW e,
           \A k \in T : k[2] # e \/ (k[1] = "device.connected" /\ k[3] # ""),
           UNCHANGED <<connected, installed, latest, calls, id>>, TruthShown(e, shown)
    PROVE  TruthShown(e, shown)'
<1>1. GaugeEffect(T, samples)
  BY GaugeFacts
<1>2. ASSUME NEW k \in DOMAIN shown, k[2] = e, k[1] # "device.connected" \/ k[3] = ""
      PROVE  k \in DOMAIN shown' /\ shown'[k] = shown[k]
  <2>1. \A i \in 1 .. Len(samples) : samples[i][1] # k
    BY <1>1, <1>2 DEF GaugeEffect
  <2> QED BY <1>1, <2>1 DEF GaugeEffect
<1>3. UNCHANGED <<connected, installed, latest, calls, id>>
  OBVIOUS
<1>4. \A m, a : <<m, e, a>>[1] = m /\ <<m, e, a>>[2] = e /\ <<m, e, a>>[3] = a
  OBVIOUS
<1>5. \A m, a, v : (m # "device.connected" \/ a = "")
                   /\ <<m, e, a>> \in DOMAIN shown /\ shown[<<m, e, a>>] = v
                    => <<m, e, a>> \in DOMAIN shown' /\ shown'[<<m, e, a>>] = v
  <2> SUFFICES ASSUME NEW m, NEW a, NEW v, m # "device.connected" \/ a = "",
                      <<m, e, a>> \in DOMAIN shown, shown[<<m, e, a>>] = v
               PROVE  <<m, e, a>> \in DOMAIN shown' /\ shown'[<<m, e, a>>] = v
    OBVIOUS
  <2> DEFINE k == <<m, e, a>>
  <2>1. k[1] = m /\ k[2] = e /\ k[3] = a /\ k \in DOMAIN shown /\ shown[k] = v
    BY <1>4
  <2> HIDE DEF k
  <2>2. k \in DOMAIN shown' /\ shown'[k] = v
    BY <1>2, <2>1
  <2> QED BY <2>2 DEF k
<1>6. TruthShown(e, shown)
  OBVIOUS
<1>7. ASSUME id = "lens.devices"
      PROVE  TruthShown(e, shown)'
  <2> DEFINE k1 == <<"device.connected", e, "">>
             k2 == <<"device.firmware_info", e, installed[e]>>
             n == Bit(e \in connected)
  <2>1. k1 \in DOMAIN shown /\ shown[k1] = n /\ k2 \in DOMAIN shown /\ shown[k2] = 1
    BY <1>6, <1>7 DEF TruthShown, DeviceSeries
  <2>2. k1 \in DOMAIN shown' /\ shown'[k1] = n /\ k2 \in DOMAIN shown' /\ shown'[k2] = 1
    BY <1>5, <2>1
  <2> QED BY <1>3, <1>7, <2>2 DEF TruthShown, DeviceSeries
<1>8. ASSUME id = "lens.firmware"
      PROVE  TruthShown(e, shown)'
  <2> DEFINE k == <<"device.firmware_current", e, "">>
             n == Bit(installed[e] = latest)
  <2>1. k \in DOMAIN shown /\ shown[k] = n
    BY <1>6, <1>8 DEF TruthShown, DeviceSeries
  <2>a. k[1] # "device.connected" /\ k[2] = e
    OBVIOUS
  <2>2. k \in DOMAIN shown' /\ shown'[k] = n
    <3> HIDE DEF k, n
    <3> QED BY <1>2, <2>1, <2>a
  <2> QED BY <1>3, <1>8, <2>2 DEF TruthShown, DeviceSeries
<1>9. ASSUME id = "lens.active_calls"
      PROVE  TruthShown(e, shown)'
  <2> DEFINE k(s) == <<"device.active_calls", e, s>>
  <2>1. \A s \in CallStates :
           calls[e][s] > 0 => k(s) \in DOMAIN shown /\ shown[k(s)] = calls[e][s]
    BY <1>6, <1>9 DEF TruthShown
  <2>2. ASSUME NEW s \in CallStates, calls[e][s] > 0
        PROVE  k(s) \in DOMAIN shown' /\ shown'[k(s)] = calls[e][s]
    <3>1. k(s) \in DOMAIN shown /\ shown[k(s)] = calls[e][s]
      BY <2>1, <2>2
    <3>2. k(s)[1] # "device.connected" /\ k(s)[2] = e
      OBVIOUS
    <3> HIDE DEF k
    <3> QED BY <1>2, <3>1, <3>2
  <2> QED BY <1>3, <1>9, <2>2 DEF TruthShown
<1> QED
  BY <1>3, <1>7, <1>8, <1>9 DEF TruthShown

\* The next page of the listing.
LEMMA SteadyAfterPage ==
    ASSUME TypeOK, SteadyInv, LocalsInv', DevicesPage PROVE SteadyInv'
<1>1. PICK page \in SUBSET Devices, order \in Seq(Devices) :
         /\ ServePage(page) /\ DOMAIN order = 1 .. Len(order)
         /\ \A i \in 1 .. Len(order) : order[i] \in page
         /\ \A d \in page : \E i \in 1 .. Len(order) : order[i] = d
         /\ devices' = devices \o Nodes(order)
         /\ \/ /\ page # Remaining /\ tenants' = tenants
               /\ nextToken' \in page /\ \A d \in page : d <= nextToken'
            \/ page = Remaining /\ tenants' = Tail(tenants) /\ nextToken' = 0
  BY PageStep
<1>2. /\ pc = "list" /\ pc' = "list" /\ tenants # <<>> /\ reported = {}
      /\ UNCHANGED <<enrolled, connected, installed, latest, calls, id, shown, reported, steady>>
  BY DEF DevicesPage, inventory, SteadyInv, LocalsInv
<1> DEFINE new == Nodes(order)
<1>3. /\ new \in Seq(Node) /\ Len(new) = Len(order)
      /\ \A i \in 1 .. Len(order) :
            /\ new[i].ID = order[i]
            /\ new[i].Connected = (order[i] \in connected)
            /\ new[i].SoftwareVersion = installed[order[i]]
  BY <1>1, NodesFacts
<1>4. devices' = devices \o new
  BY <1>1
<1> HIDE DEF new
<1>5. /\ Len(devices) \in Nat /\ Len(new) \in Nat
      /\ Len(devices') = Len(devices) + Len(new)
      /\ \A i \in 1 .. Len(devices) : devices'[i] = devices[i]
      /\ \A i \in 1 .. Len(new) : devices'[Len(devices) + i] = new[i]
  <2> DEFINE N == Node
  <2> HIDE DEF N
  <2>1. devices \in Seq(N) /\ new \in Seq(N)
    BY <1>3 DEF TypeOK, N
  <2>2. Len(devices) \in Nat /\ Len(new) \in Nat
    BY <2>1, LenProperties
  <2>3. /\ Len(devices') = Len(devices) + Len(new)
        /\ \A i \in 1 .. Len(devices) + Len(new) :
              devices'[i] = IF i <= Len(devices) THEN devices[i] ELSE new[i - Len(devices)]
    BY <1>4, <2>1, ConcatProperties
  <2>4. \A i \in 1 .. Len(devices) : i \in 1 .. Len(devices) + Len(new) /\ i <= Len(devices)
    BY <2>2
  <2>5. \A i \in 1 .. Len(new) :
           /\ Len(devices) + i \in 1 .. Len(devices) + Len(new)
           /\ ~ (Len(devices) + i <= Len(devices))
           /\ Len(devices) + i - Len(devices) = i
    BY <2>2
  <2> QED BY <2>2, <2>3, <2>4, <2>5
<1>6. SteadyEnrolled'
  BY <1>2 DEF SteadyInv, SteadyEnrolled
<1>7. ListedTrue'
  <2> SUFFICES ASSUME NEW i \in 1 .. Len(devices'), devices'[i].ID \in steady
               PROVE  /\ devices'[i].Connected = (devices'[i].ID \in connected)
                      /\ devices'[i].SoftwareVersion = installed[devices'[i].ID]
    BY <1>2 DEF ListedTrue
  <2>1. CASE i <= Len(devices)
    <3>1. i \in 1 .. Len(devices) /\ devices'[i] = devices[i]
      BY <1>5, <2>1
    <3> QED BY <3>1 DEF SteadyInv, ListedTrue
  <2>2. CASE ~ (i <= Len(devices))
    <3> DEFINE j == i - Len(devices)
    <3>1. j \in 1 .. Len(new) /\ i = Len(devices) + j
      BY <1>5, <2>2
    <3> HIDE DEF j
    <3>2. devices'[i] = new[j]
      BY <1>5, <3>1
    <3> QED BY <1>3, <3>1, <3>2
  <2> QED BY <2>1, <2>2
<1>8. ASSUME NEW d, Listed(d) PROVE Listed(d)'
  <2>1. PICK i \in 1 .. Len(devices) : devices[i].ID = d
    BY <1>8 DEF Listed
  <2>2. i \in 1 .. Len(devices') /\ devices'[i].ID = d
    BY <1>5, <2>1
  <2> QED BY <2>2 DEF Listed
<1>9. ASSUME NEW d \in page PROVE Listed(d)'
  <2>1. PICK j \in 1 .. Len(new) : new[j].ID = d
    BY <1>1, <1>3
  <2>2. Len(devices) + j \in 1 .. Len(devices') /\ devices'[Len(devices) + j].ID = d
    BY <1>5, <2>1
  <2> QED BY <2>2 DEF Listed
<1>10. ASSUME NEW d \in steady \cap Tracked, ToCome(d) PROVE Listed(d)' \/ ToCome(d)'
  <2>1. d \in enrolled /\ d \in Devices /\ d \in Nat
    BY DevicesAssumption DEF SteadyInv, SteadyEnrolled, TypeOK
  <2>2. /\ Len(tenants) \in Nat \ {0} /\ Head(tenants) = tenants[1]
        /\ Len(Tail(tenants)) = Len(tenants) - 1
        /\ \A j \in 1 .. Len(tenants) - 1 : Tail(tenants)[j] = tenants[j + 1]
        /\ Len(tenants) > 1 => Tail(tenants) # <<>>
    <3> DEFINE A == Range(AllTenants)
    <3> HIDE DEF A
    <3>1. tenants \in Seq(A)
      BY DEF TypeOK, A
    <3>2. Len(tenants) \in Nat \ {0} /\ Tail(tenants) \in Seq(A)
      BY <1>2, <3>1
    <3>3. /\ Head(tenants) = tenants[1] /\ Len(Tail(tenants)) = Len(tenants) - 1
          /\ \A j \in 1 .. Len(tenants) - 1 : Tail(tenants)[j] = tenants[j + 1]
      BY <1>2, <3>1, HeadTailProperties
    <3>4. Len(tenants) > 1 => Tail(tenants) # <<>>
      <4> DEFINE t == Tail(tenants)
      <4>1. Len(tenants) > 1 => Len(t) # 0
        <5> DEFINE n == Len(tenants)
                   m == Len(t)
        <5>1. n \in Nat /\ m = n - 1
          BY <3>2, <3>3
        <5> HIDE DEF n, m
        <5>2. n > 1 => m # 0
          BY ONLY <5>1
        <5> QED BY <5>2 DEF n, m
      <4> HIDE DEF t
      <4>2. t = <<>> => Len(t) = 0
        BY EmptySeq
      <4>3. Len(tenants) > 1 => t # <<>>
        BY <4>1, <4>2
      <4> QED BY <4>3 DEF t
    <3> QED BY <3>2, <3>3, <3>4
  <2>3. CASE tenants[1] = TenantOf[d] /\ d > nextToken
    <3>1. d \in Remaining
      BY <2>1, <2>2, <2>3 DEF Remaining
    <3>2. CASE d \in page
      BY <1>9, <3>2
    <3>3. CASE d \notin page
      <4>1. page # Remaining /\ tenants' = tenants /\ nextToken' \in page
        BY <1>1, <3>1, <3>3
      <4>2. nextToken' < d
        BY <1>1, <3>1, <3>3, <4>1 DEF ServePage
      <4>3. nextToken' \in Nat
        BY <4>1, DevicesAssumption
      <4> QED BY <1>2, <2>1, <2>3, <4>1, <4>2, <4>3 DEF ToCome
    <3> QED BY <3>2, <3>3
  <2>4. CASE \E j \in 2 .. Len(tenants) : tenants[j] = TenantOf[d]
    <3>1. CASE tenants' = tenants
      BY <2>4, <3>1 DEF ToCome
    <3>2. CASE tenants' = Tail(tenants) /\ nextToken' = 0
      <4>1. PICK j \in 2 .. Len(tenants) : tenants[j] = TenantOf[d]
        BY <2>4
      <4>2. /\ j - 1 \in 1 .. Len(tenants) - 1 /\ j - 1 + 1 = j
            /\ Len(tenants) > 1 /\ Len(tenants') = Len(tenants) - 1
        BY <2>2, <3>2, <4>1
      <4>3. tenants'[j - 1] = TenantOf[d] /\ tenants' # <<>>
        BY <2>2, <3>2, <4>1, <4>2
      <4>4. d > nextToken'
        BY <2>1, <3>2, DevicesAssumption
      <4>5. CASE j = 2
        BY <4>3, <4>4, <4>5 DEF ToCome
      <4>6. CASE j # 2
        <5>1. j - 1 \in 2 .. Len(tenants')
          BY <2>2, <4>2, <4>6
        <5> QED BY <4>3, <5>1 DEF ToCome
      <4> QED BY <4>5, <4>6
    <3> QED BY <1>1, <3>1, <3>2
  <2> QED BY <1>10, <2>3, <2>4 DEF ToCome
<1>11. NoneLeftOut'
  <2>1. \A d \in steady \cap Tracked : Listed(d) \/ ToCome(d)
    BY <1>2 DEF SteadyInv, NoneLeftOut
  <2>2. \A d \in steady \cap Tracked : Listed(d)' \/ ToCome(d)'
    BY <1>8, <1>10, <2>1
  <2>3. (steady \cap Tracked)' = steady \cap Tracked
    BY <1>2 DEF Tracked
  <2> QED BY <1>2, <2>2, <2>3 DEF NoneLeftOut
<1>12. ReportedTrue'
  BY <1>2 DEF ReportedTrue
<1> QED
  BY <1>6, <1>7, <1>11, <1>12 DEF SteadyInv

\* A listed device is reported.
LEMMA SteadyAfterReport ==
    ASSUME TypeOK, SteadyInv, LocalsInv', Report PROVE SteadyInv'
<1> DEFINE node == Head(devices)
           x == node.ID
<1>1. /\ pc = "report" /\ pc' = "report" /\ devices # <<>>
      /\ devices' = Tail(devices) /\ reported' = reported \cup {x}
      /\ UNCHANGED <<inventory, id>>
      /\ UNCHANGED <<enrolled, connected, installed, latest, calls, id, steady>>
  BY DEF Report, inventory
<1>2. PICK samples \in Samples(node) : Gauge(samples)
  BY DEF Report
<1>3. /\ node \in Node /\ x \in Devices /\ node = devices[1]
      /\ Len(devices) \in Nat \ {0} /\ Len(devices') = Len(devices) - 1
      /\ \A i \in 1 .. Len(devices') : devices'[i] = devices[i + 1]
  BY <1>1, HeadNode
<1>4. samples \in Seq(SeriesOf(x) \X Nat)
  BY <1>3, SamplesTyped DEF SampleOf
<1> HIDE DEF node
<1>5. SteadyEnrolled'
  BY <1>1 DEF SteadyInv, SteadyEnrolled
<1>6. ListedTrue'
  <2> SUFFICES ASSUME NEW i \in 1 .. Len(devices'), devices'[i].ID \in steady
               PROVE  /\ devices'[i].Connected = (devices'[i].ID \in connected)
                      /\ devices'[i].SoftwareVersion = installed[devices'[i].ID]
    BY <1>1 DEF ListedTrue
  <2>1. i + 1 \in 1 .. Len(devices) /\ devices'[i] = devices[i + 1]
    BY <1>3
  <2> QED BY <2>1 DEF SteadyInv, ListedTrue
<1>7. ASSUME NEW d, Listed(d) PROVE Listed(d)' \/ d = x
  <2>1. PICK i \in 1 .. Len(devices) : devices[i].ID = d
    BY <1>7 DEF Listed
  <2>2. CASE i = 1
    BY <1>3, <2>1, <2>2
  <2>3. CASE i # 1
    <3>1. i - 1 \in 1 .. Len(devices') /\ i - 1 + 1 = i
      BY <1>3, <2>3
    <3>2. devices'[i - 1].ID = d
      BY <1>3, <2>1, <3>1
    <3> QED BY <3>1, <3>2 DEF Listed
  <2> QED BY <2>2, <2>3
<1>8. NoneLeftOut'
  <2>1. \A d \in steady \cap Tracked : Listed(d) \/ d \in reported
    BY <1>1 DEF SteadyInv, NoneLeftOut
  <2>2. \A d \in steady \cap Tracked : Listed(d)' \/ d \in reported'
    BY <1>1, <1>7, <2>1
  <2>3. (steady \cap Tracked)' = steady \cap Tracked
    BY <1>1 DEF Tracked
  <2> QED BY <1>1, <2>2, <2>3 DEF NoneLeftOut
<1>9. ReportedTrue'
  <2> SUFFICES ASSUME NEW d \in steady \cap reported' PROVE TruthShown(d, shown)'
    BY <1>1 DEF ReportedTrue
  <2>1. CASE d = x
    <3>1. 1 \in 1 .. Len(devices)
      BY <1>3
    <3>2. node.Connected = (x \in connected) /\ node.SoftwareVersion = installed[x]
      BY <1>3, <2>1, <3>1 DEF SteadyInv, ListedTrue
    <3> QED BY <1>1, <1>2, <1>3, <2>1, <3>2, ReportTells
  <2>2. CASE d # x
    <3>1. TruthShown(d, shown)
      BY <1>1, <2>2 DEF SteadyInv, ReportedTrue
    <3> HIDE DEF x
    <3>2. \A k \in SeriesOf(x) : k[2] # d
      BY <2>2 DEF SeriesOf
    <3> QED BY <1>1, <1>2, <1>4, <3>1, <3>2, ReportKeeps
  <2> QED BY <2>1, <2>2
<1> QED
  BY <1>5, <1>6, <1>8, <1>9 DEF SteadyInv

LEMMA SteadyInvariant == TypeOK /\ SteadyInv /\ [Next]_vars => SteadyInv'
<1> SUFFICES ASSUME TypeOK, SteadyInv, [Next]_vars PROVE SteadyInv'
  OBVIOUS
<1>1. LocalsInv'
  BY LocalsInvariant DEF SteadyInv
<1>2. ASSUME NEW d \in Devices,
             Enrol(d) \/ Unenrol(d) \/ Toggle(d) \/ Install(d) \/ CallChanges(d)
      PROVE  SteadyInv'
  <2>1. steady' = steady \ {d} /\ UNCHANGED <<latest, id, pass, shown>>
    BY <1>2 DEF Enrol, Unenrol, Toggle, Install, CallChanges, Change
  <2>2. ASSUME NEW e \in Devices \ {d}
        PROVE  /\ (e \in enrolled' <=> e \in enrolled) /\ (e \in connected' <=> e \in connected)
               /\ installed'[e] = installed[e] /\ calls'[e] = calls[e]
    <3>1. installed \in [Devices -> Versions] /\ calls \in [Devices -> [CallStates -> Nat]]
      BY DEF TypeOK
    <3>2. CASE Enrol(d) \/ Unenrol(d)
      BY <3>2 DEF Enrol, Unenrol
    <3>3. CASE Toggle(d)
      BY <3>3 DEF Toggle
    <3>4. CASE Install(d)
      BY <3>1, <3>4 DEF Install
    <3>5. CASE CallChanges(d)
      BY <3>1, <3>5 DEF CallChanges
    <3> QED BY <1>2, <3>2, <3>3, <3>4, <3>5
  <2> QED BY <2>1, <2>2, SteadyWhenChanged
<1>3. CASE Publish \/ OverCap \/ EndPass \/ QueryFails \/ GaugeFails
  <2>1. steady' = {}
    BY <1>3 DEF Publish, OverCap, EndPass, QueryFails, GaugeFails, Return
  <2> QED BY <1>1, <2>1, SteadyWhenNone
<1>4. CASE StartPass
  <2>1. /\ pc' = "tenants" /\ steady' = enrolled /\ enrolled' = enrolled
        /\ devices' = <<>> /\ reported' = {}
    BY <1>1, <1>4 DEF StartPass, inventory, SteadyInv, LocalsInv
  <2>2. ListedTrue'
    BY <2>1 DEF ListedTrue
  <2> QED BY <1>1, <2>1, <2>2 DEF SteadyInv, SteadyEnrolled, NoneLeftOut, ReportedTrue
<1>5. CASE resolveTenants
  <2>1. /\ pc' = "list" /\ tenants' = PassTenants /\ nextToken' = 0
        /\ steady' = steady /\ enrolled' = enrolled
        /\ devices' = <<>> /\ reported' = {}
    BY <1>5 DEF resolveTenants, inventory, SteadyInv, LocalsInv, PassTenants
  <2>2. ListedTrue'
    BY <2>1 DEF ListedTrue
  <2>3. ASSUME NEW d \in steady \cap Tracked PROVE ToCome(d)'
    <3>1. d \in Devices /\ d > 0 /\ TenantOf[d] \in Range(PassTenants)
      <4>1. d \in Devices /\ TenantOf[d] \in Range(PassTenants)
        BY Zenon DEF Tracked, PassTenants
      <4>2. \A n \in Nat \ {0} : n > 0
        OBVIOUS
      <4> QED BY <4>1, <4>2, DevicesAssumption
    <3>2. PassTenants \in Seq(Range(AllTenants))
      BY TenantsAssumption DEF PassTenants
    <3>3. PICK j \in 1 .. Len(PassTenants) : PassTenants[j] = TenantOf[d]
      BY <3>1, <3>2, LenProperties DEF Range
    <3>4. CASE j = 1
      <4>1. PassTenants # <<>>
        BY <3>3
      <4> QED BY <2>1, <3>1, <3>3, <3>4, <4>1 DEF ToCome
    <3>5. CASE j # 1
      <4>1. j \in 2 .. Len(PassTenants)
        BY <3>2, <3>3, <3>5, LenProperties
      <4> QED BY <2>1, <3>3, <4>1 DEF ToCome
    <3> QED BY <3>4, <3>5
  <2>4. NoneLeftOut'
    <3>1. (steady \cap Tracked)' = steady \cap Tracked
      BY <2>1 DEF Tracked
    <3> QED BY <2>1, <2>3, <3>1 DEF NoneLeftOut
  <2> QED BY <1>1, <2>1, <2>2, <2>4 DEF SteadyInv, SteadyEnrolled, ReportedTrue
<1>6. CASE DevicesPage
  BY <1>1, <1>6, SteadyAfterPage
<1>7. CASE WithinCap
  <2>1. /\ pc = "list" /\ pc' = "report" /\ tenants = <<>> /\ reported = {}
        /\ UNCHANGED <<enrolled, connected, installed, devices, reported, steady>>
    BY <1>7 DEF WithinCap, inventory, SteadyInv, LocalsInv
  <2>2. \A d : ~ ToCome(d)
    BY <2>1 DEF ToCome
  <2>3. NoneLeftOut'
    BY <2>1, <2>2 DEF SteadyInv, NoneLeftOut, Listed, Tracked
  <2> QED BY <1>1, <2>1, <2>3 DEF SteadyInv, SteadyEnrolled, ListedTrue, ReportedTrue
<1>8. CASE Report
  BY <1>1, <1>8, SteadyAfterReport
<1>9. ASSUME UNCHANGED <<enrolled, connected, installed, latest, calls, id, pass, steady>>,
             ReportedTrue'
      PROVE  SteadyInv'
  BY <1>1, <1>9 DEF pass, SteadyInv, SteadyEnrolled, ListedTrue, NoneLeftOut, Listed, ToCome,
     Tracked
<1>10. ASSUME NEW d \in Devices, StreamEvent(d) PROVE SteadyInv'
  <2>1. UNCHANGED <<enrolled, connected, installed, latest, calls, id, pass, steady>>
    BY <1>10 DEF StreamEvent
  <2>2. PICK samples \in Seq({StreamSeries(d)} \X Nat) : Gauge(samples)
    BY <1>10, StreamSamples
  <2>3. \A e : \A k \in {StreamSeries(d)} :
                  k[2] # e \/ (k[1] = "device.connected" /\ k[3] # "")
    <3>1. StreamSeries(d)[1] = "device.connected" /\ StreamSeries(d)[3] = "productId"
      BY DEF StreamSeries
    <3>2. "productId" # ""
      OBVIOUS
    <3> QED BY <3>1, <3>2
  <2>4. ASSUME NEW e \in steady \cap reported PROVE TruthShown(e, shown)'
    <3>1. TruthShown(e, shown)
      BY DEF SteadyInv, ReportedTrue
    <3>2. UNCHANGED <<connected, installed, latest, calls, id>>
      BY <2>1
    <3> DEFINE T == {StreamSeries(d)}
    <3>3. samples \in Seq(T \X Nat)
          /\ \A k \in T : k[2] # e \/ (k[1] = "device.connected" /\ k[3] # "")
      BY <2>2, <2>3
    <3> HIDE DEF T
    <3> QED BY <2>2, <3>1, <3>2, <3>3, ReportKeeps
  <2>5. ReportedTrue'
    BY <2>1, <2>4 DEF ReportedTrue, pass
  <2> QED BY <1>9, <2>1, <2>5
<1>11. CASE UNCHANGED vars \/ \E d \in Devices : StreamMisses(d)
  <2>1. UNCHANGED <<enrolled, connected, installed, latest, calls, id, pass, steady, shown>>
    BY <1>11 DEF vars, inventory, StreamMisses
  <2>2. ReportedTrue'
    BY <2>1 DEF SteadyInv, ReportedTrue, TruthShown, pass
  <2> QED BY <1>9, <2>1, <2>2
<1> QED
  BY <1>2, <1>3, <1>4, <1>5, <1>6, <1>7, <1>8, <1>10, <1>11 DEF Next, PassStep

\* A complete pass has told the truth about every tracked device that did not change while it
\* ran, for any number of tenants and pages, whatever came, went or changed around them.
THEOREM CompletePassesTellTruth == Spec => []PassShowsSteady
<1>1. Init => TypeOK /\ SteadyInv
  BY InitTyped, LocalsInvariant
     DEF Init, SteadyInv, SteadyEnrolled, ListedTrue, NoneLeftOut, ReportedTrue
<1>2. TypeOK /\ SteadyInv /\ [Next]_vars => (TypeOK /\ SteadyInv)'
  BY NextTyped, SteadyInvariant
<1>3. ASSUME TypeOK, SteadyInv PROVE PassShowsSteady
  <2> SUFFICES ASSUME PassComplete, NEW d \in steady \cap Tracked
               PROVE  d \in reported /\ TruthShown(d, shown)
    BY DEF PassShowsSteady, TruthShown, Shows
  <2>1. ~ Listed(d)
    BY DEF PassComplete, Listed
  <2>2. d \in reported
    BY <1>3, <2>1 DEF SteadyInv, NoneLeftOut, PassComplete
  <2> QED BY <1>3, <2>2 DEF SteadyInv, ReportedTrue
<1> QED
  BY <1>1, <1>2, <1>3, PTL DEF Spec
=============================================================================
