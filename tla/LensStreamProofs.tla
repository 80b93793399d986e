-------------------------- MODULE LensStreamProofs --------------------------
(***************************************************************************)
(* Proofs about LensStream for any backoff limits and any number of frames *)
(* under way.                                                              *)
(*                                                                         *)
(* What the recursive backoff computes is proved by minimal counterexample *)
(* (NatMin): a set of numbers at which a claim fails would have a least    *)
(* element, and there is none.                                             *)
(***************************************************************************)
EXTENDS LensStream, Integers, FiniteSetTheorems, TLAPS

----------------------------------------------------------------------------
(* Numbers. *)

\* Every non-empty set of naturals has a least element.
LEMMA NatMin ==
    ASSUME NEW T, T \subseteq Nat, T # {}
    PROVE  \E x \in T : \A y \in T : x <= y
<1> DEFINE less == OpToRel(<, Nat)
<1>1. IsWellFoundedOn(less, Nat)
  BY NatLessThanWellFounded
<1>2. \A x, y \in T : y < x => <<y, x>> \in less
  BY DEF OpToRel
<1> HIDE DEF less
<1>3. PICK x \in T : \A y \in T : ~ (<<y, x>> \in less)
  BY <1>1, WFMin
<1>4. ASSUME NEW y \in T PROVE x <= y
  <2>1. ~ (y < x)
    BY <1>2, <1>3
  <2> QED BY <2>1
<1> QED
  BY <1>4

\* Powers of two, by counting subsets.
LEMMA PowerOfTwo ==
    /\ 2 ^ 0 = 1
    /\ \A n \in Nat : 2 ^ n \in Nat /\ 2 ^ (n + 1) = 2 * 2 ^ n
<1>1. 2 ^ 0 = 1
  <2>1. Cardinality({}) = 0 /\ IsFiniteSet({})
    BY FS_EmptySet
  <2>2. Cardinality(SUBSET {}) = 2 ^ Cardinality({})
    BY <2>1, FS_SUBSET
  <2>3. SUBSET {} = {{}}
    OBVIOUS
  <2>4. Cardinality({{}}) = 1
    BY FS_Singleton
  <2> QED BY <2>1, <2>2, <2>3, <2>4
<1>2. ASSUME NEW n \in Nat PROVE 2 ^ n \in Nat /\ 2 ^ (n + 1) = 2 * 2 ^ n
  <2> DEFINE A == 1 .. n
             x == n + 1
             P == SUBSET A
             Q == {b \in SUBSET (1 .. n + 1) : x \in b}
             f == [b \in P |-> b \cup {x}]
  <2>1. IsFiniteSet(A) /\ Cardinality(A) = n /\ IsFiniteSet(1 .. n + 1)
        /\ Cardinality(1 .. n + 1) = n + 1
    BY FS_Interval
  <2>2. IsFiniteSet(P) /\ Cardinality(P) = 2 ^ n
    BY <2>1, FS_SUBSET
  <2>3. Cardinality(SUBSET (1 .. n + 1)) = 2 ^ (n + 1)
    BY <2>1, FS_SUBSET
  <2>4. SUBSET (1 .. n + 1) = P \cup Q /\ P \cap Q = {}
    <3>1. ASSUME NEW b \in SUBSET (1 .. n + 1), x \notin b PROVE b \in P
      BY <3>1
    <3>2. P \subseteq SUBSET (1 .. n + 1)
      OBVIOUS
    <3>3. \A b \in P : x \notin b
      OBVIOUS
    <3> QED BY <3>1, <3>2, <3>3
  <2>5. f \in Bijection(P, Q)
    <3>1. f \in [P -> Q]
      OBVIOUS
    <3>2. ASSUME NEW b \in P, NEW c \in P, f[b] = f[c] PROVE b = c
      <4>1. x \notin b /\ x \notin c /\ b \cup {x} = c \cup {x}
        BY <3>2
      <4> QED BY <4>1
    <3>3. ASSUME NEW q \in Q PROVE \E b \in P : f[b] = q
      <4>1. q \ {x} \in P /\ (q \ {x}) \cup {x} = q
        OBVIOUS
      <4> QED BY <4>1
    <3> QED BY <3>1, <3>2, <3>3 DEF Bijection, Injection, Surjection, IsInjective
  <2>6. IsFiniteSet(Q) /\ Cardinality(Q) = Cardinality(P)
    BY <2>2, <2>5, FS_Bijection DEF ExistsBijection
  <2>7. Cardinality(P \cup Q) = Cardinality(P) + Cardinality(Q) - Cardinality(P \cap Q)
    BY <2>2, <2>6, FS_Union
  <2>8. Cardinality(P \cap Q) = 0
    BY <2>4, FS_EmptySet
  <2>9. Cardinality(P) \in Nat
    BY <2>2, FS_CardinalityType
  <2> HIDE DEF P, Q
  <2>10. Cardinality(P \cup Q) = Cardinality(P) + Cardinality(P)
    BY <2>6, <2>7, <2>8, <2>9
  <2>11. Cardinality(P \cup Q) = 2 ^ (n + 1)
    BY <2>3, <2>4, Zenon
  <2>12. 2 ^ (n + 1) = Cardinality(P) + Cardinality(P)
    BY <2>10, <2>11, Zenon
  <2> QED BY <2>2, <2>9, <2>12
<1> QED
  BY <1>1, <1>2

----------------------------------------------------------------------------
(* The delay that backoff computes. *)

Turn(d, k, min, max) == IF k = 1 THEN min ELSE DoubleUpTo(d[k - 1], max)

\* The recursive definition of the loop has a solution for every number of turns.
LEMMA TurnsExist ==
    ASSUME NEW min \in Nat, NEW max \in Nat, NEW n \in Nat
    PROVE  \E d \in [1 .. n -> Nat] : \A k \in 1 .. n : d[k] = Turn(d, k, min, max)
<1> DEFINE Turns(m) == \E d \in [1 .. m -> Nat] :
                           \A k \in 1 .. m : d[k] = Turn(d, k, min, max)
           Bad == {m \in Nat : ~ Turns(m)}
<1> SUFFICES ASSUME Bad # {} PROVE FALSE
  OBVIOUS
<1>1. PICK m \in Bad : \A y \in Bad : m <= y
  BY NatMin
<1>2. m # 0
  <2> DEFINE e == [k \in 1 .. 0 |-> 0]
  <2>1. e \in [1 .. 0 -> Nat] /\ \A k \in 1 .. 0 : e[k] = Turn(e, k, min, max)
    OBVIOUS
  <2> HIDE DEF e
  <2>2. Turns(0)
    BY <2>1
  <2> QED BY <2>2
<1>3. m - 1 \in Nat /\ m - 1 \notin Bad
  <2>1. m \in Nat
    OBVIOUS
  <2> HIDE DEF Bad
  <2> QED BY <1>1, <1>2, <2>1
<1>4. Turns(m - 1)
  BY <1>3
<1>5. PICK d \in [1 .. m - 1 -> Nat] : \A k \in 1 .. m - 1 : d[k] = Turn(d, k, min, max)
  BY <1>4
<1> DEFINE e == [k \in 1 .. m |-> IF k = m THEN Turn(d, m, min, max) ELSE d[k]]
<1>6. e \in [1 .. m -> Nat]
  BY <1>5, <1>2 DEF DoubleUpTo, Turn
<1>7. ASSUME NEW k \in 1 .. m PROVE e[k] = Turn(e, k, min, max)
  BY <1>5, <1>2 DEF Turn
<1>8. Turns(m)
  BY <1>6, <1>7
<1> QED BY <1>8

\* The ideal delay before the n-th retry.
Ideal(min, n) == min * 2 ^ (n - 1)

\* The n-th delay: min for the first, then min * 2^(n-1), or max as soon as that comes
\* within one of it; it never exceeds max and nothing overflows on the way.
LEMMA BackoffValue ==
    ASSUME NEW min \in Nat \ {0}, NEW max \in Nat, min <= max, NEW n \in Nat \ {0}
    PROVE  /\ backoff(min, max, n) =
                  IF n > 1 /\ Ideal(min, n) + 1 >= max THEN max ELSE Ideal(min, n)
           /\ backoff(min, max, n) \in 0 .. max
<1> DEFINE D == CHOOSE d : d = [k \in 1 .. n |-> Turn(d, k, min, max)]
           Value(k) == IF k > 1 /\ Ideal(min, k) + 1 >= max THEN max ELSE Ideal(min, k)
           Bad == {k \in 1 .. n : D[k] # Value(k)}
<1>1. PICK d \in [1 .. n -> Nat] : \A k \in 1 .. n : d[k] = Turn(d, k, min, max)
  BY TurnsExist
<1>2. d = [k \in 1 .. n |-> Turn(d, k, min, max)]
  BY <1>1
<1>3. D = [k \in 1 .. n |-> Turn(D, k, min, max)]
  BY <1>2
<1>4. backoff(min, max, n) = AtMost(D[n], max)
  BY DEF backoff, Turn
<1> HIDE DEF D
<1>5. \A k \in 1 .. n : D[k] = Turn(D, k, min, max)
  BY <1>3
<1>6. Ideal(min, 1) = min
  BY PowerOfTwo DEF Ideal
<1>7. ASSUME NEW k \in Nat \ {0}
      PROVE  Ideal(min, k) \in Nat /\ Ideal(min, k + 1) = 2 * Ideal(min, k)
  <2>1. k - 1 \in Nat /\ (k - 1) + 1 = k /\ (k + 1) - 1 = k
    OBVIOUS
  <2> DEFINE w == 2 ^ (k - 1)
  <2>2. w \in Nat /\ 2 ^ k = 2 * w
    BY <2>1, PowerOfTwo
  <2>3. Ideal(min, k) = min * w /\ Ideal(min, k + 1) = min * 2 ^ k
    BY <2>1 DEF Ideal
  <2> HIDE DEF w
  <2>4. Ideal(min, k + 1) = min * (2 * w)
    BY <2>2, <2>3
  <2>5. min * w \in Nat /\ min * (2 * w) = 2 * (min * w)
    BY <2>2
  <2> QED BY <2>3, <2>4, <2>5
<1>8. Bad = {}
  <2> SUFFICES ASSUME Bad # {} PROVE FALSE
    OBVIOUS
  <2>1. PICK k \in Bad : \A y \in Bad : k <= y
    <3>1. Bad \subseteq Nat
      OBVIOUS
    <3> QED BY <3>1, NatMin
  <2>2. k \in 1 .. n /\ D[k] # Value(k) /\ D[k] = Turn(D, k, min, max)
    BY <1>5
  <2>3. k # 1
    BY <2>2, <1>6 DEF Turn
  <2>4. k - 1 \in 1 .. n /\ k - 1 \in Nat \ {0} /\ k - 1 \notin Bad
    BY <2>1, <2>2, <2>3
  <2> DEFINE v == Ideal(min, k - 1)
  <2>5. v \in Nat /\ Ideal(min, k) = 2 * v /\ (k - 1 = 1 => v = min)
    BY <2>2, <2>4, <1>6, <1>7
  <2>6. D[k - 1] = IF k - 1 > 1 /\ v + 1 >= max THEN max ELSE v
    BY <2>4
  <2>7. D[k] = IF D[k - 1] >= max \div 2 THEN max ELSE 2 * D[k - 1]
    BY <2>2, <2>3 DEF Turn, DoubleUpTo
  <2> HIDE DEF v
  <2>8. D[k] = IF 2 * v + 1 >= max THEN max ELSE 2 * v
    BY <2>5, <2>6, <2>7
  <2>9. k > 1 /\ k \in Nat
    BY <2>2, <2>3
  <2> QED BY <2>2, <2>5, <2>8, <2>9
<1>9. n \in 1 .. n /\ Ideal(min, n) \in Nat
  BY <1>7
<1>10. D[n] = Value(n) /\ Value(n) \in 0 .. max
  <2>1. D[n] = Value(n)
    BY <1>8, <1>9
  <2>2. n = 1 => Ideal(min, n) = min
    BY <1>6
  <2> QED BY <1>9, <2>1, <2>2
<1> QED
  BY <1>4, <1>10 DEF AtMost

----------------------------------------------------------------------------
(* Every variable keeps its type. *)

\* Run's reconnect delay is always the one backoff gives for the failures so far,
\* and it is set only after a failure.
Scheduled ==
    /\ pc \in {"reconnect", "sleep"} => failures >= 1
    /\ pc = "sleep" => delay = backoff(MinBackoff, MaxBackoff, failures)

\* The event being emitted is the next frame.
Emitting == pc = "emit" => inbox # <<>> /\ Head(inbox) \in {"next0", "next1"}

TypeInv == TypeOK /\ Scheduled /\ Emitting

\* A frame sent joins the end of the inbox.
LEMMA SendType ==
    ASSUME TypeOK, NEW f \in Frames, Send(f)
    PROVE  /\ inbox' \in Seq(Frames) /\ Len(inbox') <= MaxInbox
           /\ inbox # <<>> => inbox' # <<>> /\ Head(inbox') = Head(inbox)
BY CapAssumption DEF TypeOK, Send

\* A frame read leaves the front of it.
LEMMA TailType ==
    ASSUME TypeOK, inbox # <<>>, inbox' = Tail(inbox)
    PROVE  inbox' \in Seq(Frames) /\ Len(inbox') <= MaxInbox
BY CapAssumption DEF TypeOK

LEMMA EmptyType ==
    ASSUME inbox' = <<>>
    PROVE  inbox' \in Seq(Frames) /\ Len(inbox') <= MaxInbox
<1>1. <<>> \in Seq(Frames) /\ Len(<<>>) = 0
  OBVIOUS
<1> QED BY <1>1, CapAssumption

\* Wherever a session fails, its deferred calls come next.
LEMMA UnwindType ==
    ASSUME Unwind
    PROVE  pc' \in {"lower", "close", "ended"}
BY DEF Unwind

LEMMA TypeStep == TypeInv /\ [Next]_vars => TypeInv'
<1> SUFFICES ASSUME TypeInv, [Next]_vars PROVE TypeInv'
  OBVIOUS
<1> USE DEF TypeInv, TypeOK, Scheduled, Emitting
<1>1. CASE Reconnect
  <2>1. failures \in Nat \ {0}
    BY <1>1, CapAssumption DEF Reconnect
  <2>2. backoff(MinBackoff, MaxBackoff, failures) \in 0 .. MaxBackoff
    BY <2>1, BackoffValue, BackoffAssumption
  <2> QED BY <1>1, <2>2 DEF Reconnect, server, env
<1>2. CASE ReconnectFails
  BY <1>2 DEF ReconnectFails, server, env
<1>3. CASE SleepCancelled \/ Wake
  BY <1>3 DEF SleepCancelled, Wake, Steps, run, server, env
<1>4. CASE SessionEnds
  BY <1>4, CapAssumption DEF SessionEnds, server, env
<1>5. CASE GetToken
  BY <1>5 DEF GetToken, Steps, run, server, env
<1>6. CASE Dial
  BY <1>6, EmptyType DEF Dial, Steps, run, env
<1>7. CASE SendInit
  BY <1>7 DEF SendInit, Steps, run, env
<1>8. CASE Subscribe \/ RaiseGauge
  BY <1>8 DEF Subscribe, RaiseGauge, Steps, run, server, env
<1>9. CASE ReadAck
  <2>1. inbox' \in Seq(Frames) /\ Len(inbox') <= MaxInbox
    BY <1>9, TailType DEF ReadAck
  <2>2. pc' \in {"subscribe", "lower", "close", "ended"}
    BY <1>9, UnwindType DEF ReadAck
  <2> QED BY <1>9, <2>1, <2>2 DEF ReadAck, Steps, run, env
<1>10. CASE ReadFrame
  <2>1. inbox' \in Seq(Frames) /\ Len(inbox') <= MaxInbox
    BY <1>10, TailType DEF ReadFrame
  <2>2. \/ pc' \in {"read", "lower", "close", "ended"}
        \/ pc' = "emit" /\ inbox' # <<>> /\ Head(inbox') \in {"next0", "next1"}
    BY <1>10, UnwindType DEF ReadFrame
  <2> QED BY <1>10, <2>1, <2>2 DEF ReadFrame, Steps, run, env
<1>11. CASE EmitDevice
  <2>1. inbox' \in Seq(Frames) /\ Len(inbox') <= MaxInbox
    BY <1>11, TailType DEF EmitDevice
  <2> QED BY <1>11, <2>1 DEF EmitDevice, Steps, run, env
<1>12. CASE EmitFails \/ StepFails
  <2>1. pc' \in {"lower", "close", "ended"}
    BY <1>12, UnwindType DEF EmitFails, StepFails
  <2> QED BY <1>12, <2>1 DEF EmitFails, StepFails, run, server, env
<1>13. CASE LowerGauge
  BY <1>13 DEF LowerGauge, run, server, env
<1>14. CASE CloseNow
  BY <1>14, EmptyType DEF CloseNow, run, env
<1>15. CASE ServerAcks
  BY <1>15, SendType DEF ServerAcks, Frames, run, env
<1>16. ASSUME NEW f \in {"other"} \cup EndFrames, ServerSends(f) PROVE TypeInv'
  BY <1>16, SendType DEF ServerSends, Frames, run, env
<1>17. CASE ServerDrops
  BY <1>17 DEF ServerDrops, run, env
<1>18. CASE DeviceChanges
  <2>1. /\ inbox' \in Seq(Frames) /\ Len(inbox') <= MaxInbox
        /\ inbox # <<>> => inbox' # <<>> /\ Head(inbox') = Head(inbox)
    BY <1>18, SendType DEF DeviceChanges, Next01, Frames
  <2> QED BY <1>18, <2>1 DEF DeviceChanges, run, env
<1>19. CASE Weather \/ Cancel
  <2>1. healthy' \in BOOLEAN /\ cancelled' \in BOOLEAN
    BY <1>19, Zenon DEF Weather, Cancel
  <2>2. UNCHANGED <<pc, failures, delay, result, conn, gauge, devGauge, heard, srv, inbox, dev>>
    BY <1>19 DEF Weather, Cancel, run, server
  <2> QED BY <2>1, <2>2
<1>20. CASE UNCHANGED vars
  BY <1>20 DEF vars
<1> QED
  BY <1>1, <1>2, <1>3, <1>4, <1>5, <1>6, <1>7, <1>8, <1>9, <1>10, <1>11, <1>12, <1>13,
     <1>14, <1>15, <1>16, <1>17, <1>18, <1>19, <1>20 DEF Next, Client

LEMMA TypeInvariant == Spec => []TypeInv
<1>1. Init => TypeInv
  <2>1. <<>> \in Seq(Frames) /\ Len(<<>>) = 0
    OBVIOUS
  <2>2. 0 \in 0 .. FailureCap /\ 0 \in 0 .. MaxBackoff /\ 0 <= MaxInbox
    BY CapAssumption, BackoffAssumption
  <2> QED BY <2>1, <2>2 DEF Init, TypeInv, TypeOK, Scheduled, Emitting, Steps
<1> QED
  BY <1>1, TypeStep, PTL DEF Spec

\* Every variable of the stream keeps its type: the failure counter and the delay stay
\* within their caps, the frames under way within the bound on them.
THEOREM StreamTyped == Spec => []TypeOK
<1>1. TypeInv => TypeOK
  BY DEF TypeInv
<1> QED
  BY <1>1, TypeInvariant, PTL

\* For every pair of limits, the first reconnect of Run waits MinBackoff and the n-th
\* min(MaxBackoff, MinBackoff * 2^(n-1)), rounding up to MaxBackoff when one short.
THEOREM StreamBackoffSchedule == Spec => []BackoffSchedule
<1>1. ASSUME TypeInv PROVE BackoffSchedule
  <2> SUFFICES ASSUME pc = "sleep" PROVE BackoffSchedule
    BY DEF BackoffSchedule
  <2>1. failures \in Nat \ {0} /\ delay = backoff(MinBackoff, MaxBackoff, failures)
    BY <1>1, CapAssumption DEF TypeInv, TypeOK, Scheduled
  <2> QED BY <2>1, BackoffValue, BackoffAssumption DEF BackoffSchedule, Ideal
<1> QED
  BY <1>1, TypeInvariant, PTL

----------------------------------------------------------------------------
(* A session cleans up after itself. *)

\* From the dial to CloseNow the socket is open.
InSession == {"init", "ack", "subscribe", "connected", "read", "emit", "lower", "close"}
SocketInv == pc \in InSession => conn
CleanInv == SessionCleansUp /\ SocketInv

LEMMA CleanStep == TypeOK /\ CleanInv /\ [Next]_vars => CleanInv'
<1> SUFFICES ASSUME TypeOK, CleanInv, [Next]_vars PROVE CleanInv'
  OBVIOUS
<1> USE DEF CleanInv, SessionCleansUp, SocketInv, InSession
<1>1. CASE Reconnect \/ ReconnectFails \/ Wake \/ SleepCancelled \/ SessionEnds \/ GetToken
  BY <1>1 DEF Reconnect, ReconnectFails, Wake, SleepCancelled, SessionEnds, GetToken
<1>2. CASE Dial \/ SendInit \/ Subscribe \/ RaiseGauge
  BY <1>2 DEF Dial, SendInit, Subscribe, RaiseGauge
<1>3. CASE ReadAck
  BY <1>3 DEF ReadAck, Unwind
<1>4. CASE ReadFrame
  BY <1>4 DEF ReadFrame, Unwind
<1>5. CASE EmitDevice
  BY <1>5 DEF EmitDevice
<1>6. CASE EmitFails
  BY <1>6 DEF EmitFails, Unwind
<1>7. CASE StepFails
  BY <1>7 DEF StepFails, Steps, Unwind
<1>8. CASE LowerGauge \/ CloseNow
  BY <1>8 DEF LowerGauge, CloseNow, TypeOK
<1>9. CASE ServerAcks \/ ServerDrops \/ DeviceChanges \/ Weather \/ Cancel
  BY <1>9 DEF ServerAcks, ServerDrops, DeviceChanges, Weather, Cancel
<1>10. ASSUME NEW f \in {"other"} \cup EndFrames, ServerSends(f) PROVE CleanInv'
  BY <1>10 DEF ServerSends
<1>11. CASE UNCHANGED vars
  BY <1>11 DEF vars
<1> QED
  BY <1>1, <1>2, <1>3, <1>4, <1>5, <1>6, <1>7, <1>8, <1>9, <1>10, <1>11 DEF Next, Client

LEMMA CleanInvariant == Spec => []CleanInv
<1>1. Init => CleanInv
  BY DEF Init, CleanInv, SessionCleansUp, SocketInv, InSession
<1> QED
  BY <1>1, CleanStep, StreamTyped, PTL DEF Spec

\* Whichever way a session ends, the connected gauge is back at 0 and the socket is
\* closed before Run reconnects, sleeps or returns.
THEOREM StreamCleansUp == Spec => []SessionCleansUp
<1>1. CleanInv => SessionCleansUp
  BY DEF CleanInv
<1> QED
  BY <1>1, CleanInvariant, PTL

----------------------------------------------------------------------------
(* The streamed state catches up with the device. *)

Events == {"next0", "next1"}

\* No event of the device is under way.
NoEvents(q) == \A i \in 1 .. Len(q) : q[i] \notin Events

\* The last event under way tells state d.
LastTells(q, d) ==
    \E i \in 1 .. Len(q) :
        q[i] = Next01(d) /\ \A j \in 1 .. Len(q) : j > i => q[j] \notin Events

\* Nothing is sent before the subscription, and the server takes one only after its
\* acknowledgement was read.
BeforeSubscription ==
    /\ srv \in {"open", "inited", "acked"} => ~ heard /\ NoEvents(inbox)
    /\ srv = "subscribed" => pc \in {"connected", "read", "emit", "lower", "close"}

\* The last event under way is the device's state; when there is none, the last one
\* emitted was.
InStep ==
    srv = "subscribed" =>
        \/ LastTells(inbox, dev)
        \/ NoEvents(inbox) /\ (heard => devGauge = dev)

CaughtUpInv == BeforeSubscription /\ InStep

\* Reading a frame that is no event leaves the events under way.
LEMMA SkipFrame ==
    ASSUME NEW q \in Seq(Frames), q # <<>>, Head(q) \notin Events, NEW d \in {0, 1}
    PROVE  /\ NoEvents(q) => NoEvents(Tail(q))
           /\ LastTells(q, d) => LastTells(Tail(q), d)
<1>1. Len(Tail(q)) = Len(q) - 1 /\ Len(q) \in Nat /\ Len(q) >= 1
  OBVIOUS
<1>2. \A i \in 1 .. Len(Tail(q)) : Tail(q)[i] = q[i + 1] /\ i + 1 \in 1 .. Len(q)
  OBVIOUS
<1>3. ASSUME NoEvents(q) PROVE NoEvents(Tail(q))
  BY <1>2, <1>3 DEF NoEvents
<1>4. ASSUME LastTells(q, d) PROVE LastTells(Tail(q), d)
  <2>1. PICK i \in 1 .. Len(q) :
             q[i] = Next01(d) /\ \A j \in 1 .. Len(q) : j > i => q[j] \notin Events
    BY <1>4 DEF LastTells
  <2>2. i # 1
    BY <2>1 DEF Next01, Events
  <2>3. i - 1 \in 1 .. Len(Tail(q)) /\ Tail(q)[i - 1] = q[i]
    BY <1>1, <1>2, <2>2
  <2>4. \A j \in 1 .. Len(Tail(q)) : j > i - 1 => Tail(q)[j] \notin Events
    BY <1>2, <2>1
  <2> QED BY <2>1, <2>3, <2>4 DEF LastTells
<1> QED BY <1>3, <1>4

\* Emitting an event: if it was the last, it told the device's state.
LEMMA TakeEvent ==
    ASSUME NEW q \in Seq(Frames), q # <<>>, NEW d \in {0, 1}, LastTells(q, d)
    PROVE  \/ LastTells(Tail(q), d)
           \/ NoEvents(Tail(q)) /\ Head(q) = Next01(d)
<1>1. Len(Tail(q)) = Len(q) - 1 /\ Len(q) \in Nat /\ Len(q) >= 1
  OBVIOUS
<1>2. \A i \in 1 .. Len(Tail(q)) : Tail(q)[i] = q[i + 1] /\ i + 1 \in 1 .. Len(q)
  OBVIOUS
<1>3. PICK i \in 1 .. Len(q) :
           q[i] = Next01(d) /\ \A j \in 1 .. Len(q) : j > i => q[j] \notin Events
  BY DEF LastTells
<1>4. CASE i = 1
  BY <1>2, <1>3, <1>4 DEF NoEvents
<1>5. CASE i # 1
  <2>1. i - 1 \in 1 .. Len(Tail(q)) /\ Tail(q)[i - 1] = q[i]
    BY <1>1, <1>2, <1>5
  <2>2. \A j \in 1 .. Len(Tail(q)) : j > i - 1 => Tail(q)[j] \notin Events
    BY <1>2, <1>3
  <2> QED BY <1>3, <2>1, <2>2 DEF LastTells
<1> QED BY <1>4, <1>5

\* Sending a frame that is no event leaves the events under way; sending the event of
\* a state makes it the last.
LEMMA SendFrame ==
    ASSUME NEW q \in Seq(Frames), NEW d \in {0, 1}
    PROVE  /\ \A f \in Frames \ Events :
                  /\ NoEvents(q) => NoEvents(Append(q, f))
                  /\ LastTells(q, d) => LastTells(Append(q, f), d)
           /\ LastTells(Append(q, Next01(d)), d)
<1>1. ASSUME NEW f \in Frames
      PROVE  /\ Len(q) \in Nat /\ Len(Append(q, f)) = Len(q) + 1
             /\ Append(q, f)[Len(q) + 1] = f
             /\ \A i \in 1 .. Len(q) : Append(q, f)[i] = q[i]
  OBVIOUS
<1>2. ASSUME NEW f \in Frames \ Events, NoEvents(q) PROVE NoEvents(Append(q, f))
  BY <1>1, <1>2 DEF NoEvents
<1>3. ASSUME NEW f \in Frames \ Events, LastTells(q, d) PROVE LastTells(Append(q, f), d)
  <2>1. PICK i \in 1 .. Len(q) :
             q[i] = Next01(d) /\ \A j \in 1 .. Len(q) : j > i => q[j] \notin Events
    BY <1>3 DEF LastTells
  <2>2. i \in 1 .. Len(Append(q, f)) /\ Append(q, f)[i] = Next01(d)
    BY <1>1, <2>1
  <2>3. \A j \in 1 .. Len(Append(q, f)) : j > i => Append(q, f)[j] \notin Events
    BY <1>1, <2>1
  <2> QED BY <2>2, <2>3 DEF LastTells
<1>4. LastTells(Append(q, Next01(d)), d)
  <2>1. Next01(d) \in Frames
    BY DEF Next01, Frames
  <2> DEFINE r == Append(q, Next01(d))
  <2>2. Len(q) \in Nat /\ Len(r) = Len(q) + 1 /\ r[Len(q) + 1] = Next01(d)
    BY <1>1, <2>1
  <2> HIDE DEF r
  <2>3. LastTells(r, d)
    BY <2>2 DEF LastTells
  <2> QED BY <2>3 DEF r
<1> QED BY <1>2, <1>3, <1>4

LEMMA CaughtUpStep == TypeInv /\ CleanInv /\ CaughtUpInv /\ [Next]_vars => CaughtUpInv'
<1> SUFFICES ASSUME TypeInv, CleanInv, CaughtUpInv, [Next]_vars PROVE CaughtUpInv'
  OBVIOUS
<1>0. inbox \in Seq(Frames) /\ dev \in {0, 1}
  BY DEF TypeInv, TypeOK
<1> USE DEF CaughtUpInv, BeforeSubscription, InStep
<1>1. CASE \/ Reconnect \/ ReconnectFails \/ Wake \/ SleepCancelled \/ SessionEnds
           \/ GetToken \/ RaiseGauge \/ LowerGauge
  BY <1>1 DEF Reconnect, ReconnectFails, Wake, SleepCancelled, SessionEnds, GetToken,
              RaiseGauge, LowerGauge, run, server
<1>2. CASE Dial
  BY <1>2 DEF Dial, NoEvents
<1>3. CASE SendInit
  BY <1>3 DEF SendInit
<1>4. CASE Subscribe
  BY <1>4 DEF Subscribe
<1>5. CASE ReadAck
  <2>1. srv \in {"open", "inited", "acked"} => NoEvents(Tail(inbox))
    <3> SUFFICES ASSUME NoEvents(inbox), inbox # <<>> PROVE NoEvents(Tail(inbox))
      BY <1>5 DEF ReadAck
    <3>1. Head(inbox) \notin Events
      BY <1>0 DEF NoEvents
    <3> QED BY <1>0, <3>1, SkipFrame
  <2> QED BY <1>5, <2>1 DEF ReadAck
<1>6. CASE ReadFrame
  <2>1. CASE Head(inbox) \in Events
    <3>1. pc = "read" /\ pc' = "emit" /\ UNCHANGED <<inbox, srv, dev, heard, devGauge>>
      BY <1>6, <2>1 DEF ReadFrame, Events, EndFrames
    <3> QED BY <3>1
  <2>2. CASE Head(inbox) \notin Events
    <3>1. inbox' = Tail(inbox) /\ inbox # <<>> /\ UNCHANGED <<srv, dev, heard, devGauge>>
      BY <1>6, <2>2 DEF ReadFrame, Events
    <3>2. pc' \in {"read", "lower"}
      BY <1>6, <2>2 DEF ReadFrame, Events, Unwind
    <3> QED BY <1>0, <2>2, <3>1, <3>2, SkipFrame
  <2> QED BY <2>1, <2>2
<1>7. CASE EmitDevice
  <2>1. inbox # <<>> /\ Head(inbox) \in Events
    BY <1>7 DEF EmitDevice, TypeInv, Emitting, Events
  <2>2. ~ NoEvents(inbox)
    BY <1>0, <2>1 DEF NoEvents
  <2>3. ASSUME srv = "subscribed"
        PROVE  \/ LastTells(Tail(inbox), dev)
               \/ NoEvents(Tail(inbox)) /\ Head(inbox) = Next01(dev)
    <3>1. LastTells(inbox, dev)
      BY <2>2, <2>3
    <3> QED BY <1>0, <2>1, <3>1, TakeEvent
  <2>4. srv \notin {"open", "inited", "acked"}
    BY <2>2
  <2> QED BY <1>0, <1>7, <2>3, <2>4 DEF EmitDevice, Next01
<1>8. CASE EmitFails
  <2>1. inbox # <<>> /\ Head(inbox) \in Events
    BY <1>8 DEF EmitFails, TypeInv, Emitting, Events
  <2>2. ~ NoEvents(inbox)
    BY <1>0, <2>1 DEF NoEvents
  <2> QED BY <1>8, <2>2 DEF EmitFails, server, Unwind
<1>9. CASE StepFails
  <2>1. UNCHANGED <<srv, inbox, dev, heard, devGauge>>
    BY <1>9 DEF StepFails, server
  <2>2. srv = "subscribed" => pc' \in {"lower", "close"}
    BY <1>9 DEF StepFails, Steps, Unwind, CleanInv, SocketInv, InSession
  <2> QED BY <2>1, <2>2
<1>10. CASE CloseNow
  BY <1>10 DEF CloseNow
<1>11. CASE ServerAcks
  <2>1. "ack" \in Frames \ Events
    BY DEF Frames, Events
  <2> QED BY <1>0, <1>11, <2>1, SendFrame DEF ServerAcks, Send
<1>12. ASSUME NEW f \in {"other"} \cup EndFrames, ServerSends(f) PROVE CaughtUpInv'
  <2>1. f \in Frames \ Events
    BY DEF Frames, Events, EndFrames
  <2> QED BY <1>0, <1>12, <2>1, SendFrame DEF ServerSends, Send
<1>13. CASE ServerDrops
  BY <1>13 DEF ServerDrops
<1>14. CASE DeviceChanges
  <2>1. dev' \in {0, 1}
    BY <1>0, <1>14 DEF DeviceChanges
  <2> QED BY <1>0, <1>14, <2>1, SendFrame DEF DeviceChanges, Send
<1>15. CASE Weather \/ Cancel
  BY <1>15 DEF Weather, Cancel, server
<1>16. CASE UNCHANGED vars
  BY <1>16 DEF vars
<1> QED
  BY <1>1, <1>2, <1>3, <1>4, <1>5, <1>6, <1>7, <1>8, <1>9, <1>10, <1>11, <1>12, <1>13,
     <1>14, <1>15, <1>16 DEF Next, Client

\* Once an event of the session was emitted and none is under way, the streamed gauge
\* is the device's state, however events, other frames and failures interleave.
THEOREM StreamCatchesUp == Spec => []StreamCaughtUp
<1>1. Init => CaughtUpInv
  BY DEF Init, CaughtUpInv, BeforeSubscription, InStep
<1>2. CaughtUpInv => StreamCaughtUp
  BY DEF CaughtUpInv, InStep, LastTells, StreamCaughtUp
<1> QED
  BY <1>1, <1>2, CaughtUpStep, TypeInvariant, CleanInvariant, PTL DEF Spec
=============================================================================
