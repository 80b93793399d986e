-------------------------- MODULE LensClientProofs --------------------------
(***************************************************************************)
(* Proofs about LensClient for any callers, token lifetimes, margin and    *)
(* retry budget.  How long do() sleeps does not matter to the token cache; *)
(* that it is a number of ticks is proved by minimal counterexample, what  *)
(* number in LensStreamProofs.                                             *)
(***************************************************************************)
EXTENDS LensClient, Integers, WellFoundedInduction, NaturalsInduction, TLAPS

\* The part of the type invariant the token cache depends on.
CacheType ==
    /\ mu \in Callers \cup {NoCaller}
    /\ ttl \in Nat
    /\ at \in [Callers -> {"idle", "lock", "mint", "query"}]

\* The cache stays stale for as long as a token request holds the mutex: only
\* the holder writes it, and time only makes it staler.
StaleWhileMinting == mu # NoCaller => ~ fresh(ttl)

CacheInv == CacheType /\ OneMintAtATime /\ StaleWhileMinting

\* One step of any caller, of time or of the context preserves the invariant, and
\* replaces a token only when fewer ticks than the margin are left of it.
LEMMA CacheStep ==
    ASSUME CacheInv, [Next]_vars
    PROVE  CacheInv' /\ (ttl' > ttl => ~ fresh(ttl))
<1> USE CallersAssumption, LifetimesAssumption
       DEF CacheInv, CacheType, OneMintAtATime, StaleWhileMinting, fresh
<1> DEFINE Goal == CacheInv' /\ (ttl' > ttl => ~ fresh(ttl))
<1>1. ASSUME NEW c \in Callers, Query(c) PROVE Goal
  BY <1>1 DEF Query
<1>2. ASSUME NEW c \in Callers, UseCached(c) PROVE Goal
  BY <1>2 DEF UseCached, HandOut, StartDo
<1>3. ASSUME NEW c \in Callers, StartMint(c) PROVE Goal
  BY <1>3 DEF StartMint, StartDo
<1>4. ASSUME NEW c \in Callers, MintSucceeds(c) PROVE Goal
  BY <1>4 DEF MintSucceeds, HandOut, StartDo
<1>5. ASSUME NEW c \in Callers, MintEmitFails(c) PROVE Goal
  BY <1>5 DEF MintEmitFails, Return
<1>6. ASSUME NEW c \in Callers, Retry(c) \/ Wake(c) PROVE Goal
  BY <1>6 DEF Retry, Wake
<1>7. ASSUME NEW c \in Callers, RequestFails(c) PROVE Goal
  BY <1>7 DEF RequestFails, Return
<1>8. ASSUME NEW c \in Callers, QuerySucceeds(c) PROVE Goal
  BY <1>8 DEF QuerySucceeds, Return
<1>9. ASSUME Cancel \/ Tick PROVE Goal
  BY <1>9 DEF Cancel, Tick, Less
<1>10. ASSUME UNCHANGED vars PROVE Goal
  BY <1>10 DEF vars
<1> QED
  BY <1>1, <1>2, <1>3, <1>4, <1>5, <1>6, <1>7, <1>8, <1>9, <1>10
     DEF Next, Locked, Attempt

\* For any number of callers: the mutex is held by exactly the caller whose token
\* request is under way, so token requests never overlap and never leak the lock.
THEOREM SingleMint == Spec => []OneMintAtATime
<1>1. Init => CacheInv
  BY CallersAssumption
     DEF Init, CacheInv, CacheType, OneMintAtATime, StaleWhileMinting
<1>2. CacheInv /\ [Next]_vars => CacheInv'
  BY CacheStep
<1>3. CacheInv => OneMintAtATime
  BY DEF CacheInv
<1> QED
  BY <1>1, <1>2, <1>3, PTL DEF Spec

\* For any number of callers: a token with more than the margin left is never
\* replaced, so callers that queue for the mutex share one token request.
THEOREM GoodTokenKept == Spec => NoNeedlessMint
<1>1. Init => CacheInv
  BY CallersAssumption
     DEF Init, CacheInv, CacheType, OneMintAtATime, StaleWhileMinting
<1>2. CacheInv /\ [Next]_vars => CacheInv'
  BY CacheStep
<1>3. CacheInv /\ [Next]_vars => [ttl' > ttl => ttl <= Margin]_vars
  BY CacheStep, LifetimesAssumption DEF CacheInv, CacheType, fresh
<1> QED
  BY <1>1, <1>2, <1>3, PTL DEF Spec, NoNeedlessMint

----------------------------------------------------------------------------
(* The retry loop. *)

DelayTurn(d, k, min, max) == IF k = 1 THEN min ELSE DoubleUpTo(d[k - 1], max)

\* The doubling loop yields a delay for every number of turns: there is no least number
\* for which it does not.
LEMMA DelaysExist ==
    ASSUME NEW min \in Nat, NEW max \in Nat, NEW n \in Nat
    PROVE  \E d \in [1 .. n -> Nat] : \A k \in 1 .. n : d[k] = DelayTurn(d, k, min, max)
<1> DEFINE Turns(m) == \E d \in [1 .. m -> Nat] :
                           \A k \in 1 .. m : d[k] = DelayTurn(d, k, min, max)
           Bad == {m \in Nat : ~ Turns(m)}
           less == OpToRel(<, Nat)
<1> SUFFICES ASSUME Bad # {} PROVE FALSE
  OBVIOUS
<1>1. PICK m \in Bad : \A y \in Bad : ~ (y < m)
  <2>1. IsWellFoundedOn(less, Nat) /\ Bad \subseteq Nat
    BY NatLessThanWellFounded
  <2>2. \A x, y \in Bad : y < x => <<y, x>> \in less
    BY DEF OpToRel
  <2> HIDE DEF less, Bad
  <2>3. PICK x \in Bad : \A y \in Bad : ~ (<<y, x>> \in less)
    BY <2>1, WFMin
  <2> QED BY <2>2, <2>3
<1>2. m # 0
  <2> DEFINE e == [k \in 1 .. 0 |-> 0]
  <2>1. e \in [1 .. 0 -> Nat] /\ \A k \in 1 .. 0 : e[k] = DelayTurn(e, k, min, max)
    OBVIOUS
  <2> HIDE DEF e
  <2>2. Turns(0)
    BY <2>1
  <2> QED BY <2>2
<1>3. Turns(m - 1)
  <2>1. m \in Nat
    OBVIOUS
  <2>2. m - 1 \in Nat /\ m - 1 < m
    BY <1>2, <2>1
  <2> QED BY <1>1, <2>2
<1>4. PICK d \in [1 .. m - 1 -> Nat] : \A k \in 1 .. m - 1 : d[k] = DelayTurn(d, k, min, max)
  BY <1>3
<1> DEFINE e == [k \in 1 .. m |-> IF k = m THEN DelayTurn(d, m, min, max) ELSE d[k]]
<1>5. e \in [1 .. m -> Nat]
  BY <1>2, <1>4 DEF DoubleUpTo, DelayTurn
<1>6. \A k \in 1 .. m : e[k] = DelayTurn(e, k, min, max)
  BY <1>2, <1>4 DEF DelayTurn
<1> QED
  BY <1>5, <1>6

LEMMA BackoffTyped ==
    ASSUME NEW min \in Nat, NEW max \in Nat, NEW n \in Nat \ {0}
    PROVE  backoff(min, max, n) \in 0 .. max
<1> DEFINE D == CHOOSE d : d = [k \in 1 .. n |-> DelayTurn(d, k, min, max)]
<1>1. PICK d \in [1 .. n -> Nat] : \A k \in 1 .. n : d[k] = DelayTurn(d, k, min, max)
  BY DelaysExist
<1>2. d = [k \in 1 .. n |-> DelayTurn(d, k, min, max)]
  BY <1>1
<1>3. D = [k \in 1 .. n |-> DelayTurn(D, k, min, max)]
  BY <1>2
<1>4. backoff(min, max, n) = AtMost(D[n], max)
  BY DEF backoff, DelayTurn
<1> HIDE DEF D
<1> DEFINE Bad == {k \in 1 .. n : D[k] \notin Nat}
           less == OpToRel(<, Nat)
<1>5. Bad = {}
  <2> SUFFICES ASSUME Bad # {} PROVE FALSE
    OBVIOUS
  <2>1. IsWellFoundedOn(less, Nat)
    BY NatLessThanWellFounded
  <2>a. Bad \subseteq Nat
    OBVIOUS
  <2>2. \A x, y \in Bad : y < x => <<y, x>> \in less
    BY DEF OpToRel
  <2>3. PICK k \in Bad : \A y \in Bad : ~ (<<y, k>> \in less)
    <3> HIDE DEF less, Bad
    <3> QED BY <2>1, <2>a, WFMin
  <2>4. k \in 1 .. n /\ D[k] \notin Nat /\ D[k] = DelayTurn(D, k, min, max)
    BY <1>3
  <2>5. k # 1
    BY <2>4 DEF DelayTurn
  <2>6. k - 1 \in 1 .. n /\ k - 1 < k
    BY <2>4, <2>5
  <2>7. D[k - 1] \in Nat
    BY <2>2, <2>3, <2>6
  <2> QED BY <2>4, <2>5, <2>7 DEF DelayTurn, DoubleUpTo
<1>6. D[n] \in Nat
  BY <1>5
<1> QED
  BY <1>4, <1>6 DEF AtMost

\* do() sleeps only between two attempts it may make.
AttemptInv ==
    \A c \in Callers :
        /\ sleeping[c] => at[c] \in {"mint", "query"} /\ attempt[c] < MaxAttempts
        /\ at[c] \in {"mint", "query"} => attempt[c] >= 1

\* What a token from the cache has left and how long it has been used add up to
\* more than the margin it had when it was taken.
LiveInv ==
    \A c \in Callers :
        at[c] = "query" /\ cached[c] /\ age[c] <= Margin => held[c] + age[c] > Margin

LoopInv == TypeOK /\ AttemptInv /\ LiveInv

LEMMA LoopStep == LoopInv /\ [Next]_vars => LoopInv'
<1> SUFFICES ASSUME LoopInv, [Next]_vars PROVE LoopInv'
  OBVIOUS
<1> USE CallersAssumption, AttemptsAssumption, BackoffAssumption, LifetimesAssumption
<1> USE DEF LoopInv, TypeOK, AttemptInv, LiveInv, MaxAge
<1>1. ASSUME NEW c \in Callers, Query(c) PROVE LoopInv'
  BY <1>1 DEF Query
<1>2. ASSUME NEW c \in Callers, UseCached(c) PROVE LoopInv'
  BY <1>2 DEF UseCached, HandOut, StartDo, fresh
<1>3. ASSUME NEW c \in Callers, StartMint(c) PROVE LoopInv'
  BY <1>3 DEF StartMint, StartDo
<1>4. ASSUME NEW c \in Callers, MintSucceeds(c) PROVE LoopInv'
  BY <1>4 DEF MintSucceeds, HandOut, StartDo
<1>5. ASSUME NEW c \in Callers, MintEmitFails(c) PROVE LoopInv'
  BY <1>5 DEF MintEmitFails, Return
<1>6. ASSUME NEW c \in Callers, Retry(c) PROVE LoopInv'
  <2> DEFINE delay == backoff(MinBackoff, MaxBackoff, attempt[c])
  <2>1. attempt[c] \in Nat \ {0}
    BY <1>6 DEF Retry
  <2>2. delay \in Nat
    <3>1. delay \in 0 .. MaxBackoff
      BY ONLY <2>1, BackoffAssumption, BackoffTyped
    <3> HIDE DEF delay
    <3> QED BY ONLY <3>1, BackoffAssumption
  <2>3. wait' = [wait EXCEPT ![c] = delay]
    BY <1>6 DEF Retry
  <2> HIDE DEF delay
  <2> QED BY <1>6, <2>2, <2>3 DEF Retry
<1>7. ASSUME NEW c \in Callers, Wake(c) PROVE LoopInv'
  BY <1>7 DEF Wake
<1>8. ASSUME NEW c \in Callers, RequestFails(c) PROVE LoopInv'
  BY <1>8 DEF RequestFails, Return
<1>9. ASSUME NEW c \in Callers, QuerySucceeds(c) PROVE LoopInv'
  BY <1>9 DEF QuerySucceeds, Return
<1>10. CASE Cancel
  BY <1>10 DEF Cancel
<1>11. CASE Tick
  <2>1. TypeOK' /\ AttemptInv'
    BY <1>11 DEF Tick, Less
  <2>2. LiveInv'
    BY <1>11 DEF Tick, Less
  <2> QED BY <2>1, <2>2
<1>12. CASE UNCHANGED vars
  BY <1>12 DEF vars
<1> QED
  BY <1>1, <1>2, <1>3, <1>4, <1>5, <1>6, <1>7, <1>8, <1>9, <1>10, <1>11, <1>12
     DEF Next, Locked, Attempt

LEMMA LoopInvariant == Spec => []LoopInv
<1>1. ASSUME Init PROVE LoopInv
  <2>1. 0 \in 0 .. MaxAttempts /\ 0 \in 0 .. MaxAge
    BY AttemptsAssumption, LifetimesAssumption DEF MaxAge
  <2>2. TypeOK
    BY <1>1, <2>1 DEF Init, TypeOK
  <2>3. AttemptInv /\ LiveInv
    BY <1>1 DEF Init, AttemptInv, LiveInv
  <2> QED BY <2>2, <2>3 DEF LoopInv
<1> QED
  BY <1>1, LoopStep, PTL DEF Spec

\* For any retry budget and backoff: do() makes at most MaxAttempts attempts for every
\* request, whether of a token or of a query.
THEOREM AttemptsBounded == Spec => []TypeOK
<1>1. LoopInv => TypeOK
  BY DEF LoopInv
<1> QED
  BY <1>1, LoopInvariant, PTL

\* For any margin and lifetimes: however its retries and the clock interleave, no GraphQL
\* attempt within the margin carries an expired token from the cache.
THEOREM CachedTokenLives == Spec => []TokenLiveWithinMargin
<1>1. LoopInv => TokenLiveWithinMargin
  BY LifetimesAssumption DEF LoopInv, TypeOK, LiveInv, TokenLiveWithinMargin, MaxAge
<1> QED
  BY <1>1, LoopInvariant, PTL
=============================================================================
