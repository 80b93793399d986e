----------------------------- MODULE LensClient -----------------------------
(***************************************************************************)
(* The Lens API client (internal/lensclient/client.go): an access-token    *)
(* cache shared by the collector goroutines, guarded by one mutex that is  *)
(* held across the whole token request, and the retry loop do() that both  *)
(* the token request and the GraphQL request go through.                   *)
(*                                                                         *)
(* Query(document) that contains a mutation is rejected before anything    *)
(* else and changes nothing; request and response bodies are abstracted to *)
(* how do() and its callers classify them.  AccessToken, the entry of the  *)
(* device stream, is a Query whose GraphQL request returns at once.  Time  *)
(* passes in ticks; a token is the number of ticks it has left.            *)
(***************************************************************************)
EXTENDS Naturals, Backoff

CONSTANTS
    Callers,        \* goroutines that call Query
    MaxAttempts,    \* cfg.MaxAttempts
    MinBackoff,     \* cfg.MinBackoff, in ticks
    MaxBackoff,     \* cfg.MaxBackoff, in ticks
    Margin,         \* the minute a cached token must still have, in ticks
    Lifetimes,      \* values of expires_in the service may return, in ticks
    NoCaller        \* the mutex is free

ASSUME CallersAssumption == NoCaller \notin Callers
ASSUME AttemptsAssumption == MaxAttempts \in Nat \ {0}
ASSUME BackoffAssumption ==
    MinBackoff \in Nat /\ MaxBackoff \in Nat /\ MinBackoff <= MaxBackoff
ASSUME LifetimesAssumption ==
    Margin \in Nat /\ Lifetimes \subseteq Nat \ {0} /\ Lifetimes # {}

VARIABLES
    mu,         \* the caller that holds the mutex
    ttl,        \* ticks the cached token has left; 0 when there is none
    at,         \* at[c]: what caller c is doing
    sleeping,   \* sleeping[c]: do() is between two attempts
    attempt,    \* attempt[c]: the attempt do() is at
    wait,       \* wait[c]: ticks of backoff left
    held,       \* held[c]: ticks the token c sends has left
    age,        \* age[c]: ticks since accessToken returned it
    cached,     \* cached[c]: that token came from the cache
    cancelled   \* the context all callers share is done

vars == <<mu, ttl, at, sleeping, attempt, wait, held, age, cached, cancelled>>

\* age is only told apart up to this bound.
MaxAge == Margin + 1

----------------------------------------------------------------------------

Init ==
    /\ mu = NoCaller
    /\ ttl = 0
    /\ at = [c \in Callers |-> "idle"]
    /\ sleeping = [c \in Callers |-> FALSE]
    /\ attempt = [c \in Callers |-> 0]
    /\ wait = [c \in Callers |-> 0]
    /\ held = [c \in Callers |-> 0]
    /\ age = [c \in Callers |-> 0]
    /\ cached = [c \in Callers |-> FALSE]
    /\ cancelled = FALSE

\* A token is used to its last tick: the one-minute margin is forgotten.
fresh_noMargin(t) == t > 0

\* now + 1 minute is before expiresAt.
fresh(t) == t > Margin

\* do() begins: attempt 1.
StartDo(c, what) ==
    /\ at' = [at EXCEPT ![c] = what]
    /\ attempt' = [attempt EXCEPT ![c] = 1]

\* accessToken returns a token with t ticks left and the GraphQL request goes out.
HandOut(c, t, fromCache) ==
    /\ StartDo(c, "query")
    /\ cached' = [cached EXCEPT ![c] = fromCache]
    /\ held' = [held EXCEPT ![c] = t]
    /\ age' = [age EXCEPT ![c] = 0]

\* Query returns to its caller.
Return(c) ==
    /\ at' = [at EXCEPT ![c] = "idle"]
    /\ cached' = [cached EXCEPT ![c] = FALSE]
    /\ attempt' = [attempt EXCEPT ![c] = 0]
    /\ held' = [held EXCEPT ![c] = 0]
    /\ age' = [age EXCEPT ![c] = 0]

Query(c) ==
    /\ at[c] = "idle"
    /\ at' = [at EXCEPT ![c] = "lock"]
    /\ UNCHANGED <<mu, ttl, sleeping, attempt, wait, held, age, cached, cancelled>>

\* mu.Lock() with a fresh token in the cache: returned and unlocked at once.
UseCached(c) ==
    /\ at[c] = "lock" /\ mu = NoCaller
    /\ fresh(ttl)
    /\ HandOut(c, ttl, TRUE)
    /\ UNCHANGED <<mu, ttl, sleeping, wait, cancelled>>

\* The cache is looked at before the mutex is taken.
StartMint_unlocked(c) ==
    /\ at[c] = "lock"
    /\ ~ fresh(ttl)
    /\ mu' = c
    /\ StartDo(c, "mint")
    /\ UNCHANGED <<ttl, sleeping, wait, held, age, cached, cancelled>>

\* mu.Lock() with a missing or stale token: the token request is sent, the
\* mutex stays locked.
StartMint(c) ==
    /\ at[c] = "lock" /\ mu = NoCaller
    /\ ~ fresh(ttl)
    /\ mu' = c
    /\ StartDo(c, "mint")
    /\ UNCHANGED <<ttl, sleeping, wait, held, age, cached, cancelled>>

\* The token response is good: cached, unlocked, used.
MintSucceeds(c) ==
    /\ at[c] = "mint" /\ ~ sleeping[c]
    /\ mu' = NoCaller
    /\ \E life \in Lifetimes : ttl' = life /\ HandOut(c, life, FALSE)
    /\ UNCHANGED <<sleeping, wait, cancelled>>

\* The token is cached, but emitting the refresh metrics fails.
MintEmitFails(c) ==
    /\ at[c] = "mint" /\ ~ sleeping[c]
    /\ mu' = NoCaller
    /\ \E life \in Lifetimes : ttl' = life
    /\ Return(c)
    /\ UNCHANGED <<sleeping, wait, cancelled>>

\* Retries without counting them.
Retry_unbounded(c) ==
    /\ at[c] \in {"mint", "query"} /\ ~ sleeping[c]
    /\ sleeping' = [sleeping EXCEPT ![c] = TRUE]
    /\ wait' = [wait EXCEPT ![c] = MinBackoff]
    /\ UNCHANGED <<mu, ttl, at, attempt, held, age, cached, cancelled>>

\* A retryable error with attempts left: do() sleeps.
Retry(c) ==
    /\ at[c] \in {"mint", "query"} /\ ~ sleeping[c]
    /\ attempt[c] < MaxAttempts
    /\ sleeping' = [sleeping EXCEPT ![c] = TRUE]
    /\ wait' = [wait EXCEPT ![c] = backoff(MinBackoff, MaxBackoff, attempt[c])]
    /\ UNCHANGED <<mu, ttl, at, attempt, held, age, cached, cancelled>>

\* The backoff timer fires: next attempt, with the token of the first.
Wake(c) ==
    /\ sleeping[c] /\ wait[c] = 0
    /\ sleeping' = [sleeping EXCEPT ![c] = FALSE]
    /\ attempt' = [attempt EXCEPT ![c] = @ + 1]
    /\ UNCHANGED <<mu, ttl, at, wait, held, age, cached, cancelled>>

\* The mutex is left locked when the token request fails.
RequestFails_keepLock(c) ==
    /\ at[c] \in {"mint", "query"}
    /\ sleeping[c] => cancelled
    /\ sleeping' = [sleeping EXCEPT ![c] = FALSE]
    /\ wait' = [wait EXCEPT ![c] = 0]
    /\ Return(c)
    /\ UNCHANGED <<mu, ttl, cancelled>>

\* A final or last error, a token response without a usable token, or
\* cancellation during the backoff: the error is returned and mu released.
RequestFails(c) ==
    /\ at[c] \in {"mint", "query"}
    /\ sleeping[c] => cancelled
    /\ sleeping' = [sleeping EXCEPT ![c] = FALSE]
    /\ wait' = [wait EXCEPT ![c] = 0]
    /\ mu' = IF mu = c THEN NoCaller ELSE mu
    /\ Return(c)
    /\ UNCHANGED <<ttl, cancelled>>

\* 2xx: decoded (well or badly), Query returns.
QuerySucceeds(c) ==
    /\ at[c] = "query" /\ ~ sleeping[c]
    /\ Return(c)
    /\ UNCHANGED <<mu, ttl, sleeping, wait, cancelled>>

Cancel ==
    /\ ~ cancelled
    /\ cancelled' = TRUE
    /\ UNCHANGED <<mu, ttl, at, sleeping, attempt, wait, held, age, cached>>

Less(n) == IF n = 0 THEN 0 ELSE n - 1

Tick ==
    /\ ttl' = Less(ttl)
    /\ wait' = [c \in Callers |-> Less(wait[c])]
    /\ held' = [c \in Callers |-> Less(held[c])]
    /\ age' = [c \in Callers |-> IF at[c] = "query" /\ age[c] < MaxAge
                                 THEN age[c] + 1 ELSE age[c]]
    /\ UNCHANGED <<mu, at, sleeping, attempt, cached, cancelled>>

Locked(c) == UseCached(c) \/ StartMint(c)

Attempt(c) ==
    \/ MintSucceeds(c) \/ MintEmitFails(c) \/ QuerySucceeds(c)
    \/ Retry(c) \/ Wake(c) \/ RequestFails(c)

Next ==
    \/ \E c \in Callers : Query(c) \/ Locked(c) \/ Attempt(c)
    \/ Cancel
    \/ Tick

Spec == Init /\ [][Next]_vars

\* http.Client.Timeout ends every request, timers fire, and sync.Mutex does not
\* starve a waiter (its starvation mode hands the lock over in FIFO order).
Fairness ==
    /\ WF_vars(Tick)
    /\ \A c \in Callers : SF_vars(Locked(c)) /\ WF_vars(Attempt(c))

FairSpec == Spec /\ Fairness

----------------------------------------------------------------------------
(* Properties. *)

\* Every variable has its type; do() never makes more than MaxAttempts attempts.
TypeOK ==
    /\ mu \in Callers \cup {NoCaller}
    /\ ttl \in Nat
    /\ at \in [Callers -> {"idle", "lock", "mint", "query"}]
    /\ sleeping \in [Callers -> BOOLEAN]
    /\ attempt \in [Callers -> 0 .. MaxAttempts]
    /\ wait \in [Callers -> Nat]
    /\ held \in [Callers -> Nat]
    /\ age \in [Callers -> 0 .. MaxAge]
    /\ cached \in [Callers -> BOOLEAN]
    /\ cancelled \in BOOLEAN

\* The mutex is held by exactly the caller whose token request is under way:
\* no two token requests overlap and no error path leaves accessToken locked.
OneMintAtATime ==
    \A c \in Callers : at[c] = "mint" <=> mu = c

\* A good token is never replaced: callers that queue behind a token request
\* find its token instead of requesting one of their own.
NoNeedlessMint == [][ttl' > ttl => ttl <= Margin]_vars

\* A token from the cache survives a whole margin of retries: no GraphQL attempt
\* sent within it carries an expired token.  (A token just requested may have a
\* shorter life than the margin and is used all the same.)
TokenLiveWithinMargin ==
    \A c \in Callers :
        at[c] = "query" /\ cached[c] /\ age[c] <= Margin => held[c] > 0

\* Every Query returns: neither a failing token request, nor waiting for the mutex,
\* nor cancellation at any point leaves a caller stuck.
QueryReturns == \A c \in Callers : at[c] # "idle" ~> at[c] = "idle"
=============================================================================
