------------------------- MODULE PhoneTargetProofs -------------------------
(***************************************************************************)
(* Proofs about PhoneTarget, and the PhoneClient it is composed with, for  *)
(* any phones, addresses, callers, policies and inventories.               *)
(***************************************************************************)
EXTENDS PhoneTarget, FiniteSetTheorems, TLAPS

Live(c) == c.pc \in {"dial", "sent"}

\* The bodies a call holds are those whose close is deferred: Probe's first response,
\* from the refusal on.
Balanced(c) ==
    /\ c.open = c.deferred
    /\ c.deferred = IF Live(c) /\ c.op = "probe" /\ c.stage # "first" THEN 1 ELSE 0

\* A call has a phone and its client, a digest only in its last stage, and is connected
\* only to a host that its client has verified.
GoodCall(c, clients) ==
    /\ c \in CallRecord
    /\ Balanced(c)
    /\ c.pc # "idle" => c.phone \in Phones /\ clients[c.phone] # NoClient
    /\ c.auth # NoAuth => Live(c) /\ c.stage = "auth"
    /\ c.pc = "sent" => c.peer \in Hosts /\ VerifyConnection(c.peer, clients[c.phone])

CallsInv == \A o \in Callers : GoodCall(call[o], client)

\* A client expects its own phone, with the chain checks of the configuration, and is
\* connected to no host that it has not verified.
ClientsInv ==
    \A p \in Phones :
        /\ client[p] # NoClient =>
              client[p].wantCN = p /\ client[p].verifyChain = setup.verifyChain
        /\ conn[p] # Nobody => client[p] # NoClient /\ VerifyConnection(conn[p], client[p])

Busy == {"source", "family", "policies", "value", "build", "probe"}

\* Resolve is the only caller until it is done, and calls only while it probes.
ResolverInv ==
    /\ rpc # "probe" => call[Resolver].pc = "idle"
    /\ rpc = "probe" => call[Resolver].pc # "idle" /\ call[Resolver].phone = Here
    /\ rpc # "done" => \A o \in Collectors : call[o].pc = "idle"
    /\ rpc \in Busy => at <= Len(inventory) /\ TargetAddress(inventory[at]) # ""
    /\ rpc = "value" => policyID \in DOMAIN Policies

CoreInv == TypeOK /\ CallsInv /\ ClientsInv /\ ResolverInv

\* What a call that saw no change knows of its phone.
Truth(o) ==
    LET c == call[o]
        s == device[c.phone]
    IN  /\ Live(c) /\ c.stage # "first" => Reachable(c.phone) /\ s.mode = "secure"
        /\ Live(c) /\ c.stage = "challenge" /\ c.op = "probe" => s.challenge # NoChallenge
        /\ Live(c) /\ c.stage = "auth" =>
              /\ Answerable(s.challenge)
              /\ c.auth = digestAuthorization(s.challenge, client[c.phone], o)
              /\ c.auth # NoAuth => o \in nonces[c.phone]

WithAddress(n) ==
    {inventory[i].phone : i \in {j \in 1 .. n : TargetAddress(inventory[j]) # ""}}

\* The targets are the phones passed so far that have an address.
TargetsInv == rpc # "failed" => targets = WithAddress(at - 1)

Undisturbed == untouched /\ FromLensPolicy /\ LensQuery

\* The source read is where policy i, which is deployed to the phone, is deployed, and
\* its scope can be asked for.
SourceOf(i) ==
    /\ AppliesTo(i, Here)
    /\ source = [scope |-> Policies[i].scope, collection |-> Policies[i].collection]
    /\ Policies[i].scope \in SupportedScopes

\* What the queries of a lookup have found so far; only that the source is still the one
\* Lens names, and its policy the winner, depends on Lens not changing in between.
LookupInv ==
    /\ rpc \in {"family", "policies"} =>
          \E i \in DOMAIN Policies : SourceOf(i) /\ (Undisturbed => Named(Here) = {i})
    /\ rpc = "family" => "family" \in Selectors[source.scope]
    /\ rpc = "policies" /\ "family" \in Selectors[source.scope] =>
          family = Traits[Here].family
    /\ rpc \in {"family", "policies", "value"} => inventory[at].identified
    /\ rpc = "value" =>
          /\ AppliesTo(policyID, Here)
          /\ Undisturbed =>
                Winner(Here) = IF values[policyID] \in {"", Unset} THEN {} ELSE {policyID}

----------------------------------------------------------------------------
(* Calls. *)

Results == {"ok", "api_disabled", "auth_failed", "unreachable", "error"}

\* A caller without a call, and one that has just started.
LEMMA StartGood ==
    /\ \A cl : GoodCall(Idle, cl)
    /\ Idle.pc = "idle"
    /\ \A op \in Ops, p \in Phones :
          /\ Started(op, p).pc = "dial" /\ Started(op, p).phone = p
          /\ Started(op, p).stage = "first"
          /\ \A cl : cl[p] # NoClient => GoodCall(Started(op, p), cl)
<1>0. 0 \in BodyCounts
  BY DEF BodyCounts
<1>1. Idle \in CallRecord
  BY <1>0 DEF Idle, CallRecord, Ops
<1>2. ASSUME NEW cl PROVE GoodCall(Idle, cl)
  BY <1>1 DEF GoodCall, Balanced, Live, Idle
<1>3. ASSUME NEW op \in Ops, NEW p \in Phones
      PROVE  /\ Started(op, p) \in CallRecord
             /\ Started(op, p).pc = "dial" /\ Started(op, p).phone = p
             /\ Started(op, p).stage = "first" /\ Started(op, p).auth = NoAuth
             /\ Started(op, p).open = 0 /\ Started(op, p).deferred = 0
  <2> DEFINE start == [Idle EXCEPT !.pc = "dial", !.op = op, !.phone = p]
  <2>1. start \in CallRecord
    BY <1>1 DEF CallRecord
  <2>2. /\ start.pc = "dial" /\ start.phone = p /\ start.stage = "first"
        /\ start.auth = NoAuth /\ start.open = 0 /\ start.deferred = 0
    BY DEF Idle
  <2> QED BY <2>1, <2>2 DEF Started
<1>4. ASSUME NEW op \in Ops, NEW p \in Phones, NEW cl, cl[p] # NoClient
      PROVE  GoodCall(Started(op, p), cl)
  BY <1>3, <1>4 DEF GoodCall, Balanced, Live
<1> QED
  BY <1>2, <1>3, <1>4 DEF Idle

\* A call that returns has closed its bodies and forgotten its digest.
LEMMA ReturnGood ==
    ASSUME NEW cl, NEW c \in CallRecord, c.open = c.deferred, NEW r \in Results,
           c.phone \in Phones, cl[c.phone] # NoClient
    PROVE  /\ GoodCall(Returned(c, r), cl)
           /\ Returned(c, r).pc = "returned" /\ Returned(c, r).phone = c.phone
           /\ Returned(c, r).op = c.op /\ Returned(c, r).result = r
           /\ Returned(c, r).steady = c.steady
<1>1. c.open - c.deferred = 0 /\ 0 \in BodyCounts
  <2>1. c.open \in BodyCounts
    BY DEF CallRecord
  <2> QED BY <2>1 DEF BodyCounts
<1>2. Returned(c, r) \in CallRecord
  BY <1>1 DEF Returned, CallRecord, Results
<1>3. /\ Returned(c, r).open = 0 /\ Returned(c, r).deferred = 0
      /\ Returned(c, r).auth = NoAuth
  BY <1>1 DEF Returned, CallRecord
<1>4. /\ Returned(c, r).pc = "returned" /\ Returned(c, r).phone = c.phone
      /\ Returned(c, r).op = c.op /\ Returned(c, r).result = r
      /\ Returned(c, r).steady = c.steady
  BY DEF Returned, CallRecord
<1> QED
  BY <1>2, <1>3, <1>4 DEF GoodCall, Balanced, Live

\* Holding a response counts it twice: open, and to be closed.
LEMMA HeldGood ==
    ASSUME NEW c \in CallRecord, c.open \in 0 .. 1, c.deferred = c.open
    PROVE  /\ Held(c) \in CallRecord
           /\ Held(c).open = c.open + 1 /\ Held(c).deferred = c.open + 1
           /\ Held(c).pc = c.pc /\ Held(c).phone = c.phone /\ Held(c).op = c.op
           /\ Held(c).stage = c.stage /\ Held(c).steady = c.steady
           /\ Held(c).auth = c.auth /\ Held(c).peer = c.peer
<1>1. c.open + 1 \in BodyCounts /\ c.deferred + 1 = c.open + 1
  BY DEF BodyCounts
<1>2. Held(c) \in CallRecord
  BY <1>1 DEF Held, Received, CallRecord
<1>3. Held(c).open = c.open + 1 /\ Held(c).deferred = c.deferred + 1
  BY DEF Held, Received, CallRecord
<1> QED
  BY <1>1, <1>2, <1>3 DEF Held, Received, CallRecord

\* A response closed at once leaves nothing behind.
LEMMA ClosedAgain ==
    ASSUME NEW c \in CallRecord
    PROVE  Closed(Received(c)) = c
<1> DEFINE r == Received(c)
<1>1. c.open \in Nat
  <2>1. c.open \in BodyCounts
    BY DEF CallRecord
  <2> QED BY <2>1 DEF BodyCounts
<1>2. r = [c EXCEPT !.open = c.open + 1]
  BY DEF Received
<1>3. r.open - 1 = c.open /\ Closed(r) = [r EXCEPT !.open = r.open - 1]
  <2>1. r.open = c.open + 1
    BY <1>2 DEF CallRecord
  <2>2. Closed(r) = [r EXCEPT !.open = r.open - 1]
    BY DEF Closed
  <2> HIDE DEF r
  <2> QED BY <1>1, <2>1, <2>2
<1>4. [r EXCEPT !.open = c.open] = c
  BY <1>2 DEF CallRecord
<1> QED
  BY <1>3, <1>4

\* The statuses a phone answers with.
LEMMA StatusType ==
    ASSUME NEW h \in Hosts, device[h] \in PhoneState, device[h].mode # "down",
           NEW auth
    PROVE  /\ Status(h, auth) \in {200, 401, 404, 500}
           /\ device[h].mode \in {"open", "garbled"} => Status(h, auth) = 200
           /\ device[h].mode = "disabled" => Status(h, auth) = 404
           /\ device[h].mode = "broken" => Status(h, auth) = 500
           /\ device[h].mode = "secure" =>
                  Status(h, auth) = IF Accepts(h, auth) THEN 200 ELSE 401
<1>1. device[h].mode \in {"secure", "open", "garbled", "disabled", "broken"}
  BY DEF PhoneState, Modes
<1> QED
  BY <1>1 DEF Status

Auths == [user : {"Polycom", Username}, password : Passwords,
          algorithm : {"MD5", "SHA-256"}, qop : {"", "auth"}, nonce : Callers]

\* The digest made for a challenge that can be answered.
LEMMA DigestType ==
    ASSUME NEW ch \in Challenge, Answerable(ch), NEW c \in ClientRecord,
           NEW o \in Callers
    PROVE  /\ digestAuthorization(ch, c, o) # NoAuth
           /\ digestAuthorization(ch, c, o) \in Auths
<1>1. c.username \in {"Polycom", Username} /\ c.username # "" /\ c.password \in Passwords
  BY DEF ClientRecord
<1>2. Algorithm(ch) \in {"MD5", "SHA-256"} /\ selectQOP(ch.qop) \in {"", "auth"}
  BY DEF Answerable, selectQOP
<1>3. digestAuthorization(ch, c, o).user = c.username
  BY DEF digestAuthorization
<1>4. NoAuth.user = ""
  BY DEF NoAuth
<1> QED
  BY <1>1, <1>2, <1>3, <1>4 DEF digestAuthorization, Auths

AtStage(c, st) == [c EXCEPT !.stage = st]
WithAuth(c, auth) == [c EXCEPT !.stage = "auth", !.auth = auth]

\* Moving a call to its next stage changes nothing else.
LEMMA StageGood ==
    ASSUME NEW c \in CallRecord, NEW st \in {"first", "challenge", "auth"}
    PROVE  LET a == AtStage(c, st)
           IN  /\ a \in CallRecord /\ a.stage = st /\ a.open = c.open
               /\ a.deferred = c.deferred /\ a.pc = c.pc /\ a.phone = c.phone
               /\ a.op = c.op /\ a.steady = c.steady /\ a.auth = c.auth
BY DEF CallRecord, AtStage

LEMMA AuthGood ==
    ASSUME NEW c \in CallRecord, NEW auth \in Auths
    PROVE  LET a == WithAuth(c, auth)
           IN  /\ a \in CallRecord /\ a.stage = "auth" /\ a.open = c.open
               /\ a.deferred = c.deferred /\ a.pc = c.pc /\ a.phone = c.phone
               /\ a.op = c.op /\ a.steady = c.steady /\ a.auth = auth
BY DEF CallRecord, Auths, WithAuth

Refused(c, status) == status = 401 /\ c.stage # "auth"

\* What a call becomes with a response: it asks for a challenge, answers the one it got,
\* or returns with the verdict of that response.
LEMMA AnsweredGood ==
    ASSUME CoreInv, NEW o \in Callers, call[o].pc = "sent",
           NEW status \in {200, 401, 404, 500}
    PROVE  LET c == call[o]
               ch == device[c.peer].challenge
               a == Answered(o, status)
           IN  /\ GoodCall(a, client)
               /\ a.phone = c.phone /\ a.op = c.op /\ a.steady = c.steady
               /\ \/ /\ a.pc = "dial" /\ a.stage = "challenge"
                     /\ Refused(c, status) /\ c.stage = "first"
                     /\ c.op = "probe" => ch # NoChallenge
                  \/ /\ a.pc = "dial" /\ a.stage = "auth"
                     /\ Refused(c, status) /\ c.stage = "challenge" /\ Answerable(ch)
                     /\ a.auth = digestAuthorization(ch, client[c.phone], o)
                  \/ /\ a.pc = "returned" /\ a.result = "auth_failed"
                     /\ Refused(c, status) /\ c.stage = "first" /\ c.op = "probe"
                     /\ ch = NoChallenge
                  \/ /\ a.pc = "returned" /\ a.result = Failed(c)
                     /\ Refused(c, status) /\ c.stage = "challenge" /\ ~ Answerable(ch)
                  \/ /\ a.pc = "returned" /\ ~ Refused(c, status)
                     /\ a.result = IF c.stage = "first" THEN First(c, status)
                                   ELSE Final(c, status)
<1> DEFINE c == call[o]
           ch == device[c.peer].challenge
           a == Answered(o, status)
           asks == [c EXCEPT !.pc = "dial", !.peer = Nobody]
<1>0. client \in [Phones -> {NoClient} \cup ClientRecord] /\ device \in [Hosts -> PhoneState]
  BY DEF CoreInv, TypeOK, ClientTypeOK
<1>1. /\ GoodCall(c, client) /\ c \in CallRecord /\ c.pc = "sent" /\ c.phone \in Phones
      /\ client[c.phone] # NoClient /\ client[c.phone] \in ClientRecord
      /\ c.peer \in Hosts /\ c.deferred = c.open
      /\ c.open = (IF c.op = "probe" /\ c.stage # "first" THEN 1 ELSE 0)
  <2>1. GoodCall(c, client)
    BY DEF CoreInv, CallsInv
  <2>2. /\ c \in CallRecord /\ c.pc = "sent" /\ c.phone \in Phones
        /\ client[c.phone] # NoClient /\ c.peer \in Hosts
    BY <2>1 DEF GoodCall
  <2>3. client[c.phone] \in ClientRecord
    BY <1>0, <2>2
  <2>4. /\ c.deferred = c.open
        /\ c.open = (IF c.op = "probe" /\ c.stage # "first" THEN 1 ELSE 0)
    BY <2>1, <2>2 DEF GoodCall, Balanced, Live
  <2> QED BY <2>1, <2>2, <2>3, <2>4
<1>2. ch \in Challenge
  <2>1. device[c.peer] \in PhoneState
    BY <1>0, <1>1
  <2> QED BY <2>1 DEF PhoneState
<1>3. c.stage \in {"first", "challenge", "auth"} /\ c.op \in {"probe", "read"}
  BY <1>1 DEF CallRecord, Ops
<1>4. c.auth # NoAuth => c.stage = "auth"
  BY <1>1 DEF GoodCall
<1>5. /\ asks \in CallRecord /\ asks.pc = "dial" /\ asks.phone = c.phone /\ asks.op = c.op
      /\ asks.stage = c.stage /\ asks.open = c.open /\ asks.deferred = c.deferred
      /\ asks.steady = c.steady /\ asks.auth = c.auth
  BY <1>1 DEF CallRecord
<1>6. a = CASE Refused(c, status) /\ c.stage = "first" /\ c.op = "probe" /\ ch = NoChallenge ->
                    Returned(Held(c), "auth_failed")
            [] Refused(c, status) /\ c.stage = "first" /\ c.op = "probe" /\ ch # NoChallenge ->
                    [Held(asks) EXCEPT !.stage = "challenge"]
            [] Refused(c, status) /\ c.stage = "first" /\ c.op = "read" ->
                    [Closed(Received(asks)) EXCEPT !.stage = "challenge"]
            [] Refused(c, status) /\ c.stage = "challenge" /\ Answerable(ch) ->
                    [Closed(Received(asks)) EXCEPT
                        !.stage = "auth",
                        !.auth = digestAuthorization(ch, client[c.phone], o)]
            [] Refused(c, status) /\ c.stage = "challenge" /\ ~ Answerable(ch) ->
                    Returned(Closed(Received(c)), Failed(c))
            [] ~ Refused(c, status) ->
                    Returned(Held(c), IF c.stage = "first" THEN First(c, status)
                                      ELSE Final(c, status))
  BY Zenon DEF Answered, Refused
<1> HIDE DEF a, asks, ch, c
<1>7. /\ Held(c) \in CallRecord /\ Held(c).open = Held(c).deferred
      /\ Held(c).phone = c.phone /\ Held(c).op = c.op /\ Held(c).steady = c.steady
  BY <1>1, HeldGood
<1>14. Closed(Received(c)) = c /\ Closed(Received(asks)) = asks
  BY <1>1, <1>5, ClosedAgain
<1>8. CASE Refused(c, status) /\ c.stage = "first" /\ c.op = "probe" /\ ch = NoChallenge
  <2>1. a = Returned(Held(c), "auth_failed")
    BY <1>6, <1>8
  <2> QED BY <1>1, <1>7, <1>8, <2>1, ReturnGood DEF Results, a, c, ch
<1>9. CASE Refused(c, status) /\ c.stage = "first" /\ c.op = "probe" /\ ch # NoChallenge
  <2>1. a = AtStage(Held(asks), "challenge")
    BY <1>6, <1>9 DEF AtStage
  <2>2. /\ Held(asks) \in CallRecord /\ Held(asks).open = 1 /\ Held(asks).deferred = 1
        /\ Held(asks).pc = "dial" /\ Held(asks).phone = c.phone /\ Held(asks).op = c.op
        /\ Held(asks).steady = c.steady /\ Held(asks).auth = NoAuth
    BY <1>1, <1>4, <1>5, <1>9, HeldGood
  <2>3. /\ a \in CallRecord /\ a.open = 1 /\ a.deferred = 1 /\ a.pc = "dial"
        /\ a.phone = c.phone /\ a.op = c.op /\ a.steady = c.steady /\ a.auth = NoAuth
        /\ a.stage = "challenge"
    BY <2>1, <2>2, StageGood
  <2>4. GoodCall(a, client)
    BY <1>1, <1>9, <2>3 DEF GoodCall, Balanced, Live
  <2> QED BY <1>9, <2>3, <2>4 DEF a, c, ch
<1>10. CASE Refused(c, status) /\ c.stage = "first" /\ c.op = "read"
  <2>1. a = AtStage(asks, "challenge")
    BY <1>6, <1>10, <1>14 DEF AtStage
  <2>2. /\ a \in CallRecord /\ a.open = 0 /\ a.deferred = 0 /\ a.pc = "dial"
        /\ a.phone = c.phone /\ a.op = c.op /\ a.steady = c.steady /\ a.auth = NoAuth
        /\ a.stage = "challenge"
    <3>1. asks.open = 0 /\ asks.deferred = 0 /\ asks.auth = NoAuth
      BY <1>1, <1>4, <1>5, <1>10
    <3> QED BY <1>5, <2>1, <3>1, StageGood
  <2>3. GoodCall(a, client)
    BY <1>1, <1>10, <2>2 DEF GoodCall, Balanced, Live
  <2> QED BY <1>10, <2>2, <2>3 DEF a, c, ch
<1>11. CASE Refused(c, status) /\ c.stage = "challenge" /\ Answerable(ch)
  <2> DEFINE dig == digestAuthorization(ch, client[c.phone], o)
  <2>1. a = WithAuth(asks, dig)
    BY <1>6, <1>11, <1>14 DEF WithAuth
  <2>2. dig \in Auths
    BY <1>1, <1>2, <1>11, DigestType
  <2> HIDE DEF dig
  <2>3. /\ a \in CallRecord /\ a.open = c.open /\ a.deferred = c.open /\ a.pc = "dial"
        /\ a.phone = c.phone /\ a.op = c.op /\ a.steady = c.steady /\ a.auth = dig
        /\ a.stage = "auth"
    BY <1>1, <1>5, <2>1, <2>2, AuthGood
  <2>4. GoodCall(a, client)
    BY <1>1, <1>11, <2>3 DEF GoodCall, Balanced, Live
  <2> QED BY <1>11, <2>3, <2>4 DEF a, c, ch, dig
<1>12. CASE Refused(c, status) /\ c.stage = "challenge" /\ ~ Answerable(ch)
  <2>1. a = Returned(c, Failed(c)) /\ Failed(c) \in Results
    BY <1>6, <1>12, <1>14 DEF Failed, Results
  <2> QED BY <1>1, <1>12, <2>1, ReturnGood DEF a, c, ch
<1>13. CASE ~ Refused(c, status)
  <2> DEFINE r == IF c.stage = "first" THEN First(c, status) ELSE Final(c, status)
  <2>1. a = Returned(Held(c), r) /\ r \in Results
    BY <1>6, <1>13 DEF First, Final, Results
  <2> HIDE DEF r
  <2> QED BY <1>1, <1>7, <1>13, <2>1, ReturnGood DEF a, c, ch, r
<1> QED
  BY <1>3, <1>8, <1>9, <1>10, <1>11, <1>12, <1>13 DEF Refused, a, c, ch

----------------------------------------------------------------------------
(* The core invariant: steps of a call. *)

LEMMA OneMoreChange ==
    ASSUME NEW n \in 0 .. MaxChanges, n < MaxChanges
    PROVE  n + 1 \in 0 .. MaxChanges
<1>1. MaxChanges \in Nat
  BY ClientConfigAssumption
<1> QED BY <1>1

\* One call changes and stays good.
LEMMA CallUpdate ==
    ASSUME CoreInv, NEW o \in Callers, NEW x, GoodCall(x, client), client' = client,
           call' = [call EXCEPT ![o] = x]
    PROVE  /\ CallsInv' /\ call' \in [Callers -> CallRecord]
           /\ call'[o] = x /\ \A q \in Callers \ {o} : call'[q] = call[q]
<1>1. call \in [Callers -> CallRecord] /\ \A q \in Callers : GoodCall(call[q], client)
  BY DEF CoreInv, TypeOK, ClientTypeOK, CallsInv
<1>2. x \in CallRecord
  BY DEF GoodCall
<1>3. call'[o] = x /\ \A q \in Callers \ {o} : call'[q] = call[q]
  BY <1>1
<1>4. \A q \in Callers : GoodCall(call'[q], client')
  BY <1>1, <1>3
<1> QED
  BY <1>1, <1>2, <1>3, <1>4 DEF CallsInv

\* A request reaches a host: its call becomes x, and the others are at most unsettled.
LEMMA DeliveredEffect ==
    ASSUME CoreInv, NEW h \in Hosts, NEW o \in Callers, NEW x, GoodCall(x, client),
           client' = client, Delivered(h, o, x), call[o].phone \in Phones
    PROVE  /\ CallsInv' /\ call' \in [Callers -> CallRecord] /\ call'[o] = x
           /\ \A q \in Callers \ {o} :
                 /\ call'[q].pc = call[q].pc /\ call'[q].phone = call[q].phone
                 /\ call'[q] = [call[q] EXCEPT !.steady = @ /\ ~ Forgotten(h, o, q)]
           /\ nonces' \in [Hosts -> SUBSET Callers] /\ sent' \subseteq Phones \X Hosts
<1>1. /\ call \in [Callers -> CallRecord] /\ \A q \in Callers : GoodCall(call[q], client)
      /\ nonces \in [Hosts -> SUBSET Callers] /\ sent \subseteq Phones \X Hosts
      /\ device \in [Hosts -> PhoneState]
  BY DEF CoreInv, TypeOK, ClientTypeOK, CallsInv
<1>2. /\ nonces' = [nonces EXCEPT ![h] = NextNonces(h, o, call[o].auth)]
      /\ sent' = IF call[o].auth = NoAuth THEN sent ELSE sent \cup {<<call[o].phone, h>>}
      /\ call' = [q \in Callers |->
                    IF q = o THEN x
                    ELSE [call[q] EXCEPT !.steady = @ /\ ~ Forgotten(h, o, q)]]
  BY DEF Delivered
<1>3. ASSUME NEW q \in Callers, q # o
      PROVE  LET y == [call[q] EXCEPT !.steady = @ /\ ~ Forgotten(h, o, q)]
             IN  /\ call'[q] = y /\ GoodCall(y, client)
                 /\ y.pc = call[q].pc /\ y.phone = call[q].phone
  <2> DEFINE c == call[q]
             b == c.steady /\ ~ Forgotten(h, o, q)
             y == [c EXCEPT !.steady = b]
  <2>1. c \in CallRecord /\ GoodCall(c, client) /\ b \in BOOLEAN
    BY <1>1
  <2> HIDE DEF b
  <2>2. /\ y \in CallRecord /\ y.pc = c.pc /\ y.phone = c.phone /\ y.peer = c.peer
        /\ y.stage = c.stage /\ y.op = c.op /\ y.auth = c.auth
        /\ y.open = c.open /\ y.deferred = c.deferred
    BY <2>1 DEF CallRecord
  <2>3. call'[q] = y
    BY <1>2, <1>3 DEF b
  <2> HIDE DEF y
  <2>4. GoodCall(y, client)
    BY <2>1, <2>2 DEF GoodCall, Balanced, Live
  <2> QED BY <2>2, <2>3, <2>4 DEF y, b
<1>4. call'[o] = x /\ x \in CallRecord
  BY <1>2 DEF GoodCall
<1>5. \A q \in Callers : GoodCall(call'[q], client') /\ call'[q] \in CallRecord
  BY <1>3, <1>4 DEF GoodCall
<1>6. call' \in [Callers -> CallRecord]
  <2>1. call' = [q \in Callers |-> call'[q]]
    BY <1>2
  <2> QED BY <1>5, <2>1
<1>7. CallsInv'
  BY <1>5 DEF CallsInv
<1>8. nonces' \in [Hosts -> SUBSET Callers]
  <2>1. NextNonces(h, o, call[o].auth) \subseteq Callers
    BY <1>1 DEF NextNonces
  <2> QED BY <1>1, <1>2, <2>1
<1>9. sent' \subseteq Phones \X Hosts
  BY <1>1, <1>2
<1> QED
  BY <1>3, <1>4, <1>6, <1>7, <1>8, <1>9

\* Resolve's own place does not move while a call makes a step.
LEMMA CallStepKeepsResolver ==
    ASSUME CoreInv, NEW o \in Callers, call[o].pc # "idle", call'[o].pc # "idle",
           call'[o].phone = call[o].phone,
           \A q \in Callers \ {o} : call'[q].pc = call[q].pc /\ call'[q].phone = call[q].phone,
           UNCHANGED resolveVars
    PROVE  ResolverInv'
<1>1. UNCHANGED <<setup, rpc, at, policyID>>
  BY DEF resolveVars, lookupVars
<1>2. ResolverInv
  BY DEF CoreInv
<1>3. Resolver \in Callers /\ Resolver \notin Collectors /\ Collectors \subseteq Callers
  BY ResolverAssumption DEF Collectors
<1>4. /\ rpc # "probe" => call'[Resolver].pc = "idle"
      /\ rpc = "probe" => call'[Resolver].pc # "idle" /\ call'[Resolver].phone = Here
  BY <1>2, <1>3 DEF ResolverInv
<1>5. rpc # "done" => \A q \in Collectors : call'[q].pc = "idle"
  BY <1>2, <1>3 DEF ResolverInv
<1> QED
  BY <1>1, <1>2, <1>4, <1>5 DEF ResolverInv, Here, inventory, TargetAddress, Targets

\* What a step of a call leaves alone keeps its type.
LEMMA CallStepType ==
    ASSUME CoreInv, UNCHANGED <<host, device, client>>, UNCHANGED resolveVars,
           call' \in [Callers -> CallRecord], conn' \in [Phones -> Hosts \cup {Nobody}],
           nonces' \in [Hosts -> SUBSET Callers], sent' \subseteq Phones \X Hosts,
           changes' \in 0 .. MaxChanges
    PROVE  TypeOK'
<1>1. TypeOK
  BY DEF CoreInv
<1>2. UNCHANGED <<setup, winners, values, rpc, at, policyID, password, untouched, targets,
                  unexpected>>
  BY DEF resolveVars, lookupVars, lensVars
<1> QED
  BY <1>1, <1>2 DEF TypeOK, ClientTypeOK, inventory

LEMMA CallFacts ==
    ASSUME CoreInv, NEW o \in Callers
    PROVE  /\ call[o] \in CallRecord /\ GoodCall(call[o], client)
           /\ call[o].open = call[o].deferred
           /\ call[o].pc # "idle" =>
                 /\ call[o].phone \in Phones /\ client[call[o].phone] # NoClient
                 /\ client[call[o].phone] \in ClientRecord
                 /\ client[call[o].phone].wantCN = call[o].phone
                 /\ At(o) \in Hosts \cup {Nobody}
<1>1. GoodCall(call[o], client)
  BY DEF CoreInv, CallsInv
<1>2. client \in [Phones -> {NoClient} \cup ClientRecord]
      /\ host \in [Addresses -> Hosts \cup {Nobody}]
  BY DEF CoreInv, TypeOK, ClientTypeOK
<1>3. \A p \in Phones : client[p] # NoClient => client[p].wantCN = p
  BY DEF CoreInv, ClientsInv
<1>4. call[o] \in CallRecord /\ call[o].open = call[o].deferred
  BY <1>1 DEF GoodCall, Balanced
<1>5. ASSUME call[o].pc # "idle"
      PROVE  /\ call[o].phone \in Phones /\ client[call[o].phone] # NoClient
             /\ client[call[o].phone] \in ClientRecord
  BY <1>1, <1>2, <1>5 DEF GoodCall
<1>6. ASSUME call[o].pc # "idle" PROVE At(o) \in Hosts \cup {Nobody}
  <2>1. client[call[o].phone].address \in Addresses
    BY <1>5, <1>6 DEF ClientRecord
  <2> QED BY <1>2, <2>1 DEF At
<1> QED
  BY <1>1, <1>3, <1>4, <1>5, <1>6

\* The host that p's client accepts has p's MAC for its name, and is p if the client
\* verifies chains.
LEMMA VerifiedName ==
    ASSUME NEW h, NEW p \in Phones, NEW c, c.wantCN = p, VerifyConnection(h, c)
    PROVE  normalizedMAC(CertCN[h]) = p /\ (c.verifyChain => h = p)
<1>1. normalizedMAC(CertCN[h]) = p /\ (c.verifyChain => h \in Trusted)
  BY DEF VerifyConnection
<1>2. CertCN[h].form # "malformed" /\ CertCN[h].digits = p
  BY <1>1, NamesAssumption DEF normalizedMAC, Invalid
<1> QED
  BY <1>1, <1>2, CertAssumption

\* A client accepts exactly the hosts that pass for its phone.
LEMMA VerifiedPasses ==
    ASSUME NEW h, NEW p \in Phones, client[p].wantCN = p
    PROVE  VerifyConnection(h, client[p]) <=> PassesFor(h, p)
BY NamesAssumption DEF VerifyConnection, PassesFor, normalizedMAC, Invalid

ConnectedTo(c, peer) == [c EXCEPT !.pc = "sent", !.peer = peer]

LEMMA ConnectedGood ==
    ASSUME NEW cl, NEW c, GoodCall(c, cl), c.pc = "dial", NEW h \in Hosts,
           VerifyConnection(h, cl[c.phone])
    PROVE  LET x == ConnectedTo(c, h)
           IN  /\ GoodCall(x, cl) /\ x.pc = "sent" /\ x.phone = c.phone
               /\ x.peer = h /\ x.stage = c.stage /\ x.op = c.op
               /\ x.steady = c.steady /\ x.auth = c.auth
<1> DEFINE x == ConnectedTo(c, h)
<1>1. c \in CallRecord /\ c.phone \in Phones
  BY DEF GoodCall
<1>2. /\ x \in CallRecord /\ x.pc = "sent" /\ x.phone = c.phone /\ x.peer = h
      /\ x.stage = c.stage /\ x.op = c.op /\ x.steady = c.steady /\ x.auth = c.auth
      /\ x.open = c.open /\ x.deferred = c.deferred
  BY <1>1 DEF ConnectedTo, CallRecord
<1> HIDE DEF x
<1>3. GoodCall(x, cl)
  BY <1>2 DEF GoodCall, Balanced, Live
<1> QED
  BY <1>2, <1>3 DEF x

\* Dial puts the call on a connection to a host that its client has verified.
LEMMA DialEffect ==
    ASSUME CoreInv, NEW o \in Callers, Dial(o)
    PROVE  LET p == call[o].phone
           IN  \E h \in Hosts :
                  /\ VerifyConnection(h, client[p])
                  /\ conn' = [conn EXCEPT ![p] = h]
                  /\ call' = [call EXCEPT ![o] = ConnectedTo(call[o], h)]
<1> DEFINE p == call[o].phone
<1>1. /\ call[o].pc = "dial" /\ p \in Phones /\ call[o] \in CallRecord
      /\ At(o) \in Hosts \cup {Nobody}
  BY CallFacts DEF Dial
<1>2. PICK peer \in {conn[p], At(o)} \ {Nobody} :
          /\ peer # conn[p] => /\ peer = At(o) /\ device[peer].mode # "down"
                               /\ VerifyConnection(peer, client[p])
          /\ conn' = [conn EXCEPT ![p] = peer]
          /\ call' = [call EXCEPT ![o].pc = "sent", ![o].peer = peer]
  BY DEF Dial
<1>3. peer \in Hosts /\ VerifyConnection(peer, client[p])
  <2>1. CASE peer = conn[p]
    BY <1>1, <1>2, <2>1 DEF CoreInv, ClientsInv, TypeOK, ClientTypeOK
  <2>2. CASE peer # conn[p]
    BY <1>1, <1>2, <2>2
  <2> QED BY <2>1, <2>2
<1>4. call \in [Callers -> CallRecord]
  BY DEF CoreInv, TypeOK, ClientTypeOK
<1>5. call' = [call EXCEPT ![o] = ConnectedTo(call[o], peer)]
  BY <1>2, <1>4 DEF ConnectedTo
<1> QED
  BY <1>2, <1>3, <1>5

\* A call that fails returns, and its client's connection is dropped or kept.
LEMMA FailedReturn ==
    ASSUME CoreInv, NEW o \in Callers, Live(call[o])
    PROVE  LET x == Returned(call[o], Failed(call[o]))
               y == [x EXCEPT !.steady = FALSE]
           IN  /\ GoodCall(x, client) /\ x.pc = "returned" /\ x.phone = call[o].phone
               /\ x.op = call[o].op /\ x.steady = call[o].steady
               /\ x.result = Failed(call[o])
               /\ GoodCall(y, client) /\ y.pc = "returned" /\ y.phone = call[o].phone
               /\ y.steady = FALSE
<1> DEFINE x == Returned(call[o], Failed(call[o]))
           y == [x EXCEPT !.steady = FALSE]
<1>1. Failed(call[o]) \in Results
  BY DEF Failed, Results
<1>2. /\ call[o] \in CallRecord /\ call[o].open = call[o].deferred
      /\ call[o].phone \in Phones /\ client[call[o].phone] # NoClient
  BY CallFacts DEF Live
<1>3. /\ GoodCall(x, client) /\ x.pc = "returned" /\ x.phone = call[o].phone
      /\ x.op = call[o].op /\ x.steady = call[o].steady /\ x.result = Failed(call[o])
  BY <1>1, <1>2, ReturnGood
<1> HIDE DEF x
<1>4. /\ y \in CallRecord /\ y.pc = "returned" /\ y.phone = x.phone /\ y.steady = FALSE
      /\ y.open = x.open /\ y.deferred = x.deferred /\ y.auth = x.auth
  BY <1>3 DEF GoodCall, CallRecord
<1> HIDE DEF y
<1>5. GoodCall(y, client)
  BY <1>3, <1>4 DEF GoodCall, Balanced, Live
<1> QED
  BY <1>3, <1>4, <1>5 DEF x, y

\* A step that delivers a request and leaves a good call.
LEMMA DeliveredCore ==
    ASSUME CoreInv, NEW o \in Callers, call[o].pc = "sent", UNCHANGED resolveVars,
           NEW x, GoodCall(x, client), x.pc # "idle", x.phone = call[o].phone,
           Delivered(call[o].peer, o, x), UNCHANGED <<host, device, client, conn>>,
           changes' \in 0 .. MaxChanges
    PROVE  CoreInv'
<1>1. call[o].peer \in Hosts /\ call[o].phone \in Phones
  BY DEF CoreInv, CallsInv, GoodCall
<1>2. /\ CallsInv' /\ call' \in [Callers -> CallRecord] /\ call'[o] = x
      /\ \A q \in Callers \ {o} : call'[q].pc = call[q].pc /\ call'[q].phone = call[q].phone
      /\ nonces' \in [Hosts -> SUBSET Callers] /\ sent' \subseteq Phones \X Hosts
  <2>1. client' = client
    OBVIOUS
  <2>2. /\ CallsInv' /\ call' \in [Callers -> CallRecord] /\ call'[o] = x
        /\ \A q \in Callers \ {o} :
              /\ call'[q].pc = call[q].pc /\ call'[q].phone = call[q].phone
              /\ call'[q] = [call[q] EXCEPT !.steady = @ /\ ~ Forgotten(call[o].peer, o, q)]
        /\ nonces' \in [Hosts -> SUBSET Callers] /\ sent' \subseteq Phones \X Hosts
    BY <1>1, <2>1, DeliveredEffect
  <2> QED BY <2>2
<1>3. ClientsInv'
  BY DEF CoreInv, ClientsInv, VerifyConnection, resolveVars
<1>4. ResolverInv'
  BY <1>2, CallStepKeepsResolver
<1>5. conn' \in [Phones -> Hosts \cup {Nobody}]
  BY DEF CoreInv, TypeOK, ClientTypeOK
<1>6. TypeOK'
  BY <1>2, <1>5, CallStepType
<1> QED
  BY <1>2, <1>3, <1>4, <1>6 DEF CoreInv

\* A response leaves a good call.
LEMMA ExchangeGood ==
    ASSUME CoreInv, NEW o \in Callers, Exchange(o)
    PROVE  LET c == call[o]
               status == Status(c.peer, c.auth)
           IN  /\ c.pc = "sent" /\ c.peer \in Hosts /\ device[c.peer].mode # "down"
               /\ device[c.peer] \in PhoneState /\ status \in {200, 401, 404, 500}
               /\ GoodCall(Answered(o, status), client)
               /\ Answered(o, status).pc # "idle" /\ Answered(o, status).phone = c.phone
<1> DEFINE c == call[o]
<1>1. /\ c.pc = "sent" /\ c.peer \in Hosts /\ device[c.peer].mode # "down"
  BY CallFacts DEF Exchange, Gone, GoodCall
<1>2. device[c.peer] \in PhoneState
  BY <1>1 DEF CoreInv, TypeOK, ClientTypeOK
<1>3. Status(c.peer, c.auth) \in {200, 401, 404, 500}
  BY <1>1, <1>2, StatusType
<1> QED
  BY <1>1, <1>2, <1>3, AnsweredGood

LEMMA CallStepCore ==
    ASSUME CoreInv, NEW o \in Callers, CallStep(o), UNCHANGED resolveVars
    PROVE  CoreInv'
<1> DEFINE p == call[o].phone
<1>1. /\ conn \in [Phones -> Hosts \cup {Nobody}] /\ nonces \in [Hosts -> SUBSET Callers]
      /\ sent \subseteq Phones \X Hosts /\ changes \in 0 .. MaxChanges
      /\ client \in [Phones -> {NoClient} \cup ClientRecord]
  BY DEF CoreInv, TypeOK, ClientTypeOK
<1>2. ClientsInv /\ UNCHANGED setup
  BY DEF CoreInv, resolveVars
<1>3. CASE Dial(o)
  <2>1. /\ call[o].pc = "dial" /\ GoodCall(call[o], client) /\ p \in Phones
        /\ client[p] # NoClient
        /\ UNCHANGED <<host, device, nonces, client, sent, changes>>
    BY <1>3, CallFacts DEF Dial
  <2>2. PICK h \in Hosts : /\ VerifyConnection(h, client[p]) /\ conn' = [conn EXCEPT ![p] = h]
                           /\ call' = [call EXCEPT ![o] = ConnectedTo(call[o], h)]
    BY <1>3, DialEffect
  <2>3. /\ GoodCall(ConnectedTo(call[o], h), client) /\ ConnectedTo(call[o], h).pc = "sent"
        /\ ConnectedTo(call[o], h).phone = p
    BY <2>1, <2>2, ConnectedGood
  <2>4. /\ CallsInv' /\ call' \in [Callers -> CallRecord] /\ call'[o] = ConnectedTo(call[o], h)
        /\ \A q \in Callers \ {o} : call'[q] = call[q]
    BY <2>1, <2>2, <2>3, CallUpdate
  <2>5. conn' \in [Phones -> Hosts \cup {Nobody}]
    BY <1>1, <2>1, <2>2
  <2>6. ClientsInv'
    BY <1>1, <1>2, <2>1, <2>2 DEF ClientsInv, VerifyConnection
  <2>7. ResolverInv'
    BY <2>1, <2>3, <2>4, CallStepKeepsResolver
  <2>8. TypeOK'
    BY <1>1, <2>1, <2>4, <2>5, CallStepType
  <2> QED BY <2>4, <2>6, <2>7, <2>8 DEF CoreInv
<1>4. ASSUME Live(call[o]), UNCHANGED <<host, device, nonces, client, sent>>,
             NEW x, GoodCall(x, client), x.pc = "returned", x.phone = p,
             call' = [call EXCEPT ![o] = x],
             conn' = [conn EXCEPT ![p] = Nobody] \/ conn' = conn,
             changes' \in 0 .. MaxChanges
      PROVE  CoreInv'
  <2>1. p \in Phones
    BY <1>4, CallFacts DEF Live
  <2>3. /\ CallsInv' /\ call' \in [Callers -> CallRecord] /\ call'[o] = x
        /\ \A q \in Callers \ {o} : call'[q] = call[q]
    BY <1>4, CallUpdate
  <2>5. conn' \in [Phones -> Hosts \cup {Nobody}] /\ ClientsInv'
    BY <1>1, <1>2, <1>4, <2>1 DEF ClientsInv, VerifyConnection
  <2>7. ResolverInv'
    <3>1. call[o].pc # "idle" /\ call'[o].pc # "idle" /\ call'[o].phone = call[o].phone
      BY <1>4, <2>3 DEF Live
    <3> QED BY <2>3, <3>1, CallStepKeepsResolver
  <2>8. TypeOK'
    BY <1>1, <1>4, <2>3, <2>5, CallStepType
  <2> QED BY <2>3, <2>5, <2>7, <2>8 DEF CoreInv
<1>5. CASE DialFails(o) \/ ExchangeFails(o)
  <2>1. /\ Live(call[o]) /\ UNCHANGED <<host, device, nonces, client, sent, changes>>
        /\ call' = [call EXCEPT ![o] = Returned(call[o], Failed(call[o]))]
        /\ conn' = [conn EXCEPT ![p] = Nobody]
    BY <1>5 DEF DialFails, ExchangeFails, Live
  <2> QED BY <1>1, <1>4, <2>1, FailedReturn
<1>6. CASE RequestLost(o)
  <2> DEFINE x == [Returned(call[o], Failed(call[o])) EXCEPT !.steady = FALSE]
  <2>1. /\ Live(call[o]) /\ UNCHANGED <<host, device, client, conn>>
        /\ changes < MaxChanges /\ changes' = changes + 1
        /\ \/ call' = [call EXCEPT ![o] = x] /\ UNCHANGED <<nonces, sent>>
           \/ call[o].pc = "sent" /\ Delivered(call[o].peer, o, x)
    BY <1>6 DEF RequestLost, Live
  <2>2. changes' \in 0 .. MaxChanges
    BY <1>1, <2>1, OneMoreChange
  <2>3. GoodCall(x, client) /\ x.pc = "returned" /\ x.phone = p
    BY <2>1, FailedReturn
  <2> HIDE DEF x
  <2> QED BY <1>4, <2>1, <2>2, <2>3, DeliveredCore
<1>7. CASE Exchange(o)
  <2> DEFINE a == Answered(o, Status(call[o].peer, call[o].auth))
  <2>1. /\ call[o].pc = "sent" /\ GoodCall(a, client) /\ a.pc # "idle" /\ a.phone = p
    BY <1>7, ExchangeGood
  <2>2. /\ UNCHANGED <<host, device, client, conn, changes>>
        /\ Delivered(call[o].peer, o, a)
    BY <1>7 DEF Exchange
  <2> HIDE DEF a
  <2> QED BY <1>1, <2>1, <2>2, DeliveredCore
<1> QED
  BY <1>3, <1>5, <1>6, <1>7 DEF CallStep

----------------------------------------------------------------------------
(* The core invariant: the environment, the collectors and Resolve. *)

\* A change of the environment only unsettles the calls under way.
LEMMA UnsteadyGood ==
    ASSUME CoreInv, NEW o \in Callers
    PROVE  /\ GoodCall(Unsteady[o], client) /\ Unsteady[o].pc = call[o].pc
           /\ Unsteady[o].phone = call[o].phone
           /\ call[o].pc # "idle" => Unsteady[o].steady = FALSE
<1> DEFINE c == call[o]
           x == [c EXCEPT !.steady = @ /\ c.pc = "idle"]
<1>1. GoodCall(c, client) /\ c \in CallRecord
  BY CallFacts
<1>2. (c.steady /\ c.pc = "idle") \in BOOLEAN
  OBVIOUS
<1>3. /\ x \in CallRecord /\ x.pc = c.pc /\ x.phone = c.phone /\ x.peer = c.peer
      /\ x.stage = c.stage /\ x.op = c.op /\ x.auth = c.auth
      /\ x.open = c.open /\ x.deferred = c.deferred
  BY <1>1, <1>2 DEF CallRecord
<1>4. x.steady = (c.steady /\ c.pc = "idle")
  BY <1>1 DEF CallRecord
<1>5. Unsteady[o] = x
  BY DEF Unsteady
<1> HIDE DEF x
<1>6. GoodCall(x, client)
  BY <1>1, <1>3 DEF GoodCall, Balanced, Live
<1> QED
  BY <1>3, <1>4, <1>5, <1>6

LEMMA EnvironmentCore ==
    ASSUME CoreInv, Environment, UNCHANGED resolveVars
    PROVE  CoreInv'
<1>1. Change
  BY DEF Environment, Readdress, Reconfigure
<1>2. /\ changes' = changes + 1 /\ changes < MaxChanges /\ call' = Unsteady
      /\ UNCHANGED <<nonces, client, conn, sent>>
  BY <1>1 DEF Change
<1>3. /\ host \in [Addresses -> Hosts \cup {Nobody}] /\ device \in [Hosts -> PhoneState]
      /\ changes \in 0 .. MaxChanges
  BY DEF CoreInv, TypeOK, ClientTypeOK
<1>4. host' \in [Addresses -> Hosts \cup {Nobody}] /\ device' \in [Hosts -> PhoneState]
  BY <1>3, PhoneStatesAssumption DEF Environment, Readdress, Reconfigure, Hosts
<1>5. changes' \in 0 .. MaxChanges
  BY <1>2, <1>3, OneMoreChange
<1>6. \A o \in Callers : /\ GoodCall(call'[o], client') /\ call'[o].pc = call[o].pc
                         /\ call'[o].phone = call[o].phone
  BY <1>2, UnsteadyGood
<1>7. call' \in [Callers -> CallRecord]
  <2>1. \A o \in Callers : Unsteady[o] \in CallRecord
    BY <1>2, <1>6 DEF GoodCall
  <2>2. Unsteady = [o \in Callers |-> Unsteady[o]]
    BY DEF Unsteady
  <2> QED BY <1>2, <2>1, <2>2
<1>8. CallsInv'
  BY <1>6 DEF CallsInv
<1>9. ClientsInv'
  BY <1>2 DEF CoreInv, ClientsInv, VerifyConnection, resolveVars
<1>10. UNCHANGED <<setup, winners, values, rpc, at, policyID, password, untouched, targets,
                   unexpected>>
  BY DEF resolveVars, lookupVars, lensVars
<1>11. ResolverInv'
  BY <1>6, <1>10, ResolverAssumption
     DEF CoreInv, ResolverInv, Here, inventory, TargetAddress, Targets, Collectors
<1>12. TypeOK'
  <2>1. TypeOK
    BY DEF CoreInv
  <2> QED BY <1>2, <1>4, <1>5, <1>7, <1>10, <2>1 DEF TypeOK, ClientTypeOK, inventory
<1> QED
  BY <1>8, <1>9, <1>11, <1>12 DEF CoreInv

\* A collector starts or ends a call; only once Resolve is done has one a call.
LEMMA CollectorCore ==
    ASSUME CoreInv, NEW o \in Collectors, CollectorCall(o), UNCHANGED resolveVars
    PROVE  CoreInv'
<1>0. o \in Callers /\ o # Resolver /\ Resolver \in Callers
  BY ResolverAssumption DEF Collectors
<1>1. /\ TypeOK /\ ClientsInv /\ ResolverInv
  BY DEF CoreInv
<1>2. rpc = "done" /\ UNCHANGED <<host, device, nonces, client, conn, sent, changes>>
  BY <1>0, <1>1 DEF CollectorCall, StartCall, ResolverInv
<1>3. PICK x : GoodCall(x, client) /\ call' = [call EXCEPT ![o] = x]
  <2>1. CASE \E p \in targets, op \in Ops : StartCall(o, op, p)
    <3>1. PICK p \in targets, op \in Ops : StartCall(o, op, p)
      BY <2>1
    <3>2. p \in Phones /\ client[p] # NoClient
      BY <1>1, <3>1 DEF TypeOK, StartCall
    <3>3. GoodCall(Started(op, p), client)
      BY <3>1, <3>2, StartGood
    <3> QED BY <3>1, <3>3 DEF StartCall
  <2>2. CASE EndCall(o)
    BY <2>2, StartGood DEF EndCall
  <2> QED BY <2>1, <2>2 DEF CollectorCall
<1>4. /\ CallsInv' /\ call' \in [Callers -> CallRecord]
      /\ \A q \in Callers \ {o} : call'[q] = call[q]
  BY <1>0, <1>2, <1>3, CallUpdate
<1>5. ClientsInv'
  BY <1>1, <1>2 DEF ClientsInv, VerifyConnection, resolveVars
<1>6. TypeOK'
  BY <1>1, <1>2, <1>4, CallStepType DEF TypeOK, ClientTypeOK
<1>7. UNCHANGED <<setup, rpc, at, policyID>>
  BY DEF resolveVars, lookupVars
<1>8. ResolverInv'
  BY <1>0, <1>1, <1>2, <1>4, <1>7
     DEF ResolverInv, Here, inventory, TargetAddress, Targets, Busy
<1> QED
  BY <1>4, <1>5, <1>6, <1>8 DEF CoreInv

LEMMA InventoryLength ==
    ASSUME setup \in Setups
    PROVE  Len(inventory) \in Nat
<1> DEFINE Devices == [phone : Phones, mac : MACText, identified : BOOLEAN,
                       internalIP : Addresses \cup {""}]
<1>1. inventory \in Seq(Devices)
  BY SetupsAssumption DEF inventory
<1> HIDE DEF Devices
<1> QED BY <1>1

\* The device Resolve is at.
LEMMA HereFacts ==
    ASSUME CoreInv, at <= Len(inventory)
    PROVE  /\ Here \in Phones /\ inventory[at].phone = Here
           /\ normalizedMAC(inventory[at].mac) \in {Here, Invalid}
           /\ TargetAddress(inventory[at]) \in Addresses \cup {""}
<1> DEFINE Devices == [phone : Phones, mac : MACText, identified : BOOLEAN,
                       internalIP : Addresses \cup {""}]
<1>1. setup \in Setups /\ at \in 1 .. Len(inventory) + 1
  BY DEF CoreInv, TypeOK
<1>2. /\ inventory \in Seq(Devices)
      /\ \A i \in 1 .. Len(inventory) : inventory[i].mac.digits = inventory[i].phone
      /\ \A p \in DOMAIN Targets : Targets[p] \in Addresses \cup {""}
  BY <1>1, SetupsAssumption DEF inventory, Targets
<1> HIDE DEF Devices
<1>3. at \in 1 .. Len(inventory) /\ inventory[at] \in Devices
  <2>1. inventory \in Seq(Devices)
    BY <1>2
  <2>2. Len(inventory) \in Nat
    BY <2>1
  <2>3. at \in 1 .. Len(inventory)
    BY <1>1, <2>2
  <2> QED BY <2>1, <2>3
<1>5. /\ inventory[at].phone \in Phones /\ inventory[at].internalIP \in Addresses \cup {""}
  BY <1>3 DEF Devices
<1>6. normalizedMAC(inventory[at].mac) \in {inventory[at].phone, Invalid}
  BY <1>2, <1>3 DEF normalizedMAC
<1> QED
  BY <1>2, <1>5, <1>6 DEF Here, TargetAddress

\* A step of Resolve that makes no call.
LEMMA QuietResolve ==
    ASSUME CoreInv, UNCHANGED <<host, device, nonces, client, conn, call, sent, setup>>,
           UNCHANGED <<winners, values>>, changes' \in 0 .. MaxChanges,
           rpc \notin {"probe", "done"},
           rpc' \in {"device", "source", "family", "policies", "value", "build", "done",
                     "failed"},
           at' \in 1 .. Len(inventory) + 1, policyID' \in {0} \cup DOMAIN Policies,
           password' \in Passwords, untouched' \in BOOLEAN,
           targets' \subseteq Phones, unexpected' \subseteq Phones,
           rpc' \in Busy => at' <= Len(inventory) /\ TargetAddress(inventory[at']) # "",
           rpc' = "value" => policyID' \in DOMAIN Policies
    PROVE  CoreInv'
<1>1. TypeOK /\ CallsInv /\ ClientsInv /\ ResolverInv
  BY DEF CoreInv
<1>2. TypeOK'
  BY <1>1 DEF TypeOK, ClientTypeOK, inventory
<1>3. CallsInv' /\ ClientsInv'
  BY <1>1 DEF CallsInv, ClientsInv, VerifyConnection
<1>4. call[Resolver].pc = "idle" /\ \A o \in Collectors : call[o].pc = "idle"
  BY <1>1 DEF ResolverInv
<1>5. ResolverInv'
  BY <1>4 DEF ResolverInv, inventory, TargetAddress, Targets
<1> QED
  BY <1>2, <1>3, <1>5 DEF CoreInv

\* Falling back builds the client with the configured password, or ends Resolve.
LEMMA FallBackEffect ==
    ASSUME FallBack, unexpected \subseteq Phones, Here \in Phones
    PROVE  /\ password' \in Passwords /\ unexpected' \subseteq Phones
           /\ rpc' \in {"build", "failed"}
BY FallbackAssumption DEF FallBack

\* The client New builds is for the phone Resolve is at.
LEMMA NewClient ==
    ASSUME CoreInv, rpc = "build"
    PROVE  LET c == New(inventory[at].mac, TargetAddress(inventory[at]), password,
                          setup.verifyChain)
           IN  c # NoClient => /\ c \in ClientRecord /\ c.wantCN = Here
                               /\ c.verifyChain = setup.verifyChain
<1> DEFINE c == New(inventory[at].mac, TargetAddress(inventory[at]), password,
                          setup.verifyChain)
           name == IF Username = "" THEN "Polycom" ELSE Username
<1>1. at <= Len(inventory) /\ TargetAddress(inventory[at]) # "" /\ password \in Passwords
  BY DEF CoreInv, ResolverInv, TypeOK, Busy
<1>2. /\ Here \in Phones /\ normalizedMAC(inventory[at].mac) \in {Here, Invalid}
      /\ TargetAddress(inventory[at]) \in Addresses
  BY <1>1, HereFacts
<1>3. name \in {"Polycom", Username} \ {""}
  OBVIOUS
<1> SUFFICES ASSUME c # NoClient
             PROVE  /\ c \in ClientRecord /\ c.wantCN = Here
                    /\ c.verifyChain = setup.verifyChain
  OBVIOUS
<1>8. setup.verifyChain \in BOOLEAN
  BY SetupsAssumption DEF CoreInv, TypeOK
<1>4. /\ normalizedMAC(inventory[at].mac) # Invalid
      /\ c = [address |-> TargetAddress(inventory[at]),
              wantCN |-> normalizedMAC(inventory[at].mac), password |-> password,
              username |-> name, verifyChain |-> setup.verifyChain]
  BY DEF New
<1> HIDE DEF name
<1>5. normalizedMAC(inventory[at].mac) = Here
  BY <1>2, <1>4
<1>6. c = [address |-> TargetAddress(inventory[at]), wantCN |-> Here,
           password |-> password, username |-> name, verifyChain |-> setup.verifyChain]
  BY <1>4, <1>5
<1> HIDE DEF c
<1>7. c \in ClientRecord
  BY <1>1, <1>2, <1>3, <1>6, <1>8 DEF ClientRecord
<1> QED
  BY <1>6, <1>7

LEMMA BuildCore ==
    ASSUME CoreInv, Build
    PROVE  CoreInv'
<1> DEFINE c == New(inventory[at].mac, TargetAddress(inventory[at]), password,
                          setup.verifyChain)
<1>1. TypeOK /\ CallsInv /\ ClientsInv /\ ResolverInv
  BY DEF CoreInv
<1>2. /\ rpc = "build" /\ UNCHANGED <<host, device, nonces, conn, sent, setup, winners,
            values, changes, at, policyID, password, untouched, targets, unexpected>>
  BY DEF Build, ResolveStep, lensVars, lookupVars
<1>3. at <= Len(inventory) /\ TargetAddress(inventory[at]) # ""
  BY <1>1, <1>2 DEF ResolverInv, Busy
<1>4. Here \in Phones /\ inventory[at].phone = Here
  BY <1>3, HereFacts
<1>5. CASE c = NoClient
  <2>1. rpc' = "failed" /\ UNCHANGED <<client, call>>
    BY <1>5 DEF Build
  <2> QED BY <1>1, <1>2, <2>1, QuietResolve DEF TypeOK, ClientTypeOK, Busy
<1>6. CASE c # NoClient
  <2>1. /\ client' = [client EXCEPT ![Here] = c] /\ rpc' = "probe"
        /\ call' = [call EXCEPT ![Resolver] = Started("probe", Here)]
    BY <1>4, <1>6 DEF Build
  <2>2. c \in ClientRecord /\ c.wantCN = Here /\ c.verifyChain = setup.verifyChain
    BY <1>2, <1>6, NewClient
  <2> HIDE DEF c
  <2>3. /\ client \in [Phones -> {NoClient} \cup ClientRecord]
        /\ call \in [Callers -> CallRecord]
    BY <1>1 DEF TypeOK, ClientTypeOK
  <2>4. client' \in [Phones -> {NoClient} \cup ClientRecord] /\ client'[Here] = c
    BY <1>4, <2>1, <2>2, <2>3
  <2>5. GoodCall(Started("probe", Here), client') /\ Started("probe", Here).phone = Here
        /\ Started("probe", Here).pc = "dial"
    BY <1>4, <1>6, <2>4, StartGood DEF Ops
  <2>6. \A q \in Callers : q = Resolver \/ call[q].pc = "idle"
    BY <1>1, <1>2 DEF ResolverInv, Collectors
  <2>7. \A q \in Callers : call'[q] = IF q = Resolver THEN Started("probe", Here) ELSE call[q]
    BY <2>1, <2>3
  <2>8. CallsInv'
    <3>1. ASSUME NEW q \in Callers PROVE GoodCall(call'[q], client')
      <4>1. CASE q = Resolver
        BY <2>5, <2>7, <4>1
      <4>2. CASE q # Resolver
        <5>1. call'[q] = call[q] /\ call[q].pc = "idle" /\ GoodCall(call[q], client)
          BY <1>1, <2>6, <2>7, <4>2 DEF CallsInv
        <5> QED BY <5>1 DEF GoodCall
      <4> QED BY <4>1, <4>2
    <3> QED BY <3>1 DEF CallsInv
  <2>9. ClientsInv'
    <3>1. ASSUME NEW q \in Phones
          PROVE  /\ client'[q] # NoClient => /\ client'[q].wantCN = q
                                             /\ client'[q].verifyChain = setup'.verifyChain
                 /\ conn'[q] # Nobody => /\ client'[q] # NoClient
                                         /\ VerifyConnection(conn'[q], client'[q])
      <4>1. CASE q = Here
        BY <1>1, <1>2, <1>4, <1>6, <2>2, <2>4, <4>1 DEF ClientsInv, VerifyConnection
      <4>2. CASE q # Here
        BY <1>1, <1>2, <2>1, <2>3, <4>2 DEF ClientsInv
      <4> QED BY <4>1, <4>2
    <3> QED BY <3>1 DEF ClientsInv, VerifyConnection
  <2>10. call' \in [Callers -> CallRecord]
    BY <2>1, <2>3, <2>5 DEF GoodCall
  <2>11. TypeOK'
    BY <1>1, <1>2, <2>1, <2>4, <2>10 DEF TypeOK, ClientTypeOK, inventory
  <2>12. ResolverInv'
    <3>1. call'[Resolver] = Started("probe", Here) /\ \A q \in Collectors : call'[q] = call[q]
      BY <2>7, ResolverAssumption DEF Collectors
    <3>2. Here' = Here /\ inventory' = inventory
          /\ TargetAddress(inventory[at])' = TargetAddress(inventory[at])
      BY <1>2 DEF Here, inventory, TargetAddress, Targets
    <3> QED BY <1>1, <1>2, <1>3, <2>1, <2>5, <3>1, <3>2 DEF ResolverInv
  <2> QED BY <2>8, <2>9, <2>11, <2>12 DEF CoreInv
<1> QED
  BY <1>5, <1>6

LEMMA ProbedCore ==
    ASSUME CoreInv, Probed
    PROVE  CoreInv'
<1>1. TypeOK /\ CallsInv /\ ClientsInv /\ ResolverInv
  BY DEF CoreInv
<1>2. /\ rpc = "probe" /\ UNCHANGED <<host, device, nonces, client, conn, sent, setup,
            winners, values, changes, policyID, password, untouched>>
      /\ call' = [call EXCEPT ![Resolver] = Idle]
  BY DEF Probed, EndCall, ResolveStep, lensVars, lookupVars
<1>3. at <= Len(inventory) /\ at \in 1 .. Len(inventory) + 1 /\ targets \subseteq Phones
      /\ unexpected \subseteq Phones
  BY <1>1, <1>2 DEF ResolverInv, Busy, TypeOK
<1>4. Here \in Phones /\ Len(inventory) \in Nat
  BY <1>1, <1>3, HereFacts, InventoryLength DEF TypeOK
<1>5. /\ unexpected' \subseteq Phones /\ targets' \subseteq Phones
      /\ rpc' \in {"device", "failed"} /\ (at' = at \/ at' = at + 1)
  BY <1>3, <1>4 DEF Probed
<1>6. at' \in 1 .. Len(inventory) + 1
  BY <1>3, <1>4, <1>5
<1>7. /\ CallsInv' /\ call' \in [Callers -> CallRecord] /\ call'[Resolver] = Idle
      /\ \A q \in Callers \ {Resolver} : call'[q] = call[q]
  BY <1>2, StartGood, CallUpdate, ResolverAssumption
<1>8. ClientsInv'
  BY <1>1, <1>2 DEF ClientsInv, VerifyConnection
<1>9. TypeOK'
  BY <1>1, <1>2, <1>5, <1>6, <1>7 DEF TypeOK, ClientTypeOK, inventory
<1>10. ResolverInv'
  BY <1>1, <1>2, <1>5, <1>7, StartGood DEF ResolverInv, Collectors, Busy
<1> QED
  BY <1>7, <1>8, <1>9, <1>10 DEF CoreInv

LEMMA ResolveCore ==
    ASSUME CoreInv, ResolveNext
    PROVE  CoreInv'
<1>0. /\ at \in 1 .. Len(inventory) + 1 /\ Len(inventory) \in Nat
      /\ policyID \in {0} \cup DOMAIN Policies /\ password \in Passwords
      /\ untouched \in BOOLEAN /\ targets \subseteq Phones /\ unexpected \subseteq Phones
      /\ changes \in 0 .. MaxChanges
  <2>1. TypeOK
    BY DEF CoreInv
  <2>3. Len(inventory) \in Nat
    BY <2>1, InventoryLength DEF TypeOK
  <2> QED BY <2>1, <2>3 DEF TypeOK, ClientTypeOK
<1>1. rpc \in Busy => at <= Len(inventory) /\ TargetAddress(inventory[at]) # "" /\ Here \in Phones
  BY HereFacts DEF CoreInv, ResolverInv
<1>2. CASE SkipDevice
  <2>1. at + 1 \in 1 .. Len(inventory) + 1
    <3>1. at <= Len(inventory)
      BY <1>2 DEF SkipDevice
    <3> QED BY <1>0, <3>1
  <2>2. /\ rpc = "device" /\ rpc' = "device" /\ at' = at + 1
        /\ UNCHANGED <<host, device, nonces, client, conn, call, sent, setup, winners, values,
                       changes, policyID, password, untouched, targets, unexpected>>
    BY <1>2 DEF SkipDevice, ResolveStep, lensVars, lookupVars
  <2> QED BY <1>0, <2>1, <2>2, QuietResolve DEF Busy
<1>3. CASE NextDevice
  <2>1. /\ rpc = "device" /\ at <= Len(inventory) /\ TargetAddress(inventory[at]) # ""
        /\ untouched' = TRUE /\ policyID' = 0
        /\ UNCHANGED <<host, device, nonces, client, conn, call, sent, setup, winners, values,
                       changes, at, targets>>
    BY <1>3 DEF NextDevice, ResolveStep, lensVars
  <2>2. Here \in Phones
    BY <2>1, HereFacts
  <2>3. /\ password' \in Passwords /\ unexpected' \subseteq Phones
        /\ rpc' \in {"build", "source", "failed"}
    BY <1>0, <1>3, <2>2, FallBackEffect, FallbackAssumption DEF NextDevice
  <2> QED BY <1>0, <2>1, <2>3, QuietResolve
<1>4. CASE Resolved
  <2>1. /\ rpc = "device" /\ rpc' = "done" /\ policyID' = 0 /\ password' = Fallback
        /\ untouched' = TRUE
        /\ UNCHANGED <<host, device, nonces, client, conn, call, sent, setup, winners, values,
                       changes, at, targets, unexpected>>
    BY <1>4 DEF Resolved, ResolveStep, lensVars
  <2> QED BY <1>0, <2>1, FallbackAssumption, QuietResolve DEF Busy
<1>5. CASE ReadSource
  <2>1. /\ rpc = "source"
        /\ UNCHANGED <<host, device, nonces, client, conn, call, sent, setup, winners, values,
                       changes, at, targets, untouched, policyID>>
    BY <1>5 DEF ReadSource, Lookup, ResolveStep, lensVars
  <2>2. \/ FallBack
        \/ rpc' \in {"family", "policies"} /\ UNCHANGED <<password, unexpected>>
    BY <1>5 DEF ReadSource
  <2>3. /\ password' \in Passwords /\ unexpected' \subseteq Phones
        /\ rpc' \in {"build", "failed", "family", "policies"}
    BY <1>0, <1>1, <2>1, <2>2, FallBackEffect DEF Busy
  <2> QED BY <1>0, <1>1, <2>1, <2>3, QuietResolve DEF Busy
<1>6. CASE ReadFamily
  <2>1. /\ rpc = "family"
        /\ UNCHANGED <<host, device, nonces, client, conn, call, sent, setup, winners, values,
                       changes, at, targets, untouched, policyID>>
    BY <1>6 DEF ReadFamily, Lookup, ResolveStep, lensVars
  <2>2. FallBack \/ (rpc' = "policies" /\ UNCHANGED <<password, unexpected>>)
    BY <1>6 DEF ReadFamily
  <2>3. /\ password' \in Passwords /\ unexpected' \subseteq Phones
        /\ rpc' \in {"build", "failed", "policies"}
    BY <1>0, <1>1, <2>1, <2>2, FallBackEffect DEF Busy
  <2> QED BY <1>0, <1>1, <2>1, <2>3, QuietResolve DEF Busy
<1>7. CASE ReadPolicies
  <2> DEFINE found == {i \in Matching(source, policyVariables(Here, source, family)) :
                          values[i] # Unset}
  <2>1. /\ rpc = "policies"
        /\ UNCHANGED <<host, device, nonces, client, conn, call, sent, setup, winners, values,
                       changes, at, targets, untouched>>
    BY <1>7 DEF ReadPolicies, Lookup, ResolveStep, lensVars
  <2>2. \/ FallBack /\ UNCHANGED policyID
        \/ /\ OneMatch(found) /\ policyID' = CHOOSE i \in found : TRUE
           /\ rpc' = "value" /\ UNCHANGED <<password, unexpected>>
    BY <1>7 DEF ReadPolicies
  <2>3. found \subseteq DOMAIN Policies
    BY DEF Matching
  <2>4. OneMatch(found) => (CHOOSE i \in found : TRUE) \in DOMAIN Policies
    <3>1. OneMatch(found) => found # {}
      BY FS_EmptySet DEF OneMatch
    <3> HIDE DEF found
    <3> QED BY <2>3, <3>1
  <2> HIDE DEF found
  <2>5. /\ password' \in Passwords /\ unexpected' \subseteq Phones
        /\ policyID' \in {0} \cup DOMAIN Policies
        /\ rpc' \in {"build", "failed", "value"}
        /\ rpc' = "value" => policyID' \in DOMAIN Policies
    BY <1>0, <1>1, <2>1, <2>2, <2>4, FallBackEffect DEF Busy
  <2> QED BY <1>0, <1>1, <2>1, <2>5, QuietResolve DEF Busy
<1>8. CASE ReadValue
  <2>1. /\ rpc = "value"
        /\ UNCHANGED <<host, device, nonces, client, conn, call, sent, setup, winners, values,
                       changes, at, targets, untouched, policyID>>
    BY <1>8 DEF ReadValue, Lookup, ResolveStep, lensVars
  <2>2. \/ FallBack
        \/ /\ values[policyID] \notin {"", Unset} /\ password' = values[policyID]
           /\ rpc' = "build" /\ UNCHANGED unexpected
    BY <1>8 DEF ReadValue
  <2>3. values[policyID] \notin {"", Unset} => values[policyID] \in Passwords
    <3>1. policyID \in DOMAIN Policies /\ values \in [DOMAIN Policies -> PolicyValues]
      BY <2>1 DEF CoreInv, ResolverInv, TypeOK
    <3> QED BY <3>1 DEF PolicyValues
  <2>4. /\ password' \in Passwords /\ unexpected' \subseteq Phones
        /\ rpc' \in {"build", "failed"}
    BY <1>0, <1>1, <2>1, <2>2, <2>3, FallBackEffect DEF Busy
  <2> QED BY <1>0, <1>1, <2>1, <2>4, QuietResolve DEF Busy
<1>9. CASE QueryFails
  <2>1. /\ rpc \in {"source", "family", "policies", "value"} /\ untouched' = FALSE
        /\ changes < MaxChanges /\ changes' = changes + 1 /\ FallBack
        /\ UNCHANGED <<host, device, nonces, client, conn, call, sent, setup, winners, values,
                       at, targets, policyID>>
    BY <1>9 DEF QueryFails, ResolveStep, lensVars
  <2>2. changes' \in 0 .. MaxChanges
    BY <1>0, <2>1, OneMoreChange
  <2>3. /\ password' \in Passwords /\ unexpected' \subseteq Phones
        /\ rpc' \in {"build", "failed"}
    BY <1>0, <1>1, <2>1, FallBackEffect DEF Busy
  <2> QED BY <1>0, <1>1, <2>1, <2>2, <2>3, QuietResolve DEF Busy
<1> QED
  BY <1>2, <1>3, <1>4, <1>5, <1>6, <1>7, <1>8, <1>9, BuildCore, ProbedCore DEF ResolveNext

\* Lens changes a policy or its deployment.
LEMMA LensCore ==
    ASSUME CoreInv,
           \/ \E p \in Phones : \E won \in WinnerChoices[p] : Redeploy(p, won)
           \/ \E i \in DOMAIN Policies, w \in PolicyValues : Rotate(i, w)
    PROVE  CoreInv'
<1>1. TypeOK /\ CallsInv /\ ClientsInv /\ ResolverInv
  BY DEF CoreInv
<1>2. /\ UNCHANGED <<host, device, nonces, client, conn, call, sent, setup, rpc, at, policyID,
                     password, targets, unexpected>>
      /\ untouched' = FALSE /\ changes < MaxChanges /\ changes' = changes + 1
  BY DEF Redeploy, Rotate
<1>3. changes' \in 0 .. MaxChanges
  BY <1>1, <1>2, OneMoreChange DEF TypeOK, ClientTypeOK
<1>4. /\ DOMAIN winners' = Phones /\ \A p \in Phones : winners'[p] \in WinnerChoices[p]
      /\ values' \in [DOMAIN Policies -> PolicyValues]
  BY <1>1 DEF TypeOK, Redeploy, Rotate
<1>5. TypeOK'
  BY <1>1, <1>2, <1>3, <1>4 DEF TypeOK, ClientTypeOK, inventory
<1>6. CallsInv' /\ ClientsInv' /\ ResolverInv'
  BY <1>1, <1>2 DEF CallsInv, ClientsInv, VerifyConnection, ResolverInv, Here, inventory,
                    TargetAddress, Targets
<1> QED
  BY <1>5, <1>6 DEF CoreInv

LEMMA CoreStep == CoreInv /\ [Next]_vars => CoreInv'
<1> SUFFICES ASSUME CoreInv, [Next]_vars PROVE CoreInv'
  OBVIOUS
<1>1. CASE UNCHANGED vars
  BY <1>1 DEF vars, clientVars, lensVars, lookupVars, CoreInv, TypeOK, ClientTypeOK, CallsInv,
              ClientsInv, VerifyConnection, ResolverInv, Here, inventory, TargetAddress, Targets
<1> QED
  BY <1>1, ResolveCore, LensCore, CallStepCore, CollectorCore, EnvironmentCore DEF Next

LEMMA CoreInit == Init => CoreInv
<1> SUFFICES ASSUME Init PROVE CoreInv
  OBVIOUS
<1>3. 0 \in 0 .. MaxChanges
  <2>1. MaxChanges \in Nat
    BY ClientConfigAssumption
  <2> QED BY <2>1
<1>4. 1 \in 1 .. Len(inventory) + 1
  <2>1. setup \in Setups
    BY DEF Init
  <2>2. Len(inventory) \in Nat
    BY <2>1, InventoryLength
  <2> QED BY <2>2
<1> USE DEF Init, ClientInit
<1>1. \A o \in Callers : call[o] = Idle /\ GoodCall(call[o], client)
  BY StartGood
<1>2. host \in [Addresses -> Hosts \cup {Nobody}]
  BY DEF Hosts
<1>5. call \in [Callers -> CallRecord]
  BY <1>1 DEF GoodCall
<1>6. ClientTypeOK
  BY <1>2, <1>3, <1>5, PhoneStatesAssumption DEF ClientTypeOK
<1>7. TypeOK
  BY <1>4, <1>6, WinnersAssumption, PolicyAssumption, FallbackAssumption DEF TypeOK
<1>8. CallsInv /\ ClientsInv
  BY <1>1 DEF CallsInv, ClientsInv
<1>9. ResolverInv
  BY <1>1, StartGood, ResolverAssumption DEF ResolverInv, Collectors, Busy
<1> QED
  BY <1>7, <1>8, <1>9 DEF CoreInv

LEMMA Core == Spec => []CoreInv
BY CoreInit, CoreStep, PTL DEF Spec

\* Every variable of the resolver and of the phone client keeps its type.
THEOREM TargetTyped == Spec => []TypeOK
<1>1. CoreInv => TypeOK
  BY DEF CoreInv
<1> QED
  BY <1>1, Core, PTL

\* However a call ends, by an answer, a refusal, a failed connection or a lost request,
\* every response body it was given has been closed.
THEOREM AllBodiesClosed == Spec => []BodiesClosed
<1>1. ASSUME CoreInv PROVE BodiesClosed
  BY <1>1 DEF CoreInv, CallsInv, GoodCall, Balanced, Live, BodiesClosed
<1> QED
  BY <1>1, Core, PTL

----------------------------------------------------------------------------
(* Passwords. *)

\* A digest went only to hosts that the phone's client verifies.
SentInv ==
    \A e \in sent : client[e[1]] # NoClient /\ VerifyConnection(e[2], client[e[1]])

\* A request that is delivered was sent over a verified connection.
LEMMA DeliveredSent ==
    ASSUME CoreInv, SentInv, NEW o \in Callers, call[o].pc = "sent", client' = client,
           NEW x, Delivered(call[o].peer, o, x)
    PROVE  SentInv'
<1>1. /\ client[call[o].phone] # NoClient
      /\ VerifyConnection(call[o].peer, client[call[o].phone])
  BY DEF CoreInv, CallsInv, GoodCall
<1>2. sent' = sent \/ sent' = sent \cup {<<call[o].phone, call[o].peer>>}
  BY DEF Delivered
<1> QED
  BY <1>1, <1>2 DEF SentInv, VerifyConnection

\* Only a delivered request sends a digest, and a client that is built again verifies
\* as before.
LEMMA SentStep == CoreInv /\ CoreInv' /\ SentInv /\ [Next]_vars => SentInv'
<1> SUFFICES ASSUME CoreInv, CoreInv', SentInv, [Next]_vars
             PROVE  SentInv'
  OBVIOUS
<1>1. CASE UNCHANGED <<sent, client>>
  BY <1>1 DEF SentInv, VerifyConnection
<1>2. ASSUME NEW o \in Callers, CallStep(o) PROVE SentInv'
  <2>1. CASE Dial(o) \/ DialFails(o) \/ ExchangeFails(o)
    BY <1>1, <2>1 DEF Dial, DialFails, ExchangeFails
  <2>2. CASE RequestLost(o)
    BY <1>1, <2>2, DeliveredSent DEF RequestLost
  <2>3. CASE Exchange(o)
    BY <2>3, DeliveredSent DEF Exchange
  <2> QED BY <1>2, <2>1, <2>2, <2>3 DEF CallStep
<1>3. CASE ResolveNext /\ ~ Build
  BY <1>1, <1>3 DEF ResolveNext, SkipDevice, NextDevice, Resolved, ReadSource, ReadFamily,
        ReadPolicies, ReadValue, QueryFails, Probed, Lookup, ResolveStep
<1>4. CASE Build
  <2>1. UNCHANGED <<sent, setup>>
    BY <1>4 DEF Build, ResolveStep
  <2>2. sent \subseteq Phones \X Hosts
    BY DEF CoreInv, TypeOK, ClientTypeOK
  <2>3. ASSUME NEW e \in sent
        PROVE  client'[e[1]] # NoClient /\ VerifyConnection(e[2], client'[e[1]])
    <3>1. /\ e[1] \in Phones /\ client[e[1]] # NoClient
          /\ VerifyConnection(e[2], client[e[1]])
      BY <2>2, <2>3 DEF SentInv
    <3>2. client'[e[1]] # NoClient
      BY <1>4, <3>1 DEF Build, CoreInv, TypeOK, ClientTypeOK
    <3>3. /\ client[e[1]].wantCN = e[1] /\ client'[e[1]].wantCN = e[1]
          /\ client[e[1]].verifyChain = setup.verifyChain
          /\ client'[e[1]].verifyChain = setup.verifyChain
      BY <2>1, <3>1, <3>2 DEF CoreInv, ClientsInv
    <3> QED BY <3>1, <3>2, <3>3 DEF VerifyConnection
  <2> QED BY <2>1, <2>3 DEF SentInv, VerifyConnection
<1>5. CASE \/ \E p \in Phones : \E won \in WinnerChoices[p] : Redeploy(p, won)
           \/ \E i \in DOMAIN Policies, w \in PolicyValues : Rotate(i, w)
  BY <1>1, <1>5 DEF Redeploy, Rotate
<1>6. CASE \E o \in Collectors : CollectorCall(o)
  BY <1>1, <1>6 DEF CollectorCall, StartCall
<1>7. CASE Environment
  BY <1>1, <1>7 DEF Environment, Readdress, Reconfigure, Change
<1>8. CASE UNCHANGED vars
  BY <1>1, <1>8 DEF vars, clientVars
<1> QED
  BY <1>2, <1>3, <1>4, <1>5, <1>6, <1>7, <1>8 DEF Next

\* For any hosts, whatever certificates those outside the CA present: however addresses
\* move, phones are reconfigured, connections are reused and calls interleave, the
\* digest of a phone's password is sent only to hosts whose certificate names its MAC,
\* and to that phone alone when chains are verified.
THEOREM PasswordsStayHome == Spec => []PasswordOnlyToItsPhone
<1>1. Init => SentInv
  BY DEF Init, ClientInit, SentInv
<1>2. CoreInv /\ SentInv => PasswordOnlyToItsPhone
  <2> SUFFICES ASSUME CoreInv, SentInv, NEW e \in sent
               PROVE  /\ normalizedMAC(CertCN[e[2]]) = e[1]
                      /\ client[e[1]].verifyChain => e[2] = e[1]
    BY DEF PasswordOnlyToItsPhone
  <2>1. /\ e[1] \in Phones /\ client[e[1]] # NoClient
        /\ VerifyConnection(e[2], client[e[1]])
    BY DEF SentInv, CoreInv, TypeOK, ClientTypeOK
  <2>2. client[e[1]].wantCN = e[1]
    BY <2>1 DEF CoreInv, ClientsInv
  <2> QED BY <2>1, <2>2, VerifiedName
<1> QED
  BY <1>1, <1>2, Core, SentStep, PTL DEF Spec

----------------------------------------------------------------------------
(* Targets. *)

LEMMA WithAddressStep ==
    ASSUME NEW n \in Nat \ {0}
    PROVE  WithAddress(n) = IF TargetAddress(inventory[n]) # ""
                            THEN WithAddress(n - 1) \cup {inventory[n].phone}
                            ELSE WithAddress(n - 1)
<1> DEFINE H(m) == {j \in 1 .. m : TargetAddress(inventory[j]) # ""}
<1>1. H(n) = IF TargetAddress(inventory[n]) # "" THEN H(n - 1) \cup {n} ELSE H(n - 1)
  <2>1. 1 .. n = (1 .. n - 1) \cup {n}
    OBVIOUS
  <2> QED BY <2>1
<1>2. \A m : WithAddress(m) = {inventory[i].phone : i \in H(m)}
  BY DEF WithAddress
<1> HIDE DEF H
<1> QED
  BY <1>1, <1>2

LEMMA TargetsStep == CoreInv /\ TargetsInv /\ [Next]_vars => TargetsInv'
<1> SUFFICES ASSUME CoreInv, TargetsInv, [Next]_vars PROVE TargetsInv'
  OBVIOUS
<1>1. setup' = setup => \A n : WithAddress(n)' = WithAddress(n)
  BY DEF WithAddress, inventory, TargetAddress, Targets
<1>2. CASE UNCHANGED <<setup, at, targets>> /\ (rpc' # "failed" => rpc # "failed")
  BY <1>1, <1>2 DEF TargetsInv
<1>3. at \in Nat \ {0} /\ (at' = at + 1 => at' - 1 = at)
  <2>1. at \in 1 .. Len(inventory) + 1 /\ setup \in Setups
    BY DEF CoreInv, TypeOK
  <2>2. Len(inventory) \in Nat
    BY <2>1, InventoryLength
  <2>3. at \in Nat \ {0}
    BY <2>1, <2>2
  <2> QED BY <2>3
<1>4. CASE SkipDevice
  <2>1. /\ rpc = "device" /\ TargetAddress(inventory[at]) = "" /\ at' = at + 1
        /\ UNCHANGED <<setup, targets>>
    BY <1>4 DEF SkipDevice, ResolveStep
  <2>2. targets = WithAddress(at - 1)
    BY <2>1 DEF TargetsInv
  <2>3. WithAddress(at) = WithAddress(at - 1)
    BY <1>3, <2>1, WithAddressStep
  <2>4. at' - 1 = at /\ targets' = WithAddress(at)
    BY <1>3, <2>1, <2>2, <2>3
  <2> QED BY <1>1, <2>1, <2>4 DEF TargetsInv
<1>5. CASE Probed
  <2>1. rpc = "probe" /\ setup' = setup
    BY <1>5 DEF Probed, ResolveStep
  <2>2. TargetAddress(inventory[at]) # ""
    BY <2>1 DEF CoreInv, ResolverInv, Busy
  <2>3. \/ rpc' = "failed"
        \/ at' = at + 1 /\ targets' = targets \cup {inventory[at].phone}
    BY <1>5 DEF Probed, Here
  <2>4. targets = WithAddress(at - 1)
    BY <2>1 DEF TargetsInv
  <2>5. WithAddress(at) = WithAddress(at - 1) \cup {inventory[at].phone}
    BY <1>3, <2>2, WithAddressStep
  <2>6. CASE at' = at + 1 /\ targets' = targets \cup {inventory[at].phone}
    <3>1. at' - 1 = at /\ targets' = WithAddress(at)
      BY <1>3, <2>4, <2>5, <2>6
    <3> QED BY <1>1, <2>1, <3>1 DEF TargetsInv
  <2> QED BY <2>3, <2>6 DEF TargetsInv
<1>6. CASE NextDevice \/ Resolved \/ ReadSource \/ ReadFamily \/ ReadPolicies \/ ReadValue
           \/ QueryFails \/ Build
  BY <1>2, <1>6 DEF NextDevice, Resolved, ReadSource, ReadFamily, ReadPolicies, ReadValue,
        QueryFails, Build, Lookup, ResolveStep
<1>7. CASE \/ \E p \in Phones : \E won \in WinnerChoices[p] : Redeploy(p, won)
           \/ \E i \in DOMAIN Policies, w \in PolicyValues : Rotate(i, w)
  BY <1>2, <1>7 DEF Redeploy, Rotate
<1>8. CASE UNCHANGED resolveVars
  BY <1>2, <1>8 DEF resolveVars
<1>9. CASE UNCHANGED vars
  BY <1>2, <1>9 DEF vars
<1> QED
  BY <1>4, <1>5, <1>6, <1>7, <1>8, <1>9 DEF Next, ResolveNext

\* Resolve is done only behind the last device.
DoneInv == rpc = "done" => at = Len(inventory) + 1

LEMMA Done == Spec => []DoneInv
<1>1. Init => DoneInv
  BY DEF Init, DoneInv
<1>2. ASSUME CoreInv, DoneInv, [Next]_vars PROVE DoneInv'
  <2>1. CASE UNCHANGED <<setup, at, rpc>>
    BY <1>2, <2>1 DEF DoneInv, inventory
  <2>2. CASE rpc' # "done"
    BY <2>2 DEF DoneInv
  <2>3. CASE Resolved
    <3>1. at \in 1 .. Len(inventory) + 1 /\ setup \in Setups
      BY <1>2 DEF CoreInv, TypeOK
    <3>2. Len(inventory) \in Nat
      BY <3>1, InventoryLength
    <3>3. at > Len(inventory) /\ UNCHANGED <<setup, at>>
      BY <2>3 DEF Resolved, ResolveStep
    <3>4. at = Len(inventory) + 1
      BY <3>1, <3>2, <3>3
    <3> QED BY <3>3, <3>4 DEF DoneInv, inventory
  <2>4. CASE SkipDevice \/ NextDevice \/ ReadSource \/ ReadFamily \/ ReadPolicies \/ ReadValue
             \/ QueryFails \/ Build \/ Probed
    <3>1. rpc' # "done"
      BY <2>4 DEF SkipDevice, NextDevice, ReadSource, ReadFamily, ReadPolicies, ReadValue,
                  QueryFails, Build, Probed, FallBack
    <3> QED BY <2>2, <3>1
  <2>5. CASE \/ \E p \in Phones : \E won \in WinnerChoices[p] : Redeploy(p, won)
             \/ \E i \in DOMAIN Policies, w \in PolicyValues : Rotate(i, w)
    BY <2>1, <2>5 DEF Redeploy, Rotate
  <2>6. CASE UNCHANGED resolveVars
    BY <2>1, <2>6 DEF resolveVars
  <2>7. CASE UNCHANGED vars
    BY <2>1, <2>7 DEF vars
  <2> QED BY <1>2, <2>3, <2>4, <2>5, <2>6, <2>7 DEF Next, ResolveNext
<1> QED
  BY <1>1, <1>2, Core, PTL DEF Spec

\* Resolve is all or nothing: when it succeeds, the targets are exactly the phones of the
\* inventory that have an address, whatever the lookups and the probes met.
THEOREM EveryPhoneIsTarget == Spec => []EveryPhoneWithAddress
<1>1. Init => TargetsInv
  <2>1. WithAddress(0) = {}
    BY DEF WithAddress
  <2>2. Init => at = 1 /\ targets = {}
    BY DEF Init
  <2>3. 1 - 1 = 0
    OBVIOUS
  <2> QED BY <2>1, <2>2, <2>3 DEF TargetsInv
<1>2. CoreInv /\ DoneInv /\ TargetsInv => EveryPhoneWithAddress
  <2> SUFFICES ASSUME CoreInv, DoneInv, TargetsInv, rpc = "done"
               PROVE  targets = WithAddress(Len(inventory))
    BY DEF EveryPhoneWithAddress, WithAddress
  <2>1. Len(inventory) \in Nat
    BY InventoryLength DEF CoreInv, TypeOK
  <2>2. at - 1 = Len(inventory)
    BY <2>1 DEF DoneInv
  <2> QED BY <2>2 DEF TargetsInv
<1> QED
  BY <1>1, <1>2, Core, Done, TargetsStep, PTL DEF Spec

----------------------------------------------------------------------------
(* Verdicts. *)

\* The verdict of a call on its phone is right.
RightVerdict(c) ==
    IF c.op = "probe"
    THEN \/ c.result = TrueState(c.phone)
         \/ TrueState(c.phone) = "unclassified" /\ c.result \notin {"ok", "api_disabled"}
    ELSE (c.result = "ok") <=> TrueState(c.phone) = "ok" /\ device[c.phone].mode # "garbled"

LEMMA VerdictRightIs ==
    VerdictRight <=>
        \A o \in Callers :
            call[o].pc = "returned" /\ call[o].steady /\ Genuine(call[o].phone) =>
                RightVerdict(call[o])
BY DEF VerdictRight, RightVerdict

\* The phones without a documented state, by the challenge they give.
LEMMA UnclassifiedIs ==
    ASSUME NEW p \in Phones, device[p] \in PhoneState
    PROVE  LET s == device[p]
           IN  /\ s.mode = "broken" => Unclassified(p)
               /\ s.mode \in {"disabled", "open", "garbled"} => ~ Unclassified(p)
               /\ s.mode = "secure" =>
                     (Unclassified(p) <=> s.challenge # NoChallenge /\ ~ Answerable(s.challenge))
<1> DEFINE ch == device[p].challenge
<1>1. ch \in Challenge
  BY DEF PhoneState
<1>2. ch.algorithm \in {"", "MD5", "SHA-256", "MD5-sess"}
  BY <1>1 DEF Challenge
<1>3. Answerable(ch) <=> ch.scheme = "Digest" /\ ch.complete /\ ch.algorithm # "MD5-sess"
  BY <1>2 DEF Answerable, Algorithm
<1> QED
  BY <1>3 DEF Unclassified

\* TrueState as a table.
LEMMA TrueStateTable ==
    ASSUME NEW p \in Phones, device[p] \in PhoneState
    PROVE  LET s == device[p]
           IN  /\ ~ Reachable(p) => TrueState(p) = "unreachable"
               /\ Reachable(p) /\ s.mode = "disabled" => TrueState(p) = "api_disabled"
               /\ Reachable(p) /\ s.mode = "broken" => TrueState(p) = "unclassified"
               /\ Reachable(p) /\ s.mode \in {"open", "garbled"} => TrueState(p) = "ok"
               /\ Reachable(p) /\ s.mode = "secure" =>
                     /\ s.challenge = NoChallenge => TrueState(p) = "auth_failed"
                     /\ s.challenge # NoChallenge /\ ~ Answerable(s.challenge) =>
                           TrueState(p) = "unclassified"
                     /\ Answerable(s.challenge) /\ KeyFits(p) => TrueState(p) = "ok"
                     /\ Answerable(s.challenge) /\ ~ KeyFits(p) => TrueState(p) = "auth_failed"
<1>1. ~ Answerable(NoChallenge)
  BY DEF Answerable, NoChallenge
<1> DEFINE s == device[p]
<1>2. /\ s.mode = "broken" => Unclassified(p)
      /\ s.mode \in {"disabled", "open", "garbled"} => ~ Unclassified(p)
      /\ s.mode = "secure" =>
            (Unclassified(p) <=> s.challenge # NoChallenge /\ ~ Answerable(s.challenge))
  BY UnclassifiedIs
<1>3. CASE ~ Reachable(p)
  BY <1>3 DEF TrueState
<1>4. CASE Reachable(p) /\ s.mode # "secure"
  BY <1>2, <1>4 DEF TrueState
<1>5. CASE Reachable(p) /\ s.mode = "secure"
  <2>1. CASE Unclassified(p)
    <3>1. TrueState(p) = "unclassified"
      BY <1>5, <2>1 DEF TrueState
    <3> QED BY <1>1, <1>2, <1>5, <2>1, <3>1
  <2>2. CASE ~ Unclassified(p)
    <3>1. TrueState(p) = IF s.challenge # NoChallenge /\ KeyFits(p) THEN "ok" ELSE "auth_failed"
      BY <1>5, <2>2 DEF TrueState
    <3> QED BY <1>1, <1>2, <1>5, <2>2, <3>1
  <2> QED BY <2>1, <2>2
<1> QED
  BY <1>3, <1>4, <1>5

\* A call whose phone cannot be reached returns the verdict of a failure.
LEMMA FailureIsRight ==
    ASSUME CoreInv, NEW o \in Callers, Live(call[o]), ~ Reachable(call[o].phone)
    PROVE  RightVerdict(Returned(call[o], Failed(call[o])))
<1> DEFINE x == Returned(call[o], Failed(call[o]))
<1>1. /\ x.phone = call[o].phone /\ x.op = call[o].op /\ x.result = Failed(call[o])
  BY FailedReturn
<1>2. call[o].phone \in Phones /\ device[call[o].phone] \in PhoneState
  BY CallFacts DEF Live, CoreInv, TypeOK, ClientTypeOK, Hosts
<1>3. TrueState(call[o].phone) = "unreachable"
  BY <1>2, TrueStateTable
<1> HIDE DEF x
<1>4. RightVerdict(x)
  BY <1>1, <1>3 DEF RightVerdict, Failed
<1> QED
  BY <1>4 DEF x

\* The peer of a call to a genuine phone is that phone.
LEMMA PeerIsPhone ==
    ASSUME CoreInv, NEW o \in Callers, call[o].pc = "sent", Genuine(call[o].phone)
    PROVE  /\ call[o].peer = call[o].phone
           /\ PassesFor(call[o].phone, call[o].phone)
<1>1. /\ call[o].peer \in Hosts /\ VerifyConnection(call[o].peer, client[call[o].phone])
      /\ call[o].phone \in Phones /\ client[call[o].phone].wantCN = call[o].phone
  BY CallFacts DEF GoodCall
<1>2. PassesFor(call[o].peer, call[o].phone)
  BY <1>1, VerifiedPasses
<1> QED
  BY <1>1, <1>2 DEF Genuine

\* A genuine peer that answers is the reachable phone.
LEMMA AnswerIsReachable ==
    ASSUME CoreInv, NEW o \in Callers, call[o].pc = "sent", Genuine(call[o].phone), ~ Gone(o)
    PROVE  /\ call[o].peer = call[o].phone /\ Reachable(call[o].phone)
           /\ device[call[o].phone].mode # "down"
BY PeerIsPhone DEF Gone, Reachable, At

\* The phone accepts the digest made from its challenge exactly when the key fits.
LEMMA AcceptsIffFits ==
    ASSUME NEW p \in Phones, NEW o \in Callers, o \in nonces[p], Answerable(device[p].challenge),
           client[p] \in ClientRecord, device[p].challenge \in Challenge
    PROVE  Accepts(p, digestAuthorization(device[p].challenge, client[p], o)) <=> KeyFits(p)
<1> DEFINE ch == device[p].challenge
           d == digestAuthorization(ch, client[p], o)
<1>1. d # NoAuth
  BY DigestType
<1>2. /\ d.user = client[p].username /\ d.password = client[p].password
      /\ d.algorithm = Algorithm(ch) /\ d.qop = selectQOP(ch.qop) /\ d.nonce = o
  BY DEF digestAuthorization
<1>3. selectQOP(ch.qop) = "auth" <=> "auth" \in ch.qop
  BY DEF selectQOP
<1> HIDE DEF d
<1>4. Accepts(p, d) <=> KeyFits(p)
  BY <1>1, <1>2, <1>3 DEF Accepts, KeyFits
<1> QED
  BY <1>4 DEF d

\* An exchange of a call that saw no change leaves it with the truth.
LEMMA ExchangeTruth ==
    ASSUME CoreInv, NEW o \in Callers, Exchange(o), Genuine(call[o].phone), Truth(o)
    PROVE  LET c == call[o]
               a == Answered(o, Status(c.peer, c.auth))
               s == device[c.phone]
           IN  /\ a.pc = "returned" => RightVerdict(a)
               /\ a.pc = "dial" =>
                     /\ Reachable(c.phone) /\ s.mode = "secure"
                     /\ a.stage \in {"challenge", "auth"}
                     /\ a.stage = "challenge" /\ c.op = "probe" => s.challenge # NoChallenge
                     /\ a.stage = "auth" =>
                           /\ Answerable(s.challenge)
                           /\ a.auth = digestAuthorization(s.challenge, client[c.phone], o)
                           /\ o \in nonces'[c.phone]
<1> DEFINE c == call[o]
           p == c.phone
           s == device[p]
           ch == s.challenge
           status == Status(p, c.auth)
           a == Answered(o, status)
<1>1. /\ c.pc = "sent" /\ Live(c) /\ p \in Phones /\ c.peer = p /\ Reachable(p)
      /\ s.mode # "down" /\ client[p] \in ClientRecord /\ c \in CallRecord
  BY CallFacts, AnswerIsReachable DEF Exchange, Live
<1>2. s \in PhoneState /\ p \in Hosts /\ nonces \in [Hosts -> SUBSET Callers]
  BY <1>1 DEF CoreInv, TypeOK, ClientTypeOK, Hosts
<1>3. ch \in Challenge /\ s.mode \in {"secure", "open", "garbled", "disabled", "broken"}
  BY <1>1, <1>2 DEF PhoneState, Modes
<1>4. /\ status \in {200, 401, 404, 500}
      /\ s.mode \in {"open", "garbled"} => status = 200
      /\ s.mode = "disabled" => status = 404
      /\ s.mode = "broken" => status = 500
      /\ s.mode = "secure" => status = IF Accepts(p, c.auth) THEN 200 ELSE 401
  BY <1>1, <1>2, StatusType
<1>5. /\ c.stage \in {"first", "challenge", "auth"} /\ c.op \in {"probe", "read"}
      /\ c.stage # "auth" => c.auth = NoAuth
  BY <1>1 DEF CallRecord, Ops, CoreInv, CallsInv, GoodCall
<1>6. c.stage # "auth" => ~ Accepts(p, c.auth)
  BY <1>5 DEF Accepts
<1>7. nonces'[p] = NextNonces(p, o, c.auth)
  BY <1>1, <1>2 DEF Exchange, Delivered
<1>8. /\ c.stage # "first" => s.mode = "secure"
      /\ c.stage = "challenge" /\ c.op = "probe" => ch # NoChallenge
      /\ c.stage = "auth" => /\ Answerable(ch) /\ c.auth = digestAuthorization(ch, client[p], o)
                             /\ c.auth # NoAuth => o \in nonces[p]
  BY <1>1 DEF Truth
<1>9. Refused(c, status) => s.mode = "secure" /\ ~ Accepts(p, c.auth)
  BY <1>3, <1>4, <1>6 DEF Refused
<1>10. Refused(c, status) => o \in nonces'[p]
  BY <1>2, <1>7, <1>9 DEF NextNonces
<1>11. /\ a.phone = p /\ a.op = c.op
       /\ \/ /\ a.pc = "dial" /\ a.stage = "challenge"
             /\ Refused(c, status) /\ c.stage = "first" /\ (c.op = "probe" => ch # NoChallenge)
          \/ /\ a.pc = "dial" /\ a.stage = "auth"
             /\ Refused(c, status) /\ c.stage = "challenge" /\ Answerable(ch)
             /\ a.auth = digestAuthorization(ch, client[p], o)
          \/ /\ a.pc = "returned" /\ a.result = "auth_failed"
             /\ Refused(c, status) /\ c.stage = "first" /\ c.op = "probe" /\ ch = NoChallenge
          \/ /\ a.pc = "returned" /\ a.result = Failed(c)
             /\ Refused(c, status) /\ c.stage = "challenge" /\ ~ Answerable(ch)
          \/ /\ a.pc = "returned" /\ ~ Refused(c, status)
             /\ a.result = IF c.stage = "first" THEN First(c, status) ELSE Final(c, status)
  BY <1>1, <1>4, AnsweredGood
<1>12. /\ s.mode = "disabled" => TrueState(p) = "api_disabled"
       /\ s.mode = "broken" => TrueState(p) = "unclassified"
       /\ s.mode \in {"open", "garbled"} => TrueState(p) = "ok"
       /\ s.mode = "secure" =>
             /\ ch = NoChallenge => TrueState(p) = "auth_failed"
             /\ ch # NoChallenge /\ ~ Answerable(ch) => TrueState(p) = "unclassified"
             /\ Answerable(ch) /\ KeyFits(p) => TrueState(p) = "ok"
             /\ Answerable(ch) /\ ~ KeyFits(p) => TrueState(p) = "auth_failed"
  BY <1>1, <1>2, TrueStateTable
<1>13. Final(c, status) =
          IF c.op = "probe" THEN CASE status = 200 -> "ok" [] status = 401 -> "auth_failed"
                                   [] OTHER -> "unreachable"
          ELSE IF status = 200 /\ s.mode # "garbled" THEN "ok" ELSE "error"
  BY <1>1 DEF Final
<1>14. First(c, status) =
          IF c.op = "probe" /\ status = 404 THEN "api_disabled" ELSE Final(c, status)
  BY DEF First
<1> HIDE DEF a, status, ch
<1>15. CASE a.pc = "dial"
  BY <1>1, <1>9, <1>10, <1>11, <1>15 DEF a, status, ch
<1>16. ASSUME a.pc = "returned" PROVE RightVerdict(a)
  <2>1. CASE a.result = "auth_failed" /\ Refused(c, status) /\ c.op = "probe" /\ ch = NoChallenge
    BY <1>9, <1>11, <1>12, <2>1 DEF RightVerdict
  <2>2. CASE a.result = Failed(c) /\ Refused(c, status) /\ c.stage = "challenge"
             /\ ~ Answerable(ch)
    <3>1. TrueState(p) # "ok" /\ (c.op = "probe" => TrueState(p) = "unclassified")
      BY <1>8, <1>9, <1>12, <2>2
    <3> QED BY <1>11, <2>2, <3>1 DEF RightVerdict, Failed
  <2>3. CASE ~ Refused(c, status)
             /\ a.result = IF c.stage = "first" THEN First(c, status) ELSE Final(c, status)
    <3>1. CASE s.mode # "secure"
      <4>1. c.stage = "first"
        BY <1>8, <3>1
      <4>2. a.result = First(c, status)
        BY <2>3, <4>1
      <4>3. CASE s.mode \in {"open", "garbled"}
        BY <1>4, <1>5, <1>11, <1>12, <1>13, <1>14, <4>2, <4>3 DEF RightVerdict
      <4>4. CASE s.mode = "disabled"
        BY <1>4, <1>5, <1>11, <1>12, <1>13, <1>14, <4>2, <4>4 DEF RightVerdict
      <4>5. CASE s.mode = "broken"
        BY <1>4, <1>5, <1>11, <1>12, <1>13, <1>14, <4>2, <4>5 DEF RightVerdict
      <4> QED BY <1>3, <3>1, <4>3, <4>4, <4>5
    <3>2. CASE s.mode = "secure"
      <4>1. c.stage = "auth"
        BY <1>4, <1>6, <2>3, <3>2 DEF Refused
      <4>2. status = IF KeyFits(p) THEN 200 ELSE 401
        <5>1. c.auth # NoAuth
          BY <1>1, <1>3, <1>8, <4>1, DigestType
        <5>2. Accepts(p, c.auth) <=> KeyFits(p)
          BY <1>1, <1>3, <1>8, <4>1, <5>1, AcceptsIffFits DEF ch
        <5> QED BY <1>4, <3>2, <5>2
      <4>3. TrueState(p) = IF KeyFits(p) THEN "ok" ELSE "auth_failed"
        BY <1>8, <1>12, <3>2, <4>1
      <4>4. a.result = Final(c, status)
        BY <2>3, <4>1
      <4> QED BY <1>5, <1>11, <1>13, <3>2, <4>2, <4>3, <4>4 DEF RightVerdict
    <3> QED BY <3>1, <3>2
  <2> QED BY <1>11, <1>16, <2>1, <2>2, <2>3
<1> QED
  BY <1>1, <1>11, <1>15, <1>16 DEF a, status, ch

\* What call o knows and its verdict, if it saw no change.
Honest(o) ==
    call[o].steady /\ Genuine(call[o].phone) =>
        /\ call[o].pc # "idle" => Truth(o)
        /\ call[o].pc = "returned" => RightVerdict(call[o])

VerdictInv == \A o \in Callers : Honest(o)

\* Hosts, phones and clients alone decide what a right verdict is.
LEMMA SameTruth ==
    ASSUME UNCHANGED <<host, device, client>>
    PROVE  \A p : /\ Genuine(p)' <=> Genuine(p)
                  /\ Reachable(p)' <=> Reachable(p)
                  /\ TrueState(p)' = TrueState(p)
<1> SUFFICES ASSUME NEW p
             PROVE  /\ Genuine(p)' <=> Genuine(p)
                    /\ Reachable(p)' <=> Reachable(p)
                    /\ TrueState(p)' = TrueState(p)
  OBVIOUS
<1>1. client'[p] = client[p] /\ device'[p] = device[p]
  OBVIOUS
<1>2. \A h : PassesFor(h, p)' <=> PassesFor(h, p)
  BY <1>1 DEF PassesFor
<1>3. (Genuine(p)' <=> Genuine(p)) /\ (Reachable(p)' <=> Reachable(p))
  BY <1>1, <1>2 DEF Genuine, Reachable
<1>4. TrueState(p)' = TrueState(p)
  BY <1>1, <1>3 DEF TrueState, Unclassified, KeyFits
<1> QED
  BY <1>3, <1>4

\* Nothing a call depends on changed.
LEMMA HonestKept ==
    ASSUME NEW o \in Callers, Honest(o), UNCHANGED <<host, device, client>>,
           call'[o] = call[o],
           call[o].auth # NoAuth /\ o \in nonces[call[o].phone] => o \in nonces'[call[o].phone]
    PROVE  Honest(o)'
<1>1. \A p : /\ Genuine(p)' <=> Genuine(p)
             /\ Reachable(p)' <=> Reachable(p)
             /\ TrueState(p)' = TrueState(p)
  BY SameTruth
<1>2. Truth(o) => Truth(o)'
  BY <1>1 DEF Truth
<1>3. RightVerdict(call[o]) => RightVerdict(call[o])'
  BY <1>1 DEF RightVerdict
<1> QED
  BY <1>1, <1>2, <1>3 DEF Honest

LEMMA HonestWhen ==
    ASSUME NEW o \in Callers, call'[o].pc = "idle" \/ call'[o].steady = FALSE
    PROVE  Honest(o)'
BY DEF Honest

\* A request that reaches a host takes from another call at most a nonce, and then that
\* call knows that its phone has changed.
LEMMA DeliveredHonest ==
    ASSUME CoreInv, NEW h \in Hosts, NEW o \in Callers, NEW x, GoodCall(x, client),
           UNCHANGED <<host, device, client>>, Delivered(h, o, x), call[o].phone \in Phones,
           NEW q \in Callers, q # o, Honest(q)
    PROVE  Honest(q)'
<1>1. call'[q] = [call[q] EXCEPT !.steady = @ /\ ~ Forgotten(h, o, q)] /\ client' = client
  BY DeliveredEffect
<1>2. call[q] \in CallRecord /\ nonces \in [Hosts -> SUBSET Callers]
  BY CallFacts DEF CoreInv, TypeOK, ClientTypeOK
<1>3. nonces' = [nonces EXCEPT ![h] = NextNonces(h, o, call[o].auth)]
  BY DEF Delivered
<1>4. CASE Forgotten(h, o, q)
  <2>1. call'[q].steady = FALSE
    BY <1>1, <1>2, <1>4 DEF CallRecord
  <2> QED BY <2>1, HonestWhen
<1>5. CASE ~ Forgotten(h, o, q)
  <2>1. call'[q] = call[q]
    <3> DEFINE c == call[q]
    <3>1. c.steady \in BOOLEAN
      BY <1>2 DEF CallRecord
    <3>2. (c.steady /\ ~ Forgotten(h, o, q)) = c.steady
      BY <1>5, <3>1
    <3>3. [c EXCEPT !.steady = c.steady] = c
      BY <1>2 DEF CallRecord
    <3> QED BY <1>1, <3>2, <3>3
  <2>2. call[q].auth # NoAuth /\ q \in nonces[call[q].phone] => q \in nonces'[call[q].phone]
    BY <1>2, <1>3, <1>5 DEF Forgotten
  <2> QED BY <2>1, <2>2, HonestKept
<1> QED
  BY <1>4, <1>5

LEMMA CallStepHonest ==
    ASSUME CoreInv, VerdictInv, NEW o \in Callers, CallStep(o)
    PROVE  VerdictInv'
<1> DEFINE c == call[o]
           p == c.phone
<1>0. /\ call \in [Callers -> CallRecord] /\ nonces \in [Hosts -> SUBSET Callers]
      /\ UNCHANGED <<host, device, client>>
  BY DEF CoreInv, TypeOK, ClientTypeOK, CallStep, Dial, DialFails, ExchangeFails, RequestLost,
         Exchange
<1>1. Honest(o) /\ Live(c) /\ p \in Phones /\ GoodCall(c, client) /\ c \in CallRecord
  BY CallFacts DEF VerdictInv, CallStep, Dial, DialFails, ExchangeFails, RequestLost, Exchange,
         Live
<1>2. ASSUME NEW x, call' = [call EXCEPT ![o] = x], UNCHANGED nonces, Honest(o)'
      PROVE  VerdictInv'
  <2>1. ASSUME NEW q \in Callers, q # o PROVE Honest(q)'
    <3>1. call'[q] = call[q]
      BY <1>0, <1>2, <2>1
    <3> QED BY <1>0, <1>2, <3>1, HonestKept DEF VerdictInv
  <2> QED BY <1>2, <2>1 DEF VerdictInv
<1>3. ASSUME c.pc = "sent", NEW x, GoodCall(x, client), Delivered(c.peer, o, x), Honest(o)'
      PROVE  VerdictInv'
  <2>1. c.peer \in Hosts
    BY <1>1, <1>3 DEF GoodCall
  <2>2. ASSUME NEW q \in Callers, q # o PROVE Honest(q)'
    BY <1>0, <1>1, <1>3, <2>1, <2>2, DeliveredHonest DEF VerdictInv
  <2> QED BY <1>3, <2>2 DEF VerdictInv
<1>4. CASE Dial(o)
  <2>1. PICK h \in Hosts : call' = [call EXCEPT ![o] = ConnectedTo(c, h)]
                            /\ VerifyConnection(h, client[p])
    BY <1>4, DialEffect
  <2>2. call'[o] = ConnectedTo(c, h)
    BY <1>0, <2>1
  <2>3. /\ call'[o].pc = "sent" /\ call'[o].phone = p /\ call'[o].stage = c.stage
        /\ call'[o].op = c.op /\ call'[o].steady = c.steady /\ call'[o].auth = c.auth
    BY <1>1, <1>4, <2>1, <2>2, ConnectedGood DEF Dial
  <2>4. UNCHANGED nonces
    BY <1>4 DEF Dial
  <2>5. Honest(o)'
    BY <1>0, <1>1, <2>3, <2>4
       DEF Honest, Truth, Live, Reachable, Genuine, PassesFor
  <2> QED BY <1>2, <2>1, <2>4, <2>5
<1>5. CASE RequestLost(o)
  <2> DEFINE x == [Returned(c, Failed(c)) EXCEPT !.steady = FALSE]
  <2>1. \/ call' = [call EXCEPT ![o] = x] /\ UNCHANGED nonces
        \/ c.pc = "sent" /\ Delivered(c.peer, o, x)
    BY <1>5 DEF RequestLost
  <2>2. GoodCall(x, client) /\ x.steady = FALSE
    BY <1>1, FailedReturn
  <2> HIDE DEF x
  <2>3. call'[o] = x
    BY <1>0, <2>1 DEF Delivered
  <2>4. Honest(o)'
    BY <2>2, <2>3, HonestWhen
  <2> QED BY <1>2, <1>3, <2>1, <2>2, <2>4
<1>6. CASE DialFails(o) \/ ExchangeFails(o)
  <2> DEFINE x == Returned(c, Failed(c))
  <2>1. call' = [call EXCEPT ![o] = x] /\ UNCHANGED nonces
    BY <1>6 DEF DialFails, ExchangeFails
  <2>2. x.pc = "returned" /\ x.phone = p
    BY <1>1, FailedReturn
  <2>3. ASSUME Genuine(p) PROVE RightVerdict(x)
    <3>1. ~ Reachable(p)
      <4>1. CASE DialFails(o)
        <5>1. Reachable(p) => VerifyConnection(p, client[p])
          <6>1. p \in Phones /\ client[p].wantCN = p
            BY <1>1, <4>1, CallFacts DEF DialFails
          <6> QED BY <6>1, VerifiedPasses DEF Reachable
        <5> QED BY <1>1, <4>1, <5>1, NamesAssumption DEF DialFails, Reachable, At, Nobody
      <4>2. CASE ExchangeFails(o)
        BY <2>3, <4>2, PeerIsPhone DEF ExchangeFails, Gone, Reachable, At
      <4> QED BY <1>6, <4>1, <4>2
    <3> QED BY <1>1, <3>1, FailureIsRight
  <2> HIDE DEF x
  <2>4. call'[o] = x
    BY <1>0, <2>1
  <2>5. Honest(o)'
    BY <1>0, <2>2, <2>3, <2>4
       DEF Honest, Truth, Live, RightVerdict, TrueState, Unclassified, Reachable, KeyFits,
           Genuine, PassesFor
  <2> QED BY <1>2, <2>1, <2>5
<1>7. CASE Exchange(o)
  <2> DEFINE a == Answered(o, Status(c.peer, c.auth))
             s == device[p]
  <2>1. c.pc = "sent" /\ Delivered(c.peer, o, a)
    BY <1>7 DEF Exchange
  <2>2. /\ GoodCall(a, client) /\ a.phone = p /\ a.op = c.op /\ a.steady = c.steady
        /\ a.pc \in {"dial", "returned"}
    <3>1. Status(c.peer, c.auth) \in {200, 401, 404, 500}
      BY <1>7, ExchangeGood
    <3> QED BY <2>1, <3>1, AnsweredGood
  <2>3. ASSUME c.steady, Genuine(p)
        PROVE  /\ a.pc = "returned" => RightVerdict(a)
               /\ a.pc = "dial" =>
                     /\ Reachable(p) /\ s.mode = "secure"
                     /\ a.stage \in {"challenge", "auth"}
                     /\ a.stage = "challenge" /\ c.op = "probe" => s.challenge # NoChallenge
                     /\ a.stage = "auth" =>
                           /\ Answerable(s.challenge)
                           /\ a.auth = digestAuthorization(s.challenge, client[p], o)
                           /\ o \in nonces'[p]
    <3>1. Truth(o)
      BY <1>1, <2>3 DEF Honest, Live
    <3> QED BY <1>7, <2>3, <3>1, ExchangeTruth
  <2> HIDE DEF a
  <2>4. call'[o] = a
    BY <2>1 DEF Delivered
  <2>5. ASSUME c.steady, Genuine(p) PROVE Honest(o)'
    <3>1. CASE a.pc = "returned"
      <4>1. RightVerdict(a) /\ \A x : TrueState(x)' = TrueState(x)
        BY <1>0, <2>3, <2>5, <3>1, SameTruth
      <4>2. RightVerdict(call[o])'
        BY <1>0, <2>4, <4>1 DEF RightVerdict
      <4> QED BY <2>4, <3>1, <4>2 DEF Honest, Truth, Live
    <3>2. CASE a.pc = "dial"
      BY <1>0, <2>2, <2>3, <2>4, <2>5, <3>2
         DEF Honest, Truth, Live, Reachable, PassesFor
    <3> QED BY <2>2, <3>1, <3>2
  <2>6. CASE ~ (c.steady /\ Genuine(p))
    <3>1. \A x : Genuine(x)' <=> Genuine(x)
      BY <1>0, SameTruth
    <3>2. Genuine(call[o].phone)' <=> Genuine(p)
      BY <2>2, <2>4, <3>1
    <3>3. Honest(o)'
      BY <2>2, <2>4, <2>6, <3>2 DEF Honest
    <3> QED BY <1>3, <2>1, <2>2, <3>3
  <2> QED BY <1>3, <2>1, <2>2, <2>5, <2>6
<1> QED
  BY <1>4, <1>5, <1>6, <1>7 DEF CallStep

LEMMA VerdictStep == CoreInv /\ VerdictInv /\ [Next]_vars => VerdictInv'
<1> SUFFICES ASSUME CoreInv, VerdictInv, [Next]_vars PROVE VerdictInv'
  OBVIOUS
<1>0. call \in [Callers -> CallRecord] /\ ResolverInv
  BY DEF CoreInv, TypeOK, ClientTypeOK
<1>1. CASE UNCHANGED <<host, device, client, nonces, call>>
  BY <1>1, HonestKept DEF VerdictInv
<1>2. CASE \E o \in Callers : CallStep(o)
  BY <1>2, CallStepHonest
<1>3. CASE SkipDevice \/ NextDevice \/ Resolved \/ ReadSource \/ ReadFamily \/ ReadPolicies
           \/ ReadValue \/ QueryFails
  BY <1>1, <1>3 DEF SkipDevice, NextDevice, Resolved, ReadSource, ReadFamily, ReadPolicies,
        ReadValue, QueryFails, Lookup, ResolveStep
<1>4. CASE Build
  <2>1. /\ rpc = "build" /\ \/ UNCHANGED <<client, call>>
                            \/ call' = [call EXCEPT ![Resolver] = Started("probe", Here)]
        /\ UNCHANGED <<host, device, nonces>>
    BY <1>4 DEF Build, ResolveStep, Here
  <2>2. at <= Len(inventory)
    BY <1>0, <2>1 DEF ResolverInv, Busy
  <2>3. Here \in Phones
    BY <2>2, HereFacts
  <2>4. CASE call' = [call EXCEPT ![Resolver] = Started("probe", Here)]
    <3>1. \A q \in Callers \ {Resolver} : call'[q] = call[q] /\ call[q].pc = "idle"
      BY <1>0, <2>1, <2>4 DEF ResolverInv, Collectors
    <3>2. call'[Resolver] = Started("probe", Here)
      BY <1>0, <2>4, ResolverAssumption
    <3>3. call'[Resolver].pc = "dial" /\ call'[Resolver].stage = "first"
      BY <2>3, <3>2, StartGood DEF Ops
    <3>4. Honest(Resolver)'
      BY <3>3 DEF Honest, Truth
    <3>5. ASSUME NEW q \in Callers PROVE Honest(q)'
      <4>1. CASE q = Resolver
        BY <3>4, <4>1
      <4>2. CASE q # Resolver
        BY <3>1, <4>2, HonestWhen
      <4> QED BY <4>1, <4>2
    <3> QED BY <3>5 DEF VerdictInv
  <2> QED BY <1>1, <2>1, <2>4
<1>5. ASSUME NEW o \in Callers, EndCall(o), UNCHANGED <<host, device, nonces, client>>
      PROVE  VerdictInv'
  <2>1. call'[o] = Idle /\ \A q \in Callers \ {o} : call'[q] = call[q]
    BY <1>0, <1>5 DEF EndCall
  <2>2. call'[o].pc = "idle"
    BY <2>1, StartGood
  <2>3. ASSUME NEW q \in Callers PROVE Honest(q)'
    <3>1. CASE q = o
      BY <2>2, <3>1, HonestWhen
    <3>2. CASE q # o
      BY <1>5, <2>1, <3>2, HonestKept DEF VerdictInv
    <3> QED BY <3>1, <3>2
  <2> QED BY <2>3 DEF VerdictInv
<1>6. CASE Probed
  BY <1>5, <1>6, ResolverAssumption DEF Probed, ResolveStep
<1>7. CASE \/ \E p \in Phones : \E won \in WinnerChoices[p] : Redeploy(p, won)
           \/ \E i \in DOMAIN Policies, w \in PolicyValues : Rotate(i, w)
  BY <1>1, <1>7 DEF Redeploy, Rotate
<1>8. ASSUME NEW o \in Collectors, CollectorCall(o) PROVE VerdictInv'
  <2>0. o \in Callers
    BY DEF Collectors
  <2>1. CASE \E p \in targets, op \in Ops : StartCall(o, op, p)
    <3>1. PICK p \in targets, op \in Ops : StartCall(o, op, p)
      BY <2>1
    <3>2. p \in Phones
      BY DEF CoreInv, TypeOK
    <3>3. /\ call'[o] = Started(op, p) /\ \A q \in Callers \ {o} : call'[q] = call[q]
          /\ UNCHANGED <<host, device, nonces, client>>
      BY <1>0, <2>0, <3>1 DEF StartCall
    <3>4. call'[o].pc = "dial" /\ call'[o].stage = "first"
      BY <3>2, <3>3, StartGood
    <3>5. Honest(o)'
      BY <3>4 DEF Honest, Truth
    <3>6. ASSUME NEW q \in Callers, q # o PROVE Honest(q)'
      BY <3>3, <3>6, HonestKept DEF VerdictInv
    <3> QED BY <3>5, <3>6 DEF VerdictInv
  <2>2. CASE EndCall(o) /\ UNCHANGED <<host, device, nonces, client>>
    BY <1>5, <2>0, <2>2
  <2> QED BY <1>8, <2>1, <2>2 DEF CollectorCall
<1>9. CASE Environment
  <2>1. call' = Unsteady
    BY <1>9 DEF Environment, Readdress, Reconfigure, Change
  <2>2. ASSUME NEW q \in Callers PROVE Honest(q)'
    <3>1. call'[q].pc = call[q].pc /\ (call[q].pc # "idle" => call'[q].steady = FALSE)
      BY <2>1, UnsteadyGood
    <3> QED BY <3>1, HonestWhen
  <2> QED BY <2>2 DEF VerdictInv
<1>10. CASE UNCHANGED vars
  BY <1>1, <1>10 DEF vars, clientVars
<1> QED
  BY <1>2, <1>3, <1>4, <1>6, <1>7, <1>8, <1>9, <1>10 DEF Next, ResolveNext

\* A call to a genuine phone during which nothing changed tells the truth about it,
\* whatever other calls to the same phone do in between: a probe's verdict is the phone's
\* documented state, where it has one, and a read succeeds exactly when the phone would
\* serve it.  A phone in a state without a name is never called ok or disabled.
THEOREM VerdictsRight == Spec => []VerdictRight
<1>1. Init => VerdictInv
  BY StartGood DEF Init, ClientInit, VerdictInv, Honest
<1>2. VerdictInv => VerdictRight
  BY VerdictRightIs DEF VerdictInv, Honest
<1> QED
  BY <1>1, <1>2, Core, VerdictStep, PTL DEF Spec

----------------------------------------------------------------------------
(* The password of the winning policy. *)

SelectorNames == {"device", "model", "collection", "family"}

LEMMA SelectorsAreNames ==
    ASSUME NEW sc \in SupportedScopes
    PROVE  Selectors[sc] \subseteq SelectorNames
BY DEF SupportedScopes, Selectors, SelectorNames

\* policyVariables selects a policy by exactly what Lens deploys its scope by.
LEMMA SelectorsFitScopes ==
    ASSUME NEW sc \in SupportedScopes, NEW s \in SelectorNames
    PROVE  s \in Selectors[sc] <=> sc \in ScopesBy[s]
BY DEF SupportedScopes, Selectors, SelectorNames, ScopesBy

LEMMA PolicySelectors ==
    ASSUME NEW i \in DOMAIN Policies, Policies[i].scope \in SupportedScopes,
           NEW s \in SelectorNames
    PROVE  Policies[i][s] # "" <=> s \in Selectors[Policies[i].scope]
<1>1. DOMAIN ScopesBy = SelectorNames
  BY DEF ScopesBy, SelectorNames
<1>2. Policies[i][s] # "" <=> Policies[i].scope \in ScopesBy[s]
  BY <1>1, PolicyAssumption
<1> QED
  BY <1>2, SelectorsFitScopes

\* A policy of the same scope and collection that is deployed to p as well.
Rivals(i, p) ==
    {j \in DOMAIN Policies : /\ Policies[j].scope = Policies[i].scope
                             /\ Policies[j].collection = Policies[i].collection
                             /\ AppliesTo(j, p)}

\* getPolicies, asked with what the phone and the source give, returns the policies of
\* that scope and collection that are deployed to the phone.
LEMMA MatchingIsRivals ==
    ASSUME NEW p \in Phones, NEW i \in DOMAIN Policies, AppliesTo(i, p),
           Policies[i].scope \in SupportedScopes, NEW src, NEW fam,
           src = [scope |-> Policies[i].scope, collection |-> Policies[i].collection],
           "family" \in Selectors[src.scope] => fam = Traits[p].family
    PROVE  Matching(src, policyVariables(p, src, fam)) = Rivals(i, p)
<1> DEFINE v == policyVariables(p, src, fam)
           sc == Policies[i].scope
           sel == Selectors[sc]
<1>1. /\ src.scope = sc /\ src.collection = Policies[i].collection
      /\ sel \subseteq SelectorNames
  BY SelectorsAreNames
<1>2. /\ v["device"] = p /\ v["model"] = Traits[p].model
      /\ v["collection"] = Policies[i].collection /\ v["family"] = fam
  BY <1>1 DEF policyVariables
<1>3. ASSUME NEW j \in DOMAIN Policies, Policies[j].scope = sc
      PROVE  \A s \in SelectorNames : Policies[j][s] # "" <=> s \in sel
  BY <1>3, PolicySelectors
<1>4. ASSUME NEW j \in DOMAIN Policies, Policies[j].scope = sc
      PROVE  (\A s \in sel : Policies[j][s] = v[s]) <=>
             (Policies[j].collection = Policies[i].collection /\ AppliesTo(j, p))
  <2> DEFINE d == Policies[j]
  <2>1. /\ "device" \in sel <=> d.device # ""
        /\ "model" \in sel <=> d.model # ""
        /\ "collection" \in sel <=> d.collection # ""
        /\ "family" \in sel <=> d.family # ""
    BY <1>3, <1>4 DEF SelectorNames
  <2>2. "collection" \in sel <=> Policies[i].collection # ""
    BY <1>3 DEF SelectorNames
  <2>3. (\A s \in sel : d[s] = v[s]) <=>
            /\ "device" \in sel => d.device = p
            /\ "model" \in sel => d.model = Traits[p].model
            /\ "collection" \in sel => d.collection = Policies[i].collection
            /\ "family" \in sel => d.family = fam
    BY <1>1, <1>2 DEF SelectorNames
  <2>4. Policies[i].collection \in {""} \cup Traits[p].collections
    BY DEF AppliesTo
  <2>5. "family" \in sel => fam = Traits[p].family
    BY <1>1
  <2> QED BY <2>1, <2>2, <2>3, <2>4, <2>5 DEF AppliesTo
<1> QED
  BY <1>1, <1>4 DEF Matching, Rivals

\* Those of them that carry the password attribute.
Carriers(i, p) == {j \in Rivals(i, p) : values[j] # Unset}

\* The winner is the one named policy, if it can be asked for, has a value and no rival.
LEMMA WinnerIs ==
    ASSUME NEW p \in Phones, NEW i \in DOMAIN Policies, Named(p) = {i}, AppliesTo(i, p)
    PROVE  /\ values[i] # Unset
           /\ Winner(p) = {} \/ Winner(p) = {i}
           /\ Winner(p) = {i} <=> /\ Policies[i].scope \in SupportedScopes /\ values[i] # ""
                                  /\ Carriers(i, p) = {i}
<1>1. Cardinality(Named(p)) = 1 /\ values[i] # Unset
  BY FS_Singleton DEF Named
<1>2. i \in Carriers(i, p)
  BY <1>1 DEF Carriers, Rivals
<1>3. Carriers(i, p) = {i} <=>
          ~ \E j \in DOMAIN Policies \ {i} : /\ Policies[j].scope = Policies[i].scope
                                             /\ Policies[j].collection = Policies[i].collection
                                             /\ AppliesTo(j, p) /\ values[j] # Unset
  BY <1>2 DEF Carriers, Rivals
<1> DEFINE wins == /\ Policies[i].scope \in SupportedScopes /\ values[i] # ""
                   /\ Carriers(i, p) = {i}
<1>4. Winner(p) = {j \in {i} : wins}
  <2>1. \A j : j \in Winner(p) <=> j = i /\ wins
    BY <1>1, <1>3 DEF Winner
  <2> QED BY <2>1
<1> QED
  BY <1>1, <1>4

\* The phone a busy Resolve is at, and what Lens may name for it.
LEMMA LookupFacts ==
    ASSUME CoreInv, rpc \in Busy
    PROVE  /\ Here \in Phones /\ Named(Here) \subseteq DOMAIN Policies
           /\ \A i \in Named(Here) : AppliesTo(i, Here)
           /\ IsFiniteSet(Named(Here))
<1>1. at <= Len(inventory)
  BY DEF CoreInv, ResolverInv
<1>2. Here \in Phones
  BY <1>1, HereFacts
<1>3. winners[Here] \in WinnerChoices[Here]
  BY <1>2 DEF CoreInv, TypeOK
<1>4. winners[Here] \in SUBSET {i \in DOMAIN Policies : AppliesTo(i, Here)}
  BY <1>2, <1>3, WinnersAssumption
<1>5. Named(Here) \subseteq {i \in DOMAIN Policies : AppliesTo(i, Here)}
  BY <1>4 DEF Named
<1>6. IsFiniteSet(Named(Here))
  BY <1>5, PolicyAssumption, FS_Subset
<1> QED
  BY <1>2, <1>5, <1>6

\* What each query leaves: the lookup goes on, or the fallback is right to be taken.
LookupStep == LookupInv' /\ WinningPassword'

LEMMA FallBackRight ==
    ASSUME FallBack, Undisturbed => ~ inventory[at].identified \/ Winner(Here) = {},
           UNCHANGED <<setup, at, winners, values>>, untouched' = untouched
    PROVE  LookupStep
<1>1. /\ Here' = Here /\ Winner(Here)' = Winner(Here) /\ Undisturbed' = Undisturbed
      /\ inventory'[at'] = inventory[at]
  BY DEF Here, inventory, Winner, Named, Undisturbed, FromLensPolicy, LensQuery
<1>2. rpc' \in {"build", "failed"} /\ password' = Fallback
      /\ (rpc' = "build" => Here \in unexpected')
  BY DEF FallBack
<1>3. LookupInv'
  BY <1>2 DEF LookupInv
<1>4. WinningPassword'
  BY <1>1, <1>2 DEF WinningPassword, Undisturbed
<1> QED
  BY <1>3, <1>4 DEF LookupStep

LEMMA ReadSourceRight ==
    ASSUME CoreInv, ReadSource
    PROVE  LookupStep
<1>1. /\ rpc = "source" /\ UNCHANGED <<setup, at, winners, values, untouched>>
  BY DEF ReadSource, Lookup, ResolveStep, lensVars
<1>2. /\ Here \in Phones /\ Named(Here) \subseteq DOMAIN Policies
      /\ \A i \in Named(Here) : AppliesTo(i, Here)
      /\ IsFiniteSet(Named(Here))
  BY <1>1, LookupFacts DEF Busy
<1>3. CASE ~ (inventory[at].identified /\ Cardinality(Named(Here)) = 1)
  <2>1. (~ inventory[at].identified \/ Winner(Here) = {}) /\ FallBack
    BY <1>3 DEF Winner, ReadSource
  <2> QED BY <1>1, <2>1, FallBackRight
<1>4. CASE inventory[at].identified /\ Cardinality(Named(Here)) = 1
  <2>1. PICK i : Named(Here) = {i}
    BY <1>2, <1>4, FS_Singleton
  <2>2. i \in DOMAIN Policies /\ AppliesTo(i, Here) /\ (CHOOSE j \in Named(Here) : TRUE) = i
    BY <1>2, <2>1
  <2> DEFINE src == [scope |-> Policies[i].scope, collection |-> Policies[i].collection]
  <2>3. IF Selectable(Here, src)
        THEN /\ source' = src
             /\ rpc' = IF "family" \in Selectors[src.scope] THEN "family" ELSE "policies"
        ELSE FallBack
    BY <1>4, <2>2 DEF ReadSource
  <2>4. src.scope = Policies[i].scope /\ src.collection = Policies[i].collection
    OBVIOUS
  <2>5. Selectable(Here, src) <=> Policies[i].scope \in SupportedScopes
    <3> SUFFICES ASSUME Policies[i].scope \in SupportedScopes,
                        NEW s \in Selectors[src.scope] \ {"family"}
                 PROVE  policyVariables(Here, src, "")[s] # ""
      BY <2>4 DEF Selectable
    <3>1. s \in {"device", "model", "collection"} /\ Policies[i][s] # ""
      BY <2>2, <2>4, SelectorsAreNames, PolicySelectors DEF SelectorNames
    <3>2. CASE s = "device"
      BY <1>2, <3>2, NamesAssumption DEF policyVariables
    <3>3. CASE s = "model"
      <4>1. Policies[i].model # "" /\ Policies[i].model \in {"", Traits[Here].model}
        BY <2>2, <3>1, <3>3 DEF AppliesTo
      <4> QED BY <3>3, <4>1 DEF policyVariables
    <3>4. CASE s = "collection"
      BY <2>4, <3>1, <3>4 DEF policyVariables
    <3> QED BY <3>1, <3>2, <3>3, <3>4
  <2> HIDE DEF src
  <2>6. CASE Policies[i].scope \in SupportedScopes
    <3>1. /\ source' = src /\ Here' = Here /\ Named(Here)' = {i}
          /\ inventory'[at'] = inventory[at]
          /\ rpc' = IF "family" \in Selectors[src.scope] THEN "family" ELSE "policies"
      BY <1>1, <2>1, <2>3, <2>5, <2>6 DEF Here, inventory, Named
    <3>2. SourceOf(i)'
      BY <2>2, <2>6, <3>1 DEF SourceOf, src
    <3>3. LookupInv'
      BY <1>4, <2>2, <3>1, <3>2 DEF LookupInv
    <3>4. WinningPassword'
      BY <3>1 DEF WinningPassword
    <3> QED BY <3>3, <3>4 DEF LookupStep
  <2>7. CASE Policies[i].scope \notin SupportedScopes
    <3>1. FallBack
      BY <2>3, <2>5, <2>7
    <3>2. Winner(Here) = {}
      BY <1>2, <2>1, <2>2, <2>7, WinnerIs
    <3> QED BY <1>1, <3>1, <3>2, FallBackRight
  <2> QED BY <2>6, <2>7
<1> QED
  BY <1>3, <1>4

LEMMA ReadFamilyRight ==
    ASSUME CoreInv, LookupInv, ReadFamily
    PROVE  LookupStep
<1>1. /\ rpc = "family" /\ UNCHANGED <<setup, at, winners, values, untouched, source>>
  BY DEF ReadFamily, Lookup, ResolveStep, lensVars
<1>2. PICK i \in DOMAIN Policies : SourceOf(i) /\ (Undisturbed => Named(Here) = {i})
  BY <1>1 DEF LookupInv
<1>3. /\ Here' = Here /\ Undisturbed' = Undisturbed /\ Named(Here)' = Named(Here)
      /\ SourceOf(i)' /\ inventory'[at'] = inventory[at] /\ inventory[at].identified
  BY <1>1, <1>2
     DEF Here, inventory, Undisturbed, FromLensPolicy, LensQuery, Named, SourceOf, LookupInv
<1>4. "family" \in Selectors[source.scope] /\ source.scope = Policies[i].scope
      /\ Policies[i].scope \in SupportedScopes /\ AppliesTo(i, Here)
  BY <1>1, <1>2 DEF LookupInv, SourceOf
<1>5. Traits[Here].family # ""
  <2>1. Policies[i]["family"] # ""
    BY <1>4, PolicySelectors DEF SelectorNames
  <2>2. Policies[i].family \in {"", Traits[Here].family}
    BY <1>4 DEF AppliesTo
  <2> QED BY <2>1, <2>2
<1>6. family' = Traits[Here].family /\ rpc' = "policies"
  BY <1>5 DEF ReadFamily
<1>7. LookupInv'
  BY <1>2, <1>3, <1>6 DEF LookupInv
<1> QED
  BY <1>6, <1>7 DEF LookupStep, WinningPassword

LEMMA ReadPoliciesRight ==
    ASSUME CoreInv, LookupInv, ReadPolicies
    PROVE  LookupStep
<1> DEFINE all == Matching(source, policyVariables(Here, source, family))
           found == {k \in all : values[k] # Unset}
<1>1. /\ rpc = "policies" /\ UNCHANGED <<setup, at, winners, values, untouched>>
  BY DEF ReadPolicies, Lookup, ResolveStep, lensVars
<1>2. Here \in Phones
  BY <1>1, LookupFacts DEF Busy
<1>3. /\ Here' = Here /\ Undisturbed' = Undisturbed /\ Winner(Here)' = Winner(Here)
      /\ inventory'[at'] = inventory[at] /\ inventory[at].identified
  BY <1>1 DEF Here, inventory, Undisturbed, FromLensPolicy, LensQuery, Winner, Named, LookupInv
<1>4. PICK i \in DOMAIN Policies : SourceOf(i) /\ (Undisturbed => Named(Here) = {i})
  BY <1>1 DEF LookupInv
<1>5. /\ AppliesTo(i, Here) /\ Policies[i].scope \in SupportedScopes
      /\ all = Rivals(i, Here)
  <2>1. "family" \in Selectors[source.scope] => family = Traits[Here].family
    BY <1>1 DEF LookupInv
  <2>2. /\ source = [scope |-> Policies[i].scope, collection |-> Policies[i].collection]
        /\ AppliesTo(i, Here) /\ Policies[i].scope \in SupportedScopes
    BY <1>4 DEF SourceOf
  <2> QED BY <1>2, <2>1, <2>2, MatchingIsRivals
<1>6. \/ ~ OneMatch(found) /\ FallBack
      \/ OneMatch(found) /\ rpc' = "value" /\ policyID' = CHOOSE k \in found : TRUE
  BY DEF ReadPolicies
<1> HIDE DEF all
<1>7. /\ found = Carriers(i, Here) /\ found \subseteq DOMAIN Policies
      /\ \A k \in found : AppliesTo(k, Here)
  BY <1>5 DEF Carriers, Rivals
<1> HIDE DEF found
<1>8. OneMatch(found) <=> \E k : found = {k}
  <2>1. IsFiniteSet(found)
    BY <1>7, PolicyAssumption, FS_Subset
  <2> QED BY <2>1, FS_Singleton DEF OneMatch
<1>9. CASE ~ OneMatch(found) /\ FallBack
  <2>1. ASSUME Undisturbed PROVE Winner(Here) = {}
    <3>1. Named(Here) = {i} /\ Carriers(i, Here) # {i}
      BY <1>4, <1>7, <1>8, <1>9, <2>1
    <3> QED BY <1>2, <1>5, <3>1, WinnerIs
  <2> QED BY <1>1, <1>9, <2>1, FallBackRight
<1>10. CASE OneMatch(found) /\ rpc' = "value" /\ policyID' = CHOOSE k \in found : TRUE
  <2>1. policyID' \in found /\ found = {policyID'}
    BY <1>8, <1>10
  <2>2. AppliesTo(policyID', Here)
    BY <1>7, <2>1
  <2>3. ASSUME Undisturbed
        PROVE  Winner(Here) = IF values[policyID'] \in {"", Unset} THEN {} ELSE {policyID'}
    <3>1. Named(Here) = {i}
      BY <1>4, <2>3
    <3>2. /\ values[i] # Unset /\ (Winner(Here) = {} \/ Winner(Here) = {i})
          /\ Winner(Here) = {i} <=> /\ Policies[i].scope \in SupportedScopes /\ values[i] # ""
                                    /\ Carriers(i, Here) = {i}
      BY <1>2, <1>5, <3>1, WinnerIs
    <3>3. i \in found
      BY <1>5, <1>7, <3>2 DEF Carriers, Rivals
    <3>4. policyID' = i /\ Carriers(i, Here) = {i}
      BY <1>7, <2>1, <3>3
    <3> QED BY <1>5, <3>2, <3>4
  <2>4. LookupInv'
    BY <1>1, <1>3, <1>10, <2>2, <2>3 DEF LookupInv
  <2>5. WinningPassword'
    BY <1>3, <1>10, <2>2 DEF WinningPassword
  <2> QED BY <2>4, <2>5 DEF LookupStep
<1> QED
  BY <1>6, <1>9, <1>10

LEMMA ReadValueRight ==
    ASSUME CoreInv, LookupInv, ReadValue
    PROVE  LookupStep
<1>1. /\ rpc = "value" /\ UNCHANGED <<setup, at, winners, values, untouched, policyID>>
  BY DEF ReadValue, Lookup, ResolveStep, lensVars
<1>2. /\ inventory[at].identified
      /\ Undisturbed =>
            Winner(Here) = IF values[policyID] \in {"", Unset} THEN {} ELSE {policyID}
  BY <1>1 DEF LookupInv
<1>3. /\ Here' = Here /\ Undisturbed' = Undisturbed /\ Winner(Here)' = Winner(Here)
      /\ inventory'[at'] = inventory[at]
  BY <1>1 DEF Here, inventory, Undisturbed, FromLensPolicy, LensQuery, Winner, Named
<1>4. CASE values[policyID] \notin {"", Unset}
  <2>1. rpc' = "build" /\ password' = values[policyID]
    BY <1>4 DEF ReadValue
  <2>2. LookupInv'
    BY <2>1 DEF LookupInv
  <2>3. WinningPassword'
    BY <1>1, <1>2, <1>3, <1>4, <2>1 DEF WinningPassword, Undisturbed
  <2> QED BY <2>2, <2>3 DEF LookupStep
<1>5. CASE values[policyID] \in {"", Unset}
  <2>1. FallBack
    BY <1>5 DEF ReadValue
  <2> QED BY <1>1, <1>2, <1>5, <2>1, FallBackRight
<1> QED
  BY <1>4, <1>5

LEMMA WinningStep ==
    CoreInv /\ LookupInv /\ WinningPassword /\ [Next]_vars => LookupInv' /\ WinningPassword'
<1> SUFFICES ASSUME CoreInv, LookupInv, WinningPassword, [Next]_vars PROVE LookupStep
  BY DEF LookupStep
<1>1. CASE untouched' = FALSE /\ UNCHANGED <<setup, rpc, at, source, family, policyID>>
  <2>1. /\ Here' = Here /\ ~ Undisturbed' /\ inventory'[at'] = inventory[at]
        /\ \A i : SourceOf(i)' <=> SourceOf(i)
    BY <1>1 DEF Here, inventory, Undisturbed, SourceOf
  <2>2. LookupInv'
    BY <1>1, <2>1 DEF LookupInv
  <2>3. WinningPassword'
    BY <1>1, <2>1 DEF WinningPassword
  <2> QED BY <2>2, <2>3 DEF LookupStep
<1>2. CASE rpc' \in {"device", "done", "failed"}
  BY <1>2 DEF LookupStep, LookupInv, WinningPassword
<1>3. CASE UNCHANGED <<setup, winners, values, rpc, at, source, family, policyID, password,
                       untouched, unexpected>>
  <2>1. /\ Here' = Here /\ Undisturbed' = Undisturbed /\ Winner(Here)' = Winner(Here)
        /\ Named(Here)' = Named(Here) /\ inventory'[at'] = inventory[at]
        /\ \A i : SourceOf(i)' <=> SourceOf(i)
    BY <1>3 DEF Here, inventory, Undisturbed, FromLensPolicy, LensQuery, Winner, Named, SourceOf
  <2>2. LookupInv'
    BY <1>3, <2>1 DEF LookupInv
  <2>3. WinningPassword'
    BY <1>3, <2>1 DEF WinningPassword, Undisturbed, FromLensPolicy, LensQuery
  <2> QED BY <2>2, <2>3 DEF LookupStep
<1>4. CASE SkipDevice \/ Resolved \/ Probed
  BY <1>2, <1>4 DEF SkipDevice, Resolved, Probed
<1>5. CASE NextDevice
  <2>1. /\ \/ ~ FromLensPolicy \/ ~ LensQuery \/ rpc' = "source"
        /\ rpc' \in {"build", "failed", "source"}
    BY <1>5 DEF NextDevice, FallBack
  <2>2. setup' = setup
    BY <1>5 DEF NextDevice, ResolveStep
  <2>3. \/ ~ Undisturbed' \/ rpc' = "source"
    BY <2>1, <2>2 DEF Undisturbed, FromLensPolicy, LensQuery
  <2> QED BY <2>1, <2>3 DEF LookupStep, LookupInv, WinningPassword, Undisturbed
<1>6. CASE Build
  <2>1. /\ rpc = "build" /\ rpc' \in {"probe", "failed"}
        /\ UNCHANGED <<setup, winners, values, at, password, untouched, unexpected>>
    BY <1>6 DEF Build, ResolveStep, lensVars, lookupVars
  <2>2. /\ Here' = Here /\ Winner(Here)' = Winner(Here) /\ inventory'[at'] = inventory[at]
    BY <2>1 DEF Here, inventory, Winner, Named
  <2>3. LookupInv'
    BY <2>1 DEF LookupInv
  <2>4. WinningPassword'
    BY <2>1, <2>2 DEF WinningPassword, FromLensPolicy, LensQuery
  <2> QED BY <2>3, <2>4 DEF LookupStep
<1>7. CASE QueryFails
  <2>1. untouched' = FALSE /\ rpc' \in {"build", "failed"}
    BY <1>7 DEF QueryFails, FallBack
  <2> QED BY <2>1 DEF LookupStep, LookupInv, WinningPassword
<1>8. CASE \/ \E p \in Phones : \E won \in WinnerChoices[p] : Redeploy(p, won)
           \/ \E i \in DOMAIN Policies, w \in PolicyValues : Rotate(i, w)
  BY <1>1, <1>8 DEF Redeploy, Rotate
<1>9. CASE UNCHANGED resolveVars
  BY <1>3, <1>9 DEF resolveVars, lensVars, lookupVars
<1>10. CASE UNCHANGED vars
  BY <1>3, <1>10 DEF vars, lensVars, lookupVars
<1> QED
  BY <1>4, <1>5, <1>6, <1>7, <1>8, <1>9, <1>10, ReadSourceRight, ReadFamilyRight,
     ReadPoliciesRight, ReadValueRight DEF Next, ResolveNext

\* However Lens changes between the queries, the value read is that of a policy deployed
\* to the phone.  A lookup that nothing disturbed finds the password of the policy that
\* wins for it: the queries' selectors single it out among the policies that carry the
\* attribute.  When none wins unmistakably, the configured password is taken and
\* api.unexpected says so.
THEOREM LookupFindsWinner == Spec => []WinningPassword
<1>1. Init => LookupInv /\ WinningPassword
  BY DEF Init, LookupInv, WinningPassword
<1> QED
  BY <1>1, Core, WinningStep, PTL DEF Spec
=============================================================================
