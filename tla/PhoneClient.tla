---------------------------- MODULE PhoneClient ----------------------------
(***************************************************************************)
(* The phone REST client (internal/phoneclient/client.go, digest.go).      *)
(*                                                                         *)
(* A client is built for one phone: an address from the inventory, the     *)
(* phone's MAC and a password.  Every connection is checked against the    *)
(* MAC when it is made and may be reused later.  Probe and the reads start *)
(* without credentials, ask again for a fresh challenge when refused, and  *)
(* only then send a digest answer.  Several callers use one client at once *)
(* while phones change their state and their addresses.                    *)
(*                                                                         *)
(* A call is at "dial" before a request, at "sent" once the request is on  *)
(* a connection.  Handling a response touches only the call itself, so it  *)
(* is one step with the exchange.  HTTP statuses are 200, 401, 404 and     *)
(* 500; redirects are left out.  The digest is modelled by what a server   *)
(* compares: user, password, nonce, algorithm and qop.                     *)
(***************************************************************************)
EXTENDS Naturals, FiniteSets

CONSTANTS
    Phones,         \* the phones, each standing for the digits of its MAC
    Addresses,
    Callers,        \* goroutines that call the clients
    Passwords,
    InitialState,   \* state of every phone's REST API at first
    PhoneStates,    \* states it may be put into
    CertCN,         \* CertCN[h]: common name of the host's certificate
    Trusted,        \* hosts whose chain ends at the configured CA
    CAReadable,     \* the configured CA file can be read and parsed
    BadURL,         \* addresses that do not make an HTTPS URL
    Username,       \* the configured user, "" when there is none
    MaxChanges      \* bound on changes of the environment and lost requests

Nobody == "nobody"
Stranger == "stranger"      \* some other HTTPS server that asks for a digest
Hosts == Phones \cup {Stranger}

\* A MAC or common name as written: digits in one of several notations.
MACText == [digits : Phones, form : {"plain", "colons", "malformed"}]

\* A WWW-Authenticate header; NoChallenge when it is absent.
Challenge == [scheme : {"Digest", "Basic", "none"}, complete : BOOLEAN,
              algorithm : {"", "MD5", "SHA-256", "MD5-sess"},
              qop : SUBSET {"auth", "auth-int"}]
NoChallenge == [scheme |-> "none", complete |-> FALSE, algorithm |-> "", qop |-> {}]

Modes == {"secure", "open", "garbled", "disabled", "broken", "down"}
\* A phone with one nonce forgets the ones it gave out before.
PhoneState ==
    [mode : Modes, challenge : Challenge, password : Passwords, oneNonce : BOOLEAN]

ASSUME PhoneStatesAssumption == InitialState \in PhoneState /\ PhoneStates \subseteq PhoneState
\* The digits of a MAC are none of these words.
ASSUME NamesAssumption == Phones \cap {"", "nobody", "stranger", "invalid"} = {}
ASSUME ClientConfigAssumption ==
    /\ CAReadable \in BOOLEAN
    /\ Trusted \subseteq Hosts /\ BadURL \subseteq Addresses /\ "" \notin Addresses
    /\ MaxChanges \in Nat
\* The configured CA certifies no one for a MAC that is not its own.  A host outside
\* that CA may present whatever name it likes.
ASSUME CertAssumption ==
    /\ CertCN \in [Hosts -> MACText]
    /\ \A h \in Trusted : CertCN[h].form # "malformed" => CertCN[h].digits = h

VARIABLES
    host,       \* host[a]: who answers at address a
    device,     \* device[h]: state of the REST API of host h
    nonces,     \* nonces[h]: callers holding a nonce h has not seen used
    client,     \* client[p]: the client built for p, or NoClient
    conn,       \* conn[p]: peer of that client's idle connection, or Nobody
    call,       \* call[o]: the call o is making
    sent,       \* <<p, h>>: p's password was used in a digest sent to h
    changes     \* changes of the environment so far

clientVars == <<host, device, nonces, client, conn, call, sent, changes>>

NoClient == [address |-> "", wantCN |-> Nobody, password |-> "", username |-> "",
             verifyChain |-> FALSE]
NoAuth == [user |-> "", password |-> "", algorithm |-> "", qop |-> "", nonce |-> ""]

Ops == {"probe", "read"}

Idle == [pc |-> "idle", op |-> "probe", phone |-> Nobody, stage |-> "first",
         peer |-> Nobody, auth |-> NoAuth, open |-> 0, deferred |-> 0,
         result |-> "none", steady |-> TRUE]

----------------------------------------------------------------------------
(* The pure parts. *)

Invalid == "invalid"

\* Compared as written, separators and all.
normalizedMAC_raw(text) == IF text.form = "plain" THEN text.digits ELSE Invalid

\* Separators are dropped; what is left must be twelve hexadecimal digits.
normalizedMAC(text) == IF text.form = "malformed" THEN Invalid ELSE text.digits

\* Only the chain is verified.
VerifyConnection_chainOnly(h, c) == c.verifyChain => h \in Trusted

\* The peer's certificate carries the expected MAC and, if asked, a good chain.
VerifyConnection(h, c) ==
    /\ c.verifyChain => h \in Trusted
    /\ normalizedMAC(CertCN[h]) = c.wantCN

selectQOP(offered) == IF "auth" \in offered THEN "auth" ELSE ""

Algorithm(ch) == IF ch.algorithm = "" THEN "MD5" ELSE ch.algorithm

\* digestAuthorization returns no error for this challenge.
Answerable(ch) ==
    ch.scheme = "Digest" /\ ch.complete /\ Algorithm(ch) \in {"MD5", "SHA-256"}

\* The answer to the challenge, and so to the nonce, that o was given.
digestAuthorization(ch, c, o) ==
    [user |-> c.username, password |-> c.password,
     algorithm |-> Algorithm(ch), qop |-> selectQOP(ch.qop), nonce |-> o]

\* New: the client for a phone, or NoClient when it cannot be built.
New(mac, address, password, verifyChain) ==
    IF \/ address \in BadURL
       \/ normalizedMAC(mac) = Invalid
       \/ verifyChain /\ ~ CAReadable
    THEN NoClient
    ELSE [address |-> address, wantCN |-> normalizedMAC(mac), password |-> password,
          username |-> IF Username = "" THEN "Polycom" ELSE Username,
          verifyChain |-> verifyChain]

----------------------------------------------------------------------------
(* The phones. *)

\* What a phone checks of a digest answer; each nonce is good for one answer.
Accepts(h, auth) ==
    /\ auth # NoAuth
    /\ auth.nonce \in nonces[h]
    /\ auth.user = "Polycom"
    /\ auth.password = device[h].password
    /\ auth.algorithm = Algorithm(device[h].challenge)
    /\ auth.qop = "auth" \/ device[h].challenge.qop = {}

Status(h, auth) ==
    CASE device[h].mode \in {"open", "garbled"} -> 200
      [] device[h].mode = "disabled" -> 404
      [] device[h].mode = "broken" -> 500
      [] device[h].mode = "secure" -> IF Accepts(h, auth) THEN 200 ELSE 401

\* An answer uses its nonce up; a refusal hands the caller a new one.
NextNonces(h, o, auth) ==
    CASE device[h].mode # "secure" -> nonces[h]
      [] device[h].mode = "secure" /\ Accepts(h, auth) -> nonces[h] \ {auth.nonce}
      [] device[h].mode = "secure" /\ ~ Accepts(h, auth) ->
            IF device[h].oneNonce THEN {o} ELSE nonces[h] \cup {o}

\* q is about to answer with a nonce that h forgets over o's request.
Forgotten(h, o, q) ==
    call[q].auth # NoAuth /\ q \in nonces[h] \ NextNonces(h, o, call[o].auth)

\* Host h deals with o's request, digest and all, and o's call becomes c; for a call
\* that h forgets the phone has changed.
Delivered(h, o, c) ==
    /\ nonces' = [nonces EXCEPT ![h] = NextNonces(h, o, call[o].auth)]
    /\ sent' = IF call[o].auth = NoAuth THEN sent ELSE sent \cup {<<call[o].phone, h>>}
    /\ call' = [q \in Callers |->
                   IF q = o THEN c
                   ELSE [call[q] EXCEPT !.steady = @ /\ ~ Forgotten(h, o, q)]]

\* Every call under way has seen the environment change.
Unsteady ==
    [o \in Callers |-> [call[o] EXCEPT !.steady = @ /\ call[o].pc = "idle"]]

Change ==
    /\ changes < MaxChanges
    /\ changes' = changes + 1
    /\ call' = Unsteady
    /\ UNCHANGED <<nonces, client, conn, sent>>

\* An address is given to someone else.
Readdress(a, h) ==
    /\ host[a] # h
    /\ host' = [host EXCEPT ![a] = h]
    /\ Change
    /\ UNCHANGED device

\* A phone's REST API, password or digest settings are changed.
Reconfigure(p, s) ==
    /\ device[p] # s
    /\ device' = [device EXCEPT ![p] = s]
    /\ Change
    /\ UNCHANGED host

----------------------------------------------------------------------------
(* Calls. *)

ClientInit ==
    /\ device = [h \in Hosts |-> InitialState]
    /\ nonces = [h \in Hosts |-> {}]
    /\ client = [p \in Phones |-> NoClient]
    /\ conn = [p \in Phones |-> Nobody]
    /\ call = [o \in Callers |-> Idle]
    /\ sent = {}
    /\ changes = 0

\* Probe, or one of DeviceInfo, LineInfo, NetworkStats, NetworkInfo, CallLogs
\* and ConfigGet, which differ only in endpoint and decoded type.
Started(op, p) == [Idle EXCEPT !.pc = "dial", !.op = op, !.phone = p]

StartCall(o, op, p) ==
    /\ call[o].pc = "idle" /\ client[p] # NoClient
    /\ call' = [call EXCEPT ![o] = Started(op, p)]
    /\ UNCHANGED <<host, device, nonces, client, conn, sent, changes>>

At(o) == host[client[call[o].phone].address]

\* The call returns: deferred closes run.
Returned(c, result) ==
    [c EXCEPT !.pc = "returned", !.open = @ - c.deferred, !.deferred = 0,
              !.result = result, !.auth = NoAuth, !.peer = Nobody]

\* A response, and a response's body closed at once.
Received(c) == [c EXCEPT !.open = @ + 1]
Closed(c) == [c EXCEPT !.open = @ - 1]

\* The deferred close is forgotten.
Held_noDefer(c) == Received(c)

\* A response whose body is closed by a deferred call.
Held(c) == [Received(c) EXCEPT !.deferred = @ + 1]

Failed(c) == IF c.op = "probe" THEN "unreachable" ELSE "error"

\* http.Do takes an idle connection or makes and verifies a new one.
Dial(o) ==
    LET p == call[o].phone
    IN  /\ call[o].pc = "dial"
        /\ \E peer \in {conn[p], At(o)} \ {Nobody} :
              /\ peer # conn[p] => /\ peer = At(o) /\ device[peer].mode # "down"
                                   /\ VerifyConnection(peer, client[p])
              /\ conn' = [conn EXCEPT ![p] = peer]
              /\ call' = [call EXCEPT ![o].pc = "sent", ![o].peer = peer]
        /\ UNCHANGED <<host, device, nonces, client, sent, changes>>

\* Nobody answers, or whoever does fails the handshake.
DialFails(o) ==
    LET p == call[o].phone
    IN  /\ call[o].pc = "dial"
        /\ \/ At(o) = Nobody
           \/ At(o) # Nobody /\ \/ device[At(o)].mode = "down"
                                \/ ~ VerifyConnection(At(o), client[p])
        /\ call' = [call EXCEPT ![o] = Returned(@, Failed(@))]
        /\ conn' = [conn EXCEPT ![p] = Nobody]
        /\ UNCHANGED <<host, device, nonces, client, sent, changes>>

Gone(o) == At(o) # call[o].peer \/ device[call[o].peer].mode = "down"

\* The peer is no longer there, or the request times out or is cancelled.
ExchangeFails(o) ==
    /\ call[o].pc = "sent" /\ Gone(o)
    /\ call' = [call EXCEPT ![o] = Returned(@, Failed(@))]
    /\ conn' = [conn EXCEPT ![call[o].phone] = Nobody]
    /\ UNCHANGED <<host, device, nonces, client, sent, changes>>

\* The request or its response is lost, or closing the response's body fails: the
\* call returns an error, whether or not the peer dealt with the request.
RequestLost(o) ==
    LET c == [Returned(call[o], Failed(call[o])) EXCEPT !.steady = FALSE]
    IN  /\ call[o].pc \in {"dial", "sent"}
        /\ changes < MaxChanges
        /\ changes' = changes + 1
        /\ \/ call' = [call EXCEPT ![o] = c] /\ UNCHANGED <<nonces, sent>>
           \/ call[o].pc = "sent" /\ ~ Gone(o) /\ Delivered(call[o].peer, o, c)
        /\ UNCHANGED <<host, device, client, conn>>

\* The answer to an authenticated request: Probe's verdict or decodeResponse.
Final(c, status) ==
    IF c.op = "probe"
    THEN CASE status = 200 -> "ok"
           [] status = 401 -> "auth_failed"
           [] OTHER -> "unreachable"
    ELSE IF status = 200 /\ device[c.peer].mode # "garbled" THEN "ok" ELSE "error"

\* Probe's switch on the first response; a read is returned as it is.
First(c, status) ==
    IF c.op = "probe" /\ status = 404 THEN "api_disabled" ELSE Final(c, status)

\* What the call does with a response of this status.
Answered(o, status) ==
    LET c == call[o]
        ch == device[c.peer].challenge
        asks == [c EXCEPT !.pc = "dial", !.peer = Nobody]
        refused == status = 401 /\ c.stage # "auth"
    IN CASE refused /\ c.stage = "first" /\ c.op = "probe" /\ ch = NoChallenge ->
               Returned(Held(c), "auth_failed")
         [] refused /\ c.stage = "first" /\ c.op = "probe" /\ ch # NoChallenge ->
               [Held(asks) EXCEPT !.stage = "challenge"]
         [] refused /\ c.stage = "first" /\ c.op = "read" ->
               [Closed(Received(asks)) EXCEPT !.stage = "challenge"]
         [] refused /\ c.stage = "challenge" /\ Answerable(ch) ->
               [Closed(Received(asks)) EXCEPT
                   !.stage = "auth", !.auth = digestAuthorization(ch, client[c.phone], o)]
         [] refused /\ c.stage = "challenge" /\ ~ Answerable(ch) ->
               Returned(Closed(Received(c)), Failed(c))
         [] ~ refused ->
               Returned(Held(c), IF c.stage = "first" THEN First(c, status)
                                 ELSE Final(c, status))

\* The peer answers and the call handles the response.
Exchange(o) ==
    LET c == call[o]
    IN  /\ c.pc = "sent" /\ ~ Gone(o)
        /\ Delivered(c.peer, o, Answered(o, Status(c.peer, c.auth)))
        /\ UNCHANGED <<host, device, client, conn, changes>>

\* The caller takes the result.
EndCall(o) == call' = [call EXCEPT ![o] = Idle]

CallStep(o) ==
    Dial(o) \/ DialFails(o) \/ ExchangeFails(o) \/ RequestLost(o) \/ Exchange(o)

Environment ==
    \/ \E a \in Addresses, h \in Hosts \cup {Nobody} : Readdress(a, h)
    \/ \E p \in Phones, s \in PhoneStates : Reconfigure(p, s)

----------------------------------------------------------------------------
(* Properties. *)

ClientRecord ==
    [address : Addresses, wantCN : Phones, password : Passwords,
     username : {"Polycom", Username} \ {""}, verifyChain : BOOLEAN]

BodyCounts == 0 .. 3

CallRecord ==
    [pc : {"idle", "dial", "sent", "returned"}, op : Ops, phone : Phones \cup {Nobody},
     stage : {"first", "challenge", "auth"}, peer : Hosts \cup {Nobody},
     auth : {NoAuth} \cup [user : {"Polycom", Username}, password : Passwords,
                           algorithm : {"MD5", "SHA-256"}, qop : {"", "auth"},
                           nonce : Callers],
     open : BodyCounts, deferred : BodyCounts,
     result : {"none", "ok", "api_disabled", "auth_failed", "unreachable", "error"},
     steady : BOOLEAN]

ClientTypeOK ==
    /\ host \in [Addresses -> Hosts \cup {Nobody}]
    /\ device \in [Hosts -> PhoneState]
    /\ nonces \in [Hosts -> SUBSET Callers]
    /\ client \in [Phones -> {NoClient} \cup ClientRecord]
    /\ conn \in [Phones -> Hosts \cup {Nobody}]
    /\ call \in [Callers -> CallRecord]
    /\ sent \subseteq Phones \X Hosts
    /\ changes \in 0 .. MaxChanges

\* A digest made with a phone's password is only ever sent to a host whose certificate
\* names that phone's MAC, however addresses move and connections are reused.  With
\* chain verification that host is the phone; without it, which is the default, it
\* is whoever presents the name, and the property promises no more.
PasswordOnlyToItsPhone ==
    \A s \in sent :
        /\ normalizedMAC(CertCN[s[2]]) = s[1]
        /\ client[s[1]].verifyChain => s[2] = s[1]

\* Whatever way a call ends, it has closed every response body it was given;
\* a body left open would hold its connection for the process's lifetime.
BodiesClosed == \A o \in Callers : call[o].pc \in {"idle", "returned"} => call[o].open = 0

\* Host h's certificate names p's MAC, in any notation, and has a chain if one is
\* asked for.
PassesFor(h, p) ==
    /\ CertCN[h].digits = p /\ CertCN[h].form # "malformed"
    /\ client[p].verifyChain => h \in Trusted

\* No other host passes for p: what p's client is told, p says.
Genuine(p) == \A h \in Hosts : PassesFor(h, p) => h = p

Reachable(p) ==
    /\ host[client[p].address] = p /\ device[p].mode # "down"
    /\ PassesFor(p, p)

\* The phone would take the client's password, by a digest that has no session.
KeyFits(p) ==
    LET s == device[p]
    IN  /\ client[p].password = s.password /\ client[p].username = "Polycom"
        /\ s.challenge.qop = {} \/ "auth" \in s.challenge.qop

\* The phone answers in a way docs/troubleshooting.md has no state for: an HTTP error,
\* or a challenge that is no complete, sessionless digest.
Unclassified(p) ==
    LET s == device[p]
    IN  \/ s.mode = "broken"
        \/ /\ s.mode = "secure" /\ s.challenge # NoChallenge
           /\ s.challenge.scheme # "Digest" \/ ~ s.challenge.complete
                \/ s.challenge.algorithm = "MD5-sess"

\* The state that docs/troubleshooting.md gives the phone.
TrueState(p) ==
    LET s == device[p]
    IN CASE ~ Reachable(p) -> "unreachable"
         [] Reachable(p) /\ Unclassified(p) -> "unclassified"
         [] Reachable(p) /\ s.mode = "disabled" -> "api_disabled"
         [] Reachable(p) /\ s.mode \in {"open", "garbled"} -> "ok"
         [] Reachable(p) /\ ~ Unclassified(p) /\ s.mode = "secure" ->
               IF s.challenge # NoChallenge /\ KeyFits(p) THEN "ok" ELSE "auth_failed"

\* A call to a genuine phone during which nothing changed tells the truth: Probe's
\* verdict is the phone's documented state, and a read succeeds exactly when the
\* phone would serve it, also when other callers answer challenges of the same phone
\* in between.  A phone that the documentation has no state for is not taken for a
\* working one or for one whose API is disabled; the code reports it unreachable.
VerdictRight ==
    \A o \in Callers :
        LET c == call[o]
        IN  c.pc = "returned" /\ c.steady /\ Genuine(c.phone) =>
               IF c.op = "probe"
               THEN \/ c.result = TrueState(c.phone)
                    \/ TrueState(c.phone) = "unclassified"
                         /\ c.result \notin {"ok", "api_disabled"}
               ELSE (c.result = "ok") <=>
                        TrueState(c.phone) = "ok" /\ device[c.phone].mode # "garbled"
=============================================================================
