----------------------------- MODULE LensStream -----------------------------
(***************************************************************************)
(* The deviceStream WebSocket client (internal/lensstream/stream.go): Run  *)
(* reconnects for ever; a session dials, sends connection_init, waits for  *)
(* connection_ack, subscribes, raises the connected gauge and reads frames *)
(* until something fails; its deferred calls then lower the gauge and      *)
(* close the socket.                                                       *)
(*                                                                         *)
(* The server is modelled from what the client sends and expects.  One     *)
(* device stands for all; its events are edge-triggered, so a change made  *)
(* while nobody is subscribed is never sent.                               *)
(***************************************************************************)
EXTENDS Naturals, Sequences, Backoff

CONSTANTS
    MinBackoff,     \* cfg.MinBackoff
    MaxBackoff,     \* cfg.MaxBackoff
    FailureCap,     \* ended sessions are told apart up to this many
    MaxInbox        \* bound on frames under way to the client

ASSUME BackoffAssumption ==
    MinBackoff \in Nat \ {0} /\ MaxBackoff \in Nat /\ MinBackoff <= MaxBackoff
ASSUME CapAssumption ==
    /\ FailureCap \in Nat \ {0} /\ MaxInbox \in Nat \ {0}
    /\ backoff(MinBackoff, MaxBackoff, FailureCap) = MaxBackoff

VARIABLES
    pc,         \* where Run and session stand
    failures,   \* ended sessions, up to FailureCap
    delay,      \* the reconnect delay Run sleeps
    result,     \* what Run returned: "none", "nil" or "error"
    conn,       \* the client's socket is open
    gauge,      \* polylens.stream.connected, last value
    devGauge,   \* device.connected as streamed, last value
    heard,      \* an event of this session was emitted
    srv,        \* the server's view of the connection
    inbox,      \* frames under way to the client
    dev,        \* the device's real connection state
    healthy,    \* the network, the server and the emitter do not fail
    cancelled   \* the context is done

vars == <<pc, failures, delay, result, conn, gauge, devGauge, heard, srv, inbox,
          dev, healthy, cancelled>>
run == <<failures, delay, result>>
server == <<srv, inbox, dev>>
env == <<healthy, cancelled>>

\* Frame types that end a session; a "malformed" one is a next frame whose
\* payload does not decode or lacks id or tenantId.
EndFrames == {"complete", "error", "malformed"}
Frames == {"ack", "next0", "next1", "other"} \cup EndFrames

Next01(d) == IF d = 1 THEN "next1" ELSE "next0"

----------------------------------------------------------------------------
(* Run: the reconnect loop. *)

Init ==
    /\ pc = "token"
    /\ failures = 0
    /\ delay = 0
    /\ result = "none"
    /\ conn = FALSE
    /\ gauge = 0
    /\ devGauge = 0
    /\ heard = FALSE
    /\ srv = "closed"
    /\ inbox = <<>>
    /\ dev \in {0, 1}
    /\ healthy \in BOOLEAN
    /\ cancelled = FALSE

\* The reconnect counter is emitted and the backoff timer set.
Reconnect ==
    /\ pc = "reconnect"
    /\ pc' = "sleep"
    /\ delay' = backoff(MinBackoff, MaxBackoff, failures)
    /\ UNCHANGED <<failures, result, conn, gauge, devGauge, heard, server, env>>

\* Emitting the counter fails: Run gives up, silently if cancelled.
ReconnectFails ==
    /\ pc = "reconnect" /\ ~ healthy
    /\ pc' = "done"
    /\ result' = IF cancelled THEN "nil" ELSE "error"
    /\ UNCHANGED <<failures, delay, conn, gauge, devGauge, heard, server, env>>

Wake ==
    /\ pc = "sleep"
    /\ pc' = "token"
    /\ UNCHANGED <<run, conn, gauge, devGauge, heard, server, env>>

SleepCancelled ==
    /\ pc = "sleep" /\ cancelled
    /\ pc' = "done"
    /\ result' = "nil"
    /\ UNCHANGED <<failures, delay, conn, gauge, devGauge, heard, server, env>>

\* session always returns an error; Run stops only if the context is done.
SessionEnds ==
    /\ pc = "ended"
    /\ IF cancelled
       THEN pc' = "done" /\ result' = "nil" /\ UNCHANGED failures
       ELSE /\ pc' = "reconnect"
            /\ failures' = IF failures < FailureCap THEN failures + 1 ELSE failures
            /\ UNCHANGED result
    /\ UNCHANGED <<delay, conn, gauge, devGauge, heard, server, env>>

----------------------------------------------------------------------------
(* session. *)

\* The deferred calls registered so far run, last first.
Unwind ==
    pc' = CASE pc \in {"read", "emit"} -> "lower"
            [] pc \notin {"read", "emit"} /\ conn -> "close"
            [] OTHER -> "ended"

GetToken ==
    /\ pc = "token"
    /\ pc' = "dial"
    /\ UNCHANGED <<run, conn, gauge, devGauge, heard, server, env>>

Dial ==
    /\ pc = "dial"
    /\ pc' = "init"
    /\ conn' = TRUE
    /\ heard' = FALSE
    /\ srv' = "open" /\ inbox' = <<>>
    /\ UNCHANGED <<run, gauge, devGauge, dev, env>>

SendInit ==
    /\ pc = "init"
    /\ pc' = "ack"
    /\ srv' = IF srv = "open" THEN "inited" ELSE srv
    /\ UNCHANGED <<run, conn, gauge, devGauge, heard, inbox, dev, env>>

\* The first frame must be the acknowledgement.
ReadAck ==
    /\ pc = "ack" /\ inbox # <<>>
    /\ inbox' = Tail(inbox)
    /\ IF Head(inbox) = "ack" THEN pc' = "subscribe" ELSE Unwind
    /\ UNCHANGED <<run, conn, gauge, devGauge, heard, srv, dev, env>>

\* A server that has not acknowledged rejects the subscription.
Subscribe ==
    /\ pc = "subscribe"
    /\ pc' = "connected"
    /\ srv' = CASE srv = "acked" -> "subscribed"
                [] srv = "closed" -> "closed"
                [] OTHER -> "rejected"
    /\ UNCHANGED <<run, conn, gauge, devGauge, heard, inbox, dev, env>>

RaiseGauge ==
    /\ pc = "connected"
    /\ pc' = "read"
    /\ gauge' = 1
    /\ UNCHANGED <<run, conn, devGauge, heard, server, env>>

\* Any frame type but next, complete and error is ignored.
ReadFrame ==
    /\ pc = "read" /\ inbox # <<>>
    /\ CASE Head(inbox) \in {"next0", "next1"} -> pc' = "emit" /\ UNCHANGED inbox
         [] Head(inbox) \in EndFrames -> Unwind /\ inbox' = Tail(inbox)
         [] OTHER -> inbox' = Tail(inbox) /\ UNCHANGED pc
    /\ UNCHANGED <<run, conn, gauge, devGauge, heard, srv, dev, env>>

\* A disconnect event is not emitted.
EmitDevice_onlyUp ==
    /\ pc = "emit"
    /\ pc' = "read"
    /\ devGauge' = IF Head(inbox) = "next1" THEN 1 ELSE devGauge
    /\ heard' = TRUE
    /\ inbox' = Tail(inbox)
    /\ UNCHANGED <<run, conn, gauge, srv, dev, env>>

\* The connection state is added up instead of set.
EmitDevice_add ==
    /\ pc = "emit"
    /\ pc' = "read"
    /\ devGauge' = devGauge + (IF Head(inbox) = "next1" THEN 1 ELSE 0)
    /\ heard' = TRUE
    /\ inbox' = Tail(inbox)
    /\ UNCHANGED <<run, conn, gauge, srv, dev, env>>

\* emitDevice: the device gauge, then the message counter and age.
EmitDevice ==
    /\ pc = "emit"
    /\ pc' = "read"
    /\ devGauge' = IF Head(inbox) = "next1" THEN 1 ELSE 0
    /\ heard' = TRUE
    /\ inbox' = Tail(inbox)
    /\ UNCHANGED <<run, conn, gauge, srv, dev, env>>

\* One of the three emissions fails, before or after the device gauge.
EmitFails ==
    /\ pc = "emit" /\ ~ healthy
    /\ devGauge' \in {devGauge, IF Head(inbox) = "next1" THEN 1 ELSE 0}
    /\ Unwind
    /\ UNCHANGED <<run, conn, gauge, heard, server, env>>

Steps == {"token", "dial", "init", "ack", "subscribe", "connected", "read"}

\* The session's reads and writes do not see the context.
StepFails_noContext ==
    /\ pc \in Steps
    /\ ~ healthy \/ (conn /\ srv \in {"closed", "rejected"})
    /\ Unwind
    /\ UNCHANGED <<run, conn, gauge, devGauge, heard, server, env>>

\* The read deadline of the acknowledgement stays in force afterwards.
StepFails_deadline ==
    /\ pc \in Steps
    /\ \/ ~ healthy \/ cancelled \/ (conn /\ srv \in {"closed", "rejected"})
       \/ pc = "read" /\ inbox = <<>>
    /\ Unwind
    /\ UNCHANGED <<run, conn, gauge, devGauge, heard, server, env>>

\* The step under way returns an error: the token source, the network, the
\* acknowledgement timeout, the emitter, cancellation or a lost connection.
StepFails ==
    /\ pc \in Steps
    /\ ~ healthy \/ cancelled \/ (conn /\ srv \in {"closed", "rejected"})
    /\ Unwind
    /\ UNCHANGED <<run, conn, gauge, devGauge, heard, server, env>>

\* The deferred Gauge(0) goes through the session's own context.
LowerGauge_ctx ==
    /\ pc = "lower"
    /\ pc' = "close"
    /\ gauge' = IF cancelled THEN gauge ELSE 0
    /\ UNCHANGED <<run, conn, devGauge, heard, server, env>>

\* Its error is ignored, but there is none: Gauge fails only when it cannot make
\* the instrument, and RaiseGauge has made it.
LowerGauge ==
    /\ pc = "lower"
    /\ pc' = "close"
    /\ gauge' = 0
    /\ UNCHANGED <<run, conn, devGauge, heard, server, env>>

CloseNow ==
    /\ pc = "close"
    /\ pc' = "ended"
    /\ conn' = FALSE
    /\ srv' = "closed" /\ inbox' = <<>>
    /\ UNCHANGED <<run, gauge, devGauge, heard, dev, env>>

----------------------------------------------------------------------------
(* The server, the device and the environment. *)

Send(f) == Len(inbox) < MaxInbox /\ inbox' = Append(inbox, f)

ServerAcks ==
    /\ srv = "inited" /\ Send("ack")
    /\ srv' = "acked"
    /\ UNCHANGED <<pc, run, conn, gauge, devGauge, heard, dev, env>>

\* Frames outside the normal course: pings, completion, errors, bad payloads.
ServerSends(f) ==
    /\ srv \in {"inited", "acked", "subscribed"} /\ ~ healthy
    /\ Send(f)
    /\ UNCHANGED <<pc, run, conn, gauge, devGauge, heard, srv, dev, env>>

ServerDrops ==
    /\ srv # "closed" /\ ~ healthy
    /\ srv' = "closed"
    /\ UNCHANGED <<pc, run, conn, gauge, devGauge, heard, inbox, dev, env>>

\* The device (dis)connects; a subscriber is told.
DeviceChanges ==
    /\ dev' = 1 - dev
    /\ IF srv = "subscribed" THEN Send(Next01(dev')) ELSE UNCHANGED inbox
    /\ UNCHANGED <<pc, run, conn, gauge, devGauge, heard, srv, env>>

Weather ==
    /\ healthy' = ~ healthy
    /\ UNCHANGED <<pc, run, conn, gauge, devGauge, heard, server, cancelled>>

Cancel ==
    /\ ~ cancelled /\ cancelled' = TRUE
    /\ UNCHANGED <<pc, run, conn, gauge, devGauge, heard, server, healthy>>

Client ==
    \/ Reconnect \/ ReconnectFails \/ Wake \/ SleepCancelled \/ SessionEnds
    \/ GetToken \/ Dial \/ SendInit \/ ReadAck \/ Subscribe \/ RaiseGauge
    \/ ReadFrame \/ EmitDevice \/ EmitFails \/ StepFails \/ LowerGauge \/ CloseNow

Next ==
    \/ Client
    \/ ServerAcks
    \/ \E f \in {"other"} \cup EndFrames : ServerSends(f)
    \/ ServerDrops \/ DeviceChanges \/ Weather \/ Cancel
    \/ pc = "done" /\ UNCHANGED vars

Spec == Init /\ [][Next]_vars

\* The wait for the acknowledgement and the backoff have timers and select sees the
\* done context.  Dial, the writes and the read loop have no deadline while the context
\* lives: the peer is assumed to answer, or its connection to fail in the end.  A server
\* that is well acknowledges.
Fairness ==
    /\ WF_vars(Client)
    /\ SF_vars(SleepCancelled \/ (cancelled /\ StepFails))
    /\ WF_vars(ServerAcks)

FairSpec == Spec /\ Fairness

----------------------------------------------------------------------------
(* Properties. *)

\* Every variable has its type.
TypeOK ==
    /\ pc \in Steps \cup {"emit", "reconnect", "sleep", "lower", "close", "ended", "done"}
    /\ failures \in 0 .. FailureCap
    /\ delay \in 0 .. MaxBackoff
    /\ result \in {"none", "nil", "error"}
    /\ conn \in BOOLEAN
    /\ gauge \in {0, 1} /\ devGauge \in {0, 1} /\ dev \in {0, 1}
    /\ heard \in BOOLEAN
    /\ srv \in {"closed", "open", "inited", "acked", "subscribed", "rejected"}
    /\ inbox \in Seq(Frames) /\ Len(inbox) <= MaxInbox
    /\ healthy \in BOOLEAN /\ cancelled \in BOOLEAN

\* Whichever way a session ends, cancellation included, it cleans up: the connected
\* gauge is 1 exactly while a subscription is being read, and no socket is open
\* between sessions or after Run has returned.
SessionCleansUp ==
    /\ pc \in {"read", "emit"} => gauge = 1
    /\ gauge = 1 => pc \in {"read", "emit", "lower"} /\ conn
    /\ pc \in {"ended", "reconnect", "sleep", "token", "dial", "done"} => ~ conn

\* Within a session, once an event has been emitted and none is under way, the
\* streamed device state is the device's state.
StreamCaughtUp ==
    pc = "read" /\ srv = "subscribed" /\ heard /\ inbox = <<>> => devGauge = dev

\* The first reconnect waits MinBackoff, the n-th min(MaxBackoff, MinBackoff * 2^(n-1)),
\* rounding up to MaxBackoff; sessions that were established count like failed dials.
BackoffSchedule ==
    pc = "sleep" =>
        LET ideal == MinBackoff * 2 ^ (failures - 1)
        IN  delay = IF failures > 1 /\ ideal + 1 >= MaxBackoff THEN MaxBackoff ELSE ideal

\* Cancellation ends Run from every point of the handshake, the backoff and the
\* read loop.
CancelStopsRun == cancelled ~> pc = "done"

\* When the environment stays well, the stream ends up subscribed and stays so,
\* unless Run has already returned.
Recovers == <>[](healthy /\ ~ cancelled) => <>[](pc \in {"read", "emit", "done"})
=============================================================================
