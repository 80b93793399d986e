---------------------------- MODULE PhonePolling ----------------------------
(***************************************************************************)
(* The phone status, lines, config and network-info collectors             *)
(* (internal/collectors/phone/collectors.go, networkinfo.go) and the       *)
(* series they leave behind (internal/telemetry/emitter.go).               *)
(*                                                                         *)
(* A pass visits the phones in target order: it probes the phone, and if   *)
(* it is OK makes one more request and records what it says.  A phone that *)
(* is not OK is passed over; any other error ends the pass for this and    *)
(* every later phone.  Phones change at any time, between the probe and    *)
(* the request too.  The collectors share no state and no metric, so one   *)
(* of them runs in each behaviour.                                         *)
(*                                                                         *)
(* A recorded series is exported with its last value, or its running sum,  *)
(* for ever: the SDK's instruments with cumulative temporality.            *)
(***************************************************************************)
EXTENDS Naturals, Sequences, SequencesExt, FiniteSets

CONSTANTS
    Collectors,     \* the collectors a behaviour may be about
    NumTargets,     \* phones are 1 .. NumTargets, in target order
    Stats,          \* NetworkStats answers a phone may give
    LineInfos,      \* LineInfo answers: sequences of lines
    ConfigGets,     \* ConfigGet answers: where each parameter comes from
    NetworkInfos,   \* NetworkInfo answers
    Params,         \* cfg.Phone.ConfigParams, in order
    Malformed,      \* an uptime that is not of the form "d days h:m:s", a count that is none
    SumCap,         \* exported sums are told apart up to this one
    MaxChanges,     \* bound on changes of the phones
    MaxFailures     \* bound on failed requests and recordings

Phones == 1 .. NumTargets
CollectorIDs == {"phone.status", "phone.lines", "phone.config", "phone.network_info"}

\* The order in which the api_state gauges are recorded.
apiStates == <<"ok", "api_disabled", "auth_failed", "unreachable">>
States == Range(apiStates)

\* The answers to the request each collector makes of a phone that is OK.
AnswersTo(collector) ==
    CASE collector = "phone.status" -> Stats
      [] collector = "phone.lines" -> LineInfos
      [] collector = "phone.config" -> ConfigGets
      [] collector = "phone.network_info" -> NetworkInfos

UpTime == [days : Nat, hours : Nat, minutes : Nat, seconds : Nat]
\* Label stands for the label and the SIP address of a line.
Line == [LineNumber : STRING, Label : STRING, registered : BOOLEAN]

ASSUME TargetsAssumption == NumTargets \in Nat \ {0} /\ Collectors \subseteq CollectorIDs
ASSUME AnswersAssumption ==
    /\ \A a \in Stats : /\ a.UpTime = Malformed \/ a.UpTime \in UpTime
                        /\ a.RxPackets = Malformed \/ a.RxPackets \in Nat
                        /\ a.TxPackets = Malformed \/ a.TxPackets \in Nat
    /\ LineInfos \subseteq Seq(Line)
    /\ Params \in Seq(STRING) /\ ConfigGets \subseteq [Range(Params) -> STRING]
    /\ \A c \in Collectors : AnswersTo(c) # {}
ASSUME BoundsAssumption ==
    SumCap \in Nat /\ MaxChanges \in Nat /\ MaxFailures \in Nat

VARIABLES
    state,      \* state[p]: what Probe would find
    answer,     \* answer[p]: what the request after it would
    id,         \* the collector this behaviour is about
    pc,         \* where its pass stands
    cur,        \* the phone it is at
    queue,      \* samples still to record for that phone
    shown,      \* series -> last value or sum recorded
    steady,     \* phones that have not changed since the pass began
    changes,    \* changes of the phones so far
    failures    \* failed requests and recordings so far

phones == <<state, answer>>
vars == <<phones, id, pc, cur, queue, shown, steady, changes, failures>>

----------------------------------------------------------------------------
(* The phones. *)

Change(p) ==
    /\ changes < MaxChanges
    /\ changes' = changes + 1
    /\ steady' = steady \ {p}
    /\ UNCHANGED <<id, pc, cur, queue, shown, failures>>

ChangeState(p) ==
    /\ \E s \in States \ {state[p]} : state' = [state EXCEPT ![p] = s]
    /\ Change(p)
    /\ UNCHANGED answer

ChangeAnswer(p) ==
    /\ \E a \in AnswersTo(id) \ {answer[p]} : answer' = [answer EXCEPT ![p] = a]
    /\ Change(p)
    /\ UNCHANGED state

----------------------------------------------------------------------------
(* What is recorded. *)

Bit(b) == IF b THEN 1 ELSE 0

\* A gauge or counter sample: metric, phone and attribute make the series.
GaugeOf(metric, p, attr, v) == [series |-> <<metric, p, attr>>, value |-> v, adds |-> FALSE]
CounterOf(metric, p, attr, v) == [series |-> <<metric, p, attr>>, value |-> v, adds |-> TRUE]

\* One gauge per state, the current one 1.
StateSamples(p, verdict) ==
    [i \in DOMAIN apiStates |->
        GaugeOf("api_state", p, apiStates[i], Bit(apiStates[i] = verdict))]

\* parseUptime: fields out of range are an error.
UpTimeParses(u) ==
    u # Malformed /\ u.hours <= 23 /\ u.minutes <= 59 /\ u.seconds <= 59
parseUptime(u) == u.days * 86400 + u.hours * 3600 + u.minutes * 60 + u.seconds

parseCounterOK(n) == n # Malformed

StatsSamples(p) ==
    << GaugeOf("uptime", p, "", parseUptime(answer[p].UpTime)),
       CounterOf("packets", p, "rx", answer[p].RxPackets),
       CounterOf("packets", p, "tx", answer[p].TxPackets) >>

\* Every record is a line.
uniqueLines_all(records) == records

\* Record i has no line number, or one not seen before.
NotSeen(records, i) ==
    \/ records[i].LineNumber = ""
    \/ \A j \in 1 .. i - 1 : records[j].LineNumber # records[i].LineNumber

\* The first record of every line number; records without one are all kept.
uniqueLines(records) ==
    LET unique[i \in 0 .. Len(records)] ==
            IF i = 0 THEN <<>>
            ELSE IF NotSeen(records, i) THEN Append(unique[i - 1], records[i])
            ELSE unique[i - 1]
    IN  unique[Len(records)]

\* A line that is relabelled gets a new series; the old one keeps its last value.
LineAttrs(line) == <<line.LineNumber, line.Label>>

LineSamples(p) ==
    LET unique == uniqueLines(answer[p])
    IN  <<GaugeOf("lines_total", p, "", Len(unique))>>
        \o [k \in DOMAIN unique |->
               GaugeOf("line", p, LineAttrs(unique[k]), Bit(unique[k].registered))]

\* Parameters up to the first one that ConfigGet left out.
Present(p) ==
    LET gaps == {i \in DOMAIN Params : answer[p][Params[i]] = "omitted"}
    IN  IF gaps = {} THEN Len(Params) ELSE Min(gaps) - 1

ConfigSamples(p) ==
    [i \in 1 .. Present(p) |->
        GaugeOf("config_source", p, <<Params[i], answer[p][Params[i]]>>, 1)]

NetworkSamples(p) == <<GaugeOf("network", p, answer[p], 1)>>

\* The answer of phone p makes Collect return an error before it records any of it.
Refused(p) ==
    \/ /\ id = "phone.status"
       /\ ~ (/\ UpTimeParses(answer[p].UpTime)
             /\ parseCounterOK(answer[p].RxPackets) /\ parseCounterOK(answer[p].TxPackets))
    \/ id = "phone.config" /\ \E n \in Range(Params) : answer[p][n] = "invalid"

\* ... or after it has recorded the parameters before a missing one.
CutShort(p) == id = "phone.config" /\ Present(p) < Len(Params)

Samples(p) ==
    CASE id = "phone.status" -> StatsSamples(p)
      [] id = "phone.lines" -> LineSamples(p)
      [] id = "phone.config" -> ConfigSamples(p)
      [] id = "phone.network_info" -> NetworkSamples(p)

----------------------------------------------------------------------------
(* One pass. *)

Init ==
    /\ id \in Collectors
    /\ state \in [Phones -> {"ok", "unreachable"}]
    /\ answer \in [Phones -> AnswersTo(id)]
    /\ pc = "idle"
    /\ cur = 1
    /\ queue = <<>>
    /\ shown = [k \in {} |-> 0]
    /\ steady = {}
    /\ changes = 0
    /\ failures = 0

StartPass ==
    /\ pc = "idle"
    /\ pc' = "probe"
    /\ steady' = Phones
    /\ UNCHANGED <<phones, id, cur, queue, shown, changes, failures>>

Return ==
    /\ pc' = "idle"
    /\ cur' = 1
    /\ queue' = <<>>
    /\ steady' = {}

\* The phone's state, or unreachable for a Probe that fails or returns no valid state.
Verdict(verdict) ==
    \/ verdict = state[cur] /\ UNCHANGED failures
    \/ /\ verdict = "unreachable" /\ state[cur] # "unreachable"
       /\ failures < MaxFailures /\ failures' = failures + 1

\* A phone that is not OK ends the pass.
Probe_return ==
    /\ pc = "probe"
    /\ \E verdict \in States :
          /\ Verdict(verdict)
          /\ queue' = IF id = "phone.status" THEN StateSamples(cur, verdict) ELSE <<>>
          /\ pc' = IF verdict = "ok" THEN "request" ELSE "abort"
    /\ UNCHANGED <<phones, id, cur, shown, steady, changes>>

\* The status collector records the verdict, whatever it is; a phone that is
\* not OK is then passed over.
Probe ==
    /\ pc = "probe"
    /\ \E verdict \in States :
          /\ Verdict(verdict)
          /\ queue' = IF id = "phone.status" THEN StateSamples(cur, verdict) ELSE <<>>
          /\ pc' = IF verdict = "ok" THEN "request" ELSE "next"
    /\ UNCHANGED <<phones, id, cur, shown, steady, changes>>

\* NetworkStats, LineInfo, ConfigGet or NetworkInfo answers.
Request ==
    /\ pc = "request" /\ queue = <<>>
    /\ state[cur] = "ok" /\ ~ Refused(cur)
    /\ queue' = Samples(cur)
    /\ pc' = IF CutShort(cur) THEN "abort" ELSE "next"
    /\ UNCHANGED <<phones, id, cur, shown, steady, changes, failures>>

\* The phone has gone since the probe, or its answer is refused.
RequestRefused ==
    /\ pc = "request" /\ queue = <<>>
    /\ state[cur] # "ok" \/ Refused(cur)
    /\ Return
    /\ UNCHANGED <<phones, id, shown, changes, failures>>

\* emitGauge, or Counter: the next sample is recorded.
Record ==
    /\ queue # <<>>
    /\ LET sample == Head(queue)
           old == IF sample.series \in DOMAIN shown THEN shown[sample.series] ELSE 0
           sum == IF old + sample.value < SumCap THEN old + sample.value ELSE SumCap
           new == IF sample.adds THEN sum ELSE sample.value
       IN  shown' = [k \in DOMAIN shown \cup {sample.series} |->
                        IF k = sample.series THEN new ELSE shown[k]]
    /\ queue' = Tail(queue)
    /\ UNCHANGED <<phones, id, pc, cur, steady, changes, failures>>

\* Runs past the last phone.
NextTarget_overrun ==
    /\ pc = "next" /\ queue = <<>>
    /\ pc' = "probe" /\ cur' = cur + 1
    /\ UNCHANGED <<phones, id, queue, shown, steady, changes, failures>>

NextTarget ==
    /\ pc = "next" /\ queue = <<>> /\ cur < NumTargets
    /\ pc' = "probe" /\ cur' = cur + 1
    /\ UNCHANGED <<phones, id, queue, shown, steady, changes, failures>>

\* The last phone is done: Collect returns nil.
EndPass ==
    /\ pc = "next" /\ queue = <<>> /\ cur = NumTargets
    /\ Return
    /\ UNCHANGED <<phones, id, shown, changes, failures>>

\* Collect returns the error of this phone.
Abort ==
    /\ pc = "abort" /\ queue = <<>>
    /\ Return
    /\ UNCHANGED <<phones, id, shown, changes, failures>>

\* A request to a phone that is OK, or the recording of a sample, fails.
Fails ==
    /\ pc = "request" \/ queue # <<>>
    /\ failures < MaxFailures
    /\ failures' = failures + 1
    /\ Return
    /\ UNCHANGED <<phones, id, shown, changes>>

PassStep ==
    \/ StartPass \/ Probe \/ Request \/ RequestRefused \/ Record
    \/ NextTarget \/ EndPass \/ Abort

Next ==
    \/ \E p \in Phones : ChangeState(p) \/ ChangeAnswer(p)
    \/ PassStep
    \/ Fails

Spec == Init /\ [][Next]_vars

\* scheduler.loop starts a pass on every tick and every request has a timeout;
\* failures are finitely many.
FairSpec == Spec /\ WF_vars(PassStep)

----------------------------------------------------------------------------
(* Properties. *)

Metrics == {"api_state", "uptime", "packets", "lines_total", "line", "config_source", "network"}

\* Every variable has its type; the pass is always at one of the phones.
TypeOK ==
    /\ id \in Collectors
    /\ state \in [Phones -> States]
    /\ answer \in [Phones -> AnswersTo(id)]
    /\ pc \in {"idle", "probe", "request", "next", "abort"}
    /\ cur \in Phones
    /\ \A i \in DOMAIN queue : queue[i].value \in Nat /\ queue[i].series[2] = cur
    /\ \A k \in DOMAIN shown : shown[k] \in Nat /\ k[1] \in Metrics /\ k[2] \in Phones
    /\ steady \subseteq Phones
    /\ changes \in 0 .. MaxChanges
    /\ failures \in 0 .. MaxFailures

Shows(k, v) == k \in DOMAIN shown /\ shown[k] = v

\* polyphone.api_state of p says s and nothing else.
StateShown(p, s) ==
    \A t \in States : Shows(<<"api_state", p, t>>, Bit(t = s))

\* The pass has gone through all phones and is about to return nil.
PassComplete == pc = "next" /\ queue = <<>> /\ cur = NumTargets

LineNumbers(p) == {answer[p][i].LineNumber : i \in DOMAIN answer[p]} \ {""}
Nameless(p) == {i \in DOMAIN answer[p] : answer[p][i].LineNumber = ""}

\* The gauges of phone p tell what it would answer now: each logical line counts
\* once and has, under its present label, the status of its first record.
Truthful(p) ==
    CASE id = "phone.status" ->
            Shows(<<"uptime", p, "">>, parseUptime(answer[p].UpTime)) /\ StateShown(p, "ok")
      [] id = "phone.lines" ->
            /\ Shows(<<"lines_total", p, "">>,
                     Cardinality(LineNumbers(p)) + Cardinality(Nameless(p)))
            /\ \A i \in DOMAIN answer[p] \ Nameless(p) :
                  (\A j \in 1 .. i - 1 : answer[p][j].LineNumber # answer[p][i].LineNumber)
                  => Shows(<<"line", p, LineAttrs(answer[p][i])>>, Bit(answer[p][i].registered))
      [] id = "phone.config" ->
            \A n \in Range(Params) : Shows(<<"config_source", p, <<n, answer[p][n]>>>>, 1)
      [] id = "phone.network_info" -> Shows(<<"network", p, answer[p]>>, 1)

\* A pass that returns without an error has recorded the truth about every phone
\* that was OK and did not change while it ran, as long as no request or recording
\* has ever failed, in this pass or an earlier one.
PassShowsSteady ==
    PassComplete /\ failures = 0 =>
        \A p \in steady : state[p] = "ok" => Truthful(p)

\* A phone's api_state comes to tell its state and stays true, whatever state other
\* phones are in, unless the statistics of an earlier phone that is OK do not parse.
StateConverges ==
    id = "phone.status" =>
        \A p \in Phones :
            <>[](\A q \in 1 .. p - 1 : state[q] = "ok" => ~ Refused(q))
                => <>[](\E s \in States : state[p] = s /\ StateShown(p, s))

\* "Monotonic RX/TX packet counts": while the phone counts no packet the exported
\* counts are the phone's.
PacketsCounted ==
    id = "phone.status" /\ changes = 0 =>
        \A p \in Phones :
            LET k == <<"packets", p, "rx">>
            IN  k \in DOMAIN shown => shown[k] = answer[p].RxPackets
=============================================================================
