---------------------------- MODULE LensPolling ----------------------------
(***************************************************************************)
(* The Lens polling collectors (internal/collectors/lens/register.go) with *)
(* the queries they make (internal/lensclient/queries.go) and the series   *)
(* they leave behind (internal/telemetry/emitter.go).                      *)
(*                                                                         *)
(* A pass of lens.devices, lens.active_calls or lens.firmware resolves the *)
(* tenants, pages through the devices of each, gives up if there are more  *)
(* than cardinality.max_devices, and then goes through the listed devices, *)
(* querying Lens again for active calls and firmware.  The inventory moves *)
(* on meanwhile.  The three collectors share no state but the API client   *)
(* (LensClient), and no metric, so one of them runs in each behaviour.     *)
(* The stream (LensStream) records device.connected too, with the device's *)
(* productId for its model and without its site: as a second series.       *)
(*                                                                         *)
(* A recorded series is exported with its last value for ever: the SDK's   *)
(* synchronous gauges with cumulative temporality.                         *)
(***************************************************************************)
EXTENDS Integers, Sequences, SequencesExt, FiniteSets

CONSTANTS
    Collectors,     \* the collectors a behaviour may be about
    TenantIDs,      \* cfg.Lens.Tenants; empty for discovery
    AllTenants,     \* the tenants Lens knows, in its order
    Devices,        \* device numbers, in the order Lens lists them
    TenantOf,       \* TenantOf[d]: the tenant of device d
    Subscribed,     \* devices the stream is subscribed to
    LastDetected,   \* LastDetected[d]: age in seconds by the exporter's clock, or Unparsable
    Unparsable,     \* a timestamp time.Parse refuses
    PageSize,       \* cfg.PageSize
    MaxDevices,     \* cfg.Cardinality.MaxDevices
    MaxChanges,     \* bound on changes of the inventory
    MaxFailures     \* bound on failed passes

CollectorIDs == {"lens.devices", "lens.active_calls", "lens.firmware"}
Versions == {"v1", "v2"}
CallStates == {"ringing", "connected"}

ASSUME CollectorsAssumption == Collectors \subseteq CollectorIDs
ASSUME TenantsAssumption ==
    /\ AllTenants \in Seq(Range(AllTenants)) /\ TenantIDs \in Seq(Range(AllTenants))
    /\ TenantOf \in [Devices -> Range(AllTenants)]
ASSUME DevicesAssumption ==
    /\ Devices \subseteq Nat \ {0} /\ IsFiniteSet(Devices)
    /\ LastDetected \in [Devices -> Int \cup {Unparsable}]
    /\ Subscribed \subseteq Devices
ASSUME LimitsAssumption ==
    /\ PageSize \in Nat \ {0} /\ MaxDevices \in Nat \ {0}
    /\ MaxChanges \in Nat /\ MaxFailures \in Nat

VARIABLES
    enrolled,   \* devices in the Lens inventory
    connected,  \* devices connected to Lens
    installed,  \* installed[d]: software version of d
    latest,     \* latest available version
    calls,      \* calls[d][s]: active calls of d in state s
    events,     \* devices Lens has a stream event to send for
    id,         \* the collector this behaviour is about
    pc,         \* where its pass stands
    tenants,    \* tenants still to list
    nextToken,  \* last device of the page before; 0 is nil
    devices,    \* listed devices, then those still to report
    shown,      \* series -> last value recorded
    reported,   \* devices this pass has reported
    steady,     \* devices that have not changed since the pass began
    changes,    \* changes of the inventory so far
    failures    \* failed passes so far

inventory == <<enrolled, connected, installed, latest, calls, events>>
pass == <<pc, tenants, nextToken, devices, reported>>
vars == <<inventory, id, pass, shown, steady, changes, failures>>

----------------------------------------------------------------------------
(* Series. *)

\* A series: metric, device (0 for none), value of the attribute that sets it apart.
\* The other attributes of a device do not change.
DeviceSeries(metric, d) == <<metric, d, "">>
StreamSeries(d) == <<"device.connected", d, "productId">>
Unexpected == <<"api.unexpected", 0, "lens">>

Series ==
    ({"device.connected", "device.last_detected", "device.firmware_current"}
        \X Devices \X {""})
    \cup ({"device.connected"} \X Devices \X {"productId"})
    \cup ({"device.firmware_info"} \X Devices \X Versions)
    \cup ({"device.active_calls"} \X Devices \X CallStates)
    \cup {Unexpected}

\* otelEmitter.Gauge: the samples are recorded one after the other.
Gauge(samples) ==
    shown' = [k \in DOMAIN shown \cup {samples[i][1] : i \in DOMAIN samples} |->
                 IF \E i \in DOMAIN samples : samples[i][1] = k
                 THEN samples[Max({i \in DOMAIN samples : samples[i][1] = k})][2]
                 ELSE shown[k]]

Bit(b) == IF b THEN 1 ELSE 0

\* A detection in the exporter's future has a negative age.
emitAge_signed(d) ==
    IF LastDetected[d] = Unparsable THEN <<>>
    ELSE <<<<DeviceSeries("device.last_detected", d), LastDetected[d]>>>>

\* Nothing is recorded for a timestamp that does not parse.  The age of the
\* last configuration request is the same code on another metric.
emitAge(d) ==
    IF LastDetected[d] = Unparsable THEN <<>>
    ELSE <<<<DeviceSeries("device.last_detected", d),
             IF LastDetected[d] < 0 THEN 0 ELSE LastDetected[d]>>>>

----------------------------------------------------------------------------
(* The Lens inventory. *)

Change(d) ==
    /\ changes < MaxChanges
    /\ changes' = changes + 1
    /\ steady' = steady \ {d}
    /\ UNCHANGED <<id, pass, shown, failures>>

Enrol(d) ==
    /\ d \notin enrolled
    /\ enrolled' = enrolled \cup {d}
    /\ Change(d)
    /\ UNCHANGED <<connected, installed, latest, calls, events>>

Unenrol(d) ==
    /\ d \in enrolled
    /\ enrolled' = enrolled \ {d}
    /\ Change(d)
    /\ UNCHANGED <<connected, installed, latest, calls, events>>

Toggle(d) ==
    /\ d \in enrolled
    /\ connected' = IF d \in connected THEN connected \ {d} ELSE connected \cup {d}
    /\ events' = events \cup ({d} \cap Subscribed)
    /\ Change(d)
    /\ UNCHANGED <<enrolled, installed, latest, calls>>

Install(d) ==
    /\ d \in enrolled
    /\ \E v \in Versions \ {installed[d]} : installed' = [installed EXCEPT ![d] = v]
    /\ Change(d)
    /\ UNCHANGED <<enrolled, connected, latest, calls, events>>

\* A call starts, changes its state or ends.
CallChanges(d) ==
    /\ d \in enrolled
    /\ \/ \E s \in CallStates : calls' = [calls EXCEPT ![d][s] = @ + 1]
       \/ \E s \in CallStates :
             /\ calls[d][s] > 0
             /\ \/ calls' = [calls EXCEPT ![d][s] = @ - 1]
                \/ \E t \in CallStates \ {s} :
                      calls' = [calls EXCEPT ![d][s] = @ - 1, ![d][t] = @ + 1]
    /\ Change(d)
    /\ UNCHANGED <<enrolled, connected, installed, latest, events>>

\* New firmware is published; no device's state is what it was.
Publish ==
    /\ changes < MaxChanges
    /\ changes' = changes + 1
    /\ \E v \in Versions \ {latest} : latest' = v
    /\ steady' = {}
    /\ UNCHANGED <<enrolled, connected, installed, calls, events, id, pass, shown, failures>>

----------------------------------------------------------------------------
(* One pass: the listing. *)

NoCalls == [s \in CallStates |-> 0]

Init ==
    /\ enrolled \in SUBSET Devices
    /\ connected \in SUBSET enrolled
    /\ installed = [d \in Devices |-> "v1"]
    /\ latest = "v1"
    /\ calls = [d \in Devices |-> NoCalls]
    /\ events = {}
    /\ id \in Collectors
    /\ pc = "idle"
    /\ tenants = <<>>
    /\ nextToken = 0
    /\ devices = <<>>
    /\ shown = [k \in {} |-> 0]
    /\ reported = {}
    /\ steady = {}
    /\ changes = 0
    /\ failures = 0

StartPass ==
    /\ pc = "idle"
    /\ pc' = "tenants"
    /\ steady' = enrolled
    /\ UNCHANGED <<inventory, id, tenants, nextToken, devices, shown, reported, changes, failures>>

\* The pass returns; its locals are gone.
Return ==
    /\ pc' = "idle"
    /\ tenants' = <<>>
    /\ nextToken' = 0
    /\ devices' = <<>>
    /\ reported' = {}
    /\ steady' = {}

\* Configured tenants, or those Lens lists.
resolveTenants ==
    /\ pc = "tenants"
    /\ pc' = "list"
    /\ tenants' = IF TenantIDs # <<>> THEN TenantIDs ELSE AllTenants
    /\ UNCHANGED <<inventory, id, nextToken, devices, shown, reported, steady, changes, failures>>

\* Lens serves devices after the token, at most a page of them, in their order.
Remaining == {d \in enrolled : TenantOf[d] = Head(tenants) /\ d > nextToken}
ServePage(page) ==
    /\ page \subseteq Remaining
    /\ Cardinality(page) <= PageSize
    /\ page = {} => Remaining = {}
    /\ \A d \in page, e \in Remaining \ page : d < e

InOrder(page) ==
    {s \in SetToSeqs(page) : \A i, j \in DOMAIN s : i < j => s[i] < s[j]}

\* Device, as far as the collectors use it.
Node == [ID : Devices, Connected : BOOLEAN, SoftwareVersion : Versions]

\* What the listing says of the devices of a page, in the order it lists them.
Nodes(order) ==
    [i \in DOMAIN order |->
        [ID |-> order[i], Connected |-> order[i] \in connected,
         SoftwareVersion |-> installed[order[i]]]]

\* A page replaces the ones before it.
DevicesPage_replace ==
    /\ pc = "list" /\ tenants # <<>>
    /\ \E page \in SUBSET Devices :
          /\ ServePage(page)
          /\ \E order \in InOrder(page) : devices' = Nodes(order)
          /\ IF page # Remaining
             THEN nextToken' = Max(page) /\ UNCHANGED tenants
             ELSE nextToken' = 0 /\ tenants' = Tail(tenants)
    /\ UNCHANGED <<inventory, id, pc, shown, reported, steady, changes, failures>>

\* Client.Devices, one turn: another page of this tenant, or the next tenant.
DevicesPage ==
    /\ pc = "list" /\ tenants # <<>>
    /\ \E page \in SUBSET Devices :
          /\ ServePage(page)
          /\ \E order \in InOrder(page) : devices' = devices \o Nodes(order)
          /\ IF page # Remaining
             THEN nextToken' = Max(page) /\ UNCHANGED tenants
             ELSE nextToken' = 0 /\ tenants' = Tail(tenants)
    /\ UNCHANGED <<inventory, id, pc, shown, reported, steady, changes, failures>>

\* One device too many is let through.
WithinCap_offByOne ==
    /\ pc = "list" /\ tenants = <<>>
    /\ Len(devices) <= MaxDevices + 1
    /\ pc' = "report"
    /\ UNCHANGED <<inventory, id, tenants, nextToken, devices, shown, reported, steady,
                   changes, failures>>

WithinCap ==
    /\ pc = "list" /\ tenants = <<>>
    /\ Len(devices) <= MaxDevices
    /\ pc' = "report"
    /\ UNCHANGED <<inventory, id, tenants, nextToken, devices, shown, reported, steady,
                   changes, failures>>

\* api.unexpected is recorded and the pass returns an error.
OverCap ==
    /\ pc = "list" /\ tenants = <<>>
    /\ Len(devices) > MaxDevices
    /\ Gauge(<<<<Unexpected, 1>>>>)
    /\ Return
    /\ UNCHANGED <<inventory, id, changes, failures>>

----------------------------------------------------------------------------
(* One pass: the report. *)

\* The sequences of samples Collect may record for one listed device: a map of
\* calls by state is gone through in any order.
Samples(node) ==
    LET d == node.ID IN
    CASE id = "lens.devices" ->
            { <<<<DeviceSeries("device.connected", d), Bit(node.Connected)>>>>
              \o emitAge(d)
              \o <<<<<<"device.firmware_info", d, node.SoftwareVersion>>, 1>>>> }
      [] id = "lens.active_calls" ->
            SetToSeqs({<<<<"device.active_calls", d, s>>, calls[d][s]>> :
                          s \in {t \in CallStates : calls[d][t] > 0}})
      [] id = "lens.firmware" ->
            { <<<<DeviceSeries("device.firmware_current", d),
                  Bit(node.SoftwareVersion = latest)>>>> }

\* The loop returns after the first device it has reported.
Report_first ==
    /\ pc = "report" /\ devices # <<>>
    /\ \E samples \in Samples(Head(devices)) : Gauge(samples)
    /\ reported' = reported \cup {Head(devices).ID}
    /\ devices' = <<>>
    /\ UNCHANGED <<inventory, id, pc, tenants, nextToken, steady, changes, failures>>

\* ActiveCalls and LatestFirmware answer with what Lens knows by now.
Report ==
    /\ pc = "report" /\ devices # <<>>
    /\ \E samples \in Samples(Head(devices)) : Gauge(samples)
    /\ reported' = reported \cup {Head(devices).ID}
    /\ devices' = Tail(devices)
    /\ UNCHANGED <<inventory, id, pc, tenants, nextToken, steady, changes, failures>>

EndPass ==
    /\ pc = "report" /\ devices = <<>>
    /\ Return
    /\ UNCHANGED <<inventory, id, shown, changes, failures>>

\* A query fails, a page claims a successor without a nextToken, or the
\* api.unexpected gauge cannot be recorded.
QueryFails ==
    /\ \/ pc = "tenants" /\ TenantIDs = <<>>
       \/ pc = "list" /\ (tenants # <<>> \/ Len(devices) > MaxDevices)
       \/ pc = "report" /\ devices # <<>> /\ id # "lens.devices"
    /\ failures < MaxFailures
    /\ failures' = failures + 1
    /\ Return
    /\ UNCHANGED <<inventory, id, shown, changes>>

\* A Gauge call fails: the samples before it stay recorded.
GaugeFails ==
    /\ pc = "report" /\ devices # <<>>
    /\ failures < MaxFailures
    /\ failures' = failures + 1
    /\ \E samples \in Samples(Head(devices)) :
          /\ samples # <<>>
          /\ \E n \in 0 .. Len(samples) - 1 : Gauge(SubSeq(samples, 1, n))
    /\ Return
    /\ UNCHANGED <<inventory, id, changes>>

----------------------------------------------------------------------------
(* The stream. *)

\* Stream.emitDevice for an event, which tells the device's state.
StreamEvent(d) ==
    /\ d \in events
    /\ events' = events \ {d}
    /\ Gauge(<<<<StreamSeries(d), Bit(d \in connected)>>>>)
    /\ UNCHANGED <<enrolled, connected, installed, latest, calls, id, pass, steady,
                   changes, failures>>

\* The stream is not connected, or the event is lost with its connection.
StreamMisses(d) ==
    /\ d \in events
    /\ events' = events \ {d}
    /\ UNCHANGED <<enrolled, connected, installed, latest, calls, id, pass, shown, steady,
                   changes, failures>>

----------------------------------------------------------------------------

PassStep ==
    \/ StartPass \/ resolveTenants \/ DevicesPage \/ WithinCap \/ OverCap
    \/ Report \/ EndPass

Next ==
    \/ \E d \in Devices :
          Enrol(d) \/ Unenrol(d) \/ Toggle(d) \/ Install(d) \/ CallChanges(d)
    \/ Publish
    \/ \E d \in Devices : StreamEvent(d) \/ StreamMisses(d)
    \/ PassStep
    \/ QueryFails
    \/ GaugeFails

Spec == Init /\ [][Next]_vars

\* scheduler.loop starts a pass on every tick and every request has a timeout;
\* failures are finitely many.
FairSpec == Spec /\ WF_vars(PassStep)

----------------------------------------------------------------------------
(* Properties. *)

\* Every variable has its type; no recorded value, an age included, is negative.
TypeOK ==
    /\ enrolled \subseteq Devices /\ connected \subseteq Devices
    /\ installed \in [Devices -> Versions]
    /\ latest \in Versions
    /\ calls \in [Devices -> [CallStates -> Nat]]
    /\ events \subseteq Devices
    /\ id \in Collectors
    /\ pc \in {"idle", "tenants", "list", "report"}
    /\ tenants \in Seq(Range(AllTenants))
    /\ nextToken \in Devices \cup {0}
    /\ devices \in Seq(Node)
    /\ DOMAIN shown \subseteq Series
    /\ \A k \in DOMAIN shown : shown[k] \in Nat
    /\ reported \subseteq Devices /\ steady \subseteq Devices
    /\ changes \in 0 .. MaxChanges
    /\ failures \in 0 .. MaxFailures

Shows(k, v) == k \in DOMAIN shown /\ shown[k] = v

\* The pass has gone through all devices and is about to return nil.
PassComplete == pc = "report" /\ devices = <<>>

Tracked == {d \in Devices :
               TenantOf[d] \in Range(IF TenantIDs # <<>> THEN TenantIDs ELSE AllTenants)}

\* A pass that returns without an error has, for every device that did not change
\* while it ran, recorded the device's true state: no page and no tenant was left
\* out and nothing listed earlier was recorded as current.
PassShowsSteady ==
    PassComplete =>
        \A d \in steady \cap Tracked :
            /\ d \in reported
            /\ id = "lens.devices" =>
                  /\ Shows(DeviceSeries("device.connected", d), Bit(d \in connected))
                  /\ Shows(<<"device.firmware_info", d, installed[d]>>, 1)
            /\ id = "lens.firmware" =>
                  Shows(DeviceSeries("device.firmware_current", d), Bit(installed[d] = latest))
            /\ id = "lens.active_calls" =>
                  \A s \in CallStates :
                      calls[d][s] > 0 => Shows(<<"device.active_calls", d, s>>, calls[d][s])

\* One pass never reports more than cardinality.max_devices devices, over all
\* tenants and pages.
CapHolds == Cardinality(reported) <= MaxDevices

\* "Active calls grouped by state": what is exported for a device after a complete
\* pass is the number of its calls in each state.
ActiveCallsExact ==
    PassComplete /\ id = "lens.active_calls" =>
        \A d \in steady \cap Tracked, s \in CallStates :
            LET k == <<"device.active_calls", d, s>>
            IN  k \in DOMAIN shown => shown[k] = calls[d][s]

\* The series lens.devices records.
ConnectedShown ==
    \A d \in enrolled \cap Tracked :
        Shows(DeviceSeries("device.connected", d), Bit(d \in connected))

\* Unless the inventory stays above the cap, the device.connected series that
\* lens.devices records come to tell the truth about every device in it and stay
\* true.  (The stream's series of the same metric only change with the next event of
\* their device: a lost event leaves them wrong, and no pass corrects them.)
ConnectedConverges ==
    id = "lens.devices" /\ <>[](Cardinality(enrolled) <= MaxDevices)
        => <>[]ConnectedShown
=============================================================================
