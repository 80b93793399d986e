# polylens2otel: TLA+ models, checks and proofs

polylens2otel is an exporter: it reads the Poly Lens cloud API and the REST API
of Poly desk phones and emits OpenTelemetry metrics, logs and traces. This
directory holds TLA+ models of the parts of it whose correctness depends on
order, failure, time or concurrency, the TLC configurations that check them on
small instances, and TLAPS proofs of their safety properties for all instances. Paths below are relative to the repository.

## The system

`cmd/polylens2otel/main.go` loads the configuration, builds the telemetry
providers, discovers tenants and devices, resolves phone targets, registers the
collectors and starts two goroutines: the collector scheduler and, with Lens
credentials, the device stream. It then waits for a signal or for an error.

| component | state | operations | interacts with |
|---|---|---|---|
| runtime and scheduler (`cmd/.../main.go`, `internal/collector`) | contexts, error channel, wait groups, tickers, availability gauges | startup, start, select, shutdown; `Scheduler.Run`, `loop`, `RunOnce` | runs every collector and the stream; owns the providers |
| Lens API client (`internal/lensclient/client.go`) | cached token and expiry, mutex | `Query`, `AccessToken`, `do` (retry) | called by all Lens collectors concurrently and by the stream |
| Lens queries (`internal/lensclient/queries.go`) | pagination cursor | `Tenants`, `Devices`, `ActiveCalls`, `LatestFirmware` | client |
| Lens CDR collector (`internal/collectors/lenscdr`) | watermark file per tenant; per pass: checkpoint, watermark, seen keys, cursor | `Collect`, `loadWatermark`, `saveWatermark` | client, emitter, file system |
| Lens polling collectors (`internal/collectors/lens`) | exported gauges | `Collect` per collector | client, emitter |
| Lens device stream (`internal/lensstream`) | socket, failure count, connected gauge | `Run`, `session`, `emitDevice` | client (token), server, emitter |
| phone call-log collector (`internal/collectors/phone/calllogs.go`) | watermark file per phone; per phone: checkpoint, seen keys, counts | `Collect`, `loadWatermark`, `saveWatermark`, legacy migration | phone client, emitter, file system |
| other phone collectors (`internal/collectors/phone/collectors.go`, `networkinfo.go`) | exported gauges and counters | `Collect` per collector | phone client, emitter |
| phone client (`internal/phoneclient`) | idle connection; per call: challenge, answer, open bodies | `New`, `Probe`, the six reads | phones; called by all phone collectors concurrently |
| phone targets (`internal/phonetarget`) | none after startup | `Resolve`, address and password lookup | Lens client, phone client |
| tenant emitter (`cmd/.../tenant_emitter.go`) | tenant list | `SetTenants`, `WithTenant`, fan-out of process-level telemetry | everything that emits |
| emitter and providers (`internal/telemetry`) | instrument cache, exporters | `Gauge`, `Counter`, `LogEvent`, `Shutdown` | everything |
| configuration (`internal/config`) | none | `Load`, `Validate` | startup |
| registration (the `Register` functions) | the registry | `registerAll` | configuration, phone targets, scheduler |

What is hard here: at-least-once logging across failed passes, restarts and
upgrades with a single watermark per source; several goroutines on one token
cache whose mutex is held across network requests; a reconnecting subscription
whose server is silent for hours; cancellation at any point of any of them; and
the order of shutdown. What makes the components correct, in a line each:

- *CDR and call-log collectors*: no row is passed over; a row is repeated only
  because a pass was abandoned; every row is logged in the end.
- *Lens client*: one token request at a time, none without need, no caller
  stuck, no expired token sent within the margin.
- *Polling collectors*: a complete pass misses no device, page or tenant and
  leaves the truth behind; what is exported converges to the fleet's state; the
  device cap holds; one device in trouble does not hide another.
- *Device stream*: cleans up however a session ends, handles every event in the
  end, backs off as configured, recovers, and ends when told.
- *Phone client*: a phone's password is never used with a server that does not
  present its MAC, a verdict says what is wrong with the phone, no response body
  stays open.
- *Phone targets*: the password is that of the policy which wins for the phone;
  no phone with an address is left out.
- *Runtime*: nothing emits into closed providers, the exit code says why the
  process ended, a failing collector runs again, a signal always ends the process.

`PROJECT.json` lists the hazards with the line where each bites and the
properties aimed at it.

## Modules

| module | models | checked by |
|---|---|---|
| `AtLeastOnce` | abstract: what a log shipper with a persistent checkpoint promises | implemented by `LensCDR` |
| `LensCDR` | the CDR collector with its watermark file, the Lens service's window | `MCLensCDR` |
| `LensCDRProofs` | proofs about `LensCDR` | tlapm |
| `PhoneCallLogs` | the call-log collector over several phones | `MCPhoneCallLogs` |
| `PhoneCallLogsProofs` | proofs about `PhoneCallLogs` | tlapm |
| `LensClient` | token cache, mutex, retry loop, time | `MCLensClient` |
| `LensClientProofs` | proofs about `LensClient` | tlapm |
| `Backoff` | the doubling backoff, written twice in the code (`lensclient`, `lensstream`) | with `LensClient`, `LensStream` |
| `LensStream` | the device stream and the server it talks to | itself |
| `LensStreamProofs` | proofs about `LensStream` and `Backoff` | tlapm |
| `Startup` | configuration layers and `Validate`, tenants and their emitter, registration and intervals | with `Runtime` |
| `Runtime` | `main.run` and the scheduler, over `Startup` | `MCRuntime` |
| `RuntimeProofs` | proofs about `Runtime` | tlapm |
| `LensPolling` | the devices, active-calls and firmware collectors, device pagination, exported series | `MCLensPolling` |
| `LensPollingProofs` | proofs about `LensPolling` | tlapm |
| `PhonePolling` | the status, lines, config and network-info collectors, exported series | `MCPhonePolling` |
| `PhonePollingProofs` | proofs about `PhonePolling` | tlapm |
| `PhoneClient` | the phone REST client, its digest and certificate check, the phones | with `PhoneTarget` |
| `PhoneTarget` | address and password lookup, composed with `PhoneClient` | `MCPhoneTarget` |
| `PhoneTargetProofs` | proofs about `PhoneTarget` and `PhoneClient` | tlapm |

Definitions carry the names of the code where they can (`isNew`,
`advanceWatermark`, `callLogEntries`, `backoff`); `PROJECT.json` maps each to its
lines. An operator named `Name_variant` standing just before `Name` is a wrong
variant of it, of the kind a slip in the code would produce. No specification uses
one; each is there to show that a property notices when it takes the place of `Name`.

### LensCDR

One row stands for its dedupe key (device and start time); its start is a
function of it. A pass of `Collect` is a sequence of steps: `LoadWatermark`,
`FirstPage`, then per row `SkipRow` or `EmitRow`, `EndPage`, `NextPage`, and
`SaveWatermark`. `PassFails` is every error return at whatever point, `Crash` the
death of the process: in both the locals are gone and the file is as it was.
The temporary file and the rename are one step: until the rename nothing has
changed that a reader sees. A failing `loadWatermark` changes nothing and is a
stuttering step. Pages are arbitrary: any non-empty set of rows that includes one
the cursor has not passed, repeats allowed, handled in any order.
The set of rows the cursor ranges over is fixed by the first query; rows that
become queryable later are left to the next pass. `Collectors` is a set because
`Register` makes one collector per entry of `lens.tenants`, and a tenant listed
twice gets two on one file.

`ImplementsAtLeastOnce` maps it to `AtLeastOnce`: the items are the parsable rows,
offered once they have arrived and expired once out of the window; `emitted` counts
their logs, and the watermark file closes those it excludes. Loading, skipping, paging, failing and crashing are
stuttering steps there; logging a row is `Log`, a save is `Close`.

A row is *logged* when `LogEvent` has returned. The SDK's batch processor
(`telemetry/provider.go:94`) then holds it in memory: a process that dies after
`saveWatermark` and before the batch is exported loses rows that `emitted` counts.
`Shutdown` flushes, so this takes a crash. The same is true of `PhoneCallLogs`.

External: `Arrive` (a CDR becomes queryable). With `LateArrivals = FALSE` rows
become queryable in start order; nothing in the code guarantees that, so it is a
parameter and a theorem's hypothesis, and the run `lens_cdr_late` shows what
happens without it. `Expire` is the two-day `relativeRange` of the query.

### PhoneCallLogs

A pass visits the phones in order; per phone `OpenTarget` (probe, timezone,
watermark), `FetchLogs`, `SkipRow`/`EmitRow`, `EndRows`, `CountCalls` per
direction, `SaveWatermark`. A phone that is not OK is skipped (`SkipTarget`);
every later error ends the pass for all later phones (`PassFails`). A row's wall
clock is its dedupe key on its phone and becomes an instant by the rules of the
phone's zone (`Instant`): `Offset(z, w)` is how far zone `z` is behind UTC at wall
clock `w`, and may change with `w` as daylight saving begins or ends. Of a wall clock
that comes twice `ParseInLocation` takes one of the two instants, the same one
throughout a zone, so later wall clocks are at later instants (`ZonesAssumption`).
Rows arrive with any wall clock (`Arrive`): after the clocks went back one may be
earlier than, or the same as, that of a row before it. A row is *in turn*
(`InTurn`) if its wall clock is later than those of all parsable rows before it.

`NoCallLost` and `EveryCallLogged` are about rows in turn, and that is all the code
guarantees: a call made in the hour that is repeated falls before the watermark, or
has the key of a call already logged, and is never logged, although the zone setting
did not change; the same goes for a second call that begins in the same second.
What the properties add is that such rows do no harm to the calls around
them. A phone whose `LegacyLog` is not empty starts with the version-0 file an
earlier release left behind. `calls` is the counter as a backend adds it up over
restarts.

### LensClient

Each goroutine of `Callers` goes from `Query` through `lock`, possibly `mint`,
to `query`; `do` is the part common to both requests, with its attempts and
backoff. Time passes in ticks; `ttl` is what the cached token has left, `held`
what the token a caller is sending has left. Responses are abstracted to
success, retryable error and final error.

### LensStream

`pc` walks through `Run` and `session`; `Unwind` runs the deferred calls that
are registered at that point. A step fails when the environment is not
`healthy`, the context is done or the connection is lost. The server is external:
it acknowledges, sends events to a subscriber, and while the environment is not
healthy may drop the connection or send any frame. `failures` is counted up to
the number at which the backoff has reached its cap.

### Startup and Runtime

A configuration is a record, a layer (file, environment) a record of some of its
fields; `Load` is the merge of the layers over `Default`, and `Valid`, `LoadFails`
and the checks of `newLogger` and `ensureStateDir` are the ways it is refused.
Strings are kept as empty, blank, set or one of the values the code compares them with
(`ToLower` and the level names for `newLogger`);
intervals are minutes. A tenant ID is a name that may have blanks around it, since
`SetTenants` trims and `WithTenant` does not.

`main` is the step of `run`, from `load` to `exited`; every startup step may end
the process, through the deferred calls once the providers exist. `Discover` is
`discoverDevices` or `staticPhoneDevices`, `ResolveTargets` the result of
`PhoneTarget` reduced to some phones or none, followed by `registerAll`.
`coll[c]` is a collector's goroutine: in its first or a later pass, in the select
of `loop`, or done. A pass ends with success, an error or a panic; the ticker is
created after the first pass and panics, outside `RunOnce`'s recover, if the
interval is not positive (`NewTickerPanics`). The stream is abstracted to running,
ended by cancellation or failed.

### LensPolling

A pass is `resolveTenants`, `DevicesPage` once per page of each tenant, `WithinCap`
or `OverCap`, then `Report` once per listed device; every error is `QueryFails`
or `GaugeFails`. What the listing said of a device is kept in `devices` and may be
out of date when it is reported; active calls and the latest firmware are what
Lens answers at that moment. `shown` holds the last value of each series: the code
creates synchronous gauges and leaves the exporter's temporality at its default,
cumulative, so that a series once recorded is exported until the process ends. The
attributes `lens.devices` gives a device do not change in the model (a device that is
renamed or moved gets new series, like a new version does). The stream records
`device.connected` too, for the devices of `Subscribed`, but under other attributes
(the product ID as the model, no site): `StreamSeries` is a second series of the same
device, set by `StreamEvent` and left as it is when an event is lost
(`StreamMisses`). The three collectors record
different metrics and share only the API client, so each behaviour is about one
of them (`id`) with the stream beside it. External: the inventory, and a
`deviceSearch` that serves the devices after its token in a fixed order.

### PhonePolling

The same store for the phone collectors; counters add to it, up to `SumCap`. Per
phone: `Probe`, for the status collector followed by the four `api_state` gauges,
then `Request` or `RequestRefused`, and one `Record` per sample. The phone may
change between any two of them. `answer[p]` is what phone `p` would say to the one
request the collector makes after the probe. A line's series carries its number and
its label (`LineAttrs`; the label stands for the SIP address too): a line that is
relabelled gets a new series, and the old one keeps its last value. Text is abstracted to what the
parsers tell apart: an uptime is its four numbers, malformed values are one value.

### PhoneClient and PhoneTarget

A client belongs to one phone. A call is at `dial` before each of its requests and
at `sent` once the request is on a connection; handling a response touches only the
call, so `Exchange` is the server's answer and the call's reaction in one step.
`Probe` and the reads ask without credentials, ask again for a fresh challenge when
refused, and then answer it. `VerifyConnection` is made once per connection; an idle
connection (`conn`) may be reused by any caller of the client. It compares the
certificate's common name with the MAC and, only if `phone.tls.verify_chain` is set,
asks for a chain to the configured CA. Every host has a certificate, the stranger too,
and a host outside the CA may present any name (`CertAssumption`). A digest is modelled
by what a server compares: user, password, nonce, algorithm and qop. A phone keeps a
nonce for each refusal, or a single one (`oneNonce`), in which case a refusal of one
caller makes it forget the nonce of another (`Forgotten`). Every response body is
counted from its receipt, those closed at once included; a request may be lost before
or after the peer dealt with it, and closing a body may fail (`RequestLost`). External:
the phones, a stranger that may take over an address, and changes of addresses,
passwords and API settings at any moment.

`TrueState` is the state `docs/troubleshooting.md:11-13` gives a phone, written from
what the phone is and not from the requests. The document has no state for a phone
that is reached and identified but answers with an HTTP error or with a challenge the
client cannot answer; there `VerdictRight` only asks that the phone is not called
`ok` or `api_disabled`. What the code says is in the list below.

`PhoneTarget` adds `Resolve`: per device the address (`phone.targets`, else the
internal IP), the policy lookup in up to four queries (`ReadSource`, `ReadFamily`,
`ReadPolicies`, `ReadValue`), any of which falls back to the configured password,
`Build` and `Probed`. A device without an ID is not looked up. A policy may lack the
password attribute (`Unset`), and then counts neither as a source nor as a match, or
carry it without a value (`""`). When it is done the collectors call the clients. External:
what Lens answers, and policies that are redeployed or rotated between two queries.

## Runs

| run | instance | shows |
|---|---|---|
| `lens_cdr` | 1 collector, 4 rows (2 at one instant, 1 unparsable and latest), 2 failures or crashes | `NoRowLost`, `ReplayOnlyAfterFailure`, `ImplementsAtLeastOnce`, and under fairness `EveryRowLogged` |
| `lens_cdr_late` | 1 collector, 3 rows in any order of arrival | `NoRowLost` is violated, see below |
| `phone_call_logs` | 2 phones, one with a legacy file, 6 rows, a fixed zone and one with a repeated hour, 1 zone change, 1 failure | `NoCallLost`, `ReplayOnlyAfterFailure`, `CallsMatchLogs`, `EveryCallLogged` |
| `phone_call_logs_two_lists` | 1 phone, a received and a later placed call | `NoCallLost` is violated, see below |
| `lens_client` | 2 callers, 3 attempts, lifetimes below and above the margin | `OneMintAtATime`, `TokenLiveWithinMargin`, `NoNeedlessMint`, `QueryReturns` |
| `lens_stream` | backoff 3 doubling to 7, 2 frames under way | `SessionCleansUp`, `StreamCaughtUp`, `BackoffSchedule`, `CancelStopsRun`, `Recovers` |
| `runtime` | 5 deployments that run and 17 that are refused, 3 collectors and the stream | `ProvidersOutliveEmitters`, `ExitCodeMeans`, `CollectsAgain`, `StopsWhenTold` |
| `lens_polling` | 3 devices of 2 tenants, 1 of them in the stream, pages of 1 or 2, cap 2, 2 changes, 1 failure | `PassShowsSteady`, `CapHolds`, `ConnectedConverges` |
| `lens_polling_calls` | the same, active calls only | `ActiveCallsExact` is violated, see below |
| `phone_polling` | 2 phones, 2 changes, 1 failure, answers of every kind | `PassShowsSteady`, `StateConverges` |
| `phone_packets` | 1 idle phone | `PacketsCounted` is violated, see below |
| `phone_target` | 2 phones, a stranger that names one of them, 8 configurations, 7 policies, the resolver and 2 collectors, 1 change | `PasswordOnlyToItsPhone`, `BodiesClosed`, `VerdictRight`, `WinningPassword`, `EveryPhoneWithAddress` |

### Why the bounds are enough

- *CDR*: two rows at one instant and one before it are the cases `isNew` and
  `advanceWatermark` tell apart; the unparsable row starts last, where following it
  would close all others. Two failures let one abandoned pass follow another;
  repeated replays need no more. Several collectors on one file are covered by
  the theorem `NoLoss`, for any number of them.
- *Call logs*: the legacy phone has rows before and at its watermark, a new call
  after it, a call of the repeated hour that may appear behind it, and an unparsable
  row; the second phone shows what happens to phones behind a failing one.
- *Client*: the second caller is the one that queues; a third one only repeats its
  part, and the safety properties are proved for any number.
  Margin 2 leaves room for a retry within it; lifetimes are 1 and 4.
- *Stream*: 3, 6, 7 passes through doubling, the halved odd cap and the cap. Two
  frames are enough for an event behind an acknowledgement or another event.
- *Runtime*: one collector of each kind of registration and interval: a second
  CDR collector (registered per tenant, interval unchecked), a phone collector
  (registered with phones, interval checked) and the one that is always there.
  The running deployments have no, one, padded, blank and repeated tenants, zero
  and negative intervals, the stream and the profiler on and off, phones with and
  without Lens; each refused one fails one check, the level and the format of
  `newLogger` among them.
- *Phone targets*: two phones of one site but of different models, so that a
  policy lookup without the model is ambiguous; policies that are unique, doubled,
  of a family, of an unknown scope, without a password beside one that has it;
  phone states with each kind of challenge, each mode and a single nonce; clients with
  and without chain verification, and a stranger whose certificate names a phone. One change, of an address, a phone, a policy or a lost request, can fall
  between any two steps. Two collectors are interchangeable (symmetry).
- *Lens polling*: two tenants and a tenant with two devices are the loops of the
  listing; a page of one device leaves a second page; the cap is below the number
  of devices, so it is met exactly and exceeded. One device in the stream gives the
  second series, another shows its absence. Two changes are one before and
  one after the page that lists the device, or a call that starts and ends.
- *Phone polling*: the second phone is the one behind the phone in trouble. Line
  records are repeated, differ, lack a number and are relabelled; uptimes are at and over the limit
  of a field; parameters are invalid and omitted.

No run disables the deadlock check: `Runtime`, `LensStream` and `PhoneTarget` have
an explicit stuttering step for a process that has ended.

### Fairness

- `LensCDR`, `PhoneCallLogs`, `LensPolling`, `PhonePolling`: weak fairness of a pass's steps. The scheduler runs
  a collector on every tick, each request has a timeout. Failures are finitely
  many by their bound, so liveness says: when failures stop, rows get logged and
  gauges become true.
- `LensClient`: requests time out (`lens.request_timeout`), timers fire; strong
  fairness of taking the mutex, because Go's mutex switches to FIFO hand-over when
  a waiter starves.
- `LensStream`: the wait for the acknowledgement and the backoff have timers, and
  the context ends everything. `websocket.Dial` (`stream.go:122`), the writes and the
  read loop have no deadline of their own while the context lives. That they return is an
  assumption about the network: a peer answers, or its connection fails in the end; a
  peer that accepts and then says nothing for ever would hold `Run` at the dial. A
  subscription that is silent because no device changes is allowed. Strong fairness
  of noticing cancellation: a select with a ready `ctx.Done()` cannot prefer other branches for ever. A server that has been
  greeted acknowledges (needed by `Recovers` only).
- `Runtime`: startup, goroutines and tickers proceed, passes end (their requests
  have timeouts); strong fairness of `LoopEnds`, for the same reason as above. There is
  no fairness on signals, nor on the stream failing.

## What the runs found

1. **A later call in an earlier list hides an earlier call in a later list**
   (`phone_call_logs_two_lists`). `Collect` compares each row with the checkpoint
   that `callLogAdvance` has already moved for the rows before it, and goes
   through placed, received, missed in turn. With a received call at 1 and a placed
   call at 2, logging the placed one moves the checkpoint to 2; the received
   one is then before it, is declined, and stays excluded by the saved file.
   `lenscdr` keeps the loaded checkpoint apart from the watermark it advances
   and does not have this. `docs/signals.md:68` says each new row is a log.
2. **A CDR that becomes queryable late is never logged** (`lens_cdr_late`). The
   window is read in full each time, but `isNew` declines every row that starts
   before the saved watermark. `docs/troubleshooting.md:21` says that late records
   can take minutes to become queryable.
3. **A call that has ended stays exported as active** (`lens_polling_calls`).
   `activeCallsCollector.Collect` records a count only for the states that some
   call is in; nothing records 0 for a state that has become empty, so its series
   keeps the last count. `docs/signals.md:12` says "Active calls grouped by state".
4. **Packet counts are added up on every pass** (`phone_packets`). The phone
   reports cumulative counts, and `Collect` hands them to `Counter`, which adds.
   `docs/signals.md:20` says "Monotonic RX/TX packet counts".

The first two properties are also checked by passing runs, which carry the
hypothesis that excludes the case: rows become queryable in start order, and each
phone's calls are in one list (as in the recorded fixtures).

Consequences of the code that are modelled but are not findings: a persistent
error of one phone keeps every later phone from being collected
(`EveryCallLogged` assumes that failures end, `StateConverges` names the case in
its condition); series of removed devices, of earlier firmware versions, of
earlier configuration sources and of lines since relabelled stay exported, as does `api.unexpected` once the
fleet is below the cap again; and the reconnect delay of the
stream never returns to its minimum, since `failures` counts established
sessions too (`BackoffSchedule` states exactly that schedule). Further:

- A Lens interval that is not positive passes `Validate` and kills the process with
  code 2 after the collector's first pass, without a flush (`ExitCodeMeans` says
  that nothing else does).
- `collectors.phone_status`, `phone_lines` and `phone_config` are read by nobody:
  `Interval` has no setting for them, though `docs/env-vars.md` lists them.
- A tenant configured with blanks around it is exported in two spellings: trimmed by
  `SetTenants` (`tenant_emitter.go:38`) for process-level telemetry, and as written by
  `WithTenant` (108-113) for device telemetry, although lines 15-17 promise one
  boundary. Both operators are modelled; no property is stated, since the code splits
  such a tenant.
- A phone call made in the hour that daylight saving repeats is not logged
  (`calllogs.go:170`), though `docs/signals.md:82-86` says that the zone's
  daylight-saving rules are applied and line 68 that each new row is a log. The rows
  carry no offset that would tell the two hours apart.
- The stream's series of `polylens.device.connected` (`stream.go:204`) is never
  corrected by polling. An event lost while the stream is disconnected leaves
  it wrong until the device's next event, beside a polled series that is right;
  `docs/troubleshooting.md:25` calls polling the source of truth.
- With `phone.tls.verify_chain` off, the default, any server that presents a
  certificate with a phone's MAC as its name passes for the phone and is sent the digest of its
  password. `PasswordOnlyToItsPhone` says exactly that, and that with chains the phone alone
  gets it.
- A phone that keeps a single nonce refuses one of two callers that authenticate at
  the same time: the nonce it gave the first is forgotten over the second, and the first
  reports `auth_failed`. `VerdictRight` counts this as a change of the phone.
- Static targets with two tenants pass `Validate` when phones are disabled, and
  `staticPhoneDevices` then refuses to start.
- `Probe` calls a phone unreachable also for HTTP errors such as 500 and for challenges it
  cannot answer (`MD5-sess`, an incomplete header), though the phone was reached and
  identified; `docs/troubleshooting.md:13` gives that state only for TCP or TLS failures
  and for a name that does not match. And every authenticated read costs two refused requests.
- A password rotated in Lens after startup is never looked up again.

## Proofs

All are for arbitrary constants; the modules' named `ASSUME`s are all they use
beyond the hypotheses stated.

**`LensCDRProofs`.**
`TypeCorrect` is `TypeOK`. `NoLoss` is `NoRowLost` for any number of collectors on
one file, any rows and any failures, given start order (`LateArrivals = FALSE`).
`NoRowLost` is not inductive: whether a save loses a row depends on what the pass
holds. `NoLossInv` adds, for the file and for both marks of each running pass,
that they are *known* (they start no later than some row that has arrived, so a
row arriving in start order is excluded by none of them: `ArrivalUncovered`), and
for each pass its *shape* (pending rows were served, served rows are in the
snapshot, a pass about to save has served all of it), what it has *decided* (a
row of the window that is handled, seen or excluded by the checkpoint has been
logged; one excluded by the watermark to save has been logged or is still to be
handled) and the *order* (a row that arrived during the pass starts no earlier
than any row of the snapshot, so advancing past the latter cannot exclude the
former). When the pass reaches its save nothing is left to handle, so
whatever the new file excludes has been logged. Other collectors' saves do not
matter: a pass uses the file's content only when it loads it.
`Replay` is `ReplayOnlyAfterFailure` for one collector. `ReplayInv` says that the checkpoint
is the file's content while a pass runs, that a row logged in this pass is seen
and closed by the watermark to save, and that a row which is still open has been
logged at most as often as passes were abandoned. This holds with late rows too.
`Refinement` is `ImplementsAtLeastOnce` for one collector and start order. It needs
both invariants: `NoLossInv` for `Close` excluding only rows that were logged or have
expired, and `ReplayInv` (the checkpoint is the file's content) for `Log` applying
only to open rows and for `Close` not reopening any.

**`LensClientProofs`.** `SingleMint` is `OneMintAtATime`, `GoodTokenKept` is
`NoNeedlessMint`, for any number of callers. `CacheInv` adds the variables' types
and that while a token request is under way the cached token is stale, which is
why replacing it replaces nothing good. `AttemptsBounded` is `TypeOK`, which holds only
because `do` sleeps between attempts and not after the last (`AttemptInv`).
`CachedTokenLives` is `TokenLiveWithinMargin`: what a token taken from the cache has left
and how long it has been in use add up to more than the margin (`LiveInv`), a sum that a
tick does not change.

**`RuntimeProofs`.** `TypeCorrect`, `OutliveEmitters` (`ProvidersOutliveEmitters`),
and `ExitCode` (`ExitCodeMeans`), for any set of collectors, any configuration layers and any discovered tenants. None is inductive.
`RunInv` adds to the types what ties the goroutines' states to the step of `run` and to
the scheduler (none before start, all returned after the wait, only registered
collectors run), the providers and the profiler to that step, each exit code to its
cause, and the registry to the collectors the program knows. That last part is what `FatalUnchecked` needs: among
known collectors only a Lens collector's interval can fail to be positive. `LoadType` shows
that a merge of accepted layers has exactly the fields of the defaults.

**`LensStreamProofs`.** `StreamTyped` is `TypeOK`; with it goes that a delay is the one
`backoff` gives for the failures so far. `BackoffValue` says what `backoff` computes for
all limits and all numbers of failures, and `StreamBackoffSchedule` (`BackoffSchedule`)
follows. Proving it showed that the schedule stated before was wrong when `MinBackoff`
is one short of `MaxBackoff`: the rounding up begins with the second wait, since the
first is returned before the loop. `StreamCleansUp` (`SessionCleansUp`) needs that the
socket is open from the dial to the deferred close. `StreamCatchesUp` (`StreamCaughtUp`)
needs the queue: in a subscription the last event under way, if there is one, is the
device's state, and if there is none the last one emitted was; and no event is
under way before the subscription.

**`PhoneTargetProofs`.** For any phones, addresses, certificates, callers, policies and
inventories, with any number of changes between any two steps. `CoreInv` says of every
call that the bodies it holds are exactly those with a deferred close (Probe's first
response, from the refusal on), that it has a digest only in its last stage, and that it
is connected only to a host that `VerifyConnection` accepts for its phone; of every client
that its idle connection is to such a host; and that until `Resolve` is done only the resolver calls. `TargetTyped`,
`AllBodiesClosed` (`BodiesClosed`) and `PasswordsStayHome` (`PasswordOnlyToItsPhone`)
follow. `PasswordOnlyToItsPhone` is about a set that only grows, so the invariant has to
know the peer at the moment the digest is sent, connection reuse included. That an
accepted host is the phone itself follows from `CertAssumption` where the chain is
verified, and from nothing where it is not.
`VerdictsRight` (`VerdictRight`), for phones that no other host passes for (`Genuine`), adds what a call that saw no change has learnt at each
stage: the phone is reachable and secure, its challenge can be answered, the digest is
made for it and the caller's nonce is still known, whatever other callers do; a phone
with a single nonce that forgets it counts as changed.
`EveryPhoneIsTarget` (`EveryPhoneWithAddress`): after `n` devices the targets are those of
the first `n` with an address. `LookupFindsWinner` (`WinningPassword`): whatever changes
between the queries, the source and the family that were read are the phone's, so that the
policy whose value is read is deployed to it; and in a lookup that
nothing disturbed the source is that of the only winner, and the policy to read is the
winner unless its value is empty. Its core is
`MatchingIsRivals`: asked with the selectors of a scope, Lens returns exactly the policies
of that scope and collection deployed to the phone, of which those that carry the password
attribute count.

**`PhoneCallLogsProofs`.** `CallLogsTyped` is `TypeOK`. `ReplaysBounded`
(`ReplayOnlyAfterFailure`) holds for any rows in any lists. `ReplayInv` distinguishes the
rows a mark has *settled* (before it, or at it with their key saved): a row that is not
settled, by the file for an idle phone or by the loaded checkpoint for the open one, has
been logged at most as often as there were incidents, and a zone changed under an open
pass is an incident the pass has not used up. `NoCallIsLost` (`NoCallLost`) has the hypothesis
`OneList`: each phone's calls are in one list; the run `phone_call_logs_two_lists` shows
that it is needed. Logs need not be ordered: rows of a repeated hour may stand anywhere.
`LostInv` says, while zone settings stay as they are, that what a saved or loaded mark
excludes among the rows in turn was logged and the mark stands at a row the phone
shows, and that while rows are handled each row in turn was logged, is still to come in
turn, or is later than all that are still to come. With one list the entries keep the
order of the log (`EntriesInTurn`), so a row in turn has a later wall clock, and therefore a
later instant (`InstantOrder`), than every row handled before it: advancing the mark at
those never excludes it. `CounterMatchesLogs` (`CallsMatchLogs`) needs
that nothing is uncounted outside a phone's rows, and that adding 1 at one row adds 1 to
the sum over all rows.

**`LensPollingProofs`.** `PollingTyped` is `TypeOK`. `CapAlwaysHolds` (`CapHolds`): devices
reported and still to report together stay within the cap. `CompletePassesTellTruth`
(`PassShowsSteady`), for any tenants, devices and page sizes: a tracked device that did
not change is listed or on a page still to come of this or a later tenant, and later
listed or reported (`NoneLeftOut`); what the listing says of it is still so (`ListedTrue`)
and what was reported is what is shown (`ReportedTrue`), so that reporting another
device, or the same one again, destroys nothing.

**`PhonePollingProofs`.** `PhonePassTyped` is `TypeOK`; the samples still to record are
always of the phone the pass is at. `PhonePassesTellTruth` (`PassShowsSteady`): `Promised`
lists what a pass promises of a phone; for each promised series it is shown already or a
sample still to record sets it, and none sets it otherwise (`WillShow`). For the lines this
needs what `uniqueLines` returns for every list of records: each line number once, with
its first record, each nameless record, and as many in all (`UniqueLinesFacts`, `KeptCount`).

### Assumptions on the constants

Beyond types, finiteness and bounds, the `ASSUME`s say: the configured CA certifies no host
for a MAC that is not its own (`CertAssumption`), which is the trust chain verification rests
on, while other hosts may present any name; the digits of a MAC are no host's word
(`NamesAssumption`); in a zone a later wall clock is a later
instant (`ZonesAssumption`); a policy has
exactly the selectors Lens deploys its scope by (`ScopesBy`), and Lens names for a phone
only policies deployed to it (`PolicyAssumption`, `WinnersAssumption`, external; that
`policyVariables` selects by the same is a lemma, `SelectorsFitScopes`); the rows an earlier
release logged for a phone are its own, in order, the last one parsable
(`LegacyAssumption`). TLC evaluates them on the runs of their modules.

### Recursive functions

`backoff`, `OfDirection` and `uniqueLines` are loops, written as recursive functions over an
index. What they compute is proved by least counterexample: the set of indices at which
the claim fails has a least element if it is not empty, `<` on the naturals being
well-founded, and one turn of the loop shows that it has none. That the recursion has a
solution at all is shown in the same way. Sums over sets use strict inclusion on finite
sets instead. This takes only library theorems without operator parameters.

### Only model-checked

Every safety property that a passing run checks is proved. The liveness properties are not, since
fairness and `ENABLED` are outside the prover: `EveryRowLogged`, `EveryCallLogged`,
`QueryReturns`, `CancelStopsRun`, `Recovers`, `CollectsAgain`, `StopsWhenTold`,
`ConnectedConverges`, `StateConverges`. The four violations are TLC's.

## Not modelled

Generated documentation, metric names, dashboards, charts, scripts and the test
recorder have no behaviour to check. Contents of rows, attributes, log texts and
self-observability counters carry no decision and are left out of the models.

Of the modelled parts these are left out: HTTP redirects, and the TLS and HTTP transports themselves; the instrument cache
of the emitter and the construction of exporters (one step that may fail); the
`-version` flag and flag errors; the availability gauge of the scheduler, which is one
series for each collector ID, so that the CDR collectors of several tenants overwrite each
other's; the export of a batch after `LogEvent`; a token revoked before it expires, which fails all queries until then
(`lensclient/client.go:217`) and for which the code has no answer to state a property
about; a server that repeats a page token for ever; series of removed devices and of
changed configuration sources, which by the store's design stay.

## Plan

1. *Done*: `LensCDR`, `PhoneCallLogs`, `LensClient`, `LensStream`, `LensPolling`,
   `PhonePolling`, `PhoneClient`, `PhoneTarget`, `Startup`, `Runtime`; the abstract
   `AtLeastOnce` with its refinement by `LensCDR`; the proofs above.
2. `PhoneCallLogs` as an implementation of `AtLeastOnce`, for phones whose calls are in
   one list and whose zone stays as it is.
3. What the collectors may never do, as action properties: a saved watermark never moves
   back while the zone stays; a gauge is only set to what the source said in that pass.
