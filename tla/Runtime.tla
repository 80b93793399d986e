------------------------------ MODULE Runtime ------------------------------
(***************************************************************************)
(* The process: cmd/polylens2otel/main.go's run and the collector          *)
(* scheduler (internal/collector/scheduler.go), over the configuration,    *)
(* tenants and registration rules of Startup.                              *)
(*                                                                         *)
(* run goes through its startup steps, each of which may end it, starts    *)
(* the scheduler and, when configured, the device stream as goroutines,    *)
(* and waits for a signal or for a goroutine's error; it then cancels the  *)
(* shared context, waits for the goroutines and, deferred, stops the       *)
(* profiler and shuts the telemetry providers down.  The scheduler runs    *)
(* one goroutine per collector: a pass at once, then one per tick.  Passes *)
(* and the stream are abstracted to how they end; phone targets are        *)
(* resolved in PhoneTarget and are here some phones or none.               *)
(*                                                                         *)
(* The -version and flag-error exits come before everything and are left   *)
(* out.                                                                    *)
(***************************************************************************)
EXTENDS Startup

CONSTANTS
    Collectors,     \* the collectors the program has: pairs <<id, n>>
    Layers,         \* [file, env]: what the process may be started with
    Discoveries     \* tenant lists Lens may answer with

\* Tenant lists decode to lists of IDs.
ASSUME TenantsAssumption ==
    /\ Discoveries \subseteq Seq(TenantIDs)
    /\ \A l \in Layers : \A layer \in {l.env, l.file.layer} :
          "tenants" \in DOMAIN layer => layer["tenants"] \in Seq(TenantIDs)

VARIABLES
    main,       \* the step run is at
    exit,       \* the exit code of the process
    cfg,        \* the configuration, runtimeCfg once tenants are known
    scope,      \* the tenants of the emitter
    devices,    \* devices were discovered or are configured
    registry,   \* the registered collectors
    profiler,   \* the Pyroscope profiler runs
    providers,  \* telemetry providers: "none", "up" or "down"
    signalled,  \* SIGINT or SIGTERM arrived: ctx is done
    cancelled,  \* runCtx is done
    errCh,      \* errors waiting in the channel
    sched,      \* the scheduler goroutine
    coll,       \* coll[c]: the goroutine of collector c
    tick,       \* tick[c]: its ticker has a tick waiting
    avail,      \* avail[c]: its availability gauge, 2 while unset
    stream      \* the stream goroutine

setup == <<cfg, scope, devices, registry>>
passes == <<coll, tick, avail>>
goroutines == <<errCh, sched, passes, stream>>
process == <<main, exit, setup, profiler, providers, signalled, cancelled>>
vars == <<process, goroutines>>

\* errCh := make(chan error, 2)
ErrChCap == 2

StartupSteps == {"load", "validate", "logger", "stateDir", "providers", "profiler",
                 "discover", "targets", "startup"}

----------------------------------------------------------------------------
(* main: startup. *)

Init ==
    /\ main = "load"
    /\ exit = 0
    /\ cfg = Default
    /\ scope = {}
    /\ devices = FALSE
    /\ registry = {}
    /\ profiler = FALSE
    /\ providers = "none"
    /\ signalled = FALSE
    /\ cancelled = FALSE
    /\ errCh = 0
    /\ sched = "none"
    /\ coll = [c \in Collectors |-> "none"]
    /\ tick = [c \in Collectors |-> FALSE]
    /\ avail = [c \in Collectors |-> 2]
    /\ stream = "none"

\* run returns 1, through its deferred calls when the providers exist.
ReturnOne ==
    /\ exit' = 1
    /\ main' = IF providers = "up" THEN "shutdown" ELSE "exited"

Proceed(step) == main' = step /\ UNCHANGED exit

LoadConfig(l) ==
    /\ main = "load"
    /\ IF LoadFails(l.file, l.env)
       THEN ReturnOne /\ UNCHANGED cfg
       ELSE Proceed("validate") /\ cfg' = Load(l.file, l.env)
    /\ UNCHANGED <<scope, devices, registry, profiler, providers, signalled, cancelled,
                   goroutines>>

\* Validate, then newLogger, then the emptiness check of ensureStateDir.
CheckConfig ==
    /\ \/ /\ main = "validate"
          /\ IF Valid(cfg) THEN Proceed("logger") ELSE ReturnOne
       \/ /\ main = "logger"
          /\ IF LoggerFails(cfg) THEN ReturnOne ELSE Proceed("stateDir")
       \/ /\ main = "stateDir"
          /\ IF ~ Blank(cfg.stateDir) THEN Proceed("providers") ELSE ReturnOne
    /\ UNCHANGED <<setup, profiler, providers, signalled, cancelled, goroutines>>

\* The emitter starts with the configured tenants.
NewProviders ==
    /\ main = "providers"
    /\ Proceed("profiler")
    /\ providers' = "up"
    /\ scope' = SetTenants(cfg.tenants)
    /\ UNCHANGED <<cfg, devices, registry, profiler, signalled, cancelled, goroutines>>

\* Without credentials, or with an error that is only logged, there is none.
StartProfiler(started) ==
    /\ main = "profiler"
    /\ started => cfg.profiling # ""
    /\ Proceed("discover")
    /\ profiler' = started
    /\ UNCHANGED <<setup, providers, signalled, cancelled, goroutines>>

\* The emitter and the configuration of the collectors get the tenants.
TenantsKnown(ids) ==
    /\ cfg' = [cfg EXCEPT !.tenants = ids]
    /\ scope' = SetTenants(ids)

\* discoverDevices, or staticPhoneDevices without Lens: the tenants, and whether
\* there are devices.
Discover(found, some) ==
    /\ main = "discover"
    /\ LET lens == LensEnabled(cfg)
           ids == IF ~ lens THEN StaticTenants(cfg)
                  ELSE IF cfg.tenants = <<>> THEN found ELSE cfg.tenants
       IN  IF ~ lens /\ StaticFails(cfg)
           THEN ReturnOne /\ UNCHANGED <<cfg, scope, devices>>
           ELSE /\ Proceed("targets")
                /\ IF lens THEN some => ids # <<>> ELSE some = (cfg.targets # {})
                /\ devices' = some
                /\ TenantsKnown(ids)
    /\ UNCHANGED <<registry, profiler, providers, signalled, cancelled, goroutines>>

\* resolvePhoneTargets, and registerAll on what it returned.
ResolveTargets(phones) ==
    /\ main = "targets"
    /\ phones => cfg.phoneEnabled /\ devices
    /\ Proceed("startup")
    /\ registry' = {c \in Collectors : Registers(cfg, phones, c)}
    /\ UNCHANGED <<cfg, scope, devices, profiler, providers, signalled, cancelled,
                   goroutines>>

\* The startup event is logged, the goroutines are started.
StartGoroutines ==
    /\ main = "startup"
    /\ Proceed("running")
    /\ sched' = "start"
    /\ stream' = IF LensEnabled(cfg) /\ cfg.streamEnabled /\ devices THEN "running" ELSE "none"
    /\ cancelled' = signalled
    /\ UNCHANGED <<setup, profiler, providers, signalled, errCh, passes>>

\* What a step needs from outside fails, a signal being one reason: the state
\* directory, the exporters, a Lens query, a phone's target, the startup event.
StartupFails ==
    /\ main \in {"stateDir", "providers", "discover", "targets", "startup"}
    /\ main = "discover" => LensEnabled(cfg)
    /\ main = "targets" => cfg.phoneEnabled
    /\ ReturnOne
    /\ UNCHANGED <<setup, profiler, providers, signalled, cancelled, goroutines>>

StartupStep ==
    \/ \E l \in Layers : LoadConfig(l)
    \/ CheckConfig \/ NewProviders
    \/ \E started \in BOOLEAN : StartProfiler(started)
    \/ \E found \in Discoveries, some \in BOOLEAN : Discover(found, some)
    \/ \E phones \in BOOLEAN : ResolveTargets(phones)
    \/ StartGoroutines

----------------------------------------------------------------------------
(* main: until the end. *)

\* NotifyContext: ctx is done, and runCtx, its child, with it.
Signal ==
    /\ ~ signalled /\ main # "exited"
    /\ signalled' = TRUE
    /\ cancelled' = (cancelled \/ sched # "none")
    /\ UNCHANGED <<main, exit, setup, profiler, providers, goroutines>>

\* The select of run; with both ready either branch may be taken.
StopOnSignal ==
    /\ main = "running" /\ signalled
    /\ cancelled' = TRUE
    /\ main' = "wait"
    /\ UNCHANGED <<exit, setup, profiler, providers, signalled, goroutines>>

\* The error is logged but the exit code stays 0.
StopOnError_exitZero ==
    /\ main = "running" /\ errCh > 0
    /\ errCh' = errCh - 1
    /\ cancelled' = TRUE
    /\ main' = "wait"
    /\ UNCHANGED <<exit, setup, profiler, providers, signalled, sched, passes, stream>>

\* The error branch is taken without an error to receive.
StopOnError_noGuard ==
    /\ main = "running"
    /\ errCh' = errCh - 1
    /\ exit' = 1
    /\ cancelled' = TRUE
    /\ main' = "wait"
    /\ UNCHANGED <<setup, profiler, providers, signalled, sched, passes, stream>>

StopOnError ==
    /\ main = "running" /\ errCh > 0
    /\ errCh' = errCh - 1
    /\ exit' = 1
    /\ cancelled' = TRUE
    /\ main' = "wait"
    /\ UNCHANGED <<setup, profiler, providers, signalled, sched, passes, stream>>

\* run returns without waiting for its goroutines.
WaitGroup_skipped ==
    /\ main = "wait"
    /\ main' = "shutdown"
    /\ UNCHANGED <<exit, setup, profiler, providers, signalled, cancelled, goroutines>>

\* wg.Wait()
WaitGroup ==
    /\ main = "wait"
    /\ sched = "done" /\ stream # "running"
    /\ main' = "shutdown"
    /\ UNCHANGED <<exit, setup, profiler, providers, signalled, cancelled, goroutines>>

\* The deferred calls: the profiler stops, then the providers flush and close.
Shutdown ==
    /\ main = "shutdown"
    /\ main' = "exited"
    /\ profiler' = FALSE
    /\ providers' = "down"
    /\ UNCHANGED <<exit, setup, signalled, cancelled, goroutines>>

----------------------------------------------------------------------------
(* Scheduler.Run and its loops. *)

\* One goroutine per registered collector, each starting with a pass.
SchedulerStarts ==
    /\ sched = "start"
    /\ sched' = "running"
    /\ coll' = [c \in Collectors |-> IF c \in registry THEN "first" ELSE "none"]
    /\ UNCHANGED <<process, errCh, tick, avail, stream>>

TickFires(c) ==
    /\ coll[c] \in {"pass", "select"} /\ ~ tick[c]
    /\ tick' = [tick EXCEPT ![c] = TRUE]
    /\ UNCHANGED <<process, errCh, sched, coll, avail, stream>>

\* A panic unwinds past the loop: the collector's goroutine is gone.
PassEnds_noRecover(c, how) ==
    /\ coll[c] \in {"first", "pass"}
    /\ coll[c] = "first" => Interval(cfg, c) > 0
    /\ coll' = [coll EXCEPT ![c] = IF how = "panic" THEN "done" ELSE "select"]
    /\ avail' = [avail EXCEPT ![c] = IF how = "ok" THEN 1 ELSE 0]
    /\ UNCHANGED <<process, errCh, sched, tick, stream>>

\* RunOnce: Collect returns or panics; the deferred function recovers and
\* reports availability.  The ticker is created after the first pass.
PassEnds(c, how) ==
    /\ coll[c] \in {"first", "pass"}
    /\ coll[c] = "first" => Interval(cfg, c) > 0
    /\ coll' = [coll EXCEPT ![c] = "select"]
    /\ avail' = [avail EXCEPT ![c] = IF how = "ok" THEN 1 ELSE 0]
    /\ UNCHANGED <<process, errCh, sched, tick, stream>>

\* time.NewTicker panics after the first pass, outside RunOnce's recover: the
\* process dies with code 2, its goroutines with it, and no deferred call runs.
NewTickerPanics(c, how) ==
    /\ coll[c] = "first" /\ ~ (Interval(cfg, c) > 0)
    /\ avail' = [avail EXCEPT ![c] = IF how = "ok" THEN 1 ELSE 0]
    /\ main' = "exited"
    /\ exit' = 2
    /\ sched' = "done"
    /\ coll' = [d \in Collectors |-> IF d \in registry THEN "done" ELSE "none"]
    /\ stream' = IF stream = "running" THEN "done" ELSE stream
    /\ UNCHANGED <<setup, profiler, providers, signalled, cancelled, errCh, tick>>

\* The select of loop: a waiting tick starts a pass even after cancellation.
NextPass(c) ==
    /\ coll[c] = "select" /\ tick[c]
    /\ coll' = [coll EXCEPT ![c] = "pass"]
    /\ tick' = [tick EXCEPT ![c] = FALSE]
    /\ UNCHANGED <<process, errCh, sched, avail, stream>>

\* The loop only looks at its ticker.
LoopEnds_never(c) == FALSE /\ UNCHANGED vars

LoopEnds(c) ==
    /\ coll[c] = "select" /\ cancelled
    /\ coll' = [coll EXCEPT ![c] = "done"]
    /\ UNCHANGED <<process, errCh, sched, tick, avail, stream>>

\* Every loop has returned.  Run's ctx.Err() is nil or runCtx is done, so the
\* goroutine in main reports nothing.
SchedulerEnds ==
    /\ sched = "running" /\ \A c \in registry : coll[c] = "done"
    /\ sched' = "done"
    /\ UNCHANGED <<process, errCh, passes, stream>>

\* stream.Run returns nil once the context is done.
StreamEnds ==
    /\ stream = "running" /\ cancelled
    /\ stream' = "done"
    /\ UNCHANGED <<process, errCh, sched, passes>>

\* stream.Run returns an error: reported unless runCtx is done, dropped if the
\* channel is full.
StreamFails ==
    /\ stream = "running"
    /\ stream' = "failed"
    /\ errCh' = IF ~ cancelled /\ errCh < ErrChCap THEN errCh + 1 ELSE errCh
    /\ UNCHANGED <<process, sched, passes>>

Outcomes == {"ok", "error", "panic"}

MainStep == StopOnSignal \/ StopOnError \/ WaitGroup \/ Shutdown

CollectorStep(c) ==
    \/ \E how \in Outcomes : PassEnds(c, how) \/ NewTickerPanics(c, how)
    \/ NextPass(c)

Next ==
    \/ StartupStep \/ StartupFails \/ Signal
    \/ MainStep
    \/ SchedulerStarts \/ SchedulerEnds
    \/ \E c \in Collectors : TickFires(c) \/ CollectorStep(c) \/ LoopEnds(c)
    \/ StreamEnds \/ StreamFails
    \/ main = "exited" /\ UNCHANGED vars

Spec == Init /\ [][Next]_vars

\* Goroutines are scheduled, tickers fire, requests time out; select chooses
\* at random among its ready branches, so a done context is not overlooked for
\* ever (strong fairness of LoopEnds).
Fairness ==
    /\ WF_vars(StartupStep \/ StartupFails)
    /\ WF_vars(MainStep)
    /\ WF_vars(SchedulerStarts) /\ WF_vars(SchedulerEnds)
    /\ \A c \in Collectors :
          WF_vars(TickFires(c)) /\ WF_vars(CollectorStep(c)) /\ SF_vars(LoopEnds(c))
    /\ WF_vars(StreamEnds)

FairSpec == Spec /\ Fairness

----------------------------------------------------------------------------
(* Properties. *)

\* Every variable has its type; errCh never holds more than its capacity.
TypeOK ==
    /\ main \in StartupSteps \cup {"running", "wait", "shutdown", "exited"}
    /\ exit \in 0 .. 2
    /\ DOMAIN cfg = DOMAIN Default /\ cfg.tenants \in Seq(TenantIDs)
    /\ scope \subseteq TenantIDs
    /\ devices \in BOOLEAN /\ profiler \in BOOLEAN
    /\ registry \in SUBSET Collectors
    /\ providers \in {"none", "up", "down"}
    /\ signalled \in BOOLEAN /\ cancelled \in BOOLEAN
    /\ errCh \in 0 .. ErrChCap
    /\ sched \in {"none", "start", "running", "done"}
    /\ coll \in [Collectors -> {"none", "first", "pass", "select", "done"}]
    /\ tick \in [Collectors -> BOOLEAN]
    /\ avail \in [Collectors -> 0 .. 2]
    /\ stream \in {"none", "running", "done", "failed"}

\* The providers outlive everything that emits and never the process: while a
\* collector's pass or the stream is under way they are up, in every order of
\* shutdown, and once run has returned they were never built or were flushed, and
\* the profiler was stopped.  Only a death that skips the deferred calls leaves
\* them.
ProvidersOutliveEmitters ==
    /\ (\E c \in Collectors : coll[c] \in {"first", "pass"}) \/ stream = "running"
          => providers = "up"
    /\ main = "exited" /\ exit # 2 => providers # "up" /\ ~ profiler

\* What the exit code says.  0: someone asked; a stream failure alone never ends
\* the process with success.  2: a Lens collector was given a non-positive interval,
\* which Validate accepts; no setting of another collector kills the process.
ExitCodeMeans ==
    /\ main = "exited" /\ exit = 0 => signalled
    /\ exit = 2 => \E c \in registry : c[1] \in Unchecked /\ ~ (cfg[IntervalKey[c[1]]] > 0)

\* A failed pass, whether it returned an error or panicked, is not a collector's
\* last: one that reports itself unavailable runs again unless the process is
\* stopping or its interval kills it.
CollectsAgain ==
    \A c \in Collectors : avail[c] = 0 ~> (coll[c] = "pass" \/ cancelled \/ exit = 2)

\* A signal or an error of the stream ends the process, whatever the collectors
\* are doing and however far startup has come.
StopsWhenTold == (signalled \/ stream = "failed") ~> main = "exited"
=============================================================================
