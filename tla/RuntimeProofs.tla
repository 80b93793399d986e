--------------------------- MODULE RuntimeProofs ---------------------------
(***************************************************************************)
(* Proofs about Runtime for any set of collectors, any layers of           *)
(* configuration and any discovered tenants.                               *)
(***************************************************************************)
EXTENDS Runtime, TLAPS

\* Before the goroutines start there are none; once run has waited for them, or
\* the process has died, all have returned; in between the scheduler's state bounds
\* its loops'.  Only registered collectors have one.
GoroutinesInv ==
    /\ main \in StartupSteps => sched = "none" /\ stream = "none"
    /\ main \in {"shutdown", "exited"} => sched \in {"none", "done"} /\ stream # "running"
    /\ sched \in {"none", "start"} => \A c \in Collectors : coll[c] = "none"
    /\ sched = "done" => \A c \in Collectors : coll[c] \in {"none", "done"}
    /\ \A c \in Collectors : coll[c] # "none" => c \in registry

\* The providers' and the profiler's state follow the step run is at.
ProvidersInv ==
    /\ main \in {"load", "validate", "logger", "stateDir", "providers"} =>
          providers = "none" /\ ~ profiler
    /\ main \in {"profiler", "discover", "targets", "startup", "running", "wait",
                 "shutdown"} => providers = "up"
    /\ main = "exited" /\ exit # 2 => providers # "up" /\ ~ profiler

\* Interval is not positive.
Fatal(c) == ~ (Interval(cfg, c) > 0)

\* run leaves its select with code 0 only on a signal, and the process dies only of
\* an interval.
ExitInv ==
    /\ main \in StartupSteps \cup {"running"} => exit = 0
    /\ main \in {"wait", "shutdown", "exited"} /\ exit = 0 => signalled
    /\ exit = 2 => main = "exited" /\ \E c \in registry : Fatal(c)

Ids == LensPollers \cup PhoneFixed \cup PhoneTimed \cup {"lens.cdr", "selfobs.internal"}

\* Only collectors the program knows register.
RegistryInv == \A c \in registry : c[1] \in Ids

RunInv == TypeOK /\ GoroutinesInv /\ ProvidersInv /\ ExitInv /\ RegistryInv

----------------------------------------------------------------------------
\* No tenants are configured by default.
LEMMA DefaultTenants ==
    "tenants" \in DOMAIN Default /\ Default["tenants"] \in Seq(TenantIDs)
BY DEF Default

\* Load keeps the fields of the defaults, and its tenants are a list of IDs.
LEMMA LoadType ==
    ASSUME NEW l \in Layers, ~ LoadFails(l.file, l.env)
    PROVE  /\ DOMAIN Load(l.file, l.env) = DOMAIN Default
           /\ Load(l.file, l.env).tenants \in Seq(TenantIDs)
<1> DEFINE base == IF l.file.path = "" THEN Default ELSE Over(l.file.layer, Default)
<1>1. "tenants" \in DOMAIN Default /\ Default["tenants"] \in Seq(TenantIDs)
  BY DefaultTenants
<1>2. DOMAIN base = DOMAIN Default /\ base["tenants"] \in Seq(TenantIDs)
  <2>1. CASE l.file.path = ""
    BY <1>1, <2>1
  <2>2. CASE l.file.path # ""
    <3>1. DOMAIN l.file.layer \subseteq DOMAIN Default
      BY <2>2 DEF LoadFails
    <3> QED
      BY <1>1, <2>2, <3>1, TenantsAssumption DEF Over
  <2> QED
    BY <2>1, <2>2
<1>3. DOMAIN l.env \subseteq DOMAIN Default
  BY DEF LoadFails
<1>4. Load(l.file, l.env) = Over(l.env, base)
  BY DEF Load
<1> HIDE DEF base
<1>5. /\ DOMAIN Over(l.env, base) = DOMAIN Default
      /\ Over(l.env, base)["tenants"] \in Seq(TenantIDs)
  BY <1>1, <1>2, <1>3, TenantsAssumption DEF Over
<1> QED
  BY <1>4, <1>5

\* The reserved tenant is a tenant ID.
LEMMA DiscoveryTenant == discoveryTenantID \in TenantIDs
<1>1. "_discovery" \in TenantNames
  BY NamesAssumption
<1>2. FALSE \in BOOLEAN
  BY Zenon
<1> QED
  BY <1>1, <1>2, Zenon DEF discoveryTenantID, TenantIDs

\* The emitter's tenants are tenant IDs.
LEMMA ScopeType ==
    ASSUME NEW ids \in Seq(TenantIDs)
    PROVE  SetTenants(ids) \subseteq TenantIDs
<1> SUFFICES ASSUME NEW i \in DOMAIN ids PROVE TrimSpace(ids[i]) \in TenantIDs
  BY DEF SetTenants, Elems
<1>1. ids[i] \in TenantIDs
  OBVIOUS
<1> QED
  BY <1>1 DEF TenantIDs, TrimSpace

\* Each step of startup preserves the invariant.
LEMMA StartupStepInv == RunInv /\ (StartupStep \/ StartupFails) => RunInv'
<1> SUFFICES ASSUME RunInv, StartupStep \/ StartupFails PROVE RunInv'
  OBVIOUS
<1> USE DEF RunInv, TypeOK, GoroutinesInv, ProvidersInv, ExitInv, RegistryInv,
            StartupSteps, ErrChCap, setup, passes, goroutines, process, ReturnOne, Proceed
<1>1. ASSUME NEW l \in Layers, LoadConfig(l) PROVE RunInv'
  <2>1. CASE LoadFails(l.file, l.env)
    BY <1>1, <2>1 DEF LoadConfig
  <2>2. CASE ~ LoadFails(l.file, l.env)
    BY <1>1, <2>2, LoadType DEF LoadConfig
  <2> QED
    BY <2>1, <2>2
<1>2. ASSUME CheckConfig PROVE RunInv'
  BY <1>2 DEF CheckConfig, Fatal
<1>3. ASSUME NewProviders PROVE RunInv'
  BY <1>3, ScopeType DEF NewProviders, Fatal
<1>4. ASSUME NEW started \in BOOLEAN, StartProfiler(started) PROVE RunInv'
  BY <1>4 DEF StartProfiler, Fatal
<1>5. ASSUME NEW found \in Discoveries, NEW some \in BOOLEAN, Discover(found, some)
      PROVE RunInv'
  <2>1. CASE ~ LensEnabled(cfg) /\ StaticFails(cfg)
    BY <1>5, <2>1 DEF Discover, Fatal
  <2>2. CASE LensEnabled(cfg) \/ ~ StaticFails(cfg)
    <3> DEFINE ids == IF ~ LensEnabled(cfg) THEN StaticTenants(cfg)
                      ELSE IF cfg.tenants = <<>> THEN found ELSE cfg.tenants
    <3>0. StaticTenants(cfg) \in Seq(TenantIDs)
      BY DiscoveryTenant DEF StaticTenants
    <3>1. ids \in Seq(TenantIDs) /\ TenantsKnown(ids)
      BY <1>5, <2>2, <3>0, TenantsAssumption DEF Discover
    <3> HIDE DEF ids
    <3>2. DOMAIN cfg' = DOMAIN Default /\ cfg'.tenants = ids /\ scope' \subseteq TenantIDs
      BY <3>1, ScopeType DEF TenantsKnown, Default
    <3>3. /\ main = "discover" /\ main' = "targets" /\ devices' = some
          /\ UNCHANGED <<exit, registry, profiler, providers, signalled, cancelled,
                         goroutines>>
      BY <1>5, <2>2 DEF Discover
    <3> QED
      BY <3>1, <3>2, <3>3
  <2> QED
    BY <2>1, <2>2
<1>6. ASSUME NEW phones \in BOOLEAN, ResolveTargets(phones) PROVE RunInv'
  BY <1>6 DEF ResolveTargets, Registers, Ids
<1>7. ASSUME StartGoroutines PROVE RunInv'
  BY <1>7 DEF StartGoroutines, Fatal
<1>8. ASSUME StartupFails PROVE RunInv'
  BY <1>8 DEF StartupFails, Fatal
<1> QED
  BY <1>1, <1>2, <1>3, <1>4, <1>5, <1>6, <1>7, <1>8 DEF StartupStep

\* So does each later step of main, of the scheduler, a collector and the stream.
LEMMA RunStep == RunInv /\ [Next]_vars => RunInv'
<1> SUFFICES ASSUME RunInv, [Next]_vars PROVE RunInv'
  OBVIOUS
<1> USE DEF RunInv, TypeOK, GoroutinesInv, ProvidersInv, ExitInv, RegistryInv,
            StartupSteps, ErrChCap, setup, passes, goroutines, process, Fatal
<1>1. ASSUME StartupStep \/ StartupFails PROVE RunInv'
  BY <1>1, StartupStepInv
<1>2. ASSUME Signal PROVE RunInv'
  BY <1>2 DEF Signal
<1>3. ASSUME StopOnSignal PROVE RunInv'
  BY <1>3 DEF StopOnSignal
<1>4. ASSUME StopOnError PROVE RunInv'
  <2>1. errCh' \in 0 .. ErrChCap
    BY <1>4 DEF StopOnError
  <2> QED
    BY <1>4, <2>1 DEF StopOnError
<1>5. ASSUME WaitGroup \/ Shutdown PROVE RunInv'
  BY <1>5 DEF WaitGroup, Shutdown
<1>6. ASSUME SchedulerStarts PROVE RunInv'
  BY <1>6 DEF SchedulerStarts
<1>7. ASSUME SchedulerEnds PROVE RunInv'
  BY <1>7 DEF SchedulerEnds
<1>8. ASSUME NEW c \in Collectors, TickFires(c) \/ NextPass(c) \/ LoopEnds(c)
      PROVE RunInv'
  BY <1>8 DEF TickFires, NextPass, LoopEnds
<1>9. ASSUME NEW c \in Collectors, NEW how \in Outcomes, PassEnds(c, how) PROVE RunInv'
  BY <1>9 DEF PassEnds
<1>10. ASSUME NEW c \in Collectors, NEW how \in Outcomes, NewTickerPanics(c, how)
       PROVE RunInv'
  BY <1>10 DEF NewTickerPanics
<1>11. ASSUME StreamEnds \/ StreamFails PROVE RunInv'
  BY <1>11 DEF StreamEnds, StreamFails
<1>12. ASSUME UNCHANGED vars PROVE RunInv'
  BY <1>12 DEF vars
<1> HIDE DEF RunInv
<1> QED
  BY <1>1, <1>2, <1>3, <1>4, <1>5, <1>6, <1>7, <1>8, <1>9, <1>10, <1>11, <1>12
     DEF Next, MainStep, CollectorStep

\* The process starts in the invariant and stays in it.
LEMMA RunInvariant == Spec => []RunInv
<1>1. Init => RunInv
  <2> SUFFICES ASSUME Init PROVE RunInv
    OBVIOUS
  <2>1. TypeOK
    <3>1. tick \in [Collectors -> BOOLEAN]
      BY Zenon DEF Init
    <3>2. coll \in [Collectors -> {"none", "first", "pass", "select", "done"}]
      BY DEF Init
    <3>3. avail \in [Collectors -> 0 .. 2]
      BY DEF Init
    <3>4. /\ signalled \in BOOLEAN /\ cancelled \in BOOLEAN
          /\ devices \in BOOLEAN /\ profiler \in BOOLEAN
      BY Zenon DEF Init
    <3>5. exit \in 0 .. 2 /\ errCh \in 0 .. ErrChCap
      BY DEF Init, ErrChCap
    <3>6. /\ main \in StartupSteps \cup {"running", "wait", "shutdown", "exited"}
          /\ providers \in {"none", "up", "down"}
          /\ sched \in {"none", "start", "running", "done"}
          /\ stream \in {"none", "running", "done", "failed"}
          /\ registry \in SUBSET Collectors
          /\ scope \subseteq TenantIDs
      BY Zenon DEF Init, StartupSteps
    <3>7. DOMAIN cfg = DOMAIN Default /\ cfg.tenants \in Seq(TenantIDs)
      BY DefaultTenants DEF Init
    <3> QED
      BY <3>1, <3>2, <3>3, <3>4, <3>5, <3>6, <3>7 DEF TypeOK
  <2>2. GoroutinesInv
    BY DEF Init, GoroutinesInv
  <2>3. ProvidersInv /\ ExitInv
    BY DEF Init, ProvidersInv, ExitInv
  <2>4. RegistryInv
    BY DEF Init, RegistryInv
  <2> QED
    BY <2>1, <2>2, <2>3, <2>4 DEF RunInv
<1> QED
  BY <1>1, RunStep, PTL DEF Spec

----------------------------------------------------------------------------
\* For any collectors and configuration every variable keeps its type, errCh its
\* capacity.
THEOREM TypeCorrect == Spec => []TypeOK
<1>1. RunInv => TypeOK
  BY DEF RunInv
<1> QED
  BY <1>1, RunInvariant, PTL

\* For any collectors: nothing emits into closed providers, and run never returns
\* with the providers unflushed or the profiler running.
THEOREM OutliveEmitters == Spec => []ProvidersOutliveEmitters
<1>1. RunInv => ProvidersOutliveEmitters
  BY DEF RunInv, TypeOK, GoroutinesInv, ProvidersInv, ProvidersOutliveEmitters,
         StartupSteps
<1> QED
  BY <1>1, RunInvariant, PTL

\* Of the collectors the program has, only one that takes its setting unchecked can
\* have an interval that is not positive.
LEMMA FatalUnchecked ==
    ASSUME NEW c, c[1] \in Ids, Fatal(c)
    PROVE  c[1] \in Unchecked /\ ~ (cfg[IntervalKey[c[1]]] > 0)
<1>1. c[1] \notin PhoneFixed
  BY DEF Fatal, Interval, PhoneFixed, Unchecked, LensPollers
<1>2. CASE c[1] \in Unchecked
  BY <1>1, <1>2 DEF Fatal, Interval
<1>3. CASE c[1] \notin Unchecked
  <2>1. c[1] \in PhoneTimed \cup {"selfobs.internal"}
    BY <1>1, <1>3 DEF Ids, Unchecked
  <2>2. Default[IntervalKey[c[1]]] > 0
    <3>1. IntervalKey[c[1]] \in {"phoneCallLogs", "phoneNetworkInfo", "selfObs"}
      BY <2>1 DEF PhoneTimed, LensPollers, IntervalKey
    <3>2. /\ Default["phoneCallLogs"] > 0 /\ Default["phoneNetworkInfo"] > 0
          /\ Default["selfObs"] > 0
      BY DEF Default
    <3> QED
      BY <3>1, <3>2
  <2>3. Interval(cfg, c) > 0
    BY <1>1, <1>3, <2>2 DEF Interval
  <2> QED
    BY <2>3 DEF Fatal
<1> QED
  BY <1>2, <1>3

\* For any collectors and configuration: exit code 0 means that a signal asked for
\* it, and 2 that a Lens collector's interval was not positive.
THEOREM ExitCode == Spec => []ExitCodeMeans
<1>1. RunInv => ExitCodeMeans
  BY FatalUnchecked DEF RunInv, ExitInv, RegistryInv, ExitCodeMeans
<1> QED
  BY <1>1, RunInvariant, PTL
=============================================================================
