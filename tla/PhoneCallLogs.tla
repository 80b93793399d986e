--------------------------- MODULE PhoneCallLogs ---------------------------
(***************************************************************************)
(* The phone call-log collector (internal/collectors/phone/calllogs.go).   *)
(*                                                                         *)
(* One pass visits the phones in order.  For each it probes the phone,     *)
(* reads its timezone and its watermark file, fetches the placed, received *)
(* and missed lists, logs the rows callLogIsNew accepts, adds the per-     *)
(* direction counters and replaces the watermark file.  A phone that is    *)
(* not OK is skipped; any later error ends the pass for all phones.        *)
(*                                                                         *)
(* Rows carry a local wall-clock time without an offset: it is a row's     *)
(* dedupe key on its phone, and becomes an instant in the phone's zone by  *)
(* that zone's rules, daylight saving included.  When the clocks go back   *)
(* an hour of wall-clock times comes twice, so rows may appear with times  *)
(* that are earlier than, or the same as, those of rows before them.       *)
(* The collector's state directory is not empty (main.ensureStateDir).     *)
(***************************************************************************)
EXTENDS Naturals, Sequences, FiniteSets, FiniteSetsExt

CONSTANTS
    NumTargets,     \* phones are 1 .. NumTargets, in target order
    Rows,           \* every call-log row the phones will ever show
    PhoneOf,        \* PhoneOf[r]: the phone that shows r
    DirectionOf,    \* DirectionOf[r]: the list r is in
    Wall,           \* Wall[r]: the row's local StartTime
    Unparsable,     \* rows whose JSON or StartTime does not parse
    Zones,          \* names of the zones a phone may be configured for
    Offset(_, _),   \* Offset(z, w): hours zone z is behind UTC at wall clock w
    LegacyLog,      \* LegacyLog[p]: rows an earlier release has dealt with
    MaxZoneChanges, \* bound on changes of a phone's timezone
    MaxFailures     \* bound on failed passes and crashes

Phones == 1 .. NumTargets
Directions == {"placed", "received", "missed"}

Walls == {Wall[r] : r \in Rows}
NoZone == "none"

\* A watermark: version 0 holds the wall clock read as UTC, version 1 an
\* instant.  keys are the wall-clock times logged at that start.
LegacyWatermark == [version : {0}, start : {0} \cup Walls, keys : SUBSET Nat]
Watermark == [version : {1}, start : Nat, keys : SUBSET Nat]
NoWatermark == [version |-> 1, start |-> 0, keys |-> {}]

ASSUME TargetsAssumption == NumTargets \in Nat \ {0}
ASSUME RowsAssumption ==
    /\ IsFiniteSet(Rows)
    /\ PhoneOf \in [Rows -> Phones]
    /\ DirectionOf \in [Rows -> Directions]
    /\ Wall \in [Rows -> Nat \ {0}]
    /\ Unparsable \subseteq Rows
\* A zone's rules never put a later wall clock at an earlier instant: of the two
\* instants of a repeated wall clock ParseInLocation takes the earlier one or the
\* later one throughout.  (Wall clocks a zone skips are on no phone's display.)
ASSUME ZonesAssumption ==
    /\ Zones # {} /\ NoZone \notin Zones
    /\ \A z \in Zones, w \in Walls : Offset(z, w) \in Nat
    /\ \A z \in Zones, v, w \in Walls : v < w => v + Offset(z, v) < w + Offset(z, w)
ASSUME LegacyAssumption ==
    /\ LegacyLog \in [Phones -> Seq(Rows)]
    /\ \A p \in Phones : \A i \in 1 .. Len(LegacyLog[p]) :
          /\ PhoneOf[LegacyLog[p][i]] = p
          /\ i = Len(LegacyLog[p]) => LegacyLog[p][i] \notin Unparsable
          /\ \A j \in 1 .. i : Wall[LegacyLog[p][j]] <= Wall[LegacyLog[p][i]]
ASSUME BoundsAssumption == MaxZoneChanges \in Nat /\ MaxFailures \in Nat

VARIABLES
    log,            \* log[p]: the rows phone p shows, oldest first
    up,             \* phones whose Probe would answer OK
    zone,           \* zone[p]: the timezone phone p is configured for
    stored,         \* stored[p]: the watermark file of phone p
    pc,             \* where the pass stands
    cur,            \* the phone it is at
    location,       \* the timezone it read from that phone
    checkpoint,     \* the watermark, advanced as rows are logged
    seen,           \* keys loaded or logged for this phone
    entries,        \* rows of this phone still to handle
    callsByDirection, \* rows logged for this phone, not yet counted
    emitted,        \* emitted[r]: how often r was logged
    calls,          \* calls[d]: the polyphone.calls counter
    failures,       \* failed passes and crashes so far
    zoneChanges     \* timezone changes so far

vars == <<log, up, zone, stored, pc, cur, location, checkpoint, seen, entries,
          callsByDirection, emitted, calls, failures, zoneChanges>>

phoneVars == <<log, up, zone, zoneChanges>>
passVars == <<location, checkpoint, seen, entries, callsByDirection>>

NoCalls == [d \in Directions |-> 0]

----------------------------------------------------------------------------
(* The pure parts of the collector. *)

\* The row's JSON and StartTime parse; other rows are passed over.
parseCallLog(r) == r \notin Unparsable

\* time.ParseInLocation: the wall clock in a zone as an instant.
Instant(r, z) == Wall[r] + Offset(z, Wall[r])

ElementsOf(s) == {s[i] : i \in 1 .. Len(s)}

\* The rows of s in the list for direction d, in the order of s.
OfDirection(s, d) ==
    LET list[i \in 0 .. Len(s)] ==
            IF i = 0 THEN <<>>
            ELSE IF DirectionOf[s[i]] = d THEN Append(list[i - 1], s[i])
            ELSE list[i - 1]
    IN  list[Len(s)]

\* The three lists in the order Collect goes through them.
callLogEntries(s) ==
    OfDirection(s, "placed") \o OfDirection(s, "received") \o OfDirection(s, "missed")

callLogIsNew(r, z, mark, keys) ==
    /\ Wall[r] \notin keys
    /\ mark.start = 0 \/ Instant(r, z) >= mark.start

callLogAdvance(mark, r, z) ==
    CASE mark.start = 0 \/ Instant(r, z) > mark.start ->
            [version |-> mark.version, start |-> Instant(r, z), keys |-> {Wall[r]}]
      [] mark.start # 0 /\ Instant(r, z) = mark.start ->
            [mark EXCEPT !.keys = @ \cup {Wall[r]}]
      [] OTHER -> mark

\* The legacy start is taken over as the instant it was never meant to be.
migrateLegacy_identity(mark, z) == [mark EXCEPT !.version = 1]

\* migrateLegacyCallLogWatermark: the wall clock, now in the phone's zone.
\* (An empty legacy start does not parse and stays empty.)
migrateLegacy(mark, z) ==
    [mark EXCEPT !.version = 1, !.start = IF @ = 0 THEN 0 ELSE @ + Offset(z, @)]

\* Every file is taken for a legacy one.
loadWatermark_always(mark, z) == migrateLegacy(mark, z)

loadWatermark(mark, z) ==
    IF mark.version = 0 THEN migrateLegacy(mark, z) ELSE mark

\* The file an earlier release left behind after logging the rows of s.
LegacyMark(s) ==
    IF s = <<>> THEN NoWatermark
    ELSE LET last == Wall[s[Len(s)]]
         IN  [version |-> 0, start |-> last, keys |-> {last}]

----------------------------------------------------------------------------
(* The phones. *)

\* A call ends and its row is appended, whatever the phone's clock then shows.
Arrive(r) ==
    /\ \A p \in Phones : r \notin ElementsOf(log[p])
    /\ log' = [log EXCEPT ![PhoneOf[r]] = Append(@, r)]
    /\ UNCHANGED <<up, zone, zoneChanges, stored, pc, cur, passVars, emitted, calls, failures>>

\* Probe starts or stops answering OK.
Toggle(p) ==
    /\ up' = IF p \in up THEN up \ {p} ELSE up \cup {p}
    /\ UNCHANGED <<log, zone, zoneChanges, stored, pc, cur, passVars, emitted, calls, failures>>

ChangeZone(p) ==
    /\ zoneChanges < MaxZoneChanges
    /\ zoneChanges' = zoneChanges + 1
    /\ \E z \in Zones \ {zone[p]} : zone' = [zone EXCEPT ![p] = z]
    /\ UNCHANGED <<log, up, stored, pc, cur, passVars, emitted, calls, failures>>

----------------------------------------------------------------------------
(* One pass. *)

AlreadyLogged(r) == r \in ElementsOf(LegacyLog[PhoneOf[r]]) \ Unparsable

Init ==
    /\ log = LegacyLog
    /\ up = Phones
    /\ zone \in [Phones -> Zones]
    /\ stored = [p \in Phones |-> LegacyMark(LegacyLog[p])]
    /\ pc = "idle"
    /\ cur = 1
    /\ location = NoZone
    /\ checkpoint = NoWatermark
    /\ seen = {}
    /\ entries = <<>>
    /\ callsByDirection = NoCalls
    /\ emitted = [r \in Rows |-> IF AlreadyLogged(r) THEN 1 ELSE 0]
    \* the counter as the backend adds it up over the process's restarts
    /\ calls = [d \in Directions |->
                   Cardinality({r \in Rows : DirectionOf[r] = d /\ AlreadyLogged(r)})]
    /\ failures = 0
    /\ zoneChanges = 0

\* The locals of one phone go out of scope.
DropLocals ==
    /\ location' = NoZone
    /\ checkpoint' = NoWatermark
    /\ seen' = {}
    /\ entries' = <<>>
    /\ callsByDirection' = NoCalls

\* Runs past the last phone.
NextTarget_overrun ==
    pc' = "probe" /\ cur' = cur + 1

\* On to the next phone, or the pass returns.
NextTarget ==
    IF cur < NumTargets
    THEN pc' = "probe" /\ cur' = cur + 1
    ELSE pc' = "idle" /\ cur' = 1

StartPass ==
    /\ pc = "idle"
    /\ pc' = "probe"
    /\ UNCHANGED <<phoneVars, stored, cur, passVars, emitted, calls, failures>>

\* A phone that is not OK ends the pass like the other errors do.
SkipTarget_return ==
    /\ pc = "probe" /\ cur \notin up
    /\ pc' = "idle" /\ cur' = 1
    /\ UNCHANGED <<phoneVars, stored, passVars, emitted, calls, failures>>

SkipTarget ==
    /\ pc = "probe" /\ cur \notin up
    /\ NextTarget
    /\ UNCHANGED <<phoneVars, stored, passVars, emitted, calls, failures>>

\* Probe is OK; phoneLocation and loadWatermark.
OpenTarget ==
    /\ pc = "probe" /\ cur \in up
    /\ pc' = "opened"
    /\ location' = zone[cur]
    /\ checkpoint' = loadWatermark(stored[cur], zone[cur])
    /\ seen' = loadWatermark(stored[cur], zone[cur]).keys
    /\ UNCHANGED <<phoneVars, stored, cur, entries, callsByDirection, emitted, calls, failures>>

FetchLogs ==
    /\ pc = "opened"
    /\ pc' = "rows"
    /\ entries' = callLogEntries(log[cur])
    /\ UNCHANGED <<phoneVars, stored, cur, location, checkpoint, seen, callsByDirection,
                   emitted, calls, failures>>

SkipRow ==
    /\ pc = "rows" /\ entries # <<>>
    /\ \/ ~ parseCallLog(Head(entries))
       \/ ~ callLogIsNew(Head(entries), location, checkpoint, seen)
    /\ entries' = Tail(entries)
    /\ UNCHANGED <<phoneVars, stored, pc, cur, location, checkpoint, seen,
                   callsByDirection, emitted, calls, failures>>

\* The row is compared with the watermark as advanced by the rows before it.
EmitRow ==
    /\ pc = "rows" /\ entries # <<>>
    /\ LET r == Head(entries) IN
          /\ parseCallLog(r)
          /\ callLogIsNew(r, location, checkpoint, seen)
          /\ emitted' = [emitted EXCEPT ![r] = @ + 1]
          /\ callsByDirection' = [callsByDirection EXCEPT ![DirectionOf[r]] = @ + 1]
          /\ checkpoint' = callLogAdvance(checkpoint, r, location)
          /\ seen' = seen \cup {Wall[r]}
    /\ entries' = Tail(entries)
    /\ UNCHANGED <<phoneVars, stored, pc, cur, location, calls, failures>>

EndRows ==
    /\ pc = "rows" /\ entries = <<>>
    /\ pc' = "count"
    /\ UNCHANGED <<phoneVars, stored, cur, passVars, emitted, calls, failures>>

Earlier(d) == CASE d = "placed" -> {}
                [] d = "received" -> {"placed"}
                [] d = "missed" -> {"placed", "received"}

\* The counter for one direction is added, but stays to be counted.
CountCalls_keep(d) ==
    /\ pc = "count" /\ callsByDirection[d] > 0
    /\ calls' = [calls EXCEPT ![d] = @ + callsByDirection[d]]
    /\ pc' = "save"
    /\ UNCHANGED <<phoneVars, stored, cur, passVars, emitted, failures>>

\* Counter is called once per direction that has calls, in the lists' order.
CountCalls(d) ==
    /\ pc = "count" /\ callsByDirection[d] > 0
    /\ \A e \in Earlier(d) : callsByDirection[e] = 0
    /\ calls' = [calls EXCEPT ![d] = @ + callsByDirection[d]]
    /\ callsByDirection' = [callsByDirection EXCEPT ![d] = 0]
    /\ UNCHANGED <<phoneVars, stored, pc, cur, location, checkpoint, seen, entries,
                   emitted, failures>>

EndCount ==
    /\ pc = "count" /\ callsByDirection = NoCalls
    /\ pc' = "save"
    /\ UNCHANGED <<phoneVars, stored, cur, passVars, emitted, calls, failures>>

SaveWatermark ==
    /\ pc = "save"
    /\ stored' = [stored EXCEPT ![cur] = [checkpoint EXCEPT !.version = 1]]
    /\ NextTarget
    /\ DropLocals
    /\ UNCHANGED <<phoneVars, emitted, calls, failures>>

\* The timezone or call-log request, LogEvent, Counter or saveWatermark fails,
\* or the process dies: the pass ends for this and every later phone.
PassFails ==
    /\ pc # "idle"
    /\ failures < MaxFailures
    /\ failures' = failures + 1
    /\ pc' = "idle" /\ cur' = 1
    /\ DropLocals
    /\ UNCHANGED <<phoneVars, stored, emitted, calls>>

PassStep ==
    \/ StartPass \/ SkipTarget \/ OpenTarget \/ FetchLogs
    \/ SkipRow \/ EmitRow \/ EndRows
    \/ (\E d \in Directions : CountCalls(d)) \/ EndCount
    \/ SaveWatermark

Next ==
    \/ \E r \in Rows : Arrive(r)
    \/ \E p \in Phones : Toggle(p) \/ ChangeZone(p)
    \/ PassStep
    \/ PassFails

Spec == Init /\ [][Next]_vars

\* scheduler.loop runs the collector on every tick; failures are finitely many.
FairSpec == Spec /\ WF_vars(PassStep)

----------------------------------------------------------------------------
(* Properties. *)

\* Every variable has its type; the files always hold a version-1 watermark once
\* this release has saved them.
TypeOK ==
    /\ log \in [Phones -> Seq(Rows)]
    /\ up \subseteq Phones
    /\ zone \in [Phones -> Zones]
    /\ stored \in [Phones -> LegacyWatermark \cup Watermark]
    /\ pc \in {"idle", "probe", "opened", "rows", "count", "save"}
    /\ cur \in Phones
    /\ location \in IF pc \in {"idle", "probe"} THEN {NoZone} ELSE Zones
    /\ checkpoint \in Watermark
    /\ seen \subseteq Nat
    /\ entries \in Seq(Rows)
    /\ callsByDirection \in [Directions -> Nat]
    /\ emitted \in [Rows -> Nat]
    /\ calls \in [Directions -> Nat]
    /\ failures \in 0 .. MaxFailures
    /\ zoneChanges \in 0 .. MaxZoneChanges

\* A pass that loads the file of r's phone will not log r.
Covered(r) ==
    LET p == PhoneOf[r]
        mark == loadWatermark(stored[p], zone[p])
    IN  ~ callLogIsNew(r, zone[p], mark, mark.keys)

\* s shows r, and r's wall clock is later than that of every parsable row before it.
\* So it is unless the clock was put back, as at the end of daylight saving, or the
\* call began in the same second as another.
InTurn(s, r) ==
    \E i \in 1 .. Len(s) :
        /\ s[i] = r
        /\ \A j \in 1 .. i - 1 : s[j] \notin Unparsable => Wall[s[j]] < Wall[r]

\* No call with a later wall clock than those before it is passed over, also when
\* other calls repeat an hour: while the timezone setting stays as it is, such a row
\* has been logged if the saved watermark excludes it.  Nothing is promised for a row
\* of the repeated hour itself: the watermark, or the key it shares with an earlier
\* row, excludes it and Collect never logs it.
NoCallLost ==
    zoneChanges = 0 =>
        \A r \in Rows \ Unparsable :
            InTurn(log[PhoneOf[r]], r) /\ Covered(r) => emitted[r] > 0

\* Only an abandoned pass or a timezone change makes Collect log a row again;
\* in particular the upgrade from a legacy watermark file does not.
ReplayOnlyAfterFailure ==
    \A r \in Rows : emitted[r] <= 1 + failures + zoneChanges

LoggedIn(d) ==
    MapThenSumSet(LAMBDA r : emitted[r], {r \in Rows : DirectionOf[r] = d})

\* polyphone.calls never counts a call that was not logged, and without failures
\* the rows logged but not yet counted are exactly those of the current phone.
CallsMatchLogs ==
    \A d \in Directions :
        /\ calls[d] + callsByDirection[d] <= LoggedIn(d)
        /\ failures = 0 => calls[d] + callsByDirection[d] = LoggedIn(d)

\* A phone that stays reachable comes to have every parsable row logged whose wall
\* clock is later than those before it, however often other phones fail their probe
\* and whatever repeated hour lies between.
EveryCallLogged ==
    \A p \in Phones :
        <>[](p \in up) =>
            <>[](zoneChanges = 0 =>
                    \A r \in Rows \ Unparsable : InTurn(log[p], r) => emitted[r] > 0)
=============================================================================
