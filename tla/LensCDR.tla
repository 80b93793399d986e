------------------------------ MODULE LensCDR ------------------------------
(***************************************************************************)
(* The Lens call-detail-record collector                                   *)
(* (internal/collectors/lenscdr/collector.go).                             *)
(*                                                                         *)
(* A pass (Collect) loads the tenant's watermark file, reads every page of *)
(* the two-day CDR window, logs the rows that isNew accepts and, only when *)
(* the last page has been handled, replaces the watermark file.  Any error *)
(* abandons the pass and saves nothing.  Register makes one collector per  *)
(* configured tenant entry; a tenant listed twice gets two collectors that *)
(* share one watermark file, hence the set Collectors.                     *)
(*                                                                         *)
(* A row stands for its deduplication key (deviceId + startTime); the      *)
(* parsed start time is a function of it.  Row contents, attributes and    *)
(* the source/emitted-point counters carry no decision and are left out.   *)
(***************************************************************************)
EXTENDS Naturals, FiniteSets

CONSTANTS
    Collectors,     \* the collectors that share this tenant's watermark file
    Rows,           \* every CDR the tenant will ever have, by dedupe key
    StartTime,      \* StartTime[r]: the row's parsed start instant
    Unparsable,     \* rows whose startTime or endTime does not parse
    LateArrivals,   \* may a row become queryable after a row that starts later?
    MaxFailures     \* bound on failed passes and crashes

ASSUME StartTimeAssumption == StartTime \in [Rows -> Nat \ {0}]
ASSUME UnparsableAssumption == Unparsable \subseteq Rows
ASSUME LateAssumption == LateArrivals \in BOOLEAN
ASSUME FailuresAssumption == MaxFailures \in Nat

VARIABLES
    arrived,        \* rows the Lens service has made queryable so far
    window,         \* those inside the queried two-day time range
    stored,         \* the watermark file's content
    pc,             \* pc[c]: where collector c stands in Collect
    checkpoint,     \* checkpoint[c]: the watermark the pass compares with
    wm,             \* wm[c]: the watermark the pass will save
    seen,           \* seen[c]: keys loaded or logged in this pass
    snapshot,       \* snapshot[c]: rows the pass's cursor ranges over
    served,         \* served[c]: rows already returned on some page
    page,           \* page[c]: rows of the current page not yet handled
    emitted,        \* emitted[r]: how often r was logged
    failures        \* failed passes and crashes so far

vars == <<arrived, window, stored, pc, checkpoint, wm, seen, snapshot,
          served, page, emitted, failures>>

source == <<arrived, window>>
pass == <<pc, checkpoint, wm, seen, snapshot, served, page>>

Watermark == [start : Nat, keys : SUBSET Rows]

\* An absent or empty file: watermark{} with StartTime == "".
NoWatermark == [start |-> 0, keys |-> {}]

PCs == {"idle", "loaded", "query", "rows", "save"}

----------------------------------------------------------------------------
(* The pure parts of the collector. *)

\* Both of the row's times parse; a row without them is never logged.
eventTimes(r) == r \notin Unparsable

\* A dedupe that forgets rows which share the checkpoint's instant.
isNew_strict(r, mark, keys) == r \notin keys /\ StartTime[r] > mark.start

\* Neither seen nor before the checkpoint; an empty checkpoint admits all.
isNew(r, mark, keys) ==
    /\ r \notin keys
    /\ mark.start = 0 \/ StartTime[r] >= mark.start

\* The watermark follows the last row handled instead of the latest one.
advanceWatermark_last(mark, r) == [start |-> StartTime[r], keys |-> {r}]

\* A later start replaces the watermark, an equal one adds its key.
advanceWatermark(mark, r) ==
    CASE mark.start = 0 \/ StartTime[r] > mark.start ->
            [start |-> StartTime[r], keys |-> {r}]
      [] mark.start # 0 /\ StartTime[r] = mark.start ->
            [mark EXCEPT !.keys = @ \cup {r}]
      [] OTHER -> mark

----------------------------------------------------------------------------
(* The Lens service: rows become queryable and age out of the window. *)

InOrder(r) == \A q \in arrived : StartTime[q] <= StartTime[r]

Arrive(r) ==
    /\ r \notin arrived
    /\ LateArrivals \/ InOrder(r)
    /\ arrived' = arrived \cup {r}
    /\ window' = window \cup {r}
    /\ UNCHANGED <<stored, pass, emitted, failures>>

\* timeRange is relative to now, so the oldest rows leave first.
Expire(r) ==
    /\ r \in window
    /\ \A q \in window : StartTime[r] <= StartTime[q]
    /\ window' = window \ {r}
    /\ UNCHANGED <<arrived, stored, pass, emitted, failures>>

----------------------------------------------------------------------------
(* One pass of a collector. *)

Init ==
    /\ arrived = {}
    /\ window = {}
    /\ stored = NoWatermark
    /\ pc = [c \in Collectors |-> "idle"]
    /\ checkpoint = [c \in Collectors |-> NoWatermark]
    /\ wm = [c \in Collectors |-> NoWatermark]
    /\ seen = [c \in Collectors |-> {}]
    /\ snapshot = [c \in Collectors |-> {}]
    /\ served = [c \in Collectors |-> {}]
    /\ page = [c \in Collectors |-> {}]
    /\ emitted = [r \in Rows |-> 0]
    /\ failures = 0

\* The scheduler starts a pass; loadWatermark reads the file.
LoadWatermark(c) ==
    /\ pc[c] = "idle"
    /\ pc' = [pc EXCEPT ![c] = "loaded"]
    /\ checkpoint' = [checkpoint EXCEPT ![c] = stored]
    /\ wm' = [wm EXCEPT ![c] = stored]
    /\ seen' = [seen EXCEPT ![c] = stored.keys]
    /\ UNCHANGED <<source, stored, snapshot, served, page, emitted, failures>>

\* A page holds some rows the cursor has not passed and may repeat others.
\* hasNextPage is false exactly when the page completes the snapshot.
ServePage(c, rows) ==
    /\ page' = [page EXCEPT ![c] = rows]
    /\ pc' = [pc EXCEPT ![c] = "rows"]
    /\ UNCHANGED <<source, stored, checkpoint, wm, seen, emitted, failures>>

\* The first Query fixes what the cursor ranges over: rows that become
\* queryable later sort before it (pages come newest first).
FirstPage(c) ==
    /\ pc[c] = "loaded"
    /\ snapshot' = [snapshot EXCEPT ![c] = window]
    /\ \E rows \in SUBSET window :
          /\ rows = {} => window = {}
          /\ served' = [served EXCEPT ![c] = rows]
          /\ ServePage(c, rows)

NextPage(c) ==
    /\ pc[c] = "query"
    /\ \E rows \in SUBSET snapshot[c] :
          /\ ~ (rows \subseteq served[c])
          /\ served' = [served EXCEPT ![c] = @ \cup rows]
          /\ ServePage(c, rows)
    /\ UNCHANGED snapshot

\* eventTimes fails or isNew declines: the row is passed over.
SkipRow(c, r) ==
    /\ pc[c] = "rows" /\ r \in page[c]
    /\ ~ eventTimes(r) \/ ~ isNew(r, checkpoint[c], seen[c])
    /\ page' = [page EXCEPT ![c] = @ \ {r}]
    /\ UNCHANGED <<source, stored, pc, checkpoint, wm, seen, snapshot, served,
                   emitted, failures>>

\* The row is logged, but its key is never added to seen.
EmitRow_forgetSeen(c, r) ==
    /\ pc[c] = "rows" /\ r \in page[c]
    /\ eventTimes(r) /\ isNew(r, checkpoint[c], seen[c])
    /\ page' = [page EXCEPT ![c] = @ \ {r}]
    /\ emitted' = [emitted EXCEPT ![r] = @ + 1]
    /\ wm' = [wm EXCEPT ![c] = advanceWatermark(@, r)]
    /\ UNCHANGED <<source, stored, pc, checkpoint, seen, snapshot, served, failures>>

\* A new row is logged, the watermark to save advances, its key is seen.
EmitRow(c, r) ==
    /\ pc[c] = "rows" /\ r \in page[c]
    /\ eventTimes(r) /\ isNew(r, checkpoint[c], seen[c])
    /\ page' = [page EXCEPT ![c] = @ \ {r}]
    /\ emitted' = [emitted EXCEPT ![r] = @ + 1]
    /\ wm' = [wm EXCEPT ![c] = advanceWatermark(@, r)]
    /\ seen' = [seen EXCEPT ![c] = @ \cup {r}]
    /\ UNCHANGED <<source, stored, pc, checkpoint, snapshot, served, failures>>

EndPage(c) ==
    /\ pc[c] = "rows" /\ page[c] = {}
    /\ pc' = [pc EXCEPT ![c] =
                 IF snapshot[c] \subseteq served[c] THEN "save" ELSE "query"]
    /\ UNCHANGED <<source, stored, checkpoint, wm, seen, snapshot, served, page,
                   emitted, failures>>

\* Collect returns: its locals are gone.
Return(c) ==
    /\ pc' = [pc EXCEPT ![c] = "idle"]
    /\ checkpoint' = [checkpoint EXCEPT ![c] = NoWatermark]
    /\ wm' = [wm EXCEPT ![c] = NoWatermark]
    /\ seen' = [seen EXCEPT ![c] = {}]
    /\ snapshot' = [snapshot EXCEPT ![c] = {}]
    /\ served' = [served EXCEPT ![c] = {}]
    /\ page' = [page EXCEPT ![c] = {}]

\* Written in place: a failure half way leaves a truncated file.
SaveWatermark_inPlace(c) ==
    /\ pc[c] = "save"
    /\ stored' \in {wm[c], [start |-> wm[c].start]}
    /\ Return(c)
    /\ UNCHANGED <<source, emitted, failures>>

\* saveWatermark: temporary file, then a rename that replaces the file whole.
SaveWatermark(c) ==
    /\ pc[c] = "save"
    /\ stored' = wm[c]
    /\ Return(c)
    /\ UNCHANGED <<source, emitted, failures>>

\* A deferred save: what the pass has so far is written on an error too.
PassFails_save(c) ==
    /\ pc[c] # "idle"
    /\ failures < MaxFailures
    /\ failures' = failures + 1
    /\ stored' = wm[c]
    /\ Return(c)
    /\ UNCHANGED <<source, emitted>>

\* Query, a missing endCursor, LogEvent or saveWatermark fails: the pass
\* returns the error with the file as it was.  (A pass whose loadWatermark
\* fails changes nothing at all and is a stuttering step.)
PassFails(c) ==
    /\ pc[c] # "idle"
    /\ failures < MaxFailures
    /\ failures' = failures + 1
    /\ Return(c)
    /\ UNCHANGED <<source, stored, emitted>>

\* The process dies and restarts: every collector's pass is gone, the file stays.
Crash ==
    /\ failures < MaxFailures
    /\ failures' = failures + 1
    /\ pc' = [c \in Collectors |-> "idle"]
    /\ checkpoint' = [c \in Collectors |-> NoWatermark]
    /\ wm' = [c \in Collectors |-> NoWatermark]
    /\ seen' = [c \in Collectors |-> {}]
    /\ snapshot' = [c \in Collectors |-> {}]
    /\ served' = [c \in Collectors |-> {}]
    /\ page' = [c \in Collectors |-> {}]
    /\ UNCHANGED <<source, stored, emitted>>

PassStep(c) ==
    \/ LoadWatermark(c)
    \/ FirstPage(c)
    \/ NextPage(c)
    \/ \E r \in Rows : SkipRow(c, r) \/ EmitRow(c, r)
    \/ EndPage(c)
    \/ SaveWatermark(c)

Next ==
    \/ \E r \in Rows : Arrive(r) \/ Expire(r)
    \/ \E c \in Collectors : PassStep(c) \/ PassFails(c)
    \/ Crash

Spec == Init /\ [][Next]_vars

\* scheduler.loop runs the collector again on every tick; failures are finitely
\* many (MaxFailures), arrivals and expiries are the environment's choice.
Fairness == \A c \in Collectors : WF_vars(PassStep(c))

FairSpec == Spec /\ Fairness

----------------------------------------------------------------------------
(* Properties. *)

\* Every variable has its type; in particular the watermark file always holds a
\* well-formed watermark, whatever step of Collect failed.
TypeOK ==
    /\ arrived \subseteq Rows
    /\ window \subseteq arrived
    /\ stored \in Watermark
    /\ pc \in [Collectors -> PCs]
    /\ checkpoint \in [Collectors -> Watermark]
    /\ wm \in [Collectors -> Watermark]
    /\ seen \in [Collectors -> SUBSET Rows]
    /\ snapshot \in [Collectors -> SUBSET Rows]
    /\ served \in [Collectors -> SUBSET Rows]
    /\ page \in [Collectors -> SUBSET Rows]
    /\ emitted \in [Rows -> Nat]
    /\ failures \in 0 .. MaxFailures

\* A pass that starts from watermark mark will never log row r.
Covered(r, mark) ==
    \/ r \in mark.keys
    \/ mark.start # 0 /\ StartTime[r] < mark.start

\* Collect never passes a row over: a row still in the window that the saved
\* watermark excludes from every later pass has been logged, whatever pages
\* failed, rows arrived mid-pass or restarts happened in between.
NoRowLost ==
    \A r \in window \ Unparsable : Covered(r, stored) => emitted[r] > 0

\* A restart or an abandoned pass is the only reason to log a row again: with
\* one collector per tenant no row is logged more often than one plus the
\* number of passes that did not reach saveWatermark.
ReplayOnlyAfterFailure ==
    \A r \in Rows : emitted[r] <= failures + 1

\* The refinement mapping: the file's watermark closes the parsable rows it
\* covers; rows that became queryable and left the window have expired.
Ledger == INSTANCE AtLeastOnce WITH
    Items <- Rows \ Unparsable,
    offered <- arrived \ Unparsable,
    expired <- (arrived \ window) \ Unparsable,
    logged <- [r \in Rows \ Unparsable |-> emitted[r]],
    closed <- {r \in arrived \ Unparsable : Covered(r, stored)}

\* With one collector per tenant and rows queryable in start order, Collect
\* implements the abstract shipper: a save closes only rows that were logged or
\* have aged out, reopens none, and a closed row is never logged again, whatever
\* pages failed, rows arrived mid-pass or restarts happened in between.
ImplementsAtLeastOnce == Ledger!Spec

\* A parsable row in the window is eventually logged unless it first ages out of
\* the two-day range.
EveryRowLogged ==
    \A r \in Rows \ Unparsable :
        (r \in window) ~> (emitted[r] > 0 \/ r \notin window)
=============================================================================
