---------------------------- MODULE CursorPulls ----------------------------
(***************************************************************************)
(* The vendor pulls that keep a cursor in pull_state and write aggregates  *)
(* into telemetry_records: Admin usage and its backfill, Claude Code       *)
(* analytics, OpenAI usage, costs and audit log, Vertex usage and costs.   *)
(* Streams have cursors of their own and do not interact, so a behaviour   *)
(* is about one of them, chosen in PullsInit.  Beat starts a pull every    *)
(* quarter of an hour, whether or not an earlier one still runs.           *)
(*                                                                         *)
(* A vendor row is <<day, key>>: a key stands for the dimensions a         *)
(* vendor groups by (model and workspace, project and line item, actor,    *)
(* SKU), and its amount for the tokens or the cost.  An audit event is     *)
(* <<position, key>>, its position being its place in the feed.            *)
(***************************************************************************)
EXTENDS Naturals, FiniteSets, FiniteSetsExt

CONSTANTS Streams,          \* a subset of AllStreams
          Pullers,
          Keys,
          OnEmbeddings,     \* the keys of OpenAI's second modality
          NoKey,            \* "-": the sentinel record of an empty bucket
          NoCursor,
          DayLength,        \* ticks of a day
          Lookback,         \* days a first pull looks back, by stream
          RestatementDays,  \* RESTATEMENT_WINDOW_DAYS
          FreshnessLag,     \* ticks that analytics reports a day after its end
          BackfillDays, ChunkDays,
          PageCap,          \* MAX_PAGES_PER_INVOCATION, of one record each
          StartTime,        \* when the tenant is onboarded
          MaxTime,          \* bound: the clock, by stream
          MaxReports,       \* bound: vendor reports, in all
          MaxPullFailures   \* bound: exceptions and deaths of pulls, in all

AllStreams == {"admin", "code_analytics", "openai_usage", "openai_costs",
               "openai_audit", "vertex_usage", "vertex_costs"}

ASSUME PullsAssumption ==
    /\ Streams \subseteq AllStreams
    /\ OnEmbeddings \subseteq Keys /\ NoKey \notin Keys /\ IsFiniteSet(Keys)
    /\ {DayLength, BackfillDays, ChunkDays, PageCap} \subseteq Nat \ {0}
    /\ {RestatementDays, FreshnessLag, StartTime, MaxReports, MaxPullFailures} \subseteq Nat
    /\ NoCursor \notin Nat
    /\ Lookback \in [AllStreams -> Nat]
    /\ MaxTime \in [AllStreams -> Nat] /\ \A s \in AllStreams : StartTime <= MaxTime[s]

VARIABLES stream,
          now,
          vendor,     \* the amount of each row; 0: no such row
          access,     \* what the sealed key may read: "denied" or "granted"
          cursor,     \* pull_state.cursor, a tick or an audit position
          records,    \* the amount recorded under each external_id; 0: none
          metered,    \* increment()s so far
          task,       \* what each worker runs
          pullFailures,  \* history: failures so far
          horizon,    \* history: where the pulls that left a gap below them began
          skipped,    \* history: records taken for duplicates, or cut by the cap
          asked,      \* history: days that analytics has listed
          superseded  \* history: amounts replaced when their day was over and asked for

outside == <<stream, now, vendor, access>>
history == <<pullFailures, horizon, skipped, asked, superseded>>
pullVars == <<outside, cursor, records, metered, task, history>>

DayOf(t)    == t \div DayLength
DayStart(d) == d * DayLength
Days        == 0..DayOf(Max({MaxTime[s] : s \in Streams}))
VendorRows  == Days \X Keys
Ids         == Days \X (Keys \union {NoKey})

\* t - timedelta(days=n), and day - timedelta(days=n).
Back(t, n)    == IF t > DayStart(n) THEN t - DayStart(n) ELSE 0
DayBack(d, n) == IF d > n THEN d - n ELSE 0

Idle == [stage |-> "idle", kind |-> "pull", from |-> 0, to |-> 0, goal |-> 0,
         save |-> 0, first |-> 0, todo |-> {}, pages |-> 0]

PullsInit == /\ stream \in Streams
             /\ now = StartTime
             /\ vendor \in {v \in [VendorRows -> 0..1] :
                              \A r \in VendorRows :
                                 (stream = "openai_audit" \/ r[1] >= DayOf(StartTime)) => v[r] = 0}
             /\ access \in {"denied", "granted"}
             /\ cursor = NoCursor
             /\ records = [i \in Ids |-> 0]
             /\ metered = 0
             /\ task = [w \in Pullers |-> Idle]
             /\ pullFailures = 0 /\ horizon = 0 /\ skipped = {}
             /\ asked = {} /\ superseded = {}

-----------------------------------------------------------------------------
(* The tenant and the vendor. *)

Tick == /\ now < MaxTime[stream]
        /\ now' = now + 1
        /\ UNCHANGED <<stream, vendor, access, cursor, records, metered, task, history>>

\* Usage is reported in its own day; of analytics a day is whole FreshnessLag
\* after its end, and the billing export settles one for RESTATEMENT_WINDOW_DAYS
\* more.  An audit event is written once, at the end.
Reportable(r) ==
    CASE stream = "openai_audit" -> /\ \A s \in VendorRows : vendor[s] > 0 => s[1] < r[1]
                                    /\ \A d \in 0..(r[1] - 1) : \E k \in Keys : vendor[<<d, k>>] > 0
      [] stream = "vertex_costs" -> /\ r[1] <= DayOf(now)
                                    /\ now < DayStart(r[1] + 1 + RestatementDays)
      [] stream = "code_analytics" -> /\ r[1] <= DayOf(now)
                                      /\ now < DayStart(r[1] + 1) + FreshnessLag
      [] OTHER -> r[1] = DayOf(now)

\* A day that is over, and that analytics has asked for, changes once more.
TooLate(r) == stream = "code_analytics" /\ r[1] < DayOf(now) /\ r[1] \in asked

VendorReport(r) ==
    /\ Reportable(r)
    /\ MapThenSumSet(LAMBDA s : vendor[s], VendorRows) < MaxReports
    /\ vendor' = [vendor EXCEPT ![r] = @ + 1]
    /\ superseded' = IF TooLate(r) THEN superseded \union {<<r, vendor[r]>>} ELSE superseded
    /\ UNCHANGED <<stream, now, access, cursor, records, metered, task,
                   pullFailures, horizon, skipped, asked>>

\* An owner of the organisation grants the key its scope.
Grant == /\ access = "denied"
         /\ access' = "granted"
         /\ UNCHANGED <<stream, now, vendor, cursor, records, metered, task, history>>

-----------------------------------------------------------------------------
(* What a pull that starts at time t with cursor c covers, [from, goal),   *)
(* and the cursor that it saves when it comes to its end.                  *)

AdminPlan(c, t) ==
    [from |-> IF c = NoCursor THEN Back(t, Lookback["admin"]) ELSE c, goal |-> t, save |-> t]

\* The backfill resumes from a cursor that is later than its start; each
\* chunk saves its end.
BackfillPlan(c, t) ==
    [from |-> IF c = NoCursor THEN Back(t, BackfillDays) ELSE Max({c, Back(t, BackfillDays)}),
     goal |-> t, save |-> t]

FirstAnalyticsDay(c, t) == IF c = NoCursor THEN DayBack(DayOf(t), Lookback["code_analytics"])
                                           ELSE DayOf(c) + 1

\* Mutant: today too.
AnalyticsPlanNoLag(c, t) ==
    [from |-> DayStart(FirstAnalyticsDay(c, t)), goal |-> DayStart(DayOf(t) + 1), save |-> t]

\* Day by day, and only days that are over: today - INGEST_LAG_DAYS is the
\* last.  Each day saves its midnight.
AnalyticsPlan(c, t) ==
    [from |-> DayStart(FirstAnalyticsDay(c, t)), goal |-> DayStart(DayOf(t)), save |-> t]

UsagePlan(c, t) ==
    [from |-> IF c = NoCursor THEN Back(t, Lookback["openai_usage"]) ELSE c,
     goal |-> t, save |-> t]

CostsPlan(c, t) ==
    [from |-> IF c = NoCursor THEN Back(t, Lookback["openai_costs"]) ELSE c,
     goal |-> t, save |-> t]

\* The whole feed after the cursor; the last id that is seen is saved.
AuditPlan(c) ==
    [from |-> IF c = NoCursor THEN 0 ELSE c + 1, goal |-> Max(Days) + 1, save |-> 0]

\* From the midnight of the watermark; the new one is today's midnight.
VertexUsagePlan(c, t) ==
    [from |-> DayStart(IF c = NoCursor THEN DayBack(DayOf(t), Lookback["vertex_usage"])
                                       ELSE DayOf(c)),
     goal |-> t, save |-> DayStart(DayOf(t))]

\* A trailing window below the watermark, for what is restated.
VertexCostsPlan(c, t) ==
    [from |-> Back(IF c = NoCursor THEN Back(t, Lookback["vertex_costs"]) ELSE c,
                   RestatementDays),
     goal |-> t, save |-> t]

Plan(c, t) == CASE stream = "admin"          -> AdminPlan(c, t)
                [] stream = "code_analytics" -> AnalyticsPlan(c, t)
                [] stream = "openai_usage"   -> UsagePlan(c, t)
                [] stream = "openai_costs"   -> CostsPlan(c, t)
                [] stream = "openai_audit"   -> AuditPlan(c)
                [] stream = "vertex_usage"   -> VertexUsagePlan(c, t)
                [] stream = "vertex_costs"   -> VertexCostsPlan(c, t)

\* Analytics goes day by day, the backfill chunk by chunk.
SegmentEnd(t) == CASE t.kind = "backfill"         -> Min({t.from + DayStart(ChunkDays), t.goal})
                   [] stream = "code_analytics"   -> t.from + DayLength
                   [] OTHER                       -> t.goal

Saved(t) == CASE t.kind = "backfill"       -> t.to
              [] stream = "code_analytics" -> t.from
              [] stream = "openai_audit"   -> t.to - 1
              [] OTHER                     -> t.save

-----------------------------------------------------------------------------
(* The records that a day's bucket is normalized to. *)

Reported(d) == {k \in Keys : vendor[<<d, k>>] > 0}

Row(d, k)   == [id |-> <<d, k>>, amount |-> vendor[<<d, k>>]]
Sentinel(d) == [id |-> <<d, NoKey>>, amount |-> 1]

\* One record for each breakdown, or a sentinel for an empty bucket.
AdminRecords(d) == IF Reported(d) = {} THEN {Sentinel(d)} ELSE {Row(d, k) : k \in Reported(d)}

\* One record for each actor.
AnalyticsRecords(d) == {Row(d, k) : k \in Reported(d)}

\* Each modality has buckets of its own, whose sentinels share an external_id.
UsageRecords(d) ==
    {Row(d, k) : k \in Reported(d)} \union
    {Sentinel(d) : m \in {n \in {OnEmbeddings, Keys \ OnEmbeddings} : n \intersect Reported(d) = {}}}

CostRecords(d) == IF Reported(d) = {} THEN {Sentinel(d)} ELSE {Row(d, k) : k \in Reported(d)}

AuditRecords(p) == {Row(p, k) : k \in Reported(p)}

VertexUsageRecords(d) == {Row(d, k) : k \in Reported(d)}

\* Net of credits; the labels' hash is part of the key.
VertexCostRecords(d) == {Row(d, k) : k \in Reported(d)}

Normalize(d) == CASE stream = "admin"          -> AdminRecords(d)
                  [] stream = "code_analytics" -> AnalyticsRecords(d)
                  [] stream = "openai_usage"   -> UsageRecords(d)
                  [] stream = "openai_costs"   -> CostRecords(d)
                  [] stream = "openai_audit"   -> AuditRecords(d)
                  [] stream = "vertex_usage"   -> VertexUsageRecords(d)
                  [] stream = "vertex_costs"   -> VertexCostRecords(d)

\* usage_report/messages and usage_report/claude_code, /usage and /costs, the
\* monitoring series and the billing export: the days that [from, to)
\* touches, each whole; of the billing export its last part of a first day.
Buckets(from, to) == {d \in Days : DayStart(d) < to /\ DayStart(d + 1) > from}

\* /audit_logs after an id.
Feed(from) == {p \in Days : p >= from}

Listing(from, to) ==
    UNION {Normalize(d) : d \in IF stream = "openai_audit" THEN Feed(from) ELSE Buckets(from, to)}

-----------------------------------------------------------------------------
(* A pull, in worker w. *)

\* What lies below a first pull's window is never asked for; nor is what lies
\* between a cursor older than BackfillDays and the backfill that jumps ahead.
LeavesGap(kind, plan) == \/ cursor = NoCursor
                         \/ kind = "backfill" /\ plan.from > cursor

Start(w, kind, plan) ==
    /\ task[w].stage = "idle"
    /\ task' = [task EXCEPT ![w] =
          [Idle EXCEPT !.stage = "list", !.kind = kind,
                       !.from = plan.from, !.goal = plan.goal, !.save = plan.save,
                       !.first = IF LeavesGap(kind, plan) THEN plan.from ELSE 0]]
    /\ UNCHANGED <<outside, cursor, records, metered, history>>

\* Beat's dispatch reaches the tenant and a worker loads the cursor.  A
\* tenant with no key sealed is skipped, and the cursor untouched.
StartPull(w) == Start(w, "pull", Plan(cursor, now))

StartBackfill(w) == stream = "admin" /\ Start(w, "backfill", BackfillPlan(cursor, now))

\* Loops by day or by chunk end before they list when nothing is left.
Loops(t) == t.kind = "backfill" \/ stream = "code_analytics"

Exhausted(t) == \/ Loops(t) /\ t.from >= t.goal
                \/ stream = "code_analytics" /\ t.pages >= PageCap

EndLoop(w) ==
    /\ task[w].stage = "list" /\ Exhausted(task[w])
    /\ task' = [task EXCEPT ![w] = Idle]
    /\ UNCHANGED <<outside, cursor, records, metered, history>>

\* Mutant: the 403 breaks the loop, and the cursor is saved as on success.
RefusedSaving(w) ==
    /\ task[w].stage = "list" /\ ~Exhausted(task[w])
    /\ access = "denied"
    /\ task' = [task EXCEPT ![w].stage = "append",
                            ![w].to = SegmentEnd(task[w])]
    /\ UNCHANGED <<outside, cursor, records, metered, history>>

\* A 403 ends the pull, the cursor untouched: skipped, or retried by Admin.
Refused(w) ==
    /\ task[w].stage = "list" /\ ~Exhausted(task[w])
    /\ access = "denied"
    /\ task' = [task EXCEPT ![w] = Idle]
    /\ UNCHANGED <<outside, cursor, records, metered, history>>

\* The vendor's answer for a segment.  An audit pull goes as far as the feed.
List(w) ==
    /\ task[w].stage = "list" /\ ~Exhausted(task[w])
    /\ access = "granted"
    /\ LET t    == task[w]
           end  == SegmentEnd(t)
           rows == Listing(t.from, end)
           last == Max({t.from} \union {r.id[1] + 1 : r \in rows})
       IN task' = [task EXCEPT ![w].stage = "append", ![w].todo = rows,
                               ![w].to = IF stream = "openai_audit" THEN last ELSE end]
    /\ asked' = IF stream = "code_analytics" THEN asked \union {DayOf(task[w].from)} ELSE asked
    /\ UNCHANGED <<outside, cursor, records, metered,
                   pullFailures, horizon, skipped, superseded>>

\* Buckets come in the order of time, the rows of one in any order.
Nearest(todo) == {r \in todo : \A s \in todo : r.id[1] <= s.id[1]}

Fails == pullFailures < MaxPullFailures /\ pullFailures' = pullFailures + 1

\* increment() follows an append that raised nothing; mutant: any append.
CountAll(new) == metered + 1
Count(new)    == IF new THEN metered + 1 ELSE metered

\* append_telemetry_record() and increment(), or a duplicate.  The analytics
\* pull stops listing the day's records at the page cap.
AppendRow(w) ==
    /\ task[w].stage = "append"
    /\ \E r \in Nearest(task[w].todo) :
         LET t     == task[w]
             pages == IF stream = "code_analytics" THEN t.pages + 1 ELSE 0
             rest  == t.todo \ {r}
             new   == records[r.id] = 0
         IN /\ records' = [records EXCEPT ![r.id] = IF new THEN r.amount ELSE @]
            /\ metered' = Count(new)
            /\ task' = [task EXCEPT ![w].pages = pages,
                                    ![w].todo = IF pages >= PageCap THEN {} ELSE rest]
            /\ skipped' = IF pages >= PageCap THEN skipped \union {q.id : q \in rest}
                                              ELSE skipped
    /\ UNCHANGED <<outside, cursor, pullFailures, horizon, asked, superseded>>

\* Death between the two.
AppendUnmetered(w) ==
    /\ task[w].stage = "append"
    /\ \E r \in Nearest(task[w].todo) :
         /\ records[r.id] = 0
         /\ records' = [records EXCEPT ![r.id] = r.amount]
    /\ Fails
    /\ task' = [task EXCEPT ![w] = Idle]
    /\ UNCHANGED <<outside, cursor, metered, horizon, skipped, asked, superseded>>

\* An IntegrityError that is a lost race for chain_seq is handled alike.
AppendRefused(w) ==
    /\ task[w].stage = "append"
    /\ \E r \in Nearest(task[w].todo) :
         /\ records[r.id] = 0
         /\ skipped' = skipped \union {r.id}
         /\ task' = [task EXCEPT ![w].todo = @ \ {r}]
    /\ Fails
    /\ UNCHANGED <<outside, cursor, records, metered, horizon, asked, superseded>>

\* _save_cursor(): the last writer wins.  An empty audit pull saves nothing.
SaveCursor(w) ==
    /\ task[w].stage = "append" /\ task[w].todo = {}
    /\ LET t == task[w]
           nothing == stream = "openai_audit" /\ t.to = t.from
       IN /\ cursor'  = IF nothing THEN cursor ELSE Saved(t)
          /\ horizon' = IF nothing THEN horizon ELSE Max({horizon, t.first})
          /\ task' = [task EXCEPT ![w] =
                IF Loops(t) THEN [t EXCEPT !.stage = "list", !.from = t.to] ELSE Idle]
    /\ UNCHANGED <<outside, records, metered, pullFailures, skipped, asked, superseded>>

\* An exception or a death; a retry is another StartPull or StartBackfill.
FailPull(w) == /\ task[w].stage # "idle"
               /\ Fails
               /\ task' = [task EXCEPT ![w] = Idle]
               /\ UNCHANGED <<outside, cursor, records, metered, horizon, skipped,
                              asked, superseded>>

PullStep(w) == EndLoop(w) \/ Refused(w) \/ List(w) \/ AppendRow(w) \/ SaveCursor(w)

PullsNext == \/ Tick \/ Grant
             \/ \E r \in VendorRows : VendorReport(r)
             \/ \E w \in Pullers : \/ StartPull(w) \/ StartBackfill(w) \/ PullStep(w)
                                   \/ AppendUnmetered(w) \/ AppendRefused(w)
                                   \/ FailPull(w)

PullsSpec == PullsInit /\ [][PullsNext]_pullVars
-----------------------------------------------------------------------------
Amounts == 0..(MaxReports + 1)

Task == [stage : {"idle", "list", "append"}, kind : {"pull", "backfill"},
         from : Nat, to : Nat, goal : Nat, save : Nat, first : Nat,
         todo : SUBSET [id : Ids, amount : Amounts], pages : Nat]

\* Type invariant; a meter never counts a record twice, and a record that is
\* not counted is one after which a worker died.
PullsTypeOK ==
    /\ stream \in Streams /\ now \in StartTime..MaxTime[stream]
    /\ vendor \in [VendorRows -> Amounts]
    /\ access \in {"denied", "granted"}
    /\ cursor \in Nat \union {NoCursor}
    /\ records \in [Ids -> Amounts]
    /\ task \in [Pullers -> Task]
    /\ LET recorded == Cardinality({i \in Ids : records[i] > 0})
       IN metered <= recorded /\ recorded <= metered + pullFailures
    /\ pullFailures \in 0..MaxPullFailures /\ horizon \in Nat /\ skipped \subseteq Ids
    /\ asked \subseteq Nat /\ superseded \subseteq VendorRows \X Amounts

\* The bucket is behind the cursor for good: no later pull asks for it.
Behind(d) == CASE stream = "openai_audit"   -> d <= cursor
               [] stream = "code_analytics" -> DayStart(d) <= cursor
               [] stream = "vertex_costs"   -> DayStart(d + 1 + RestatementDays) <= cursor
               [] OTHER                     -> DayStart(d + 1) <= cursor

(***************************************************************************)
(* The cursor never passes a row that the vendor reported and nobody       *)
(* recorded: whatever pulls overlap, fail, are refused or move the cursor  *)
(* back, a row the first pulls could see is recorded when its bucket is    *)
(* behind the cursor.  Four exceptions: what an IntegrityError of the      *)
(* chain took for a duplicate, what the page cap of analytics cut off,     *)
(* what a backfill jumps over whose cursor is older than its window, and   *)
(* a row that analytics reports only after its day was asked for, in the   *)
(* freshness lag that follows the day's midnight.                          *)
(***************************************************************************)
BehindCursor ==
    cursor # NoCursor =>
        \A r \in VendorRows :
            (vendor[r] > 0 /\ Behind(r[1]) /\ r \notin skipped /\ <<r, 0>> \notin superseded
                /\ (stream = "openai_audit" \/ DayStart(r[1]) >= horizon))
            => records[r] > 0

\* The lag of a day keeps partial days out (last_complete_day): what analytics
\* has recorded is what the vendor last reported, whichever of several pulls
\* listed it, unless the vendor replaced that very amount when the day was over
\* and had been asked for, within the freshness lag.
SettledAmounts ==
    stream = "code_analytics" =>
        \A r \in VendorRows :
            records[r] > 0 => records[r] = vendor[r] \/ <<r, records[r]>> \in superseded

\* The claim of pull_code_analytics.py:102-104 that "the day's data is settled
\* before we ask for it".
SettledWhenAsked ==
    stream = "code_analytics" =>
        \A r \in VendorRows : records[r] > 0 => records[r] = vendor[r]
=============================================================================
