---------------------------- MODULE BudgetAlerts ----------------------------
(***************************************************************************)
(* Spend budgets and their alerts.  Beat starts an evaluation of a         *)
(* tenant's budgets every quarter of an hour and a forecast every hour;    *)
(* evaluations of one kind may overlap.  One evaluation is one database    *)
(* transaction over all the budgets: for every threshold that is crossed   *)
(* it inserts a row into budget_alert_events, whose unique key keeps a     *)
(* crossing from firing twice in a period, and sends the alert before the  *)
(* transaction commits.                                                    *)
(*                                                                         *)
(* Time is the UTC day, money whole units.  What a record is worth, and    *)
(* how it gets into the table, belong to SpendViews and CursorPulls: here  *)
(* the priced spend of a day and scope value only grows, as records are    *)
(* appended and never changed.                                             *)
(***************************************************************************)
EXTENDS Integers, FiniteSets, FiniteSetsExt

CONSTANTS Budgets,
          ScopeValues,      \* the workspaces, API keys and models of a tenant
          TenantScope,      \* scope_kind = 'tenant'
          Scope,            \* the scope value of each budget
          PeriodLength,     \* of each budget, in days
          Routed,           \* the budgets whose alert_recipients have a pagerduty_key
          MonthLength,
          Names, Caps,      \* what an admin may set
          Levels,           \* ALERT_THRESHOLDS, in percent
          TrailingDays,     \* of a forecast
          MinDays,          \* of data, for a forecast
          Workers,
          MaxDay,           \* bound: the calendar
          MaxUsage,         \* bound: units of spend, in all
          MaxFaults         \* bound: edits, exceptions and deaths, in all

ASSUME BudgetsAssumption ==
    /\ TenantScope \notin ScopeValues /\ IsFiniteSet(ScopeValues)
    /\ Scope \in [Budgets -> ScopeValues \union {TenantScope}]
    /\ PeriodLength \in [Budgets -> Nat \ {0}] /\ Routed \subseteq Budgets
    /\ {MonthLength, TrailingDays, MinDays} \subseteq Nat \ {0}
    /\ Names # {} /\ Caps # {} /\ Caps \subseteq Nat \ {0}
    /\ Levels \subseteq 1..100 /\ IsFiniteSet(Levels)
    /\ {MaxDay, MaxUsage, MaxFaults} \subseteq Nat

VARIABLES today,
          spend,        \* priced usage of each day and scope value
          budgets,      \* the rows of budgets
          events,       \* the committed rows of budget_alert_events
          acknowledged, \* those with acknowledged_at
          pending,      \* the uncommitted rows of each evaluation
          incidents,    \* the dedup keys PagerDuty has accepted
          task,         \* what each worker evaluates
          alerted,      \* history: the alerts that were sent,
          again,        \* those that were sent more than once,
          lost,         \* those whose row was rolled back
          edits, failures

tables  == <<budgets, events, acknowledged, pending>>
history == <<alerted, again, lost, edits, failures>>
vars    == <<today, spend, tables, incidents, task, history>>

Days  == 0..MaxDay
Kinds == {"current_threshold", "forecast_threshold"}

\* uq_budget_alert_events_dedup.
EventKeys == [budget : Budgets, start : Days, level : Levels, kind : Kinds]

NoBudget == [status |-> "none", name |-> CHOOSE n \in Names : TRUE, cap |-> 0]
Idle     == [stage |-> "idle", kind |-> "current_threshold", todo |-> {}, levels |-> {},
             row |-> NoBudget, budget |-> CHOOSE b \in Budgets : TRUE,
             start |-> 0, month |-> [start |-> 0, spend |-> 0, rise |-> 0, run |-> 1]]

Init == /\ today = 0
        /\ spend = [d \in Days |-> [v \in ScopeValues |-> 0]]
        /\ \E old \in SUBSET Budgets :
              budgets = [b \in Budgets |-> IF b \in old
                            THEN [NoBudget EXCEPT !.status = "live", !.cap = Min(Caps)]
                            ELSE NoBudget]
        /\ events = {} /\ acknowledged = {}
        /\ pending = [w \in Workers |-> {}]
        /\ incidents = {}
        /\ task = [w \in Workers |-> Idle]
        /\ alerted = {} /\ again = {} /\ lost = {}
        /\ edits = 0 /\ failures = 0

Live(b) == budgets[b].status = "live"

-----------------------------------------------------------------------------
(* The arithmetic. *)

\* current_period_window(): the first day of the period that day d is in.
PeriodStart(length, d) == d - (d % length)
Window(b, d) == LET start == PeriodStart(PeriodLength[b], d)
                IN start..(start + PeriodLength[b] - 1)

SpendOn(d, values) == MapThenSumSet(LAMBDA v : spend[d][v], values)

\* compute_spend_in_window(): the scope picks a slice, the tenant's is all.
ComputeSpend(scope, window) ==
    LET values == IF scope = TenantScope THEN ScopeValues ELSE {scope}
    IN MapThenSumSet(LAMBDA d : SpendOn(d, values), window \intersect Days)

\* ratio >= threshold, in integers.
Reaches(amount, cap, level) == amount * 100 >= level * cap

\* daily_spend(): the days that have any, over the trailing window.
DailySpend(d) == {x \in Days : /\ x > d - TrailingDays /\ x <= d
                               /\ SpendOn(x, ScopeValues) > 0}

\* linear_fit() over the index in that sparse series: slope = rise / run.
Index(days, d) == Cardinality({x \in days : x < d})
Rise(days) ==
    LET n == Cardinality(days)
        y(d) == SpendOn(d, ScopeValues)
    IN n * MapThenSumSet(LAMBDA d : Index(days, d) * y(d), days)
         - MapThenSumSet(LAMBDA d : Index(days, d), days) * MapThenSumSet(y, days)
Run(days) ==
    LET n == Cardinality(days)
        x(d) == Index(days, d)
    IN n * MapThenSumSet(LAMBDA d : x(d) * x(d), days)
         - MapThenSumSet(x, days) * MapThenSumSet(x, days)

\* project_period_end(): month to date, plus the slope over the days left.
Project(d) ==
    LET start == PeriodStart(MonthLength, d)
    IN [start |-> start, spend |-> ComputeSpend(TenantScope, start..d),
        rise |-> Rise(DailySpend(d)) * (start + MonthLength - 1 - d), run |-> Run(DailySpend(d))]

\* The guardrails.
Forecastable(d) == /\ Cardinality(DailySpend(d)) >= MinDays
                   /\ Cardinality(DailySpend(d)) >= 2
                   /\ Rise(DailySpend(d)) > 0

\* projected_end >= threshold * threshold_usd.
Projects(m, cap, level) == (m.spend * m.run + m.rise) * 100 >= level * cap * m.run

-----------------------------------------------------------------------------
(* The calendar and the ingest. *)

NextDay == /\ today < MaxDay
           /\ today' = today + 1
           /\ UNCHANGED <<spend, tables, incidents, task, history>>

Spent == MapThenSumSet(LAMBDA d : SpendOn(d, ScopeValues), Days)

\* A pull records usage of today, or of yesterday after midnight.
RecordUsage(d, v) ==
    /\ Spent < MaxUsage
    /\ d \in {today, today - 1} \intersect Days
    /\ spend' = [spend EXCEPT ![d][v] = @ + 1]
    /\ UNCHANGED <<today, tables, incidents, task, history>>

-----------------------------------------------------------------------------
(* The API, for an admin; anyone may acknowledge. *)

Edit == edits + failures < MaxFaults /\ edits' = edits + 1

\* The one statement of a budget handler; a budget that is not live is a 404.
Write(b, row) ==
    /\ Edit
    /\ budgets' = [budgets EXCEPT ![b] = row]
    /\ UNCHANGED <<today, spend, events, acknowledged, pending, incidents, task,
                   alerted, again, lost, failures>>

CreateBudget(b, n, c) ==
    budgets[b].status = "none" /\ Write(b, [status |-> "live", name |-> n, cap |-> c])

\* PATCH: a name, a threshold or both; the events of the period stay.
UpdateBudget(b, n, c) ==
    LET row == [budgets[b] EXCEPT !.name = n, !.cap = c]
    IN Live(b) /\ row # budgets[b] /\ Write(b, row)

DeleteBudget(b) == Live(b) /\ Write(b, [budgets[b] EXCEPT !.status = "deleted"])

\* UPDATE ... WHERE acknowledged_at IS NULL.
Acknowledge(e) ==
    /\ e \notin acknowledged
    /\ Edit
    /\ acknowledged' = acknowledged \union {e}
    /\ UNCHANGED <<today, spend, budgets, events, pending, incidents, task,
                   alerted, again, lost, failures>>

-----------------------------------------------------------------------------
(* An evaluation, in worker w. *)

\* SELECT ... FROM budgets WHERE deleted_at IS NULL; the rows are kept.
LiveRows == {<<b, budgets[b]>> : b \in {x \in Budgets : Live(x)}}

StartEvaluation(w) ==
    /\ task[w].stage = "idle"
    /\ task' = [task EXCEPT ![w] = [Idle EXCEPT !.stage = "budgets", !.todo = LiveRows]]
    /\ UNCHANGED <<today, spend, tables, incidents, history>>

\* The projection is made first, and once, for the tenant's monthly budgets.
\* The two reads are taken as one: both hold until the evaluation ends.
StartForecast(w) ==
    /\ task[w].stage = "idle"
    /\ Forecastable(today)
    /\ task' = [task EXCEPT ![w] =
          [Idle EXCEPT !.stage = "budgets", !.kind = "forecast_threshold",
                       !.todo = {r \in LiveRows : /\ Scope[r[1]] = TenantScope
                                                  /\ PeriodLength[r[1]] = MonthLength},
                       !.month = Project(today)]]
    /\ UNCHANGED <<today, spend, tables, incidents, history>>

\* The thresholds left to look at; none: the next budget.
WithLevels(t, levels) ==
    IF levels = {} THEN [Idle EXCEPT !.stage = "budgets", !.kind = t.kind, !.todo = t.todo,
                                     !.month = t.month]
                   ELSE [t EXCEPT !.stage = "levels", !.levels = levels]

\* The window and the spend of one budget, and the thresholds they reach.
EvaluateBudget(w) ==
    /\ task[w].stage = "budgets"
    /\ \E r \in task[w].todo :
         LET b == r[1]
             t == [task[w] EXCEPT !.todo = @ \ {r}, !.budget = b, !.row = r[2]]
             amount == ComputeSpend(Scope[b], Window(b, today))
         IN task' = [task EXCEPT ![w] =
              IF t.kind = "current_threshold"
              THEN WithLevels([t EXCEPT !.start = PeriodStart(PeriodLength[b], today)],
                              {l \in Levels : Reaches(amount, r[2].cap, l)})
              ELSE WithLevels([t EXCEPT !.start = t.month.start],
                              {l \in Levels : Projects(t.month, r[2].cap, l)})]
    /\ UNCHANGED <<today, spend, tables, incidents, history>>

\* Lowest first; mutant: from the top.
NextLevelDown(levels) == Max(levels)
NextLevel(levels) == Min(levels)

EventAt(w) == [budget |-> task[w].budget, start |-> task[w].start,
               level |-> NextLevel(task[w].levels), kind |-> task[w].kind]

AtLevel(w) == task[w].stage = "levels"

\* Another transaction has inserted the key and not ended: the INSERT waits.
Held(k, w) == \E v \in Workers \ {w} : k \in pending[v]

SkipLevel(w) ==
    /\ AtLevel(w)
    /\ EventAt(w) \in events
    /\ task' = [task EXCEPT ![w] = WithLevels(@, @.levels \ {NextLevel(@.levels)})]
    /\ UNCHANGED <<today, spend, tables, incidents, history>>

\* PagerDuty's dedup_key: the name, the period's start and the threshold.
DedupKey(t) == <<t.row.name, t.start, NextLevel(t.levels)>>

Fails == edits + failures < MaxFaults /\ failures' = failures + 1

\* send_budget_alert(), for the row that was inserted: whatever a channel
\* answers is swallowed.  Where the POST to PagerDuty fails, no incident opens.
SendAlert(w) ==
    LET routed == task[w].budget \in Routed
    IN  /\ alerted' = alerted \union {EventAt(w)}
        /\ again' = again \union (alerted \intersect {EventAt(w)})
        /\ \/ /\ incidents' = IF routed THEN incidents \union {DedupKey(task[w])} ELSE incidents
              /\ UNCHANGED failures
           \/ routed /\ Fails /\ UNCHANGED incidents

\* Mutant: no unique key to wait on.
InsertUnguarded(w) ==
    /\ AtLevel(w)
    /\ EventAt(w) \notin events
    /\ pending' = [pending EXCEPT ![w] = @ \union {EventAt(w)}]
    /\ task' = [task EXCEPT ![w] = WithLevels(@, @.levels \ {NextLevel(@.levels)})]
    /\ SendAlert(w)
    /\ UNCHANGED <<today, spend, budgets, events, acknowledged, lost, edits>>

InsertEvent(w) ==
    /\ AtLevel(w)
    /\ EventAt(w) \notin events /\ ~Held(EventAt(w), w)
    /\ pending' = [pending EXCEPT ![w] = @ \union {EventAt(w)}]
    /\ task' = [task EXCEPT ![w] = WithLevels(@, @.levels \ {NextLevel(@.levels)})]
    /\ SendAlert(w)
    /\ UNCHANGED <<today, spend, budgets, events, acknowledged, lost, edits>>

\* The transaction ends when no budget is left.
Commit(w) ==
    /\ task[w].stage = "budgets" /\ task[w].todo = {}
    /\ events'  = events \union pending[w]
    /\ pending' = [pending EXCEPT ![w] = {}]
    /\ task' = [task EXCEPT ![w] = Idle]
    /\ UNCHANGED <<today, spend, budgets, acknowledged, incidents, history>>

\* An exception that is not the database's, before the INSERT or while the
\* alert is put together: the next budget goes on.
FailBudget(w) ==
    /\ AtLevel(w)
    /\ Fails
    /\ pending' = IF EventAt(w) \in events \/ Held(EventAt(w), w) THEN pending
                  ELSE [pending EXCEPT ![w] = @ \union {EventAt(w)}]
    /\ task' = [task EXCEPT ![w] = WithLevels(@, {})]
    /\ UNCHANGED <<today, spend, budgets, events, acknowledged, incidents,
                   alerted, again, lost, edits>>

\* A database error aborts the transaction: every budget after it fails too,
\* and the COMMIT at the end is a ROLLBACK.
Abort(w) ==
    /\ task' = [task EXCEPT ![w] = Idle]
    /\ pending' = [pending EXCEPT ![w] = {}]
    /\ lost' = lost \union pending[w]
    /\ UNCHANGED <<today, spend, budgets, events, acknowledged, incidents, alerted, again, edits>>

DatabaseError(w) == task[w].stage \in {"budgets", "levels"} /\ Fails /\ Abort(w)

Die(w) == task[w].stage # "idle" /\ Fails /\ Abort(w)

\* Two evaluations that go through the budgets in different orders: the
\* server aborts one, and the INSERT that waited for its row goes through.
DeadlockVictim(w, v) ==
    /\ v # w
    /\ AtLevel(w) /\ AtLevel(v)
    /\ EventAt(w) \in pending[v] /\ EventAt(v) \in pending[w]
    /\ task' = [task EXCEPT ![w] = Idle, ![v] = WithLevels(@, @.levels \ {NextLevel(@.levels)})]
    /\ pending' = [pending EXCEPT ![w] = {}, ![v] = @ \union {EventAt(v)}]
    /\ lost' = lost \union pending[w]
    /\ SendAlert(v)
    /\ UNCHANGED <<today, spend, budgets, events, acknowledged, edits>>

Evaluate(w) == \/ EvaluateBudget(w) \/ SkipLevel(w)
               \/ InsertEvent(w) \/ Commit(w)

Next == \/ NextDay
        \/ \E d \in Days, v \in ScopeValues : RecordUsage(d, v)
        \/ \E b \in Budgets, n \in Names, c \in Caps : CreateBudget(b, n, c) \/ UpdateBudget(b, n, c)
        \/ \E b \in Budgets : DeleteBudget(b)
        \/ \E e \in events : Acknowledge(e)
        \/ \E w \in Workers : \/ StartEvaluation(w) \/ StartForecast(w) \/ Evaluate(w)
                              \/ FailBudget(w) \/ DatabaseError(w) \/ Die(w)
                              \/ \E v \in Workers : DeadlockVictim(w, v)

Spec == Init /\ [][Next]_vars
-----------------------------------------------------------------------------
Row == [status : {"none", "live", "deleted"}, name : Names, cap : Caps \union {0}]

\* Type invariant.  An uncommitted row belongs to a running evaluation, and
\* no key has two rows in sight.
TypeOK ==
    /\ today \in Days /\ Spent <= MaxUsage
    /\ budgets \in [Budgets -> Row]
    /\ events \subseteq EventKeys
    /\ acknowledged \subseteq events
    /\ pending \in [Workers -> SUBSET EventKeys]
    /\ \A w \in Workers : task[w].stage = "idle" => pending[w] = {}
    /\ \A w, v \in Workers : /\ pending[w] \intersect events = {}
                            /\ w # v => pending[w] \intersect pending[v] = {}
    /\ incidents \subseteq Names \X Days \X Levels
    /\ again \subseteq alerted /\ lost \subseteq EventKeys /\ alerted \subseteq EventKeys
    /\ {edits, failures} \subseteq 0..MaxFaults

\* The alerts of routed budgets that PagerDuty has no incident for.
Unheard == {e \in alerted : /\ e.budget \in Routed
                            /\ \A i \in incidents : i[2] # e.start \/ i[3] # e.level}

(***************************************************************************)
(* "Each threshold per (budget, period) is at-most-once-firing"            *)
(* (evaluate_budgets.py:29): an alert goes out twice only if an evaluation *)
(* that had sent it was rolled back; no row is committed whose alert was   *)
(* not sent, and no alert sent that PagerDuty did not hear of, unless an   *)
(* exception passed it over or the POST failed, one failure each.  An      *)
(* incident is of a period and threshold that were alerted; it is one for  *)
(* both kinds (pagerduty.py:62).                                           *)
(***************************************************************************)
AlertsOnce ==
    /\ again \subseteq lost
    /\ \A i \in incidents : \E e \in alerted : /\ e.budget \in Routed
                                              /\ i[2] = e.start /\ i[3] = e.level
    /\ Cardinality((events \ alerted) \union Unheard) <= failures

(***************************************************************************)
(* In one period a threshold is in the table only with every lower one of  *)
(* its kind, whatever exception cut a budget's loop short and whichever    *)
(* evaluation committed first; and while budgets are not edited, the spend *)
(* of the period, late records and all, bears out every crossing that the  *)
(* table records.                                                          *)
(***************************************************************************)
RowsExplained ==
    /\ \A e \in events, l \in Levels :
          l < e.level => [e EXCEPT !.level = l] \in events
    /\ \A e \in events :
          (edits = 0 /\ e.kind = "current_threshold") =>
             Reaches(ComputeSpend(Scope[e.budget], Window(e.budget, e.start)),
                     budgets[e.budget].cap, e.level)
=============================================================================
