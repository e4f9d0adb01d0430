--------------------------- MODULE ActivityIngest ---------------------------
(***************************************************************************)
(* Two task families of the Celery workers that append to one tenant's     *)
(* chain at the same time:                                                 *)
(*                                                                         *)
(*   - pull_activities_for_tenant (tasks/pull_compliance.py) walks the     *)
(*     provider's Activity Feed newest-first from the persisted cursor,    *)
(*     appends each activity, counts it for billing, and advances the      *)
(*     cursor; beat starts one every 15 minutes whether or not an earlier  *)
(*     one still runs;                                                     *)
(*   - persist_event (mcp_server/tasks) writes an interaction that         *)
(*     log_interaction already told the MCP client is logged.              *)
(*                                                                         *)
(* Appending is AuditChain's: a pull holds its append in `phase' and       *)
(* `candidate' while other tasks race with it.  An activity is named by    *)
(* its created_at, and the instance's history is no longer than the        *)
(* first-run look-back window, so a missing cursor is cursor 0.            *)
(***************************************************************************)
EXTENDS Integers, FiniteSets

CONSTANTS Tenant, Body, GenesisHash, GenesisPrevBytes, NoRow, NoMessage,
          Workers,        \* processes of the Celery pool: any runs either task
          Events,         \* interactions that MCP clients log
          MaxTime,        \* bound: the provider's clock stops here
          PerPage,        \* DEFAULT_PER_PAGE_LIMIT
          MaxPages,       \* MAX_PAGES_PER_INVOCATION
          MaxRetries,     \* max_retries of the persist_event task
          MaxFailures     \* bound: exceptions and deaths of workers, in all

ASSUME IngestAssumption ==
    /\ MaxTime \in Nat /\ MaxRetries \in Nat /\ MaxFailures \in Nat
    /\ PerPage \in Nat \ {0} /\ MaxPages \in Nat \ {0}
    /\ NoMessage \notin Events \X (0..MaxRetries)

VARIABLES rows, phase, candidate,   \* AuditChain's
          clock,        \* the time of the provider and of the workers
          feed,         \* created_at of the activities the provider lists
          cursor,       \* pull_state.cursor of (tenant, compliance_activities)
          pull,         \* what each worker's pull has reached
          usage,        \* what increment() has counted
          broker,       \* persist_event messages not yet acknowledged
          running       \* the message each worker handles

\* History variables: they record, and no action reads them.
VARIABLES logged,       \* events whose tool call returned logged: true
          failed,       \* events whose task ended in failure
          raced,        \* keys refused as duplicates while not in the chain
          capped,       \* activities a pull left unread at its page cap
          failures      \* failures so far

chainVars  == <<rows, phase, candidate>>
streamVars == <<clock, feed, cursor, pull, usage>>
mcpVars    == <<broker, running, logged, failed>>
vars == <<chainVars, streamVars, mcpVars, raced, capped, failures>>

ActivityKey(a) == <<"compliance_activities", a>>
EventKey(e)    == <<"mcp", e>>

ChainKeys == {ActivityKey(a) : a \in 1..MaxTime} \union {EventKey(e) : e \in Events}

\* GENESIS_HASH is a word, no 64 hex digits: nothing hashes to it.
ASSUME GenesisAssumption ==
    \A k \in ChainKeys : GenesisHash # <<Tenant, k, Body, GenesisHash>>

Chain == INSTANCE AuditChain
         WITH Tenants <- {Tenant}, Keys <- ChainKeys, Contents <- {Body},
              Writers <- Workers, Requests <- {Tenant} \X ChainKeys \X {Body}

InChain(k) == \E r \in rows : r.key = k

Stages == {"idle", "walk", "append", "save"}

IdlePull == [stage |-> "idle", start |-> 0, began |-> 0, pos |-> 0,
             seen |-> 0, count |-> 0]

Init == /\ Chain!ChainInit
        /\ clock = 0
        /\ feed = {}
        /\ cursor = 0
        /\ pull = [p \in Workers |-> IdlePull]
        /\ usage = 0
        /\ broker = {}
        /\ running = [m \in Workers |-> NoMessage]
        /\ logged = {} /\ failed = {} /\ raced = {} /\ capped = {}
        /\ failures = 0

-----------------------------------------------------------------------------
\* The provider's clock ticks, with or without a new activity.
Tick == /\ clock < MaxTime
        /\ clock' = clock + 1
        /\ feed' \in {feed, feed \union {clock + 1}}
        /\ UNCHANGED <<chainVars, cursor, pull, usage, mcpVars,
                       raced, capped, failures>>

\* A transaction of any worker goes on: its INSERT is accepted or refused,
\* or it commits.
AppendProgress(w) ==
    /\ Chain!InsertRow(w) \/ Chain!RefuseRow(w) \/ Chain!CommitRow(w)
    /\ UNCHANGED <<streamVars, mcpVars, raced, capped, failures>>

\* Mutant of AbandonAppend: session_scope commits in a `finally'.
AbandonCommits(w) ==
    \/ phase[w] = "idle" /\ UNCHANGED chainVars
    \/ /\ phase[w] # "idle"
       /\ rows' = rows \union {candidate[w]}
       /\ phase' = [phase EXCEPT ![w] = "idle"]
       /\ candidate' = [candidate EXCEPT ![w] = NoRow]

\* What is left of a worker's transaction when its task stops early.
AbandonAppend(w) ==
    \/ phase[w] = "idle" /\ UNCHANGED chainVars
    \/ Chain!RollBack(w)
    \/ Chain!TakeResult(w)

\* The IntegrityError handler calls every refusal a duplicate.
NoteRefusal(k) == raced' = raced \union {x \in {k} : ~InChain(x)}

-----------------------------------------------------------------------------
\* prefetch 1: a worker takes a task when it has none.
Free(w) == pull[w].stage = "idle" /\ running[w] = NoMessage

(* pull_activities_for_tenant *)

StartPull(p) ==
    /\ Free(p)
    /\ pull' = [pull EXCEPT ![p] =
                  [stage |-> "walk", start |-> cursor, began |-> clock,
                   pos |-> MaxTime + 1, seen |-> cursor, count |-> 0]]
    /\ UNCHANGED <<chainVars, clock, feed, cursor, usage, mcpVars,
                   raced, capped, failures>>

\* What the newest-first listing has still to yield.
Unread(p) == {a \in feed : pull[p].start <= a /\ a < pull[p].pos}

NextActivity(p) ==
    /\ pull[p].stage = "walk"
    /\ \E a \in Unread(p) :
         /\ \A b \in Unread(p) : b <= a
         /\ Chain!ReadTip(p, Tenant, ActivityKey(a), Body)
         /\ pull' = [pull EXCEPT ![p].stage = "append", ![p].pos = a]
    /\ UNCHANGED <<clock, feed, cursor, usage, mcpVars, raced, capped, failures>>

AtCap(n) == n \div PerPage >= MaxPages

\* The end of the loop body: the running maximum, and the page cap.
CountActivity(p) ==
    LET n == pull[p].count + 1 IN
      /\ pull' = [pull EXCEPT
            ![p].count = n,
            ![p].seen = IF pull[p].pos > @ THEN pull[p].pos ELSE @,
            ![p].stage = IF AtCap(n) THEN "save" ELSE "walk"]
      /\ capped' = IF AtCap(n) THEN capped \union Unread(p) ELSE capped

\* The append has committed; increment(tenant_id, "activity") follows it, and
\* a worker may die in between.
MeterActivity(p) ==
    /\ pull[p].stage = "append"
    /\ phase[p] = "done"
    /\ Chain!TakeResult(p)
    /\ usage' = usage + 1
    /\ CountActivity(p)
    /\ UNCHANGED <<clock, feed, cursor, mcpVars, raced, failures>>

\* Mutant of DedupActivity: a duplicate is counted for billing too.
DedupMetered(p) ==
    /\ pull[p].stage = "append"
    /\ phase[p] = "refused"
    /\ Chain!TakeResult(p)
    /\ usage' = usage + 1
    /\ NoteRefusal(ActivityKey(pull[p].pos))
    /\ CountActivity(p)
    /\ UNCHANGED <<clock, feed, cursor, mcpVars, failures>>

\* except IntegrityError: activities_deduped += 1.
DedupActivity(p) ==
    /\ pull[p].stage = "append"
    /\ phase[p] = "refused"
    /\ Chain!TakeResult(p)
    /\ NoteRefusal(ActivityKey(pull[p].pos))
    /\ CountActivity(p)
    /\ UNCHANGED <<clock, feed, cursor, usage, mcpVars, failures>>

WalkEnds(p) ==
    /\ pull[p].stage = "walk"
    /\ Unread(p) = {}
    /\ pull' = [pull EXCEPT ![p].stage = "save"]
    /\ UNCHANGED <<chainVars, clock, feed, cursor, usage, mcpVars,
                   raced, capped, failures>>

\* Mutant of SaveCursor: the time the pull ends, not the time it began at.
SaveCursorAtEnd(p) ==
    /\ pull[p].stage = "save"
    /\ cursor' = IF pull[p].count > 0 THEN pull[p].seen ELSE clock
    /\ pull' = [pull EXCEPT ![p] = IdlePull]
    /\ UNCHANGED <<chainVars, clock, feed, usage, mcpVars, raced, capped, failures>>

SaveCursor(p) ==
    /\ pull[p].stage = "save"
    /\ cursor' = IF pull[p].count > 0 THEN pull[p].seen ELSE pull[p].began
    /\ pull' = [pull EXCEPT ![p] = IdlePull]
    /\ UNCHANGED <<chainVars, clock, feed, usage, mcpVars, raced, capped, failures>>

\* Mutant of StopPull: the cursor is saved in a `finally'.
StopPullSaving(p) ==
    /\ pull[p].stage # "idle"
    /\ failures < MaxFailures
    /\ failures' = failures + 1
    /\ AbandonAppend(p)
    /\ cursor' = IF pull[p].count > 0 THEN pull[p].seen ELSE pull[p].began
    /\ pull' = [pull EXCEPT ![p] = IdlePull]
    /\ UNCHANGED <<clock, feed, usage, mcpVars, raced, capped>>

\* A 403, any other exception (the task is retried, as beat would start it
\* again) or the death of the worker: the cursor stays where it was.
StopPull(p) ==
    /\ pull[p].stage # "idle"
    /\ failures < MaxFailures
    /\ failures' = failures + 1
    /\ AbandonAppend(p)
    /\ pull' = [pull EXCEPT ![p] = IdlePull]
    /\ UNCHANGED <<clock, feed, cursor, usage, mcpVars, raced, capped>>

-----------------------------------------------------------------------------
(* log_interaction and persist_event *)

\* A message carries its event and self.request.retries.
Messages == Events \X (0..MaxRetries)

EventOf(m) == running[m][1]

LogInteraction(e) ==
    /\ e \notin logged
    /\ logged' = logged \union {e}
    /\ broker' = broker \union {<<e, 0>>}
    /\ UNCHANGED <<chainVars, streamVars, running, failed,
                   raced, capped, failures>>

\* Mutant of Deliver: the message is acknowledged when the task starts.
DeliverAcked(m, msg) ==
    /\ Free(m)
    /\ msg \in broker
    /\ Chain!ReadTip(m, Tenant, EventKey(msg[1]), Body)
    /\ running' = [running EXCEPT ![m] = msg]
    /\ broker' = broker \ {msg}
    /\ UNCHANGED <<streamVars, logged, failed, raced, capped, failures>>

\* task_acks_late: a message stays with the broker, which may deliver it a
\* second time (visibility timeout) while the first delivery still runs.
Deliver(m, msg) ==
    /\ Free(m)
    /\ msg \in broker
    /\ Chain!ReadTip(m, Tenant, EventKey(msg[1]), Body)
    /\ running' = [running EXCEPT ![m] = msg]
    /\ UNCHANGED <<streamVars, broker, logged, failed, raced, capped, failures>>

\* The task ends: its message leaves the broker, which may get another one.
Finish(m, again) == /\ broker' = (broker \ {running[m]}) \union again
                    /\ running' = [running EXCEPT ![m] = NoMessage]

EventPersisted(m) ==
    /\ running[m] # NoMessage
    /\ phase[m] = "done"
    /\ Chain!TakeResult(m)
    /\ Finish(m, {})
    /\ UNCHANGED <<streamVars, logged, failed, raced, capped, failures>>

\* except IntegrityError: return {"persisted": False, "reason": "dedup"}.
EventDeduped(m) ==
    /\ running[m] # NoMessage
    /\ phase[m] = "refused"
    /\ Chain!TakeResult(m)
    /\ NoteRefusal(EventKey(EventOf(m)))
    /\ Finish(m, {})
    /\ UNCHANGED <<streamVars, logged, failed, capped, failures>>

\* except Exception: self.retry sends the message again, or gives up.
RetryEvent(m) ==
    /\ running[m] # NoMessage
    /\ failures < MaxFailures
    /\ failures' = failures + 1
    /\ Chain!RollBack(m)
    /\ LET tried == running[m][2] IN
         \/ /\ tried < MaxRetries
            /\ Finish(m, {<<EventOf(m), tried + 1>>})
            /\ UNCHANGED failed
         \/ /\ tried = MaxRetries
            /\ Finish(m, {})
            /\ failed' = failed \union {EventOf(m)}
    /\ UNCHANGED <<streamVars, logged, raced, capped>>

\* The worker dies: the message is delivered again if the whole worker went,
\* and is acknowledged as failed if only the pool process did.
KillTask(m) ==
    /\ running[m] # NoMessage
    /\ failures < MaxFailures
    /\ failures' = failures + 1
    /\ AbandonAppend(m)
    /\ \/ /\ running' = [running EXCEPT ![m] = NoMessage]
          /\ UNCHANGED <<broker, failed>>
       \/ /\ Finish(m, {})
          /\ failed' = failed \union {EventOf(m)}
    /\ UNCHANGED <<streamVars, logged, raced, capped>>

-----------------------------------------------------------------------------
PullStep(p) == \/ NextActivity(p) \/ MeterActivity(p) \/ DedupActivity(p)
               \/ WalkEnds(p) \/ SaveCursor(p)

PersistStep(m) == EventPersisted(m) \/ EventDeduped(m)

Next == \/ Tick
        \/ \E e \in Events : LogInteraction(e)
        \/ \E w \in Workers :
              \/ AppendProgress(w)
              \/ StartPull(w) \/ PullStep(w) \/ StopPull(w)
              \/ \E msg \in Messages : Deliver(w, msg)
              \/ PersistStep(w) \/ RetryEvent(w) \/ KillTask(w)

Spec == Init /\ [][Next]_vars

(***************************************************************************)
(* A task that runs makes progress, and a waiting INSERT is woken when the *)
(* transaction it waits for ends, even if others take turns there: of one  *)
(* worker's steps a single kind is possible at a time.  Beat queues pulls  *)
(* for ever and the queue is first-in first-out: neither a pull nor a      *)
(* message waits behind later ones for ever.  Nothing forces activities,   *)
(* events or failures.                                                     *)
(***************************************************************************)
Fairness == /\ \A w \in Workers :
                  SF_vars(AppendProgress(w) \/ PullStep(w) \/ PersistStep(w))
            /\ SF_vars(\E w \in Workers : StartPull(w))
            /\ \A e \in Events :
                  SF_vars(\E w \in Workers, n \in 0..MaxRetries :
                             Deliver(w, <<e, n>>))

FairSpec == Spec /\ Fairness
-----------------------------------------------------------------------------
PullState == [stage : Stages, start : 0..MaxTime, began : 0..MaxTime,
              pos : 0..(MaxTime + 1), seen : 0..MaxTime, count : 0..MaxTime]

\* Type invariant of the ingest tasks.
TypeOK == /\ Chain!TypeOK
          /\ clock \in 0..MaxTime
          /\ feed \subseteq 1..MaxTime
          /\ cursor \in 0..MaxTime
          /\ pull \in [Workers -> PullState]
          /\ usage \in 0..MaxTime
          /\ broker \subseteq Messages
          /\ running \in [Workers -> Messages \union {NoMessage}]
          /\ logged \subseteq Events /\ failed \subseteq Events
          /\ raced \subseteq ChainKeys /\ capped \subseteq 1..MaxTime
          /\ failures \in 0..MaxFailures

\* Whatever pulls, deliveries, retries and deaths do around it, the chain
\* sees only the steps of AuditChain (callers of append_telemetry_record).
ImplementsChain == Chain!ChainSpec

\* Everything older than the persisted cursor is in the chain, except what
\* the dedup handler dropped without it being there (pull_compliance.py,
\* except IntegrityError) and what a page cap skipped: overlapping pulls,
\* failures and a cursor that is written back open no third way.
ActivitiesAccounted ==
    \A a \in feed : a < cursor =>
        InChain(ActivityKey(a)) \/ ActivityKey(a) \in raced \/ a \in capped

\* An interaction the client was told is logged is in the chain, still with
\* the broker, visibly failed, or was dropped by the dedup handler.
EventsAccounted ==
    \A e \in logged : \/ InChain(EventKey(e))
                      \/ \E n \in 0..MaxRetries : <<e, n>> \in broker
                      \/ e \in failed
                      \/ EventKey(e) \in raced

ActivityRows == {r \in rows : r.key[1] = "compliance_activities"}

\* Appended, and the increment not yet made.
Unmetered == {p \in Workers : pull[p].stage = "append" /\ phase[p] = "done"}

\* Billing counts no activity twice, whatever is pulled again, and misses
\* at most one per failure between the append and increment().
MeterTracksChain ==
    LET missing == Cardinality(ActivityRows) - usage
    IN  usage <= Cardinality(ActivityRows)
        /\ missing <= failures + Cardinality(Unmetered)

\* The claim of persist_event.py:119 that a refused event is "already
\* persisted": a task that ends without failing leaves its event in the chain.
LoggedMeansPersisted ==
    \A e \in logged : \/ InChain(EventKey(e))
                      \/ \E n \in 0..MaxRetries : <<e, n>> \in broker
                      \/ e \in failed

\* Every activity the provider lists is pulled, or lost in one of the two ways:
\* no schedule of overlapping pulls, that die or write the cursor back over one
\* another's while interactions race them for the chain, postpones it for ever.
\* Every interaction the client was told is logged is persisted, refused or
\* given up, also when its message is delivered again while it is handled,
\* when its worker dies, and when pulls take the workers in between.
EverythingDecided ==
    /\ \A a \in 1..MaxTime :
          a \in feed ~> \/ InChain(ActivityKey(a))
                        \/ ActivityKey(a) \in raced
                        \/ a \in capped
    /\ \A e \in Events :
          e \in logged ~> \/ InChain(EventKey(e))
                          \/ e \in failed
                          \/ EventKey(e) \in raced
=============================================================================
