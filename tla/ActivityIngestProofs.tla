------------------------ MODULE ActivityIngestProofs ------------------------
(***************************************************************************)
(* Proofs about ActivityIngest, for every number of workers, events,       *)
(* pages, retries and failures: pulls and deliveries do to the chain       *)
(* nothing but what AuditChain's writers do, and so they keep it whole.    *)
(***************************************************************************)
EXTENDS ActivityIngest, FiniteSetTheorems, TLAPS

(***************************************************************************)
(* A transaction that is abandoned was rolled back, or had ended.          *)
(***************************************************************************)
LEMMA AbandonIsChainStep ==
    ASSUME NEW w \in Workers, AbandonAppend(w)
    PROVE  [Chain!ChainNext]_chainVars
  BY DEF AbandonAppend, Chain!ChainNext, Chain!ChainStep, chainVars

(***************************************************************************)
(* An append for a key of the chain is a request of AuditChain's.          *)
(***************************************************************************)
LEMMA ReadIsChainStep ==
    ASSUME NEW w \in Workers, NEW k \in ChainKeys,
           Chain!ReadTip(w, Tenant, k, Body)
    PROVE  Chain!ChainNext
  <1> DEFINE q == <<Tenant, k, Body>>
  <1>1. q \in {Tenant} \X ChainKeys \X {Body}
    OBVIOUS
  <1>2. Chain!ReadTip(w, q[1], q[2], q[3])
    OBVIOUS
  <1> QED BY <1>1, <1>2 DEF Chain!ChainNext, Chain!ChainStep

-----------------------------------------------------------------------------
\* What the listing can yield: activities have a created_at that is past.
FeedInv == clock \in 0..MaxTime /\ feed \subseteq 1..clock

(***************************************************************************)
(* Nothing is listed at first.                                             *)
(***************************************************************************)
LEMMA FeedInit == Init => FeedInv
  BY IngestAssumption DEF Init, FeedInv

(***************************************************************************)
(* Only Tick lists an activity, at the time it sets.                       *)
(***************************************************************************)
LEMMA FeedStep == FeedInv /\ [Next]_vars => FeedInv'
  <1> SUFFICES ASSUME FeedInv, [Next]_vars PROVE FeedInv'
    OBVIOUS
  <1>1. CASE Tick
    BY <1>1, IngestAssumption DEF Tick, FeedInv
  <1>2. CASE UNCHANGED <<clock, feed>>
    BY <1>2 DEF FeedInv
  <1> QED
    BY <1>1, <1>2
    DEF Next, vars, streamVars, AppendProgress, StartPull, PullStep,
        NextActivity, MeterActivity, DedupActivity, WalkEnds, SaveCursor,
        StopPull, LogInteraction, Deliver, PersistStep, EventPersisted,
        EventDeduped, RetryEvent, KillTask

(***************************************************************************)
(* Every step of the tasks is a step of AuditChain, or leaves the chain as *)
(* it is.                                                                  *)
(***************************************************************************)
LEMMA IngestStepIsChainStep ==
    FeedInv /\ [Next]_vars => [Chain!ChainNext]_chainVars
  <1> SUFFICES ASSUME FeedInv, [Next]_vars
               PROVE  [Chain!ChainNext]_chainVars
    OBVIOUS
  <1>1. ASSUME NEW w \in Workers, AppendProgress(w)
        PROVE  [Chain!ChainNext]_chainVars
    BY <1>1 DEF AppendProgress, Chain!ChainNext, Chain!ChainStep
  <1>2. ASSUME NEW w \in Workers, NextActivity(w)
        PROVE  [Chain!ChainNext]_chainVars
    <2>1. PICK a \in feed : Chain!ReadTip(w, Tenant, ActivityKey(a), Body)
      BY <1>2 DEF NextActivity, Unread
    <2>2. a \in 1..MaxTime
      BY IngestAssumption DEF FeedInv
    <2>3. ActivityKey(a) \in ChainKeys
      BY <2>2 DEF ChainKeys
    <2> QED BY <2>1, <2>3, ReadIsChainStep
  <1>3. ASSUME NEW w \in Workers, NEW msg \in Messages, Deliver(w, msg)
        PROVE  [Chain!ChainNext]_chainVars
    <2>1. EventKey(msg[1]) \in ChainKeys
      BY DEF Messages, ChainKeys
    <2> QED BY <1>3, <2>1, ReadIsChainStep DEF Deliver
  <1>4. ASSUME NEW w \in Workers,
               \/ MeterActivity(w) \/ DedupActivity(w)
               \/ EventPersisted(w) \/ EventDeduped(w)
        PROVE  [Chain!ChainNext]_chainVars
    BY <1>4 DEF MeterActivity, DedupActivity, EventPersisted, EventDeduped,
                Chain!ChainNext, Chain!ChainStep
  <1>5. ASSUME NEW w \in Workers, StopPull(w) \/ KillTask(w)
        PROVE  [Chain!ChainNext]_chainVars
    BY <1>5, AbandonIsChainStep DEF StopPull, KillTask
  <1>6. ASSUME NEW w \in Workers, RetryEvent(w)
        PROVE  [Chain!ChainNext]_chainVars
    BY <1>6 DEF RetryEvent, Chain!ChainNext, Chain!ChainStep
  <1>7. CASE UNCHANGED chainVars
    BY <1>7
  <1> QED
    BY <1>1, <1>2, <1>3, <1>4, <1>5, <1>6, <1>7
    DEF Next, vars, Tick, StartPull, PullStep, WalkEnds, SaveCursor,
        LogInteraction, PersistStep

(***************************************************************************)
(* For every instance: the pulls and the deliveries of persist_event, with *)
(* their retries, deaths and overlaps, implement AuditChain (the callers   *)
(* of append_telemetry_record, pull_compliance.py and persist_event.py).   *)
(***************************************************************************)
THEOREM IngestImplementsChain == Spec => ImplementsChain
  <1>1. Init => Chain!ChainInit
    BY DEF Init
  <1> QED
    BY <1>1, FeedInit, FeedStep, IngestStepIsChainStep, PTL
    DEF Spec, ImplementsChain, Chain!ChainSpec, Chain!chainVars, chainVars
-----------------------------------------------------------------------------
(***************************************************************************)
(* The theorems of AuditChainProofs for the chain of this composition.     *)
(* Its definitions are those of Chain, instantiated a second time.         *)
(***************************************************************************)
Proved == INSTANCE AuditChainProofs
          WITH Tenants <- {Tenant}, Keys <- ChainKeys, Contents <- {Body},
               Writers <- Workers, Requests <- {Tenant} \X ChainKeys \X {Body}

(***************************************************************************)
(* The two instances are one specification.                                *)
(***************************************************************************)
LEMMA SameChain == Chain!ChainSpec <=> Proved!ChainSpec
  <1>1. Chain!ChainInit <=> Proved!ChainInit
    BY DEF Chain!ChainInit, Proved!ChainInit
  <1>2. ASSUME NEW w, NEW t, NEW k, NEW c
        PROVE  Chain!ReadTip(w, t, k, c) <=> Proved!ReadTip(w, t, k, c)
    <2>1. \A tip : /\ Chain!RowAfter(tip, k, c) = Proved!RowAfter(tip, k, c)
                   /\ Chain!IsTip(tip, rows) <=> Proved!IsTip(tip, rows)
      BY DEF Chain!RowAfter, Proved!RowAfter, Chain!NewRow, Proved!NewRow,
             Chain!Digest, Proved!Digest, Chain!IsTip, Proved!IsTip,
             Chain!RowsOf, Proved!RowsOf
    <2>2. Chain!FirstRow(t, k, c) = Proved!FirstRow(t, k, c)
      BY DEF Chain!FirstRow, Proved!FirstRow, Chain!NewRow, Proved!NewRow,
             Chain!Digest, Proved!Digest
    <2> QED
      BY <2>1, <2>2
      DEF Chain!ReadTip, Proved!ReadTip, Chain!RowsOf, Proved!RowsOf,
          Chain!Hold, Proved!Hold, Chain!Move, Proved!Move
  <1>3. \A r, s : Chain!Collide(r, s) <=> Proved!Collide(r, s)
    BY DEF Chain!Collide, Proved!Collide, Chain!SameSlot, Proved!SameSlot,
           Chain!SameKey, Proved!SameKey
  <1>4. Chain!ChainNext <=> Proved!ChainNext
    BY <1>2, <1>3
    DEF Chain!ChainNext, Proved!ChainNext, Chain!ChainStep, Proved!ChainStep,
        Chain!InsertRow, Proved!InsertRow, Chain!RefuseRow, Proved!RefuseRow,
        Chain!CommitRow, Proved!CommitRow, Chain!RollBack, Proved!RollBack,
        Chain!TakeResult, Proved!TakeResult, Chain!Hold, Proved!Hold,
        Chain!Move, Proved!Move
  <1> QED
    BY <1>1, <1>4, PTL
    DEF Chain!ChainSpec, Proved!ChainSpec, Chain!chainVars, Proved!chainVars

(***************************************************************************)
(* And their integrity is the same statement.                              *)
(***************************************************************************)
LEMMA SameIntegrity == Proved!ChainIntegrity => Chain!ChainIntegrity
  <1>1. \A r, s : Chain!Collide(r, s) <=> Proved!Collide(r, s)
    BY DEF Chain!Collide, Proved!Collide, Chain!SameSlot, Proved!SameSlot,
           Chain!SameKey, Proved!SameKey
  <1>2. \A r : Chain!Linked(r, rows) <=> Proved!Linked(r, rows)
    BY DEF Chain!Linked, Proved!Linked, Chain!Recomputes, Proved!Recomputes,
           Chain!PrevHash, Proved!PrevHash, Chain!Digest, Proved!Digest
  <1>3. Chain!GapFree <=> Proved!GapFree
    <2>1. ASSUME NEW t PROVE Chain!Slots(t) = Proved!Slots(t)
      BY DEF Chain!Slots, Proved!Slots, Chain!RowsOf, Proved!RowsOf
    <2>2. Chain!Cardinality(rows) = Proved!Cardinality(rows)
      BY DEF Chain!Cardinality, Proved!Cardinality
    <2> QED BY <2>1, <2>2 DEF Chain!GapFree, Proved!GapFree
  <1>4. Proved!NoFork => Chain!NoFork
    BY <1>1 DEF Chain!NoFork, Proved!NoFork
  <1>5. Proved!AllLinked => Chain!AllLinked
    BY <1>2 DEF Chain!AllLinked, Proved!AllLinked
  <1>6. Proved!CandidatesLinked => Chain!CandidatesLinked
    BY <1>2 DEF Chain!CandidatesLinked, Proved!CandidatesLinked
  <1>7. Proved!InsertsExclusive => Chain!InsertsExclusive
    BY <1>1 DEF Chain!InsertsExclusive, Proved!InsertsExclusive
  <1> QED
    BY <1>3, <1>4, <1>5, <1>6, <1>7
    DEF Chain!ChainIntegrity, Proved!ChainIntegrity

(***************************************************************************)
(* For every instance: however pulls and deliveries race, retry and die,   *)
(* the tenant's chain has no gap, no fork and no broken link (chain.py,    *)
(* append_telemetry_record under its two task families).                   *)
(***************************************************************************)
THEOREM IngestKeepsChainWhole == Spec => []Chain!ChainIntegrity
  <1>1. Proved!RequestsAssumption /\ Proved!GenesisAssumption
    BY GenesisAssumption DEF Proved!RequestsAssumption, Proved!GenesisAssumption
  <1>2. Chain!ChainSpec => []Proved!ChainIntegrity
    BY <1>1, SameChain, Proved!ChainIntegrityHolds
  <1> QED
    BY <1>2, SameIntegrity, IngestImplementsChain, PTL DEF ImplementsChain
-----------------------------------------------------------------------------
\* A task holds an append while its worker's transaction is open or undecided,
\* and for its own key; a row that was appended is in the chain.
TaskInv(w) ==
    /\ running[w] \in Messages \union {NoMessage}
    /\ running[w] # NoMessage => pull[w].stage = "idle"
    /\ phase[w] # "idle" <=> pull[w].stage = "append" \/ running[w] # NoMessage
    /\ pull[w].stage = "append" => candidate[w].key = ActivityKey(pull[w].pos)
    /\ running[w] # NoMessage => candidate[w].key = EventKey(EventOf(w))
    /\ phase[w] = "done" => candidate[w] \in rows

TasksInv == /\ running \in [Workers -> Messages \union {NoMessage}]
            /\ broker \subseteq Messages
            /\ logged \subseteq Events /\ failed \subseteq Events
            /\ failures \in 0..MaxFailures
            /\ \A w \in Workers : TaskInv(w)

PullRecord == [stage : Stages, start : 0..MaxTime, began : 0..MaxTime,
               pos : 0..(MaxTime + 1), seen : 0..MaxTime, count : Nat]

\* A pull counts one activity at each position, and positions descend.
PullInv(p) ==
    /\ pull[p].seen <= clock /\ pull[p].began <= clock /\ pull[p].start <= clock
    /\ pull[p].stage = "idle" => pull[p].count = 0
    /\ pull[p].stage \in {"walk", "save"} =>
          /\ pull[p].pos \in feed \union {MaxTime + 1}
          /\ pull[p].count + pull[p].pos <= MaxTime + 1
    /\ pull[p].stage = "append" =>
          pull[p].pos \in feed /\ pull[p].count + pull[p].pos <= MaxTime

PullsInv == /\ pull \in [Workers -> PullRecord]
            /\ cursor \in 0..clock
            /\ \A p \in Workers : PullInv(p)

\* Listed, and not in the chain, refused or skipped.
Open == {a \in feed : /\ ~InChain(ActivityKey(a))
                      /\ ActivityKey(a) \notin raced /\ a \notin capped}

\* An open activity is ahead of a running pull, or newer than all that the
\* pull will write to the cursor.
Reaches(p, a) ==
    /\ pull[p].start <= a
    /\ \/ pull[p].stage \in {"walk", "append"} /\ a < pull[p].pos
       \/ pull[p].stage = "append" /\ a = pull[p].pos
       \/ /\ pull[p].stage = "save" \/ a >= pull[p].pos
          /\ a >= pull[p].seen /\ a > pull[p].began

ReachInv ==
    /\ raced \subseteq ChainKeys /\ capped \subseteq feed
    /\ \A p \in Workers : pull[p].stage # "idle" => \A a \in Open : Reaches(p, a)

\* What was appended is counted, about to be, or was lost to a failure.
MeterInv ==
    LET appended == Cardinality(ActivityRows)
        counted  == usage + Cardinality(Unmetered)
    IN  /\ usage \in Nat /\ IsFiniteSet(Unmetered)
        /\ counted <= appended /\ appended <= counted + failures

IngestInv == /\ FeedInv /\ TasksInv /\ PullsInv /\ ReachInv
             /\ ActivitiesAccounted /\ EventsAccounted /\ MeterInv
-----------------------------------------------------------------------------
(***************************************************************************)
(* The chain of this composition is typed, and whole, at every state.      *)
(***************************************************************************)
LEMMA ChainAlwaysTyped == Spec => []Chain!TypeOK
  <1>1. Proved!RequestsAssumption /\ Proved!GenesisAssumption
    BY GenesisAssumption DEF Proved!RequestsAssumption, Proved!GenesisAssumption
  <1>2. Chain!ChainSpec => []Proved!TypeOK
    BY <1>1, SameChain, Proved!ChainTypeCorrect
  <1>3. Proved!TypeOK => Chain!TypeOK
    <2>1. Proved!IsFiniteSet(rows) <=> Chain!IsFiniteSet(rows)
      BY DEF Proved!IsFiniteSet, Chain!IsFiniteSet
    <2>2. \A r : Proved!IsRow(r) <=> Chain!IsRow(r)
      BY DEF Proved!IsRow, Chain!IsRow
    <2> QED BY <2>1, <2>2 DEF Proved!TypeOK, Chain!TypeOK, Proved!Phases, Chain!Phases
  <1> QED BY <1>2, <1>3, IngestImplementsChain, PTL DEF ImplementsChain

\* What a step of worker w's transaction may change of the chain.
ChainFrame(w) ==
    /\ \A v \in Workers \ {w} : phase'[v] = phase[v] /\ candidate'[v] = candidate[v]
    /\ rows' = rows \/ Chain!CommitRow(w)

(***************************************************************************)
(* A transaction begins with the row that it derives for its key.          *)
(***************************************************************************)
LEMMA ReadEffect ==
    ASSUME Chain!TypeOK, NEW w \in Workers, NEW k, Chain!ReadTip(w, Tenant, k, Body)
    PROVE  /\ ChainFrame(w) /\ rows' = rows
           /\ phase[w] = "idle" /\ phase'[w] = "read" /\ candidate'[w].key = k
  <1>1. PICK r : r.key = k /\ Chain!Hold(w, r)
    <2>1. \A s : Chain!FirstRow(Tenant, k, Body).key = k /\ Chain!RowAfter(s, k, Body).key = k
      BY DEF Chain!FirstRow, Chain!RowAfter, Chain!NewRow
    <2> QED BY <2>1 DEF Chain!ReadTip
  <1>2. phase[w] = "idle" /\ Chain!Move(w, "read") /\ rows' = rows
    BY DEF Chain!ReadTip
  <1> QED BY <1>1, <1>2 DEF Chain!TypeOK, Chain!Hold, Chain!Move, ChainFrame

(***************************************************************************)
(* It goes on towards a row of the chain, or a refusal.                    *)
(***************************************************************************)
LEMMA ProgressEffect ==
    ASSUME Chain!TypeOK, NEW w \in Workers, AppendProgress(w)
    PROVE  /\ ChainFrame(w) /\ rows \subseteq rows'
           /\ phase[w] # "idle" /\ phase'[w] # "idle"
           /\ candidate'[w] = candidate[w]
           /\ phase'[w] = "done" <=> Chain!CommitRow(w)
           /\ phase[w] # "done"
           /\ UNCHANGED <<streamVars, mcpVars, raced, capped, failures>>
  BY DEF AppendProgress, Chain!InsertRow, Chain!RefuseRow, Chain!CommitRow,
         Chain!TypeOK, Chain!Move, ChainFrame

(***************************************************************************)
(* And it ends, with a result that the task takes or without.              *)
(***************************************************************************)
LEMMA EndEffect ==
    ASSUME Chain!TypeOK, NEW w \in Workers,
           \/ Chain!TakeResult(w) \/ Chain!RollBack(w) \/ AbandonAppend(w)
    PROVE  ChainFrame(w) /\ rows' = rows /\ phase'[w] = "idle"
  BY DEF AbandonAppend, Chain!TakeResult, Chain!RollBack, Chain!TypeOK, Chain!Move,
         Chain!Hold, ChainFrame, chainVars

\* What a step of worker w leaves alone.
WorkerFrame(w) ==
    /\ ChainFrame(w)
    /\ \A v \in Workers \ {w} : pull'[v] = pull[v] /\ running'[v] = running[v]
    /\ UNCHANGED <<clock, feed, logged>>

WorkerStep(w) == \/ AppendProgress(w)
                 \/ StartPull(w) \/ PullStep(w) \/ StopPull(w)
                 \/ \E msg \in Messages : Deliver(w, msg)
                 \/ PersistStep(w) \/ RetryEvent(w) \/ KillTask(w)

(***************************************************************************)
(* Each action of a task keeps to that frame.                              *)
(***************************************************************************)
LEMMA WorkerStepFrame ==
    ASSUME Chain!TypeOK, TasksInv, PullsInv, NEW w \in Workers, WorkerStep(w)
    PROVE  WorkerFrame(w)
  <1> USE DEF WorkerFrame, TasksInv, PullsInv, streamVars, mcpVars
  <1>1. CASE AppendProgress(w)
    BY <1>1, ProgressEffect
  <1>2. CASE StartPull(w) \/ WalkEnds(w) \/ SaveCursor(w)
    BY <1>2 DEF StartPull, WalkEnds, SaveCursor, ChainFrame, chainVars
  <1>3. CASE NextActivity(w)
    <2>1. ChainFrame(w)
      BY <1>3, ReadEffect DEF NextActivity
    <2> QED BY <1>3, <2>1 DEF NextActivity
  <1>4. CASE MeterActivity(w) \/ DedupActivity(w)
    <2>1. ChainFrame(w)
      BY <1>4, EndEffect DEF MeterActivity, DedupActivity
    <2> QED BY <1>4, <2>1 DEF MeterActivity, DedupActivity, CountActivity
  <1>5. CASE StopPull(w)
    <2>1. ChainFrame(w)
      BY <1>5, EndEffect DEF StopPull
    <2> QED BY <1>5, <2>1 DEF StopPull
  <1>6. ASSUME NEW msg \in Messages, Deliver(w, msg) PROVE WorkerFrame(w)
    <2>1. ChainFrame(w)
      BY <1>6, ReadEffect DEF Deliver
    <2> QED BY <1>6, <2>1 DEF Deliver
  <1>7. CASE PersistStep(w) \/ RetryEvent(w)
    <2>1. ChainFrame(w)
      BY <1>7, EndEffect DEF PersistStep, EventPersisted, EventDeduped, RetryEvent
    <2> QED BY <1>7, <2>1 DEF PersistStep, EventPersisted, EventDeduped, RetryEvent, Finish
  <1>8. CASE KillTask(w)
    <2>1. ChainFrame(w)
      BY <1>8, EndEffect DEF KillTask
    <2> QED BY <1>8, <2>1 DEF KillTask, Finish
  <1> QED
    BY <1>1, <1>2, <1>3, <1>4, <1>5, <1>6, <1>7, <1>8 DEF WorkerStep, PullStep

(***************************************************************************)
(* A step is the clock's, a tool call, one worker's within its frame, or   *)
(* none.                                                                   *)
(***************************************************************************)
LEMMA StepCases ==
    ASSUME Chain!TypeOK, TasksInv, PullsInv, [Next]_vars
    PROVE  \/ Tick
           \/ \E e \in Events : LogInteraction(e)
           \/ \E w \in Workers : WorkerStep(w) /\ WorkerFrame(w)
           \/ UNCHANGED vars
  BY WorkerStepFrame DEF Next, WorkerStep

(***************************************************************************)
(* No row leaves the chain.                                                *)
(***************************************************************************)
LEMMA RowsGrow ==
    ASSUME Chain!TypeOK, TasksInv, PullsInv, [Next]_vars PROVE rows \subseteq rows'
  BY StepCases DEF Tick, LogInteraction, WorkerFrame, ChainFrame, Chain!CommitRow, vars, chainVars
-----------------------------------------------------------------------------
(***************************************************************************)
(* A task of a worker holds an append exactly while the worker's           *)
(* transaction lasts.                                                      *)
(***************************************************************************)
LEMMA WorkerKeepsTask ==
    ASSUME Chain!TypeOK, TasksInv, PullsInv, NEW w \in Workers, WorkerStep(w), WorkerFrame(w)
    PROVE  TaskInv(w)'
  <1>0. /\ TaskInv(w) /\ running \in [Workers -> Messages \union {NoMessage}]
        /\ pull \in [Workers -> PullRecord] /\ NoMessage \notin Messages
    BY IngestAssumption DEF TasksInv, PullsInv, Messages
  <1> USE <1>0 DEF TaskInv, EventOf
  <1>1. CASE AppendProgress(w)
    <2>1. UNCHANGED <<pull, running>>
      BY <1>1, ProgressEffect DEF streamVars, mcpVars
    <2>2. phase'[w] = "done" => candidate'[w] \in rows'
      BY <1>1, ProgressEffect DEF Chain!CommitRow
    <2> QED BY <1>1, <2>1, <2>2, ProgressEffect
  <1>2. CASE StartPull(w) \/ WalkEnds(w) \/ SaveCursor(w)
    <2>1. /\ UNCHANGED <<chainVars, running>>
          /\ pull[w].stage # "append" /\ pull'[w].stage # "append"
          /\ running[w] = NoMessage
      BY <1>2 DEF StartPull, WalkEnds, SaveCursor, Free, mcpVars, IdlePull, PullRecord
    <2> QED BY <2>1 DEF chainVars
  <1>3. CASE NextActivity(w)
    <2>1. PICK a \in Unread(w) :
             /\ Chain!ReadTip(w, Tenant, ActivityKey(a), Body)
             /\ pull' = [pull EXCEPT ![w].stage = "append", ![w].pos = a]
      BY <1>3 DEF NextActivity
    <2>2. pull'[w].stage = "append" /\ pull'[w].pos = a
      BY <2>1 DEF PullRecord
    <2>3. running'[w] = running[w] /\ pull[w].stage = "walk"
      BY <1>3 DEF NextActivity, mcpVars
    <2> QED BY <2>1, <2>2, <2>3, ReadEffect
  <1>4. CASE MeterActivity(w) \/ DedupActivity(w)
    <2>1. pull'[w].stage \in {"save", "walk"} /\ pull[w].stage = "append"
      BY <1>4 DEF MeterActivity, DedupActivity, CountActivity, PullRecord
    <2>2. phase'[w] = "idle" /\ running'[w] = running[w]
      BY <1>4, EndEffect DEF MeterActivity, DedupActivity, mcpVars
    <2> QED BY <2>1, <2>2
  <1>5. CASE StopPull(w)
    <2>1. pull'[w].stage = "idle" /\ phase'[w] = "idle" /\ running'[w] = running[w]
      BY <1>5, EndEffect DEF StopPull, IdlePull, mcpVars
    <2> QED BY <1>5, <2>1 DEF StopPull
  <1>6. ASSUME NEW msg \in Messages, Deliver(w, msg) PROVE TaskInv(w)'
    <2>1. running'[w] = msg /\ pull'[w] = pull[w] /\ pull[w].stage = "idle"
      BY <1>6 DEF Deliver, Free, streamVars
    <2> QED BY <1>6, <2>1, ReadEffect DEF Deliver
  <1>7. CASE PersistStep(w) \/ RetryEvent(w) \/ KillTask(w)
    <2>1. phase'[w] = "idle" /\ running'[w] = NoMessage
      BY <1>7, EndEffect
      DEF PersistStep, EventPersisted, EventDeduped, RetryEvent, KillTask, Finish
    <2>2. pull'[w] = pull[w] /\ pull[w].stage = "idle"
      BY <1>7 DEF PersistStep, EventPersisted, EventDeduped, RetryEvent, KillTask, streamVars
    <2> QED BY <2>1, <2>2
  <1> QED
    BY <1>1, <1>2, <1>3, <1>4, <1>5, <1>6, <1>7 DEF WorkerStep, PullStep

(***************************************************************************)
(* Messages, results and failures are what their types say.                *)
(***************************************************************************)
LEMMA WorkerKeepsBroker ==
    ASSUME Chain!TypeOK, TasksInv, PullsInv, NEW w \in Workers, WorkerStep(w)
    PROVE  /\ running' \in [Workers -> Messages \union {NoMessage}]
           /\ broker' \subseteq Messages /\ failed' \subseteq Events
           /\ failures' \in 0..MaxFailures /\ failures <= failures'
  <1>0. /\ running \in [Workers -> Messages \union {NoMessage}] /\ NoMessage \notin Messages
        /\ broker \subseteq Messages /\ failed \subseteq Events
        /\ failures \in 0..MaxFailures /\ MaxRetries \in Nat /\ MaxFailures \in Nat
    BY IngestAssumption DEF TasksInv, Messages
  <1>1. \/ UNCHANGED failures
        \/ failures < MaxFailures /\ failures' = failures + 1
    BY ProgressEffect
    DEF WorkerStep, PullStep, StartPull, NextActivity, MeterActivity, DedupActivity, WalkEnds,
        SaveCursor, StopPull, Deliver, PersistStep, EventPersisted, EventDeduped, RetryEvent, KillTask
  <1>2. failures' \in 0..MaxFailures /\ failures <= failures'
    BY <1>0, <1>1
  <1>3. \/ UNCHANGED <<broker, running, failed>>
        \/ \E msg \in Messages : Deliver(w, msg)
        \/ EventPersisted(w) \/ EventDeduped(w) \/ RetryEvent(w) \/ KillTask(w)
    BY ProgressEffect
    DEF WorkerStep, PullStep, StartPull, NextActivity, MeterActivity, DedupActivity, WalkEnds,
        SaveCursor, StopPull, PersistStep, mcpVars
  <1>4. ASSUME NEW msg \in Messages, Deliver(w, msg)
        PROVE  /\ running' \in [Workers -> Messages \union {NoMessage}]
               /\ broker' \subseteq Messages /\ failed' \subseteq Events
    BY <1>0, <1>4 DEF Deliver
  <1>5. ASSUME EventPersisted(w) \/ EventDeduped(w) \/ RetryEvent(w) \/ KillTask(w)
        PROVE  /\ running' \in [Workers -> Messages \union {NoMessage}]
               /\ broker' \subseteq Messages /\ failed' \subseteq Events
    <2>1. running[w] \in Messages /\ EventOf(w) \in Events /\ running[w][2] \in 0..MaxRetries
      BY <1>0, <1>5 DEF EventPersisted, EventDeduped, RetryEvent, KillTask, EventOf, Messages
    <2>2. running' = [running EXCEPT ![w] = NoMessage]
      BY <1>5 DEF EventPersisted, EventDeduped, RetryEvent, KillTask, Finish
    <2>3. failed' \subseteq failed \union {EventOf(w)}
      BY <1>5 DEF EventPersisted, EventDeduped, RetryEvent, KillTask
    <2>4. running[w][2] < MaxRetries => <<EventOf(w), running[w][2] + 1>> \in Messages
      BY <1>0, <2>1 DEF Messages
    <2>5. broker' \subseteq broker \union Messages
      BY <1>5, <2>4 DEF EventPersisted, EventDeduped, RetryEvent, KillTask, Finish
    <2> QED BY <1>0, <2>1, <2>2, <2>3, <2>5
  <1> QED BY <1>0, <1>2, <1>3, <1>4, <1>5

(***************************************************************************)
(* So the tasks keep to their messages and their appends.                  *)
(***************************************************************************)
LEMMA TasksStep == Chain!TypeOK /\ TasksInv /\ PullsInv /\ [Next]_vars => TasksInv'
  <1> SUFFICES ASSUME Chain!TypeOK, TasksInv, PullsInv, [Next]_vars PROVE TasksInv'
    OBVIOUS
  <1>1. CASE UNCHANGED <<chainVars, pull, mcpVars, failures>>
    BY <1>1 DEF TasksInv, TaskInv, EventOf, chainVars, mcpVars
  <1>2. ASSUME NEW e \in Events, LogInteraction(e) PROVE TasksInv'
    <2>1. <<e, 0>> \in Messages
      BY IngestAssumption DEF Messages
    <2> QED BY <1>2, <2>1
      DEF LogInteraction, TasksInv, TaskInv, EventOf, chainVars, streamVars
  <1>3. ASSUME NEW w \in Workers, WorkerStep(w), WorkerFrame(w) PROVE TasksInv'
    <2>1. rows \subseteq rows'
      BY <1>3, RowsGrow DEF WorkerFrame, ChainFrame, Chain!CommitRow
    <2>2. ASSUME NEW v \in Workers, v # w PROVE TaskInv(v)'
      BY <1>3, <2>1, <2>2 DEF WorkerFrame, ChainFrame, TasksInv, TaskInv, EventOf
    <2>3. TaskInv(w)'
      BY <1>3, WorkerKeepsTask
    <2>4. /\ running' \in [Workers -> Messages \union {NoMessage}]
          /\ broker' \subseteq Messages /\ failed' \subseteq Events
          /\ failures' \in 0..MaxFailures /\ logged' = logged
      BY <1>3, WorkerKeepsBroker DEF WorkerFrame
    <2> QED BY <2>2, <2>3, <2>4 DEF TasksInv
  <1> QED BY <1>1, <1>2, <1>3, StepCases DEF Tick, vars, streamVars
-----------------------------------------------------------------------------
(***************************************************************************)
(* A pull's position descends through the feed, and its count with it.     *)
(***************************************************************************)
LEMMA WorkerKeepsPull ==
    ASSUME Chain!TypeOK, FeedInv, TasksInv, PullsInv, NEW w \in Workers, WorkerStep(w)
    PROVE  /\ pull' = [pull EXCEPT ![w] = pull'[w]]
           /\ pull'[w] \in PullRecord /\ PullInv(w)' /\ cursor' \in 0..clock'
  <1> DEFINE p == pull[w]
  <1>p. p \in PullRecord /\ PullInv(w) /\ pull \in [Workers -> PullRecord]
    BY DEF PullsInv
  <1>c. /\ MaxTime \in Nat /\ clock \in 0..MaxTime /\ cursor \in 0..clock
        /\ feed \subseteq 1..clock
    BY IngestAssumption DEF PullsInv, FeedInv
  <1>i. IdlePull \in PullRecord
    BY <1>c DEF IdlePull, PullRecord, Stages
  <1>1. CASE UNCHANGED <<pull, clock, feed, cursor>>
    BY <1>1, <1>p, <1>c DEF PullInv
  <1>2. CASE StartPull(w)
    <2>1. pull'[w] = [stage |-> "walk", start |-> cursor, began |-> clock,
                      pos |-> MaxTime + 1, seen |-> cursor, count |-> 0]
      BY <1>2, <1>p DEF StartPull
    <2> QED BY <1>2, <1>p, <1>c, <2>1 DEF StartPull, PullRecord, PullInv, Stages
  <1>3. CASE NextActivity(w)
    <2>1. PICK a \in Unread(w) : pull' = [pull EXCEPT ![w].stage = "append", ![w].pos = a]
      BY <1>3 DEF NextActivity
    <2>2. a \in feed /\ a \in 1..clock /\ a < p.pos /\ p.stage = "walk"
      BY <1>3, <1>c, <2>1 DEF Unread, NextActivity
    <2>3. pull'[w] = [p EXCEPT !.stage = "append", !.pos = a]
      BY <1>p, <2>1
    <2>4. UNCHANGED <<clock, feed, cursor>>
      BY <1>3 DEF NextActivity
    <2>5. pull'[w] \in PullRecord
      <3>1. a \in 0..(MaxTime + 1) /\ "append" \in Stages
        BY <1>c, <2>2 DEF Stages
      <3> QED BY <1>p, <2>3, <3>1 DEF PullRecord
    <2>6. p.count \in Nat /\ p.pos \in Nat /\ p.count + p.pos <= MaxTime + 1
      BY <1>p, <2>2 DEF PullRecord, PullInv
    <2>7. p.count + a <= MaxTime
      BY <1>c, <2>2, <2>6
    <2> QED BY <1>p, <1>c, <2>1, <2>2, <2>3, <2>4, <2>5, <2>7 DEF PullInv, PullRecord
  <1>4. CASE MeterActivity(w) \/ DedupActivity(w)
    <2>1. PICK seen, stage :
             /\ pull'[w] = [p EXCEPT !.count = p.count + 1, !.seen = seen, !.stage = stage]
             /\ pull' = [pull EXCEPT ![w] = pull'[w]]
             /\ seen \in {p.seen, p.pos} /\ stage \in {"save", "walk"}
      <3> DEFINE s == IF p.pos > p.seen THEN p.pos ELSE p.seen
                 t == IF AtCap(p.count + 1) THEN "save" ELSE "walk"
      <3>1. pull' = [pull EXCEPT ![w].count = p.count + 1, ![w].seen = s, ![w].stage = t]
        BY <1>4 DEF MeterActivity, DedupActivity, CountActivity
      <3>2. s \in {p.seen, p.pos} /\ t \in {"save", "walk"}
        OBVIOUS
      <3> HIDE DEF s, t
      <3> QED BY <1>p, <3>1, <3>2
    <2>2. p.stage = "append" /\ UNCHANGED <<clock, feed, cursor>>
      BY <1>4 DEF MeterActivity, DedupActivity
    <2>3. p.pos \in feed /\ p.count + p.pos <= MaxTime /\ p.count \in Nat
      BY <1>p, <2>2 DEF PullInv, PullRecord
    <2>4. seen \in 0..clock
      BY <1>p, <1>c, <2>1, <2>3 DEF PullInv, PullRecord
    <2>5. pull'[w] \in PullRecord
      <3>1. seen \in 0..MaxTime /\ stage \in Stages /\ p.count + 1 \in Nat
        BY <1>c, <2>1, <2>3, <2>4 DEF Stages
      <3> QED BY <1>p, <2>1, <3>1 DEF PullRecord
    <2>6. /\ pull'[w].stage = stage /\ pull'[w].seen = seen /\ pull'[w].pos = p.pos
          /\ pull'[w].count = p.count + 1 /\ pull'[w].began = p.began /\ pull'[w].start = p.start
      BY <1>p, <2>1 DEF PullRecord
    <2> QED BY <1>p, <1>c, <2>1, <2>2, <2>3, <2>4, <2>5, <2>6 DEF PullInv
  <1>5. CASE WalkEnds(w)
    BY <1>5, <1>p, <1>c DEF WalkEnds, PullRecord, PullInv, Stages
  <1>6. CASE SaveCursor(w) \/ StopPull(w)
    <2>1. /\ pull'[w] = IdlePull /\ pull' = [pull EXCEPT ![w] = pull'[w]]
          /\ UNCHANGED <<clock, feed>> /\ cursor' \in {cursor, p.seen, p.began}
      BY <1>6, <1>p DEF SaveCursor, StopPull
    <2>2. cursor' \in 0..clock'
      BY <1>p, <1>c, <2>1 DEF PullRecord, PullInv
    <2> QED BY <1>i, <1>c, <2>1, <2>2 DEF IdlePull, PullInv
  <1> QED
    BY <1>1, <1>2, <1>3, <1>4, <1>5, <1>6, ProgressEffect
    DEF WorkerStep, PullStep, Deliver, PersistStep, EventPersisted, EventDeduped, RetryEvent,
        KillTask, streamVars

(***************************************************************************)
(* So every pull and the cursor stay within the feed's time.               *)
(***************************************************************************)
LEMMA PullsStep == Chain!TypeOK /\ FeedInv /\ TasksInv /\ PullsInv /\ [Next]_vars => PullsInv'
  <1> SUFFICES ASSUME Chain!TypeOK, FeedInv, TasksInv, PullsInv, [Next]_vars PROVE PullsInv'
    OBVIOUS
  <1>1. CASE UNCHANGED <<pull, clock, feed, cursor>>
    BY <1>1 DEF PullsInv, PullInv
  <1>2. CASE Tick
    <2>1. /\ clock \in Nat /\ clock' = clock + 1 /\ feed \subseteq feed'
          /\ UNCHANGED <<pull, cursor>>
      BY <1>2, IngestAssumption DEF Tick, FeedInv
    <2>2. cursor' \in 0..clock'
      BY <2>1 DEF PullsInv
    <2>3. ASSUME NEW p \in Workers PROVE PullInv(p)'
      <3>1. PullInv(p) /\ pull[p] \in PullRecord
        BY DEF PullsInv
      <3> QED BY <2>1, <3>1, IngestAssumption DEF PullInv, PullRecord
    <2> QED BY <2>1, <2>2, <2>3 DEF PullsInv
  <1>3. ASSUME NEW w \in Workers, WorkerStep(w), WorkerFrame(w) PROVE PullsInv'
    <2>1. /\ pull' = [pull EXCEPT ![w] = pull'[w]]
          /\ pull'[w] \in PullRecord /\ PullInv(w)' /\ cursor' \in 0..clock'
      BY <1>3, WorkerKeepsPull
    <2>2. \A v \in Workers \ {w} : PullInv(v)'
      BY <1>3 DEF WorkerFrame, PullsInv, PullInv
    <2> QED BY <2>1, <2>2 DEF PullsInv
  <1> QED BY <1>1, <1>2, <1>3, StepCases DEF LogInteraction, vars, streamVars
-----------------------------------------------------------------------------
(***************************************************************************)
(* A key refused is a key of the chain; what a cap skips is in the feed.   *)
(***************************************************************************)
LEMMA WorkerOpensNothing ==
    ASSUME Chain!TypeOK, FeedInv, TasksInv, PullsInv, NEW w \in Workers, WorkerStep(w)
    PROVE  /\ raced \subseteq raced' /\ raced' \subseteq raced \union ChainKeys
           /\ capped \subseteq capped' /\ capped' \subseteq capped \union feed
  <1>1. \A k : NoteRefusal(k) => raced \subseteq raced' /\ raced' \subseteq raced \union {k}
    BY DEF NoteRefusal
  <1>2. CASE UNCHANGED <<raced, capped>>
    BY <1>2
  <1>3. CASE MeterActivity(w) \/ DedupActivity(w)
    <2>1. pull[w].stage = "append" /\ pull[w].pos \in feed /\ feed \subseteq 1..MaxTime
      BY <1>3, IngestAssumption DEF MeterActivity, DedupActivity, PullsInv, PullInv, FeedInv
    <2>2. ActivityKey(pull[w].pos) \in ChainKeys
      BY <2>1 DEF ChainKeys
    <2>3. raced \subseteq raced' /\ raced' \subseteq raced \union ChainKeys
      BY <1>1, <1>3, <2>2 DEF MeterActivity, DedupActivity
    <2>4. capped \subseteq capped' /\ capped' \subseteq capped \union feed
      BY <1>3 DEF MeterActivity, DedupActivity, CountActivity, Unread
    <2> QED BY <2>3, <2>4
  <1>4. CASE EventDeduped(w)
    <2>1. EventOf(w) \in Events
      BY <1>4 DEF EventDeduped, TasksInv, EventOf, Messages
    <2>2. EventKey(EventOf(w)) \in ChainKeys
      BY <2>1 DEF ChainKeys
    <2> QED BY <1>1, <1>4, <2>2 DEF EventDeduped
  <1> QED
    BY <1>2, <1>3, <1>4, ProgressEffect
    DEF WorkerStep, PullStep, StartPull, NextActivity, WalkEnds, SaveCursor, StopPull, Deliver,
        PersistStep, EventPersisted, RetryEvent, KillTask

(***************************************************************************)
(* Only the clock opens an activity, at the time that it sets.             *)
(***************************************************************************)
LEMMA OpenStep ==
    ASSUME Chain!TypeOK, FeedInv, TasksInv, PullsInv, ReachInv, [Next]_vars
    PROVE  /\ raced' \subseteq ChainKeys /\ capped' \subseteq feed'
           /\ IF Tick THEN Open' \subseteq Open \union {clock + 1} ELSE Open' \subseteq Open
  <1>1. \A k : InChain(k) => InChain(k)'
    BY RowsGrow DEF InChain
  <1>2. CASE UNCHANGED <<feed, raced, capped>>
    BY <1>1, <1>2 DEF Open, ReachInv
  <1>3. CASE Tick
    BY <1>1, <1>3 DEF Tick, Open, ReachInv
  <1>4. ASSUME NEW w \in Workers, WorkerStep(w), WorkerFrame(w)
        PROVE  raced' \subseteq ChainKeys /\ capped' \subseteq feed' /\ Open' \subseteq Open
    BY <1>1, <1>4, WorkerOpensNothing DEF WorkerFrame, Open, ReachInv
  <1> QED BY <1>2, <1>3, <1>4, StepCases DEF LogInteraction, vars, streamVars

(***************************************************************************)
(* The activity that a pull was at is settled when the pull counts it.     *)
(***************************************************************************)
LEMMA CountedIsSettled ==
    ASSUME TasksInv, NEW w \in Workers, MeterActivity(w) \/ DedupActivity(w)
    PROVE  pull[w].pos \notin Open'
  <1>1. CASE MeterActivity(w)
    <2>1. candidate[w] \in rows /\ candidate[w].key = ActivityKey(pull[w].pos) /\ rows' = rows
      BY <1>1 DEF MeterActivity, TasksInv, TaskInv, Chain!TakeResult
    <2> QED BY <2>1 DEF Open, InChain
  <1>2. CASE DedupActivity(w)
    <2>1. /\ raced' = raced \union {x \in {ActivityKey(pull[w].pos)} : ~InChain(x)}
          /\ rows' = rows
      BY <1>2 DEF DedupActivity, NoteRefusal, Chain!TakeResult
    <2> QED BY <2>1 DEF Open, InChain
  <1> QED BY <1>1, <1>2

(***************************************************************************)
(* A pull leaves no open activity behind: it takes the newest it has not   *)
(* read, and a cap skips the rest.                                         *)
(***************************************************************************)
LEMMA PullReaches ==
    ASSUME Chain!TypeOK, FeedInv, TasksInv, PullsInv, ReachInv, ActivitiesAccounted,
           NEW w \in Workers, WorkerStep(w), WorkerFrame(w),
           pull'[w].stage # "idle", NEW a \in Open, a \in Open'
    PROVE  Reaches(w, a)'
  <1>p. pull[w] \in PullRecord /\ pull \in [Workers -> PullRecord] /\ PullInv(w)
    BY DEF PullsInv
  <1>c. /\ MaxTime \in Nat /\ clock \in 0..MaxTime /\ cursor \in 0..clock
        /\ a \in feed /\ a \in 1..clock /\ a \in Nat
    <2>1. MaxTime \in Nat /\ clock \in 0..MaxTime /\ cursor \in 0..clock
      BY IngestAssumption DEF PullsInv, FeedInv
    <2>2. a \in feed
      BY DEF Open
    <2> QED BY <2>1, <2>2 DEF FeedInv
  <1>r. pull[w].stage # "idle" => Reaches(w, a)
    BY DEF ReachInv
  <1>1. CASE UNCHANGED pull
    BY <1>1, <1>r DEF Reaches
  <1>2. CASE StartPull(w)
    <2>1. /\ pull'[w].stage = "walk" /\ pull'[w].start = cursor /\ pull'[w].pos = MaxTime + 1
      BY <1>2, <1>p DEF StartPull
    <2>2. a >= cursor
      BY <1>c DEF ActivitiesAccounted, Open
    <2> QED BY <1>c, <2>1, <2>2 DEF Reaches
  <1>3. CASE NextActivity(w)
    <2>1. PICK b \in Unread(w) :
             /\ \A d \in Unread(w) : d <= b
             /\ pull' = [pull EXCEPT ![w].stage = "append", ![w].pos = b]
      BY <1>3 DEF NextActivity
    <2>2. /\ pull'[w].stage = "append" /\ pull'[w].pos = b
          /\ pull'[w].start = pull[w].start /\ pull'[w].seen = pull[w].seen
          /\ pull'[w].began = pull[w].began
      BY <1>p, <2>1 DEF PullRecord
    <2>3. pull[w].stage = "walk" /\ b < pull[w].pos /\ b \in Nat /\ pull[w].pos \in Nat
      BY <1>3, <1>c, <1>p, <2>1 DEF NextActivity, Unread, FeedInv, PullRecord
    <2>4. CASE a < pull[w].pos
      <3>1. a \in Unread(w)
        BY <1>c, <1>r, <2>3, <2>4 DEF Unread, Reaches
      <3> QED BY <1>c, <1>r, <2>1, <2>2, <2>3, <3>1 DEF Reaches
    <2>5. CASE ~(a < pull[w].pos)
      BY <1>c, <1>r, <2>2, <2>3, <2>5 DEF Reaches
    <2> QED BY <2>4, <2>5
  <1>4. CASE MeterActivity(w) \/ DedupActivity(w)
    <2>1. a # pull[w].pos
      BY <1>4, CountedIsSettled
    <2>2. pull[w].stage = "append"
      BY <1>4 DEF MeterActivity, DedupActivity
    <2>3. pull[w].pos \in Nat /\ pull[w].seen \in Nat
      BY <1>p, IngestAssumption DEF PullRecord
    <2>4. CASE a < pull[w].pos
      <3>1. a \in Unread(w)
        BY <1>c, <1>r, <2>2, <2>4 DEF Unread, Reaches
      <3>2. ~AtCap(pull[w].count + 1)
        BY <1>4, <3>1 DEF MeterActivity, DedupActivity, CountActivity, Open
      <3>3. /\ pull'[w].stage = "walk" /\ pull'[w].pos = pull[w].pos
            /\ pull'[w].start = pull[w].start
        BY <1>4, <1>p, <3>2 DEF MeterActivity, DedupActivity, CountActivity, PullRecord
      <3> QED BY <1>r, <2>2, <2>4, <3>3 DEF Reaches
    <2>5. CASE ~(a < pull[w].pos)
      <3>1. /\ pull'[w].stage \in {"walk", "save"} /\ pull'[w].pos = pull[w].pos
            /\ pull'[w].start = pull[w].start /\ pull'[w].began = pull[w].began
            /\ pull'[w].seen \in {pull[w].seen, pull[w].pos}
        BY <1>4, <1>p DEF MeterActivity, DedupActivity, CountActivity, PullRecord
      <3> QED BY <1>c, <1>r, <2>1, <2>2, <2>3, <2>5, <3>1 DEF Reaches
    <2> QED BY <2>4, <2>5
  <1>5. CASE WalkEnds(w)
    <2>1. a \notin Unread(w)
      BY <1>5 DEF WalkEnds
    <2>2. /\ pull[w].stage = "walk" /\ pull'[w].stage = "save"
          /\ pull'[w].pos = pull[w].pos /\ pull'[w].start = pull[w].start
          /\ pull'[w].began = pull[w].began /\ pull'[w].seen = pull[w].seen
      BY <1>5, <1>p DEF WalkEnds, PullRecord
    <2> QED BY <1>c, <1>r, <2>1, <2>2 DEF Unread, Reaches
  <1>6. ~SaveCursor(w) /\ ~StopPull(w)
    BY <1>p DEF SaveCursor, StopPull, IdlePull
  <1> QED
    BY <1>1, <1>2, <1>3, <1>4, <1>5, <1>6, ProgressEffect
    DEF WorkerStep, PullStep, Deliver, PersistStep, EventPersisted, EventDeduped, RetryEvent,
        KillTask, streamVars

(***************************************************************************)
(* An activity that opens while a pull runs is ahead of it, or newer than  *)
(* all that it has seen.                                                   *)
(***************************************************************************)
LEMMA TickReaches ==
    ASSUME FeedInv, PullsInv, ReachInv, Tick, NEW p \in Workers, pull[p].stage # "idle",
           NEW a \in Open'
    PROVE  Reaches(p, a)'
  <1>1. pull[p] \in PullRecord /\ PullInv(p) /\ UNCHANGED pull
    BY DEF PullsInv, Tick
  <1>2. clock \in Nat /\ MaxTime \in Nat /\ clock + 1 <= MaxTime /\ feed \subseteq 1..clock
    BY IngestAssumption DEF FeedInv, Tick
  <1>3. CASE a \in Open
    BY <1>1, <1>3 DEF ReachInv, Reaches
  <1>4. CASE a = clock + 1
    <2>1. /\ pull[p].start <= clock /\ pull[p].seen <= clock /\ pull[p].began <= clock
          /\ pull[p].start \in Nat /\ pull[p].seen \in Nat /\ pull[p].began \in Nat
      BY <1>1, <1>2 DEF PullInv, PullRecord
    <2>2. CASE pull[p].stage = "save"
      BY <1>1, <1>2, <1>4, <2>1, <2>2 DEF Reaches
    <2>3. CASE pull[p].stage = "append"
      <3>1. pull[p].pos \in 1..clock
        BY <1>1, <1>2, <2>3 DEF PullInv
      <3>2. a >= pull[p].pos /\ a >= pull[p].seen /\ a > pull[p].began /\ pull[p].start <= a
        BY <1>2, <1>4, <2>1, <3>1
      <3> QED BY <1>1, <3>2 DEF Reaches
    <2>4. CASE pull[p].stage = "walk"
      <3>1. pull[p].pos \in 1..clock \/ pull[p].pos = MaxTime + 1
        BY <1>1, <1>2, <2>4 DEF PullInv
      <3>2. /\ a >= pull[p].pos \/ a < pull[p].pos
            /\ a >= pull[p].seen /\ a > pull[p].began /\ pull[p].start <= a
        BY <1>2, <1>4, <2>1, <3>1
      <3> QED BY <1>1, <2>4, <3>2 DEF Reaches
    <2> QED BY <1>1, <2>2, <2>3, <2>4 DEF PullRecord, Stages
  <1>5. a \in Open \/ a = clock + 1
    BY DEF Tick, Open, InChain, chainVars
  <1> QED BY <1>3, <1>4, <1>5

(***************************************************************************)
(* What is open stays within the reach of every pull that runs.            *)
(***************************************************************************)
LEMMA ReachStep ==
    Chain!TypeOK /\ FeedInv /\ TasksInv /\ PullsInv /\ ReachInv /\ ActivitiesAccounted
      /\ [Next]_vars => ReachInv'
  <1> SUFFICES ASSUME Chain!TypeOK, FeedInv, TasksInv, PullsInv, ReachInv,
                      ActivitiesAccounted, [Next]_vars
               PROVE  ReachInv'
    OBVIOUS
  <1>1. CASE Tick
    BY <1>1, OpenStep, TickReaches DEF ReachInv, Tick
  <1>2. ASSUME ~Tick, NEW p \in Workers, pull'[p] = pull[p], pull'[p].stage # "idle",
               NEW a \in Open'
        PROVE  Reaches(p, a)'
    BY <1>2, OpenStep DEF ReachInv, Reaches
  <1>3. ASSUME ~Tick, NEW w \in Workers, WorkerStep(w), WorkerFrame(w) PROVE ReachInv'
    <2>1. ASSUME NEW a \in Open', pull'[w].stage # "idle" PROVE Reaches(w, a)'
      BY <1>3, <2>1, OpenStep, PullReaches
    <2>2. \A v \in Workers \ {w} : pull'[v] = pull[v]
      BY <1>3 DEF WorkerFrame
    <2> QED BY <1>2, <1>3, <2>1, <2>2, OpenStep DEF ReachInv
  <1>4. CASE ~Tick /\ UNCHANGED pull
    BY <1>2, <1>4, OpenStep DEF ReachInv
  <1> QED BY <1>1, <1>3, <1>4, StepCases DEF LogInteraction, vars, streamVars

(***************************************************************************)
(* A pull that saves its cursor leaves nothing open below it.              *)
(***************************************************************************)
LEMMA ActivitiesStep ==
    Chain!TypeOK /\ FeedInv /\ TasksInv /\ PullsInv /\ ReachInv /\ ActivitiesAccounted
      /\ [Next]_vars => ActivitiesAccounted'
  <1> SUFFICES ASSUME Chain!TypeOK, FeedInv, TasksInv, PullsInv, ReachInv,
                      ActivitiesAccounted, [Next]_vars
               PROVE  \A a \in Open' : ~(a < cursor')
    BY DEF ActivitiesAccounted, Open
  <1>0. /\ \A a \in Open : ~(a < cursor)
        /\ clock \in Nat /\ cursor \in 0..clock
    BY IngestAssumption DEF ActivitiesAccounted, Open, FeedInv, PullsInv
  <1>1. CASE Tick
    BY <1>0, <1>1, OpenStep DEF Tick
  <1>2. CASE ~Tick /\ UNCHANGED cursor
    BY <1>0, <1>2, OpenStep
  <1>3. ASSUME ~Tick, NEW w \in Workers, SaveCursor(w) PROVE \A a \in Open' : ~(a < cursor')
    <2>1. /\ pull[w].stage = "save" /\ cursor' \in {pull[w].seen, pull[w].began}
          /\ feed' = feed
      BY <1>3 DEF SaveCursor
    <2>2. pull[w].seen \in Nat /\ pull[w].began \in Nat
      BY IngestAssumption DEF PullsInv, PullRecord
    <2>3. \A a \in Open : a \in Nat /\ a >= pull[w].seen /\ a > pull[w].began
      BY <1>0, <2>1 DEF ReachInv, Reaches, Open, FeedInv
    <2> QED BY <1>3, <2>1, <2>2, <2>3, OpenStep
  <1> QED
    BY <1>1, <1>2, <1>3, StepCases, ProgressEffect
    DEF WorkerStep, PullStep, StartPull, NextActivity, MeterActivity, DedupActivity, WalkEnds,
        StopPull, Deliver, PersistStep, EventPersisted, EventDeduped, RetryEvent, KillTask,
        LogInteraction, vars, streamVars

(***************************************************************************)
(* A message leaves the broker when its event is in the chain, refused, or *)
(* given up; a retry puts another in its place first.                      *)
(***************************************************************************)
LEMMA EventsStep ==
    Chain!TypeOK /\ FeedInv /\ TasksInv /\ PullsInv /\ EventsAccounted /\ [Next]_vars
      => EventsAccounted'
  <1> SUFFICES ASSUME Chain!TypeOK, FeedInv, TasksInv, PullsInv, EventsAccounted, [Next]_vars,
                      NEW e \in logged'
               PROVE  \/ InChain(EventKey(e))'
                      \/ \E n \in 0..MaxRetries : <<e, n>> \in broker'
                      \/ e \in failed'
                      \/ EventKey(e) \in raced'
    BY DEF EventsAccounted
  <1> DEFINE Goal == \/ InChain(EventKey(e))'
                     \/ \E n \in 0..MaxRetries : <<e, n>> \in broker'
                     \/ e \in failed'
                     \/ EventKey(e) \in raced'
  <1>1. \A k : InChain(k) => InChain(k)'
    BY RowsGrow DEF InChain
  <1>2. CASE broker \subseteq broker' /\ failed \subseteq failed' /\ raced \subseteq raced'
              /\ e \in logged
    BY <1>1, <1>2 DEF EventsAccounted
  <1>3. ASSUME NEW d \in Events, LogInteraction(d) PROVE Goal
    <2>1. 0 \in 0..MaxRetries
      BY IngestAssumption
    <2>2. CASE e = d
      BY <1>3, <2>1, <2>2 DEF LogInteraction
    <2>3. CASE e # d
      BY <1>2, <1>3, <2>3 DEF LogInteraction
    <2> QED BY <2>2, <2>3
  <1>4. ASSUME NEW w \in Workers, WorkerStep(w), WorkerFrame(w),
               EventPersisted(w) \/ EventDeduped(w) \/ RetryEvent(w) \/ KillTask(w)
        PROVE  Goal
    <2>0. e \in logged /\ raced \subseteq raced'
      BY <1>4, WorkerOpensNothing DEF WorkerFrame
    <2>1. /\ running[w] \in Messages /\ running[w] = <<EventOf(w), running[w][2]>>
          /\ running[w][2] \in 0..MaxRetries /\ TaskInv(w)
      BY <1>4 DEF EventPersisted, EventDeduped, RetryEvent, KillTask, TasksInv, TaskInv,
                  EventOf, Messages
    <2>2. /\ \A m \in broker : m # running[w] => m \in broker'
          /\ failed \subseteq failed'
      BY <1>4 DEF EventPersisted, EventDeduped, RetryEvent, KillTask, Finish
    <2>3. CASE e # EventOf(w)
      <3>1. \A n \in 0..MaxRetries : <<e, n>> \in broker => <<e, n>> \in broker'
        BY <2>1, <2>2, <2>3
      <3> QED BY <1>1, <2>0, <2>2, <3>1 DEF EventsAccounted
    <2>4. CASE e = EventOf(w)
      <3>1. CASE EventPersisted(w)
        <4>1. candidate[w] \in rows /\ candidate[w].key = EventKey(e)
          BY <2>1, <2>4, <3>1 DEF EventPersisted, TaskInv
        <4> QED BY <1>1, <4>1 DEF InChain
      <3>2. CASE EventDeduped(w)
        <4>1. raced' = raced \union {x \in {EventKey(e)} : ~InChain(x)}
          BY <2>4, <3>2 DEF EventDeduped, NoteRefusal
        <4> QED BY <1>1, <4>1
      <3>3. CASE RetryEvent(w)
        <4>1. CASE running[w][2] < MaxRetries
          <5>1. running[w][2] + 1 \in 0..MaxRetries
            BY <2>1, <4>1, IngestAssumption
          <5>2. <<e, running[w][2] + 1>> \in broker'
            BY <2>4, <3>3, <4>1, IngestAssumption DEF RetryEvent, Finish
          <5> QED BY <5>1, <5>2
        <4>2. CASE ~(running[w][2] < MaxRetries)
          BY <2>4, <3>3, <4>2 DEF RetryEvent
        <4> QED BY <4>1, <4>2
      <3>4. CASE KillTask(w)
        <4>1. UNCHANGED <<broker, failed>> \/ e \in failed'
          BY <2>4, <3>4 DEF KillTask
        <4> QED BY <1>2, <2>0, <4>1
      <3> QED BY <1>4, <3>1, <3>2, <3>3, <3>4
    <2> QED BY <2>3, <2>4
  <1>5. ASSUME NEW w \in Workers, WorkerStep(w), WorkerFrame(w),
               ~(EventPersisted(w) \/ EventDeduped(w) \/ RetryEvent(w) \/ KillTask(w))
        PROVE  Goal
    <2>1. UNCHANGED <<broker, failed>>
      BY <1>5, ProgressEffect
      DEF WorkerStep, PullStep, StartPull, NextActivity, MeterActivity, DedupActivity, WalkEnds,
          SaveCursor, StopPull, Deliver, PersistStep, mcpVars
    <2> QED BY <1>2, <1>5, <2>1, WorkerOpensNothing DEF WorkerFrame
  <1> QED
    BY <1>2, <1>3, <1>4, <1>5, StepCases DEF Tick, vars, mcpVars
-----------------------------------------------------------------------------
(***************************************************************************)
(* An append of a pull adds an activity to the chain and to what is to be  *)
(* counted; an append of an event adds neither.                            *)
(***************************************************************************)
LEMMA CommitUnmetered ==
    ASSUME Chain!TypeOK, Chain!ChainIntegrity, TasksInv, PullsInv, MeterInv,
           NEW w \in Workers, AppendProgress(w)
    PROVE  MeterInv'
  <1>0. /\ TaskInv(w) /\ usage \in Nat /\ IsFiniteSet(Unmetered) /\ failures \in Nat
        /\ UNCHANGED <<pull, running, usage, failures>>
    BY ProgressEffect, IngestAssumption DEF TasksInv, MeterInv, streamVars, mcpVars
  <1>f. IsFiniteSet(ActivityRows)
    <2>1. IsFiniteSet(rows)
      BY DEF Chain!TypeOK, Chain!IsFiniteSet, IsFiniteSet
    <2> QED BY <2>1, FS_Subset DEF ActivityRows
  <1>1. \A v \in Workers \ {w} : phase'[v] = phase[v]
    BY ProgressEffect DEF ChainFrame
  <1>2. w \notin Unmetered
    BY ProgressEffect DEF Unmetered
  <1>3. CASE ~Chain!CommitRow(w)
    <2>1. UNCHANGED rows
      BY <1>3, ProgressEffect DEF ChainFrame
    <2>2. Unmetered' = Unmetered
      BY <1>0, <1>1, <1>2, <1>3, ProgressEffect DEF Unmetered
    <2> QED BY <1>0, <2>1, <2>2 DEF MeterInv, ActivityRows
  <1>4. CASE Chain!CommitRow(w)
    <2>1. phase[w] = "inserted" /\ rows' = rows \union {candidate[w]} /\ phase'[w] = "done"
      BY <1>4, ProgressEffect DEF Chain!CommitRow
    <2>2. candidate[w] \notin rows
      <3>1. \A r \in rows : ~Chain!Collide(candidate[w], r)
        BY <2>1 DEF Chain!ChainIntegrity, Chain!InsertsExclusive
      <3> QED BY <3>1 DEF Chain!Collide, Chain!SameSlot
    <2>3. CASE pull[w].stage = "append"
      <3>1. candidate[w].key[1] = "compliance_activities"
        BY <1>0, <2>3 DEF TaskInv, ActivityKey
      <3>2. ActivityRows' = ActivityRows \union {candidate[w]} /\ candidate[w] \notin ActivityRows
        BY <2>1, <2>2, <3>1 DEF ActivityRows
      <3>3. Unmetered' = Unmetered \union {w}
        BY <1>0, <1>1, <2>1, <2>3 DEF Unmetered
      <3>4. Cardinality(ActivityRows') = Cardinality(ActivityRows) + 1
        BY <1>f, <3>2, FS_AddElement
      <3>5. Cardinality(Unmetered') = Cardinality(Unmetered) + 1 /\ IsFiniteSet(Unmetered')
        BY <1>0, <1>2, <3>3, FS_AddElement
      <3>6. Cardinality(ActivityRows) \in Nat /\ Cardinality(Unmetered) \in Nat
        BY <1>0, <1>f, FS_CardinalityType
      <3> QED BY <1>0, <3>4, <3>5, <3>6 DEF MeterInv
    <2>4. CASE pull[w].stage # "append"
      <3>1. candidate[w].key[1] = "mcp"
        BY <1>0, <2>1, <2>4 DEF TaskInv, EventKey
      <3>2. ActivityRows' = ActivityRows
        BY <2>1, <3>1 DEF ActivityRows
      <3>3. Unmetered' = Unmetered
        BY <1>0, <1>1, <2>4 DEF Unmetered
      <3> QED BY <1>0, <3>2, <3>3 DEF MeterInv
    <2> QED BY <2>3, <2>4
  <1> QED BY <1>3, <1>4

(***************************************************************************)
(* Every activity appended is counted once, or lost to one failure.        *)
(***************************************************************************)
LEMMA MeterStep ==
    Chain!TypeOK /\ Chain!ChainIntegrity /\ FeedInv /\ TasksInv /\ PullsInv /\ MeterInv
      /\ [Next]_vars => MeterInv'
  <1> SUFFICES ASSUME Chain!TypeOK, Chain!ChainIntegrity, FeedInv, TasksInv, PullsInv,
                      MeterInv, [Next]_vars
               PROVE  MeterInv'
    OBVIOUS
  <1>0. usage \in Nat /\ IsFiniteSet(Unmetered) /\ failures \in Nat
    BY IngestAssumption DEF TasksInv, MeterInv
  <1>1. CASE UNCHANGED <<chainVars, pull, usage, failures>>
    BY <1>1 DEF MeterInv, ActivityRows, Unmetered, chainVars
  <1>2. ASSUME NEW w \in Workers, WorkerStep(w), WorkerFrame(w), ~AppendProgress(w)
        PROVE  MeterInv'
    <2>1. rows' = rows
      BY <1>2 DEF WorkerFrame, ChainFrame, AppendProgress, WorkerStep, PullStep, StartPull,
                  WalkEnds, SaveCursor, NextActivity, MeterActivity, DedupActivity, StopPull, Deliver,
                  PersistStep, EventPersisted, EventDeduped, RetryEvent, KillTask, AbandonAppend,
                  Chain!ReadTip, Chain!TakeResult, Chain!RollBack, chainVars
    <2>2. \A v \in Workers \ {w} : v \in Unmetered' <=> v \in Unmetered
      BY <1>2 DEF WorkerFrame, ChainFrame, Unmetered
    <2>3. Unmetered \ {w} \subseteq Unmetered' /\ Unmetered' \subseteq Unmetered \union {w}
      BY <2>2 DEF Unmetered
    <2>4. w \notin Unmetered'
      <3>1. CASE StartPull(w) \/ WalkEnds(w) \/ SaveCursor(w)
        <4>1. pull[w].stage # "append" /\ running[w] = NoMessage
          BY <3>1 DEF StartPull, WalkEnds, SaveCursor, Free, TasksInv, TaskInv
        <4>2. phase'[w] = "idle"
          BY <3>1, <4>1 DEF StartPull, WalkEnds, SaveCursor, TasksInv, TaskInv, chainVars
        <4> QED BY <4>2 DEF Unmetered
      <3>2. CASE ~(StartPull(w) \/ WalkEnds(w) \/ SaveCursor(w))
        <4>1. phase'[w] # "done"
          BY <1>2, <3>2, ReadEffect, EndEffect
          DEF WorkerStep, PullStep, NextActivity, MeterActivity, DedupActivity, StopPull, Deliver,
              PersistStep, EventPersisted, EventDeduped, RetryEvent, KillTask
        <4> QED BY <4>1 DEF Unmetered
      <3> QED BY <3>1, <3>2
    <2>5. Unmetered' = Unmetered \ {w}
      BY <2>3, <2>4
    <2>6. /\ IsFiniteSet(Unmetered')
          /\ Cardinality(Unmetered') = IF w \in Unmetered THEN Cardinality(Unmetered) - 1
                                       ELSE Cardinality(Unmetered)
      BY <1>0, <2>5, FS_RemoveElement
    <2>7. Cardinality(Unmetered) \in Nat /\ Cardinality(ActivityRows) \in Nat
      <3>1. IsFiniteSet(rows)
        BY DEF Chain!TypeOK, Chain!IsFiniteSet, IsFiniteSet
      <3>2. IsFiniteSet(ActivityRows)
        BY <3>1, FS_Subset DEF ActivityRows
      <3> QED BY <1>0, <3>2, FS_CardinalityType
    <2>8. \/ w \in Unmetered /\ usage' = usage + 1 /\ failures' = failures
          \/ w \in Unmetered /\ usage' = usage /\ failures' = failures + 1
          \/ w \notin Unmetered /\ usage' = usage /\ failures <= failures' /\ failures' \in Nat
      <3>1. failures' \in Nat /\ failures <= failures'
        BY <1>0, <1>2, WorkerKeepsBroker
      <3>2. CASE MeterActivity(w)
        BY <3>2 DEF MeterActivity, Unmetered
      <3>3. CASE StopPull(w)
        BY <3>1, <3>3 DEF StopPull
      <3>4. CASE ~MeterActivity(w) /\ ~StopPull(w)
        <4>1. usage' = usage
          BY <1>2, <3>4 DEF WorkerStep, PullStep, StartPull, NextActivity, DedupActivity, WalkEnds,
             SaveCursor, Deliver, PersistStep, EventPersisted, EventDeduped, RetryEvent, KillTask,
             streamVars
        <4>2. w \notin Unmetered
          BY <1>2, <3>4
          DEF WorkerStep, PullStep, StartPull, NextActivity, DedupActivity, WalkEnds, SaveCursor,
              Deliver, PersistStep, EventPersisted, EventDeduped, RetryEvent, KillTask, Free,
              Unmetered, TasksInv, TaskInv
        <4> QED BY <3>1, <4>1, <4>2
      <3> QED BY <3>2, <3>3, <3>4
    <2>9. ActivityRows' = ActivityRows
      BY <2>1 DEF ActivityRows
    <2> QED BY <1>0, <2>6, <2>7, <2>8, <2>9 DEF MeterInv
  <1> QED
    BY <1>1, <1>2, StepCases, CommitUnmetered
    DEF Tick, LogInteraction, vars, streamVars
-----------------------------------------------------------------------------
(***************************************************************************)
(* At first no task runs, and nothing is listed, logged or counted.        *)
(***************************************************************************)
LEMMA IngestInit == Init => IngestInv
  <1> SUFFICES ASSUME Init PROVE IngestInv
    OBVIOUS
  <1>0. /\ rows = {} /\ phase = [w \in Workers |-> "idle"]
        /\ MaxTime \in Nat /\ MaxFailures \in Nat
    BY IngestAssumption DEF Init, Chain!ChainInit
  <1>1. FeedInv
    BY FeedInit
  <1>2. TasksInv
    BY <1>0, IngestAssumption DEF Init, TasksInv, TaskInv, IdlePull
  <1>3. PullsInv
    BY <1>0 DEF Init, PullsInv, PullInv, PullRecord, IdlePull, Stages
  <1>4. ReachInv /\ ActivitiesAccounted /\ EventsAccounted
    BY DEF Init, ReachInv, ActivitiesAccounted, EventsAccounted, IdlePull
  <1>5. ActivityRows = {} /\ Unmetered = {}
    BY <1>0 DEF Init, ActivityRows, Unmetered, IdlePull
  <1>6. MeterInv
    BY <1>0, <1>5, FS_EmptySet DEF Init, MeterInv
  <1> QED BY <1>1, <1>2, <1>3, <1>4, <1>6 DEF IngestInv

(***************************************************************************)
(* The invariant of every behaviour.                                       *)
(***************************************************************************)
THEOREM IngestInvariant == Spec => []IngestInv
  <1>1. IngestInv /\ Chain!TypeOK /\ Chain!ChainIntegrity /\ [Next]_vars => IngestInv'
    BY FeedStep, TasksStep, PullsStep, ReachStep, ActivitiesStep, EventsStep, MeterStep
    DEF IngestInv
  <1> QED
    BY IngestInit, <1>1, ChainAlwaysTyped, IngestKeepsChainWhole, PTL DEF Spec

(***************************************************************************)
(* The chain holds an activity once: as many as times at the most.         *)
(***************************************************************************)
LEMMA ActivityRowsBounded ==
    ASSUME Chain!TypeOK, Chain!ChainIntegrity
    PROVE  IsFiniteSet(ActivityRows) /\ Cardinality(ActivityRows) <= MaxTime
  <1>1. ASSUME NEW r \in ActivityRows
        PROVE  r \in rows /\ r.tenant = Tenant
               /\ \E a \in 1..MaxTime : r.key = ActivityKey(a)
    <2>1. r \in rows /\ r.key[1] = "compliance_activities"
      BY DEF ActivityRows
    <2>2. r.tenant \in {Tenant} /\ r.key \in ChainKeys
      BY <2>1 DEF Chain!TypeOK, Chain!IsRow
    <2> QED BY <2>1, <2>2 DEF ChainKeys, ActivityKey, EventKey
  <1> DEFINE f == [r \in ActivityRows |-> r.key[2]]
  <1>2. f \in [ActivityRows -> 1..MaxTime]
    BY <1>1 DEF ActivityKey
  <1>3. ASSUME NEW r \in ActivityRows, NEW s \in ActivityRows, f[r] = f[s] PROVE r = s
    <2>1. r.key = s.key /\ r.tenant = s.tenant /\ r \in rows /\ s \in rows
      BY <1>1, <1>3 DEF ActivityKey
    <2> QED
      BY <2>1 DEF Chain!ChainIntegrity, Chain!NoFork, Chain!Collide, Chain!SameKey
  <1> HIDE DEF f
  <1>4. f \in Injection(ActivityRows, 1..MaxTime)
    BY <1>2, <1>3 DEF Injection, IsInjective
  <1>5. IsFiniteSet(1..MaxTime) /\ Cardinality(1..MaxTime) = MaxTime
    BY FS_Interval, IngestAssumption, SMTT(30)
  <1> QED BY <1>4, <1>5, FS_Injection

(***************************************************************************)
(* The tasks keep their types: nothing is counted beyond what there is.    *)
(***************************************************************************)
THEOREM IngestTypeCorrect == Spec => []TypeOK
  <1>1. IngestInv /\ Chain!TypeOK /\ Chain!ChainIntegrity => TypeOK
    <2> SUFFICES ASSUME IngestInv, Chain!TypeOK, Chain!ChainIntegrity PROVE TypeOK
      OBVIOUS
    <2>0. MaxTime \in Nat /\ clock \in 0..MaxTime /\ feed \subseteq 1..clock
      BY IngestAssumption DEF IngestInv, FeedInv
    <2>1. /\ Chain!TypeOK /\ feed \subseteq 1..MaxTime /\ cursor \in 0..MaxTime
          /\ broker \subseteq Messages /\ running \in [Workers -> Messages \union {NoMessage}]
          /\ logged \subseteq Events /\ failed \subseteq Events
          /\ raced \subseteq ChainKeys /\ capped \subseteq 1..MaxTime
          /\ failures \in 0..MaxFailures
      BY <2>0 DEF IngestInv, PullsInv, TasksInv, ReachInv
    <2>2. usage \in 0..MaxTime
      <3>1. Cardinality(Unmetered) \in Nat /\ Cardinality(ActivityRows) \in Nat
        BY ActivityRowsBounded, FS_CardinalityType DEF IngestInv, MeterInv
      <3> QED BY <2>0, <3>1, ActivityRowsBounded DEF IngestInv, MeterInv
    <2>3. ASSUME NEW p \in Workers PROVE pull[p] \in PullState
      <3>1. pull[p] \in PullRecord /\ PullInv(p)
        BY DEF IngestInv, PullsInv
      <3>2. pull[p].count \in 0..MaxTime
        BY <2>0, <3>1 DEF PullRecord, PullInv, Stages
      <3> QED BY <3>1, <3>2 DEF PullRecord, PullState
    <2>4. pull \in [Workers -> PullState]
      BY <2>3 DEF IngestInv, PullsInv
    <2> QED BY <2>0, <2>1, <2>2, <2>4 DEF TypeOK
  <1> QED
    BY <1>1, IngestInvariant, ChainAlwaysTyped, IngestKeepsChainWhole, PTL

(***************************************************************************)
(* pull_activities_for_tenant: whatever overlaps, fails or is written back *)
(* to the cursor, what is older than the cursor is in the chain, except    *)
(* for what the dedup handler dropped and what a page cap skipped.         *)
(***************************************************************************)
THEOREM ActivitiesAccountedHolds == Spec => []ActivitiesAccounted
  BY IngestInvariant, PTL DEF IngestInv

(***************************************************************************)
(* log_interaction and persist_event: an interaction the client was told   *)
(* is logged is in the chain, with the broker, failed or was refused, for  *)
(* any number of deliveries, retries and deaths.                           *)
(***************************************************************************)
THEOREM EventsAccountedHolds == Spec => []EventsAccounted
  BY IngestInvariant, PTL DEF IngestInv

(***************************************************************************)
(* increment(tenant_id, "activity"): billing counts no activity twice, and *)
(* misses at most one per failure.                                         *)
(***************************************************************************)
THEOREM MeterTracksChainHolds == Spec => []MeterTracksChain
  <1>1. IngestInv /\ Chain!TypeOK /\ Chain!ChainIntegrity => MeterTracksChain
    <2> SUFFICES ASSUME IngestInv, Chain!TypeOK, Chain!ChainIntegrity PROVE MeterTracksChain
      OBVIOUS
    <2>1. Cardinality(Unmetered) \in Nat /\ Cardinality(ActivityRows) \in Nat
      BY ActivityRowsBounded, FS_CardinalityType DEF IngestInv, MeterInv
    <2>2. usage \in Nat /\ failures \in Nat
      BY IngestAssumption DEF IngestInv, MeterInv, TasksInv
    <2> QED BY <2>1, <2>2 DEF IngestInv, MeterInv, MeterTracksChain
  <1> QED
    BY <1>1, IngestInvariant, ChainAlwaysTyped, IngestKeepsChainWhole, PTL
=============================================================================
