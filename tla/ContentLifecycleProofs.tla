----------------------- MODULE ContentLifecycleProofs -----------------------
(***************************************************************************)
(* Proofs about ContentLifecycle, for any chats and messages, any number   *)
(* of overlapping pulls and deletions, and any number of faults.  What     *)
(* carries them is that a ref belongs to one pull and one message: no      *)
(* pull, late as it may be, writes, cleans up or ties to a row a blob that *)
(* another row has; and that what a running pull has not accounted for is  *)
(* still ahead of it, in its todo, its listing or its later calls.         *)
(***************************************************************************)
EXTENDS ContentLifecycle, FiniteSetTheorems, TLAPS

PullRecord == [stage : {"idle", "batch", "chat", "message", "append", "clean",
                        "save", "done"},
               start : 0..MaxTime, began : 0..MaxTime, seen : 0..MaxTime,
               batch : 1..(Len(Batches) + 1), listing : SUBSET Messages,
               todo : SUBSET Messages, ref : Refs \union {NoRef},
               chats : 0..MaxChats, touched : BOOLEAN]

JobRecord == [stage : {"idle", "next", "event", "done"}, todo : SUBSET Messages,
              msg : Messages \union {NoMessage}]

\* A chat's newest message is the one that its listing shows.
ProviderInv ==
    /\ clock \in 0..MaxTime
    /\ messages \subseteq Chats \X (1..clock)
    /\ \A m \in messages : \E n \in messages : n[1] = m[1] /\ m[2] <= n[2] /\ Newest(n)
    /\ cursor \in (0..clock) \union {NoCursor}

FaultsInv == races \in Nat /\ failures \in Nat /\ races + failures <= MaxFaults

\* Where the locals of a pull stand at each of its stages.
PullInv(w) ==
    /\ pull[w].seen <= clock /\ pull[w].began <= clock
    /\ pull[w].listing \subseteq messages /\ pull[w].todo \subseteq messages
    /\ pull[w].stage \in {"chat", "message", "append", "clean"}
          => pull[w].batch <= Len(Batches)
    /\ pull[w].stage \notin {"save", "done"} => pull[w].chats < MaxChats
    /\ pull[w].stage \in {"append", "clean"} => pull[w].ref \in messages \X {w}

PullsInv == pull \in [Pulls -> PullRecord] /\ \A w \in Pulls : PullInv(w)

\* A row refers to a blob of its message.
RecordsInv == /\ records \subseteq messages \X Refs
              /\ \A r \in records : r[1] = r[2][1]
              /\ blobs \subseteq Refs /\ IsFiniteSet(blobs)

\* A blob that a pull writes next, or has written and not tied to a row, is no row's.
RefInv(w) ==
    /\ \A m \in pull[w].todo, r \in records : r[2] # <<m, w>>
    /\ pull[w].stage \in {"append", "clean"} =>
          /\ pull[w].ref[1] \notin pull[w].todo
          /\ \A r \in records : r[2] # pull[w].ref
    /\ pull[w].stage = "append" => pull[w].ref \in blobs

RefsInv == \A w \in Pulls : RefInv(w)

\* A deletion is about rows that it, or another one, selected.
JobInv(a) ==
    /\ job[a].todo \subseteq asked
    /\ job[a].stage # "event" => job[a].msg = NoMessage
    /\ job[a].stage = "event" =>
          /\ job[a].msg \in asked
          /\ Stored(job[a].msg) => job[a].msg \in kept

JobsInv == /\ job \in [Requests -> JobRecord]
           /\ events \subseteq asked /\ asked \subseteq Captured /\ kept \subseteq asked
           /\ \A a \in Requests : JobInv(a)

\* Neither captured nor excused.
Open == {m \in messages : m \notin Captured /\ m \notin excused}

InCalls(m, b) == \E d \in b..Len(Batches) : m[1] \in Batches[d]

\* Pull w has yet to come to message m.
Ahead(w, m) ==
    \/ pull[w].stage = "batch" /\ InCalls(m, pull[w].batch)
    \/ /\ pull[w].stage \in {"chat", "message", "append", "clean"}
       /\ InCalls(m, pull[w].batch + 1) \/ \E l \in pull[w].listing : l[1] = m[1]
    \/ pull[w].stage \in {"message", "append", "clean"} /\ m \in pull[w].todo
    \/ pull[w].stage = "append" /\ m = pull[w].ref[1]

\* Its chat has been updated since pull w started from there.
Surfaces(w, m) == \E n \in messages : n[1] = m[1] /\ n[2] >= pull[w].start

\* A pull that runs will come to every open message, unless it is stopped.
CoverInv ==
    /\ excused \subseteq messages \ Captured
    /\ \A w \in Running : \A m \in Open : Surfaces(w, m) /\ Ahead(w, m)

ContentInv == /\ ProviderInv /\ FaultsInv /\ PullsInv /\ RecordsInv /\ RefsInv /\ JobsInv
              /\ CoverInv /\ ContentAccounted /\ ProofMeansGone /\ BlobsMatchRows
-----------------------------------------------------------------------------
(***************************************************************************)
(* At first nothing is written, stored, running or excused.                *)
(***************************************************************************)
LEMMA ContentInit == Init => ContentInv
  <1> SUFFICES ASSUME Init PROVE ContentInv
    OBVIOUS
  <1>1. IsFiniteSet({}) /\ Cardinality({}) = 0
    BY FS_EmptySet
  <1>l. Len(Batches) \in Nat
    BY ContentAssumption
  <1>2. ProviderInv /\ FaultsInv
    BY ContentAssumption DEF Init, ProviderInv, FaultsInv
  <1>3. PullsInv
    <2>1. IdlePull \in PullRecord
      BY <1>l, ContentAssumption DEF IdlePull, PullRecord
    <2>2. IdlePull.chats < MaxChats
      BY ContentAssumption DEF IdlePull
    <2> QED BY <2>1, <2>2 DEF Init, PullsInv, PullInv, IdlePull
  <1>4. RecordsInv
    BY <1>1 DEF Init, RecordsInv
  <1>5. RefsInv
    BY DEF Init, RefsInv, RefInv, IdlePull
  <1>6. JobsInv
    BY DEF Init, JobsInv, JobInv, JobRecord, IdleJob, Captured
  <1>7. CoverInv /\ ContentAccounted /\ ProofMeansGone
    BY DEF Init, CoverInv, ContentAccounted, ProofMeansGone, Running, IdlePull, Open
  <1>8. BlobsMatchRows
    <2>1. Orphans = {} /\ Captured = {}
      BY DEF Init, Orphans, Captured
    <2> QED BY <1>1, <2>1 DEF Init, BlobsMatchRows
  <1> QED BY <1>2, <1>3, <1>4, <1>5, <1>6, <1>7, <1>8 DEF ContentInv

\* A step of pull w leaves alone what is the provider's, the deletions' and the
\* other pulls', and what only some of its actions write.
PullFrame(w) ==
    /\ UNCHANGED <<provider, events, job, asked, kept>>
    /\ \A v \in Pulls \ {w} : pull'[v] = pull[v]
    /\ SaveCursor(w) \/ UNCHANGED cursor
    /\ AppendMessage(w) \/ UNCHANGED records
    /\ (\E m \in messages : StoreContent(w, m)) \/ CleanOrphan(w) \/ UNCHANGED blobs
    /\ StartPull(w) \/ AppendMessage(w) \/ RefuseMessage(w) \/ EndChat(w) \/ UNCHANGED excused
    /\ \/ UNCHANGED <<races, failures>>
       \/ LostRace /\ UNCHANGED failures
       \/ (CleanOrphan(w) \/ StopPull(w)) /\ Failure /\ UNCHANGED races

\* So does a step of deletion a.
JobFrame(a) ==
    /\ UNCHANGED <<provider, cursor, records, pull, excused>>
    /\ \A b \in Requests \ {a} : job'[b] = job[b]
    /\ (\E C \in Scopes : StartDeletion(a, C)) \/ UNCHANGED asked
    /\ (\E m \in messages : DeleteBlob(a, m)) \/ UNCHANGED <<blobs, kept>>
    /\ AppendEvent(a) \/ UNCHANGED events
    /\ \/ UNCHANGED <<races, failures>>
       \/ LostRace /\ UNCHANGED failures
       \/ Failure /\ UNCHANGED races

(***************************************************************************)
(* Each action of a pull keeps to that frame.                              *)
(***************************************************************************)
LEMMA PullStepFrame ==
    ASSUME PullsInv, NEW w \in Pulls, PullStep(w) PROVE PullFrame(w)
  <1> USE DEF PullsInv, PullFrame, provider, store, history
  <1>1. CASE StartPull(w)
    BY <1>1 DEF StartPull
  <1>2. CASE ListBatch(w)
    BY <1>2 DEF ListBatch
  <1>3. ASSUME NEW m \in messages, FetchChat(w, m) PROVE PullFrame(w)
    BY <1>3 DEF FetchChat
  <1>4. ASSUME NEW m \in messages, StoreContent(w, m) PROVE PullFrame(w)
    BY <1>4 DEF StoreContent
  <1>5. CASE AppendMessage(w)
    BY <1>5 DEF AppendMessage
  <1>6. CASE RefuseMessage(w)
    BY <1>6 DEF RefuseMessage, Duplicate, OutRaced
  <1>7. CASE CleanOrphan(w)
    BY <1>7 DEF CleanOrphan
  <1>8. CASE EndChat(w)
    BY <1>8 DEF EndChat
  <1>9. CASE SaveCursor(w)
    BY <1>9 DEF SaveCursor
  <1>10. CASE StopPull(w)
    BY <1>10 DEF StopPull
  <1> QED
    BY <1>1, <1>2, <1>3, <1>4, <1>5, <1>6, <1>7, <1>8, <1>9, <1>10 DEF PullStep

(***************************************************************************)
(* Each action of a deletion keeps to its own.                             *)
(***************************************************************************)
LEMMA JobStepFrame ==
    ASSUME JobsInv, NEW a \in Requests, JobStep(a) PROVE JobFrame(a)
  <1> USE DEF JobsInv, JobFrame, provider, store, history
  <1>1. ASSUME NEW C \in Scopes, StartDeletion(a, C) PROVE JobFrame(a)
    BY <1>1 DEF StartDeletion
  <1>2. ASSUME NEW m \in messages, DeleteBlob(a, m) PROVE JobFrame(a)
    BY <1>2 DEF DeleteBlob
  <1>3. CASE AppendEvent(a)
    BY <1>3 DEF AppendEvent
  <1>4. CASE StopJob(a)
    BY <1>4 DEF StopJob
  <1> QED
    BY <1>1, <1>2, <1>3, <1>4 DEF JobStep

(***************************************************************************)
(* A step is a message written, a step of one pull or of one deletion, or  *)
(* none; each within its frame.                                            *)
(***************************************************************************)
LEMMA StepCases ==
    ASSUME PullsInv, JobsInv, [Next]_vars
    PROVE  \/ \E c \in Chats : WriteMessage(c)
           \/ \E w \in Pulls : PullStep(w) /\ PullFrame(w)
           \/ \E a \in Requests : JobStep(a) /\ JobFrame(a)
           \/ UNCHANGED vars
  BY PullStepFrame, JobStepFrame DEF Next
-----------------------------------------------------------------------------
(***************************************************************************)
(* Messages, rows and what was asked are never removed.                    *)
(***************************************************************************)
LEMMA NothingUnwritten ==
    ASSUME PullsInv, JobsInv, [Next]_vars
    PROVE  messages \subseteq messages' /\ records \subseteq records' /\ Captured \subseteq Captured'
  <1>1. messages \subseteq messages'
    BY StepCases DEF WriteMessage, PullFrame, JobFrame, provider, vars
  <1>2. records \subseteq records'
    BY StepCases DEF WriteMessage, PullFrame, AppendMessage, JobFrame, store, vars
  <1> QED BY <1>1, <1>2 DEF Captured

(***************************************************************************)
(* A message is newer than every other.                                    *)
(***************************************************************************)
LEMMA WriteKeepsProvider ==
    ASSUME ProviderInv, NEW c \in Chats, WriteMessage(c) PROVE ProviderInv'
  <1>0. PICK new : new = <<c, clock + 1>>
    OBVIOUS
  <1>1. /\ clock \in Nat /\ clock' = clock + 1 /\ clock' \in 0..MaxTime
        /\ messages' = messages \union {new} /\ cursor' = cursor
    BY <1>0, ContentAssumption DEF WriteMessage, ProviderInv, store
  <1>2. messages' \subseteq Chats \X (1..clock')
    BY <1>0, <1>1 DEF ProviderInv
  <1>3. \A m \in messages : m[2] \in Nat /\ m[2] <= clock
    BY <1>1 DEF ProviderInv
  <1>4. new \in messages' /\ new[1] = c /\ new[2] = clock + 1
    BY <1>0, <1>1
  <1>5. \A m \in messages' : m[2] <= clock + 1
    BY <1>1, <1>3, <1>4
  <1>6. Newest(new)'
    BY <1>4, <1>5 DEF Newest
  <1>7. ASSUME NEW m \in messages, m[1] # c
        PROVE  \E n \in messages' : n[1] = m[1] /\ m[2] <= n[2] /\ Newest(n)'
    <2>1. PICK n \in messages : n[1] = m[1] /\ m[2] <= n[2] /\ Newest(n)
      BY DEF ProviderInv
    <2>2. Newest(n)'
      BY <1>1, <1>4, <1>7, <2>1 DEF Newest
    <2> QED BY <1>1, <2>1, <2>2
  <1>8. \A m \in messages' : \E n \in messages' : n[1] = m[1] /\ m[2] <= n[2] /\ Newest(n)'
    BY <1>1, <1>4, <1>5, <1>6, <1>7
  <1>9. cursor' \in (0..clock') \union {NoCursor}
    BY <1>1 DEF ProviderInv
  <1> QED BY <1>1, <1>2, <1>8, <1>9 DEF ProviderInv

(***************************************************************************)
(* A cursor is a time that some pull saw.                                  *)
(***************************************************************************)
LEMMA ProviderStep == ProviderInv /\ PullsInv /\ JobsInv /\ [Next]_vars => ProviderInv'
  <1> SUFFICES ASSUME ProviderInv, PullsInv, JobsInv, [Next]_vars PROVE ProviderInv'
    OBVIOUS
  <1>1. CASE UNCHANGED <<provider, cursor>>
    BY <1>1 DEF provider, ProviderInv, Newest
  <1>2. ASSUME NEW w \in Pulls, SaveCursor(w) PROVE ProviderInv'
    <2>1. pull[w].seen \in 0..clock /\ pull[w].began \in 0..clock
      BY ContentAssumption DEF PullsInv, PullInv, PullRecord, ProviderInv
    <2>2. cursor' \in 0..clock /\ UNCHANGED provider
      BY <1>2, <2>1 DEF SaveCursor
    <2> QED BY <2>2 DEF provider, ProviderInv, Newest
  <1> QED
    BY <1>1, <1>2, StepCases, WriteKeepsProvider DEF PullFrame, JobFrame, vars

(***************************************************************************)
(* Faults are counted, and bounded.                                        *)
(***************************************************************************)
LEMMA FaultsStep == FaultsInv /\ PullsInv /\ JobsInv /\ [Next]_vars => FaultsInv'
  <1> SUFFICES ASSUME FaultsInv, PullsInv, JobsInv, [Next]_vars PROVE FaultsInv'
    OBVIOUS
  <1>1. \/ UNCHANGED <<races, failures>>
        \/ LostRace /\ UNCHANGED failures
        \/ Failure /\ UNCHANGED races
    BY StepCases DEF WriteMessage, PullFrame, JobFrame, vars, history
  <1> QED BY <1>1, ContentAssumption DEF FaultsInv, LostRace, Failure
-----------------------------------------------------------------------------
(***************************************************************************)
(* A pull starts at a time that has come.                                  *)
(***************************************************************************)
LEMMA StartingTime ==
    ASSUME ProviderInv PROVE StartingAt \in 0..clock
  BY ContentAssumption DEF ProviderInv, StartingAt

(***************************************************************************)
(* The locals of the pull that steps keep their types, action by action.   *)
(***************************************************************************)
LEMMA PullStepTyped ==
    ASSUME ProviderInv, PullsInv, NEW w \in Pulls, PullStep(w)
    PROVE  pull'[w] \in PullRecord /\ PullInv(w)'
  <1> DEFINE p == pull[w]
             Typed == pull'[w] \in PullRecord /\ PullInv(w)'
  <1>p. p \in PullRecord /\ PullInv(w) /\ w \in DOMAIN pull
    BY DEF PullsInv
  <1>c. /\ MaxChats \in Nat \ {0} /\ MaxTime \in Nat /\ Len(Batches) \in Nat
        /\ clock \in 0..MaxTime /\ StartingAt \in 0..clock
    BY ContentAssumption, StartingTime DEF ProviderInv
  <1>m. messages \subseteq Messages /\ \A m \in messages : m[2] \in 0..clock
    BY <1>c DEF ProviderInv, Messages
  <1>i. IdlePull \in PullRecord /\ DonePull \in PullRecord
    <2>1. IdlePull \in PullRecord
      BY <1>c DEF IdlePull, PullRecord
    <2> QED BY <2>1 DEF DonePull, PullRecord
  <1>1. CASE StartPull(w)
    <2>1. pull'[w] = [IdlePull EXCEPT !.stage = "batch", !.start = StartingAt,
                                      !.began = clock, !.seen = StartingAt]
      BY <1>1, <1>p DEF StartPull
    <2>2. pull'[w] \in PullRecord
      <3>1. StartingAt \in 0..MaxTime /\ clock \in 0..MaxTime
        BY <1>c
      <3> QED BY <2>1, <3>1, <1>i DEF PullRecord
    <2>3. /\ pull'[w].stage = "batch" /\ pull'[w].seen = StartingAt /\ pull'[w].began = clock
          /\ pull'[w].listing = {} /\ pull'[w].todo = {} /\ pull'[w].chats = 0
      BY <2>1 DEF IdlePull
    <2> QED BY <1>1, <1>c, <2>2, <2>3 DEF StartPull, PullInv, provider
  <1>2. CASE ListBatch(w)
    <2>1. Listing(w) \subseteq messages
      BY DEF Listing
    <2>2. CASE Listing(w) = {}
      <3>1. pull'[w] = [p EXCEPT !.batch = p.batch + 1] /\ UNCHANGED <<messages, clock>>
        BY <1>2, <1>p, <2>2 DEF ListBatch, provider
      <3>2. p.batch + 1 \in 1..(Len(Batches) + 1) /\ p.stage = "batch"
        BY <1>2, <1>p, <1>c DEF ListBatch, PullRecord
      <3> QED BY <3>1, <3>2, <1>p DEF PullRecord, PullInv
    <2>3. CASE Listing(w) # {}
      <3>1. /\ pull'[w] = [p EXCEPT !.stage = "chat", !.listing = Listing(w)]
            /\ UNCHANGED <<messages, clock>> /\ p.batch <= Len(Batches) /\ p.stage = "batch"
        BY <1>2, <1>p, <2>3 DEF ListBatch, provider
      <3> QED BY <3>1, <1>p, <1>m, <2>1, ZenonT(60) DEF PullRecord, PullInv
    <2> QED BY <2>2, <2>3
  <1>3. ASSUME NEW m \in messages, FetchChat(w, m) PROVE Typed
    <2>1. PICK seen, todo, touched :
             /\ pull'[w] = [p EXCEPT !.stage = "message", !.listing = @ \ {m},
                                     !.seen = seen, !.todo = todo, !.touched = touched]
             /\ seen \in {p.seen, m[2]} /\ todo \subseteq messages /\ touched \in BOOLEAN
             /\ UNCHANGED <<messages, clock>> /\ p.stage = "chat"
      <3> DEFINE s == IF m[2] > p.seen THEN m[2] ELSE p.seen
                 t == {n \in messages : n[1] = m[1]} \ Captured
                 u == p.touched \/ {n \in messages : n[1] = m[1]} \intersect Captured # {}
      <3>1. pull'[w] = [p EXCEPT !.stage = "message", !.listing = @ \ {m},
                                 !.seen = s, !.todo = t, !.touched = u]
        BY <1>3, <1>p DEF FetchChat
      <3>2. s \in {p.seen, m[2]} /\ t \subseteq messages /\ u \in BOOLEAN
        OBVIOUS
      <3>3. UNCHANGED <<messages, clock>> /\ p.stage = "chat"
        BY <1>3 DEF FetchChat, provider
      <3> HIDE DEF s, t, u
      <3> QED BY <3>1, <3>2, <3>3
    <2>2. seen \in 0..clock /\ seen \in 0..MaxTime
      BY <2>1, <1>p, <1>c, <1>m DEF PullRecord, PullInv
    <2>3. todo \subseteq Messages
      BY <1>m, <2>1
    <2>4. pull'[w] \in PullRecord
      BY <2>1, <2>2, <2>3, <1>p, ZenonT(60) DEF PullRecord
    <2>5. /\ pull'[w].stage = "message" /\ pull'[w].seen = seen /\ pull'[w].began = p.began
          /\ pull'[w].listing \subseteq p.listing /\ pull'[w].todo = todo
          /\ pull'[w].batch = p.batch /\ pull'[w].chats = p.chats
      BY <2>1, <1>p DEF PullRecord
    <2> QED BY <2>1, <2>2, <2>4, <2>5, <1>p, <1>c DEF PullInv
  <1>4. ASSUME NEW m \in messages, StoreContent(w, m) PROVE Typed
    <2>1. NewRef(w, m) \in Refs /\ NewRef(w, m) \in messages \X {w}
      BY <1>m DEF NewRef, Refs
    <2> QED BY <1>4, <1>p, <1>c, <2>1 DEF StoreContent, PullRecord, PullInv, provider
  <1>5. CASE AppendMessage(w)
    BY <1>5, <1>p, <1>c DEF AppendMessage, PullRecord, PullInv, provider
  <1>6. CASE RefuseMessage(w)
    BY <1>6, <1>p, <1>c DEF RefuseMessage, PullRecord, PullInv, provider
  <1>7. CASE CleanOrphan(w)
    BY <1>7, <1>p, <1>c DEF CleanOrphan, PullRecord, PullInv, provider
  <1>8. CASE EndChat(w)
    <2>1. UNCHANGED <<messages, clock>> /\ p.stage = "message" /\ p.chats + 1 \in 0..MaxChats
      BY <1>8, <1>p, <1>c DEF EndChat, provider, PullRecord, PullInv
    <2>2. CASE p.chats + 1 >= MaxChats
      <3>1. pull'[w] = [p EXCEPT !.chats = @ + 1, !.stage = "save", !.listing = {}]
        BY <1>8, <1>p, <2>2 DEF EndChat, AfterChat
      <3> QED BY <3>1, <2>1, <1>p DEF PullRecord, PullInv
    <2>3. CASE p.chats + 1 < MaxChats /\ p.listing = {}
      <3>1. pull'[w] = [p EXCEPT !.chats = @ + 1, !.stage = "batch", !.batch = @ + 1]
        BY <1>8, <1>p, <1>c, <2>3 DEF EndChat, AfterChat, PullRecord
      <3>2. p.batch + 1 \in 1..(Len(Batches) + 1)
        BY <2>1, <1>p, <1>c DEF PullRecord, PullInv
      <3> QED BY <3>1, <3>2, <2>1, <2>3, <1>p DEF PullRecord, PullInv
    <2>4. CASE p.chats + 1 < MaxChats /\ p.listing # {}
      <3>1. pull'[w] = [p EXCEPT !.chats = @ + 1, !.stage = "chat"]
        BY <1>8, <1>p, <1>c, <2>4 DEF EndChat, AfterChat, PullRecord
      <3> QED BY <3>1, <2>1, <2>4, <1>p DEF PullRecord, PullInv
    <2> QED BY <2>2, <2>3, <2>4, <1>p, <1>c, SMTT(30) DEF PullRecord
  <1>9. CASE SaveCursor(w) \/ StopPull(w)
    <2>1. pull'[w] = DonePull /\ UNCHANGED <<messages, clock>>
      BY <1>9, <1>p DEF SaveCursor, StopPull, provider
    <2> QED BY <2>1, <1>i, <1>c DEF DonePull, IdlePull, PullInv
  <1> QED
    BY <1>1, <1>2, <1>3, <1>4, <1>5, <1>6, <1>7, <1>8, <1>9 DEF PullStep

(***************************************************************************)
(* So do those of all: what a pull holds stays among the messages.         *)
(***************************************************************************)
LEMMA PullsStep == ProviderInv /\ PullsInv /\ JobsInv /\ [Next]_vars => PullsInv'
  <1> SUFFICES ASSUME ProviderInv, PullsInv, JobsInv, [Next]_vars PROVE PullsInv'
    OBVIOUS
  <1>1. messages \subseteq messages' /\ clock \in Nat /\ clock' \in Nat /\ clock <= clock'
    BY NothingUnwritten, ProviderStep, StepCases, ContentAssumption
    DEF ProviderInv, WriteMessage, PullFrame, JobFrame, provider, vars
  <1>2. ASSUME NEW v \in Pulls, pull'[v] = pull[v] PROVE PullInv(v)'
    BY <1>1, <1>2, ContentAssumption DEF PullsInv, PullRecord, PullInv
  <1>3. CASE pull' = pull
    BY <1>2, <1>3 DEF PullsInv
  <1>4. ASSUME NEW w \in Pulls, PullStep(w), PullFrame(w) PROVE PullsInv'
    <2>1. pull'[w] \in PullRecord /\ PullInv(w)'
      BY <1>4, PullStepTyped
    <2>2. \A v \in Pulls \ {w} : pull'[v] = pull[v]
      BY <1>4 DEF PullFrame
    <2>3. \A v \in Pulls : pull'[v] \in PullRecord /\ PullInv(v)'
      BY <1>2, <2>1, <2>2 DEF PullsInv
    <2>4. pull' = [v \in Pulls |-> pull'[v]]
      BY <1>4 DEF PullsInv, PullStep, StartPull, ListBatch, FetchChat, StoreContent,
                  AppendMessage, RefuseMessage, CleanOrphan, EndChat, SaveCursor, StopPull
    <2> QED BY <2>3, <2>4 DEF PullsInv
  <1> QED
    BY <1>3, <1>4, StepCases DEF WriteMessage, JobFrame, vars
-----------------------------------------------------------------------------
(***************************************************************************)
(* A row is of the message that its blob is of.                            *)
(***************************************************************************)
LEMMA RecordsStep == RecordsInv /\ ProviderInv /\ PullsInv /\ JobsInv /\ [Next]_vars => RecordsInv'
  <1> SUFFICES ASSUME RecordsInv, ProviderInv, PullsInv, JobsInv, [Next]_vars PROVE RecordsInv'
    OBVIOUS
  <1>1. messages \subseteq messages' /\ messages \subseteq Messages
    BY NothingUnwritten, ContentAssumption DEF ProviderInv, Messages
  <1>2. UNCHANGED blobs \/ blobs' \subseteq blobs \/ \E b \in Refs : blobs' = blobs \union {b}
    <2>1. ASSUME NEW w \in Pulls, NEW m \in messages PROVE NewRef(w, m) \in Refs
      BY <1>1 DEF NewRef, Refs
    <2> QED BY StepCases, <2>1
      DEF WriteMessage, PullFrame, StoreContent, CleanOrphan, JobFrame, DeleteBlob, store, vars
  <1>3. blobs' \subseteq Refs
    BY <1>2 DEF RecordsInv
  <1>4. IsFiniteSet(blobs')
    <2>1. IsFiniteSet(blobs)
      BY DEF RecordsInv
    <2>2. \A b : IsFiniteSet(blobs \union {b})
      BY <2>1, FS_AddElement
    <2> QED BY <1>2, <2>1, <2>2, FS_Subset
  <1>5. \/ UNCHANGED records
        \/ \E w \in Pulls : AppendMessage(w)
    BY StepCases DEF WriteMessage, PullFrame, JobFrame, store, vars
  <1>6. \A r \in records' : r \in messages \X Refs /\ r[1] = r[2][1]
    <2>1. ASSUME NEW w \in Pulls, AppendMessage(w)
          PROVE  \A r \in records' : r \in messages \X Refs /\ r[1] = r[2][1]
      <3>1. pull[w].ref \in messages \X {w}
        BY <2>1 DEF AppendMessage, PullsInv, PullInv
      <3>2. <<pull[w].ref[1], pull[w].ref>> \in messages \X Refs
        BY <1>1, <3>1 DEF Refs
      <3>3. \A r \in records' : r \in records \/ r = <<pull[w].ref[1], pull[w].ref>>
        BY <2>1 DEF AppendMessage
      <3> QED BY <3>2, <3>3 DEF RecordsInv
    <2> QED BY <1>5, <2>1 DEF RecordsInv
  <1> QED BY <1>1, <1>3, <1>4, <1>6 DEF RecordsInv

(***************************************************************************)
(* A pull stores a message once: it leaves the todo, which a chat's        *)
(* captured messages do not enter.                                         *)
(***************************************************************************)
LEMMA PullKeepsRefs ==
    ASSUME RecordsInv, PullsInv, RefsInv, NEW w \in Pulls, PullStep(w), PullFrame(w)
    PROVE  RefInv(w)'
  <1> USE DEF RefInv
  <1>p. pull \in [Pulls -> PullRecord]
    BY DEF PullsInv
  <1>2. CASE StartPull(w)
    BY <1>2, <1>p DEF StartPull, IdlePull
  <1>3. CASE ListBatch(w)
    <2>1. pull'[w].todo = pull[w].todo /\ pull'[w].stage \in {"batch", "chat"} /\ UNCHANGED records
      BY <1>3, <1>p DEF ListBatch, store, PullRecord
    <2> QED BY <2>1 DEF RefsInv
  <1>4. ASSUME NEW m \in messages, FetchChat(w, m) PROVE RefInv(w)'
    <2>1. /\ pull'[w].todo \intersect Captured = {} /\ pull'[w].stage = "message"
          /\ UNCHANGED records
      BY <1>4, <1>p, ZenonT(60) DEF FetchChat, store, PullRecord
    <2>2. ASSUME NEW r \in records, NEW n \in pull'[w].todo, r[2] = <<n, w>> PROVE FALSE
      BY <2>1, <2>2 DEF RecordsInv, Captured
    <2> QED BY <2>1, <2>2
  <1>5. ASSUME NEW m \in messages, StoreContent(w, m) PROVE RefInv(w)'
    BY <1>5, <1>p DEF StoreContent, NewRef, RefsInv, PullRecord
  <1>6. CASE AppendMessage(w)
    <2>1. /\ pull'[w].todo = pull[w].todo /\ pull'[w].stage = "message"
          /\ records' = records \union {<<pull[w].ref[1], pull[w].ref>>}
          /\ pull[w].ref[1] \notin pull[w].todo
      BY <1>6, <1>p DEF AppendMessage, PullRecord, RefsInv
    <2> QED BY <2>1 DEF RefsInv
  <1>7. CASE RefuseMessage(w)
    <2>1. /\ pull'[w].todo = pull[w].todo /\ pull'[w].stage = "clean" /\ pull'[w].ref = pull[w].ref
          /\ pull[w].stage = "append" /\ UNCHANGED records
      BY <1>7, <1>p DEF RefuseMessage, PullRecord, store
    <2> QED BY <2>1 DEF RefsInv
  <1>8. CASE CleanOrphan(w)
    BY <1>8, <1>p DEF CleanOrphan, RefsInv, PullRecord
  <1>9. CASE EndChat(w)
    <2>1. pull[w].todo = {} /\ UNCHANGED records
      BY <1>9 DEF EndChat, store
    <2>2. pull'[w].todo = {} /\ pull'[w].stage \in {"save", "batch", "chat"}
      BY <1>9, <1>p, <2>1 DEF EndChat, AfterChat, PullRecord
    <2> QED BY <2>1, <2>2
  <1>10. CASE SaveCursor(w) \/ StopPull(w)
    BY <1>10, <1>p DEF SaveCursor, StopPull, DonePull, IdlePull
  <1> QED BY <1>2, <1>3, <1>4, <1>5, <1>6, <1>7, <1>8, <1>9, <1>10 DEF PullStep

(***************************************************************************)
(* The refs of other pulls differ; and a deletion removes the blobs of     *)
(* rows, and none that a pull has yet to tie to one.                       *)
(***************************************************************************)
LEMMA RefsStep == RecordsInv /\ PullsInv /\ JobsInv /\ RefsInv /\ [Next]_vars => RefsInv'
  <1> SUFFICES ASSUME RecordsInv, PullsInv, JobsInv, RefsInv, [Next]_vars PROVE RefsInv'
    OBVIOUS
  <1>1. CASE UNCHANGED <<records, pull, blobs>>
    BY <1>1 DEF RefsInv, RefInv
  <1>2. ASSUME NEW a \in Requests, JobStep(a), JobFrame(a) PROVE RefsInv'
    <2>1. UNCHANGED <<records, pull>>
      BY <1>2 DEF JobFrame
    <2>2. \A b \in blobs : b \in blobs' \/ \E r \in records : r[2] = b
      BY <1>2, ZenonT(60) DEF JobFrame, DeleteBlob, RefsOf
    <2> QED BY <2>1, <2>2 DEF RefsInv, RefInv
  <1>3. ASSUME NEW w \in Pulls, PullStep(w), PullFrame(w), NEW v \in Pulls \ {w}
        PROVE  RefInv(v)'
    <2>1. pull'[v] = pull[v]
      BY <1>3 DEF PullFrame
    <2>2. \A r \in records' : r \in records \/ r[2] \in messages \X {w}
      BY <1>3 DEF PullFrame, AppendMessage, PullsInv, PullInv
    <2>3. pull[v].stage \in {"append", "clean"} => pull[v].ref \in messages \X {v}
      BY DEF PullsInv, PullInv
    <2>4. \A b \in blobs : b \in blobs' \/ b \in messages \X {w}
      BY <1>3 DEF PullFrame, StoreContent, CleanOrphan, PullsInv, PullInv
    <2> QED BY <2>1, <2>2, <2>3, <2>4 DEF RefsInv, RefInv
  <1>4. ASSUME NEW w \in Pulls, PullStep(w), PullFrame(w) PROVE RefsInv'
    BY <1>3, <1>4, PullKeepsRefs DEF RefsInv
  <1> QED
    BY <1>1, <1>2, <1>4, StepCases DEF WriteMessage, store, vars
-----------------------------------------------------------------------------
(***************************************************************************)
(* A captured message has the rows it had: nothing is captured twice.      *)
(***************************************************************************)
LEMMA RowsKeepTheirRefs ==
    ASSUME RecordsInv, PullsInv, JobsInv, [Next]_vars, NEW m \in Captured
    PROVE  RefsOf(m)' = RefsOf(m)
  <1>1. UNCHANGED records \/ \E w \in Pulls : AppendMessage(w)
    BY StepCases DEF WriteMessage, PullFrame, JobFrame, store, vars
  <1>2. ASSUME NEW w \in Pulls, AppendMessage(w) PROVE RefsOf(m)' = RefsOf(m)
    <2>1. \A r : r[1] = m /\ r \in records' => r \in records
      BY <1>2 DEF AppendMessage
    <2>2. records \subseteq records'
      BY <1>2 DEF AppendMessage
    <2> QED BY <2>1, <2>2 DEF RefsOf
  <1> QED BY <1>1, <1>2 DEF RefsOf

(***************************************************************************)
(* The blob of a row that is gone stays gone; and a message whose blob     *)
(* delete failed leaves kept with its blobs only.                          *)
(***************************************************************************)
LEMMA GoneStaysGone ==
    ASSUME RecordsInv, PullsInv, JobsInv, RefsInv, [Next]_vars, NEW m \in Captured, Stored(m)'
    PROVE  Stored(m) /\ (m \in kept => m \in kept')
  <1>1. RefsOf(m)' = RefsOf(m)
    BY RowsKeepTheirRefs
  <1>2. \A b \in RefsOf(m) : \E r \in records : r[2] = b
    BY DEF RefsOf
  <1>3. \/ UNCHANGED kept /\ \A b \in blobs' : b \in blobs \/ \A r \in records : r[2] # b
        \/ \E a \in Requests, n \in messages : DeleteBlob(a, n)
    <2>1. ASSUME NEW w \in Pulls, PullFrame(w), NEW b \in blobs'
          PROVE  b \in blobs \/ \A r \in records : r[2] # b
      <3>1. ASSUME NEW n \in messages, StoreContent(w, n)
            PROVE  b \in blobs \/ (b = <<n, w>> /\ n \in pull[w].todo)
        BY <3>1 DEF StoreContent, NewRef
      <3>2. b \in blobs \/ \E n \in pull[w].todo : b = <<n, w>>
        BY <2>1, <3>1 DEF PullFrame, CleanOrphan
      <3> QED BY <3>2 DEF RefsInv, RefInv
    <2>2. \A w \in Pulls : PullFrame(w) => UNCHANGED kept
      BY DEF PullFrame
    <2>3. \A a \in Requests :
             JobFrame(a) => UNCHANGED <<blobs, kept>> \/ \E n \in messages : DeleteBlob(a, n)
      BY DEF JobFrame
    <2>4. (\E c \in Chats : WriteMessage(c)) \/ UNCHANGED vars => UNCHANGED <<blobs, kept>>
      BY DEF WriteMessage, store, history, vars
    <2> QED BY <2>1, <2>2, <2>3, <2>4, StepCases
  <1>4. ASSUME NEW a \in Requests, NEW n \in messages, DeleteBlob(a, n)
        PROVE  Stored(m) /\ (m \in kept => m \in kept')
    <2>1. \/ blobs' = blobs \ RefsOf(n) /\ kept' = kept \ {n}
          \/ blobs' = blobs /\ kept \subseteq kept'
      BY <1>4 DEF DeleteBlob
    <2>2. CASE n = m
      BY <1>1, <2>1, <2>2 DEF Stored
    <2>3. CASE n # m
      BY <1>1, <2>1, <2>3 DEF Stored
    <2> QED BY <2>2, <2>3
  <1> QED BY <1>1, <1>2, <1>3, <1>4 DEF Stored

(***************************************************************************)
(* A deletion's event comes after its blob delete.                         *)
(***************************************************************************)
LEMMA JobsStep ==
    RecordsInv /\ ProviderInv /\ PullsInv /\ JobsInv /\ RefsInv /\ [Next]_vars => JobsInv'
  <1> SUFFICES ASSUME RecordsInv, ProviderInv, PullsInv, JobsInv, RefsInv, [Next]_vars
               PROVE  JobsInv'
    OBVIOUS
  <1>1. Captured \subseteq Captured' /\ Captured \subseteq Messages
    BY NothingUnwritten, ContentAssumption DEF RecordsInv, ProviderInv, Messages, Captured
  <1>2. asked \subseteq asked'
    BY StepCases DEF WriteMessage, PullFrame, JobFrame, StartDeletion, history, vars
  <1>3. ASSUME NEW m \in asked, Stored(m) => m \in kept PROVE Stored(m)' => m \in kept'
    BY <1>3, GoneStaysGone DEF JobsInv
  <1>4. ASSUME NEW b \in Requests, job'[b] = job[b] PROVE JobInv(b)'
    BY <1>2, <1>3, <1>4 DEF JobsInv, JobInv
  <1>5. CASE UNCHANGED <<job, events, asked, kept>>
    BY <1>1, <1>4, <1>5 DEF JobsInv
  <1>6. ASSUME NEW a \in Requests, JobStep(a), JobFrame(a) PROVE JobsInv'
    <2> DEFINE Fine == /\ job' = [job EXCEPT ![a] = job'[a]] /\ job'[a] \in JobRecord /\ JobInv(a)'
                       /\ events' \subseteq asked' /\ asked' \subseteq Captured'
                       /\ kept' \subseteq asked'
    <2>t. job \in [Requests -> JobRecord] /\ job[a] \in JobRecord /\ JobInv(a)
      BY DEF JobsInv
    <2>k. /\ IdleJob \in JobRecord /\ DoneJob \in JobRecord
          /\ DoneJob.todo = {} /\ DoneJob.stage = "done" /\ DoneJob.msg = NoMessage
      BY DEF IdleJob, DoneJob, JobRecord
    <2>1. ASSUME NEW C \in Scopes, StartDeletion(a, C) PROVE Fine
      <3>1. PICK S : /\ S \subseteq Captured /\ asked' = asked \union S
                     /\ job' = [job EXCEPT ![a] = [IdleJob EXCEPT !.stage = "next", !.todo = S]]
        BY <2>1 DEF StartDeletion
      <3>2. job'[a] = [stage |-> "next", todo |-> S, msg |-> NoMessage]
        BY <2>t, <3>1 DEF IdleJob
      <3>3. job'[a] \in JobRecord
        <4>1. S \in SUBSET Messages
          BY <1>1, <3>1
        <4> QED BY <3>2, <4>1 DEF JobRecord
      <3>4. UNCHANGED <<events, kept, records>>
        BY <2>1 DEF StartDeletion, store
      <3> QED BY <2>t, <3>1, <3>2, <3>3, <3>4 DEF JobInv, JobsInv, Captured
    <2>2. ASSUME NEW m \in messages, DeleteBlob(a, m) PROVE Fine
      <3>1. /\ job' = [job EXCEPT ![a].stage = "event", ![a].msg = m, ![a].todo = @ \ {m}]
            /\ m \in asked /\ m \in Captured
            /\ UNCHANGED <<records, events, asked>>
        BY <2>2, <2>t DEF DeleteBlob, JobInv, JobsInv
      <3>2. /\ job'[a].stage = "event" /\ job'[a].msg = m /\ job'[a].todo \subseteq job[a].todo
            /\ job' = [job EXCEPT ![a] = job'[a]] /\ job'[a] \in JobRecord
        BY <1>1, <2>t, <3>1 DEF JobRecord
      <3>3. kept' \subseteq asked' /\ (Stored(m)' => m \in kept')
        <4>1. \/ blobs' = blobs \ RefsOf(m) /\ kept' = kept \ {m}
              \/ kept' = kept \union {m}
          BY <2>2 DEF DeleteBlob
        <4>2. RefsOf(m)' = RefsOf(m)
          BY <3>1 DEF RefsOf
        <4> QED BY <3>1, <4>1, <4>2 DEF Stored, JobsInv
      <3> QED BY <2>t, <3>1, <3>2, <3>3 DEF JobInv, JobsInv, Captured
    <2>3. ASSUME AppendEvent(a) PROVE Fine
      <3>1. /\ events' \subseteq events \union {job[a].msg} /\ job[a].stage = "event"
            /\ UNCHANGED <<records, asked, kept>>
        BY <2>3 DEF AppendEvent
      <3>2. /\ job'[a] \in JobRecord /\ job'[a].todo \subseteq job[a].todo
            /\ job'[a].stage # "event" /\ job'[a].msg = NoMessage
            /\ job' = [job EXCEPT ![a] = job'[a]]
        <4>1. CASE job[a].todo = {}
          BY <2>3, <2>t, <2>k, <4>1 DEF AppendEvent
        <4>2. CASE job[a].todo # {}
          BY <2>3, <2>t, <4>2 DEF AppendEvent, JobRecord
        <4> QED BY <4>1, <4>2
      <3> QED BY <2>t, <3>1, <3>2 DEF JobInv, JobsInv, Captured
    <2>4. ASSUME StopJob(a) PROVE Fine
      BY <2>4, <2>t, <2>k DEF StopJob, JobInv, JobsInv, Captured, store
    <2>5. Fine
      BY <1>6, <2>1, <2>2, <2>3, <2>4 DEF JobStep
    <2>6. \A b \in Requests : job'[b] \in JobRecord /\ JobInv(b)'
      BY <1>4, <1>6, <2>5 DEF JobsInv, JobFrame
    <2> QED BY <2>t, <2>5, <2>6 DEF JobsInv
  <1> QED
    BY <1>5, <1>6, StepCases DEF WriteMessage, PullFrame, store, history, vars

(***************************************************************************)
(* An event stands over blobs that are gone, or kept.                      *)
(***************************************************************************)
LEMMA ProofsStep ==
    RecordsInv /\ PullsInv /\ JobsInv /\ RefsInv /\ ProofMeansGone /\ [Next]_vars
      => ProofMeansGone'
  <1> SUFFICES ASSUME RecordsInv, PullsInv, JobsInv, RefsInv, ProofMeansGone, [Next]_vars
               PROVE  ProofMeansGone'
    OBVIOUS
  <1>1. \A m \in events' : m \in asked /\ (Stored(m) => m \in kept)
    BY StepCases, ZenonT(60)
    DEF WriteMessage, PullFrame, JobFrame, AppendEvent, store, vars,
        JobsInv, JobInv, ProofMeansGone
  <1> QED BY <1>1, GoneStaysGone DEF ProofMeansGone, JobsInv
-----------------------------------------------------------------------------
(***************************************************************************)
(* A row is written over a blob that is there; the rows that lose theirs   *)
(* were asked for.                                                         *)
(***************************************************************************)
LEMMA RowsKeepTheirBlobs ==
    ASSUME RecordsInv, PullsInv, JobsInv, RefsInv, [Next]_vars,
           \A m \in Captured \ asked : Stored(m)
    PROVE  (\A m \in Captured \ asked : Stored(m))'
  <1>1. asked \subseteq asked'
    BY StepCases DEF WriteMessage, PullFrame, JobFrame, StartDeletion, history, vars
  <1>2. ASSUME NEW m \in Captured, m \notin asked PROVE Stored(m)'
    <2>1. PICK b \in RefsOf(m) : b \in blobs
      BY <1>2 DEF Stored
    <2>2. PICK r \in records : r[1] = m /\ r[2] = b
      BY <2>1 DEF RefsOf
    <2>3. ASSUME NEW w \in Pulls, PullFrame(w) PROVE b \in blobs'
      BY <2>1, <2>2, <2>3
      DEF PullFrame, StoreContent, CleanOrphan, RefsInv, RefInv
    <2>4. ASSUME NEW a \in Requests, JobFrame(a) PROVE b \in blobs'
      <3>1. ASSUME NEW n \in messages, DeleteBlob(a, n) PROVE b \notin RefsOf(n)
        <4>1. n # m
          BY <1>2, <3>1 DEF DeleteBlob, JobsInv, JobInv
        <4> QED BY <2>2, <4>1 DEF RefsOf, RecordsInv
      <3> QED BY <2>1, <2>4, <3>1 DEF JobFrame, DeleteBlob
    <2>5. (\E c \in Chats : WriteMessage(c)) \/ UNCHANGED vars => b \in blobs'
      BY <2>1 DEF WriteMessage, store, vars
    <2>6. b \in blobs'
      BY <2>3, <2>4, <2>5, StepCases
    <2>7. RefsOf(m)' = RefsOf(m)
      BY RowsKeepTheirRefs
    <2> QED BY <2>1, <2>6, <2>7 DEF Stored
  <1>3. ASSUME NEW w \in Pulls, AppendMessage(w), NEW m \in Captured', m \notin Captured
        PROVE  Stored(m)'
    <2>1. /\ records' = records \union {<<pull[w].ref[1], pull[w].ref>>}
          /\ blobs' = blobs /\ pull[w].ref \in blobs
      BY <1>3 DEF AppendMessage, RefsInv, RefInv
    <2>2. m = pull[w].ref[1]
      BY <1>3, <2>1 DEF Captured
    <2>3. pull[w].ref \in RefsOf(m)'
      <3>1. PICK r : r = <<pull[w].ref[1], pull[w].ref>>
        OBVIOUS
      <3>2. r \in records' /\ r[1] = m /\ r[2] = pull[w].ref
        BY <2>1, <2>2, <3>1
      <3> QED BY <3>2 DEF RefsOf
    <2> QED BY <2>1, <2>3 DEF Stored
  <1>4. UNCHANGED records \/ \E w \in Pulls : AppendMessage(w)
    BY StepCases DEF WriteMessage, PullFrame, JobFrame, store, vars
  <1>5. \A m \in Captured' \ asked' : Stored(m)'
    BY <1>1, <1>2, <1>3, <1>4 DEF Captured
  <1> QED BY <1>5

(***************************************************************************)
(* A pull orphans a blob only where its clean-up fails or it is stopped.   *)
(***************************************************************************)
LEMMA PullOrphans ==
    ASSUME PullsInv, NEW w \in Pulls, PullStep(w), PullFrame(w)
    PROVE  \/ Orphans' \subseteq Orphans
           \/ Failure /\ Orphans' \subseteq Orphans \union {pull[w].ref}
  <1> DEFINE Holds == pull[w].stage \in {"append", "clean"}
             Others == {pull[v].ref : v \in {u \in Pulls \ {w} :
                                                 pull[u].stage \in {"append", "clean"}}}
  <1>p. pull \in [Pulls -> PullRecord]
    BY DEF PullsInv
  <1>1. Pending = Others \union (IF Holds THEN {pull[w].ref} ELSE {})
    BY DEF Pending
  <1>2. Pending' = Others \union (IF Holds' THEN {pull'[w].ref} ELSE {})
    BY DEF Pending, PullFrame
  <1> HIDE DEF Others
  <1>3. ASSUME UNCHANGED <<records, blobs>>, Holds => Holds' /\ pull'[w].ref = pull[w].ref
        PROVE  Orphans' \subseteq Orphans
    BY <1>1, <1>2, <1>3 DEF Orphans
  <1>4. CASE StartPull(w) \/ ListBatch(w) \/ EndChat(w)
    BY <1>3, <1>4 DEF StartPull, ListBatch, EndChat, store
  <1>5. ASSUME NEW m \in messages, FetchChat(w, m) PROVE Orphans' \subseteq Orphans
    <2>1. ~Holds /\ pull'[w].ref = pull[w].ref /\ UNCHANGED <<records, blobs>>
      BY <1>5, <1>p, ZenonT(60) DEF FetchChat, store, PullRecord
    <2> QED BY <1>3, <2>1
  <1>6. ASSUME NEW m \in messages, StoreContent(w, m) PROVE Orphans' \subseteq Orphans
    <2>1. /\ ~Holds /\ pull'[w].ref = NewRef(w, m) /\ pull'[w].stage = "append"
          /\ blobs' = blobs \union {NewRef(w, m)} /\ UNCHANGED records
      BY <1>6, <1>p DEF StoreContent, PullRecord
    <2> QED BY <1>1, <1>2, <2>1 DEF Orphans
  <1>7. CASE AppendMessage(w)
    <2>1. /\ records' = records \union {<<pull[w].ref[1], pull[w].ref>>}
          /\ UNCHANGED blobs
      BY <1>7 DEF AppendMessage
    <2>2. \E r \in records' : r[2] = pull[w].ref
      <3>1. PICK r : r = <<pull[w].ref[1], pull[w].ref>>
        OBVIOUS
      <3> QED BY <2>1, <3>1
    <2> QED BY <1>1, <1>2, <2>1, <2>2 DEF Orphans
  <1>8. CASE RefuseMessage(w)
    <2>1. /\ pull'[w].ref = pull[w].ref /\ pull'[w].stage = "clean"
          /\ UNCHANGED <<records, blobs>>
      BY <1>8, <1>p DEF RefuseMessage, store, PullRecord
    <2> QED BY <1>3, <2>1
  <1>9. CASE CleanOrphan(w)
    <2>1. \/ blobs' = blobs \ {pull[w].ref}
          \/ Failure /\ blobs' = blobs
      BY <1>9 DEF CleanOrphan
    <2>2. UNCHANGED records
      BY <1>9 DEF CleanOrphan
    <2> QED BY <1>1, <1>2, <2>1, <2>2 DEF Orphans
  <1>10. CASE StopPull(w)
    BY <1>1, <1>2, <1>10 DEF StopPull, store, Orphans
  <1>11. CASE SaveCursor(w)
    BY <1>3, <1>11 DEF SaveCursor, store
  <1> QED
    BY <1>4, <1>5, <1>6, <1>7, <1>8, <1>9, <1>10, <1>11 DEF PullStep

(***************************************************************************)
(* Orphans are as many as the failures, at most; and rows have blobs.      *)
(***************************************************************************)
LEMMA BlobsStep ==
    RecordsInv /\ FaultsInv /\ PullsInv /\ JobsInv /\ RefsInv /\ BlobsMatchRows /\ [Next]_vars
      => BlobsMatchRows'
  <1> SUFFICES ASSUME RecordsInv, FaultsInv, PullsInv, JobsInv, RefsInv, BlobsMatchRows,
                      [Next]_vars
               PROVE  BlobsMatchRows'
    OBVIOUS
  <1>1. failures \in Nat /\ failures' \in Nat /\ failures <= failures'
    BY FaultsStep, StepCases DEF FaultsInv, WriteMessage, PullFrame, JobFrame, Failure, history, vars
  <1>2. \/ Orphans' \subseteq Orphans
        \/ \E b : failures' = failures + 1 /\ Orphans' \subseteq Orphans \union {b}
    <2>1. ASSUME NEW a \in Requests, JobFrame(a) PROVE Orphans' \subseteq Orphans
      <3>1. UNCHANGED <<records, pull>> /\ blobs' \subseteq blobs
        BY <2>1 DEF JobFrame, DeleteBlob
      <3> QED BY <3>1 DEF Orphans, Pending
    <2>2. (\E c \in Chats : WriteMessage(c)) \/ UNCHANGED vars => Orphans' \subseteq Orphans
      BY DEF WriteMessage, store, vars, Orphans, Pending
    <2> QED BY <2>1, <2>2, StepCases, PullOrphans DEF Failure
  <1>3. IsFiniteSet(Orphans)
    BY FS_Subset DEF RecordsInv, Orphans
  <1>4. Cardinality(Orphans) \in Nat /\ Cardinality(Orphans) <= failures
    BY <1>3, FS_CardinalityType DEF BlobsMatchRows
  <1>5. Cardinality(Orphans') <= failures'
    <2>1. CASE Orphans' \subseteq Orphans
      <3>1. Cardinality(Orphans') <= Cardinality(Orphans) /\ IsFiniteSet(Orphans')
        BY <1>3, <2>1, FS_Subset
      <3> QED BY <1>1, <1>4, <3>1, FS_CardinalityType
    <2>2. ASSUME NEW b, failures' = failures + 1, Orphans' \subseteq Orphans \union {b}
          PROVE  Cardinality(Orphans') <= failures'
      <3>1. /\ IsFiniteSet(Orphans \union {b})
            /\ Cardinality(Orphans \union {b}) \in {Cardinality(Orphans), Cardinality(Orphans) + 1}
        BY <1>3, FS_AddElement
      <3>2. /\ Cardinality(Orphans') <= Cardinality(Orphans \union {b})
            /\ IsFiniteSet(Orphans')
        BY <2>2, <3>1, FS_Subset
      <3> QED BY <1>1, <1>4, <2>2, <3>1, <3>2, FS_CardinalityType
    <2> QED BY <1>2, <2>1, <2>2
  <1>6. (\A m \in Captured \ asked : Stored(m))'
    BY RowsKeepTheirBlobs DEF BlobsMatchRows
  <1> QED BY <1>5, <1>6 DEF BlobsMatchRows
-----------------------------------------------------------------------------
(***************************************************************************)
(* Only a message written while no pull runs opens.                        *)
(***************************************************************************)
LEMMA PullOpensNothing ==
    ASSUME PullsInv, NEW w \in Pulls, PullStep(w), PullFrame(w) PROVE Open' \subseteq Open
  <1>1. UNCHANGED messages
    BY DEF PullFrame, provider
  <1>2. \A m \in Captured : m \in Captured'
    BY DEF PullFrame, AppendMessage, Captured
  <1>3. \A m \in excused : m \in excused' \/ m \in Captured'
    <2>1. CASE AppendMessage(w)
      <3>1. PICK r : r = <<pull[w].ref[1], pull[w].ref>>
        OBVIOUS
      <3>2. r \in records' /\ excused' = excused \ {r[1]}
        BY <2>1, <3>1 DEF AppendMessage
      <3> QED BY <3>2 DEF Captured
    <2> QED BY <2>1 DEF PullFrame, StartPull, RefuseMessage, Duplicate, OutRaced, EndChat
  <1> QED BY <1>1, <1>2, <1>3 DEF Open

(***************************************************************************)
(* What is excused is not captured.                                        *)
(***************************************************************************)
LEMMA ExcusedStep ==
    ProviderInv /\ RecordsInv /\ PullsInv /\ JobsInv /\ excused \subseteq messages \ Captured
      /\ [Next]_vars => excused' \subseteq messages' \ Captured'
  <1> SUFFICES ASSUME ProviderInv, RecordsInv, PullsInv, JobsInv, [Next]_vars,
                      excused \subseteq messages \ Captured
               PROVE  excused' \subseteq messages' \ Captured'
    OBVIOUS
  <1>1. CASE UNCHANGED <<messages, records, excused>>
    BY <1>1 DEF Captured
  <1>2. ASSUME NEW c \in Chats, WriteMessage(c) PROVE excused' \subseteq messages' \ Captured'
    <2>1. PICK new : new = <<c, clock + 1>>
      OBVIOUS
    <2>2. /\ messages' = messages \union {new} /\ excused' \subseteq excused \union {new}
          /\ Captured' = Captured
      BY <1>2, <2>1 DEF WriteMessage, store, Captured
    <2>3. new \notin messages
      BY <2>1, ContentAssumption DEF ProviderInv
    <2>4. Captured \subseteq messages
      BY DEF RecordsInv, Captured
    <2> QED BY <2>2, <2>3, <2>4
  <1>3. ASSUME NEW w \in Pulls, PullStep(w), PullFrame(w)
        PROVE  excused' \subseteq messages' \ Captured'
    <2>1. UNCHANGED messages
      BY <1>3 DEF PullFrame, provider
    <2>2. CASE AppendMessage(w)
      <3>1. /\ records' = records \union {<<pull[w].ref[1], pull[w].ref>>}
            /\ excused' = excused \ {pull[w].ref[1]}
        BY <2>2 DEF AppendMessage
      <3>2. \A m \in Captured' : m \in Captured \/ m = pull[w].ref[1]
        BY <3>1 DEF Captured
      <3> QED BY <2>1, <3>1, <3>2
    <2>3. CASE RefuseMessage(w)
      <3>1. pull[w].ref[1] \in messages
        BY <2>3 DEF RefuseMessage, PullsInv, PullInv
      <3>2. UNCHANGED records
        BY <2>3 DEF RefuseMessage, store
      <3> QED BY <2>1, <2>3, <3>1, <3>2 DEF RefuseMessage, Duplicate, OutRaced, Captured
    <2>4. CASE EndChat(w)
      <3>1. Unreached(w) \subseteq messages \ Captured /\ UNCHANGED records
        BY <2>4 DEF Unreached, EndChat, store
      <3> QED BY <2>1, <2>4, <3>1 DEF EndChat, Captured
    <2>5. CASE UNCHANGED <<records, excused>>
      BY <2>1, <2>5 DEF Captured
    <2>6. CASE StartPull(w)
      BY <2>1, <2>6 DEF StartPull, Dormant, store, Captured
    <2> QED BY <1>3, <2>2, <2>3, <2>4, <2>5, <2>6 DEF PullFrame
  <1> QED
    BY <1>1, <1>2, <1>3, StepCases DEF JobFrame, provider, store, history, vars

(***************************************************************************)
(* No action of a pull leaves an open message behind: a chat's newest      *)
(* message brings all of them into the todo, and a cap excuses the rest.   *)
(***************************************************************************)
LEMMA PullGoesOn ==
    ASSUME ProviderInv, PullsInv, CoverInv, ContentAccounted,
           NEW w \in Pulls, PullStep(w), PullFrame(w),
           pull'[w].stage \notin {"idle", "done"},
           NEW m \in Open, m \in Open'
    PROVE  Surfaces(w, m)' /\ Ahead(w, m)'
  <1> USE DEF PullsInv, PullInv
  <1>p. pull \in [Pulls -> PullRecord] /\ pull[w] \in PullRecord /\ Len(Batches) \in Nat
    BY ContentAssumption
  <1>m. m \in messages /\ m[1] \in Chats /\ m[2] \in Nat /\ messages' = messages
    BY ContentAssumption DEF Open, ProviderInv, PullFrame, provider
  <1>1. CASE StartPull(w)
    <2>1. pull'[w] = [IdlePull EXCEPT !.stage = "batch", !.start = StartingAt,
                                      !.began = clock, !.seen = StartingAt]
      BY <1>1, <1>p DEF StartPull
    <2>2. pull'[w].stage = "batch" /\ pull'[w].start = StartingAt /\ pull'[w].batch = 1
      BY <2>1 DEF IdlePull
    <2>3. \E n \in messages : n[1] = m[1] /\ n[2] >= StartingAt
      <3>1. StartingAt \in Nat /\ \A n \in messages : n[2] \in Nat
        BY StartingTime, ContentAssumption DEF ProviderInv
      <3>2. CASE cursor # NoCursor
        BY <1>m, <3>1, <3>2 DEF ContentAccounted, Open, StartingAt
      <3>3. CASE cursor = NoCursor
        <4>1. m \notin Dormant
          BY <1>1, <3>3 DEF StartPull, Open
        <4> QED BY <1>m, <3>1, <4>1 DEF Dormant, Open
      <3> QED BY <3>2, <3>3
    <2>4. InCalls(m, 1)
      BY <1>m, ContentAssumption DEF InCalls
    <2> QED BY <1>m, <2>2, <2>3, <2>4 DEF Ahead, InCalls, Surfaces
  <1> SUFFICES ASSUME ~StartPull(w) PROVE Surfaces(w, m)' /\ Ahead(w, m)'
    BY <1>1
  <1>2. /\ w \in Running => Surfaces(w, m) /\ Ahead(w, m)
        /\ pull[w].start \in Nat /\ pull[w].batch \in Nat
    BY <1>p, ContentAssumption DEF CoverInv, PullRecord
  <1>3. CASE ListBatch(w)
    <2>1. PICK n \in messages : n[1] = m[1] /\ m[2] <= n[2] /\ Newest(n)
      BY <1>m DEF ProviderInv
    <2>2. \A k \in messages : k[2] \in Nat
      BY ContentAssumption DEF ProviderInv
    <2>3. pull[w].stage = "batch" /\ InCalls(m, pull[w].batch) /\ Surfaces(w, m)
      BY <1>2, <1>3 DEF ListBatch, Running, Ahead
    <2>8. n[2] >= pull[w].start
      BY <1>2, <2>1, <2>2, <2>3 DEF Surfaces, Newest
    <2>4. m[1] \in Batches[pull[w].batch] => n \in Listing(w)
      BY <2>1, <2>8 DEF Listing
    <2>5. m[1] \in Batches[pull[w].batch] \/ InCalls(m, pull[w].batch + 1)
      BY <1>p, <1>2, <2>3 DEF InCalls
    <2>6. CASE Listing(w) = {}
      <3>1. /\ pull'[w].stage = "batch" /\ pull'[w].batch = pull[w].batch + 1
            /\ pull'[w].start = pull[w].start
        BY <1>3, <1>p, <2>6 DEF ListBatch, PullRecord
      <3> QED BY <1>m, <2>3, <2>4, <2>5, <2>6, <3>1 DEF Surfaces, Ahead, InCalls
    <2>7. CASE Listing(w) # {}
      <3>1. /\ pull'[w].stage = "chat" /\ pull'[w].batch = pull[w].batch
            /\ pull'[w].start = pull[w].start /\ pull'[w].listing = Listing(w)
        BY <1>3, <1>p, <2>7 DEF ListBatch, PullRecord
      <3> QED BY <1>m, <2>1, <2>3, <2>4, <2>5, <3>1 DEF Surfaces, Ahead, InCalls
    <2> QED BY <2>6, <2>7
  <1>4. ASSUME NEW l \in messages, FetchChat(w, l)
        PROVE  Surfaces(w, m)' /\ Ahead(w, m)'
    <2>1. /\ pull[w].stage = "chat" /\ pull'[w].stage = "message"
          /\ pull'[w].batch = pull[w].batch /\ pull'[w].start = pull[w].start
          /\ pull'[w].listing = pull[w].listing \ {l}
          /\ pull'[w].todo = {n \in messages : n[1] = l[1]} \ Captured
      BY <1>4, <1>p DEF FetchChat, PullRecord
    <2>2. /\ Surfaces(w, m)
          /\ InCalls(m, pull[w].batch + 1) \/ \E k \in pull[w].listing : k[1] = m[1]
      BY <1>2, <2>1 DEF Running, Ahead
    <2>3. \/ InCalls(m, pull[w].batch + 1)
          \/ \E k \in pull'[w].listing : k[1] = m[1]
          \/ m \in pull'[w].todo
      BY <1>m, <2>1, <2>2 DEF Open
    <2> QED BY <1>m, <2>1, <2>2, <2>3 DEF Surfaces, Ahead, InCalls
  <1>5. ASSUME NEW n \in messages, StoreContent(w, n)
        PROVE  Surfaces(w, m)' /\ Ahead(w, m)'
    <2>1. /\ pull[w].stage = "message" /\ pull'[w].stage = "append"
          /\ pull'[w].batch = pull[w].batch /\ pull'[w].start = pull[w].start
          /\ pull'[w].listing = pull[w].listing /\ pull'[w].todo = pull[w].todo \ {n}
          /\ pull'[w].ref[1] = n
      BY <1>5, <1>p DEF StoreContent, PullRecord, NewRef
    <2> QED BY <1>m, <1>2, <2>1 DEF Running, Surfaces, Ahead, InCalls
  <1>6. CASE AppendMessage(w) \/ RefuseMessage(w)
    <2>1. /\ pull[w].stage = "append" /\ pull'[w].stage \in {"message", "clean"}
          /\ pull'[w].batch = pull[w].batch /\ pull'[w].start = pull[w].start
          /\ pull'[w].listing = pull[w].listing /\ pull'[w].todo = pull[w].todo
      BY <1>6, <1>p DEF AppendMessage, RefuseMessage, PullRecord
    <2>2. m # pull[w].ref[1]
      <3>1. CASE AppendMessage(w)
        <4>1. PICK r : r = <<pull[w].ref[1], pull[w].ref>>
          OBVIOUS
        <4>2. r \in records' /\ r[1] = pull[w].ref[1]
          BY <3>1, <4>1 DEF AppendMessage
        <4> QED BY <4>2 DEF Open, Captured
      <3>2. CASE RefuseMessage(w)
        BY <3>2 DEF RefuseMessage, Duplicate, OutRaced, Open
      <3> QED BY <1>6, <3>1, <3>2
    <2> QED BY <1>m, <1>2, <2>1, <2>2 DEF Running, Surfaces, Ahead, InCalls
  <1>7. CASE CleanOrphan(w)
    <2>1. /\ pull[w].stage = "clean" /\ pull'[w].stage = "message"
          /\ pull'[w].batch = pull[w].batch /\ pull'[w].start = pull[w].start
          /\ pull'[w].listing = pull[w].listing /\ pull'[w].todo = pull[w].todo
      BY <1>7, <1>p DEF CleanOrphan, PullRecord
    <2> QED BY <1>m, <1>2, <2>1 DEF Running, Surfaces, Ahead, InCalls
  <1>8. CASE EndChat(w)
    <2>1. pull[w].stage = "message" /\ pull[w].todo = {}
      BY <1>8 DEF EndChat
    <2>2. /\ Surfaces(w, m)
          /\ InCalls(m, pull[w].batch + 1) \/ \E l \in pull[w].listing : l[1] = m[1]
      BY <1>2, <2>1 DEF Running, Ahead
    <2>3. m \in Unreached(w)
      BY <1>m, <2>2 DEF Unreached, Open, InCalls
    <2>4. ~(pull[w].chats + 1 >= MaxChats)
      BY <1>8, <2>3 DEF EndChat, Open
    <2>5. /\ pull'[w].start = pull[w].start /\ pull'[w].listing = pull[w].listing
          /\ IF pull[w].listing = {}
             THEN pull'[w].stage = "batch" /\ pull'[w].batch = pull[w].batch + 1
             ELSE pull'[w].stage = "chat" /\ pull'[w].batch = pull[w].batch
      BY <1>8, <1>p, <2>4 DEF EndChat, AfterChat, PullRecord
    <2> QED BY <1>m, <2>2, <2>5 DEF Surfaces, Ahead, InCalls
  <1>9. ~SaveCursor(w) /\ ~StopPull(w)
    BY <1>p DEF SaveCursor, StopPull, DonePull, IdlePull
  <1> QED BY <1>3, <1>4, <1>5, <1>6, <1>7, <1>8, <1>9 DEF PullStep

(***************************************************************************)
(* What is open stays ahead of every pull that runs.                       *)
(***************************************************************************)
LEMMA CoverStep ==
    ProviderInv /\ RecordsInv /\ PullsInv /\ JobsInv /\ CoverInv /\ ContentAccounted /\ [Next]_vars
      => CoverInv'
  <1> SUFFICES ASSUME ProviderInv, RecordsInv, PullsInv, JobsInv, CoverInv, ContentAccounted,
                      [Next]_vars
               PROVE  CoverInv'
    OBVIOUS
  <1>1. excused' \subseteq messages' \ Captured'
    BY ExcusedStep DEF CoverInv
  <1>2. ASSUME NEW v \in Pulls, pull'[v] = pull[v], v \in Running', Open' \subseteq Open,
               messages \subseteq messages', NEW m \in Open'
        PROVE  Surfaces(v, m)' /\ Ahead(v, m)'
    BY <1>2 DEF CoverInv, Running, Surfaces, Ahead, InCalls
  <1>3. CASE UNCHANGED <<pull, messages, records, excused>>
    <2>1. Open' \subseteq Open
      BY <1>3 DEF Open, Captured
    <2> QED BY <1>1, <1>2, <1>3, <2>1 DEF CoverInv, Running
  <1>4. ASSUME NEW c \in Chats, WriteMessage(c) PROVE CoverInv'
    <2>1. CASE Running = {}
      BY <1>1, <1>4, <2>1 DEF WriteMessage, CoverInv, Running
    <2>2. CASE Running # {}
      <3>1. Open' \subseteq Open
        BY <1>4, <2>2 DEF WriteMessage, Open, Captured, store
      <3> QED BY <1>1, <1>2, <1>4, <3>1 DEF WriteMessage, CoverInv, Running
    <2> QED BY <2>1, <2>2
  <1>5. ASSUME NEW w \in Pulls, PullStep(w), PullFrame(w) PROVE CoverInv'
    <2>1. Open' \subseteq Open /\ messages' = messages
      BY <1>5, PullOpensNothing DEF PullFrame, provider
    <2>2. ASSUME NEW v \in Running', NEW m \in Open'
          PROVE  Surfaces(v, m)' /\ Ahead(v, m)'
      <3>1. CASE v = w
        BY <1>5, <2>1, <2>2, <3>1, PullGoesOn DEF Running
      <3>2. CASE v # w
        BY <1>2, <1>5, <2>1, <2>2, <3>2 DEF PullFrame, Running
      <3> QED BY <3>1, <3>2
    <2> QED BY <1>1, <2>2 DEF CoverInv
  <1> QED
    BY <1>3, <1>4, <1>5, StepCases DEF JobFrame, provider, store, history, vars

(***************************************************************************)
(* A pull that saves its cursor has nothing ahead of it.                   *)
(***************************************************************************)
LEMMA AccountedStep ==
    ProviderInv /\ PullsInv /\ JobsInv /\ CoverInv /\ ContentAccounted /\ [Next]_vars
      => ContentAccounted'
  <1> SUFFICES ASSUME ProviderInv, PullsInv, JobsInv, CoverInv, ContentAccounted, [Next]_vars
               PROVE  ContentAccounted'
    OBVIOUS
  <1>1. CASE UNCHANGED <<messages, records, excused, cursor>>
    BY <1>1 DEF ContentAccounted, Captured
  <1>2. ASSUME NEW c \in Chats, WriteMessage(c) PROVE ContentAccounted'
    <2>1. PICK new : new = <<c, clock + 1>>
      OBVIOUS
    <2>2. /\ messages' = messages \union {new} /\ excused \subseteq excused'
          /\ UNCHANGED <<records, cursor>>
      BY <1>2, <2>1 DEF WriteMessage, store
    <2>3. ~(new[2] < cursor)
      BY <2>1, ContentAssumption DEF ProviderInv
    <2> QED BY <2>2, <2>3 DEF ContentAccounted, Captured
  <1>3. ASSUME NEW w \in Pulls, PullStep(w), PullFrame(w) PROVE ContentAccounted'
    <2>1. Open' \subseteq Open /\ UNCHANGED messages
      BY <1>3, PullOpensNothing DEF PullFrame, provider
    <2>2. CASE UNCHANGED cursor
      BY <2>1, <2>2 DEF ContentAccounted, Open
    <2>3. CASE SaveCursor(w)
      <3>1. pull[w].batch \in Nat /\ Len(Batches) \in Nat
        BY ContentAssumption DEF PullsInv, PullRecord
      <3>2. \A m \in Open : ~Ahead(w, m)
        BY <2>3, <3>1 DEF SaveCursor, Ahead, InCalls
      <3>3. w \in Running
        BY <2>3 DEF SaveCursor, Running
      <3>4. Open = {}
        BY <3>2, <3>3 DEF CoverInv
      <3> QED BY <2>1, <3>4 DEF ContentAccounted, Open
    <2> QED BY <1>3, <2>2, <2>3 DEF PullFrame
  <1> QED
    BY <1>1, <1>2, <1>3, StepCases DEF JobFrame, provider, store, history, vars
-----------------------------------------------------------------------------
(***************************************************************************)
(* The invariant of every behaviour.                                       *)
(***************************************************************************)
THEOREM ContentInvariant == Spec => []ContentInv
  <1>1. ContentInv /\ [Next]_vars => ContentInv'
    BY ProviderStep, FaultsStep, PullsStep, RecordsStep, RefsStep, JobsStep, ProofsStep,
       BlobsStep, CoverStep, AccountedStep
    DEF ContentInv
  <1> QED BY ContentInit, <1>1, PTL DEF Spec

(***************************************************************************)
(* The provider, the stores, the pulls and the deletions keep their types; *)
(* a deletion is only ever about captured messages.                        *)
(***************************************************************************)
THEOREM ContentTypeCorrect == Spec => []TypeOK
  <1>1. ContentInv => TypeOK
    <2> SUFFICES ASSUME ContentInv PROVE TypeOK
      OBVIOUS
    <2> USE DEF ContentInv
    <2>1. /\ clock \in 0..MaxTime /\ messages \subseteq Messages
          /\ cursor \in (0..clock) \union {NoCursor}
          /\ excused \subseteq messages \ Captured /\ races + failures \in 0..MaxFaults
      BY ContentAssumption DEF ProviderInv, FaultsInv, CoverInv, Messages
    <2>2. /\ records \subseteq messages \X Refs /\ blobs \subseteq Refs
          /\ events \subseteq Captured /\ asked \subseteq Captured /\ kept \subseteq asked
      BY DEF RecordsInv, JobsInv
    <2>3. ASSUME NEW w \in Pulls PROVE pull[w] \in PullState
      <3>1. /\ pull[w] \in PullRecord
            /\ pull[w].listing \in SUBSET messages /\ pull[w].todo \in SUBSET messages
        BY DEF PullsInv, PullInv
      <3> QED BY <3>1 DEF PullRecord, PullState
    <2>4. ASSUME NEW a \in Requests PROVE job[a] \in JobState
      <3>1. /\ job[a] \in JobRecord /\ job[a].todo \subseteq Captured
            /\ job[a].msg \in Captured \union {NoMessage}
        BY DEF JobsInv, JobInv
      <3> QED BY <3>1 DEF JobRecord, JobState
    <2>5. pull \in [Pulls -> PullState] /\ job \in [Requests -> JobState]
      BY <2>3, <2>4 DEF PullsInv, JobsInv
    <2> QED BY <2>1, <2>2, <2>5 DEF TypeOK
  <1> QED BY <1>1, ContentInvariant, PTL

(***************************************************************************)
(* delete_chat and delete_user_content: whenever an event proves that a    *)
(* message is deleted, its blob is gone, or its deletion was seen to fail. *)
(***************************************************************************)
THEOREM ProofMeansGoneHolds == Spec => []ProofMeansGone
  BY ContentInvariant, PTL DEF ContentInv

(***************************************************************************)
(* pull_content_for_tenant: a row that nobody asked to delete has its      *)
(* blob, however pulls of the same message race and clean up after each    *)
(* other; and only a failure leaves a blob behind.                         *)
(***************************************************************************)
THEOREM BlobsMatchRowsHolds == Spec => []BlobsMatchRows
  BY ContentInvariant, PTL DEF ContentInv

(***************************************************************************)
(* pull_content_for_tenant: the cursor passes no message that a pull could *)
(* have captured and did not.                                              *)
(***************************************************************************)
THEOREM ContentAccountedHolds == Spec => []ContentAccounted
  BY ContentInvariant, PTL DEF ContentInv

(***************************************************************************)
(* delete_chat and delete_user_content against pull_content_for_tenant: no *)
(* pull, begun before the deletion or after it, brings a blob back.        *)
(***************************************************************************)
THEOREM DeletedStaysGoneHolds == Spec => DeletedStaysGone
  <1>1. ContentInv /\ [Next]_vars => [\A m \in Captured : ~Stored(m) => ~Stored(m)']_vars
    BY GoneStaysGone DEF ContentInv
  <1> QED BY <1>1, ContentInvariant, PTL DEF Spec, DeletedStaysGone
=============================================================================
