-------------------------- MODULE ContentLifecycle --------------------------
(***************************************************************************)
(* The captured conversation content of one tenant, from the pull to the   *)
(* proof of its deletion:                                                  *)
(*                                                                         *)
(*   - pull_content_for_tenant (tasks/pull_compliance.py) walks the chats  *)
(*     updated since the cursor, stores the text of every new message as   *)
(*     a blob under the tenant's DEK (storage/content.py) and then appends *)
(*     the row that refers to it; beat starts one every tick, whether or   *)
(*     not an earlier one still runs;                                      *)
(*   - delete_chat and delete_user_content (content_deletion.py) delete    *)
(*     the blobs of the rows they select, each before they append its      *)
(*     deletion event.                                                     *)
(*                                                                         *)
(* The tenant's DEK is left out: these are the bytes, not their key.       *)
(* The chain is AppendOnlyLog here, as AuditChain implements it: a key is  *)
(* taken once, and an append may also be refused because another stream    *)
(* took its chain_seq.  A message is <<chat, created_at>>; a chat's        *)
(* updated_at is the time of its newest message.  The clock ticks when a   *)
(* message is written.                                                     *)
(***************************************************************************)
EXTENDS Naturals, FiniteSets, Sequences

CONSTANTS Chats,
          Batches,       \* the chats of each call's users, in call order
          Scopes,        \* the sets of chats that a deletion may be about
          Pulls,         \* the pulls that beat starts, and their retries
          Requests,      \* deletions that the dashboard asks for
          NoMessage, NoRef, NoCursor,
          Lookback,      \* DEFAULT_CONTENT_LOOKBACK_DAYS, in ticks of the clock
          MaxChats,      \* MAX_CHATS_PER_INVOCATION
          MaxTime,       \* bound: messages written, in all
          MaxFaults      \* bound: lost appends, exceptions and deaths, in all

Messages == Chats \X (1..MaxTime)

\* A chat has one user, and the users' ids are deduplicated before the calls.
ASSUME ContentAssumption ==
    /\ Batches \in Seq(SUBSET Chats) /\ Scopes \subseteq SUBSET Chats
    /\ \A c \in Chats : \E b \in DOMAIN Batches : c \in Batches[b]
    /\ \A b, d \in DOMAIN Batches : b # d => Batches[b] \intersect Batches[d] = {}
    /\ NoMessage \notin Messages /\ NoCursor \notin Nat /\ Lookback \in Nat
    /\ MaxChats \in Nat \ {0} /\ MaxTime \in Nat /\ MaxFaults \in Nat

VARIABLES clock,       \* the time of the provider and of the workers
          messages,    \* what the provider's users wrote
          cursor,      \* pull_state.cursor of compliance_content
          records,     \* the chat_message rows: <<message, content_ref>>
          events,      \* what content_deletion events are about
          blobs,       \* the content_refs in the object store
          pull,        \* the locals of each pull
          job          \* the locals of each deletion

\* History variables: no guard but that of a bound reads them.
VARIABLES asked,       \* messages that a deletion selected
          kept,        \* messages whose last blob delete failed
          excused,     \* messages not captured that may yet be missed
          races, failures

provider == <<clock, messages>>
store    == <<records, events, blobs>>
history  == <<asked, kept, excused, races, failures>>
vars     == <<provider, cursor, store, pull, job, history>>

Captured == {r[1] : r \in records}

RefsOf(m) == {r[2] : r \in {x \in records : x[1] = m}}

\* The blob that a row refers to is in the object store.
Stored(m) == RefsOf(m) \intersect blobs # {}

IdlePull == [stage |-> "idle", start |-> 0, began |-> 0, seen |-> 0,
             batch |-> 1, listing |-> {}, todo |-> {}, ref |-> NoRef,
             chats |-> 0, touched |-> FALSE]

DonePull == [IdlePull EXCEPT !.stage = "done"]

IdleJob == [stage |-> "idle", todo |-> {}, msg |-> NoMessage]

DoneJob == [IdleJob EXCEPT !.stage = "done"]

Init == /\ clock = 0 /\ messages = {} /\ cursor = NoCursor
        /\ records = {} /\ events = {} /\ blobs = {}
        /\ pull = [w \in Pulls |-> IdlePull]
        /\ job = [a \in Requests |-> IdleJob]
        /\ asked = {} /\ kept = {} /\ excused = {}
        /\ races = 0 /\ failures = 0

-----------------------------------------------------------------------------
Running == {w \in Pulls : pull[w].stage \notin {"idle", "done"}}

WriteMessage(c) ==
    /\ clock < MaxTime
    /\ clock' = clock + 1
    /\ messages' = messages \union {<<c, clock + 1>>}
    /\ excused' = IF Running = {} THEN excused
                  ELSE excused \union {<<c, clock + 1>>}
    /\ UNCHANGED <<cursor, store, pull, job, asked, kept, races, failures>>

\* An exception or a death is one of at most MaxFaults faults.
Failure == races + failures < MaxFaults /\ failures' = failures + 1

\* Another stream of the tenant took the chain_seq of an append.
LostRace == races + failures < MaxFaults /\ races' = races + 1

-----------------------------------------------------------------------------
(* pull_content_for_tenant *)

\* Where a pull starts: at the cursor, or the look-back of a first pull ago.
StartingAt == IF cursor # NoCursor THEN cursor
              ELSE IF clock > Lookback THEN clock - Lookback ELSE 0

\* The messages of the chats that have been silent since.
Dormant == {m \in messages \ Captured :
              \A n \in messages : n[1] = m[1] => n[2] < StartingAt}

\* What a first pull does not look back to, no later pull lists unless its
\* chat is written to again.
StartPull(w) ==
    /\ pull[w].stage = "idle"
    /\ pull' = [pull EXCEPT
          ![w] = [IdlePull EXCEPT !.stage = "batch", !.start = StartingAt,
                                  !.began = clock, !.seen = StartingAt]]
    /\ excused' = IF cursor = NoCursor THEN excused \union Dormant ELSE excused
    /\ UNCHANGED <<provider, cursor, store, job, asked, kept, races, failures>>

Newest(m) == \A n \in messages : n[1] = m[1] => n[2] <= m[2]

\* list_chats: a chat of the batch's users, with its updated_at, is listed
\* by its newest message.
Listing(w) == {m \in messages : /\ m[1] \in Batches[pull[w].batch]
                                /\ Newest(m)
                                /\ m[2] >= pull[w].start}

ListBatch(w) ==
    /\ pull[w].stage = "batch"
    /\ pull[w].batch <= Len(Batches)
    /\ pull' = IF Listing(w) = {} THEN [pull EXCEPT ![w].batch = @ + 1]
               ELSE [pull EXCEPT ![w].stage = "chat", ![w].listing = Listing(w)]
    /\ UNCHANGED <<provider, cursor, store, job, history>>

\* The next chat: its updated_at, then its messages as they are by now, less
\* those whose rows exist.
FetchChat(w, l) ==
    LET inChat == {m \in messages : m[1] = l[1]}
    IN  /\ pull[w].stage = "chat"
        /\ l \in pull[w].listing
        /\ pull' = [pull EXCEPT
              ![w].stage = "message",
              ![w].listing = @ \ {l},
              ![w].seen = IF l[2] > @ THEN l[2] ELSE @,
              ![w].todo = inChat \ Captured,
              ![w].touched = @ \/ inChat \intersect Captured # {}]
        /\ UNCHANGED <<provider, cursor, store, job, history>>

\* Mutant of NewRef: content addressed by its message.
RefOfMessage(w, m) == <<m>>

\* A uuid: a pull stores a message once at most.
NewRef(w, m) == <<m, w>>

\* store_content: the blob is in the object store before its row is.
StoreContent(w, m) ==
    /\ pull[w].stage = "message"
    /\ m \in pull[w].todo
    /\ pull' = [pull EXCEPT ![w].stage = "append", ![w].todo = @ \ {m},
                            ![w].ref = NewRef(w, m)]
    /\ blobs' = blobs \union {NewRef(w, m)}
    /\ UNCHANGED <<provider, cursor, records, events, job, history>>

AppendMessage(w) ==
    /\ pull[w].stage = "append"
    /\ pull[w].ref[1] \notin Captured
    /\ records' = records \union {<<pull[w].ref[1], pull[w].ref>>}
    /\ pull' = [pull EXCEPT ![w].stage = "message", ![w].ref = NoRef,
                            ![w].touched = TRUE]
    /\ excused' = excused \ {pull[w].ref[1]}
    /\ UNCHANGED <<provider, cursor, events, blobs, job,
                   asked, kept, races, failures>>

Duplicate(w) == pull[w].ref[1] \in Captured /\ UNCHANGED <<races, excused>>

OutRaced(w) == /\ pull[w].ref[1] \notin Captured
               /\ LostRace
               /\ excused' = excused \union {pull[w].ref[1]}

\* Mutant of RefuseMessage: the blob is left where it is.
RefuseAndLeave(w) ==
    /\ pull[w].stage = "append"
    /\ Duplicate(w) \/ OutRaced(w)
    /\ pull' = [pull EXCEPT ![w].stage = "message", ![w].ref = NoRef,
                            ![w].touched = TRUE]
    /\ UNCHANGED <<provider, cursor, store, job,
                   asked, kept, failures>>

\* except IntegrityError: the row exists, or the chain_seq was taken.
RefuseMessage(w) ==
    /\ pull[w].stage = "append"
    /\ Duplicate(w) \/ OutRaced(w)
    /\ pull' = [pull EXCEPT ![w].stage = "clean", ![w].touched = TRUE]
    /\ UNCHANGED <<provider, cursor, store, job,
                   asked, kept, failures>>

\* The orphan blob is deleted, or the failure to do so is logged.
CleanOrphan(w) ==
    /\ pull[w].stage = "clean"
    /\ pull' = [pull EXCEPT ![w].stage = "message", ![w].ref = NoRef]
    /\ \/ blobs' = blobs \ {pull[w].ref} /\ UNCHANGED failures
       \/ Failure /\ UNCHANGED blobs
    /\ UNCHANGED <<provider, cursor, records, events, job,
                   asked, kept, excused, races>>

\* The messages of the chats this pull has not reached.
Unreached(w) ==
    {m \in messages \ Captured :
        \/ m[1] \in {l[1] : l \in pull[w].listing}
        \/ \E b \in (pull[w].batch + 1)..Len(Batches) : m[1] \in Batches[b]}

\* Past the last chat of a listing comes the next batch.
AfterChat(p, full) ==
    IF full THEN [p EXCEPT !.chats = @ + 1, !.stage = "save", !.listing = {}]
    ELSE IF p.listing = {}
    THEN [p EXCEPT !.chats = @ + 1, !.stage = "batch", !.batch = @ + 1]
    ELSE [p EXCEPT !.chats = @ + 1, !.stage = "chat"]

\* Mutant of EndChat: the cap is checked before the chat is counted.
EndChatLate(w) ==
    LET full == pull[w].chats >= MaxChats
    IN  /\ pull[w].stage = "message"
        /\ pull[w].todo = {}
        /\ pull' = [pull EXCEPT ![w] = AfterChat(@, full)]
        /\ excused' = IF full THEN excused \union Unreached(w) ELSE excused
        /\ UNCHANGED <<provider, cursor, store, job,
                       asked, kept, races, failures>>

EndChat(w) ==
    LET full == pull[w].chats + 1 >= MaxChats
    IN  /\ pull[w].stage = "message"
        /\ pull[w].todo = {}
        /\ pull' = [pull EXCEPT ![w] = AfterChat(@, full)]
        /\ excused' = IF full THEN excused \union Unreached(w) ELSE excused
        /\ UNCHANGED <<provider, cursor, store, job,
                       asked, kept, races, failures>>

SaveCursor(w) ==
    /\ \/ pull[w].stage = "save"
       \/ pull[w].stage = "batch" /\ pull[w].batch > Len(Batches)
    /\ cursor' = IF pull[w].touched THEN pull[w].seen ELSE pull[w].began
    /\ pull' = [pull EXCEPT ![w] = DonePull]
    /\ UNCHANGED <<provider, store, job, history>>

\* Mutant of StopPull: the cursor is saved in the `finally' that closes the
\* client.
StopPullSaving(w) ==
    /\ w \in Running
    /\ Failure
    /\ pull' = [pull EXCEPT ![w] = DonePull]
    /\ cursor' = IF pull[w].touched THEN pull[w].seen ELSE pull[w].began
    /\ UNCHANGED <<provider, store, job,
                   asked, kept, excused, races>>

\* A 403, any exception but an IntegrityError, or the death of the worker:
\* the cursor stays, and a later pull begins there.
StopPull(w) ==
    /\ w \in Running
    /\ Failure
    /\ pull' = [pull EXCEPT ![w] = DonePull]
    /\ UNCHANGED <<provider, cursor, store, job,
                   asked, kept, excused, races>>

-----------------------------------------------------------------------------
(* delete_chat, delete_user_content *)

StartDeletion(a, C) ==
    LET selected == {m \in Captured : m[1] \in C}
    IN  /\ job[a].stage = "idle"
        /\ selected # {}
        /\ job' = [job EXCEPT ![a] = [IdleJob EXCEPT !.stage = "next",
                                                     !.todo = selected]]
        /\ asked' = asked \union selected
        /\ UNCHANGED <<provider, cursor, store, pull,
                       kept, excused, races, failures>>

\* Mutant of DeleteBlob: the delete is queued for another task.
DeleteQueued(a, m) ==
    /\ job[a].stage = "next"
    /\ m \in job[a].todo
    /\ job' = [job EXCEPT ![a].stage = "event", ![a].msg = m,
                          ![a].todo = @ \ {m}]
    /\ UNCHANGED <<provider, cursor, store, pull, history>>

\* The load-bearing step; its failure is logged, and the event recorded.
DeleteBlob(a, m) ==
    /\ job[a].stage = "next"
    /\ m \in job[a].todo
    /\ job' = [job EXCEPT ![a].stage = "event", ![a].msg = m,
                          ![a].todo = @ \ {m}]
    /\ \/ /\ blobs' = blobs \ RefsOf(m)
          /\ kept' = kept \ {m}
          /\ UNCHANGED failures
       \/ /\ Failure
          /\ kept' = kept \union {m}
          /\ UNCHANGED blobs
    /\ UNCHANGED <<provider, cursor, records, events, pull,
                   asked, excused, races>>

\* _append_deletion_event: appended, or refused and taken for a repetition.
AppendEvent(a) ==
    /\ job[a].stage = "event"
    /\ \/ /\ events' = events \union {job[a].msg}
          /\ UNCHANGED races
       \/ /\ job[a].msg \notin events
          /\ LostRace
          /\ UNCHANGED events
    /\ job' = [job EXCEPT ![a] = IF @.todo = {} THEN DoneJob
                                 ELSE [@ EXCEPT !.stage = "next", !.msg = NoMessage]]
    /\ UNCHANGED <<provider, cursor, records, blobs, pull,
                   asked, kept, excused, failures>>

\* The request dies.
StopJob(a) ==
    /\ job[a].stage \in {"next", "event"}
    /\ Failure
    /\ job' = [job EXCEPT ![a] = DoneJob]
    /\ UNCHANGED <<provider, cursor, store, pull,
                   asked, kept, excused, races>>

-----------------------------------------------------------------------------
PullStep(w) ==
    \/ StartPull(w) \/ ListBatch(w)
    \/ \E m \in messages : FetchChat(w, m) \/ StoreContent(w, m)
    \/ AppendMessage(w) \/ RefuseMessage(w) \/ CleanOrphan(w)
    \/ EndChat(w) \/ SaveCursor(w) \/ StopPull(w)

JobStep(a) ==
    \/ \E C \in Scopes : StartDeletion(a, C)
    \/ \E m \in messages : DeleteBlob(a, m)
    \/ AppendEvent(a) \/ StopJob(a)

Next == \/ \E c \in Chats : WriteMessage(c)
        \/ \E w \in Pulls : PullStep(w)
        \/ \E a \in Requests : JobStep(a)

Spec == Init /\ [][Next]_vars
-----------------------------------------------------------------------------
Refs == Messages \X Pulls

PullState == [stage : {"idle", "batch", "chat", "message", "append", "clean",
                       "save", "done"},
              start : 0..MaxTime, began : 0..MaxTime, seen : 0..MaxTime,
              batch : 1..(Len(Batches) + 1), listing : SUBSET messages,
              todo : SUBSET messages, ref : Refs \union {NoRef},
              chats : 0..MaxChats, touched : BOOLEAN]

JobState == [stage : {"idle", "next", "event", "done"}, todo : SUBSET Captured,
             msg : Captured \union {NoMessage}]

\* Type invariant of the provider, the stores, the pulls and the deletions.
TypeOK == /\ clock \in 0..MaxTime
          /\ messages \subseteq Messages
          /\ cursor \in (0..clock) \union {NoCursor}
          /\ records \subseteq messages \X Refs
          /\ events \subseteq Captured
          /\ blobs \subseteq Refs
          /\ pull \in [Pulls -> PullState]
          /\ job \in [Requests -> JobState]
          /\ asked \subseteq Captured /\ kept \subseteq asked
          /\ excused \subseteq messages \ Captured
          /\ races + failures \in 0..MaxFaults

\* The proof of a deletion stands only over content that is gone, unless its
\* blob delete failed (content_deletion.py, "Order: blob-delete first").
ProofMeansGone ==
    \A m \in events : Stored(m) => m \in kept

\* The blobs that pulls write and have not yet tied to a row.
Pending == {pull[w].ref : w \in {v \in Pulls :
                                     pull[v].stage \in {"append", "clean"}}}

Orphans == {b \in blobs : /\ b \notin Pending
                          /\ \A r \in records : r[2] # b}

\* Rows and blobs belong to each other, though pulls of the same message clean up
\* after each other: a row that nobody asked to delete has its blob, and a blob
\* that no row refers to, and that no deletion will ever find, takes a failure
\* each, for races leave none behind.
BlobsMatchRows ==
    /\ \A m \in Captured \ asked : Stored(m)
    /\ Cardinality(Orphans) <= failures

\* A message older than the cursor is captured, or it lost its chain_seq, or
\* it was beyond a chat cap, or it was written while a pull ran, or its chat had
\* been silent for longer than a first pull looks back.
ContentAccounted ==
    cursor # NoCursor =>
        \A m \in messages : m[2] < cursor => m \in Captured \union excused

\* What was deleted stays deleted: no pull that still runs, and no later
\* one, brings the blob of a row back.
DeletedStaysGone ==
    [][\A m \in Captured : ~Stored(m) => ~Stored(m)']_vars
=============================================================================
