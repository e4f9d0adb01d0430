----------------------------- MODULE Directory -----------------------------
(***************************************************************************)
(* Who is behind the records of a tenant.  Records name their actor by an  *)
(* email, a key's name or an id.  The reconcile task, and every GET /users *)
(* before it reads, gives each such name an alias and links it to the      *)
(* member with that email; an admin links the others by hand, and makes    *)
(* and unmakes admins.  A further task labels the MCP summaries by topic,  *)
(* which a member's page counts.                                           *)
(*                                                                         *)
(* A request is one transaction, READ COMMITTED: every statement sees what *)
(* has been committed by then and what its own transaction wrote, and an   *)
(* upsert holds its row's lock until the commit.  pend is what a           *)
(* transaction has written; its domain, the rows it has locked.            *)
(***************************************************************************)
EXTENDS Naturals, Sequences, FiniteSets, SequencesExt, FiniteSetsExt

CONSTANTS Members, Procs,
          Email,      \* users.email, by member
          Scenarios,  \* [feed, staff, work]: what may be recorded, the first
                      \* roles, and a bound: how many operations are started
          Labels,     \* the taxonomy
          RunLimit,   \* CLASSIFY_RUN_LIMIT
          BatchSize   \* BATCH_SIZE of the classifier

NoUser == "nobody"
Roles  == {"absent", "member", "admin"}

ASSUME DirectoryAssumption ==
    /\ BatchSize \in Nat \ {0} /\ RunLimit \in Nat
    /\ IsFiniteSet(Members) /\ NoUser \notin Members
    /\ \A s \in Scenarios :
           /\ IsFiniteSet(s.feed) /\ \A x, y \in s.feed : x.id = y.id => x = y
           /\ s.staff \in [Members -> Roles] /\ \E u \in Members : s.staff[u] = "admin"
           /\ s.work \in Nat

VARIABLES feed,     \* the records that may arrive in this behaviour
          records,  \* telemetry_records of the tenant
          staff,    \* users: "absent", "member" or "admin"
          aliases,  \* user_aliases, by source and name
          topics,   \* interaction_topics, by record
          req,      \* what each process is in the middle of
          left,     \* operations that may still start
          raced     \* history: a role was written after its count had changed

people        == <<staff, aliases, topics>>
directoryVars == <<feed, records, people, req, left, raced>>

NoKey   == ""
NoAlias == [user |-> NoUser, auto |-> FALSE]  \* no row: a manual one has a user
Nothing == [x \in {} |-> x]  \* a transaction that has written nothing
Idle    == [op |-> "none", step |-> "idle", pend |-> Nothing]

\* f, and what it does not say, from g.
Over(f, g) == [x \in DOMAIN f \union DOMAIN g |-> IF x \in DOMAIN f THEN f[x] ELSE g[x]]

ActorFields == <<"email_address", "api_key_name", "user_id", "api_key_id", "type",
                 "user_email", "subject_user_id">>
ActorSources == {"code_analytics", "compliance_activities", "mcp", "openai_admin_usage"}

\* _ACTOR_KEY_SQL: the first of the fields that the record has.
ActorKey(r) ==
    LET present == {i \in DOMAIN ActorFields : ActorFields[i] \in DOMAIN r.who}
    IN  IF present = {} THEN NoKey ELSE r.who[ActorFields[Min(present)]]

KeyOf(r)         == <<r.source, ActorKey(r)>>
IdentifiersOf(S) == {KeyOf(r) : r \in {x \in S : x.source \in ActorSources
                                                 /\ ActorKey(x) # NoKey}}

DirectoryInit == \E s \in Scenarios :
            /\ feed = s.feed /\ records = {}
            /\ staff = s.staff
            /\ aliases = [k \in IdentifiersOf(s.feed) |-> NoAlias]
            /\ topics = Nothing
            /\ req = [p \in Procs |-> Idle]
            /\ left = s.work /\ raced = FALSE

At(p, step)   == req[p].step = step
Begin(p, new) == /\ At(p, "idle") /\ left > 0
                 /\ left' = left - 1
                 /\ req' = [req EXCEPT ![p] = new]
Keep(p, r)    == req' = [req EXCEPT ![p] = r] /\ UNCHANGED left
Ends(p)       == Keep(p, Idle)

\* An append by an ingest task, or a row of users made outside this code.
Arrive == \E r \in feed \ records :
              /\ records' = records \union {r}
              /\ UNCHANGED <<feed, people, req, left, raced>>

Join(u) == /\ staff[u] = "absent"
           /\ staff' = [staff EXCEPT ![u] = "member"]
           /\ UNCHANGED <<feed, records, aliases, topics, req, left, raced>>

----------------------------------------------------------------------------
(* Names and aliases.                                                      *)

Identifiers == IdentifiersOf(records)

\* Mutant of MatchOf: the link holds the email, not the member's id.
MatchEmail(name) ==
    IF \E u \in Members : staff[u] # "absent" /\ Email[u] = name THEN name ELSE NoUser

\* One member of that email, or nobody.
MatchOf(name) ==
    LET found == {u \in Members : staff[u] # "absent" /\ Email[u] = name}
    IN  IF Cardinality(found) = 1 THEN CHOOSE u \in found : TRUE ELSE NoUser

View(p)      == Over(req[p].pend, aliases)
Locked(p, k) == \E q \in Procs \ {p} : k \in DOMAIN req[q].pend

\* The task, or the lazy one of GET /users.  The names come in no order.
StartReconcile(p, op) ==
    /\ \E order \in SetToSeqs(Identifiers) :
           Begin(p, [op |-> op, step |-> "upsert", pend |-> Nothing, todo |-> order])
    /\ UNCHANGED <<feed, records, people, raced>>

\* Mutant of Reconciled: the WHERE clause is lost.
Overwritten(k) == [user |-> MatchOf(k[2]), auto |-> TRUE]

\* INSERT ... ON CONFLICT DO UPDATE WHERE auto_matched AND user_id IS NULL: the
\* row is locked whether or not it is written.
Reconciled(k) ==
    LET found == MatchOf(k[2])
        open  == aliases[k].auto /\ aliases[k].user = NoUser /\ found # NoUser
    IN  IF aliases[k] = NoAlias \/ open THEN [user |-> found, auto |-> TRUE]
        ELSE aliases[k]

Upsert(p) ==
    LET k == Head(req[p].todo) IN
    /\ At(p, "upsert") /\ req[p].todo # <<>>
    /\ ~Locked(p, k)
    /\ Keep(p, [req[p] EXCEPT !.todo = Tail(@), !.pend = Over([x \in {k} |-> Reconciled(x)], @)])
    /\ UNCHANGED <<feed, records, people, raced>>

\* Two transactions that upsert in different orders: Postgres aborts one.  The
\* task fails; GET /users catches the error, but every later statement of the
\* aborted transaction fails too.
WaitsFor(p, q) == /\ At(p, "upsert") /\ req[p].todo # <<>>
                  /\ Head(req[p].todo) \in DOMAIN req[q].pend
Deadlock(p) == /\ \E q \in Procs \ {p} : WaitsFor(p, q) /\ WaitsFor(q, p)
               /\ Ends(p)
               /\ UNCHANGED <<feed, records, people, raced>>

CommitReconcile(p) ==
    /\ At(p, "upsert") /\ req[p].todo = <<>> /\ req[p].op = "task"
    /\ aliases' = View(p)
    /\ Ends(p)
    /\ UNCHANGED <<feed, records, staff, topics, raced>>

\* GET /users goes on in the same transaction: the members with activity, ...
Roster(p) ==
    /\ At(p, "upsert") /\ req[p].todo = <<>> /\ req[p].op = "list"
    /\ Keep(p, [op |-> "list", step |-> "unmapped", pend |-> req[p].pend,
                roster |-> {k \in Identifiers : View(p)[k].user # NoUser}, unmapped |-> {}])
    /\ UNCHANGED <<feed, records, people, raced>>

\* ... then, in another statement, the aliases of nobody; and the commit.
Unmapped(p) ==
    /\ At(p, "unmapped")
    /\ LET open == {k \in DOMAIN aliases : View(p)[k].auto /\ View(p)[k].user = NoUser}
       IN  Keep(p, [req[p] EXCEPT !.step = "served", !.unmapped = open])
    /\ aliases' = View(p)
    /\ UNCHANGED <<feed, records, staff, topics, raced>>

\* POST /users/{id}/aliases: require_admin in a transaction of its own, then
\* the member and the upsert.
StartMap(p, admin, u, k) ==
    /\ staff[admin] = "admin"
    /\ Begin(p, [op |-> "map", step |-> "map", pend |-> Nothing, user |-> u, key |-> k])
    /\ UNCHANGED <<feed, records, people, raced>>

\* moved: a page that counts the old owner's records is being read.
MapAlias(p) ==
    LET k == req[p].key
        u == req[p].user
        reads(q) == req[q].op = "detail" /\ req[q].user = aliases[k].user
    IN
    /\ At(p, "map") /\ ~Locked(p, k)
    /\ aliases' = IF staff[u] = "absent" THEN aliases
                  ELSE [aliases EXCEPT ![k] = [user |-> u, auto |-> FALSE]]
    /\ req' = [q \in Procs |-> IF q = p THEN Idle
                               ELSE IF reads(q) THEN [req[q] EXCEPT !.moved = TRUE]
                               ELSE req[q]]
    /\ UNCHANGED <<feed, records, staff, topics, left, raced>>

----------------------------------------------------------------------------
(* Roles: POST /users/{id}/role.  No row is locked before the UPDATE.      *)

Admins == {u \in Members : staff[u] = "admin"}

StartRole(p, admin, u, new) ==
    /\ admin \in Admins
    /\ Begin(p, [op |-> "role", step |-> "target", pend |-> Nothing,
                 user |-> u, new |-> new, seen |-> Admins])
    /\ UNCHANGED <<feed, records, people, raced>>

ReadTarget(p) ==
    LET r == req[p] IN
    /\ At(p, "target")
    /\ \/ staff[r.user] = "absent" /\ Ends(p)
       \/ /\ staff[r.user] = "admin" /\ r.new = "member"
          /\ Keep(p, [r EXCEPT !.step = "count"])
       \/ /\ staff[r.user] # "absent" /\ ~(staff[r.user] = "admin" /\ r.new = "member")
          /\ Keep(p, [r EXCEPT !.step = "write", !.seen = Admins])
    /\ UNCHANGED <<feed, records, people, raced>>

\* Mutant of CountAdmins: the guard is off by one.
CountNone(p) ==
    /\ At(p, "count")
    /\ IF Cardinality(Admins) < 1 THEN Ends(p)
       ELSE Keep(p, [req[p] EXCEPT !.step = "write", !.seen = Admins])
    /\ UNCHANGED <<feed, records, people, raced>>

\* The last-admin guard.
CountAdmins(p) ==
    /\ At(p, "count")
    /\ IF Cardinality(Admins) <= 1 THEN Ends(p)
       ELSE Keep(p, [req[p] EXCEPT !.step = "write", !.seen = Admins])
    /\ UNCHANGED <<feed, records, people, raced>>

WriteRole(p) ==
    /\ At(p, "write")
    /\ staff' = [staff EXCEPT ![req[p].user] = req[p].new]
    /\ raced' = (raced \/ req[p].seen # Admins)
    /\ Ends(p)
    /\ UNCHANGED <<feed, records, aliases, topics>>

----------------------------------------------------------------------------
(* Topics: classify_topics_for_tenant, and the counts of a member's page.  *)

Classifiable == {r \in records : r.source = "mcp" /\ r.summary}

\* Newest first, and what is of one instant in any order.
NewestFirst(S) == {order \in SetToSeqs(S) :
                     \A i, j \in DOMAIN order : i < j => order[i].at >= order[j].at}

StartClassify(p) ==
    /\ \E order \in NewestFirst({r \in Classifiable : r.id \notin DOMAIN topics}) :
           Begin(p, [op |-> "classify", step |-> "batch", pend |-> Nothing, given |-> Nothing,
                     todo |-> SubSeq(order, 1, Min({RunLimit, Len(order)}))])
    /\ UNCHANGED <<feed, records, people, raced>>

Batch(p) == SubSeq(req[p].todo, 1, Min({BatchSize, Len(req[p].todo)}))
Rest(p)  == SubSeq(req[p].todo, Len(Batch(p)) + 1, Len(req[p].todo))

\* The model labels some of the batch, each summary under its own index; a
\* failed call labels none.
ClassifyBatch(p) ==
    LET ids == {r.id : r \in ToSet(Batch(p))} IN
    /\ At(p, "batch") /\ req[p].todo # <<>>
    /\ \E named \in SUBSET ids : \E label \in [named -> Labels] :
           Keep(p, [req[p] EXCEPT !.todo = Rest(p), !.given = Over(label, @)])
    /\ UNCHANGED <<feed, records, people, raced>>

\* Without a key the task returns, and commits what it has.
NotConfigured(p) ==
    /\ At(p, "batch") /\ req[p].todo # <<>>
    /\ Keep(p, [req[p] EXCEPT !.todo = <<>>])
    /\ UNCHANGED <<feed, records, people, raced>>

\* ON CONFLICT DO NOTHING: a label that is there stays.
SaveTopics(p) ==
    /\ At(p, "batch") /\ req[p].todo = <<>>
    /\ topics' = Over(topics, req[p].given)
    /\ Ends(p)
    /\ UNCHANGED <<feed, records, staff, aliases, raced>>

\* GET /users/{id}: the member, who has an alias; then the statements.
StartDetail(p, u) ==
    /\ staff[u] # "absent"
    /\ \E k \in DOMAIN aliases : aliases[k].user = u
    /\ Begin(p, [op |-> "detail", step |-> "topics", pend |-> Nothing, user |-> u,
                 moved |-> FALSE, classified |-> 0, total |-> 0])
    /\ UNCHANGED <<feed, records, people, raced>>

Attributed(p) == {r \in records : /\ r.source = "mcp" /\ ActorKey(r) # NoKey
                                  /\ aliases[KeyOf(r)].user = req[p].user}

ReadTopics(p) ==
    /\ At(p, "topics")
    /\ LET n == Cardinality({r \in Attributed(p) : r.id \in DOMAIN topics})
       IN  Keep(p, [req[p] EXCEPT !.step = "total", !.classified = n])
    /\ UNCHANGED <<feed, records, people, raced>>

ReadTotal(p) ==
    /\ At(p, "total")
    /\ LET n == Cardinality(Attributed(p) \intersect Classifiable)
       IN  Keep(p, [req[p] EXCEPT !.step = "served", !.total = n])
    /\ UNCHANGED <<feed, records, people, raced>>

----------------------------------------------------------------------------

Answer(p) == /\ At(p, "served") /\ Ends(p)
             /\ UNCHANGED <<feed, records, people, raced>>

\* The process dies: its transaction is rolled back.
Die(p) == /\ ~At(p, "idle") /\ Ends(p)
          /\ UNCHANGED <<feed, records, people, raced>>

Manage(p) ==
    \/ \E op \in {"task", "list"} : StartReconcile(p, op)
    \/ Upsert(p) \/ Deadlock(p) \/ CommitReconcile(p) \/ Roster(p) \/ Unmapped(p)
    \/ \E a, u \in Members, k \in DOMAIN aliases : StartMap(p, a, u, k)
    \/ MapAlias(p)
    \/ \E a, u \in Members, new \in {"member", "admin"} : StartRole(p, a, u, new)
    \/ ReadTarget(p) \/ CountAdmins(p) \/ WriteRole(p)
    \/ StartClassify(p) \/ ClassifyBatch(p) \/ NotConfigured(p) \/ SaveTopics(p)
    \/ \E u \in Members : StartDetail(p, u)
    \/ ReadTopics(p) \/ ReadTotal(p)
    \/ Answer(p) \/ Die(p)

DirectoryNext == Arrive \/ (\E u \in Members : Join(u)) \/ \E p \in Procs : Manage(p)

----------------------------------------------------------------------------
(* Properties.                                                             *)

\* The directory is right about people: a link made by itself names the member
\* of that email, GET /users shows every actor of its reconcile exactly once,
\* as a member's or as nobody's, a member's page never counts more classified
\* summaries than it has unless one was given away between its two counts, and
\* the tenant is without an admin only if two changes of role overlapped.
DirectorySound ==
    /\ \A k \in DOMAIN aliases : aliases[k].auto /\ aliases[k].user # NoUser =>
           Email[aliases[k].user] = k[2] /\ staff[aliases[k].user] # "absent"
    /\ \A p \in Procs : req[p].op = "list" /\ At(p, "served") =>
           /\ DOMAIN req[p].pend \subseteq req[p].roster \union req[p].unmapped
           /\ DOMAIN req[p].pend \intersect req[p].roster \intersect req[p].unmapped = {}
    /\ \A p \in Procs : req[p].op = "detail" /\ At(p, "served") /\ ~req[p].moved =>
           req[p].classified <= req[p].total
    /\ DOMAIN topics \subseteq {r.id : r \in Classifiable}
    /\ Admins = {} => raced

\* A link changes by hand, or from nobody's: no reconcile undoes a link, made by
\* hand or not, however it interleaves; and a topic once given stays.
LinksKept ==
    [][/\ \A k \in DOMAIN aliases : aliases'[k] # aliases[k] =>
              \/ aliases'[k].auto /\ aliases[k].user = NoUser
              \/ ~aliases'[k].auto /\ aliases'[k].user # NoUser
       /\ \A i \in DOMAIN topics : i \in DOMAIN topics' /\ topics'[i] = topics[i]]_directoryVars

============================================================================
