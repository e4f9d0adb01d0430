---------------------------- MODULE TenantVault ----------------------------
(***************************************************************************)
(* How an account gets its tenant and what the tenant's keys protect.      *)
(* /onboarding/select-region binds the signed-in user to a new tenant and  *)
(* provisions it in one transaction: the row, a data key (DEK) wrapped     *)
(* under the HSM's key (KEK), the sealed admin key.  Later requests seal   *)
(* more vendor keys, tasks store content, and an admin may crypto-shred    *)
(* the tenant: its DEK is deleted and an event of that goes into the audit *)
(* chain.  /onboarding/start-backfill queues the tenant's first big pull.  *)
(*                                                                         *)
(* Requests and tasks run in several processes that share Postgres, the    *)
(* HSM, the object store and the chain.  Every read and the write that     *)
(* rests on it are separate steps; no row is locked in between.  The       *)
(* integrity tags are keyed from a KEK too, and fail where unwrapping may. *)
(***************************************************************************)
EXTENDS Naturals, Sequences, FiniteSets

CONSTANTS Users, Procs,
          VendorKeys,   \* the secrets of the vendors beside Anthropic and Google
          Agendas,      \* bound: the kinds of request that one behaviour makes
          MaxTenants,   \* bound: tenants
          MaxKeys,      \* bound: DEKs
          MaxTasks,     \* bound: backfill tasks
          MaxBlobs      \* bound: blobs told apart by tenant and key

ASSUME VaultAssumption ==
    /\ {MaxTenants, MaxKeys, MaxTasks, MaxBlobs} \subseteq Nat
    /\ IsFiniteSet(Procs)
    /\ VendorKeys \intersect {"admin", "compliance", "gcp_service_account",
                              "gcp_vertex_config"} = {}

VARIABLES agenda,       \* what is asked in this behaviour, beside a tenant
          bound,        \* users.tenant_id; who is bound is an admin
          cookie,       \* the tenant claim of the browser's session JWT
          tenants,      \* the tenants rows: whom each was made for
          deks,         \* tenant_deks: the key and the KEK it is wrapped under
          sealed,       \* encrypted_secrets: the key each is sealed under
          blobs,        \* the object store: tenant and key of its blobs
          chain,        \* the tenants with a deletion:tenant event
          backfill,     \* tenants.initial_backfill_task_id
          queued,       \* the backfill tasks given to Celery: whose each is
          keks,         \* the HSM's keys under HSM_KEK_LABEL
          req,          \* what each process is in the middle of
          destroyed,    \* history: the keys of deleted tenant_deks rows
          lost          \* history: tasks whose request failed before it kept the id

rows == <<bound, tenants, deks, sealed>>
pull == <<backfill, queued, lost>>
rest == <<chain, blobs, destroyed>>
vars == <<agenda, rows, keks, rest, cookie, req, pull>>

None  == 0
NoDek == [key |-> None, kek |-> None]
Idle  == [step |-> "idle", op |-> "none", user |-> None, tenant |-> None,
          dek |-> NoDek, name |-> "none", task |-> None]

Ids   == 1..MaxTenants
Google == <<"gcp_service_account", "gcp_vertex_config">>
Names  == {"admin", "compliance", Google[1], Google[2]} \union VendorKeys

Init == /\ agenda \in Agendas
        /\ bound = [u \in Users |-> None] /\ cookie = bound
        /\ tenants = <<>>
        /\ deks = [t \in Ids |-> NoDek]
        /\ sealed = [t \in Ids |-> [n \in Names |-> None]]
        /\ blobs = {} /\ chain = {} /\ destroyed = {}
        /\ backfill = [t \in Ids |-> None] /\ queued = <<>> /\ lost = {}
        /\ keks = {}
        /\ req = [p \in Procs |-> Idle]

At(p, step)   == req[p].step = step
Begin(p, new) == /\ At(p, "idle")
                 /\ req' = [req EXCEPT ![p] = new]
Goes(p, step) == req' = [req EXCEPT ![p].step = step]
Ends(p)       == req' = [req EXCEPT ![p] = Idle]

----------------------------------------------------------------------------
(* Signing in, and choosing the region.                                    *)

\* The SSO callback: the JWT takes its claim from users.tenant_id as it is
\* now, and keeps it for its eight hours.
SignIn(u) == /\ cookie' = [cookie EXCEPT ![u] = bound[u]]
             /\ UNCHANGED <<rows, keks, rest, req, pull>>

\* The cookie goes; nothing on the server remembers the session.
SignOut(u) == /\ cookie' = [cookie EXCEPT ![u] = None]
              /\ UNCHANGED <<rows, keks, rest, req, pull>>

\* require_admin: the claim must still be the user's tenant.
IsAdmin(u) == cookie[u] # None /\ bound[u] = cookie[u]

\* Tenant ids and keys are random: each is numbered when it is committed,
\* nothing can refer to it before.
NewTenant == Len(tenants) + 1
NewKey    == Cardinality(({deks[t].key : t \in Ids} \ {None}) \union destroyed) + 1

\* Mutant of SelectRegion: every request makes a tenant.
SelectAnew(p, u) ==
    /\ Begin(p, [Idle EXCEPT !.step = "wrap", !.op = "select", !.user = u])
    /\ UNCHANGED <<rows, keks, rest, cookie, pull>>

\* The idempotency check of select-region.  A bound user who asks for the same
\* region again gets a new cookie; for another region the answer is 409.
SelectRegion(p, u) ==
    /\ \/ /\ bound[u] = None
          /\ Begin(p, [Idle EXCEPT !.step = "wrap", !.op = "select", !.user = u])
       \/ /\ bound[u] # None
          /\ Begin(p, [Idle EXCEPT !.step = "answer", !.user = u, !.tenant = bound[u]])
    /\ UNCHANGED <<rows, keks, rest, cookie, pull>>

\* One transaction.  Its UPDATE names the user only: it does not ask whether
\* the user is still unbound.
CommitTenant(p) ==
    LET r == req[p]
        t == NewTenant
    IN
    /\ At(p, "commit") /\ r.op = "select"
    /\ t <= MaxTenants /\ NewKey <= MaxKeys
    /\ tenants' = Append(tenants, r.user)
    /\ bound' = [bound EXCEPT ![r.user] = t]
    /\ deks' = [deks EXCEPT ![t] = [r.dek EXCEPT !.key = NewKey]]
    /\ sealed' = [sealed EXCEPT ![t]["admin"] = NewKey]
    /\ req' = [req EXCEPT ![p].step = "answer", ![p].tenant = t, ![p].dek = NoDek]
    /\ UNCHANGED <<keks, rest, cookie, pull>>

\* The cookie is set by the response, after the transaction.
Answer(p) == /\ At(p, "answer")
             /\ cookie' = [cookie EXCEPT ![req[p].user] = req[p].tenant]
             /\ Ends(p)
             /\ UNCHANGED <<rows, keks, rest, pull>>

----------------------------------------------------------------------------
(* The keys.                                                               *)

\* generate_dek and wrap_dek, under KEK k.
Wrap(p, k) ==
    /\ req' = [req EXCEPT ![p].step = "commit", ![p].dek = [NoDek EXCEPT !.kek = k]]
    /\ UNCHANGED <<rows, rest, cookie, pull>>

\* get_or_create_kek: the first of the objects found; which one comes first
\* is up to the HSM.
FindKek(p) ==
    /\ At(p, "wrap")
    /\ UNCHANGED keks
    /\ \/ \E k \in keks : Wrap(p, k)
       \/ /\ keks = {}
          /\ Goes(p, "generate")
          /\ UNCHANGED <<rows, rest, cookie, pull>>

\* The HSM takes any number of keys of one label.
GenerateKek(p) ==
    LET k == Cardinality(keks) + 1 IN
    /\ At(p, "generate")
    /\ keks' = keks \union {k}
    /\ Wrap(p, k)

\* _session_wrap_key, for any request that lists sessions: a tenant that has
\* no DEK is given one.
ListSessions(p, u) ==
    /\ cookie[u] # None /\ deks[cookie[u]] = NoDek
    /\ Begin(p, [Idle EXCEPT !.step = "wrap", !.op = "provision", !.tenant = cookie[u]])
    /\ UNCHANGED <<rows, keks, rest, cookie, pull>>

\* Mutant of CommitDek: an UPSERT.
UpsertDek(p) ==
    LET r == req[p] IN
    /\ At(p, "commit") /\ r.op = "provision" /\ NewKey <= MaxKeys
    /\ deks' = [deks EXCEPT ![r.tenant] = [r.dek EXCEPT !.key = NewKey]]
    /\ Ends(p)
    /\ UNCHANGED <<bound, tenants, sealed, keks, rest, cookie, pull>>

\* provision_tenant_dek's INSERT: tenant_id is the primary key.
CommitDek(p) ==
    LET r == req[p] IN
    /\ At(p, "commit") /\ r.op = "provision"
    /\ IF deks[r.tenant] = NoDek
         THEN /\ NewKey <= MaxKeys
              /\ deks' = [deks EXCEPT ![r.tenant] = [r.dek EXCEPT !.key = NewKey]]
         ELSE UNCHANGED deks
    /\ Ends(p)
    /\ UNCHANGED <<bound, tenants, sealed, keks, rest, cookie, pull>>

\* Mutant of LoadDek: no row is taken for an empty key.
LoadAnyDek(p, new) ==
    /\ req' = [req EXCEPT ![p] = [new EXCEPT !.dek.key = deks[new.tenant].key]]
    /\ UNCHANGED <<rows, keks, rest, cookie, pull>>

\* Reading and unwrapping the tenant's DEK: there must be one, and the HSM
\* must come up with its KEK.
LoadDek(p, new) ==
    LET d == deks[new.tenant] IN
    /\ d # NoDek
    /\ \E k \in keks :
          req' = [req EXCEPT ![p] = IF k = d.kek THEN [new EXCEPT !.dek.key = d.key]
                                    ELSE Idle]
    /\ UNCHANGED <<rows, keks, rest, cookie, pull>>

\* A submit request of an admin, once the vendor's probes pass.
BeginSeal(p, u, n) ==
    /\ At(p, "idle") /\ IsAdmin(u)
    /\ LoadDek(p, [Idle EXCEPT !.step = "seal", !.tenant = cookie[u], !.name = n])

SubmitComplianceKey(p, u) == BeginSeal(p, u, "compliance")

SubmitVendorKey(p, u) == \E n \in VendorKeys : BeginSeal(p, u, n)

\* google/submit seals two secrets, one transaction each.
SubmitGoogleCredentials(p, u) == BeginSeal(p, u, Google[1])

\* seal_secret's UPSERT: the DEK it sealed under may be gone by now.
Seal(p) ==
    /\ At(p, "seal")
    /\ sealed' = [sealed EXCEPT ![req[p].tenant][req[p].name] = req[p].dek.key]
    /\ IF req[p].name = Google[1] THEN Goes(p, "second") ELSE Ends(p)
    /\ UNCHANGED <<bound, tenants, deks, keks, rest, cookie, pull>>

SealSecond(p) ==
    /\ At(p, "second")
    /\ LoadDek(p, [req[p] EXCEPT !.step = "seal", !.name = Google[2]])

\* store_content, called by the pulls of any tenant: first the DEK, then the
\* object store.
StoreContent(p, t) ==
    /\ At(p, "idle")
    /\ LoadDek(p, [Idle EXCEPT !.step = "put", !.tenant = t])

PutContent(p) ==
    /\ At(p, "put") /\ Cardinality(blobs) < MaxBlobs
    /\ blobs' = blobs \union {[tenant |-> req[p].tenant, key |-> req[p].dek.key]}
    /\ Ends(p)
    /\ UNCHANGED <<rows, keks, chain, destroyed, cookie, pull>>

\* require_content_capture: the compliance key's row, whether it opens or not.
HasComplianceTier(t) == sealed[t]["compliance"] # None

\* crypto_shred_tenant: the DEK in a transaction of its own, then the event.
Shred(p, u) ==
    LET t == cookie[u] IN
    /\ IsAdmin(u) /\ HasComplianceTier(t)
    /\ Begin(p, [Idle EXCEPT !.step = "append", !.tenant = t])
    /\ deks' = [deks EXCEPT ![t] = NoDek]
    /\ destroyed' = destroyed \union ({deks[t].key} \ {None})
    /\ UNCHANGED <<bound, tenants, sealed, keks, chain, blobs, cookie, pull>>

\* A second event of the tenant is a duplicate and changes nothing.
AppendDeletion(p) ==
    /\ At(p, "append")
    /\ chain' = chain \union {req[p].tenant}
    /\ Ends(p)
    /\ UNCHANGED <<rows, keks, blobs, destroyed, cookie, pull>>

----------------------------------------------------------------------------
(* The first backfill.                                                     *)

\* The check and the dispatch; a tenant with a recorded task is answered with
\* its id.  The new id is nowhere until it is recorded.
StartBackfill(p, u) ==
    /\ bound[u] # None /\ cookie[u] # None /\ Len(queued) < MaxTasks
    /\ backfill[bound[u]] = None
    /\ queued' = Append(queued, bound[u])
    /\ Begin(p, [Idle EXCEPT !.step = "record", !.tenant = bound[u], !.task = Len(queued) + 1])
    /\ UNCHANGED <<rows, keks, rest, cookie, backfill, lost>>

\* An UPDATE that does not ask whether an id has been recorded meanwhile.
RecordBackfill(p) ==
    /\ At(p, "record")
    /\ backfill' = [backfill EXCEPT ![req[p].tenant] = req[p].task]
    /\ Ends(p)
    /\ UNCHANGED <<rows, keks, rest, cookie, queued, lost>>

\* get_backfill_status: a task that is not the recorded one is a 404.
Polls(t, task) == backfill[t] = task

\* An exception, a rollback, a response that gets lost, a process that dies.
Fail(p) == /\ ~At(p, "idle")
           /\ Ends(p)
           /\ lost' = lost \union ({req[p].task} \ {None})
           /\ UNCHANGED <<rows, keks, rest, cookie, backfill, queued>>

Ask(p, u) == \/ SelectRegion(p, u)
             \/ "sessions" \in agenda /\ ListSessions(p, u)
             \/ "compliance" \in agenda /\ SubmitComplianceKey(p, u)
             \/ "vendor" \in agenda /\ SubmitVendorKey(p, u)
             \/ "google" \in agenda /\ SubmitGoogleCredentials(p, u)
             \/ "shred" \in agenda /\ Shred(p, u)
             \/ "backfill" \in agenda /\ StartBackfill(p, u)

Work(p) == \/ FindKek(p) \/ GenerateKek(p) \/ CommitTenant(p) \/ CommitDek(p)
           \/ Answer(p) \/ Seal(p) \/ SealSecond(p) \/ PutContent(p)
           \/ AppendDeletion(p) \/ RecordBackfill(p) \/ Fail(p)

Next == /\ UNCHANGED agenda
        /\ \/ \E u \in Users : SignIn(u) \/ SignOut(u)
           \/ \E p \in Procs :
                 \/ \E u \in Users : Ask(p, u)
                 \/ "content" \in agenda /\ \E t \in DOMAIN tenants : StoreContent(p, t)
                 \/ Work(p)

Spec == Init /\ [][Next]_vars

----------------------------------------------------------------------------
(* Properties.                                                             *)

Owned(u) == {t \in DOMAIN tenants : tenants[t] = u}

\* Every variable keeps its type: a tenant's row, keys, secrets and blobs, and
\* what each process is in the middle of.
TypeOK ==
    /\ agenda \in Agendas
    /\ {bound, cookie} \subseteq [Users -> Ids \union {None}]
    /\ tenants \in Seq(Users) /\ Len(tenants) <= MaxTenants
    /\ deks \in [Ids -> [key : 0..MaxKeys, kek : Nat]]
    /\ sealed \in [Ids -> [Names -> 0..MaxKeys]]
    /\ blobs \subseteq [tenant : Ids, key : 1..MaxKeys]
    /\ chain \subseteq Ids /\ destroyed \subseteq 1..MaxKeys
    /\ keks \subseteq Nat
    /\ \A p \in Procs :
          /\ req[p].step \in {"idle", "wrap", "generate", "commit", "answer",
                              "seal", "second", "put", "append", "record"}
          /\ req[p].tenant \in Ids \union {None}
    /\ queued \in Seq(Ids) /\ backfill \in [Ids -> 0..Len(queued)] /\ lost \subseteq DOMAIN queued

\* Onboarding leaves no half tenant: a tenant with any key, secret or blob has
\* its row, a row has its sealed admin key, and its DEK unless that was
\* shredded; a session claims, and users names, only a tenant made for that
\* user.  However requests overlap, are repeated or fail, a user gets at most
\* one tenant per request that was under way at once, and a tenant one backfill
\* per such request that did not fail, of which the recorded one, its own, is
\* polled.  Google's billing settings never stand without its key (select_region,
\* require_admin, provision_tenant_dek, start_backfill, submit_google_credentials).
TenantsWhole ==
    /\ \A t \in Ids :
          IF t \in DOMAIN tenants
            THEN /\ sealed[t]["admin"] # None
                 /\ deks[t] = NoDek => sealed[t]["admin"] \in destroyed
            ELSE /\ deks[t] = NoDek
                 /\ \A n \in Names : sealed[t][n] = None
                 /\ \A b \in blobs : b.tenant # t
    /\ \A u \in Users :
          /\ {bound[u], cookie[u]} \subseteq Owned(u) \union {None}
          /\ cookie[u] # None => bound[u] # None
          /\ Cardinality(Owned(u)) <= Cardinality(Procs)
    /\ \A t \in Ids :
          /\ Cardinality({i \in DOMAIN queued : queued[i] = t} \ lost) <= Cardinality(Procs)
          /\ \A i \in DOMAIN queued : Polls(t, i) => queued[i] = t /\ i \notin lost
          /\ sealed[t][Google[2]] # None => sealed[t][Google[1]] # None

\* Only a shred loses data, and a shred loses it for good: what is sealed or
\* stored is under the tenant's DEK or under a destroyed one, no destroyed
\* DEK serves again and none serves two tenants, and a deletion event stands
\* over a tenant whose first DEK is gone.  The HSM keeps the KEK of every DEK,
\* and has several only if processes overlapped at the very first use
\* (get_or_create_kek, provision_tenant_dek, seal_secret, crypto_shred_tenant).
KeysKept ==
    /\ \A t \in Ids, n \in Names :
          sealed[t][n] \in {None, deks[t].key} \union destroyed
    /\ \A b \in blobs : b.key \in {deks[b.tenant].key} \union destroyed
    /\ \A t \in Ids : deks[t] # NoDek =>
          /\ deks[t].key \notin destroyed
          /\ deks[t].kek \in keks
          /\ \A o \in Ids \ {t} : deks[o].key # deks[t].key
    /\ \A t \in chain : sealed[t]["admin"] \in destroyed
    /\ Cardinality(keks) <= Cardinality(Procs)
=============================================================================
