# Verification of vargate-telemetry

vargate-telemetry ("Ogma") pulls usage, cost, activity and content records of a
customer's AI vendors, appends them to a tamper-evident chain per tenant, meters
what was appended for Stripe billing, and serves dashboards, budgets, alerts and
an MCP server on top. This directory holds TLA+ models of it, the TLC runs that
check them, and proofs checked by TLAPS. Paths below are relative to the
repository root.

Run a check with `tlc -workers 2 -config AuditChain.cfg MCAuditChain`, a proof
with `tlapm AuditChainProofs.tla`. `PROJECT.json` maps every definition to the
lines it translates, and lists the components, the runs with their mutants, the
hazards, the findings and the theorems.

## 1. The system

One Postgres database with row-level security per tenant, one Redis (broker,
counters, OAuth state), an HSM, an object store, a pool of Celery workers fed by
beat, a FastAPI dashboard server and an MCP server. Everything below runs
concurrently in several processes; almost nothing takes a lock of its own, and
correctness rests on unique constraints, `RENAME`, and re-pulling.

| component | state | operations | what is hard | what makes it correct |
|---|---|---|---|---|
| Record chain (`chain.py`) | `telemetry_records` | append, verify | racing tip reads, two unique constraints, rollback, genesis special case | rows 1..n per tenant, no fork, hashed over the predecessor; verification accepts what append produced and nothing edited |
| Activity pull (`tasks/pull_compliance.py`) | `pull_state.cursor`, chain, counters | pull, dedup, advance cursor | overlapping pulls, page cap on a newest-first walk, failure between append and count | nothing below the cursor is missing; nothing is billed twice |
| MCP logging (`log_interaction.py`, `tasks/persist_event.py`) | broker queue, chain | log, persist, retry | late acknowledgement, redelivery while running, retries, races for `chain_seq` | what the client was told is logged gets into the chain or visibly fails |
| Metering (`metering.py`) | Redis hashes, `usage_records` | increment, flush | overlapping flushes, a flush that stops between two tenants, row locks | a count is in one buffer or in one row, recorded at most once |
| Stripe reporting (`billing/stripe_client.py`) | Stripe, `billing_retry` | report, queue | called inside an uncommitted transaction; idempotency key | what is recorded of a billed tenant is charged or queued |
| Content pull, content store (`storage/`) | blobs, chain, cursor | fetch, encrypt, store, append, orphan clean-up | blob before row, chat cap, one cursor over batches listed one after the other | a content row has its blob; no live orphan |
| Deletion, crypto-shred, reveal (`content_deletion.py`) | blobs, DEK, chain events | delete a chat or a user's content, shred a tenant, reveal | blob delete fails, event refused for its slot, a pull still running | a deletion event stands over deleted bytes; what is deleted stays deleted |
| Admin, code analytics, OpenAI, Vertex pulls (`tasks/pull_*.py`) | cursors, chain, counters | pull, backfill | backfill and pull share a cursor, caps inside a day, restated amounts, 403s | the cursor covers only what was recorded |
| Budgets, forecasts (`tasks/evaluate_*.py`, `api/budgets.py`) | budgets, alert events | evaluate, alert, edit, acknowledge | alert before commit, one transaction for all budgets, overlapping evaluations | one alert per budget, period and threshold, borne out by the spend |
| MCP OAuth, bridge keys (`mcp_server/auth/`, `api/mcp_bridge.py`) | clients, codes, states, tokens, caches, keys | register, authorize, exchange, refresh, revoke, verify, rotate | one-shot codes, refresh tokens in memory, lost responses, restarts | every token descends from one authorization; a code is good once |
| Onboarding, sign-in (`api/onboarding.py`, `api/*_onboarding.py`, `auth/`) | users, tenants, cookies, the first backfill | sign in and out, select region, submit keys, start backfill | read, then write without a lock; response after commit | no half tenant; one tenant per user, but for overlaps |
| Key hierarchy (`crypto/`) | KEK in the HSM, wrapped DEK per tenant, sealed secrets | create, wrap, seal, open, destroy | two processes create the KEK; DEK destroyed while in use | only a shred makes data unreadable |
| Directory (`users/aliases.py`, `api/users.py`, `tasks/classify_topics.py`) | aliases, roles, topics | reconcile, map by hand, change a role, classify | upserts with row locks in different orders, last admin, newest-first batches | no link is undone; links name the right member |
| Read APIs, insights, pricing (`api/usage.py`, `api/sessions.py`, `insights/`, `pricing/`) | none | pages, totals, series, cards | pages under arriving records; one spend added up in a dozen places | a walk misses and repeats nothing; the sums agree |
| Content view and export, OpenAI projects, onboarding metrics, migrations, scripts | see PROJECT.json | | | not modelled |

How they interact. Beat enqueues dispatchers, which enqueue one task per tenant;
every pull and `persist_event` calls `append_telemetry_record` in a transaction of
its own, then `increment`; beat's `flush_counters` moves the counters to
`usage_records` and, in the same transaction, calls Stripe; the classifier,
budgets and dashboard read the chain; deletion and crypto-shred append their
proofs to the same chain. Onboarding makes the tenant and its keys, without which
no pull and no content store runs; the MCP server's tokens attribute what is
logged. So the chain is the shared state of nearly everything, and it is modelled
first.

## 2. Modules

| module | models | kind |
|---|---|---|
| `AppendOnlyLog` | what the chain promises: a per-tenant log that grows at its end, each key once | abstract |
| `AuditChain` | `chain.py`, `db.session_scope`, the constraints of `telemetry_records` | detailed; implements `AppendOnlyLog` |
| `AuditChainProofs` | theorems about `AuditChain` | proofs |
| `ActivityIngest` | the activity pull and MCP logging, composed with `AuditChain` (INSTANCE) | composition |
| `ActivityIngestProofs` | theorems about `ActivityIngest`, with those of `AuditChainProofs` instantiated | proofs |
| `UsageLedger` | what metering promises | abstract |
| `Metering` | `metering.py` and `billing/stripe_client.py` | detailed; implements `UsageLedger` |
| `SetSums` | lemmas about sums over finite sets | proofs |
| `MeteringProofs` | theorems about `Metering`, the refinement of `UsageLedger` among them, and about `CursorPulls`, whose records are metered | proofs |
| `ContentLifecycle` | the content pull, `storage/` and the deletions of `content_deletion.py` | detailed |
| `ContentLifecycleProofs` | theorems about `ContentLifecycle` | proofs |
| `CursorPulls` | the seven pulls that keep a cursor over aggregates, and the Admin backfill | detailed |
| `BudgetAlerts` | budget and forecast evaluations, alerts, the budgets API | detailed |
| `BudgetAlertsProofs` | theorems about `BudgetAlerts` | proofs |
| `McpSignIn` | the OAuth server of the MCP connector, the bridge and its keys | detailed |
| `IdentityProofs` | theorems about `McpSignIn`, about `Directory` under the walks of `Dashboard`, and about `SpendViews` on its records | proofs |
| `TenantVault` | sign-in, onboarding, key hierarchy, sealed secrets, crypto-shred, first backfill | detailed |
| `TenantVaultProofs` | theorems about `TenantVault` | proofs |
| `Directory` | aliases, roles, topics | detailed |
| `SpendViews` | pricing and everything that adds up spend, as operators | calculation |
| `Dashboard` | the paged lists over `Directory`'s state and `SpendViews`' rows | composition |
| `MCAuditChain`, `MCActivityIngest`, `MCMetering`, `MCContentLifecycle`, `MCCursorPulls`, `MCBudgetAlerts`, `MCMcpSignIn`, `MCTenantVault`, `MCDashboard` | the small instances | model checking |

### AuditChain

`rows` is the committed table. A writer is a Celery worker in one `session_scope`;
`phase[w]` is how far its transaction is and `candidate[w]` the row it derived.

| action | code |
|---|---|
| `ReadTip` | `append_telemetry_record` up to the INSERT: SELECT the tip, build the row |
| `InsertRow` | `s.add`, `s.flush`; enabled when neither a committed nor an uncommitted row collides, which is how Postgres makes an INSERT wait on a unique index |
| `RefuseRow` | the flush raises `IntegrityError` |
| `CommitRow`, `RollBack` | the end of `session_scope`; `RollBack` is also the death of the worker |
| `TakeResult` | the caller gets the record or the exception |

`Verifies` is `verify_telemetry_chain` over an arbitrary set of rows, so that it can
be asked about tables that were tampered with. Row 1 stores `GENESIS_PREV_BYTES`
and hashes the genesis string; both append and `_row_to_chain_record` special-case
it, and the model keeps the two apart. SHA-256 is taken to be collision-free: a
digest is the tuple of what is hashed.

### ActivityIngest

`pull[p]` is a running `pull_activities_for_tenant`: its stage, the cursor it
started from, the time it began, its position in the newest-first listing, the
newest activity it saw, its count. `broker` and `running` are the unacknowledged
and the executing `persist_event` messages. Both tasks run in the same workers and
append through `Chain == INSTANCE AuditChain`, so an activity and an interaction
race for one `chain_seq`. `raced`, `capped`, `logged`, `failed` and `failures` are
history variables; no guard but the failure bound reads them. The
`IntegrityError` handlers are modelled as written: they take every refusal for a
duplicate (`NoteRefusal` records when it was not).

### Metering

`active` is `vargate:meter:active`. `flush[w]` is a running flush: the hash it
renamed, the tenants still to do, and of the current tenant's transaction what
is upserted, reported and queued. `stranded` is what dead flushes left in hashes
that nobody reads again. `usage` and `retry` change only at `Commit`, `stripe` at
once, because Stripe is called before the commit. An UPSERT locks its row until
the transaction ends, and two flushes of one tenant may lock in opposite orders
(`DeadlockVictim`). `Pending` maps the three buffers to the ledger's.

### ContentLifecycle

A message is `<<chat, created_at>>`; `records` holds the rows with their
`content_ref`, `blobs` the references that the object store holds, `events` the
messages whose deletion is recorded. `pull[w]` is a running
`pull_content_for_tenant` with its locals, `job[a]` a running deletion.

| action | code |
|---|---|
| `StartPull`, `ListBatch`, `FetchChat` | cursor, or without one the look-back of a first pull (`StartingAt`), and users; one `list_chats` call; one `get_chat_messages` with the lookup of the rows that exist |
| `StoreContent` | `store_content`: the blob is put before the row is appended |
| `AppendMessage`, `RefuseMessage`, `CleanOrphan` | the append; its `IntegrityError`, for a duplicate or a lost `chain_seq`; the orphan's delete, or the logged failure of it |
| `EndChat`, `SaveCursor`, `StopPull` | the chat cap; the cursor; a 403, an exception or the worker's death |
| `StartDeletion`, `DeleteBlob`, `AppendEvent`, `StopJob` | the selection of rows; per row the delete (or its logged failure), then the event (or its refusal) |

The append is one step here, since `AuditChain` shows what its transactions
amount to; the race for a `chain_seq` stays as a refusal that may happen. A page
of `list_chats` is read whole. `asked`, `kept` and `excused` are history variables:
what a deletion selected, whose last delete failed, what the known gaps may miss. One of
the gaps is the first pull's: a chat silent for the whole look-back (`Dormant`) is listed by no pull
until it is written to again.

### CursorPulls

The seven streams have cursors of their own and do not interact, so a behaviour
is about one, `stream`, chosen in `Init`. `vendor` is what the vendor would answer
now, `records` what has been recorded under each external_id, `task[w]` a running
pull or backfill: the segment it asks for, what it has still to append, and where
its cursor goes.

| action | code |
|---|---|
| `Tick`, `VendorReport`, `Grant` | the clock; the vendor adds or restates a row, within the days it may (analytics until `FreshnessLag` after the day's end); the customer grants a scope |
| `StartPull`, `StartBackfill` | the head of `_pull_*_for_tenant` and of `backfill_admin_for_tenant`: the cursor is loaded, the window planned (`AdminPlan` ... `VertexCostsPlan`) |
| `List`, `Refused`, `EndLoop` | one call for a segment; its 403; a loop by day or by chunk that has nothing left |
| `AppendRow` | one record: append and `increment`, or a duplicate; the page cap of analytics |
| `AppendUnmetered`, `AppendRefused`, `FailPull` | a death between the two; an IntegrityError for a lost `chain_seq`; an exception or a death |
| `SaveCursor` | `_save_cursor`, per pull, per day or per chunk |

`horizon` is history: below it lies what the first pull's window left out, and what a backfill
jumps over whose cursor is older than its days (`LeavesGap`). `asked` and `superseded` are history of
analytics: the days it has listed, and the amounts that the vendor replaced when such a day was over
(`TooLate`), an amount of zero for a row that was not there yet.
`Normalize` says per stream what records an answer becomes: sentinel rows for empty
buckets, where the stream writes them, and no amount in the external_id.

### BudgetAlerts

An evaluation is one transaction over all budgets: `pending[w]` holds its uncommitted
rows, which block an INSERT of the same key (`Held`) but are invisible to others.

| action | code |
|---|---|
| `StartEvaluation`, `StartForecast` | the SELECT of the live budgets; the guardrails and the linear fit over the days |
| `EvaluateBudget` | window, spend, thresholds reached |
| `InsertEvent`, `SkipLevel` | `INSERT ... ON CONFLICT DO NOTHING` with and without a row, and the alert that follows a row at once (`SendAlert`) |
| `Commit` | the end of `session_scope` |
| `FailBudget`, `DatabaseError`, `Die`, `DeadlockVictim` | the `except` of the loop over budgets; the aborted transaction; a worker's death; two evaluations that lock in opposite orders |
| `CreateBudget`, `UpdateBudget`, `DeleteBudget`, `Acknowledge` | the API |

`SendAlert` opens a PagerDuty incident for a budget whose recipients have a key (`Routed`, which stays
as it is), unless the POST fails: the code logs that and goes on. The priced spend of a day only grows here: pricing belongs to `SpendViews`, appending
to `CursorPulls`.

### McpSignIn

`parked` is Redis, `pairs` is `mcp_access_tokens`, and `codes`, `refreshable`, `cached` and
`keys.server` die with the MCP server's process (`Restart`). Every presentation may be
repeated by any registered client with any verifier; a response may be lost after
the row is committed (`IssueTokenPair` without `received`).

| action | code |
|---|---|
| `Register`, `Authorize`, `Session`, `MintBridgeToken`, `Callback` | `/register`, `/authorize`, the gateway's cookie, `/auth/mcp-bridge`, `/authorize/callback` with `Verify`, `Claim` (GETDEL) and `MintCode` |
| `Exchange`, `Refresh` | `/token`: popped before the checks; the row, then the refresh token, then the answer |
| `VerifyToken`, `Revoke`, `AccessExpires` | the bearer check with its cache; `revoked_at`; lifetimes |
| `CodeExpires`, `StateExpires`, `RefreshExpires`, `BridgeTokenExpires` | lifetimes, at any moment |
| `RotateKey`, `RestartGateway`, `EdgeCaches`, `EdgeForgets`, `RefreshBridgeJwk` | the PEM, the process that loaded it, the cached well-known document, the beat task, which sets the key of a Celery worker |

### TenantVault

`req[p]` is what process `p` (a request or a task) is in the middle of; between any two
of its steps another one runs, and it may fail (`Fail`). `agenda` names the kinds of
request one behaviour makes, to keep the instance small.

| action | code |
|---|---|
| `SignIn`, `SignOut` | the SSO callback, which copies `users.tenant_id` into the cookie; logout |
| `SelectRegion`, `CommitTenant`, `Answer` | the idempotency check, the provisioning transaction, the new cookie |
| `FindKek`, `GenerateKek`, `ListSessions`, `CommitDek` | `get_or_create_kek` in its two halves; a DEK provisioned by the sessions page, whose INSERT another may have won |
| `SubmitComplianceKey`, `SubmitVendorKey`, `SubmitGoogleCredentials`, `Seal`, `SealSecond` | the submit endpoints: the DEK is read (`LoadDek`), the UPSERT comes later; Google's two secrets are two transactions |
| `StoreContent`, `PutContent` | encryption under the DEK that was read, then the object store |
| `Shred`, `AppendDeletion` | `destroy_tenant_dek`, then the event |
| `StartBackfill`, `RecordBackfill` | the check with the dispatch, then the UPDATE that keeps the id; `Polls` is the status endpoint's condition |

Wrapped keys, secrets and blobs are the number of the key they are under. `destroyed`
and `lost` are history variables.

### Directory, SpendViews, Dashboard

`Directory` models requests as READ COMMITTED transactions: `req[p].pend` is what the
transaction has written, and its domain the rows it has locked. `StartReconcile`,
`Upsert`, `CommitReconcile`, `Deadlock` are the reconcile task and the one that GET
/users runs first (`Roster` and `Unmapped` are its two SELECTs); `StartMap` and `MapAlias` link
by hand; `StartRole`, `ReadTarget`, `CountAdmins`, `WriteRole` are the four statements of a
role change; `StartClassify`, `ClassifyBatch`, `NotConfigured`, `SaveTopics` the classifier;
`StartDetail`, `ReadTopics`, `ReadTotal` the member's page.

`SpendViews` has no state. Its operators take a set of records and a window and
return what an endpoint, a card or a budget computes from them: rate cards and
lookups (`RatesAt`, `LookupModel`, `ResolveRates`), estimates per record (`EstimateCost`),
the rows and totals of /usage, the cache recommendations, the series by day and by
vendor, the shares, the cards and their flags, the capabilities. Amounts are whole numbers and a
model's name is the sequence of its parts, so that "longest prefix" keeps its meaning.

`Dashboard` extends both and adds the walks: `StartUsage`, `UsagePage`, `StartSessions`,
`SessionsPage`, `OpenSession`, one action per page, while `Arrive` adds records and the
directory's requests go on. So the list of members and its spend by alias are read
against the same moving tables.

## 3. Runs

| run | expects | shows | bounds |
|---|---|---|---|
| `chain` | pass | `ChainIntegrity`, `SnapshotsVerify`, `TamperEvident`, the refinement of `AppendOnlyLog`, and that a waiting INSERT is decided | 2 writers, 2 tenants, 3 keys, 2 contents |
| `ingest` | pass | nothing below the cursor is missing unless raced or capped, no logged interaction is missing unless raced, billing follows the chain, only `AuditChain` steps are taken; every activity and interaction is decided, however pulls and deliveries overlap | 2 workers, 1 event, clock to 2, cap of 1 page of 1, 1 retry, 1 failure |
| `activity_race` | violation | a lost race for `chain_seq` loses a logged interaction | 2 workers, 2 events |
| `metering` | pass | `RetryBacked`, `BilledOrQueued`, the refinement of `UsageLedger`, counts leave the active hash | 2 workers, 2 tenants, 3 counts, 1 failure |
| `metering_overlap` | pass | every flush ends, deadlocks included | 2 workers, 1 tenant with 2 counters, 4 counts, no failure |
| `content` | pass | rows keep their blobs, proofs stand over deleted blobs, deleted stays deleted, missed messages have a cause | 2 pulls, 1 deletion of both chats, 2 chats in 2 calls, cap of 1 chat, 2 messages, a look-back of 0 ticks, 2 faults |
| `pulls` | pass | no reported row falls behind the cursor unrecorded; analytics keeps the vendor's amounts, but for what changes in the freshness lag | 7 streams in turn, 2 workers, 2 keys, days of 2 ticks, a lag of 1, clock to 3 (4 for `vertex_costs` and `code_analytics`), 2 reports, 1 failure, cap of 1 |
| `analytics_lag` | violation | a pull just after midnight keeps a partial amount of yesterday for ever | as `pulls`, of `code_analytics`, no failure |
| `budgets` | pass | an alert repeats only after a rollback; PagerDuty misses one only by a failed POST; rows are borne out by the spend | 2 workers, a monthly tenant budget with PagerDuty and a daily one of a workspace, months of 3 days, caps 2 and 3, levels 50 and 100, days 0 and 1, 3 units of usage, 1 fault or edit |
| `sign_in` | pass | tokens descend from one authorization each; codes and refresh tokens are good once | 2 clients, 1 user, 2 attempts, 2 keys, 1 bridge token at a time, 2 pairs, 1 fault, cache of 1 |
| `tenants` | pass | no half tenant; only a shred loses data | 1 user, 2 processes, 3 tenants, 3 keys, 3 backfill tasks, 1 blob; three agendas |
| `views` | pass | walks miss and repeat nothing, sums agree, links are kept | 2 processes, 2 members; nine usage and cost records of three vendors with one operation, or at most four records of people with up to five; 2 windows, 2 filters, pages of 2 |

Why the bounds are enough. Two writers make every race for a tip, with one of them
overtaken, refused, blocked or rolled back; a third adds nothing that the pairwise
constraints tell apart (and the theorems cover any number). Two tenants separate
the chains and share a key; two contents of one key are a restated record. In
`ingest` a cap of one page gives a capped pull with an activity on each side and
a second pull that overlaps it; one retry and one failure reach both outcomes
of each handler and every stage at which a worker may die. Its liveness needs both
workers too: pulls overlap and write the cursor over each other's, and a message is redelivered while its first delivery
runs. In `metering` three
counts give two flushes the same counter, or a second tenant before or after it,
and one failure strands a flush at each of its stages; `metering_overlap` has both
counters of one tenant in both lock orders. In `content` two messages are two of one
chat or one of each, two pulls meet at every step of the same message while a
deletion runs, and two faults are a refused append or failed delete and a death; with a look-back of no
ticks every chat that is silent when the first pull starts is beyond it.
In `pulls` a clock of three ticks is a day and the next, so that a partial bucket is
recorded and its day ends (four for costs, whose window of restatement must close, and for analytics, whose lag of one tick must end
inside the day after, in time for another pull);
two workers are a pull beside a pull or beside the backfill, and a backfill has two chunks. That the cursor is older
than the backfill's days does not happen within these bounds; the theorem covers it. In `budgets` three units
cross each level of each cap, the second day ends the daily period inside the
monthly one, and the fault falls on every step of two evaluations. In `sign_in` two
pairs are a first pair and its successor or two lines; the fault is a lost
response, a failed INSERT or a restart. In `tenants` three keys are a first DEK, its
successor after a shred, and a second tenant's; the agendas keep apart what does
not share state beyond the tenant and its DEK. In `views` the card of rates changes
between the two days, one record has no price, two rows tie in their instant, one bill is
zero, and one name does not pass through a session's id unchanged. Symmetry is over
workers, pulls, processes and clients, which no definition tells apart; no run with a liveness
property uses it.
`CHECK_DEADLOCK FALSE` is set where the bounds on clock, counts, messages or work
let the instance stop (`ingest`, `activity_race`, `metering`, `metering_overlap`,
`content`, `views`); the others check deadlock.

Fairness. A Celery task that was started runs on (weak fairness of its steps), an
INSERT that waits on a unique index is woken when the other transaction ends
(strong fairness, since others may take the slot meanwhile; in `ActivityIngest`, where one kind of step is possible
for a worker at a time, one strong fairness per worker says both), beat enqueues pulls
and flushes for ever and Celery's queues are first-in first-out (strong fairness
of starting a pull and of delivering a message; weak fairness of starting a flush).
No action of the environment, no failure, no expiry and no arrival of an activity
is fair. Only `AuditChain`, `ActivityIngest` and `Metering` state fairness; the other modules
are checked for safety and action properties.

Every property of a passing run has a mutant in `PROJECT.json`: a plausible slip in
the code (a dropped constraint, a GET for a GETDEL, a cursor saved after a refusal,
an UPSERT for an INSERT, a count that is skipped) that TLC then finds. The mutated forms stand
before the definitions they replace and are marked as such.

### Findings

Two are shown by runs of their own; the others are where a property had to be stated
weaker than a comment of the code promises, and the property names the exception.

* **Lost races count as duplicates** (`activity_race`). `persist_event.py:115`,
  `pull_compliance.py:323` and the other ingest tasks treat any `IntegrityError` as a
  dedup hit; `chain.py:136` says it may also be a lost race for `chain_seq`.
* **Analytics asks for a day that is not settled** (`analytics_lag`). `pull_code_analytics.py:102-104` names a
  freshness lag of an hour and takes a day that is over for settled. A pull in the first hour after midnight records
  the day as it then is and saves the cursor; what the vendor still adds is never asked for (`superseded` in
  `SettledAmounts`, fourth exception of `BehindCursor`).
* **The page cap loses the older activities.** The listing is newest-first and the
  cursor is saved as the newest time seen (`capped` in `ActivitiesAccounted`).
* **Stranded flush hashes are not picked up**, against `metering.py:27-29`.
* **The idempotency key does not name the flush**: the second flush of a minute
  bucket is answered with the first one's charge (`BilledOrQueued` promises a first charge).
* **A content cursor over batches listed one after the other.** A chat updated after
  its batch was listed is below the cursor that a later batch saves; the chat cap
  has the same effect (`ContentAccounted`).
* **A partial day stays partial.** A usage row's external_id leaves the amount out, so
  the day's first record makes every re-pull of it a duplicate (`pull_vertex_usage.py`,
  `pull_admin.py`, `pull_openai_usage.py`); so does a restated Vertex cost (`pull_vertex_costs.py`).
  `BehindCursor` therefore asks that a row be recorded, and only `SettledAmounts`, of
  analytics, asks for the amount, as it was when the day was last asked for.
* **A late backfill jumps over a gap** (`pull_admin.py:471`). It starts at the later of the cursor
  and `now - days`; when the cursor is older than that, what lies between is never asked for again
  (`LeavesGap`, the third exception of `BehindCursor`).
* **PagerDuty merges a forecast with the crossing that follows it**: its dedup_key has no kind.
* **A failed POST to PagerDuty is not repeated** (`pagerduty.py:102`): the row is committed, so that no later evaluation
  alerts (`Unheard` in `AlertsOnce`, at most one for each failure).
* **One budget's database error undoes the others' rows**, whose alerts were sent (`AlertsOnce`).
* **Two region choices make two tenants** (`onboarding.py:544`), and **two start-backfill
  requests two backfills**, the first of which cannot be polled (`onboarding.py:983`): `TenantsWhole`
  bounds both by the requests under way at once.
* **A shredded tenant gets a new DEK** when sessions are listed, and a second shred leaves no event.
* **Two processes create two KEKs** of one label (`hsm.py:64`), and what was wrapped under
  one does not open under the other (`KeysKept` bounds their number).
* **The daily JWK refresh sets the wrong process's key** (`refresh_bridge_jwk.py:44`).
* **The walk through /sessions skips ties**, and an actor with a `|` or without a name gets an id
  that opens somebody else's session or none (`PagesWhole`).
* **Two demotions leave no admin** (`users.py:951`; `raced` in `DirectorySound`).
* **GET /users answers 500 when its reconcile deadlocks**, against `users.py:309-310`.
* **"N of M classified" may have N > M** while an alias moves (`moved`).
* **Unlabelled summaries starve the older ones** (`classify_topics.py:84`).
* **The forecast's level and its basis come from two windows** (`cost_forecasting.py:266`).
* **Window totals are priced by one card**: they differ from the rows across a change of
  rates, and a record's cost goes to the first model it names (`OneCard` in `ViewsAgree`).

## 4. Proofs

The proofs hold for every value of the constants that satisfies the named assumptions of
the modules. These are

* `RequestsAssumption` (requests are made of tenants, keys and contents) and
  `GenesisAssumption` (no row hashes to the genesis word, which is no hash) of `AuditChain`;
* `IngestAssumption` (with the `GenesisAssumption` of `ActivityIngest`) and `ContentAssumption`: bounds are naturals, pages and calls are not
  empty, a chat is listed in one call (the users' ids are deduplicated), the missing
  message is none of the messages, and no cursor is no time;
* `MeteringAssumption`: a counter's first component is a tenant, billed tenants are
  tenants, workers and counters are finitely many;
* `SignInAssumption` and `VaultAssumption`: the nobody is no user and no client, processes are
  finitely many, vendors' secrets have names of their own, bounds are naturals, and there is
  a key and a place in the cache;
* `PullsAssumption`: the streams are among the seven, the keys are finitely many and the sentinel is none
  of them, days, chunks, backfills and the page cap are not empty, no clock is bounded before the start; windows and lags are naturals;
* `DirectoryAssumption`: members and what may be recorded are finitely many, a record's id is its own, nobody is
  no member, a batch is not empty, and a tenant begins with an admin;
* `PageAssumption` and `ListsAssumption` of `Dashboard`: a page is not empty; times, ids and the parts of a usage record
  are numbered, a bucket of OpenAI's has one row or none, the collation orders what actors are called, and an actor's type, a word of
  the vendors', has no `|`;
* `SpendAssumption` of `SpendViews`: a rate card has finitely many models with rates that are not negative, Anthropic's
  cards change at midnight UTC (`anthropic_rates.py:179`), and Vertex's high tier is no cheaper than the low one;
* `ViewsAssumption` of `Dashboard`: an MCP record names who was signed in, a usage of OpenAI's that names anyone
  has the user's id, through which `pull_openai_usage.py` finds the email, and the vendors report no negative count
  or bill. The last is about the vendors: nothing checks it. A negative OpenAI bill would set the views apart, since the month's level
  and the cost centres ask for an amount `> 0` and the daily series for one `!= 0`;
* `BudgetsAssumption`: thresholds are finitely many percentages, caps and period lengths are
  positive, a name and a cap exist, finitely many values of a scope, of which the tenant is none, and what is routed are budgets.

Finiteness is what tables, processes and a Redis hash have; it is assumed where something is
counted or added up. Each theorem follows from an inductive invariant, which TLC checked
on the instance of the component's run before it was proved.

### AuditChain

`ChainTypeCorrect`, `ChainIntegrityHolds`, `SnapshotsAlwaysVerify`, `TamperEvidentHolds`, and
`ChainImplementsLog`, the refinement.

`ChainIntegrity` is itself inductive. Its first three parts say what a
reader sees: slots are `1..n` (`GapFree`), no two rows share a slot or a key
(`NoFork`), each row is hashed over its predecessor (`AllLinked`). They are not
inductive alone: a commit adds a row derived from a tip read long ago. The
strengthening is about uncommitted work. `CandidatesLinked` says the predecessor a
writer read is still in the table, because committed rows are never removed;
`InsertsExclusive` says an inserted row collides with nobody, which is what the
unique index enforces and what a commit of somebody else could break only by
colliding. With both, the committed slot is free and its predecessor's slot taken,
and so it is exactly `n + 1` (`NextSlot`, `CommitKeepsGapFree`). Verification follows
from integrity alone (`IntegrityVerifies`). For the refinement, `LogIsSequence` shows
the mapped log is a sequence, and `CommitAppends` that a commit appends to it and
every other step leaves it alone. Tampering: in a whole chain a changed row no longer
recomputes (`ForgedNoticed`), and a row that is resealed, missing or another tenant's leaves a
successor, or a slot, that does not follow (`RemovalNoticed`).

### ActivityIngest

`IngestImplementsChain` (the composition takes only `AuditChain`'s steps), `IngestKeepsChainWhole`
(by the theorem of `AuditChainProofs` for this instance), `IngestTypeCorrect`,
`ActivitiesAccountedHolds`, `EventsAccountedHolds`, `MeterTracksChainHolds`.

`IngestStepIsChainStep` goes through the actions; an append of an activity is a request
of `AuditChain` because only past times are listed (`FeedInv`). About the cursor the heart is
`ReachInv`: for every running pull, an activity that is neither appended nor excused is
ahead of the pull's position, or at least as new as all it will write to the cursor, so that saving
the cursor, late or back, passes nothing. `TasksInv` follows an interaction from the broker through its
deliveries; `MeterInv` counts: what was appended is counted, in the hands of a
worker that will count it, or lost to a failure, at most one each.

### Metering

`RetryBackedHolds`, `BilledOrQueuedHolds`, `MeteringTypeCorrect`, and
`MeteringImplementsLedger`, the refinement of `UsageLedger`.

The first two rest on `FlushInv`, the invariant of a transaction in progress. What is queued was
reported, what is reported is an item of the batch, a batch that is about to commit
upserted all its items and, for a billed tenant, reported all of them; and a
reported item is charged or queued in the same transaction. A rollback drops
`queued` and `upserted` together, so the committed books stay in step. For the
refinement, `Pending` adds up what is active, in the hands of each flush and stranded; with
`TodoInv` (the tenant of an open batch is still to do) `LedgerStep` shows that each step moves, records or loses
exactly what one of the ledger's does. The type invariant adds `BoundsInv`: nothing is
recorded or charged beyond what was counted.

### CursorPulls

`PullsTypeCorrect`, `BehindCursorHolds`, `SettledAmountsHolds`, in the second half of `MeteringProofs`: what is
recorded here is metered there.

`BehindCursor` says nothing of running pulls, and the cursor is written by whichever saves last, so
`PullsInv` says of each what it will make true. A row is due when it is unrecorded and not excused, and
reported or of a day that analytics has yet to ask for (`Open`, `Due`). Until a pull saves, every row that is due then is not passed by its segment, or it is in
its hands when the cursor it will save is above it (`CoverOk`); hence a saved cursor has no due row behind it
(`CursorOk`), even one that moves back. New rows cannot spoil this: the vendor reports only where no cursor that is
saved (`Settled`), and no segment (`SettledFrom`), has passed (`FreshAhead`), but for analytics in the lag of a day
that was asked for, and what it changes then is superseded. Each stream's plan keeps the first half
(`PlanIs`), each listing the second (`ListingIs`). For analytics, what is in hand is of days that are
over and asked for, and current or superseded (`Listed`, which `ListedStays` keeps whatever the vendor reports later); that is
`HandOk`, and so what is recorded is one of the two (`FinalOk`). `MeterOk` counts. The proof of
`BackfillPlanIs` does not go through without the case `LeavesGap`, which is how that finding was met.

### ContentLifecycle

`ContentTypeCorrect`, `ProofMeansGoneHolds`, `BlobsMatchRowsHolds`, `ContentAccountedHolds` and the action
property `DeletedStaysGoneHolds`.

`ContentInv` says of each pull where its locals stand (`PullsInv`), that the blob it is about to write, or
has written and not tied to a row, is no row's (`RefsInv`: this is why neither a clean-up nor a
late write touches a row's blob), that a deletion is about rows that were selected and sends an event
only over a blob that is gone or whose deletion failed (`JobsInv`), and that a
running pull will still come to every message that is neither captured nor excused, since its chat was written to at or
after where the pull starts (`Surfaces` and `Ahead`, stage by stage, in `CoverInv`). The others the first pull has excused.

### McpSignIn

`SignInTypeCorrect`, `TokensDescendHolds`, `OneShotHolds`.

Codes and pairs are numbered without a gap (`CodesInv`, `PairsInv`, `RefersInv`), so that a new one
is unlike any other and unknown to every table. `LineInv`: a pair is the first of its code or the only
successor of another pair, which can no longer be refreshed. `FreshInv`: a code in the store has no pair
and was not presented, and a pair that cannot be refreshed lost its token to one of three causes. The
pop before the checks is what keeps both.

### Directory and Dashboard

`DashboardTypeCorrect`, `DirectorySoundHolds`, the action property `LinksKeptHolds`, `PagesWholeHolds` and `ViewsAgreeHolds`, in the
second, third and fourth part of `IdentityProofs`, for the whole of `DashboardSpec`.

A request is a transaction of several statements and acts on what an earlier one has read. `DirInv` says of
each operation what of that still stands (`RequestOk`), whatever others have committed since. `WritesOk`: an alias
that a reconcile has written and not committed is either the committed one or was nobody's, and its row is locked by this
request alone (`Exclusive`), so that its commit, however late, takes a link from nobody only. `RoleOk`: a role
about to be written leaves an admin of those that were counted; if they are no longer the admins, the write
raced. `ReadOk`: the classified that a page has counted are among its summaries, which only grow, unless one was given
away. Most steps touch one request and no table (`Quiet`); for the six that write a table, `StillOk` lists what the
others' requests need: records grow, members stay, locked rows are as they were. The lock is what the proof of
`Commits` and `MapAliasStep` cannot do without.

`WalkInv` is about the walks. Of /usage (`UsageOk`): what was shown stands in order, and of the rows that were there at
first each one that is still listed was shown or comes after the cursor. Records only grow, and supersede rows but restore
none (`RowLasts`), so that an arrival keeps it. Of /sessions (`SessionsOk`): the cursor compares less than the list sorts by, so that
only a session alone at its instant (`Lone`) is known to be before the cursor and unseen, or shown once and not after it; a later page shows more
and leaves fewer alone, which is why the alone ones are taken anew in each state. A session is the summary of its day's and
actor's records, and as long as it is unchanged none of them has arrived since (`SessionLasts`: as many, and a subset). A page is the
beginning of a sorted list: `Ranks` counts, for each element of a finite set in an order, those before it, and the counts
are an injection into as many numbers, so that each number occurs (`Ordered`). That needs no induction, and is why
`InOrder` of the model (`RowsSorted`, `SessionsSorted`) says ORDER BY by what comes before.

`ViewsAgree` is about the records alone: any finite set of them that the feed may hold (`FeedInv`, `Tables`), in any window. Every
road to a spend is taken back to `Spend(rows)`, one sum over the rows of the records. A record's estimate is the spend of its
rows (`EstimateIs`), and rows of several records are disjoint (`AllRowsAre`), so that what is priced by record adds up to the rows,
whatever it is grouped by (`EstimatesByKey`: days, projects, vendors' models). A bucket that is priced as one costs what its rows
cost when they are alike (`BucketIs`: one source, one model, one card): for the days because a card holds from midnight to
midnight (`CardOfDay`), for models, workspaces and totals of a window because of `OneCard`. What is hidden (superseded
rows, unnamed models) or dropped (unpriced buckets, zero days) adds nothing (`SpendSplits`, `PricedIs`, `BilledByKey`). A member's
spend is that of the records under the member's aliases, so that all members' together are the records that name anyone
(`UsersAdd`). Most of it regroups sums (`SumOfParts` of `SetSums`); a longest prefix enters only as one of the rates (`LookupIn`).

### TenantVault

`VaultTypeCorrect`, `TenantsWholeHolds`, `KeysKeptHolds`.

`RequestsInv` is what still stands of a request's earlier reads when its next step comes: the DEK it loaded is
the tenant's or was destroyed, never replaced while alive; who is about to get a tenant had none.
`KeksInv`, `OwnersInv` and `BackfillInv` bound KEKs, tenants and backfills by the processes:
each one that exists, with each request that may still make one, was some process's
own (`Cardinality` of both together). `DeksInv` and `SealedInv` number the DEKs and tie what is sealed to them.

### BudgetAlerts

`BudgetsTypeCorrect`, `AlertsOnceHolds`, `RowsExplainedHolds`.

Seen from one worker, a step lets it stay, end, start, weigh a budget or settle a threshold
(`WorkersMove`); the invariants are proved over these five. `KeysInv`: a key has one row in sight, and an
evaluation comes to it once (`ToCome`), so that it blocks the others and never itself. `AlertsInv`: what was alerted
is committed, in a transaction or lost; rows without an alert and alerts that PagerDuty did not hear of
(`Unsent`) are no more than the failures; an incident is of an alert (`IncidentsOk`). `LowerInv`: the levels that remain to be settled are closed downwards, since they are taken from
the lowest up and the forecast is monotone (the denominator of the fit is positive, by `SumOfSquares`). `BorneInv`: while
nothing is edited, every pending or weighed crossing is borne out by its period's spend, which only
grows (`SpendGrows`), and a period is the same when it is taken again (`PeriodStarts`).

### SetSums

What the proofs need of sums over finite sets (the folds of the community modules): a sum has
its recursive value (`SumIs`), grows with its terms (`SumMonotone`), changes by one term's change (`SumChanges`),
is at least each term (`SumAtLeast`), may be taken apart at any term (`SumRemoves`), adds up and is multiplied
(`SumLinear`), and is the sum of the sums of its parts (`SumOfParts`). The prover has no induction over an operator; each is proved by a smallest
counterexample instead: the strict subset ordering of a finite set is well founded, so that a set
of counterexamples would have a least element, which taking one element away refutes.

### Only model-checked

Liveness: `AppendSettles`, `EverythingDecided`, `CountsLeave` and `FlushEnds`, since fairness and ENABLED are outside
the prover. Every invariant and every other action property of the runs is a theorem.

## 5. What the models leave out

Not modelled at all: the content view and eDiscovery export with their text matching, which read and render;
the names of OpenAI projects, keys and users and of Admin workspaces, which are
upserted, last writer wins, and used as labels only; onboarding metrics;
migrations, demo data and scripts, which run by hand (the constraints that the
migrations create are in the modules). Dispatchers only enqueue: they are the
fairness or the freedom with which a task starts.

Data. The JSON text of values: an `occurred_at` with a non-UTC offset, or a float whose
text Postgres changes, may fail to verify untouched, and a content is an atom here.
`content_size_bytes` is not in the hashed dict, so no property says an edit of it is
noticed. Ciphers open under their own key only, digests and random ids do not
collide. Amounts are whole units: rounding prices to six decimals and sums to cents is left out, so that
`ViewsAgree` holds in the code up to it; so are wording,
ranking and the breach date of the forecast card, and the two cards that are
placeholders.

Time. TTLs and lifetimes are expiries that may happen at any moment, not durations:
so the minute in which the token cache may still serve a revoked token is only
that it may. `created_at` is unique in an instance of the activity feed, whose first pull starts at
its first tick and not a day back (`pull_compliance.py:293-295`). Celery's
visibility timeout is a second delivery that may happen at any time. Every record of `views` is younger
than the 90 days of the capabilities.

Paths. Messages without text, which the content pull skips; the integrity tags; the reveal event, which is one
more append; the probes of vendor keys at validation, MCP status and the connector's
steps; magic links, the session middleware and the heatmap; the spike
mode of /authorize, a foreign `resource` and the discovery documents; the rendering
and delivery of mail and Slack.

## 6. Plan

The components that carry the program's logic are modelled; all their invariants and action
properties are proved, and their liveness is model-checked. What is left:

| next | module | what it needs |
|---|---|---|
| the content view and eDiscovery export | a new module | text matching abstracted to what a query finds |
