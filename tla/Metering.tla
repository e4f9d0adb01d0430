------------------------------ MODULE Metering ------------------------------
(***************************************************************************)
(* metering.py and billing/stripe_client.py: the counters that ingest      *)
(* tasks increment in Redis, and flush(), which beat runs every minute in  *)
(* any of the Celery workers, whether or not an earlier flush still runs.  *)
(*                                                                         *)
(* flush() renames the active hash to a key of its own, then, tenant by    *)
(* tenant, opens a transaction that UPSERTs the tenant's usage_records and *)
(* reports each item to Stripe before it commits.  An UPSERT locks its row *)
(* until the end of the transaction.  An exception or a death leaves the   *)
(* flush hash behind, until its TTL.                                       *)
(*                                                                         *)
(* A counter is a Redis field, <<tenant, meter>>: a meter stands for       *)
(* (record_type, bucket_start).  The buckets are minutes and the flush is  *)
(* not aligned to them, so one counter may be in many flushes.             *)
(***************************************************************************)
EXTENDS Naturals, FiniteSets, FiniteSetsExt

CONSTANTS Tenants,
          Counters,      \* the Redis fields, <<tenant, meter>>
          Billed,        \* tenants with a tenant_billing row and a dispatcher
          Workers,       \* Celery processes that may run a flush
          NoTenant,
          MaxCount,      \* bound: increments in all
          MaxFailures    \* bound: exceptions and deaths of flushes, in all

ASSUME MeteringAssumption == /\ \A c \in Counters : c[1] \in Tenants
                             /\ Billed \subseteq Tenants
                             /\ NoTenant \notin Tenants
                             /\ IsFiniteSet(Counters) /\ IsFiniteSet(Workers)
                             /\ MaxCount \in Nat /\ MaxFailures \in Nat

VARIABLES active,     \* the hash vargate:meter:active
          stranded,   \* counts in flush hashes that no flush works on
          flush,      \* the flush each worker runs
          usage,      \* usage_records.record_count
          stripe,     \* what Stripe charged under each idempotency key
          retry,      \* billing_retry: the quantities queued, summed
          failures    \* history: failures so far

buffers == <<active, stranded>>
books   == <<usage, stripe, retry>>
vars    == <<buffers, flush, books, failures>>

Zero == [c \in Counters |-> 0]

Positive(h) == {c \in Counters : h[c] > 0}

IdleFlush == [stage |-> "idle", hash |-> Zero, todo |-> {}, tenant |-> NoTenant,
              upserted |-> {}, reported |-> {}, queued |-> {}]

Init == /\ active = Zero /\ stranded = Zero
        /\ flush = [w \in Workers |-> IdleFlush]
        /\ usage = Zero /\ stripe = Zero /\ retry = Zero
        /\ failures = 0

-----------------------------------------------------------------------------
\* The tenants' counts that a flush has still to commit.
Held(w) == [c \in Counters |->
              IF c[1] \in flush[w].todo THEN flush[w].hash[c] ELSE 0]

HeldByAll(c) == MapThenSumSet(LAMBDA w : Held(w)[c], Workers)

Pending == [c \in Counters |-> active[c] + stranded[c] + HeldByAll(c)]

Counted(c) == Pending[c] + usage[c]

\* increment(): HINCRBY on the active hash.
Increment(c) ==
    /\ MapThenSumSet(Counted, Counters) < MaxCount
    /\ active' = [active EXCEPT ![c] = @ + 1]
    /\ UNCHANGED <<stranded, flush, books, failures>>

-----------------------------------------------------------------------------
(* flush() *)

\* Mutants of Rename: HGETALL of the active hash, not renamed; one fixed
\* flush key, which must be free.
RenameLeaves(w) ==
    /\ flush[w].stage = "idle"
    /\ active # Zero
    /\ flush' = [flush EXCEPT
          ![w].stage = "drain",
          ![w].hash = active,
          ![w].todo = {c[1] : c \in Positive(active)}]
    /\ UNCHANGED <<buffers, books, failures>>

RenameOntoFreeKey(w) ==
    /\ flush[w].stage = "idle"
    /\ active # Zero
    /\ stranded = Zero
    /\ flush' = [flush EXCEPT
          ![w].stage = "drain",
          ![w].hash = active,
          ![w].todo = {c[1] : c \in Positive(active)}]
    /\ active' = Zero
    /\ UNCHANGED <<stranded, books, failures>>

\* RENAME, EXPIRE, HGETALL; with no active hash the flush returns 0.
Rename(w) ==
    /\ flush[w].stage = "idle"
    /\ active # Zero
    /\ flush' = [flush EXCEPT
          ![w].stage = "drain",
          ![w].hash = active,
          ![w].todo = {c[1] : c \in Positive(active)}]
    /\ active' = Zero
    /\ UNCHANGED <<stranded, books, failures>>

\* The next tenant, in the order HGETALL happened to give.
OpenBatch(w, t) ==
    /\ flush[w].stage = "drain"
    /\ t \in flush[w].todo
    /\ flush' = [flush EXCEPT ![w].stage = "upsert", ![w].tenant = t]
    /\ UNCHANGED <<buffers, books, failures>>

Items(w) == {c \in Positive(flush[w].hash) : c[1] = flush[w].tenant}

ToUpsert(w) == Items(w) \ flush[w].upserted

\* An uncommitted UPSERT holds its row.
Locks(w) == flush[w].upserted

LockedByOther(w, c) == \E v \in Workers \ {w} : c \in Locks(v)

Upsert(w, c) ==
    /\ flush[w].stage = "upsert"
    /\ c \in ToUpsert(w)
    /\ ~LockedByOther(w, c)
    /\ flush' = [flush EXCEPT
          ![w].upserted = @ \union {c},
          ![w].stage = IF ToUpsert(w) # {c} THEN @
                       ELSE IF flush[w].tenant \in Billed THEN "report"
                       ELSE "commit"]
    /\ UNCHANGED <<buffers, books, failures>>

\* One SubscriptionItem.create_usage_record call.  Stripe remembers the
\* idempotency key, which is the counter's: it charges the first quantity,
\* repeats its answer to the same request, and refuses another quantity.
Charge(w, c) ==
    LET n == flush[w].hash[c] IN
      /\ stripe' = [stripe EXCEPT ![c] = IF @ = 0 THEN n ELSE @]
      /\ stripe[c] \in {0, n}

\* A call that raises: refused, not delivered, or its answer lost.
ChargeFails(w, c) == UNCHANGED stripe \/ Charge(w, c)

\* Mutants of Report: the billing_retry row in a transaction of its own; an
\* exception that is logged and nothing else.
ReportQueuesAtOnce(w, c) ==
    /\ flush[w].stage = "report"
    /\ c \in Items(w) \ flush[w].reported
    /\ flush' = [flush EXCEPT
          ![w].reported = @ \union {c},
          ![w].stage = IF flush[w].reported \union {c} = Items(w)
                       THEN "commit" ELSE @]
    /\ \/ Charge(w, c) /\ UNCHANGED retry
       \/ /\ ChargeFails(w, c)
          /\ retry' = [retry EXCEPT ![c] = @ + flush[w].hash[c]]
    /\ UNCHANGED <<buffers, usage, failures>>

ReportForgets(w, c) ==
    /\ flush[w].stage = "report"
    /\ c \in Items(w) \ flush[w].reported
    /\ flush' = [flush EXCEPT
          ![w].reported = @ \union {c},
          ![w].stage = IF flush[w].reported \union {c} = Items(w)
                       THEN "commit" ELSE @]
    /\ ChargeFails(w, c)
    /\ UNCHANGED <<buffers, usage, retry, failures>>

\* report_usage: an exception becomes a billing_retry row.
Report(w, c) ==
    /\ flush[w].stage = "report"
    /\ c \in Items(w) \ flush[w].reported
    /\ LET last == flush[w].reported \union {c} = Items(w)
           moved == [flush EXCEPT ![w].reported = @ \union {c},
                                  ![w].stage = IF last THEN "commit" ELSE @]
       IN  \/ Charge(w, c) /\ flush' = moved
           \/ /\ ChargeFails(w, c)
              /\ flush' = [moved EXCEPT ![w].queued = @ \union {c}]
    /\ UNCHANGED <<buffers, usage, retry, failures>>

\* The quantities of the items in S, added to a table.
Add(table, w, S) ==
    [c \in Counters |-> table[c] + IF c \in S THEN flush[w].hash[c] ELSE 0]

Commit(w) ==
    /\ flush[w].stage = "commit"
    /\ usage' = Add(usage, w, flush[w].upserted)
    /\ retry' = Add(retry, w, flush[w].queued)
    /\ flush' = [flush EXCEPT
          ![w] = [IdleFlush EXCEPT !.stage = "drain", !.hash = flush[w].hash,
                                   !.todo = flush[w].todo \ {flush[w].tenant}]]
    /\ UNCHANGED <<buffers, stripe, failures>>

\* Every batch has committed: DEL the flush hash.
EndFlush(w) ==
    /\ flush[w].stage = "drain"
    /\ flush[w].todo = {}
    /\ flush' = [flush EXCEPT ![w] = IdleFlush]
    /\ UNCHANGED <<buffers, books, failures>>

\* Mutants of Strand: the whole flush hash goes back to the active one; the
\* transaction stays open.
StrandGivesBack(w) ==
    /\ active' = [c \in Counters |-> active[c] + flush[w].hash[c]]
    /\ flush' = [flush EXCEPT ![w] = IdleFlush]
    /\ UNCHANGED <<stranded, books>>

StrandInTransaction(w) ==
    /\ stranded' = [c \in Counters |-> stranded[c] + Held(w)[c]]
    /\ flush' = [flush EXCEPT ![w] = [IdleFlush EXCEPT !.upserted = Locks(w)]]
    /\ UNCHANGED <<active, books>>

\* The flush is over, its transaction rolled back, its hash left in Redis.
Strand(w) ==
    /\ stranded' = [c \in Counters |-> stranded[c] + Held(w)[c]]
    /\ flush' = [flush EXCEPT ![w] = IdleFlush]
    /\ UNCHANGED <<active, books>>

\* flush() raises (flush_counters is not retried), or its process dies.
FlushFails(w) ==
    /\ flush[w].stage # "idle"
    /\ failures < MaxFailures
    /\ failures' = failures + 1
    /\ Strand(w)

\* Two batches that each wait for a row of the other: the HGETALL orders
\* need not agree.  Postgres aborts one of them.
Blocked(w) == /\ flush[w].stage = "upsert"
              /\ \A c \in ToUpsert(w) : LockedByOther(w, c)

DeadlockVictim(w) ==
    /\ Blocked(w)
    /\ \E v \in Workers \ {w} : Blocked(v) /\ Locks(v) \intersect ToUpsert(w) # {}
    /\ Strand(w)
    /\ UNCHANGED failures

-----------------------------------------------------------------------------
\* The two-hour TTLs, of flush hashes that are left and of the active hash.
StrandedExpires ==
    /\ stranded # Zero
    /\ stranded' = Zero
    /\ UNCHANGED <<active, flush, books, failures>>

ActiveExpires ==
    /\ active # Zero
    /\ active' = Zero
    /\ UNCHANGED <<stranded, flush, books, failures>>

FlushStep(w) == \/ \E t \in Tenants : OpenBatch(w, t)
                \/ \E c \in Counters : Upsert(w, c) \/ Report(w, c)
                \/ Commit(w) \/ EndFlush(w) \/ DeadlockVictim(w)

Next == \/ \E c \in Counters : Increment(c)
        \/ \E w \in Workers : Rename(w) \/ FlushStep(w) \/ FlushFails(w)
        \/ StrandedExpires \/ ActiveExpires

Spec == Init /\ [][Next]_vars

(***************************************************************************)
(* A flush that runs goes on, and a batch that waits for a row gets it     *)
(* when the other transaction ends; beat starts a flush in some worker     *)
(* every minute.  Nothing forces increments, failures or expiries.         *)
(***************************************************************************)
Fairness == /\ \A w \in Workers : WF_vars(FlushStep(w))
            /\ WF_vars(\E w \in Workers : Rename(w))

FairSpec == Spec /\ Fairness
-----------------------------------------------------------------------------
Quantities == [Counters -> 0..MaxCount]

FlushState == [stage : {"idle", "drain", "upsert", "report", "commit"},
               hash : Quantities, todo : SUBSET Tenants,
               tenant : Tenants \union {NoTenant},
               upserted : SUBSET Counters, reported : SUBSET Counters,
               queued : SUBSET Counters]

\* Type invariant of the buffers, the flushes and the books.
TypeOK == /\ {active, stranded, usage, stripe, retry} \subseteq Quantities
          /\ flush \in [Workers -> FlushState]
          /\ failures \in 0..MaxFailures

\* A queued quantity is always backed by the usage it was measured from: a
\* rollback takes the billing_retry rows with it (stripe_client.py, "under
\* the same session").
RetryBacked == \A c \in Counters : retry[c] <= usage[c]

\* Of a billed tenant no counter is recorded and wholly forgotten by
\* billing: whatever Stripe answered, it was charged or queued.
BilledOrQueued ==
    \A c \in Counters :
        (c[1] \in Billed /\ usage[c] > 0) => stripe[c] + retry[c] > 0

(***************************************************************************)
(* Metering implements UsageLedger: whatever flushes overlap, deadlock,    *)
(* fail and strand, a count is in one buffer or in one row, and is         *)
(* recorded at most once (test_concurrent_flush_safe, test_atomic_rename). *)
(***************************************************************************)
Ledger == INSTANCE UsageLedger WITH pending <- Pending, recorded <- usage

ImplementsLedger == Ledger!LedgerSpec

\* Counts do not stay in the active hash: a flush takes them.
CountsLeave == \A c \in Counters : active[c] > 0 ~> active[c] = 0

\* Every flush ends, though batches wait for each other's rows.
FlushEnds == \A w \in Workers : flush[w].stage # "idle" ~> flush[w].stage = "idle"
=============================================================================
