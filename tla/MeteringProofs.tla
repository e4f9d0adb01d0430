--------------------------- MODULE MeteringProofs ---------------------------
(***************************************************************************)
(* Proofs about Metering, for every set of tenants, counters and workers:  *)
(* the billing queue never runs ahead of usage_records, and billing never  *)
(* wholly forgets a recorded counter.  Both are about committed books; the *)
(* invariant that carries them is about the transactions in progress.  The *)
(* second half is about CursorPulls, the pulls whose records are metered.  *)
(***************************************************************************)
EXTENDS Metering, CursorPulls, SetSums

Counts == [Counters -> Nat]

FlushRecord == [stage : {"idle", "drain", "upsert", "report", "commit"},
                hash : Counts, todo : SUBSET Tenants,
                tenant : Tenants \union {NoTenant},
                upserted : SUBSET Counters, reported : SUBSET Counters,
                queued : SUBSET Counters]

\* The types of TypeOK, without the bounds of the instances.
Types == /\ active \in Counts /\ stranded \in Counts
         /\ usage \in Counts /\ stripe \in Counts /\ retry \in Counts
         /\ flush \in [Workers -> FlushRecord]

\* A flush before its next batch, between two of them and after the last one
\* holds no part of a transaction.
OutsideBatch(w) ==
    flush[w].stage \in {"idle", "drain"} =>
        /\ flush[w].upserted = {} /\ flush[w].reported = {}
        /\ flush[w].queued = {}

\* What is queued was reported, and both are items of the batch; reporting
\* starts when every item is upserted.
InsideBatch(w) ==
    /\ flush[w].upserted \subseteq Items(w)
    /\ flush[w].reported \subseteq flush[w].upserted
    /\ flush[w].queued \subseteq flush[w].reported
    /\ flush[w].stage = "upsert" => flush[w].reported = {}
    /\ flush[w].stage \in {"report", "commit"} => flush[w].upserted = Items(w)

\* A billed batch commits only after each of its items was reported, and a
\* reported item is charged, or queued by this very transaction.
ReportedBeforeCommit(w) ==
    /\ (flush[w].stage = "commit" /\ flush[w].tenant \in Billed)
          => flush[w].reported = Items(w)
    /\ \A c \in flush[w].reported : stripe[c] > 0 \/ c \in flush[w].queued

BatchInv(w) == OutsideBatch(w) /\ InsideBatch(w) /\ ReportedBeforeCommit(w)

FlushInv == \A w \in Workers : BatchInv(w)

BooksInv == Types /\ FlushInv /\ RetryBacked /\ BilledOrQueued
-----------------------------------------------------------------------------
(***************************************************************************)
(* The types are an invariant by themselves.                               *)
(***************************************************************************)
LEMMA TypesInit == Init => Types
  BY DEF Init, Types, Counts, FlushRecord, Zero, IdleFlush

(***************************************************************************)
(* The state of a worker between two flushes is well typed.                *)
(***************************************************************************)
LEMMA IdleFlushTyped == IdleFlush \in FlushRecord
  BY DEF IdleFlush, FlushRecord, Counts, Zero

(***************************************************************************)
(* Strand leaves naturals in the stranded hashes and an idle flush.        *)
(***************************************************************************)
LEMMA StrandTyped ==
    ASSUME Types, NEW w \in Workers, Strand(w)
    PROVE  Types'
  <1>1. flush[w].hash \in Counts
    BY DEF Types, FlushRecord
  <1>2. stranded' \in Counts
    BY <1>1 DEF Types, Counts, Strand, Held
  <1>3. flush' \in [Workers -> FlushRecord]
    BY IdleFlushTyped DEF Types, Strand
  <1> QED BY <1>2, <1>3 DEF Types, Strand, books

(***************************************************************************)
(* Every step of flush(), of the counters and of the TTLs keeps the types. *)
(***************************************************************************)
LEMMA TypesStep == Types /\ [Next]_vars => Types'
  <1> SUFFICES ASSUME Types, [Next]_vars PROVE Types'
    OBVIOUS
  <1>1. ASSUME NEW c \in Counters, Increment(c) PROVE Types'
    BY <1>1 DEF Types, Increment, books, Counts
  <1>2. ASSUME NEW w \in Workers, Rename(w) PROVE Types'
    <2>1. {c[1] : c \in Positive(active)} \subseteq Tenants
      BY MeteringAssumption DEF Positive
    <2> DEFINE f == [flush[w] EXCEPT
                        !.stage = "drain", !.hash = active,
                        !.todo = {c[1] : c \in Positive(active)}]
    <2>2. f \in FlushRecord
      BY <2>1 DEF Types, FlushRecord
    <2>3. flush' = [flush EXCEPT ![w] = f]
      BY <1>2 DEF Types, Rename
    <2>4. flush' \in [Workers -> FlushRecord]
      <3> HIDE DEF f
      <3> QED BY <2>2, <2>3 DEF Types
    <2> QED BY <1>2, <2>4 DEF Types, Rename, books, Counts, Zero
  <1>3. ASSUME NEW w \in Workers, NEW t \in Tenants, OpenBatch(w, t)
        PROVE Types'
    BY <1>3, ZenonT(60) DEF Types, OpenBatch, buffers, books, FlushRecord
  <1>4. ASSUME NEW w \in Workers, NEW c \in Counters, Upsert(w, c)
        PROVE Types'
    <2> DEFINE f == [flush[w] EXCEPT
                        !.upserted = @ \union {c},
                        !.stage = IF ToUpsert(w) # {c} THEN @
                                  ELSE IF flush[w].tenant \in Billed
                                  THEN "report" ELSE "commit"]
    <2>1. f \in FlushRecord
      BY DEF Types, FlushRecord
    <2>2. flush' = [flush EXCEPT ![w] = f]
      BY <1>4 DEF Types, Upsert
    <2> HIDE DEF f
    <2>3. flush' \in [Workers -> FlushRecord]
      BY <2>1, <2>2 DEF Types
    <2> QED BY <1>4, <2>3 DEF Types, Upsert, buffers, books
  <1>5. ASSUME NEW w \in Workers, NEW c \in Counters, Report(w, c)
        PROVE Types'
    <2> DEFINE f == [flush[w] EXCEPT
                        !.reported = @ \union {c},
                        !.stage = IF flush[w].reported \union {c} = Items(w)
                                  THEN "commit" ELSE @]
               g == [f EXCEPT !.queued = @ \union {c}]
    <2>1. flush' \in [Workers -> FlushRecord]
      <3>1. f \in FlushRecord /\ g \in FlushRecord
        BY DEF Types, FlushRecord
      <3>2. \/ flush' = [flush EXCEPT ![w] = f]
            \/ flush' = [flush EXCEPT ![w] = g]
        BY <1>5 DEF Types, Report
      <3> HIDE DEF f, g
      <3> QED BY <3>1, <3>2 DEF Types
    <2>2. flush[w].hash \in Counts
      BY DEF Types, FlushRecord
    <2>3. stripe' \in Counts
      BY <1>5, <2>2 DEF Types, Counts, Report, ChargeFails, Charge
    <2> QED BY <1>5, <2>1, <2>3 DEF Types, Report, buffers
  <1>6. ASSUME NEW w \in Workers, Commit(w) PROVE Types'
    <2>1. flush[w] \in FlushRecord
      BY DEF Types
    <2>2. usage' \in Counts /\ retry' \in Counts
      BY <1>6, <2>1 DEF Types, Counts, Commit, Add, FlushRecord
    <2>3. flush' \in [Workers -> FlushRecord]
      BY <1>6, <2>1, IdleFlushTyped DEF Types, Commit, FlushRecord
    <2> QED BY <1>6, <2>2, <2>3 DEF Types, Commit, buffers
  <1>7. ASSUME NEW w \in Workers, EndFlush(w) PROVE Types'
    BY <1>7, IdleFlushTyped DEF Types, EndFlush, buffers, books
  <1>8. ASSUME NEW w \in Workers, FlushFails(w) \/ DeadlockVictim(w)
        PROVE Types'
    BY <1>8, StrandTyped DEF FlushFails, DeadlockVictim
  <1>9. ASSUME StrandedExpires \/ ActiveExpires PROVE Types'
    BY <1>9 DEF Types, StrandedExpires, ActiveExpires, books, Counts, Zero
  <1>10. CASE UNCHANGED vars
    BY <1>10 DEF Types, vars, buffers, books
  <1> QED
    BY <1>1, <1>2, <1>3, <1>4, <1>5, <1>6, <1>7, <1>8, <1>9, <1>10
    DEF Next, FlushStep
-----------------------------------------------------------------------------
\* What a step may never take back: that Stripe charged a counter.
ChargesKept == \A c \in Counters : stripe[c] > 0 => stripe'[c] > 0

(***************************************************************************)
(* Stripe forgets no charge: a counter once charged stays charged.         *)
(***************************************************************************)
LEMMA ChargesStay == Types /\ [Next]_vars => ChargesKept
  <1> SUFFICES ASSUME Types, [Next]_vars PROVE ChargesKept
    OBVIOUS
  <1>1. stripe \in Counts
    BY DEF Types
  <1>2. ASSUME NEW w \in Workers, NEW d \in Counters, Report(w, d)
        PROVE ChargesKept
    <2>1. CASE Charge(w, d)
      BY <1>1, <2>1 DEF ChargesKept, Charge, Counts
    <2>2. CASE UNCHANGED stripe
      BY <2>2 DEF ChargesKept
    <2> QED BY <1>2, <2>1, <2>2 DEF Report, ChargeFails
  <1>3. CASE UNCHANGED stripe
    BY <1>1, <1>3 DEF ChargesKept
  <1> QED
    BY <1>2, <1>3
    DEF Next, FlushStep, Increment, Rename, OpenBatch, Upsert, Commit,
        EndFlush, FlushFails, DeadlockVictim, Strand, StrandedExpires,
        ActiveExpires, buffers, books, vars

(***************************************************************************)
(* A step of one flush leaves the transactions of the others as they are.  *)
(***************************************************************************)
LEMMA OthersUntouched ==
    ASSUME Types, FlushInv, ChargesKept,
           NEW w \in Workers, NEW f, flush' = [flush EXCEPT ![w] = f],
           BatchInv(w)'
    PROVE  FlushInv'
  <1> SUFFICES ASSUME NEW v \in Workers \ {w} PROVE BatchInv(v)'
    BY DEF FlushInv
  <1>1. flush'[v] = flush[v] /\ BatchInv(v)
    BY DEF FlushInv, Types
  <1>2. Items(v)' = Items(v)
    BY <1>1 DEF Items, Positive
  <1>3. flush[v].reported \subseteq Counters
    BY <1>1 DEF Types, FlushRecord
  <1> QED
    BY <1>1, <1>2, <1>3
    DEF BatchInv, OutsideBatch, InsideBatch, ReportedBeforeCommit, ChargesKept

(***************************************************************************)
(* An idle flush, and one between two batches, satisfy the invariant.      *)
(***************************************************************************)
LEMMA NoBatchNoClaim ==
    ASSUME NEW w \in Workers,
           flush[w].stage \in {"idle", "drain"},
           flush[w].upserted = {}, flush[w].reported = {}, flush[w].queued = {}
    PROVE  BatchInv(w)
  BY DEF BatchInv, OutsideBatch, InsideBatch, ReportedBeforeCommit

(***************************************************************************)
(* An UPSERT adds one item; the last one opens the reports of a billed     *)
(* tenant or, of any other, the commit.                                    *)
(***************************************************************************)
LEMMA UpsertKeepsBatch ==
    ASSUME Types, FlushInv, NEW w \in Workers, NEW c \in Counters, Upsert(w, c)
    PROVE  BatchInv(w)'
  <1>1. BatchInv(w) /\ flush[w] \in FlushRecord
    BY DEF FlushInv, Types
  <1>2. /\ flush[w].stage = "upsert" /\ flush[w].reported = {}
        /\ flush[w].queued = {} /\ c \in Items(w)
        /\ flush[w].upserted \subseteq Items(w)
    BY <1>1 DEF Upsert, ToUpsert, BatchInv, InsideBatch
  <1>3. /\ flush'[w].hash = flush[w].hash
        /\ flush'[w].tenant = flush[w].tenant
        /\ flush'[w].upserted = flush[w].upserted \union {c}
        /\ flush'[w].reported = {} /\ flush'[w].queued = {}
        /\ flush'[w].stage = IF ToUpsert(w) # {c} THEN "upsert"
                             ELSE IF flush[w].tenant \in Billed THEN "report"
                             ELSE "commit"
    BY <1>1, <1>2 DEF Types, Upsert, FlushRecord
  <1>4. Items(w)' = Items(w)
    BY <1>3 DEF Items, Positive
  <1>5. ToUpsert(w) = {c} => flush'[w].upserted = Items(w)
    BY <1>2, <1>3 DEF ToUpsert
  <1>6. flush'[w].stage \notin {"idle", "drain"}
    BY <1>3
  <1>7. InsideBatch(w)'
    BY <1>2, <1>3, <1>4, <1>5 DEF InsideBatch
  <1>8. ReportedBeforeCommit(w)'
    BY <1>3 DEF ReportedBeforeCommit
  <1> QED BY <1>6, <1>7, <1>8 DEF BatchInv, OutsideBatch

(***************************************************************************)
(* A report adds one item, which is charged or queued; the last one opens  *)
(* the commit.                                                             *)
(***************************************************************************)
LEMMA ReportKeepsBatch ==
    ASSUME Types, FlushInv, ChargesKept,
           NEW w \in Workers, NEW c \in Counters, Report(w, c)
    PROVE  BatchInv(w)'
  <1> DEFINE f == [flush[w] EXCEPT
                      !.reported = @ \union {c},
                      !.stage = IF flush[w].reported \union {c} = Items(w)
                                THEN "commit" ELSE @]
             g == [f EXCEPT !.queued = @ \union {c}]
  <1>0. \/ Charge(w, c) /\ flush'[w] = f
        \/ flush'[w] = g
    <2>1. \/ Charge(w, c) /\ flush' = [flush EXCEPT ![w] = f]
          \/ flush' = [flush EXCEPT ![w] = g]
      BY DEF Types, Report
    <2> HIDE DEF f, g
    <2> QED BY <2>1 DEF Types
  <1>1. BatchInv(w) /\ flush[w] \in FlushRecord
    BY DEF FlushInv, Types
  <1>2. /\ flush[w].stage = "report" /\ c \in Items(w)
        /\ flush[w].upserted = Items(w)
        /\ flush[w].reported \subseteq Items(w)
        /\ flush[w].queued \subseteq flush[w].reported
    BY <1>1 DEF Report, BatchInv, InsideBatch
  <1>3. /\ flush'[w].hash = flush[w].hash
        /\ flush'[w].tenant = flush[w].tenant
        /\ flush'[w].upserted = flush[w].upserted
        /\ flush'[w].reported = flush[w].reported \union {c}
        /\ flush'[w].stage = IF flush[w].reported \union {c} = Items(w)
                             THEN "commit" ELSE "report"
    BY <1>0, <1>1, <1>2 DEF FlushRecord
  <1>4. \/ Charge(w, c) /\ flush'[w].queued = flush[w].queued
        \/ flush'[w].queued = flush[w].queued \union {c}
    BY <1>0, <1>1 DEF FlushRecord
  <1> HIDE DEF f, g
  <1>5. Charge(w, c) => stripe'[c] > 0
    <2>1. flush[w].hash[c] > 0 /\ flush[w].hash[c] \in Nat
      BY <1>1, <1>2 DEF Items, Positive, FlushRecord, Counts
    <2> QED BY <2>1 DEF Charge, Types, Counts
  <1>6. Items(w)' = Items(w)
    BY <1>3 DEF Items, Positive
  <1>7. InsideBatch(w)'
    BY <1>2, <1>3, <1>4, <1>6 DEF InsideBatch
  <1>8. flush'[w].stage = "commit" => flush'[w].reported = Items(w)'
    BY <1>3, <1>6
  <1>9. ASSUME NEW d \in flush'[w].reported
        PROVE  stripe'[d] > 0 \/ d \in flush'[w].queued
    <2>1. CASE d = c
      BY <2>1, <1>4, <1>5
    <2>2. CASE d \in flush[w].reported
      <3>1. stripe[d] > 0 \/ d \in flush[w].queued
        BY <1>1, <2>2 DEF BatchInv, ReportedBeforeCommit
      <3>2. d \in Counters
        BY <1>1, <2>2 DEF FlushRecord
      <3> QED BY <3>1, <3>2, <1>4 DEF ChargesKept
    <2> QED BY <1>3, <1>9, <2>1, <2>2
  <1>10. ReportedBeforeCommit(w)'
    BY <1>8, <1>9 DEF ReportedBeforeCommit
  <1>11. OutsideBatch(w)'
    BY <1>3 DEF OutsideBatch
  <1> QED BY <1>7, <1>10, <1>11 DEF BatchInv

(***************************************************************************)
(* No flush runs at first, so no batch claims anything.                    *)
(***************************************************************************)
LEMMA FlushInvInit == Init => FlushInv
  <1> SUFFICES ASSUME Init, NEW w \in Workers PROVE BatchInv(w)
    BY DEF FlushInv
  <1> QED BY NoBatchNoClaim DEF Init, IdleFlush

(***************************************************************************)
(* Every step keeps every transaction in order: the actions of flush() by  *)
(* their own lemmas or because they end the transaction, the others        *)
(* because they touch neither a flush nor Stripe.                          *)
(***************************************************************************)
LEMMA FlushInvStep == Types /\ FlushInv /\ [Next]_vars => FlushInv'
  <1> SUFFICES ASSUME Types, FlushInv, [Next]_vars PROVE FlushInv'
    OBVIOUS
  <1>1. ChargesKept
    BY ChargesStay
  <1>2. ASSUME NEW w \in Workers, Rename(w) PROVE FlushInv'
    <2> DEFINE f == [flush[w] EXCEPT
                        !.stage = "drain", !.hash = active,
                        !.todo = {c[1] : c \in Positive(active)}]
    <2>1. flush' = [flush EXCEPT ![w] = f]
      BY <1>2 DEF Types, Rename
    <2>2. flush[w].stage = "idle" /\ BatchInv(w) /\ flush[w] \in FlushRecord
      BY <1>2 DEF Rename, FlushInv, Types
    <2>3. /\ flush'[w].stage = "drain" /\ flush'[w].upserted = {}
          /\ flush'[w].reported = {} /\ flush'[w].queued = {}
      BY <2>1, <2>2 DEF Types, FlushRecord, BatchInv, OutsideBatch
    <2>4. BatchInv(w)'
      BY <2>3 DEF BatchInv, OutsideBatch, InsideBatch, ReportedBeforeCommit
    <2> HIDE DEF f
    <2> QED BY <1>1, <2>1, <2>4, OthersUntouched
  <1>3. ASSUME NEW w \in Workers, NEW t \in Tenants, OpenBatch(w, t)
        PROVE FlushInv'
    <2> DEFINE f == [flush[w] EXCEPT !.stage = "upsert", !.tenant = t]
    <2>1. flush' = [flush EXCEPT ![w] = f]
      BY <1>3 DEF Types, OpenBatch
    <2>2. flush[w].stage = "drain" /\ BatchInv(w) /\ flush[w] \in FlushRecord
      BY <1>3 DEF OpenBatch, FlushInv, Types
    <2>3. /\ flush'[w].stage = "upsert" /\ flush'[w].upserted = {}
          /\ flush'[w].reported = {} /\ flush'[w].queued = {}
      BY <2>1, <2>2 DEF Types, FlushRecord, BatchInv, OutsideBatch
    <2>4. BatchInv(w)'
      BY <2>3 DEF BatchInv, OutsideBatch, InsideBatch, ReportedBeforeCommit
    <2> HIDE DEF f
    <2> QED BY <1>1, <2>1, <2>4, OthersUntouched
  <1>4. ASSUME NEW w \in Workers, NEW c \in Counters, Upsert(w, c)
        PROVE FlushInv'
    <2> DEFINE f == [flush[w] EXCEPT
                        !.upserted = @ \union {c},
                        !.stage = IF ToUpsert(w) # {c} THEN @
                                  ELSE IF flush[w].tenant \in Billed
                                  THEN "report" ELSE "commit"]
    <2>1. flush' = [flush EXCEPT ![w] = f]
      BY <1>4 DEF Types, Upsert
    <2>2. BatchInv(w)'
      BY <1>4, UpsertKeepsBatch
    <2> HIDE DEF f
    <2> QED BY <1>1, <2>1, <2>2, OthersUntouched
  <1>5. ASSUME NEW w \in Workers, NEW c \in Counters, Report(w, c)
        PROVE FlushInv'
    <2>1. \E f : flush' = [flush EXCEPT ![w] = f]
      <3> DEFINE f == [flush[w] EXCEPT
                          !.reported = @ \union {c},
                          !.stage = IF flush[w].reported \union {c} = Items(w)
                                    THEN "commit" ELSE @]
                 g == [f EXCEPT !.queued = @ \union {c}]
      <3>1. \/ flush' = [flush EXCEPT ![w] = f]
            \/ flush' = [flush EXCEPT ![w] = g]
        BY <1>5 DEF Types, Report
      <3> HIDE DEF f, g
      <3> QED BY <3>1
    <2>2. BatchInv(w)'
      BY <1>1, <1>5, ReportKeepsBatch
    <2> QED BY <1>1, <2>1, <2>2, OthersUntouched
  <1>6. ASSUME NEW w \in Workers, Commit(w) \/ EndFlush(w) \/ Strand(w)
        PROVE FlushInv'
    <2> DEFINE f == IF Commit(w)
                    THEN [IdleFlush EXCEPT
                             !.stage = "drain", !.hash = flush[w].hash,
                             !.todo = flush[w].todo \ {flush[w].tenant}]
                    ELSE IdleFlush
    <2>1. flush' = [flush EXCEPT ![w] = f]
      BY <1>6 DEF Commit, EndFlush, Strand
    <2>2. /\ f.stage \in {"idle", "drain"} /\ f.upserted = {}
          /\ f.reported = {} /\ f.queued = {}
      BY DEF IdleFlush
    <2>3. flush'[w] = f
      <3> HIDE DEF f
      <3> QED BY <2>1 DEF Types
    <2>4. BatchInv(w)'
      <3> HIDE DEF f
      <3> QED BY <2>2, <2>3
          DEF BatchInv, OutsideBatch, InsideBatch, ReportedBeforeCommit
    <2> HIDE DEF f
    <2> QED BY <1>1, <2>1, <2>4, OthersUntouched
  <1>7. CASE UNCHANGED <<flush, stripe>>
    BY <1>7 DEF FlushInv, BatchInv, OutsideBatch, InsideBatch,
                ReportedBeforeCommit, Items, Positive
  <1> QED
    BY <1>2, <1>3, <1>4, <1>5, <1>6, <1>7
    DEF Next, FlushStep, Increment, FlushFails, DeadlockVictim,
        StrandedExpires, ActiveExpires, books, vars
-----------------------------------------------------------------------------
(***************************************************************************)
(* A commit adds to the queue no more than it adds to the usage, because   *)
(* only upserted items are queued.                                         *)
(***************************************************************************)
LEMMA CommitKeepsBacked ==
    ASSUME Types, FlushInv, RetryBacked, NEW w \in Workers, Commit(w)
    PROVE  RetryBacked'
  <1> SUFFICES ASSUME NEW c \in Counters PROVE retry'[c] <= usage'[c]
    BY DEF RetryBacked
  <1> DEFINE n == flush[w].hash[c]
  <1>1. n \in Nat /\ usage[c] \in Nat /\ retry[c] \in Nat
    BY DEF Types, FlushRecord, Counts
  <1>2. c \in flush[w].queued => c \in flush[w].upserted
    BY DEF FlushInv, BatchInv, InsideBatch
  <1>3. /\ usage'[c] = usage[c] + IF c \in flush[w].upserted THEN n ELSE 0
        /\ retry'[c] = retry[c] + IF c \in flush[w].queued THEN n ELSE 0
    BY DEF Commit, Add
  <1>4. retry[c] <= usage[c]
    BY DEF RetryBacked
  <1> HIDE DEF n
  <1> QED BY <1>1, <1>2, <1>3, <1>4

(***************************************************************************)
(* A counter whose usage a commit makes positive was an item of the batch: *)
(* it was reported, hence charged before or queued now.                    *)
(***************************************************************************)
LEMMA CommitKeepsBilled ==
    ASSUME Types, FlushInv, BilledOrQueued, NEW w \in Workers, Commit(w)
    PROVE  BilledOrQueued'
  <1> SUFFICES ASSUME NEW c \in Counters, c[1] \in Billed, usage'[c] > 0
               PROVE  stripe'[c] + retry'[c] > 0
    BY DEF BilledOrQueued
  <1> DEFINE n == flush[w].hash[c]
  <1>1. /\ n \in Nat /\ usage[c] \in Nat
        /\ stripe[c] \in Nat /\ retry[c] \in Nat
    BY DEF Types, FlushRecord, Counts
  <1>2. /\ usage'[c] = usage[c] + IF c \in flush[w].upserted THEN n ELSE 0
        /\ retry'[c] = retry[c] + IF c \in flush[w].queued THEN n ELSE 0
        /\ stripe'[c] = stripe[c]
    BY DEF Commit, Add
  <1>3. CASE usage[c] > 0
    <2>1. stripe[c] + retry[c] > 0
      BY <1>3 DEF BilledOrQueued
    <2> HIDE DEF n
    <2> QED BY <1>1, <1>2, <2>1
  <1>4. CASE c \in flush[w].upserted
    <2>1. flush[w].upserted = Items(w) /\ flush[w].stage = "commit"
      BY DEF Commit, FlushInv, BatchInv, InsideBatch
    <2>2. c[1] = flush[w].tenant /\ n > 0
      BY <1>4, <2>1 DEF Items, Positive
    <2>3. c \in flush[w].reported
      BY <1>4, <2>1, <2>2 DEF FlushInv, BatchInv, ReportedBeforeCommit
    <2>4. stripe[c] > 0 \/ c \in flush[w].queued
      BY <2>3 DEF FlushInv, BatchInv, ReportedBeforeCommit
    <2> HIDE DEF n
    <2> QED BY <1>1, <1>2, <2>2, <2>4
  <1> HIDE DEF n
  <1> QED BY <1>1, <1>2, <1>3, <1>4

(***************************************************************************)
(* All books are empty at first.                                           *)
(***************************************************************************)
LEMMA BooksInit == Init => BooksInv
  <1> SUFFICES ASSUME Init PROVE RetryBacked /\ BilledOrQueued
    BY TypesInit, FlushInvInit DEF BooksInv
  <1> QED BY DEF Init, RetryBacked, BilledOrQueued, Zero

(***************************************************************************)
(* Only a commit changes usage_records and billing_retry; a report,        *)
(* outside of any commit, can only add to what Stripe charged.             *)
(***************************************************************************)
LEMMA BooksStep == BooksInv /\ [Next]_vars => BooksInv'
  <1> SUFFICES ASSUME BooksInv, [Next]_vars
               PROVE  RetryBacked' /\ BilledOrQueued'
    BY TypesStep, FlushInvStep DEF BooksInv
  <1>1. ASSUME NEW w \in Workers, Commit(w)
        PROVE  RetryBacked' /\ BilledOrQueued'
    BY <1>1, CommitKeepsBacked, CommitKeepsBilled DEF BooksInv
  <1>2. CASE UNCHANGED <<usage, retry>>
    <2>1. RetryBacked'
      BY <1>2 DEF BooksInv, RetryBacked
    <2>2. ASSUME NEW c \in Counters, stripe[c] + retry[c] > 0
          PROVE  stripe'[c] + retry'[c] > 0
      <3>1. Types /\ Types'
        BY TypesStep DEF BooksInv
      <3>2. /\ stripe[c] \in Nat /\ retry[c] \in Nat
            /\ stripe'[c] \in Nat /\ retry'[c] = retry[c]
        BY <1>2, <3>1 DEF Types, Counts
      <3>3. stripe[c] > 0 => stripe'[c] > 0
        BY ChargesStay DEF BooksInv, ChargesKept
      <3> QED BY <2>2, <3>2, <3>3
    <2> QED BY <1>2, <2>1, <2>2 DEF BooksInv, BilledOrQueued
  <1> QED
    BY <1>1, <1>2, ZenonT(60)
    DEF Next, FlushStep, Increment, Rename, OpenBatch, Upsert, Report,
        EndFlush, FlushFails, DeadlockVictim, Strand, StrandedExpires,
        ActiveExpires, books, vars

(***************************************************************************)
(* For every instance: no billing_retry row outlives the rollback of the   *)
(* usage it was measured from (stripe_client.py, _persist_retry).          *)
(***************************************************************************)
THEOREM RetryBackedHolds == Spec => []RetryBacked
  <1>1. BooksInv => RetryBacked
    BY DEF BooksInv
  <1> QED BY <1>1, BooksInit, BooksStep, PTL DEF Spec

(***************************************************************************)
(* For every instance: a billed tenant's recorded counter was charged or   *)
(* is queued, though flushes overlap, fail and repeat idempotency keys     *)
(* (stripe_client.py, report_usage).                                       *)
(***************************************************************************)
THEOREM BilledOrQueuedHolds == Spec => []BilledOrQueued
  <1>1. BooksInv => BilledOrQueued
    BY DEF BooksInv
  <1> QED BY <1>1, BooksInit, BooksStep, PTL DEF Spec
-----------------------------------------------------------------------------
(* What is pending: a sum over the flushes. *)

\* What each flush holds of counter c, as a function to add up.
HeldOf(c) == [w \in Workers |-> Held(w)[c]]

(***************************************************************************)
(* The fold of the model is the sum of that function.                      *)
(***************************************************************************)
LEMMA HeldIsSum == \A c \in Counters : HeldByAll(c) = SumOf(HeldOf(c), Workers)
  <1> SUFFICES ASSUME NEW c \in Counters
               PROVE  HeldByAll(c) = SumOf(HeldOf(c), Workers)
    OBVIOUS
  <1>1. PICK F : Adds(F, HeldOf(c), Workers)
    BY MeteringAssumption, AddsExists
  <1>2. \A s \in SUBSET Workers : s # {} => HeldOf(c)[Some(s)] = Held(Some(s))[c]
    BY SomeIn DEF HeldOf
  <1> DEFINE Solves(G) == G = [s \in SUBSET Workers |->
                  IF s = {} THEN 0 ELSE Held(Some(s))[c] + G[s \ {Some(s)}]]
             G == CHOOSE G : Solves(G)
  <1>3. Solves(F)
    BY <1>1, <1>2 DEF Adds
  <1>4. Solves(G)
    <2> HIDE DEF Solves
    <2> QED BY <1>3
  <1>5. HeldByAll(c) = G[Workers]
    BY DEF HeldByAll, MapThenSumSet, MapThenFoldSet, Some
  <1> HIDE DEF G
  <1>6. Adds(G, HeldOf(c), Workers)
    BY <1>2, <1>4 DEF Adds
  <1>7. SumOf(HeldOf(c), Workers) = G[Workers]
    BY <1>6, SumIs, MeteringAssumption
  <1> QED BY <1>5, <1>7

(***************************************************************************)
(* What a flush holds is a natural, and so is what all of them hold.       *)
(***************************************************************************)
LEMMA HeldTyped ==
    Types => \A c \in Counters : /\ HeldOf(c) \in [Workers -> Nat]
                                 /\ HeldByAll(c) \in Nat
  <1> SUFFICES ASSUME Types, NEW c \in Counters
               PROVE  HeldOf(c) \in [Workers -> Nat] /\ HeldByAll(c) \in Nat
    OBVIOUS
  <1>1. HeldOf(c) \in [Workers -> Nat]
    BY DEF HeldOf, Held, Types, FlushRecord, Counts
  <1>2. SumOf(HeldOf(c), Workers) \in Nat
    BY <1>1, SumMonotone, MeteringAssumption
  <1> QED BY <1>1, <1>2, HeldIsSum

\* The same after a step.
LEMMA HeldNext ==
    /\ (\A c \in Counters : HeldByAll(c) = SumOf(HeldOf(c), Workers))'
    /\ Types' => (\A c \in Counters : /\ HeldOf(c) \in [Workers -> Nat]
                                      /\ HeldByAll(c) \in Nat)'
  BY HeldIsSum, HeldTyped, PTL

(***************************************************************************)
(* A step of one flush changes the sum by what that flush holds.           *)
(***************************************************************************)
LEMMA HeldMoves ==
    ASSUME Types, Types', NEW w \in Workers,
           NEW f, flush' = [flush EXCEPT ![w] = f],
           NEW c \in Counters
    PROVE  HeldByAll(c)' + Held(w)[c] = HeldByAll(c) + Held(w)'[c]
  <1>1. PICK g : g = HeldOf(c)
    OBVIOUS
  <1>2. PICK h : h = HeldOf(c)'
    OBVIOUS
  <1>3. g \in [Workers -> Nat]
    BY <1>1, HeldTyped
  <1>4. h \in [Workers -> Nat]
    BY <1>2, HeldNext
  <1>5. g[w] = Held(w)[c] /\ h[w] = Held(w)'[c]
    BY <1>1, <1>2 DEF HeldOf
  <1>6. \A v \in Workers : v # w => h[v] = g[v]
    BY <1>1, <1>2 DEF HeldOf, Held, Types
  <1>7. SumOf(h, Workers) + g[w] = SumOf(g, Workers) + h[w]
    BY <1>3, <1>4, <1>6, SumChanges, MeteringAssumption
  <1>8. HeldByAll(c) = SumOf(g, Workers)
    BY <1>1, HeldIsSum
  <1>9. HeldByAll(c)' = SumOf(h, Workers)
    BY <1>2, HeldNext
  <1> QED BY <1>5, <1>7, <1>8, <1>9

\* What is held stays while no flush moves.
LEMMA HeldStays ==
    ASSUME UNCHANGED flush, NEW c \in Counters
    PROVE  HeldByAll(c)' = HeldByAll(c)
  <1>1. HeldOf(c)' = HeldOf(c)
    BY DEF HeldOf, Held
  <1> QED BY <1>1, HeldIsSum, HeldNext

(***************************************************************************)
(* A report changes what the flush reported and queued, and its stage.     *)
(***************************************************************************)
LEMMA ReportTouches ==
    ASSUME Types, NEW w \in Workers, NEW c \in Counters, Report(w, c)
    PROVE  /\ \E f : flush' = [flush EXCEPT ![w] = f]
           /\ flush'[w].stage \in {"report", "commit"}
           /\ flush'[w].hash = flush[w].hash
           /\ flush'[w].tenant = flush[w].tenant /\ flush'[w].todo = flush[w].todo
  <1> DEFINE f == [flush[w] EXCEPT
                      !.reported = @ \union {c},
                      !.stage = IF flush[w].reported \union {c} = Items(w)
                                THEN "commit" ELSE @]
             g == [f EXCEPT !.queued = @ \union {c}]
  <1>1. flush[w] \in FlushRecord /\ flush[w].stage = "report"
    BY DEF Types, Report
  <1>2. \/ flush' = [flush EXCEPT ![w] = f]
        \/ flush' = [flush EXCEPT ![w] = g]
    BY DEF Types, Report
  <1>3. flush'[w] = f \/ flush'[w] = g
    <2> HIDE DEF f, g
    <2> QED BY <1>2 DEF Types
  <1>4. \E h : flush' = [flush EXCEPT ![w] = h]
    <2> HIDE DEF f, g
    <2> QED BY <1>2
  <1> QED BY <1>1, <1>3, <1>4 DEF FlushRecord

\* A flush that does not run has no tenant to do, and the tenant of a batch
\* is still to do until the batch commits.
TodoInv == \A w \in Workers :
              /\ flush[w].stage = "idle" => flush[w].todo = {}
              /\ flush[w].stage \in {"upsert", "report", "commit"}
                    => flush[w].tenant \in flush[w].todo

\* No batch is open at first.
LEMMA TodoInit == Init => TodoInv
  BY DEF Init, TodoInv, IdleFlush

(***************************************************************************)
(* Only a commit takes a tenant off, and it ends the batch.                *)
(***************************************************************************)
LEMMA TodoStep == Types /\ TodoInv /\ [Next]_vars => TodoInv'
  <1> SUFFICES ASSUME Types, TodoInv, [Next]_vars, NEW v \in Workers
               PROVE  /\ flush'[v].stage = "idle" => flush'[v].todo = {}
                      /\ flush'[v].stage \in {"upsert", "report", "commit"}
                            => flush'[v].tenant \in flush'[v].todo
    BY DEF TodoInv
  <1>1. /\ flush[v].stage = "idle" => flush[v].todo = {}
        /\ flush[v].stage \in {"upsert", "report", "commit"}
              => flush[v].tenant \in flush[v].todo
    BY DEF TodoInv
  <1>2. flush[v] \in FlushRecord
    BY DEF Types
  <1>3. CASE flush'[v] = flush[v]
    BY <1>1, <1>3
  <1>4. ASSUME Rename(v) PROVE flush'[v].stage = "drain"
    BY <1>4, <1>2 DEF Rename, Types, FlushRecord
  <1>5. ASSUME NEW t \in Tenants, OpenBatch(v, t)
        PROVE  /\ flush'[v].stage = "upsert"
               /\ flush'[v].tenant \in flush'[v].todo
    BY <1>5, <1>2 DEF OpenBatch, Types, FlushRecord
  <1>6. ASSUME NEW c \in Counters, Upsert(v, c) \/ Report(v, c)
        PROVE  /\ flush'[v].stage \in {"upsert", "report", "commit"}
               /\ flush'[v].tenant \in flush'[v].todo
    <2>1. flush[v].stage \in {"upsert", "report"}
      BY <1>6 DEF Upsert, Report
    <2>2. /\ flush'[v].stage \in {"upsert", "report", "commit"}
          /\ flush'[v].tenant = flush[v].tenant /\ flush'[v].todo = flush[v].todo
      <3>1. CASE Upsert(v, c)
        BY <3>1, <2>1, <1>2 DEF Upsert, Types, FlushRecord
      <3>2. CASE Report(v, c)
        BY <3>2, ReportTouches
      <3> QED BY <1>6, <3>1, <3>2
    <2> QED BY <1>1, <2>1, <2>2
  <1>7. ASSUME Commit(v) PROVE flush'[v].stage = "drain"
    BY <1>7 DEF Commit, Types, IdleFlush
  <1>8. ASSUME EndFlush(v) \/ Strand(v)
        PROVE  flush'[v].stage = "idle" /\ flush'[v].todo = {}
    BY <1>8 DEF EndFlush, Strand, Types, IdleFlush
  <1>9. ASSUME NEW w \in Workers, w # v,
               \/ Rename(w) \/ Commit(w) \/ EndFlush(w) \/ Strand(w)
               \/ \E t \in Tenants : OpenBatch(w, t)
               \/ \E c \in Counters : Upsert(w, c) \/ Report(w, c)
        PROVE  flush'[v] = flush[v]
    BY <1>9 DEF Rename, Commit, EndFlush, Strand, OpenBatch, Upsert, Report, Types
  <1>10. CASE UNCHANGED flush
    BY <1>1, <1>10
  <1> QED
    BY <1>3, <1>4, <1>5, <1>6, <1>7, <1>8, <1>9, <1>10
    DEF Next, FlushStep, FlushFails, DeadlockVictim, Increment, StrandedExpires,
        ActiveExpires, vars
-----------------------------------------------------------------------------
(* The steps of the ledger. *)

\* What is pending of a counter: active, stranded or held.
LEMMA PendingIs ==
    /\ \A c \in Counters : Pending[c] = active[c] + stranded[c] + HeldByAll(c)
    /\ Pending = [c \in Counters |-> Pending[c]]
  BY DEF Pending

\* The same after a step.
LEMMA PendingNext ==
    /\ \A c \in Counters : Pending'[c] = active'[c] + stranded'[c] + HeldByAll(c)'
    /\ Pending' = [c \in Counters |-> Pending'[c]]
  <1>1. (\A c \in Counters : Pending[c] = active[c] + stranded[c] + HeldByAll(c))'
    BY PendingIs, PTL
  <1>2. (Pending = [c \in Counters |-> Pending[c]])'
    BY PendingIs, PTL
  <1> QED BY <1>1, <1>2

\* A counter's share of the ledger does not change.
Same(c) == Pending'[c] = Pending[c] /\ usage'[c] = usage[c]

(***************************************************************************)
(* A step of one flush that leaves the other buffers and the books alone,  *)
(* and holds what it held, is no step of the ledger.                       *)
(***************************************************************************)
LEMMA HoldsOn ==
    ASSUME Types, Types', NEW w \in Workers, NEW f, flush' = [flush EXCEPT ![w] = f],
           UNCHANGED <<active, stranded, usage>>, NEW c \in Counters,
           Held(w)'[c] = Held(w)[c]
    PROVE  Same(c)
  <1>1. HeldByAll(c)' + Held(w)[c] = HeldByAll(c) + Held(w)[c]
    BY HeldMoves
  <1>2. HeldByAll(c) \in Nat /\ HeldByAll(c)' \in Nat /\ Held(w)[c] \in Nat
    BY HeldTyped, HeldNext DEF HeldOf
  <1>3. HeldByAll(c)' = HeldByAll(c)
    BY <1>1, <1>2
  <1> QED BY <1>3, PendingIs, PendingNext DEF Same

(***************************************************************************)
(* RENAME: what was active is held.                                        *)
(***************************************************************************)
LEMMA RenameMoves ==
    ASSUME Types, Types', TodoInv, NEW w \in Workers, Rename(w), NEW c \in Counters
    PROVE  Same(c)
  <1> DEFINE f == [flush[w] EXCEPT !.stage = "drain", !.hash = active,
                                   !.todo = {d[1] : d \in Positive(active)}]
  <1>1. flush' = [flush EXCEPT ![w] = f]
    BY DEF Types, Rename
  <1>2. flush'[w].hash = active /\ flush'[w].todo = {d[1] : d \in Positive(active)}
    BY DEF Types, Rename, FlushRecord
  <1> HIDE DEF f
  <1>3. Held(w)[c] = 0
    BY DEF Held, TodoInv, Rename
  <1>4. active[c] \in Nat /\ stranded[c] \in Nat
    BY DEF Types, Counts
  <1>5. Held(w)'[c] = active[c]
    BY <1>2, <1>4 DEF Held, Positive
  <1>6. HeldByAll(c)' + Held(w)[c] = HeldByAll(c) + Held(w)'[c]
    BY <1>1, HeldMoves
  <1>7. HeldByAll(c) \in Nat /\ HeldByAll(c)' \in Nat
    BY HeldTyped, HeldNext
  <1>8. active'[c] = 0 /\ stranded'[c] = stranded[c] /\ usage'[c] = usage[c]
    BY DEF Rename, Zero, books
  <1>9. Pending'[c] = Pending[c]
    <2>1. HeldByAll(c)' = HeldByAll(c) + active[c]
      BY <1>3, <1>5, <1>6, <1>7
    <2> QED BY <2>1, <1>4, <1>7, <1>8, PendingIs, PendingNext
  <1> QED BY <1>8, <1>9 DEF Same

(***************************************************************************)
(* A failed flush: what it held is stranded.                               *)
(***************************************************************************)
LEMMA StrandMoves ==
    ASSUME Types, Types', NEW w \in Workers, Strand(w), NEW c \in Counters
    PROVE  Same(c)
  <1>1. flush' = [flush EXCEPT ![w] = IdleFlush]
    BY DEF Strand
  <1>2. Held(w)'[c] = 0
    BY <1>1 DEF Types, IdleFlush, Held
  <1>3. HeldByAll(c)' + Held(w)[c] = HeldByAll(c) + Held(w)'[c]
    BY <1>1, HeldMoves
  <1>4. HeldByAll(c) \in Nat /\ HeldByAll(c)' \in Nat /\ Held(w)[c] \in Nat
    BY HeldTyped, HeldNext DEF HeldOf
  <1>5. /\ stranded'[c] = stranded[c] + Held(w)[c] /\ active'[c] = active[c]
        /\ usage'[c] = usage[c]
    BY DEF Strand, books
  <1>6. active[c] \in Nat /\ stranded[c] \in Nat
    BY DEF Types, Counts
  <1>7. Pending'[c] = Pending[c]
    <2>1. HeldByAll(c) = HeldByAll(c)' + Held(w)[c]
      BY <1>2, <1>3, <1>4
    <2> QED BY <2>1, <1>4, <1>5, <1>6, PendingIs, PendingNext
  <1> QED BY <1>5, <1>7 DEF Same

(***************************************************************************)
(* A commit: what the flush held of one tenant's counters goes to its rows. *)
(***************************************************************************)
LEMMA CommitMoves ==
    ASSUME Types, Types', FlushInv, TodoInv, NEW w \in Workers, Commit(w)
    PROVE  flush[w].tenant \in Tenants /\ Ledger!RecordBatch(flush[w].tenant)
  <1> DEFINE t == flush[w].tenant
  <1>1. flush[w] \in FlushRecord /\ t \in flush[w].todo
    BY DEF Commit, TodoInv, Types
  <1>2. t \in Tenants
    BY <1>1 DEF FlushRecord
  <1>3. flush[w].upserted = Items(w)
    BY DEF Commit, FlushInv, BatchInv, InsideBatch
  <1>4. /\ flush'[w].hash = flush[w].hash
        /\ flush'[w].todo = flush[w].todo \ {t}
    BY DEF Commit, Types, IdleFlush
  <1>5. SUFFICES ASSUME NEW c \in Counters
                 PROVE  IF c[1] = t
                        THEN /\ usage'[c] >= usage[c]
                             /\ usage'[c] + Pending'[c] = usage[c] + Pending[c]
                        ELSE usage'[c] = usage[c] /\ Pending'[c] = Pending[c]
    BY <1>2 DEF Ledger!RecordBatch
  <1> DEFINE n == flush[w].hash[c]
  <1>6. /\ n \in Nat /\ usage[c] \in Nat /\ active[c] \in Nat /\ stranded[c] \in Nat
        /\ active'[c] = active[c] /\ stranded'[c] = stranded[c]
    BY <1>1 DEF Types, Counts, FlushRecord, Commit, buffers
  <1>7. usage'[c] = usage[c] + IF c[1] = t THEN n ELSE 0
    <2>1. usage'[c] = usage[c] + IF c \in Items(w) THEN n ELSE 0
      BY <1>3 DEF Commit, Add
    <2>2. c \in Items(w) <=> (n > 0 /\ c[1] = t)
      BY DEF Items, Positive
    <2> QED BY <2>1, <2>2, <1>6
  <1>8. Held(w)[c] = (IF c[1] = t THEN n ELSE 0) + Held(w)'[c]
    BY <1>1, <1>4, <1>6 DEF Held
  <1>9. HeldByAll(c)' + Held(w)[c] = HeldByAll(c) + Held(w)'[c]
    <2>1. \E f : flush' = [flush EXCEPT ![w] = f]
      BY DEF Commit
    <2> QED BY <2>1, HeldMoves
  <1>10. /\ HeldByAll(c) \in Nat /\ HeldByAll(c)' \in Nat
         /\ Held(w)[c] \in Nat /\ Held(w)'[c] \in Nat
    BY HeldTyped, HeldNext DEF HeldOf
  <1>11. HeldByAll(c) = HeldByAll(c)' + IF c[1] = t THEN n ELSE 0
    <2> HIDE DEF n, t
    <2> QED BY <1>6, <1>8, <1>9, <1>10
  <1>12. /\ Pending[c] = active[c] + stranded[c] + HeldByAll(c)
         /\ Pending'[c] = active[c] + stranded[c] + HeldByAll(c)'
    BY <1>6, PendingIs, PendingNext
  <1> HIDE DEF n, t
  <1> QED BY <1>6, <1>7, <1>10, <1>11, <1>12

(***************************************************************************)
(* A step of metering is a step of the ledger, or none.                    *)
(***************************************************************************)
LEMMA LedgerStep ==
    ASSUME Types, Types', FlushInv, TodoInv, [Next]_vars
    PROVE  \/ \E c \in Counters : Increment(c) /\ Ledger!CountOne(c)
           \/ \E t \in Tenants : Ledger!RecordBatch(t)
           \/ Ledger!Drop
           \/ UNCHANGED <<Pending, usage>>
  <1>1. usage = [c \in Counters |-> usage[c]] /\ usage' = [c \in Counters |-> usage'[c]]
    BY DEF Types, Counts
  <1>2. (\A c \in Counters : Same(c)) => UNCHANGED <<Pending, usage>>
    <2> SUFFICES ASSUME \A c \in Counters : Same(c) PROVE UNCHANGED <<Pending, usage>>
      OBVIOUS
    <2>1. [c \in Counters |-> Pending'[c]] = [c \in Counters |-> Pending[c]]
      BY DEF Same
    <2>2. [c \in Counters |-> usage'[c]] = [c \in Counters |-> usage[c]]
      BY DEF Same
    <2> QED BY <2>1, <2>2, <1>1, PendingIs, PendingNext
  <1>3. ASSUME NEW w \in Workers, Rename(w) PROVE \A c \in Counters : Same(c)
    BY <1>3, RenameMoves
  <1>4. ASSUME NEW w \in Workers, Strand(w) PROVE \A c \in Counters : Same(c)
    BY <1>4, StrandMoves
  <1>5. ASSUME NEW w \in Workers,
               \/ \E t \in Tenants : OpenBatch(w, t)
               \/ \E c \in Counters : Upsert(w, c) \/ Report(w, c)
               \/ EndFlush(w)
        PROVE  \A c \in Counters : Same(c)
    <2>1. UNCHANGED <<active, stranded, usage>>
      BY <1>5 DEF OpenBatch, Upsert, Report, EndFlush, buffers, books
    <2>2. \E f : flush' = [flush EXCEPT ![w] = f]
      <3>1. ASSUME NEW t \in Tenants, OpenBatch(w, t) PROVE \E f : flush' = [flush EXCEPT ![w] = f]
        <4>1. flush' = [flush EXCEPT ![w] = [flush[w] EXCEPT !.stage = "upsert", !.tenant = t]]
          BY <3>1 DEF OpenBatch, Types
        <4> QED BY <4>1
      <3>2. ASSUME NEW c \in Counters, Upsert(w, c) PROVE \E f : flush' = [flush EXCEPT ![w] = f]
        <4> DEFINE f == [flush[w] EXCEPT
                            !.upserted = @ \union {c},
                            !.stage = IF ToUpsert(w) # {c} THEN @
                                      ELSE IF flush[w].tenant \in Billed
                                      THEN "report" ELSE "commit"]
        <4>1. flush' = [flush EXCEPT ![w] = f]
          BY <3>2 DEF Upsert, Types
        <4> HIDE DEF f
        <4> QED BY <4>1
      <3>3. ASSUME NEW c \in Counters, Report(w, c) PROVE \E f : flush' = [flush EXCEPT ![w] = f]
        BY <3>3, ReportTouches
      <3>4. EndFlush(w) => flush' = [flush EXCEPT ![w] = IdleFlush]
        BY DEF EndFlush
      <3> QED BY <1>5, <3>1, <3>2, <3>3, <3>4
    <2>3. ASSUME NEW c \in Counters PROVE Held(w)'[c] = Held(w)[c]
      <3>1. CASE EndFlush(w)
        BY <3>1 DEF EndFlush, Held, Types, IdleFlush
      <3>2. CASE ~EndFlush(w)
        <4>1. flush[w].hash = flush'[w].hash /\ flush[w].todo = flush'[w].todo
          <5>1. flush[w] \in FlushRecord
            BY DEF Types
          <5>2. ASSUME NEW t \in Tenants, OpenBatch(w, t)
                PROVE  flush[w].hash = flush'[w].hash /\ flush[w].todo = flush'[w].todo
            BY <5>1, <5>2 DEF OpenBatch, Types, FlushRecord
          <5>3. ASSUME NEW d \in Counters, Upsert(w, d)
                PROVE  flush[w].hash = flush'[w].hash /\ flush[w].todo = flush'[w].todo
            BY <5>1, <5>3 DEF Upsert, Types, FlushRecord
          <5>4. ASSUME NEW d \in Counters, Report(w, d)
                PROVE  flush[w].hash = flush'[w].hash /\ flush[w].todo = flush'[w].todo
            BY <5>1, <5>4, ReportTouches
          <5> QED BY <1>5, <3>2, <5>2, <5>3, <5>4
        <4> QED BY <4>1 DEF Held
      <3> QED BY <3>1, <3>2
    <2> QED BY <2>1, <2>2, <2>3, HoldsOn
  <1>6. ASSUME NEW w \in Workers, Commit(w)
        PROVE  \E t \in Tenants : Ledger!RecordBatch(t)
    BY <1>6, CommitMoves
  <1>7. ASSUME NEW c \in Counters, Increment(c) PROVE Ledger!CountOne(c)
    <2>1. UNCHANGED <<stranded, flush, usage>> /\ active' = [active EXCEPT ![c] = @ + 1]
      BY <1>7 DEF Increment, books
    <2>2. ASSUME NEW d \in Counters
          PROVE  Pending'[d] = Pending[d] + IF d = c THEN 1 ELSE 0
      <3>1. HeldByAll(d)' = HeldByAll(d) /\ HeldByAll(d) \in Nat
        BY <2>1, HeldStays, HeldTyped
      <3>2. active[d] \in Nat /\ stranded[d] \in Nat
        BY DEF Types, Counts
      <3>3. active'[d] = active[d] + IF d = c THEN 1 ELSE 0
        BY <2>1, <3>2 DEF Types, Counts
      <3> QED BY <2>1, <3>1, <3>2, <3>3, PendingIs, PendingNext
    <2>3. \A d \in Counters : Pending[d] \in Nat
      BY HeldTyped, PendingIs DEF Types, Counts
    <2>4. [d \in Counters |-> Pending'[d]] = [Pending EXCEPT ![c] = @ + 1]
      BY <2>2, <2>3, PendingIs
    <2> QED BY <2>1, <2>4, PendingNext DEF Ledger!CountOne
  <1>8. ASSUME StrandedExpires \/ ActiveExpires PROVE Ledger!Drop
    <2>1. UNCHANGED <<flush, usage>>
      BY <1>8 DEF StrandedExpires, ActiveExpires, books
    <2>2. ASSUME NEW d \in Counters PROVE Pending'[d] <= Pending[d]
      <3>1. HeldByAll(d)' = HeldByAll(d) /\ HeldByAll(d) \in Nat
        BY <2>1, HeldStays, HeldTyped
      <3>2. /\ active[d] \in Nat /\ stranded[d] \in Nat
            /\ active'[d] \in Nat /\ stranded'[d] \in Nat
            /\ active'[d] <= active[d] /\ stranded'[d] <= stranded[d]
        BY <1>8 DEF Types, Counts, StrandedExpires, ActiveExpires, Zero
      <3> QED BY <3>1, <3>2, PendingIs, PendingNext
    <2> QED BY <2>1, <2>2 DEF Ledger!Drop
  <1>9. CASE UNCHANGED vars
    <2>1. \A c \in Counters : Same(c)
      BY <1>9, HeldStays, PendingIs, PendingNext DEF vars, buffers, books, Same
    <2> QED BY <2>1, <1>2
  <1> QED
    BY <1>2, <1>3, <1>4, <1>5, <1>6, <1>7, <1>8, <1>9
    DEF Next, FlushStep, FlushFails, DeadlockVictim

\* Counts that no flush has recorded, or lost, are empty at first.
LEMMA LedgerInitially == Init => Ledger!LedgerInit
  <1> SUFFICES ASSUME Init PROVE Pending = Zero /\ usage = Zero
    BY DEF Ledger!LedgerInit, Ledger!Zero, Zero
  <1>1. ASSUME NEW c \in Counters PROVE Pending[c] = 0
    <2>1. \A w \in Workers : HeldOf(c)[w] = 0
      BY DEF Init, HeldOf, Held, IdleFlush
    <2>2. HeldByAll(c) = 0
      BY <2>1, HeldIsSum, SumOfZeros, MeteringAssumption
    <2> QED BY <2>2, PendingIs DEF Init, Zero
  <1> QED BY <1>1, PendingIs DEF Init, Zero

\* What the steps of the ledger and the bounds of the counts rest on.
MeterInv == BooksInv /\ TodoInv

\* The invariant of the metering is inductive.
LEMMA MeterInductive ==
    /\ Init => MeterInv
    /\ MeterInv /\ [Next]_vars => MeterInv'
  BY BooksInit, BooksStep, TodoInit, TodoStep DEF MeterInv, BooksInv

(***************************************************************************)
(* For every instance: however flushes overlap, deadlock, fail and strand, *)
(* a count is in one buffer or in one row, and it is recorded at most once *)
(* (metering.py, flush; test_concurrent_flush_safe, test_atomic_rename).   *)
(***************************************************************************)
THEOREM MeteringImplementsLedger == Spec => ImplementsLedger
  <1>1. MeterInv /\ MeterInv' /\ [Next]_vars => [Ledger!LedgerNext]_<<Pending, usage>>
    BY LedgerStep DEF MeterInv, BooksInv, Ledger!LedgerNext
  <1> QED
    BY <1>1, LedgerInitially, MeterInductive, PTL
    DEF Spec, ImplementsLedger, Ledger!LedgerSpec
-----------------------------------------------------------------------------
(* The bounds. *)

Total == MapThenSumSet(Counted, Counters)

\* What is counted of each counter, as a function to add up.
CountedOf == [c \in Counters |-> Counted(c)]

\* The bound's total, a fold, is a sum as SetSums has it.
LEMMA TotalIsSum == Total = SumOf(CountedOf, Counters)
  <1>1. PICK F : Adds(F, CountedOf, Counters)
    BY MeteringAssumption, AddsExists
  <1>2. \A s \in SUBSET Counters : s # {} => CountedOf[Some(s)] = Counted(Some(s))
    BY SomeIn DEF CountedOf
  <1> DEFINE Solves(G) == G = [s \in SUBSET Counters |->
                  IF s = {} THEN 0 ELSE Counted(Some(s)) + G[s \ {Some(s)}]]
             G == CHOOSE G : Solves(G)
  <1>3. Solves(F)
    BY <1>1, <1>2 DEF Adds
  <1>4. Solves(G)
    <2> HIDE DEF Solves
    <2> QED BY <1>3
  <1>5. Total = G[Counters]
    BY DEF Total, MapThenSumSet, MapThenFoldSet, Some
  <1> HIDE DEF G
  <1>6. Adds(G, CountedOf, Counters)
    BY <1>2, <1>4 DEF Adds
  <1>7. SumOf(CountedOf, Counters) = G[Counters]
    BY <1>6, SumIs, MeteringAssumption
  <1> QED BY <1>5, <1>7

\* A counter's count is what is pending of it and what is recorded.
LEMMA CountedTyped ==
    Types => /\ CountedOf \in [Counters -> Nat]
             /\ \A c \in Counters : /\ Pending[c] \in Nat /\ usage[c] \in Nat
                                    /\ CountedOf[c] = Pending[c] + usage[c]
  BY HeldTyped, PendingIs DEF CountedOf, Counted, Types, Counts

\* The same after a step.
LEMMA CountedNext ==
    /\ (Total = SumOf(CountedOf, Counters))'
    /\ Types' => (/\ CountedOf \in [Counters -> Nat]
                  /\ \A c \in Counters : /\ Pending[c] \in Nat /\ usage[c] \in Nat
                                         /\ CountedOf[c] = Pending[c] + usage[c])'
  BY TotalIsSum, CountedTyped, PTL

\* No more is counted than was incremented, in all and so of each counter.
BoundsInv == /\ Total <= MaxCount
             /\ \A w \in Workers, c \in Counters : flush[w].hash[c] <= MaxCount
             /\ \A c \in Counters : stripe[c] <= MaxCount
             /\ failures \in 0..MaxFailures

\* Nothing is counted at first.
LEMMA BoundsInit == Init => BoundsInv
  <1> SUFFICES ASSUME Init PROVE BoundsInv
    OBVIOUS
  <1>1. \A c \in Counters : CountedOf[c] = 0
    BY LedgerInitially, CountedTyped, TypesInit
    DEF Ledger!LedgerInit, Ledger!Zero
  <1>2. Total = 0
    BY <1>1, TotalIsSum, SumOfZeros, MeteringAssumption
  <1> QED BY <1>2, MeteringAssumption DEF Init, BoundsInv, IdleFlush, Zero

(***************************************************************************)
(* A counter's part is no more than the sum.                               *)
(***************************************************************************)
LEMMA PartOfTotal ==
    ASSUME Types, Total <= MaxCount, NEW c \in Counters
    PROVE  /\ active[c] <= MaxCount /\ stranded[c] <= MaxCount /\ usage[c] <= MaxCount
  <1>1. CountedOf \in [Counters -> Nat] /\ CountedOf[c] = Pending[c] + usage[c]
    BY CountedTyped
  <1>2. CountedOf[c] <= SumOf(CountedOf, Counters)
    BY <1>1, SumAtLeast, MeteringAssumption
  <1>3. HeldByAll(c) \in Nat /\ Pending[c] = active[c] + stranded[c] + HeldByAll(c)
    BY HeldTyped, PendingIs
  <1>4. active[c] \in Nat /\ stranded[c] \in Nat /\ usage[c] \in Nat
    BY DEF Types, Counts
  <1>5. SumOf(CountedOf, Counters) \in Nat
    BY <1>1, SumMonotone, MeteringAssumption
  <1> QED BY <1>1, <1>2, <1>3, <1>4, <1>5, TotalIsSum, MeteringAssumption

(***************************************************************************)
(* Only an increment adds to the total, and it asks for room first.        *)
(***************************************************************************)
LEMMA TotalStep ==
    ASSUME MeterInv, MeterInv', Total <= MaxCount, [Next]_vars
    PROVE  Total' <= MaxCount
  <1>1. PICK g : g = CountedOf
    OBVIOUS
  <1>2. PICK h : h = CountedOf'
    OBVIOUS
  <1>3. /\ g \in [Counters -> Nat]
        /\ \A c \in Counters : /\ Pending[c] \in Nat /\ usage[c] \in Nat
                               /\ g[c] = Pending[c] + usage[c]
    BY <1>1, CountedTyped DEF MeterInv, BooksInv
  <1>4. /\ h \in [Counters -> Nat]
        /\ \A c \in Counters : /\ Pending'[c] \in Nat /\ usage'[c] \in Nat
                               /\ h[c] = Pending'[c] + usage'[c]
    <2>1. Types'
      BY DEF MeterInv, BooksInv
    <2> QED BY <1>2, <2>1, CountedNext
  <1>5. Total = SumOf(g, Counters) /\ Total' = SumOf(h, Counters)
    BY <1>1, <1>2, TotalIsSum, CountedNext
  <1>6. SumOf(g, Counters) \in Nat /\ SumOf(h, Counters) \in Nat
    BY <1>3, <1>4, SumMonotone, MeteringAssumption
  <1>7. CASE \A c \in Counters : h[c] <= g[c]
    <2>1. SumOf(h, Counters) <= SumOf(g, Counters)
      BY <1>3, <1>4, <1>7, SumMonotone, MeteringAssumption
    <2> QED BY <2>1, <1>5, <1>6, MeteringAssumption
  <1>8. ASSUME NEW c \in Counters, Increment(c), Ledger!CountOne(c)
        PROVE  Total' <= MaxCount
    <2>1. \A d \in Counters : h[d] = g[d] + IF d = c THEN 1 ELSE 0
      BY <1>3, <1>4, <1>8, PendingIs DEF Ledger!CountOne
    <2>2. SumOf(h, Counters) + g[c] = SumOf(g, Counters) + h[c]
      BY <2>1, <1>3, <1>4, SumChanges, MeteringAssumption
    <2>3. Total < MaxCount
      BY <1>8 DEF Increment, Total
    <2>4. h[c] = g[c] + 1 /\ g[c] \in Nat
      BY <2>1, <1>3
    <2> QED BY <2>2, <2>3, <2>4, <1>5, <1>6, MeteringAssumption
  <1>9. ASSUME NEW t \in Tenants, Ledger!RecordBatch(t)
        PROVE  \A c \in Counters : h[c] <= g[c]
    BY <1>3, <1>4, <1>9 DEF Ledger!RecordBatch
  <1>10. ASSUME Ledger!Drop \/ UNCHANGED <<Pending, usage>>
         PROVE  \A c \in Counters : h[c] <= g[c]
    BY <1>3, <1>4, <1>10 DEF Ledger!Drop
  <1> QED
    BY <1>7, <1>8, <1>9, <1>10, LedgerStep DEF MeterInv, BooksInv

\* The bounds are kept.
LEMMA BoundsStep ==
    ASSUME MeterInv, MeterInv', BoundsInv, [Next]_vars
    PROVE  BoundsInv'
  <1>1. Total' <= MaxCount
    BY TotalStep DEF BoundsInv
  <1>2. Types /\ Types'
    BY DEF MeterInv, BooksInv
  <1>3. \A c \in Counters : active[c] <= MaxCount
    BY <1>2, PartOfTotal DEF BoundsInv
  <1>4. failures' \in 0..MaxFailures
    <2>1. ASSUME NEW w \in Workers, FlushFails(w) PROVE failures' \in 0..MaxFailures
      BY <2>1, MeteringAssumption DEF BoundsInv, FlushFails
    <2>2. CASE UNCHANGED failures
      BY <2>2 DEF BoundsInv
    <2> QED
      BY <2>1, <2>2, ZenonT(60)
      DEF Next, FlushStep, Increment, Rename, OpenBatch, Upsert, Report, Commit, EndFlush,
          DeadlockVictim, StrandedExpires, ActiveExpires, vars
  <1>5. ASSUME NEW w \in Workers, NEW c \in Counters PROVE flush'[w].hash[c] <= MaxCount
    <2>1. flush[w] \in FlushRecord /\ flush[w].hash[c] <= MaxCount
      BY <1>2 DEF BoundsInv, Types
    <2>2. CASE flush'[w].hash = flush[w].hash
      BY <2>1, <2>2
    <2>3. ASSUME Rename(w) PROVE flush'[w].hash = active
      BY <2>1, <2>3, <1>2 DEF Rename, Types, FlushRecord
    <2>4. ASSUME EndFlush(w) \/ Strand(w) PROVE flush'[w].hash = Zero
      BY <2>4, <1>2 DEF EndFlush, Strand, Types, IdleFlush
    <2>5. ASSUME Commit(w) PROVE flush'[w].hash = flush[w].hash
      BY <2>5, <1>2 DEF Commit, Types, IdleFlush
    <2>6. ASSUME NEW t \in Tenants, OpenBatch(w, t) PROVE flush'[w].hash = flush[w].hash
      BY <2>1, <2>6, <1>2 DEF OpenBatch, Types, FlushRecord
    <2>7. ASSUME NEW d \in Counters, Upsert(w, d) PROVE flush'[w].hash = flush[w].hash
      BY <2>1, <2>7, <1>2 DEF Upsert, Types, FlushRecord
    <2>8. ASSUME NEW d \in Counters, Report(w, d) PROVE flush'[w].hash = flush[w].hash
      BY <2>8, <1>2, ReportTouches
    <2>9. ASSUME NEW v \in Workers, w # v,
                 \/ Rename(v) \/ Commit(v) \/ EndFlush(v) \/ Strand(v)
                 \/ \E t \in Tenants : OpenBatch(v, t)
                 \/ \E d \in Counters : Upsert(v, d) \/ Report(v, d)
          PROVE  flush'[w] = flush[w]
      BY <2>9, <1>2 DEF Rename, Commit, EndFlush, Strand, OpenBatch, Upsert, Report, Types
    <2>10. UNCHANGED flush => flush'[w].hash = flush[w].hash
      OBVIOUS
    <2>11. Zero[c] <= MaxCount /\ active[c] <= MaxCount
      BY <1>3, MeteringAssumption DEF Zero
    <2> QED
      BY <2>2, <2>3, <2>4, <2>5, <2>6, <2>7, <2>8, <2>9, <2>10, <2>11
      DEF Next, FlushStep, FlushFails, DeadlockVictim, Increment, StrandedExpires,
          ActiveExpires, vars
  <1>6. ASSUME NEW c \in Counters PROVE stripe'[c] <= MaxCount
    <2>1. stripe[c] <= MaxCount
      BY DEF BoundsInv
    <2>2. ASSUME NEW w \in Workers, NEW d \in Counters, Report(w, d)
          PROVE  stripe'[c] <= MaxCount
      <3>1. flush[w].hash[d] <= MaxCount
        BY DEF BoundsInv
      <3>2. CASE Charge(w, d)
        BY <3>1, <3>2, <2>1, <1>2 DEF Charge, Types, Counts
      <3>3. CASE UNCHANGED stripe
        BY <3>3, <2>1
      <3> QED BY <2>2, <3>2, <3>3 DEF Report, ChargeFails
    <2>3. CASE UNCHANGED stripe
      BY <2>1, <2>3
    <2> QED
      BY <2>2, <2>3
      DEF Next, FlushStep, Increment, Rename, OpenBatch, Upsert, Commit, EndFlush,
          FlushFails, DeadlockVictim, Strand, StrandedExpires, ActiveExpires, buffers,
          books, vars
  <1> QED BY <1>1, <1>4, <1>5, <1>6 DEF BoundsInv

(***************************************************************************)
(* For every instance: buffers, flushes and books keep their types, and    *)
(* nothing is counted, recorded, charged or queued beyond what was         *)
(* incremented (metering.py, increment and flush; stripe_client.py).       *)
(***************************************************************************)
THEOREM MeteringTypeCorrect == Spec => []TypeOK
  <1>1. Init => MeterInv /\ BoundsInv
    BY MeterInductive, BoundsInit
  <1>2. MeterInv /\ BoundsInv /\ [Next]_vars => (MeterInv /\ BoundsInv)'
    BY MeterInductive, BoundsStep
  <1>3. MeterInv /\ BoundsInv => TypeOK
    <2> SUFFICES ASSUME MeterInv, BoundsInv PROVE TypeOK
      OBVIOUS
    <2>1. Types /\ RetryBacked
      BY DEF MeterInv, BooksInv
    <2>2. \A c \in Counters : /\ active[c] \in 0..MaxCount /\ stranded[c] \in 0..MaxCount
                              /\ usage[c] \in 0..MaxCount
      BY <2>1, PartOfTotal DEF BoundsInv, Types, Counts
    <2>3. ASSUME NEW c \in Counters
          PROVE  stripe[c] \in 0..MaxCount /\ retry[c] \in 0..MaxCount
      <3>1. stripe[c] \in Nat /\ retry[c] \in Nat /\ usage[c] \in 0..MaxCount
        BY <2>1, <2>2 DEF Types, Counts
      <3>2. stripe[c] <= MaxCount /\ retry[c] <= usage[c]
        BY <2>1 DEF BoundsInv, RetryBacked
      <3> QED BY <3>1, <3>2, MeteringAssumption
    <2>4. \A w \in Workers : flush[w].hash \in Quantities
      BY <2>1 DEF BoundsInv, Types, FlushRecord, Counts, Quantities
    <2>5. flush \in [Workers -> FlushState]
      BY <2>1, <2>4 DEF Types, FlushRecord, FlushState
    <2>6. /\ active \in Quantities /\ stranded \in Quantities /\ usage \in Quantities
          /\ stripe \in Quantities /\ retry \in Quantities
      BY <2>1, <2>2, <2>3 DEF Types, Counts, Quantities
    <2> QED BY <2>5, <2>6 DEF BoundsInv, TypeOK
  <1> QED BY <1>1, <1>2, <1>3, PTL DEF Spec

-----------------------------------------------------------------------------
(***************************************************************************)
(* The pulls that are metered.  What CursorPulls promises of them, for     *)
(* every stream, set of workers and keys, and every bound: a record is     *)
(* metered at most once, a reported row does not fall behind the cursor    *)
(* unrecorded, and what analytics records is replaced only in the freshness *)
(* lag of a day that was asked for.                                        *)
(*                                                                         *)
(* The invariant says where a row that nobody recorded may be: ahead of    *)
(* every running pull's next segment, or in its hands when the cursor it   *)
(* is about to save is above the row; and that what is still being         *)
(* reported is ahead of every cursor, saved or about to be.                *)
(***************************************************************************)

(* Days. *)

\* Midnights of a length L: they add up, and the next is L later.
LEMMA DayProducts ==
    ASSUME NEW L \in Nat \ {0}, NEW d \in Nat, NEW e \in Nat
    PROVE  /\ d * L \in Nat
           /\ (d + e) * L = d * L + e * L
           /\ d < e => d * L + L <= e * L
  <1>1. ASSUME d < e PROVE d * L + L <= e * L
    <2>1. PICK k \in Nat : e = d + 1 + k
      <3>1. e - d - 1 \in Nat /\ e = d + 1 + (e - d - 1)
        BY <1>1
      <3> QED BY <3>1
    <2>2. e * L = d * L + L + k * L
      BY <2>1
    <2>3. k * L \in Nat /\ d * L \in Nat
      OBVIOUS
    <2> QED BY <2>2, <2>3
  <1> QED BY <1>1

\* An instant lies in the day that division finds.
LEMMA DayQuotients ==
    ASSUME NEW L \in Nat \ {0}, NEW t \in Nat
    PROVE  t \div L \in Nat /\ (t \div L) * L <= t /\ t < (t \div L) * L + L
  <1>1. t = (L * (t \div L)) + (t % L) /\ t % L \in 0..(L - 1) /\ t \div L \in Int
    OBVIOUS
  <1>2. t \div L >= 0
    OBVIOUS
  <1> QED BY <1>1, <1>2

(***************************************************************************)
(* Midnights are DayLength apart, and every instant is in its own day.     *)
(***************************************************************************)
LEMMA Midnights ==
    ASSUME NEW d \in Nat, NEW e \in Nat
    PROVE  /\ DayLength \in Nat /\ DayLength > 0
           /\ DayStart(d) \in Nat
           /\ DayStart(d + 1) = DayStart(d) + DayLength
           /\ DayStart(d + e) = DayStart(d) + DayStart(e)
           /\ d < e => DayStart(d) + DayLength <= DayStart(e)
           /\ d <= e => DayStart(d) <= DayStart(e)
  <1>1. DayLength \in Nat \ {0}
    BY PullsAssumption
  <1>2. (d + 1) * DayLength = d * DayLength + DayLength
    BY <1>1
  <1>3. /\ d * DayLength \in Nat /\ e * DayLength \in Nat
        /\ (d + e) * DayLength = d * DayLength + e * DayLength
        /\ d < e => d * DayLength + DayLength <= e * DayLength
    BY <1>1, DayProducts
  <1>4. d <= e => d * DayLength <= e * DayLength
    <2>1. CASE d < e
      BY <1>1, <1>3, <2>1
    <2>2. CASE ~ d < e
      <3>1. d <= e => d = e
        BY <2>2
      <3> QED BY <1>3, <3>1
    <2> QED BY <2>1, <2>2
  <1> QED BY <1>1, <1>2, <1>3, <1>4 DEF DayStart

\* An instant lies between its day's midnight and the next.
LEMMA Today ==
    ASSUME NEW t \in Nat
    PROVE  /\ DayOf(t) \in Nat
           /\ DayStart(DayOf(t)) <= t
           /\ t < DayStart(DayOf(t)) + DayLength
  <1>1. DayLength \in Nat \ {0}
    BY PullsAssumption
  <1> QED BY <1>1, DayQuotients DEF DayStart, DayOf

(***************************************************************************)
(* A day has begun exactly when it is not after today.                     *)
(***************************************************************************)
LEMMA DayBegun ==
    ASSUME NEW d \in Nat, NEW t \in Nat
    PROVE  DayStart(d) <= t <=> d <= DayOf(t)
  <1>1. PICK e \in Nat : e = DayOf(t)
    BY Today
  <1>2. DayStart(e) <= t /\ t < DayStart(e) + DayLength
    BY <1>1, Today
  <1>3. /\ DayLength \in Nat /\ DayStart(d) \in Nat /\ DayStart(e) \in Nat
        /\ e < d => DayStart(e) + DayLength <= DayStart(d)
        /\ d <= e => DayStart(d) <= DayStart(e)
    BY Midnights
  <1>4. DayStart(d) <= t <=> d <= e
    BY <1>2, <1>3
  <1> QED BY <1>1, <1>4

\* A midnight begins its own day.
LEMMA DayOfMidnight ==
    ASSUME NEW d \in Nat
    PROVE  DayOf(DayStart(d)) = d
  <1>1. PICK s \in Nat : s = DayStart(d)
    BY Midnights
  <1>2. PICK e \in Nat : e = DayOf(s)
    BY Today
  <1>3. d <= e
    BY <1>1, <1>2, DayBegun
  <1>4. DayStart(e) <= s
    BY <1>2, DayBegun
  <1>5. d < e => DayStart(d) + DayLength <= DayStart(e)
    BY Midnights
  <1>6. DayStart(e) \in Nat /\ DayLength \in Nat /\ DayLength > 0
    BY Midnights
  <1>7. d = e
    BY <1>1, <1>3, <1>4, <1>5, <1>6
  <1> QED BY <1>1, <1>2, <1>7

\* A later instant is of no earlier day.
LEMMA LaterDay ==
    ASSUME NEW t \in Nat, NEW u \in Nat, t <= u
    PROVE  DayOf(t) <= DayOf(u)
  <1>1. PICK d \in Nat : d = DayOf(t)
    BY Today
  <1>2. DayStart(d) <= t /\ DayStart(d) \in Nat
    BY <1>1, Today, Midnights
  <1>3. DayStart(d) <= u
    BY <1>2
  <1> QED BY <1>1, <1>3, DayBegun

(***************************************************************************)
(* The greatest of a bounded set of naturals is in it.                     *)
(***************************************************************************)
LEMMA Greatest ==
    ASSUME NEW T, T \subseteq Nat, T # {}, NEW B \in Nat, \A k \in T : k <= B
    PROVE  Max(T) \in T /\ \A k \in T : k <= Max(T)
  <1> DEFINE R == {p \in Nat \X Nat : p[1] < p[2]}
             U == {B - k : k \in T}
  <1>1. IsWellFoundedOn(R, Nat)
    BY NatLessThanWellFounded DEF OpToRel
  <1>2. U \subseteq Nat /\ U # {}
    <2>1. \A k \in T : B - k \in Nat
      OBVIOUS
    <2> QED BY <2>1
  <1>3. PICK m \in U : \A u \in U : ~ (<<u, m>> \in R)
    <2> HIDE DEF R, U
    <2> QED BY <1>1, <1>2, WFMin
  <1>4. PICK x \in T : m = B - x
    OBVIOUS
  <1>5. ASSUME NEW k \in T PROVE k <= x
    <2>1. B - k \in U /\ B - k \in Nat /\ m \in Nat /\ x \in Nat /\ k \in Nat
      BY <1>2, <1>4
    <2>2. ~ (B - k < m)
      BY <1>3, <2>1
    <2> QED BY <1>4, <2>1, <2>2
  <1>6. \E y \in T : \A k \in T : y >= k
    BY <1>5
  <1> QED BY <1>6 DEF Max

\* The larger and the smaller of two.
LEMMA OfTwo ==
    ASSUME NEW a \in Nat, NEW b \in Nat
    PROVE  /\ Max({a, b}) = IF a <= b THEN b ELSE a
           /\ Min({a, b}) = IF a <= b THEN a ELSE b
  BY DEF Max, Min

(***************************************************************************)
(* The days of an instance are an initial segment of the naturals.         *)
(***************************************************************************)
LEMMA DaysAre ==
    ASSUME Streams # {}
    PROVE  \E n \in Nat : Days = 0..n /\ Max(Days) = n
  <1> DEFINE T == {MaxTime[s] : s \in Streams}
             B == MaxTime["admin"] + MaxTime["code_analytics"] + MaxTime["openai_usage"]
                  + MaxTime["openai_costs"] + MaxTime["openai_audit"]
                  + MaxTime["vertex_usage"] + MaxTime["vertex_costs"]
  <1>1. \A s \in Streams : MaxTime[s] \in Nat /\ MaxTime[s] <= B
    <2>1. \A s \in AllStreams : MaxTime[s] \in Nat
      BY PullsAssumption
    <2> QED BY <2>1, PullsAssumption DEF AllStreams
  <1>2. B \in Nat
    BY PullsAssumption DEF AllStreams
  <1>3. T \subseteq Nat /\ T # {} /\ \A k \in T : k <= B
    BY <1>1
  <1>4. PICK m \in Nat : m = Max(T)
    <2> HIDE DEF T, B
    <2> QED BY <1>2, <1>3, Greatest
  <1>5. PICK n \in Nat : n = DayOf(m)
    BY Today
  <1>6. Days = 0..n
    BY <1>4, <1>5 DEF Days
  <1>7. Max(0..n) = n
    BY DEF Max
  <1> QED BY <1>6, <1>7

\* What a row, an id and a midnight are made of.
LEMMA RowsAre ==
    /\ Days \subseteq Nat
    /\ VendorRows \subseteq Ids
    /\ \A r \in Ids : r[1] \in Nat /\ r[1] \in Days /\ r = <<r[1], r[2]>>
    /\ \A d \in Days : <<d, NoKey>> \in Ids /\ <<d, NoKey>> \notin VendorRows
    /\ \A d \in Days, k \in Keys : <<d, k>> \in VendorRows
  BY PullsAssumption DEF Days, VendorRows, Ids

-----------------------------------------------------------------------------
(* What a vendor's answer holds. *)

Typed ==
    /\ stream \in Streams /\ now \in StartTime..MaxTime[stream]
    /\ vendor \in [VendorRows -> Amounts]
    /\ access \in {"denied", "granted"}
    /\ cursor \in Nat \union {NoCursor}
    /\ records \in [Ids -> Amounts]
    /\ metered \in Nat
    /\ task \in [Pullers -> Task]
    /\ pullFailures \in 0..MaxPullFailures /\ horizon \in Nat /\ skipped \subseteq Ids
    /\ asked \subseteq Nat /\ superseded \subseteq VendorRows \X Amounts

\* A record of day d.
RecordOf(d) == {q \in [id : Ids, amount : Amounts] : q.id[1] = d /\ q.amount > 0}

\* A reported row's record has its name and its amount.
LEMMA RowIs ==
    ASSUME Typed, NEW d \in Days, NEW k \in Reported(d)
    PROVE  /\ Row(d, k) \in RecordOf(d) /\ Row(d, k).id = <<d, k>>
           /\ <<d, k>> \in VendorRows
           /\ Row(d, k).amount = vendor[<<d, k>>]
  <1>1. k \in Keys /\ vendor[<<d, k>>] > 0
    BY DEF Reported
  <1>2. <<d, k>> \in VendorRows /\ <<d, k>> \in Ids
    BY <1>1, RowsAre
  <1>3. vendor[<<d, k>>] \in Amounts
    BY <1>2 DEF Typed
  <1> QED BY <1>1, <1>2, <1>3 DEF Row, RecordOf

\* The sentinel of an empty bucket is a record of its day.
LEMMA SentinelIs ==
    ASSUME NEW d \in Days
    PROVE  Sentinel(d) \in RecordOf(d)
  <1>1. <<d, NoKey>> \in Ids /\ 1 \in Amounts
    BY RowsAre, PullsAssumption DEF Amounts
  <1> QED BY <1>1 DEF Sentinel, RecordOf

(***************************************************************************)
(* The records of a day are of that day; each row has one, and analytics   *)
(* and the audit log have no others.                                       *)
(***************************************************************************)
LEMMA NormalizeIs ==
    ASSUME Typed, NEW d \in Days
    PROVE  /\ Normalize(d) \subseteq RecordOf(d)
           /\ \A k \in Reported(d) : Row(d, k) \in Normalize(d)
           /\ stream \in {"code_analytics", "openai_audit"} =>
                 \A q \in Normalize(d) : \E k \in Reported(d) : q = Row(d, k)
  <1>1. \A k \in Reported(d) : Row(d, k) \in RecordOf(d)
    BY RowIs
  <1>2. Sentinel(d) \in RecordOf(d)
    BY SentinelIs
  <1>3. stream \in AllStreams
    BY PullsAssumption DEF Typed
  <1> DEFINE Rows == {Row(d, k) : k \in Reported(d)}
  <1>4. /\ stream \in {"code_analytics", "openai_audit"} => Normalize(d) = Rows
        /\ Normalize(d) \subseteq Rows \union {Sentinel(d)}
        /\ Rows \subseteq Normalize(d)
    BY <1>3 DEF Normalize, AllStreams, AdminRecords, AnalyticsRecords,
                UsageRecords, CostRecords, AuditRecords,
                VertexUsageRecords, VertexCostRecords
  <1> QED BY <1>1, <1>2, <1>4

\* The days of a segment.
Segment(from, to) ==
    IF stream = "openai_audit" THEN Feed(from) ELSE Buckets(from, to)

\* A listing holds a record of every reported row of its segment, and of no other day.
LEMMA ListingIs ==
    ASSUME Typed, NEW from \in Nat, NEW to \in Nat
    PROVE  /\ \A q \in Listing(from, to) : q.id[1] \in Segment(from, to) /\ q \in RecordOf(q.id[1])
           /\ \A r \in VendorRows :
                 vendor[r] > 0 /\ r[1] \in Segment(from, to) =>
                    \E q \in Listing(from, to) : q.id = r
           /\ stream \in {"code_analytics", "openai_audit"} =>
                 \A q \in Listing(from, to) :
                    q.id \in VendorRows /\ q.amount = vendor[q.id] /\ vendor[q.id] > 0
  <1>1. Listing(from, to) = UNION {Normalize(d) : d \in Segment(from, to)}
    BY DEF Listing, Segment
  <1>2. Segment(from, to) \subseteq Days
    BY DEF Segment, Feed, Buckets
  <1>3. ASSUME NEW q \in Listing(from, to)
        PROVE  /\ q.id[1] \in Segment(from, to) /\ q \in RecordOf(q.id[1])
               /\ stream \in {"code_analytics", "openai_audit"} =>
                    q.id \in VendorRows /\ q.amount = vendor[q.id] /\ vendor[q.id] > 0
    <2>1. PICK d \in Segment(from, to) : q \in Normalize(d)
      BY <1>1
    <2>2. q \in RecordOf(d) /\ q.id[1] = d
      BY <1>2, <2>1, NormalizeIs DEF RecordOf
    <2>3. ASSUME stream \in {"code_analytics", "openai_audit"}
          PROVE  q.id \in VendorRows /\ q.amount = vendor[q.id] /\ vendor[q.id] > 0
      <3>1. PICK k \in Reported(d) : q = Row(d, k)
        BY <1>2, <2>1, <2>3, NormalizeIs
      <3>2. q.id = <<d, k>> /\ q.amount = vendor[<<d, k>>] /\ <<d, k>> \in VendorRows
        BY <1>2, <3>1, RowIs
      <3> QED BY <3>2 DEF Reported
    <2> QED BY <2>1, <2>2, <2>3
  <1>4. ASSUME NEW r \in VendorRows, vendor[r] > 0, r[1] \in Segment(from, to)
        PROVE  \E q \in Listing(from, to) : q.id = r
    <2>1. r = <<r[1], r[2]>> /\ r[2] \in Keys
      BY DEF VendorRows
    <2>2. r[2] \in Reported(r[1])
      BY <1>4, <2>1 DEF Reported
    <2>3. Row(r[1], r[2]) \in Normalize(r[1]) /\ Row(r[1], r[2]).id = r
      BY <1>2, <1>4, <2>1, <2>2, NormalizeIs, RowIs
    <2> QED BY <1>1, <1>4, <2>3
  <1> QED BY <1>3, <1>4

(***************************************************************************)
(* A report keeps a row's amount within the bound on all of them.          *)
(***************************************************************************)
LEMMA ReportBounded ==
    ASSUME Typed, NEW r \in VendorRows, VendorReport(r)
    PROVE  vendor[r] + 1 \in Amounts
  <1>1. IsFiniteSet(VendorRows)
    <2>1. IsFiniteSet(Keys)
      BY PullsAssumption
    <2>2. PICK n \in Nat : Days = 0..n
      BY DaysAre DEF Typed
    <2>3. IsFiniteSet(Days)
      <3>1. 0 \in Int /\ n \in Int
        OBVIOUS
      <3>2. IsFiniteSet(0..n)
        BY ONLY <3>1, FS_Interval
      <3> QED BY <2>2, <3>2
    <2> QED BY <2>1, <2>3, FS_Product DEF VendorRows
  <1>2. PICK g : g = vendor
    OBVIOUS
  <1>3. \A s \in VendorRows : g[s] \in Nat
    BY <1>2 DEF Typed, Amounts
  <1>4. MapThenSumSet(LAMBDA s : g[s], VendorRows) = SumOf(g, VendorRows)
    BY DEF SumOf, MapThenSumSet, MapThenFoldSet
  <1>5. SumOf(g, VendorRows) < MaxReports
    <2>1. MapThenSumSet(LAMBDA s : vendor[s], VendorRows) < MaxReports
      BY DEF VendorReport
    <2> QED BY <1>2, <1>4, <2>1
  <1>6. g[r] <= SumOf(g, VendorRows) /\ SumOf(g, VendorRows) \in Nat
    <2>1. SumOf(g, VendorRows) \in Nat
      BY <1>1, <1>3, SumMonotone
    <2> QED BY <1>1, <1>3, <2>1, SumAtLeast
  <1>7. MaxReports \in Nat /\ g[r] \in Nat
    BY <1>3, PullsAssumption
  <1>8. g[r] + 1 \in Amounts
    BY <1>5, <1>6, <1>7 DEF Amounts
  <1> QED BY <1>2, <1>8

-----------------------------------------------------------------------------
(* The invariant of the pulls. *)

\* A day that a pull with cursor c never asks for again: Behind of any cursor.
BehindOf(c, d) ==
    CASE stream = "openai_audit"   -> d <= c
      [] stream = "code_analytics" -> DayStart(d) <= c
      [] stream = "vertex_costs"   -> DayStart(d + 1 + RestatementDays) <= c
      [] OTHER                     -> DayStart(d + 1) <= c

\* A day that a pull whose next segment begins at `from' has behind it.
Passed(from, d) == IF stream = "openai_audit" THEN d < from ELSE DayStart(d + 1) <= from

\* A row that nobody recorded, without an excuse: reported, or of a day that
\* analytics has yet to ask for.
Open(r) == /\ r \notin skipped /\ records[r] = 0
           /\ \/ vendor[r] > 0 /\ <<r, 0>> \notin superseded
              \/ stream = "code_analytics" /\ r[1] \notin asked

\* The open rows from h on.
Due(h) == {r \in VendorRows : Open(r) /\ (stream = "openai_audit" \/ DayStart(r[1]) >= h)}

\* What may be reported before its day was asked for.
Fresh(r) == Reportable(r) /\ (stream = "code_analytics" => r[1] = DayOf(now))

\* The vendor reports nothing more behind c, nor of what a segment from `from' on passed.
Settled(c) ==
    CASE stream = "openai_audit"   -> \E r \in VendorRows : vendor[r] > 0 /\ c <= r[1]
      [] stream = "code_analytics" -> DayOf(c) < DayOf(now)
      [] OTHER                     -> c <= now

SettledFrom(from) ==
    CASE stream = "openai_audit" -> from > 0 => Settled(from - 1)
      [] stream = "vertex_costs" -> from > 0 => from + DayStart(RestatementDays) <= now
      [] OTHER                   -> from <= now

\* The horizon once the cursor of t is saved.
Above(t) == IF horizon <= t.first THEN t.first ELSE horizon

\* What a running pull plans and will save.
PlanOk(t) ==
    /\ SettledFrom(t.from)
    /\ t.kind = "backfill" => stream = "admin"
    /\ stream # "openai_audit" => t.goal <= now
    /\ (t.kind = "pull" /\ stream \notin {"openai_audit", "code_analytics"}) => t.save <= t.goal
    /\ stream = "code_analytics" => /\ t.from = DayStart(DayOf(t.from))
                                    /\ t.goal = DayStart(DayOf(t.goal))

SaveOk(t) ==
    t.stage = "append" =>
       /\ (stream = "openai_audit" /\ t.to # t.from) => t.from < t.to
       /\ (stream # "openai_audit" \/ t.to # t.from) => Settled(Saved(t))
       /\ Loops(t) => t.to <= t.goal
       /\ stream = "code_analytics" => t.to = t.from + DayLength

\* A due row is ahead of a pull, or in its hands, before it saves its cursor.
CoverOk(t) ==
    /\ \A r \in Due(Above(t)) : ~Passed(t.from, r[1])
    /\ t.stage = "append" =>
          \A r \in Due(Above(t)) : BehindOf(Saved(t), r[1]) => \E q \in t.todo : q.id = r

\* The amount a of row r is of a day that is over and asked for, and is current
\* or superseded.
Listed(r, a) == /\ r[1] < DayOf(now) /\ r[1] \in asked
                /\ a = vendor[r] \/ <<r, a>> \in superseded

\* Analytics asks for days that are over.
HandOk(t) ==
    /\ \A q \in t.todo : q.amount > 0
    /\ stream = "code_analytics" =>
          \A q \in t.todo : q.id \in VendorRows /\ Listed(q.id, q.amount)

TaskOk(t) == t.stage # "idle" => PlanOk(t) /\ SaveOk(t) /\ CoverOk(t) /\ HandOk(t)

CursorOk(c) == Settled(c) /\ \A r \in Due(horizon) : ~BehindOf(c, r[1])

FinalOk == stream = "code_analytics" =>
              \A r \in VendorRows :
                 records[r] > 0 => Listed(r, records[r])

PullsInv == /\ Typed
            /\ \A w \in Pullers, t \in Task : task[w] = t => TaskOk(t)
            /\ \A c \in Nat : cursor = c => CursorOk(c)
            /\ FinalOk

(***************************************************************************)
(* What is reported is behind no settled cursor, and passed by no pull.    *)
(***************************************************************************)
LEMMA FreshAhead ==
    ASSUME Typed, NEW r \in VendorRows, Fresh(r), NEW c \in Nat
    PROVE  /\ Settled(c) => ~BehindOf(c, r[1])
           /\ SettledFrom(c) => ~Passed(c, r[1])
  <1>0. /\ stream \in AllStreams /\ now \in Nat /\ r[1] \in Nat /\ RestatementDays \in Nat
        /\ StartTime \in Nat /\ MaxTime[stream] \in Nat
    BY RowsAre, PullsAssumption DEF Typed
  <1>1. CASE stream = "openai_audit"
    <2>1. \A s \in VendorRows : vendor[s] > 0 => s[1] < r[1] /\ s[1] \in Nat
      BY <1>1, RowsAre DEF Fresh, Reportable
    <2> QED BY <1>0, <1>1, <2>1 DEF Settled, SettledFrom, BehindOf, Passed
  <1>2. PICK d \in Nat : d = r[1]
    BY <1>0
  <1>3. PICK e \in Nat : e = d + 1
    OBVIOUS
  <1>4. PICK f \in Nat : f = RestatementDays
    BY <1>0
  <1>5. /\ DayStart(d) \in Nat /\ DayStart(e) \in Nat /\ DayStart(f) \in Nat
        /\ DayLength \in Nat /\ DayLength > 0
        /\ DayStart(e) = DayStart(d) + DayLength
        /\ DayStart(e + f) = DayStart(e) + DayStart(f)
    BY <1>3, Midnights
  <1>6. CASE stream = "vertex_costs"
    <2>1. now < DayStart(e + f)
      BY <1>2, <1>3, <1>4, <1>6 DEF Fresh, Reportable
    <2>2. DayStart(e + f) = DayStart(d + 1 + RestatementDays)
      BY <1>3, <1>4
    <2>3. Settled(c) => ~BehindOf(c, d)
      BY <1>0, <1>5, <1>6, <2>1, <2>2 DEF Settled, BehindOf
    <2>4. SettledFrom(c) => ~Passed(c, d)
      <3>1. SettledFrom(c) => (c > 0 => c + DayStart(f) <= now)
        BY <1>4, <1>6 DEF SettledFrom
      <3>2. Passed(c, d) => DayStart(e) <= c
        BY <1>3, <1>6 DEF Passed
      <3> QED BY <1>0, <1>5, <2>1, <3>1, <3>2
    <2> QED BY <1>2, <2>3, <2>4
  <1>7. CASE stream \notin {"openai_audit", "vertex_costs"}
    <2>1. d = DayOf(now)
      BY <1>0, <1>2, <1>7 DEF Fresh, Reportable, AllStreams
    <2>2. now < DayStart(e)
      BY <1>0, <1>5, <2>1, Today
    <2>3. stream = "code_analytics" /\ Settled(c) => ~ DayStart(d) <= c
      <3>1. DayOf(c) \in Nat
        BY Today
      <3> QED BY <1>0, <2>1, <3>1, DayBegun DEF Settled
    <2>4. Settled(c) => ~BehindOf(c, d)
      BY <1>0, <1>3, <1>5, <1>7, <2>2, <2>3 DEF Settled, BehindOf
    <2>5. SettledFrom(c) => ~Passed(c, d)
      BY <1>0, <1>3, <1>5, <1>7, <2>2 DEF SettledFrom, Passed
    <2> QED BY <1>2, <2>4, <2>5
  <1> QED BY <1>1, <1>6, <1>7

-----------------------------------------------------------------------------
(* What every step leaves of the invariant. *)

\* Time, the horizon and what is asked for go up, rows stay, what changes too late
\* is superseded, and only fresh rows become open.
Frame ==
    /\ stream' = stream /\ now' \in Nat /\ now <= now'
    /\ horizon' \in Nat /\ horizon <= horizon'
    /\ asked \subseteq asked' /\ superseded \subseteq superseded'
    /\ \A r \in VendorRows :
          /\ vendor[r] > 0 => vendor'[r] > 0
          /\ TooLate(r) => vendor'[r] = vendor[r] \/ <<r, vendor[r]>> \in superseded'
          /\ Open(r)' => Open(r) \/ Fresh(r)

\* The types of a worker's task.
LEMMA TaskIs ==
    ASSUME Typed, NEW w \in Pullers
    PROVE  /\ task[w] \in Task /\ DOMAIN task = Pullers
           /\ task[w].first \in Nat /\ task[w].from \in Nat /\ task[w].to \in Nat
           /\ task[w].goal \in Nat /\ task[w].save \in Nat
           /\ task[w].todo \subseteq [id : Ids, amount : Amounts]
  BY DEF Typed, Task

\* A step that leaves the vendor and the clock alone.
LEMMA QuietFrame ==
    ASSUME Typed, stream' = stream, now' = now, vendor' = vendor,
           horizon' \in Nat, horizon <= horizon', skipped \subseteq skipped',
           asked \subseteq asked', superseded' = superseded,
           \A i \in Ids : records[i] # 0 => records'[i] # 0
    PROVE  Frame
  <1>1. now \in Nat /\ VendorRows \subseteq Ids
    BY RowsAre, PullsAssumption DEF Typed
  <1> QED BY <1>1 DEF Frame, Open

\* A report raises one row that the vendor may still report.
LEMMA ReportFrame ==
    ASSUME Typed, NEW s \in VendorRows, VendorReport(s)
    PROVE  Frame
  <1>1. now \in Nat /\ horizon \in Nat /\ stream \in AllStreams
    BY PullsAssumption DEF Typed
  <1>2. \A r \in VendorRows : vendor[r] \in Nat
    BY DEF Typed, Amounts
  <1>3. /\ stream' = stream /\ now' = now /\ horizon' = horizon /\ skipped' = skipped
        /\ records' = records /\ vendor' = [vendor EXCEPT ![s] = @ + 1] /\ asked' = asked
        /\ superseded' = IF TooLate(s) THEN superseded \union {<<s, vendor[s]>>} ELSE superseded
        /\ Reportable(s)
    BY DEF VendorReport
  <1>4. vendor'[s] = vendor[s] + 1 /\ \A r \in VendorRows : r # s => vendor'[r] = vendor[r]
    BY <1>3 DEF Typed
  <1>5. ASSUME NEW r \in VendorRows, TooLate(r)
        PROVE  vendor'[r] = vendor[r] \/ <<r, vendor[r]>> \in superseded'
    BY <1>3, <1>4, <1>5
  <1>6. stream = "code_analytics" => s[1] \in Nat /\ s[1] <= DayOf(now) /\ DayOf(now) \in Nat
    BY <1>1, <1>3, RowsAre, Today DEF Reportable
  <1>7. ASSUME NEW r \in VendorRows, Open(r)' PROVE Open(r) \/ Fresh(r)
    <2>1. /\ r \notin skipped /\ records[r] = 0 /\ superseded \subseteq superseded'
          /\ \/ vendor'[r] > 0 /\ <<r, 0>> \notin superseded'
             \/ stream = "code_analytics" /\ r[1] \notin asked
      BY <1>3, <1>7 DEF Open
    <2>2. CASE r # s \/ vendor[r] > 0
      BY <1>2, <1>4, <2>1, <2>2 DEF Open
    <2>3. CASE r = s /\ ~(vendor[r] > 0) /\ TooLate(s)
      <3>1. <<r, 0>> \in superseded'
        BY <1>2, <1>3, <2>3
      <3> QED BY <2>1, <3>1 DEF Open
    <2>4. CASE r = s /\ ~TooLate(s)
      <3>1. stream # "code_analytics" \/ r[1] \notin asked \/ r[1] = DayOf(now)
        BY <1>6, <2>4 DEF TooLate
      <3> QED BY <1>3, <2>1, <2>4, <3>1 DEF Open, Fresh
    <2> QED BY <2>2, <2>3, <2>4
  <1> QED BY <1>1, <1>2, <1>3, <1>4, <1>5, <1>7 DEF Frame

\* Every step lets only reportable rows change, and time, records and excuses grow.
LEMMA FrameHolds ==
    ASSUME Typed, [PullsNext]_pullVars
    PROVE  Frame
  <1> USE DEF outside, history
  <1>0. now \in Nat /\ horizon \in Nat /\ records \in [Ids -> Nat]
    BY PullsAssumption DEF Typed, Amounts
  <1>1. CASE Tick
    BY <1>0, <1>1 DEF Tick, Frame, Open
  <1>2. CASE Grant
    BY <1>0, <1>2, QuietFrame DEF Grant
  <1>3. CASE \E s \in VendorRows : VendorReport(s)
    BY <1>3, ReportFrame
  <1>4. ASSUME NEW w \in Pullers,
               \/ StartPull(w) \/ StartBackfill(w) \/ EndLoop(w)
               \/ Refused(w) \/ List(w) \/ FailPull(w)
        PROVE  Frame
    BY <1>0, <1>4, QuietFrame
       DEF StartPull, StartBackfill, Start, EndLoop, Refused, List,
           FailPull
  <1>5. ASSUME NEW w \in Pullers, AppendRow(w)
        PROVE  Frame
    <2>1. PICK r \in Nearest(task[w].todo) :
             /\ records' = [records EXCEPT ![r.id] = IF records[r.id] = 0 THEN r.amount ELSE @]
             /\ skipped \subseteq skipped'
      BY <1>5 DEF AppendRow
    <2>2. \A i \in Ids : records[i] # 0 => records'[i] # 0
      BY <1>0, <2>1
    <2> QED BY <1>0, <1>5, <2>1, <2>2, QuietFrame DEF AppendRow
  <1>6. ASSUME NEW w \in Pullers, AppendUnmetered(w)
        PROVE  Frame
    <2>1. PICK r \in Nearest(task[w].todo) :
             records[r.id] = 0 /\ records' = [records EXCEPT ![r.id] = r.amount]
      BY <1>6 DEF AppendUnmetered
    <2>2. \A i \in Ids : records[i] # 0 => records'[i] # 0
      BY <1>0, <2>1
    <2> QED BY <1>0, <1>6, <2>1, <2>2, QuietFrame DEF AppendUnmetered
  <1>7. ASSUME NEW w \in Pullers, AppendRefused(w)
        PROVE  Frame
    <2>1. skipped \subseteq skipped'
      BY <1>7 DEF AppendRefused
    <2> QED BY <1>0, <1>7, <2>1, QuietFrame DEF AppendRefused
  <1>8. ASSUME NEW w \in Pullers, SaveCursor(w)
        PROVE  Frame
    <2>1. task[w].first \in Nat
      BY TaskIs
    <2>2. horizon' = horizon \/ horizon' = Max({horizon, task[w].first})
      BY <1>8 DEF SaveCursor
    <2>3. horizon' \in Nat /\ horizon <= horizon'
      BY <1>0, <2>1, <2>2, OfTwo
    <2> QED BY <1>0, <1>8, <2>3, QuietFrame DEF SaveCursor
  <1>9. CASE UNCHANGED pullVars
    BY <1>0, <1>9, QuietFrame DEF pullVars
  <1> QED BY <1>1, <1>2, <1>3, <1>4, <1>5, <1>6, <1>7, <1>8, <1>9 DEF PullsNext, PullStep


\* A settled cursor stays settled.
LEMMA SettledStays ==
    ASSUME Typed, Frame, NEW c \in Nat, Settled(c)
    PROVE  Settled(c)'
  <1>0. now \in Nat /\ now' \in Nat /\ now <= now' /\ stream' = stream
    BY PullsAssumption DEF Typed, Frame
  <1>1. CASE stream = "openai_audit"
    <2>1. PICK r \in VendorRows : vendor[r] > 0 /\ c <= r[1]
      BY <1>1 DEF Settled
    <2>2. vendor'[r] > 0
      BY <2>1 DEF Frame
    <2> QED BY <1>0, <1>1, <2>1, <2>2 DEF Settled
  <1>2. CASE stream = "code_analytics"
    <2>1. DayOf(now) <= DayOf(now')
      BY <1>0, LaterDay
    <2>2. DayOf(c) \in Nat /\ DayOf(now) \in Nat /\ DayOf(now') \in Nat
      BY <1>0, Today
    <2>3. DayOf(c) < DayOf(now)
      BY <1>2 DEF Settled
    <2>4. DayOf(c) < DayOf(now')
      BY <2>1, <2>2, <2>3
    <2> QED BY <1>0, <1>2, <2>4 DEF Settled
  <1>3. CASE stream \notin {"openai_audit", "code_analytics"}
    <2>1. c <= now
      BY <1>3 DEF Settled
    <2> QED BY <1>0, <1>3, <2>1 DEF Settled
  <1> QED BY <1>1, <1>2, <1>3

\* Where a pull began stays settled.
LEMMA SettledFromStays ==
    ASSUME Typed, Frame, NEW c \in Nat, SettledFrom(c)
    PROVE  SettledFrom(c)'
  <1>0. now \in Nat /\ now' \in Nat /\ now <= now' /\ stream' = stream
    BY PullsAssumption DEF Typed, Frame
  <1>1. CASE stream = "openai_audit"
    <2>1. CASE c = 0
      BY <1>0, <1>1, <2>1 DEF SettledFrom
    <2>2. CASE c > 0
      <3>1. PICK b \in Nat : b = c - 1
        BY <2>2
      <3>2. Settled(b)
        BY <1>1, <2>2, <3>1 DEF SettledFrom
      <3>3. Settled(b)'
        BY <3>2, SettledStays
      <3> QED BY <1>0, <1>1, <3>1, <3>3 DEF SettledFrom, Settled
    <2> QED BY <2>1, <2>2
  <1>2. CASE stream = "vertex_costs"
    <2>1. RestatementDays \in Nat
      BY PullsAssumption
    <2>2. DayStart(RestatementDays) \in Nat
      BY <2>1, Midnights
    <2>3. PICK f \in Nat : f = DayStart(RestatementDays)
      BY <2>2
    <2>4. c > 0 => c + f <= now'
      BY <1>0, <1>2, <2>3 DEF SettledFrom
    <2> QED BY <1>0, <1>2, <2>3, <2>4 DEF SettledFrom
  <1>3. CASE stream \notin {"openai_audit", "vertex_costs"}
    <2>1. c <= now
      BY <1>3 DEF SettledFrom
    <2> QED BY <1>0, <1>3, <2>1 DEF SettledFrom
  <1> QED BY <1>1, <1>2, <1>3

\* What is due after a step was due before it, or has just been reported.
LEMMA DueBefore ==
    ASSUME Typed, Frame, NEW h \in Nat, NEW g \in Nat, g <= h,
           NEW r, r \in Due(h)'
    PROVE  r \in VendorRows /\ (r \in Due(g) \/ Fresh(r))
  <1>1. /\ r \in VendorRows /\ stream' = stream /\ Open(r)'
        /\ stream = "openai_audit" \/ DayStart(r[1]) >= h
    BY DEF Due, Frame
  <1>2. r[1] \in Nat
    BY <1>1, RowsAre
  <1>3. DayStart(r[1]) \in Nat
    BY <1>2, Midnights
  <1>4. stream = "openai_audit" \/ DayStart(r[1]) >= g
    BY <1>1, <1>3
  <1>5. Open(r) \/ Fresh(r)
    BY <1>1 DEF Frame
  <1> QED BY <1>1, <1>4, <1>5 DEF Due

\* A cursor that is left alone stays ahead of nothing due.
LEMMA CursorStays ==
    ASSUME Typed, Frame, NEW c \in Nat, CursorOk(c)
    PROVE  CursorOk(c)'
  <1>1. Settled(c)'
    BY SettledStays DEF CursorOk
  <1>2. ASSUME NEW r, r \in Due(horizon)' PROVE ~BehindOf(c, r[1])'
    <2>1. PICK h \in Nat : h = horizon'
      BY DEF Frame
    <2>2. horizon \in Nat /\ horizon <= h
      BY <2>1 DEF Typed, Frame
    <2>3. r \in Due(h)'
      BY <1>2, <2>1 DEF Due, Open
    <2>4. r \in VendorRows /\ (r \in Due(horizon) \/ Fresh(r))
      BY <2>2, <2>3, DueBefore
    <2>5. ~BehindOf(c, r[1])
      BY <2>4, FreshAhead DEF CursorOk
    <2> QED BY <2>5 DEF BehindOf, Frame
  <1> QED BY <1>1, <1>2 DEF CursorOk


\* The types of a task, and of the cursor it saves.
LEMMA SavedIs ==
    ASSUME NEW t \in Task, t.kind = "backfill" => stream = "admin"
    PROVE  /\ t.from \in Nat /\ t.to \in Nat /\ t.goal \in Nat /\ t.save \in Nat /\ t.first \in Nat
           /\ (stream # "openai_audit" \/ t.to > 0) => Saved(t) \in Nat
  <1>1. t.from \in Nat /\ t.to \in Nat /\ t.goal \in Nat /\ t.save \in Nat /\ t.first \in Nat
    BY DEF Task
  <1>2. t.to > 0 => t.to - 1 \in Nat
    BY <1>1
  <1>3. CASE t.kind = "backfill"
    <2>1. Saved(t) = t.to
      BY <1>3 DEF Saved
    <2> QED BY <1>1, <2>1
  <1>4. CASE t.kind # "backfill" /\ stream = "openai_audit"
    <2>1. Saved(t) = t.to - 1
      BY <1>4 DEF Saved
    <2> QED BY <1>1, <1>2, <1>4, <2>1
  <1>5. CASE t.kind # "backfill" /\ stream # "openai_audit"
    <2>1. Saved(t) = IF stream = "code_analytics" THEN t.from ELSE t.save
      BY <1>5 DEF Saved
    <2> QED BY <1>1, <2>1
  <1> QED BY <1>3, <1>4, <1>5

\* What analytics listed stays current, or is superseded.
LEMMA ListedStays ==
    ASSUME Typed, Frame, stream = "code_analytics", NEW r \in VendorRows, NEW a, Listed(r, a)
    PROVE  Listed(r, a)'
  <1>1. now \in Nat /\ now' \in Nat /\ now <= now' /\ r[1] \in Nat
    BY RowsAre, PullsAssumption DEF Typed, Frame
  <1>2. /\ DayOf(now) \in Nat /\ DayOf(now') \in Nat /\ DayOf(now) <= DayOf(now')
    BY <1>1, Today, LaterDay
  <1>3. TooLate(r) /\ r[1] < DayOf(now) /\ r[1] \in asked
    BY DEF Listed, TooLate
  <1>4. /\ asked \subseteq asked' /\ superseded \subseteq superseded'
        /\ vendor'[r] = vendor[r] \/ <<r, vendor[r]>> \in superseded'
    BY <1>3 DEF Frame
  <1>5. r[1] < DayOf(now')
    BY <1>1, <1>2, <1>3
  <1>6. a = vendor[r] \/ <<r, a>> \in superseded
    BY DEF Listed
  <1> QED BY <1>3, <1>4, <1>5, <1>6 DEF Listed

\* A task that is left alone keeps its invariant.
LEMMA TaskStays ==
    ASSUME Typed, Frame, NEW t \in Task, TaskOk(t)
    PROVE  TaskOk(t)'
  <1> SUFFICES ASSUME t.stage # "idle"
               PROVE  PlanOk(t)' /\ SaveOk(t)' /\ CoverOk(t)' /\ HandOk(t)'
    BY DEF TaskOk
  <1>0. /\ PlanOk(t) /\ SaveOk(t) /\ CoverOk(t) /\ HandOk(t)
        /\ t.from \in Nat /\ t.to \in Nat /\ t.goal \in Nat /\ t.save \in Nat /\ t.first \in Nat
        /\ stream' = stream /\ now \in Nat /\ now' \in Nat /\ now <= now'
    BY SavedIs, PullsAssumption DEF TaskOk, PlanOk, Typed, Frame
  <1>1. PlanOk(t)'
    <2>1. SettledFrom(t.from)'
      BY <1>0, SettledFromStays DEF PlanOk
    <2> QED BY <1>0, <2>1 DEF PlanOk
  <1>2. SaveOk(t)'
    <2> SUFFICES ASSUME t.stage = "append"
                 PROVE  /\ (stream = "openai_audit" /\ t.to # t.from) => t.from < t.to
                        /\ (stream # "openai_audit" \/ t.to # t.from) => Settled(Saved(t))'
                        /\ Loops(t) => t.to <= t.goal
                        /\ stream = "code_analytics" => t.to = t.from + DayLength
      BY <1>0 DEF SaveOk, Loops
    <2>1. ASSUME stream # "openai_audit" \/ t.to # t.from
          PROVE  Settled(Saved(t))'
      <3>1. Settled(Saved(t)) /\ Saved(t) \in Nat
        BY <1>0, <2>1, SavedIs DEF SaveOk, PlanOk
      <3>2. PICK c \in Nat : c = Saved(t)
        BY <3>1
      <3>3. Settled(c)'
        BY <3>1, <3>2, SettledStays
      <3>4. c = Saved(t)'
        BY <1>0, <3>2 DEF Saved
      <3> QED BY <3>3, <3>4 DEF Settled
    <2> QED BY <1>0, <2>1 DEF SaveOk
  <1>3. CoverOk(t)'
    <2>1. PICK h \in Nat : h = Above(t)'
      BY <1>0 DEF Above, Frame
    <2>2. PICK g \in Nat : g = Above(t)
      BY <1>0 DEF Above, Typed
    <2>3. g <= h
      BY <1>0, <2>1, <2>2 DEF Above, Typed, Frame
    <2>4. ASSUME NEW r, r \in Due(Above(t))'
          PROVE  r \in VendorRows /\ (r \in Due(Above(t)) \/ Fresh(r))
      <3>1. r \in Due(h)'
        BY <2>1, <2>4 DEF Due
      <3> QED BY <2>2, <2>3, <3>1, DueBefore
    <2>5. ASSUME NEW r, r \in Due(Above(t))' PROVE ~Passed(t.from, r[1])'
      <3>1. ~Passed(t.from, r[1])
        BY <1>0, <2>4, <2>5, FreshAhead DEF CoverOk, PlanOk
      <3> QED BY <1>0, <3>1 DEF Passed
    <2>6. ASSUME t.stage = "append", NEW r, r \in Due(Above(t))', BehindOf(Saved(t), r[1])'
          PROVE  \E q \in t.todo : q.id = r
      <3>1. BehindOf(Saved(t), r[1])
        BY <1>0, <2>6 DEF BehindOf, Saved
      <3>2. ~Fresh(r)
        <4>1. CASE stream # "openai_audit" \/ t.to # t.from
          BY <1>0, <2>4, <2>6, <3>1, <4>1, SavedIs, FreshAhead DEF SaveOk, PlanOk
        <4>2. CASE stream = "openai_audit" /\ t.to = t.from
          <5>1. t.kind # "backfill" /\ r[1] \in Nat
            BY <1>0, <2>4, <2>6, <4>2, RowsAre DEF PlanOk
          <5>2. r[1] < t.from
            BY <1>0, <3>1, <4>2, <5>1 DEF BehindOf, Saved
          <5>3. Passed(t.from, r[1])
            BY <4>2, <5>2 DEF Passed
          <5> QED BY <1>0, <2>4, <2>6, <5>3, FreshAhead DEF PlanOk
        <4> QED BY <4>1, <4>2
      <3> QED BY <1>0, <2>4, <2>6, <3>1, <3>2 DEF CoverOk
    <2> QED BY <1>0, <2>5, <2>6 DEF CoverOk
  <1>4. HandOk(t)'
    <2>1. ASSUME stream = "code_analytics", NEW q \in t.todo
          PROVE  q.id \in VendorRows /\ Listed(q.id, q.amount)'
      BY <1>0, <2>1, ListedStays DEF HandOk
    <2> QED BY <1>0, <2>1 DEF HandOk
  <1> QED BY <1>1, <1>2, <1>3, <1>4


-----------------------------------------------------------------------------
(* What a pull plans. *)

\* Going back some days never goes below the start of time.
LEMMA BackIs ==
    ASSUME NEW t \in Nat, NEW n \in Nat
    PROVE  /\ Back(t, n) \in Nat /\ Back(t, n) <= t
           /\ Back(t, n) > 0 => Back(t, n) + DayStart(n) = t
           /\ DayBack(t, n) \in Nat /\ DayBack(t, n) <= t
  <1>1. PICK m \in Nat : m = DayStart(n)
    BY Midnights
  <1> QED BY <1>1 DEF Back, DayBack

\* A plan starts no later than the cursor, unless it is a backfill that jumps ahead.
PlanFits(p) ==
    /\ p.from \in Nat /\ p.goal \in Nat /\ p.save \in Nat
    /\ SettledFrom(p.from)
    /\ stream # "openai_audit" => p.goal <= now /\ p.save <= now
    /\ stream \notin {"openai_audit", "code_analytics"} => p.save <= p.goal
    /\ stream = "code_analytics" => /\ p.from = DayStart(DayOf(p.from))
                                    /\ p.goal = DayStart(DayOf(p.goal))
    /\ (stream = "openai_audit" /\ cursor = NoCursor) => p.from = 0

FromCursor(p) ==
    cursor # NoCursor => \A d \in Nat : Passed(p.from, d) => BehindOf(cursor, d)

\* The plans that start at the cursor.
LEMMA PlainPlan ==
    ASSUME PullsInv, stream \in {"admin", "openai_usage", "openai_costs"},
           NEW n \in Nat, NEW p,
           p = [from |-> IF cursor = NoCursor THEN Back(now, n) ELSE cursor, goal |-> now, save |-> now]
    PROVE  PlanFits(p) /\ FromCursor(p)
  <1>0. now \in Nat /\ NoCursor \notin Nat /\ cursor \in Nat \union {NoCursor}
    BY PullsAssumption DEF PullsInv, Typed
  <1>1. Back(now, n) \in Nat /\ Back(now, n) <= now
    BY <1>0, BackIs
  <1>2. cursor # NoCursor => cursor \in Nat /\ cursor <= now
    <2>1. cursor # NoCursor => CursorOk(cursor)
      BY <1>0 DEF PullsInv
    <2> QED BY <1>0, <2>1 DEF CursorOk, Settled
  <1>3. p.from \in Nat /\ p.from <= now /\ p.goal = now /\ p.save = now
    BY <1>0, <1>1, <1>2
  <1>4. cursor # NoCursor => p.from = cursor
    OBVIOUS
  <1> QED BY <1>0, <1>3, <1>4 DEF PlanFits, FromCursor, SettledFrom, Passed, BehindOf

\* The plan of Claude Code analytics: from the cursor's day up to today's.
LEMMA AnalyticsPlanFits ==
    ASSUME PullsInv, stream = "code_analytics",
           NEW p, p = AnalyticsPlan(cursor, now)
    PROVE  PlanFits(p) /\ FromCursor(p)
  <1>0. now \in Nat /\ NoCursor \notin Nat /\ cursor \in Nat \union {NoCursor}
        /\ Lookback["code_analytics"] \in Nat
    BY PullsAssumption DEF PullsInv, Typed, AllStreams
  <1>1. PICK e \in Nat : e = DayOf(now)
    BY <1>0, Today
  <1>2. cursor # NoCursor => CursorOk(cursor) /\ cursor \in Nat
    BY <1>0 DEF PullsInv
  <1>3. cursor # NoCursor => DayOf(cursor) \in Nat /\ DayOf(cursor) < e
    BY <1>1, <1>2, Today DEF CursorOk, Settled
  <1>4. PICK f \in Nat : f = FirstAnalyticsDay(cursor, now) /\ f <= e
    <2>1. CASE cursor = NoCursor
      BY <1>0, <1>1, <2>1, BackIs DEF FirstAnalyticsDay
    <2>2. CASE cursor # NoCursor
      BY <1>1, <1>3, <2>2 DEF FirstAnalyticsDay
    <2> QED BY <2>1, <2>2
  <1>5. p = [from |-> DayStart(f), goal |-> DayStart(e), save |-> now]
    BY <1>1, <1>4 DEF AnalyticsPlan
  <1>6. /\ DayStart(f) \in Nat /\ DayStart(e) \in Nat
        /\ DayStart(f) <= DayStart(e) /\ DayStart(e) <= now
        /\ DayOf(DayStart(f)) = f /\ DayOf(DayStart(e)) = e
    BY <1>0, <1>1, <1>4, Midnights, Today, DayOfMidnight
  <1>7. PlanFits(p)
    BY <1>0, <1>5, <1>6 DEF PlanFits, SettledFrom
  <1>8. ASSUME cursor # NoCursor, NEW d \in Nat, Passed(p.from, d) PROVE BehindOf(cursor, d)
    <2>1. PICK g \in Nat : g = d + 1
      OBVIOUS
    <2>2. DayStart(g) <= DayStart(f)
      BY <1>5, <1>8, <2>1 DEF Passed
    <2>3. g <= f
      <3>1. f < g => DayStart(f) + DayLength <= DayStart(g)
        BY Midnights
      <3>2. DayStart(g) \in Nat /\ DayLength \in Nat /\ DayLength > 0
        BY Midnights
      <3> QED BY <1>6, <2>2, <3>1, <3>2
    <2>4. f = DayOf(cursor) + 1
      BY <1>4, <1>8 DEF FirstAnalyticsDay
    <2>5. d <= DayOf(cursor)
      BY <1>3, <1>8, <2>1, <2>3, <2>4
    <2>6. DayStart(d) <= cursor
      BY <1>2, <1>8, <2>5, DayBegun
    <2> QED BY <2>6 DEF BehindOf
  <1> QED BY <1>7, <1>8 DEF FromCursor

\* The plan of the audit log: what comes after the cursor.
LEMMA AuditPlanFits ==
    ASSUME PullsInv, stream = "openai_audit",
           NEW p, p = AuditPlan(cursor)
    PROVE  PlanFits(p) /\ FromCursor(p)
  <1>0. now \in Nat /\ NoCursor \notin Nat /\ cursor \in Nat \union {NoCursor}
    BY PullsAssumption DEF PullsInv, Typed
  <1>1. PICK n \in Nat : n = Max(Days)
    BY DaysAre DEF PullsInv, Typed
  <1>2. p = [from |-> IF cursor = NoCursor THEN 0 ELSE cursor + 1, goal |-> n + 1, save |-> 0]
    BY <1>1 DEF AuditPlan
  <1>3. cursor # NoCursor => cursor \in Nat /\ Settled(cursor)
    BY <1>0 DEF PullsInv, CursorOk
  <1>4. /\ p.from \in Nat /\ p.goal \in Nat /\ p.save \in Nat
        /\ cursor = NoCursor => p.from = 0
    BY <1>0, <1>2
  <1>5. SettledFrom(p.from)
    <2>1. CASE cursor = NoCursor
      BY <1>2, <2>1 DEF SettledFrom
    <2>2. CASE cursor # NoCursor
      <3>1. p.from - 1 = cursor
        BY <1>2, <1>3, <2>2
      <3> QED BY <1>3, <2>2, <3>1 DEF SettledFrom
    <2> QED BY <2>1, <2>2
  <1> QED BY <1>2, <1>3, <1>4, <1>5 DEF PlanFits, FromCursor, Passed, BehindOf

\* The plan of Vertex usage.
LEMMA VertexUsagePlanFits ==
    ASSUME PullsInv, stream = "vertex_usage",
           NEW p, p = VertexUsagePlan(cursor, now)
    PROVE  PlanFits(p) /\ FromCursor(p)
  <1>0. now \in Nat /\ NoCursor \notin Nat /\ cursor \in Nat \union {NoCursor}
        /\ Lookback["vertex_usage"] \in Nat
    BY PullsAssumption DEF PullsInv, Typed, AllStreams
  <1>1. PICK e \in Nat : e = DayOf(now)
    BY <1>0, Today
  <1>2. cursor # NoCursor => cursor \in Nat /\ cursor <= now
    <2>1. cursor # NoCursor => CursorOk(cursor)
      BY <1>0 DEF PullsInv
    <2> QED BY <1>0, <2>1 DEF CursorOk, Settled
  <1>3. PICK f \in Nat : f = IF cursor = NoCursor THEN DayBack(DayOf(now), Lookback["vertex_usage"])
                                                  ELSE DayOf(cursor)
    BY <1>0, <1>1, <1>2, BackIs, Today
  <1>4. p = [from |-> DayStart(f), goal |-> now, save |-> DayStart(e)]
    BY <1>1, <1>3 DEF VertexUsagePlan
  <1>5. /\ DayStart(f) \in Nat /\ DayStart(e) \in Nat /\ DayStart(e) <= now
        /\ cursor # NoCursor => DayStart(f) <= cursor
    BY <1>0, <1>1, <1>2, <1>3, Midnights, Today
  <1>6. DayStart(f) <= now
    <2>1. CASE cursor = NoCursor
      <3>1. f <= e
        BY <1>0, <1>1, <1>3, <2>1, BackIs
      <3>2. DayStart(f) <= DayStart(e)
        BY <3>1, Midnights
      <3> QED BY <1>0, <1>5, <3>2
    <2>2. CASE cursor # NoCursor
      BY <1>0, <1>2, <1>5, <2>2
    <2> QED BY <2>1, <2>2
  <1>7. PlanFits(p)
    BY <1>0, <1>4, <1>5, <1>6 DEF PlanFits, SettledFrom
  <1>8. ASSUME cursor # NoCursor, NEW d \in Nat, Passed(p.from, d) PROVE BehindOf(cursor, d)
    <2>1. PICK m \in Nat : m = DayStart(d + 1)
      <3>1. d + 1 \in Nat
        OBVIOUS
      <3> QED BY <3>1, Midnights
    <2>2. m <= DayStart(f)
      BY <1>4, <1>8, <2>1 DEF Passed
    <2>3. m <= cursor
      BY <1>2, <1>5, <1>8, <2>2
    <2> QED BY <2>1, <2>3 DEF BehindOf
  <1> QED BY <1>7, <1>8 DEF FromCursor

\* The plan of Vertex costs: back by the window of restatement.
LEMMA VertexCostsPlanFits ==
    ASSUME PullsInv, stream = "vertex_costs",
           NEW p, p = VertexCostsPlan(cursor, now)
    PROVE  PlanFits(p) /\ FromCursor(p)
  <1>0. now \in Nat /\ NoCursor \notin Nat /\ cursor \in Nat \union {NoCursor}
        /\ Lookback["vertex_costs"] \in Nat /\ RestatementDays \in Nat
    BY PullsAssumption DEF PullsInv, Typed, AllStreams
  <1>1. cursor # NoCursor => cursor \in Nat /\ cursor <= now
    <2>1. cursor # NoCursor => CursorOk(cursor)
      BY <1>0 DEF PullsInv
    <2> QED BY <1>0, <2>1 DEF CursorOk, Settled
  <1>2. PICK x \in Nat : /\ x = IF cursor = NoCursor THEN Back(now, Lookback["vertex_costs"]) ELSE cursor
                         /\ x <= now
    BY <1>0, <1>1, BackIs
  <1>3. PICK b \in Nat : b = Back(x, RestatementDays) /\ b <= x
    BY <1>0, BackIs
  <1>4. PICK f \in Nat : f = DayStart(RestatementDays)
    BY <1>0, Midnights
  <1>5. b > 0 => b + f = x
    BY <1>0, <1>3, <1>4, BackIs
  <1>6. p = [from |-> b, goal |-> now, save |-> now]
    BY <1>2, <1>3 DEF VertexCostsPlan
  <1>7. SettledFrom(p.from)
    BY <1>2, <1>4, <1>5, <1>6 DEF SettledFrom
  <1>8. PlanFits(p)
    BY <1>0, <1>3, <1>6, <1>7 DEF PlanFits
  <1>9. ASSUME cursor # NoCursor, NEW d \in Nat, Passed(p.from, d) PROVE BehindOf(cursor, d)
    <2>1. PICK g \in Nat : g = d + 1
      OBVIOUS
    <2>2. /\ DayStart(g) \in Nat
          /\ DayStart(g) = DayStart(d) + DayLength
          /\ DayStart(d) \in Nat /\ DayLength \in Nat /\ DayLength > 0
      BY <2>1, Midnights
    <2>3. DayStart(g + RestatementDays) = DayStart(g) + f
      BY <1>0, <1>4, Midnights
    <2>4. DayStart(g) <= b
      BY <1>6, <1>9, <2>1 DEF Passed
    <2>5. DayStart(g) + f <= cursor
      BY <1>2, <1>5, <1>9, <2>2, <2>4
    <2>6. DayStart(d + 1 + RestatementDays) <= cursor
      BY <2>1, <2>3, <2>5
    <2> QED BY <2>6 DEF BehindOf
  <1> QED BY <1>8, <1>9 DEF FromCursor


\* Every stream's pull begins where nothing due is passed.
LEMMA PlanIs ==
    ASSUME PullsInv
    PROVE  PlanFits(Plan(cursor, now)) /\ FromCursor(Plan(cursor, now))
  <1>1. PICK p : p = Plan(cursor, now)
    OBVIOUS
  <1>2. /\ stream \in AllStreams /\ Lookback["admin"] \in Nat
        /\ Lookback["openai_usage"] \in Nat /\ Lookback["openai_costs"] \in Nat
    BY PullsAssumption DEF PullsInv, Typed, AllStreams
  <1>3. CASE stream = "admin"
    BY <1>1, <1>2, <1>3, PlainPlan DEF Plan, AdminPlan
  <1>4. CASE stream = "openai_usage"
    BY <1>1, <1>2, <1>4, PlainPlan DEF Plan, UsagePlan
  <1>5. CASE stream = "openai_costs"
    BY <1>1, <1>2, <1>5, PlainPlan DEF Plan, CostsPlan
  <1>6. CASE stream = "code_analytics"
    BY <1>1, <1>6, AnalyticsPlanFits DEF Plan
  <1>7. CASE stream = "openai_audit"
    BY <1>1, <1>7, AuditPlanFits DEF Plan
  <1>8. CASE stream = "vertex_usage"
    BY <1>1, <1>8, VertexUsagePlanFits DEF Plan
  <1>9. CASE stream = "vertex_costs"
    BY <1>1, <1>9, VertexCostsPlanFits DEF Plan
  <1> QED BY <1>2, <1>3, <1>4, <1>5, <1>6, <1>7, <1>8, <1>9 DEF AllStreams

\* A backfill does too, or leaves the gap that the horizon then covers.
LEMMA BackfillPlanIs ==
    ASSUME PullsInv, stream = "admin",
           NEW p, p = BackfillPlan(cursor, now)
    PROVE  PlanFits(p) /\ (FromCursor(p) \/ LeavesGap("backfill", p))
  <1>0. now \in Nat /\ NoCursor \notin Nat /\ cursor \in Nat \union {NoCursor} /\ BackfillDays \in Nat
    BY PullsAssumption DEF PullsInv, Typed
  <1>1. cursor # NoCursor => cursor \in Nat /\ cursor <= now
    <2>1. cursor # NoCursor => CursorOk(cursor)
      BY <1>0 DEF PullsInv
    <2> QED BY <1>0, <2>1 DEF CursorOk, Settled
  <1>2. PICK b \in Nat : b = Back(now, BackfillDays) /\ b <= now
    BY <1>0, BackIs
  <1>3. PICK f \in Nat : /\ f = IF cursor = NoCursor THEN b ELSE Max({cursor, b})
                         /\ f <= now
                         /\ cursor # NoCursor => f = cursor \/ f > cursor
    <2>1. CASE cursor = NoCursor
      BY <1>2, <2>1
    <2>2. CASE cursor # NoCursor
      <3>1. Max({cursor, b}) = IF cursor <= b THEN b ELSE cursor
        BY <1>1, <2>2, OfTwo
      <3> QED BY <1>0, <1>1, <1>2, <2>2, <3>1
    <2> QED BY <2>1, <2>2
  <1>4. p = [from |-> f, goal |-> now, save |-> now]
    BY <1>2, <1>3 DEF BackfillPlan
  <1>5. PlanFits(p)
    BY <1>0, <1>3, <1>4 DEF PlanFits, SettledFrom
  <1>6. (cursor # NoCursor /\ f = cursor) => FromCursor(p)
    BY <1>4 DEF FromCursor, Passed, BehindOf
  <1>7. (cursor = NoCursor \/ f > cursor) => LeavesGap("backfill", p)
    BY <1>4 DEF LeavesGap
  <1> QED BY <1>3, <1>5, <1>6, <1>7

\* A started pull has every due row ahead of it.
LEMMA StartedOk ==
    ASSUME PullsInv, NEW w \in Pullers, NEW kind, NEW p, Start(w, kind, p),
           PlanFits(p), FromCursor(p) \/ LeavesGap(kind, p),
           kind = "pull" \/ (kind = "backfill" /\ stream = "admin")
    PROVE  \E t \in Task : TaskOk(t) /\ task' = [task EXCEPT ![w] = t]
  <1>0. /\ now \in Nat /\ NoCursor \notin Nat /\ cursor \in Nat \union {NoCursor} /\ horizon \in Nat
        /\ p.from \in Nat /\ p.goal \in Nat /\ p.save \in Nat
    BY PullsAssumption DEF PullsInv, Typed, PlanFits
  <1>a. PICK first : first = IF LeavesGap(kind, p) THEN p.from ELSE 0
    OBVIOUS
  <1>1. first \in Nat
    BY <1>0, <1>a
  <1>2. PICK t : t = [Idle EXCEPT !.stage = "list", !.kind = kind, !.from = p.from, !.goal = p.goal,
                                       !.save = p.save, !.first = first]
    OBVIOUS
  <1>3. /\ t.stage = "list" /\ t.kind = kind /\ t.from = p.from /\ t.goal = p.goal /\ t.save = p.save
        /\ t.todo = {} /\ t.first = IF LeavesGap(kind, p) THEN p.from ELSE 0
    BY <1>a, <1>2 DEF Idle
  <1>4. t \in Task
    BY <1>0, <1>1, <1>2 DEF Task, Idle
  <1>5. task' = [task EXCEPT ![w] = t]
    BY <1>a, <1>2 DEF Start
  <1>6. PlanOk(t)
    BY <1>0, <1>3 DEF PlanOk, PlanFits
  <1>7. ASSUME NEW r \in Due(Above(t)) PROVE ~Passed(t.from, r[1])
    <2>0. /\ r \in VendorRows /\ r[1] \in Nat
          /\ stream = "openai_audit" \/ DayStart(r[1]) >= Above(t)
      BY RowsAre DEF Due
    <2>1. Above(t) >= t.first /\ Above(t) >= horizon /\ Above(t) \in Nat /\ t.first \in Nat
      BY <1>0, <1>3 DEF Above
    <2>2. PICK d \in Nat : d = r[1]
      BY <2>0
    <2>3. PICK s \in Nat : s = DayStart(d)
      BY Midnights
    <2>4. DayStart(d + 1) = s + DayLength /\ DayLength \in Nat /\ DayLength > 0
      BY <2>3, Midnights
    <2>5. CASE LeavesGap(kind, p) /\ stream # "openai_audit"
      <3>1. s >= t.from
        BY <1>0, <1>3, <2>0, <2>1, <2>2, <2>3, <2>5
      <3> QED BY <1>0, <1>3, <2>2, <2>4, <2>5, <3>1 DEF Passed
    <2>6. CASE LeavesGap(kind, p) /\ stream = "openai_audit"
      <3>1. cursor = NoCursor /\ p.from = 0
        BY <2>6 DEF LeavesGap, PlanFits
      <3> QED BY <1>3, <2>2, <2>6, <3>1 DEF Passed
    <2>7. CASE ~LeavesGap(kind, p)
      <3>1. cursor \in Nat /\ cursor # NoCursor
        BY <1>0, <2>7 DEF LeavesGap
      <3>2. CursorOk(cursor)
        BY <3>1 DEF PullsInv
      <3>3. r \in Due(horizon)
        BY <1>0, <2>0, <2>1, <2>2, <2>3 DEF Due
      <3>4. ~BehindOf(cursor, r[1])
        BY <3>2, <3>3 DEF CursorOk
      <3>5. Passed(p.from, d) => BehindOf(cursor, d)
        BY <2>7, <3>1 DEF FromCursor
      <3> QED BY <1>3, <2>2, <3>4, <3>5
    <2> QED BY <2>5, <2>6, <2>7
  <1>8. SaveOk(t) /\ CoverOk(t) /\ HandOk(t)
    BY <1>3, <1>7 DEF SaveOk, CoverOk, HandOk
  <1>9. TaskOk(t)
    BY <1>6, <1>8 DEF TaskOk
  <1> QED BY <1>4, <1>5, <1>9


-----------------------------------------------------------------------------
(* What a pull lists, appends and saves. *)

\* Where a segment ends, and what a loop leaves below its goal.
LEMMA EndIs ==
    ASSUME Typed, NEW t \in Task, PlanOk(t), ~Exhausted(t),
           NEW e, e = SegmentEnd(t)
    PROVE  /\ e \in Nat
           /\ stream # "code_analytics" => e <= t.goal
           /\ (stream # "code_analytics" /\ t.kind # "backfill") => e = t.goal
           /\ stream = "code_analytics" =>
                 /\ e = t.from + DayLength /\ e <= t.goal
                 /\ DayOf(t.from) < DayOf(t.goal)
  <1>0. /\ t.from \in Nat /\ t.goal \in Nat /\ t.kind \in {"pull", "backfill"}
        /\ t.kind = "backfill" => stream = "admin"
    BY DEF Task, PlanOk
  <1>1. CASE t.kind = "backfill"
    <2>1. SegmentEnd(t) = Min({t.from + DayStart(ChunkDays), t.goal})
      BY <1>0, <1>1 DEF SegmentEnd
    <2>2. ChunkDays \in Nat
      BY PullsAssumption
    <2>3. PICK c \in Nat : c = t.from + DayStart(ChunkDays)
      <3>1. PICK x \in Nat : x = DayStart(ChunkDays)
        BY <2>2, Midnights
      <3> QED BY <1>0, <3>1
    <2>4. Min({c, t.goal}) = IF c <= t.goal THEN c ELSE t.goal
      BY <1>0, <2>3, OfTwo
    <2> QED BY <1>0, <1>1, <2>1, <2>3, <2>4
  <1>2. CASE stream = "code_analytics"
    <2>1. e = t.from + DayLength
      BY <1>0, <1>2 DEF SegmentEnd
    <2>2. PICK a \in Nat, b \in Nat : a = DayOf(t.from) /\ b = DayOf(t.goal)
      BY <1>0, Today
    <2>3. t.from = DayStart(a) /\ t.goal = DayStart(b)
      BY <1>2, <2>2 DEF PlanOk
    <2>4. t.from < t.goal
      BY <1>0, <1>2 DEF Exhausted, Loops
    <2>5. /\ b <= a => DayStart(b) <= DayStart(a)
          /\ a < b => DayStart(a) + DayLength <= DayStart(b)
          /\ DayLength \in Nat
      BY Midnights
    <2>6. a < b
      BY <1>0, <2>3, <2>4, <2>5
    <2> QED BY <1>0, <1>2, <2>1, <2>2, <2>3, <2>5, <2>6
  <1>3. CASE t.kind # "backfill" /\ stream # "code_analytics"
    BY <1>0, <1>3 DEF SegmentEnd
  <1> QED BY <1>1, <1>2, <1>3

\* How far an audit pull goes: to an event that it lists, or nowhere.
Last(from, rows) == Max({from} \union {r.id[1] + 1 : r \in rows})

ReachesTo(last, from, rows) ==
    /\ last \in Nat /\ from <= last
    /\ last # from => \E q \in rows : last = q.id[1] + 1

\* The audit log's next position is after every row in hand.
LEMMA LastIs ==
    ASSUME Typed, NEW f \in Nat,
           NEW rows, rows \subseteq [id : Ids, amount : Amounts]
    PROVE  ReachesTo(Last(f, rows), f, rows)
  <1> DEFINE T == {f} \union {r.id[1] + 1 : r \in rows}
  <1>1. PICK n \in Nat : Days = 0..n
    BY DaysAre DEF Typed
  <1>2. \A q \in rows : q.id[1] \in Nat /\ q.id[1] <= n
    BY <1>1, RowsAre
  <1>3. PICK b \in Nat : T \subseteq Nat /\ T # {} /\ \A k \in T : k <= b
    <2>1. T \subseteq Nat /\ T # {} /\ f + n + 1 \in Nat /\ \A k \in T : k <= f + n + 1
      BY <1>2
    <2> QED BY <2>1
  <1>4. f \in T /\ \A k \in T : k = f \/ \E q \in rows : k = q.id[1] + 1
    OBVIOUS
  <1>5. PICK S : S = T
    OBVIOUS
  <1>6. Last(f, rows) = Max(S)
    BY <1>5 DEF Last
  <1> HIDE DEF T
  <1>7. S \subseteq Nat /\ S # {} /\ \A k \in S : k <= b
    BY <1>3, <1>5
  <1>8. Max(S) \in S /\ \A k \in S : k <= Max(S)
    <2>1. b \in Nat
      OBVIOUS
    <2> QED BY ONLY <1>7, <2>1, Greatest
  <1> QED BY <1>4, <1>5, <1>6, <1>7, <1>8 DEF ReachesTo

\* What a listing covers: the due rows that the cursor will pass.
LEMMA ListedCover ==
    ASSUME Typed, NEW t \in Task, PlanOk(t), ~Exhausted(t),
           NEW e, e = SegmentEnd(t), NEW u \in Task,
           u.kind = t.kind, u.from = t.from, u.save = t.save, u.goal = t.goal,
           stream # "openai_audit" => u.to = e,
           NEW r \in VendorRows, vendor[r] > 0, ~Passed(t.from, r[1]),
           BehindOf(Saved(u), r[1])
    PROVE  \E q \in Listing(t.from, e) : q.id = r
  <1>0. /\ r[1] \in Nat /\ r[1] \in Days /\ t.from \in Nat /\ t.goal \in Nat /\ t.save \in Nat
        /\ t.kind \in {"pull", "backfill"} /\ e \in Nat
        /\ t.kind = "backfill" => stream = "admin"
        /\ stream \in AllStreams
    BY RowsAre, EndIs, PullsAssumption DEF Task, PlanOk, Typed
  <1>1. SUFFICES r[1] \in Segment(t.from, e)
    <2>1. PICK f \in Nat : f = t.from
      BY <1>0
    <2>2. r[1] \in Segment(f, e) => \E q \in Listing(f, e) : q.id = r
      BY <1>0, ListingIs
    <2> QED BY <2>1, <2>2
  <1>2. CASE stream = "openai_audit"
    BY <1>0, <1>2 DEF Segment, Feed, Passed
  <1>3. CASE stream # "openai_audit"
    <2>1. PICK d \in Nat, g \in Nat : d = r[1] /\ g = d + 1
      BY <1>0
    <2>2. PICK s \in Nat : s = DayStart(d)
      BY Midnights
    <2>3. DayStart(g) = s + DayLength /\ DayLength \in Nat /\ DayLength > 0
      BY <2>1, <2>2, Midnights
    <2>4. t.from < s + DayLength
      BY <1>0, <1>3, <2>1, <2>3 DEF Passed
    <2>5. s < e
      <3>1. CASE stream = "code_analytics"
        <4>1. s <= t.from
          BY <1>0, <2>1, <2>2, <3>1 DEF BehindOf, Saved
        <4>2. e = t.from + DayLength
          BY <3>1, EndIs
        <4> QED BY <1>0, <2>3, <4>1, <4>2
      <3>2. CASE t.kind = "backfill"
        <4>1. s + DayLength <= e
          BY <1>0, <1>3, <2>1, <2>3, <3>2 DEF BehindOf, Saved
        <4> QED BY <1>0, <2>3, <4>1
      <3>3. CASE stream \notin {"code_analytics", "vertex_costs"} /\ t.kind # "backfill"
        <4>1. s + DayLength <= t.save
          BY <1>0, <1>3, <2>1, <2>3, <3>3 DEF BehindOf, Saved
        <4>2. t.save <= t.goal /\ e = t.goal
          BY <1>0, <1>3, <3>3, EndIs DEF PlanOk
        <4> QED BY <1>0, <2>3, <4>1, <4>2
      <3>4. CASE stream = "vertex_costs"
        <4>1. PICK f \in Nat : f = DayStart(RestatementDays)
          BY Midnights, PullsAssumption
        <4>2. DayStart(g + RestatementDays) = s + DayLength + f
          <5>1. RestatementDays \in Nat
            BY PullsAssumption
          <5> QED BY <2>3, <4>1, <5>1, Midnights
        <4>3. DayStart(g + RestatementDays) <= t.save
          BY <1>0, <2>1, <3>4 DEF BehindOf, Saved
        <4>4. t.save <= t.goal /\ e = t.goal
          BY <1>0, <1>3, <3>4, EndIs DEF PlanOk
        <4> QED BY <1>0, <2>3, <4>1, <4>2, <4>3, <4>4
      <3> QED BY <3>1, <3>2, <3>3, <3>4
    <2> QED BY <1>0, <1>3, <2>1, <2>2, <2>3, <2>4, <2>5 DEF Segment, Buckets
  <1> QED BY <1>2, <1>3


\* An answer holds every due row that the cursor will pass.
LEMMA ListedOk ==
    ASSUME PullsInv, Frame, NEW w \in Pullers, List(w)
    PROVE  \E t \in Task : TaskOk(t)' /\ task' = [task EXCEPT ![w] = t]
  <1>1. PICK o \in Task : o = task[w] /\ TaskOk(o)
    <2>1. task[w] \in Task
      BY TaskIs DEF PullsInv
    <2> QED BY <2>1 DEF PullsInv
  <1>2. PICK e : e = SegmentEnd(o)
    OBVIOUS
  <1>3. PICK rows : rows = Listing(o.from, e)
    OBVIOUS
  <1>4. PICK last : last = Max({o.from} \union {r.id[1] + 1 : r \in rows})
    OBVIOUS
  <1>5. PICK t : t = [o EXCEPT !.stage = "append", !.todo = rows,
                               !.to = IF stream = "openai_audit" THEN last ELSE e]
    OBVIOUS
  <1>6. task' = [task EXCEPT ![w] = t]
    <2>1. task \in [Pullers -> Task]
      BY DEF PullsInv, Typed
    <2> QED BY <1>1, <1>2, <1>3, <1>4, <1>5, <2>1 DEF List
  <1>7. o.stage = "list" /\ ~Exhausted(o)
    BY <1>1 DEF List
  <1>8. PlanOk(o) /\ CoverOk(o) /\ o.stage # "idle"
    BY <1>1, <1>7 DEF TaskOk
  <1>9. /\ t.stage = "append" /\ t.todo = rows /\ t.to = IF stream = "openai_audit" THEN last ELSE e
        /\ t.kind = o.kind /\ t.from = o.from /\ t.goal = o.goal /\ t.save = o.save /\ t.first = o.first
        /\ o.from \in Nat /\ o.goal \in Nat /\ o.save \in Nat /\ o.kind \in {"pull", "backfill"}
    BY <1>5 DEF Task
  <1>10. /\ Typed /\ now \in Nat /\ stream \in AllStreams
    BY PullsAssumption DEF PullsInv, Typed
  <1>11. /\ e \in Nat
         /\ stream # "code_analytics" => e <= o.goal
         /\ stream = "code_analytics" => /\ e = o.from + DayLength /\ e <= o.goal
                                         /\ DayOf(o.from) < DayOf(o.goal)
    BY <1>2, <1>7, <1>8, <1>10, EndIs
  <1>12. \A q \in rows : /\ q.id[1] \in Segment(o.from, e) /\ q \in RecordOf(q.id[1])
                         /\ stream \in {"code_analytics", "openai_audit"} =>
                              q.id \in VendorRows /\ q.amount = vendor[q.id] /\ vendor[q.id] > 0
    BY <1>3, <1>9, <1>10, <1>11, ListingIs
  <1>13. rows \subseteq [id : Ids, amount : Amounts]
    BY <1>12 DEF RecordOf
  <1>14. /\ last \in Nat /\ o.from <= last
         /\ last # o.from => \E q \in rows : last = q.id[1] + 1
    <2>1. PICK f \in Nat : f = o.from
      BY <1>9
    <2>2. last = Last(f, rows)
      BY <1>4, <2>1 DEF Last
    <2>3. ReachesTo(last, f, rows)
      BY <1>10, <1>13, <2>2, LastIs
    <2> QED BY <2>1, <2>3 DEF ReachesTo
  <1>15. t \in Task
    BY <1>5, <1>11, <1>13, <1>14 DEF Task
  <1>16. PlanOk(t)
    BY <1>8, <1>9 DEF PlanOk
  <1>17. stream = "code_analytics" => DayOf(o.goal) <= DayOf(now)
                                       /\ DayOf(o.goal) \in Nat /\ DayOf(now) \in Nat
                                       /\ DayOf(o.from) \in Nat
    BY <1>8, <1>9, <1>10, LaterDay, Today DEF PlanOk
  <1>18. SaveOk(t)
    <2>1. CASE stream = "openai_audit"
      <3>1. ~Loops(t) /\ t.to = last /\ t.kind # "backfill"
        BY <1>8, <1>9, <2>1 DEF Loops, PlanOk
      <3>2. Saved(t) = last - 1
        BY <2>1, <3>1 DEF Saved
      <3>3. ASSUME last # o.from PROVE Settled(Saved(t))
        <4>1. PICK q \in rows : last = q.id[1] + 1
          BY <1>14, <3>3
        <4>2. q.id \in VendorRows /\ vendor[q.id] > 0 /\ q.id[1] \in Nat
          BY <1>12, <2>1, <4>1, RowsAre
        <4>3. Saved(t) <= q.id[1]
          BY <3>2, <4>1, <4>2
        <4> QED BY <2>1, <4>2, <4>3 DEF Settled
      <3> QED BY <1>9, <1>14, <2>1, <3>1, <3>3 DEF SaveOk
    <2>2. CASE stream = "code_analytics"
      <3>1. Saved(t) = o.from
        BY <1>8, <1>9, <2>2 DEF Saved, PlanOk
      <3>2. Settled(Saved(t))
        BY <1>11, <1>17, <2>2, <3>1 DEF Settled
      <3> QED BY <1>9, <1>11, <2>2, <3>2 DEF SaveOk
    <2>3. CASE stream \notin {"openai_audit", "code_analytics"}
      <3>1. t.to = e /\ e <= o.goal /\ o.goal <= now
        BY <1>8, <1>9, <1>11, <2>3 DEF PlanOk
      <3>2. Saved(t) = IF t.kind = "backfill" THEN t.to ELSE t.save
        BY <2>3 DEF Saved
      <3>3. t.kind = "pull" => t.save <= o.goal
        BY <1>8, <1>9, <2>3 DEF PlanOk
      <3>4. Saved(t) <= now
        BY <1>9, <1>10, <1>11, <3>1, <3>2, <3>3
      <3>5. Settled(Saved(t))
        BY <2>3, <3>4 DEF Settled
      <3> QED BY <1>9, <2>3, <3>1, <3>5 DEF SaveOk
    <2> QED BY <2>1, <2>2, <2>3
  <1>19. /\ UNCHANGED <<stream, now, vendor, records, horizon, skipped, superseded>>
         /\ asked' = IF stream = "code_analytics" THEN asked \union {DayOf(o.from)} ELSE asked
    BY <1>1 DEF List, outside
  <1>20. PlanOk(t)' /\ SaveOk(t)'
    <2>1. Settled(Saved(t))' <=> Settled(Saved(t))
      BY <1>19 DEF Settled, Saved
    <2>2. SettledFrom(t.from)' <=> SettledFrom(t.from)
      BY <1>19 DEF SettledFrom, Settled
    <2> QED BY <1>16, <1>18, <1>19, <2>1, <2>2 DEF PlanOk, SaveOk, Loops
  <1>21. CoverOk(t)'
    <2>1. Above(t)' = Above(o) /\ Saved(t)' = Saved(t)
      BY <1>9, <1>19 DEF Above, Saved
    <2>2. ASSUME NEW r \in Due(Above(t))'
          PROVE  /\ r \in Due(Above(o)) /\ r \in VendorRows /\ ~Passed(o.from, r[1])
                 /\ vendor[r] > 0 \/ (stream = "code_analytics" /\ r[1] # DayOf(o.from))
      <3>1. r \in VendorRows /\ Open(r)' /\ (stream = "openai_audit" \/ DayStart(r[1]) >= Above(o))
        BY <1>19, <2>1 DEF Due
      <3>2. /\ Open(r)
            /\ vendor[r] > 0 \/ (stream = "code_analytics" /\ r[1] # DayOf(o.from))
        BY <1>19, <3>1 DEF Open
      <3>3. r \in Due(Above(o))
        BY <3>1, <3>2 DEF Due
      <3> QED BY <1>8, <3>1, <3>2, <3>3 DEF CoverOk
    <2>3. ASSUME NEW r \in Due(Above(t))', BehindOf(Saved(t), r[1])
          PROVE  \E q \in t.todo : q.id = r
      <3>1. vendor[r] > 0
        <4>1. CASE stream # "code_analytics"
          BY <2>2, <4>1
        <4>2. CASE stream = "code_analytics"
          <5>1. Saved(t) = o.from
            BY <1>8, <1>9, <4>2 DEF Saved, PlanOk
          <5>2. PICK d \in Nat, f \in Nat : d = r[1] /\ f = DayOf(o.from)
            BY <1>9, <2>2, RowsAre, Today
          <5>3. o.from = DayStart(f)
            BY <1>8, <4>2, <5>2 DEF PlanOk
          <5>4. DayStart(d) <= DayStart(f)
            BY <2>3, <4>2, <5>1, <5>2, <5>3 DEF BehindOf
          <5>5. DayStart(d) + DayLength > DayStart(f)
            <6>1. DayStart(d + 1) = DayStart(d) + DayLength
              BY Midnights
            <6>2. ~(DayStart(d + 1) <= DayStart(f))
              BY <2>2, <4>2, <5>2, <5>3 DEF Passed
            <6>3. DayStart(d) \in Nat /\ DayStart(f) \in Nat /\ DayLength \in Nat
              BY Midnights
            <6> QED BY <6>1, <6>2, <6>3
          <5>6. d = f
            <6>1. /\ d < f => DayStart(d) + DayLength <= DayStart(f)
                  /\ f < d => DayStart(f) + DayLength <= DayStart(d)
                  /\ DayStart(d) \in Nat /\ DayStart(f) \in Nat /\ DayLength \in Nat /\ DayLength > 0
              BY Midnights
            <6> QED BY <5>4, <5>5, <6>1
          <5> QED BY <2>2, <5>2, <5>6
        <4> QED BY <4>1, <4>2
      <3>2. \E q \in Listing(o.from, e) : q.id = r
        BY <1>2, <1>7, <1>8, <1>9, <1>10, <1>15, <2>2, <2>3, <3>1, ListedCover
      <3> QED BY <1>3, <1>9, <3>2
    <2>4. ASSUME NEW r \in Due(Above(t))' PROVE ~Passed(t.from, r[1])'
      BY <1>9, <1>19, <2>2 DEF Passed
    <2>5. ASSUME NEW r \in Due(Above(t))', BehindOf(Saved(t), r[1])' PROVE \E q \in t.todo : q.id = r
      BY <1>19, <2>1, <2>3, <2>5 DEF BehindOf
    <2> QED BY <2>4, <2>5 DEF CoverOk
  <1>22. HandOk(t)'
    <2>1. \A q \in rows : q.amount > 0
      BY <1>12 DEF RecordOf
    <2>2. ASSUME stream = "code_analytics", NEW q \in rows
          PROVE  q.id[1] < DayOf(now) /\ q.id[1] = DayOf(o.from)
      <3>1. PICK d \in Nat : d = q.id[1]
        BY <1>12, <2>2, RowsAre
      <3>2. DayStart(d) < e
        BY <1>12, <2>2, <3>1 DEF Segment, Buckets
      <3>3. PICK g \in Nat : g = DayOf(o.goal) /\ g <= DayOf(now)
        BY <1>17, <2>2
      <3>4. o.goal = DayStart(g)
        BY <1>8, <2>2, <3>3 DEF PlanOk
      <3>5. DayStart(g) \in Nat /\ DayStart(d) \in Nat
        BY Midnights
      <3>6. DayStart(d) < DayStart(g)
        BY <1>9, <1>11, <2>2, <3>2, <3>4, <3>5
      <3>7. g <= d => DayStart(g) <= DayStart(d)
        BY Midnights
      <3>8. d < g
        BY <3>5, <3>6, <3>7
      <3>9. PICK f \in Nat : f = DayOf(o.from) /\ o.from = DayStart(f)
        BY <1>8, <1>17, <2>2 DEF PlanOk
      <3>10. DayStart(d + 1) > DayStart(f)
        BY <1>12, <2>2, <3>1, <3>9 DEF Segment, Buckets
      <3>11. d = f
        <4>1. /\ d < f => DayStart(d) + DayLength <= DayStart(f)
              /\ f < d => DayStart(f) + DayLength <= DayStart(d)
              /\ DayStart(d + 1) = DayStart(d) + DayLength
              /\ DayStart(f) \in Nat /\ DayLength \in Nat
          BY Midnights
        <4>2. DayStart(d) < DayStart(f) + DayLength
          BY <1>11, <2>2, <3>2, <3>9
        <4> QED BY <3>5, <3>10, <4>1, <4>2
      <3> QED BY <1>17, <2>2, <3>1, <3>3, <3>8, <3>9, <3>11
    <2>3. ASSUME stream = "code_analytics", NEW q \in rows
          PROVE  q.id \in VendorRows /\ Listed(q.id, q.amount)'
      BY <1>12, <1>19, <2>2, <2>3 DEF Listed
    <2> QED BY <1>9, <1>19, <2>1, <2>3 DEF HandOk
  <1>23. TaskOk(t)'
    BY <1>20, <1>21, <1>22 DEF TaskOk
  <1> QED BY <1>6, <1>15, <1>23


\* An idle worker has nothing to keep.
LEMMA IdleOk == Idle \in Task /\ TaskOk(Idle) /\ TaskOk(Idle)'
  BY DEF Idle, Task, TaskOk

\* A pull keeps the invariant when it lets go of a row that is due no more.
LEMMA TakenOk ==
    ASSUME NEW o \in Task, TaskOk(o)', o.stage = "append", NEW t \in Task,
           t.stage = "append", t.kind = o.kind, t.from = o.from, t.goal = o.goal, t.save = o.save,
           t.to = o.to, t.first = o.first, t.todo \subseteq o.todo,
           \A q \in o.todo : q \in t.todo \/ q.id \notin Due(Above(t))'
    PROVE  TaskOk(t)'
  <1>1. PlanOk(o)' /\ SaveOk(o)' /\ CoverOk(o)' /\ HandOk(o)'
    BY DEF TaskOk
  <1>2. PlanOk(t)'
    BY <1>1 DEF PlanOk
  <1>3. Saved(t)' = Saved(o)' /\ Above(t)' = Above(o)'
    BY DEF Saved, Above
  <1>4. SaveOk(t)'
    BY <1>1, <1>3 DEF SaveOk, Loops, Settled
  <1>5. CoverOk(t)'
    BY <1>1, <1>3 DEF CoverOk, BehindOf
  <1>6. HandOk(t)'
    BY <1>1 DEF HandOk
  <1> QED BY <1>2, <1>4, <1>5, <1>6 DEF TaskOk

\* Appending a record keeps the pull's invariant.
LEMMA AppendedOk ==
    ASSUME PullsInv, Frame, NEW w \in Pullers, AppendRow(w)
    PROVE  \E t \in Task : TaskOk(t)' /\ task' = [task EXCEPT ![w] = t]
  <1>1. PICK o \in Task : o = task[w] /\ TaskOk(o)
    <2>1. task[w] \in Task
      BY TaskIs DEF PullsInv
    <2> QED BY <2>1 DEF PullsInv
  <1>2. TaskOk(o)' /\ o.stage = "append" /\ HandOk(o)
    <2>1. Typed /\ o.stage = "append"
      BY <1>1 DEF PullsInv, AppendRow
    <2> QED BY <1>1, <2>1, TaskStays DEF TaskOk
  <1>3. PICK r \in o.todo, pages \in Nat :
          /\ records' = [records EXCEPT ![r.id] = IF records[r.id] = 0 THEN r.amount ELSE @]
          /\ task' = [task EXCEPT ![w].pages = pages,
                                  ![w].todo = IF pages >= PageCap THEN {} ELSE o.todo \ {r}]
          /\ skipped' = IF pages >= PageCap THEN skipped \union {q.id : q \in o.todo \ {r}} ELSE skipped
    <2>1. o.pages \in Nat
      BY DEF Task
    <2>2. (IF stream = "code_analytics" THEN o.pages + 1 ELSE 0) \in Nat
      BY <2>1
    <2> QED BY <1>1, <2>2 DEF AppendRow, Nearest
  <1>4. PICK t : t = [o EXCEPT !.pages = pages, !.todo = IF pages >= PageCap THEN {} ELSE o.todo \ {r}]
    OBVIOUS
  <1>5. task' = [task EXCEPT ![w] = t]
    <2>1. task \in [Pullers -> Task]
      BY DEF PullsInv, Typed
    <2> QED BY <1>1, <1>3, <1>4, <2>1
  <1>6. /\ t.stage = "append" /\ t.kind = o.kind /\ t.from = o.from /\ t.goal = o.goal /\ t.save = o.save
        /\ t.to = o.to /\ t.first = o.first /\ t.todo = IF pages >= PageCap THEN {} ELSE o.todo \ {r}
    BY <1>2, <1>4 DEF Task
  <1>7. t \in Task
    BY <1>3, <1>4 DEF Task
  <1>8. r.id \in Ids /\ r.amount \in Nat /\ r.amount > 0 /\ \A q \in o.todo : q.id \in Ids
    BY <1>2, <1>3 DEF Task, HandOk, Amounts
  <1>9. records'[r.id] # 0
    BY <1>3, <1>8 DEF PullsInv, Typed
  <1>10. ASSUME NEW q \in o.todo PROVE q \in t.todo \/ q.id \notin Due(Above(t))'
    <2>1. CASE q = r
      BY <1>9, <2>1 DEF Due, Open
    <2>2. CASE q # r /\ pages >= PageCap
      <3>1. q.id \in skipped'
        BY <1>3, <2>2
      <3> QED BY <3>1 DEF Due, Open
    <2>3. CASE q # r /\ ~(pages >= PageCap)
      BY <1>6, <2>3
    <2> QED BY <2>1, <2>2, <2>3
  <1>11. TaskOk(t)'
    BY <1>2, <1>6, <1>7, <1>10, TakenOk
  <1> QED BY <1>5, <1>7, <1>11

\* So does a refused append, whose record is then excused.
LEMMA RefusedOk ==
    ASSUME PullsInv, Frame, NEW w \in Pullers, AppendRefused(w)
    PROVE  \E t \in Task : TaskOk(t)' /\ task' = [task EXCEPT ![w] = t]
  <1>1. PICK o \in Task : o = task[w] /\ TaskOk(o)
    <2>1. task[w] \in Task
      BY TaskIs DEF PullsInv
    <2> QED BY <2>1 DEF PullsInv
  <1>2. TaskOk(o)' /\ o.stage = "append"
    <2>1. Typed /\ o.stage = "append"
      BY <1>1 DEF PullsInv, AppendRefused
    <2> QED BY <1>1, <2>1, TaskStays DEF TaskOk
  <1>3. PICK r \in o.todo : /\ skipped' = skipped \union {r.id}
                            /\ task' = [task EXCEPT ![w].todo = @ \ {r}]
    BY <1>1 DEF AppendRefused, Nearest
  <1>4. PICK t : t = [o EXCEPT !.todo = o.todo \ {r}]
    OBVIOUS
  <1>5. task' = [task EXCEPT ![w] = t]
    <2>1. task \in [Pullers -> Task]
      BY DEF PullsInv, Typed
    <2> QED BY <1>1, <1>3, <1>4, <2>1
  <1>6. /\ t.stage = "append" /\ t.kind = o.kind /\ t.from = o.from /\ t.goal = o.goal /\ t.save = o.save
        /\ t.to = o.to /\ t.first = o.first /\ t.todo = o.todo \ {r}
    BY <1>2, <1>4 DEF Task
  <1>7. t \in Task
    BY <1>3, <1>4 DEF Task
  <1>8. \A q \in o.todo : q \in t.todo \/ q.id \notin Due(Above(t))'
    BY <1>3, <1>6 DEF Due, Open
  <1>9. TaskOk(t)'
    BY <1>2, <1>6, <1>7, <1>8, TakenOk
  <1> QED BY <1>5, <1>7, <1>9


\* What is due once a pull has saved its cursor is ahead of the cursor.
LEMMA SavedAhead ==
    ASSUME PullsInv, NEW w \in Pullers, SaveCursor(w),
           NEW o \in Task, o = task[w], ~(stream = "openai_audit" /\ o.to = o.from)
    PROVE  /\ o.stage = "append" /\ TaskOk(o) /\ cursor' = Saved(o) /\ Saved(o) \in Nat
           /\ Settled(Saved(o)) /\ horizon' = Above(o) /\ Above(o) \in Nat
           /\ \A r \in Due(Above(o)) : ~BehindOf(Saved(o), r[1])
  <1>1. /\ o.stage = "append" /\ o.todo = {} /\ cursor' = Saved(o)
        /\ horizon' = Max({horizon, o.first})
    BY DEF SaveCursor
  <1>2. TaskOk(o) /\ horizon \in Nat /\ o.first \in Nat /\ o.from \in Nat /\ o.to \in Nat
    BY DEF PullsInv, Typed, Task
  <1>3. PlanOk(o) /\ SaveOk(o) /\ CoverOk(o)
    BY <1>1, <1>2 DEF TaskOk
  <1>4. horizon' = Above(o) /\ Above(o) \in Nat
    BY <1>1, <1>2, OfTwo DEF Above
  <1>5. o.kind = "backfill" => stream = "admin"
    BY <1>3 DEF PlanOk
  <1>6. stream = "openai_audit" => o.to > 0
    BY <1>1, <1>2, <1>3 DEF SaveOk
  <1>7. Saved(o) \in Nat
    BY <1>5, <1>6, SavedIs
  <1>8. Settled(Saved(o))
    BY <1>1, <1>3 DEF SaveOk
  <1>9. \A r \in Due(Above(o)) : ~BehindOf(Saved(o), r[1])
    BY <1>1, <1>3 DEF CoverOk
  <1> QED BY <1>1, <1>2, <1>4, <1>7, <1>8, <1>9

\* The cursor a pull saves has no due row behind it.
LEMMA SavedCursorOk ==
    ASSUME PullsInv, Frame, NEW w \in Pullers, SaveCursor(w),
           NEW c \in Nat, cursor' = c
    PROVE  CursorOk(c)'
  <1>1. PICK o \in Task : o = task[w]
    BY TaskIs DEF PullsInv
  <1>2. CASE stream = "openai_audit" /\ o.to = o.from
    <2>1. cursor = c /\ Typed
      BY <1>1, <1>2 DEF SaveCursor, PullsInv
    <2> QED BY <2>1, CursorStays DEF PullsInv
  <1>3. CASE ~(stream = "openai_audit" /\ o.to = o.from)
    <2>1. /\ c = Saved(o) /\ Settled(c) /\ horizon' = Above(o)
          /\ \A r \in Due(Above(o)) : ~BehindOf(c, r[1])
      BY <1>1, <1>3, SavedAhead
    <2>2. UNCHANGED <<stream, now, vendor, records, skipped, asked, superseded>>
      BY DEF SaveCursor, outside
    <2>3. Settled(c)'
      BY <2>1, <2>2 DEF Settled
    <2>4. ASSUME NEW r, r \in Due(horizon)' PROVE ~BehindOf(c, r[1])'
      <3>1. r \in Due(Above(o))
        BY <2>1, <2>2, <2>4 DEF Due, Open
      <3> QED BY <2>1, <2>2, <3>1 DEF BehindOf
    <2> QED BY <2>3, <2>4 DEF CursorOk
  <1> QED BY <1>2, <1>3

\* After the save, a loop goes on where its segment ended.
LEMMA SavedTaskOk ==
    ASSUME PullsInv, NEW w \in Pullers, SaveCursor(w)
    PROVE  \E t \in Task : TaskOk(t)' /\ task' = [task EXCEPT ![w] = t]
  <1>1. PICK o \in Task : o = task[w]
    BY TaskIs DEF PullsInv
  <1>2. CASE ~Loops(o)
    <2>1. task' = [task EXCEPT ![w] = Idle]
      BY <1>1, <1>2 DEF SaveCursor
    <2> QED BY <2>1, IdleOk
  <1>3. CASE Loops(o)
    <2>0. o.stage = "append" /\ TaskOk(o) /\ o.todo = {}
      BY <1>1 DEF SaveCursor, PullsInv
    <2>1. PlanOk(o) /\ SaveOk(o)
      BY <2>0 DEF TaskOk
    <2>2. stream # "openai_audit" /\ (stream = "code_analytics" \/ (stream = "admin" /\ o.kind = "backfill"))
      BY <1>3, <2>1 DEF Loops, PlanOk
    <2>3. /\ horizon' = Above(o) /\ Above(o) \in Nat
          /\ \A r \in Due(Above(o)) : ~BehindOf(Saved(o), r[1])
      BY <1>1, <2>2, SavedAhead
    <2>4. PICK t : t = [o EXCEPT !.stage = "list", !.from = o.to]
      OBVIOUS
    <2>5. task' = [task EXCEPT ![w] = t]
      BY <1>1, <1>3, <2>4 DEF SaveCursor
    <2>6. /\ t.stage = "list" /\ t.kind = o.kind /\ t.from = o.to /\ t.goal = o.goal /\ t.save = o.save
          /\ t.first = o.first /\ t.todo = {} /\ o.from \in Nat /\ o.to \in Nat /\ o.goal \in Nat
          /\ o.first \in Nat
      BY <2>0, <2>4 DEF Task
    <2>7. t \in Task
      BY <2>4, <2>6 DEF Task
    <2>8. UNCHANGED <<stream, now, vendor, records, skipped, asked, superseded>> /\ now \in Nat /\ horizon \in Nat
      BY PullsAssumption DEF SaveCursor, outside, PullsInv, Typed
    <2>9. o.to <= o.goal /\ o.goal <= now
      BY <1>3, <2>0, <2>1, <2>2 DEF PlanOk, SaveOk
    <2>10. stream = "code_analytics" => /\ t.from = DayStart(DayOf(t.from))
                                        /\ o.to = o.from + DayLength
      <3>1. SUFFICES ASSUME stream = "code_analytics"
                     PROVE  /\ t.from = DayStart(DayOf(t.from)) /\ o.to = o.from + DayLength
        OBVIOUS
      <3>2. o.from = DayStart(DayOf(o.from)) /\ o.to = o.from + DayLength
        BY <2>0, <2>1, <3>1 DEF PlanOk, SaveOk
      <3>3. PICK d \in Nat, e \in Nat : d = DayOf(o.from) /\ e = d + 1
        BY <2>6, Today
      <3>4. o.to = DayStart(e)
        BY <3>2, <3>3, Midnights
      <3>5. DayOf(o.to) = e
        BY <3>4, DayOfMidnight
      <3> QED BY <2>6, <3>2, <3>4, <3>5
    <2>11. SettledFrom(t.from)'
      BY <2>2, <2>6, <2>8, <2>9 DEF SettledFrom
    <2>12. PlanOk(t)'
      BY <2>1, <2>2, <2>6, <2>8, <2>10, <2>11 DEF PlanOk
    <2>13. ASSUME NEW r, r \in Due(Above(t))' PROVE ~Passed(t.from, r[1])'
      <3>1. Above(t)' = Above(o)
        BY <2>3, <2>6, <2>8 DEF Above
      <3>2. r \in Due(Above(o)) /\ r[1] \in Nat
        BY <2>8, <2>13, <3>1, RowsAre DEF Due, Open
      <3>3. ~BehindOf(Saved(o), r[1])
        BY <2>3, <3>2
      <3>4. PICK d \in Nat : d = r[1]
        BY <3>2
      <3>5. DayStart(d) \in Nat /\ DayStart(d + 1) = DayStart(d) + DayLength /\ DayLength \in Nat
        BY Midnights
      <3>6. CASE stream = "code_analytics"
        <4>1. Saved(o) = o.from
          BY <2>1, <3>6 DEF Saved, PlanOk
        <4>2. ~ (DayStart(d) <= o.from)
          BY <3>3, <3>4, <3>6, <4>1 DEF BehindOf
        <4>3. ~ (DayStart(d + 1) <= o.to)
          BY <2>6, <2>10, <3>5, <3>6, <4>2
        <4> QED BY <2>6, <2>8, <3>4, <3>6, <4>3 DEF Passed
      <3>7. CASE stream = "admin" /\ o.kind = "backfill"
        BY <2>6, <2>8, <3>3, <3>4, <3>7 DEF BehindOf, Passed, Saved
      <3> QED BY <2>2, <3>6, <3>7
    <2>14. SaveOk(t)' /\ CoverOk(t)' /\ HandOk(t)'
      BY <2>6, <2>13 DEF SaveOk, CoverOk, HandOk
    <2> QED BY <2>5, <2>7, <2>12, <2>14 DEF TaskOk
  <1> QED BY <1>2, <1>3


-----------------------------------------------------------------------------
(* Every step keeps the invariant. *)

TasksOk == \A w \in Pullers, t \in Task : task[w] = t => TaskOk(t)

\* A step of one worker leaves the other tasks' invariants alone.
LEMMA OneTaskMoves ==
    ASSUME PullsInv, Frame, NEW w \in Pullers, NEW t \in Task, TaskOk(t)',
           task' = [task EXCEPT ![w] = t]
    PROVE  task' \in [Pullers -> Task] /\ TasksOk'
  <1>1. task \in [Pullers -> Task] /\ Typed
    BY DEF PullsInv, Typed
  <1>2. ASSUME NEW x \in Pullers, NEW u \in Task, task'[x] = u PROVE TaskOk(u)'
    <2>1. CASE x = w
      BY <1>1, <1>2, <2>1
    <2>2. CASE x # w
      <3>1. task[x] = u
        BY <1>1, <1>2, <2>2
      <3> QED BY <1>1, <3>1, TaskStays DEF PullsInv
    <2> QED BY <2>1, <2>2
  <1> QED BY <1>1, <1>2 DEF TasksOk

\* Every step keeps every task's invariant.
LEMMA TasksKept ==
    ASSUME PullsInv, [PullsNext]_pullVars
    PROVE  task' \in [Pullers -> Task] /\ TasksOk'
  <1> USE DEF outside, history
  <1>0. Typed /\ Frame /\ task \in [Pullers -> Task]
    BY FrameHolds DEF PullsInv, Typed
  <1>1. ASSUME task' = task PROVE task' \in [Pullers -> Task] /\ TasksOk'
    BY <1>0, <1>1, TaskStays DEF PullsInv, TasksOk
  <1>2. CASE Tick
    BY <1>1, <1>2 DEF Tick
  <1>3. CASE Grant
    BY <1>1, <1>3 DEF Grant
  <1>4. CASE \E s \in VendorRows : VendorReport(s)
    BY <1>1, <1>4 DEF VendorReport
  <1>5. CASE UNCHANGED pullVars
    BY <1>1, <1>5 DEF pullVars
  <1>6. ASSUME NEW w \in Pullers, task' = [task EXCEPT ![w] = Idle]
        PROVE  task' \in [Pullers -> Task] /\ TasksOk'
    BY <1>0, <1>6, IdleOk, OneTaskMoves
  <1>7. ASSUME NEW w \in Pullers, NEW t \in Task, TaskOk(t), task' = [task EXCEPT ![w] = t]
        PROVE  task' \in [Pullers -> Task] /\ TasksOk'
    BY <1>0, <1>7, TaskStays, OneTaskMoves
  <1>8. ASSUME NEW w \in Pullers, StartPull(w)
        PROVE  task' \in [Pullers -> Task] /\ TasksOk'
    <2>1. PICK p : p = Plan(cursor, now)
      OBVIOUS
    <2>2. Start(w, "pull", p) /\ PlanFits(p) /\ FromCursor(p)
      BY <1>8, <2>1, PlanIs DEF StartPull
    <2>3. \E t \in Task : TaskOk(t) /\ task' = [task EXCEPT ![w] = t]
      BY <2>2, StartedOk
    <2> QED BY <1>7, <2>3
  <1>9. ASSUME NEW w \in Pullers, StartBackfill(w)
        PROVE  task' \in [Pullers -> Task] /\ TasksOk'
    <2>1. PICK p : p = BackfillPlan(cursor, now)
      OBVIOUS
    <2>2. Start(w, "backfill", p) /\ stream = "admin"
      BY <1>9, <2>1 DEF StartBackfill
    <2>3. PlanFits(p) /\ (FromCursor(p) \/ LeavesGap("backfill", p))
      BY <2>1, <2>2, BackfillPlanIs
    <2>4. \E t \in Task : TaskOk(t) /\ task' = [task EXCEPT ![w] = t]
      BY <2>2, <2>3, StartedOk
    <2> QED BY <1>7, <2>4
  <1>10. ASSUME NEW w \in Pullers,
                \/ EndLoop(w) \/ Refused(w) \/ AppendUnmetered(w) \/ FailPull(w)
         PROVE  task' \in [Pullers -> Task] /\ TasksOk'
    BY <1>6, <1>10 DEF EndLoop, Refused, AppendUnmetered, FailPull
  <1>11. ASSUME NEW w \in Pullers, List(w)
         PROVE  task' \in [Pullers -> Task] /\ TasksOk'
    BY <1>0, <1>11, ListedOk, OneTaskMoves
  <1>12. ASSUME NEW w \in Pullers, AppendRow(w) \/ AppendRefused(w) \/ SaveCursor(w)
         PROVE  task' \in [Pullers -> Task] /\ TasksOk'
    <2>1. \E t \in Task : TaskOk(t)' /\ task' = [task EXCEPT ![w] = t]
      BY <1>0, <1>12, AppendedOk, RefusedOk, SavedTaskOk
    <2> QED BY <1>0, <2>1, OneTaskMoves
  <1> QED BY <1>2, <1>3, <1>4, <1>5, <1>8, <1>9, <1>10, <1>11, <1>12 DEF PullsNext, PullStep

\* What the workers hold.
LEMMA TodoIs ==
    ASSUME PullsInv, NEW w \in Pullers, NEW r \in Nearest(task[w].todo),
           task[w].stage = "append"
    PROVE  /\ r.id \in Ids /\ r.amount \in Amounts /\ r.amount > 0
           /\ stream = "code_analytics" =>
                 r.id \in VendorRows /\ Listed(r.id, r.amount)
           /\ \A q \in task[w].todo : q.id \in Ids
  <1>1. PICK t \in Task : t = task[w] /\ TaskOk(t)
    <2>1. task[w] \in Task
      BY TaskIs DEF PullsInv
    <2> QED BY <2>1 DEF PullsInv
  <1>2. HandOk(t) /\ r \in t.todo
    BY <1>1 DEF TaskOk, Nearest
  <1>3. t.todo \subseteq [id : Ids, amount : Amounts]
    BY DEF Task
  <1> QED BY <1>1, <1>2, <1>3 DEF HandOk

\* Every step keeps the types.
LEMMA TypesKept ==
    ASSUME PullsInv, [PullsNext]_pullVars
    PROVE  Typed'
  <1> USE DEF outside, history
  <1>0. /\ stream \in Streams /\ now \in StartTime..MaxTime[stream] /\ now \in Nat
        /\ vendor \in [VendorRows -> Amounts]
        /\ access \in {"denied", "granted"}
        /\ cursor \in Nat \union {NoCursor}
        /\ records \in [Ids -> Amounts]
        /\ metered \in Nat
        /\ pullFailures \in 0..MaxPullFailures /\ MaxPullFailures \in Nat
        /\ skipped \subseteq Ids
        /\ asked \subseteq Nat /\ superseded \subseteq VendorRows \X Amounts
        /\ StartTime \in Nat /\ MaxTime[stream] \in Nat
    BY PullsAssumption DEF PullsInv, Typed
  <1>1. task' \in [Pullers -> Task]
    BY TasksKept
  <1>2. horizon' \in Nat
    BY FrameHolds DEF PullsInv, Frame
  <1>3. CASE Tick
    BY <1>0, <1>1, <1>2, <1>3 DEF Tick, Typed
  <1>4. CASE Grant
    BY <1>0, <1>1, <1>2, <1>4 DEF Grant, Typed
  <1>5. ASSUME NEW s \in VendorRows, VendorReport(s) PROVE Typed'
    <2>1. vendor[s] + 1 \in Amounts
      BY <1>5, ReportBounded DEF PullsInv
    <2>2. vendor' = [vendor EXCEPT ![s] = @ + 1]
      BY <1>5 DEF VendorReport
    <2>3. vendor' \in [VendorRows -> Amounts]
      BY <1>0, <2>1, <2>2
    <2>4. superseded' \subseteq VendorRows \X Amounts
      <3>1. vendor[s] \in Amounts
        BY <1>0
      <3> QED BY <1>0, <1>5, <3>1 DEF VendorReport
    <2> QED BY <1>0, <1>1, <1>2, <1>5, <2>3, <2>4 DEF VendorReport, Typed
  <1>6. ASSUME NEW w \in Pullers,
               \/ StartPull(w) \/ StartBackfill(w) \/ EndLoop(w) \/ Refused(w)
        PROVE  Typed'
    BY <1>0, <1>1, <1>2, <1>6
       DEF StartPull, StartBackfill, Start, EndLoop, Refused, Typed
  <1>13. ASSUME NEW w \in Pullers, List(w) PROVE Typed'
    <2>1. DayOf(task[w].from) \in Nat
      BY TaskIs, Today DEF PullsInv
    <2>2. asked' \subseteq Nat
      BY <1>0, <1>13, <2>1 DEF List
    <2> QED BY <1>0, <1>1, <1>2, <1>13, <2>2 DEF List, Typed
  <1>7. ASSUME NEW w \in Pullers, FailPull(w) PROVE Typed'
    BY <1>0, <1>1, <1>2, <1>7 DEF FailPull, Fails, Typed
  <1>8. ASSUME NEW w \in Pullers, AppendRow(w) PROVE Typed'
    <2>1. PICK r \in Nearest(task[w].todo), pages \in Nat :
            /\ records' = [records EXCEPT ![r.id] = IF records[r.id] = 0 THEN r.amount ELSE @]
            /\ metered' = Count(records[r.id] = 0)
            /\ skipped' = IF pages >= PageCap
                          THEN skipped \union {q.id : q \in task[w].todo \ {r}} ELSE skipped
      <3>1. task[w].pages \in Nat
        BY TaskIs DEF PullsInv, Typed, Task
      <3>2. (IF stream = "code_analytics" THEN task[w].pages + 1 ELSE 0) \in Nat
        BY <3>1
      <3> QED BY <1>8, <3>2 DEF AppendRow
    <2>2. /\ r.id \in Ids /\ r.amount \in Amounts
          /\ \A q \in task[w].todo : q.id \in Ids
      BY <1>8, TodoIs DEF AppendRow
    <2>3. records' \in [Ids -> Amounts]
      BY <1>0, <2>1, <2>2
    <2>4. metered' \in Nat
      BY <1>0, <2>1 DEF Count
    <2>5. skipped' \subseteq Ids
      BY <1>0, <2>1, <2>2
    <2> QED BY <1>0, <1>1, <1>2, <1>8, <2>3, <2>4, <2>5 DEF AppendRow, Typed
  <1>9. ASSUME NEW w \in Pullers, AppendUnmetered(w) PROVE Typed'
    <2>1. PICK r \in Nearest(task[w].todo) : records' = [records EXCEPT ![r.id] = r.amount]
      BY <1>9 DEF AppendUnmetered
    <2>2. r.id \in Ids /\ r.amount \in Amounts
      BY <1>9, TodoIs DEF AppendUnmetered
    <2>3. records' \in [Ids -> Amounts]
      BY <1>0, <2>1, <2>2
    <2> QED BY <1>0, <1>1, <1>2, <1>9, <2>3 DEF AppendUnmetered, Fails, Typed
  <1>10. ASSUME NEW w \in Pullers, AppendRefused(w) PROVE Typed'
    <2>1. PICK r \in Nearest(task[w].todo) : skipped' = skipped \union {r.id}
      BY <1>10 DEF AppendRefused
    <2>2. r.id \in Ids
      BY <1>10, TodoIs DEF AppendRefused
    <2>3. skipped' \subseteq Ids
      BY <1>0, <2>1, <2>2
    <2> QED BY <1>0, <1>1, <1>2, <1>10, <2>3 DEF AppendRefused, Fails, Typed
  <1>11. ASSUME NEW w \in Pullers, SaveCursor(w) PROVE Typed'
    <2>1. PICK o \in Task : o = task[w]
      BY TaskIs DEF PullsInv
    <2>2. cursor' \in Nat \union {NoCursor}
      <3>1. CASE stream = "openai_audit" /\ o.to = o.from
        BY <1>0, <1>11, <2>1, <3>1 DEF SaveCursor
      <3>2. CASE ~(stream = "openai_audit" /\ o.to = o.from)
        BY <1>11, <2>1, <3>2, SavedAhead
      <3> QED BY <3>1, <3>2
    <2> QED BY <1>0, <1>1, <1>2, <1>11, <2>2 DEF SaveCursor, Typed
  <1>12. CASE UNCHANGED pullVars
    BY <1>0, <1>1, <1>2, <1>12 DEF pullVars, Typed
  <1> QED BY <1>3, <1>4, <1>5, <1>6, <1>7, <1>8, <1>9, <1>10, <1>11, <1>12, <1>13
         DEF PullsNext, PullStep


\* Every step keeps the cursor's invariant.
LEMMA CursorKept ==
    ASSUME PullsInv, [PullsNext]_pullVars, NEW c \in Nat, cursor' = c
    PROVE  CursorOk(c)'
  <1>1. Typed /\ Frame
    BY FrameHolds DEF PullsInv
  <1>2. ASSUME NEW w \in Pullers, SaveCursor(w) PROVE CursorOk(c)'
    BY <1>1, <1>2, SavedCursorOk
  <1>3. CASE cursor' = cursor
    BY <1>1, <1>3, CursorStays DEF PullsInv
  <1>4. cursor' = cursor \/ \E w \in Pullers : SaveCursor(w)
    BY DEF PullsNext, PullStep, Tick, Grant, VendorReport, StartPull,
           StartBackfill, Start, EndLoop, Refused, List, AppendRow,
           AppendUnmetered, AppendRefused, FailPull, pullVars
  <1> QED BY <1>2, <1>3, <1>4

\* Which records a step writes: one of a worker's hands, or none.
LEMMA Written ==
    ASSUME PullsInv, [PullsNext]_pullVars
    PROVE  \/ records' = records /\ metered' = metered /\ pullFailures <= pullFailures'
           \/ \E i \in Ids, a \in Amounts :
                 /\ records[i] = 0 /\ a > 0 /\ records' = [records EXCEPT ![i] = a]
                 /\ vendor' = vendor /\ now' = now
                 /\ \/ metered' = metered + 1 /\ pullFailures' = pullFailures
                    \/ metered' = metered /\ pullFailures' = pullFailures + 1
                 /\ stream = "code_analytics" =>
                       i \in VendorRows /\ Listed(i, a)
  <1>0. /\ records \in [Ids -> Amounts] /\ pullFailures \in Nat
        /\ MaxPullFailures \in Nat
    BY PullsAssumption DEF PullsInv, Typed
  <1>1. ASSUME NEW w \in Pullers, AppendRow(w)
        PROVE  \/ records' = records /\ metered' = metered /\ pullFailures' = pullFailures
               \/ \E i \in Ids, a \in Amounts :
                     /\ records[i] = 0 /\ a > 0 /\ records' = [records EXCEPT ![i] = a]
                     /\ vendor' = vendor /\ now' = now
                     /\ metered' = metered + 1 /\ pullFailures' = pullFailures
                     /\ stream = "code_analytics" =>
                           i \in VendorRows /\ Listed(i, a)
    <2>1. PICK r \in Nearest(task[w].todo) :
            /\ records' = [records EXCEPT ![r.id] = IF records[r.id] = 0 THEN r.amount ELSE @]
            /\ metered' = Count(records[r.id] = 0)
      BY <1>1 DEF AppendRow
    <2>2. vendor' = vendor /\ now' = now /\ pullFailures' = pullFailures
      BY <1>1 DEF AppendRow, outside
    <2>3. /\ r.id \in Ids /\ r.amount \in Amounts /\ r.amount > 0
          /\ stream = "code_analytics" =>
               r.id \in VendorRows /\ Listed(r.id, r.amount)
      BY <1>1, TodoIs DEF AppendRow
    <2>4. CASE records[r.id] = 0
      <3>1. records' = [records EXCEPT ![r.id] = r.amount] /\ metered' = metered + 1
        BY <2>1, <2>4 DEF Count
      <3> QED BY <2>2, <2>3, <2>4, <3>1
    <2>5. CASE records[r.id] # 0
      <3>1. records' = records /\ metered' = metered
        BY <1>0, <2>1, <2>3, <2>5 DEF Count
      <3> QED BY <2>2, <3>1
    <2> QED BY <2>4, <2>5
  <1>2. ASSUME NEW w \in Pullers, AppendUnmetered(w)
        PROVE  \E i \in Ids, a \in Amounts :
                  /\ records[i] = 0 /\ a > 0 /\ records' = [records EXCEPT ![i] = a]
                  /\ vendor' = vendor /\ now' = now
                  /\ metered' = metered /\ pullFailures' = pullFailures + 1
                  /\ stream = "code_analytics" =>
                        i \in VendorRows /\ Listed(i, a)
    <2>1. PICK r \in Nearest(task[w].todo) :
            records[r.id] = 0 /\ records' = [records EXCEPT ![r.id] = r.amount]
      BY <1>2 DEF AppendUnmetered
    <2>2. vendor' = vendor /\ now' = now /\ metered' = metered /\ pullFailures' = pullFailures + 1
      BY <1>2 DEF AppendUnmetered, outside, Fails
    <2>3. /\ r.id \in Ids /\ r.amount \in Amounts /\ r.amount > 0
          /\ stream = "code_analytics" =>
               r.id \in VendorRows /\ Listed(r.id, r.amount)
      BY <1>2, TodoIs DEF AppendUnmetered
    <2> QED BY <2>1, <2>2, <2>3
  <1>3. \/ \E w \in Pullers : AppendRow(w) \/ AppendUnmetered(w)
        \/ records' = records /\ metered' = metered
           /\ (pullFailures' = pullFailures \/ pullFailures' = pullFailures + 1)
    BY DEF PullsNext, PullStep, Tick, Grant, VendorReport, StartPull,
           StartBackfill, Start, EndLoop, Refused, List, SaveCursor,
           AppendRefused, FailPull, Fails, pullVars, outside, history
  <1> QED BY <1>0, <1>1, <1>2, <1>3

\* Every step keeps what analytics recorded current, or superseded.
LEMMA FinalKept ==
    ASSUME PullsInv, [PullsNext]_pullVars
    PROVE  FinalOk'
  <1>0. Typed /\ Frame /\ FinalOk /\ records \in [Ids -> Amounts]
    BY FrameHolds DEF PullsInv, Typed
  <1>1. SUFFICES ASSUME stream = "code_analytics", NEW r \in VendorRows, records'[r] > 0,
                        NEW a, a = records'[r]
                 PROVE  Listed(r, a)'
    BY <1>0 DEF FinalOk, Frame, Listed
  <1>2. a = records'[r]
    BY <1>1
  <1>3. Listed(r, a)
    <2>1. CASE a = records[r]
      BY <1>0, <1>1, <1>2, <2>1 DEF FinalOk
    <2>2. CASE a # records[r]
      <3>1. PICK i \in Ids, b \in Amounts :
              records' = [records EXCEPT ![i] = b] /\ i \in VendorRows /\ Listed(i, b)
        BY <1>1, <1>2, <2>2, Written
      <3>2. r = i /\ a = b
        BY <1>0, <1>2, <2>2, <3>1, RowsAre
      <3> QED BY <3>1, <3>2
    <2> QED BY <2>1, <2>2
  <1> QED BY <1>0, <1>1, <1>3, ListedStays

\* A meter never counts a record twice, and what it missed is failures.
Recorded == {i \in Ids : records[i] > 0}

MeterOk == metered <= Cardinality(Recorded) /\ Cardinality(Recorded) <= metered + pullFailures

\* The records are finitely many.
LEMMA IdsFinite ==
    ASSUME Typed
    PROVE  IsFiniteSet(Ids)
  <1>1. IsFiniteSet(Keys)
    BY PullsAssumption
  <1>2. IsFiniteSet(Keys \union {NoKey})
    BY <1>1, FS_AddElement
  <1>3. PICK n \in Nat : Days = 0..n
    BY DaysAre DEF Typed
  <1>4. IsFiniteSet(Days)
    <2>1. 0 \in Int /\ n \in Int
      OBVIOUS
    <2>2. IsFiniteSet(0..n)
      BY ONLY <2>1, FS_Interval
    <2> QED BY <1>3, <2>2
  <1> QED BY <1>2, <1>4, FS_Product DEF Ids

\* Every step keeps the meter between the records and the records less the deaths.
LEMMA MeterKept ==
    ASSUME PullsInv, MeterOk, [PullsNext]_pullVars
    PROVE  MeterOk'
  <1>0. /\ records \in [Ids -> Nat] /\ pullFailures \in Nat /\ pullFailures' \in Nat /\ metered \in Nat
        /\ \A a \in Amounts : a \in Nat
    BY TypesKept DEF PullsInv, Typed, Amounts
  <1>1. IsFiniteSet(Recorded)
    <2>1. IsFiniteSet(Ids)
      BY IdsFinite DEF PullsInv
    <2> QED BY <2>1, FS_Subset DEF Recorded
  <1>2. PICK S : S = Recorded
    OBVIOUS
  <1>3. Cardinality(S) \in Nat
    BY <1>1, <1>2, FS_CardinalityType
  <1>4. CASE records' = records /\ metered' = metered /\ pullFailures <= pullFailures'
    <2>1. Recorded' = S
      BY <1>2, <1>4 DEF Recorded
    <2> QED BY <1>0, <1>2, <1>3, <1>4, <2>1 DEF MeterOk
  <1>5. ASSUME NEW i \in Ids, NEW a \in Amounts, records[i] = 0, a > 0,
               records' = [records EXCEPT ![i] = a],
               \/ metered' = metered + 1 /\ pullFailures' = pullFailures
               \/ metered' = metered /\ pullFailures' = pullFailures + 1
        PROVE  MeterOk'
    <2>1. Recorded' = S \union {i} /\ i \notin S
      BY <1>0, <1>2, <1>5 DEF Recorded
    <2>2. Cardinality(S \union {i}) = Cardinality(S) + 1
      BY <1>1, <1>2, <2>1, FS_AddElement
    <2> QED BY <1>0, <1>2, <1>3, <1>5, <2>1, <2>2 DEF MeterOk
  <1> QED BY <1>4, <1>5, Written


\* The invariant holds at first.
LEMMA PullsInitially ==
    ASSUME PullsInit
    PROVE  PullsInv /\ MeterOk
  <1>1. /\ stream \in Streams /\ now = StartTime
        /\ vendor \in [VendorRows -> 0..1]
        /\ access \in {"denied", "granted"} /\ cursor = NoCursor
        /\ records = [i \in Ids |-> 0] /\ metered = 0
        /\ task = [w \in Pullers |-> Idle]
        /\ pullFailures = 0 /\ horizon = 0 /\ skipped = {}
        /\ asked = {} /\ superseded = {}
    BY DEF PullsInit
  <1>2. /\ StartTime \in Nat /\ MaxTime[stream] \in Nat /\ StartTime <= MaxTime[stream]
        /\ MaxReports \in Nat /\ MaxPullFailures \in Nat /\ NoCursor \notin Nat
    BY <1>1, PullsAssumption
  <1>3. \A n \in 0..1 : n \in Amounts
    BY <1>2 DEF Amounts
  <1>4. Typed
    <2>1. vendor \in [VendorRows -> Amounts] /\ records \in [Ids -> Amounts]
      BY <1>1, <1>3
    <2>2. now \in StartTime..MaxTime[stream]
      BY <1>1, <1>2
    <2>3. task \in [Pullers -> Task]
      BY <1>1, IdleOk
    <2> QED BY <1>1, <1>2, <2>1, <2>2, <2>3 DEF Typed
  <1>5. \A w \in Pullers, t \in Task : task[w] = t => TaskOk(t)
    BY <1>1, IdleOk
  <1>6. FinalOk
    BY <1>1, RowsAre DEF FinalOk
  <1>7. MeterOk
    <2>1. Recorded = {}
      BY <1>1 DEF Recorded
    <2> QED BY <1>1, <2>1, FS_EmptySet DEF MeterOk
  <1> QED BY <1>1, <1>2, <1>4, <1>5, <1>6, <1>7 DEF PullsInv

\* The invariant holds always.
LEMMA PullsInvariant == PullsSpec => [](PullsInv /\ MeterOk)
  <1>1. (PullsInv /\ MeterOk) /\ [PullsNext]_pullVars => (PullsInv /\ MeterOk)'
    <2> SUFFICES ASSUME PullsInv, MeterOk, [PullsNext]_pullVars PROVE PullsInv' /\ MeterOk'
      OBVIOUS
    <2>1. Typed'
      BY TypesKept
    <2>2. TasksOk'
      BY TasksKept
    <2>3. \A c \in Nat : cursor' = c => CursorOk(c)'
      BY CursorKept
    <2>4. FinalOk'
      BY FinalKept
    <2>5. MeterOk'
      BY MeterKept
    <2> QED BY <2>1, <2>2, <2>3, <2>4, <2>5 DEF PullsInv, TasksOk
  <1>2. PullsInit => PullsInv /\ MeterOk
    BY PullsInitially
  <1> QED BY <1>1, <1>2, PTL DEF PullsSpec

(***************************************************************************)
(* The clock, the vendor, the cursor, the records and the tasks keep their *)
(* types; a record is metered at most once, and the records that are not   *)
(* are no more than the failures of pulls.                                 *)
(***************************************************************************)
THEOREM PullsTypeCorrect == PullsSpec => []PullsTypeOK
  <1>1. PullsInv /\ MeterOk => PullsTypeOK
    BY DEF PullsInv, MeterOk, Typed, PullsTypeOK, Recorded
  <1>2. PullsSpec => [](PullsInv /\ MeterOk)
    BY PullsInvariant
  <1> QED BY <1>1, <1>2, PTL

(***************************************************************************)
(* No pull of any stream, however many overlap, fail, are refused or       *)
(* write the cursor back, leaves a reported row behind the cursor that     *)
(* nobody recorded, but for the four named exceptions                      *)
(* (pull_admin.py:335-409 and 426-552, pull_code_analytics.py:251-381,     *)
(* pull_openai_*.py, pull_vertex_*.py).                                    *)
(***************************************************************************)
THEOREM BehindCursorHolds == PullsSpec => []BehindCursor
  <1>1. PullsInv => BehindCursor
    <2> SUFFICES ASSUME PullsInv, cursor # NoCursor, NEW r \in VendorRows,
                        vendor[r] > 0, Behind(r[1]), r \notin skipped, <<r, 0>> \notin superseded,
                        stream = "openai_audit" \/ DayStart(r[1]) >= horizon
                 PROVE  records[r] > 0
      BY DEF BehindCursor
    <2>1. cursor \in Nat /\ records[r] \in Nat
      BY RowsAre DEF PullsInv, Typed, Amounts
    <2>2. CursorOk(cursor)
      BY <2>1 DEF PullsInv
    <2>3. BehindOf(cursor, r[1])
      BY DEF Behind, BehindOf
    <2>4. records[r] # 0
      BY <2>2, <2>3 DEF CursorOk, Due, Open
    <2> QED BY <2>1, <2>4
  <1>2. PullsSpec => [](PullsInv /\ MeterOk)
    BY PullsInvariant
  <1> QED BY <1>1, <1>2, PTL

(***************************************************************************)
(* What the analytics pull has recorded is what the vendor last reported,  *)
(* however long the freshness lag: only an amount that the vendor replaced *)
(* when its day was over and had been asked for may stand in its place     *)
(* (pull_code_analytics.py:102-104 and 251-381; no day is asked for while  *)
(* it runs, and whoever listed an amount listed the same one).             *)
(***************************************************************************)
THEOREM SettledAmountsHolds == PullsSpec => []SettledAmounts
  <1>1. PullsInv => SettledAmounts
    BY DEF PullsInv, FinalOk, Listed, SettledAmounts
  <1>2. PullsSpec => [](PullsInv /\ MeterOk)
    BY PullsInvariant
  <1> QED BY <1>1, <1>2, PTL
=============================================================================
