---------------------------- MODULE UsageLedger ----------------------------
(***************************************************************************)
(* What metering promises: each ingested record counted by increment() is  *)
(* pending until it is added, once, to its usage_records row; a row only   *)
(* grows, and one tenant's rows at a time.  Pending counts may be dropped  *)
(* (the Redis buffer has a TTL), never recorded twice.                     *)
(***************************************************************************)
EXTENDS Naturals

CONSTANTS Tenants,
          Counters   \* <<tenant, meter>>, a meter a (record_type, bucket_start)

VARIABLES pending, recorded

Zero == [c \in Counters |-> 0]

LedgerInit == pending = Zero /\ recorded = Zero

CountOne(c) == /\ pending' = [pending EXCEPT ![c] = @ + 1]
               /\ UNCHANGED recorded

\* A tenant's batch moves whole counts from pending to its rows.
RecordBatch(t) ==
    /\ \A c \in Counters :
          IF c[1] = t
          THEN /\ recorded'[c] >= recorded[c]
               /\ recorded'[c] + pending'[c] = recorded[c] + pending[c]
          ELSE recorded'[c] = recorded[c] /\ pending'[c] = pending[c]

Drop == /\ \A c \in Counters : pending'[c] <= pending[c]
        /\ UNCHANGED recorded

LedgerNext == \/ \E c \in Counters : CountOne(c)
              \/ \E t \in Tenants : RecordBatch(t)
              \/ Drop

LedgerSpec == LedgerInit /\ [][LedgerNext]_<<pending, recorded>>
=============================================================================
