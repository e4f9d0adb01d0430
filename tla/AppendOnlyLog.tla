--------------------------- MODULE AppendOnlyLog ---------------------------
(***************************************************************************)
(* What the telemetry chain promises its callers, with no hashes, no       *)
(* transactions and no rows: every tenant has a log, a log only grows at   *)
(* its end, and a key (source_api, external_id) is in a log at most once.  *)
(***************************************************************************)
EXTENDS Naturals, Sequences

CONSTANTS Tenants,   \* customers, each with a log of its own
          Keys,      \* (source_api, external_id) pairs
          Contents   \* what a record says, other than its key

VARIABLE log

Entry(k, c) == [key |-> k, content |-> c]

LogInit == log = [t \in Tenants |-> <<>>]

Fresh(t, k) == \A i \in DOMAIN log[t] : log[t][i].key # k

AppendEntry(t, k, c) ==
    /\ Fresh(t, k)
    /\ log' = [log EXCEPT ![t] = Append(@, Entry(k, c))]

LogNext == \E t \in Tenants, k \in Keys, c \in Contents : AppendEntry(t, k, c)

LogSpec == LogInit /\ [][LogNext]_log
=============================================================================
