----------------------------- MODULE AuditChain -----------------------------
(***************************************************************************)
(* chain.py: the tamper-evident chain of telemetry_records.                *)
(*                                                                         *)
(* A writer (a Celery worker running one task) appends inside one          *)
(* session_scope transaction: it reads the chain tip, derives the new row  *)
(* from it, INSERTs the row, and commits.  Nothing locks the tip, so       *)
(* writers of one tenant race; the UNIQUE constraints on                   *)
(* (tenant_id, chain_seq) and (tenant_id, source_api, external_id) decide. *)
(* Postgres makes an INSERT wait for an uncommitted row it collides with.  *)
(*                                                                         *)
(* SHA-256 is taken to be collision-free: a digest is the tuple of what is *)
(* hashed.  A key stands for (source_api, external_id), a content for the  *)
(* remaining fields of the canonical dict.                                 *)
(***************************************************************************)
EXTENDS Naturals, FiniteSets, Sequences

CONSTANTS Tenants,
          Keys,
          Contents,
          Requests,           \* the (tenant, key, content) callers append
          Writers,            \* concurrent transactions that append
          GenesisHash,        \* the string hashed before the first record
          GenesisPrevBytes,   \* the sentinel stored as its chain_prev_hash
          NoRow               \* a writer that holds no candidate row

ASSUME RequestsAssumption == Requests \subseteq Tenants \X Keys \X Contents

\* GENESIS_HASH is a word, no 64 hex digits: nothing hashes to it.
ASSUME GenesisAssumption ==
    \A t \in Tenants, k \in Keys, c \in Contents : GenesisHash # <<t, k, c, GenesisHash>>

VARIABLES rows,      \* the committed telemetry_records of all tenants
          phase,     \* where each writer's transaction is
          candidate  \* the row each writer derived from the tip it read

chainVars == <<rows, phase, candidate>>

Phases == {"idle", "read", "inserted", "done", "refused"}

\* Mutant of Digest: the tenant_id is left out of the canonical dict.
DigestWithoutTenant(t, k, c, prev) == <<k, c, prev>>

Digest(t, k, c, prev) == <<t, k, c, prev>>

NewRow(t, n, k, c, stored, hashed) ==
    [tenant |-> t, seq |-> n, key |-> k, content |-> c,
     prev |-> stored, self |-> Digest(t, k, c, hashed)]

\* Mutants of FirstRow: numbered from zero; hashed over the stored sentinel.
FirstRowZero(t, k, c) == NewRow(t, 0, k, c, GenesisPrevBytes, GenesisHash)
FirstRowOnBytes(t, k, c) == NewRow(t, 1, k, c, GenesisPrevBytes, GenesisPrevBytes)

FirstRow(t, k, c) == NewRow(t, 1, k, c, GenesisPrevBytes, GenesisHash)

RowAfter(tip, k, c) ==
    NewRow(tip.tenant, tip.seq + 1, k, c, tip.self, tip.self)

RowsOf(t, R) == {r \in R : r.tenant = t}

IsTip(r, R) == /\ r \in R
               /\ \A s \in RowsOf(r.tenant, R) : s.seq <= r.seq

\* The two unique constraints of the table.
SameSlot(r, s) == r.tenant = s.tenant /\ r.seq = s.seq
SameKey(r, s)  == r.tenant = s.tenant /\ r.key = s.key
\* Mutant of Collide: a table without the dedup constraint.
CollideOnSlot(r, s) == SameSlot(r, s)

Collide(r, s)  == SameSlot(r, s) \/ SameKey(r, s)

-----------------------------------------------------------------------------
ChainInit == /\ rows = {}
             /\ phase = [w \in Writers |-> "idle"]
             /\ candidate = [w \in Writers |-> NoRow]

Move(w, to) == phase' = [phase EXCEPT ![w] = to]

Hold(w, r) == candidate' = [candidate EXCEPT ![w] = r]

\* SELECT the tip and derive the row: the transaction sees committed rows.
ReadTip(w, t, k, c) ==
    /\ phase[w] = "idle"
    /\ \/ RowsOf(t, rows) = {} /\ Hold(w, FirstRow(t, k, c))
       \/ \E tip \in RowsOf(t, rows) :
             IsTip(tip, rows) /\ Hold(w, RowAfter(tip, k, c))
    /\ Move(w, "read")
    /\ UNCHANGED rows

\* Mutants of InsertRow: no constraint on chain_seq; a lock on the tip that
\* readers share and the INSERT must hold alone.
InsertWithoutSlot(w) ==
    /\ phase[w] = "read"
    /\ \A r \in rows : ~SameKey(candidate[w], r)
    /\ \A v \in Writers :
          phase[v] = "inserted" => ~SameKey(candidate[w], candidate[v])
    /\ Move(w, "inserted")
    /\ UNCHANGED <<rows, candidate>>

InsertUnderLock(w) ==
    /\ phase[w] = "read"
    /\ \A r \in rows : ~Collide(candidate[w], r)
    /\ \A v \in Writers \ {w} : phase[v] \notin {"read", "inserted"}
    /\ Move(w, "inserted")
    /\ UNCHANGED <<rows, candidate>>

\* An INSERT that no committed row refuses and that waits for no other one.
InsertRow(w) ==
    /\ phase[w] = "read"
    /\ \A r \in rows : ~Collide(candidate[w], r)
    /\ \A v \in Writers :
          phase[v] = "inserted" => ~Collide(candidate[w], candidate[v])
    /\ Move(w, "inserted")
    /\ UNCHANGED <<rows, candidate>>

\* An INSERT that meets a committed row: IntegrityError, and rollback.
RefuseRow(w) ==
    /\ phase[w] = "read"
    /\ \E r \in rows : Collide(candidate[w], r)
    /\ Move(w, "refused")
    /\ UNCHANGED <<rows, candidate>>

CommitRow(w) ==
    /\ phase[w] = "inserted"
    /\ rows' = rows \union {candidate[w]}
    /\ Move(w, "done")
    /\ UNCHANGED candidate

\* Any other exception, or the death of the worker, before the commit.
RollBack(w) ==
    /\ phase[w] \in {"read", "inserted"}
    /\ Move(w, "idle")
    /\ Hold(w, NoRow)
    /\ UNCHANGED rows

\* The caller takes the returned record, or the IntegrityError.
TakeResult(w) ==
    /\ phase[w] \in {"done", "refused"}
    /\ Move(w, "idle")
    /\ Hold(w, NoRow)
    /\ UNCHANGED rows

ChainStep(w) == \/ \E q \in Requests : ReadTip(w, q[1], q[2], q[3])
                \/ InsertRow(w)
                \/ RefuseRow(w)
                \/ CommitRow(w)
                \/ RollBack(w)
                \/ TakeResult(w)

ChainNext == \E w \in Writers : ChainStep(w)

ChainSpec == ChainInit /\ [][ChainNext]_chainVars

(***************************************************************************)
(* A worker that runs keeps running, and the lock queue of Postgres wakes  *)
(* a waiting INSERT when the transaction it waits for ends: strong         *)
(* fairness for the INSERT, which others may disable again and again.      *)
(***************************************************************************)
ChainFairness ==
    \A w \in Writers : /\ SF_chainVars(InsertRow(w))
                       /\ WF_chainVars(RefuseRow(w))
                       /\ WF_chainVars(CommitRow(w))

FairChainSpec == ChainSpec /\ ChainFairness
-----------------------------------------------------------------------------
(***************************************************************************)
(* verify_telemetry_chain, over any set R of rows, so that it can be asked *)
(* about tables nobody's append produced.                                  *)
(***************************************************************************)
\* _row_to_chain_record: the hash input of row 1 is not its stored prev.
PrevHash(r) == IF r.seq = 1 THEN GenesisHash ELSE r.prev

\* The walk in chain_seq order expects each row to follow the one before.
Follows(r, R) ==
    LET before == {s \in RowsOf(r.tenant, R) : s.seq < r.seq}
    IN  IF before = {} THEN PrevHash(r) = GenesisHash
        ELSE \E s \in before : IsTip(s, before) /\ PrevHash(r) = s.self

Recomputes(t, r) == r.self = Digest(t, r.key, r.content, PrevHash(r))

Verifies(t, R) ==
    \A r \in RowsOf(t, R) : Recomputes(t, r) /\ Follows(r, R)
-----------------------------------------------------------------------------
IsRow(r) ==
    /\ r.tenant \in Tenants
    /\ r.seq \in Nat \ {0}
    /\ r.key \in Keys
    /\ r.content \in Contents
    /\ r = [tenant |-> r.tenant, seq |-> r.seq, key |-> r.key,
            content |-> r.content, prev |-> r.prev, self |-> r.self]

\* Type invariant of the chain: every committed row, and every row a
\* transaction carries, has the columns append_telemetry_record gives it.
TypeOK ==
    /\ IsFiniteSet(rows)
    /\ \A r \in rows : IsRow(r)
    /\ phase \in [Writers -> Phases]
    /\ DOMAIN candidate = Writers
    /\ candidate = [w \in Writers |-> candidate[w]]
    /\ \A w \in Writers : phase[w] # "idle" => IsRow(candidate[w])

Slots(t) == {r.seq : r \in RowsOf(t, rows)}

\* A tenant's sequence numbers are 1..n: no gap, whatever was rolled back.
GapFree == \A t \in Tenants : \E n \in 0..Cardinality(rows) : Slots(t) = 1..n

\* Two committed rows never share a slot, nor a key.
NoFork == \A r, s \in rows : Collide(r, s) => r = s

Linked(r, R) ==
    /\ Recomputes(r.tenant, r)
    /\ r.seq = 1 => r.prev = GenesisPrevBytes
    /\ r.seq > 1 => \E p \in R : /\ p.tenant = r.tenant
                                 /\ p.seq = r.seq - 1
                                 /\ p.self = r.prev

AllLinked == \A r \in rows : Linked(r, rows)

\* The tip a transaction read may be overtaken, but stays in the table.
CandidatesLinked ==
    \A w \in Writers :
        phase[w] \in {"read", "inserted"} => Linked(candidate[w], rows)

\* An uncommitted INSERT holds its slot and its key against everybody.
InsertsExclusive ==
    \A w \in Writers : phase[w] = "inserted" =>
        /\ \A r \in rows : ~Collide(candidate[w], r)
        /\ \A v \in Writers : (v # w /\ phase[v] = "inserted")
                                 => ~Collide(candidate[w], candidate[v])

\* Chain integrity: however writers race, roll back and crash, each tenant's
\* rows are numbered 1..n without forks or repeated keys, and each is hashed
\* over its predecessor (chain.py, append_telemetry_record).
ChainIntegrity == /\ GapFree
                  /\ NoFork
                  /\ AllLinked
                  /\ CandidatesLinked
                  /\ InsertsExclusive

\* verify_telemetry_chain accepts every table that appends can produce, at
\* every moment a reader may take its snapshot.
SnapshotsVerify == \A t \in Tenants : Verifies(t, rows)

(***************************************************************************)
(* Tamper evidence (chain.py: verify_telemetry_chain against the rows a    *)
(* database operator changed).  A changed key or content is noticed, even  *)
(* with its hash recomputed unless the row is the last one; so are the     *)
(* removal of a row that is not the last and a row moved in from another   *)
(* tenant.                                                                 *)
(***************************************************************************)
TamperEvident ==
    \A r \in rows :
        LET t == r.tenant
            Instead(x) == (rows \ {r}) \union {x}
            Forged(k, c) == [r EXCEPT !.key = k, !.content = c]
            Resealed(k, c) ==
                [Forged(k, c) EXCEPT !.self = Digest(t, k, c, PrevHash(r))]
        IN  /\ \A k \in Keys, c \in Contents : (k # r.key \/ c # r.content) =>
                  /\ ~Verifies(t, Instead(Forged(k, c)))
                  /\ ~IsTip(r, rows) => ~Verifies(t, Instead(Resealed(k, c)))
            /\ ~IsTip(r, rows) => ~Verifies(t, rows \ {r})
            /\ \A s \in rows : s.tenant # t =>
                  ~Verifies(t, Instead([s EXCEPT !.tenant = t, !.seq = r.seq]))

(***************************************************************************)
(* The chain implements AppendOnlyLog: read in chain_seq order, a tenant's *)
(* rows only ever grow at the end, each key at most once; what the hashes, *)
(* the races and the rollbacks add is invisible.                           *)
(***************************************************************************)
RowAt(t, i) == CHOOSE r \in RowsOf(t, rows) : r.seq = i

LogOf(t) == [i \in Slots(t) |->
                [key |-> RowAt(t, i).key, content |-> RowAt(t, i).content]]

Log == INSTANCE AppendOnlyLog WITH log <- [t \in Tenants |-> LogOf(t)]

ImplementsLog == Log!LogSpec

\* An INSERT that has to wait (chain.py, s.flush) is decided in the end: no
\* set of racing appends leaves a worker waiting on a unique index for ever.
AppendSettles ==
    \A w \in Writers : phase[w] = "read" ~> phase[w] # "read"
=============================================================================
