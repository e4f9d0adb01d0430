-------------------------- MODULE AuditChainProofs --------------------------
(***************************************************************************)
(* Proofs about AuditChain, for every set of tenants, keys, contents and   *)
(* writers.  ChainIntegrity is inductive together with TypeOK; that every  *)
(* snapshot verifies and that the chain implements AppendOnlyLog follow.   *)
(***************************************************************************)
EXTENDS AuditChain, FiniteSetTheorems, TLAPS

(***************************************************************************)
(* The two ways a candidate row is made both give a row with every column. *)
(***************************************************************************)
LEMMA NewRowIsRow ==
    ASSUME NEW t \in Tenants, NEW n \in Nat \ {0}, NEW k \in Keys,
           NEW c \in Contents, NEW stored, NEW hashed
    PROVE  /\ IsRow(NewRow(t, n, k, c, stored, hashed))
           /\ NewRow(t, n, k, c, stored, hashed).tenant = t
           /\ NewRow(t, n, k, c, stored, hashed).seq = n
           /\ NewRow(t, n, k, c, stored, hashed).key = k
           /\ NewRow(t, n, k, c, stored, hashed).content = c
           /\ NewRow(t, n, k, c, stored, hashed).prev = stored
           /\ NewRow(t, n, k, c, stored, hashed).self = Digest(t, k, c, hashed)
  BY DEF NewRow, IsRow

(***************************************************************************)
(* What a writer holds after it read the tip: a row of its own request, in *)
(* the slot after a committed row or in slot 1.                            *)
(***************************************************************************)
LEMMA CandidateMade ==
    ASSUME TypeOK, NEW w \in Writers, NEW q \in Requests,
           ReadTip(w, q[1], q[2], q[3])
    PROVE  \E r : /\ IsRow(r)
                  /\ Linked(r, rows)
                  /\ phase' = [phase EXCEPT ![w] = "read"]
                  /\ candidate' = [candidate EXCEPT ![w] = r]
  <1> DEFINE t == q[1]  k == q[2]  c == q[3]
  <1>1. t \in Tenants /\ k \in Keys /\ c \in Contents
    BY RequestsAssumption
  <1>2. CASE RowsOf(t, rows) = {} /\ Hold(w, FirstRow(t, k, c))
    <2> DEFINE r == FirstRow(t, k, c)
    <2>1. /\ IsRow(r)
          /\ r.tenant = t /\ r.seq = 1 /\ r.key = k /\ r.content = c
          /\ r.prev = GenesisPrevBytes /\ r.self = Digest(t, k, c, GenesisHash)
      BY <1>1, NewRowIsRow, 1 \in Nat \ {0} DEF FirstRow
    <2>2. Linked(r, rows)
      <3> HIDE DEF r
      <3> QED BY <2>1 DEF Linked, Recomputes, PrevHash
    <2> QED BY <1>2, <2>1, <2>2 DEF ReadTip, Hold, Move
  <1>3. CASE \E tip \in RowsOf(t, rows) :
                IsTip(tip, rows) /\ Hold(w, RowAfter(tip, k, c))
    <2>1. PICK tip \in rows : /\ tip.tenant = t
                              /\ Hold(w, RowAfter(tip, k, c))
      BY <1>3 DEF RowsOf
    <2> DEFINE r == RowAfter(tip, k, c)
    <2>2. IsRow(tip) /\ tip.seq + 1 \in Nat \ {0}
      BY DEF TypeOK, IsRow
    <2>3. /\ IsRow(r)
          /\ r.tenant = t /\ r.seq = tip.seq + 1 /\ r.key = k /\ r.content = c
          /\ r.prev = tip.self /\ r.self = Digest(t, k, c, tip.self)
      BY <1>1, <2>1, <2>2, NewRowIsRow DEF RowAfter
    <2>4. r.seq # 1 /\ r.seq - 1 = tip.seq
      <3> HIDE DEF r
      <3> QED BY <2>2, <2>3 DEF IsRow
    <2>5. Linked(r, rows)
      <3> HIDE DEF r
      <3> QED BY <2>1, <2>3, <2>4 DEF Linked, Recomputes, PrevHash
    <2> QED BY <2>1, <2>3, <2>5 DEF ReadTip, Hold, Move
  <1> QED BY <1>2, <1>3 DEF ReadTip

-----------------------------------------------------------------------------
\* The empty table of a fresh installation is well typed.
LEMMA TypeInit == ChainInit => TypeOK
  BY FS_EmptySet DEF ChainInit, TypeOK, Phases

\* Every step of a transaction keeps rows and candidates well typed.
LEMMA TypeStep == TypeOK /\ [ChainNext]_chainVars => TypeOK'
  <1> SUFFICES ASSUME TypeOK, [ChainNext]_chainVars PROVE TypeOK'
    OBVIOUS
  <1>1. ASSUME NEW w \in Writers, NEW q \in Requests,
               ReadTip(w, q[1], q[2], q[3])
        PROVE  TypeOK'
    <2>1. PICK r : /\ IsRow(r)
                   /\ phase' = [phase EXCEPT ![w] = "read"]
                   /\ candidate' = [candidate EXCEPT ![w] = r]
      BY <1>1, CandidateMade
    <2>2. rows' = rows
      BY <1>1 DEF ReadTip
    <2>3. phase' \in [Writers -> Phases]
      BY <2>1 DEF TypeOK, Phases
    <2>4. DOMAIN candidate' = Writers /\ candidate' = [v \in Writers |-> candidate'[v]]
      BY <2>1 DEF TypeOK
    <2>5. \A v \in Writers : phase'[v] # "idle" => IsRow(candidate'[v])
      BY <2>1 DEF TypeOK
    <2> QED BY <2>2, <2>3, <2>4, <2>5 DEF TypeOK, IsRow
  <1>2. ASSUME NEW w \in Writers, InsertRow(w) \/ RefuseRow(w) PROVE TypeOK'
    BY <1>2 DEF InsertRow, RefuseRow, Move, TypeOK, Phases, IsRow
  <1>3. ASSUME NEW w \in Writers, CommitRow(w) PROVE TypeOK'
    <2>1. IsFiniteSet(rows')
      BY <1>3, FS_AddElement DEF CommitRow, TypeOK
    <2>2. \A r \in rows' : IsRow(r)
      BY <1>3 DEF CommitRow, TypeOK
    <2> QED BY <1>3, <2>1, <2>2 DEF CommitRow, Move, TypeOK, Phases, IsRow
  <1>4. ASSUME NEW w \in Writers, RollBack(w) \/ TakeResult(w) PROVE TypeOK'
    <2>1. /\ phase' = [phase EXCEPT ![w] = "idle"]
          /\ candidate' = [candidate EXCEPT ![w] = NoRow]
          /\ rows' = rows
      BY <1>4 DEF RollBack, TakeResult, Move, Hold
    <2>2. phase' \in [Writers -> Phases]
      BY <2>1 DEF TypeOK, Phases
    <2>3. DOMAIN candidate' = Writers /\ candidate' = [v \in Writers |-> candidate'[v]]
      BY <2>1 DEF TypeOK
    <2>4. \A v \in Writers : phase'[v] # "idle" => IsRow(candidate'[v])
      BY <2>1 DEF TypeOK
    <2> QED BY <2>1, <2>2, <2>3, <2>4 DEF TypeOK, IsRow
  <1>5. CASE UNCHANGED chainVars
    BY <1>5 DEF chainVars, TypeOK, IsRow
  <1> QED BY <1>1, <1>2, <1>3, <1>4, <1>5 DEF ChainNext, ChainStep

(***************************************************************************)
(* Type correctness of the chain, for every instance.                      *)
(***************************************************************************)
THEOREM ChainTypeCorrect == ChainSpec => []TypeOK
  <1>1. ChainInit => TypeOK
    BY TypeInit
  <1>2. TypeOK /\ [ChainNext]_chainVars => TypeOK'
    BY TypeStep
  <1> QED BY <1>1, <1>2, PTL DEF ChainSpec

-----------------------------------------------------------------------------
(***************************************************************************)
(* A row stays linked as the table grows.                                  *)
(***************************************************************************)
LEMMA LinkedGrows ==
    ASSUME NEW r, NEW R, NEW S, R \subseteq S, Linked(r, R)
    PROVE  Linked(r, S)
  BY DEF Linked

(***************************************************************************)
(* A linked row that takes no slot of the table takes the next free one.   *)
(***************************************************************************)
LEMMA NextSlot ==
    ASSUME TypeOK, NEW r, IsRow(r), Linked(r, rows),
           \A s \in rows : ~SameSlot(r, s),
           NEW n \in Nat, Slots(r.tenant) = 1..n
    PROVE  r.seq = n + 1
  <1>1. r.seq \in Nat \ {0}
    BY DEF IsRow
  <1>2. r.seq \notin 1..n
    BY DEF SameSlot, Slots, RowsOf
  <1>3. CASE r.seq = 1
    BY <1>2, <1>3
  <1>4. CASE r.seq > 1
    <2>1. PICK p \in rows : p.tenant = r.tenant /\ p.seq = r.seq - 1
      BY <1>4 DEF Linked
    <2>2. p.seq \in 1..n
      BY <2>1 DEF Slots, RowsOf
    <2> QED BY <1>1, <1>2, <2>1, <2>2
  <1> QED BY <1>1, <1>3, <1>4

\* Empty chains are whole.
LEMMA IntegrityInit == ChainInit => ChainIntegrity
  <1> SUFFICES ASSUME ChainInit PROVE ChainIntegrity
    OBVIOUS
  <1>1. GapFree
    <2>1. Cardinality(rows) = 0
      BY FS_EmptySet DEF ChainInit
    <2>2. \A t \in Tenants : Slots(t) = 1..0
      BY DEF ChainInit, Slots, RowsOf
    <2> QED BY <2>1, <2>2, 0 \in 0..0 DEF GapFree
  <1> QED BY <1>1 DEF ChainIntegrity, ChainInit, NoFork, AllLinked,
               CandidatesLinked, InsertsExclusive

(***************************************************************************)
(* The commit of a row that collides with nothing keeps the numbering.     *)
(***************************************************************************)
LEMMA CommitKeepsGapFree ==
    ASSUME TypeOK, GapFree, NEW r, IsRow(r), Linked(r, rows),
           \A s \in rows : ~SameSlot(r, s),
           rows' = rows \union {r}
    PROVE  GapFree'
  <1> SUFFICES ASSUME NEW t \in Tenants
               PROVE  \E m \in 0..Cardinality(rows') : Slots(t)' = 1..m
    BY DEF GapFree
  <1>1. PICK n \in 0..Cardinality(rows) : Slots(t) = 1..n
    BY DEF GapFree
  <1>2. r \notin rows
    BY DEF SameSlot
  <1>3. Cardinality(rows) \in Nat /\ Cardinality(rows') = Cardinality(rows) + 1
    BY <1>2, FS_AddElement, FS_CardinalityType DEF TypeOK
  <1>4. CASE r.tenant = t
    <2>1. r.seq = n + 1
      BY <1>1, <1>3, <1>4, NextSlot
    <2>2. Slots(t)' = Slots(t) \union {n + 1}
      BY <1>4, <2>1 DEF Slots, RowsOf
    <2>3. Slots(t)' = 1..(n + 1)
      BY <1>1, <1>3, <2>2
    <2>4. n + 1 \in 0..Cardinality(rows')
      BY <1>3
    <2> QED BY <2>3, <2>4
  <1>5. CASE r.tenant # t
    <2>1. Slots(t)' = Slots(t)
      BY <1>5 DEF Slots, RowsOf
    <2>2. n \in 0..Cardinality(rows')
      BY <1>3
    <2> QED BY <1>1, <2>1, <2>2
  <1> QED BY <1>4, <1>5

\* No step of a transaction breaks a chain: reads take a committed tip, INSERTs
\* exclude each other, commits take the next slot.
LEMMA IntegrityStep ==
    TypeOK /\ ChainIntegrity /\ [ChainNext]_chainVars => ChainIntegrity'
  <1> SUFFICES ASSUME TypeOK, ChainIntegrity, [ChainNext]_chainVars
               PROVE  ChainIntegrity'
    OBVIOUS
  <1> USE DEF ChainIntegrity
  <1>1. ASSUME NEW w \in Writers, NEW q \in Requests,
               ReadTip(w, q[1], q[2], q[3])
        PROVE  ChainIntegrity'
    <2>1. PICK r : /\ IsRow(r)
                   /\ Linked(r, rows)
                   /\ phase' = [phase EXCEPT ![w] = "read"]
                   /\ candidate' = [candidate EXCEPT ![w] = r]
      BY <1>1, CandidateMade
    <2>2. rows' = rows
      BY <1>1 DEF ReadTip
    <2>3. GapFree' /\ NoFork' /\ AllLinked'
      BY <2>2 DEF GapFree, Slots, NoFork, AllLinked
    <2>4. CandidatesLinked'
      BY <2>1, <2>2 DEF CandidatesLinked, TypeOK
    <2>5. InsertsExclusive'
      BY <2>1, <2>2 DEF InsertsExclusive, TypeOK
    <2> QED BY <2>3, <2>4, <2>5
  <1>2. ASSUME NEW w \in Writers, InsertRow(w) PROVE ChainIntegrity'
    <2>1. /\ phase' = [phase EXCEPT ![w] = "inserted"]
          /\ phase[w] = "read"
          /\ rows' = rows /\ candidate' = candidate
      BY <1>2 DEF InsertRow, Move
    <2>2. GapFree' /\ NoFork' /\ AllLinked'
      BY <2>1 DEF GapFree, Slots, NoFork, AllLinked
    <2>3. CandidatesLinked'
      BY <2>1 DEF CandidatesLinked, TypeOK
    <2>4. InsertsExclusive'
      <3>1. \A r, s : Collide(r, s) <=> Collide(s, r)
        BY DEF Collide, SameSlot, SameKey
      <3>2. /\ \A r \in rows : ~Collide(candidate[w], r)
            /\ \A v \in Writers :
                 phase[v] = "inserted" => ~Collide(candidate[w], candidate[v])
        BY <1>2 DEF InsertRow
      <3> QED BY <2>1, <3>1, <3>2 DEF InsertsExclusive, TypeOK
    <2> QED BY <2>2, <2>3, <2>4
  <1>3. ASSUME NEW w \in Writers, RefuseRow(w) \/ RollBack(w) \/ TakeResult(w)
        PROVE  ChainIntegrity'
    <2>1. /\ rows' = rows
          /\ \A v \in Writers : phase'[v] \in {"read", "inserted"}
                => phase'[v] = phase[v] /\ candidate'[v] = candidate[v]
      BY <1>3 DEF RefuseRow, RollBack, TakeResult, Move, Hold, TypeOK
    <2>2. GapFree' /\ NoFork' /\ AllLinked'
      BY <2>1 DEF GapFree, Slots, NoFork, AllLinked
    <2>3. CandidatesLinked' /\ InsertsExclusive'
      BY <2>1 DEF CandidatesLinked, InsertsExclusive
    <2> QED BY <2>2, <2>3
  <1>4. ASSUME NEW w \in Writers, CommitRow(w) PROVE ChainIntegrity'
    <2> DEFINE r == candidate[w]
    <2>1. /\ rows' = rows \union {r}
          /\ phase[w] = "inserted"
          /\ phase' = [phase EXCEPT ![w] = "done"]
          /\ candidate' = candidate
      BY <1>4 DEF CommitRow, Move
    <2>2. /\ IsRow(r)
          /\ Linked(r, rows)
          /\ \A s \in rows : ~Collide(r, s)
      BY <2>1 DEF TypeOK, CandidatesLinked, InsertsExclusive
    <2>3. GapFree'
      <3> HIDE DEF r
      <3> QED BY <2>1, <2>2, CommitKeepsGapFree DEF Collide
    <2>4. NoFork'
      BY <2>1, <2>2 DEF NoFork, Collide, SameSlot, SameKey
    <2>5. AllLinked'
      BY <2>1, <2>2, LinkedGrows, rows \subseteq rows' DEF AllLinked
    <2>6. CandidatesLinked'
      BY <2>1, LinkedGrows, rows \subseteq rows' DEF CandidatesLinked, TypeOK
    <2>7. InsertsExclusive'
      <3> SUFFICES ASSUME NEW v \in Writers, phase'[v] = "inserted"
                   PROVE  /\ \A s \in rows' : ~Collide(candidate'[v], s)
                          /\ \A u \in Writers : (u # v /\ phase'[u] = "inserted")
                               => ~Collide(candidate'[v], candidate'[u])
        BY DEF InsertsExclusive
      <3>1. v # w /\ phase[v] = "inserted"
        BY <2>1 DEF TypeOK
      <3>2. ~Collide(candidate[v], r)
        BY <2>1, <3>1 DEF InsertsExclusive
      <3>3. \A u \in Writers : phase'[u] = "inserted" => phase[u] = "inserted"
        BY <2>1 DEF TypeOK
      <3> QED BY <2>1, <3>1, <3>2, <3>3 DEF InsertsExclusive
    <2> QED BY <2>3, <2>4, <2>5, <2>6, <2>7
  <1>5. CASE UNCHANGED chainVars
    BY <1>5 DEF chainVars, GapFree, Slots, NoFork, AllLinked,
                CandidatesLinked, InsertsExclusive
  <1> QED BY <1>1, <1>2, <1>3, <1>4, <1>5 DEF ChainNext, ChainStep

(***************************************************************************)
(* Chain integrity for every number of tenants, keys and racing writers:   *)
(* no gap, no fork, no repeated key, every row hashed over its predecessor.*)
(***************************************************************************)
THEOREM ChainIntegrityHolds == ChainSpec => []ChainIntegrity
  <1>1. ChainInit => TypeOK /\ ChainIntegrity
    BY TypeInit, IntegrityInit
  <1>2. TypeOK /\ ChainIntegrity /\ [ChainNext]_chainVars
           => (TypeOK /\ ChainIntegrity)'
    BY TypeStep, IntegrityStep
  <1> QED BY <1>1, <1>2, PTL DEF ChainSpec

-----------------------------------------------------------------------------
(***************************************************************************)
(* Integrity is what the verifier looks for.                               *)
(***************************************************************************)
LEMMA IntegrityVerifies == TypeOK /\ ChainIntegrity => SnapshotsVerify
  <1> SUFFICES ASSUME TypeOK, ChainIntegrity,
                      NEW t \in Tenants, NEW r \in RowsOf(t, rows)
               PROVE  Recomputes(t, r) /\ Follows(r, rows)
    BY DEF SnapshotsVerify, Verifies
  <1>1. /\ r \in rows /\ r.tenant = t /\ r.seq \in Nat \ {0}
        /\ Linked(r, rows)
    BY DEF RowsOf, TypeOK, IsRow, ChainIntegrity, AllLinked
  <1>2. Recomputes(t, r)
    BY <1>1 DEF Linked
  <1> DEFINE before == {s \in RowsOf(r.tenant, rows) : s.seq < r.seq}
  <1>3. \A s \in rows : s.seq \in Nat \ {0}
    BY DEF TypeOK, IsRow
  <1>4. CASE r.seq = 1
    <2>1. before = {}
      BY <1>3, <1>4 DEF RowsOf
    <2> QED BY <1>2, <1>4, <2>1 DEF Follows, PrevHash
  <1>5. CASE r.seq > 1
    <2>1. PICK p \in rows : p.tenant = r.tenant /\ p.seq = r.seq - 1 /\ p.self = r.prev
      BY <1>1, <1>5 DEF Linked
    <2>2. p \in before
      BY <1>1, <2>1 DEF RowsOf
    <2>3. IsTip(p, before)
      BY <1>1, <1>3, <2>1, <2>2 DEF IsTip, RowsOf
    <2>4. PrevHash(r) = p.self
      BY <1>5, <2>1 DEF PrevHash
    <2> QED BY <1>2, <2>2, <2>3, <2>4 DEF Follows
  <1> QED BY <1>1, <1>4, <1>5

(***************************************************************************)
(* verify_telemetry_chain never rejects a chain that only appends wrote.   *)
(***************************************************************************)
THEOREM SnapshotsAlwaysVerify == ChainSpec => []SnapshotsVerify
  BY ChainTypeCorrect, ChainIntegrityHolds, IntegrityVerifies, PTL

-----------------------------------------------------------------------------
(***************************************************************************)
(* Refinement of AppendOnlyLog.                                            *)
(***************************************************************************)
Entries == [key : Keys, content : Contents]

\* The slot of a committed row names that row and no other.
LEMMA RowInSlot ==
    ASSUME NoFork, NEW t, NEW r \in rows, r.tenant = t
    PROVE  RowAt(t, r.seq) = r
  <1>1. r \in RowsOf(t, rows)
    BY DEF RowsOf
  <1>2. \A s \in RowsOf(t, rows) : s.seq = r.seq => s = r
    BY DEF RowsOf, NoFork, Collide, SameSlot
  <1> QED BY <1>1, <1>2 DEF RowAt

\* Read by slot, a tenant's rows are a sequence.
LEMMA LogIsSequence ==
    ASSUME TypeOK, ChainIntegrity, NEW t \in Tenants
    PROVE  \E n \in Nat : /\ Slots(t) = 1..n
                          /\ LogOf(t) \in [1..n -> Entries]
  <1>1. PICK n \in 0..Cardinality(rows) : Slots(t) = 1..n
    BY DEF ChainIntegrity, GapFree
  <1>2. n \in Nat
    BY FS_CardinalityType DEF TypeOK
  <1>3. ASSUME NEW i \in 1..n
        PROVE  RowAt(t, i).key \in Keys /\ RowAt(t, i).content \in Contents
    <2>1. PICK r \in rows : r.tenant = t /\ r.seq = i
      BY <1>1, <1>3 DEF Slots, RowsOf
    <2>2. RowAt(t, i) = r
      BY <2>1, RowInSlot DEF ChainIntegrity
    <2> QED BY <2>2 DEF TypeOK, IsRow
  <1>4. LogOf(t) \in [1..n -> Entries]
    BY <1>1, <1>3 DEF LogOf, Entries
  <1> QED BY <1>1, <1>2, <1>4

\* No rows map to empty logs.
LEMMA LogInitially == ChainInit => Log!LogInit
  <1> SUFFICES ASSUME ChainInit PROVE Log!LogInit
    OBVIOUS
  <1>1. ASSUME NEW t \in Tenants PROVE LogOf(t) = <<>>
    <2>1. Slots(t) = {}
      BY DEF ChainInit, Slots, RowsOf
    <2> QED BY <2>1 DEF LogOf
  <1> QED BY <1>1 DEF Log!LogInit

(***************************************************************************)
(* A commit is one append at the end of one tenant's log.                  *)
(***************************************************************************)
LEMMA CommitAppends ==
    ASSUME TypeOK, ChainIntegrity, ChainIntegrity',
           NEW r, IsRow(r), Linked(r, rows),
           \A s \in rows : ~Collide(r, s),
           rows' = rows \union {r},
           NEW t \in Tenants, r.tenant = t
    PROVE  Log!AppendEntry(t, r.key, r.content)
  <1>1. rows' = rows \union {r}
    OBVIOUS
  <1>2. \A s \in rows : ~Collide(r, s)
    OBVIOUS
  <1>3. t \in Tenants /\ r.key \in Keys /\ r.content \in Contents
    BY DEF IsRow
  <1>4. PICK n \in Nat : Slots(t) = 1..n /\ LogOf(t) \in [1..n -> Entries]
    BY <1>3, LogIsSequence
  <1>5. r.seq = n + 1
    BY <1>2, <1>4, NextSlot DEF Collide
  <1>6. Slots(t)' = 1..(n + 1)
    <2>1. Slots(t)' = Slots(t) \union {n + 1}
      BY <1>1, <1>5 DEF Slots, RowsOf
    <2> QED BY <1>4, <2>1
  <1>7. ASSUME NEW s \in rows
        PROVE  RowAt(s.tenant, s.seq) = s /\ RowAt(s.tenant, s.seq)' = s
    <2>1. RowAt(s.tenant, s.seq) = s
      BY RowInSlot DEF ChainIntegrity
    <2>2. NoFork' /\ s \in rows'
      BY <1>1 DEF ChainIntegrity
    <2>3. \A x \in rows' : x.tenant = s.tenant /\ x.seq = s.seq => x = s
      BY <2>2 DEF NoFork, Collide, SameSlot
    <2>4. RowAt(s.tenant, s.seq)' = s
      BY <2>2, <2>3 DEF RowAt, RowsOf
    <2> QED BY <2>1, <2>4
  <1>8. RowAt(t, n + 1)' = r
    <2>1. NoFork' /\ r \in rows'
      BY <1>1 DEF ChainIntegrity
    <2>2. \A x \in rows' : x.tenant = t /\ x.seq = n + 1 => x = r
      BY <1>5, <2>1 DEF NoFork, Collide, SameSlot
    <2> QED BY <1>5, <2>1, <2>2 DEF RowAt, RowsOf
  <1>9. LogOf(t)' = Append(LogOf(t), [key |-> r.key, content |-> r.content])
    <2> DEFINE e == [key |-> r.key, content |-> r.content]
               old == LogOf(t)
    <2>1. old \in Seq(Entries) /\ Len(old) = n /\ e \in Entries
      <3>1. e \in Entries
        BY <1>3 DEF Entries
      <3> HIDE DEF old
      <3>2. old \in [1..n -> Entries]
        BY <1>4 DEF old
      <3>3. old \in Seq(Entries)
        BY <3>2
      <3>4. Len(old) = n
        BY <3>2, <3>3
      <3> QED BY <3>1, <3>3, <3>4
    <2>2. Append(old, e) = [i \in 1..(n + 1) |-> IF i = n + 1 THEN e ELSE old[i]]
      BY <2>1
    <2>3. ASSUME NEW i \in 1..n PROVE RowAt(t, i)' = RowAt(t, i)
      <3>1. PICK s \in rows : s.tenant = t /\ s.seq = i
        BY <1>4, <2>3 DEF Slots, RowsOf
      <3> QED BY <1>7, <3>1
    <2>4. LogOf(t)' = [i \in 1..(n + 1) |-> [key |-> RowAt(t, i)'.key,
                                            content |-> RowAt(t, i)'.content]]
      BY <1>6 DEF LogOf
    <2>5. \A i \in 1..n : old[i] = [key |-> RowAt(t, i)'.key,
                                    content |-> RowAt(t, i)'.content]
      BY <1>4, <2>3 DEF LogOf
    <2>6. \A i \in 1..(n + 1) : i # n + 1 => i \in 1..n
      OBVIOUS
    <2> QED BY <1>8, <2>2, <2>4, <2>5, <2>6
  <1>10. ASSUME NEW u \in Tenants, u # t PROVE LogOf(u)' = LogOf(u)
    <2>1. RowsOf(u, rows)' = RowsOf(u, rows)
      BY <1>1, <1>10 DEF RowsOf
    <2> QED BY <2>1 DEF LogOf, Slots, RowAt
  <1>11. \A i \in DOMAIN LogOf(t) : LogOf(t)[i].key # r.key
    <2> SUFFICES ASSUME NEW i \in 1..n PROVE LogOf(t)[i].key # r.key
      BY <1>4
    <2>1. PICK s \in rows : s.tenant = t /\ s.seq = i
      BY <1>4 DEF Slots, RowsOf
    <2>2. s.key # r.key
      BY <1>2, <2>1 DEF Collide, SameKey
    <2> QED BY <1>4, <1>7, <2>1, <2>2 DEF LogOf
  <1> QED BY <1>3, <1>9, <1>10, <1>11
          DEF Log!AppendEntry, Log!Fresh, Log!Entry

(***************************************************************************)
(* The chain implements an append-only log, for every instance.            *)
(***************************************************************************)
THEOREM ChainImplementsLog == ChainSpec => ImplementsLog
  <1>1. ChainInit => Log!LogInit
    BY LogInitially
  <1>2. /\ TypeOK /\ ChainIntegrity /\ TypeOK' /\ ChainIntegrity'
        /\ [ChainNext]_chainVars
        => [Log!LogNext]_([t \in Tenants |-> LogOf(t)])
    <2> SUFFICES ASSUME TypeOK, ChainIntegrity, TypeOK', ChainIntegrity',
                        [ChainNext]_chainVars
                 PROVE  \/ Log!LogNext
                        \/ UNCHANGED [t \in Tenants |-> LogOf(t)]
      OBVIOUS
    <2>1. CASE \E w \in Writers : CommitRow(w)
      <3>1. PICK w \in Writers : CommitRow(w)
        BY <2>1
      <3>2. PICK r : /\ r = candidate[w]
                     /\ rows' = rows \union {r}
                     /\ phase[w] = "inserted"
        BY <3>1 DEF CommitRow
      <3>3. /\ IsRow(r)
            /\ Linked(r, rows)
            /\ \A s \in rows : ~Collide(r, s)
        BY <3>2 DEF TypeOK, ChainIntegrity, CandidatesLinked, InsertsExclusive
      <3>4. r.tenant \in Tenants /\ r.key \in Keys /\ r.content \in Contents
        BY <3>3 DEF IsRow
      <3>5. Log!AppendEntry(r.tenant, r.key, r.content)
        BY <3>2, <3>3, <3>4, CommitAppends
      <3> QED BY <3>4, <3>5 DEF Log!LogNext
    <2>2. CASE UNCHANGED rows
      BY <2>2 DEF LogOf, Slots, RowAt
    <2> QED BY <2>1, <2>2 DEF ChainNext, ChainStep, ReadTip, InsertRow,
                              RefuseRow, RollBack, TakeResult, chainVars
  <1> QED BY <1>1, <1>2, ChainTypeCorrect, ChainIntegrityHolds, PTL
          DEF ChainSpec, ImplementsLog, Log!LogSpec

-----------------------------------------------------------------------------
(***************************************************************************)
(* Tamper evidence: a digest says whose it is, and a row that is not the   *)
(* last one is named by the row after it.                                  *)
(***************************************************************************)
LEMMA DigestsDiffer ==
    ASSUME NEW t, NEW k, NEW c, NEW prev, NEW u, NEW l, NEW d, NEW prev2,
           Digest(t, k, c, prev) = Digest(u, l, d, prev2)
    PROVE  t = u /\ k = l /\ c = d /\ prev = prev2
  BY DEF Digest

\* The row after r, which carries the hash of r.
LEMMA NextRow ==
    ASSUME TypeOK, ChainIntegrity, NEW r \in rows, ~IsTip(r, rows)
    PROVE  \E s \in rows : /\ s.tenant = r.tenant /\ s.seq = r.seq + 1
                           /\ s.prev = r.self /\ PrevHash(s) = r.self
  <1>1. \A s \in rows : s.seq \in Nat \ {0} /\ s.tenant \in Tenants
    BY DEF TypeOK, IsRow
  <1>2. PICK later \in rows : later.tenant = r.tenant /\ later.seq > r.seq
    BY <1>1 DEF IsTip, RowsOf
  <1>3. PICK n \in 0..Cardinality(rows) : Slots(r.tenant) = 1..n
    BY <1>1 DEF ChainIntegrity, GapFree
  <1>4. n \in Nat
    BY FS_CardinalityType DEF TypeOK
  <1>5. later.seq \in 1..n
    BY <1>2, <1>3 DEF Slots, RowsOf
  <1>6. r.seq + 1 \in 1..n
    BY <1>1, <1>2, <1>4, <1>5
  <1>7. PICK s \in rows : s.tenant = r.tenant /\ s.seq = r.seq + 1
    BY <1>3, <1>6 DEF Slots, RowsOf
  <1>8. s.seq > 1 /\ s.seq - 1 = r.seq
    BY <1>1, <1>7
  <1>9. PICK p \in rows : p.tenant = s.tenant /\ p.seq = s.seq - 1 /\ p.self = s.prev
    BY <1>8 DEF ChainIntegrity, AllLinked, Linked
  <1>10. p = r
    BY <1>7, <1>8, <1>9 DEF ChainIntegrity, NoFork, Collide, SameSlot
  <1> QED BY <1>1, <1>7, <1>8, <1>9, <1>10 DEF PrevHash

\* A forged row does not have its own hash any more.
LEMMA ForgedNoticed ==
    ASSUME TypeOK, ChainIntegrity, NEW r \in rows, NEW k \in Keys, NEW c \in Contents,
           k # r.key \/ c # r.content, NEW R
    PROVE  ~Verifies(r.tenant, (R \ {r}) \union {[r EXCEPT !.key = k, !.content = c]})
  <1> DEFINE x == [r EXCEPT !.key = k, !.content = c]
  <1>1. IsRow(r) /\ Recomputes(r.tenant, r)
    BY DEF TypeOK, ChainIntegrity, AllLinked, Linked
  <1>2. /\ x.tenant = r.tenant /\ x.seq = r.seq /\ x.key = k /\ x.content = c
        /\ x.prev = r.prev /\ x.self = r.self
    BY <1>1 DEF IsRow
  <1>3. x \in RowsOf(r.tenant, (R \ {r}) \union {x})
    BY <1>2 DEF RowsOf
  <1>4. ~Recomputes(r.tenant, x)
    <2>1. PrevHash(x) = PrevHash(r)
      BY <1>2 DEF PrevHash
    <2> HIDE DEF x
    <2> QED BY <1>1, <1>2, <2>1, DigestsDiffer DEF Recomputes
  <1> HIDE DEF x
  <1>5. ~Verifies(r.tenant, (R \ {r}) \union {x})
    BY <1>3, <1>4 DEF Verifies
  <1> QED BY <1>5 DEF x

\* A row that took the place of r, with another hash, is not the one that the
\* row after r names.
LEMMA ReplacementNoticed ==
    ASSUME TypeOK, ChainIntegrity, NEW r \in rows, ~IsTip(r, rows),
           NEW x, x.tenant = r.tenant, x.seq = r.seq, x.self # r.self
    PROVE  ~Verifies(r.tenant, (rows \ {r}) \union {x})
  <1> DEFINE R == (rows \ {r}) \union {x}
  <1>1. PICK s \in rows : /\ s.tenant = r.tenant /\ s.seq = r.seq + 1
                          /\ PrevHash(s) = r.self
    BY NextRow
  <1> DEFINE before == {y \in RowsOf(s.tenant, R) : y.seq < s.seq}
  <1>2. \A y \in rows : y.seq \in Nat \ {0}
    BY DEF TypeOK, IsRow
  <1>3. s # r /\ s \in RowsOf(r.tenant, R)
    BY <1>1, <1>2 DEF RowsOf
  <1>4. x \in before
    BY <1>1, <1>2 DEF RowsOf
  <1>5. ASSUME NEW y \in before, IsTip(y, before) PROVE y = x
    <2>1. y \in R /\ y.tenant = r.tenant /\ y.seq < r.seq + 1
      BY <1>1 DEF RowsOf
    <2>2. x.seq <= y.seq
      BY <1>1, <1>4, <1>5, <2>1 DEF IsTip, RowsOf
    <2>3. CASE y \in rows \ {r}
      <3>1. y.seq = r.seq
        BY <1>2, <2>1, <2>2, <2>3
      <3> QED BY <2>1, <2>3, <3>1 DEF ChainIntegrity, NoFork, Collide, SameSlot
    <2> QED BY <2>1, <2>3
  <1>6. ~Follows(s, R)
    BY <1>1, <1>4, <1>5 DEF Follows
  <1> QED BY <1>3, <1>6 DEF Verifies

\* The row after a removed one names a hash that no other row has, nor the
\* first record's predecessor.
LEMMA RemovalNoticed ==
    ASSUME TypeOK, ChainIntegrity, NEW r \in rows, ~IsTip(r, rows)
    PROVE  ~Verifies(r.tenant, rows \ {r})
  <1> DEFINE R == rows \ {r}
  <1>1. PICK s \in rows : /\ s.tenant = r.tenant /\ s.seq = r.seq + 1
                          /\ PrevHash(s) = r.self
    BY NextRow
  <1> DEFINE before == {y \in RowsOf(s.tenant, R) : y.seq < s.seq}
  <1>2. \A y \in rows : IsRow(y) /\ y.seq \in Nat \ {0}
    BY DEF TypeOK, IsRow
  <1>3. \A y \in rows : y.self = Digest(y.tenant, y.key, y.content, PrevHash(y))
    BY DEF ChainIntegrity, AllLinked, Linked, Recomputes
  <1>4. s # r /\ s \in RowsOf(r.tenant, R)
    BY <1>1, <1>2 DEF RowsOf
  <1>5. CASE before = {}
    <2>1. r.seq = 1
      <3>1. CASE r.seq > 1
        <4>1. PICK p \in rows : p.tenant = r.tenant /\ p.seq = r.seq - 1
          BY <3>1 DEF ChainIntegrity, AllLinked, Linked
        <4>2. p \in before
          BY <1>1, <1>2, <3>1, <4>1 DEF RowsOf
        <4> QED BY <1>5, <4>2
      <3> QED BY <1>2, <3>1
    <2>2. r.self = <<r.tenant, r.key, r.content, GenesisHash>>
      BY <1>3, <2>1 DEF PrevHash, Digest
    <2>3. PrevHash(s) # GenesisHash
      BY <1>1, <1>2, <2>2, GenesisAssumption DEF IsRow
    <2> QED BY <1>4, <1>5, <2>3 DEF Verifies, Follows
  <1>6. CASE before # {}
    <2>1. ASSUME NEW y \in before PROVE y.self # r.self
      <3>1. y \in rows /\ y # r /\ y.tenant = r.tenant
        BY <1>1 DEF RowsOf
      <3>2. y.key # r.key
        BY <3>1 DEF ChainIntegrity, NoFork, Collide, SameKey
      <3> QED BY <1>3, <3>1, <3>2, DigestsDiffer
    <2>2. ~Follows(s, R)
      BY <1>1, <1>6, <2>1 DEF Follows
    <2> QED BY <1>4, <2>2 DEF Verifies
  <1> QED BY <1>5, <1>6

\* Tampering with a whole chain is evident.
LEMMA IntegrityEvident == TypeOK /\ ChainIntegrity => TamperEvident
  <1> SUFFICES ASSUME TypeOK, ChainIntegrity, NEW r \in rows
               PROVE
        /\ \A k \in Keys, c \in Contents : (k # r.key \/ c # r.content) =>
              /\ ~Verifies(r.tenant, (rows \ {r}) \union {[r EXCEPT !.key = k, !.content = c]})
              /\ ~IsTip(r, rows) =>
                    ~Verifies(r.tenant, (rows \ {r}) \union
                        {[[r EXCEPT !.key = k, !.content = c]
                            EXCEPT !.self = Digest(r.tenant, k, c, PrevHash(r))]})
        /\ ~IsTip(r, rows) => ~Verifies(r.tenant, rows \ {r})
        /\ \A s \in rows : s.tenant # r.tenant =>
              ~Verifies(r.tenant, (rows \ {r}) \union
                                    {[s EXCEPT !.tenant = r.tenant, !.seq = r.seq]})
    BY DEF TamperEvident
  <1>1. \A s \in rows : /\ IsRow(s)
                        /\ s.self = Digest(s.tenant, s.key, s.content, PrevHash(s))
    BY DEF TypeOK, ChainIntegrity, AllLinked, Linked, Recomputes
  <1>2. ASSUME NEW k \in Keys, NEW c \in Contents, k # r.key \/ c # r.content,
               ~IsTip(r, rows)
        PROVE  ~Verifies(r.tenant, (rows \ {r}) \union
                   {[[r EXCEPT !.key = k, !.content = c]
                       EXCEPT !.self = Digest(r.tenant, k, c, PrevHash(r))]})
    <2> DEFINE x == [[r EXCEPT !.key = k, !.content = c]
                       EXCEPT !.self = Digest(r.tenant, k, c, PrevHash(r))]
    <2>1. x.tenant = r.tenant /\ x.seq = r.seq /\ x.self = Digest(r.tenant, k, c, PrevHash(r))
      BY <1>1 DEF IsRow
    <2>2. x.self # r.self
      BY <1>1, <1>2, <2>1, DigestsDiffer
    <2> HIDE DEF x
    <2>3. ~Verifies(r.tenant, (rows \ {r}) \union {x})
      BY <1>2, <2>1, <2>2, ReplacementNoticed
    <2> QED BY <2>3 DEF x
  <1>3. ASSUME NEW s \in rows, s.tenant # r.tenant
        PROVE  ~Verifies(r.tenant, (rows \ {r}) \union
                                     {[s EXCEPT !.tenant = r.tenant, !.seq = r.seq]})
    <2> DEFINE x == [s EXCEPT !.tenant = r.tenant, !.seq = r.seq]
    <2>1. x.tenant = r.tenant /\ x.self = s.self
      BY <1>1 DEF IsRow
    <2>2. s.self = Digest(s.tenant, s.key, s.content, PrevHash(s))
      BY <1>1
    <2> HIDE DEF x
    <2>3. ~Recomputes(r.tenant, x)
      BY <1>3, <2>1, <2>2, DigestsDiffer DEF Recomputes
    <2>4. x \in RowsOf(r.tenant, (rows \ {r}) \union {x})
      BY <2>1 DEF RowsOf
    <2>5. ~Verifies(r.tenant, (rows \ {r}) \union {x})
      BY <2>3, <2>4 DEF Verifies
    <2> QED BY <2>5 DEF x
  <1> QED BY <1>2, <1>3, ForgedNoticed, RemovalNoticed

(***************************************************************************)
(* verify_telemetry_chain notices every row that was changed, and every    *)
(* row but the last that was resealed, removed or moved in.                *)
(***************************************************************************)
THEOREM TamperEvidentHolds == ChainSpec => []TamperEvident
  BY ChainTypeCorrect, ChainIntegrityHolds, IntegrityEvident, PTL
=============================================================================
