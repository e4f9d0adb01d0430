-------------------------- MODULE TenantVaultProofs --------------------------
(***************************************************************************)
(* Proofs about TenantVault, for any users, processes and requests and any *)
(* bounds: onboarding leaves no half tenant, and only a shred loses what a *)
(* key protects.  The steps of one request are apart, so the invariant     *)
(* says of every step what still stands of what the request read before    *)
(* it; what a request rests on is only ever added to, and stays.           *)
(***************************************************************************)
EXTENDS TenantVault, FiniteSetTheorems, TLAPS

Steps == {"idle", "wrap", "generate", "commit", "answer", "seal", "second", "put",
          "append", "record"}
Deks  == [key : 0..MaxKeys, kek : Nat]
Requests == [step : Steps, op : {"none", "select", "provision"}, user : Users \union {None},
             tenant : Ids \union {None}, dek : Deks,
             name : Names \union {"none"}, task : Nat]

TypesInv ==
    /\ agenda \in Agendas
    /\ bound \in [Users -> Ids \union {None}] /\ cookie \in [Users -> Ids \union {None}]
    /\ tenants \in Seq(Users) /\ Len(tenants) <= MaxTenants
    /\ deks \in [Ids -> Deks]
    /\ sealed \in [Ids -> [Names -> 0..MaxKeys]]
    /\ blobs \subseteq [tenant : Ids, key : 1..MaxKeys]
    /\ chain \subseteq Ids /\ destroyed \subseteq 1..MaxKeys
    /\ keks \subseteq Nat
    /\ req \in [Procs -> Requests]
    /\ queued \in Seq(Ids)
    /\ backfill \in [Ids -> 0..Len(queued)] /\ lost \subseteq DOMAIN queued

\* What the DEK of t, or one destroyed, still protects or did.
Under(t) == {deks[t].key} \union destroyed

\* What a request read in its earlier steps, and what still stands of it.
Stands(r) ==
    /\ r.step \in {"wrap", "generate", "commit"} =>
          \/ r.op = "select" /\ r.user \in Users
          \/ r.op = "provision" /\ r.tenant \in DOMAIN tenants
    /\ r.step = "commit" => r.dek.key = None /\ r.dek.kek \in keks
    /\ r.step = "answer" => /\ r.user \in Users /\ r.tenant \in DOMAIN tenants
                            /\ tenants[r.tenant] = r.user /\ bound[r.user] # None
    /\ r.step \in {"seal", "second", "put"} =>
          /\ r.tenant \in DOMAIN tenants
          /\ r.dek.key # None /\ r.dek.key \in Under(r.tenant)
    /\ r.step = "seal" => r.name \in Names \ {"admin"}
    /\ r.step = "seal" /\ r.name = Google[2] => sealed[r.tenant][Google[1]] # None
    /\ r.step = "second" => sealed[r.tenant][Google[1]] # None
    /\ r.step = "append" => /\ r.tenant \in DOMAIN tenants
                            /\ sealed[r.tenant]["admin"] \in destroyed
    /\ IF r.step = "record" THEN r.task \in DOMAIN queued /\ queued[r.task] = r.tenant
                            ELSE r.task = None

RequestsInv == \A p \in Procs : Stands(req[p])

\* KEKs are numbered; whoever is about to make one found none.
Generating == {p \in Procs : At(p, "generate")}
KeksInv == /\ IsFiniteSet(keks) /\ keks = 1..Cardinality(keks)
           /\ Cardinality(keks) + Cardinality(Generating) <= Cardinality(Procs)

\* DEKs are numbered; a row has one of its own, and its KEK is in the HSM.
UsedKeys == ({deks[t].key : t \in Ids} \ {None}) \union destroyed
DeksInv ==
    /\ IsFiniteSet(UsedKeys) /\ UsedKeys = 1..Cardinality(UsedKeys)
    /\ \A t \in Ids : deks[t] # NoDek =>
          /\ t \in DOMAIN tenants
          /\ deks[t].key # None /\ deks[t].key \notin destroyed
          /\ deks[t].kek \in keks
    /\ \A t \in Ids : \A o \in Ids \ {t} : deks[t] # NoDek => deks[o].key # deks[t].key

SealedInv ==
    /\ \A t \in DOMAIN tenants : sealed[t]["admin"] # None
    /\ \A t \in Ids, n \in Names : sealed[t][n] # None =>
          t \in DOMAIN tenants /\ sealed[t][n] \in Under(t)
    /\ \A t \in Ids : sealed[t][Google[2]] # None => sealed[t][Google[1]] # None
    /\ \A b \in blobs : b.tenant \in DOMAIN tenants /\ b.key \in Under(b.tenant)
    /\ \A t \in chain : t \in DOMAIN tenants /\ sealed[t]["admin"] \in destroyed

\* Whoever is about to get a tenant had none when asking for it.
Selecting(u) == {p \in Procs : /\ req[p].step \in {"wrap", "generate", "commit"}
                               /\ req[p].op = "select" /\ req[p].user = u}
OwnersInv == \A u \in Users :
    /\ bound[u] \in Owned(u) \union {None} /\ cookie[u] \in Owned(u) \union {None}
    /\ bound[u] = None => cookie[u] = None /\ Owned(u) = {}
    /\ Cardinality(Owned(u)) + Cardinality(Selecting(u)) <= Cardinality(Procs)

\* The tasks of t that were not lost; until one is recorded each is a request's.
Kept(t) == {i \in DOMAIN queued : queued[i] = t} \ lost
BackfillInv ==
    /\ \A p \in Procs : At(p, "record") =>
          /\ req[p].task \notin lost
          /\ backfill[req[p].tenant] # req[p].task
    /\ \A p, q \in Procs : At(p, "record") /\ At(q, "record") /\ req[p].task = req[q].task => p = q
    /\ \A t \in Ids :
          /\ Cardinality(Kept(t)) <= Cardinality(Procs)
          /\ backfill[t] # None => backfill[t] \in Kept(t)
          /\ backfill[t] = None =>
                \A i \in Kept(t) : \E p \in Procs : At(p, "record") /\ req[p].task = i

VaultInv == /\ TypesInv /\ RequestsInv /\ KeksInv /\ DeksInv
            /\ SealedInv /\ OwnersInv /\ BackfillInv
-----------------------------------------------------------------------------
(***************************************************************************)
(* At first there is nothing.                                              *)
(***************************************************************************)
LEMMA VaultInit == Init => VaultInv
  <1> SUFFICES ASSUME Init PROVE VaultInv
    OBVIOUS
  <1> USE VaultAssumption DEF Init
  <1>1. Idle \in Requests /\ NoDek \in Deks
    BY DEF Idle, NoDek, Requests, Deks, Steps, None
  <1>2. TypesInv
    BY <1>1 DEF TypesInv, Ids, Deks, None
  <1>3. RequestsInv
    BY <1>1 DEF RequestsInv, Stands, Idle, None
  <1>4. IsFiniteSet({}) /\ Cardinality({}) = 0 /\ Cardinality(Procs) \in Nat
    BY FS_EmptySet, FS_CardinalityType
  <1>5. KeksInv
    <2>1. Generating = {}
      BY DEF Generating, At, Idle
    <2> QED BY <1>4, <2>1 DEF KeksInv
  <1>6. DeksInv
    <2>1. UsedKeys = {}
      BY DEF UsedKeys, NoDek, None
    <2> QED BY <1>4, <2>1 DEF DeksInv
  <1>7. SealedInv
    BY DEF SealedInv, Names, Google, None
  <1>8. OwnersInv
    <2>1. \A u \in Users : Owned(u) = {} /\ Selecting(u) = {}
      BY DEF Owned, Selecting, Idle
    <2>2. \A u \in Users : bound[u] = None /\ cookie[u] = None
      OBVIOUS
    <2>3. 0 + 0 <= Cardinality(Procs) /\ Cardinality({}) = 0
      BY <1>4
    <2> HIDE DEF Init
    <2> QED BY <2>1, <2>2, <2>3 DEF OwnersInv
  <1>9. BackfillInv
    <2>1. \A t \in Ids : Kept(t) = {}
      BY DEF Kept
    <2>2. \A p \in Procs : ~At(p, "record")
      BY DEF At, Idle
    <2>3. \A t \in Ids : backfill[t] = None
      OBVIOUS
    <2>4. Cardinality({}) <= Cardinality(Procs)
      BY <1>4
    <2> HIDE DEF Init
    <2> QED BY <2>1, <2>2, <2>3, <2>4 DEF BackfillInv
  <1> QED BY <1>2, <1>3, <1>5, <1>6, <1>7, <1>8, <1>9 DEF VaultInv

(***************************************************************************)
(* The steps, with everything that unwraps a DEK taken together.           *)
(***************************************************************************)
Loads(p) == \E new \in Requests :
    /\ At(p, "idle") \/ At(p, "second")
    /\ new.step \in {"seal", "put"} /\ new.task = None
    /\ new.tenant \in DOMAIN tenants
    /\ new.step = "seal" => /\ new.name \in Names \ {"admin"}
                            /\ new.name = Google[2] => sealed[new.tenant][Google[1]] # None
    /\ LoadDek(p, new)

Acts(p) ==
    \/ \E u \in Users : \/ SelectRegion(p, u) \/ ListSessions(p, u)
                        \/ Shred(p, u) \/ StartBackfill(p, u)
    \/ Loads(p)
    \/ FindKek(p) \/ GenerateKek(p) \/ CommitTenant(p) \/ CommitDek(p) \/ Answer(p)
    \/ Seal(p) \/ PutContent(p) \/ AppendDeletion(p) \/ RecordBackfill(p) \/ Fail(p)

\* An idle process, and no DEK.
LEMMA IdleTyped == /\ Idle \in Requests /\ NoDek \in Deks
                   /\ Idle.step = "idle" /\ Idle.op = "none" /\ Idle.task = None
                   /\ Idle.dek.key = None /\ NoDek.key = None
  BY VaultAssumption DEF Idle, NoDek, Requests, Deks, Steps, None

\* What a claim, a bound tenant or a live request names is a tenant.
LEMMA ClaimsTenant ==
  ASSUME VaultInv, NEW u \in Users
  PROVE  /\ cookie[u] # None => cookie[u] \in DOMAIN tenants
         /\ bound[u] # None => bound[u] \in DOMAIN tenants
         /\ DOMAIN tenants = 1..Len(tenants) /\ DOMAIN tenants \subseteq Ids
         /\ 0 \notin Ids /\ Ids \subseteq Nat
  <1>1. DOMAIN tenants = 1..Len(tenants) /\ DOMAIN tenants \subseteq Ids /\ 0 \notin Ids
    BY VaultAssumption DEF VaultInv, TypesInv, Ids
  <1>2. bound[u] \in Owned(u) \union {None} /\ cookie[u] \in Owned(u) \union {None}
    BY DEF VaultInv, OwnersInv
  <1>3. Owned(u) \subseteq DOMAIN tenants /\ Ids \subseteq Nat
    BY DEF Owned, Ids
  <1> QED BY <1>1, <1>2, <1>3

\* A request to seal loads the tenant's DEK.
LEMMA BeginSealLoads ==
  ASSUME VaultInv, NEW p \in Procs, NEW u \in Users,
         NEW n \in Names \ {"admin", Google[2]}, BeginSeal(p, u, n)
  PROVE  Loads(p)
  <1> DEFINE new == [Idle EXCEPT !.step = "seal", !.tenant = cookie[u], !.name = n]
  <1>1. cookie[u] \in DOMAIN tenants /\ cookie[u] \in Ids
    BY ClaimsTenant DEF BeginSeal, IsAdmin
  <1>2. new \in Requests
    BY <1>1, IdleTyped DEF Requests, Steps
  <1>3. new.step = "seal" /\ new.tenant = cookie[u] /\ new.name = n /\ new.task = None
    BY IdleTyped DEF Requests
  <1>4. At(p, "idle") /\ LoadDek(p, new)
    BY DEF BeginSeal
  <1> HIDE DEF new
  <1> QED BY <1>1, <1>2, <1>3, <1>4 DEF Loads

\* So does the second secret of one.
LEMMA SealSecondLoads ==
  ASSUME VaultInv, NEW p \in Procs, SealSecond(p)
  PROVE  Loads(p)
  <1> DEFINE new == [req[p] EXCEPT !.step = "seal", !.name = Google[2]]
  <1>1. req[p] \in Requests /\ Stands(req[p]) /\ req[p].step = "second"
    BY DEF VaultInv, TypesInv, RequestsInv, SealSecond, At
  <1>2. /\ req[p].tenant \in DOMAIN tenants /\ req[p].task = None
        /\ sealed[req[p].tenant][Google[1]] # None
    BY <1>1 DEF Stands
  <1>3. /\ new \in Requests /\ new.step = "seal" /\ new.name = Google[2]
        /\ new.tenant = req[p].tenant /\ new.task = req[p].task
    BY <1>1 DEF Requests, Steps, Names
  <1>4. Google[2] \in Names \ {"admin"}
    BY DEF Names, Google
  <1>5. At(p, "second") /\ LoadDek(p, new)
    BY DEF SealSecond
  <1> HIDE DEF new
  <1> QED BY <1>2, <1>3, <1>4, <1>5 DEF Loads

\* So does a content that is stored.
LEMMA StoreContentLoads ==
  ASSUME VaultInv, NEW p \in Procs, NEW t \in DOMAIN tenants, StoreContent(p, t)
  PROVE  Loads(p)
  <1> DEFINE new == [Idle EXCEPT !.step = "put", !.tenant = t]
  <1>1. t \in Ids
    BY VaultAssumption DEF VaultInv, TypesInv, Ids
  <1>2. new \in Requests
    BY <1>1, IdleTyped DEF Requests, Steps
  <1>3. new.step = "put" /\ new.tenant = t /\ new.task = None
    BY IdleTyped DEF Requests
  <1>4. At(p, "idle") /\ LoadDek(p, new)
    BY DEF StoreContent
  <1> HIDE DEF new
  <1> QED BY <1>2, <1>3, <1>4 DEF Loads

\* A step is a sign-in, a sign-out, or a process acting.
LEMMA StepCases ==
  ASSUME VaultInv, [Next]_vars
  PROVE  /\ agenda' = agenda
         /\ \/ UNCHANGED vars
            \/ \E u \in Users : SignIn(u) \/ SignOut(u)
            \/ \E p \in Procs : Acts(p)
  <1>1. CASE UNCHANGED vars
    BY <1>1 DEF vars
  <1>2. CASE Next
    <2>1. agenda' = agenda
      BY <1>2 DEF Next
    <2>2. CASE \E u \in Users : SignIn(u) \/ SignOut(u)
      BY <2>1, <2>2
    <2>3. ASSUME NEW p \in Procs, NEW u \in Users, Ask(p, u) PROVE Acts(p)
      <3>0. {"compliance", Google[1]} \union VendorKeys \subseteq Names \ {"admin", Google[2]}
        BY VaultAssumption DEF Names, Google
      <3>1. CASE SubmitComplianceKey(p, u)
        BY <3>0, <3>1, BeginSealLoads DEF SubmitComplianceKey, Acts
      <3>2. CASE SubmitVendorKey(p, u)
        BY <3>0, <3>2, BeginSealLoads DEF SubmitVendorKey, Acts
      <3>3. CASE SubmitGoogleCredentials(p, u)
        BY <3>0, <3>3, BeginSealLoads DEF SubmitGoogleCredentials, Acts
      <3> QED BY <2>3, <3>1, <3>2, <3>3 DEF Ask, Acts
    <2>4. ASSUME NEW p \in Procs, NEW t \in DOMAIN tenants, StoreContent(p, t) PROVE Acts(p)
      BY <2>4, StoreContentLoads DEF Acts
    <2>5. ASSUME NEW p \in Procs, Work(p) PROVE Acts(p)
      BY <2>5, SealSecondLoads DEF Work, Acts
    <2> QED BY <1>2, <2>1, <2>2, <2>3, <2>4, <2>5 DEF Next
  <1> QED BY <1>1, <1>2
-----------------------------------------------------------------------------
(***************************************************************************)
(* What every step keeps.  A process writes its own request only.          *)
(***************************************************************************)
LEMMA RequestStep ==
  ASSUME VaultInv, NEW p \in Procs, Acts(p)
  PROVE  req' \in [Procs -> Requests] /\ \A q \in Procs \ {p} : req'[q] = req[q]
  <1> USE DEF VaultInv, TypesInv
  <1>0. /\ req \in [Procs -> Requests] /\ req[p] \in Requests
        /\ \A r \in Requests :
              /\ r.tenant \in Ids \union {None}
              /\ \A s \in Steps : [r EXCEPT !.step = s] \in Requests
              /\ \A s \in Steps, d \in Deks :
                    [r EXCEPT !.step = s, !.dek = d] \in Requests
    BY DEF Requests
  <1>1. ASSUME NEW s \in Steps, Goes(p, s) PROVE req'[p] \in Requests
    BY <1>0, <1>1 DEF Goes
  <1>2. CASE Ends(p)
    BY <1>0, <1>2, IdleTyped DEF Ends
  <1>3. ASSUME NEW k \in Nat, Wrap(p, k) PROVE req'[p] \in Requests
    <2>1. [NoDek EXCEPT !.kek = k] \in Deks
      BY IdleTyped DEF Deks
    <2> QED BY <1>0, <1>3, <2>1 DEF Wrap, Steps
  <1>4. ASSUME NEW u \in Users, SelectRegion(p, u)
        PROVE  req'[p] \in Requests /\ \A q \in Procs \ {p} : req'[q] = req[q]
    <2>1. /\ [Idle EXCEPT !.step = "wrap", !.op = "select", !.user = u] \in Requests
          /\ [Idle EXCEPT !.step = "answer", !.user = u, !.tenant = bound[u]] \in Requests
      BY IdleTyped DEF Requests, Steps
    <2> QED BY <1>0, <1>4, <2>1 DEF SelectRegion, Begin
  <1>5. ASSUME NEW u \in Users, ListSessions(p, u)
        PROVE  req'[p] \in Requests /\ \A q \in Procs \ {p} : req'[q] = req[q]
    <2>1. [Idle EXCEPT !.step = "wrap", !.op = "provision", !.tenant = cookie[u]] \in Requests
      BY IdleTyped DEF Requests, Steps
    <2> QED BY <1>0, <1>5, <2>1 DEF ListSessions, Begin
  <1>6. ASSUME NEW u \in Users, Shred(p, u)
        PROVE  req'[p] \in Requests /\ \A q \in Procs \ {p} : req'[q] = req[q]
    <2>1. [Idle EXCEPT !.step = "append", !.tenant = cookie[u]] \in Requests
      BY IdleTyped DEF Requests, Steps
    <2> QED BY <1>0, <1>6, <2>1 DEF Shred, Begin
  <1>7. ASSUME NEW u \in Users, StartBackfill(p, u)
        PROVE  req'[p] \in Requests /\ \A q \in Procs \ {p} : req'[q] = req[q]
    <2>1. [Idle EXCEPT !.step = "record", !.tenant = bound[u], !.task = Len(queued) + 1]
            \in Requests
      <3>1. Len(queued) + 1 \in Nat /\ bound[u] \in Ids \union {None}
        OBVIOUS
      <3> HIDE DEF VaultInv, TypesInv
      <3> QED BY <3>1, IdleTyped DEF Requests, Steps
    <2> QED BY <1>0, <1>7, <2>1 DEF StartBackfill, Begin
  <1>8. CASE Loads(p)
    <2> PICK new \in Requests : new.tenant \in DOMAIN tenants /\ LoadDek(p, new)
      BY <1>8 DEF Loads
    <2>1. new.tenant \in Ids
      BY ClaimsTenant, p \in Procs DEF Ids
    <2>2. deks[new.tenant].key \in 0..MaxKeys
      BY <2>1 DEF Deks
    <2>3. [new EXCEPT !.dek.key = deks[new.tenant].key] \in Requests
      BY <2>2 DEF Requests, Deks
    <2> QED BY <1>0, <2>3, IdleTyped DEF LoadDek
  <1>9. CASE CommitTenant(p)
    <2>1. NewTenant \in Ids
      BY <1>9, VaultAssumption DEF CommitTenant, NewTenant, Ids
    <2> HIDE DEF VaultInv, TypesInv
    <2>2. [req[p] EXCEPT !.step = "answer", !.tenant = NewTenant, !.dek = NoDek] \in Requests
      <3>1. req[p] \in Requests /\ NewTenant \in Ids \union {None} /\ NoDek \in Deks
        BY <1>0, <2>1, IdleTyped
      <3> QED BY <3>1 DEF Requests, Steps
    <2>3. req' = [req EXCEPT ![p] = [req[p] EXCEPT !.step = "answer",
                                     !.tenant = NewTenant, !.dek = NoDek]]
      <3>1. req[p] \in Requests /\ req \in [Procs -> Requests]
        BY <1>0
      <3> QED BY <3>1, <1>9 DEF CommitTenant, Requests
    <2> QED BY <1>0, <2>2, <2>3
  <1>10. CASE FindKek(p) \/ GenerateKek(p)
    <2>1. \A k \in keks : k \in Nat
      OBVIOUS
    <2>2. Cardinality(keks) + 1 \in Nat
      BY FS_CardinalityType DEF KeksInv
    <2>3. \A q \in Procs \ {p} : req'[q] = req[q]
      BY <1>0, <1>10 DEF FindKek, GenerateKek, Wrap, Goes
    <2>4. req'[p] \in Requests
      BY <1>1, <1>3, <1>10, <2>1, <2>2 DEF FindKek, GenerateKek, Steps
    <2>5. req' = [req EXCEPT ![p] = req'[p]]
      BY <1>0, <1>10 DEF FindKek, GenerateKek, Wrap, Goes
    <2> QED BY <1>0, <2>3, <2>4, <2>5
  <1>11. CASE \/ CommitDek(p) \/ Answer(p) \/ Seal(p) \/ PutContent(p)
              \/ AppendDeletion(p) \/ RecordBackfill(p) \/ Fail(p)
    <2>1. Ends(p) \/ Goes(p, "second")
      BY <1>11 DEF CommitDek, Answer, Seal, PutContent, AppendDeletion, RecordBackfill, Fail
    <2>2. req' = [req EXCEPT ![p] = req'[p]]
      BY <1>0, <2>1 DEF Ends, Goes
    <2>3. req'[p] \in Requests
      BY <1>1, <1>2, <2>1 DEF Steps
    <2> QED BY <1>0, <2>2, <2>3
  <1>12. ASSUME NEW u \in Users, SelectRegion(p, u) \/ ListSessions(p, u)
                                 \/ Shred(p, u) \/ StartBackfill(p, u)
         PROVE  req' = [req EXCEPT ![p] = req'[p]]
    BY <1>0, <1>12 DEF SelectRegion, ListSessions, Shred, StartBackfill, Begin
  <1> QED BY <1>0, <1>4, <1>5, <1>6, <1>7, <1>8, <1>9, <1>10, <1>11, <1>12 DEF Acts

\* A key that is made is a new one.
LEMMA FreshKey ==
  ASSUME VaultInv
  PROVE  /\ NewKey \in Nat \ {0} /\ NewKey \notin UsedKeys
         /\ UsedKeys \union {NewKey} = 1..NewKey
  <1>1. Cardinality(UsedKeys) \in Nat /\ UsedKeys = 1..Cardinality(UsedKeys)
    BY FS_CardinalityType DEF VaultInv, DeksInv
  <1>2. NewKey = Cardinality(UsedKeys) + 1
    BY DEF NewKey, UsedKeys
  <1>3. \A n \in Nat : n + 1 \notin 1..n /\ (1..n) \union {n + 1} = 1..(n + 1)
    OBVIOUS
  <1> QED BY <1>1, <1>2, <1>3

\* A tenant that is made is a new one, and had nothing before.
LEMMA FreshTenant ==
  ASSUME VaultInv, NewTenant <= MaxTenants
  PROVE  /\ NewTenant \in Ids \ DOMAIN tenants
         /\ deks[NewTenant] = NoDek
         /\ \A n \in Names : sealed[NewTenant][n] = None
  <1>1. NewTenant \in Ids \ DOMAIN tenants
    BY VaultAssumption DEF VaultInv, TypesInv, NewTenant, Ids
  <1> QED BY <1>1 DEF VaultInv, DeksInv, SealedInv

(***************************************************************************)
(* Nothing a request rests on goes away while it is under way: rows stay,  *)
(* and what is under a key stays under it or under a destroyed one.        *)
(***************************************************************************)
LEMMA RowsGrow ==
  ASSUME VaultInv, [Next]_vars
  PROVE  /\ DOMAIN tenants \subseteq DOMAIN tenants'
         /\ \A t \in DOMAIN tenants : tenants'[t] = tenants[t]
         /\ DOMAIN queued \subseteq DOMAIN queued'
         /\ \A i \in DOMAIN queued : queued'[i] = queued[i]
         /\ keks \subseteq keks' /\ destroyed \subseteq destroyed'
  <1>0. /\ tenants \in Seq(Users) /\ queued \in Seq(Ids)
        /\ \A u \in Users : bound[u] # None => bound[u] \in Ids
    BY ClaimsTenant DEF VaultInv, TypesInv
  <1>1. ASSUME NEW p \in Procs, CommitTenant(p)
        PROVE  /\ DOMAIN tenants \subseteq DOMAIN tenants'
               /\ \A t \in DOMAIN tenants : tenants'[t] = tenants[t]
    BY <1>0, <1>1 DEF CommitTenant, VaultInv, RequestsInv, Stands, At
  <1>2. ASSUME NEW p \in Procs, NEW u \in Users, StartBackfill(p, u)
        PROVE  /\ DOMAIN queued \subseteq DOMAIN queued'
               /\ \A i \in DOMAIN queued : queued'[i] = queued[i]
    BY <1>0, <1>2 DEF StartBackfill
  <1>3. /\ keks \subseteq keks' /\ destroyed \subseteq destroyed'
        /\ \/ UNCHANGED tenants
           \/ \E p \in Procs : CommitTenant(p)
        /\ \/ UNCHANGED queued
           \/ \E p \in Procs, u \in Users : StartBackfill(p, u)
    <2>1. CASE UNCHANGED vars
      BY <2>1 DEF vars, rows, rest, pull
    <2>2. CASE \E u \in Users : SignIn(u) \/ SignOut(u)
      BY <2>2 DEF SignIn, SignOut, rows, rest, pull
    <2>3. ASSUME NEW p \in Procs, Acts(p)
          PROVE /\ keks \subseteq keks' /\ destroyed \subseteq destroyed'
                /\ UNCHANGED tenants \/ CommitTenant(p)
                /\ UNCHANGED queued \/ \E u \in Users : StartBackfill(p, u)
      BY <2>3 DEF Acts, SelectRegion, ListSessions, Shred, StartBackfill, Loads, LoadDek,
                  FindKek, GenerateKek, Wrap, CommitDek, CommitTenant, Answer, Seal, PutContent,
                  AppendDeletion, RecordBackfill, Fail, rows, rest, pull
    <2> QED BY <2>1, <2>2, <2>3, StepCases
  <1> QED BY <1>1, <1>2, <1>3

\* Bindings, keys and seals are never taken away.
LEMMA KeysGrow ==
  ASSUME VaultInv, [Next]_vars
  PROVE  /\ \A u \in Users : bound[u] # None => bound'[u] # None
         /\ \A t \in Ids : Under(t) \ {None} \subseteq Under(t)'
         /\ \A t \in Ids, n \in Names : sealed[t][n] # None => sealed'[t][n] # None
         /\ \A t \in DOMAIN tenants : sealed'[t]["admin"] = sealed[t]["admin"]
  <1> DEFINE Grow == /\ \A u \in Users : bound[u] # None => bound'[u] # None
                     /\ \A t \in Ids : Under(t) \ {None} \subseteq Under(t)'
                     /\ \A t \in Ids, n \in Names : sealed[t][n] # None => sealed'[t][n] # None
                     /\ \A t \in DOMAIN tenants : sealed'[t]["admin"] = sealed[t]["admin"]
  <1>0. /\ bound \in [Users -> Ids \union {None}] /\ deks \in [Ids -> Deks]
        /\ sealed \in [Ids -> [Names -> 0..MaxKeys]]
        /\ "admin" \in Names /\ DOMAIN tenants \subseteq Ids
        /\ NewKey # None
    <2>1. DOMAIN tenants \subseteq Ids
      BY VaultAssumption DEF VaultInv, TypesInv, Ids
    <2>2. NewKey # None
      BY FreshKey DEF None
    <2> QED BY <2>1, <2>2 DEF VaultInv, TypesInv, Deks, Names
  <1>1. CASE UNCHANGED <<bound, deks, sealed, destroyed>>
    BY <1>1 DEF Under
  <1>2. ASSUME NEW p \in Procs, CommitTenant(p) PROVE Grow
    <2>1. NewTenant \in Ids \ DOMAIN tenants /\ deks[NewTenant] = NoDek
      BY <1>2, FreshTenant DEF CommitTenant
    <2>2. /\ bound' = [bound EXCEPT ![req[p].user] = NewTenant]
          /\ deks' = [deks EXCEPT ![NewTenant] = [req[p].dek EXCEPT !.key = NewKey]]
          /\ sealed' = [sealed EXCEPT ![NewTenant]["admin"] = NewKey]
          /\ destroyed' = destroyed
      BY <1>2 DEF CommitTenant, rest
    <2>3. \A u \in Users : bound[u] # None => bound'[u] # None
      BY <1>0, <2>1, <2>2 DEF Ids, None
    <2>4. ASSUME NEW t \in Ids PROVE Under(t) \ {None} \subseteq Under(t)'
      BY <1>0, <2>1, <2>2, IdleTyped DEF Under
    <2>5. \A t \in Ids, n \in Names : sealed[t][n] # None => sealed'[t][n] # None
      BY <1>0, <2>1, <2>2
    <2>6. \A t \in DOMAIN tenants : sealed'[t]["admin"] = sealed[t]["admin"]
      BY <1>0, <2>1, <2>2
    <2> QED BY <2>3, <2>4, <2>5, <2>6
  <1>3. ASSUME NEW p \in Procs, CommitDek(p) PROVE Grow
    <2>1. UNCHANGED <<bound, sealed, destroyed>>
      BY <1>3 DEF CommitDek, rest
    <2>2. CASE deks[req[p].tenant] = NoDek
      <3>1. deks' = [deks EXCEPT ![req[p].tenant] = [req[p].dek EXCEPT !.key = NewKey]]
        BY <1>3, <2>2 DEF CommitDek
      <3> QED BY <1>0, <2>1, <2>2, <3>1, IdleTyped DEF Under
    <2>3. CASE UNCHANGED deks
      BY <2>1, <2>3 DEF Under
    <2> QED BY <1>3, <2>2, <2>3 DEF CommitDek
  <1>4. ASSUME NEW p \in Procs, Seal(p) PROVE Grow
    <2>1. UNCHANGED <<bound, deks, destroyed>> /\ Stands(req[p]) /\ req[p].step = "seal"
      BY <1>4 DEF Seal, At, rest, VaultInv, RequestsInv
    <2>2. req[p].dek.key # None /\ req[p].name # "admin"
      BY <2>1 DEF Stands
    <2>3. sealed' = [sealed EXCEPT ![req[p].tenant][req[p].name] = req[p].dek.key]
      BY <1>4 DEF Seal
    <2> QED BY <1>0, <2>1, <2>2, <2>3 DEF Under
  <1>5. ASSUME NEW p \in Procs, NEW u \in Users, Shred(p, u) PROVE Grow
    <2>1. /\ UNCHANGED <<bound, sealed>>
          /\ deks' = [deks EXCEPT ![cookie[u]] = NoDek]
          /\ destroyed' = destroyed \union ({deks[cookie[u]].key} \ {None})
      BY <1>5 DEF Shred
    <2>2. ASSUME NEW t \in Ids PROVE Under(t) \ {None} \subseteq Under(t)'
      BY <1>0, <2>1 DEF Under
    <2> QED BY <2>1, <2>2
  <1>6. \/ UNCHANGED <<bound, deks, sealed, destroyed>>
        \/ \E p \in Procs : \/ CommitTenant(p) \/ CommitDek(p) \/ Seal(p)
                            \/ \E u \in Users : Shred(p, u)
    <2>1. CASE UNCHANGED vars
      BY <2>1 DEF vars, rows, rest, pull
    <2>2. CASE \E u \in Users : SignIn(u) \/ SignOut(u)
      BY <2>2 DEF SignIn, SignOut, rows, rest, pull
    <2>3. ASSUME NEW p \in Procs, Acts(p)
          PROVE  \/ UNCHANGED <<bound, deks, sealed, destroyed>>
                 \/ CommitTenant(p) \/ CommitDek(p) \/ Seal(p) \/ \E u \in Users : Shred(p, u)
      BY <2>3 DEF Acts, SelectRegion, ListSessions, StartBackfill, Loads, LoadDek,
                  FindKek, GenerateKek, Wrap, Answer, PutContent,
                  AppendDeletion, RecordBackfill, Fail, rows, rest, pull
    <2> QED BY <2>1, <2>2, <2>3, StepCases
  <1> QED BY <1>1, <1>2, <1>3, <1>4, <1>5, <1>6

\* What a request relies on stays true while others act.
LEMMA StandsStays ==
  ASSUME VaultInv, [Next]_vars, NEW r \in Requests, Stands(r)
  PROVE  Stands(r)'
  <1>0. /\ DOMAIN tenants \subseteq Ids /\ "admin" \in Names /\ Google[1] \in Names
        /\ r.tenant \in DOMAIN tenants => r.tenant \in Ids
    BY VaultAssumption DEF VaultInv, TypesInv, Ids, Names
  <1>1. CASE r.step \in {"wrap", "generate", "commit"}
    BY <1>1, RowsGrow DEF Stands
  <1>2. CASE r.step = "answer"
    BY <1>2, RowsGrow, KeysGrow DEF Stands
  <1>3. CASE r.step \in {"seal", "second", "put"}
    <2>1. /\ r.tenant \in DOMAIN tenants /\ r.tenant \in Ids
          /\ r.dek.key # None /\ r.dek.key \in Under(r.tenant)
      BY <1>0, <1>3 DEF Stands
    <2>2. r.tenant \in DOMAIN tenants' /\ r.dek.key \in Under(r.tenant)'
      BY <2>1, RowsGrow, KeysGrow
    <2>3. sealed[r.tenant][Google[1]] # None => sealed'[r.tenant][Google[1]] # None
      BY <1>0, <2>1, KeysGrow
    <2> QED BY <1>3, <2>1, <2>2, <2>3 DEF Stands
  <1>4. CASE r.step = "append"
    BY <1>0, <1>4, RowsGrow, KeysGrow DEF Stands
  <1>5. CASE r.step = "record"
    BY <1>5, RowsGrow DEF Stands
  <1>6. CASE r.step = "idle"
    BY <1>6 DEF Stands
  <1> QED BY <1>1, <1>2, <1>3, <1>4, <1>5, <1>6 DEF Requests, Steps

(***************************************************************************)
(* The types.                                                              *)
(***************************************************************************)
LEMMA TypesStep ==
  ASSUME VaultInv, [Next]_vars
  PROVE  TypesInv'
  <1> USE DEF TypesInv
  <1>0. TypesInv /\ agenda' = agenda
    BY StepCases DEF VaultInv
  <1>1. CASE UNCHANGED vars
    BY <1>0, <1>1 DEF vars, rows, rest, pull
  <1>2. ASSUME NEW u \in Users, SignIn(u) \/ SignOut(u) PROVE TypesInv'
    BY <1>0, <1>2 DEF SignIn, SignOut, rows, rest, pull, None
  <1>3. ASSUME NEW p \in Procs, Acts(p) PROVE TypesInv'
    <2>0. req' \in [Procs -> Requests] /\ req[p] \in Requests /\ Stands(req[p])
      BY <1>0, <1>3, RequestStep DEF VaultInv, RequestsInv
    <2>1. CASE CommitTenant(p)
      <3>1. NewTenant \in Ids /\ NewKey \in 0..MaxKeys
        BY <2>1, FreshTenant, FreshKey, VaultAssumption DEF CommitTenant
      <3>2. req[p].user \in Users
        BY <2>0, <2>1 DEF Stands, CommitTenant, At
      <3>3. tenants' \in Seq(Users) /\ Len(tenants') <= MaxTenants
        BY <1>0, <2>1, <3>2 DEF CommitTenant, NewTenant
      <3>4. [req[p].dek EXCEPT !.key = NewKey] \in Deks
        BY <2>0, <3>1 DEF Requests, Deks
      <3>5. /\ bound' = [bound EXCEPT ![req[p].user] = NewTenant]
            /\ deks' = [deks EXCEPT ![NewTenant] = [req[p].dek EXCEPT !.key = NewKey]]
            /\ sealed' = [sealed EXCEPT ![NewTenant]["admin"] = NewKey]
            /\ UNCHANGED <<keks, rest, cookie, pull>>
        BY <2>1 DEF CommitTenant
      <3>6. bound' \in [Users -> Ids \union {None}] /\ deks' \in [Ids -> Deks]
        BY <1>0, <3>1, <3>4, <3>5
      <3>7. sealed' \in [Ids -> [Names -> 0..MaxKeys]]
        BY <1>0, <3>1, <3>5
      <3> QED BY <1>0, <2>0, <3>3, <3>5, <3>6, <3>7 DEF rest, pull
    <2>2. CASE CommitDek(p)
      <3>1. deks' \in [Ids -> Deks]
        <4>1. CASE NewKey <= MaxKeys
          <5>1. NewKey \in 0..MaxKeys
            BY <4>1, FreshKey, VaultAssumption
          <5>2. [req[p].dek EXCEPT !.key = NewKey] \in Deks
            BY <2>0, <5>1 DEF Requests, Deks
          <5> QED BY <1>0, <2>2, <5>2 DEF CommitDek
        <4>2. CASE UNCHANGED deks
          BY <1>0, <4>2
        <4> QED BY <2>2, <4>1, <4>2 DEF CommitDek
      <3> QED BY <1>0, <2>0, <2>2, <3>1 DEF CommitDek, rest, pull
    <2>3. CASE GenerateKek(p)
      <3>1. Cardinality(keks) + 1 \in Nat
        BY FS_CardinalityType DEF VaultInv, KeksInv
      <3> QED BY <1>0, <2>0, <2>3, <3>1 DEF GenerateKek, Wrap, rows, rest, pull
    <2>4. CASE Seal(p)
      <3>1. req[p].dek.key \in 0..MaxKeys
        BY <2>0 DEF Requests, Deks
      <3>2. sealed' \in [Ids -> [Names -> 0..MaxKeys]]
        BY <1>0, <2>4, <3>1 DEF Seal
      <3> QED BY <1>0, <2>0, <2>4, <3>2 DEF Seal, rest, pull
    <2>5. CASE PutContent(p)
      <3>1. [tenant |-> req[p].tenant, key |-> req[p].dek.key] \in [tenant : Ids, key : 1..MaxKeys]
        <4>1. req[p].tenant \in DOMAIN tenants /\ req[p].dek.key # None
          BY <2>0, <2>5 DEF Stands, PutContent, At
        <4>2. req[p].tenant \in Ids
          BY <1>0, <4>1, VaultAssumption DEF Ids
        <4>3. req[p].dek.key \in 1..MaxKeys
          BY <2>0, <4>1, VaultAssumption DEF Requests, Deks, None
        <4> QED BY <4>2, <4>3
      <3> QED BY <1>0, <2>0, <2>5, <3>1 DEF PutContent, rows, pull
    <2>6. ASSUME NEW u \in Users, Shred(p, u) PROVE TypesInv'
      <3>1. NoDek \in Deks
        BY IdleTyped
      <3>2. cookie[u] \in Ids
        BY <2>6, ClaimsTenant DEF Shred, IsAdmin
      <3>3. {deks[cookie[u]].key} \ {None} \subseteq 1..MaxKeys
        BY <1>0, <3>2, VaultAssumption DEF Deks, None
      <3> QED BY <1>0, <2>0, <2>6, <3>1, <3>3 DEF Shred, pull
    <2>7. CASE AppendDeletion(p)
      <3>1. req[p].tenant \in DOMAIN tenants
        BY <2>0, <2>7 DEF Stands, AppendDeletion, At
      <3>2. req[p].tenant \in Ids
        BY <1>0, <3>1, VaultAssumption DEF Ids
      <3> QED BY <1>0, <2>0, <2>7, <3>2 DEF AppendDeletion, rows, pull
    <2>8. ASSUME NEW u \in Users, StartBackfill(p, u) PROVE TypesInv'
      <3>1. bound[u] \in Ids
        BY <1>0, <2>8 DEF StartBackfill
      <3>2. /\ queued' \in Seq(Ids) /\ Len(queued') = Len(queued) + 1
            /\ DOMAIN queued \subseteq DOMAIN queued'
        BY <1>0, <2>8, <3>1 DEF StartBackfill
      <3>3. \A t \in Ids : backfill[t] \in 0..Len(queued')
        BY <1>0, <3>2
      <3> QED BY <1>0, <2>0, <2>8, <3>2, <3>3 DEF StartBackfill, rows, rest
    <2>9. CASE RecordBackfill(p)
      <3>1. req[p].task \in 0..Len(queued)
        BY <1>0, <2>0, <2>9 DEF Stands, RecordBackfill, At
      <3> QED BY <1>0, <2>0, <2>9, <3>1 DEF RecordBackfill, rows, rest
    <2>10. CASE Fail(p)
      <3>1. {req[p].task} \ {None} \subseteq DOMAIN queued
        BY <2>0 DEF Stands
      <3> QED BY <1>0, <2>0, <2>10, <3>1 DEF Fail, rows, rest
    <2>11. CASE Answer(p)
      <3>1. req[p].tenant \in Ids \union {None}
        BY <2>0 DEF Requests
      <3> QED BY <1>0, <2>0, <2>11, <3>1 DEF Answer, rows, rest, pull
    <2>12. CASE UNCHANGED <<rows, keks, rest, cookie, pull>>
      BY <1>0, <2>0, <2>12 DEF rows, rest, pull
    <2> QED BY <1>3, <2>1, <2>2, <2>3, <2>4, <2>5, <2>6, <2>7, <2>8, <2>9, <2>10, <2>11, <2>12
            DEF Acts, SelectRegion, ListSessions, Loads, LoadDek, FindKek, Wrap
  <1> QED BY <1>1, <1>2, <1>3, StepCases

(***************************************************************************)
(* Of every request stands what it read.                                   *)
(***************************************************************************)
LEMMA RequestsStep ==
  ASSUME VaultInv, [Next]_vars
  PROVE  RequestsInv'
  <1>0. req \in [Procs -> Requests] /\ \A p \in Procs : req[p] \in Requests /\ Stands(req[p])
    BY DEF VaultInv, TypesInv, RequestsInv
  <1>1. ASSUME NEW q \in Procs, req'[q] = req[q] PROVE Stands(req[q])'
    BY <1>0, <1>1, StandsStays
  <1>2. CASE UNCHANGED req
    BY <1>1, <1>2 DEF RequestsInv
  <1>3. ASSUME NEW p \in Procs, Acts(p) PROVE RequestsInv'
    <2>0. /\ req' \in [Procs -> Requests] /\ \A q \in Procs \ {p} : req'[q] = req[q]
          /\ TypesInv'
      BY <1>3, RequestStep, TypesStep
    <2> SUFFICES Stands(req[p])'
      BY <1>1, <2>0 DEF RequestsInv
    <2> DEFINE r == req[p]
    <2>1. CASE req'[p] = Idle
      BY <2>1, IdleTyped DEF Stands
    <2>2. ASSUME NEW u \in Users, SelectRegion(p, u) PROVE Stands(r)'
      <3>1. CASE r' = [Idle EXCEPT !.step = "wrap", !.op = "select", !.user = u]
        <4>1. r'.step = "wrap" /\ r'.op = "select" /\ r'.user = u /\ r'.task = None
          BY <3>1, IdleTyped DEF Requests
        <4> QED BY <4>1 DEF Stands
      <3>2. CASE bound[u] # None /\ r' = [Idle EXCEPT !.step = "answer", !.user = u, !.tenant = bound[u]]
        <4>1. r'.step = "answer" /\ r'.tenant = bound[u] /\ r'.user = u /\ r'.task = None
          BY <3>2, IdleTyped DEF Requests
        <4>2. bound[u] \in DOMAIN tenants /\ tenants[bound[u]] = u
          BY <3>2 DEF VaultInv, OwnersInv, Owned
        <4> QED BY <3>2, <4>1, <4>2, RowsGrow, KeysGrow DEF Stands
      <3> QED BY <1>0, <2>2, <3>1, <3>2 DEF SelectRegion, Begin
    <2>3. ASSUME NEW u \in Users, ListSessions(p, u) PROVE Stands(r)'
      <3>1. r' = [Idle EXCEPT !.step = "wrap", !.op = "provision", !.tenant = cookie[u]]
        BY <1>0, <2>3 DEF ListSessions, Begin
      <3>2. /\ r'.step = "wrap" /\ r'.op = "provision" /\ r'.tenant = cookie[u]
            /\ r'.task = None
        BY <3>1, IdleTyped DEF Requests
      <3>3. cookie[u] \in DOMAIN tenants
        BY <2>3, ClaimsTenant DEF ListSessions
      <3> QED BY <3>2, <3>3, RowsGrow DEF Stands
    <2>4. ASSUME NEW u \in Users, Shred(p, u) PROVE Stands(r)'
      <3>1. r' = [Idle EXCEPT !.step = "append", !.tenant = cookie[u]]
        BY <1>0, <2>4 DEF Shred, Begin
      <3>2. r'.step = "append" /\ r'.tenant = cookie[u] /\ r'.task = None
        BY <3>1, IdleTyped DEF Requests
      <3>3. cookie[u] \in DOMAIN tenants /\ cookie[u] \in Ids /\ "admin" \in Names
        BY <2>4, ClaimsTenant DEF Shred, IsAdmin, Names
      <3>4. sealed[cookie[u]]["admin"] # None /\ sealed[cookie[u]]["admin"] \in Under(cookie[u])
        BY <3>3 DEF VaultInv, SealedInv
      <3>5. /\ destroyed' = destroyed \union ({deks[cookie[u]].key} \ {None})
            /\ sealed' = sealed
        BY <2>4 DEF Shred
      <3> QED BY <3>2, <3>3, <3>4, <3>5, RowsGrow DEF Stands, Under
    <2>5. ASSUME NEW u \in Users, StartBackfill(p, u) PROVE Stands(r)'
      <3>1. r' = [Idle EXCEPT !.step = "record", !.tenant = bound[u], !.task = Len(queued) + 1]
        BY <1>0, <2>5 DEF StartBackfill, Begin
      <3>2. r'.step = "record" /\ r'.tenant = bound[u] /\ r'.task = Len(queued) + 1
        BY <3>1, IdleTyped DEF Requests
      <3>3. queued' = Append(queued, bound[u]) /\ queued \in Seq(Ids) /\ bound[u] \in Ids
        BY <2>5, ClaimsTenant DEF StartBackfill, VaultInv, TypesInv
      <3>4. Len(queued) + 1 \in DOMAIN queued' /\ queued'[Len(queued) + 1] = bound[u]
        BY <3>3
      <3> QED BY <3>2, <3>4 DEF Stands
    <2>6. CASE Loads(p)
      <3> PICK new \in Requests :
            /\ new.step \in {"seal", "put"} /\ new.task = None
            /\ new.tenant \in DOMAIN tenants
            /\ new.step = "seal" => /\ new.name \in Names \ {"admin"}
                                    /\ new.name = Google[2] =>
                                          sealed[new.tenant][Google[1]] # None
            /\ LoadDek(p, new)
        BY <2>6 DEF Loads
      <3> DEFINE loaded == [new EXCEPT !.dek.key = deks[new.tenant].key]
      <3>1. CASE req'[p] = loaded
        <4> PICK x \in Requests : x = loaded
          BY <2>0, <3>1
        <4>1. /\ x.step = new.step /\ x.tenant = new.tenant /\ x.name = new.name
              /\ x.task = new.task /\ x.dek.key = deks[new.tenant].key
          BY DEF Requests, Deks
        <4>2. new.tenant \in Ids
          BY ClaimsTenant, <1>0, VaultAssumption DEF VaultInv, TypesInv, Ids
        <4>3. deks[new.tenant].key # None
          BY <4>2 DEF LoadDek, VaultInv, DeksInv
        <4>4. x.dek.key \in Under(new.tenant)
          BY <4>1 DEF Under
        <4>5. req'[p] = x
          BY <3>1
        <4> HIDE DEF loaded
        <4>6. Stands(x)
          BY <4>1, <4>3, <4>4 DEF Stands
        <4>7. Stands(x)'
          BY <4>6, StandsStays
        <4> QED BY <4>5, <4>7 DEF Stands
      <3> QED BY <1>0, <2>1, <3>1 DEF LoadDek
    <2>7. CASE FindKek(p) \/ GenerateKek(p)
      <3>1. r.step \in {"wrap", "generate"} /\ r \in Requests
        BY <1>0, <2>7 DEF FindKek, GenerateKek, At
      <3>2. r.task = None /\ \/ r.op = "select" /\ r.user \in Users
                             \/ r.op = "provision" /\ r.tenant \in DOMAIN tenants
        BY <1>0, <3>1 DEF Stands
      <3>3. CASE Goes(p, "generate")
        <4>1. r'.step = "generate" /\ UNCHANGED <<r.op, r.user, r.tenant, r.task>>
          BY <1>0, <3>1, <3>3 DEF Goes, Requests
        <4> QED BY <3>2, <4>1, RowsGrow DEF Stands
      <3>4. ASSUME NEW k \in keks', Wrap(p, k) PROVE Stands(r)'
        <4>1. r' = [r EXCEPT !.step = "commit", !.dek = [NoDek EXCEPT !.kek = k]]
          BY <1>0, <3>1, <3>4 DEF Wrap, Requests
        <4>2. /\ r'.step = "commit" /\ r'.dek = [NoDek EXCEPT !.kek = k]
              /\ UNCHANGED <<r.op, r.user, r.tenant, r.task>>
          BY <3>1, <4>1 DEF Requests
        <4>3. r'.dek.key = None /\ r'.dek.kek = k
          BY <4>2, IdleTyped DEF Deks
        <4> QED BY <3>2, <4>2, <4>3, RowsGrow DEF Stands
      <3> QED BY <2>7, <3>3, <3>4, RowsGrow DEF FindKek, GenerateKek
    <2>8. CASE CommitTenant(p)
      <3>1. r.step = "commit" /\ r.op = "select" /\ r \in Requests /\ r.task = None
        BY <1>0, <2>8 DEF CommitTenant, At, Stands
      <3>2. r' = [r EXCEPT !.step = "answer", !.tenant = NewTenant, !.dek = NoDek]
        BY <1>0, <2>8, <3>1 DEF CommitTenant, Requests
      <3>3. r'.step = "answer" /\ r'.tenant = NewTenant /\ UNCHANGED <<r.user, r.task>>
        BY <3>1, <3>2 DEF Requests
      <3>4. r.user \in Users
        BY <1>0, <3>1 DEF Stands
      <3>5. NewTenant \in DOMAIN tenants' /\ tenants'[NewTenant] = r.user
        BY <2>8, <3>4 DEF CommitTenant, NewTenant, VaultInv, TypesInv
      <3>6. bound'[r.user] # None
        BY <2>8, <3>4 DEF CommitTenant, NewTenant, VaultInv, TypesInv, None
      <3> QED BY <3>1, <3>3, <3>4, <3>5, <3>6 DEF Stands
    <2>9. CASE Seal(p) /\ Goes(p, "second")
      <3>1. r.step = "seal" /\ r \in Requests /\ r.task = None
        BY <1>0, <2>9 DEF Seal, At, Stands
      <3>2. r'.step = "second" /\ UNCHANGED <<r.tenant, r.dek, r.name, r.task>>
        BY <1>0, <2>9, <3>1 DEF Goes, Requests
      <3>3. /\ r.tenant \in DOMAIN tenants /\ r.dek.key # None
            /\ r.dek.key \in Under(r.tenant) \ {None}
        BY <1>0, <3>1 DEF Stands
      <3>4. r.tenant \in Ids /\ Google[1] \in Names
        BY <3>3, VaultAssumption DEF VaultInv, TypesInv, Ids, Names
      <3>5. r.tenant \in DOMAIN tenants' /\ r.dek.key \in Under(r.tenant)'
        BY <3>2, <3>3, <3>4, RowsGrow, KeysGrow
      <3>6. r.name = Google[1] \/ Ends(p)
        BY <2>9 DEF Seal
      <3>7. sealed'[r.tenant][Google[1]] # None
        <4>1. CASE r.name = Google[1]
          BY <2>9, <3>3, <3>4, <4>1 DEF Seal, VaultInv, TypesInv
        <4>2. CASE Ends(p)
          BY <1>0, <2>9, <3>2, <4>2, IdleTyped DEF Ends
        <4> QED BY <3>6, <4>1, <4>2
      <3> QED BY <3>1, <3>2, <3>3, <3>5, <3>7 DEF Stands
    <2>10. CASE Ends(p)
      BY <1>0, <2>1, <2>10 DEF Ends
    <2> QED BY <1>3, <2>2, <2>3, <2>4, <2>5, <2>6, <2>7, <2>8, <2>9, <2>10
            DEF Acts, CommitDek, Answer, Seal, PutContent, AppendDeletion, RecordBackfill, Fail
  <1> QED BY <1>2, <1>3, StepCases DEF vars, SignIn, SignOut

(***************************************************************************)
(* A KEK is only made by whoever found none: at first, and by as many as   *)
(* overlapped then.                                                        *)
(***************************************************************************)
LEMMA KeksStep ==
  ASSUME VaultInv, [Next]_vars
  PROVE  KeksInv'
  <1>0. /\ KeksInv /\ req \in [Procs -> Requests]
        /\ Cardinality(keks) \in Nat /\ Cardinality(Procs) \in Nat
        /\ IsFiniteSet(Generating) /\ Cardinality(Generating) \in Nat
    <2>1. IsFiniteSet(Generating) /\ Cardinality(Procs) \in Nat
      BY VaultAssumption, FS_Subset, FS_CardinalityType DEF Generating
    <2> QED BY <2>1, FS_CardinalityType DEF VaultInv, TypesInv, KeksInv
  <1>1. ASSUME UNCHANGED keks, Generating' \subseteq Generating PROVE KeksInv'
    <2>1. /\ IsFiniteSet(Generating') /\ Cardinality(Generating') \in Nat
          /\ Cardinality(Generating') <= Cardinality(Generating)
      BY <1>0, <1>1, FS_Subset, FS_CardinalityType
    <2> QED BY <1>0, <1>1, <2>1 DEF KeksInv
  <1>2. CASE UNCHANGED <<keks, req>>
    BY <1>1, <1>2 DEF Generating, At
  <1>3. ASSUME NEW p \in Procs, Acts(p) PROVE KeksInv'
    <2>0. /\ req' \in [Procs -> Requests] /\ \A q \in Procs \ {p} : req'[q] = req[q]
          /\ req[p] \in Requests
      BY <1>0, <1>3, RequestStep
    <2>1. ASSUME UNCHANGED keks, req'[p].step # "generate" PROVE KeksInv'
      BY <1>1, <2>0, <2>1 DEF Generating, At
    <2>2. CASE FindKek(p)
      <3>1. CASE keks = {} /\ UNCHANGED keks
        <4>1. Generating' \subseteq Procs
          BY DEF Generating
        <4>2. Cardinality(Generating') <= Cardinality(Procs) /\ Cardinality(Generating') \in Nat
          BY <4>1, VaultAssumption, FS_Subset, FS_CardinalityType
        <4>3. Cardinality(keks) = 0
          BY <3>1, FS_EmptySet
        <4> QED BY <1>0, <3>1, <4>2, <4>3 DEF KeksInv
      <3>2. CASE UNCHANGED keks /\ \E k \in keks : Wrap(p, k)
        <4>1. req'[p].step = "commit"
          BY <1>0, <2>0, <3>2 DEF Wrap, Requests
        <4> QED BY <2>1, <3>2, <4>1
      <3> QED BY <2>2, <3>1, <3>2 DEF FindKek
    <2>3. CASE GenerateKek(p)
      <3> DEFINE k == Cardinality(keks) + 1
      <3>1. keks' = keks \union {k} /\ Wrap(p, k) /\ p \in Generating
        BY <2>3 DEF GenerateKek, Generating
      <3>2. k \notin keks
        BY <1>0 DEF KeksInv
      <3>3. IsFiniteSet(keks') /\ Cardinality(keks') = Cardinality(keks) + 1
        BY <1>0, <3>1, <3>2, FS_AddElement DEF KeksInv
      <3>4. keks' = 1..Cardinality(keks')
        BY <1>0, <3>1, <3>3 DEF KeksInv
      <3>5. req'[p].step = "commit"
        BY <1>0, <2>0, <3>1 DEF Wrap, Requests
      <3>6. Generating' = Generating \ {p}
        BY <2>0, <3>5 DEF Generating, At
      <3>7. Cardinality(Generating') = Cardinality(Generating) - 1
        BY <1>0, <3>1, <3>6, FS_RemoveElement
      <3> HIDE DEF k
      <3> QED BY <1>0, <3>3, <3>4, <3>7 DEF KeksInv
    <2>4. CASE Loads(p)
      <3> PICK new \in Requests : new.step \in {"seal", "put"} /\ LoadDek(p, new)
        BY <2>4 DEF Loads
      <3>1. UNCHANGED keks
        BY DEF LoadDek
      <3>2. req'[p].step # "generate"
        <4>1. [new EXCEPT !.dek.key = deks[new.tenant].key].step = new.step
          BY DEF Requests
        <4> QED BY <1>0, <4>1, IdleTyped DEF LoadDek
      <3> QED BY <2>1, <3>1, <3>2
    <2>5. CASE Ends(p) /\ UNCHANGED keks
      <3>1. req'[p] = Idle
        BY <1>0, <2>5 DEF Ends
      <3> QED BY <2>1, <2>5, <3>1, IdleTyped
    <2>6. CASE Goes(p, "second") /\ UNCHANGED keks
      <3>1. req'[p].step = "second"
        BY <1>0, <2>0, <2>6 DEF Goes, Requests
      <3> QED BY <2>1, <2>6, <3>1
    <2>7. CASE CommitTenant(p)
      <3>1. req'[p].step = "answer" /\ UNCHANGED keks
        BY <1>0, <2>0, <2>7 DEF CommitTenant, Requests
      <3> QED BY <2>1, <3>1
    <2>8. ASSUME NEW u \in Users, SelectRegion(p, u) \/ ListSessions(p, u)
                                  \/ Shred(p, u) \/ StartBackfill(p, u)
          PROVE  KeksInv'
      <3>1. UNCHANGED keks
        BY <2>8 DEF SelectRegion, ListSessions, Shred, StartBackfill
      <3>2. req'[p].step \in {"wrap", "answer", "append", "record"}
        <4>1. CASE SelectRegion(p, u)
          BY <1>0, <4>1, IdleTyped, ZenonT(60) DEF SelectRegion, Begin, Requests
        <4>2. CASE ListSessions(p, u)
          BY <1>0, <4>2, IdleTyped DEF ListSessions, Begin, Requests
        <4>3. CASE Shred(p, u)
          BY <1>0, <4>3, IdleTyped DEF Shred, Begin, Requests
        <4>4. CASE StartBackfill(p, u)
          BY <1>0, <4>4, IdleTyped DEF StartBackfill, Begin, Requests
        <4> QED BY <2>8, <4>1, <4>2, <4>3, <4>4
      <3> QED BY <2>1, <3>1, <3>2
    <2> QED BY <1>3, <2>2, <2>3, <2>4, <2>5, <2>6, <2>7, <2>8
            DEF Acts, CommitDek, Answer, Seal, PutContent, AppendDeletion, RecordBackfill, Fail
  <1> QED BY <1>2, <1>3, StepCases DEF vars, SignIn, SignOut

(***************************************************************************)
(* A DEK is made for a tenant that has none, and goes for good.            *)
(***************************************************************************)
LEMMA DekAdded ==
  ASSUME VaultInv, [Next]_vars, NEW t \in Ids, deks[t] = NoDek, t \in DOMAIN tenants',
         NEW d \in Deks, d.kek \in keks,
         deks' = [deks EXCEPT ![t] = [d EXCEPT !.key = NewKey]], UNCHANGED destroyed
  PROVE  DeksInv'
  <1>0. DeksInv /\ deks \in [Ids -> Deks] /\ NoDek.key = None
    BY IdleTyped DEF VaultInv, TypesInv, Deks
  <1>1. NewKey \in Nat \ {0} /\ NewKey \notin UsedKeys /\ UsedKeys \union {NewKey} = 1..NewKey
    BY FreshKey
  <1>2. /\ deks'[t].key = NewKey /\ deks'[t].kek = d.kek
        /\ \A o \in Ids \ {t} : deks'[o] = deks[o]
    BY <1>0 DEF Deks
  <1>3. UsedKeys' = UsedKeys \union {NewKey}
    <2>1. {deks'[o].key : o \in Ids} = {deks[o].key : o \in Ids \ {t}} \union {NewKey}
      BY <1>2
    <2>2. {deks[o].key : o \in Ids} \ {None} = {deks[o].key : o \in Ids \ {t}} \ {None}
      BY <1>0
    <2>3. NewKey # None
      BY <1>1 DEF None
    <2> QED BY <2>1, <2>2, <2>3 DEF UsedKeys
  <1>4. UsedKeys' = 1..NewKey
    BY <1>1, <1>3
  <1>5. IsFiniteSet(UsedKeys') /\ Cardinality(UsedKeys') = NewKey
    <2>1. IsFiniteSet(1..NewKey) /\ Cardinality(1..NewKey) = NewKey
      BY <1>1, FS_Interval
    <2> QED BY <1>4, <2>1
  <1>6. NewKey # None /\ NewKey \notin destroyed /\ \A o \in Ids : deks[o].key # NewKey
    BY <1>1 DEF UsedKeys, None
  <1>7. ASSUME NEW o \in Ids, deks'[o] # NoDek
        PROVE  /\ o \in DOMAIN tenants' /\ deks'[o].key # None
               /\ deks'[o].key \notin destroyed' /\ deks'[o].kek \in keks'
    BY <1>0, <1>2, <1>6, <1>7, RowsGrow DEF DeksInv
  <1>8. \A o \in Ids : \A s \in Ids \ {o} : deks'[o] # NoDek => deks'[s].key # deks'[o].key
    BY <1>0, <1>2, <1>6 DEF DeksInv
  <1> QED BY <1>4, <1>5, <1>7, <1>8 DEF DeksInv

\* Every step keeps the DEKs numbered and owned.
LEMMA DeksStep ==
  ASSUME VaultInv, [Next]_vars
  PROVE  DeksInv'
  <1>0. /\ DeksInv /\ deks \in [Ids -> Deks] /\ NoDek.key = None
        /\ \A p \in Procs : req[p] \in Requests /\ Stands(req[p])
    BY IdleTyped DEF VaultInv, TypesInv, Deks, RequestsInv
  <1>1. CASE UNCHANGED <<deks, destroyed>>
    <2>1. UsedKeys' = UsedKeys
      BY <1>1 DEF UsedKeys
    <2> QED BY <1>0, <1>1, <2>1, RowsGrow DEF DeksInv
  <1>2. ASSUME NEW p \in Procs, CommitTenant(p) PROVE DeksInv'
    <2>1. /\ NewTenant \in Ids /\ deks[NewTenant] = NoDek
          /\ deks' = [deks EXCEPT ![NewTenant] = [req[p].dek EXCEPT !.key = NewKey]]
          /\ UNCHANGED destroyed
      BY <1>2, FreshTenant DEF CommitTenant, rest
    <2>2. req[p].dek \in Deks /\ req[p].dek.kek \in keks /\ req[p].user \in Users
      BY <1>0, <1>2 DEF CommitTenant, At, Stands, Requests
    <2>3. NewTenant \in DOMAIN tenants'
      BY <1>2, <2>2 DEF CommitTenant, NewTenant, VaultInv, TypesInv
    <2> QED BY <2>1, <2>2, <2>3, DekAdded
  <1>3. ASSUME NEW p \in Procs, CommitDek(p), deks[req[p].tenant] = NoDek PROVE DeksInv'
    <2>1. /\ deks' = [deks EXCEPT ![req[p].tenant] = [req[p].dek EXCEPT !.key = NewKey]]
          /\ UNCHANGED <<destroyed, tenants>>
      BY <1>3 DEF CommitDek, rest
    <2>2. /\ req[p].dek \in Deks /\ req[p].dek.kek \in keks
          /\ req[p].tenant \in DOMAIN tenants
      BY <1>0, <1>3 DEF CommitDek, At, Stands, Requests
    <2>3. req[p].tenant \in Ids
      BY <2>2, VaultAssumption DEF VaultInv, TypesInv, Ids
    <2> QED BY <1>3, <2>1, <2>2, <2>3, DekAdded
  <1>4. ASSUME NEW p \in Procs, NEW u \in Users, Shred(p, u) PROVE DeksInv'
    <2> DEFINE t == cookie[u]
    <2>1. /\ deks' = [deks EXCEPT ![t] = NoDek]
          /\ destroyed' = destroyed \union ({deks[t].key} \ {None})
      BY <1>4 DEF Shred
    <2>2. t \in Ids
      BY <1>4, ClaimsTenant DEF Shred, IsAdmin
    <2> HIDE DEF t
    <2>3. deks'[t] = NoDek /\ \A o \in Ids \ {t} : deks'[o] = deks[o]
      BY <1>0, <2>1, <2>2
    <2>4. UsedKeys' = UsedKeys
      BY <1>0, <2>1, <2>2, <2>3 DEF UsedKeys
    <2>5. ASSUME NEW o \in Ids, deks'[o] # NoDek
          PROVE  /\ o \in DOMAIN tenants' /\ deks'[o].key # None
                 /\ deks'[o].key \notin destroyed' /\ deks'[o].kek \in keks'
      BY <1>0, <2>1, <2>2, <2>3, <2>5, RowsGrow DEF DeksInv
    <2>6. \A o \in Ids : \A s \in Ids \ {o} : deks'[o] # NoDek => deks'[s].key # deks'[o].key
      BY <1>0, <2>2, <2>3 DEF DeksInv
    <2> QED BY <1>0, <2>4, <2>5, <2>6 DEF DeksInv
  <1>5. \/ UNCHANGED <<deks, destroyed>>
        \/ \E p \in Procs : \/ CommitTenant(p)
                            \/ CommitDek(p) /\ deks[req[p].tenant] = NoDek
                            \/ \E u \in Users : Shred(p, u)
    <2>1. CASE UNCHANGED vars
      BY <2>1 DEF vars, rows, rest
    <2>2. CASE \E u \in Users : SignIn(u) \/ SignOut(u)
      BY <2>2 DEF SignIn, SignOut, rows, rest
    <2>3. ASSUME NEW p \in Procs, Acts(p)
          PROVE  \/ UNCHANGED <<deks, destroyed>>
                 \/ CommitTenant(p) \/ (CommitDek(p) /\ deks[req[p].tenant] = NoDek)
                 \/ \E u \in Users : Shred(p, u)
      BY <2>3 DEF Acts, SelectRegion, ListSessions, StartBackfill, Loads, LoadDek,
                  FindKek, GenerateKek, Wrap, Answer, PutContent, CommitDek, Seal,
                  AppendDeletion, RecordBackfill, Fail, rows, rest
    <2> QED BY <2>1, <2>2, <2>3, StepCases
  <1> QED BY <1>1, <1>2, <1>3, <1>4, <1>5

(***************************************************************************)
(* What is sealed or stored is under the key that its request loaded; the  *)
(* second of Google's secrets comes after the first.                       *)
(***************************************************************************)
LEMMA SealedStep ==
  ASSUME VaultInv, [Next]_vars
  PROVE  SealedInv'
  <1>0. /\ SealedInv /\ sealed \in [Ids -> [Names -> 0..MaxKeys]] /\ deks \in [Ids -> Deks]
        /\ blobs \subseteq [tenant : Ids, key : 1..MaxKeys] /\ chain \subseteq Ids
        /\ \A p \in Procs : req[p] \in Requests /\ Stands(req[p])
    BY DEF VaultInv, TypesInv, RequestsInv, Deks
  <1>1. /\ DOMAIN tenants \subseteq Ids /\ {"admin", Google[1], Google[2]} \subseteq Names
        /\ \A k \in 1..MaxKeys : k # None
    <2>1. DOMAIN tenants \subseteq Ids
      BY VaultAssumption DEF VaultInv, TypesInv, Ids
    <2> QED BY <2>1, VaultAssumption DEF Names, None
  <1>2. /\ \A t \in Ids, n \in Names : sealed[t][n] # None =>
              t \in DOMAIN tenants' /\ sealed[t][n] \in Under(t)'
        /\ \A b \in blobs : b.tenant \in DOMAIN tenants' /\ b.key \in Under(b.tenant)'
        /\ \A t \in chain : t \in DOMAIN tenants' /\ sealed'[t]["admin"] \in destroyed'
    <2>1. ASSUME NEW t \in Ids, NEW n \in Names, sealed[t][n] # None
          PROVE  t \in DOMAIN tenants' /\ sealed[t][n] \in Under(t)'
      BY <1>0, <2>1, RowsGrow, KeysGrow DEF SealedInv
    <2>2. ASSUME NEW b \in blobs
          PROVE  b.tenant \in DOMAIN tenants' /\ b.key \in Under(b.tenant)'
      <3>1. b.tenant \in Ids /\ b.key # None
        BY <1>0, <1>1
      <3>2. b.tenant \in DOMAIN tenants /\ b.key \in Under(b.tenant)
        BY <1>0 DEF SealedInv
      <3> QED BY <3>1, <3>2, RowsGrow, KeysGrow
    <2>3. ASSUME NEW t \in chain
          PROVE  t \in DOMAIN tenants' /\ sealed'[t]["admin"] \in destroyed'
      BY <1>0, RowsGrow, KeysGrow DEF SealedInv
    <2> QED BY <2>1, <2>2, <2>3
  <1>3. CASE UNCHANGED <<tenants, sealed, blobs, chain>>
    BY <1>0, <1>2, <1>3 DEF SealedInv
  <1>4. ASSUME NEW p \in Procs, CommitTenant(p) PROVE SealedInv'
    <2>0. NewTenant \in Ids
      BY <1>4, FreshTenant DEF CommitTenant
    <2> PICK t \in Ids : t = NewTenant
      BY <2>0
    <2>1. /\ t \notin DOMAIN tenants /\ NewKey # None
          /\ \A n \in Names : sealed[t][n] = None
      BY <1>4, FreshTenant, FreshKey DEF CommitTenant, None
    <2>2. /\ sealed' = [sealed EXCEPT ![t]["admin"] = NewKey]
          /\ deks' = [deks EXCEPT ![t] = [req[p].dek EXCEPT !.key = NewKey]]
          /\ UNCHANGED <<blobs, chain>>
      BY <1>4 DEF CommitTenant, rest
    <2>3. t \in DOMAIN tenants' /\ DOMAIN tenants' \subseteq DOMAIN tenants \union {t}
      <3>1. req[p].user \in Users
        BY <1>0, <1>4 DEF CommitTenant, At, Stands
      <3> QED BY <1>4, <3>1 DEF CommitTenant, NewTenant, VaultInv, TypesInv
    <2>4. NewKey \in Under(t)'
      BY <1>0, <2>2 DEF Under, Requests, Deks
    <2>5. /\ sealed'[t]["admin"] = NewKey
          /\ \A n \in Names \ {"admin"} : sealed'[t][n] = None
          /\ \A o \in Ids \ {t} : sealed'[o] = sealed[o]
      BY <1>0, <1>1, <2>1, <2>2
    <2>6. \A o \in DOMAIN tenants' : sealed'[o]["admin"] # None
      BY <1>0, <1>1, <2>1, <2>3, <2>5 DEF SealedInv
    <2>7. \A o \in Ids, n \in Names : sealed'[o][n] # None =>
             o \in DOMAIN tenants' /\ sealed'[o][n] \in Under(o)'
      BY <1>2, <2>3, <2>4, <2>5
    <2>8. \A o \in Ids : sealed'[o][Google[2]] # None => sealed'[o][Google[1]] # None
      BY <1>0, <1>1, <2>5 DEF SealedInv, Google
    <2> QED BY <1>2, <2>2, <2>6, <2>7, <2>8 DEF SealedInv
  <1>5. ASSUME NEW p \in Procs, Seal(p) PROVE SealedInv'
    <2> PICK t, m : t = req[p].tenant /\ m = req[p].name
      OBVIOUS
    <2>0. /\ req[p].step = "seal" /\ t \in DOMAIN tenants /\ t \in Ids
          /\ m \in Names \ {"admin"}
          /\ req[p].dek.key # None /\ req[p].dek.key \in Under(t)
          /\ m = Google[2] => sealed[t][Google[1]] # None
      BY <1>0, <1>1, <1>5 DEF Seal, At, Stands
    <2>1. /\ sealed' = [sealed EXCEPT ![t][m] = req[p].dek.key]
          /\ UNCHANGED <<tenants, blobs, chain>>
      BY <1>5 DEF Seal, rest
    <2>2. /\ sealed'[t][m] = req[p].dek.key
          /\ \A n \in Names \ {m} : sealed'[t][n] = sealed[t][n]
          /\ \A o \in Ids \ {t} : sealed'[o] = sealed[o]
      BY <1>0, <2>0, <2>1
    <2>3. \A o \in DOMAIN tenants' : sealed'[o]["admin"] # None
      BY <1>0, <2>1, KeysGrow DEF SealedInv
    <2>4. t \in DOMAIN tenants' /\ req[p].dek.key \in Under(t)'
      BY <2>0, <2>1, KeysGrow
    <2>5. \A o \in Ids, n \in Names : sealed'[o][n] # None =>
             o \in DOMAIN tenants' /\ sealed'[o][n] \in Under(o)'
      BY <1>2, <2>2, <2>4
    <2>6. \A o \in Ids : sealed'[o][Google[2]] # None => sealed'[o][Google[1]] # None
      BY <1>0, <1>1, <2>0, <2>2 DEF SealedInv
    <2> QED BY <1>2, <2>1, <2>3, <2>5, <2>6 DEF SealedInv
  <1>6. ASSUME NEW p \in Procs, PutContent(p) PROVE SealedInv'
    <2> PICK b : b = [tenant |-> req[p].tenant, key |-> req[p].dek.key]
      OBVIOUS
    <2>1. UNCHANGED <<tenants, sealed, chain>> /\ blobs' = blobs \union {b}
      BY <1>6 DEF PutContent, rows
    <2>2. /\ b.tenant \in DOMAIN tenants /\ b.tenant \in Ids
          /\ b.key # None /\ b.key \in Under(b.tenant)
      BY <1>0, <1>1, <1>6 DEF PutContent, At, Stands
    <2>3. b.tenant \in DOMAIN tenants' /\ b.key \in Under(b.tenant)'
      BY <2>1, <2>2, KeysGrow
    <2> QED BY <1>0, <1>2, <2>1, <2>3 DEF SealedInv
  <1>7. ASSUME NEW p \in Procs, AppendDeletion(p) PROVE SealedInv'
    <2> PICK t : t = req[p].tenant
      OBVIOUS
    <2>1. UNCHANGED <<tenants, sealed, blobs, destroyed>> /\ chain' = chain \union {t}
      BY <1>7 DEF AppendDeletion, rows
    <2>2. t \in DOMAIN tenants /\ sealed[t]["admin"] \in destroyed
      BY <1>0, <1>7 DEF AppendDeletion, At, Stands
    <2> QED BY <1>0, <1>2, <2>1, <2>2 DEF SealedInv
  <1>8. \/ UNCHANGED <<tenants, sealed, blobs, chain>>
        \/ \E p \in Procs : \/ CommitTenant(p) \/ Seal(p) \/ PutContent(p)
                            \/ AppendDeletion(p)
    <2>1. CASE UNCHANGED vars
      BY <2>1 DEF vars, rows, rest
    <2>2. CASE \E u \in Users : SignIn(u) \/ SignOut(u)
      BY <2>2 DEF SignIn, SignOut, rows, rest
    <2>3. ASSUME NEW p \in Procs, Acts(p)
          PROVE  \/ UNCHANGED <<tenants, sealed, blobs, chain>>
                 \/ CommitTenant(p) \/ Seal(p) \/ PutContent(p) \/ AppendDeletion(p)
      BY <2>3 DEF Acts, SelectRegion, ListSessions, Shred, StartBackfill, Loads, LoadDek,
                  FindKek, GenerateKek, Wrap, Answer, CommitDek, RecordBackfill, Fail,
                  rows, rest
    <2> QED BY <2>1, <2>2, <2>3, StepCases
  <1> QED BY <1>3, <1>4, <1>5, <1>6, <1>7, <1>8

(***************************************************************************)
(* Which steps a request goes through.                                     *)
(***************************************************************************)
Making == {"wrap", "generate", "commit"}

\* How a request goes on.
LEMMA Course ==
  ASSUME VaultInv, NEW p \in Procs, Acts(p)
  PROVE  /\ \/ \E u \in Users : SelectRegion(p, u)
            \/ CommitTenant(p)
            \/ Answer(p)
            \/ /\ UNCHANGED <<bound, tenants, cookie>>
               /\ req'[p].step \in Making /\ req'[p].op = "select" =>
                     /\ req[p].step \in Making
                     /\ req'[p].op = req[p].op /\ req'[p].user = req[p].user
         /\ \/ \E u \in Users : StartBackfill(p, u)
            \/ RecordBackfill(p)
            \/ Fail(p)
            \/ UNCHANGED pull /\ req[p].step # "record" /\ req'[p].step # "record"
  <1> USE DEF Making
  <1>0. req \in [Procs -> Requests] /\ req[p] \in Requests
    BY DEF VaultInv, TypesInv
  <1>1. ASSUME NEW u \in Users, SelectRegion(p, u)
        PROVE  UNCHANGED pull /\ req[p].step # "record" /\ req'[p].step # "record"
    BY <1>0, <1>1, IdleTyped, ZenonT(60) DEF SelectRegion, Begin, At, Requests
  <1>2. ASSUME NEW u \in Users, ListSessions(p, u)
        PROVE  /\ UNCHANGED <<bound, tenants, cookie, pull>> /\ req[p].step # "record"
               /\ req'[p].step # "record" /\ req'[p].op # "select"
    BY <1>0, <1>2, IdleTyped DEF ListSessions, Begin, At, Requests, rows
  <1>3. ASSUME NEW u \in Users, Shred(p, u)
        PROVE  /\ UNCHANGED <<bound, tenants, cookie, pull>> /\ req[p].step # "record"
               /\ req'[p].step \notin Making \union {"record"}
    BY <1>0, <1>3, IdleTyped DEF Shred, Begin, At, Requests
  <1>4. ASSUME NEW u \in Users, StartBackfill(p, u)
        PROVE  UNCHANGED <<bound, tenants, cookie>> /\ req'[p].step \notin Making
    BY <1>0, <1>4, IdleTyped DEF StartBackfill, Begin, At, Requests, rows
  <1>5. CASE Loads(p)
    <2> PICK new \in Requests : /\ At(p, "idle") \/ At(p, "second")
                                /\ new.step \in {"seal", "put"} /\ LoadDek(p, new)
      BY <1>5 DEF Loads
    <2>1. [new EXCEPT !.dek.key = deks[new.tenant].key].step = new.step
      BY DEF Requests
    <2>2. req'[p].step \notin Making \union {"record"}
      BY <1>0, <2>1, IdleTyped DEF LoadDek
    <2> QED BY <2>2 DEF LoadDek, At, rows
  <1>6. CASE FindKek(p) \/ GenerateKek(p)
    <2>1. UNCHANGED <<bound, tenants, cookie, pull>> /\ req[p].step \in {"wrap", "generate"}
      BY <1>6 DEF FindKek, GenerateKek, Wrap, At, rows
    <2>2. Goes(p, "generate") \/ \E k : Wrap(p, k)
      BY <1>6 DEF FindKek, GenerateKek
    <2>3. req'[p].step # "record" /\ req'[p].op = req[p].op /\ req'[p].user = req[p].user
      BY <1>0, <2>2 DEF Goes, Wrap, Requests
    <2> QED BY <2>1, <2>3
  <1>7. CASE CommitTenant(p)
    <2>1. req'[p].step = "answer"
      BY <1>0, <1>7 DEF CommitTenant, Requests
    <2> QED BY <1>7, <2>1 DEF CommitTenant, At
  <1>8. CASE \/ CommitDek(p) \/ Seal(p) \/ PutContent(p) \/ AppendDeletion(p)
             \/ RecordBackfill(p) \/ Fail(p) \/ Answer(p)
    <2>1. Ends(p) \/ Goes(p, "second")
      BY <1>8 DEF CommitDek, Answer, Seal, PutContent, AppendDeletion, RecordBackfill, Fail
    <2>2. req'[p].step \notin Making \union {"record"}
      BY <1>0, <2>1, IdleTyped DEF Ends, Goes, Requests
    <2>3. Answer(p) \/ UNCHANGED <<bound, tenants, cookie>>
      BY <1>8 DEF CommitDek, Seal, PutContent, AppendDeletion, RecordBackfill, Fail, rows
    <2>4. \/ RecordBackfill(p) \/ Fail(p)
          \/ UNCHANGED pull /\ req[p].step # "record"
      BY <1>8 DEF CommitDek, Answer, Seal, PutContent, AppendDeletion, At
    <2> QED BY <2>2, <2>3, <2>4
  <1> QED BY <1>1, <1>2, <1>3, <1>4, <1>5, <1>6, <1>7, <1>8 DEF Acts

(***************************************************************************)
(* A user who is bound asks for no other tenant: at most the requests that *)
(* overlapped before the first commit make one each.                       *)
(***************************************************************************)
LEMMA OwnersStep ==
  ASSUME VaultInv, [Next]_vars
  PROVE  OwnersInv'
  <1>0. /\ OwnersInv /\ tenants \in Seq(Users) /\ req \in [Procs -> Requests]
        /\ bound \in [Users -> Ids \union {None}] /\ cookie \in [Users -> Ids \union {None}]
        /\ \A p \in Procs : req[p] \in Requests /\ Stands(req[p])
    BY DEF VaultInv, TypesInv, RequestsInv
  <1>1. /\ Cardinality(Procs) \in Nat
        /\ \A v \in Users :
              /\ IsFiniteSet(Owned(v)) /\ Cardinality(Owned(v)) \in Nat
              /\ IsFiniteSet(Selecting(v)) /\ Cardinality(Selecting(v)) \in Nat
    <2>1. IsFiniteSet(1..Len(tenants)) /\ DOMAIN tenants = 1..Len(tenants)
      BY <1>0, FS_Interval
    <2>2. ASSUME NEW v \in Users PROVE IsFiniteSet(Owned(v)) /\ IsFiniteSet(Selecting(v))
      BY <2>1, VaultAssumption, FS_Subset DEF Owned, Selecting
    <2> QED BY <2>2, VaultAssumption, FS_CardinalityType
  <1>2. ASSUME NEW v \in Users, Selecting(v)' \subseteq Selecting(v), Owned(v)' = Owned(v)
        PROVE  Cardinality(Owned(v)') + Cardinality(Selecting(v)') <= Cardinality(Procs)
    <2>1. /\ Cardinality(Selecting(v)') \in Nat
          /\ Cardinality(Selecting(v)') <= Cardinality(Selecting(v))
      BY <1>1, <1>2, FS_Subset, FS_CardinalityType
    <2>2. /\ Cardinality(Owned(v)) + Cardinality(Selecting(v)) <= Cardinality(Procs)
          /\ Cardinality(Owned(v)) \in Nat /\ Cardinality(Selecting(v)) \in Nat
      BY <1>0, <1>1 DEF OwnersInv
    <2> QED BY <1>1, <1>2, <2>1, <2>2
  <1>3. ASSUME UNCHANGED <<bound, tenants>>,
               \A v \in Users : /\ Selecting(v)' \subseteq Selecting(v)
                                /\ cookie'[v] \in {cookie[v], bound[v], None}
        PROVE  OwnersInv'
    <2> SUFFICES ASSUME NEW v \in Users
                 PROVE  /\ bound'[v] \in Owned(v)' \union {None}
                        /\ cookie'[v] \in Owned(v)' \union {None}
                        /\ bound'[v] = None => cookie'[v] = None /\ Owned(v)' = {}
                        /\ Cardinality(Owned(v)') + Cardinality(Selecting(v)')
                             <= Cardinality(Procs)
      BY DEF OwnersInv
    <2>1. Owned(v)' = Owned(v)
      BY <1>3 DEF Owned
    <2>2. Cardinality(Owned(v)') + Cardinality(Selecting(v)') <= Cardinality(Procs)
      BY <1>2, <1>3, <2>1
    <2> QED BY <1>0, <1>3, <2>1, <2>2 DEF OwnersInv
  <1>4. CASE UNCHANGED vars
    BY <1>3, <1>4 DEF vars, rows, Selecting
  <1>5. ASSUME NEW u \in Users, SignIn(u) \/ SignOut(u) PROVE OwnersInv'
    <2>1. UNCHANGED <<bound, tenants, req>>
      BY <1>5 DEF SignIn, SignOut, rows
    <2>2. \A v \in Users : cookie'[v] \in {cookie[v], bound[v], None}
      BY <1>0, <1>5 DEF SignIn, SignOut
    <2> QED BY <1>3, <2>1, <2>2 DEF Selecting
  <1>6. ASSUME NEW p \in Procs, Acts(p) PROVE OwnersInv'
    <2>0. /\ req' \in [Procs -> Requests] /\ \A q \in Procs \ {p} : req'[q] = req[q]
      BY <1>6, RequestStep
    <2>1. ASSUME UNCHANGED <<bound, tenants, cookie>>,
                 req'[p].step \in Making /\ req'[p].op = "select" =>
                     /\ req[p].step \in Making
                     /\ req'[p].op = req[p].op /\ req'[p].user = req[p].user
          PROVE  OwnersInv'
      BY <1>3, <2>0, <2>1 DEF Selecting, Making
    <2>2. ASSUME NEW u \in Users, SelectRegion(p, u) PROVE OwnersInv'
      <3>0. UNCHANGED <<bound, tenants, cookie>>
        BY <2>2 DEF SelectRegion, rows
      <3>1. CASE bound[u] # None
        <4>1. req'[p] = [Idle EXCEPT !.step = "answer", !.user = u, !.tenant = bound[u]]
          BY <1>0, <2>2, <3>1 DEF SelectRegion, Begin
        <4>2. req'[p].step = "answer"
          BY <4>1, IdleTyped DEF Requests
        <4> QED BY <2>1, <3>0, <4>2 DEF Making
      <3>2. CASE bound[u] = None
        <4>1. req'[p] = [Idle EXCEPT !.step = "wrap", !.op = "select", !.user = u]
          BY <1>0, <2>2, <3>2 DEF SelectRegion, Begin
        <4>2. req'[p].user = u
          BY <4>1, IdleTyped DEF Requests
        <4>3. \A v \in Users : Owned(v)' = Owned(v)
          BY <3>0 DEF Owned
        <4>4. \A v \in Users \ {u} : Selecting(v)' \subseteq Selecting(v)
          BY <2>0, <4>2 DEF Selecting
        <4>5. \A v \in Users \ {u} :
                 Cardinality(Owned(v)') + Cardinality(Selecting(v)') <= Cardinality(Procs)
          BY <1>2, <4>3, <4>4
        <4>6. Cardinality(Owned(u)') + Cardinality(Selecting(u)') <= Cardinality(Procs)
          <5>1. Selecting(u)' \subseteq Procs
            BY DEF Selecting
          <5>2. Cardinality(Selecting(u)') <= Cardinality(Procs) /\ Cardinality(Selecting(u)') \in Nat
            BY <5>1, VaultAssumption, FS_Subset, FS_CardinalityType
          <5>3. Cardinality(Owned(u)') = 0
            BY <1>0, <3>2, <4>3, FS_EmptySet DEF OwnersInv
          <5> QED BY <1>1, <5>2, <5>3
        <4> QED BY <1>0, <3>0, <4>3, <4>5, <4>6 DEF OwnersInv
      <3> QED BY <3>1, <3>2
    <2>3. CASE CommitTenant(p)
      <3> PICK t, u : t = NewTenant /\ u = req[p].user
        OBVIOUS
      <3>1. t \in Ids \ DOMAIN tenants /\ t # None
        BY <2>3, FreshTenant DEF CommitTenant, Ids, None
      <3>2. u \in Users /\ p \in Selecting(u)
        BY <1>0, <2>3 DEF CommitTenant, At, Stands, Selecting
      <3>3. bound' = [bound EXCEPT ![u] = t] /\ tenants' = Append(tenants, u) /\ UNCHANGED cookie
        BY <2>3 DEF CommitTenant
      <3>4. req'[p].step = "answer"
        BY <1>0, <2>0, <2>3 DEF CommitTenant, Requests
      <3>5. Owned(u)' = Owned(u) \union {t} /\ \A v \in Users \ {u} : Owned(v)' = Owned(v)
        BY <1>0, <3>2, <3>3 DEF Owned, NewTenant
      <3>6. /\ Selecting(u)' = Selecting(u) \ {p}
            /\ \A v \in Users \ {u} : Selecting(v)' \subseteq Selecting(v)
        BY <2>0, <3>4 DEF Selecting
      <3>7. Cardinality(Owned(u)') = Cardinality(Owned(u)) + 1
        <4>1. t \notin Owned(u)
          BY <3>1 DEF Owned
        <4> QED BY <1>1, <3>2, <3>5, <4>1, FS_AddElement
      <3>8. Cardinality(Selecting(u)') = Cardinality(Selecting(u)) - 1
        BY <1>1, <3>2, <3>6, FS_RemoveElement, ZenonT(60)
      <3>9. \A v \in Users :
               Cardinality(Owned(v)') + Cardinality(Selecting(v)') <= Cardinality(Procs)
        <4>1. Cardinality(Owned(u)') + Cardinality(Selecting(u)') <= Cardinality(Procs)
          BY <1>0, <1>1, <3>2, <3>7, <3>8 DEF OwnersInv
        <4>2. \A v \in Users \ {u} :
                 Cardinality(Owned(v)') + Cardinality(Selecting(v)') <= Cardinality(Procs)
          BY <1>2, <3>5, <3>6
        <4> QED BY <4>1, <4>2
      <3>10. ASSUME NEW v \in Users
             PROVE  /\ bound'[v] \in Owned(v)' \union {None} /\ cookie'[v] \in Owned(v)' \union {None}
                    /\ bound'[v] = None => cookie'[v] = None /\ Owned(v)' = {}
        BY <1>0, <3>1, <3>2, <3>3, <3>5 DEF OwnersInv
      <3> QED BY <3>9, <3>10 DEF OwnersInv
    <2>4. CASE Answer(p)
      <3> PICK t, u : t = req[p].tenant /\ u = req[p].user
        OBVIOUS
      <3>1. u \in Users /\ t \in Owned(u) /\ bound[u] # None
        BY <1>0, <2>4 DEF Answer, At, Stands, Owned
      <3>2. UNCHANGED <<bound, tenants>> /\ cookie' = [cookie EXCEPT ![u] = t]
        BY <2>4 DEF Answer, rows
      <3>3. req'[p].step = "idle"
        BY <1>0, <2>4, IdleTyped DEF Answer, Ends
      <3>4. \A v \in Users : Selecting(v)' \subseteq Selecting(v) /\ Owned(v)' = Owned(v)
        BY <2>0, <3>2, <3>3 DEF Selecting, Owned
      <3>5. \A v \in Users :
               Cardinality(Owned(v)') + Cardinality(Selecting(v)') <= Cardinality(Procs)
        BY <1>2, <3>4
      <3> QED BY <1>0, <3>1, <3>2, <3>4, <3>5 DEF OwnersInv
    <2> QED BY <1>6, <2>1, <2>2, <2>3, <2>4, Course
  <1> QED BY <1>4, <1>5, <1>6, StepCases

(***************************************************************************)
(* The tasks that requests are about to record are all there are of a      *)
(* tenant with none recorded: no more than processes.                      *)
(***************************************************************************)
LEMMA BackfillStep ==
  ASSUME VaultInv, [Next]_vars
  PROVE  BackfillInv'
  <1>0. /\ BackfillInv /\ req \in [Procs -> Requests] /\ queued \in Seq(Ids)
        /\ backfill \in [Ids -> 0..Len(queued)] /\ lost \subseteq DOMAIN queued
        /\ DOMAIN queued = 1..Len(queued) /\ None \notin DOMAIN queued
        /\ \A p \in Procs : Stands(req[p])
    BY DEF VaultInv, TypesInv, RequestsInv, None
  <1>1. Cardinality(Procs) \in Nat /\ \A t \in Ids : IsFiniteSet(Kept(t))
    <2>1. IsFiniteSet(1..Len(queued))
      BY <1>0, FS_Interval
    <2> QED BY <1>0, <2>1, VaultAssumption, FS_Subset, FS_CardinalityType DEF Kept
  <1>2. ASSUME UNCHANGED pull, \A p \in Procs : At(p, "record")' <=> At(p, "record"),
               \A p \in Procs : At(p, "record") => req'[p] = req[p]
        PROVE  BackfillInv'
    <2>1. UNCHANGED <<backfill, queued, lost>> /\ \A t \in Ids : Kept(t)' = Kept(t)
      BY <1>2 DEF pull, Kept
    <2> QED BY <1>0, <1>2, <2>1 DEF BackfillInv
  <1>3. CASE UNCHANGED vars
    BY <1>2, <1>3 DEF vars, At
  <1>4. ASSUME NEW u \in Users, SignIn(u) \/ SignOut(u) PROVE BackfillInv'
    BY <1>2, <1>4 DEF SignIn, SignOut, At
  <1>5. ASSUME NEW p \in Procs, Acts(p) PROVE BackfillInv'
    <2>0. /\ req' \in [Procs -> Requests] /\ \A q \in Procs \ {p} : req'[q] = req[q]
      BY <1>5, RequestStep
    <2>1. CASE UNCHANGED pull /\ req[p].step # "record" /\ req'[p].step # "record"
      BY <1>2, <2>0, <2>1 DEF At
    <2>2. ASSUME NEW u \in Users, StartBackfill(p, u) PROVE BackfillInv'
      <3> PICK t, i : t = bound[u] /\ i = Len(queued) + 1
        OBVIOUS
      <3>1. t \in Ids /\ backfill[t] = None
        BY <2>2, ClaimsTenant DEF StartBackfill
      <3>2. queued' = Append(queued, t) /\ UNCHANGED <<backfill, lost>>
        BY <2>2 DEF StartBackfill
      <3>3. /\ req'[p].step = "record" /\ req'[p].tenant = t /\ req'[p].task = i
            /\ req[p].step = "idle"
        BY <1>0, <2>2, IdleTyped DEF StartBackfill, Begin, At, Requests
      <3>4. i \notin DOMAIN queued /\ i # None /\ DOMAIN queued' = DOMAIN queued \union {i}
        BY <1>0, <3>1, <3>2 DEF None
      <3>5. /\ Kept(t)' = Kept(t) \union {i}
            /\ \A o \in Ids \ {t} : Kept(o)' = Kept(o)
        BY <1>0, <3>1, <3>2, <3>4 DEF Kept
      <3>6. \A q \in Procs \ {p} : At(q, "record")' <=> At(q, "record")
        BY <2>0 DEF At
      <3>7. \A q \in Procs : At(q, "record") => req[q].task \in DOMAIN queued
        BY <1>0 DEF At, Stands
      <3>8. ASSUME NEW q \in Procs, At(q, "record")'
            PROVE  req'[q].task \notin lost' /\ backfill'[req'[q].tenant] # req'[q].task
        <4>1. CASE q = p
          BY <1>0, <3>1, <3>2, <3>3, <3>4, <4>1
        <4>2. CASE q # p
          BY <1>0, <2>0, <3>2, <3>6, <3>8, <4>2 DEF BackfillInv
        <4> QED BY <4>1, <4>2
      <3>9. \A q, s \in Procs : At(q, "record")' /\ At(s, "record")'
                                  /\ req'[q].task = req'[s].task => q = s
        BY <1>0, <2>0, <3>3, <3>4, <3>6, <3>7 DEF BackfillInv
      <3>10. \A j \in Kept(t)' : \E q \in Procs : At(q, "record")' /\ req'[q].task = j
        <4>1. \A j \in Kept(t) : \E q \in Procs \ {p} : At(q, "record") /\ req[q].task = j
          BY <1>0, <3>1, <3>3 DEF BackfillInv, At
        <4>2. At(p, "record")'
          BY <3>3 DEF At
        <4> QED BY <2>0, <3>3, <3>5, <3>6, <4>1, <4>2
      <3>11. Cardinality(Kept(t)') <= Cardinality(Procs)
        <4> DEFINE f == [q \in Procs |-> req'[q].task]
                   T == {f[q] : q \in Procs}
        <4>1. f \in Surjection(Procs, T)
          BY DEF Surjection
        <4>2. IsFiniteSet(T) /\ Cardinality(T) <= Cardinality(Procs)
          <5> HIDE DEF f, T
          <5> QED BY <4>1, VaultAssumption, FS_Surjection
        <4>3. Kept(t)' \subseteq T
          BY <3>10
        <4> HIDE DEF f, T
        <4>4. /\ Cardinality(Kept(t)') <= Cardinality(T)
              /\ Cardinality(Kept(t)') \in Nat /\ Cardinality(T) \in Nat
          BY <4>2, <4>3, FS_Subset, FS_CardinalityType
        <4> QED BY <1>1, <4>2, <4>4
      <3>12. ASSUME NEW o \in Ids
             PROVE  /\ Cardinality(Kept(o)') <= Cardinality(Procs)
                    /\ backfill'[o] # None => backfill'[o] \in Kept(o)'
                    /\ backfill'[o] = None =>
                         \A j \in Kept(o)' : \E q \in Procs : At(q, "record")' /\ req'[q].task = j
        <4>1. CASE o = t
          BY <3>1, <3>2, <3>10, <3>11, <4>1
        <4>2. CASE o # t
          <5>1. Kept(o)' = Kept(o) /\ backfill'[o] = backfill[o]
            BY <3>2, <3>5, <4>2
          <5>2. backfill[o] = None =>
                  \A j \in Kept(o) : \E q \in Procs \ {p} : At(q, "record") /\ req[q].task = j
            BY <1>0, <3>3 DEF BackfillInv, At
          <5> QED BY <1>0, <2>0, <3>6, <5>1, <5>2 DEF BackfillInv
        <4> QED BY <4>1, <4>2
      <3> QED BY <3>8, <3>9, <3>12 DEF BackfillInv
    <2>3. CASE RecordBackfill(p)
      <3> PICK t, i : t = req[p].tenant /\ i = req[p].task
        OBVIOUS
      <3>1. /\ At(p, "record") /\ i \in DOMAIN queued /\ queued[i] = t /\ t \in Ids
            /\ i \notin lost /\ i # None
        <4>1. At(p, "record")
          BY <2>3 DEF RecordBackfill
        <4>2. i \in DOMAIN queued /\ queued[i] = t
          BY <1>0, <4>1 DEF At, Stands
        <4> QED BY <1>0, <4>1, <4>2 DEF BackfillInv
      <3>2. backfill' = [backfill EXCEPT ![t] = i] /\ UNCHANGED <<queued, lost>>
        BY <2>3 DEF RecordBackfill
      <3>3. req'[p].step = "idle"
        BY <1>0, <2>3, IdleTyped DEF RecordBackfill, Ends
      <3>4. /\ ~At(p, "record")'
            /\ \A q \in Procs \ {p} : At(q, "record")' <=> At(q, "record")
        BY <2>0, <3>3 DEF At
      <3>5. \A o \in Ids : Kept(o)' = Kept(o)
        BY <3>2 DEF Kept
      <3>6. ASSUME NEW q \in Procs, At(q, "record")'
            PROVE  req'[q].task \notin lost' /\ backfill'[req'[q].tenant] # req'[q].task
        <4>1. q # p /\ At(q, "record") /\ req'[q] = req[q]
          BY <2>0, <3>4, <3>6
        <4>2. req[q].task # i
          BY <1>0, <3>1, <4>1 DEF BackfillInv
        <4>3. req[q].tenant \in Ids
          BY <1>0, <4>1 DEF At, Stands
        <4> QED BY <1>0, <3>2, <4>1, <4>2, <4>3 DEF BackfillInv
      <3>7. \A q, s \in Procs : At(q, "record")' /\ At(s, "record")'
                                  /\ req'[q].task = req'[s].task => q = s
        BY <1>0, <2>0, <3>4 DEF BackfillInv
      <3>8. ASSUME NEW o \in Ids
            PROVE  /\ Cardinality(Kept(o)') <= Cardinality(Procs)
                   /\ backfill'[o] # None => backfill'[o] \in Kept(o)'
                   /\ backfill'[o] = None =>
                        \A j \in Kept(o)' : \E q \in Procs : At(q, "record")' /\ req'[q].task = j
        <4>1. CASE o = t
          <5>1. backfill'[o] = i /\ i \in Kept(o)
            BY <1>0, <3>1, <3>2, <4>1 DEF Kept
          <5> QED BY <1>0, <3>1, <3>5, <5>1 DEF BackfillInv
        <4>2. CASE o # t
          <5>1. backfill'[o] = backfill[o]
            BY <1>0, <3>2, <4>2
          <5>2. \A j \in Kept(o) : queued[j] # queued[i]
            BY <3>1, <4>2 DEF Kept
          <5>3. backfill[o] = None =>
                  \A j \in Kept(o) : \E q \in Procs \ {p} : At(q, "record") /\ req[q].task = j
            BY <1>0, <5>2 DEF BackfillInv
          <5> QED BY <1>0, <2>0, <3>4, <3>5, <5>1, <5>3 DEF BackfillInv
        <4> QED BY <4>1, <4>2
      <3> QED BY <3>6, <3>7, <3>8 DEF BackfillInv
    <2>4. CASE Fail(p)
      <3> PICK i : i = req[p].task
        OBVIOUS
      <3>1. /\ lost' = lost \union ({i} \ {None}) /\ UNCHANGED <<queued, backfill>>
            /\ req'[p].step = "idle"
        BY <1>0, <2>4, IdleTyped DEF Fail, Ends
      <3>2. /\ ~At(p, "record")'
            /\ \A q \in Procs \ {p} : At(q, "record")' <=> At(q, "record")
        BY <2>0, <3>1 DEF At
      <3>3. \A o \in Ids : Kept(o)' = Kept(o) \ {i}
        BY <1>0, <3>1 DEF Kept
      <3>4. i # None => At(p, "record") /\ queued[i] = req[p].tenant
        BY <1>0 DEF Stands, At
      <3>5. ASSUME NEW q \in Procs, At(q, "record")'
            PROVE  req'[q].task \notin lost' /\ backfill'[req'[q].tenant] # req'[q].task
        <4>1. q # p /\ At(q, "record") /\ req'[q] = req[q]
          BY <2>0, <3>2, <3>5
        <4>2. req[q].task = i => i = None
          BY <1>0, <3>4, <4>1 DEF BackfillInv
        <4> QED BY <1>0, <3>1, <4>1, <4>2 DEF BackfillInv
      <3>6. \A q, s \in Procs : At(q, "record")' /\ At(s, "record")'
                                  /\ req'[q].task = req'[s].task => q = s
        BY <1>0, <2>0, <3>2 DEF BackfillInv
      <3>7. ASSUME NEW o \in Ids
            PROVE  /\ Cardinality(Kept(o)') <= Cardinality(Procs)
                   /\ backfill'[o] # None => backfill'[o] \in Kept(o)'
                   /\ backfill'[o] = None =>
                        \A j \in Kept(o)' : \E q \in Procs : At(q, "record")' /\ req'[q].task = j
        <4>1. Cardinality(Kept(o)') <= Cardinality(Procs)
          <5>1. Kept(o)' \subseteq Kept(o)
            BY <3>3
          <5>2. /\ Cardinality(Kept(o)') <= Cardinality(Kept(o))
                /\ Cardinality(Kept(o)') \in Nat /\ Cardinality(Kept(o)) \in Nat
            BY <1>1, <5>1, FS_Subset, FS_CardinalityType
          <5> QED BY <1>0, <1>1, <5>2 DEF BackfillInv
        <4>2. ASSUME backfill[o] # None PROVE backfill[o] \in Kept(o)'
          <5>1. backfill[o] \in Kept(o) /\ queued[backfill[o]] = o
            BY <1>0, <4>2 DEF BackfillInv, Kept
          <5>2. backfill[o] # i
            BY <1>0, <3>4, <4>2, <5>1 DEF BackfillInv
          <5> QED BY <3>3, <5>1, <5>2
        <4>3. ASSUME backfill[o] = None, NEW j \in Kept(o)'
              PROVE  \E q \in Procs : At(q, "record")' /\ req'[q].task = j
          <5>1. j \in Kept(o) /\ j # i
            BY <3>3
          <5>2. PICK q \in Procs : At(q, "record") /\ req[q].task = j
            BY <1>0, <4>3, <5>1 DEF BackfillInv
          <5>3. q # p
            BY <5>1, <5>2
          <5> QED BY <2>0, <3>2, <5>2, <5>3
        <4> QED BY <3>1, <4>1, <4>2, <4>3
      <3> QED BY <3>5, <3>6, <3>7 DEF BackfillInv
    <2> QED BY <1>5, <2>1, <2>2, <2>3, <2>4, Course
  <1> QED BY <1>3, <1>4, <1>5, StepCases
-----------------------------------------------------------------------------
(***************************************************************************)
(* The theorems.                                                           *)
(***************************************************************************)

\* The inductive invariant: what the tables, the HSM and the chain hold, and
\* what still stands of every request that is under way.
THEOREM VaultInvariant == Spec => []VaultInv
  <1>1. Init => VaultInv
    BY VaultInit
  <1>2. VaultInv /\ [Next]_vars => VaultInv'
    BY TypesStep, RequestsStep, KeksStep, DeksStep, SealedStep, OwnersStep, BackfillStep
    DEF VaultInv
  <1> QED BY <1>1, <1>2, PTL DEF Spec

\* Every variable keeps its type.
THEOREM VaultTypeCorrect == Spec => []TypeOK
  <1>1. VaultInv => TypeOK
    <2> SUFFICES ASSUME VaultInv PROVE TypeOK
      OBVIOUS
    <2>1. TypesInv
      BY DEF VaultInv
    <2>2. \A p \in Procs : req[p].step \in Steps /\ req[p].tenant \in Ids \union {None}
      BY <2>1 DEF TypesInv, Requests
    <2> QED BY <2>1, <2>2 DEF TypeOK, TypesInv, Steps, Deks
  <1> QED BY <1>1, VaultInvariant, PTL

\* Onboarding leaves no half tenant, however requests overlap, are repeated
\* or fail: rows, keys and secrets come together, a user gets at most one
\* tenant and a tenant at most one kept backfill per request that overlapped.
THEOREM TenantsWholeHolds == Spec => []TenantsWhole
  <1>1. VaultInv => TenantsWhole
    <2> SUFFICES ASSUME VaultInv PROVE TenantsWhole
      OBVIOUS
    <2>0. /\ deks \in [Ids -> Deks] /\ DeksInv /\ SealedInv /\ OwnersInv /\ BackfillInv
          /\ tenants \in Seq(Users) /\ queued \in Seq(Ids) /\ NoDek.key = None
      BY IdleTyped DEF VaultInv, TypesInv, Deks
    <2>1. ASSUME NEW t \in Ids, t \in DOMAIN tenants
          PROVE  /\ sealed[t]["admin"] # None
                 /\ deks[t] = NoDek => sealed[t]["admin"] \in destroyed
      BY <2>0, <2>1 DEF SealedInv, Under, Names
    <2>2. ASSUME NEW t \in Ids, t \notin DOMAIN tenants
          PROVE  /\ deks[t] = NoDek
                 /\ \A n \in Names : sealed[t][n] = None
                 /\ \A b \in blobs : b.tenant # t
      BY <2>0, <2>2 DEF DeksInv, SealedInv
    <2>3. ASSUME NEW u \in Users
          PROVE  /\ {bound[u], cookie[u]} \subseteq Owned(u) \union {None}
                 /\ cookie[u] # None => bound[u] # None
                 /\ Cardinality(Owned(u)) <= Cardinality(Procs)
      <3>1. Cardinality(Owned(u)) + Cardinality(Selecting(u)) <= Cardinality(Procs)
        BY <2>0 DEF OwnersInv
      <3>2. /\ Cardinality(Owned(u)) \in Nat /\ Cardinality(Selecting(u)) \in Nat
            /\ Cardinality(Procs) \in Nat
        <4>1. IsFiniteSet(1..Len(tenants)) /\ DOMAIN tenants = 1..Len(tenants)
          BY <2>0, FS_Interval
        <4>2. IsFiniteSet(Owned(u)) /\ IsFiniteSet(Selecting(u))
          BY <4>1, VaultAssumption, FS_Subset DEF Owned, Selecting
        <4> QED BY <4>2, VaultAssumption, FS_CardinalityType
      <3> QED BY <2>0, <3>1, <3>2 DEF OwnersInv
    <2>4. ASSUME NEW t \in Ids
          PROVE  /\ Cardinality({i \in DOMAIN queued : queued[i] = t} \ lost)
                      <= Cardinality(Procs)
                 /\ \A i \in DOMAIN queued : Polls(t, i) => queued[i] = t /\ i \notin lost
                 /\ sealed[t][Google[2]] # None => sealed[t][Google[1]] # None
      <3>1. \A i \in DOMAIN queued : i # None
        BY <2>0 DEF None
      <3> QED BY <2>0, <3>1 DEF BackfillInv, SealedInv, Kept, Polls
    <2> QED BY <2>1, <2>2, <2>3, <2>4 DEF TenantsWhole
  <1> QED BY <1>1, VaultInvariant, PTL

\* Only a shred loses what is sealed or stored, and loses it for good; the HSM
\* keeps the KEK of every DEK.
THEOREM KeysKeptHolds == Spec => []KeysKept
  <1>1. VaultInv => KeysKept
    <2> SUFFICES ASSUME VaultInv PROVE KeysKept
      OBVIOUS
    <2>0. KeksInv /\ DeksInv /\ SealedInv
      BY DEF VaultInv
    <2>1. Cardinality(keks) <= Cardinality(Procs)
      <3>1. IsFiniteSet(Generating)
        BY VaultAssumption, FS_Subset DEF Generating
      <3>2. /\ Cardinality(keks) \in Nat /\ Cardinality(Generating) \in Nat
            /\ Cardinality(Procs) \in Nat
        BY <2>0, <3>1, VaultAssumption, FS_CardinalityType DEF KeksInv
      <3> QED BY <2>0, <3>2 DEF KeksInv
    <2> QED BY <2>0, <2>1 DEF KeysKept, DeksInv, SealedInv, Under
  <1> QED BY <1>1, VaultInvariant, PTL
=============================================================================
