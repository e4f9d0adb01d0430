--------------------------- MODULE IdentityProofs ---------------------------
(***************************************************************************)
(* Proofs about who is who, and of the lists and sums that show it, in     *)
(* four parts.                                                             *)
(*                                                                         *)
(* The first is about McpSignIn, for any clients, users and attempts, and  *)
(* any bounds: every token descends from one authorization, and whatever   *)
(* is presented at /token is good once.  Codes and pairs are told apart by *)
(* ids that are handed out in order; the invariant says that the next id   *)
(* is fresh everywhere, and that the process keeps nothing that was used.  *)
(*                                                                         *)
(* The second is about Directory and the walks of Dashboard, for any       *)
(* members, processes and scenarios of records: the directory is right     *)
(* about people, and no link is undone.  A request of several statements   *)
(* acts on what it has read; the invariant says, operation by operation,   *)
(* what of it still holds, whatever the others have committed since.       *)
(*                                                                         *)
(* The third is about the walks of Dashboard, for any feed, page size and  *)
(* window: a walk misses nothing and repeats nothing.  A page is the       *)
(* beginning of a finite set in its order (Ranks, Ordered); the invariant  *)
(* says where a row or a session stands that was there at first: it was    *)
(* shown, or comes after the cursor.                                       *)
(*                                                                         *)
(* The fourth is about what those records are added up to (SpendViews,     *)
(* ViewsAgree): every road to a spend is taken back to one sum over the    *)
(* rows of the records (Spend), by splitting them into records, days,      *)
(* models, places and members, and by pricing a bucket of like rows as its *)
(* rows (BucketIs).                                                        *)
(***************************************************************************)
EXTENDS McpSignIn, Dashboard, SetSums, SequenceTheorems, TLAPS


KeyTypes == keys \in [file : 1..MaxKeys, gateway : 1..MaxKeys, edge : SUBSET (1..MaxKeys),
                      server : 1..MaxKeys, worker : 0..MaxKeys]

\* No process and no cache has a key newer than the gateway's, nor the gateway
\* one newer than the file's.
KeysInv == /\ KeyTypes
           /\ keys.gateway <= keys.file /\ keys.server <= keys.gateway
           /\ \A k \in keys.edge : k <= keys.gateway

\* An attempt is known from its first request on, and parked from it at most.
AttemptsInv ==
    /\ registered \subseteq Clients
    /\ asked \in [Attempts -> registered \union {Nobody}]
    /\ parked \subseteq Attempts
    /\ \A a \in parked : asked[a] # Nobody
    /\ session \in Users \union {Nobody}
    /\ bridged \subseteq [attempt : Attempts, user : Users, key : 1..MaxKeys]

Codes == Cardinality(minted)

\* Codes are numbered 1..Codes, each for an attempt of its own that is no longer parked.
CodesInv ==
    /\ IsFiniteSet(minted) /\ minted \subseteq Code /\ codes \subseteq minted
    /\ \A c \in minted : /\ c.id <= Codes
                         /\ c.client = asked[c.attempt]
                         /\ c.attempt \notin parked
    /\ \A c, d \in minted : (c.id = d.id \/ c.attempt = d.attempt) => c = d

\* Pairs are numbered 1..Newest.
PairsInv ==
    /\ IsFiniteSet(pairs) /\ pairs \subseteq Pair /\ refreshable \subseteq pairs
    /\ Newest <= MaxPairs
    /\ \A p \in pairs : p.id <= Newest /\ p.from <= Newest
    /\ \A p, q \in pairs : p.id = q.id => p = q

\* The ids that other tables and the history refer to have been handed out.
RefersInv ==
    /\ dead \union received \union cached \union gone \subseteq 1..Newest
    /\ IsFiniteSet(cached) /\ Cardinality(cached) <= CacheSize
    /\ used \subseteq ({"code"} \X (1..Codes)) \union ({"refresh"} \X (1..Newest))

\* A pair is the first of its code or the successor of a pair, and unlike any other.
LineInv ==
    /\ \A p, q \in pairs : (p.code = q.code /\ p.from = q.from) => p = q
    /\ \A p \in pairs : \E c \in minted : c.id = p.code /\ c.client = p.client /\ c.user = p.user
    /\ \A p \in pairs, q \in refreshable : p.from # q.id

\* What the process still has was not used: a code in its store has no pair yet.
FreshInv ==
    /\ \A c \in codes : <<"code", c.id>> \notin used
    /\ \A c \in codes, p \in pairs : p.code # c.id
    /\ \A p \in pairs : \/ p \in refreshable
                        \/ p.id \in gone
                        \/ <<"refresh", p.id>> \in used

SignInInv == /\ KeysInv /\ AttemptsInv /\ CodesInv /\ PairsInv
             /\ RefersInv /\ LineInv /\ FreshInv
-----------------------------------------------------------------------------
(***************************************************************************)
(* At first there is a key, and nothing else.                              *)
(***************************************************************************)
LEMMA SignInInit == Init => SignInInv
  <1> SUFFICES ASSUME Init PROVE SignInInv
    OBVIOUS
  <1>1. IsFiniteSet({}) /\ Cardinality({}) = 0
    BY FS_EmptySet
  <1>2. KeysInv
    BY SignInAssumption DEF Init, KeysInv, KeyTypes
  <1>3. AttemptsInv
    BY DEF Init, AttemptsInv
  <1>4. CodesInv /\ PairsInv /\ RefersInv
    BY <1>1, SignInAssumption DEF Init, CodesInv, PairsInv, RefersInv, Newest
  <1>5. LineInv /\ FreshInv
    BY DEF Init, LineInv, FreshInv
  <1> QED BY <1>2, <1>3, <1>4, <1>5 DEF SignInInv

(***************************************************************************)
(* Every copy of a key is one the gateway has had: rotation and refresh    *)
(* race, but a copy is only ever taken from the gateway or from the edge.  *)
(***************************************************************************)
LEMMA KeysStep == KeysInv /\ [Next]_vars => KeysInv'
  <1> SUFFICES ASSUME KeysInv, [Next]_vars PROVE KeysInv'
    OBVIOUS
  <1> USE SignInAssumption DEF KeysInv, KeyTypes
  <1>1. CASE RotateKey
    BY <1>1 DEF RotateKey
  <1>2. CASE RestartGateway
    BY <1>2 DEF RestartGateway
  <1>3. CASE EdgeCaches
    BY <1>3 DEF EdgeCaches
  <1>4. CASE EdgeForgets
    BY <1>4 DEF EdgeForgets
  <1>5. CASE RefreshBridgeJwk
    BY <1>5 DEF RefreshBridgeJwk, FetchAndCacheJwk, Fetched, SetJwk
  <1>6. CASE Restart
    BY <1>6 DEF Restart, FetchAndCacheJwk, Fetched, SetJwk
  <1>7. CASE UNCHANGED keys
    BY <1>7
  <1> QED
    BY <1>1, <1>2, <1>3, <1>4, <1>5, <1>6, <1>7
    DEF Next, vars, Keys, Register, Authorize, Session, MintBridgeToken, StateExpires,
        Callback, BridgeTokenExpires, CodeExpires, Exchange, Refresh, VerifyToken, Revoke,
        AccessExpires, RefreshExpires

(***************************************************************************)
(* What an attempt was made by is written once, before it is parked.       *)
(***************************************************************************)
LEMMA AttemptsStep == KeysInv /\ AttemptsInv /\ [Next]_vars => AttemptsInv'
  <1> SUFFICES ASSUME KeysInv, AttemptsInv, [Next]_vars PROVE AttemptsInv'
    OBVIOUS
  <1> USE SignInAssumption DEF AttemptsInv
  <1>1. ASSUME NEW c \in Clients, Register(c) PROVE AttemptsInv'
    BY <1>1 DEF Register
  <1>2. ASSUME NEW c \in Clients, NEW a \in Attempts, Authorize(c, a) PROVE AttemptsInv'
    BY <1>2 DEF Authorize
  <1>3. ASSUME NEW u \in Users \union {Nobody}, Session(u) PROVE AttemptsInv'
    BY <1>3 DEF Session
  <1>4. ASSUME NEW a \in Attempts, MintBridgeToken(a) PROVE AttemptsInv'
    BY <1>4 DEF MintBridgeToken, KeysInv, KeyTypes
  <1>5. ASSUME NEW a \in Attempts, StateExpires(a) PROVE AttemptsInv'
    BY <1>5 DEF StateExpires
  <1>6. ASSUME NEW t \in bridged, Callback(t) PROVE AttemptsInv'
    BY <1>6 DEF Callback, Claim
  <1>7. ASSUME NEW t \in bridged, BridgeTokenExpires(t) PROVE AttemptsInv'
    BY <1>7 DEF BridgeTokenExpires
  <1>8. CASE UNCHANGED browser
    BY <1>8 DEF browser
  <1> QED
    BY <1>1, <1>2, <1>3, <1>4, <1>5, <1>6, <1>7, <1>8
    DEF Next, vars, Keys, CodeExpires, Exchange, Refresh, VerifyToken, Revoke,
        AccessExpires, RefreshExpires, RotateKey, RestartGateway, EdgeCaches, EdgeForgets,
        RefreshBridgeJwk, Restart

-----------------------------------------------------------------------------
(***************************************************************************)
(* A code that is minted for a parked attempt has an id and an attempt     *)
(* that no code has.                                                       *)
(***************************************************************************)
LEMMA CallbackMints ==
    ASSUME AttemptsInv, CodesInv, NEW t \in bridged, Callback(t)
    PROVE  \E code \in Code :
              /\ codes' = codes \union {code} /\ minted' = minted \union {code}
              /\ code.id = Codes + 1 /\ code.client = asked[code.attempt]
              /\ code.attempt \in parked /\ code.attempt \notin parked'
              /\ code \notin minted
              /\ IsFiniteSet(minted') /\ Codes' = Codes + 1
  <1> DEFINE code == [id |-> Codes + 1, attempt |-> t.attempt,
                      client |-> asked[t.attempt], user |-> t.user]
  <1>1. Codes \in Nat
    BY FS_CardinalityType DEF CodesInv, Codes
  <1>2. t.attempt \in parked /\ t.attempt \in Attempts /\ t.user \in Users
    BY DEF Callback, AttemptsInv
  <1>3. asked[t.attempt] \in Clients
    BY <1>2 DEF AttemptsInv
  <1>4. code \in Code
    BY <1>1, <1>2, <1>3 DEF Code
  <1>5. codes' = codes \union {code} /\ minted' = minted \union {code}
    BY DEF Callback, MintCode, Codes
  <1>6. t.attempt \notin parked'
    BY DEF Callback, Claim
  <1>7. code \notin minted
    BY <1>2 DEF CodesInv
  <1>8. IsFiniteSet(minted') /\ Codes' = Codes + 1
    BY <1>5, <1>7, FS_AddElement DEF CodesInv, Codes
  <1> QED BY <1>2, <1>4, <1>5, <1>6, <1>7, <1>8

(***************************************************************************)
(* Only Callback makes a code; a new attempt was never seen, and so has    *)
(* none.                                                                   *)
(***************************************************************************)
LEMMA CodesStep ==
    AttemptsInv /\ CodesInv /\ [Next]_vars => CodesInv'
  <1> SUFFICES ASSUME AttemptsInv, CodesInv, [Next]_vars PROVE CodesInv'
    OBVIOUS
  <1>n. Codes \in Nat
    BY FS_CardinalityType DEF CodesInv, Codes
  <1>1. ASSUME NEW t \in bridged, Callback(t) PROVE CodesInv'
    <2>1. PICK code \in Code :
              /\ codes' = codes \union {code} /\ minted' = minted \union {code}
              /\ code.id = Codes + 1 /\ code.client = asked[code.attempt]
              /\ code.attempt \in parked /\ code.attempt \notin parked'
              /\ IsFiniteSet(minted') /\ Codes' = Codes + 1
      BY <1>1, CallbackMints
    <2>2. asked' = asked /\ parked' \subseteq parked
      BY <1>1 DEF Callback, Claim
    <2>3. \A c \in minted : c.id <= Codes /\ c.attempt \notin parked /\ c \in Code
      BY DEF CodesInv
    <2> QED BY <1>n, <2>1, <2>2, <2>3 DEF CodesInv, Code
  <1>2. ASSUME NEW c \in Clients, NEW a \in Attempts, Authorize(c, a) PROVE CodesInv'
    <2>1. UNCHANGED <<minted, codes>>
      BY <1>2 DEF Authorize, server, history
    <2>2. ASSUME NEW d \in minted PROVE d.attempt # a
      <3>1. d.client \in Clients /\ d.client = asked[d.attempt]
        BY DEF CodesInv, Code
      <3> QED BY <1>2, <3>1, SignInAssumption DEF Authorize
    <2>3. \A d \in minted : d.attempt \in Attempts
      BY DEF CodesInv, Code
    <2>4. \A d \in minted : d.client = asked'[d.attempt] /\ d.attempt \notin parked'
      BY <1>2, <2>2, <2>3 DEF Authorize, CodesInv, AttemptsInv
    <2> QED BY <2>1, <2>4 DEF CodesInv, Codes
  <1>3. ASSUME NEW a \in Attempts, StateExpires(a) PROVE CodesInv'
    BY <1>3 DEF StateExpires, server, history, CodesInv, Codes
  <1>4. CASE UNCHANGED <<asked, parked, minted>> /\ codes' \subseteq codes
    BY <1>4 DEF CodesInv, Codes
  <1> QED
    BY <1>1, <1>2, <1>3, <1>4
    DEF Next, vars, browser, server, tokens, history, Keys, Register, Session,
        MintBridgeToken, BridgeTokenExpires, CodeExpires, Exchange, PopCode, Refresh,
        VerifyToken, Revoke, AccessExpires, RefreshExpires, RotateKey, RestartGateway,
        EdgeCaches, EdgeForgets, RefreshBridgeJwk, Restart

-----------------------------------------------------------------------------
\* A step that leaves p as the one new pair, beside the refresh tokens of store.
Issued(p, code, from, store) ==
    /\ p \in Pair /\ p \notin pairs
    /\ p.id = Newest + 1 /\ p.code = code.id /\ p.from = from
    /\ p.client = code.client /\ p.user = code.user
    /\ pairs' = pairs \union {p} /\ refreshable' = store \union {p}
    /\ received' \subseteq received \union {p.id}
    /\ IsFiniteSet(pairs') /\ Newest' = Newest + 1 /\ Newest' <= MaxPairs

\* A step that leaves no new pair.
NotIssued(store) == UNCHANGED <<pairs, received>> /\ refreshable' = store

(***************************************************************************)
(* IssueTokenPair adds one row under an id that nobody has.                *)
(***************************************************************************)
LEMMA IssueAddsPair ==
    ASSUME PairsInv, NEW code, code.id \in Nat \ {0}, code.client \in Clients,
           code.user \in Users, NEW from \in 0..Newest, NEW store,
           IssueTokenPair(code, from, store)
    PROVE  \E p \in Pair : Issued(p, code, from, store)
  <1> DEFINE p == [id |-> Newest + 1, code |-> code.id, from |-> from,
                   client |-> code.client, user |-> code.user]
  <1>1. Newest \in Nat
    BY FS_CardinalityType DEF PairsInv, Newest
  <1>2. /\ Newest < MaxPairs
        /\ pairs' = pairs \union {p} /\ refreshable' = store \union {p}
        /\ received' \subseteq received \union {p.id}
    BY DEF IssueTokenPair
  <1>3. p \in Pair
    BY <1>1, <1>2, SignInAssumption DEF Pair, Ids
  <1>4. p \notin pairs
    BY <1>1 DEF PairsInv
  <1>5. IsFiniteSet(pairs') /\ Newest' = Newest + 1
    BY <1>2, <1>4, FS_AddElement DEF PairsInv, Newest
  <1>6. Newest' <= MaxPairs
    BY <1>1, <1>2, <1>5, SignInAssumption
  <1> HIDE DEF p
  <1>7. p.id = Newest + 1 /\ p.code = code.id /\ p.from = from
        /\ p.client = code.client /\ p.user = code.user
    BY DEF p
  <1> QED BY <1>2, <1>3, <1>4, <1>5, <1>6, <1>7 DEF Issued

(***************************************************************************)
(* The exchange of a code ends in its first pair or in none.               *)
(***************************************************************************)
LEMMA ExchangeIssues ==
    ASSUME CodesInv, PairsInv, NEW code \in codes, NEW c \in registered,
           NEW a \in Attempts, Exchange(code, c, a)
    PROVE  \/ \E p \in Pair : Issued(p, code, 0, refreshable)
           \/ NotIssued(refreshable)
  <1>1. code.id \in Nat \ {0} /\ code.client \in Clients /\ code.user \in Users
    BY DEF CodesInv, Code
  <1>2. 0 \in 0..Newest
    BY FS_CardinalityType DEF PairsInv, Newest
  <1>3. CASE IssueTokenPair(code, 0, refreshable)
    BY <1>1, <1>2, <1>3, IssueAddsPair
  <1>4. CASE NotIssued(refreshable)
    BY <1>4
  <1> QED BY <1>3, <1>4 DEF Exchange, IssueFails, NotIssued

(***************************************************************************)
(* A rotation ends in the successor of the pair or in none.                *)
(***************************************************************************)
LEMMA RefreshIssues ==
    ASSUME PairsInv, NEW q \in pairs, NEW c \in registered, Refresh(q, c)
    PROVE  \/ \E p \in Pair :
                 Issued(p, [id |-> q.code, client |-> q.client, user |-> q.user],
                        q.id, refreshable \ {q})
           \/ NotIssued(refreshable \ {q})
  <1> DEFINE code == [id |-> q.code, client |-> q.client, user |-> q.user]
  <1>1. code.id \in Nat \ {0} /\ code.client \in Clients /\ code.user \in Users
    BY DEF PairsInv, Pair
  <1>2. q.id \in 0..Newest
    BY FS_CardinalityType DEF PairsInv, Pair, Ids, Newest
  <1>3. CASE IssueTokenPair(code, q.id, refreshable \ {q})
    <2> HIDE DEF code
    <2>1. \E p \in Pair : Issued(p, code, q.id, refreshable \ {q})
      BY <1>1, <1>2, <1>3, IssueAddsPair
    <2> QED BY <2>1 DEF code
  <1>4. CASE NotIssued(refreshable \ {q})
    BY <1>4
  <1> QED BY <1>3, <1>4 DEF Refresh, IssueFails, NotIssued, PopRefresh

(***************************************************************************)
(* Pair ids stay dense and unique whoever redeems what.                    *)
(***************************************************************************)
LEMMA PairsStep ==
    CodesInv /\ PairsInv /\ AttemptsInv /\ [Next]_vars => PairsInv'
  <1> SUFFICES ASSUME CodesInv, PairsInv, AttemptsInv, [Next]_vars PROVE PairsInv'
    OBVIOUS
  <1>n. Newest \in Nat /\ \A p \in pairs : p \in Pair
    BY FS_CardinalityType DEF PairsInv, Newest
  <1>1. ASSUME NEW p \in Pair, NEW code, NEW from \in 0..Newest,
               NEW store \in SUBSET refreshable, Issued(p, code, from, store)
        PROVE  PairsInv'
    BY <1>1, <1>n DEF Issued, PairsInv, Pair, Ids
  <1>2. ASSUME NEW store \in SUBSET refreshable, NotIssued(store) PROVE PairsInv'
    BY <1>2 DEF NotIssued, PairsInv, Newest
  <1>3. ASSUME NEW code \in codes, NEW c \in registered, NEW a \in Attempts,
               Exchange(code, c, a)
        PROVE  PairsInv'
    BY <1>n, <1>1, <1>2, <1>3, ExchangeIssues
  <1>4. ASSUME NEW q \in pairs, NEW c \in registered, Refresh(q, c) PROVE PairsInv'
    <2>1. q.id \in 0..Newest
      BY <1>n DEF PairsInv, Pair, Ids
    <2> DEFINE code == [id |-> q.code, client |-> q.client, user |-> q.user]
    <2>2. refreshable \ {q} \in SUBSET refreshable
      OBVIOUS
    <2>3. CASE \E p \in Pair : Issued(p, code, q.id, refreshable \ {q})
      <3> HIDE DEF code
      <3> QED BY <1>1, <2>1, <2>2, <2>3
    <2>4. CASE NotIssued(refreshable \ {q})
      BY <1>2, <2>2, <2>4
    <2> QED BY <1>4, <2>3, <2>4, RefreshIssues
  <1>5. CASE pairs' = pairs /\ refreshable' \subseteq refreshable
    BY <1>5 DEF PairsInv, Newest
  <1> QED
    BY <1>3, <1>4, <1>5
    DEF Next, vars, browser, server, tokens, history, Keys, Register, Session, Authorize,
        MintBridgeToken, BridgeTokenExpires, CodeExpires, StateExpires, Callback,
        VerifyToken, Revoke, AccessExpires, RefreshExpires, RotateKey, RestartGateway,
        EdgeCaches, EdgeForgets, RefreshBridgeJwk, Restart

-----------------------------------------------------------------------------
(***************************************************************************)
(* The token cache keeps to its size: it evicts before it takes.           *)
(***************************************************************************)
LEMMA CacheStaysSmall ==
    ASSUME RefersInv, NEW p \in pairs, p.id \in 1..Newest, p.id \notin cached, CachePut(p)
    PROVE  /\ cached' \subseteq 1..Newest
           /\ IsFiniteSet(cached') /\ Cardinality(cached') <= CacheSize
  <1>0. IsFiniteSet(cached)
    BY DEF RefersInv
  <1>1. Cardinality(cached) \in Nat /\ CacheSize \in Nat
    BY <1>0, FS_CardinalityType, SignInAssumption
  <1>2. CASE Cardinality(cached) < CacheSize /\ cached' = cached \union {p.id}
    <2>1. IsFiniteSet(cached') /\ Cardinality(cached') = Cardinality(cached) + 1
      BY <1>0, <1>2, FS_AddElement
    <2> QED BY <1>1, <1>2, <2>1 DEF RefersInv
  <1>3. ASSUME NEW q \in cached, cached' = (cached \ {q}) \union {p.id}
        PROVE  /\ cached' \subseteq 1..Newest
               /\ IsFiniteSet(cached') /\ Cardinality(cached') <= CacheSize
    <2>1. IsFiniteSet(cached \ {q}) /\ Cardinality(cached \ {q}) = Cardinality(cached) - 1
      BY FS_RemoveElement DEF RefersInv
    <2> DEFINE kept == cached \ {q}
    <2>2. p.id \notin kept
      OBVIOUS
    <2>3. IsFiniteSet(kept) /\ Cardinality(kept) = Cardinality(cached) - 1 /\ cached' = kept \union {p.id}
      BY <1>3, <2>1
    <2> HIDE DEF kept
    <2>4. IsFiniteSet(kept \union {p.id}) /\ Cardinality(kept \union {p.id}) = Cardinality(kept) + 1
      BY <2>2, <2>3, FS_AddElement
    <2>5. IsFiniteSet(cached') /\ Cardinality(cached') = Cardinality(cached)
      BY <1>1, <2>3, <2>4
    <2> QED BY <1>3, <2>5 DEF RefersInv
  <1> QED BY <1>2, <1>3 DEF CachePut

(***************************************************************************)
(* Nothing refers to an id before it is handed out.                        *)
(***************************************************************************)
LEMMA RefersStep ==
    CodesInv /\ PairsInv /\ AttemptsInv /\ RefersInv /\ [Next]_vars => RefersInv'
  <1> SUFFICES ASSUME CodesInv, PairsInv, AttemptsInv, RefersInv, [Next]_vars
               PROVE  RefersInv'
    OBVIOUS
  <1>n. Newest \in Nat /\ Codes \in Nat
    BY FS_CardinalityType DEF PairsInv, CodesInv, Newest, Codes
  <1>i. \A p \in pairs : p.id \in 1..Newest
    BY <1>n DEF PairsInv, Pair, Ids
  <1>1. ASSUME NEW t \in bridged, Callback(t) PROVE RefersInv'
    <2>1. Codes' = Codes + 1
      BY <1>1, CallbackMints
    <2>2. UNCHANGED <<pairs, dead, received, cached, gone, used>>
      BY <1>1 DEF Callback, tokens
    <2> QED BY <1>n, <2>1, <2>2 DEF RefersInv, Newest
  <1>2. ASSUME NEW code \in codes, NEW c \in registered, NEW a \in Attempts,
               Exchange(code, c, a)
        PROVE  RefersInv'
    <2>1. /\ used' = used \union {<<"code", code.id>>}
          /\ UNCHANGED <<cached, dead, gone, minted>>
      BY <1>2 DEF Exchange
    <2>2. code.id \in 1..Codes
      BY <1>n DEF CodesInv, Code
    <2>3. \/ Newest' = Newest + 1 /\ received' \subseteq received \union {Newest + 1}
          \/ Newest' = Newest /\ received' = received
      BY <1>2, ExchangeIssues DEF Issued, NotIssued, Newest
    <2>4. Codes' = Codes
      BY <2>1 DEF Codes
    <2> QED BY <1>n, <2>1, <2>2, <2>3, <2>4 DEF RefersInv
  <1>3. ASSUME NEW q \in pairs, NEW c \in registered, Refresh(q, c) PROVE RefersInv'
    <2>1. /\ used' = used \union {<<"refresh", q.id>>}
          /\ UNCHANGED <<cached, dead, gone, minted>>
      BY <1>3 DEF Refresh
    <2>2. \/ Newest' = Newest + 1 /\ received' \subseteq received \union {Newest + 1}
          \/ Newest' = Newest /\ received' = received
      BY <1>3, RefreshIssues DEF Issued, NotIssued, Newest
    <2>3. Codes' = Codes
      BY <2>1 DEF Codes
    <2> QED BY <1>n, <1>i, <2>1, <2>2, <2>3 DEF RefersInv
  <1>4. ASSUME NEW p \in pairs, VerifyToken(p) PROVE RefersInv'
    <2>1. p.id \notin cached /\ CachePut(p)
      BY <1>4 DEF VerifyToken
    <2>2. UNCHANGED <<pairs, dead, received, gone, used, minted>>
      BY <1>4 DEF VerifyToken, tokens, history
    <2> QED BY <1>i, <2>1, <2>2, CacheStaysSmall DEF RefersInv, Newest, Codes
  <1>5. ASSUME NEW p \in pairs, Revoke(p) PROVE RefersInv'
    BY <1>5, <1>i DEF Revoke, server, history, RefersInv, Newest, Codes
  <1>6. ASSUME NEW p \in pairs, AccessExpires(p) PROVE RefersInv'
    <2>1. /\ cached' = cached \ {p.id} /\ dead' = dead \union {p.id}
          /\ UNCHANGED <<pairs, received, gone, used, minted>>
      BY <1>6 DEF AccessExpires, history
    <2>2. IsFiniteSet(cached') /\ Cardinality(cached') <= Cardinality(cached)
      <3>1. IsFiniteSet(cached) /\ cached' \in SUBSET cached
        BY <2>1 DEF RefersInv
      <3> QED BY <3>1, FS_Subset
    <2>3. Cardinality(cached') \in Nat /\ Cardinality(cached) \in Nat /\ CacheSize \in Nat
      BY <2>2, FS_CardinalityType, SignInAssumption DEF RefersInv
    <2> QED BY <1>i, <2>1, <2>2, <2>3 DEF RefersInv, Newest, Codes
  <1>7. ASSUME NEW p \in refreshable, RefreshExpires(p) PROVE RefersInv'
    BY <1>7, <1>i DEF RefreshExpires, tokens, PairsInv, RefersInv, Newest, Codes
  <1>8. CASE Restart
    <2>1. /\ cached' = {} /\ gone' = gone \union {p.id : p \in refreshable}
          /\ UNCHANGED <<pairs, dead, received, used, minted>>
      BY <1>8 DEF Restart, tokens
    <2>2. IsFiniteSet({}) /\ Cardinality({}) = 0
      BY FS_EmptySet
    <2>3. {p.id : p \in refreshable} \subseteq 1..Newest
      BY <1>i DEF PairsInv
    <2> QED BY <2>1, <2>2, <2>3, SignInAssumption DEF RefersInv, Newest, Codes
  <1>9. CASE UNCHANGED <<pairs, dead, received, cached, gone, used, minted>>
    BY <1>9 DEF RefersInv, Newest, Codes
  <1> QED
    BY <1>1, <1>2, <1>3, <1>4, <1>5, <1>6, <1>7, <1>8, <1>9
    DEF Next, vars, browser, server, tokens, history, Keys, Register, Session, Authorize,
        MintBridgeToken, BridgeTokenExpires, CodeExpires, StateExpires, RotateKey,
        RestartGateway, EdgeCaches, EdgeForgets, RefreshBridgeJwk

-----------------------------------------------------------------------------
(***************************************************************************)
(* A pair only ever continues a line at its end: a code in the store has   *)
(* no pair, a pair whose refresh token is in the store no successor.       *)
(***************************************************************************)
LEMMA LineStep == SignInInv /\ [Next]_vars => LineInv'
  <1> SUFFICES ASSUME SignInInv, [Next]_vars PROVE LineInv'
    OBVIOUS
  <1>inv. AttemptsInv /\ CodesInv /\ PairsInv /\ LineInv /\ FreshInv
    BY DEF SignInInv
  <1>n. Newest \in Nat /\ \A p \in pairs : p.id \in 1..Newest /\ p.from \in 0..Newest
    BY <1>inv, FS_CardinalityType DEF PairsInv, Pair, Ids, Newest
  <1>r. refreshable \subseteq pairs
    BY <1>inv DEF PairsInv
  <1>1. ASSUME NEW store \in SUBSET refreshable, NotIssued(store), minted' = minted
        PROVE  LineInv'
    BY <1>1, <1>inv DEF NotIssued, LineInv
  <1>2. ASSUME NEW code \in codes, NEW c \in registered, NEW a \in Attempts,
               Exchange(code, c, a)
        PROVE  LineInv'
    <2>m. minted' = minted /\ code \in minted
      BY <1>2, <1>inv DEF Exchange, CodesInv
    <2>1. ASSUME NEW p \in Pair, Issued(p, code, 0, refreshable) PROVE LineInv'
      <3>1. /\ pairs' = pairs \union {p} /\ refreshable' = refreshable \union {p}
            /\ p.id = Newest + 1 /\ p.from = 0 /\ p.code = code.id
            /\ p.client = code.client /\ p.user = code.user
        BY <2>1 DEF Issued
      <3>2. \A q \in pairs : q.code # p.code
        BY <3>1, <1>inv DEF FreshInv
      <3>3. \A q \in pairs', s \in refreshable' : q.from # s.id
        BY <3>1, <1>n, <1>r, <1>inv DEF LineInv
      <3> QED BY <2>m, <3>1, <3>2, <3>3, <1>inv DEF LineInv
    <2> QED BY <1>1, <1>2, <1>inv, <2>m, <2>1, ExchangeIssues
  <1>3. ASSUME NEW q \in pairs, NEW c \in registered, Refresh(q, c) PROVE LineInv'
    <2> DEFINE code == [id |-> q.code, client |-> q.client, user |-> q.user]
    <2>m. minted' = minted /\ q \in refreshable
      BY <1>3 DEF Refresh
    <2>1. ASSUME NEW p \in Pair, Issued(p, code, q.id, refreshable \ {q}) PROVE LineInv'
      <3>1. /\ pairs' = pairs \union {p} /\ refreshable' = (refreshable \ {q}) \union {p}
            /\ p.id = Newest + 1 /\ p.from = q.id /\ p.code = q.code
            /\ p.client = q.client /\ p.user = q.user
        BY <2>1 DEF Issued
      <3>2. \A o \in pairs : o.from # p.from
        BY <3>1, <2>m, <1>inv DEF LineInv
      <3>3. \A o \in pairs', s \in refreshable' : o.from # s.id
        <4>1. \A s \in refreshable \ {q} : s.id # q.id
          BY <1>inv, <1>r DEF PairsInv
        <4> QED BY <3>1, <4>1, <1>n, <1>r, <1>inv DEF LineInv
      <3> QED BY <2>m, <3>1, <3>2, <3>3, <1>inv DEF LineInv
    <2>2. CASE NotIssued(refreshable \ {q})
      BY <1>1, <2>2, <2>m
    <2> QED BY <1>3, <1>inv, <2>1, <2>2, RefreshIssues
  <1>4. ASSUME NEW t \in bridged, Callback(t) PROVE LineInv'
    <2>1. minted \subseteq minted' /\ UNCHANGED <<pairs, refreshable>>
      BY <1>4 DEF Callback, MintCode, tokens
    <2> QED BY <2>1, <1>inv DEF LineInv
  <1>5. CASE UNCHANGED <<pairs, minted>> /\ refreshable' \subseteq refreshable
    BY <1>5, <1>inv DEF LineInv
  <1> QED
    BY <1>2, <1>3, <1>4, <1>5
    DEF Next, vars, browser, server, tokens, history, Keys, Register, Session, Authorize,
        MintBridgeToken, BridgeTokenExpires, CodeExpires, StateExpires, VerifyToken, Revoke,
        AccessExpires, RefreshExpires, RotateKey, RestartGateway, EdgeCaches, EdgeForgets,
        RefreshBridgeJwk, Restart

(***************************************************************************)
(* What is presented leaves the process in the same step, and what leaves  *)
(* otherwise has expired or is lost.                                       *)
(***************************************************************************)
LEMMA FreshStep == SignInInv /\ [Next]_vars => FreshInv'
  <1> SUFFICES ASSUME SignInInv, [Next]_vars PROVE FreshInv'
    OBVIOUS
  <1>inv. AttemptsInv /\ CodesInv /\ PairsInv /\ RefersInv /\ LineInv /\ FreshInv
    BY DEF SignInInv
  <1>n. Codes \in Nat /\ \A c \in minted : c.id \in 1..Codes
    BY <1>inv, FS_CardinalityType DEF CodesInv, Code, Codes
  <1>c. codes \subseteq minted
    BY <1>inv DEF CodesInv
  <1>1. ASSUME NEW t \in bridged, Callback(t) PROVE FreshInv'
    <2>1. PICK code \in Code : codes' = codes \union {code} /\ code.id = Codes + 1
      BY <1>1, <1>inv, CallbackMints
    <2>2. UNCHANGED <<pairs, refreshable, used, gone>>
      BY <1>1 DEF Callback, tokens
    <2>3. <<"code", Codes + 1>> \notin used
      BY <1>n, <1>inv DEF RefersInv
    <2>4. \A p \in pairs : p.code # Codes + 1
      BY <1>n, <1>inv DEF LineInv
    <2> QED BY <2>1, <2>2, <2>3, <2>4, <1>inv DEF FreshInv
  <1>2. ASSUME NEW code \in codes, NEW c \in registered, NEW a \in Attempts,
               Exchange(code, c, a)
        PROVE  FreshInv'
    <2>1. /\ codes' = codes \ {code} /\ used' = used \union {<<"code", code.id>>}
          /\ gone' = gone
      BY <1>2 DEF Exchange, PopCode
    <2>2. \A d \in codes' : d.id # code.id
      BY <2>1, <1>c, <1>inv DEF CodesInv
    <2>3. \/ /\ UNCHANGED pairs /\ refreshable' = refreshable
          \/ \E p \in Pair : /\ pairs' = pairs \union {p} /\ p.code = code.id
                             /\ refreshable' = refreshable \union {p}
      BY <1>2, <1>inv, ExchangeIssues DEF Issued, NotIssued
    <2> QED BY <2>1, <2>2, <2>3, <1>inv DEF FreshInv
  <1>3. ASSUME NEW q \in pairs, NEW c \in registered, Refresh(q, c) PROVE FreshInv'
    <2>1. /\ UNCHANGED <<codes, gone>> /\ used' = used \union {<<"refresh", q.id>>}
      BY <1>3 DEF Refresh
    <2>2. \A d \in codes : <<"code", d.id>> \notin used'
      BY <2>1, <1>inv DEF FreshInv
    <2>3. \/ /\ UNCHANGED pairs /\ refreshable' = refreshable \ {q}
          \/ \E p \in Pair : /\ pairs' = pairs \union {p} /\ p.code = q.code
                             /\ refreshable' = (refreshable \ {q}) \union {p}
      BY <1>3, <1>inv, RefreshIssues DEF Issued, NotIssued
    <2> QED BY <2>1, <2>2, <2>3, <1>inv DEF FreshInv
  <1>4. ASSUME NEW p \in refreshable, RefreshExpires(p) PROVE FreshInv'
    BY <1>4, <1>inv DEF RefreshExpires, tokens, PairsInv, FreshInv
  <1>5. CASE Restart
    <2>1. /\ codes' = {} /\ gone' = gone \union {p.id : p \in refreshable}
          /\ UNCHANGED <<pairs, used>>
      BY <1>5 DEF Restart, tokens
    <2> QED BY <2>1, <1>inv DEF FreshInv
  <1>6. CASE UNCHANGED <<pairs, refreshable, used, gone>> /\ codes' \subseteq codes
    BY <1>6, <1>inv DEF FreshInv
  <1> QED
    BY <1>1, <1>2, <1>3, <1>4, <1>5, <1>6
    DEF Next, vars, browser, server, tokens, history, Keys, Register, Session, Authorize,
        MintBridgeToken, BridgeTokenExpires, CodeExpires, StateExpires, VerifyToken, Revoke,
        AccessExpires, RotateKey, RestartGateway, EdgeCaches, EdgeForgets, RefreshBridgeJwk

-----------------------------------------------------------------------------
(***************************************************************************)
(* The invariant of the sign-in: what the properties below rest on.        *)
(***************************************************************************)
LEMMA SignInInvariant == Spec => []SignInInv
  <1>1. SignInInv /\ [Next]_vars => SignInInv'
    BY KeysStep, AttemptsStep, CodesStep, PairsStep, RefersStep, LineStep, FreshStep
    DEF SignInInv
  <1> QED BY SignInInit, <1>1, PTL DEF Spec

(***************************************************************************)
(* Type correctness: the tables refer to each other's rows only, the       *)
(* process keeps nothing but what was made, and its cache keeps its size.  *)
(***************************************************************************)
THEOREM SignInTypeCorrect == Spec => []TypeOK
  <1>1. SignInInv => TypeOK
    BY DEF SignInInv, KeysInv, KeyTypes, AttemptsInv, CodesInv, PairsInv, RefersInv, TypeOK
  <1> QED BY SignInInvariant, <1>1, PTL

(***************************************************************************)
(* Every token descends, link by link, from one authorization by its own   *)
(* client, whatever is repeated, refused, rotated or lost: /token issues   *)
(* only for a code or refresh token that it has just taken out.            *)
(***************************************************************************)
THEOREM TokensDescendHolds == Spec => []TokensDescend
  <1>1. SignInInv => TokensDescend
    BY DEF SignInInv, CodesInv, LineInv, TokensDescend
  <1> QED BY SignInInvariant, <1>1, PTL

(***************************************************************************)
(* A code is good once, and a line that cannot be refreshed has lost its   *)
(* refresh token to an expiry, a restart or a presentation: _store_pop()   *)
(* takes it out before any check, and nothing else does.                   *)
(***************************************************************************)
THEOREM OneShotHolds == Spec => []OneShot
  <1>1. SignInInv => OneShot
    BY DEF SignInInv, FreshInv, OneShot
  <1> QED BY SignInInvariant, <1>1, PTL

----------------------------------------------------------------------------
(* The directory.  First, what a request is in the middle of.              *)

Names    == IdentifiersOf(feed)
FeedIds  == {r.id : r \in feed}
Alias    == [user : Members \union {NoUser}, auto : BOOLEAN]
Partial(S, T) == UNION {[X -> T] : X \in SUBSET S}

\* What a request is in the middle of, by operation.
Reconciling == [op : {"task", "list"}, step : {"upsert"}, pend : Partial(Names, Alias), todo : Seq(Names)]
Listing     == [op : {"list"}, step : {"unmapped", "served"}, pend : Partial(Names, Alias),
                roster : SUBSET Names, unmapped : SUBSET Names]
Mapping     == [op : {"map"}, step : {"map"}, pend : {Nothing}, user : Members, key : Names]
Changing    == [op : {"role"}, step : {"target", "count", "write"}, pend : {Nothing},
                user : Members, new : {"member", "admin"}, seen : SUBSET Members]
Classifying == [op : {"classify"}, step : {"batch"}, pend : {Nothing},
                given : Partial(FeedIds, Labels), todo : Seq(feed)]
Reading     == [op : {"detail"}, step : {"topics", "total", "served"}, pend : {Nothing},
                user : Members, moved : BOOLEAN, classified : Nat, total : Nat]

DirectoryOps == {Idle} \union Reconciling \union Listing \union Mapping \union Changing
                       \union Classifying \union Reading

\* A walk of Dashboard, which writes nothing.
UsageWalk(r)    == r = [op |-> "usage", step |-> r.step, pend |-> Nothing, window |-> r.window,
                        filter |-> r.filter, cursor |-> r.cursor, seen |-> r.seen, first |-> r.first]
SessionsWalk(r) == r = [op |-> "sessions", step |-> r.step, pend |-> Nothing, sources |-> r.sources,
                        cursor |-> r.cursor, seen |-> r.seen, first |-> r.first, opened |-> r.opened]
Walk(r) == (UsageWalk(r) \/ SessionsWalk(r)) /\ r.step \in {"page", "served"}

Tables == /\ records \subseteq feed /\ IsFiniteSet(feed)
          /\ \A x, y \in feed : x.id = y.id => x = y
          /\ staff \in [Members -> Roles]
          /\ aliases \in [Names -> Alias]
          /\ topics \in Partial(FeedIds, Labels)
          /\ left \in Nat /\ raced \in BOOLEAN
          /\ DOMAIN req = Procs
          /\ \A p \in Procs : req[p] \in DirectoryOps \/ Walk(req[p])

\* A link made by itself.
Linked(k, v) == v.auto /\ v.user # NoUser => Email[v.user] = k[2] /\ staff[v.user] # "absent"

\* What a reconcile wrote, and has not committed, under the row's lock.
WritesOk(r) ==
    /\ r.step = "upsert" => r.todo \in Seq(Identifiers)
    /\ \A k \in DOMAIN r.pend :
           /\ k \in Identifiers
           /\ r.pend[k].auto \/ r.pend[k].user # NoUser
           /\ r.pend[k] = aliases[k] \/ (r.pend[k].auto /\ aliases[k].user = NoUser)
           /\ Linked(k, r.pend[k])

ListOk(r) ==
    r.op = "list" =>
      \A k \in DOMAIN r.pend :
        /\ r.step \in {"unmapped", "served"} => (r.pend[k].user # NoUser <=> k \in r.roster)
        /\ r.step = "served" => (r.pend[k].user = NoUser <=> k \in r.unmapped)

\* A role that is about to be written leaves an admin, if it saw one.
RoleOk(r) == r.step = "write" => r.new = "admin" \/ r.seen \ {r.user} # {} \/ raced

ClassIds == {r.id : r \in Classifiable}

ClassifyOk(r) == r.op = "classify" => r.todo \in Seq(Classifiable) /\ DOMAIN r.given \subseteq ClassIds

OfUser(u) == {r \in records : /\ r.source = "mcp" /\ ActorKey(r) # NoKey
                              /\ aliases[KeyOf(r)].user = u}

ReadOk(r) ==
    r.op = "detail" /\ ~r.moved =>
        /\ r.step = "total" => r.classified <= Cardinality(OfUser(r.user) \intersect Classifiable)
        /\ r.step = "served" => r.classified <= r.total

RequestOk(r) == WritesOk(r) /\ ListOk(r) /\ RoleOk(r) /\ ClassifyOk(r) /\ ReadOk(r)

Exclusive == \A p, q \in Procs : p # q => DOMAIN req[p].pend \intersect DOMAIN req[q].pend = {}

DirInv == /\ Tables /\ Exclusive
          /\ \A p \in Procs : RequestOk(req[p])
          /\ \A k \in Names : Linked(k, aliases[k])
          /\ DOMAIN topics \subseteq ClassIds
          /\ Admins = {} => raced

\* The step, or the operation, of a request tells its shape.
LEMMA DirOps ==
    ASSUME NEW p \in Procs, Tables
    PROVE  /\ At(p, "idle") => req[p] = Idle
           /\ At(p, "upsert") => req[p] \in Reconciling
           /\ At(p, "unmapped") => req[p] \in Listing
           /\ At(p, "map") => req[p] \in Mapping
           /\ req[p].step \in {"target", "count", "write"} => req[p] \in Changing
           /\ At(p, "batch") => req[p] \in Classifying
           /\ req[p].step \in {"topics", "total"} => req[p] \in Reading
           /\ req[p].op = "list" => req[p] \in Reconciling \union Listing
           /\ req[p].op = "role" => req[p] \in Changing
           /\ req[p].op = "classify" => req[p] \in Classifying
           /\ req[p].op = "detail" => req[p] \in Reading
           /\ req[p].pend \in Partial(Names, Alias)
           /\ req[p].op \notin {"task", "list"} => req[p].pend = Nothing
  <1>1. req[p] \in DirectoryOps \/ Walk(req[p])
    BY DEF Tables
  <1>2. Nothing \in Partial(Names, Alias)
    <2>1. Nothing \in [{} -> Alias]
      BY DEF Nothing
    <2> QED BY <2>1 DEF Partial
  <1> QED BY <1>1, <1>2 DEF DirectoryOps, Walk, UsageWalk, SessionsWalk, At, Idle, Reconciling, Listing,
                            Mapping, Changing, Classifying, Reading


\* What the invariant says of a step is about the request of one process, when it is all that moves.
LEMMA Quiet ==
    ASSUME DirInv, NEW p \in Procs,
           req' = [req EXCEPT ![p] = req'[p]],
           req'[p] \in DirectoryOps \/ Walk(req'[p]),
           RequestOk(req'[p]),
           \A q \in Procs \ {p} : DOMAIN req'[p].pend \intersect DOMAIN req[q].pend = {},
           left' \in Nat, UNCHANGED <<feed, records, people, raced>>
    PROVE  DirInv'
  <1>1. /\ feed' = feed /\ records' = records /\ staff' = staff /\ aliases' = aliases
        /\ topics' = topics /\ raced' = raced
    BY DEF people
  <1>2. /\ Names' = Names /\ FeedIds' = FeedIds /\ Identifiers' = Identifiers
        /\ Classifiable' = Classifiable /\ ClassIds' = ClassIds /\ Admins' = Admins
    BY <1>1 DEF Names, FeedIds, Identifiers, Classifiable, ClassIds, Admins
  <1>3. DirectoryOps' = DirectoryOps
    BY <1>2 DEF DirectoryOps, Reconciling, Listing, Mapping, Changing, Classifying, Reading
  <1>4. \A q \in Procs : q # p => req'[q] = req[q]
    BY DEF DirInv, Tables
  <1>5. Tables'
    BY <1>1, <1>2, <1>3, <1>4 DEF DirInv, Tables, Walk, UsageWalk, SessionsWalk
  <1>6. Exclusive'
    BY <1>4 DEF DirInv, Exclusive
  <1>7. ASSUME NEW q \in Procs
        PROVE  RequestOk(req[q])'
    <2>1. RequestOk(req'[q])
      BY <1>4 DEF DirInv
    <2> QED BY <1>1, <1>2, <2>1 DEF RequestOk, WritesOk, ListOk, RoleOk, ClassifyOk, ReadOk, OfUser,
                    Linked
  <1> QED BY <1>1, <1>2, <1>5, <1>6, <1>7 DEF DirInv, Linked

\* A request that writes nothing, with nothing to remember.
LEMMA Blank ==
    ASSUME NEW r, r.pend = Nothing, r.op \notin {"list", "classify", "detail"},
           r.step \notin {"write", "upsert"}
    PROVE  RequestOk(r)
  BY DEF RequestOk, WritesOk, ListOk, RoleOk, ClassifyOk, ReadOk, Nothing

\* What Keep and Begin write is the request of one process.
LEMMA Writes ==
    ASSUME NEW p \in Procs, NEW r, Tables, Keep(p, r) \/ Begin(p, r)
    PROVE  req'[p] = r /\ req' = [req EXCEPT ![p] = req'[p]] /\ left' \in Nat
  BY DEF Tables, Keep, Begin

\* A request that ends leaves nothing behind.
LEMMA EndStep ==
    ASSUME DirInv, NEW p \in Procs, Ends(p), UNCHANGED <<feed, records, people, raced>>
    PROVE  DirInv'
  <1>1. req'[p] = Idle /\ req' = [req EXCEPT ![p] = req'[p]] /\ left' \in Nat
    BY Writes DEF Ends, DirInv
  <1>2. RequestOk(Idle) /\ DOMAIN Idle.pend = {} /\ Idle \in DirectoryOps
    BY Blank DEF Idle, Nothing, DirectoryOps
  <1> QED BY <1>1, <1>2, Quiet

----------------------------------------------------------------------------

\* A request begins with nothing written.
LEMMA StartMapStep ==
    ASSUME DirInv, NEW p \in Procs, NEW a \in Members, NEW u \in Members, NEW k \in DOMAIN aliases,
           StartMap(p, a, u, k)
    PROVE  DirInv'
  <1> DEFINE r == [op |-> "map", step |-> "map", pend |-> Nothing, user |-> u, key |-> k]
  <1>1. req'[p] = r /\ req' = [req EXCEPT ![p] = req'[p]] /\ left' \in Nat
    BY Writes DEF StartMap, DirInv
  <1>2. RequestOk(r)
    BY Blank
  <1>3. DOMAIN r.pend = {} /\ r \in DirectoryOps
    BY DEF Nothing, DirectoryOps, Mapping, DirInv, Tables
  <1> QED BY <1>1, <1>2, <1>3, Quiet DEF StartMap

\* An admin asks for a change of role.
LEMMA StartRoleStep ==
    ASSUME DirInv, NEW p \in Procs, NEW a \in Members, NEW u \in Members,
           NEW new \in {"member", "admin"}, StartRole(p, a, u, new)
    PROVE  DirInv'
  <1> DEFINE r == [op |-> "role", step |-> "target", pend |-> Nothing,
                   user |-> u, new |-> new, seen |-> Admins]
  <1>1. req'[p] = r /\ req' = [req EXCEPT ![p] = req'[p]] /\ left' \in Nat
    BY Writes DEF StartRole, DirInv
  <1>2. RequestOk(r)
    BY Blank
  <1>3. DOMAIN r.pend = {} /\ r \in DirectoryOps
    BY DEF Nothing, DirectoryOps, Changing, Admins
  <1> QED BY <1>1, <1>2, <1>3, Quiet DEF StartRole

\* A member's page begins: nothing is counted yet.
LEMMA StartDetailStep ==
    ASSUME DirInv, NEW p \in Procs, NEW u \in Members, StartDetail(p, u)
    PROVE  DirInv'
  <1> DEFINE r == [op |-> "detail", step |-> "topics", pend |-> Nothing, user |-> u,
                   moved |-> FALSE, classified |-> 0, total |-> 0]
  <1>1. req'[p] = r /\ req' = [req EXCEPT ![p] = req'[p]] /\ left' \in Nat
    BY Writes DEF StartDetail, DirInv
  <1>2. RequestOk(r)
    BY DEF RequestOk, WritesOk, ListOk, RoleOk, ClassifyOk, ReadOk, Nothing
  <1>3. DOMAIN r.pend = {} /\ r \in DirectoryOps
    BY DEF Nothing, DirectoryOps, Reading
  <1> QED BY <1>1, <1>2, <1>3, Quiet DEF StartDetail

\* A walk begins.
LEMMA StartWalkStep ==
    ASSUME DirInv, NEW p \in Procs,
           \/ \E w \in Windows, f \in UsageFilters : StartUsage(p, w, f)
           \/ \E sources \in {{}, {"mcp"}} : StartSessions(p, sources)
    PROVE  DirInv'
  <1>1. ASSUME NEW w \in Windows, NEW f \in UsageFilters, StartUsage(p, w, f)
        PROVE  DirInv'
    <2> DEFINE r == [op |-> "usage", step |-> "page", pend |-> Nothing, window |-> w, filter |-> f,
                     cursor |-> NoCursor, seen |-> <<>>, first |-> UsageRows(records, w, f)]
    <2>1. req'[p] = r /\ req' = [req EXCEPT ![p] = req'[p]] /\ left' \in Nat
      BY <1>1, Writes DEF StartUsage, DirInv
    <2>2. RequestOk(r)
      BY Blank
    <2>3. DOMAIN r.pend = {} /\ Walk(r)
      BY DEF Nothing, Walk, UsageWalk
    <2> QED BY <1>1, <2>1, <2>2, <2>3, Quiet DEF StartUsage
  <1>2. ASSUME NEW sources \in {{}, {"mcp"}}, StartSessions(p, sources)
        PROVE  DirInv'
    <2> DEFINE r == [op |-> "sessions", step |-> "page", pend |-> Nothing, sources |-> sources,
                     cursor |-> NoCursor, seen |-> <<>>, first |-> Sessions(sources), opened |-> {}]
    <2>1. req'[p] = r /\ req' = [req EXCEPT ![p] = req'[p]] /\ left' \in Nat
      BY <1>2, Writes DEF StartSessions, DirInv
    <2>2. RequestOk(r)
      BY Blank
    <2>3. DOMAIN r.pend = {} /\ Walk(r)
      BY DEF Nothing, Walk, SessionsWalk
    <2> QED BY <1>2, <2>1, <2>2, <2>3, Quiet DEF StartSessions
  <1> QED BY <1>1, <1>2

\* An order of a set is a sequence over it.
LEMMA OrderOfSet ==
    ASSUME NEW S, IsFiniteSet(S), NEW order \in SetToSeqs(S)
    PROVE  order \in Seq(S)
  <1>1. Cardinality(S) \in Nat
    BY FS_CardinalityType
  <1> QED BY <1>1 DEF SetToSeqs

\* A part of a sequence is over the same set.
LEMMA SubSeqOf ==
    ASSUME NEW S, NEW seq \in Seq(S), NEW m \in Nat \ {0}, NEW n \in Nat, n <= Len(seq)
    PROVE  SubSeq(seq, m, n) \in Seq(S)
  BY SubSeqProperties, ElementOfSeq

\* The least of two numbers.
LEMMA MinOfTwo ==
    ASSUME NEW m \in Nat, NEW n \in Nat
    PROVE  Min({m, n}) \in Nat /\ Min({m, n}) <= n /\ Min({m, n}) <= m /\ Min({m, n}) \in {m, n}
  BY DEF Min

\* The tables are as finite as what may arrive.
LEMMA Finite ==
    ASSUME Tables
    PROVE  /\ IsFiniteSet(records) /\ IsFiniteSet(Classifiable) /\ IsFiniteSet(Identifiers)
           /\ Identifiers \subseteq Names /\ ClassIds \subseteq FeedIds /\ Classifiable \subseteq feed
           /\ IsFiniteSet(Admins) /\ Admins \subseteq Members
  <1>1. IsFiniteSet(records)
    BY FS_Subset DEF Tables
  <1>2. IsFiniteSet(Classifiable)
    BY <1>1, FS_Subset DEF Classifiable
  <1> DEFINE named == {r \in records : r.source \in ActorSources /\ ActorKey(r) # NoKey}
  <1>3. IsFiniteSet(named)
    BY <1>1, FS_Subset
  <1>4. IsFiniteSet({KeyOf(r) : r \in named})
    <2> DEFINE f == [r \in named |-> KeyOf(r)]
    <2>1. f \in Surjection(named, {KeyOf(r) : r \in named})
      BY DEF Surjection
    <2> HIDE DEF f
    <2> QED BY <1>3, <2>1, FS_Surjection
  <1>5. IsFiniteSet(Identifiers)
    BY <1>4 DEF Identifiers, IdentifiersOf
  <1>6. Identifiers \subseteq Names
    BY DEF Tables, Identifiers, IdentifiersOf, Names
  <1>7. Classifiable \subseteq feed /\ ClassIds \subseteq FeedIds
    BY DEF Tables, Classifiable, ClassIds, FeedIds
  <1>8. IsFiniteSet(Admins) /\ Admins \subseteq Members
    BY FS_Subset, DirectoryAssumption DEF Admins
  <1> QED BY <1>1, <1>2, <1>5, <1>6, <1>7, <1>8

\* A reconcile begins with the names that occur.
LEMMA StartReconcileStep ==
    ASSUME DirInv, NEW p \in Procs, NEW op \in {"task", "list"}, StartReconcile(p, op)
    PROVE  DirInv'
  <1>1. PICK order \in SetToSeqs(Identifiers) :
            Begin(p, [op |-> op, step |-> "upsert", pend |-> Nothing, todo |-> order])
    BY DEF StartReconcile
  <1> DEFINE r == [op |-> op, step |-> "upsert", pend |-> Nothing, todo |-> order]
  <1>2. req'[p] = r /\ req' = [req EXCEPT ![p] = req'[p]] /\ left' \in Nat
    BY <1>1, Writes DEF DirInv
  <1>3. order \in Seq(Identifiers) /\ order \in Seq(Names)
    BY OrderOfSet, Finite, SeqMonotonic DEF DirInv
  <1>4. RequestOk(r)
    BY <1>3 DEF RequestOk, WritesOk, ListOk, RoleOk, ClassifyOk, ReadOk, Nothing
  <1>5. Nothing \in Partial(Names, Alias)
    <2>1. Nothing \in [{} -> Alias]
      BY DEF Nothing
    <2> QED BY <2>1 DEF Partial
  <1>6. DOMAIN r.pend = {} /\ r \in DirectoryOps
    BY <1>3, <1>5 DEF Nothing, DirectoryOps, Reconciling
  <1> QED BY <1>2, <1>4, <1>6, Quiet DEF StartReconcile

\* A classification begins with summaries that are there.
LEMMA StartClassifyStep ==
    ASSUME DirInv, NEW p \in Procs, StartClassify(p)
    PROVE  DirInv'
  <1> DEFINE S == {r \in Classifiable : r.id \notin DOMAIN topics}
  <1>1. PICK order \in NewestFirst(S) :
            Begin(p, [op |-> "classify", step |-> "batch", pend |-> Nothing, given |-> Nothing,
                      todo |-> SubSeq(order, 1, Min({RunLimit, Len(order)}))])
    BY DEF StartClassify
  <1> DEFINE todo == SubSeq(order, 1, Min({RunLimit, Len(order)}))
             r    == [op |-> "classify", step |-> "batch", pend |-> Nothing, given |-> Nothing,
                      todo |-> todo]
  <1>2. req'[p] = r /\ req' = [req EXCEPT ![p] = req'[p]] /\ left' \in Nat
    BY <1>1, Writes DEF DirInv
  <1>3. order \in Seq(Classifiable)
    <2>1. order \in SetToSeqs(S) /\ IsFiniteSet(S)
      BY Finite, FS_Subset DEF NewestFirst, DirInv
    <2>2. order \in Seq(S)
      BY <2>1, OrderOfSet
    <2> QED BY <2>2, SeqMonotonic
  <1>4. todo \in Seq(Classifiable)
    <2>1. Len(order) \in Nat /\ RunLimit \in Nat
      BY <1>3, LenProperties, DirectoryAssumption
    <2> DEFINE n == Min({RunLimit, Len(order)})
    <2>2. n \in Nat /\ n <= Len(order)
      BY <2>1, MinOfTwo
    <2> HIDE DEF n
    <2>3. SubSeq(order, 1, n) \in Seq(Classifiable)
      BY <1>3, <2>2, SubSeqOf
    <2> QED BY <2>3 DEF n
  <1>5. todo \in Seq(feed)
    BY <1>4, Finite, SeqMonotonic DEF DirInv
  <1>6. Nothing \in Partial(FeedIds, Labels)
    <2>1. Nothing \in [{} -> Labels]
      BY DEF Nothing
    <2> QED BY <2>1 DEF Partial
  <1> HIDE DEF todo
  <1>7. RequestOk(r)
    BY <1>4 DEF RequestOk, WritesOk, ListOk, RoleOk, ClassifyOk, ReadOk, Nothing
  <1>8. DOMAIN r.pend = {} /\ r \in DirectoryOps
    BY <1>5, <1>6 DEF Nothing, DirectoryOps, Classifying
  <1> QED BY <1>2, <1>7, <1>8, Quiet DEF StartClassify

----------------------------------------------------------------------------

\* A reconcile goes on to the next name, whose row no other holds.
LEMMA ReconciledOk ==
    ASSUME Tables, NEW k \in Names, \A j \in Names : Linked(j, aliases[j])
    PROVE  /\ Reconciled(k) \in Alias
           /\ Reconciled(k).auto \/ Reconciled(k).user # NoUser
           /\ Reconciled(k) = aliases[k] \/ (Reconciled(k).auto /\ aliases[k].user = NoUser)
           /\ Linked(k, Reconciled(k))
  <1>1. PICK user \in Members \union {NoUser}, auto \in BOOLEAN :
            aliases[k] = [user |-> user, auto |-> auto]
    BY DEF Tables, Alias
  <1>2. Linked(k, aliases[k]) /\ NoUser \notin Members
    BY DirectoryAssumption
  <1> DEFINE m == MatchOf(k[2])
  <1>3. m = NoUser \/ (m \in Members /\ staff[m] # "absent" /\ Email[m] = k[2])
    <2> DEFINE S == {u \in Members : staff[u] # "absent" /\ Email[u] = k[2]}
    <2>1. IsFiniteSet(S)
      BY FS_Subset, DirectoryAssumption
    <2>2. Cardinality(S) = 1 => S # {}
      BY <2>1, FS_EmptySet
    <2>3. m = IF Cardinality(S) = 1 THEN CHOOSE u \in S : TRUE ELSE NoUser
      BY DEF MatchOf
    <2>4. m = NoUser \/ m \in S
      BY <2>2, <2>3
    <2> QED BY <2>4
  <1>4. Reconciled(k) = IF aliases[k] = NoAlias \/ (aliases[k].auto /\ aliases[k].user = NoUser /\ m # NoUser)
                        THEN [user |-> m, auto |-> TRUE] ELSE aliases[k]
    BY DEF Reconciled
  <1> HIDE DEF m
  <1>5. CASE Reconciled(k) = [user |-> m, auto |-> TRUE] /\ aliases[k].user = NoUser
    BY <1>1, <1>2, <1>3, <1>5 DEF Linked, Alias
  <1>6. CASE Reconciled(k) = aliases[k] /\ aliases[k] # NoAlias
    <2>1. auto \/ user # NoUser
      BY <1>1, <1>6 DEF NoAlias
    <2>2. aliases[k] \in Alias /\ (aliases[k].auto \/ aliases[k].user # NoUser)
      BY <1>1, <2>1 DEF Alias
    <2> QED BY <1>2, <1>6, <2>2
  <1> QED BY <1>4, <1>5, <1>6 DEF NoAlias

\* An upsert adds the row that it has locked.
LEMMA UpsertStep ==
    ASSUME DirInv, NEW p \in Procs, Upsert(p)
    PROVE  DirInv'
  <1>1. req[p] \in Reconciling /\ req[p].todo # <<>> /\ WritesOk(req[p])
    BY DirOps DEF DirInv, Upsert, RequestOk
  <1>2. PICK op \in {"task", "list"}, pend \in Partial(Names, Alias), todo \in Seq(Names) :
            req[p] = [op |-> op, step |-> "upsert", pend |-> pend, todo |-> todo]
    BY <1>1 DEF Reconciling
  <1>3. todo \in Seq(Identifiers) /\ todo # <<>>
    BY <1>1, <1>2 DEF WritesOk
  <1> DEFINE k    == Head(todo)
             more == Over([x \in {k} |-> Reconciled(x)], pend)
             r    == [op |-> op, step |-> "upsert", pend |-> more, todo |-> Tail(todo)]
  <1>4. k \in Identifiers /\ k \in Names /\ Tail(todo) \in Seq(Identifiers) /\ Tail(todo) \in Seq(Names)
    BY <1>3, HeadTailProperties, Finite DEF DirInv
  <1>5. Keep(p, r)
    <2>1. Keep(p, [req[p] EXCEPT !.todo = Tail(todo), !.pend = more])
      BY <1>2 DEF Upsert
    <2> HIDE DEF more
    <2>2. [req[p] EXCEPT !.todo = Tail(todo), !.pend = more] = r
      <3>1. [req[p] EXCEPT !.todo = Tail(todo), !.pend = more]
               = [f \in DOMAIN req[p] |-> IF f = "pend" THEN more
                                          ELSE IF f = "todo" THEN Tail(todo) ELSE req[p][f]]
        OBVIOUS
      <3>2. DOMAIN req[p] = {"op", "step", "pend", "todo"}
            /\ req[p]["op"] = op /\ req[p]["step"] = "upsert"
        BY <1>2
      <3>3. ASSUME NEW rest, NEW writes
            PROVE  [f \in DOMAIN req[p] |-> IF f = "pend" THEN writes
                                            ELSE IF f = "todo" THEN rest ELSE req[p][f]]
                   = [op |-> op, step |-> "upsert", pend |-> writes, todo |-> rest]
        BY <3>2
      <3> QED BY <3>1, <3>3
    <2> QED BY <2>1, <2>2
  <1>6. req'[p] = r /\ req' = [req EXCEPT ![p] = req'[p]] /\ left' \in Nat
    BY <1>5, Writes DEF DirInv
  <1> HIDE DEF k
  <1>7. DOMAIN more = {k} \union DOMAIN pend /\ more[k] = Reconciled(k)
        /\ \A x \in DOMAIN more : x # k => x \in DOMAIN pend /\ more[x] = pend[x]
    BY DEF Over
  <1>8. /\ Reconciled(k) \in Alias
        /\ Reconciled(k).auto \/ Reconciled(k).user # NoUser
        /\ Reconciled(k) = aliases[k] \/ (Reconciled(k).auto /\ aliases[k].user = NoUser)
        /\ Linked(k, Reconciled(k))
    BY <1>4, ReconciledOk DEF DirInv
  <1>9. more \in Partial(Names, Alias)
    <2>1. PICK X \in SUBSET Names : pend \in [X -> Alias]
      BY DEF Partial
    <2>2. more \in [{k} \union X -> Alias]
      BY <1>4, <1>8, <2>1 DEF Over
    <2> QED BY <1>4, <2>1, <2>2 DEF Partial
  <1> HIDE DEF more
  <1>10. WritesOk(r)
    BY <1>1, <1>2, <1>4, <1>7, <1>8 DEF WritesOk
  <1>11. RequestOk(r)
    BY <1>10 DEF RequestOk, ListOk, RoleOk, ClassifyOk, ReadOk
  <1>12. r \in DirectoryOps
    BY <1>4, <1>9 DEF DirectoryOps, Reconciling
  <1>13. \A q \in Procs \ {p} : DOMAIN r.pend \intersect DOMAIN req[q].pend = {}
    BY <1>2, <1>7 DEF Upsert, Locked, DirInv, Exclusive, k
  <1> QED BY <1>6, <1>11, <1>12, <1>13, Quiet DEF Upsert

\* The roster holds what the request wrote for members.
LEMMA RosterStep ==
    ASSUME DirInv, NEW p \in Procs, Roster(p)
    PROVE  DirInv'
  <1>1. req[p] \in Reconciling /\ WritesOk(req[p]) /\ req[p].op = "list"
    BY DirOps DEF DirInv, Roster, RequestOk
  <1> DEFINE roster == {k \in Identifiers : View(p)[k].user # NoUser}
             r == [op |-> "list", step |-> "unmapped", pend |-> req[p].pend,
                   roster |-> roster, unmapped |-> {}]
  <1>2. req'[p] = r /\ req' = [req EXCEPT ![p] = req'[p]] /\ left' \in Nat
    BY Writes DEF Roster, DirInv
  <1>3. \A k \in DOMAIN req[p].pend : View(p)[k] = req[p].pend[k]
    BY DEF View, Over
  <1>4. roster \subseteq Names /\ req[p].pend \in Partial(Names, Alias)
    BY Finite, <1>1 DEF DirInv, Reconciling
  <1>5. RequestOk(r)
    BY <1>1, <1>3 DEF RequestOk, WritesOk, ListOk, RoleOk, ClassifyOk, ReadOk
  <1>6. r \in DirectoryOps
    BY <1>4 DEF DirectoryOps, Listing
  <1>7. \A q \in Procs \ {p} : DOMAIN r.pend \intersect DOMAIN req[q].pend = {}
    BY DEF DirInv, Exclusive
  <1> QED BY <1>2, <1>5, <1>6, <1>7, Quiet DEF Roster

----------------------------------------------------------------------------

\* The request of one process goes on, and writes no alias.
LEMMA GoesOn ==
    ASSUME DirInv, NEW p \in Procs, NEW r, Keep(p, r), r \in DirectoryOps \/ Walk(r), RequestOk(r),
           r.pend = Nothing, UNCHANGED <<feed, records, people, raced>>
    PROVE  DirInv'
  <1>1. req'[p] = r /\ req' = [req EXCEPT ![p] = req'[p]] /\ left' \in Nat
    BY Writes DEF DirInv
  <1>2. DOMAIN r.pend = {}
    BY DEF Nothing
  <1> QED BY <1>1, <1>2, Quiet

\* A change of role that needs no count, or one that saw an admin.
LEMMA ReadTargetStep ==
    ASSUME DirInv, NEW p \in Procs, ReadTarget(p)
    PROVE  DirInv'
  <1>1. req[p] \in Changing /\ UNCHANGED <<feed, records, people, raced>>
    BY DirOps DEF DirInv, ReadTarget, At
  <1>2. CASE Ends(p)
    BY <1>1, <1>2, EndStep
  <1>3. CASE Keep(p, [req[p] EXCEPT !.step = "count"])
    <2> DEFINE r == [req[p] EXCEPT !.step = "count"]
    <2>1. r \in Changing /\ r.step = "count" /\ r.op = "role" /\ r.pend = Nothing
      BY <1>1 DEF Changing
    <2> HIDE DEF r
    <2>2. r \in DirectoryOps /\ RequestOk(r)
      BY <2>1, Blank DEF DirectoryOps
    <2> QED BY <1>1, <1>3, <2>1, <2>2, GoesOn DEF r
  <1>4. CASE /\ staff[req[p].user] # "absent" /\ ~(staff[req[p].user] = "admin" /\ req[p].new = "member")
             /\ Keep(p, [req[p] EXCEPT !.step = "write", !.seen = Admins])
    <2> DEFINE r == [req[p] EXCEPT !.step = "write", !.seen = Admins]
    <2>1. r \in Changing /\ r.op = "role" /\ r.pend = Nothing /\ r.seen = Admins
          /\ r.user = req[p].user /\ r.new = req[p].new
      BY <1>1 DEF Changing, Admins
    <2> HIDE DEF r
    <2>2. RoleOk(r)
      <3>1. Admins = {} => raced
        BY DEF DirInv
      <3>2. r.new = "member" => r.user \notin Admins
        BY <1>4, <2>1 DEF Admins
      <3> QED BY <2>1, <3>1, <3>2 DEF RoleOk, Changing
    <2>3. RequestOk(r) /\ r \in DirectoryOps
      BY <2>1, <2>2 DEF RequestOk, WritesOk, ListOk, ClassifyOk, ReadOk, Nothing, DirectoryOps, Changing
    <2> QED BY <1>1, <1>4, <2>1, <2>3, GoesOn DEF r
  <1> QED BY <1>2, <1>3, <1>4 DEF ReadTarget

\* Who counted two admins leaves one.
LEMMA CountAdminsStep ==
    ASSUME DirInv, NEW p \in Procs, CountAdmins(p)
    PROVE  DirInv'
  <1>1. req[p] \in Changing /\ UNCHANGED <<feed, records, people, raced>>
    BY DirOps DEF DirInv, CountAdmins, At
  <1>2. CASE Ends(p)
    BY <1>1, <1>2, EndStep
  <1>3. CASE Cardinality(Admins) > 1 /\ Keep(p, [req[p] EXCEPT !.step = "write", !.seen = Admins])
    <2> DEFINE r == [req[p] EXCEPT !.step = "write", !.seen = Admins]
    <2>1. r \in Changing /\ r.op = "role" /\ r.pend = Nothing /\ r.seen = Admins
      BY <1>1 DEF Changing, Admins
    <2> HIDE DEF r
    <2>2. Admins \ {r.user} # {}
      <3>1. IsFiniteSet(Admins)
        BY Finite DEF DirInv
      <3>2. Cardinality(Admins) \in Nat
        BY <3>1, FS_CardinalityType
      <3>3. Cardinality(Admins \ {r.user}) =
                IF r.user \in Admins THEN Cardinality(Admins) - 1 ELSE Cardinality(Admins)
        BY <3>1, FS_RemoveElement
      <3>4. Cardinality(Admins \ {r.user}) # 0
        BY <1>3, <3>2, <3>3
      <3> QED BY <3>4, FS_EmptySet
    <2>3. RequestOk(r) /\ r \in DirectoryOps
      BY <2>1, <2>2 DEF RequestOk, WritesOk, ListOk, RoleOk, ClassifyOk, ReadOk, Nothing, DirectoryOps,
                        Changing
    <2> QED BY <1>1, <1>3, <2>1, <2>3, GoesOn DEF r
  <1>4. Cardinality(Admins) \in Nat
    BY Finite, FS_CardinalityType DEF DirInv
  <1> QED BY <1>2, <1>3, <1>4 DEF CountAdmins

\* The classified are among the summaries, and the total is of the summaries.
LEMMA ReadStep ==
    ASSUME DirInv, NEW p \in Procs, ReadTopics(p) \/ ReadTotal(p)
    PROVE  DirInv'
  <1>1. req[p] \in Reading /\ UNCHANGED <<feed, records, people, raced>> /\ ReadOk(req[p])
    BY DirOps DEF DirInv, ReadTopics, ReadTotal, At, RequestOk
  <1>2. /\ IsFiniteSet(Attributed(p) \intersect Classifiable)
        /\ Cardinality(Attributed(p) \intersect Classifiable) \in Nat
        /\ Attributed(p) = OfUser(req[p].user)
    BY Finite, FS_Subset, FS_CardinalityType DEF DirInv, Attributed, OfUser
  <1>3. CASE ReadTopics(p)
    <2> DEFINE S == {x \in Attributed(p) : x.id \in DOMAIN topics}
               n == Cardinality(S)
               r == [req[p] EXCEPT !.step = "total", !.classified = n]
    <2>1. S \subseteq Attributed(p) \intersect Classifiable
      BY Finite DEF DirInv, Tables, Attributed, Classifiable, ClassIds
    <2>2. n \in Nat /\ n <= Cardinality(Attributed(p) \intersect Classifiable)
      BY <1>2, <2>1, FS_Subset, FS_CardinalityType
    <2>3. Keep(p, r)
      BY <1>3 DEF ReadTopics
    <2> HIDE DEF n
    <2>4. r \in Reading /\ r.step = "total" /\ r.classified = n /\ r.user = req[p].user
          /\ r.pend = Nothing /\ r.op = "detail"
      BY <1>1, <2>2 DEF Reading
    <2> HIDE DEF r
    <2>5. RequestOk(r) /\ r \in DirectoryOps
      BY <1>2, <2>2, <2>4 DEF RequestOk, WritesOk, ListOk, RoleOk, ClassifyOk, ReadOk, Nothing,
                              DirectoryOps
    <2> QED BY <1>1, <2>3, <2>4, <2>5, GoesOn
  <1>4. CASE ReadTotal(p)
    <2> DEFINE n == Cardinality(Attributed(p) \intersect Classifiable)
               r == [req[p] EXCEPT !.step = "served", !.total = n]
    <2>1. Keep(p, r) /\ req[p].step = "total"
      BY <1>4 DEF ReadTotal, At
    <2>2. n \in Nat /\ n = Cardinality(OfUser(req[p].user) \intersect Classifiable)
      BY <1>2
    <2> HIDE DEF n
    <2>3. r \in Reading /\ r.step = "served" /\ r.classified = req[p].classified /\ r.user = req[p].user
          /\ r.pend = Nothing /\ r.op = "detail" /\ r.total = n /\ r.moved = req[p].moved
      BY <1>1, <2>2 DEF Reading
    <2>4. req[p].op = "detail"
      BY <1>1 DEF Reading
    <2> HIDE DEF r
    <2>5. RequestOk(r) /\ r \in DirectoryOps
      BY <1>1, <2>1, <2>2, <2>3, <2>4 DEF RequestOk, WritesOk, ListOk, RoleOk, ClassifyOk, ReadOk,
                                          Nothing, DirectoryOps
    <2> QED BY <1>1, <2>1, <2>3, <2>5, GoesOn
  <1> QED BY <1>3, <1>4

\* A batch is labelled by its own ids, and the rest remains.
LEMMA ClassifyBatchStep ==
    ASSUME DirInv, NEW p \in Procs, ClassifyBatch(p)
    PROVE  DirInv'
  <1>1. /\ req[p] \in Classifying /\ UNCHANGED <<feed, records, people, raced>>
        /\ req[p].todo \in Seq(Classifiable) /\ DOMAIN req[p].given \subseteq ClassIds
    BY DirOps DEF DirInv, ClassifyBatch, At, RequestOk, ClassifyOk, Classifying
  <1> DEFINE todo == req[p].todo
             n    == Min({BatchSize, Len(todo)})
  <1>2. Len(todo) \in Nat /\ n \in Nat /\ n <= Len(todo)
    BY <1>1, LenProperties, MinOfTwo, DirectoryAssumption
  <1>3. Batch(p) \in Seq(Classifiable) /\ Len(Batch(p)) \in Nat
    <2>1. Batch(p) = SubSeq(todo, 1, n)
      BY DEF Batch
    <2> HIDE DEF n, todo
    <2>2. SubSeq(todo, 1, n) \in Seq(Classifiable)
      BY <1>1, <1>2, SubSeqOf DEF todo
    <2> QED BY <2>1, <2>2, LenProperties
  <1>4. Rest(p) \in Seq(Classifiable)
    <2>1. Rest(p) = SubSeq(todo, Len(Batch(p)) + 1, Len(todo))
      BY DEF Rest
    <2> HIDE DEF todo
    <2>2. SubSeq(todo, Len(Batch(p)) + 1, Len(todo)) \in Seq(Classifiable)
      BY <1>1, <1>2, <1>3, SubSeqOf DEF todo
    <2> QED BY <2>1, <2>2
  <1> DEFINE ids == {r.id : r \in ToSet(Batch(p))}
  <1>5. ids \subseteq ClassIds
    <2>1. ToSet(Batch(p)) \subseteq Classifiable
      BY <1>3, ElementOfSeq, LenProperties DEF ToSet
    <2> QED BY <2>1 DEF ClassIds
  <1>6. PICK named \in SUBSET ids : \E label \in [named -> Labels] :
            Keep(p, [req[p] EXCEPT !.todo = Rest(p), !.given = Over(label, @)])
    BY DEF ClassifyBatch
  <1>7. PICK label \in [named -> Labels] :
            Keep(p, [req[p] EXCEPT !.todo = Rest(p), !.given = Over(label, @)])
    BY <1>6
  <1> DEFINE given == Over(label, req[p].given)
  <1>8. DOMAIN given \subseteq ClassIds
    BY <1>1, <1>5, <1>6 DEF Over
  <1>9. given \in Partial(FeedIds, Labels)
    <2>1. PICK X \in SUBSET FeedIds : req[p].given \in [X -> Labels]
      BY <1>1 DEF Classifying, Partial
    <2>2. given \in [named \union X -> Labels]
      BY <2>1 DEF Over
    <2>3. named \union X \subseteq FeedIds
      BY <1>5, <1>6, Finite DEF DirInv
    <2> QED BY <2>2, <2>3 DEF Partial
  <1>10. Rest(p) \in Seq(feed)
    BY <1>4, Finite, SeqMonotonic DEF DirInv
  <1> DEFINE r == [req[p] EXCEPT !.todo = Rest(p), !.given = given]
  <1>11. Keep(p, r)
    BY <1>7
  <1> HIDE DEF given
  <1>12. r \in Classifying /\ r.op = "classify" /\ r.step = "batch" /\ r.pend = Nothing
         /\ r.todo = Rest(p) /\ r.given = given
    BY <1>1, <1>9, <1>10 DEF Classifying
  <1> HIDE DEF r
  <1>13. RequestOk(r) /\ r \in DirectoryOps
    BY <1>4, <1>8, <1>12 DEF RequestOk, WritesOk, ListOk, RoleOk, ClassifyOk, ReadOk, Nothing,
                             DirectoryOps
  <1> QED BY <1>1, <1>11, <1>12, <1>13, GoesOn

\* Without a key nothing remains to do.
LEMMA NotConfiguredStep ==
    ASSUME DirInv, NEW p \in Procs, NotConfigured(p)
    PROVE  DirInv'
  <1>1. /\ req[p] \in Classifying /\ UNCHANGED <<feed, records, people, raced>>
        /\ DOMAIN req[p].given \subseteq ClassIds
    BY DirOps DEF DirInv, NotConfigured, At, RequestOk, ClassifyOk, Classifying
  <1>2. <<>> \in Seq(feed) /\ <<>> \in Seq(Classifiable)
    BY EmptySeq
  <1> DEFINE r == [req[p] EXCEPT !.todo = <<>>]
  <1>3. r \in Classifying /\ r.op = "classify" /\ r.step = "batch" /\ r.pend = Nothing
        /\ r.todo = <<>> /\ r.given = req[p].given
    BY <1>1, <1>2 DEF Classifying
  <1>4. Keep(p, r)
    BY DEF NotConfigured
  <1> HIDE DEF r
  <1>5. RequestOk(r) /\ r \in DirectoryOps
    BY <1>1, <1>2, <1>3 DEF RequestOk, WritesOk, ListOk, RoleOk, ClassifyOk, ReadOk, Nothing,
                            DirectoryOps
  <1> QED BY <1>1, <1>3, <1>4, <1>5, GoesOn

\* A walk that shows a page is a walk still.
LEMMA WalkGoesOn ==
    ASSUME DirInv, NEW p \in Procs, NEW r, Keep(p, r), Walk(r), UNCHANGED <<feed, records, people, raced>>
    PROVE  DirInv'
  <1>1. r.pend = Nothing /\ r.op \notin {"list", "classify", "detail"} /\ r.step \notin {"write", "upsert"}
    BY DEF Walk, UsageWalk, SessionsWalk
  <1> QED BY <1>1, Blank, GoesOn

\* A page of either list.
LEMMA PageStep ==
    ASSUME DirInv, NEW p \in Procs, UsagePage(p) \/ SessionsPage(p)
    PROVE  DirInv'
  <1>1. /\ UNCHANGED <<feed, records, people, raced>> /\ req[p].op \in {"usage", "sessions"}
        /\ \E seen, cursor : \E step \in {"page", "served"} :
               Keep(p, [req[p] EXCEPT !.seen = seen, !.cursor = cursor, !.step = step])
    BY DEF UsagePage, SessionsPage, Shows
  <1>2. PICK seen, cursor : \E step \in {"page", "served"} :
               Keep(p, [req[p] EXCEPT !.seen = seen, !.cursor = cursor, !.step = step])
    BY <1>1
  <1>3. PICK step \in {"page", "served"} :
               Keep(p, [req[p] EXCEPT !.seen = seen, !.cursor = cursor, !.step = step])
    BY <1>2
  <1>4. PICK r : r = req[p]
    OBVIOUS
  <1> DEFINE q == [r EXCEPT !.seen = seen, !.cursor = cursor, !.step = step]
  <1>5. q = [f \in DOMAIN r |-> IF f = "step" THEN step ELSE IF f = "cursor" THEN cursor
                               ELSE IF f = "seen" THEN seen ELSE r[f]]
    OBVIOUS
  <1>6. Walk(r)
    BY <1>1, <1>4 DEF DirInv, Tables, DirectoryOps, Idle, Reconciling, Listing, Mapping, Changing,
                      Classifying, Reading
  <1>7. Keep(p, q)
    BY <1>3, <1>4
  <1>8. ASSUME UsageWalk(r)
        PROVE  Walk(q)
    <2>1. q = [op |-> "usage", step |-> step, pend |-> Nothing, window |-> r.window,
               filter |-> r.filter, cursor |-> cursor, seen |-> seen, first |-> r.first]
      BY <1>5, <1>8 DEF UsageWalk
    <2> HIDE DEF q
    <2> QED BY <2>1 DEF Walk, UsageWalk
  <1>9. ASSUME SessionsWalk(r)
        PROVE  Walk(q)
    <2>1. q = [op |-> "sessions", step |-> step, pend |-> Nothing, sources |-> r.sources,
               cursor |-> cursor, seen |-> seen, first |-> r.first, opened |-> r.opened]
      BY <1>5, <1>9 DEF SessionsWalk
    <2> HIDE DEF q
    <2> QED BY <2>1 DEF Walk, SessionsWalk
  <1>10. Walk(q)
    BY <1>6, <1>8, <1>9 DEF Walk
  <1> HIDE DEF q
  <1> QED BY <1>1, <1>7, <1>10, WalkGoesOn

\* An opened session is kept with its walk.
LEMMA OpenSessionStep ==
    ASSUME DirInv, NEW p \in Procs, OpenSession(p)
    PROVE  DirInv'
  <1>1. PICK s : Keep(p, [req[p] EXCEPT !.opened = {[session |-> s, records |-> Detail(s.id)]}])
    BY DEF OpenSession
  <1>2. PICK opened : Keep(p, [req[p] EXCEPT !.opened = opened])
    BY <1>1
  <1>3. UNCHANGED <<feed, records, people, raced>> /\ req[p].op = "sessions"
    BY DEF OpenSession
  <1>4. PICK r : r = req[p]
    OBVIOUS
  <1>5. SessionsWalk(r) /\ r.step \in {"page", "served"}
    BY <1>3, <1>4 DEF DirInv, Tables, DirectoryOps, Idle, Reconciling, Listing, Mapping, Changing,
                      Classifying, Reading, Walk, UsageWalk
  <1> DEFINE q == [r EXCEPT !.opened = opened]
  <1>6. q = [op |-> "sessions", step |-> r.step, pend |-> Nothing, sources |-> r.sources,
             cursor |-> r.cursor, seen |-> r.seen, first |-> r.first, opened |-> opened]
    BY <1>5 DEF SessionsWalk
  <1>7. Keep(p, q)
    BY <1>2, <1>4
  <1> HIDE DEF q
  <1>8. Walk(q)
    BY <1>5, <1>6 DEF Walk, SessionsWalk
  <1> QED BY <1>3, <1>7, <1>8, WalkGoesOn

----------------------------------------------------------------------------

\* What a request has done stays right while others write: the records grow, a member stays, and
\* a locked row is as it was.
LEMMA StillOk ==
    ASSUME DirInv, Tables', NEW q \in Procs, req'[q] = req[q],
           Identifiers \subseteq Identifiers', Classifiable \subseteq Classifiable', raced => raced',
           \A u \in Members : staff[u] # "absent" => staff'[u] # "absent",
           \A k \in DOMAIN req[q].pend : aliases'[k] = aliases[k],
           req[q].op = "detail" /\ ~req[q].moved =>
               OfUser(req[q].user) \subseteq OfUser(req[q].user)'
    PROVE  RequestOk(req[q])'
  <1> DEFINE r == req[q]
  <1>1. RequestOk(r) /\ r.pend \in Partial(Names, Alias) /\ (r.op = "detail" => r \in Reading)
    BY DirOps DEF DirInv
  <1>2. WritesOk(r)'
    <2>1. r.step = "upsert" => r.todo \in Seq(Identifiers')
      BY <1>1, SeqMonotonic DEF RequestOk, WritesOk
    <2>2. \A k \in DOMAIN r.pend : r.pend[k] \in Alias
      BY <1>1 DEF Partial
    <2>3. \A k \in DOMAIN r.pend : Linked(k, r.pend[k])'
      BY <1>1, <2>2 DEF Linked, Alias, RequestOk, WritesOk
    <2> QED BY <1>1, <2>1, <2>3 DEF RequestOk, WritesOk
  <1>3. ListOk(r)' /\ RoleOk(r)'
    BY <1>1 DEF RequestOk, ListOk, RoleOk
  <1>4. ClassifyOk(r)'
    <2>1. ClassIds \subseteq ClassIds'
      BY DEF ClassIds
    <2> QED BY <1>1, <2>1, SeqMonotonic DEF RequestOk, ClassifyOk
  <1>5. ReadOk(r)'
    <2> SUFFICES ASSUME r.op = "detail", ~r.moved, r.step = "total"
                 PROVE  r.classified <= Cardinality(OfUser(r.user)' \intersect Classifiable')
      BY <1>1 DEF RequestOk, ReadOk
    <2> DEFINE S == OfUser(r.user) \intersect Classifiable
               T == OfUser(r.user)' \intersect Classifiable'
    <2>1. IsFiniteSet(T) /\ S \subseteq T
      <3>1. IsFiniteSet(Classifiable')
        BY FS_Subset DEF Tables, Classifiable
      <3> QED BY <3>1, FS_Subset
    <2>2. IsFiniteSet(S) /\ Cardinality(S) <= Cardinality(T)
      BY <2>1, FS_Subset
    <2>3. Cardinality(S) \in Nat /\ Cardinality(T) \in Nat
      BY <2>1, <2>2, FS_CardinalityType
    <2>4. r.classified \in Nat /\ r.classified <= Cardinality(S)
      BY <1>1 DEF RequestOk, ReadOk, Reading
    <2> HIDE DEF S, T
    <2>5. r.classified <= Cardinality(T)
      BY <2>2, <2>3, <2>4
    <2> QED BY <2>5 DEF T
  <1> QED BY <1>2, <1>3, <1>4, <1>5 DEF RequestOk

\* A record arrives: nothing that was said of the others is lost.
LEMMA ArriveStep ==
    ASSUME DirInv, Arrive
    PROVE  DirInv'
  <1>1. PICK x \in feed : /\ records' = records \union {x}
                          /\ feed' = feed /\ staff' = staff /\ aliases' = aliases /\ topics' = topics
                          /\ req' = req /\ left' = left /\ raced' = raced
    BY DEF Arrive, people
  <1>2. Names' = Names /\ FeedIds' = FeedIds /\ DirectoryOps' = DirectoryOps /\ Admins' = Admins
    BY <1>1 DEF Names, FeedIds, DirectoryOps, Reconciling, Listing, Mapping, Changing, Classifying,
                Reading, Admins
  <1>3. Tables'
    BY <1>1, <1>2 DEF DirInv, Tables, Walk, UsageWalk, SessionsWalk
  <1>4. Identifiers \subseteq Identifiers' /\ Classifiable \subseteq Classifiable'
    BY <1>1 DEF Identifiers, IdentifiersOf, Classifiable
  <1>5. \A u : OfUser(u) \subseteq OfUser(u)'
    BY <1>1 DEF OfUser
  <1>6. \A q \in Procs : RequestOk(req[q])'
    BY <1>1, <1>3, <1>4, <1>5, StillOk
  <1>7. ClassIds \subseteq ClassIds'
    BY <1>4 DEF ClassIds
  <1> QED BY <1>1, <1>2, <1>3, <1>6, <1>7 DEF DirInv, Exclusive, Linked

\* A member joins: nobody's link was theirs.
LEMMA JoinStep ==
    ASSUME DirInv, NEW u \in Members, Join(u)
    PROVE  DirInv'
  <1>1. /\ staff[u] = "absent" /\ staff' = [staff EXCEPT ![u] = "member"]
        /\ records' = records /\ feed' = feed /\ aliases' = aliases /\ topics' = topics
        /\ req' = req /\ left' = left /\ raced' = raced
    BY DEF Join, people
  <1>2. staff' \in [Members -> Roles] /\ \A m \in Members : m # u => staff'[m] = staff[m]
    BY <1>1 DEF DirInv, Tables, Roles
  <1>3. staff'[u] = "member"
    BY <1>1 DEF DirInv, Tables
  <1>4. Names' = Names /\ FeedIds' = FeedIds /\ DirectoryOps' = DirectoryOps /\ Identifiers' = Identifiers
        /\ Classifiable' = Classifiable /\ ClassIds' = ClassIds /\ \A m : OfUser(m)' = OfUser(m)
    BY <1>1 DEF Names, FeedIds, DirectoryOps, Reconciling, Listing, Mapping, Changing, Classifying,
                Reading, Identifiers, Classifiable, ClassIds, OfUser
  <1>5. Tables'
    BY <1>1, <1>2, <1>4 DEF DirInv, Tables, Walk, UsageWalk, SessionsWalk
  <1>6. \A m \in Members : staff[m] # "absent" => staff'[m] # "absent"
    BY <1>1, <1>2
  <1>7. \A q \in Procs : RequestOk(req[q])'
    BY <1>1, <1>4, <1>5, <1>6, StillOk
  <1>8. Admins' = Admins
    BY <1>1, <1>2, <1>3 DEF Admins
  <1>9. \A k \in Names : Linked(k, aliases[k])'
    BY <1>1, <1>6 DEF DirInv, Tables, Linked, Alias
  <1> QED BY <1>1, <1>4, <1>5, <1>7, <1>8, <1>9 DEF DirInv, Exclusive

\* Labels are saved for summaries that are there.
LEMMA SaveTopicsStep ==
    ASSUME DirInv, NEW p \in Procs, SaveTopics(p)
    PROVE  DirInv'
  <1>1. /\ records' = records /\ feed' = feed /\ aliases' = aliases /\ staff' = staff
        /\ raced' = raced /\ topics' = Over(topics, req[p].given) /\ Ends(p)
    BY DEF SaveTopics
  <1>2. req'[p] = Idle /\ left' \in Nat /\ \A q \in Procs : q # p => req'[q] = req[q]
    BY <1>1 DEF DirInv, Tables, Ends, Keep
  <1>3. req[p] \in Classifying /\ DOMAIN req[p].given \subseteq ClassIds
    BY DirOps DEF DirInv, SaveTopics, RequestOk, ClassifyOk, Classifying
  <1>4. Names' = Names /\ FeedIds' = FeedIds /\ DirectoryOps' = DirectoryOps /\ Identifiers' = Identifiers
        /\ Classifiable' = Classifiable /\ ClassIds' = ClassIds /\ Admins' = Admins
        /\ \A m : OfUser(m)' = OfUser(m)
    BY <1>1 DEF Names, FeedIds, DirectoryOps, Reconciling, Listing, Mapping, Changing, Classifying,
                Reading, Identifiers, Classifiable, ClassIds, OfUser, Admins
  <1>5. topics' \in Partial(FeedIds, Labels)
    <2>1. PICK X \in SUBSET FeedIds : topics \in [X -> Labels]
      BY DEF DirInv, Tables, Partial
    <2>2. PICK Y \in SUBSET FeedIds : req[p].given \in [Y -> Labels]
      BY <1>3 DEF Classifying, Partial
    <2>3. topics' \in [X \union Y -> Labels]
      BY <1>1, <2>1, <2>2 DEF Over
    <2> QED BY <2>3 DEF Partial
  <1>6. DOMAIN topics' \subseteq ClassIds'
    BY <1>1, <1>3, <1>4 DEF Over, DirInv
  <1>7. Tables'
    <2>1. \A q \in Procs : req'[q] \in DirectoryOps' \/ Walk(req'[q])
      BY <1>2, <1>4 DEF DirInv, Tables, DirectoryOps
    <2>2. DOMAIN req' = Procs
      BY <1>1 DEF Ends, Keep, DirInv, Tables
    <2> QED BY <1>1, <1>2, <1>4, <1>5, <2>1, <2>2 DEF DirInv, Tables, Walk, UsageWalk, SessionsWalk
  <1>8. \A q \in Procs : RequestOk(req[q])'
    <2>1. RequestOk(req[p])'
      BY <1>2 DEF RequestOk, WritesOk, ListOk, RoleOk, ClassifyOk, ReadOk, Nothing, Idle
    <2> QED BY <1>1, <1>2, <1>4, <1>7, <2>1, StillOk
  <1>9. Exclusive'
    BY <1>2 DEF DirInv, Exclusive, Idle, Nothing
  <1> QED BY <1>1, <1>4, <1>6, <1>7, <1>8, <1>9 DEF DirInv, Linked

\* A role is written: an admin remains, or the write raced.
LEMMA WriteRoleStep ==
    ASSUME DirInv, NEW p \in Procs, WriteRole(p)
    PROVE  DirInv'
  <1> DEFINE u   == req[p].user
             new == req[p].new
  <1>1. /\ records' = records /\ feed' = feed /\ aliases' = aliases /\ topics' = topics
        /\ raced' = (raced \/ req[p].seen # Admins) /\ staff' = [staff EXCEPT ![u] = new] /\ Ends(p)
    BY DEF WriteRole
  <1>2. req'[p] = Idle /\ left' \in Nat /\ \A q \in Procs : q # p => req'[q] = req[q]
    BY <1>1 DEF DirInv, Tables, Ends, Keep
  <1>3. req[p] \in Changing /\ (new = "admin" \/ req[p].seen \ {u} # {} \/ raced)
    BY DirOps DEF DirInv, WriteRole, RequestOk, RoleOk, At
  <1>4. u \in Members /\ new \in {"member", "admin"}
    BY <1>3 DEF Changing
  <1> HIDE DEF u, new
  <1>5. staff' \in [Members -> Roles] /\ staff'[u] = new /\ \A m \in Members : m # u => staff'[m] = staff[m]
    BY <1>1, <1>4 DEF DirInv, Tables, Roles
  <1>6. Names' = Names /\ FeedIds' = FeedIds /\ DirectoryOps' = DirectoryOps /\ Identifiers' = Identifiers
        /\ Classifiable' = Classifiable /\ ClassIds' = ClassIds /\ \A m : OfUser(m)' = OfUser(m)
    BY <1>1 DEF Names, FeedIds, DirectoryOps, Reconciling, Listing, Mapping, Changing, Classifying,
                Reading, Identifiers, Classifiable, ClassIds, OfUser
  <1>7. Tables'
    <2>1. \A q \in Procs : req'[q] \in DirectoryOps' \/ Walk(req'[q])
      BY <1>2, <1>6 DEF DirInv, Tables, DirectoryOps
    <2>2. DOMAIN req' = Procs /\ raced' \in BOOLEAN
      BY <1>1 DEF Ends, Keep, DirInv, Tables
    <2> QED BY <1>1, <1>2, <1>5, <1>6, <2>1, <2>2 DEF DirInv, Tables, Walk, UsageWalk, SessionsWalk
  <1>8. \A m \in Members : staff[m] # "absent" => staff'[m] # "absent"
    BY <1>4, <1>5
  <1>9. \A q \in Procs : RequestOk(req[q])'
    <2>1. RequestOk(req[p])'
      BY <1>2 DEF RequestOk, WritesOk, ListOk, RoleOk, ClassifyOk, ReadOk, Nothing, Idle
    <2> QED BY <1>1, <1>2, <1>6, <1>7, <1>8, <2>1, StillOk
  <1>10. Exclusive'
    BY <1>2 DEF DirInv, Exclusive, Idle, Nothing
  <1>11. \A k \in Names : Linked(k, aliases[k])'
    BY <1>1, <1>8 DEF DirInv, Tables, Linked, Alias
  <1>12. Admins' = {} => raced'
    <2>1. CASE new = "admin"
      BY <1>4, <1>5, <2>1 DEF Admins
    <2>2. CASE new = "member"
      <3>1. Admins \ {u} \subseteq Admins'
        BY <1>5 DEF Admins
      <3> QED BY <1>1, <1>3, <2>2, <3>1
    <2> QED BY <1>4, <2>1, <2>2
  <1> QED BY <1>1, <1>6, <1>7, <1>9, <1>10, <1>11, <1>12 DEF DirInv

\* The records of a link are in the tables.
LEMMA KeyNamed ==
    ASSUME Tables, NEW u, NEW r \in OfUser(u)
    PROVE  KeyOf(r) \in Names /\ aliases[KeyOf(r)].user = u
  BY DEF Tables, OfUser, Names, IdentifiersOf, ActorSources

\* What a reconcile wrote becomes the table: it takes only from nobody.
LEMMA Commits ==
    ASSUME DirInv, NEW p \in Procs, aliases' = View(p), UNCHANGED <<feed, records, staff, topics, raced>>,
           req' = [req EXCEPT ![p] = req'[p]], left' \in Nat, req'[p] \in DirectoryOps,
           DOMAIN req'[p].pend \subseteq DOMAIN req[p].pend, RequestOk(req[p])'
    PROVE  DirInv'
  <1>1. /\ req[p].pend \in Partial(Names, Alias) /\ WritesOk(req[p]) /\ aliases \in [Names -> Alias]
        /\ \A q \in Procs : q # p => req'[q] = req[q]
        /\ DOMAIN req' = Procs
    BY DirOps DEF DirInv, Tables, RequestOk
  <1>2. PICK X \in SUBSET Names : req[p].pend \in [X -> Alias]
    BY <1>1 DEF Partial
  <1>3. /\ aliases' \in [Names -> Alias]
        /\ \A k \in X : aliases'[k] = req[p].pend[k]
        /\ \A k \in Names \ X : aliases'[k] = aliases[k]
    BY <1>1, <1>2 DEF View, Over
  <1>4. Names' = Names /\ FeedIds' = FeedIds /\ DirectoryOps' = DirectoryOps /\ Identifiers' = Identifiers
        /\ Classifiable' = Classifiable /\ ClassIds' = ClassIds /\ Admins' = Admins
    BY DEF Names, FeedIds, DirectoryOps, Reconciling, Listing, Mapping, Changing, Classifying,
           Reading, Identifiers, Classifiable, ClassIds, Admins
  <1>5. Tables'
    <2>1. \A q \in Procs : req'[q] \in DirectoryOps' \/ Walk(req'[q])
      BY <1>1, <1>4 DEF DirInv, Tables
    <2> QED BY <1>1, <1>3, <1>4, <2>1 DEF DirInv, Tables, Walk, UsageWalk, SessionsWalk
  <1>6. \A u \in Members : OfUser(u) \subseteq OfUser(u)'
    <2> SUFFICES ASSUME NEW u \in Members, NEW r \in OfUser(u)
                 PROVE  r \in OfUser(u)'
      OBVIOUS
    <2>1. KeyOf(r) \in Names /\ aliases[KeyOf(r)].user = u /\ u # NoUser
      BY KeyNamed, DirectoryAssumption DEF DirInv
    <2>2. aliases'[KeyOf(r)] = aliases[KeyOf(r)]
      BY <1>1, <1>2, <1>3, <2>1 DEF WritesOk
    <2> QED BY <2>1, <2>2 DEF OfUser
  <1>7. ASSUME NEW q \in Procs, q # p
        PROVE  RequestOk(req[q])'
    <2>1. \A k \in DOMAIN req[q].pend : aliases'[k] = aliases[k]
      <3>1. DOMAIN req[q].pend \subseteq Names /\ DOMAIN req[q].pend \intersect X = {}
        <4>1. req[q].pend \in Partial(Names, Alias)
          BY DirOps DEF DirInv
        <4>2. DOMAIN req[q].pend \subseteq Names
          BY <4>1 DEF Partial
        <4> QED BY <1>2, <1>7, <4>2 DEF DirInv, Exclusive
      <3> QED BY <1>3, <3>1
    <2>2. req[q].op = "detail" => req[q].user \in Members
      BY DirOps DEF DirInv, Reading
    <2> QED BY <1>1, <1>4, <1>5, <1>6, <1>7, <2>1, <2>2, StillOk
  <1>8. Exclusive'
    BY <1>1 DEF DirInv, Exclusive
  <1>9. \A k \in Names : Linked(k, aliases[k])'
    BY <1>1, <1>2, <1>3 DEF DirInv, Linked, WritesOk
  <1> QED BY <1>4, <1>5, <1>7, <1>8, <1>9 DEF DirInv

\* The task commits and ends.
LEMMA CommitReconcileStep ==
    ASSUME DirInv, NEW p \in Procs, CommitReconcile(p)
    PROVE  DirInv'
  <1>1. req'[p] = Idle /\ req' = [req EXCEPT ![p] = req'[p]] /\ left' \in Nat
    BY Writes DEF CommitReconcile, Ends, DirInv
  <1>2. RequestOk(req[p])'
    BY <1>1 DEF RequestOk, WritesOk, ListOk, RoleOk, ClassifyOk, ReadOk, Nothing, Idle
  <1>3. Idle \in DirectoryOps /\ DOMAIN Idle.pend = {}
    BY DEF Idle, DirectoryOps, Nothing
  <1> QED BY <1>1, <1>2, <1>3, Commits DEF CommitReconcile

\* GET /users commits, and shows the rest as nobody's.
LEMMA UnmappedStep ==
    ASSUME DirInv, NEW p \in Procs, Unmapped(p)
    PROVE  DirInv'
  <1>1. req[p] \in Listing /\ req[p].step = "unmapped" /\ WritesOk(req[p]) /\ ListOk(req[p])
        /\ aliases \in [Names -> Alias]
    BY DirOps DEF DirInv, Unmapped, RequestOk, At, Tables
  <1>2. req[p].op = "list"
    BY <1>1 DEF Listing
  <1>3. PICK X \in SUBSET Names : req[p].pend \in [X -> Alias]
    BY <1>1 DEF Listing, Partial
  <1> DEFINE open == {k \in DOMAIN aliases : View(p)[k].auto /\ View(p)[k].user = NoUser}
             r == [req[p] EXCEPT !.step = "served", !.unmapped = open]
  <1>4. Keep(p, r) /\ aliases' = View(p) /\ UNCHANGED <<feed, records, staff, topics, raced>>
    BY DEF Unmapped
  <1>5. \A k \in X : View(p)[k] = req[p].pend[k]
    BY <1>3 DEF View, Over
  <1>6. open \subseteq Names /\ \A k \in X : k \in open <=> req[p].pend[k].user = NoUser
    BY <1>1, <1>3, <1>5 DEF WritesOk
  <1> HIDE DEF open
  <1>7. r \in Listing /\ r.step = "served" /\ r.op = "list" /\ r.pend = req[p].pend
        /\ r.roster = req[p].roster /\ r.unmapped = open
    BY <1>1, <1>6 DEF Listing
  <1> HIDE DEF r
  <1>8. req'[p] = r /\ req' = [req EXCEPT ![p] = req'[p]] /\ left' \in Nat
    BY <1>4, Writes DEF DirInv
  <1>9. WritesOk(req[p])'
    <2>1. Identifiers' = Identifiers /\ \A k, v : Linked(k, v)' <=> Linked(k, v)
      BY <1>4 DEF Identifiers, Linked
    <2>2. \A k \in X : aliases'[k] = req'[p].pend[k]
      BY <1>4, <1>5, <1>7, <1>8
    <2> QED BY <1>1, <1>3, <1>4, <1>7, <1>8, <2>1, <2>2 DEF WritesOk, Linked
  <1>10. ListOk(req[p])'
    BY <1>1, <1>2, <1>3, <1>6, <1>7, <1>8 DEF ListOk
  <1>11. RequestOk(req[p])'
    BY <1>7, <1>8, <1>9, <1>10 DEF RequestOk, RoleOk, ClassifyOk, ReadOk
  <1> QED BY <1>4, <1>7, <1>8, <1>11, Commits DEF DirectoryOps

\* A link by hand: the row is not locked, and who reads the old owner's page is told.
LEMMA MapAliasStep ==
    ASSUME DirInv, NEW p \in Procs, MapAlias(p)
    PROVE  DirInv'
  <1> DEFINE k == req[p].key
             u == req[p].user
             reads(q) == req[q].op = "detail" /\ req[q].user = aliases[k].user
  <1>1. req[p] \in Mapping
    BY DirOps DEF DirInv, MapAlias
  <1>2. k \in Names /\ u \in Members
    BY <1>1 DEF Mapping
  <1>3. /\ ~Locked(p, k)
        /\ aliases' = IF staff[u] = "absent" THEN aliases
                      ELSE [aliases EXCEPT ![k] = [user |-> u, auto |-> FALSE]]
        /\ req' = [q \in Procs |-> IF q = p THEN Idle
                                   ELSE IF reads(q) THEN [req[q] EXCEPT !.moved = TRUE]
                                   ELSE req[q]]
        /\ feed' = feed /\ records' = records /\ staff' = staff /\ topics' = topics
        /\ left' = left /\ raced' = raced
    BY DEF MapAlias
  <1>4. aliases \in [Names -> Alias]
    BY DEF DirInv, Tables
  <1> HIDE DEF k, u
  <1>5. aliases' \in [Names -> Alias] /\ \A j \in Names : j # k => aliases'[j] = aliases[j]
    BY <1>2, <1>3, <1>4 DEF Alias
  <1>6. aliases'[k] = aliases[k] \/ ~aliases'[k].auto
    BY <1>2, <1>3, <1>4
  <1>7. Names' = Names /\ FeedIds' = FeedIds /\ DirectoryOps' = DirectoryOps /\ Identifiers' = Identifiers
        /\ Classifiable' = Classifiable /\ ClassIds' = ClassIds /\ Admins' = Admins
    BY <1>3 DEF Names, FeedIds, DirectoryOps, Reconciling, Listing, Mapping, Changing, Classifying,
                Reading, Identifiers, Classifiable, ClassIds, Admins
  <1>8. ASSUME NEW q \in Procs, q # p, reads(q)
        PROVE  req'[q] \in Reading /\ req'[q].moved /\ req'[q].pend = Nothing /\ req[q].pend = Nothing
               /\ req'[q].op = "detail"
    <2>1. req[q] \in Reading
      BY <1>8, DirOps DEF DirInv
    <2>2. req'[q] = [req[q] EXCEPT !.moved = TRUE]
      BY <1>3, <1>8
    <2> QED BY <2>1, <2>2 DEF Reading
  <1>9. ASSUME NEW q \in Procs, q # p, ~reads(q)
        PROVE  req'[q] = req[q]
    BY <1>3, <1>9
  <1>10. req'[p] = Idle
    BY <1>3
  <1> HIDE DEF reads
  <1>11. Tables'
    <2>1. \A q \in Procs : req'[q] \in DirectoryOps' \/ Walk(req'[q])
      BY <1>7, <1>8, <1>9, <1>10 DEF DirInv, Tables, DirectoryOps
    <2>2. DOMAIN req' = Procs
      BY <1>3
    <2> QED BY <1>3, <1>5, <1>7, <2>1, <2>2 DEF DirInv, Tables, Walk, UsageWalk, SessionsWalk
  <1>12. ASSUME NEW q \in Procs
         PROVE  RequestOk(req[q])'
    <2>1. CASE q = p
      BY <1>10, <2>1 DEF RequestOk, WritesOk, ListOk, RoleOk, ClassifyOk, ReadOk, Nothing, Idle
    <2>2. CASE q # p /\ reads(q)
      <3>1. req'[q].step \notin {"upsert", "write"}
        BY <1>8, <2>2 DEF Reading
      <3> QED BY <1>8, <2>2, <3>1 DEF RequestOk, WritesOk, ListOk, RoleOk, ClassifyOk, ReadOk, Nothing
    <2>3. CASE q # p /\ ~reads(q)
      <3>1. \A j \in DOMAIN req[q].pend : aliases'[j] = aliases[j]
        <4>1. req[q].pend \in Partial(Names, Alias)
          BY DirOps DEF DirInv
        <4>2. DOMAIN req[q].pend \subseteq Names /\ k \notin DOMAIN req[q].pend
          BY <1>3, <2>3, <4>1 DEF Partial, Locked
        <4> QED BY <1>5, <4>2
      <3>2. req[q].op = "detail" => OfUser(req[q].user) \subseteq OfUser(req[q].user)'
        <4> SUFFICES ASSUME req[q].op = "detail", NEW r \in OfUser(req[q].user)
                     PROVE  r \in OfUser(req[q].user)'
          OBVIOUS
        <4>1. KeyOf(r) \in Names /\ aliases[KeyOf(r)].user = req[q].user
          BY KeyNamed DEF DirInv
        <4>2. KeyOf(r) # k
          BY <2>3, <4>1 DEF reads
        <4> QED BY <1>3, <1>5, <1>9, <2>3, <4>1, <4>2 DEF OfUser
      <3> QED BY <1>3, <1>7, <1>9, <1>11, <2>3, <3>1, <3>2, StillOk
    <2> QED BY <2>1, <2>2, <2>3
  <1>13. Exclusive'
    <2>1. \A q \in Procs : DOMAIN req'[q].pend \subseteq DOMAIN req[q].pend
      BY <1>8, <1>9, <1>10 DEF Idle, Nothing
    <2> QED BY <2>1 DEF DirInv, Exclusive
  <1>14. \A j \in Names : Linked(j, aliases[j])'
    BY <1>3, <1>5, <1>6 DEF DirInv, Linked
  <1> QED BY <1>3, <1>7, <1>11, <1>12, <1>13, <1>14 DEF DirInv

----------------------------------------------------------------------------

\* Every step of a request keeps the invariant.
LEMMA ManageStep ==
    ASSUME DirInv, NEW p \in Procs, Manage(p)
    PROVE  DirInv'
  <1>1. CASE \E op \in {"task", "list"} : StartReconcile(p, op)
    BY <1>1, StartReconcileStep
  <1>2. CASE Upsert(p)
    BY <1>2, UpsertStep
  <1>3. CASE Deadlock(p) \/ Answer(p) \/ Die(p)
    BY <1>3, EndStep DEF Deadlock, Answer, Die
  <1>4. CASE CommitReconcile(p)
    BY <1>4, CommitReconcileStep
  <1>5. CASE Roster(p)
    BY <1>5, RosterStep
  <1>6. CASE Unmapped(p)
    BY <1>6, UnmappedStep
  <1>7. CASE \E a, u \in Members, k \in DOMAIN aliases : StartMap(p, a, u, k)
    BY <1>7, StartMapStep
  <1>8. CASE MapAlias(p)
    BY <1>8, MapAliasStep
  <1>9. CASE \E a, u \in Members, new \in {"member", "admin"} : StartRole(p, a, u, new)
    BY <1>9, StartRoleStep
  <1>10. CASE ReadTarget(p)
    BY <1>10, ReadTargetStep
  <1>11. CASE CountAdmins(p)
    BY <1>11, CountAdminsStep
  <1>12. CASE WriteRole(p)
    BY <1>12, WriteRoleStep
  <1>13. CASE StartClassify(p)
    BY <1>13, StartClassifyStep
  <1>14. CASE ClassifyBatch(p)
    BY <1>14, ClassifyBatchStep
  <1>15. CASE NotConfigured(p)
    BY <1>15, NotConfiguredStep
  <1>16. CASE SaveTopics(p)
    BY <1>16, SaveTopicsStep
  <1>17. CASE \E u \in Members : StartDetail(p, u)
    BY <1>17, StartDetailStep
  <1>18. CASE ReadTopics(p) \/ ReadTotal(p)
    BY <1>18, ReadStep
  <1> QED BY <1>1, <1>2, <1>3, <1>4, <1>5, <1>6, <1>7, <1>8, <1>9, <1>10, <1>11, <1>12, <1>13,
             <1>14, <1>15, <1>16, <1>17, <1>18 DEF Manage

\* No step at all: everything is as it was.
LEMMA DirStutter ==
    ASSUME DirInv, UNCHANGED directoryVars
    PROVE  DirInv'
  <1>1. /\ feed' = feed /\ records' = records /\ staff' = staff /\ aliases' = aliases
        /\ topics' = topics /\ raced' = raced /\ req' = req /\ left' = left
    BY DEF directoryVars, people
  <1>2. Names' = Names /\ FeedIds' = FeedIds /\ DirectoryOps' = DirectoryOps /\ Identifiers' = Identifiers
        /\ Classifiable' = Classifiable /\ ClassIds' = ClassIds /\ Admins' = Admins
        /\ \A m : OfUser(m)' = OfUser(m)
    BY <1>1 DEF Names, FeedIds, DirectoryOps, Reconciling, Listing, Mapping, Changing, Classifying,
                Reading, Identifiers, Classifiable, ClassIds, OfUser, Admins
  <1>3. Tables'
    BY <1>1, <1>2 DEF DirInv, Tables, Walk, UsageWalk, SessionsWalk
  <1>4. \A q \in Procs : RequestOk(req[q])'
    BY <1>1, <1>2, <1>3, StillOk
  <1> QED BY <1>1, <1>2, <1>3, <1>4 DEF DirInv, Exclusive, Linked

\* The invariant holds before anything is recorded.
LEMMA DirInitially ==
    ASSUME DirectoryInit
    PROVE  DirInv
  <1>1. PICK s \in Scenarios :
            /\ feed = s.feed /\ records = {} /\ staff = s.staff
            /\ aliases = [k \in IdentifiersOf(s.feed) |-> NoAlias]
            /\ topics = Nothing /\ req = [p \in Procs |-> Idle]
            /\ left = s.work /\ raced = FALSE
    BY DEF DirectoryInit
  <1>2. Nothing \in Partial(FeedIds, Labels)
    <2>1. Nothing \in [{} -> Labels]
      BY DEF Nothing
    <2> QED BY <2>1 DEF Partial
  <1>3. aliases \in [Names -> Alias] /\ \A k \in Names : aliases[k] = NoAlias
    BY <1>1 DEF Names, NoAlias, Alias
  <1>4. Tables
    BY <1>1, <1>2, <1>3, DirectoryAssumption DEF Tables, DirectoryOps
  <1>5. Exclusive /\ \A p \in Procs : RequestOk(req[p])
    BY <1>1 DEF Exclusive, RequestOk, WritesOk, ListOk, RoleOk, ClassifyOk, ReadOk, Nothing, Idle
  <1>6. Admins # {}
    BY <1>1, DirectoryAssumption DEF Admins
  <1>7. DOMAIN topics \subseteq ClassIds
    BY <1>1 DEF Nothing
  <1> QED BY <1>3, <1>4, <1>5, <1>6, <1>7 DEF DirInv, Linked, NoAlias

\* The invariant is inductive.
LEMMA DirAlways == DashboardSpec => []DirInv
  <1>1. DirInv /\ [DashboardNext]_directoryVars => DirInv'
    <2> SUFFICES ASSUME DirInv, [DashboardNext]_directoryVars
                 PROVE  DirInv'
      OBVIOUS
    <2>1. CASE Arrive
      BY <2>1, ArriveStep
    <2>2. CASE \E u \in Members : Join(u)
      BY <2>2, JoinStep
    <2>3. CASE \E p \in Procs : Manage(p)
      BY <2>3, ManageStep
    <2>4. ASSUME NEW p \in Procs, Browse(p)
          PROVE  DirInv'
      <3>1. CASE \/ \E w \in Windows, f \in UsageFilters : StartUsage(p, w, f)
                 \/ \E sources \in {{}, {"mcp"}} : StartSessions(p, sources)
        BY <3>1, StartWalkStep
      <3>2. CASE UsagePage(p) \/ SessionsPage(p)
        BY <3>2, PageStep
      <3>3. CASE OpenSession(p)
        BY <3>3, OpenSessionStep
      <3> QED BY <2>4, <3>1, <3>2, <3>3 DEF Browse
    <2>5. CASE UNCHANGED directoryVars
      BY <2>5, DirStutter
    <2> QED BY <2>1, <2>2, <2>3, <2>4, <2>5 DEF DashboardNext, DirectoryNext
  <1>2. DirectoryInit => DirInv
    BY DirInitially
  <1> QED BY <1>1, <1>2, PTL DEF DashboardSpec

\* The tables keep their shapes, and a request is in a step of its operation.
THEOREM DashboardTypeCorrect == DashboardSpec => []DashboardTypeOK
  <1>1. DirInv => DashboardTypeOK
    <2> SUFFICES ASSUME DirInv
                 PROVE  DashboardTypeOK
      OBVIOUS
    <2>1. /\ records \subseteq feed /\ staff \in [Members -> Roles] /\ left \in Nat /\ raced \in BOOLEAN
          /\ aliases \in [Names -> Alias]
      BY DEF DirInv, Tables
    <2>2. \A i \in DOMAIN topics : topics[i] \in Labels
      BY DEF DirInv, Tables, Partial
    <2>3. ASSUME NEW p \in Procs
          PROVE  req[p].step \in Steps /\ DOMAIN req[p].pend \subseteq DOMAIN aliases
      <3>1. req[p].pend \in Partial(Names, Alias) /\ (req[p] \in DirectoryOps \/ Walk(req[p]))
        BY DirOps DEF DirInv, Tables
      <3>2. DOMAIN req[p].pend \subseteq DOMAIN aliases
        BY <2>1, <3>1 DEF Partial
      <3> QED BY <3>1, <3>2 DEF Steps, DirectoryOps, Idle, Reconciling, Listing, Mapping, Changing,
                                Classifying, Reading, Walk
    <2> QED BY <2>1, <2>2, <2>3 DEF DashboardTypeOK, Alias
  <1> QED BY <1>1, DirAlways, PTL

\* The directory is right about people (users/aliases.py, api/users.py): links by themselves name the
\* member of that email, the list shows every actor once, a page never counts more classified than it
\* has, and an admin is lost only to overlapping changes, for any number of requests and members.
THEOREM DirectorySoundHolds == DashboardSpec => []DirectorySound
  <1>1. DirInv => DirectorySound
    <2> SUFFICES ASSUME DirInv
                 PROVE  DirectorySound
      OBVIOUS
    <2>1. \A k \in DOMAIN aliases : aliases[k].auto /\ aliases[k].user # NoUser =>
              Email[aliases[k].user] = k[2] /\ staff[aliases[k].user] # "absent"
      BY DEF DirInv, Tables, Linked
    <2>2. ASSUME NEW p \in Procs, req[p].op = "list", At(p, "served")
          PROVE  /\ DOMAIN req[p].pend \subseteq req[p].roster \union req[p].unmapped
                 /\ DOMAIN req[p].pend \intersect req[p].roster \intersect req[p].unmapped = {}
      BY <2>2 DEF DirInv, RequestOk, ListOk, At
    <2>3. ASSUME NEW p \in Procs, req[p].op = "detail", At(p, "served"), ~req[p].moved
          PROVE  req[p].classified <= req[p].total
      BY <2>3 DEF DirInv, RequestOk, ReadOk, At
    <2>4. DOMAIN topics \subseteq {r.id : r \in Classifiable} /\ (Admins = {} => raced)
      BY DEF DirInv, ClassIds
    <2> QED BY <2>1, <2>2, <2>3, <2>4 DEF DirectorySound
  <1> QED BY <1>1, DirAlways, PTL

----------------------------------------------------------------------------

LinkStep == /\ \A k \in DOMAIN aliases : aliases'[k] # aliases[k] =>
                   \/ aliases'[k].auto /\ aliases[k].user = NoUser
                   \/ ~aliases'[k].auto /\ aliases'[k].user # NoUser
            /\ \A i \in DOMAIN topics : i \in DOMAIN topics' /\ topics'[i] = topics[i]

\* Only a commit, an admin and a saved label write aliases and topics.
LEMMA LinkMoves ==
    ASSUME DirInv, DashboardNext
    PROVE  LinkStep
  <1>1. CASE aliases' = aliases /\ topics' = topics
    BY <1>1 DEF LinkStep
  <1>2. ASSUME NEW p \in Procs, CommitReconcile(p) \/ Unmapped(p)
        PROVE  LinkStep
    <2>1. aliases' = View(p) /\ topics' = topics
      BY <1>2 DEF CommitReconcile, Unmapped
    <2>2. WritesOk(req[p])
      BY DEF DirInv, RequestOk
    <2>3. \A k \in DOMAIN aliases : aliases'[k] = aliases[k] \/ (aliases'[k].auto /\ aliases[k].user = NoUser)
      BY <2>1, <2>2 DEF View, Over, WritesOk
    <2> QED BY <2>1, <2>3 DEF LinkStep
  <1>3. ASSUME NEW p \in Procs, MapAlias(p)
        PROVE  LinkStep
    <2>1. req[p] \in Mapping
      BY <1>3, DirOps DEF DirInv, MapAlias
    <2>2. req[p].user \in Members /\ req[p].key \in Names /\ NoUser \notin Members
      BY <2>1, DirectoryAssumption DEF Mapping
    <2>3. topics' = topics
          /\ aliases' = IF staff[req[p].user] = "absent" THEN aliases
                        ELSE [aliases EXCEPT ![req[p].key] = [user |-> req[p].user, auto |-> FALSE]]
      BY <1>3 DEF MapAlias
    <2>4. DOMAIN aliases = Names
      BY DEF DirInv, Tables
    <2> QED BY <2>2, <2>3, <2>4 DEF LinkStep
  <1>4. ASSUME NEW p \in Procs, SaveTopics(p)
        PROVE  LinkStep
    BY <1>4 DEF SaveTopics, Over, LinkStep
  <1> QED BY <1>1, <1>2, <1>3, <1>4 DEF DashboardNext, DirectoryNext, Manage, Browse, Arrive, Join,
        StartReconcile, Upsert, Deadlock, Roster, StartMap, StartRole, ReadTarget, CountAdmins,
        WriteRole, StartClassify, ClassifyBatch, NotConfigured, StartDetail, ReadTopics, ReadTotal,
        Answer, Die, StartUsage, UsagePage, StartSessions, SessionsPage, OpenSession, people

\* No reconcile undoes a link, and a topic once given stays, however requests interleave.
THEOREM LinksKeptHolds == DashboardSpec => LinksKept
  <1>1. DirInv /\ [DashboardNext]_directoryVars => [LinkStep]_directoryVars
    BY LinkMoves
  <1> QED BY <1>1, DirAlways, PTL DEF DashboardSpec, LinksKept, LinkStep

----------------------------------------------------------------------------
(* The walks.  First, what the order of a finite set is.                   *)

\* R puts the elements of S in one row.
Orders(R, S) ==
    /\ \A x \in S : <<x, x>> \notin R
    /\ \A x, y \in S : x # y => <<x, y>> \in R \/ <<y, x>> \in R
    /\ \A x, y, z \in S : <<x, y>> \in R /\ <<y, z>> \in R => <<x, z>> \in R

Before(R, S, x) == {w \in S : <<w, x>> \in R}

\* Of two elements the later one has more before it, and every number of elements is before some one.
LEMMA Ranks ==
    ASSUME NEW S, IsFiniteSet(S), NEW R, Orders(R, S)
    PROVE  /\ Cardinality(S) \in Nat
           /\ \A x \in S : Cardinality(Before(R, S, x)) \in 0 .. (Cardinality(S) - 1)
           /\ \A x, y \in S : <<x, y>> \in R =>
                  Cardinality(Before(R, S, x)) < Cardinality(Before(R, S, y))
           /\ \A i \in 1 .. Cardinality(S) : \E x \in S : Cardinality(Before(R, S, x)) = i - 1
  <1> DEFINE n == Cardinality(S)
             rank == [x \in S |-> Cardinality(Before(R, S, x))]
  <1>1. n \in Nat
    BY FS_CardinalityType
  <1>2. ASSUME NEW x \in S
        PROVE  IsFiniteSet(Before(R, S, x)) /\ Cardinality(Before(R, S, x)) \in 0 .. (n - 1)
    <2>1. Before(R, S, x) \subseteq S \ {x}
      BY DEF Before, Orders
    <2>2. IsFiniteSet(S \ {x}) /\ Cardinality(S \ {x}) = n - 1
      BY FS_RemoveElement
    <2>3. IsFiniteSet(Before(R, S, x)) /\ Cardinality(Before(R, S, x)) <= n - 1
      BY <2>1, <2>2, FS_Subset
    <2>4. Cardinality(Before(R, S, x)) \in Nat
      BY <2>3, FS_CardinalityType
    <2> QED BY <1>1, <2>3, <2>4
  <1>3. ASSUME NEW x \in S, NEW y \in S, <<x, y>> \in R
        PROVE  Cardinality(Before(R, S, x)) < Cardinality(Before(R, S, y))
    <2>1. Before(R, S, x) \subseteq Before(R, S, y)
      BY <1>3 DEF Before, Orders
    <2>2. x \in Before(R, S, y) /\ x \notin Before(R, S, x)
      BY <1>3 DEF Before, Orders
    <2>3. /\ Cardinality(Before(R, S, x)) <= Cardinality(Before(R, S, y))
          /\ Cardinality(Before(R, S, y)) # Cardinality(Before(R, S, x))
      BY <1>2, <2>1, <2>2, FS_Subset
    <2> QED BY <1>1, <1>2, <2>3
  <1>4. rank \in Injection(S, 0 .. (n - 1))
    <2>1. rank \in [S -> 0 .. (n - 1)]
      BY <1>2
    <2>2. ASSUME NEW x \in S, NEW y \in S, rank[x] = rank[y], x # y
          PROVE  FALSE
      <3>1. rank[x] < rank[y] \/ rank[y] < rank[x]
        BY <1>3, <2>2 DEF Orders
      <3>2. rank[x] \in Int /\ rank[y] \in Int
        BY <1>2
      <3> HIDE DEF rank
      <3> QED BY <2>2, <3>1, <3>2
    <2> HIDE DEF rank
    <2> QED BY <2>1, <2>2 DEF Injection, IsInjective
  <1>5. IsFiniteSet(0 .. (n - 1)) /\ Cardinality(0 .. (n - 1)) = n
    <2>1. n - 1 \in Int /\ 0 \in Int
      BY <1>1
    <2>2. /\ IsFiniteSet(0 .. (n - 1))
          /\ Cardinality(0 .. (n - 1)) = IF 0 > n - 1 THEN 0 ELSE n - 1 - 0 + 1
      BY <2>1, FS_Interval
    <2> HIDE DEF n
    <2> QED BY <1>1, <2>2
  <1>6. \A i \in 1 .. n : \E x \in S : Cardinality(Before(R, S, x)) = i - 1
    <2>1. rank \in Surjection(S, 0 .. (n - 1))
      <3> HIDE DEF rank
      <3> QED BY <1>4, <1>5, FS_Injection
    <2>2. ASSUME NEW i \in 1 .. n
          PROVE  \E x \in S : rank[x] = i - 1
      <3>1. i - 1 \in 0 .. (n - 1)
        BY <1>1
      <3> HIDE DEF rank
      <3> QED BY <2>1, <3>1 DEF Surjection
    <2> QED BY <2>2
  <1> QED BY <1>1, <1>2, <1>3, <1>6

\* A list with as many before each place as the places there are is the set in its order.
LEMMA Ordered ==
    ASSUME NEW S, IsFiniteSet(S), NEW R, Orders(R, S), NEW seq,
           seq = [i \in 1 .. Cardinality(S) |-> seq[i]],
           \A i \in 1 .. Cardinality(S) : \A x \in S : Cardinality(Before(R, S, x)) = i - 1 =>
               seq[i] \in S /\ Cardinality(Before(R, S, seq[i])) = i - 1
    PROVE  /\ seq \in Seq(S) /\ Len(seq) \in Nat /\ DOMAIN seq = 1 .. Len(seq) /\ ToSet(seq) = S
           /\ \A i, j \in DOMAIN seq : i < j => <<seq[i], seq[j]>> \in R
  <1>1. Cardinality(S) \in Nat
    BY Ranks
  <1>2. \A i \in 1 .. Cardinality(S) : seq[i] \in S /\ Cardinality(Before(R, S, seq[i])) = i - 1
    BY Ranks
  <1>3. seq \in Seq(S) /\ Len(seq) = Cardinality(S) /\ DOMAIN seq = 1 .. Cardinality(S)
    BY <1>1, <1>2
  <1>4. \A i, j \in DOMAIN seq : i < j => <<seq[i], seq[j]>> \in R
    <2> SUFFICES ASSUME NEW i \in 1 .. Cardinality(S), NEW j \in 1 .. Cardinality(S), i < j
                 PROVE  <<seq[i], seq[j]>> \in R
      BY <1>3
    <2>1. seq[i] # seq[j]
      BY <1>2
    <2>2. <<seq[j], seq[i]>> \notin R
      <3>1. SUFFICES ASSUME <<seq[j], seq[i]>> \in R
                     PROVE  FALSE
        OBVIOUS
      <3>2. Cardinality(Before(R, S, seq[j])) < Cardinality(Before(R, S, seq[i]))
        BY <1>2, <3>1, Ranks
      <3> QED BY <1>2, <3>2
    <2> QED BY <1>2, <2>1, <2>2 DEF Orders
  <1>5. S \subseteq ToSet(seq)
    <2> SUFFICES ASSUME NEW x \in S
                 PROVE  \E i \in 1 .. Cardinality(S) : seq[i] = x
      BY <1>3 DEF ToSet
    <2>1. PICK k \in 0 .. (Cardinality(S) - 1) : k = Cardinality(Before(R, S, x))
      BY Ranks
    <2>2. k + 1 \in 1 .. Cardinality(S)
      BY <1>1, <2>1
    <2>3. seq[k + 1] \in S /\ Cardinality(Before(R, S, seq[k + 1])) = k
      BY <1>2, <2>2
    <2>4. seq[k + 1] = x
      <3>1. SUFFICES ASSUME seq[k + 1] # x
                     PROVE  FALSE
        OBVIOUS
      <3>2. \/ Cardinality(Before(R, S, seq[k + 1])) < Cardinality(Before(R, S, x))
            \/ Cardinality(Before(R, S, x)) < Cardinality(Before(R, S, seq[k + 1]))
        BY <2>3, <3>1, Ranks DEF Orders
      <3> QED BY <2>1, <2>3, <3>2
    <2> QED BY <2>2, <2>4
  <1>6. ToSet(seq) \subseteq S
    BY <1>2, <1>3 DEF ToSet
  <1> QED BY <1>1, <1>3, <1>4, <1>5, <1>6

----------------------------------------------------------------------------
(* The rows of /usage.                                                     *)

\* What may arrive is what a scenario says.
FeedInv == \E s \in Scenarios : feed = s.feed

\* x is a row that record r may show.
AdminRow(x, r) == /\ r.source = "admin"
                  /\ \E i \in DOMAIN r.results :
                        x = UsageRow(r, i, r.results[i].model, r.results[i].place,
                                     AnthropicTokens(r.results[i]))
BucketRow(x, r) == /\ r.source = "openai_admin_usage"
                   /\ \E b \in r.result :
                         x = UsageRow(r, 1, b.model, b.place, OpenAITokens(b))
RowOf(x, r) == AdminRow(x, r) \/ BucketRow(x, r)

\* A row has its record's time and id; with its place in the record, it is the only one.
LEMMA RowFacts ==
    ASSUME FeedInv, NEW r \in feed, NEW x, RowOf(x, r)
    PROVE  /\ x.at = r.at /\ x.at \in Int /\ x.rid = r.id /\ x.rid \in Int /\ x.ord \in Int
           /\ \A y : RowOf(y, r) /\ y.ord = x.ord => y = x
  <1>1. /\ r.at \in Int /\ r.id \in Int
        /\ r.source = "admin" => Len(r.results) \in Nat /\ DOMAIN r.results = 1 .. Len(r.results)
        /\ r.source = "openai_admin_usage" => \A b, c \in r.result : b = c
    BY ListsAssumption DEF FeedInv
  <1>2. CASE AdminRow(x, r)
    <2>1. PICK i \in DOMAIN r.results :
             x = UsageRow(r, i, r.results[i].model, r.results[i].place, AnthropicTokens(r.results[i]))
      BY <1>2 DEF AdminRow
    <2>2. x.at = r.at /\ x.rid = r.id /\ x.ord = i
      BY <2>1 DEF UsageRow
    <2>3. ASSUME NEW y, RowOf(y, r), y.ord = x.ord
          PROVE  y = x
      <3>1. AdminRow(y, r)
        BY <1>2, <2>3 DEF RowOf, AdminRow, BucketRow
      <3>2. PICK j \in DOMAIN r.results :
               y = UsageRow(r, j, r.results[j].model, r.results[j].place, AnthropicTokens(r.results[j]))
        BY <3>1 DEF AdminRow
      <3>3. y.ord = j
        BY <3>2 DEF UsageRow
      <3> QED BY <2>1, <2>2, <2>3, <3>2, <3>3
    <2> QED BY <1>1, <1>2, <2>2, <2>3 DEF AdminRow
  <1>3. CASE BucketRow(x, r)
    <2>1. PICK b \in r.result : x = UsageRow(r, 1, b.model, b.place, OpenAITokens(b))
      BY <1>3 DEF BucketRow
    <2>2. x.at = r.at /\ x.rid = r.id /\ x.ord = 1
      BY <2>1 DEF UsageRow
    <2>3. ASSUME NEW y, RowOf(y, r)
          PROVE  y = x
      <3>1. BucketRow(y, r)
        BY <1>3, <2>3 DEF RowOf, AdminRow, BucketRow
      <3>2. PICK c \in r.result : y = UsageRow(r, 1, c.model, c.place, OpenAITokens(c))
        BY <3>1 DEF BucketRow
      <3> QED BY <1>1, <1>3, <2>1, <3>2 DEF BucketRow
    <2> QED BY <1>1, <2>2, <2>3
  <1> QED BY <1>2, <1>3 DEF RowOf

\* The rows that may be shown stand in one order.
LEMMA RowOrder ==
    ASSUME FeedInv, Tables, NEW S, \A x \in S : \E r \in feed : RowOf(x, r)
    PROVE  /\ \A x \in S : ~RowBefore(x, x)
           /\ \A x, y \in S : x # y => RowBefore(x, y) \/ RowBefore(y, x)
           /\ \A x, y, z \in S : RowBefore(x, y) /\ RowBefore(y, z) => RowBefore(x, z)
  <1>1. \A x \in S : x.at \in Int /\ x.rid \in Int /\ x.ord \in Int
    BY RowFacts
  <1>2. ASSUME NEW x \in S, NEW y \in S, x # y, x.rid = y.rid
        PROVE  x.at = y.at /\ x.ord # y.ord
    <2>1. PICK r \in feed : RowOf(x, r)
      OBVIOUS
    <2>2. PICK q \in feed : RowOf(y, q)
      OBVIOUS
    <2>3. r = q
      BY <1>2, <2>1, <2>2, RowFacts DEF Tables
    <2> QED BY <1>2, <2>1, <2>2, <2>3, RowFacts
  <1>3. \A x \in S : ~RowBefore(x, x)
    BY <1>1 DEF RowBefore
  <1>4. \A x, y \in S : x # y => RowBefore(x, y) \/ RowBefore(y, x)
    BY <1>1, <1>2 DEF RowBefore
  <1>5. \A x, y, z \in S : RowBefore(x, y) /\ RowBefore(y, z) => RowBefore(x, z)
    BY <1>1 DEF RowBefore
  <1> QED BY <1>3, <1>4, <1>5

\* A row of GET /usage is a row of a record.
LEMMA ShownRow ==
    ASSUME NEW R, NEW w, NEW f, NEW x \in UsageRows(R, w, f)
    PROVE  \E r \in R : RowOf(x, r)
  <1>1. CASE x \in AnthropicBranch(R, w, f)
    BY <1>1 DEF AnthropicBranch, FromSource, RowOf, AdminRow
  <1>2. CASE x \in OpenAIBranch(R, w, f)
    BY <1>2 DEF OpenAIBranch, FromSource, RowOf, BucketRow
  <1> QED BY <1>1, <1>2 DEF UsageRows

\* A row that is shown among more records was shown among those that had its record.
LEMMA RowLasts ==
    ASSUME FeedInv, Tables, NEW R, NEW T, R \subseteq T, T \subseteq feed, NEW w, NEW f,
           NEW x \in UsageRows(T, w, f), NEW r \in R, RowOf(x, r)
    PROVE  x \in UsageRows(R, w, f)
  <1>1. ASSUME NEW q \in T, RowOf(x, q)
        PROVE  q = r
    <2>1. x.rid = q.id /\ x.rid = r.id
      BY <1>1, RowFacts
    <2> QED BY <2>1 DEF Tables
  <1>2. CASE x \in AnthropicBranch(T, w, f)
    <2>1. PICK q \in FromSource(T, w, "admin") :
             \E i \in {j \in DOMAIN q.results :
                          /\ ~Superseded(T, q, q.results[j])
                          /\ Passes(f, q.results[j].model, q.results[j].place)} :
                 x = UsageRow(q, i, q.results[i].model, q.results[i].place, AnthropicTokens(q.results[i]))
      BY <1>2 DEF AnthropicBranch
    <2>2. PICK i \in DOMAIN q.results :
             /\ ~Superseded(T, q, q.results[i]) /\ Passes(f, q.results[i].model, q.results[i].place)
             /\ x = UsageRow(q, i, q.results[i].model, q.results[i].place, AnthropicTokens(q.results[i]))
      BY <2>1
    <2>3. q = r /\ q \in FromSource(R, w, "admin")
      <3>1. q \in T /\ q.source = "admin" /\ Within(w, q)
        BY DEF FromSource
      <3>2. RowOf(x, q)
        BY <2>2, <3>1 DEF RowOf, AdminRow
      <3> QED BY <1>1, <3>1, <3>2 DEF FromSource
    <2>4. ~Superseded(R, q, q.results[i])
      BY <2>2 DEF Superseded
    <2>5. x \in AnthropicBranch(R, w, f)
      BY <2>2, <2>3, <2>4 DEF AnthropicBranch
    <2> QED BY <2>5 DEF UsageRows
  <1>3. CASE x \in OpenAIBranch(T, w, f)
    <2>1. PICK q \in FromSource(T, w, "openai_admin_usage") :
             \E b \in {c \in q.result : Passes(f, c.model, c.place)} :
                 x = UsageRow(q, 1, b.model, b.place, OpenAITokens(b))
      BY <1>3 DEF OpenAIBranch
    <2>2. q = r /\ q \in FromSource(R, w, "openai_admin_usage")
      <3>1. q \in T /\ q.source = "openai_admin_usage" /\ Within(w, q)
        BY DEF FromSource
      <3>2. RowOf(x, q)
        BY <2>1, <3>1 DEF RowOf, BucketRow
      <3> QED BY <1>1, <3>1, <3>2 DEF FromSource
    <2>3. x \in OpenAIBranch(R, w, f)
      BY <2>1, <2>2 DEF OpenAIBranch
    <2> QED BY <2>3 DEF UsageRows
  <1> QED BY <1>2, <1>3 DEF UsageRows

\* What is read off a finite set is finite.
LEMMA Image ==
    ASSUME NEW S, IsFiniteSet(S), NEW g
    PROVE  IsFiniteSet({g[x] : x \in S})
  <1> DEFINE f == [x \in S |-> g[x]]
  <1>1. f \in Surjection(S, {g[x] : x \in S})
    BY DEF Surjection
  <1> HIDE DEF f
  <1> QED BY <1>1, FS_Surjection

\* As many rows as there are records with parts.
LEMMA RowsFinite ==
    ASSUME FeedInv, NEW R, R \subseteq feed, IsFiniteSet(R), NEW w, NEW f
    PROVE  IsFiniteSet(UsageRows(R, w, f))
  <1> DEFINE rows(r) == {UsageRow(r, i, r.results[i].model, r.results[i].place,
                                  AnthropicTokens(r.results[i])) :
                            i \in {j \in DOMAIN r.results :
                                     /\ ~Superseded(R, r, r.results[j])
                                     /\ Passes(f, r.results[j].model, r.results[j].place)}}
             buckets(r) == {UsageRow(r, 1, b.model, b.place, OpenAITokens(b)) :
                               b \in {c \in r.result : Passes(f, c.model, c.place)}}
  <1>1. ASSUME NEW r \in FromSource(R, w, "admin")
        PROVE  IsFiniteSet(rows(r))
    <2> DEFINE parts == {j \in DOMAIN r.results :
                            /\ ~Superseded(R, r, r.results[j])
                            /\ Passes(f, r.results[j].model, r.results[j].place)}
               g == [i \in parts |-> UsageRow(r, i, r.results[i].model, r.results[i].place,
                                              AnthropicTokens(r.results[i]))]
    <2>1. Len(r.results) \in Nat /\ DOMAIN r.results = 1 .. Len(r.results)
      BY ListsAssumption DEF FeedInv, FromSource
    <2>2. PICK n : n = Len(r.results)
      OBVIOUS
    <2>3. IsFiniteSet(1 .. n)
      <3>1. n \in Int /\ 1 \in Int
        BY <2>1, <2>2
      <3> HIDE DEF parts, g
      <3> QED BY <3>1, FS_Interval
    <2>4. IsFiniteSet(parts)
      BY <2>1, <2>2, <2>3, FS_Subset
    <2>5. rows(r) = {g[i] : i \in parts}
      OBVIOUS
    <2> HIDE DEF parts, g, rows
    <2> QED BY <2>4, <2>5, Image
  <1>2. ASSUME NEW r \in FromSource(R, w, "openai_admin_usage")
        PROVE  IsFiniteSet(buckets(r))
    <2>1. \A b, c \in r.result : b = c
      BY ListsAssumption DEF FeedInv, FromSource
    <2>2. buckets(r) = {} \/ \E x : buckets(r) = {x}
      BY <2>1
    <2> QED BY <2>2, FS_EmptySet, FS_Singleton
  <1>3. IsFiniteSet(FromSource(R, w, "admin")) /\ IsFiniteSet(FromSource(R, w, "openai_admin_usage"))
    BY FS_Subset DEF FromSource
  <1>4. IsFiniteSet(AnthropicBranch(R, w, f))
    <2> DEFINE F == FromSource(R, w, "admin")
               g == [r \in F |-> rows(r)]
    <2>1. IsFiniteSet({g[r] : r \in F})
      <3> HIDE DEF g
      <3> QED BY <1>3, Image
    <2>2. \A T \in {g[r] : r \in F} : IsFiniteSet(T)
      BY <1>1
    <2>3. AnthropicBranch(R, w, f) = UNION {g[r] : r \in F}
      BY DEF AnthropicBranch
    <2> HIDE DEF g, F
    <2> QED BY <2>1, <2>2, <2>3, FS_UNION
  <1>5. IsFiniteSet(OpenAIBranch(R, w, f))
    <2> DEFINE F == FromSource(R, w, "openai_admin_usage")
               g == [r \in F |-> buckets(r)]
    <2>1. IsFiniteSet({g[r] : r \in F})
      <3> HIDE DEF g
      <3> QED BY <1>3, Image
    <2>2. \A T \in {g[r] : r \in F} : IsFiniteSet(T)
      BY <1>2
    <2>3. OpenAIBranch(R, w, f) = UNION {g[r] : r \in F}
      BY DEF OpenAIBranch
    <2> HIDE DEF g, F
    <2> QED BY <2>1, <2>2, <2>3, FS_UNION
  <1> QED BY <1>4, <1>5, FS_Union DEF UsageRows

\* The rows after a cursor, as the page's query sorts them.
LEMMA RowsInOrder ==
    ASSUME FeedInv, Tables, NEW S, IsFiniteSet(S), \A x \in S : \E r \in feed : RowOf(x, r)
    PROVE  LET seq == RowsSorted(S)
           IN  /\ seq \in Seq(S) /\ Len(seq) \in Nat /\ DOMAIN seq = 1 .. Len(seq) /\ ToSet(seq) = S
               /\ \A i, j \in DOMAIN seq : i < j => RowBefore(seq[i], seq[j])
  <1> DEFINE seq == RowsSorted(S)
             R == {z \in S \X S : RowBefore(z[1], z[2])}
  <1>1. \A x, y \in S : <<x, y>> \in R <=> RowBefore(x, y)
    OBVIOUS
  <1> HIDE DEF R
  <1>2. Orders(R, S)
    BY <1>1, RowOrder DEF Orders
  <1>3. \A x \in S : {y \in S : RowBefore(y, x)} = Before(R, S, x)
    BY <1>1 DEF Before
  <1>4. seq = [i \in 1 .. Cardinality(S) |-> seq[i]]
    <2> DEFINE c(i) == CHOOSE x \in S : Cardinality({y \in S : RowBefore(y, x)}) = i - 1
               h == [i \in 1 .. Cardinality(S) |-> c(i)]
    <2>1. seq = h
      BY DEF RowsSorted, InOrder
    <2> HIDE DEF c
    <2>2. h = [i \in 1 .. Cardinality(S) |-> h[i]]
      OBVIOUS
    <2> HIDE DEF h
    <2> QED BY <2>1, <2>2
  <1>5. ASSUME NEW i \in 1 .. Cardinality(S), NEW x \in S, Cardinality(Before(R, S, x)) = i - 1
        PROVE  seq[i] \in S /\ Cardinality(Before(R, S, seq[i])) = i - 1
    <2>1. seq[i] = CHOOSE y \in S : Cardinality({z \in S : RowBefore(z, y)}) = i - 1
      BY DEF RowsSorted, InOrder
    <2>2. \E y \in S : Cardinality({z \in S : RowBefore(z, y)}) = i - 1
      BY <1>3, <1>5
    <2>3. seq[i] \in S /\ Cardinality({z \in S : RowBefore(z, seq[i])}) = i - 1
      BY <2>1, <2>2
    <2> QED BY <1>3, <2>3
  <1> HIDE DEF seq
  <1> \A i \in 1 .. Cardinality(S) : \A x \in S : Cardinality(Before(R, S, x)) = i - 1 =>
          seq[i] \in S /\ Cardinality(Before(R, S, seq[i])) = i - 1
    BY <1>5
  <1>6. /\ seq \in Seq(S) /\ Len(seq) \in Nat /\ DOMAIN seq = 1 .. Len(seq) /\ ToSet(seq) = S
        /\ \A i, j \in DOMAIN seq : i < j => <<seq[i], seq[j]>> \in R
    BY <1>2, <1>4, <1>5, Ordered
  <1>7. \A i \in DOMAIN seq : seq[i] \in S
    BY <1>6
  <1>8. \A i, j \in DOMAIN seq : i < j => RowBefore(seq[i], seq[j])
    BY <1>1, <1>6, <1>7
  <1> QED BY <1>6, <1>8 DEF seq

----------------------------------------------------------------------------
(* The sessions of /sessions.                                              *)

\* The greatest of finitely many numbers is one of them.
LEMMA MaxOf ==
    ASSUME NEW S, S \subseteq Int, IsFiniteSet(S), S # {}
    PROVE  Max(S) \in S /\ \A y \in S : Max(S) >= y
  <1> DEFINE R == {z \in S \X S : z[1] > z[2]}
  <1>1. \A x, y \in S : <<x, y>> \in R <=> x > y
    OBVIOUS
  <1> HIDE DEF R
  <1>2. Orders(R, S)
    BY <1>1 DEF Orders
  <1>3. Cardinality(S) \in Nat /\ Cardinality(S) # 0
    BY FS_CardinalityType, FS_EmptySet
  <1>4. 1 \in 1 .. Cardinality(S)
    BY <1>3
  <1>5. PICK x \in S : Cardinality(Before(R, S, x)) = 1 - 1
    BY <1>2, <1>4, Ranks
  <1>6. Before(R, S, x) = {}
    <2>1. IsFiniteSet(Before(R, S, x))
      BY FS_Subset DEF Before
    <2> QED BY <1>5, <2>1, FS_EmptySet
  <1>7. \A y \in S : x >= y
    <2> SUFFICES ASSUME NEW y \in S
                 PROVE  ~(y > x)
      OBVIOUS
    <2>1. <<y, x>> \notin R
      BY <1>6 DEF Before
    <2> QED BY <1>1, <2>1
  <1> QED BY <1>7 DEF Max

\* The records that a list of sessions counts, and those of one session.
Counted(T, sources) == {r \in T : r.source \in SessionSources
                                  /\ (sources = {} \/ r.source \in sources)}
OfSession(T, sources, id) == {r \in Counted(T, sources) : SessionOf(r) = id}

\* The session that the records of X make.
Summary(X, id) == [id |-> id, last |-> Max({r.at : r \in X}), count |-> Cardinality(X),
                   surfaces |-> {EffectiveSurface(r) : r \in X}]

SessionsFrom(T, sources) ==
    {Summary(OfSession(T, sources, i), i) : i \in {SessionOf(r) : r \in Counted(T, sources)}}

\* s was listed, when some of the records of its day and actor in T had arrived.
Was(s, T, sources) == \E X \in SUBSET OfSession(T, sources, s.id) : X # {} /\ s = Summary(X, s.id)

\* A list of sessions is made of the records.
LEMMA SessionsAre ==
    ASSUME NEW sources
    PROVE  /\ Sessions(sources) = SessionsFrom(records, sources)
           /\ Sessions(sources)' = SessionsFrom(records', sources)
  BY DEF Sessions, SessionsFrom, Summary, OfSession, Counted

\* Is it listed, it is the summary of all its records.
LEMMA Listed ==
    ASSUME NEW T, NEW sources, NEW s \in SessionsFrom(T, sources)
    PROVE  /\ s = Summary(OfSession(T, sources, s.id), s.id)
           /\ \E r \in Counted(T, sources) : SessionOf(r) = s.id
           /\ Was(s, T, sources)
  <1>1. PICK r \in Counted(T, sources) :
           s = Summary(OfSession(T, sources, SessionOf(r)), SessionOf(r))
    BY DEF SessionsFrom
  <1>2. s.id = SessionOf(r)
    BY <1>1 DEF Summary
  <1>3. r \in OfSession(T, sources, s.id)
    BY <1>2 DEF OfSession
  <1> QED BY <1>1, <1>2, <1>3 DEF Was

\* The converse: the summary of a day and actor that occur is listed.
LEMMA IsListed ==
    ASSUME NEW T, NEW sources, NEW r \in Counted(T, sources)
    PROVE  Summary(OfSession(T, sources, SessionOf(r)), SessionOf(r)) \in SessionsFrom(T, sources)
  BY DEF SessionsFrom

\* A session's day is that of its last record, and its actor has a place in the collation.
LEMMA SessionFacts ==
    ASSUME FeedInv, Tables, NEW sources, NEW s, Was(s, records, sources)
    PROVE  /\ s.last \in Int /\ s.count \in Nat
           /\ s.id = <<DayOf(s.last), s.id[2], s.id[3]>>
           /\ \A i \in {2, 3} : /\ Rank(s.id[i]) \in Nat /\ Rank(s.id[i]) \in DOMAIN Wire.collation
                                /\ Wire.collation[Rank(s.id[i])] = s.id[i]
           /\ Wire.name[s.id[2]] = s.id[2]
  <1>1. PICK X \in SUBSET OfSession(records, sources, s.id) : X # {} /\ s = Summary(X, s.id)
    BY DEF Was
  <1>2. \A r \in X : r \in feed /\ r \in records /\ SessionOf(r) = s.id /\ r.source \in SessionSources
    BY <1>1 DEF OfSession, Counted, Tables
  <1>3. IsFiniteSet(X)
    <2>1. X \in SUBSET records
      BY <1>2
    <2> QED BY <2>1, Finite, FS_Subset
  <1>4. \A r \in X : /\ r.at \in Int
                     /\ {ActorType(r), ActorKey(r)} \subseteq ToSet(Wire.collation)
                     /\ Wire.name[ActorType(r)] = ActorType(r)
    BY <1>2, ListsAssumption DEF FeedInv
  <1>5. IsFiniteSet({r.at : r \in X}) /\ {r.at : r \in X} # {} /\ {r.at : r \in X} \subseteq Int
    <2> DEFINE g == [r \in X |-> r.at]
    <2>1. IsFiniteSet({g[r] : r \in X})
      <3> HIDE DEF g
      <3> QED BY <1>3, Image
    <2>2. {g[r] : r \in X} = {r.at : r \in X}
      OBVIOUS
    <2> HIDE DEF g
    <2> QED BY <1>1, <1>4, <2>1, <2>2
  <1>6. PICK r \in X : Max({q.at : q \in X}) = r.at
    <2>1. Max({q.at : q \in X}) \in {q.at : q \in X}
      BY <1>5, MaxOf
    <2> QED BY <2>1
  <1>7. s.last = r.at /\ s.count = Cardinality(X)
    BY <1>1, <1>6 DEF Summary
  <1>8. s.id = <<DayOf(r.at), ActorType(r), ActorKey(r)>>
    BY <1>2 DEF SessionOf
  <1>9. s.count \in Nat
    BY <1>3, <1>7, FS_CardinalityType
  <1>10. s.id[2] = ActorType(r) /\ s.id[3] = ActorKey(r)
    BY <1>8
  <1>11. ASSUME NEW t \in ToSet(Wire.collation)
         PROVE  Rank(t) \in Nat /\ Rank(t) \in DOMAIN Wire.collation /\ Wire.collation[Rank(t)] = t
    <2>1. \E i \in DOMAIN Wire.collation : Wire.collation[i] = t
      BY DEF ToSet
    <2>2. Rank(t) \in DOMAIN Wire.collation /\ Wire.collation[Rank(t)] = t
      BY <2>1 DEF Rank
    <2> QED BY <2>2, ListsAssumption
  <1>12. s.id[2] \in ToSet(Wire.collation) /\ s.id[3] \in ToSet(Wire.collation)
    BY <1>4, <1>10
  <1>13. \A i \in {2, 3} : /\ Rank(s.id[i]) \in Nat /\ Rank(s.id[i]) \in DOMAIN Wire.collation
                           /\ Wire.collation[Rank(s.id[i])] = s.id[i]
    BY <1>11, <1>12
  <1> QED BY <1>4, <1>7, <1>8, <1>9, <1>10, <1>13

\* The sessions of one list stand in one order.
LEMMA SessionOrder ==
    ASSUME FeedInv, Tables, NEW sources, NEW S, \A s \in S : Was(s, records, sources),
           \A s, t \in S : s.id = t.id => s = t
    PROVE  /\ \A x \in S : ~SessionBefore(x, x)
           /\ \A x, y \in S : x # y => SessionBefore(x, y) \/ SessionBefore(y, x)
           /\ \A x, y, z \in S : SessionBefore(x, y) /\ SessionBefore(y, z) => SessionBefore(x, z)
  <1>1. \A x \in S : /\ x.last \in Int /\ Rank(x.id[2]) \in Nat /\ Rank(x.id[3]) \in Nat
                     /\ x.id = <<DayOf(x.last), x.id[2], x.id[3]>>
                     /\ Wire.collation[Rank(x.id[2])] = x.id[2] /\ Wire.collation[Rank(x.id[3])] = x.id[3]
    BY SessionFacts
  <1>2. \A x \in S : ~SessionBefore(x, x)
    BY <1>1 DEF SessionBefore
  <1>3. ASSUME NEW x \in S, NEW y \in S, x # y
        PROVE  SessionBefore(x, y) \/ SessionBefore(y, x)
    <2>1. x.last = y.last => x.id[2] # y.id[2] \/ x.id[3] # y.id[3]
      BY <1>1, <1>3
    <2>2. x.id[2] # y.id[2] => Rank(x.id[2]) # Rank(y.id[2])
      BY <1>1
    <2>3. x.id[3] # y.id[3] => Rank(x.id[3]) # Rank(y.id[3])
      BY <1>1
    <2> QED BY <1>1, <2>1, <2>2, <2>3 DEF SessionBefore
  <1>4. ASSUME NEW x \in S, NEW y \in S, NEW z \in S, SessionBefore(x, y), SessionBefore(y, z)
        PROVE  SessionBefore(x, z)
    BY <1>1, <1>4 DEF SessionBefore
  <1> QED BY <1>2, <1>3, <1>4

\* Sessions after a cursor, as the page's query sorts them.
LEMMA SessionsInOrder ==
    ASSUME FeedInv, Tables, NEW sources, NEW S, IsFiniteSet(S), \A s \in S : Was(s, records, sources),
           \A s, t \in S : s.id = t.id => s = t
    PROVE  LET seq == SessionsSorted(S)
           IN  /\ seq \in Seq(S) /\ Len(seq) \in Nat /\ DOMAIN seq = 1 .. Len(seq) /\ ToSet(seq) = S
               /\ \A i, j \in DOMAIN seq : i < j => SessionBefore(seq[i], seq[j])
  <1> DEFINE seq == SessionsSorted(S)
             R == {z \in S \X S : SessionBefore(z[1], z[2])}
  <1>1. \A x, y \in S : <<x, y>> \in R <=> SessionBefore(x, y)
    OBVIOUS
  <1> HIDE DEF R
  <1>2. Orders(R, S)
    BY <1>1, SessionOrder DEF Orders
  <1>3. \A x \in S : {y \in S : SessionBefore(y, x)} = Before(R, S, x)
    BY <1>1 DEF Before
  <1>4. seq = [i \in 1 .. Cardinality(S) |-> seq[i]]
    <2> DEFINE c(i) == CHOOSE x \in S : Cardinality({y \in S : SessionBefore(y, x)}) = i - 1
               h == [i \in 1 .. Cardinality(S) |-> c(i)]
    <2>1. seq = h
      BY DEF SessionsSorted, InOrder
    <2> HIDE DEF c
    <2>2. h = [i \in 1 .. Cardinality(S) |-> h[i]]
      OBVIOUS
    <2> HIDE DEF h
    <2> QED BY <2>1, <2>2
  <1>5. ASSUME NEW i \in 1 .. Cardinality(S), NEW x \in S, Cardinality(Before(R, S, x)) = i - 1
        PROVE  seq[i] \in S /\ Cardinality(Before(R, S, seq[i])) = i - 1
    <2>1. seq[i] = CHOOSE y \in S : Cardinality({z \in S : SessionBefore(z, y)}) = i - 1
      BY DEF SessionsSorted, InOrder
    <2>2. \E y \in S : Cardinality({z \in S : SessionBefore(z, y)}) = i - 1
      BY <1>3, <1>5
    <2>3. seq[i] \in S /\ Cardinality({z \in S : SessionBefore(z, seq[i])}) = i - 1
      BY <2>1, <2>2
    <2> QED BY <1>3, <2>3
  <1> HIDE DEF seq
  <1>6. \A i \in 1 .. Cardinality(S) : \A x \in S : Cardinality(Before(R, S, x)) = i - 1 =>
            seq[i] \in S /\ Cardinality(Before(R, S, seq[i])) = i - 1
    BY <1>5
  <1>7. /\ seq \in Seq(S) /\ Len(seq) \in Nat /\ DOMAIN seq = 1 .. Len(seq) /\ ToSet(seq) = S
        /\ \A i, j \in DOMAIN seq : i < j => <<seq[i], seq[j]>> \in R
    BY <1>2, <1>4, <1>6, Ordered
  <1>8. \A i \in DOMAIN seq : seq[i] \in S
    BY <1>7
  <1>9. \A i, j \in DOMAIN seq : i < j => SessionBefore(seq[i], seq[j])
    BY <1>1, <1>7, <1>8
  <1> QED BY <1>7, <1>9 DEF seq

\* The sessions of a list are finitely many, each of its own day and actor.
LEMMA SessionsFinite ==
    ASSUME Tables, NEW sources
    PROVE  /\ IsFiniteSet(SessionsFrom(records, sources))
           /\ \A s, t \in SessionsFrom(records, sources) : s.id = t.id => s = t
  <1> DEFINE R == Counted(records, sources)
             g == [r \in R |-> Summary(OfSession(records, sources, SessionOf(r)), SessionOf(r))]
  <1>1. IsFiniteSet(R)
    BY Finite, FS_Subset DEF Counted
  <1>2. IsFiniteSet({g[r] : r \in R})
    <2> HIDE DEF R, g
    <2> QED BY <1>1, Image
  <1>3. SessionsFrom(records, sources) = {g[r] : r \in R}
    BY DEF SessionsFrom
  <1>4. \A s, t \in SessionsFrom(records, sources) : s.id = t.id => s = t
    BY Listed
  <1> HIDE DEF R, g
  <1> QED BY <1>2, <1>3, <1>4

\* A session that is as it was when fewer records had arrived, was so in between.
LEMMA SessionLasts ==
    ASSUME NEW R, NEW T, R \subseteq T, IsFiniteSet(T), NEW sources,
           NEW s \in SessionsFrom(T, sources), Was(s, R, sources)
    PROVE  s \in SessionsFrom(R, sources)
  <1>1. PICK X \in SUBSET OfSession(R, sources, s.id) : X # {} /\ s = Summary(X, s.id)
    BY DEF Was
  <1>2. s = Summary(OfSession(T, sources, s.id), s.id)
    BY Listed
  <1>3. Cardinality(X) = Cardinality(OfSession(T, sources, s.id))
    BY <1>1, <1>2 DEF Summary
  <1>4. OfSession(R, sources, s.id) \subseteq OfSession(T, sources, s.id)
    BY DEF OfSession, Counted
  <1>5. IsFiniteSet(OfSession(T, sources, s.id))
    <2>1. OfSession(T, sources, s.id) \in SUBSET T
      BY DEF OfSession, Counted
    <2> QED BY <2>1, FS_Subset
  <1>6. X = OfSession(T, sources, s.id)
    BY <1>1, <1>3, <1>4, <1>5, FS_Subset
  <1>7. X = OfSession(R, sources, s.id)
    BY <1>1, <1>4, <1>6
  <1>8. PICK r \in X : r \in Counted(R, sources) /\ SessionOf(r) = s.id
    BY <1>1 DEF OfSession
  <1> QED BY <1>1, <1>7, <1>8, IsListed

----------------------------------------------------------------------------
(* The walks themselves.                                                   *)

\* A page is the beginning of a sorted list.
LEMMA PageFacts ==
    ASSUME NEW S, NEW sorted \in Seq(S), Len(sorted) \in Nat, DOMAIN sorted = 1 .. Len(sorted)
    PROVE  /\ PageOf(sorted) \in Seq(S) /\ Len(PageOf(sorted)) \in Nat
           /\ DOMAIN PageOf(sorted) = 1 .. Len(PageOf(sorted))
           /\ Len(PageOf(sorted)) <= Len(sorted)
           /\ \A i \in DOMAIN PageOf(sorted) : PageOf(sorted)[i] = sorted[i]
           /\ HasMore(sorted) => Len(PageOf(sorted)) \in DOMAIN PageOf(sorted)
           /\ DOMAIN PageOf(sorted) \subseteq DOMAIN sorted
           /\ \A k \in DOMAIN sorted :
                  k \in DOMAIN PageOf(sorted) \/ (HasMore(sorted) /\ Len(PageOf(sorted)) < k)
  <1> DEFINE n == Min({PageSize, Len(sorted)})
  <1>1. PageSize \in Nat /\ PageSize > 0
    BY PageAssumption
  <1>2. n \in Nat /\ n <= Len(sorted) /\ n <= PageSize
    BY <1>1, MinOfTwo
  <1>3. n = PageSize \/ n = Len(sorted)
    <2>1. n \in {PageSize, Len(sorted)}
      BY <1>1, MinOfTwo
    <2> HIDE DEF n
    <2> QED BY <2>1
  <1>4. PageOf(sorted) = SubSeq(sorted, 1, n)
    BY DEF PageOf
  <1> HIDE DEF n
  <1>5. SubSeq(sorted, 1, n) \in Seq(S)
    BY <1>2, SubSeqOf
  <1>6. /\ Len(SubSeq(sorted, 1, n)) = n
        /\ \A i \in 1 .. n : SubSeq(sorted, 1, n)[i] = sorted[i]
    BY <1>2, SubSeqProperties
  <1>7. DOMAIN SubSeq(sorted, 1, n) = 1 .. n
    BY <1>5, <1>6, LenProperties
  <1>8. PICK page : page = SubSeq(sorted, 1, n)
    OBVIOUS
  <1>9. PICK m \in Nat : m = Len(sorted)
    OBVIOUS
  <1>10. /\ page \in Seq(S) /\ Len(page) = n /\ DOMAIN page = 1 .. n
         /\ \A i \in 1 .. n : page[i] = sorted[i]
    BY <1>5, <1>6, <1>7, <1>8
  <1>11. /\ HasMore(sorted) => n \in 1 .. n /\ n < m
         /\ ~HasMore(sorted) => n = m
    <2>1. HasMore(sorted) <=> m > PageSize
      BY <1>9 DEF HasMore
    <2>2. n \in Nat /\ n <= m /\ n <= PageSize /\ (n = PageSize \/ n = m)
      BY <1>2, <1>3, <1>9
    <2> QED BY <1>1, <2>1, <2>2
  <1>12. /\ 1 .. n \subseteq 1 .. m
         /\ \A k \in 1 .. m : k \in 1 .. n \/ (HasMore(sorted) /\ n < k)
    <2>1. n \in Nat /\ n <= m
      BY <1>2, <1>9
    <2>2. ASSUME NEW k \in 1 .. m
          PROVE  k \in 1 .. n \/ (HasMore(sorted) /\ n < k)
      BY <1>11, <2>1
    <2> QED BY <2>1, <2>2
  <1> QED BY <1>2, <1>4, <1>8, <1>9, <1>10, <1>11, <1>12

\* A sequence is over what it shows.
LEMMA OverItself ==
    ASSUME NEW S, NEW seq \in Seq(S)
    PROVE  ToSet(seq) \subseteq S /\ seq \in Seq(ToSet(seq))
  <1>1. PICK n \in Nat : n = Len(seq)
    BY LenProperties
  <1>2. DOMAIN seq = 1 .. n /\ seq = [i \in 1 .. n |-> seq[i]]
    BY <1>1, LenProperties
  <1>3. \A i \in 1 .. n : seq[i] \in S /\ seq[i] \in ToSet(seq)
    BY <1>1, <1>2, ElementOfSeq DEF ToSet
  <1>4. ToSet(seq) \subseteq S
    BY <1>2, <1>3 DEF ToSet
  <1> QED BY <1>2, <1>3, <1>4

\* c is a, and then b.
Joins(c, a, b) ==
    /\ Len(a) \in Nat /\ Len(b) \in Nat /\ Len(c) = Len(a) + Len(b)
    /\ DOMAIN a = 1 .. Len(a) /\ DOMAIN b = 1 .. Len(b) /\ DOMAIN c = 1 .. Len(c)
    /\ \A i \in DOMAIN a : c[i] = a[i]
    /\ \A i \in DOMAIN b : c[Len(a) + i] = b[i]
    /\ \A i, j \in DOMAIN c : i < j =>
           \/ i \in DOMAIN a /\ j \in DOMAIN a
           \/ i \in DOMAIN a /\ \E k \in DOMAIN b : c[j] = b[k]
           \/ \E k, l \in DOMAIN b : k < l /\ c[i] = b[k] /\ c[j] = b[l]
    /\ ToSet(c) = ToSet(a) \union ToSet(b) /\ c \in Seq(ToSet(c))

\* The same by its places.
InTurn(m, n, a, b, c) ==
    /\ DOMAIN a = 1 .. m /\ DOMAIN b = 1 .. n /\ DOMAIN c = 1 .. (m + n)
    /\ \A i \in 1 .. m + n : c[i] = IF i <= m THEN a[i] ELSE b[i - m]

LEMMA Places ==
    ASSUME NEW m \in Nat, NEW n \in Nat, NEW a, NEW b, NEW c, InTurn(m, n, a, b, c)
    PROVE  /\ \A i \in DOMAIN a : c[i] = a[i]
           /\ \A i \in DOMAIN b : c[m + i] = b[i]
           /\ \A i, j \in DOMAIN c : i < j =>
                  \/ i \in DOMAIN a /\ j \in DOMAIN a
                  \/ i \in DOMAIN a /\ \E k \in DOMAIN b : c[j] = b[k]
                  \/ \E k, l \in DOMAIN b : k < l /\ c[i] = b[k] /\ c[j] = b[l]
           /\ ToSet(c) = ToSet(a) \union ToSet(b)
  <1>1. \A i \in DOMAIN a : c[i] = a[i] /\ i \in DOMAIN c
    BY DEF InTurn
  <1>2. ASSUME NEW i \in DOMAIN b
        PROVE  c[m + i] = b[i] /\ m + i \in DOMAIN c
    <2>1. m + i \in 1 .. (m + n) /\ ~(m + i <= m) /\ m + i - m = i
      BY DEF InTurn
    <2> QED BY <2>1 DEF InTurn
  <1>3. ASSUME NEW i \in DOMAIN c, i \notin DOMAIN a
        PROVE  i > m /\ i - m \in DOMAIN b /\ c[i] = b[i - m]
    <2>1. i \in 1 .. (m + n) /\ i > m
      BY <1>3 DEF InTurn
    <2> QED BY <2>1 DEF InTurn
  <1>4. ASSUME NEW i \in DOMAIN c, NEW j \in DOMAIN c, i < j
        PROVE  \/ i \in DOMAIN a /\ j \in DOMAIN a
               \/ i \in DOMAIN a /\ \E k \in DOMAIN b : c[j] = b[k]
               \/ \E k, l \in DOMAIN b : k < l /\ c[i] = b[k] /\ c[j] = b[l]
    <2>1. CASE i \notin DOMAIN a
      <3>1. j \notin DOMAIN a
        BY <1>3, <1>4, <2>1 DEF InTurn
      <3>2. /\ i - m \in DOMAIN b /\ j - m \in DOMAIN b
            /\ c[i] = b[i - m] /\ c[j] = b[j - m]
        BY <1>3, <2>1, <3>1
      <3>3. i - m < j - m
        BY <1>4 DEF InTurn
      <3> QED BY <3>2, <3>3
    <2>2. CASE j \notin DOMAIN a
      BY <1>3, <2>1, <2>2
    <2> QED BY <2>1, <2>2
  <1>5. ToSet(c) \subseteq ToSet(a) \union ToSet(b)
    BY <1>1, <1>3 DEF ToSet
  <1>6. ToSet(a) \subseteq ToSet(c)
    BY <1>1 DEF ToSet
  <1>7. ToSet(b) \subseteq ToSet(c)
    BY <1>2 DEF ToSet
  <1> QED BY <1>1, <1>2, <1>4, <1>5, <1>6, <1>7

LEMMA JoinFacts ==
    ASSUME NEW a, NEW b, a \in Seq(ToSet(a)), b \in Seq(ToSet(b))
    PROVE  Joins(a \o b, a, b)
  <1> DEFINE S == ToSet(a) \union ToSet(b)
  <1>1. a \in Seq(S) /\ b \in Seq(S)
    BY SeqMonotonic
  <1>2. PICK m \in Nat, n \in Nat : m = Len(a) /\ n = Len(b)
    BY LenProperties
  <1>3. PICK c : c = a \o b
    OBVIOUS
  <1>4. DOMAIN a = 1 .. m /\ DOMAIN b = 1 .. n
    BY <1>2, LenProperties
  <1>5. /\ c \in Seq(S) /\ Len(c) = m + n
        /\ \A i \in 1 .. m + n : c[i] = IF i <= m THEN a[i] ELSE b[i - m]
    BY <1>1, <1>2, <1>3, ConcatProperties
  <1>6. DOMAIN c = 1 .. (m + n)
    BY <1>5, LenProperties
  <1>7. /\ \A i \in DOMAIN a : c[i] = a[i]
        /\ \A i \in DOMAIN b : c[m + i] = b[i]
        /\ \A i, j \in DOMAIN c : i < j =>
               \/ i \in DOMAIN a /\ j \in DOMAIN a
               \/ i \in DOMAIN a /\ \E k \in DOMAIN b : c[j] = b[k]
               \/ \E k, l \in DOMAIN b : k < l /\ c[i] = b[k] /\ c[j] = b[l]
        /\ ToSet(c) = S
    <2>1. InTurn(m, n, a, b, c)
      BY <1>4, <1>5, <1>6 DEF InTurn
    <2> QED BY <2>1, Places
  <1>8. c \in Seq(ToSet(c))
    BY <1>5, <1>7
  <1>9. Joins(c, a, b)
    BY <1>2, <1>4, <1>5, <1>6, <1>7, <1>8 DEF Joins
  <1> QED BY <1>3, <1>9

\* x is shown, once.
Once(x, seq) == \E i \in DOMAIN seq : seq[i] = x /\ \A j \in DOMAIN seq : seq[j] = x => j = i

LEMMA OnceCounts ==
    ASSUME NEW x, NEW seq, Once(x, seq)
    PROVE  Times(x, seq) = 1
  <1>1. PICK i \in DOMAIN seq : seq[i] = x /\ \A j \in DOMAIN seq : seq[j] = x => j = i
    BY DEF Once
  <1>2. {j \in DOMAIN seq : seq[j] = x} = {i}
    BY <1>1
  <1> QED BY <1>2, FS_Singleton DEF Times

\* A walk keeps what it asked for.
LEMMA Turns ==
    ASSUME NEW r, UsageWalk(r) \/ SessionsWalk(r), NEW seen, NEW cursor, NEW step, NEW q,
           q = [f \in DOMAIN r |-> IF f = "step" THEN step ELSE IF f = "cursor" THEN cursor
                                   ELSE IF f = "seen" THEN seen ELSE r[f]]
    PROVE  /\ q.seen = seen /\ q.cursor = cursor /\ q.step = step
           /\ q.op = r.op /\ q.first = r.first
           /\ r.op = "usage" => UsageWalk(r) /\ q.window = r.window /\ q.filter = r.filter
           /\ r.op = "sessions" => SessionsWalk(r) /\ q.sources = r.sources /\ q.opened = r.opened
  <1>2. CASE UsageWalk(r)
    <2>1. q = [op |-> "usage", step |-> step, pend |-> Nothing, window |-> r.window,
               filter |-> r.filter, cursor |-> cursor, seen |-> seen, first |-> r.first]
      BY <1>2 DEF UsageWalk
    <2>2. r.op = "usage"
      BY <1>2 DEF UsageWalk
    <2> QED BY <1>2, <2>1, <2>2
  <1>3. CASE SessionsWalk(r)
    <2>1. q = [op |-> "sessions", step |-> step, pend |-> Nothing, sources |-> r.sources,
               cursor |-> cursor, seen |-> seen, first |-> r.first, opened |-> r.opened]
      BY <1>3 DEF SessionsWalk
    <2>2. r.op = "sessions"
      BY <1>3 DEF SessionsWalk
    <2> QED BY <1>3, <2>1, <2>2
  <1> QED BY <1>2, <1>3

\* The cursor stands at the last of what was shown.
Stands(r) == IF r.seen = <<>> THEN r.cursor = NoCursor
             ELSE r.cursor = Last(r.seen) /\ r.cursor # NoCursor

\* A walk through /usage: what was shown stands in order, and what is still there of the beginning
\* was shown or comes after the cursor.
UsageOk(r) ==
    r.op = "usage" =>
        /\ r.seen \in Seq(ToSet(r.seen))
        /\ \A x \in r.first \union ToSet(r.seen) : \E q \in records : RowOf(x, q)
        /\ \A i, j \in DOMAIN r.seen : i < j => RowBefore(r.seen[i], r.seen[j])
        /\ r.step = "page" => Stands(r)
        /\ \A x \in r.first \intersect RowsFor(r) :
               x \in ToSet(r.seen) \/ (r.step = "page" /\ AfterRow(r.cursor, x))

\* A session whose actor is known, and beside which none was last seen at the same instant.
Lone(s, r) == /\ NoKey \notin {s.id[2], s.id[3]}
              /\ \A t \in r.first \union ToSet(r.seen) : t.last = s.last => t.id = s.id

\* What an opened session shows.
OpenedWell(o) ==
    Wire.name[o.session.id[3]] = o.session.id[3] /\ NoKey \notin {o.session.id[2], o.session.id[3]} =>
        /\ \A x \in o.records : SessionOf(x) = o.session.id
        /\ Cardinality(o.records) >= o.session.count

\* A walk through /sessions: a lone session that is as it was at the beginning was last seen before
\* the cursor, or was shown once and is not after the cursor.
SessionsOk(r) ==
    r.op = "sessions" =>
        /\ r.seen \in Seq(ToSet(r.seen))
        /\ \A s \in r.first \union ToSet(r.seen) : Was(s, records, r.sources)
        /\ r.step = "page" => Stands(r)
        /\ \A s \in r.first \intersect SessionsFrom(records, r.sources) : Lone(s, r) =>
               \/ /\ s \notin ToSet(r.seen) /\ r.step = "page"
                  /\ r.cursor = NoCursor \/ s.last < r.cursor.last
               \/ /\ Once(s, r.seen)
                  /\ r.step = "page" => r.cursor.last <= s.last
        /\ \A o \in r.opened : OpenedWell(o)

WalkOk(r) == UsageOk(r) /\ SessionsOk(r)
WalkInv == FeedInv /\ \A p \in Procs : WalkOk(req[p])

\* A place in a list is not the lack of one.
LEMMA NotNoCursor ==
    /\ \A x, r : RowOf(x, r) => x # NoCursor
    /\ \A s, T, sources : Was(s, T, sources) => s # NoCursor
  <1>1. DOMAIN NoCursor = {}
    BY DEF NoCursor
  <1>2. ASSUME NEW x, NEW r, RowOf(x, r)
        PROVE  x # NoCursor
    <2>1. "at" \in DOMAIN x
      BY <1>2 DEF RowOf, AdminRow, BucketRow, UsageRow
    <2> QED BY <1>1, <2>1
  <1>3. ASSUME NEW s, NEW T, NEW sources, Was(s, T, sources)
        PROVE  s # NoCursor
    <2>1. "last" \in DOMAIN s
      BY <1>3 DEF Was, Summary
    <2> QED BY <1>1, <2>1
  <1> QED BY <1>2, <1>3

----------------------------------------------------------------------------
(* A page of /usage.                                                       *)

\* A page of a walk, apart from what list it is of.
LEMMA PageTurned ==
    ASSUME NEW p \in Procs, NEW sorted, DOMAIN req = Procs, UsageWalk(req[p]) \/ SessionsWalk(req[p]),
           Keep(p, [req[p] EXCEPT
                       !.seen = @ \o PageOf(sorted),
                       !.cursor = IF HasMore(sorted) THEN Last(PageOf(sorted)) ELSE NoCursor,
                       !.step = IF HasMore(sorted) THEN "page" ELSE "served"])
    PROVE  /\ req'[p].op = req[p].op /\ req'[p].first = req[p].first
           /\ req'[p].seen = req[p].seen \o PageOf(sorted)
           /\ HasMore(sorted) => req'[p].step = "page" /\ req'[p].cursor = Last(PageOf(sorted))
           /\ ~HasMore(sorted) => req'[p].step = "served"
           /\ req[p].op = "usage" => req'[p].window = req[p].window /\ req'[p].filter = req[p].filter
           /\ req[p].op = "sessions" => req'[p].sources = req[p].sources /\ req'[p].opened = req[p].opened
  <1>1. PICK r : r = req[p]
    OBVIOUS
  <1>2. PICK seen : seen = r.seen \o PageOf(sorted)
    OBVIOUS
  <1>3. PICK cursor : cursor = IF HasMore(sorted) THEN Last(PageOf(sorted)) ELSE NoCursor
    OBVIOUS
  <1>4. PICK step : step = IF HasMore(sorted) THEN "page" ELSE "served"
    OBVIOUS
  <1>5. PICK q : q = req'[p]
    OBVIOUS
  <1>6. "seen" \in DOMAIN r
    BY <1>1 DEF UsageWalk, SessionsWalk
  <1>7. q = [r EXCEPT !.seen = seen, !.cursor = cursor, !.step = step]
    BY <1>1, <1>2, <1>3, <1>4, <1>5, <1>6 DEF Keep
  <1>8. q = [f \in DOMAIN r |-> IF f = "step" THEN step ELSE IF f = "cursor" THEN cursor
                                ELSE IF f = "seen" THEN seen ELSE r[f]]
    BY <1>7
  <1>9. UsageWalk(r) \/ SessionsWalk(r)
    BY <1>1
  <1>10. /\ q.seen = seen /\ q.cursor = cursor /\ q.step = step
         /\ q.op = r.op /\ q.first = r.first
         /\ r.op = "usage" => UsageWalk(r) /\ q.window = r.window /\ q.filter = r.filter
         /\ r.op = "sessions" => SessionsWalk(r) /\ q.sources = r.sources /\ q.opened = r.opened
    BY <1>8, <1>9, Turns
  <1> QED BY <1>1, <1>2, <1>3, <1>4, <1>5, <1>10

\* A page goes on where the last one ended.
LEMMA UsagePageOk ==
    ASSUME DirInv, WalkInv, NEW p \in Procs, UsagePage(p)
    PROVE  WalkOk(req[p])'
  <1> DEFINE r == req[p]
             S == {x \in RowsFor(r) : AfterRow(r.cursor, x)}
             sorted == RowsSorted(S)
             page == PageOf(sorted)
             q == req'[p]
  <1>1. /\ records' = records /\ r.step = "page" /\ r.op = "usage" /\ UsageOk(r)
        /\ FeedInv /\ Tables /\ records \subseteq feed /\ IsFiniteSet(records)
    BY Finite DEF UsagePage, At, WalkInv, WalkOk, DirInv, Tables
  <1>2. UsageWalk(r) \/ SessionsWalk(r)
    BY <1>1 DEF DirInv, Tables, DirectoryOps, Idle, Reconciling, Listing, Mapping, Changing,
                Classifying, Reading, Walk
  <1>3. DOMAIN req = Procs
    BY DEF DirInv, Tables
  <1>4. Keep(p, [req[p] EXCEPT
                    !.seen = @ \o PageOf(sorted),
                    !.cursor = IF HasMore(sorted) THEN Last(PageOf(sorted)) ELSE NoCursor,
                    !.step = IF HasMore(sorted) THEN "page" ELSE "served"])
    BY DEF UsagePage, Shows
  <1>5. \A x \in RowsFor(r) : \E z \in records : RowOf(x, z)
    BY ShownRow DEF RowsFor
  <1>6. IsFiniteSet(S)
    <2>1. IsFiniteSet(RowsFor(r))
      BY <1>1, RowsFinite DEF RowsFor
    <2> QED BY <2>1, FS_Subset
  <1>7. \A x \in S : \E z \in feed : RowOf(x, z)
    BY <1>1, <1>5
  <1>8. /\ sorted \in Seq(S) /\ Len(sorted) \in Nat /\ DOMAIN sorted = 1 .. Len(sorted)
        /\ ToSet(sorted) = S
        /\ \A i, j \in DOMAIN sorted : i < j => RowBefore(sorted[i], sorted[j])
    <2> HIDE DEF S
    <2> QED BY <1>1, <1>6, <1>7, RowsInOrder
  <1> HIDE DEF sorted
  <1>9. /\ q.op = "usage" /\ q.first = r.first /\ q.seen = r.seen \o page
        /\ HasMore(sorted) => q.step = "page" /\ q.cursor = Last(page)
        /\ ~HasMore(sorted) => q.step = "served"
        /\ q.window = r.window /\ q.filter = r.filter
    BY <1>1, <1>2, <1>3, <1>4, PageTurned
  <1>10. /\ page \in Seq(S) /\ Len(page) \in Nat /\ DOMAIN page = 1 .. Len(page)
         /\ Len(page) <= Len(sorted) /\ \A i \in DOMAIN page : page[i] = sorted[i]
         /\ HasMore(sorted) => Len(page) \in DOMAIN page
         /\ DOMAIN page \subseteq DOMAIN sorted
         /\ \A k \in DOMAIN sorted : k \in DOMAIN page \/ (HasMore(sorted) /\ Len(page) < k)
    <2> HIDE DEF S
    <2> QED BY <1>8, PageFacts
  <1>11. UsageRows(records', q.window, q.filter) = RowsFor(r)
    BY <1>1, <1>9 DEF RowsFor
  <1> HIDE DEF q, page
  <1>12. ToSet(page) \subseteq S /\ page \in Seq(ToSet(page))
    <2> HIDE DEF S
    <2> QED BY <1>10, OverItself
  <1>13. r.seen \in Seq(ToSet(r.seen))
    BY <1>1 DEF UsageOk
  <1> DEFINE a == r.seen
             c == a \o page
  <1>14. Joins(c, a, page)
    BY <1>12, <1>13, JoinFacts
  <1> HIDE DEF c
  <1>15. \A x \in r.first \union ToSet(c) : \E z \in records : RowOf(x, z)
    <2>1. \A x \in r.first \union ToSet(a) : \E z \in records : RowOf(x, z)
      BY <1>1 DEF UsageOk
    <2> QED BY <1>5, <1>12, <1>14, <2>1 DEF Joins
  <1>16. ASSUME NEW i \in DOMAIN a, NEW x \in S
         PROVE  RowBefore(a[i], x)
    <2>1. a # <<>> /\ i <= Len(a) /\ Len(a) \in DOMAIN a
      BY <1>14 DEF Joins
    <2>2. r.cursor = a[Len(a)] /\ r.cursor # NoCursor
      BY <1>1, <2>1 DEF UsageOk, Stands, Last
    <2>3. RowBefore(a[Len(a)], x)
      BY <2>2 DEF AfterRow
    <2>4. i = Len(a) \/ RowBefore(a[i], a[Len(a)])
      <3>1. \A k, l \in DOMAIN a : k < l => RowBefore(a[k], a[l])
        BY <1>1 DEF UsageOk
      <3>2. i = Len(a) \/ i < Len(a)
        <4>1. Len(a) \in Nat /\ DOMAIN a = 1 .. Len(a)
          BY <1>14 DEF Joins
        <4> HIDE DEF a
        <4> QED BY <4>1
      <3> QED BY <2>1, <3>1, <3>2
    <2> DEFINE A == ToSet(a) \union S
    <2>5. \A y \in A : \E z \in feed : RowOf(y, z)
      BY <1>1, <1>5 DEF UsageOk
    <2>6. a[i] \in A /\ a[Len(a)] \in A /\ x \in A
      BY <2>1 DEF ToSet
    <2> HIDE DEF A
    <2>7. \A u, v, w \in A : RowBefore(u, v) /\ RowBefore(v, w) => RowBefore(u, w)
      BY <1>1, <2>5, RowOrder
    <2> QED BY <2>3, <2>4, <2>6, <2>7
  <1>17. ASSUME NEW i \in DOMAIN c, NEW j \in DOMAIN c, i < j
         PROVE  RowBefore(c[i], c[j])
    <2>1. CASE i \in DOMAIN a /\ j \in DOMAIN a
      BY <1>1, <1>14, <1>17, <2>1 DEF UsageOk, Joins
    <2>2. ASSUME i \in DOMAIN a, NEW k \in DOMAIN page, c[j] = page[k]
          PROVE  RowBefore(c[i], c[j])
      <3>1. page[k] \in S
        BY <1>12 DEF ToSet
      <3> QED BY <1>14, <1>16, <2>2, <3>1 DEF Joins
    <2>3. ASSUME NEW k \in DOMAIN page, NEW m \in DOMAIN page, k < m, c[i] = page[k], c[j] = page[m]
          PROVE  RowBefore(c[i], c[j])
      BY <1>8, <1>10, <2>3
    <2> QED BY <1>14, <1>17, <2>1, <2>2, <2>3 DEF Joins
  <1>18. ASSUME HasMore(sorted)
         PROVE  Last(page) = sorted[Len(page)] /\ Last(page) \in S /\ Stands(q)
    <2>1. Len(page) \in DOMAIN page /\ Last(page) = page[Len(page)]
      BY <1>10, <1>18 DEF Last
    <2>2. Last(page) = sorted[Len(page)] /\ Last(page) \in S
      BY <1>10, <1>12, <2>1 DEF ToSet
    <2>3. c[Len(c)] = Last(page) /\ Len(c) > 0
      <3>1. PICK n \in DOMAIN page : n = Len(page)
        BY <2>1
      <3>2. n \in Nat /\ n > 0
        BY <1>10
      <3>3. /\ Len(a) \in Nat /\ Len(c) = Len(a) + Len(page)
            /\ c[Len(a) + n] = page[n]
        BY <1>14, <3>1 DEF Joins
      <3>4. c[Len(c)] = page[n]
        BY <3>1, <3>3
      <3>5. Len(c) > 0
        <4> HIDE DEF a
        <4> QED BY <3>1, <3>2, <3>3
      <3> QED BY <2>1, <3>1, <3>4, <3>5
    <2>4. Last(page) # NoCursor
      BY <1>7, <2>2, NotNoCursor
    <2>5. q.seen = c /\ c # <<>>
      BY <1>9, <2>3 DEF c
    <2> QED BY <1>9, <1>18, <2>2, <2>3, <2>4, <2>5 DEF Stands, Last
  <1>19. ASSUME NEW x \in r.first \intersect RowsFor(r)
         PROVE  x \in ToSet(c) \/ (q.step = "page" /\ AfterRow(q.cursor, x))
    <2>1. CASE x \in ToSet(a)
      BY <1>14, <2>1 DEF Joins
    <2>2. CASE x \notin ToSet(a)
      <3>1. x \in S
        BY <1>1, <2>2 DEF UsageOk
      <3>2. PICK k \in DOMAIN sorted : sorted[k] = x
        BY <1>8, <3>1 DEF ToSet
      <3>3. CASE k \in DOMAIN page
        BY <1>10, <1>14, <3>2, <3>3 DEF ToSet, Joins
      <3>4. CASE HasMore(sorted) /\ Len(page) < k
        <4>1. Len(page) \in DOMAIN sorted
          BY <1>10, <3>4
        <4>2. RowBefore(Last(page), x)
          BY <1>8, <1>18, <3>2, <3>4, <4>1
        <4> QED BY <1>9, <3>4, <4>2 DEF AfterRow
      <3> QED BY <1>10, <3>3, <3>4
    <2> QED BY <2>1, <2>2
  <1>20. q.seen = c
    BY <1>9 DEF c
  <1>21. q.step = "page" => HasMore(sorted)
    BY <1>9
  <1>22. UsageOk(req[p])'
    <2>1. /\ c \in Seq(ToSet(c))
          /\ \A x \in q.first \union ToSet(c) : \E z \in records' : RowOf(x, z)
          /\ \A i, j \in DOMAIN c : i < j => RowBefore(c[i], c[j])
          /\ q.step = "page" => Stands(q)
          /\ \A x \in q.first \intersect UsageRows(records', q.window, q.filter) :
                 x \in ToSet(c) \/ (q.step = "page" /\ AfterRow(q.cursor, x))
      BY <1>1, <1>9, <1>11, <1>14, <1>15, <1>17, <1>18, <1>19, <1>21 DEF Joins
    <2> QED BY <1>20, <2>1 DEF UsageOk, RowsFor, Stands, q
  <1>23. SessionsOk(req[p])'
    BY <1>9 DEF SessionsOk, q
  <1> QED BY <1>22, <1>23 DEF WalkOk

----------------------------------------------------------------------------
(* A page of /sessions.                                                    *)

\* Shown once, and not again by what follows, or not by what went before.
LEMMA OnceJoined ==
    ASSUME NEW a, NEW b, NEW c, Joins(c, a, b), NEW s
    PROVE  /\ Once(s, a) /\ s \notin ToSet(b) => Once(s, c)
           /\ Once(s, b) /\ s \notin ToSet(a) => Once(s, c)
  <1>1. PICK m \in Nat, n \in Nat : m = Len(a) /\ n = Len(b)
    BY DEF Joins
  <1>2. /\ DOMAIN a = 1 .. m /\ DOMAIN b = 1 .. n /\ DOMAIN c = 1 .. (m + n)
        /\ \A i \in DOMAIN a : c[i] = a[i]
        /\ \A i \in DOMAIN b : c[m + i] = b[i]
    BY <1>1 DEF Joins
  <1>3. ASSUME NEW j \in DOMAIN c, j \notin DOMAIN a
        PROVE  j - m \in DOMAIN b /\ c[j] = b[j - m]
    <2>1. j - m \in 1 .. n /\ m + (j - m) = j
      BY <1>2, <1>3
    <2> QED BY <1>2, <2>1
  <1>4. ASSUME Once(s, a), s \notin ToSet(b)
        PROVE  Once(s, c)
    <2>1. PICK i \in DOMAIN a : a[i] = s /\ \A j \in DOMAIN a : a[j] = s => j = i
      BY <1>4 DEF Once
    <2>2. i \in DOMAIN c /\ c[i] = s
      BY <1>2, <2>1
    <2>3. ASSUME NEW j \in DOMAIN c, c[j] = s
          PROVE  j = i
      <3>1. j \in DOMAIN a
        BY <1>3, <1>4, <2>3 DEF ToSet
      <3> QED BY <1>2, <2>1, <2>3, <3>1
    <2> QED BY <2>2, <2>3 DEF Once
  <1>5. ASSUME Once(s, b), s \notin ToSet(a)
        PROVE  Once(s, c)
    <2>1. PICK i \in DOMAIN b : b[i] = s /\ \A j \in DOMAIN b : b[j] = s => j = i
      BY <1>5 DEF Once
    <2>2. m + i \in DOMAIN c /\ c[m + i] = s
      BY <1>2, <2>1
    <2>3. ASSUME NEW j \in DOMAIN c, c[j] = s
          PROVE  j = m + i
      <3>1. j \notin DOMAIN a
        BY <1>2, <1>5, <2>3 DEF ToSet
      <3>2. j - m = i
        BY <1>3, <2>1, <2>3, <3>1
      <3> QED BY <1>2, <3>2
    <2> QED BY <2>2, <2>3 DEF Once
  <1> QED BY <1>4, <1>5

\* A page goes on where the last one ended, and a session alone at its instant is not passed over.
LEMMA SessionsPageOk ==
    ASSUME DirInv, WalkInv, NEW p \in Procs, SessionsPage(p)
    PROVE  WalkOk(req[p])'
  <1> DEFINE r == req[p]
             T == SessionsFrom(records, r.sources)
             S == {s \in T : AfterSession(r.cursor, s)}
             sorted == SessionsSorted(S)
             page == PageOf(sorted)
             q == req'[p]
  <1>1. /\ records' = records /\ r.step = "page" /\ r.op = "sessions" /\ SessionsOk(r)
        /\ FeedInv /\ Tables
    BY DEF SessionsPage, At, WalkInv, WalkOk, DirInv
  <1>2. UsageWalk(r) \/ SessionsWalk(r)
    BY <1>1 DEF DirInv, Tables, DirectoryOps, Idle, Reconciling, Listing, Mapping, Changing,
                Classifying, Reading, Walk
  <1>3. DOMAIN req = Procs
    BY DEF DirInv, Tables
  <1>4. Keep(p, [req[p] EXCEPT
                    !.seen = @ \o PageOf(sorted),
                    !.cursor = IF HasMore(sorted) THEN Last(PageOf(sorted)) ELSE NoCursor,
                    !.step = IF HasMore(sorted) THEN "page" ELSE "served"])
    <2>1. S = {s \in Sessions(req[p].sources) : AfterSession(req[p].cursor, s)}
      BY SessionsAre
    <2> HIDE DEF S
    <2> QED BY <2>1 DEF SessionsPage, Shows
  <1>5. IsFiniteSet(S) /\ \A s, t \in T : s.id = t.id => s = t
    <2>1. IsFiniteSet(T)
      BY <1>1, SessionsFinite
    <2> HIDE DEF T
    <2>2. IsFiniteSet(S)
      BY <2>1, FS_Subset
    <2> QED BY <1>1, <2>2, SessionsFinite DEF T
  <1>6. \A s \in T : Was(s, records, r.sources)
    BY Listed
  <1> HIDE DEF T
  <1>7. \A s \in S : s \in T /\ AfterSession(r.cursor, s)
    OBVIOUS
  <1>8. /\ sorted \in Seq(S) /\ Len(sorted) \in Nat /\ DOMAIN sorted = 1 .. Len(sorted)
        /\ ToSet(sorted) = S
        /\ \A i, j \in DOMAIN sorted : i < j => SessionBefore(sorted[i], sorted[j])
    <2> HIDE DEF S
    <2>1. \A s \in S : Was(s, records, r.sources)
      BY <1>6, <1>7
    <2>2. \A s, t \in S : s.id = t.id => s = t
      BY <1>5, <1>7
    <2> HIDE DEF r
    <2> QED BY <1>1, <1>5, <2>1, <2>2, SessionsInOrder
  <1> HIDE DEF sorted
  <1>9. /\ q.op = "sessions" /\ q.first = r.first /\ q.seen = r.seen \o page
        /\ HasMore(sorted) => q.step = "page" /\ q.cursor = Last(page)
        /\ ~HasMore(sorted) => q.step = "served"
        /\ q.sources = r.sources /\ q.opened = r.opened
    BY <1>1, <1>2, <1>3, <1>4, PageTurned
  <1>10. /\ page \in Seq(S) /\ Len(page) \in Nat /\ DOMAIN page = 1 .. Len(page)
         /\ Len(page) <= Len(sorted) /\ \A i \in DOMAIN page : page[i] = sorted[i]
         /\ HasMore(sorted) => Len(page) \in DOMAIN page
         /\ DOMAIN page \subseteq DOMAIN sorted
         /\ \A k \in DOMAIN sorted : k \in DOMAIN page \/ (HasMore(sorted) /\ Len(page) < k)
    <2> HIDE DEF S
    <2> QED BY <1>8, PageFacts
  <1> HIDE DEF q, page
  <1>11. ToSet(page) \subseteq S /\ page \in Seq(ToSet(page))
    <2> HIDE DEF S
    <2> QED BY <1>10, OverItself
  <1>12. r.seen \in Seq(ToSet(r.seen))
    BY <1>1 DEF SessionsOk
  <1> DEFINE a == r.seen
             c == a \o page
  <1>13. Joins(c, a, page)
    BY <1>11, <1>12, JoinFacts
  <1>14. q.seen = c
    BY <1>9
  <1> HIDE DEF c, S
  <1>15. \A s \in r.first \union ToSet(c) : Was(s, records, r.sources)
    <2>1. \A s \in r.first \union ToSet(a) : Was(s, records, r.sources)
      BY <1>1 DEF SessionsOk
    <2>2. ToSet(c) = ToSet(a) \union ToSet(page)
      BY <1>13 DEF Joins
    <2> QED BY <1>6, <1>7, <1>11, <2>1, <2>2
  <1>16. \A s : Was(s, records, r.sources) =>
             /\ s.last \in Int /\ Rank(s.id[2]) \in Nat /\ Rank(s.id[3]) \in Nat
             /\ ~SessionBefore(s, s)
    <2> SUFFICES ASSUME NEW s, Was(s, records, r.sources)
                 PROVE  /\ s.last \in Int /\ Rank(s.id[2]) \in Nat /\ Rank(s.id[3]) \in Nat
                        /\ ~SessionBefore(s, s)
      OBVIOUS
    <2>1. s.last \in Int /\ Rank(s.id[2]) \in Nat /\ Rank(s.id[3]) \in Nat
      BY <1>1, SessionFacts
    <2> QED BY <2>1 DEF SessionBefore
  <1>17. ASSUME HasMore(sorted)
         PROVE  Last(page) = sorted[Len(page)] /\ Last(page) \in S /\ Last(page) \in ToSet(c) /\ Stands(q)
    <2>1. Len(page) \in DOMAIN page /\ Last(page) = page[Len(page)]
      BY <1>10, <1>17 DEF Last
    <2>2. Last(page) = sorted[Len(page)] /\ Last(page) \in S /\ Last(page) \in ToSet(page)
      BY <1>10, <1>11, <2>1 DEF ToSet
    <2>3. c[Len(c)] = Last(page) /\ Len(c) > 0
      <3>1. PICK n \in DOMAIN page : n = Len(page)
        BY <2>1
      <3>2. n \in Nat /\ n > 0
        BY <1>10
      <3>3. /\ Len(a) \in Nat /\ Len(c) = Len(a) + Len(page)
            /\ c[Len(a) + n] = page[n]
        BY <1>13, <3>1 DEF Joins
      <3>4. c[Len(c)] = page[n]
        BY <3>1, <3>3
      <3>5. Len(c) > 0
        <4> HIDE DEF a
        <4> QED BY <3>1, <3>2, <3>3
      <3> QED BY <2>1, <3>1, <3>4, <3>5
    <2>4. Last(page) # NoCursor
      BY <1>6, <1>7, <2>2, NotNoCursor
    <2>5. q.seen = c /\ c # <<>>
      BY <1>14, <2>3
    <2>6. Last(page) \in ToSet(c)
      BY <1>13, <2>2 DEF Joins
    <2> QED BY <1>9, <1>17, <2>2, <2>3, <2>4, <2>5, <2>6 DEF Stands, Last
  <1>18. ASSUME NEW i \in DOMAIN sorted, NEW j \in DOMAIN sorted, sorted[i] = sorted[j]
         PROVE  i = j
    <2>1. sorted[i] \in S /\ ~SessionBefore(sorted[i], sorted[i])
      BY <1>6, <1>7, <1>8, <1>16 DEF ToSet
    <2>2. i \in Nat /\ j \in Nat
      BY <1>8
    <2> QED BY <1>8, <1>18, <2>1, <2>2
  <1> DEFINE Waits(s) == /\ s \notin ToSet(c) /\ q.step = "page"
                         /\ q.cursor = NoCursor \/ s.last < q.cursor.last
             Past(s) == Once(s, c) /\ (q.step = "page" => q.cursor.last <= s.last)
  <1>19. ASSUME NEW s \in r.first \intersect T, Lone(s, q)
         PROVE  Waits(s) \/ Past(s)
    <2>1. /\ NoKey \notin {s.id[2], s.id[3]}
          /\ \A t \in r.first \union ToSet(c) : t.last = s.last => t.id = s.id
      BY <1>9, <1>14, <1>19 DEF Lone
    <2>2. Lone(s, r)
      <3>1. ToSet(c) = ToSet(a) \union ToSet(page)
        BY <1>13 DEF Joins
      <3> QED BY <2>1, <3>1 DEF Lone
    <2>3. s.last \in Int /\ Was(s, records, r.sources)
      BY <1>6, <1>16
    <2>4. CASE s \notin ToSet(a) /\ (r.cursor = NoCursor \/ s.last < r.cursor.last)
      <3>1. s \in S
        BY <2>4 DEF S, AfterSession
      <3>2. PICK k \in DOMAIN sorted : sorted[k] = s
        BY <1>8, <3>1 DEF ToSet
      <3>3. CASE k \in DOMAIN page
        <4>1. page[k] = s /\ \A l \in DOMAIN page : page[l] = s => l = k
          BY <1>10, <1>18, <3>2, <3>3
        <4>2. Once(s, page)
          BY <3>3, <4>1 DEF Once
        <4>3. Once(s, c)
          BY <1>13, <2>4, <4>2, OnceJoined
        <4>4. ASSUME q.step = "page"
              PROVE  q.cursor.last <= s.last
          <5>1. HasMore(sorted) /\ q.cursor = sorted[Len(page)] /\ q.cursor \in S
            BY <1>9, <1>17, <4>4
          <5>2. q.cursor.last \in Int
            BY <1>6, <1>7, <1>16, <5>1
          <5>3. k = Len(page) \/ (k < Len(page) /\ Len(page) \in DOMAIN sorted)
            BY <1>10, <3>3, <5>1
          <5>4. q.cursor = s \/ SessionBefore(s, q.cursor)
            BY <1>8, <3>2, <5>1, <5>3
          <5> QED BY <2>3, <5>2, <5>4 DEF SessionBefore
        <4> QED BY <4>3, <4>4
      <3>4. CASE HasMore(sorted) /\ Len(page) < k
        <4>1. /\ Last(page) = sorted[Len(page)] /\ Last(page) \in S /\ Last(page) \in ToSet(c)
              /\ q.step = "page" /\ q.cursor = Last(page) /\ Len(page) \in DOMAIN sorted
          BY <1>9, <1>10, <1>17, <3>4
        <4>2. SessionBefore(Last(page), s)
          BY <1>8, <3>2, <3>4, <4>1
        <4>3. Last(page).last \in Int
          BY <1>6, <1>7, <1>16, <4>1
        <4>4. s.last # Last(page).last
          <5>1. SUFFICES ASSUME s.last = Last(page).last
                         PROVE  FALSE
            OBVIOUS
          <5>2. Last(page).id = s.id
            BY <2>1, <4>1, <5>1
          <5>3. Last(page) = s
            BY <1>5, <1>7, <3>1, <4>1, <5>2
          <5> QED BY <1>16, <2>3, <4>2, <5>3
        <4>5. s.last < Last(page).last
          BY <2>3, <4>2, <4>3, <4>4 DEF SessionBefore
        <4>6. s \notin ToSet(page)
          <5>1. SUFFICES ASSUME NEW l \in DOMAIN page, page[l] = s
                         PROVE  FALSE
            BY DEF ToSet
          <5>2. l = k
            BY <1>10, <1>18, <3>2, <5>1
          <5> QED BY <1>10, <3>4, <5>1, <5>2
        <4>7. s \notin ToSet(c)
          BY <1>13, <2>4, <4>6 DEF Joins
        <4> QED BY <4>1, <4>5, <4>7
      <3> QED BY <1>10, <3>3, <3>4
    <2>5. CASE Once(s, a) /\ r.cursor.last <= s.last
      <3>1. a # <<>> /\ s \in ToSet(a)
        <4>1. \E i \in DOMAIN a : a[i] = s
          BY <2>5 DEF Once
        <4> QED BY <4>1 DEF ToSet
      <3>2. r.cursor = Last(a) /\ r.cursor # NoCursor
        BY <1>1, <3>1 DEF SessionsOk, Stands
      <3>3. r.cursor \in ToSet(c)
        <4>1. Len(a) \in DOMAIN a
          BY <1>13, <3>1 DEF Joins
        <4>2. Last(a) \in ToSet(a)
          BY <4>1 DEF Last, ToSet
        <4> QED BY <1>13, <3>2, <4>2 DEF Joins
      <3>4. r.cursor.last \in Int /\ Rank(r.cursor.id[2]) \in Nat /\ Rank(r.cursor.id[3]) \in Nat
        BY <1>15, <1>16, <3>3
      <3>5. s \notin S
        <4>1. s.last = r.cursor.last => r.cursor.id = s.id
          BY <2>1, <3>3
        <4>2. ~(s.last < r.cursor.last)
          BY <2>3, <2>5, <3>4
        <4>3. r.cursor.id = s.id => /\ ~(Rank(s.id[2]) < Rank(r.cursor.id[2]))
                                    /\ ~(Rank(s.id[3]) < Rank(r.cursor.id[3]))
          <5>1. Rank(s.id[2]) \in Nat /\ Rank(s.id[3]) \in Nat
            BY <1>16, <2>3
          <5> QED BY <5>1
        <4>4. ~AfterSession(r.cursor, s)
          BY <3>2, <4>1, <4>2, <4>3 DEF AfterSession
        <4> QED BY <1>7, <4>4
      <3>6. Once(s, c)
        BY <1>11, <1>13, <2>5, <3>5, OnceJoined
      <3>7. ASSUME q.step = "page"
            PROVE  q.cursor.last <= s.last
        <4>1. q.cursor \in S
          BY <1>9, <1>17, <3>7
        <4>2. AfterSession(r.cursor, q.cursor) /\ q.cursor.last \in Int
          BY <1>6, <1>7, <1>16, <4>1
        <4>3. q.cursor.last <= r.cursor.last
          BY <3>2, <3>4, <4>2 DEF AfterSession
        <4> QED BY <2>3, <2>5, <3>4, <4>2, <4>3
      <3> QED BY <3>6, <3>7
    <2>6. \/ s \notin ToSet(a) /\ (r.cursor = NoCursor \/ s.last < r.cursor.last)
          \/ Once(s, a) /\ r.cursor.last <= s.last
      <3>1. s \in r.first \intersect SessionsFrom(records, r.sources)
        BY DEF T
      <3> QED BY <1>1, <2>2, <3>1 DEF SessionsOk
    <2> QED BY <2>4, <2>5, <2>6
  <1>20. q.step = "page" => HasMore(sorted)
    BY <1>9
  <1>21. SessionsOk(req[p])'
    <2>1. /\ c \in Seq(ToSet(c))
          /\ \A s \in q.first \union ToSet(c) : Was(s, records', q.sources)
          /\ q.step = "page" => Stands(q)
          /\ \A s \in q.first \intersect SessionsFrom(records', q.sources) :
                 Lone(s, q) => Waits(s) \/ Past(s)
          /\ \A o \in q.opened : OpenedWell(o)
      <3>1. c \in Seq(ToSet(c))
        BY <1>13 DEF Joins
      <3>2. \A s \in q.first \intersect SessionsFrom(records', q.sources) :
                 Lone(s, q) => Waits(s) \/ Past(s)
        BY <1>1, <1>9, <1>19 DEF T
      <3>3. \A o \in q.opened : OpenedWell(o)
        BY <1>1, <1>9 DEF SessionsOk
      <3> QED BY <1>1, <1>9, <1>15, <1>17, <1>20, <3>1, <3>2, <3>3
    <2> QED BY <1>14, <2>1 DEF SessionsOk, Stands, Lone, OpenedWell, Was, q
  <1>22. UsageOk(req[p])'
    BY <1>9 DEF UsageOk, q
  <1> QED BY <1>21, <1>22 DEF WalkOk

----------------------------------------------------------------------------
(* What the others do, and what has arrived since.                         *)

\* No walk goes on here.
Away(r) == r.op \notin {"usage", "sessions"}

LEMMA AwayOk ==
    ASSUME NEW p, Away(req'[p])
    PROVE  WalkOk(req[p])'
  BY DEF Away, WalkOk, UsageOk, SessionsOk

\* A request of the directory is no walk, and does not turn into one.
LEMMA Managed ==
    ASSUME DirInv, NEW p \in Procs, Manage(p)
    PROVE  /\ feed' = feed /\ records' = records
           /\ \A q \in Procs : req'[q] = req[q] \/ Away(req'[q])
  <1>1. feed' = feed /\ records' = records
    BY DEF Manage, StartReconcile, Upsert, Deadlock, CommitReconcile, Roster, Unmapped, StartMap, MapAlias,
           StartRole, ReadTarget, CountAdmins, WriteRole, StartClassify, ClassifyBatch, NotConfigured,
           SaveTopics, StartDetail, ReadTopics, ReadTotal, Answer, Die
  <1>2. DOMAIN req = Procs /\ Tables
    BY DEF DirInv, Tables
  <1>3. ASSUME NEW r, Keep(p, r) \/ Begin(p, r), Away(r)
        PROVE  \A q \in Procs : req'[q] = req[q] \/ Away(req'[q])
    BY <1>2, <1>3, Writes
  <1>4. ASSUME Ends(p)
        PROVE  \A q \in Procs : req'[q] = req[q] \/ Away(req'[q])
    BY <1>3, <1>4 DEF Ends, Idle, Away
  <1>5. ASSUME NEW op \in {"task", "list"}, StartReconcile(p, op)
        PROVE  \A q \in Procs : req'[q] = req[q] \/ Away(req'[q])
    <2>1. PICK order : Begin(p, [op |-> op, step |-> "upsert", pend |-> Nothing, todo |-> order])
      BY <1>5 DEF StartReconcile
    <2> QED BY <1>3, <2>1 DEF Away
  <1>6. ASSUME Upsert(p)
        PROVE  \A q \in Procs : req'[q] = req[q] \/ Away(req'[q])
    <2>1. req[p] \in Reconciling
      BY <1>2, <1>6, DirOps DEF Upsert
    <2>2. PICK todo, pend : Keep(p, [req[p] EXCEPT !.todo = todo, !.pend = pend])
      BY <1>6 DEF Upsert
    <2>3. Away([req[p] EXCEPT !.todo = todo, !.pend = pend])
      BY <2>1 DEF Reconciling, Away
    <2> QED BY <1>3, <2>2, <2>3
  <1>7. ASSUME Roster(p)
        PROVE  \A q \in Procs : req'[q] = req[q] \/ Away(req'[q])
    <2>1. PICK pend, roster : Keep(p, [op |-> "list", step |-> "unmapped", pend |-> pend,
                                       roster |-> roster, unmapped |-> {}])
      BY <1>7 DEF Roster
    <2> QED BY <1>3, <2>1 DEF Away
  <1>8. ASSUME Unmapped(p)
        PROVE  \A q \in Procs : req'[q] = req[q] \/ Away(req'[q])
    <2>1. req[p] \in Listing
      BY <1>2, <1>8, DirOps DEF Unmapped
    <2>2. PICK open : Keep(p, [req[p] EXCEPT !.step = "served", !.unmapped = open])
      BY <1>8 DEF Unmapped
    <2>3. Away([req[p] EXCEPT !.step = "served", !.unmapped = open])
      BY <2>1 DEF Listing, Away
    <2> QED BY <1>3, <2>2, <2>3
  <1>9. ASSUME NEW a \in Members, NEW u \in Members, NEW k \in DOMAIN aliases, StartMap(p, a, u, k)
        PROVE  \A q \in Procs : req'[q] = req[q] \/ Away(req'[q])
    BY <1>3, <1>9 DEF StartMap, Away
  <1>10. ASSUME MapAlias(p)
         PROVE  \A q \in Procs : req'[q] = req[q] \/ Away(req'[q])
    <2> SUFFICES ASSUME NEW q \in Procs
                 PROVE  req'[q] = req[q] \/ Away(req'[q])
      OBVIOUS
    <2>1. \/ req'[q] = Idle \/ req'[q] = req[q]
          \/ req[q].op = "detail" /\ req'[q] = [req[q] EXCEPT !.moved = TRUE]
      BY <1>10 DEF MapAlias
    <2>2. CASE req'[q] = Idle
      BY <2>2 DEF Idle, Away
    <2>3. CASE req[q].op = "detail" /\ req'[q] = [req[q] EXCEPT !.moved = TRUE]
      <3>1. req[q] \in Reading
        BY <1>2, <2>3, DirOps
      <3> QED BY <2>3, <3>1 DEF Reading, Away
    <2> QED BY <2>1, <2>2, <2>3
  <1>11. ASSUME NEW a \in Members, NEW u \in Members, NEW new \in {"member", "admin"},
                StartRole(p, a, u, new)
         PROVE  \A q \in Procs : req'[q] = req[q] \/ Away(req'[q])
    BY <1>3, <1>11 DEF StartRole, Away
  <1>12. ASSUME ReadTarget(p) \/ CountAdmins(p)
         PROVE  \A q \in Procs : req'[q] = req[q] \/ Away(req'[q])
    <2>1. req[p] \in Changing
      BY <1>2, <1>12, DirOps DEF ReadTarget, CountAdmins, At
    <2>2. CASE Ends(p)
      BY <1>4, <2>2
    <2>3. CASE Keep(p, [req[p] EXCEPT !.step = "count"])
      <3>1. Away([req[p] EXCEPT !.step = "count"])
        BY <2>1 DEF Changing, Away
      <3> QED BY <1>3, <2>3, <3>1
    <2>4. CASE Keep(p, [req[p] EXCEPT !.step = "write", !.seen = Admins])
      <3>1. Away([req[p] EXCEPT !.step = "write", !.seen = Admins])
        BY <2>1 DEF Changing, Away
      <3> QED BY <1>3, <2>4, <3>1
    <2> QED BY <1>12, <2>2, <2>3, <2>4 DEF ReadTarget, CountAdmins
  <1>13. ASSUME StartClassify(p)
         PROVE  \A q \in Procs : req'[q] = req[q] \/ Away(req'[q])
    <2>1. PICK todo : Begin(p, [op |-> "classify", step |-> "batch", pend |-> Nothing, given |-> Nothing,
                                todo |-> todo])
      BY <1>13 DEF StartClassify
    <2> QED BY <1>3, <2>1 DEF Away
  <1>14. ASSUME ClassifyBatch(p) \/ NotConfigured(p)
         PROVE  \A q \in Procs : req'[q] = req[q] \/ Away(req'[q])
    <2>1. req[p] \in Classifying
      BY <1>2, <1>14, DirOps DEF ClassifyBatch, NotConfigured
    <2>2. CASE ClassifyBatch(p)
      <3>1. PICK todo, given : Keep(p, [req[p] EXCEPT !.todo = todo, !.given = given])
        BY <2>2 DEF ClassifyBatch
      <3>2. Away([req[p] EXCEPT !.todo = todo, !.given = given])
        BY <2>1 DEF Classifying, Away
      <3> QED BY <1>3, <3>1, <3>2
    <2>3. CASE NotConfigured(p)
      <3>1. Away([req[p] EXCEPT !.todo = <<>>])
        BY <2>1 DEF Classifying, Away
      <3> QED BY <1>3, <2>3, <3>1 DEF NotConfigured
    <2> QED BY <1>14, <2>2, <2>3
  <1>15. ASSUME NEW u \in Members, StartDetail(p, u)
         PROVE  \A q \in Procs : req'[q] = req[q] \/ Away(req'[q])
    BY <1>3, <1>15 DEF StartDetail, Away
  <1>16. ASSUME ReadTopics(p) \/ ReadTotal(p)
         PROVE  \A q \in Procs : req'[q] = req[q] \/ Away(req'[q])
    <2>1. req[p] \in Reading
      BY <1>2, <1>16, DirOps DEF ReadTopics, ReadTotal, At
    <2>2. CASE ReadTopics(p)
      <3>1. PICK n : Keep(p, [req[p] EXCEPT !.step = "total", !.classified = n])
        BY <2>2 DEF ReadTopics
      <3>2. Away([req[p] EXCEPT !.step = "total", !.classified = n])
        BY <2>1 DEF Reading, Away
      <3> QED BY <1>3, <3>1, <3>2
    <2>3. CASE ReadTotal(p)
      <3>1. PICK n : Keep(p, [req[p] EXCEPT !.step = "served", !.total = n])
        BY <2>3 DEF ReadTotal
      <3>2. Away([req[p] EXCEPT !.step = "served", !.total = n])
        BY <2>1 DEF Reading, Away
      <3> QED BY <1>3, <3>1, <3>2
    <2> QED BY <1>16, <2>2, <2>3
  <1>17. ASSUME Deadlock(p) \/ CommitReconcile(p) \/ WriteRole(p) \/ SaveTopics(p) \/ Answer(p) \/ Die(p)
         PROVE  \A q \in Procs : req'[q] = req[q] \/ Away(req'[q])
    BY <1>4, <1>17 DEF Deadlock, CommitReconcile, WriteRole, SaveTopics, Answer, Die
  <1>18. \A q \in Procs : req'[q] = req[q] \/ Away(req'[q])
    BY <1>5, <1>6, <1>7, <1>8, <1>9, <1>10, <1>11, <1>12, <1>13, <1>14, <1>15, <1>16, <1>17 DEF Manage
  <1> QED BY <1>1, <1>18

\* What a walk has shown stays right while records arrive: what is still there was there.
LEMMA StillWalks ==
    ASSUME DirInv, Tables', WalkInv, feed' = feed, records \subseteq records',
           NEW p \in Procs, req'[p] = req[p]
    PROVE  WalkOk(req[p])'
  <1> DEFINE r == req[p]
  <1>1. UsageOk(r) /\ SessionsOk(r) /\ FeedInv /\ Tables
    BY DEF WalkInv, WalkOk, DirInv
  <1>2. records' \subseteq feed /\ IsFiniteSet(records')
    BY FS_Subset DEF Tables
  <1>3. r.op = "usage" =>
           /\ \A x \in r.first \union ToSet(r.seen) : \E z \in records' : RowOf(x, z)
           /\ \A x \in r.first \intersect UsageRows(records', r.window, r.filter) :
                  x \in ToSet(r.seen) \/ (r.step = "page" /\ AfterRow(r.cursor, x))
    <2> SUFFICES ASSUME r.op = "usage"
                 PROVE  /\ \A x \in r.first \union ToSet(r.seen) : \E z \in records' : RowOf(x, z)
                        /\ \A x \in r.first \intersect UsageRows(records', r.window, r.filter) :
                               x \in ToSet(r.seen) \/ (r.step = "page" /\ AfterRow(r.cursor, x))
      OBVIOUS
    <2>1. \A x \in r.first \union ToSet(r.seen) : \E z \in records : RowOf(x, z)
      BY <1>1 DEF UsageOk
    <2>2. ASSUME NEW x \in r.first \intersect UsageRows(records', r.window, r.filter)
          PROVE  x \in UsageRows(records, r.window, r.filter)
      <3>1. PICK z \in records : RowOf(x, z)
        BY <2>1
      <3> QED BY <1>1, <1>2, <3>1, RowLasts
    <2> QED BY <1>1, <2>1, <2>2 DEF UsageOk, RowsFor
  <1>4. UsageOk(req[p])'
    <2> QED BY <1>1, <1>3 DEF UsageOk, RowsFor, Stands, AfterRow
  <1>5. r.op = "sessions" =>
           /\ \A s \in r.first \union ToSet(r.seen) : Was(s, records', r.sources)
           /\ \A s \in r.first \intersect SessionsFrom(records', r.sources) :
                  s \in SessionsFrom(records, r.sources)
    <2> SUFFICES ASSUME r.op = "sessions"
                 PROVE  /\ \A s \in r.first \union ToSet(r.seen) : Was(s, records', r.sources)
                        /\ \A s \in r.first \intersect SessionsFrom(records', r.sources) :
                               s \in SessionsFrom(records, r.sources)
      OBVIOUS
    <2>1. \A s \in r.first \union ToSet(r.seen) : Was(s, records, r.sources)
      BY <1>1 DEF SessionsOk
    <2>2. \A s : Was(s, records, r.sources) => Was(s, records', r.sources)
      <3>1. \A s : OfSession(records, r.sources, s.id) \subseteq OfSession(records', r.sources, s.id)
        BY DEF OfSession, Counted
      <3> QED BY <3>1 DEF Was
    <2>3. ASSUME NEW s \in r.first \intersect SessionsFrom(records', r.sources)
          PROVE  s \in SessionsFrom(records, r.sources)
      BY <1>2, <2>1, SessionLasts
    <2> QED BY <2>1, <2>2, <2>3
  <1>6. SessionsOk(req[p])'
    <2>1. r.op = "sessions" =>
             /\ r.seen \in Seq(ToSet(r.seen))
             /\ \A s \in r.first \union ToSet(r.seen) : Was(s, records', r.sources)
             /\ r.step = "page" => Stands(r)
             /\ \A s \in r.first \intersect SessionsFrom(records', r.sources) : Lone(s, r) =>
                    \/ /\ s \notin ToSet(r.seen) /\ r.step = "page"
                       /\ r.cursor = NoCursor \/ s.last < r.cursor.last
                    \/ /\ Once(s, r.seen)
                       /\ r.step = "page" => r.cursor.last <= s.last
             /\ \A o \in r.opened : OpenedWell(o)
      BY <1>1, <1>5 DEF SessionsOk
    <2> QED BY <2>1 DEF SessionsOk, Stands, Lone, OpenedWell, Was
  <1> QED BY <1>4, <1>6 DEF WalkOk

\* A walk begins with what is there.
LEMMA UsageBegins ==
    ASSUME DirInv, NEW p \in Procs, NEW w, NEW f, StartUsage(p, w, f)
    PROVE  WalkOk(req[p])'
  <1>1. PICK q : q = [op |-> "usage", step |-> "page", pend |-> Nothing, window |-> w, filter |-> f,
                      cursor |-> NoCursor, seen |-> <<>>, first |-> UsageRows(records, w, f)]
    OBVIOUS
  <1>2. req'[p] = q /\ records' = records
    BY <1>1, Writes DEF StartUsage, DirInv
  <1>3. q.op = "usage" /\ q.step = "page" /\ q.cursor = NoCursor /\ q.seen = <<>>
        /\ q.first = UsageRows(records, w, f)
    BY <1>1
  <1>4. ToSet(q.seen) = {} /\ q.seen \in Seq(ToSet(q.seen)) /\ DOMAIN q.seen = {}
    BY <1>3 DEF ToSet
  <1>5. \A x \in q.first \union ToSet(q.seen) : \E z \in records' : RowOf(x, z)
    BY <1>2, <1>3, <1>4, ShownRow
  <1>6. UsageOk(req[p])'
    BY <1>2, <1>3, <1>4, <1>5 DEF UsageOk, Stands, AfterRow
  <1>7. SessionsOk(req[p])'
    BY <1>2, <1>3 DEF SessionsOk
  <1> QED BY <1>6, <1>7 DEF WalkOk

LEMMA SessionsBegin ==
    ASSUME DirInv, NEW p \in Procs, NEW sources, StartSessions(p, sources)
    PROVE  WalkOk(req[p])'
  <1>1. PICK q : q = [op |-> "sessions", step |-> "page", pend |-> Nothing, sources |-> sources,
                      cursor |-> NoCursor, seen |-> <<>>, first |-> SessionsFrom(records, sources),
                      opened |-> {}]
    OBVIOUS
  <1>2. req'[p] = q /\ records' = records
    <2>1. Begin(p, q)
      BY <1>1, SessionsAre DEF StartSessions
    <2> QED BY <2>1, Writes DEF StartSessions, DirInv
  <1>3. q.op = "sessions" /\ q.step = "page" /\ q.cursor = NoCursor /\ q.seen = <<>>
        /\ q.first = SessionsFrom(records, sources) /\ q.sources = sources /\ q.opened = {}
    BY <1>1
  <1>4. ToSet(q.seen) = {} /\ q.seen \in Seq(ToSet(q.seen))
    BY <1>3 DEF ToSet
  <1>5. \A s \in q.first \union ToSet(q.seen) : Was(s, records', q.sources)
    BY <1>2, <1>3, <1>4, Listed
  <1>6. SessionsOk(req[p])'
    BY <1>2, <1>3, <1>4, <1>5 DEF SessionsOk, Stands, Was
  <1>7. UsageOk(req[p])'
    BY <1>2, <1>3 DEF UsageOk
  <1> QED BY <1>6, <1>7 DEF WalkOk

----------------------------------------------------------------------------
(* An opened session, and the whole of a walk.                             *)

\* A listed session that opens shows its own records, and at least those it counted.
LEMMA OpensWell ==
    ASSUME FeedInv, Tables, NEW sources, NEW s, Was(s, records, sources)
    PROVE  OpenedWell([session |-> s, records |-> Detail(s.id)])
  <1> SUFFICES ASSUME Wire.name[s.id[3]] = s.id[3], NoKey \notin {s.id[2], s.id[3]}
               PROVE  /\ \A x \in Detail(s.id) : SessionOf(x) = s.id
                      /\ Cardinality(Detail(s.id)) >= s.count
    BY DEF OpenedWell
  <1>1. PICK X \in SUBSET OfSession(records, sources, s.id) : X # {} /\ s = Summary(X, s.id)
    BY DEF Was
  <1>2. PICK t, u, v : s.id = <<t, u, v>>
    BY SessionFacts
  <1>3. Wire.name[u] = u /\ Wire.name[v] = v /\ u # NoKey /\ v # NoKey
    BY <1>2, SessionFacts
  <1>4. Detail(s.id) = {r \in records : r.source \in SessionSources /\ SessionOf(r) = <<t, u, v>>}
    BY <1>2, <1>3 DEF Detail, SessionOf
  <1>5. X \subseteq Detail(s.id)
    BY <1>1, <1>2, <1>4 DEF OfSession, Counted
  <1>6. IsFiniteSet(Detail(s.id))
    BY Finite, FS_Subset DEF Detail
  <1>7. Cardinality(X) <= Cardinality(Detail(s.id)) /\ s.count = Cardinality(X) /\ IsFiniteSet(X)
    BY <1>1, <1>5, <1>6, FS_Subset DEF Summary
  <1>8. Cardinality(X) \in Nat /\ Cardinality(Detail(s.id)) \in Nat
    BY <1>6, <1>7, FS_CardinalityType
  <1> QED BY <1>2, <1>4, <1>7, <1>8

LEMMA OpenSessionOk ==
    ASSUME DirInv, WalkInv, NEW p \in Procs, OpenSession(p)
    PROVE  WalkOk(req[p])'
  <1>1. PICK s \in ToSet(req[p].seen) :
            Keep(p, [req[p] EXCEPT !.opened = {[session |-> s, records |-> Detail(s.id)]}])
    BY DEF OpenSession
  <1>2. PICK opened : opened = {[session |-> s, records |-> Detail(s.id)]}
    OBVIOUS
  <1>3. PICK r : r = req[p]
    OBVIOUS
  <1>4. /\ r.op = "sessions" /\ r.step = "served" /\ records' = records
        /\ SessionsOk(r) /\ FeedInv /\ Tables
    BY <1>3 DEF OpenSession, At, WalkInv, WalkOk, DirInv
  <1>5. SessionsWalk(r)
    BY <1>3, <1>4 DEF DirInv, Tables, DirectoryOps, Idle, Reconciling, Listing, Mapping, Changing,
                      Classifying, Reading, Walk, UsageWalk
  <1> DEFINE q == [r EXCEPT !.opened = opened]
  <1>6. q = [op |-> "sessions", step |-> r.step, pend |-> Nothing, sources |-> r.sources,
             cursor |-> r.cursor, seen |-> r.seen, first |-> r.first, opened |-> opened]
    BY <1>5 DEF SessionsWalk
  <1>7. Keep(p, q)
    BY <1>1, <1>2, <1>3
  <1> HIDE DEF q
  <1>8. req'[p] = q
    BY <1>4, <1>7, Writes
  <1>9. /\ q.op = "sessions" /\ q.step = "served" /\ q.sources = r.sources /\ q.cursor = r.cursor
        /\ q.seen = r.seen /\ q.first = r.first /\ q.opened = opened
    BY <1>4, <1>6
  <1>10. \A o \in opened : OpenedWell(o)
    <2>1. Was(s, records, r.sources)
      BY <1>3, <1>4 DEF SessionsOk
    <2>2. OpenedWell([session |-> s, records |-> Detail(s.id)])
      BY <1>4, <2>1, OpensWell
    <2> QED BY <1>2, <2>2
  <1>11. SessionsOk(q)
    BY <1>4, <1>9, <1>10 DEF SessionsOk, Lone
  <1>12. SessionsOk(req[p])'
    BY <1>4, <1>8, <1>11 DEF SessionsOk, Stands, Lone, OpenedWell, Was
  <1>13. UsageOk(req[p])'
    BY <1>8, <1>9 DEF UsageOk
  <1> QED BY <1>12, <1>13 DEF WalkOk

\* Every step of the dashboard keeps what the walks have shown.
LEMMA WalkStep ==
    ASSUME DirInv, DirInv', WalkInv, [DashboardNext]_directoryVars
    PROVE  WalkInv'
  <1>1. feed' = feed /\ records \subseteq records' => FeedInv'
    BY DEF WalkInv, FeedInv
  <1>2. ASSUME feed' = feed, records \subseteq records',
               \A q \in Procs : req'[q] = req[q] \/ WalkOk(req[q])'
        PROVE  WalkInv'
    <2>1. Tables'
      BY DEF DirInv
    <2> QED BY <1>1, <1>2, <2>1, StillWalks DEF WalkInv
  <1>3. ASSUME Arrive \/ (\E u \in Members : Join(u)) \/ UNCHANGED directoryVars
        PROVE  WalkInv'
    <2>1. feed' = feed /\ records \subseteq records' /\ req' = req
      BY <1>3 DEF Arrive, Join, directoryVars
    <2> QED BY <1>2, <2>1
  <1>4. ASSUME NEW p \in Procs, Manage(p)
        PROVE  WalkInv'
    BY <1>2, <1>4, Managed, AwayOk
  <1>5. ASSUME NEW p \in Procs, Browse(p)
        PROVE  WalkInv'
    <2>1. feed' = feed /\ records' = records
      BY <1>5 DEF Browse, StartUsage, UsagePage, StartSessions, SessionsPage, OpenSession
    <2>2. \A q \in Procs : q # p => req'[q] = req[q]
      BY <1>5 DEF Browse, StartUsage, UsagePage, StartSessions, SessionsPage, OpenSession, Shows, Begin, Keep,
                  DirInv, Tables
    <2>3. WalkOk(req[p])'
      BY <1>5, UsageBegins, UsagePageOk, SessionsBegin, SessionsPageOk, OpenSessionOk DEF Browse
    <2> QED BY <1>2, <2>1, <2>2, <2>3
  <1> QED BY <1>3, <1>4, <1>5 DEF DashboardNext, DirectoryNext

\* The walks' invariant is inductive, beside the directory's.
LEMMA WalkAlways == DashboardSpec => [](DirInv /\ WalkInv)
  <1>1. DirectoryInit => WalkInv
    <2> SUFFICES ASSUME DirectoryInit
                 PROVE  WalkInv
      OBVIOUS
    <2>1. FeedInv
      BY DEF DirectoryInit, FeedInv
    <2>2. \A p \in Procs : req[p] = Idle
      BY DEF DirectoryInit
    <2> QED BY <2>1, <2>2 DEF WalkInv, WalkOk, UsageOk, SessionsOk, Idle
  <1>2. DirInv /\ DirInv' /\ WalkInv /\ [DashboardNext]_directoryVars => WalkInv'
    BY WalkStep
  <1> QED BY <1>1, <1>2, DirAlways, PTL DEF DashboardSpec

\* A walk through GET /usage or GET /sessions (api/usage.py, api/sessions.py) misses nothing and
\* repeats nothing, and an opened session shows its records, for any feed, page size and window, and
\* any number of processes and records that arrive meanwhile.
THEOREM PagesWholeHolds == DashboardSpec => []PagesWhole
  <1>1. DirInv /\ WalkInv => PagesWhole
    <2> SUFFICES ASSUME DirInv, WalkInv
                 PROVE  PagesWhole
      OBVIOUS
    <2>1. \A p \in Procs : UsageOk(req[p]) /\ SessionsOk(req[p])
      BY DEF WalkInv, WalkOk
    <2>2. FeedInv /\ Tables /\ records \subseteq feed
      BY DEF WalkInv, DirInv, Tables
    <2>3. ASSUME NEW p \in Procs, Served(p, "usage")
          PROVE  /\ \A x \in req[p].first \intersect RowsFor(req[p]) : Times(x, req[p].seen) = 1
                 /\ \A i, j \in DOMAIN req[p].seen : i < j => RowBefore(req[p].seen[i], req[p].seen[j])
      <3> DEFINE seen == req[p].seen
      <3>1. /\ req[p].op = "usage" /\ req[p].step = "served"
            /\ seen \in Seq(ToSet(seen))
            /\ \A x \in ToSet(seen) : \E z \in records : RowOf(x, z)
            /\ \A i, j \in DOMAIN seen : i < j => RowBefore(seen[i], seen[j])
            /\ \A x \in req[p].first \intersect RowsFor(req[p]) : x \in ToSet(seen)
        BY <2>1, <2>3 DEF Served, At, UsageOk
      <3>2. \A x \in ToSet(seen) : ~RowBefore(x, x)
        <4>1. \A x \in ToSet(seen) : \E z \in feed : RowOf(x, z)
          BY <2>2, <3>1
        <4> HIDE DEF seen
        <4> QED BY <2>2, <4>1, RowOrder
      <3>3. \A i \in DOMAIN seen : i \in Nat /\ seen[i] \in ToSet(seen)
        BY <3>1 DEF ToSet
      <3>4. ASSUME NEW x \in req[p].first \intersect RowsFor(req[p])
            PROVE  Times(x, seen) = 1
        <4>1. PICK i \in DOMAIN seen : seen[i] = x
          BY <3>1 DEF ToSet
        <4>2. ASSUME NEW j \in DOMAIN seen, seen[j] = x
              PROVE  j = i
          BY <3>1, <3>2, <3>3, <4>1, <4>2
        <4> QED BY <4>1, <4>2, OnceCounts DEF Once
      <3> QED BY <3>1, <3>4
    <2>4. ASSUME NEW p \in Procs, Served(p, "sessions")
          PROVE  /\ \A s \in req[p].first \intersect Sessions(req[p].sources) :
                        Lone(s, req[p]) => Times(s, req[p].seen) = 1
                 /\ \A o \in req[p].opened : OpenedWell(o)
      BY <2>1, <2>4, SessionsAre, OnceCounts DEF Served, At, SessionsOk
    <2> QED BY <2>3, <2>4 DEF PagesWhole, Lone, OpenedWell
  <1> QED BY <1>1, WalkAlways, PTL

-----------------------------------------------------------------------------
(* The views.  What is added up is a function (Total), so that the sums    *)
(* are those of SetSums.                                                   *)

(* Prices. *)

LEMMA TotalIsSum == ASSUME NEW f PROVE Total(f) = SumOf(f, DOMAIN f)
  BY DEF Total, SumOf

\* The least of finitely many numbers is one of them.
LEMMA MinOf ==
    ASSUME NEW S, S \subseteq Int, IsFiniteSet(S), S # {}
    PROVE  Min(S) \in S /\ \A y \in S : Min(S) <= y
  <1> DEFINE g == [x \in S |-> 0 - x]
             N == {g[x] : x \in S}
  <1>1. N \subseteq Int /\ N # {}
    <2>1. \A x \in S : g[x] \in Int
      OBVIOUS
    <2> HIDE DEF g
    <2> QED BY <2>1
  <1>2. IsFiniteSet(N)
    <2> HIDE DEF g
    <2> QED BY Image
  <1>3. Max(N) \in N /\ \A y \in N : Max(N) >= y
    BY <1>1, <1>2, MaxOf
  <1>4. PICK x \in S : Max(N) = 0 - x
    BY <1>3
  <1>5. \A y \in S : 0 - y \in N
    OBVIOUS
  <1> HIDE DEF N, g
  <1>6. \A y \in S : x <= y
    BY <1>3, <1>4, <1>5
  <1> QED BY <1>6 DEF Min

\* A model that has a key is priced at one of the rates.
LEMMA LookupIn ==
    ASSUME NEW rates, Keyed(rates), NEW model, KeysOf(model, rates) # {}
    PROVE  \E k \in DOMAIN rates : LookupModel(model, rates) = rates[k]
  <1> DEFINE K == KeysOf(model, rates)
             len == [k \in K |-> Len(k)]
             L == {len[k] : k \in K}
  <1>1. K \subseteq DOMAIN rates /\ IsFiniteSet(K) /\ \A k \in K : Len(k) \in Nat
    BY FS_Subset DEF KeysOf, Keyed
  <1>2. L \subseteq Int /\ L # {}
    <2>1. \A k \in K : len[k] \in Int
      BY <1>1
    <2> HIDE DEF len
    <2> QED BY <2>1
  <1>3. IsFiniteSet(L)
    <2> HIDE DEF len
    <2> QED BY <1>1, Image
  <1>4. Max(L) \in L /\ \A y \in L : Max(L) >= y
    BY <1>2, <1>3, MaxOf
  <1>5. PICK k \in K : Max(L) = Len(k)
    BY <1>4
  <1>6. \A other \in K : Len(other) \in L
    OBVIOUS
  <1>7. \A other \in K : Len(other) <= Len(k)
    BY <1>1, <1>4, <1>5, <1>6
  <1> HIDE DEF L, len, K
  <1>8. (CHOOSE j \in K : \A other \in K : Len(other) <= Len(j)) \in K
    BY <1>7
  <1> QED BY <1>1, <1>8 DEF LookupModel, K

Prices(t) == RatesAt(AnthropicCards, t)

\* There is always a card, and the same all day.
LEMMA CardOfDay ==
    ASSUME NEW t \in Int
    PROVE  /\ RateCard(Prices(t))
           /\ \A u \in Int : DayOf(u) = DayOf(t) => Prices(u) = Prices(t)
  <1> DEFINE cards == AnthropicCards
             force(u) == {i \in DOMAIN cards : cards[i].from <= u /\ u < cards[i].until}
  <1>1. RateCard(Prices(t))
    <2>1. CASE force(t) = {}
      <3>1. Prices(t) = cards[1].rates /\ 1 \in DOMAIN cards
        BY <2>1, SpendAssumption DEF Prices, RatesAt
      <3> QED BY <3>1, SpendAssumption
    <2>2. CASE force(t) # {}
      <3>1. PICK n : n = Len(cards) /\ n \in Nat /\ DOMAIN cards = 1 .. n
        BY SpendAssumption
      <3>2. IsFiniteSet(1 .. n)
        BY <3>1, FS_Interval
      <3>3. IsFiniteSet(force(t)) /\ force(t) \subseteq Int
        BY <3>1, <3>2, FS_Subset
      <3> HIDE DEF force
      <3>4. Max(force(t)) \in force(t)
        BY <2>2, <3>3, MaxOf
      <3>5. Prices(t) = cards[Max(force(t))].rates
        BY <2>2 DEF Prices, RatesAt, force
      <3>6. Max(force(t)) \in DOMAIN cards
        BY <3>4 DEF force
      <3> QED BY <3>5, <3>6, SpendAssumption
    <2> QED BY <2>1, <2>2
  <1>2. ASSUME NEW u \in Int, DayOf(u) = DayOf(t)
        PROVE  Prices(u) = Prices(t)
    <2>1. ASSUME NEW m \in Int, m % DayLength = 0
          PROVE  (m <= t <=> m <= u) /\ (t < m <=> u < m)
      <3>1. PICK d \in Nat : d = DayLength /\ d > 0
        BY SpendAssumption
      <3>2. /\ t = d * (t \div d) + (t % d) /\ 0 <= t % d /\ t % d < d /\ t \div d \in Int
            /\ u = d * (u \div d) + (u % d) /\ 0 <= u % d /\ u % d < d
            /\ m = d * (m \div d) + (m % d) /\ m \div d \in Int
        BY <3>1
      <3>3. PICK q, n, a, b : q = t \div d /\ n = m \div d /\ a = t % d /\ b = u % d
        OBVIOUS
      <3>4. q \in Int /\ n \in Int /\ a \in Int /\ b \in Int /\ a >= 0 /\ b >= 0 /\ a < d /\ b < d
        BY <3>2, <3>3, <3>1
      <3>5. t = d * q + a /\ u = d * q + b /\ m = d * n
        BY <3>1, <3>2, <3>3, <1>2, <2>1 DEF DayOf
      <3>6. CASE n <= q
        <4>1. d * n <= d * q
          BY <3>1, <3>4, <3>6
        <4> QED BY <4>1, <3>1, <3>4, <3>5
      <3>7. CASE n > q
        <4>1. d * n >= d * (q + 1)
          <5>1. n >= q + 1
            BY <3>4, <3>7
          <5> QED BY <5>1, <3>1, <3>4
        <4>2. d * (q + 1) = d * q + d
          BY <3>1, <3>4
        <4> QED BY <4>1, <4>2, <3>1, <3>4, <3>5
      <3> QED BY <3>4, <3>6, <3>7
    <2>2. \A i \in DOMAIN cards : cards[i].from <= u /\ u < cards[i].until
                                  <=> cards[i].from <= t /\ t < cards[i].until
      BY <2>1, SpendAssumption
    <2>3. force(u) = force(t)
      BY <2>2
    <2> QED BY <2>3 DEF Prices, RatesAt
  <1> QED BY <1>1, <1>2

\* A model without a price.
Priceless(model, rates) == model = NoModel \/ KeysOf(model, rates) = {}

\* A cost is that of the tokens at one rate.
LEMMA CostIs ==
    ASSUME NEW rates, RateCard(rates), NEW model, NEW t \in Rate
    PROVE  /\ Priceless(model, rates) => ComputeCost(model, rates, t) = Unpriced
           /\ ~Priceless(model, rates) =>
                 /\ LookupModel(model, rates) \in Rate
                 /\ ComputeCost(model, rates, t) = AtRates(LookupModel(model, rates), t)
                 /\ ComputeCost(model, rates, t) \in Nat
           /\ ComputeCost(model, rates, t) = Unpriced <=> Priceless(model, rates)
           /\ Plus(ComputeCost(model, rates, t)) \in Nat
  <1>1. CASE Priceless(model, rates)
    <2>1. ComputeCost(model, rates, t) = Unpriced
      BY <1>1 DEF ComputeCost, Priceless
    <2> QED BY <1>1, <2>1 DEF Plus
  <1>2. CASE ~Priceless(model, rates)
    <2>1. LookupModel(model, rates) \in Rate
      <3>1. PICK k \in DOMAIN rates : LookupModel(model, rates) = rates[k]
        BY <1>2, LookupIn DEF RateCard, Priceless
      <3> QED BY <3>1 DEF RateCard
    <2>2. ComputeCost(model, rates, t) = AtRates(LookupModel(model, rates), t)
      BY <1>2 DEF ComputeCost, Priceless
    <2>3. \A rate \in Rate : AtRates(rate, t) \in Nat
      BY DEF AtRates, Rate
    <2>4. ComputeCost(model, rates, t) \in Nat
      BY <2>1, <2>2, <2>3
    <2>5. ComputeCost(model, rates, t) # Unpriced
      BY <2>4 DEF Unpriced
    <2> QED BY <1>2, <2>1, <2>2, <2>4, <2>5 DEF Plus
  <1> QED BY <1>1, <1>2

(* Rows and buckets. *)

RowRates(x) == IF x.source = "openai_admin_usage" THEN OpenAIRates ELSE Prices(x.at)

\* What can be priced, and what can be priced as one.
Counts(rows) == \A x \in rows : x.at \in Int /\ x.tokens \in Rate
Alike(x, y)  == x.source = y.source /\ x.model = y.model /\ RowRates(x) = RowRates(y)

\* What a set of rows costs is added up of naturals.
LEMMA RowCostIs ==
    ASSUME NEW x, Counts({x})
    PROVE  /\ RateCard(RowRates(x))
           /\ RowCost(x) = ComputeCost(x.model, RowRates(x), x.tokens)
           /\ RowCost(x) \in Nat \union {Unpriced} /\ Plus(RowCost(x)) \in Nat
           /\ RowCost(x) # Unpriced => RowCost(x) \in Nat /\ Plus(RowCost(x)) = RowCost(x)
           /\ RowCost(x) = Unpriced => Plus(RowCost(x)) = 0
           /\ RowCost(x) = Unpriced <=> Priceless(x.model, RowRates(x))
  <1>1. x.at \in Int /\ x.tokens \in Rate
    BY DEF Counts
  <1>2. RateCard(RowRates(x))
    BY <1>1, CardOfDay, SpendAssumption DEF RowRates
  <1>3. RowCost(x) = ComputeCost(x.model, RowRates(x), x.tokens)
    BY DEF RowCost, PriceUsageRow, RowRates, Prices
  <1>4. RowCost(x) \in Nat \union {Unpriced} /\ Plus(RowCost(x)) \in Nat
    BY <1>1, <1>2, <1>3, CostIs
  <1>5. RowCost(x) = Unpriced <=> Priceless(x.model, RowRates(x))
    BY <1>1, <1>2, <1>3, CostIs
  <1> QED BY <1>2, <1>3, <1>4, <1>5 DEF Plus

LEMMA SpendIs ==
    ASSUME NEW rows, IsFiniteSet(rows), Counts(rows),
           NEW g, \A x \in rows : g[x] = Plus(RowCost(x))
    PROVE  /\ \A x \in rows : g[x] \in Nat
           /\ Spend(rows) = SumOf(g, rows) /\ Spend(rows) \in Nat
  <1> DEFINE f == [x \in rows |-> Plus(RowCost(x))]
  <1>1. \A x \in rows : f[x] \in Nat /\ f[x] = g[x] /\ f[x] <= f[x]
    BY RowCostIs DEF Counts
  <1>2. Spend(rows) = SumOf(f, DOMAIN f) /\ DOMAIN f = rows
    BY TotalIsSum DEF Spend
  <1> HIDE DEF f
  <1>3. SumOf(f, rows) \in Nat
    BY <1>1, SumMonotone
  <1>4. SumOf(g, rows) = SumOf(f, rows)
    BY <1>1, SumSame
  <1> QED BY <1>1, <1>2, <1>3, <1>4

LEMMA MeasureIs ==
    ASSUME NEW rows, IsFiniteSet(rows), NEW g, DOMAIN g = rows, \A x \in rows : g[x] \in Nat
    PROVE  Total(g) = SumOf(g, rows) /\ Total(g) \in Nat
  <1>1. \A x \in rows : g[x] \in Nat /\ g[x] <= g[x]
    OBVIOUS
  <1> QED BY <1>1, TotalIsSum, SumMonotone

\* A bucket of like rows costs what they cost, and is priced if they are.
LEMMA BucketIs ==
    ASSUME NEW b, IsFiniteSet(b), b # {}, Counts(b), \A x, y \in b : Alike(x, y)
    PROVE  /\ BucketCost(b) \in Nat \union {Unpriced}
           /\ Plus(BucketCost(b)) = Spend(b)
           /\ \A x \in b : RowCost(x) = Unpriced <=> BucketCost(b) = Unpriced
  <1> DEFINE c  == CHOOSE x \in b : TRUE
             at == [x \in b |-> x.at]
             A  == {at[x] : x \in b}
             T  == TokensOf(b)
             f1 == [x \in b |-> x.tokens.input]
             f2 == [x \in b |-> x.tokens.output]
             f3 == [x \in b |-> x.tokens.read]
             f4 == [x \in b |-> x.tokens.creation]
  <1>1. c \in b
    OBVIOUS
  <1>2. Min(A) \in A
    <2>1. \A x \in b : at[x] \in Int
      BY DEF Counts
    <2> HIDE DEF at
    <2>2. A \subseteq Int /\ A # {} /\ IsFiniteSet(A)
      BY <2>1, Image
    <2> HIDE DEF A
    <2> QED BY <2>2, MinOf
  <1>3. PICK m \in b : Min(A) = m.at
    BY <1>2
  <1>4. A = {y.at : y \in b}
    OBVIOUS
  <1>5. BucketCost(b) = ComputeCost(c.model, RowRates(c), T)
    <2>1. BucketCost(b) = PriceUsageRow(c.source, c.model, T, m.at)
      BY <1>3, <1>4 DEF BucketCost
    <2>2. Alike(m, c)
      BY <1>1, <1>3
    <2> HIDE DEF c, T, A
    <2> QED BY <2>1, <2>2 DEF PriceUsageRow, Alike, RowRates, Prices
  <1> HIDE DEF c, A
  <1>6. \A x \in b : /\ f1[x] \in Nat /\ f2[x] \in Nat /\ f3[x] \in Nat /\ f4[x] \in Nat
                     /\ f1[x] \in Int /\ f2[x] \in Int /\ f3[x] \in Int /\ f4[x] \in Int
    BY DEF Counts, Rate
  <1>t. \A x \in b :
           x.tokens = [input |-> f1[x], output |-> f2[x], read |-> f3[x], creation |-> f4[x]]
    BY DEF Counts, Rate
  <1>7. T = [input |-> Total(f1), output |-> Total(f2), read |-> Total(f3), creation |-> Total(f4)]
    BY DEF TokensOf
  <1>8. DOMAIN f1 = b /\ DOMAIN f2 = b /\ DOMAIN f3 = b /\ DOMAIN f4 = b
    OBVIOUS
  <1> HIDE DEF f1, f2, f3, f4, T
  <1>9. /\ Total(f1) = SumOf(f1, b) /\ Total(f2) = SumOf(f2, b)
        /\ Total(f3) = SumOf(f3, b) /\ Total(f4) = SumOf(f4, b)
        /\ Total(f1) \in Nat /\ Total(f2) \in Nat /\ Total(f3) \in Nat /\ Total(f4) \in Nat
    BY <1>6, <1>8, MeasureIs
  <1>10. T \in Rate
    BY <1>7, <1>9 DEF Rate
  <1>11. RateCard(RowRates(c))
    BY <1>1, RowCostIs DEF Counts
  <1>12. \A x \in b : RowCost(x) = Unpriced <=> Priceless(c.model, RowRates(c))
    <2>1. ASSUME NEW x \in b
          PROVE  RowCost(x) = Unpriced <=> Priceless(x.model, RowRates(x))
      BY RowCostIs DEF Counts
    <2> QED BY <1>1, <2>1 DEF Alike
  <1>13. BucketCost(b) = Unpriced <=> Priceless(c.model, RowRates(c))
    BY <1>5, <1>10, <1>11, CostIs
  <1>14. BucketCost(b) \in Nat \union {Unpriced}
    BY <1>5, <1>10, <1>11, CostIs
  <1>15. CASE Priceless(c.model, RowRates(c))
    <2> DEFINE z == [x \in b |-> 0]
    <2>1. \A x \in b : z[x] = Plus(RowCost(x)) /\ z[x] = 0
      BY <1>12, <1>15 DEF Plus
    <2> HIDE DEF z
    <2>2. Spend(b) = SumOf(z, b)
      BY <2>1, SpendIs
    <2>3. Spend(b) = 0
      BY <2>1, <2>2, SumOfZeros
    <2> QED BY <1>12, <1>13, <1>14, <1>15, <2>3 DEF Plus
  <1>16. CASE ~Priceless(c.model, RowRates(c))
    <2> DEFINE rate == LookupModel(c.model, RowRates(c))
    <2>1. /\ rate \in Rate
          /\ BucketCost(b) = AtRates(rate, T) /\ BucketCost(b) \in Nat
      BY <1>5, <1>10, <1>11, <1>16, CostIs
    <2>2. ASSUME NEW x \in b
          PROVE  RowCost(x) = AtRates(rate, x.tokens) /\ Plus(RowCost(x)) = RowCost(x)
      <3>1. Counts({x}) /\ Alike(x, c) /\ x.tokens \in Rate
        BY <1>1 DEF Counts
      <3>2. RowCost(x) = ComputeCost(c.model, RowRates(c), x.tokens)
        BY <3>1, RowCostIs DEF Alike
      <3>3. RowCost(x) = AtRates(rate, x.tokens)
        BY <3>1, <3>2, <1>11, <1>16, CostIs
      <3> QED BY <3>1, <3>3, <1>12, <1>16, RowCostIs
    <2> HIDE DEF rate
    <2>3. PICK p1, p2, p3, p4 \in Nat :
             rate = [input |-> p1, output |-> p2, read |-> p3, creation |-> p4]
      BY <2>1 DEF Rate
    <2> DEFINE g == [x \in b |-> Plus(RowCost(x))]
    <2>4. \A x \in b : g[x] = Plus(RowCost(x))
      OBVIOUS
    <2> HIDE DEF g
    <2>5. \A x \in b : g[x] = p1 * f1[x] + p2 * f2[x] + p3 * f3[x] + p4 * f4[x]
      <3> SUFFICES ASSUME NEW x \in b
                   PROVE  g[x] = p1 * f1[x] + p2 * f2[x] + p3 * f3[x] + p4 * f4[x]
        OBVIOUS
      <3>1. g[x] = AtRates(rate, x.tokens)
        BY <2>2, <2>4
      <3>2. x.tokens = [input |-> f1[x], output |-> f2[x], read |-> f3[x], creation |-> f4[x]]
        BY <1>t
      <3> QED BY <2>3, <3>1, <3>2 DEF AtRates
    <2>6. \A x \in b : f1[x] \in Int /\ f2[x] \in Int /\ f3[x] \in Int /\ f4[x] \in Int
      BY <1>6
    <2>7. SumOf(g, b) = p1 * SumOf(f1, b) + p2 * SumOf(f2, b) + p3 * SumOf(f3, b) + p4 * SumOf(f4, b)
      BY <2>5, <2>6, SumAtPrices
    <2>8. Spend(b) = SumOf(g, b)
      BY <2>4, SpendIs
    <2>9. BucketCost(b) = p1 * Total(f1) + p2 * Total(f2) + p3 * Total(f3) + p4 * Total(f4)
      BY <1>7, <2>1, <2>3 DEF AtRates
    <2>15. BucketCost(b) = Spend(b)
      BY <1>9, <2>7, <2>8, <2>9
    <2> QED BY <1>12, <1>13, <1>14, <1>16, <2>15 DEF Plus
  <1> QED BY <1>15, <1>16

(* Series and groups. *)

\* g adds up over S, whatever function stands for it.
LEMMA TotalIs ==
    ASSUME NEW S, IsFiniteSet(S), NEW g, \A x \in S : g[x] \in Nat,
           NEW f, DOMAIN f = S, \A x \in S : f[x] = g[x]
    PROVE  Total(f) = SumOf(g, S) /\ Total(f) \in Nat
  <1>1. Total(f) = SumOf(f, S)
    BY TotalIsSum
  <1>2. \A x \in S : g[x] \in Int /\ f[x] = g[x] /\ f[x] \in Nat /\ f[x] <= f[x]
    OBVIOUS
  <1>3. SumOf(f, S) = SumOf(g, S) /\ SumOf(f, S) \in Nat
    BY <1>2, SumSame, SumMonotone
  <1> QED BY <1>1, <1>3

\* A series by key adds up to what it was made of.
LEMMA SeriesAdds ==
    ASSUME NEW S, IsFiniteSet(S), NEW g, \A x \in S : g[x] \in Nat,
           NEW key, NEW f, DOMAIN f = {key[x] : x \in S},
           \A k \in DOMAIN f : f[k] = SumOf(g, Share(S, key, k))
    PROVE  /\ IsFiniteSet(DOMAIN f) /\ \A k \in DOMAIN f : f[k] \in Nat
           /\ Total(f) = SumOf(g, S) /\ Total(f) \in Nat
  <1> DEFINE K == DOMAIN f
  <1>1. IsFiniteSet(K)
    BY Image
  <1>2. \A x \in S : key[x] \in K /\ g[x] \in Int
    OBVIOUS
  <1>3. ASSUME NEW k \in K
        PROVE  f[k] \in Nat
    <2>1. IsFiniteSet(Share(S, key, k)) /\ \A x \in Share(S, key, k) : g[x] \in Nat /\ g[x] <= g[x]
      BY FS_Subset DEF Share
    <2> QED BY <2>1, SumMonotone
  <1>4. \A k \in K : f[k] = SumOf(g, Share(S, key, k))
    OBVIOUS
  <1> HIDE DEF K
  <1>5. SumOf(g, S) = SumOf(f, K)
    BY <1>1, <1>2, <1>4, SumOfParts
  <1>6. Total(f) = SumOf(f, K)
    BY TotalIsSum DEF K
  <1>7. Total(f) \in Nat
    BY <1>1, <1>3, MeasureIs DEF K
  <1> QED BY <1>1, <1>3, <1>5, <1>6, <1>7 DEF K

\* The rows of one bucket can be priced as one.
Groups(key, rows) ==
    /\ IsFiniteSet(rows) /\ Counts(rows) /\ DOMAIN key = rows
    /\ \A x, y \in rows : key[x] = key[y] => Alike(x, y)

LEMMA BucketsAre ==
    ASSUME NEW rows, NEW key, Groups(key, rows)
    PROVE  /\ IsFiniteSet(Buckets(key)) /\ UNION Buckets(key) = rows
           /\ \A b \in Buckets(key) :
                 /\ b \subseteq rows /\ b # {} /\ IsFiniteSet(b) /\ Counts(b)
                 /\ \A x \in b : b = Share(rows, key, key[x])
                 /\ BucketCost(b) \in Nat \union {Unpriced}
                 /\ Plus(BucketCost(b)) = Spend(b) /\ Spend(b) \in Nat
                 /\ \A x \in b : RowCost(x) = Unpriced <=> BucketCost(b) = Unpriced
  <1> DEFINE K == {key[x] : x \in rows}
             share == [k \in K |-> Share(rows, key, k)]
  <1>1. Buckets(key) = {share[k] : k \in K}
    <2>1. DOMAIN key = rows
      BY DEF Groups
    <2>2. Buckets(key) = {Share(rows, key, k) : k \in K}
      BY <2>1 DEF Buckets, Share
    <2> HIDE DEF K
    <2> QED BY <2>2
  <1>2. IsFiniteSet(K)
    BY Image DEF Groups
  <1>3. IsFiniteSet(Buckets(key))
    <2> HIDE DEF share
    <2> QED BY <1>1, <1>2, Image
  <1>4. UNION Buckets(key) = rows
    BY DEF Buckets, Groups
  <1>5. ASSUME NEW b \in Buckets(key)
        PROVE  /\ b \subseteq rows /\ b # {} /\ IsFiniteSet(b) /\ Counts(b)
               /\ \A x \in b : b = Share(rows, key, key[x])
               /\ BucketCost(b) \in Nat \union {Unpriced}
               /\ Plus(BucketCost(b)) = Spend(b) /\ Spend(b) \in Nat
               /\ \A x \in b : RowCost(x) = Unpriced <=> BucketCost(b) = Unpriced
    <2>1. PICK k \in K : b = Share(rows, key, k)
      BY <1>1
    <2>2. b \subseteq rows /\ b # {} /\ \A x \in b : key[x] = k
      BY <2>1 DEF Share
    <2>3. IsFiniteSet(b) /\ Counts(b)
      BY <2>2, FS_Subset DEF Groups, Counts
    <2>4. \A x, y \in b : Alike(x, y)
      BY <2>2 DEF Groups
    <2>5. \A x \in b : b = Share(rows, key, key[x])
      BY <2>1, <2>2
    <2> DEFINE g == [x \in b |-> Plus(RowCost(x))]
    <2>6. \A x \in b : g[x] = Plus(RowCost(x))
      OBVIOUS
    <2> HIDE DEF g
    <2>7. Spend(b) \in Nat
      BY <2>3, <2>6, SpendIs
    <2> QED BY <2>2, <2>3, <2>4, <2>5, <2>7, BucketIs
  <1> QED BY <1>3, <1>4, <1>5

\* What some of the buckets cost is what their rows cost.
LEMMA GroupsAdd ==
    ASSUME NEW rows, NEW key, Groups(key, rows), NEW A \in SUBSET Buckets(key),
           NEW f, DOMAIN f = A, \A b \in A : f[b] = Plus(BucketCost(b)),
           NEW g, DOMAIN g = {b \in A : BucketCost(b) # Unpriced},
           \A b \in DOMAIN g : g[b] = BucketCost(b)
    PROVE  /\ Total(f) = Spend(UNION A) /\ Total(g) = Spend(UNION A)
           /\ IsFiniteSet(UNION A) /\ Counts(UNION A) /\ IsFiniteSet(A)
  <1> DEFINE S == UNION A
             of == [x \in S |-> Share(rows, key, key[x])]
             c == [x \in S |-> Plus(RowCost(x))]
  <1>1. \A b \in A : /\ b \subseteq rows /\ b # {} /\ IsFiniteSet(b) /\ Counts(b)
                     /\ \A x \in b : b = Share(rows, key, key[x])
                     /\ BucketCost(b) \in Nat \union {Unpriced}
                     /\ Plus(BucketCost(b)) = Spend(b) /\ Spend(b) \in Nat
    BY BucketsAre
  <1>2. IsFiniteSet(A)
    BY BucketsAre, FS_Subset
  <1>3. IsFiniteSet(S) /\ Counts(S) /\ S \subseteq rows
    <2>1. S \subseteq rows
      BY <1>1
    <2> HIDE DEF S
    <2> QED BY <2>1, FS_Subset DEF Groups, Counts
  <1>4. ASSUME NEW b \in A
        PROVE  Share(S, of, b) = b
    BY <1>1 DEF Share
  <1>5. \A x \in S : of[x] \in A
    BY <1>1
  <1>6. \A x \in S : c[x] = Plus(RowCost(x))
    OBVIOUS
  <1> HIDE DEF c
  <1>7. Spend(S) = SumOf(c, S) /\ \A x \in S : c[x] \in Nat
    BY <1>3, <1>6, SpendIs
  <1>8. ASSUME NEW b \in A
        PROVE  f[b] = SumOf(c, Share(S, of, b)) /\ f[b] \in Nat
    <2>1. b \subseteq S /\ IsFiniteSet(b) /\ Counts(b)
      BY <1>1
    <2>2. Spend(b) = SumOf(c, b)
      BY <2>1, <1>6, SpendIs
    <2>3. Share(S, of, b) = b
      BY <1>4
    <2>4. f[b] = Spend(b) /\ Spend(b) \in Nat
      BY <1>1
    <2> HIDE DEF S, of
    <2> QED BY <2>2, <2>3, <2>4
  <1> HIDE DEF S, of
  <1>9. SumOf(c, S) = SumOf(f, A)
    <2>1. \A x \in S : c[x] \in Int /\ of[x] \in A
      BY <1>5, <1>7
    <2>2. \A b \in A : f[b] = SumOf(c, Share(S, of, b))
      BY <1>8
    <2> QED BY <1>2, <1>3, <2>1, <2>2, SumOfParts
  <1>10. Total(f) = SumOf(f, A)
    BY TotalIsSum
  <1>11. Total(g) = SumOf(f, A)
    <2> DEFINE D == DOMAIN g
    <2>1. D \in SUBSET A /\ IsFiniteSet(D)
      BY <1>2, FS_Subset
    <2>2. \A b \in D : f[b] = g[b] /\ f[b] \in Int
      BY <1>1 DEF Plus
    <2>3. \A b \in A \ D : f[b] = 0
      BY DEF Plus
    <2>4. \A b \in A : f[b] \in Int
      BY <1>8
    <2>5. Total(g) = SumOf(g, D)
      BY TotalIsSum
    <2> HIDE DEF D
    <2>6. SumOf(g, D) = SumOf(f, D)
      BY <2>1, <2>2, SumSame
    <2>7. SumOf(f, A) = SumOf(f, D)
      BY <1>2, <2>1, <2>3, <2>4, SumSkips
    <2> QED BY <2>5, <2>6, <2>7
  <1> QED BY <1>2, <1>3, <1>7, <1>9, <1>10, <1>11 DEF S

(* The records of usage and their rows. *)

PartRow(r, i) == UsageRow(r, i, r.results[i].model, r.results[i].place, AnthropicTokens(r.results[i]))

RowsOf(r) == IF r.source = "admin" THEN {PartRow(r, i) : i \in DOMAIN r.results}
             ELSE {UsageRow(r, 1, b.model, b.place, OpenAITokens(b)) : b \in r.result}

\* Records of usage, and all their rows.
Usage(C)  == C \subseteq feed /\ \A r \in C : r.source \in {"admin", "openai_admin_usage"}
AllRows(C) == UNION {RowsOf(r) : r \in C}

LEMMA RecordRows ==
    ASSUME FeedInv, Tables, NEW r \in feed, r.source \in {"admin", "openai_admin_usage"}
    PROVE  /\ r.at \in Int /\ IsFiniteSet(RowsOf(r)) /\ Counts(RowsOf(r))
           /\ \A x \in RowsOf(r) : x.at = r.at /\ x.rid = r.id /\ x.source = r.source
  <1>1. PICK s \in Scenarios : r \in s.feed
    BY DEF FeedInv
  <1>2. r.at \in Int
    BY <1>1, ListsAssumption
  <1>3. CASE r.source = "admin"
    <2> DEFINE row == [i \in DOMAIN r.results |-> PartRow(r, i)]
    <2>1. PICK n \in Nat : n = Len(r.results) /\ DOMAIN r.results = 1 .. n
      BY <1>1, <1>3, ListsAssumption
    <2>2. IsFiniteSet(1 .. n)
      BY <2>1, FS_Interval
    <2>3. RowsOf(r) = {row[i] : i \in DOMAIN r.results}
      BY <1>3 DEF RowsOf
    <2>4. IsFiniteSet(RowsOf(r))
      <3> HIDE DEF row
      <3> QED BY <2>1, <2>2, <2>3, Image
    <2>5. ASSUME NEW x \in RowsOf(r)
          PROVE  /\ x.at = r.at /\ x.rid = r.id /\ x.source = r.source
                 /\ x.tokens \in Rate
      <3>1. PICK i \in DOMAIN r.results : x = PartRow(r, i)
        BY <1>3 DEF RowsOf
      <3>2. PICK b : b = r.results[i]
        OBVIOUS
      <3>3. {b.input, b.output, b.read, b.flat, b.nested} \subseteq Nat
        BY <1>1, <1>3, <3>2, ViewsAssumption
      <3>4. AnthropicTokens(b) \in Rate
        BY <3>3 DEF AnthropicTokens, CreationTokens, Rate
      <3> QED BY <3>1, <3>2, <3>4 DEF PartRow, UsageRow
    <2> QED BY <1>2, <2>4, <2>5 DEF Counts
  <1>4. CASE r.source = "openai_admin_usage"
    <2>1. \A b, c \in r.result : b = c
      BY <1>1, <1>4, ListsAssumption
    <2>2. RowsOf(r) = {UsageRow(r, 1, b.model, b.place, OpenAITokens(b)) : b \in r.result}
      BY <1>4 DEF RowsOf
    <2>3. RowsOf(r) = {} \/ \E x : RowsOf(r) = {x}
      BY <2>1, <2>2
    <2>4. IsFiniteSet(RowsOf(r))
      <3>1. IsFiniteSet({}) /\ \A x : IsFiniteSet({x})
        BY FS_EmptySet, FS_Singleton
      <3> QED BY <2>3, <3>1
    <2>5. ASSUME NEW x \in RowsOf(r)
          PROVE  /\ x.at = r.at /\ x.rid = r.id /\ x.source = r.source
                 /\ x.tokens \in Rate
      <3>1. PICK b \in r.result : x = UsageRow(r, 1, b.model, b.place, OpenAITokens(b))
        BY <2>2
      <3>2. {b.uncached, b.cached, b.output} \subseteq Nat
        BY <1>1, <1>4, ViewsAssumption
      <3>3. OpenAITokens(b) \in Rate
        BY <3>2 DEF OpenAITokens, Rate
      <3> QED BY <3>1, <3>3 DEF UsageRow
    <2> QED BY <1>2, <2>4, <2>5 DEF Counts
  <1> QED BY <1>3, <1>4

\* The estimate of a record is what its rows cost.
LEMMA EstimateIs ==
    ASSUME FeedInv, Tables, NEW r \in feed, r.source \in {"admin", "openai_admin_usage"}
    PROVE  /\ EstimateCost(r) \in Nat \union {Unpriced}
           /\ Plus(EstimateCost(r)) = Spend(RowsOf(r)) /\ Spend(RowsOf(r)) \in Nat
           /\ EstimateCost(r) = Unpriced <=> \A x \in RowsOf(r) : RowCost(x) = Unpriced
           /\ EstimateCost(r) # Unpriced => EstimateCost(r) = Spend(RowsOf(r))
  <1> DEFINE X == RowsOf(r)
             c == [x \in X |-> Plus(RowCost(x))]
  <1>1. IsFiniteSet(X) /\ Counts(X) /\ \A x \in X : x.at = r.at /\ x.source = r.source
    BY RecordRows
  <1>2. \A x \in X : Counts({x})
    BY <1>1 DEF Counts
  <1>3. \A x \in X : c[x] = Plus(RowCost(x))
    OBVIOUS
  <1>4. PICK s \in Scenarios : r \in s.feed
    BY DEF FeedInv
  <1>5. CASE r.source = "admin"
    <2> DEFINE D == DOMAIN r.results
               costs == [i \in D |-> BreakdownCost(r.results[i], r.at)]
               known == {i \in D : costs[i] # Unpriced}
               plus == [i \in D |-> Plus(costs[i])]
               row == [i \in D |-> PartRow(r, i)]
    <2>1. EstimateCost(r) = IF known = {} THEN Unpriced ELSE Total([i \in known |-> costs[i]])
      BY <1>5 DEF EstimateCost, EstimateAnthropic
    <2>2. X = {row[i] : i \in D}
      BY <1>5 DEF RowsOf
    <2>3. ASSUME NEW i \in D
          PROVE  costs[i] = RowCost(row[i]) /\ row[i].ord = i /\ row[i] \in X
      <3>1. row[i] = PartRow(r, i) /\ costs[i] = BreakdownCost(r.results[i], r.at)
        OBVIOUS
      <3>2. PartRow(r, i).source # "openai_admin_usage" /\ PartRow(r, i).ord = i
        BY <1>5 DEF PartRow, UsageRow
      <3>3. RowCost(PartRow(r, i)) = BreakdownCost(r.results[i], r.at)
        BY <3>2 DEF RowCost, PriceUsageRow, BreakdownCost, PartRow, UsageRow
      <3> QED BY <3>1, <3>2, <3>3, <2>2
    <2>4. IsFiniteSet(D)
      <3>1. PICK n \in Nat : n = Len(r.results) /\ DOMAIN r.results = 1 .. n
        BY <1>4, <1>5, ListsAssumption
      <3> QED BY <3>1, FS_Interval
    <2>5. known \in SUBSET D /\ plus = [i \in D |-> plus[i]]
          /\ \A i \in D : plus[i] = Plus(costs[i]) /\ (costs[i] = Unpriced <=> i \notin known)
      OBVIOUS
    <2>6. DOMAIN [i \in known |-> costs[i]] = known
          /\ \A i \in known : [j \in known |-> costs[j]][i] = costs[i]
      OBVIOUS
    <2>7. PICK est : est = [i \in known |-> costs[i]]
      OBVIOUS
    <2> HIDE DEF D, costs, known, plus, row, X, c
    <2>8. ASSUME NEW i \in D
          PROVE  /\ costs[i] \in Nat \union {Unpriced} /\ plus[i] \in Nat
                 /\ i \in known => costs[i] \in Nat /\ plus[i] = costs[i]
                 /\ i \notin known => plus[i] = 0
                 /\ c[row[i]] = plus[i]
      <3>1. Counts({row[i]}) /\ costs[i] = RowCost(row[i])
        BY <1>2, <2>3
      <3>2. /\ costs[i] \in Nat \union {Unpriced} /\ Plus(costs[i]) \in Nat
            /\ costs[i] # Unpriced => costs[i] \in Nat /\ Plus(costs[i]) = costs[i]
            /\ costs[i] = Unpriced => Plus(costs[i]) = 0
        BY <3>1, RowCostIs
      <3>3. c[row[i]] = Plus(costs[i])
        BY <1>3, <2>3
      <3> QED BY <2>5, <3>2, <3>3
    <2>9. SumOf(plus, D) = SumOf(c, X)
      <3>1. \A i \in D : plus[i] \in Int /\ c[row[i]] = plus[i]
        BY <2>8
      <3>2. \A i, j \in D : row[i] = row[j] => i = j
        BY <2>3
      <3> QED BY <2>2, <2>4, <3>1, <3>2, SumRenames
    <2>10. SumOf(plus, D) = SumOf(plus, known)
      <3>1. \A i \in D : plus[i] \in Int
        BY <2>8
      <3>2. \A i \in D \ known : plus[i] = 0
        BY <2>8
      <3> QED BY <2>4, <2>5, <3>1, <3>2, SumSkips
    <2>11. Total(est) = SumOf(plus, known) /\ Total(est) \in Nat
      <3>1. IsFiniteSet(known)
        BY <2>4, <2>5, FS_Subset
      <3>2. DOMAIN est = known /\ \A i \in known : plus[i] \in Nat /\ est[i] = plus[i]
        BY <2>5, <2>6, <2>7, <2>8
      <3> QED BY <3>1, <3>2, TotalIs
    <2>12. Spend(X) = SumOf(c, X) /\ Spend(X) \in Nat
      BY <1>1, <1>3, SpendIs
    <2>13. known = {} <=> \A x \in X : RowCost(x) = Unpriced
      BY <2>2, <2>3, <2>5
    <2>14. Plus(Unpriced) = 0 /\ Unpriced \notin Nat
      BY DEF Plus, Unpriced
    <2>15. CASE known = {}
      <3>1. SumOf(plus, known) = 0
        BY <2>15, SumOfNone
      <3> QED BY <2>1, <2>9, <2>10, <2>12, <2>13, <2>14, <2>15, <3>1 DEF X
    <2>16. CASE known # {}
      <3>1. EstimateCost(r) = Total(est)
        BY <2>1, <2>7, <2>16
      <3>2. Plus(EstimateCost(r)) = Total(est) /\ EstimateCost(r) # Unpriced
        BY <2>11, <2>14, <3>1 DEF Plus
      <3> QED BY <2>9, <2>10, <2>11, <2>12, <2>13, <2>16, <3>1, <3>2 DEF X
    <2> QED BY <2>15, <2>16
  <1>6. CASE r.source = "openai_admin_usage"
    <2>1. EstimateCost(r) = EstimateOpenAI(r)
      BY <1>6 DEF EstimateCost
    <2>2. X = {UsageRow(r, 1, b.model, b.place, OpenAITokens(b)) : b \in r.result}
      BY <1>6 DEF RowsOf
    <2>3. \A b, d \in r.result : b = d
      BY <1>4, <1>6, ListsAssumption
    <2>4. Spend(X) = SumOf(c, X) /\ Spend(X) \in Nat
      <3> HIDE DEF X, c
      <3> QED BY <1>1, <1>3, SpendIs
    <2>5. CASE r.result = {}
      <3>1. X = {} /\ EstimateCost(r) = Unpriced
        BY <2>1, <2>2, <2>5 DEF EstimateOpenAI
      <3>2. SumOf(c, X) = 0
        BY <3>1, SumOfNone
      <3> HIDE DEF X, c
      <3> QED BY <2>4, <3>1, <3>2 DEF Plus, X
    <2>6. CASE r.result # {}
      <3> DEFINE b == CHOOSE b \in r.result : TRUE
                 x == UsageRow(r, 1, b.model, b.place, OpenAITokens(b))
      <3>1. b \in r.result /\ r.result = {b}
        BY <2>3, <2>6
      <3>2. EstimateCost(r) = ComputeCost(b.model, OpenAIRates, OpenAITokens(b))
        BY <2>1, <2>6 DEF EstimateOpenAI
      <3>3. X = {x}
        BY <2>2, <3>1
      <3>4. RowCost(x) = EstimateCost(r)
        <4>1. x.source = "openai_admin_usage" /\ x.model = b.model /\ x.tokens = OpenAITokens(b)
          BY <1>6 DEF UsageRow
        <4> HIDE DEF x, b
        <4> QED BY <3>2, <4>1 DEF RowCost, PriceUsageRow
      <3> HIDE DEF x, b, X
      <3>5. Counts({x}) /\ c[x] = Plus(RowCost(x))
        BY <1>2, <1>3, <3>3
      <3>6. /\ RowCost(x) \in Nat \union {Unpriced} /\ Plus(RowCost(x)) \in Nat
            /\ RowCost(x) # Unpriced => Plus(RowCost(x)) = RowCost(x)
        BY <3>5, RowCostIs
      <3> HIDE DEF c
      <3>7. SumOf(c, {x}) = c[x]
        <4>1. c[x] \in Int
          BY <3>5, <3>6
        <4> QED BY <4>1, SumOfOne
      <3> QED BY <2>4, <3>3, <3>4, <3>5, <3>6, <3>7 DEF X
    <2> QED BY <2>5, <2>6
  <1> QED BY <1>5, <1>6

\* All the rows of some records, and a row's record.
LEMMA AllRowsAre ==
    ASSUME FeedInv, Tables, NEW C, Usage(C)
    PROVE  /\ IsFiniteSet(C) /\ IsFiniteSet(AllRows(C)) /\ Counts(AllRows(C))
           /\ \A x \in AllRows(C) : \E r \in C : x \in RowsOf(r)
           /\ \A r \in C : RowsOf(r) \subseteq AllRows(C)
           /\ \A r \in C : \A x \in RowsOf(r) :
                 x.at = r.at /\ x.source = r.source /\ \A q \in C : x \in RowsOf(q) => q = r
  <1> DEFINE rows == [r \in C |-> RowsOf(r)]
  <1>1. IsFiniteSet(C)
    BY FS_Subset DEF Usage, Tables
  <1>2. ASSUME NEW r \in C
        PROVE  /\ r \in feed /\ r.at \in Int /\ IsFiniteSet(RowsOf(r)) /\ Counts(RowsOf(r))
               /\ \A x \in RowsOf(r) : x.at = r.at /\ x.rid = r.id /\ x.source = r.source
    BY RecordRows DEF Usage
  <1>3. AllRows(C) = UNION {rows[r] : r \in C}
    BY DEF AllRows
  <1>4. \A T \in {rows[r] : r \in C} : IsFiniteSet(T)
    BY <1>2
  <1>5. IsFiniteSet(AllRows(C))
    <2> HIDE DEF rows
    <2>1. IsFiniteSet({rows[r] : r \in C})
      BY <1>1, Image
    <2> QED BY <1>3, <1>4, <2>1, FS_UNION
  <1>6. Counts(AllRows(C))
    BY <1>2 DEF AllRows, Counts
  <1>7. ASSUME NEW r \in C, NEW x \in RowsOf(r), NEW q \in C, x \in RowsOf(q)
        PROVE  q = r
    <2>1. x.rid = r.id /\ x.rid = q.id
      BY <1>2, <1>7
    <2> QED BY <1>2, <2>1 DEF Tables
  <1> QED BY <1>1, <1>2, <1>5, <1>6, <1>7 DEF AllRows

\* The estimates of records add up to what their rows cost.
LEMMA EstimatesAdd ==
    ASSUME FeedInv, Tables, NEW C, Usage(C),
           NEW e, \A r \in C : e[r] = Plus(EstimateCost(r))
    PROVE  SumOf(e, C) = Spend(AllRows(C)) /\ \A r \in C : e[r] \in Nat
  <1> DEFINE X == AllRows(C)
             c == [x \in X |-> Plus(RowCost(x))]
             of == [x \in X |-> CHOOSE r \in C : x \in RowsOf(r)]
  <1>1. \A r \in C : e[r] = Spend(RowsOf(r)) /\ e[r] \in Nat
    BY EstimateIs DEF Usage
  <1>2. /\ IsFiniteSet(C) /\ IsFiniteSet(X) /\ Counts(X)
        /\ \A x \in X : \E r \in C : x \in RowsOf(r)
        /\ \A r \in C : RowsOf(r) \subseteq X
        /\ \A r \in C : \A x \in RowsOf(r) : \A q \in C : x \in RowsOf(q) => q = r
    BY AllRowsAre
  <1>3. \A x \in X : of[x] \in C /\ x \in RowsOf(of[x])
    BY <1>2
  <1>4. \A x \in X : c[x] = Plus(RowCost(x))
    OBVIOUS
  <1> HIDE DEF X, c, of
  <1>5. Spend(X) = SumOf(c, X) /\ \A x \in X : c[x] \in Nat
    BY <1>2, <1>4, SpendIs
  <1>6. ASSUME NEW r \in C
        PROVE  e[r] = SumOf(c, Share(X, of, r))
    <2>1. Share(X, of, r) = RowsOf(r)
      BY <1>2, <1>3 DEF Share
    <2>2. IsFiniteSet(RowsOf(r)) /\ Counts(RowsOf(r)) /\ \A x \in RowsOf(r) : c[x] = Plus(RowCost(x))
      BY <1>2, <1>4, FS_Subset DEF Counts
    <2>3. Spend(RowsOf(r)) = SumOf(c, RowsOf(r))
      BY <2>2, SpendIs
    <2> QED BY <1>1, <2>1, <2>3
  <1>7. SumOf(c, X) = SumOf(e, C)
    <2>1. \A x \in X : c[x] \in Int /\ of[x] \in C
      BY <1>3, <1>5
    <2>2. \A r \in C : e[r] = SumOf(c, Share(X, of, r))
      BY <1>6
    <2> QED BY <1>2, <2>1, <2>2, SumOfParts
  <1> QED BY <1>1, <1>5, <1>7 DEF X

\* f is the estimates by a key, of the priced records.
EstimateSeries(f, C, key) ==
    /\ DOMAIN f = {key[r] : r \in {q \in C : EstimateCost(q) # Unpriced}}
    /\ \A k \in DOMAIN f : \E h :
           /\ DOMAIN h = {q \in C : EstimateCost(q) # Unpriced /\ key[q] = k}
           /\ \A r \in DOMAIN h : h[r] = EstimateCost(r)
           /\ f[k] = Total(h)

\* They are, of each key, what its records' rows cost.
LEMMA EstimatesByKey ==
    ASSUME FeedInv, Tables, NEW C, Usage(C), NEW key, NEW f, EstimateSeries(f, C, key)
    PROVE  /\ IsFiniteSet(DOMAIN f) /\ \A k \in DOMAIN f : f[k] \in Nat
           /\ Total(f) = Spend(AllRows(C)) /\ Total(f) \in Nat
           /\ \A k \in DOMAIN f : f[k] = Spend(AllRows({q \in C : key[q] = k}))
  <1> USE DEF EstimateSeries
  <1> DEFINE P(D) == {q \in D : EstimateCost(q) # Unpriced}
             e == [r \in C |-> Plus(EstimateCost(r))]
  <1>e. \A r \in C : e[r] = Plus(EstimateCost(r))
    OBVIOUS
  <1> HIDE DEF e
  <1>1. ASSUME NEW r \in C
        PROVE  /\ EstimateCost(r) \in Nat \union {Unpriced} /\ Plus(EstimateCost(r)) \in Nat
               /\ EstimateCost(r) # Unpriced => Plus(EstimateCost(r)) = EstimateCost(r)
               /\ EstimateCost(r) = Unpriced => Plus(EstimateCost(r)) = 0
               /\ e[r] = Spend(RowsOf(r)) /\ e[r] \in Nat
    <2>1. r \in feed /\ r.source \in {"admin", "openai_admin_usage"}
      BY DEF Usage
    <2>2. EstimateCost(r) \in Nat \union {Unpriced} /\ Plus(EstimateCost(r)) = Spend(RowsOf(r))
          /\ Spend(RowsOf(r)) \in Nat
      BY <2>1, EstimateIs
    <2> QED BY <1>e, <2>2 DEF Plus
  <1>2. ASSUME NEW D \in SUBSET C
        PROVE  SumOf(e, P(D)) = Spend(AllRows(D)) /\ IsFiniteSet(P(D))
    <2>1. Usage(D) /\ \A r \in D : e[r] = Plus(EstimateCost(r))
      BY <1>e DEF Usage
    <2>2. IsFiniteSet(D)
      BY <2>1, AllRowsAre
    <2>7. SumOf(e, D) = Spend(AllRows(D))
      BY <2>1, EstimatesAdd
    <2>8. P(D) \in SUBSET D /\ IsFiniteSet(P(D))
      BY <2>2, FS_Subset
    <2>9. SumOf(e, D) = SumOf(e, P(D))
      <3>1. \A r \in D : e[r] \in Int
        BY <1>1
      <3>2. \A r \in D \ P(D) : e[r] = 0
        BY <1>1, <1>e
      <3> HIDE DEF P
      <3> QED BY <2>2, <2>8, <3>1, <3>2, SumSkips
    <2> QED BY <2>7, <2>8, <2>9
  <1> DEFINE S == P(C)
  <1>3. S \subseteq C /\ IsFiniteSet(S) /\ \A r \in S : e[r] \in Nat /\ e[r] = EstimateCost(r)
    BY <1>1, <1>2, <1>e
  <1>4. ASSUME NEW k \in DOMAIN f
        PROVE  /\ f[k] = SumOf(e, Share(S, key, k))
               /\ f[k] = Spend(AllRows({q \in C : key[q] = k}))
    <2> DEFINE D == {q \in C : key[q] = k}
    <2>1. PICK h : /\ DOMAIN h = {q \in C : EstimateCost(q) # Unpriced /\ key[q] = k}
                   /\ \A r \in DOMAIN h : h[r] = EstimateCost(r)
                   /\ f[k] = Total(h)
      OBVIOUS
    <2>2. Share(S, key, k) = DOMAIN h /\ P(D) = DOMAIN h
      BY <2>1 DEF Share
    <2>3. D \in SUBSET C
      OBVIOUS
    <2>4. SumOf(e, P(D)) = Spend(AllRows(D)) /\ IsFiniteSet(P(D))
      BY <1>2, <2>3
    <2>5. \A r \in DOMAIN h : e[r] \in Nat /\ h[r] = e[r]
      BY <1>3, <2>1
    <2>6. IsFiniteSet(DOMAIN h)
      BY <2>2, <2>4
    <2>7. Total(h) = SumOf(e, DOMAIN h)
      BY <2>5, <2>6, TotalIs
    <2> QED BY <2>1, <2>2, <2>4, <2>7
  <1>5. SumOf(e, S) = Spend(AllRows(C))
    BY <1>2
  <1>6. DOMAIN f = {key[r] : r \in S}
    OBVIOUS
  <1> HIDE DEF S, P
  <1>7. /\ IsFiniteSet(DOMAIN f) /\ \A k \in DOMAIN f : f[k] \in Nat
        /\ Total(f) = SumOf(e, S) /\ Total(f) \in Nat
    <2>1. \A k \in DOMAIN f : f[k] = SumOf(e, Share(S, key, k))
      BY <1>4
    <2>2. \A r \in S : e[r] \in Nat
      BY <1>3
    <2> QED BY <1>3, <1>6, <2>1, <2>2, SeriesAdds
  <1> QED BY <1>4, <1>5, <1>7

\* The spend of rows is that of some and of the others.
LEMMA SpendSplits ==
    ASSUME NEW S, IsFiniteSet(S), Counts(S), NEW A \in SUBSET S
    PROVE  /\ Spend(S) = Spend(A) + Spend(S \ A)
           /\ Spend(S) \in Nat /\ Spend(A) \in Nat /\ Spend(S \ A) \in Nat
           /\ (\A x \in S \ A : RowCost(x) = Unpriced) => Spend(S) = Spend(A)
  <1> DEFINE c == [x \in S |-> Plus(RowCost(x))]
  <1>1. \A x \in S : c[x] = Plus(RowCost(x))
    OBVIOUS
  <1>2. /\ IsFiniteSet(A) /\ Counts(A) /\ IsFiniteSet(S \ A) /\ Counts(S \ A)
    BY FS_Subset DEF Counts
  <1> HIDE DEF c
  <1>3. /\ \A x \in S : c[x] \in Nat
        /\ Spend(S) = SumOf(c, S) /\ Spend(S) \in Nat
    BY <1>1, SpendIs
  <1>4. Spend(A) = SumOf(c, A) /\ Spend(A) \in Nat
    BY <1>1, <1>2, SpendIs
  <1>5. Spend(S \ A) = SumOf(c, S \ A) /\ Spend(S \ A) \in Nat
    BY <1>1, <1>2, SpendIs
  <1>6. \A x \in S : c[x] \in Int
    BY <1>3
  <1>7. SumOf(c, S) = SumOf(c, A) + SumOf(c, S \ A)
    BY <1>6, SumSplits
  <1>8. ASSUME \A x \in S \ A : RowCost(x) = Unpriced
        PROVE  Spend(S) = Spend(A)
    <2>1. \A x \in S \ A : c[x] = 0
      BY <1>1, <1>8 DEF Plus
    <2> QED BY <1>3, <1>4, <1>6, <2>1, SumSkips
  <1> QED BY <1>3, <1>4, <1>5, <1>7, <1>8

\* Spends by a key add up.
LEMMA SpendByKey ==
    ASSUME NEW S, IsFiniteSet(S), Counts(S), NEW key,
           NEW f, DOMAIN f = {key[x] : x \in S},
           \A k \in DOMAIN f : f[k] = Spend(Share(S, key, k))
    PROVE  Total(f) = Spend(S)
  <1> DEFINE c == [x \in S |-> Plus(RowCost(x))]
  <1>1. \A x \in S : c[x] = Plus(RowCost(x))
    OBVIOUS
  <1> HIDE DEF c
  <1>2. Spend(S) = SumOf(c, S) /\ \A x \in S : c[x] \in Nat
    BY <1>1, SpendIs
  <1>3. ASSUME NEW k \in DOMAIN f
        PROVE  f[k] = SumOf(c, Share(S, key, k))
    <2>1. IsFiniteSet(Share(S, key, k)) /\ Counts(Share(S, key, k))
      BY FS_Subset DEF Counts, Share
    <2>2. \A x \in Share(S, key, k) : c[x] = Plus(RowCost(x))
      BY <1>1 DEF Share
    <2> QED BY <2>1, <2>2, SpendIs
  <1> QED BY <1>2, <1>3, SeriesAdds

Ours(R, w)   == AnthropicBranch(R, w, NoFilter)
Theirs(R, w) == OpenAIBranch(R, w, NoFilter)
AdminOf(R, w)  == FromSource(R, w, "admin")
MeteredOf(R, w) == FromSource(R, w, "openai_admin_usage")

\* Which rows there are: all of Anthropic's but the superseded ones, which have no
\* model, and OpenAI's.
LEMMA RowSets ==
    ASSUME NEW R, NEW w
    PROVE  /\ PlainRows(R, w) = AllRows(AdminOf(R, w))
           /\ Theirs(R, w) = AllRows(MeteredOf(R, w))
           /\ Ours(R, w) \subseteq PlainRows(R, w)
           /\ {x \in PlainRows(R, w) : x.model # NoModel} \subseteq Ours(R, w)
           /\ \A q : AnthropicBranch(R, w, [models |-> {}, places |-> {q}])
                         = {x \in Ours(R, w) : x.place = q}
           /\ UsageRows(R, w, NoFilter) = Ours(R, w) \union Theirs(R, w)
           /\ \A x \in PlainRows(R, w) : x.source = "admin"
           /\ \A x \in Theirs(R, w) : x.source = "openai_admin_usage"
  <1> DEFINE C == AdminOf(R, w)
             parts(r, f) == {PartRow(r, i) : i \in {j \in DOMAIN r.results :
                         /\ ~Superseded(R, r, r.results[j])
                         /\ Passes(f, r.results[j].model, r.results[j].place)}}
  <1>1. \A r \in C : r.source = "admin"
    BY DEF AdminOf, FromSource
  <1>2. PlainRows(R, w) = AllRows(C)
    <2>1. PlainRows(R, w) = UNION {{PartRow(r, i) : i \in DOMAIN r.results} : r \in C}
      BY DEF PlainRows, PartRow, AdminOf
    <2>2. \A r \in C : RowsOf(r) = {PartRow(r, i) : i \in DOMAIN r.results}
      BY <1>1 DEF RowsOf
    <2> HIDE DEF C
    <2> QED BY <2>1, <2>2 DEF AllRows
  <1>3. \A f : AnthropicBranch(R, w, f) = UNION {parts(r, f) : r \in C}
    BY DEF AnthropicBranch, PartRow, AdminOf
  <1>4. \A x : x \in AllRows(C) <=> \E r \in C : \E i \in DOMAIN r.results : x = PartRow(r, i)
    BY <1>1 DEF AllRows, RowsOf
  <1>5. \A f : \A x : x \in AnthropicBranch(R, w, f) <=> \E r \in C : \E i \in DOMAIN r.results :
            /\ x = PartRow(r, i) /\ ~Superseded(R, r, r.results[i])
            /\ Passes(f, r.results[i].model, r.results[i].place)
    BY <1>3
  <1>6. \A m, p : Passes(NoFilter, m, p)
    BY DEF Passes, NoFilter
  <1>7. \A m, p, q : Passes([models |-> {}, places |-> {q}], m, p) <=> p = q
    BY DEF Passes
  <1>8. \A r, i : /\ PartRow(r, i).model = r.results[i].model /\ PartRow(r, i).place = r.results[i].place
                  /\ PartRow(r, i).source = r.source
    BY DEF PartRow, UsageRow
  <1>9. \A r, b : Superseded(R, r, b) => b.model = NoModel
    BY DEF Superseded
  <1> HIDE DEF C, parts
  <1>10. Ours(R, w) \subseteq AllRows(C)
    BY <1>4, <1>5 DEF Ours
  <1>11. {x \in AllRows(C) : x.model # NoModel} \subseteq Ours(R, w)
    BY <1>4, <1>5, <1>6, <1>8, <1>9 DEF Ours
  <1>12. \A q : AnthropicBranch(R, w, [models |-> {}, places |-> {q}])
                         = {x \in Ours(R, w) : x.place = q}
    <2> TAKE q
    <2> DEFINE F == [models |-> {}, places |-> {q}]
    <2>1. \A m, p : Passes(F, m, p) <=> p = q
      BY <1>7
    <2> HIDE DEF F
    <2>2. \A x : x \in AnthropicBranch(R, w, F) <=> x \in Ours(R, w) /\ x.place = q
      BY <2>1, <1>5, <1>6, <1>8 DEF Ours
    <2>3. AnthropicBranch(R, w, F) = {x \in Ours(R, w) : x.place = q}
      BY <2>2
    <2> QED BY <2>3 DEF F
  <1>13. \A x \in AllRows(C) : x.source = "admin"
    BY <1>1, <1>4, <1>8
  <1>14. Theirs(R, w) = AllRows(MeteredOf(R, w)) /\ \A x \in Theirs(R, w) : x.source = "openai_admin_usage"
    <2> DEFINE D == MeteredOf(R, w)
    <2>1. \A r \in D : r.source = "openai_admin_usage"
      BY DEF MeteredOf, FromSource
    <2>2. Theirs(R, w) = UNION {{UsageRow(r, 1, b.model, b.place, OpenAITokens(b)) : b \in r.result} : r \in D}
      BY <1>6 DEF Theirs, OpenAIBranch, MeteredOf
    <2>3. \A r \in D : RowsOf(r) = {UsageRow(r, 1, b.model, b.place, OpenAITokens(b)) : b \in r.result}
      BY <2>1 DEF RowsOf
    <2>4. \A r, b : UsageRow(r, 1, b.model, b.place, OpenAITokens(b)).source = r.source
      BY DEF UsageRow
    <2> HIDE DEF D
    <2>5. Theirs(R, w) = AllRows(D)
      BY <2>2, <2>3 DEF AllRows
    <2>6. \A x \in Theirs(R, w) : x.source = "openai_admin_usage"
      <3> TAKE x \in Theirs(R, w)
      <3>1. PICK r \in D : \E b \in r.result : x = UsageRow(r, 1, b.model, b.place, OpenAITokens(b))
        BY <2>2
      <3> QED BY <2>1, <2>4, <3>1
    <2> QED BY <2>5, <2>6 DEF D
  <1> QED BY <1>2, <1>10, <1>11, <1>12, <1>13, <1>14 DEF UsageRows, Ours, Theirs, C

\* The rows with a price, and the keys of rows.
Priced(rows) == {x \in rows : RowCost(x) # Unpriced}
KeysIn(key, S) == {key[x] : x \in S}

\* f is what the priced ones of some buckets cost, by a part of their key.
BucketSeries(f, B, of) ==
    /\ DOMAIN f = {of[b] : b \in {c \in B : BucketCost(c) # Unpriced}}
    /\ \A k \in DOMAIN f : \E h :
           /\ DOMAIN h = {b \in B : BucketCost(b) # Unpriced /\ of[b] = k}
           /\ \A b \in DOMAIN h : h[b] = BucketCost(b)
           /\ f[k] = Total(h)

\* It is, of each part, what its rows cost.
LEMMA BucketsByKey ==
    ASSUME NEW rows, NEW key, Groups(key, rows), NEW of, NEW part,
           \A b \in Buckets(key) : \A x \in b : of[b] = part[x],
           NEW f, BucketSeries(f, Buckets(key), of)
    PROVE  /\ DOMAIN f = KeysIn(part, Priced(rows))
           /\ \A k \in DOMAIN f : f[k] = Spend(Share(rows, part, k))
           /\ Total(f) = Spend(rows)
  <1> USE DEF BucketSeries
  <1> DEFINE B == Buckets(key)
  <1>1. /\ IsFiniteSet(rows) /\ Counts(rows)
        /\ UNION B = rows
        /\ \A b \in B : /\ b \subseteq rows /\ b # {}
                        /\ \A x \in b : RowCost(x) = Unpriced <=> BucketCost(b) = Unpriced
    BY BucketsAre DEF Groups
  <1>2. DOMAIN f = KeysIn(part, Priced(rows))
    <2>1. ASSUME NEW k \in DOMAIN f
          PROVE  \E x \in rows : RowCost(x) # Unpriced /\ k = part[x]
      <3>1. PICK b \in B : BucketCost(b) # Unpriced /\ k = of[b]
        OBVIOUS
      <3>2. PICK x : x \in b
        BY <1>1
      <3> QED BY <1>1, <3>1, <3>2
    <2>2. ASSUME NEW x \in rows, RowCost(x) # Unpriced
          PROVE  part[x] \in DOMAIN f
      <3>1. PICK b \in B : x \in b
        BY <1>1
      <3> QED BY <1>1, <2>2, <3>1
    <2> HIDE DEF B
    <2> QED BY <2>1, <2>2 DEF KeysIn, Priced
  <1>3. ASSUME NEW k \in DOMAIN f
        PROVE  f[k] = Spend(Share(rows, part, k))
    <2> DEFINE A == {b \in B : of[b] = k}
               p == [b \in A |-> Plus(BucketCost(b))]
    <2>1. PICK h : /\ DOMAIN h = {b \in B : BucketCost(b) # Unpriced /\ of[b] = k}
                   /\ \A b \in DOMAIN h : h[b] = BucketCost(b)
                   /\ f[k] = Total(h)
      OBVIOUS
    <2>2. UNION A = Share(rows, part, k)
      BY <1>1 DEF Share
    <2>3. /\ DOMAIN h = {b \in A : BucketCost(b) # Unpriced}
          /\ \A b \in DOMAIN h : h[b] = BucketCost(b)
      BY <2>1
    <2>4. DOMAIN p = A /\ (\A b \in A : p[b] = Plus(BucketCost(b))) /\ A \in SUBSET Buckets(key)
      OBVIOUS
    <2> HIDE DEF A, p, B
    <2>5. Total(h) = Spend(UNION A)
      BY <2>3, <2>4, GroupsAdd
    <2> QED BY <2>1, <2>2, <2>5
  <1>4. Total(f) = Spend(rows)
    <2> DEFINE S == {x \in rows : part[x] \in DOMAIN f}
    <2>1. S \in SUBSET rows /\ \A x \in rows \ S : RowCost(x) = Unpriced
      BY <1>2 DEF KeysIn, Priced
    <2>2. Spend(rows) = Spend(S)
      <3> HIDE DEF S
      <3> QED BY <1>1, <2>1, SpendSplits
    <2>3. IsFiniteSet(S) /\ Counts(S)
      BY <1>1, FS_Subset DEF Counts
    <2>4. DOMAIN f = {part[x] : x \in S}
      BY <1>2 DEF KeysIn, Priced
    <2>5. \A k \in DOMAIN f : Share(S, part, k) = Share(rows, part, k)
      BY DEF Share
    <2> HIDE DEF S
    <2>6. Total(f) = Spend(S)
      BY <1>3, <2>3, <2>4, <2>5, SpendByKey
    <2> QED BY <2>2, <2>6
  <1> QED BY <1>2, <1>3, <1>4

\* The rows of a window can be added up, and those without a model cost nothing.
LEMMA RowsCount ==
    ASSUME FeedInv, Tables, NEW R \in SUBSET feed, NEW w
    PROVE  /\ Usage(AdminOf(R, w)) /\ Usage(MeteredOf(R, w))
           /\ IsFiniteSet(PlainRows(R, w)) /\ Counts(PlainRows(R, w))
           /\ IsFiniteSet(Ours(R, w)) /\ Counts(Ours(R, w))
           /\ IsFiniteSet(Theirs(R, w)) /\ Counts(Theirs(R, w))
           /\ Spend(PlainRows(R, w)) = Spend(Ours(R, w))
           /\ \A x \in PlainRows(R, w) : x.model = NoModel => RowCost(x) = Unpriced
           /\ \A x \in Theirs(R, w) : x.model = NoModel => RowCost(x) = Unpriced
  <1>1. Usage(AdminOf(R, w)) /\ Usage(MeteredOf(R, w))
    BY DEF Usage, AdminOf, MeteredOf, FromSource
  <1>2. IsFiniteSet(PlainRows(R, w)) /\ Counts(PlainRows(R, w))
    BY <1>1, RowSets, AllRowsAre
  <1>3. IsFiniteSet(Theirs(R, w)) /\ Counts(Theirs(R, w))
    BY <1>1, RowSets, AllRowsAre
  <1>4. Ours(R, w) \subseteq PlainRows(R, w)
    BY RowSets
  <1>5. IsFiniteSet(Ours(R, w)) /\ Counts(Ours(R, w))
    BY <1>2, <1>4, FS_Subset DEF Counts
  <1>6. \A x : Counts({x}) /\ x.model = NoModel => RowCost(x) = Unpriced
    BY RowCostIs DEF Priceless
  <1>7. \A x \in PlainRows(R, w) \union Theirs(R, w) : x.model = NoModel => RowCost(x) = Unpriced
    BY <1>2, <1>3, <1>6 DEF Counts
  <1>8. \A x \in PlainRows(R, w) \ Ours(R, w) : x.model = NoModel
    BY RowSets
  <1>9. Spend(PlainRows(R, w)) = Spend(Ours(R, w))
    <2>1. Ours(R, w) \in SUBSET PlainRows(R, w)
      BY <1>4
    <2>2. \A x \in PlainRows(R, w) \ Ours(R, w) : RowCost(x) = Unpriced
      BY <1>7, <1>8
    <2> QED BY <1>2, <2>1, <2>2, SpendSplits
  <1> QED BY <1>1, <1>2, <1>3, <1>5, <1>7, <1>9

\* The rows of some records on a day are those of the day's records.
LEMMA RowsOfKey ==
    ASSUME FeedInv, Tables, NEW C, Usage(C), NEW key, NEW part,
           \A r \in C : \A x \in RowsOf(r) : part[x] = key[r], NEW k
    PROVE  AllRows({q \in C : key[q] = k}) = Share(AllRows(C), part, k)
  BY DEF AllRows, Share

\* A priced record has a priced row, and a priced row a priced record.
LEMMA PricedIs ==
    ASSUME FeedInv, Tables, NEW C, Usage(C)
    PROVE  /\ \A r \in C : EstimateCost(r) # Unpriced =>
                 \E x \in AllRows(C) : x \in RowsOf(r) /\ RowCost(x) # Unpriced
           /\ \A x \in AllRows(C) : RowCost(x) # Unpriced =>
                 \E r \in C : x \in RowsOf(r) /\ EstimateCost(r) # Unpriced
  <1>1. \A r \in C : /\ EstimateCost(r) = Unpriced <=> \A x \in RowsOf(r) : RowCost(x) = Unpriced
                     /\ RowsOf(r) \subseteq AllRows(C)
    BY EstimateIs DEF Usage, AllRows
  <1>2. \A x \in AllRows(C) : \E r \in C : x \in RowsOf(r)
    BY DEF AllRows
  <1> QED BY <1>1, <1>2

\* Buckets of one source, model and day, or of one card, can be priced as one.
LEMMA PlainGroups ==
    ASSUME FeedInv, Tables, NEW R \in SUBSET feed, NEW w,
           NEW key, DOMAIN key = PlainRows(R, w),
           \A x, y \in PlainRows(R, w) : key[x] = key[y] =>
               x.model = y.model /\ (DayOf(x.at) = DayOf(y.at) \/ Prices(x.at) = Prices(y.at))
    PROVE  Groups(key, PlainRows(R, w))
  <1>1. IsFiniteSet(PlainRows(R, w)) /\ Counts(PlainRows(R, w))
    BY RowsCount
  <1>2. \A x \in PlainRows(R, w) : x.source = "admin" /\ x.at \in Int
    BY <1>1, RowSets DEF Counts
  <1>3. ASSUME NEW x \in PlainRows(R, w), NEW y \in PlainRows(R, w), key[x] = key[y]
        PROVE  Alike(x, y)
    <2>1. Prices(x.at) = Prices(y.at)
      BY <1>2, <1>3, CardOfDay
    <2> QED BY <1>2, <1>3, <2>1 DEF Alike, RowRates
  <1> QED BY <1>1, <1>3 DEF Groups

\* The days of rows.
DayIn(rows) == [x \in rows |-> DayOf(x.at)]

\* What the days' estimates are: of each day what its rows cost.
LEMMA PricesByDay ==
    ASSUME FeedInv, Tables, NEW R \in SUBSET feed, NEW w,
           NEW source, Usage(FromSource(R, w, source)),
           NEW rows, rows = AllRows(FromSource(R, w, source))
    PROVE  /\ DOMAIN PriceByDay(R, w, source) = KeysIn(DayIn(rows), Priced(rows))
           /\ \A d \in DOMAIN PriceByDay(R, w, source) :
                  PriceByDay(R, w, source)[d] = Spend(Share(rows, DayIn(rows), d))
           /\ Total(PriceByDay(R, w, source)) = Spend(rows)
  <1> DEFINE C == FromSource(R, w, source)
             key == [r \in C |-> DayOf(r.at)]
             series == PriceByDay(R, w, source)
             day == DayIn(rows)
  <1>0. \A x \in rows : day[x] = DayOf(x.at)
    BY DEF DayIn
  <1>1. Usage(C)
    OBVIOUS
  <1>2. /\ DOMAIN series = {key[r] : r \in {q \in C : EstimateCost(q) # Unpriced}}
        /\ \A d \in DOMAIN series :
              series[d] = Total([r \in {q \in C : EstimateCost(q) # Unpriced /\ key[q] = d}
                                    |-> EstimateCost(r)])
    <2> DEFINE priced == {r \in C : EstimateCost(r) # Unpriced}
    <2>1. series = [d \in {DayOf(r.at) : r \in priced} |->
            Total([r \in {q \in priced : DayOf(q.at) = d} |-> EstimateCost(r)])]
      BY DEF PriceByDay
    <2>2. {DayOf(r.at) : r \in priced} = {key[r] : r \in priced}
      OBVIOUS
    <2>3. \A d : {q \in priced : DayOf(q.at) = d}
                 = {q \in C : EstimateCost(q) # Unpriced /\ key[q] = d}
      OBVIOUS
    <2>4. DOMAIN series = {DayOf(r.at) : r \in priced}
      BY <2>1
    <2>5. \A d \in DOMAIN series : series[d] = 
            Total([r \in {q \in priced : DayOf(q.at) = d} |-> EstimateCost(r)])
      BY <2>1
    <2> HIDE DEF series, C, key
    <2> QED BY <2>2, <2>3, <2>4, <2>5
  <1>3. \A r \in C : key[r] = DayOf(r.at)
    OBVIOUS
  <1> HIDE DEF series, C, key, day
  <1>4. \A d \in DOMAIN series : \E h :
               /\ DOMAIN h = {q \in C : EstimateCost(q) # Unpriced /\ key[q] = d}
               /\ \A r \in DOMAIN h : h[r] = EstimateCost(r)
               /\ series[d] = Total(h)
    <2> TAKE d \in DOMAIN series
    <2> DEFINE h == [r \in {q \in C : EstimateCost(q) # Unpriced /\ key[q] = d}
                                    |-> EstimateCost(r)]
    <2>1. /\ DOMAIN h = {q \in C : EstimateCost(q) # Unpriced /\ key[q] = d}
          /\ \A r \in DOMAIN h : h[r] = EstimateCost(r)
      OBVIOUS
    <2>2. series[d] = Total(h)
      BY <1>2
    <2> QED BY <2>1, <2>2
  <1>5. /\ Total(series) = Spend(AllRows(C))
        /\ \A d \in DOMAIN series : series[d] = Spend(AllRows({q \in C : key[q] = d}))
    <2>1. EstimateSeries(series, C, key)
      BY <1>2, <1>4 DEF EstimateSeries
    <2> QED BY <1>1, <2>1, EstimatesByKey
  <1>6. \A r \in C : \A x \in RowsOf(r) : x \in rows /\ day[x] = key[r]
    BY <1>0, <1>1, <1>3, AllRowsAre DEF C
  <1>7. \A d : AllRows({q \in C : key[q] = d}) = Share(AllRows(C), day, d)
    BY <1>1, <1>6, RowsOfKey
  <1>8. /\ \A r \in C : EstimateCost(r) # Unpriced =>
              \E x \in rows : x \in RowsOf(r) /\ RowCost(x) # Unpriced
        /\ \A x \in rows : RowCost(x) # Unpriced =>
              \E r \in C : x \in RowsOf(r) /\ EstimateCost(r) # Unpriced
    BY <1>1, PricedIs DEF C
  <1>9. DOMAIN series = KeysIn(day, Priced(rows))
    <2>1. \A d \in DOMAIN series : \E x \in rows : RowCost(x) # Unpriced /\ d = day[x]
      BY <1>2, <1>6, <1>8
    <2>2. \A x \in rows : RowCost(x) # Unpriced => day[x] \in DOMAIN series
      BY <1>2, <1>6, <1>8
    <2> QED BY <2>1, <2>2 DEF KeysIn, Priced
  <1> QED BY <1>5, <1>7, <1>9 DEF C, series, day

\* The daily series of GET /forecast is that of the vendors' breakdown.
LEMMA DailySpendIs ==
    ASSUME FeedInv, Tables, NEW R \in SUBSET feed, NEW w
    PROVE  /\ DailySpend(R, w) = PriceByDay(R, w, "admin")
           /\ Total(DailySpend(R, w)) = Spend(Ours(R, w))
  <1> DEFINE rows == PlainRows(R, w)
             key  == [x \in rows |-> <<DayOf(x.at), x.model>>]
             B    == Buckets(key)
             day  == DayIn(rows)
             one(b) == CHOOSE x \in b : TRUE
             of   == [b \in B |-> DayOf(one(b).at)]
             mine == DailySpend(R, w)
             other == PriceByDay(R, w, "admin")
             priced == {b \in B : BucketCost(b) # Unpriced}
  <1>1. \A x, y \in rows : key[x] = key[y] => x.model = y.model /\ DayOf(x.at) = DayOf(y.at)
    OBVIOUS
  <1>2. DOMAIN key = rows /\ \A x \in rows : day[x] = DayOf(x.at)
    BY DEF DayIn
  <1>3. \A b \in B : of[b] = DayOf(one(b).at)
    OBVIOUS
  <1>4. mine = [d \in {DayOf(one(b).at) : b \in priced} |->
                   Total([b \in {c \in priced : DayOf(one(c).at) = d} |-> BucketCost(b)])]
    BY DEF DailySpend
  <1>5. other = [d \in DOMAIN other |-> other[d]]
    BY DEF PriceByDay
  <1> HIDE DEF key, day, of, mine, other
  <1>6. Groups(key, rows)
    BY <1>1, <1>2, PlainGroups
  <1>7. \A b \in B : \A x \in b : of[b] = day[x]
    <2> TAKE b \in B
    <2> TAKE x \in b
    <2>1. b \subseteq rows /\ b = Share(rows, key, key[x]) /\ one(b) \in b
      BY <1>6, BucketsAre
    <2>2. key[one(b)] = key[x]
      BY <2>1 DEF Share
    <2>3. one(b) \in rows /\ x \in rows
      BY <2>1
    <2> HIDE DEF one, rows, B
    <2> QED BY <1>1, <1>2, <1>3, <2>2, <2>3
  <1>8. DOMAIN mine = {of[b] : b \in priced}
    <2>1. DOMAIN mine = {DayOf(one(b).at) : b \in priced}
      BY <1>4
    <2> HIDE DEF one, B
    <2> QED BY <1>3, <2>1
  <1>9. \A d \in DOMAIN mine : \E h :
               /\ DOMAIN h = {b \in B : BucketCost(b) # Unpriced /\ of[b] = d}
               /\ \A b \in DOMAIN h : h[b] = BucketCost(b)
               /\ mine[d] = Total(h)
    <2> TAKE d \in DOMAIN mine
    <2> DEFINE D == {c \in priced : DayOf(one(c).at) = d}
               h == [b \in D |-> BucketCost(b)]
    <2>1. mine[d] = Total(h)
      BY <1>4
    <2>2. DOMAIN h = D /\ \A b \in DOMAIN h : h[b] = BucketCost(b)
      OBVIOUS
    <2>3. D = {b \in B : BucketCost(b) # Unpriced /\ of[b] = d}
      BY <1>3
    <2> HIDE DEF D, h
    <2> QED BY <2>1, <2>2, <2>3
  <1>10. /\ DOMAIN mine = KeysIn(day, Priced(rows))
         /\ \A d \in DOMAIN mine : mine[d] = Spend(Share(rows, day, d))
         /\ Total(mine) = Spend(rows)
    <2>1. BucketSeries(mine, B, of)
      BY <1>8, <1>9 DEF BucketSeries
    <2> HIDE DEF rows, one
    <2> QED BY <1>6, <1>7, <2>1, BucketsByKey
  <1>11. /\ DOMAIN other = KeysIn(day, Priced(rows))
         /\ \A d \in DOMAIN other : other[d] = Spend(Share(rows, day, d))
    <2>1. rows = AllRows(FromSource(R, w, "admin"))
      BY RowSets DEF AdminOf
    <2> HIDE DEF rows
    <2>2. Usage(FromSource(R, w, "admin"))
      BY RowsCount DEF AdminOf
    <2> QED BY <2>1, <2>2, PricesByDay DEF other, day
  <1>12. mine = [d \in DOMAIN mine |-> mine[d]]
    BY <1>4
  <1>13. mine = other
    <2> HIDE DEF rows
    <2> QED BY <1>5, <1>10, <1>11, <1>12
  <1>14. Spend(rows) = Spend(Ours(R, w))
    BY RowsCount
  <1> QED BY <1>10, <1>13, <1>14 DEF mine, other

\* OpenAI's days add up to its rows.
LEMMA MeteredIs ==
    ASSUME FeedInv, Tables, NEW R \in SUBSET feed, NEW w
    PROVE  Total(PriceByDay(R, w, "openai_admin_usage")) = Spend(Theirs(R, w))
  <1>1. Theirs(R, w) = AllRows(FromSource(R, w, "openai_admin_usage"))
    BY RowSets DEF MeteredOf
  <1>2. Usage(FromSource(R, w, "openai_admin_usage"))
    BY RowsCount DEF MeteredOf
  <1> QED BY <1>1, <1>2, PricesByDay

\* The budgets of all places add up to that of no place.
LEMMA PlacesAdd ==
    ASSUME FeedInv, Tables, NEW R \in SUBSET feed, NEW w
    PROVE  /\ ComputeSpend(R, w, NoFilter) = Spend(Ours(R, w))
           /\ Total([q \in {x.place : x \in Ours(R, w)} |->
                         ComputeSpend(R, w, [models |-> {}, places |-> {q}])])
                  = Spend(Ours(R, w))
  <1> DEFINE rows == Ours(R, w)
             place == [x \in rows |-> x.place]
             D == {x.place : x \in rows}
             f == [q \in D |-> ComputeSpend(R, w, [models |-> {}, places |-> {q}])]
  <1>1. \A F : ComputeSpend(R, w, F) = Spend(AnthropicBranch(R, w, F))
    BY DEF ComputeSpend, Spend
  <1>2. \A x \in rows : place[x] = x.place
    OBVIOUS
  <1>3. DOMAIN f = D
    OBVIOUS
  <1>4. \A q \in D : f[q] = Spend({x \in rows : x.place = q})
    <2> TAKE q \in D
    <2>1. f[q] = ComputeSpend(R, w, [models |-> {}, places |-> {q}])
      OBVIOUS
    <2>2. AnthropicBranch(R, w, [models |-> {}, places |-> {q}]) = {x \in rows : x.place = q}
      BY RowSets
    <2>3. PICK F : F = [models |-> {}, places |-> {q}]
      OBVIOUS
    <2> HIDE DEF f, rows
    <2> QED BY <1>1, <2>1, <2>2, <2>3
  <1> HIDE DEF place, f
  <1>5. \A q : {x \in rows : x.place = q} = Share(rows, place, q)
    BY <1>2 DEF Share
  <1>6. D = {place[x] : x \in rows}
    BY <1>2
  <1>7. IsFiniteSet(rows) /\ Counts(rows)
    BY RowsCount
  <1> HIDE DEF rows, D
  <1>8. Total(f) = Spend(rows)
    BY <1>3, <1>4, <1>5, <1>6, <1>7, SpendByKey
  <1> QED BY <1>1, <1>8 DEF f, D, rows, Ours

\* A record with a price names a model, which its cost goes to.
LEMMA PricedNames ==
    ASSUME FeedInv, Tables, NEW r \in feed, r.source \in {"admin", "openai_admin_usage"},
           EstimateCost(r) # Unpriced
    PROVE  ModelOf(r) # NoModel
  <1>1. PICK x \in RowsOf(r) : RowCost(x) # Unpriced
    BY EstimateIs
  <1>2. x.model # NoModel
    <2>1. Counts({x})
      BY RecordRows DEF Counts
    <2> QED BY <1>1, <2>1, RowCostIs DEF Priceless
  <1>3. PICK s \in Scenarios : r \in s.feed
    BY DEF FeedInv
  <1>4. CASE r.source = "admin"
    <2> DEFINE named == {i \in DOMAIN r.results : r.results[i].model # NoModel}
    <2>1. PICK i \in DOMAIN r.results : x = PartRow(r, i)
      BY <1>4 DEF RowsOf
    <2>2. r.results[i].model # NoModel
      BY <1>2, <2>1 DEF PartRow, UsageRow
    <2>3. PICK n \in Nat : DOMAIN r.results = 1 .. n
      BY <1>3, <1>4, ListsAssumption
    <2>4. named \subseteq Int /\ IsFiniteSet(named) /\ named # {}
      <3>1. IsFiniteSet(1 .. n)
        BY <2>3, FS_Interval
      <3> QED BY <2>2, <2>3, <3>1, FS_Subset
    <2>5. ModelOf(r) = r.results[Min(named)].model
      BY <1>4, <2>4 DEF ModelOf
    <2>6. Min(named) \in named
      <3> HIDE DEF named
      <3> QED BY <2>4, MinOf
    <2> QED BY <2>5, <2>6
  <1>5. CASE r.source = "openai_admin_usage"
    <2>1. PICK b \in r.result : x = UsageRow(r, 1, b.model, b.place, OpenAITokens(b))
      BY <1>5 DEF RowsOf
    <2>2. \A c, d \in r.result : c = d
      BY <1>3, <1>5, ListsAssumption
    <2>3. ModelOf(r) = b.model
      BY <1>5, <2>2 DEF ModelOf
    <2>4. x.model = b.model
      BY <2>1 DEF UsageRow
    <2> QED BY <1>2, <2>3, <2>4
  <1> QED BY <1>4, <1>5

\* A vendor's models share what its rows cost.
LEMMA MixIs ==
    ASSUME FeedInv, Tables, NEW R \in SUBSET feed, NEW w,
           NEW v, NEW source, NEW rows,
           \/ v = "Anthropic" /\ source = "admin" /\ rows = PlainRows(R, w)
           \/ v = "OpenAI" /\ source = "openai_admin_usage" /\ rows = Theirs(R, w)
    PROVE  /\ VendorCost(VendorModelCosts(R, w), v) = Spend(rows)
           /\ \A k \in DOMAIN VendorModelCosts(R, w) :
                 k[1] = v => VendorModelCosts(R, w)[k] \in Nat
  <1> DEFINE C == FromSource(R, w, source)
             both == FromSource(R, w, "admin") \union FromSource(R, w, "openai_admin_usage")
             counted == {r \in both : EstimateCost(r) # Unpriced /\ ModelOf(r) # NoModel}
             kind == [r \in both |-> <<VendorOf(r.source), ModelOf(r)>>]
             key == [r \in C |-> kind[r]]
             costs == VendorModelCosts(R, w)
             D == {j \in DOMAIN costs : j[1] = v}
             f == [k \in D |-> costs[k]]
  <1>1. Usage(C) /\ \A r \in both : r \in feed /\ r.source \in {"admin", "openai_admin_usage"}
    BY DEF Usage, FromSource
  <1>2. \A r \in both : r \in C <=> VendorOf(r.source) = v
    BY DEF FromSource, VendorOf
  <1>3. C \subseteq both
    OBVIOUS
  <1>4. \A r \in both : EstimateCost(r) # Unpriced => ModelOf(r) # NoModel
    BY <1>1, PricedNames
  <1>5. costs = [k \in {kind[r] : r \in counted} |->
            Total([r \in {q \in counted : kind[q] = k} |-> EstimateCost(r)])]
    <2>1. \A r \in counted : kind[r] = <<VendorOf(r.source), ModelOf(r)>>
      OBVIOUS
    <2>2. costs = [k \in {<<VendorOf(r.source), ModelOf(r)>> : r \in counted} |->
            Total([r \in {q \in counted : <<VendorOf(q.source), ModelOf(q)>> = k} |-> EstimateCost(r)])]
      BY DEF VendorModelCosts
    <2> HIDE DEF kind, counted, costs
    <2>3. {<<VendorOf(r.source), ModelOf(r)>> : r \in counted} = {kind[r] : r \in counted}
      BY <2>1
    <2>4. \A k : {q \in counted : <<VendorOf(q.source), ModelOf(q)>> = k} = {q \in counted : kind[q] = k}
      BY <2>1
    <2> QED BY <2>2, <2>3, <2>4
  <1>k. \A r \in both : kind[r][1] = VendorOf(r.source)
    OBVIOUS
  <1>6. \A r \in C : key[r] = kind[r]
    OBVIOUS
  <1>7. DOMAIN f = D /\ \A k \in D : f[k] = costs[k]
    OBVIOUS
  <1>8. VendorCost(costs, v) = Total(f)
    BY DEF VendorCost
  <1>9. AllRows(C) = rows
    BY RowSets DEF AdminOf, MeteredOf
  <1> HIDE DEF f, key, kind, C, both, costs
  <1>10. \A k : {q \in counted : kind[q] = k} =
            IF k[1] = v THEN {q \in C : EstimateCost(q) # Unpriced /\ key[q] = k}
            ELSE {q \in counted : kind[q] = k}
    <2> TAKE k
    <2>1. ASSUME k[1] = v
          PROVE  {q \in counted : kind[q] = k} = {q \in C : EstimateCost(q) # Unpriced /\ key[q] = k}
      <3>1. \A q \in both : kind[q] = k => q \in C
        BY <2>1, <1>2, <1>k
      <3> QED BY <3>1, <1>3, <1>4, <1>6
    <2> QED BY <2>1
  <1>11. DOMAIN f = {key[r] : r \in {q \in C : EstimateCost(q) # Unpriced}}
    <2>1. DOMAIN costs = {kind[r] : r \in counted}
      BY <1>5
    <2>2. D = {kind[r] : r \in {q \in counted : VendorOf(q.source) = v}}
      BY <2>1, <1>k, <1>7
    <2>3. {q \in counted : VendorOf(q.source) = v} = {q \in C : EstimateCost(q) # Unpriced}
      BY <1>2, <1>3, <1>4
    <2>4. \A q \in C : key[q] = kind[q]
      BY <1>6
    <2> QED BY <1>7, <2>2, <2>3, <2>4
  <1>12. \A k \in DOMAIN f : \E h :
           /\ DOMAIN h = {q \in C : EstimateCost(q) # Unpriced /\ key[q] = k}
           /\ \A r \in DOMAIN h : h[r] = EstimateCost(r)
           /\ f[k] = Total(h)
    <2> TAKE k \in DOMAIN f
    <2> DEFINE E == {q \in counted : kind[q] = k}
               h == [r \in E |-> EstimateCost(r)]
    <2>1. k \in DOMAIN costs /\ k[1] = v /\ f[k] = costs[k]
      BY <1>7
    <2>2. costs[k] = Total(h)
      BY <1>5, <2>1
    <2>3. DOMAIN h = E /\ \A r \in DOMAIN h : h[r] = EstimateCost(r)
      OBVIOUS
    <2>4. E = {q \in C : EstimateCost(q) # Unpriced /\ key[q] = k}
      BY <1>10, <2>1
    <2> HIDE DEF E, h
    <2> QED BY <2>1, <2>2, <2>3, <2>4
  <1>13. Total(f) = Spend(AllRows(C)) /\ \A k \in DOMAIN f : f[k] \in Nat
    <2>1. EstimateSeries(f, C, key)
      BY <1>11, <1>12 DEF EstimateSeries
    <2> QED BY <1>1, <2>1, EstimatesByKey
  <1>14. \A k \in DOMAIN costs : k[1] = v => costs[k] \in Nat
    BY <1>7, <1>13
  <1> QED BY <1>8, <1>9, <1>13, <1>14 DEF costs

\* f is what was billed by a key, without zeros: all of it, and empty if nothing was.
BilledSeries(f, S, key) ==
    \E all : /\ DOMAIN all = {key[r] : r \in S}
             /\ \A d \in DOMAIN all : \E h : /\ DOMAIN h = {q \in S : key[q] = d}
                                             /\ \A r \in DOMAIN h : h[r] = r.amount
                                             /\ all[d] = Total(h)
             /\ DOMAIN f = {d \in DOMAIN all : all[d] > 0}
             /\ \A d \in DOMAIN f : f[d] = all[d]

LEMMA BilledByKey ==
    ASSUME NEW S, IsFiniteSet(S), \A r \in S : r.amount \in Nat,
           NEW key, NEW f, BilledSeries(f, S, key),
           NEW amount, DOMAIN amount = S, \A r \in S : amount[r] = r.amount
    PROVE  /\ Total(amount) \in Nat /\ Total(f) = Total(amount)
           /\ DOMAIN f = {} <=> Total(amount) = 0
  <1>1. PICK all : /\ DOMAIN all = {key[r] : r \in S}
                   /\ \A d \in DOMAIN all : \E h : /\ DOMAIN h = {q \in S : key[q] = d}
                                                   /\ \A r \in DOMAIN h : h[r] = r.amount
                                                   /\ all[d] = Total(h)
                   /\ DOMAIN f = {d \in DOMAIN all : all[d] > 0}
                   /\ \A d \in DOMAIN f : f[d] = all[d]
    BY DEF BilledSeries
  <1> DEFINE K == DOMAIN all
             D == DOMAIN f
  <1>2. \A d \in K : all[d] = SumOf(amount, Share(S, key, d))
    <2> TAKE d \in K
    <2>1. PICK h : /\ DOMAIN h = {q \in S : key[q] = d}
                   /\ \A r \in DOMAIN h : h[r] = r.amount
                   /\ all[d] = Total(h)
      BY <1>1
    <2>2. DOMAIN h = Share(S, key, d) /\ DOMAIN h \subseteq S
      BY <2>1 DEF Share
    <2>3. IsFiniteSet(DOMAIN h) /\ \A r \in DOMAIN h : amount[r] \in Nat /\ h[r] = amount[r]
      BY <2>1, <2>2, FS_Subset
    <2>4. Total(h) = SumOf(amount, DOMAIN h)
      BY <2>3, TotalIs
    <2> QED BY <2>1, <2>2, <2>4
  <1>3. /\ IsFiniteSet(K) /\ \A d \in K : all[d] \in Nat
        /\ Total(all) = SumOf(amount, S) /\ Total(all) \in Nat
    <2>1. \A r \in S : amount[r] \in Nat
      OBVIOUS
    <2> QED BY <1>1, <1>2, <2>1, SeriesAdds
  <1>4. Total(amount) = SumOf(amount, S) /\ Total(all) = SumOf(all, K)
    BY TotalIsSum
  <1>5. D \in SUBSET K /\ IsFiniteSet(D) /\ \A d \in D : all[d] > 0 /\ f[d] = all[d]
    <2>1. D \in SUBSET K /\ \A d \in D : all[d] > 0 /\ f[d] = all[d]
      BY <1>1
    <2> HIDE DEF D, K
    <2> QED BY <1>3, <2>1, FS_Subset
  <1>6. \A d \in K \ D : all[d] = 0
    BY <1>1, <1>3
  <1> HIDE DEF K
  <1>7. Total(f) = SumOf(all, D)
    <2>1. \A d \in D : all[d] \in Nat /\ f[d] = all[d]
      BY <1>3, <1>5
    <2> QED BY <1>5, <2>1, TotalIs
  <1> HIDE DEF D
  <1>8. SumOf(all, K) = SumOf(all, D)
    <2>1. \A d \in K : all[d] \in Int
      BY <1>3
    <2> QED BY <1>3, <1>5, <1>6, <2>1, SumSkips
  <1>9. ASSUME D = {}
        PROVE  Total(amount) = 0
    <2>1. SumOf(all, D) = 0
      BY <1>9, SumOfNone
    <2> QED BY <2>1, <1>3, <1>4, <1>8
  <1>10. ASSUME NEW d \in D
         PROVE  Total(amount) # 0
    <2>1. all[d] <= SumOf(all, K)
      BY <1>3, <1>5, SumAtLeast
    <2>2. all[d] > 0 /\ all[d] \in Nat
      BY <1>3, <1>5
    <2>3. SumOf(all, K) # 0
      BY <1>3, <1>4, <2>1, <2>2
    <2> QED BY <1>3, <1>4, <2>3
  <1>11. D = {} <=> Total(amount) = 0
    BY <1>9, <1>10
  <1> QED BY <1>3, <1>4, <1>7, <1>8, <1>11 DEF D

\* What OpenAI billed, by day and by project, is a series without zeros; it is empty
\* if nothing was billed.
LEMMA BilledIs ==
    ASSUME FeedInv, Tables, NEW R \in SUBSET feed, NEW w,
           NEW f, f = OpenAIActual(R, w) \/ f = ProjectCosts(R, w)
    PROVE  /\ Total([r \in Billed(R, w) |-> r.amount]) \in Nat
           /\ Total(f) = Total([r \in Billed(R, w) |-> r.amount])
           /\ f = NoDays <=> Total([r \in Billed(R, w) |-> r.amount]) = 0
  <1> DEFINE S == Billed(R, w)
             amount == [r \in S |-> r.amount]
  <1>1. S \subseteq feed /\ IsFiniteSet(S) /\ \A r \in S : r.amount \in Nat
    <2>1. S \subseteq feed
      BY DEF Billed, FromSource
    <2>2. \A r \in S : r.amount \in Nat
      BY ViewsAssumption DEF Billed, FromSource, FeedInv
    <2> HIDE DEF S
    <2> QED BY <2>1, <2>2, FS_Subset DEF Tables
  <1>2. DOMAIN amount = S /\ \A r \in S : amount[r] = r.amount
    OBVIOUS
  <1>3. \E key : BilledSeries(f, S, key)
    <2>1. CASE f = OpenAIActual(R, w)
      <3> DEFINE key == [r \in S |-> DayOf(r.at)]
                 on(d) == Total([r \in {q \in S : DayOf(q.at) = d} |-> r.amount])
                 K == {DayOf(r.at) : r \in S}
                 all == [d \in K |-> on(d)]
      <3>1. f = [d \in {e \in K : on(e) # 0} |-> on(d)]
        BY <2>1 DEF OpenAIActual
      <3>2. DOMAIN all = K /\ \A d \in K : all[d] = on(d)
        OBVIOUS
      <3>3. \A d \in K : \E h : /\ DOMAIN h = {q \in S : key[q] = d}
                                /\ \A r \in DOMAIN h : h[r] = r.amount
                                /\ all[d] = Total(h)
        <4> TAKE d \in K
        <4> DEFINE E == {q \in S : DayOf(q.at) = d}
                   h == [r \in E |-> r.amount]
        <4>1. DOMAIN h = E /\ \A r \in DOMAIN h : h[r] = r.amount
          OBVIOUS
        <4>2. E = {q \in S : key[q] = d}
          OBVIOUS
        <4>3. on(d) = Total(h)
          OBVIOUS
        <4> HIDE DEF E, h, on, all, key
        <4> QED BY <3>2, <4>1, <4>2, <4>3
      <3>4. K = {key[r] : r \in S}
        OBVIOUS
      <3>5. \A d \in K : on(d) # 0 <=> all[d] > 0
        <4>1. \A d \in K : all[d] \in Nat
          <5> TAKE d \in K
          <5>1. PICK h : /\ DOMAIN h = {q \in S : key[q] = d}
                         /\ \A r \in DOMAIN h : h[r] = r.amount
                         /\ all[d] = Total(h)
            BY <3>3
          <5> HIDE DEF S, K, all, key
          <5>2. DOMAIN h \subseteq S
            BY <5>1
          <5>3. IsFiniteSet(DOMAIN h) /\ \A r \in DOMAIN h : h[r] \in Nat
            BY <1>1, <5>1, <5>2, FS_Subset
          <5>4. Total(h) \in Nat
            BY <5>3, MeasureIs
          <5> QED BY <5>1, <5>4
        <4> HIDE DEF on, all
        <4> QED BY <3>2, <4>1
      <3> HIDE DEF on, all, K, key, S
      <3>6. DOMAIN f = {d \in K : all[d] > 0} /\ \A d \in DOMAIN f : f[d] = all[d]
        BY <3>1, <3>2, <3>5
      <3>7. BilledSeries(f, S, key)
        BY <3>2, <3>3, <3>4, <3>6 DEF BilledSeries
      <3> QED BY <3>7
    <2>2. CASE f = ProjectCosts(R, w)
      <3> DEFINE key == [r \in S |-> r.place]
                 on(d) == Total([r \in {q \in S : q.place = d} |-> r.amount])
                 K == {r.place : r \in S}
                 all == [d \in K |-> on(d)]
      <3>1. f = [d \in {e \in K : on(e) > 0} |-> on(d)]
        BY <2>2 DEF ProjectCosts
      <3>2. DOMAIN all = K /\ \A d \in K : all[d] = on(d)
        OBVIOUS
      <3>3. \A d \in K : \E h : /\ DOMAIN h = {q \in S : key[q] = d}
                                /\ \A r \in DOMAIN h : h[r] = r.amount
                                /\ all[d] = Total(h)
        <4> TAKE d \in K
        <4> DEFINE E == {q \in S : q.place = d}
                   h == [r \in E |-> r.amount]
        <4>1. DOMAIN h = E /\ \A r \in DOMAIN h : h[r] = r.amount
          OBVIOUS
        <4>2. E = {q \in S : key[q] = d}
          OBVIOUS
        <4>3. on(d) = Total(h)
          OBVIOUS
        <4> HIDE DEF E, h, on, all, key
        <4> QED BY <3>2, <4>1, <4>2, <4>3
      <3>4. K = {key[r] : r \in S}
        OBVIOUS
      <3> HIDE DEF on, all, K, key, S
      <3>6. DOMAIN f = {d \in K : all[d] > 0} /\ \A d \in DOMAIN f : f[d] = all[d]
        BY <3>1, <3>2
      <3>7. BilledSeries(f, S, key)
        BY <3>2, <3>3, <3>4, <3>6 DEF BilledSeries
      <3> QED BY <3>7
    <2> QED BY <2>1, <2>2
  <1>4. f = NoDays <=> DOMAIN f = {}
    <2>1. f = [d \in DOMAIN f |-> f[d]]
      BY DEF OpenAIActual, ProjectCosts
    <2>2. NoDays = [d \in {} |-> 0] /\ DOMAIN NoDays = {}
      BY DEF NoDays
    <2>3. ASSUME DOMAIN f = {}
          PROVE  f = NoDays
      BY <2>1, <2>2, <2>3
    <2> QED BY <2>2, <2>3
  <1> HIDE DEF S, amount
  <1>5. /\ Total(amount) \in Nat /\ Total(f) = Total(amount)
        /\ DOMAIN f = {} <=> Total(amount) = 0
    BY <1>1, <1>2, <1>3, BilledByKey
  <1> QED BY <1>4, <1>5 DEF amount, S

\* The estimates by project add up to OpenAI's rows.
LEMMA ProjectsAdd ==
    ASSUME FeedInv, Tables, NEW R \in SUBSET feed, NEW w
    PROVE  Total(ProjectEstimate(R, w)) = Spend(Theirs(R, w))
  <1> DEFINE C == MeteredOf(R, w)
             key == [r \in C |-> r.place]
             f == ProjectEstimate(R, w)
             priced == {q \in C : EstimateCost(q) # Unpriced}
  <1>1. f = [p \in {r.place : r \in priced} |->
                Total([r \in {q \in priced : q.place = p} |-> EstimateCost(r)])]
    BY DEF ProjectEstimate, MeteredOf
  <1>2. \A r \in C : key[r] = r.place
    OBVIOUS
  <1> HIDE DEF C, key, f
  <1>3. DOMAIN f = {key[r] : r \in priced}
    <2>1. DOMAIN f = {r.place : r \in priced}
      BY <1>1
    <2> QED BY <1>2, <2>1
  <1>4. \A p \in DOMAIN f : \E h :
           /\ DOMAIN h = {q \in C : EstimateCost(q) # Unpriced /\ key[q] = p}
           /\ \A r \in DOMAIN h : h[r] = EstimateCost(r)
           /\ f[p] = Total(h)
    <2> TAKE p \in DOMAIN f
    <2> DEFINE E == {q \in priced : q.place = p}
               h == [r \in E |-> EstimateCost(r)]
    <2>1. f[p] = Total(h)
      BY <1>1
    <2>2. DOMAIN h = E /\ \A r \in DOMAIN h : h[r] = EstimateCost(r)
      OBVIOUS
    <2>3. E = {q \in C : EstimateCost(q) # Unpriced /\ key[q] = p}
      BY <1>2
    <2> HIDE DEF E, h
    <2> QED BY <2>1, <2>2, <2>3
  <1>5. EstimateSeries(f, C, key)
    BY <1>3, <1>4 DEF EstimateSeries
  <1>6. Usage(C) /\ AllRows(C) = Theirs(R, w)
    BY RowSets, RowsCount DEF C
  <1>7. Total(f) = Spend(AllRows(C))
    BY <1>5, <1>6, EstimatesByKey
  <1> QED BY <1>6, <1>7 DEF f

\* OpenAI's days and projects are those billed, if anything was, or those estimated.
LEMMA TheirDaysAre ==
    ASSUME FeedInv, Tables, NEW R \in SUBSET feed, NEW w
    PROVE  LET daily  == VendorBreakdown(R, w).OpenAI.daily
           IN  /\ MonthToDate(R, w) = Total(daily)
               /\ Total(OpenAIEntries(R, w)) = Total(daily)
               /\ Total(daily) \in Nat
               /\ OpenAIActual(R, w) = NoDays => Total(daily) = Spend(Theirs(R, w))
  <1> DEFINE amount == Total([r \in Billed(R, w) |-> r.amount])
             daily  == VendorBreakdown(R, w).OpenAI.daily
  <1>1. /\ amount \in Nat
        /\ Total(OpenAIActual(R, w)) = amount
        /\ OpenAIActual(R, w) = NoDays <=> amount = 0
    <2>1. PICK f : f = OpenAIActual(R, w)
      OBVIOUS
    <2> QED BY <2>1, BilledIs
  <1>2. /\ Total(ProjectCosts(R, w)) = amount
        /\ ProjectCosts(R, w) = NoDays <=> amount = 0
    <2>1. PICK f : f = ProjectCosts(R, w)
      OBVIOUS
    <2> QED BY <2>1, BilledIs
  <1>3. MonthToDate(R, w) = IF amount > 0 THEN amount
                            ELSE Total(PriceByDay(R, w, "openai_admin_usage"))
    BY DEF MonthToDate
  <1>4. daily = IF OpenAIActual(R, w) # NoDays THEN OpenAIActual(R, w)
                ELSE PriceByDay(R, w, "openai_admin_usage")
    BY DEF VendorBreakdown
  <1>5. Spend(Theirs(R, w)) \in Nat
    <2>1. {} \in SUBSET Theirs(R, w) /\ IsFiniteSet(Theirs(R, w)) /\ Counts(Theirs(R, w))
      BY RowsCount
    <2> QED BY <2>1, SpendSplits
  <1> HIDE DEF amount, daily
  <1>6. CASE amount = 0
    <2>1. MonthToDate(R, w) = Spend(Theirs(R, w))
      BY <1>3, <1>6, MeteredIs
    <2>2. Total(daily) = Spend(Theirs(R, w))
      BY <1>1, <1>4, <1>6, MeteredIs
    <2>3. Total(OpenAIEntries(R, w)) = Spend(Theirs(R, w))
      BY <1>2, <1>6, ProjectsAdd DEF OpenAIEntries
    <2> QED BY <1>5, <2>1, <2>2, <2>3 DEF daily
  <1>7. CASE amount # 0
    <2>1. MonthToDate(R, w) = amount
      BY <1>1, <1>3, <1>7
    <2>2. Total(daily) = amount /\ OpenAIActual(R, w) # NoDays
      BY <1>1, <1>4, <1>7
    <2>3. Total(OpenAIEntries(R, w)) = amount
      BY <1>2, <1>7 DEF OpenAIEntries
    <2> QED BY <1>1, <2>1, <2>2, <2>3 DEF daily
  <1> QED BY <1>6, <1>7

\* The spends of the views agree (SpendsAgree).
LEMMA SpendsHold ==
    ASSUME FeedInv, Tables, NEW R \in SUBSET feed, NEW w
    PROVE  SpendsAgree(R, w)
  <1>1. VendorCost(VendorModelCosts(R, w), "Anthropic") = Spend(PlainRows(R, w))
    <2>1. PICK v, source, rows : v = "Anthropic" /\ source = "admin" /\ rows = PlainRows(R, w)
      OBVIOUS
    <2> QED BY <2>1, MixIs
  <1>2. VendorCost(VendorModelCosts(R, w), "OpenAI") = Spend(Theirs(R, w))
    <2>1. PICK v, source, rows : v = "OpenAI" /\ source = "openai_admin_usage" /\ rows = Theirs(R, w)
      OBVIOUS
    <2> QED BY <2>1, MixIs
  <1>3. Spend(PlainRows(R, w)) = Spend(Ours(R, w))
    BY RowsCount
  <1>4. VendorForecast(R, w, w).current = Total(VendorBreakdown(R, w).OpenAI.daily)
    <2>1. VendorForecast(R, w, w).current = MonthToDate(R, w)
      BY DEF VendorForecast
    <2> QED BY <2>1, TheirDaysAre
  <1> QED BY <1>1, <1>2, <1>3, <1>4, DailySpendIs, MeteredIs, PlacesAdd
          DEF SpendsAgree, Ours, Theirs
-----------------------------------------------------------------------------
\* The keys of the rows that name their model.
NamedKey(key, S) == [x \in {y \in S : y.model # NoModel} |-> key[x]]

\* The buckets with a price are among those that name a model.
LEMMA NamedBuckets ==
    ASSUME NEW S, NEW key, DOMAIN key = S,
           \A x, y \in S : key[x] = key[y] => x.model = y.model,
           NEW b
    PROVE  /\ b \in Buckets(NamedKey(key, S)) => b \in Buckets(key)
           /\ b \in Buckets(key) /\ BucketCost(b) # Unpriced => b \in Buckets(NamedKey(key, S))
           /\ b \in Buckets(key) /\ BucketCost(b) # Unpriced => \A x \in b : x.model # NoModel
  <1> DEFINE N == {x \in S : x.model # NoModel}
             named == NamedKey(key, S)
  <1>0. DOMAIN named = N /\ \A x \in N : named[x] = key[x]
    BY DEF NamedKey
  <1>1. ASSUME NEW x \in S, b = Share(S, key, key[x]), BucketCost(b) # Unpriced
        PROVE  x.model # NoModel /\ b = Share(N, named, named[x]) /\ x \in N
               /\ \A y \in b : y.model # NoModel
    <2> DEFINE c == CHOOSE y \in b : TRUE
    <2>1. x \in b
      BY <1>1 DEF Share
    <2>2. c \in b
      BY <2>1
    <2>3. c.model = x.model /\ \A y \in b : y.model = x.model
      BY <1>1, <2>2 DEF Share
    <2>4. c.model # NoModel
      BY <1>1 DEF BucketCost, PriceUsageRow, ComputeCost
    <2> HIDE DEF c, named
    <2>5. x \in N /\ b \subseteq N
      BY <1>1, <2>3, <2>4 DEF Share
    <2> QED BY <1>0, <1>1, <2>3, <2>4, <2>5 DEF Share
  <1> HIDE DEF named
  <1>2. ASSUME NEW x \in N, b = Share(N, named, named[x])
        PROVE  b = Share(S, key, key[x])
    BY <1>0, <1>2 DEF Share
  <1>3. b \in Buckets(key) <=> \E x \in S : b = Share(S, key, key[x])
    BY DEF Buckets, Share
  <1>4. b \in Buckets(named) <=> \E x \in N : b = Share(N, named, named[x])
    BY <1>0 DEF Buckets, Share
  <1> QED BY <1>1, <1>2, <1>3, <1>4 DEF named

\* A series of what priced buckets of one model cost adds up to all their rows, if no
\* bucket of rows that name their model has rows of two cards.
LEMMA SharesAdd ==
    ASSUME FeedInv, Tables, NEW R \in SUBSET feed, NEW w,
           OneCard(UsageRows(R, w, NoFilter)),
           NEW S \in SUBSET PlainRows(R, w), NEW key, DOMAIN key = S,
           \A x, y \in S : key[x] = key[y] => x.model = y.model,
           NEW of, NEW part, \A b \in Buckets(key) : \A x \in b : of[b] = part[x],
           NEW f, BucketSeries(f, Buckets(key), of)
    PROVE  Total(f) = Spend(S)
  <1> DEFINE N == {x \in S : x.model # NoModel}
             named == NamedKey(key, S)
  <1>1. DOMAIN named = N /\ \A x \in N : named[x] = key[x]
    BY DEF NamedKey
  <1>2. IsFiniteSet(S) /\ Counts(S)
    BY RowsCount, FS_Subset DEF Counts
  <1>3. N \in SUBSET S /\ N \subseteq UsageRows(R, w, NoFilter)
    BY RowSets
  <1>4. \A x \in S \ N : RowCost(x) = Unpriced
    BY RowsCount
  <1>5. Spend(S) = Spend(N)
    <2> HIDE DEF N
    <2> QED BY <1>2, <1>3, <1>4, SpendSplits
  <1>6. N = {x \in S : x.model # NoModel}
    OBVIOUS
  <1> HIDE DEF named, N
  <1>7. Groups(named, N)
    <2>1. IsFiniteSet(N) /\ Counts(N)
      BY <1>2, <1>3, FS_Subset DEF Counts
    <2>2. \A x, y \in N : x.source = "admin" /\ Prices(x.at) = Prices(y.at)
      BY <1>3, RowSets DEF OneCard, Prices
    <2>3. \A x, y \in N : named[x] = named[y] => Alike(x, y)
      BY <1>1, <1>3, <2>2 DEF Alike, RowRates
    <2> QED BY <1>1, <2>1, <2>3 DEF Groups
  <1>8. \A b : /\ b \in Buckets(named) => b \in Buckets(key)
               /\ b \in Buckets(key) /\ BucketCost(b) # Unpriced => b \in Buckets(named)
    BY NamedBuckets DEF named
  <1>9. \A b \in Buckets(named) : \A x \in b : of[b] = part[x]
    BY <1>8
  <1>10. BucketSeries(f, Buckets(named), of)
    <2>1. {b \in Buckets(key) : BucketCost(b) # Unpriced}
          = {b \in Buckets(named) : BucketCost(b) # Unpriced}
      BY <1>8
    <2>2. \A k : {b \in Buckets(key) : BucketCost(b) # Unpriced /\ of[b] = k}
                 = {b \in Buckets(named) : BucketCost(b) # Unpriced /\ of[b] = k}
      BY <1>8
    <2>3. DOMAIN f = {of[b] : b \in {c \in Buckets(named) : BucketCost(c) # Unpriced}}
      BY <2>1 DEF BucketSeries
    <2>4. ASSUME NEW k \in DOMAIN f
          PROVE  \E h : /\ DOMAIN h = {b \in Buckets(named) : BucketCost(b) # Unpriced /\ of[b] = k}
                        /\ \A b \in DOMAIN h : h[b] = BucketCost(b)
                        /\ f[k] = Total(h)
      <3>1. PICK h : /\ DOMAIN h = {b \in Buckets(key) : BucketCost(b) # Unpriced /\ of[b] = k}
                     /\ \A b \in DOMAIN h : h[b] = BucketCost(b)
                     /\ f[k] = Total(h)
        BY DEF BucketSeries
      <3>2. DOMAIN h = {b \in Buckets(named) : BucketCost(b) # Unpriced /\ of[b] = k}
        BY <2>2, <3>1
      <3> QED BY <3>1, <3>2
    <2> QED BY <2>3, <2>4 DEF BucketSeries
  <1>11. Total(f) = Spend(N)
    BY <1>7, <1>9, <1>10, BucketsByKey
  <1> QED BY <1>5, <1>11

\* The shares by model add up to the rows.
LEMMA ModelsAdd ==
    ASSUME FeedInv, Tables, NEW R \in SUBSET feed, NEW w,
           OneCard(UsageRows(R, w, NoFilter))
    PROVE  Total(ModelSpend(R, w)) = Spend(Ours(R, w))
  <1> DEFINE S == PlainRows(R, w)
             key == [x \in S |-> x.model]
             B == Buckets(key)
             priced == {b \in B : BucketCost(b) # Unpriced}
             model(b) == (CHOOSE x \in b : TRUE).model
             of == [b \in B |-> model(b)]
             f == ModelSpend(R, w)
  <1>1. DOMAIN key = S /\ \A x \in S : key[x] = x.model
    OBVIOUS
  <1>2. \A b \in B : of[b] = model(b)
    OBVIOUS
  <1>3. f = [m \in {model(b) : b \in priced} |-> BucketCost(CHOOSE b \in priced : model(b) = m)]
    BY DEF ModelSpend
  <1>4. \A b \in B : b # {} /\ \A x \in b : b = Share(S, key, x.model) /\ x \in S /\ x.model = model(b)
    <2> TAKE b \in B
    <2>1. PICK y \in S : b = Share(S, key, key[y])
      BY <1>1 DEF Buckets, Share
    <2>2. y \in b
      BY <2>1 DEF Share
    <2>3. (CHOOSE x \in b : TRUE) \in b
      BY <2>2
    <2>4. \A x \in b : x \in S /\ x.model = y.model
      BY <1>1, <2>1 DEF Share
    <2> HIDE DEF S, key, B
    <2> QED BY <1>1, <2>1, <2>2, <2>3, <2>4
  <1> HIDE DEF S, key, of, f, model
  <1>5. \A b \in B : \A x \in b : of[b] = key[x]
    BY <1>1, <1>2, <1>4
  <1>6. BucketSeries(f, B, of)
    <2>1. DOMAIN f = {of[b] : b \in priced}
      <3>1. DOMAIN f = {model(b) : b \in priced}
        BY <1>3
      <3> QED BY <1>2, <3>1
    <2>2. ASSUME NEW m \in DOMAIN f
          PROVE  \E h : /\ DOMAIN h = {b \in B : BucketCost(b) # Unpriced /\ of[b] = m}
                        /\ \A b \in DOMAIN h : h[b] = BucketCost(b)
                        /\ f[m] = Total(h)
      <3> DEFINE c == CHOOSE b \in priced : model(b) = m
                 h == [b \in {c} |-> BucketCost(b)]
      <3>1. c \in priced /\ model(c) = m
        BY <2>1, <1>2
      <3>2. f[m] = BucketCost(c)
        BY <1>3
      <3>3. \A b \in B : model(b) = m => b = c
        BY <1>4, <3>1
      <3>4. DOMAIN h = {c} /\ (\A b \in DOMAIN h : h[b] = BucketCost(b)) /\ h[c] = BucketCost(c)
        OBVIOUS
      <3> HIDE DEF c, h
      <3>5. {c} = {b \in B : BucketCost(b) # Unpriced /\ of[b] = m}
        BY <1>2, <3>1, <3>3
      <3>6. BucketCost(c) \in Int
        <4>1. c \in B /\ BucketCost(c) # Unpriced /\ c # {} /\ c \subseteq S
              /\ \A x \in c : x.model = m
          BY <1>4, <3>1
        <4>2. \A x \in c : x.model # NoModel
          BY <1>1, <4>1, NamedBuckets
        <4>3. c \subseteq UsageRows(R, w, NoFilter) /\ \A x \in c : x.source = "admin"
          BY <4>1, <4>2, RowSets DEF S
        <4>4. IsFiniteSet(c) /\ Counts(c)
          BY <4>1, RowsCount, FS_Subset DEF S, Counts
        <4>5. \A x, y \in c : Alike(x, y)
          BY <4>1, <4>3 DEF Alike, RowRates, OneCard, Prices
        <4>6. BucketCost(c) \in Nat \union {Unpriced}
          BY <4>1, <4>4, <4>5, BucketIs
        <4> QED BY <4>6 DEF Unpriced
      <3>7. Total(h) = h[c]
        BY <3>4, <3>6, TotalIsSum, SumOfOne
      <3> QED BY <3>2, <3>4, <3>5, <3>7
    <2> QED BY <2>1, <2>2 DEF BucketSeries
  <1>7. Total(f) = Spend(S)
    <2>1. S \in SUBSET PlainRows(R, w)
      BY DEF S
    <2>2. \A x, y \in S : key[x] = key[y] => x.model = y.model
      BY <1>1
    <2> HIDE DEF B, priced
    <2> QED BY <1>1, <1>5, <1>6, <2>1, <2>2, SharesAdd DEF B
  <1>8. Spend(S) = Spend(Ours(R, w))
    BY RowsCount DEF S
  <1> QED BY <1>7, <1>8 DEF f

\* The shares by workspace add up to the rows that have one.
LEMMA CentresAdd ==
    ASSUME FeedInv, Tables, NEW R \in SUBSET feed, NEW w,
           OneCard(UsageRows(R, w, NoFilter))
    PROVE  Total(WorkspaceSpend(R, w)) = Spend({x \in PlainRows(R, w) : x.place # NoPlace})
  <1> DEFINE S == {x \in PlainRows(R, w) : x.place # NoPlace}
             key == [x \in S |-> <<x.place, x.model>>]
             B == Buckets(key)
             priced == {b \in B : BucketCost(b) # Unpriced}
             place(b) == (CHOOSE x \in b : TRUE).place
             of == [b \in B |-> place(b)]
             part == [x \in S |-> x.place]
             f == WorkspaceSpend(R, w)
  <1>1. DOMAIN key = S /\ \A x \in S : key[x] = <<x.place, x.model>> /\ part[x] = x.place
    OBVIOUS
  <1>2. \A b \in B : of[b] = place(b)
    OBVIOUS
  <1>3. f = [p \in {place(b) : b \in priced} |->
                Total([b \in {c \in priced : place(c) = p} |-> BucketCost(b)])]
    BY DEF WorkspaceSpend
  <1>4. \A x, y \in S : key[x] = key[y] => x.model = y.model /\ x.place = y.place
    BY <1>1
  <1>5. \A b \in B : \A x \in b : of[b] = part[x]
    <2> TAKE b \in B
    <2>1. PICK y \in S : b = Share(S, key, key[y])
      <3> HIDE DEF key, S
      <3> QED BY <1>1 DEF Buckets, Share
    <2>2. y \in b
      BY <2>1 DEF Share
    <2>3. (CHOOSE x \in b : TRUE) \in b
      BY <2>2
    <2>4. \A x \in b : x \in S /\ x.place = y.place
      BY <1>4, <2>1 DEF Share
    <2> HIDE DEF S, key, B, of, part
    <2> QED BY <1>1, <1>2, <2>3, <2>4
  <1> HIDE DEF S, key, of, part, f, place
  <1>6. BucketSeries(f, B, of)
    <2>1. DOMAIN f = {of[b] : b \in priced}
      <3>1. DOMAIN f = {place(b) : b \in priced}
        BY <1>3
      <3> QED BY <1>2, <3>1
    <2>2. ASSUME NEW p \in DOMAIN f
          PROVE  \E h : /\ DOMAIN h = {b \in B : BucketCost(b) # Unpriced /\ of[b] = p}
                        /\ \A b \in DOMAIN h : h[b] = BucketCost(b)
                        /\ f[p] = Total(h)
      <3> DEFINE E == {c \in priced : place(c) = p}
                 h == [b \in E |-> BucketCost(b)]
      <3>1. f[p] = Total(h)
        BY <1>3
      <3>2. DOMAIN h = E /\ \A b \in DOMAIN h : h[b] = BucketCost(b)
        OBVIOUS
      <3>3. E = {b \in B : BucketCost(b) # Unpriced /\ of[b] = p}
        BY <1>2
      <3> HIDE DEF E, h
      <3> QED BY <3>1, <3>2, <3>3
    <2> QED BY <2>1, <2>2 DEF BucketSeries
  <1>7. S \in SUBSET PlainRows(R, w)
    BY DEF S
  <1>8. \A x, y \in S : key[x] = key[y] => x.model = y.model
    BY <1>4
  <1> HIDE DEF priced
  <1>9. Total(f) = Spend(S)
    BY <1>1, <1>5, <1>6, <1>7, <1>8, SharesAdd DEF B
  <1> QED BY <1>9 DEF f, S

\* The totals of GET /usage are those of the rows, and count those without a price.
LEMMA TotalsAdd ==
    ASSUME FeedInv, Tables, NEW R \in SUBSET feed, NEW w,
           OneCard(UsageRows(R, w, NoFilter))
    PROVE  LET rows   == UsageRows(R, w, NoFilter)
               totals == UsageTotals(R, w, NoFilter)
           IN  /\ totals.cost = Spend(rows)
               /\ totals.without = Cardinality({x \in rows : RowCost(x) = Unpriced})
  <1> DEFINE rows == UsageRows(R, w, NoFilter)
             key == [x \in rows |-> <<x.source, x.model>>]
             B == Buckets(key)
             free == {c \in B : BucketCost(c) = Unpriced}
             f == [b \in B |-> Plus(BucketCost(b))]
             n == [b \in free |-> Cardinality(b)]
             g == [b \in {c \in B : BucketCost(c) # Unpriced} |-> BucketCost(b)]
             without == {x \in rows : RowCost(x) = Unpriced}
  <1>1. UsageTotals(R, w, NoFilter).cost = Total(f) /\ UsageTotals(R, w, NoFilter).without = Total(n)
    BY DEF UsageTotals
  <1>2. DOMAIN key = rows /\ \A x, y \in rows : key[x] = key[y] => x.source = y.source /\ x.model = y.model
    OBVIOUS
  <1>3. DOMAIN f = B /\ \A b \in B : f[b] = Plus(BucketCost(b))
    OBVIOUS
  <1>4. DOMAIN g = {c \in B : BucketCost(c) # Unpriced} /\ \A b \in DOMAIN g : g[b] = BucketCost(b)
    OBVIOUS
  <1>5. DOMAIN n = free /\ \A b \in free : n[b] = Cardinality(b)
    OBVIOUS
  <1>6. IsFiniteSet(rows) /\ Counts(rows)
    <2>1. rows = Ours(R, w) \union Theirs(R, w)
      BY RowSets
    <2> HIDE DEF rows
    <2> QED BY <2>1, RowsCount, FS_Union DEF Counts
  <1> HIDE DEF key, f, g, n
  <1>7. Groups(key, rows)
    <2>1. \A x, y \in rows : key[x] = key[y] => Alike(x, y)
      BY <1>2 DEF Alike, RowRates, OneCard, Prices
    <2> QED BY <1>2, <1>6, <2>1 DEF Groups
  <1>8. /\ UNION B = rows /\ IsFiniteSet(B)
        /\ \A b \in B : /\ b \subseteq rows /\ b # {}
                        /\ \A x \in b : b = Share(rows, key, key[x])
                        /\ \A x \in b : RowCost(x) = Unpriced <=> BucketCost(b) = Unpriced
    <2> HIDE DEF rows
    <2> QED BY <1>7, BucketsAre
  <1>9. Total(f) = Spend(rows)
    <2>1. B \in SUBSET Buckets(key)
      OBVIOUS
    <2> HIDE DEF rows
    <2>2. Total(f) = Spend(UNION B)
      <3> HIDE DEF B
      <3> QED BY <1>3, <1>4, <1>7, <2>1, GroupsAdd
    <2> QED BY <1>8, <2>2
  <1>10. Total(n) = Cardinality(without)
    <2> DEFINE one == [x \in without |-> 1]
               of == [x \in without |-> Share(rows, key, key[x])]
    <2>1. \A x \in without : one[x] = 1 /\ of[x] = Share(rows, key, key[x])
      OBVIOUS
    <2>2. IsFiniteSet(without) /\ without \subseteq rows
      BY <1>6, FS_Subset
    <2>3. IsFiniteSet(free) /\ free \subseteq B
      BY <1>8, FS_Subset
    <2> HIDE DEF one, of
    <2>4. ASSUME NEW x \in without
          PROVE  of[x] \in free
      <3>1. PICK b \in B : x \in b
        BY <1>8
      <3> QED BY <1>8, <2>1, <3>1
    <2>5. ASSUME NEW b \in free
          PROVE  n[b] = SumOf(one, Share(without, of, b))
      <3>1. b \subseteq without /\ b # {} /\ b \in B
        BY <1>8
      <3>2. Share(without, of, b) = b
        <4>1. \A x \in without : x \in of[x]
          BY <2>1, <2>2 DEF Share
        <4>2. \A x \in b : of[x] = b /\ x \in without
          BY <1>8, <2>1, <3>1
        <4> HIDE DEF without
        <4> QED BY <4>1, <4>2 DEF Share
      <3>3. SumOf(one, b) = Cardinality(b)
        <4>1. IsFiniteSet(b) /\ \A x \in b : one[x] = 1
          BY <2>1, <2>2, <3>1, FS_Subset
        <4> QED BY <4>1, SumOfOnes
      <3> QED BY <1>5, <3>2, <3>3
    <2> HIDE DEF free, without
    <2>6. SumOf(one, without) = SumOf(n, free)
      <3>1. \A x \in without : one[x] \in Int
        BY <2>1
      <3> QED BY <2>2, <2>3, <2>4, <2>5, <3>1, SumOfParts
    <2>7. SumOf(one, without) = Cardinality(without)
      BY <2>1, <2>2, SumOfOnes
    <2>8. Total(n) = SumOf(n, free)
      BY <1>5, TotalIsSum
    <2> QED BY <2>6, <2>7, <2>8
  <1> QED BY <1>1, <1>9, <1>10

\* The shares of the views agree (SharesAgree).
LEMMA SharesHold ==
    ASSUME FeedInv, Tables, NEW R \in SUBSET feed, NEW w
    PROVE  SharesAgree(R, w)
  <1> DEFINE rows   == UsageRows(R, w, NoFilter)
             totals == UsageTotals(R, w, NoFilter)
             vendor == VendorBreakdown(R, w)
             plain  == PlainRows(R, w)
             placed == {x \in plain : x.place # NoPlace}
             rest   == {x \in plain : x.place = NoPlace}
  <1>1. totals.count = Cardinality(rows)
    BY DEF UsageTotals
  <1>2. ASSUME OneCard(rows)
        PROVE  /\ totals.cost = Spend(rows)
               /\ totals.without = Cardinality({x \in rows : RowCost(x) = Unpriced})
               /\ Total(ModelSpend(R, w)) = Spend(AnthropicBranch(R, w, NoFilter))
               /\ WorkspaceCard(R, w).total = Total(vendor.OpenAI.daily) + Spend(placed)
               /\ Total(vendor.Anthropic.daily) - Total(WorkspaceSpend(R, w)) = Spend(rest)
    <2>1. /\ totals.cost = Spend(rows)
          /\ totals.without = Cardinality({x \in rows : RowCost(x) = Unpriced})
      BY <1>2, TotalsAdd
    <2>2. Total(ModelSpend(R, w)) = Spend(AnthropicBranch(R, w, NoFilter))
      BY <1>2, ModelsAdd DEF Ours
    <2>3. Total(WorkspaceSpend(R, w)) = Spend(placed)
      BY <1>2, CentresAdd
    <2>4. /\ Spend(plain) = Spend(placed) + Spend(plain \ placed)
          /\ Spend(plain) \in Nat /\ Spend(placed) \in Nat /\ Spend(plain \ placed) \in Nat
      <3>1. placed \in SUBSET plain
        OBVIOUS
      <3> HIDE DEF placed
      <3> QED BY <3>1, RowsCount, SpendSplits
    <2>5. plain \ placed = rest
      OBVIOUS
    <2>6. Total(vendor.Anthropic.daily) = Spend(plain)
      <3>1. vendor.Anthropic.daily = PriceByDay(R, w, "admin")
        BY DEF VendorBreakdown
      <3> QED BY <3>1, DailySpendIs, RowsCount
    <2>7. WorkspaceCard(R, w).total = Total(WorkspaceSpend(R, w)) + Total(OpenAIEntries(R, w))
      BY DEF WorkspaceCard
    <2>8. Total(OpenAIEntries(R, w)) = Total(vendor.OpenAI.daily) /\ Total(vendor.OpenAI.daily) \in Nat
      BY TheirDaysAre
    <2> HIDE DEF placed, rest, vendor, plain
    <2>9. WorkspaceCard(R, w).total = Total(vendor.OpenAI.daily) + Spend(placed)
      BY <2>3, <2>4, <2>7, <2>8
    <2>10. Total(vendor.Anthropic.daily) - Total(WorkspaceSpend(R, w)) = Spend(rest)
      <3>1. Spend(plain \ placed) = Spend(rest)
        BY <2>5
      <3>2. \A a, b \in Nat : a + b - a = b
        OBVIOUS
      <3>3. Total(vendor.Anthropic.daily) = Spend(placed) + Spend(rest) /\ Spend(rest) \in Nat
        BY <2>4, <2>6, <3>1
      <3> QED BY <2>3, <2>4, <3>2, <3>3
    <2> QED BY <2>1, <2>2, <2>9, <2>10
  <1> QED BY <1>1, <1>2 DEF SharesAgree

\* The records with a price that someone is named in, and whose they are.
Accounted(w) == {r \in records : /\ r.source \in {"mcp", "openai_admin_usage"} /\ Within(w, r)
                                 /\ ActorKey(r) # NoKey /\ MemberCost(r) # Unpriced}
UserIn(S)    == [r \in S |-> aliases[KeyOf(r)].user]
CostIn(S)    == [r \in S |-> MemberCost(r)]
Anyone       == Members \union {NoUser}

\* What a record costs a member is a natural number or nothing.
LEMMA MemberCostIs ==
    ASSUME FeedInv, Tables, NEW r \in feed, r.source \in {"mcp", "openai_admin_usage"}
    PROVE  MemberCost(r) \in Nat \union {Unpriced}
  <1>1. PICK s \in Scenarios : r \in s.feed
    BY DEF FeedInv
  <1>2. CASE r.source = "mcp"
    <2> DEFINE t == [input |-> r.input, output |-> r.output, read |-> 0, creation |-> 0]
    <2>1. r.at \in Int /\ {r.input, r.output} \subseteq Nat
      BY <1>1, <1>2, ListsAssumption, ViewsAssumption
    <2>2. t \in Rate
      BY <2>1 DEF Rate
    <2>3. MemberCost(r) = ComputeCost(r.model, Prices(r.at), t)
      BY <1>2 DEF MemberCost, PriceMcpRow, Prices
    <2>4. RateCard(Prices(r.at))
      BY <2>1, CardOfDay
    <2> HIDE DEF t
    <2> QED BY <2>2, <2>3, <2>4, CostIs DEF Priceless
  <1>3. CASE r.source = "openai_admin_usage"
    <2>1. MemberCost(r) = EstimateCost(r)
      BY <1>3 DEF MemberCost
    <2> QED BY <1>3, <2>1, EstimateIs
  <1> QED BY <1>2, <1>3

\* Every such record has a cost and a user; a member's are the member's share.
LEMMA AccountedIs ==
    ASSUME FeedInv, Tables, NEW w, NEW S, S = Accounted(w)
    PROVE  /\ IsFiniteSet(S) /\ S \subseteq feed
           /\ \A r \in S : /\ CostIn(S)[r] \in Nat /\ CostIn(S)[r] = MemberCost(r)
                           /\ UserIn(S)[r] \in Anyone
                           /\ r.source \in {"mcp", "openai_admin_usage"}
           /\ \A u : MemberRecords(u, w) = Share(S, UserIn(S), u)
  <1>1. S \subseteq feed /\ S \subseteq records
    BY DEF Accounted, Tables
  <1>2. IsFiniteSet(S)
    BY <1>1, FS_Subset DEF Tables
  <1>3. ASSUME NEW r \in S
        PROVE  /\ CostIn(S)[r] \in Nat /\ CostIn(S)[r] = MemberCost(r)
               /\ UserIn(S)[r] \in Anyone
               /\ r.source \in {"mcp", "openai_admin_usage"}
    <2>1. /\ r \in feed /\ r.source \in {"mcp", "openai_admin_usage"} /\ ActorKey(r) # NoKey
          /\ MemberCost(r) # Unpriced
      BY <1>1, <1>3 DEF Accounted
    <2>2. CostIn(S)[r] = MemberCost(r) /\ UserIn(S)[r] = aliases[KeyOf(r)].user
      BY DEF CostIn, UserIn
    <2>3. MemberCost(r) \in Nat
      BY <2>1, MemberCostIs
    <2>4. KeyOf(r) \in Names
      BY <2>1 DEF Names, IdentifiersOf, ActorSources
    <2>5. aliases[KeyOf(r)].user \in Anyone
      BY <2>4 DEF Tables, Alias, Anyone
    <2> QED BY <2>1, <2>2, <2>3, <2>5
  <1>4. \A u : MemberRecords(u, w) = Share(S, UserIn(S), u)
    BY DEF MemberRecords, Share, Accounted, UserIn
  <1> QED BY <1>1, <1>2, <1>3, <1>4

\* What a member spent, by vendor and in all, in the list and day by day.
LEMMA MemberSpendIs ==
    ASSUME FeedInv, Tables, NEW w, NEW u, NEW M, M = MemberRecords(u, w)
    PROVE  /\ Total(MemberSpend(u, w)) = SumOf(CostIn(M), M)
           /\ Total(SpendTrend(u, w)) = SumOf(CostIn(M), M)
           /\ \A v : CostAt(MemberSpend(u, w), v)
                     = SumOf(CostIn(M), {r \in M : VendorOf(r.source) = v})
  <1> DEFINE c == CostIn(M)
             vendor == [r \in M |-> VendorOf(r.source)]
             day == [r \in M |-> <<DayOf(r.at), r.source>>]
             f == MemberSpend(u, w)
             g == SpendTrend(u, w)
  <1>1. IsFiniteSet(M) /\ \A r \in M : c[r] \in Nat /\ c[r] = MemberCost(r)
    <2>1. PICK S : S = Accounted(w)
      OBVIOUS
    <2>2. M \subseteq S
      BY <2>1, AccountedIs DEF Share
    <2>3. \A r \in M : c[r] = MemberCost(r)
      BY DEF CostIn
    <2> QED BY <2>1, <2>2, <2>3, AccountedIs, FS_Subset
  <1>2. \A r \in M : vendor[r] = VendorOf(r.source) /\ day[r] = <<DayOf(r.at), r.source>>
    OBVIOUS
  <1>3. f = [v \in {VendorOf(r.source) : r \in M} |->
                Total([r \in {q \in M : VendorOf(q.source) = v} |-> MemberCost(r)])]
    BY DEF MemberSpend
  <1>4. g = [k \in {<<DayOf(r.at), r.source>> : r \in M} |->
                Total([r \in {q \in M : <<DayOf(q.at), q.source>> = k} |-> MemberCost(r)])]
    BY DEF SpendTrend
  <1> HIDE DEF c, vendor, day, f, g
  <1>5. ASSUME NEW E \in SUBSET M
        PROVE  Total([r \in E |-> MemberCost(r)]) = SumOf(c, E)
    <2> DEFINE h == [r \in E |-> MemberCost(r)]
    <2>1. DOMAIN h = E /\ \A r \in E : h[r] = c[r] /\ c[r] \in Nat
      BY <1>1
    <2>2. IsFiniteSet(E)
      BY <1>1, FS_Subset
    <2> HIDE DEF h
    <2>3. Total(h) = SumOf(c, E)
      BY <2>1, <2>2, TotalIs
    <2> QED BY <2>3 DEF h
  <1>6. /\ DOMAIN f = {vendor[r] : r \in M}
        /\ \A v \in DOMAIN f : f[v] = SumOf(c, Share(M, vendor, v))
    <2>1. DOMAIN f = {vendor[r] : r \in M}
      BY <1>2, <1>3
    <2>2. \A v : {q \in M : VendorOf(q.source) = v} = Share(M, vendor, v)
      BY <1>2 DEF Share
    <2>3. \A v \in DOMAIN f : f[v] = Total([r \in {q \in M : VendorOf(q.source) = v} |-> MemberCost(r)])
      BY <1>3
    <2> QED BY <1>5, <2>1, <2>2, <2>3
  <1>7. /\ DOMAIN g = {day[r] : r \in M}
        /\ \A k \in DOMAIN g : g[k] = SumOf(c, Share(M, day, k))
    <2>1. DOMAIN g = {day[r] : r \in M}
      BY <1>2, <1>4
    <2>2. \A k : {q \in M : <<DayOf(q.at), q.source>> = k} = Share(M, day, k)
      BY <1>2 DEF Share
    <2>3. \A k \in DOMAIN g : g[k] = Total([r \in {q \in M : <<DayOf(q.at), q.source>> = k} |-> MemberCost(r)])
      BY <1>4
    <2> QED BY <1>5, <2>1, <2>2, <2>3
  <1>8. Total(f) = SumOf(c, M)
    BY <1>1, <1>6, SeriesAdds
  <1>9. Total(g) = SumOf(c, M)
    BY <1>1, <1>7, SeriesAdds
  <1>10. ASSUME NEW v
         PROVE  CostAt(f, v) = SumOf(c, {r \in M : VendorOf(r.source) = v})
    <2>1. {r \in M : VendorOf(r.source) = v} = Share(M, vendor, v)
      BY <1>2 DEF Share
    <2>2. CASE v \in DOMAIN f
      BY <1>6, <2>1, <2>2 DEF CostAt
    <2>3. CASE v \notin DOMAIN f
      <3>1. Share(M, vendor, v) = {}
        BY <1>6, <2>3 DEF Share
      <3> QED BY <2>1, <2>3, <3>1, SumOfNone DEF CostAt
    <2> QED BY <2>2, <2>3
  <1> QED BY <1>8, <1>9, <1>10 DEF f, g, c

\* What some users spent at a vendor's, and the records it is for.
SpentBy(U, w, v)   == [u \in U |-> CostAt(MemberSpend(u, w), v)]
SpentOn(U, w, v)   == {r \in Accounted(w) : VendorOf(r.source) = v
                                            /\ UserIn(Accounted(w))[r] \in U}

\* They add up to the same.
LEMMA UsersAdd ==
    ASSUME FeedInv, Tables, NEW w, NEW v, NEW U \in SUBSET Anyone, IsFiniteSet(U)
    PROVE  Total(SpentBy(U, w, v)) = SumOf(CostIn(Accounted(w)), SpentOn(U, w, v))
  <1> DEFINE S == Accounted(w)
             c == CostIn(S)
             user == UserIn(S)
             f == SpentBy(U, w, v)
             A == SpentOn(U, w, v)
  <1>0. /\ DOMAIN f = U /\ \A u \in U : f[u] = CostAt(MemberSpend(u, w), v)
        /\ A = {r \in S : VendorOf(r.source) = v /\ user[r] \in U}
    BY DEF SpentBy, SpentOn
  <1>1. /\ IsFiniteSet(S) /\ \A r \in S : c[r] \in Nat /\ c[r] = MemberCost(r)
        /\ \A u : MemberRecords(u, w) = Share(S, user, u)
    BY AccountedIs
  <1>2. A \in SUBSET S /\ IsFiniteSet(A) /\ \A r \in A : user[r] \in U
    <2>1. A \in SUBSET S /\ \A r \in A : user[r] \in U
      BY <1>0
    <2> HIDE DEF A
    <2> QED BY <1>1, <2>1, FS_Subset
  <1> HIDE DEF c, user, S, A, f
  <1>3. ASSUME NEW u \in U
        PROVE  f[u] = SumOf(c, Share(A, user, u))
    <2> DEFINE M == MemberRecords(u, w)
               E == {r \in M : VendorOf(r.source) = v}
    <2>1. f[u] = SumOf(CostIn(M), E)
      BY <1>0, MemberSpendIs
    <2>2. M = Share(S, user, u)
      BY <1>1
    <2>3. E = Share(A, user, u)
      BY <1>0, <2>2 DEF Share
    <2>4. IsFiniteSet(E) /\ \A r \in E : c[r] \in Int /\ CostIn(M)[r] = c[r]
      <3>1. E \subseteq S /\ E \subseteq M
        BY <2>2 DEF Share
      <3>2. IsFiniteSet(E)
        BY <1>1, <3>1, FS_Subset
      <3>3. \A r \in M : CostIn(M)[r] = MemberCost(r)
        BY DEF CostIn
      <3> HIDE DEF E, M
      <3> QED BY <1>1, <3>1, <3>2, <3>3
    <2> HIDE DEF E, M
    <2>5. SumOf(CostIn(M), E) = SumOf(c, E)
      BY <2>4, SumSame
    <2> QED BY <2>1, <2>3, <2>5
  <1>4. SumOf(c, A) = SumOf(f, U)
    <2>1. \A r \in A : c[r] \in Int
      BY <1>1, <1>2
    <2> QED BY <1>2, <1>3, <2>1, SumOfParts
  <1>5. Total(f) = SumOf(f, U)
    BY <1>0, TotalIsSum
  <1> QED BY <1>4, <1>5 DEF c, f, A, S

\* The members' spends agree (MembersAgree).
LEMMA MembersHold ==
    ASSUME FeedInv, Tables, NEW w
    PROVE  MembersAgree(records, w)
  <1> DEFINE S == Accounted(w)
             c == CostIn(S)
             user == UserIn(S)
  <1>1. /\ IsFiniteSet(S) /\ S \subseteq feed
        /\ \A r \in S : c[r] \in Nat /\ c[r] = MemberCost(r) /\ user[r] \in Anyone
                        /\ r.source \in {"mcp", "openai_admin_usage"}
    BY AccountedIs
  <1>2. IsFiniteSet(Members) /\ IsFiniteSet(Anyone)
    BY DirectoryAssumption, FS_AddElement DEF Anyone
  <1>3. \A u \in Anyone : Total(MemberSpend(u, w)) = Total(SpendTrend(u, w))
    BY MemberSpendIs
  <1>4. \A r \in S : /\ VendorOf(r.source) = "Anthropic" <=> r.source = "mcp"
                     /\ VendorOf(r.source) = "OpenAI" <=> r.source = "openai_admin_usage"
    BY <1>1 DEF VendorOf
  <1> HIDE DEF S, c, user
  <1>5. Total([u \in Anyone |-> CostAt(MemberSpend(u, w), "Anthropic")])
           = Total([x \in FromSource(records, w, "mcp") |-> Plus(MemberCost(x))])
    <2> DEFINE f == [u \in Anyone |-> CostAt(MemberSpend(u, w), "Anthropic")]
               C == FromSource(records, w, "mcp")
               g == [x \in C |-> Plus(MemberCost(x))]
               A == {r \in S : VendorOf(r.source) = "Anthropic" /\ user[r] \in Anyone}
    <2>1. f = SpentBy(Anyone, w, "Anthropic") /\ A = SpentOn(Anyone, w, "Anthropic")
      BY DEF SpentBy, SpentOn, S, user
    <2>2. Total(f) = SumOf(c, A)
      <3>1. Anyone \in SUBSET Anyone
        OBVIOUS
      <3> HIDE DEF f, A
      <3> QED BY <1>2, <2>1, <3>1, UsersAdd DEF S, c
    <2>3. DOMAIN g = C /\ \A x \in C : g[x] = Plus(MemberCost(x))
      OBVIOUS
    <2>4. C \subseteq records /\ C \subseteq feed /\ IsFiniteSet(C) /\ \A x \in C : x.source = "mcp"
      <3>1. C \subseteq records /\ C \subseteq feed /\ \A x \in C : x.source = "mcp"
        BY DEF FromSource, Tables
      <3> HIDE DEF C
      <3> QED BY <3>1, FS_Subset DEF Tables
    <2>5. \A x \in C : ActorKey(x) # NoKey
      BY <2>4, ViewsAssumption DEF FeedInv
    <2>6. \A x \in C : MemberCost(x) \in Nat \union {Unpriced}
      BY <2>4, MemberCostIs
    <2>7. A = {x \in C : MemberCost(x) # Unpriced}
      <3>1. \A r : r \in S <=> /\ r \in records /\ r.source \in {"mcp", "openai_admin_usage"}
                               /\ Within(w, r) /\ ActorKey(r) # NoKey /\ MemberCost(r) # Unpriced
        BY DEF S, Accounted
      <3>2. \A r : r \in C <=> r \in records /\ r.source = "mcp" /\ Within(w, r)
        BY DEF FromSource
      <3> HIDE DEF C
      <3> QED BY <1>1, <1>4, <2>5, <3>1, <3>2
    <2> HIDE DEF f, C, g, A
    <2>8. \A x \in C : g[x] \in Nat /\ (x \notin A => g[x] = 0) /\ (x \in A => g[x] = MemberCost(x))
      BY <2>3, <2>6, <2>7 DEF Plus, Unpriced
    <2>9. SumOf(g, C) = SumOf(g, A)
      <3>1. A \in SUBSET C /\ (\A x \in C : g[x] \in Int) /\ \A x \in C \ A : g[x] = 0
        BY <2>7, <2>8
      <3> QED BY <2>4, <3>1, SumSkips
    <2>10. SumOf(g, A) = SumOf(c, A)
      <3>1. A \subseteq S /\ A \subseteq C
        BY <2>7 DEF A
      <3>2. IsFiniteSet(A) /\ \A x \in A : c[x] \in Int /\ g[x] = c[x]
        BY <1>1, <2>8, <3>1, FS_Subset
      <3> QED BY <3>2, SumSame
    <2>11. Total(g) = SumOf(g, C)
      BY <2>3, TotalIsSum
    <2> QED BY <2>2, <2>9, <2>10, <2>11 DEF f, g, C
  <1>6. Total([u \in Members |-> CostAt(MemberSpend(u, w), "OpenAI")])
           <= Spend(OpenAIBranch(records, w, NoFilter))
    <2> DEFINE f == [u \in Members |-> CostAt(MemberSpend(u, w), "OpenAI")]
               C == MeteredOf(records, w)
               e == [x \in C |-> Plus(EstimateCost(x))]
               A == {r \in S : VendorOf(r.source) = "OpenAI" /\ user[r] \in Members}
    <2>1. f = SpentBy(Members, w, "OpenAI") /\ A = SpentOn(Members, w, "OpenAI")
      BY DEF SpentBy, SpentOn, S, user
    <2>2. Total(f) = SumOf(c, A)
      <3>1. Members \in SUBSET Anyone
        BY DEF Anyone
      <3> HIDE DEF f, A
      <3> QED BY <1>2, <2>1, <3>1, UsersAdd DEF S, c
    <2>3. \A x \in C : e[x] = Plus(EstimateCost(x))
      OBVIOUS
    <2>4. \A r : r \in C <=> r \in records /\ r.source = "openai_admin_usage" /\ Within(w, r)
      BY DEF MeteredOf, FromSource
    <2> HIDE DEF f, C, e
    <2>5. records \in SUBSET feed
      BY DEF Tables
    <2>6. Usage(C) /\ AllRows(C) = Theirs(records, w)
      BY <2>5, RowSets, RowsCount DEF C
    <2>7. IsFiniteSet(C) /\ SumOf(e, C) = Spend(AllRows(C)) /\ \A r \in C : e[r] \in Nat
      BY <2>3, <2>6, AllRowsAre, EstimatesAdd
    <2>8. A \in SUBSET C /\ A \subseteq S /\ \A r \in A : e[r] = c[r]
      <3>1. \A r \in A : /\ r \in S /\ r.source = "openai_admin_usage"
                         /\ r \in records /\ Within(w, r) /\ MemberCost(r) # Unpriced
        BY <1>4 DEF S, Accounted
      <3>2. \A r \in A : r \in C /\ MemberCost(r) = EstimateCost(r)
        BY <2>4, <3>1 DEF MemberCost
      <3> HIDE DEF A
      <3> QED BY <1>1, <2>3, <3>1, <3>2 DEF Plus
    <2> HIDE DEF A
    <2>9. SumOf(c, A) = SumOf(e, A)
      <3>1. IsFiniteSet(A) /\ \A r \in A : e[r] \in Int /\ c[r] = e[r]
        BY <2>7, <2>8, FS_Subset
      <3> QED BY <3>1, SumSame
    <2>10. /\ SumOf(e, C) = SumOf(e, A) + SumOf(e, C \ A)
           /\ SumOf(e, A) \in Int /\ SumOf(e, C \ A) \in Nat
      <3>1. \A r \in C : e[r] \in Int
        BY <2>7
      <3>2. SumOf(e, C \ A) \in Nat
        <4>1. IsFiniteSet(C \ A) /\ \A r \in C \ A : e[r] \in Nat /\ e[r] <= e[r]
          BY <2>7, FS_Subset
        <4> QED BY <4>1, SumMonotone
      <3> QED BY <2>7, <2>8, <3>1, <3>2, SumSplits
    <2>11. SumOf(e, A) <= SumOf(e, C)
      BY <2>10
    <2> QED BY <2>2, <2>6, <2>7, <2>9, <2>11 DEF f, Theirs
  <1> QED BY <1>3, <1>5, <1>6 DEF MembersAgree, Anyone

\* A model of Vertex has rates for every count, those of no input no dearer.
LEMMA TiersAre ==
    ASSUME NEW model, ~Priceless(model, VertexRates), NEW n \in Nat, NEW rate,
           rate = LookupModel(model, VertexRates)
    PROVE  /\ ResolveRates(rate, n) \in Rate /\ ResolveRates(rate, 0) \in Rate
           /\ ResolveRates(rate, 0).output <= ResolveRates(rate, n).output
  <1>1. PICK k \in DOMAIN VertexRates : rate = VertexRates[k]
    BY LookupIn, SpendAssumption DEF Priceless
  <1>2. IF "threshold" \notin DOMAIN rate THEN rate \in Rate
        ELSE /\ rate.threshold \in Int /\ rate.low \in Rate /\ rate.high \in Rate
             /\ \A kind \in DOMAIN rate.low : rate.low[kind] <= rate.high[kind]
    BY <1>1, SpendAssumption
  <1>3. CASE "threshold" \notin DOMAIN rate
    BY <1>2, <1>3 DEF ResolveRates, Rate
  <1>4. CASE "threshold" \in DOMAIN rate
    <2>1. /\ rate.threshold \in Int /\ rate.low \in Rate /\ rate.high \in Rate
          /\ rate.low.output <= rate.high.output
      BY <1>2, <1>4 DEF Rate
    <2>2. rate.low.output \in Nat /\ rate.high.output \in Nat
      BY <2>1 DEF Rate
    <2> QED BY <1>4, <2>1, <2>2 DEF ResolveRates
  <1> QED BY <1>3, <1>4

LEMMA PointsHold ==
    ASSUME FeedInv, Tables, NEW R \in SUBSET feed, NEW w
    PROVE  PointsAgree(R, w)
  <1> SUFFICES ASSUME NEW x \in FromSource(R, w, "vertex_token_usage"),
                      NEW y \in FromSource(R, w, "vertex_token_usage"),
                      x.side = "input", y.side = "output", x.model = y.model
               PROVE  EstimateVertex(x) + EstimateVertex(y) <=
                          VertexCost(x.model, [input |-> x.count, output |-> y.count,
                                               read |-> 0, creation |-> 0])
    BY DEF PointsAgree
  <1> DEFINE m == x.model
             rate == LookupModel(m, VertexRates)
             t(i, o) == [input |-> i, output |-> o, read |-> 0, creation |-> 0]
  <1>1. x.count \in Nat /\ y.count \in Nat
    BY ViewsAssumption DEF FromSource, FeedInv
  <1>2. /\ EstimateVertex(x) = VertexCost(m, t(x.count, 0))
        /\ EstimateVertex(y) = VertexCost(m, t(0, y.count))
    BY DEF EstimateVertex
  <1>3. CASE Priceless(m, VertexRates)
    <2>1. \A i, o : VertexCost(m, t(i, o)) = Unpriced
      BY <1>3 DEF VertexCost, Priceless
    <2> QED BY <1>2, <2>1 DEF Unpriced
  <1>4. CASE ~Priceless(m, VertexRates)
    <2>1. \A i, o \in Nat : VertexCost(m, t(i, o)) = AtRates(ResolveRates(rate, i), t(i, o))
      BY <1>4 DEF VertexCost, Priceless
    <2>2. ASSUME NEW i \in Nat, NEW o \in Nat, NEW c \in Rate
          PROVE  AtRates(c, t(i, o)) = c.input * i + c.output * o
      BY DEF AtRates, Rate
    <2>3. /\ ResolveRates(rate, x.count) \in Rate /\ ResolveRates(rate, 0) \in Rate
          /\ ResolveRates(rate, 0).output <= ResolveRates(rate, x.count).output
      BY <1>1, <1>4, TiersAre
    <2> DEFINE c == ResolveRates(rate, x.count)
               z == ResolveRates(rate, 0)
    <2>4. /\ VertexCost(m, t(x.count, 0)) = c.input * x.count + c.output * 0
          /\ VertexCost(m, t(0, y.count)) = z.input * 0 + z.output * y.count
          /\ VertexCost(m, t(x.count, y.count)) = c.input * x.count + c.output * y.count
      <3>1. 0 \in Nat
        OBVIOUS
      <3> HIDE DEF t, rate
      <3> QED BY <1>1, <2>1, <2>2, <2>3, <3>1
    <2>5. c.input \in Nat /\ c.output \in Nat /\ z.input \in Nat /\ z.output \in Nat
          /\ z.output <= c.output
      BY <2>3 DEF Rate
    <2> HIDE DEF c, z, rate, t
    <2>6. ASSUME NEW a \in Nat, NEW b \in Nat, NEW d \in Nat, b <= d
          PROVE  b * a <= d * a
      <3>1. d = b + (d - b) /\ d - b \in Nat
        BY <2>6
      <3>2. d * a = b * a + (d - b) * a
        BY <3>1
      <3>3. (d - b) * a \in Nat /\ b * a \in Nat
        BY <3>1
      <3> QED BY <3>2, <3>3
    <2>7. z.output * y.count <= c.output * y.count
      BY <1>1, <2>5, <2>6
    <2>8. c.input * x.count \in Nat /\ c.output * y.count \in Nat /\ z.output * y.count \in Nat
          /\ c.output * 0 = 0 /\ z.input * 0 = 0
      BY <1>1, <2>5
    <2> QED BY <1>2, <2>4, <2>7, <2>8 DEF m, t
  <1> QED BY <1>3, <1>4

\* A share that did not move is no news.
LEMMA NothingMoved ==
    ASSUME NEW n \in Nat, NEW a \in Nat, a # 0, NEW part \in {20, 30}
    PROVE  ~Flagged(n, n, a, a, part)
  <1>1. n * a \in Nat /\ n * a - n * a = 0
    OBVIOUS
  <1>2. a * a \in Nat /\ a * a > 0
    OBVIOUS
  <1>3. part * a * a = part * (a * a)
    OBVIOUS
  <1>4. part * a * a > 0
    BY <1>2, <1>3
  <1>5. Flagged(n, n, a, a, part) <=>
            \/ 100 * 0 >= part * a * a \/ -100 * 0 >= part * a * a
            \/ n > 0 /\ n >= 3 * n
    BY <1>1 DEF Flagged
  <1>6. part * a * a \in Nat
    BY <1>2, <1>3
  <1> QED BY <1>4, <1>5, <1>6

LEMMA MixIsStill ==
    ASSUME FeedInv, Tables, NEW R \in SUBSET feed, NEW w
    PROVE  ModelMix(R, w, w) = {}
  <1> DEFINE cur == VendorModelCosts(R, w)
             counted == {r \in AdminOf(R, w) \union MeteredOf(R, w) :
                            EstimateCost(r) # Unpriced /\ ModelOf(r) # NoModel}
             kind == [r \in counted |-> <<VendorOf(r.source), ModelOf(r)>>]
  <1>1. DOMAIN cur = {kind[r] : r \in counted}
    BY DEF VendorModelCosts, AdminOf, MeteredOf
  <1>2. \A r \in counted : r.source \in {"admin", "openai_admin_usage"}
    BY DEF AdminOf, MeteredOf, FromSource
  <1>3. \A k \in DOMAIN cur : k[1] \in {"Anthropic", "OpenAI"}
    <2>1. ASSUME NEW r \in counted
          PROVE  kind[r][1] \in {"Anthropic", "OpenAI"}
      <3>1. kind[r] = <<VendorOf(r.source), ModelOf(r)>>
        BY <2>1
      <3>2. VendorOf(r.source) \in {"Anthropic", "OpenAI"}
        BY <1>2, <2>1 DEF VendorOf
      <3> QED BY <3>1, <3>2
    <2> HIDE DEF kind, counted, cur
    <2> QED BY <1>1, <2>1
  <1>4. IsFiniteSet(DOMAIN cur)
    <2>1. counted \subseteq feed
      BY DEF AdminOf, MeteredOf, FromSource
    <2>2. IsFiniteSet(counted)
      BY <2>1, FS_Subset DEF Tables
    <2> HIDE DEF kind, counted, cur
    <2> QED BY <1>1, <2>2, Image
  <1>5. /\ \A k \in DOMAIN cur : cur[k] \in Nat
        /\ \A v \in {"Anthropic", "OpenAI"} : VendorCost(cur, v) \in Nat
    <2>1. /\ VendorCost(cur, "Anthropic") = Spend(PlainRows(R, w))
          /\ \A k \in DOMAIN cur : k[1] = "Anthropic" => cur[k] \in Nat
      BY MixIs
    <2>2. /\ VendorCost(cur, "OpenAI") = Spend(Theirs(R, w))
          /\ \A k \in DOMAIN cur : k[1] = "OpenAI" => cur[k] \in Nat
      BY MixIs
    <2>3. Spend(PlainRows(R, w)) \in Nat /\ Spend(Theirs(R, w)) \in Nat
      <3> DEFINE S == PlainRows(R, w)
                 T == Theirs(R, w)
      <3>1. /\ IsFiniteSet(S) /\ Counts(S) /\ S \in SUBSET S
            /\ IsFiniteSet(T) /\ Counts(T) /\ T \in SUBSET T
        BY RowsCount
      <3> HIDE DEF S, T
      <3>2. Spend(S) \in Nat /\ Spend(T) \in Nat
        BY <3>1, SpendSplits
      <3> QED BY <3>2 DEF S, T
    <2> HIDE DEF cur
    <2> QED BY <1>3, <2>1, <2>2, <2>3
  <1> HIDE DEF cur
  <1>6. Total(cur) \in Nat
    BY <1>4, <1>5, MeasureIs
  <1>7. \A k \in DOMAIN cur : CostAt(cur, k) \in Nat
    BY <1>5 DEF CostAt
  <1>8. CASE Total(cur) = 0
    BY <1>8 DEF ModelMix, cur
  <1>9. CASE Total(cur) # 0
    <2>1. \A v \in {"Anthropic", "OpenAI"} :
              ~Flagged(VendorCost(cur, v), VendorCost(cur, v), Total(cur), Total(cur), 20)
      BY <1>5, <1>6, <1>9, NothingMoved
    <2>2. \A k \in DOMAIN cur \union DOMAIN cur :
              ~Flagged(CostAt(cur, k), CostAt(cur, k), Total(cur), Total(cur), 30)
      BY <1>6, <1>7, <1>9, NothingMoved
    <2> QED BY <2>1, <2>2 DEF ModelMix, cur
  <1> QED BY <1>8, <1>9

\* An item of the card has a severity that shows.
LEMMA CardShows ==
    ASSUME NEW R, NEW w
    PROVE  CacheCard(R, w).severity = "idle" <=> CacheCard(R, w).items = {}
  <1> DEFINE items == AnthropicItems(R, w) \union OpenAIItems(R, w)
             has(s) == \E i \in items : i.severity = s
             card == CacheCard(R, w)
  <1>1. \A i \in AnthropicItems(R, w) : i.severity \in {"action", "warn", "info"}
    <2>1. \A u, r, c : CacheRecommendation(u, r, c) \in {"ok", "warn", "info"}
      BY DEF CacheRecommendation
    <2>2. ASSUME NEW i \in AnthropicItems(R, w)
          PROVE  \/ i.severity = "action"
                 \/ \E u, r, c : /\ i.severity = CacheRecommendation(u, r, c)
                                 /\ CacheRecommendation(u, r, c) # "ok"
      <3>1. PICK b \in Buckets([x \in PlainRows(R, w) |-> x.model]) :
                LET t == TokensOf(b) IN
                /\ i.severity = IF 10 * t.read < 3 * (t.read + t.creation) THEN "action"
                                ELSE CacheRecommendation(t.input, t.read, t.creation)
                /\ CacheRecommendation(t.input, t.read, t.creation) # "ok"
        BY <2>2 DEF AnthropicItems
      <3> QED BY <3>1
    <2> QED BY <2>1, <2>2
  <1>2. \A i \in OpenAIItems(R, w) : i.severity \in {"action", "warn", "info"}
    <2>1. \A u, c : OpenAICacheRecommendation(u, c) \in {"ok", "warn", "info"}
      BY DEF OpenAICacheRecommendation
    <2>2. ASSUME NEW i \in OpenAIItems(R, w)
          PROVE  \E u, c : /\ i.severity = OpenAICacheRecommendation(u, c)
                           /\ OpenAICacheRecommendation(u, c) # "ok"
      <3>1. PICK b \in Buckets([x \in OpenAIBranch(R, w, NoFilter) |-> x.model]) :
                LET t == TokensOf(b) IN
                /\ i.severity = OpenAICacheRecommendation(t.input, t.read)
                /\ OpenAICacheRecommendation(t.input, t.read) # "ok"
        BY <2>2 DEF OpenAIItems
      <3> QED BY <3>1
    <2> QED BY <2>1, <2>2
  <1>3. /\ card.items = items
        /\ card.severity = CASE has("action") -> "action"
                             [] has("warn") /\ ~has("action") -> "warning"
                             [] has("info") /\ ~has("warn") /\ ~has("action") -> "advisory"
                             [] OTHER -> "idle"
    BY DEF CacheCard
  <1>4. items = {} <=> ~has("action") /\ ~has("warn") /\ ~has("info")
    BY <1>1, <1>2
  <1> HIDE DEF items
  <1>5. CASE has("action")
    BY <1>3, <1>4, <1>5
  <1>6. CASE ~has("action") /\ has("warn")
    BY <1>3, <1>4, <1>6
  <1>7. CASE ~has("action") /\ ~has("warn") /\ has("info")
    BY <1>3, <1>4, <1>7
  <1>8. CASE ~has("action") /\ ~has("warn") /\ ~has("info")
    BY <1>3, <1>4, <1>8
  <1> QED BY <1>5, <1>6, <1>7, <1>8

LEMMA CardsHold ==
    ASSUME NEW R, NEW w, FeedInv, Tables, R \in SUBSET feed
    PROVE  CardsAgree(R, w)
  <1> DEFINE ours == AnthropicBranch(R, w, NoFilter)
             plain == PlainRows(R, w)
             items == AnthropicItems(R, w)
             shown == {d \in CacheRecommendations(R, w) :
                          d.severity # "ok" /\ d.tokens.read + d.tokens.creation > 0}
  <1>1. {x \in plain : x.model # NoModel} \subseteq ours /\ ours \subseteq plain
    BY RowSets DEF Ours
  <1>2. ASSUME plain = ours
        PROVE  {i.model : i \in items} = {c.model : c \in shown}
    <2> DEFINE B == Buckets([x \in ours |-> x.model])
               t(b) == TokensOf(b)
               model(b) == (CHOOSE x \in b : TRUE).model
               rec(b) == CacheRecommendation(t(b).input, t(b).read, t(b).creation)
               sev(b) == IF 10 * t(b).read < 3 * (t(b).read + t(b).creation) THEN "action"
                         ELSE rec(b)
               C == {b \in B : rec(b) # "ok" /\ t(b).read + t(b).creation > 0}
    <2>1. items = {[model |-> model(b), severity |-> sev(b)] : b \in C}
      BY <1>2 DEF AnthropicItems
    <2>2. CacheRecommendations(R, w)
              = {[model |-> model(b), tokens |-> t(b), severity |-> rec(b)] : b \in B}
      BY DEF CacheRecommendations
    <2> HIDE DEF B, t, model, rec, sev
    <2>3. {i.model : i \in items} = {model(b) : b \in C}
      <3>1. \A i \in items : \E b \in C : i.model = model(b)
        BY <2>1
      <3>2. \A b \in C : [model |-> model(b), severity |-> sev(b)] \in items
        BY <2>1
      <3>3. \A b \in C : [model |-> model(b), severity |-> sev(b)].model = model(b)
        OBVIOUS
      <3>4. \A b \in C : \E i \in items : i.model = model(b)
        BY <3>2, <3>3
      <3> HIDE DEF items, C
      <3> QED BY <3>1, <3>4
    <2>4. shown = {[model |-> model(b), tokens |-> t(b), severity |-> rec(b)] : b \in C}
      BY <2>2
    <2>5. {c.model : c \in shown} = {model(b) : b \in C}
      <3> DEFINE line(b) == [model |-> model(b), tokens |-> t(b), severity |-> rec(b)]
      <3>1. \A c \in shown : \E b \in C : c.model = model(b)
        BY <2>4
      <3>2. \A b \in C : line(b) \in shown
        BY <2>4
      <3>3. \A b \in C : line(b).model = model(b)
        OBVIOUS
      <3>4. \A b \in C : \E c \in shown : c.model = model(b)
        BY <3>2, <3>3
      <3> HIDE DEF shown, C, line
      <3> QED BY <3>1, <3>4
    <2> QED BY <2>3, <2>5
  <1>3. ModelMix(R, w, w) = {}
    BY MixIsStill
  <1>4. CacheCard(R, w).severity = "idle" <=> CacheCard(R, w).items = {}
    BY CardShows
  <1> QED BY <1>1, <1>2, <1>3, <1>4 DEF CardsAgree

\* Which tiles a record lights.
LEMMA TilesAre ==
    ASSUME NEW R, NEW r \in R, NEW tiles, tiles = Capabilities(R, {})
    PROVE  /\ r.source = "admin" => "admin_api" \in tiles.Anthropic
           /\ r.source = "mcp" => "mcp_connector" \in tiles.Anthropic
           /\ r.source = "openai_admin_usage" => "admin" \in tiles.OpenAI
           /\ r.source = "openai_admin_costs" => "costs" \in tiles.OpenAI
           /\ r.source = "openai_admin_usage" /\ "subject_user_id" \in DOMAIN r.who =>
                  "per_user_breakdown" \in tiles.OpenAI
  <1> DEFINE of(name, source) == IF \E q \in R : q.source = source THEN {name} ELSE {}
             byUser == {q \in R : q.source = "openai_admin_usage"
                                  /\ "subject_user_id" \in DOMAIN q.who}
  <1>1. /\ of("admin_api", "admin") \subseteq tiles.Anthropic
        /\ of("mcp_connector", "mcp") \subseteq tiles.Anthropic
    BY DEF Capabilities
  <1>2. /\ of("admin", "openai_admin_usage") \subseteq tiles.OpenAI
        /\ of("costs", "openai_admin_costs") \subseteq tiles.OpenAI
        /\ {"per_user_breakdown" : q \in byUser} \subseteq tiles.OpenAI
    BY DEF Capabilities
  <1>3. \A name, source : r.source = source => of(name, source) = {name}
    OBVIOUS
  <1>4. r.source = "openai_admin_usage" /\ "subject_user_id" \in DOMAIN r.who =>
            "per_user_breakdown" \in {"per_user_breakdown" : q \in byUser}
    OBVIOUS
  <1> HIDE DEF of, byUser
  <1> QED BY <1>1, <1>2, <1>3, <1>4

\* What is spent is spent by some record.
LEMMA SpendHasRecord ==
    ASSUME NEW C, Spend(AllRows(C)) > 0
    PROVE  C # {}
  <1> SUFFICES ASSUME C = {}
               PROVE  Spend({}) = 0
    BY DEF AllRows
  <1> DEFINE f == [x \in {} |-> Plus(RowCost(x))]
  <1>1. Spend({}) = Total(f) /\ DOMAIN f = {}
    BY DEF Spend
  <1> HIDE DEF f
  <1> QED BY <1>1, TotalIsSum, SumOfNone

LEMMA BilledHasRecord ==
    ASSUME FeedInv, Tables, NEW R \in SUBSET feed, NEW w, OpenAIActual(R, w) # NoDays
    PROVE  \E r \in R : r.source = "openai_admin_costs"
  <1> DEFINE f == [r \in Billed(R, w) |-> r.amount]
  <1>1. Total(f) # 0
    <2>1. PICK g : g = OpenAIActual(R, w)
      OBVIOUS
    <2> QED BY <2>1, BilledIs
  <1>2. DOMAIN f = Billed(R, w)
    OBVIOUS
  <1> HIDE DEF f
  <1>3. Billed(R, w) # {}
    BY <1>1, <1>2, TotalIsSum, SumOfNone
  <1> QED BY <1>3 DEF Billed, FromSource

LEMMA TilesHold ==
    ASSUME FeedInv, Tables, NEW w
    PROVE  TilesLit(records, w)
  <1> DEFINE R == records
             tiles == Capabilities(R, {})
  <1>0. R \in SUBSET feed
    BY DEF Tables
  <1>1. ASSUME Spend(AnthropicBranch(R, w, NoFilter)) > 0
        PROVE  "admin_api" \in tiles.Anthropic
    <2>1. Spend(AllRows(AdminOf(R, w))) > 0
      BY <1>0, <1>1, RowsCount, RowSets DEF Ours
    <2>2. PICK r \in AdminOf(R, w) : TRUE
      BY <2>1, SpendHasRecord
    <2> QED BY <2>2, TilesAre DEF AdminOf, FromSource
  <1>2. ASSUME Spend(OpenAIBranch(R, w, NoFilter)) > 0
        PROVE  "admin" \in tiles.OpenAI
    <2>1. Spend(AllRows(MeteredOf(R, w))) > 0
      BY <1>0, <1>2, RowSets DEF Theirs
    <2>2. PICK r \in MeteredOf(R, w) : TRUE
      BY <2>1, SpendHasRecord
    <2> QED BY <2>2, TilesAre DEF MeteredOf, FromSource
  <1>3. ASSUME VendorBreakdown(R, w).OpenAI.basis = "authoritative"
        PROVE  "costs" \in tiles.OpenAI
    <2>1. OpenAIActual(R, w) # NoDays
      BY <1>3 DEF VendorBreakdown
    <2>2. PICK r \in R : r.source = "openai_admin_costs"
      BY <1>0, <2>1, BilledHasRecord
    <2> QED BY <2>2, TilesAre
  <1>4. ASSUME NEW u \in Members, NEW v, CostAt(MemberSpend(u, w), v) > 0
        PROVE  \E r \in R : /\ VendorOf(r.source) = v /\ r.source \in {"mcp", "openai_admin_usage"}
                            /\ ActorKey(r) # NoKey
    <2>1. v \in DOMAIN MemberSpend(u, w)
      BY <1>4 DEF CostAt
    <2>2. DOMAIN MemberSpend(u, w) = {VendorOf(r.source) : r \in MemberRecords(u, w)}
      BY DEF MemberSpend
    <2> QED BY <2>1, <2>2 DEF MemberRecords
  <1>5. ASSUME NEW u \in Members, CostAt(MemberSpend(u, w), "Anthropic") > 0
        PROVE  "mcp_connector" \in tiles.Anthropic
    <2>1. PICK r \in R : /\ VendorOf(r.source) = "Anthropic"
                         /\ r.source \in {"mcp", "openai_admin_usage"}
      BY <1>4, <1>5
    <2>2. r.source = "mcp"
      BY <2>1 DEF VendorOf
    <2> QED BY <2>2, TilesAre
  <1>6. ASSUME NEW u \in Members, CostAt(MemberSpend(u, w), "OpenAI") > 0
        PROVE  "per_user_breakdown" \in tiles.OpenAI
    <2>1. PICK r \in R : /\ VendorOf(r.source) = "OpenAI"
                         /\ r.source \in {"mcp", "openai_admin_usage"} /\ ActorKey(r) # NoKey
      BY <1>4, <1>6
    <2>2. r.source = "openai_admin_usage"
      BY <2>1 DEF VendorOf
    <2>3. "subject_user_id" \in DOMAIN r.who
      BY <1>0, <2>1, <2>2, ViewsAssumption DEF FeedInv
    <2> QED BY <2>2, <2>3, TilesAre
  <1> HIDE DEF tiles
  <1> QED BY <1>1, <1>2, <1>3, <1>5, <1>6 DEF TilesLit, tiles

\* ViewsAgree: in every window, the roads from the records to a spend end at the same
\* number, the points of a Vertex call never cost more than the call, the cards name
\* the same models, and no spend is shown under a tile that is dark.
THEOREM ViewsAgreeHolds == DashboardSpec => []ViewsAgree
  <1>1. DirInv /\ WalkInv => ViewsAgree
    <2> SUFFICES ASSUME DirInv, WalkInv, NEW w \in Windows
                 PROVE  /\ SpendsAgree(records, w) /\ SharesAgree(records, w)
                        /\ MembersAgree(records, w) /\ PointsAgree(records, w)
                        /\ CardsAgree(records, w) /\ TilesLit(records, w)
      BY DEF ViewsAgree
    <2>1. FeedInv /\ Tables /\ records \in SUBSET feed
      BY DEF WalkInv, DirInv, Tables
    <2>2. SpendsAgree(records, w) /\ SharesAgree(records, w)
      BY <2>1, SpendsHold, SharesHold
    <2>3. MembersAgree(records, w) /\ PointsAgree(records, w)
      BY <2>1, MembersHold, PointsHold
    <2>4. CardsAgree(records, w) /\ TilesLit(records, w)
      BY <2>1, CardsHold, TilesHold
    <2> QED BY <2>2, <2>3, <2>4
  <1> QED BY <1>1, WalkAlways, PTL

=============================================================================
