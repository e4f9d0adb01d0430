----------------------------- MODULE McpSignIn -----------------------------
(***************************************************************************)
(* How Claude obtains the bearer token that its log_interaction calls are  *)
(* attributed by.  A client registers; /authorize parks its parameters in  *)
(* Redis and sends the browser to the gateway's bridge; the bridge, which  *)
(* knows who is signed in, sends it back with a short-lived signed token;  *)
(* /authorize/callback redeems the parked parameters for a code; /token    *)
(* redeems the code, and later each refresh token, for a token pair.       *)
(*                                                                         *)
(* The parameters live in Redis, the access tokens in Postgres, and codes, *)
(* refresh tokens, verified tokens and the gateway's public key in the     *)
(* memory of one MCP server process, which may die.  Browsers and clients  *)
(* repeat requests; responses get lost.  Whatever has a lifetime may       *)
(* expire at any moment, and nothing here depends on which goes first.     *)
(***************************************************************************)
EXTENDS Naturals, FiniteSets

CONSTANTS Clients,
          Users,        \* with a tenant; the bridge turns the others away
          Attempts,     \* the mcp_state values that /authorize draws
          Nobody,
          MaxKeys,      \* bound: bridge key pairs
          MaxBridged,   \* bound: bridge tokens within their minute
          MaxPairs,     \* bound: token pairs
          MaxFaults,    \* bound: lost responses, failures and restarts
          CacheSize     \* _CACHE_MAX_ENTRIES

ASSUME SignInAssumption ==
    /\ Nobody \notin Users \union Clients
    /\ {MaxKeys, CacheSize} \subseteq Nat \ {0}
    /\ {MaxBridged, MaxPairs, MaxFaults} \subseteq Nat

VARIABLES registered,   \* mcp_oauth_clients
          asked,        \* who each attempt was made by: the redirect's state
          parked,       \* the attempts whose parameters are in Redis
          session,      \* who is signed in to the gateway, in the browser
          bridged,      \* the bridge tokens a browser may still present
          codes,        \* _AUTH_CODE_STORE
          pairs,        \* mcp_access_tokens, with the refresh token's hash
          dead,         \* the rows that expired or were revoked
          refreshable,  \* _REFRESH_TOKEN_STORE
          cached,       \* _TOKEN_CACHE
          received,     \* the pairs whose response reached the client
          keys,         \* the PEM file, and who has loaded what
          minted,       \* history: every code
          used,         \* history: codes and refresh tokens presented
          gone,         \* history: refresh tokens that expired or were lost
          faults

server  == <<codes, refreshable, cached>>
history == <<minted, used, gone, faults>>
browser == <<registered, asked, parked, session, bridged>>
tokens  == <<pairs, dead, received>>
vars    == <<browser, server, tokens, keys, history>>

Ids == 1..MaxPairs

Init == /\ registered = {}
        /\ asked = [a \in Attempts |-> Nobody]
        /\ parked = {} /\ session = Nobody /\ bridged = {}
        /\ codes = {} /\ refreshable = {} /\ cached = {}
        /\ pairs = {} /\ dead = {} /\ received = {}
        /\ keys = [file |-> 1, gateway |-> 1, edge |-> {}, server |-> 1, worker |-> 0]
        /\ minted = {} /\ used = {} /\ gone = {} /\ faults = 0

Fault == faults < MaxFaults /\ faults' = faults + 1
-----------------------------------------------------------------------------
(* From /register to the callback. *)

Register(c) == /\ c \notin registered
               /\ registered' = registered \union {c}
               /\ UNCHANGED <<asked, parked, session, bridged, server, tokens, keys, history>>

\* PKCE and a redirect_uri of the client's own are required; the attempt
\* stands for them, as for the code_challenge.
Authorize(c, a) ==
    /\ c \in registered
    /\ asked[a] = Nobody
    /\ asked' = [asked EXCEPT ![a] = c]
    /\ parked' = parked \union {a}
    /\ UNCHANGED <<registered, session, bridged, server, tokens, keys, history>>

\* A session is a cookie: it is set, cleared and expires in the browser.
Session(u) == /\ session # u
              /\ session' = u
              /\ UNCHANGED <<registered, asked, parked, bridged, server, tokens, keys, history>>

\* /auth/mcp-bridge signs whatever state the redirect carries, for whoever
\* is signed in; without a session it goes to SSO and comes back.
MintBridgeToken(a) ==
    /\ asked[a] # Nobody
    /\ session # Nobody
    /\ Cardinality(bridged) < MaxBridged
    /\ bridged' = bridged \union {[attempt |-> a, user |-> session, key |-> keys.gateway]}
    /\ UNCHANGED <<registered, asked, parked, session, server, tokens, keys, history>>

BridgeTokenExpires(t) ==
    /\ t \in bridged
    /\ bridged' = bridged \ {t}
    /\ UNCHANGED <<registered, asked, parked, session, server, tokens, keys, history>>

\* GETDEL.  Mutant: GET.
ClaimAndKeep(a) == parked' = parked
Claim(a) == parked' = parked \ {a}

\* The signature is checked with the key that this process has.
Verify(t) == t.key = keys.server

MintCode(a, u) ==
    LET code == [id |-> Cardinality(minted) + 1, attempt |-> a, client |-> asked[a], user |-> u]
    IN codes' = codes \union {code} /\ minted' = minted \union {code}

\* The signature, then the state.  A refusal of either leaves all as it is.
Callback(t) ==
    /\ t \in bridged
    /\ Verify(t)
    /\ t.attempt \in parked
    /\ Claim(t.attempt)
    /\ MintCode(t.attempt, t.user)
    /\ UNCHANGED <<registered, asked, session, bridged, refreshable, cached, tokens, keys,
                   used, gone, faults>>
-----------------------------------------------------------------------------
(* /token. *)

Newest == Cardinality(pairs)

\* The row is committed, then the refresh token stored, then the answer sent.
IssueTokenPair(code, from, store) ==
    LET p == [id |-> Newest + 1, code |-> code.id, from |-> from,
              client |-> code.client, user |-> code.user]
    IN /\ Newest < MaxPairs
       /\ pairs' = pairs \union {p}
       /\ refreshable' = store \union {p}
       /\ \/ received' = received \union {p.id} /\ UNCHANGED faults
          \/ Fault /\ UNCHANGED received

\* The INSERT fails: a 500, and what was popped stays popped.
IssueFails(store) == /\ Fault
                     /\ refreshable' = store
                     /\ UNCHANGED <<pairs, received>>

\* _store_pop(): before any check.  Mutant: after them.
PopUnlessRefused(code, c, a) ==
    IF code.client = c /\ code.attempt = a THEN codes \ {code} ELSE codes
PopCode(code, c, a) == codes \ {code}

\* Client c presents a code and the verifier of attempt a.
Exchange(code, c, a) ==
    /\ code \in codes
    /\ codes' = PopCode(code, c, a)
    /\ used' = used \union {<<"code", code.id>>}
    /\ IF code.client = c /\ code.attempt = a
       THEN IssueTokenPair(code, 0, refreshable) \/ IssueFails(refreshable)
       ELSE UNCHANGED <<pairs, refreshable, received, faults>>
    /\ UNCHANGED <<browser, cached, dead, keys, minted, gone>>

\* Mutant: the refresh token stays good.
PopNothing(p) == refreshable
PopRefresh(p) == refreshable \ {p}

\* Rotation.  A refresh token presented by another client is used up too.
Refresh(p, c) ==
    /\ p \in refreshable /\ p.id \in received
    /\ used' = used \union {<<"refresh", p.id>>}
    /\ IF p.client = c
       THEN \/ IssueTokenPair([id |-> p.code, client |-> p.client, user |-> p.user],
                              p.id, PopRefresh(p))
            \/ IssueFails(PopRefresh(p))
       ELSE refreshable' = PopRefresh(p) /\ UNCHANGED <<pairs, received, faults>>
    /\ UNCHANGED <<browser, codes, cached, dead, keys, minted, gone>>

CodeExpires(code) ==
    /\ code \in codes
    /\ codes' = codes \ {code}
    /\ UNCHANGED <<browser, refreshable, cached, tokens, keys, history>>

\* Lazily swept whenever a token is stored; popped, it reads as absent.
RefreshExpires(p) ==
    /\ p \in refreshable
    /\ refreshable' = refreshable \ {p}
    /\ gone' = gone \union {p.id}
    /\ UNCHANGED <<browser, codes, cached, tokens, keys, minted, used, faults>>

StateExpires(a) ==
    /\ a \in parked
    /\ parked' = parked \ {a}
    /\ UNCHANGED <<registered, asked, session, bridged, server, tokens, keys, history>>
-----------------------------------------------------------------------------
(* Calls with a bearer token. *)

\* One arbitrary entry goes when the cache is full.  Mutant: none does.
CachePutAlways(p) == cached' = cached \union {p.id}
CachePut(p) == \/ Cardinality(cached) < CacheSize /\ cached' = cached \union {p.id}
               \/ /\ Cardinality(cached) >= CacheSize
                  /\ \E q \in cached : cached' = (cached \ {q}) \union {p.id}

\* A cold token is looked up and cached; a cached one is served unseen.
VerifyToken(p) ==
    /\ p.id \in received /\ p.id \notin cached \union dead
    /\ CachePut(p)
    /\ UNCHANGED <<browser, codes, refreshable, tokens, keys, history>>

\* revoked_at is set by hand, and the cache keeps serving the token.
Revoke(p) == /\ p.id \notin dead
             /\ dead' = dead \union {p.id}
             /\ UNCHANGED <<browser, server, pairs, received, keys, history>>

\* The cached copy carries the row's own expires_at.
AccessExpires(p) == /\ p.id \notin dead \/ p.id \in cached
                    /\ dead' = dead \union {p.id}
                    /\ cached' = cached \ {p.id}
                    /\ UNCHANGED <<browser, codes, refreshable, pairs, received, keys, history>>
-----------------------------------------------------------------------------
(* The bridge's key pair, and the server's life. *)

RotateKey == /\ keys.file < MaxKeys
             /\ keys' = [keys EXCEPT !.file = @ + 1]
             /\ UNCHANGED <<browser, server, tokens, history>>

\* The gateway reads the PEM once in a process.
RestartGateway == /\ keys.gateway # keys.file
                  /\ keys' = [keys EXCEPT !.gateway = keys.file]
                  /\ UNCHANGED <<browser, server, tokens, history>>

\* The well-known document may be answered from an edge cache for a day.
Fetched == {keys.gateway} \union keys.edge

EdgeCaches == /\ keys.edge # {keys.gateway}
              /\ keys' = [keys EXCEPT !.edge = {keys.gateway}]
              /\ UNCHANGED <<browser, server, tokens, history>>
EdgeForgets == /\ keys.edge # {}
               /\ keys' = [keys EXCEPT !.edge = {}]
               /\ UNCHANGED <<browser, server, tokens, history>>

\* set_jwk, in the memory of whichever process calls it.
SetJwk(process, k) == keys' = [keys EXCEPT ![process] = k]

\* A process that gets no answer keeps what it has, or does not start.
FetchAndCacheJwk(process) == \E k \in Fetched : SetJwk(process, k)

\* Beat's daily task runs in a Celery worker, and sets that process's key.
RefreshBridgeJwk == /\ Fetched # {keys.worker}
                    /\ FetchAndCacheJwk("worker")
                    /\ UNCHANGED <<browser, server, tokens, history>>

\* The process dies; the new one fetches the key before it serves.
Restart == /\ Fault
           /\ codes' = {} /\ refreshable' = {} /\ cached' = {}
           /\ gone' = gone \union {p.id : p \in refreshable}
           /\ FetchAndCacheJwk("server")
           /\ UNCHANGED <<browser, tokens, minted, used>>

Keys == RotateKey \/ RestartGateway \/ EdgeCaches \/ EdgeForgets \/ RefreshBridgeJwk

Next == \/ \E c \in Clients : Register(c) \/ \E a \in Attempts : Authorize(c, a)
        \/ \E u \in Users \union {Nobody} : Session(u)
        \/ \E a \in Attempts : MintBridgeToken(a) \/ StateExpires(a)
        \/ \E t \in bridged : Callback(t) \/ BridgeTokenExpires(t)
        \/ \E code \in codes : \/ CodeExpires(code)
                               \/ \E c \in registered, a \in Attempts : Exchange(code, c, a)
        \/ \E p \in pairs : \/ \E c \in registered : Refresh(p, c)
                            \/ VerifyToken(p) \/ Revoke(p) \/ AccessExpires(p)
        \/ \E p \in refreshable : RefreshExpires(p)
        \/ Keys \/ Restart

Spec == Init /\ [][Next]_vars
-----------------------------------------------------------------------------
Code == [id : Nat \ {0}, attempt : Attempts, client : Clients, user : Users]
Pair == [id : Ids, code : Nat \ {0}, from : {0} \union Ids, client : Clients, user : Users]

\* Type invariant.  What the process keeps is among what was ever made.
TypeOK ==
    /\ registered \subseteq Clients
    /\ asked \in [Attempts -> registered \union {Nobody}]
    /\ \A a \in parked : asked[a] # Nobody
    /\ session \in Users \union {Nobody}
    /\ bridged \subseteq [attempt : Attempts, user : Users, key : 1..MaxKeys]
    /\ codes \subseteq minted /\ minted \subseteq Code
    /\ pairs \subseteq Pair /\ refreshable \subseteq pairs
    /\ dead \union received \union cached \union gone \subseteq 1..Newest
    /\ Cardinality(cached) <= CacheSize
    /\ keys.gateway <= keys.file /\ keys.server <= keys.gateway

(***************************************************************************)
(* Every token descends, link by link, from one authorization: an attempt  *)
(* yields at most one code, a code at most one first pair, a pair at most  *)
(* one successor, all for the attempt's client; and only the last pair of  *)
(* a line can be refreshed.  Repeated requests and deaths do not matter.   *)
(***************************************************************************)
TokensDescend ==
    /\ \A c, d \in minted : c.attempt = d.attempt => c = d
    /\ \A c \in minted : c.client = asked[c.attempt]
    /\ \A p, q \in pairs : (p.code = q.code /\ p.from = q.from) => p = q
    /\ \A p \in pairs : \E c \in minted : c.id = p.code /\ c.client = p.client /\ c.user = p.user
    /\ \A p \in pairs, q \in refreshable : p.from # q.id

(***************************************************************************)
(* A code is good once: refused or failed, it cannot be presented again    *)
(* (oauth_routes.py:693); and a line whose last refresh token is not in    *)
(* the store has lost it to its lifetime, to a restart or to a             *)
(* presentation, its own or another client's.                              *)
(***************************************************************************)
OneShot ==
    /\ \A c \in codes : <<"code", c.id>> \notin used
    /\ \A p \in pairs : \/ p \in refreshable
                        \/ p.id \in gone
                        \/ <<"refresh", p.id>> \in used
=============================================================================
