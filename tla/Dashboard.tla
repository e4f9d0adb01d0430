----------------------------- MODULE Dashboard -----------------------------
(***************************************************************************)
(* The lists of the dashboard, read page by page while the tenant's        *)
(* records go on arriving and its directory changes.  GET /usage lists the *)
(* usage rows newest first and goes on after the last row's place; GET     *)
(* /sessions adds up a day of one actor to a session, and goes on after    *)
(* the last session's last_seen.  A session opens by an id that holds its  *)
(* day and actor.                                                          *)
(*                                                                         *)
(* A page is one statement; what a reply adds to it (names, totals, costs: *)
(* SpendViews) is read in further ones and changes nothing.                *)
(***************************************************************************)
EXTENDS Directory, SpendViews

CONSTANTS PageSize,      \* limit
          Windows,       \* the windows of time that a client asks for
          UsageFilters,  \* the filters, a set of [models, places]
          Wire           \* a name in a session's id: '|' becomes '_'

ASSUME PageAssumption == PageSize \in Nat \ {0}

NoCursor == <<>>

\* ORDER BY: each place holds what as many others come before.
InOrder(S, earlier(_)) ==
    [i \in 1..Cardinality(S) |-> CHOOSE x \in S : Cardinality(earlier(x)) = i - 1]

\* The first places of a list after the cursor, with one more to see if there
\* are more.
PageOf(sorted)  == SubSeq(sorted, 1, Min({PageSize, Len(sorted)}))
HasMore(sorted) == Len(sorted) > PageSize

\* A page for the walk of process p: what it shows, and where it goes on.
Shows(p, sorted, place(_)) ==
    LET page == PageOf(sorted)
    IN  Keep(p, [req[p] EXCEPT
            !.seen = @ \o page,
            !.cursor = IF HasMore(sorted) THEN place(Last(page)) ELSE NoCursor,
            !.step = IF HasMore(sorted) THEN "page" ELSE "served"])

----------------------------------------------------------------------------
(* GET /usage.                                                             *)

RowsFor(r) == UsageRows(records, r.window, r.filter)

StartUsage(p, w, f) ==
    /\ Begin(p, [op |-> "usage", step |-> "page", pend |-> Nothing, window |-> w, filter |-> f,
                 cursor |-> NoCursor, seen |-> <<>>, first |-> UsageRows(records, w, f)])
    /\ UNCHANGED <<feed, records, people, raced>>

\* Mutant of AfterRow: only the instants are compared.
AfterInstant(cursor, x) == cursor = NoCursor \/ x.at < cursor.at
AfterRow(cursor, x) == cursor = NoCursor \/ RowBefore(cursor, x)

RowsSorted(rows) == InOrder(rows, LAMBDA x : {y \in rows : RowBefore(y, x)})

UsagePage(p) ==
    LET open == {x \in RowsFor(req[p]) : AfterRow(req[p].cursor, x)} IN
    /\ At(p, "page") /\ req[p].op = "usage"
    /\ Shows(p, RowsSorted(open), LAMBDA x : x)
    /\ UNCHANGED <<feed, records, people, raced>>

----------------------------------------------------------------------------
(* GET /sessions.                                                          *)

SessionSources == {"code_analytics", "compliance_activities", "mcp"}

ActorType(r) == IF "type" \in DOMAIN r.who THEN r.who.type
                ELSE IF r.source = "mcp" THEN "user_actor" ELSE NoKey

EffectiveSurface(r) ==
    IF r.source # "mcp" THEN r.source
    ELSE IF r.surface # "" THEN r.surface
    ELSE IF r.tool THEN "claude_code" ELSE "mcp"

SessionOf(r) == <<DayOf(r.at), ActorType(r), ActorKey(r)>>

\* The records of the wanted sources, by day and actor.
Sessions(sources) ==
    LET R == {r \in records : r.source \in SessionSources
                              /\ (sources = {} \/ r.source \in sources)}
        of(s) == {r \in R : SessionOf(r) = s}
    IN  {[id |-> s, last |-> Max({r.at : r \in of(s)}), count |-> Cardinality(of(s)),
          surfaces |-> {EffectiveSurface(r) : r \in of(s)}] :
         s \in {SessionOf(r) : r \in R}}

\* Text is compared by its rank in the database's collation.
Rank(text) == CHOOSE i \in DOMAIN Wire.collation : Wire.collation[i] = text

\* ORDER BY last_seen DESC, actor_type, actor_key.
SessionBefore(a, b) ==
    \/ a.last > b.last
    \/ a.last = b.last /\ Rank(a.id[2]) < Rank(b.id[2])
    \/ a.last = b.last /\ a.id[2] = b.id[2] /\ Rank(a.id[3]) < Rank(b.id[3])

SessionsSorted(open) == InOrder(open, LAMBDA s : {t \in open : SessionBefore(t, s)})

\* The cursor's row comparison goes down in all three columns, and is unknown
\* for an actor without type or name.
AfterSession(cursor, s) ==
    \/ cursor = NoCursor
    \/ s.last < cursor.last
    \/ s.last = cursor.last /\ NoKey \notin {s.id[2], cursor.id[2]}
          /\ Rank(s.id[2]) < Rank(cursor.id[2])
    \/ s.last = cursor.last /\ s.id[2] = cursor.id[2]
          /\ NoKey \notin {s.id[2], s.id[3], cursor.id[3]} /\ Rank(s.id[3]) < Rank(cursor.id[3])

StartSessions(p, sources) ==
    /\ Begin(p, [op |-> "sessions", step |-> "page", pend |-> Nothing, sources |-> sources,
                 cursor |-> NoCursor, seen |-> <<>>, first |-> Sessions(sources), opened |-> {}])
    /\ UNCHANGED <<feed, records, people, raced>>

SessionsPage(p) ==
    LET open == {s \in Sessions(req[p].sources) : AfterSession(req[p].cursor, s)} IN
    /\ At(p, "page") /\ req[p].op = "sessions"
    /\ Shows(p, SessionsSorted(open), LAMBDA s : s)
    /\ UNCHANGED <<feed, records, people, raced>>

\* GET /sessions/{id} of a listed session: the names go through its id.  A null
\* name has become an empty one, which no record has; and none found is a 404.
Detail(id) == {r \in records : /\ r.source \in SessionSources
                               /\ DayOf(r.at) = id[1]
                               /\ ActorType(r) = Wire.name[id[2]] /\ ActorType(r) # NoKey
                               /\ ActorKey(r) = Wire.name[id[3]] /\ ActorKey(r) # NoKey}

OpenSession(p) ==
    /\ At(p, "served") /\ req[p].op = "sessions" /\ req[p].opened = {}
    /\ \E s \in ToSet(req[p].seen) :
           Keep(p, [req[p] EXCEPT !.opened = {[session |-> s, records |-> Detail(s.id)]}])
    /\ UNCHANGED <<feed, records, people, raced>>

\* A record's time, id and parts are numbered, a bucket of OpenAI's is one row or
\* none; the collation orders what actors are called, and an actor's type, a word
\* of its vendor's, passes through an id unchanged.
ASSUME ListsAssumption ==
    /\ DOMAIN Wire.collation \subseteq Nat
    /\ \A s \in Scenarios : \A r \in s.feed :
        /\ r.at \in Int /\ r.id \in Int
        /\ r.source = "admin" =>
              Len(r.results) \in Nat /\ DOMAIN r.results = 1 .. Len(r.results)
        /\ r.source = "openai_admin_usage" => \A b, c \in r.result : b = c
        /\ r.source \in SessionSources =>
              /\ {ActorType(r), ActorKey(r)} \subseteq ToSet(Wire.collation)
              /\ Wire.name[ActorType(r)] = ActorType(r)

----------------------------------------------------------------------------
(* The spend of a member, in GET /users and GET /users/{id}: of the MCP     *)
(* records by their estimates of tokens, and of OpenAI's usage.             *)

PriceMcpRow(r) ==
    ComputeCost(r.model, RatesAt(AnthropicCards, r.at),
                [input |-> r.input, output |-> r.output, read |-> 0, creation |-> 0])

MemberCost(r) == IF r.source = "mcp" THEN PriceMcpRow(r) ELSE EstimateCost(r)

\* The join of the records with the aliases of u.
MemberRecords(u, w) ==
    {r \in records : /\ r.source \in {"mcp", "openai_admin_usage"} /\ Within(w, r)
                     /\ ActorKey(r) # NoKey /\ aliases[KeyOf(r)].user = u
                     /\ MemberCost(r) # Unpriced}

\* By vendor in the list, by day and source on the member's page.
MemberSpend(u, w) ==
    LET R == MemberRecords(u, w)
    IN  [v \in {VendorOf(r.source) : r \in R} |->
            Total([r \in {q \in R : VendorOf(q.source) = v} |-> MemberCost(r)])]

SpendTrend(u, w) ==
    LET R      == MemberRecords(u, w)
        key(r) == <<DayOf(r.at), r.source>>
    IN  [k \in {key(r) : r \in R} |->
            Total([r \in {q \in R : key(q) = k} |-> MemberCost(r)])]

\* The vendors report no negative counts of tokens or bills (the code checks neither);
\* an MCP record names who was signed in, and a usage of OpenAI's that names anyone has
\* the user's id, through which the email was found.
ASSUME ViewsAssumption ==
    \A s \in Scenarios : \A r \in s.feed :
        /\ r.source = "admin" => \A i \in DOMAIN r.results : LET b == r.results[i] IN
              {b.input, b.output, b.read, b.flat, b.nested} \subseteq Nat
        /\ r.source = "openai_admin_usage" => \A b \in r.result :
              {b.uncached, b.cached, b.output} \subseteq Nat
        /\ r.source = "openai_admin_usage" /\ ActorKey(r) # NoKey =>
              "subject_user_id" \in DOMAIN r.who
        /\ r.source = "openai_admin_costs" => r.amount \in Nat \union {NoAmount}
        /\ r.source = "vertex_token_usage" => r.count \in Nat
        /\ r.source = "mcp" => ActorKey(r) # NoKey /\ {r.input, r.output} \subseteq Nat

----------------------------------------------------------------------------

Browse(p) ==
    \/ \E w \in Windows, f \in UsageFilters : StartUsage(p, w, f)
    \/ UsagePage(p)
    \/ \E sources \in {{}, {"mcp"}} : StartSessions(p, sources)
    \/ SessionsPage(p) \/ OpenSession(p)

DashboardNext == DirectoryNext \/ \E p \in Procs : Browse(p)

DashboardSpec == DirectoryInit /\ [][DashboardNext]_directoryVars

----------------------------------------------------------------------------
(* Properties.                                                             *)

Steps == {"idle", "upsert", "unmapped", "map", "target", "count", "write", "batch",
          "topics", "total", "page", "served"}

\* The shapes of the tables, and of what a process is doing.
DashboardTypeOK ==
    /\ records \subseteq feed
    /\ staff \in [Members -> Roles]
    /\ \A k \in DOMAIN aliases : aliases[k] \in [user : Members \union {NoUser}, auto : BOOLEAN]
    /\ \A i \in DOMAIN topics : topics[i] \in Labels
    /\ \A p \in Procs : /\ req[p].step \in Steps
                        /\ DOMAIN req[p].pend \subseteq DOMAIN aliases
    /\ left \in Nat /\ raced \in BOOLEAN

Times(x, seq) == Cardinality({i \in DOMAIN seq : seq[i] = x})
Served(p, op) == req[p].op = op /\ At(p, "served")

\* A walk through a list misses nothing and repeats nothing, whatever arrives
\* while it goes on.  Of /usage: every row that was there at its start and has
\* not been superseded is shown once, no row twice, all in order.  Of /sessions:
\* every session of a known actor that got no record meanwhile is shown once, if
\* no other was last seen at the same instant.  An opened session shows the
\* records of that day and actor, all that were counted, where the actor's name
\* passes through the id unchanged.
PagesWhole ==
    \A p \in Procs :
        /\ Served(p, "usage") =>
              /\ \A x \in req[p].first \intersect RowsFor(req[p]) : Times(x, req[p].seen) = 1
              /\ \A i, j \in DOMAIN req[p].seen :
                     i < j => RowBefore(req[p].seen[i], req[p].seen[j])
        /\ Served(p, "sessions") =>
              \A s \in req[p].first \intersect Sessions(req[p].sources) :
                  (/\ NoKey \notin {s.id[2], s.id[3]}
                   /\ \A t \in req[p].first \union ToSet(req[p].seen) :
                          t.last = s.last => t.id = s.id)
                  => Times(s, req[p].seen) = 1
        /\ Served(p, "sessions") =>
              \A o \in req[p].opened :
                  LET s == o.session IN
                  Wire.name[s.id[3]] = s.id[3] /\ NoKey \notin {s.id[2], s.id[3]} =>
                      /\ \A r \in o.records : SessionOf(r) = s.id
                      /\ Cardinality(o.records) >= s.count

\* The rows of a window are priced by one card.
OneCard(rows) == \A x, y \in rows : RatesAt(AnthropicCards, x.at) = RatesAt(AnthropicCards, y.at)

Spend(rows) == Total([x \in rows |-> Plus(RowCost(x))])

\* The rows of /usage, the budgets' sum, whole or by place, the series by day, the
\* vendors' estimate and the mix of models add up to the same spend, and the month's
\* level to the vendors' split of the same window.
SpendsAgree(R, w) ==
    LET ours   == AnthropicBranch(R, w, NoFilter)
        theirs == OpenAIBranch(R, w, NoFilter)
        mix    == VendorModelCosts(R, w)
        only(q) == [models |-> {}, places |-> {q}]
    IN
    /\ DailySpend(R, w) = PriceByDay(R, w, "admin")
    /\ Total(DailySpend(R, w)) = Spend(ours)
    /\ ComputeSpend(R, w, NoFilter) = Spend(ours)
    /\ Total([q \in {x.place : x \in ours} |-> ComputeSpend(R, w, only(q))]) = Spend(ours)
    /\ Total(PriceByDay(R, w, "openai_admin_usage")) = Spend(theirs)
    /\ VendorCost(mix, "Anthropic") = Spend(ours) /\ VendorCost(mix, "OpenAI") = Spend(theirs)
    /\ VendorForecast(R, w, w).current = Total(VendorBreakdown(R, w).OpenAI.daily)

\* The totals of /usage and the shares by model and cost centre, which price whole
\* buckets, add up to the rows' spend where the rates did not change inside a bucket;
\* what the centres leave out of Anthropic's spend is the unattributed rows.
SharesAgree(R, w) ==
    LET rows   == UsageRows(R, w, NoFilter)
        totals == UsageTotals(R, w, NoFilter)
        vendor == VendorBreakdown(R, w)
        plain  == PlainRows(R, w)
    IN
    /\ totals.count = Cardinality(rows)
    /\ OneCard(rows) =>
          /\ totals.cost = Spend(rows)
          /\ totals.without = Cardinality({x \in rows : RowCost(x) = Unpriced})
          /\ Total(ModelSpend(R, w)) = Spend(AnthropicBranch(R, w, NoFilter))
          /\ WorkspaceCard(R, w).total = Total(vendor.OpenAI.daily)
                 + Spend({x \in plain : x.place # NoPlace})
          /\ Total(vendor.Anthropic.daily) - Total(WorkspaceSpend(R, w))
                 = Spend({x \in plain : x.place = NoPlace})

\* What a member spent is the same in the list and on the member's page; what all of
\* them and nobody spent is the cost of the MCP records, and of OpenAI's usage no more
\* than there is.
MembersAgree(R, w) ==
    /\ \A u \in Members \union {NoUser} : Total(MemberSpend(u, w)) = Total(SpendTrend(u, w))
    /\ Total([u \in Members \union {NoUser} |-> CostAt(MemberSpend(u, w), "Anthropic")])
           = Total([x \in FromSource(R, w, "mcp") |-> Plus(MemberCost(x))])
    /\ Total([u \in Members |-> CostAt(MemberSpend(u, w), "OpenAI")])
           <= Spend(OpenAIBranch(R, w, NoFilter))

\* The two points of one Vertex call, which are priced apart, never cost more than the
\* call.
PointsAgree(R, w) ==
    \A x, y \in FromSource(R, w, "vertex_token_usage") :
        x.side = "input" /\ y.side = "output" /\ x.model = y.model =>
            EstimateVertex(x) + EstimateVertex(y) <=
                VertexCost(x.model, [input |-> x.count, output |-> y.count,
                                     read |-> 0, creation |-> 0])

\* No two lists of tokens differ but by superseded rows, and where there are none the
\* card of the cache and the recommendations name the same models; a mix that did not
\* move has no news, and a card without items is idle.
CardsAgree(R, w) ==
    LET ours  == AnthropicBranch(R, w, NoFilter)
        plain == PlainRows(R, w)
    IN
    /\ {x \in plain : x.model # NoModel} \subseteq ours /\ ours \subseteq plain
    /\ plain = ours => {i.model : i \in AnthropicItems(R, w)} =
          {c.model : c \in {d \in CacheRecommendations(R, w) :
                 d.severity # "ok" /\ d.tokens.read + d.tokens.creation > 0}}
    /\ ModelMix(R, w, w) = {}
    /\ CacheCard(R, w).severity = "idle" <=> CacheCard(R, w).items = {}

\* No view shows a spend whose tile /me/capabilities leaves dark, whatever keys are
\* sealed.
TilesLit(R, w) ==
    LET tiles == Capabilities(R, {}) IN
    /\ Spend(AnthropicBranch(R, w, NoFilter)) > 0 => "admin_api" \in tiles.Anthropic
    /\ Spend(OpenAIBranch(R, w, NoFilter)) > 0 => "admin" \in tiles.OpenAI
    /\ VendorBreakdown(R, w).OpenAI.basis = "authoritative" => "costs" \in tiles.OpenAI
    /\ \A u \in Members :
           /\ CostAt(MemberSpend(u, w), "Anthropic") > 0 => "mcp_connector" \in tiles.Anthropic
           /\ CostAt(MemberSpend(u, w), "OpenAI") > 0 => "per_user_breakdown" \in tiles.OpenAI

\* The roads to one number agree, in every window.  It is about records and aliases
\* alone, and each of them occurs while no one works.  Amounts are exact here: in the
\* code the roads agree up to the rounding of prices and of sums (see AtRates).
ViewsAgree ==
    (\A p \in Procs : At(p, "idle")) => \A w \in Windows :
        /\ SpendsAgree(records, w) /\ SharesAgree(records, w) /\ MembersAgree(records, w)
        /\ PointsAgree(records, w) /\ CardsAgree(records, w) /\ TilesLit(records, w)

============================================================================
