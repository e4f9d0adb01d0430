----------------------------- MODULE SpendViews -----------------------------
(***************************************************************************)
(* What the dashboard computes from the usage records of a tenant.  The    *)
(* same spend is added up in a dozen places: the rows and totals of        *)
(* GET /usage, the budgets, the daily series behind the forecast, the      *)
(* shares by model and workspace, the split by vendor, the insight cards.  *)
(* Some price each row, some a sum of tokens per day or per window; some   *)
(* hide a day's superseded rows, some do not; some prefer what the vendor  *)
(* billed to what its tokens would cost.  The operators are these          *)
(* calculations, on a set R of records and a window w of time.             *)
(*                                                                         *)
(* A model's name is the sequence of its parts, so that a name that starts *)
(* with another is a sequence that does.  Amounts are whole numbers of a   *)
(* unit small enough: the code's rounding to cents is left out.            *)
(***************************************************************************)
EXTENDS Integers, Sequences, FiniteSets, SequencesExt, FiniteSetsExt

CONSTANTS DayLength,       \* instants of one UTC day
          AnthropicCards,  \* RATE_HISTORY: [from, until, rates], oldest first
          OpenAIRates,     \* the one rate card of OpenAI, by model
          VertexRates,     \* the one of Vertex; a rate may have two tiers
          VolumeFloor      \* _CACHE_VOLUME_FLOOR

\* Names of models and what they cost.
Rate == [input : Nat, output : Nat, read : Nat, creation : Nat]
Keyed(rates) == IsFiniteSet(DOMAIN rates) /\ \A k \in DOMAIN rates : Len(k) \in Nat
RateCard(rates) == Keyed(rates) /\ \A k \in DOMAIN rates : rates[k] \in Rate

\* A card of Anthropic's holds from one midnight to another; the high tier of
\* Vertex is no cheaper than the low one.
ASSUME SpendAssumption ==
    /\ DayLength \in Nat \ {0}
    /\ Len(AnthropicCards) \in Nat \ {0} /\ DOMAIN AnthropicCards = 1 .. Len(AnthropicCards)
    /\ \A i \in DOMAIN AnthropicCards :
           /\ AnthropicCards[i].from \in Int /\ AnthropicCards[i].from % DayLength = 0
           /\ AnthropicCards[i].until \in Int /\ AnthropicCards[i].until % DayLength = 0
           /\ RateCard(AnthropicCards[i].rates)
    /\ RateCard(OpenAIRates)
    /\ Keyed(VertexRates)
    /\ \A k \in DOMAIN VertexRates : LET rate == VertexRates[k] IN
           IF "threshold" \notin DOMAIN rate THEN rate \in Rate
           ELSE /\ rate.threshold \in Int /\ rate.low \in Rate /\ rate.high \in Rate
                /\ \A kind \in DOMAIN rate.low : rate.low[kind] <= rate.high[kind]
    /\ VolumeFloor \in Int

NoModel  == <<>>           \* a JSON null in metadata
NoPlace  == ""             \* a null workspace or project
NoAmount == -1
Unpriced == -1             \* a cost that is None

DayOf(t)     == t \div DayLength
Within(w, r) == w.from <= r.at /\ r.at < w.until
FromSource(R, w, source) == {r \in R : r.source = source /\ Within(w, r)}

Plus(cost) == IF cost = Unpriced THEN 0 ELSE cost
Total(series) == MapThenSumSet(LAMBDA x : series[x], DOMAIN series)
NoDays == [d \in {} |-> 0]

----------------------------------------------------------------------------
(* Pricing.                                                                *)

\* rates_at: the newest card in force, the oldest for what precedes them all.
RatesAt(cards, t) ==
    LET inForce == {i \in DOMAIN cards : cards[i].from <= t /\ t < cards[i].until}
    IN  cards[IF inForce = {} THEN 1 ELSE Max(inForce)].rates

\* _lookup_model: the longest key the name starts with; none if inKeys = {}.
KeysOf(model, rates) == {k \in DOMAIN rates : IsPrefix(k, model)}
LookupModel(model, rates) ==
    rates[CHOOSE k \in KeysOf(model, rates) :
              \A other \in KeysOf(model, rates) : Len(other) <= Len(k)]

\* Exact: the code rounds each price to six decimals (anthropic_rates.py:301) and
\* budgets round a sum to cents (budgets/spend.py:213), which is left out here.
AtRates(rate, t) == rate.input * t.input + rate.output * t.output
                    + rate.read * t.read + rate.creation * t.creation

\* compute_cost_usd of anthropic_rates and of openai_rates.
ComputeCost(model, rates, tokens) ==
    IF model = NoModel \/ KeysOf(model, rates) = {} THEN Unpriced
    ELSE AtRates(LookupModel(model, rates), tokens)

\* The tiered rate of vertex_rates is chosen by the input tokens.
ResolveRates(rate, input) ==
    IF "threshold" \notin DOMAIN rate THEN rate
    ELSE IF input > rate.threshold THEN rate.high ELSE rate.low

VertexCost(model, tokens) ==
    IF model = NoModel \/ KeysOf(model, VertexRates) = {} THEN Unpriced
    ELSE AtRates(ResolveRates(LookupModel(model, VertexRates), tokens.input), tokens)

\* The flat count of tokens written to the cache, or the nested one where the
\* flat one is absent or zero.
CreationTokens(b) == IF b.flat # 0 THEN b.flat ELSE b.nested

AnthropicTokens(b) == [input |-> b.input, output |-> b.output, read |-> b.read,
                       creation |-> CreationTokens(b)]

\* OpenAI's input count contains the cached part: only the split is billed.
OpenAITokens(b) == [input |-> b.uncached, output |-> b.output,
                    read |-> b.cached, creation |-> 0]

\* One breakdown of an Anthropic record.
BreakdownCost(b, t) == ComputeCost(b.model, RatesAt(AnthropicCards, t), AnthropicTokens(b))

\* None only when no breakdown has a price.
EstimateAnthropic(r) ==
    LET costs == [i \in DOMAIN r.results |-> BreakdownCost(r.results[i], r.at)]
        known == {i \in DOMAIN costs : costs[i] # Unpriced}
    IN  IF known = {} THEN Unpriced ELSE Total([i \in known |-> costs[i]])

\* result is a set: the one grouped row, or empty for an empty bucket.
EstimateOpenAI(r) ==
    IF r.result = {} THEN Unpriced
    ELSE LET b == CHOOSE b \in r.result : TRUE
         IN  ComputeCost(b.model, OpenAIRates, OpenAITokens(b))

\* One point counts one side.
EstimateVertex(r) ==
    LET count(side) == IF r.side = side THEN r.count ELSE 0
    IN  IF r.side \notin {"input", "output"} THEN Unpriced
        ELSE VertexCost(r.model, [input |-> count("input"), output |-> count("output"),
                                  read |-> 0, creation |-> 0])

\* estimate_record_cost_usd: the billed streams are read, not estimated.
EstimateCost(r) ==
    CASE r.source = "admin"              -> EstimateAnthropic(r)
      [] r.source = "openai_admin_usage" -> EstimateOpenAI(r)
      [] r.source = "vertex_token_usage" -> EstimateVertex(r)
      [] OTHER                           -> Unpriced

VendorOf(source) ==
    CASE source \in {"vertex_token_usage", "vertex_billing_costs"} -> "Google"
      [] source \in {"openai_admin_usage", "openai_admin_costs"}   -> "OpenAI"
      [] OTHER                                                     -> "Anthropic"

----------------------------------------------------------------------------
(* GET /usage.                                                             *)

\* T5.5.6: a row without a model is hidden on a day that has a row with one,
\* whatever the window and the filters.
Superseded(R, r, b) ==
    /\ b.model = NoModel
    /\ \E other \in R : /\ other.source = "admin" /\ DayOf(other.at) = DayOf(r.at)
                        /\ \E i \in DOMAIN other.results : other.results[i].model # NoModel

\* A filter is a set of values, empty for none.
Passes(f, model, place) == /\ f.models = {} \/ model \in f.models
                           /\ f.places = {} \/ place \in f.places
NoFilter == [models |-> {}, places |-> {}]

UsageRow(r, ord, model, place, tokens) ==
    [at |-> r.at, rid |-> r.id, ord |-> ord, source |-> r.source,
     model |-> model, place |-> place, tokens |-> tokens]

AnthropicBranch(R, w, f) ==
    UNION {{UsageRow(r, i, r.results[i].model, r.results[i].place,
                     AnthropicTokens(r.results[i])) :
               i \in {j \in DOMAIN r.results :
                         /\ ~Superseded(R, r, r.results[j])
                         /\ Passes(f, r.results[j].model, r.results[j].place)}} :
           r \in FromSource(R, w, "admin")}

OpenAIBranch(R, w, f) ==
    UNION {{UsageRow(r, 1, b.model, b.place, OpenAITokens(b)) :
               b \in {c \in r.result : Passes(f, c.model, c.place)}} :
           r \in FromSource(R, w, "openai_admin_usage")}

UsageRows(R, w, f) == AnthropicBranch(R, w, f) \union OpenAIBranch(R, w, f)

\* Newest first; the parts of one record in their order.
RowBefore(a, b) ==
    \/ a.at > b.at
    \/ a.at = b.at /\ a.rid > b.rid
    \/ a.at = b.at /\ a.rid = b.rid /\ a.ord < b.ord

PriceUsageRow(source, model, tokens, t) ==
    ComputeCost(model, IF source = "openai_admin_usage" THEN OpenAIRates
                       ELSE RatesAt(AnthropicCards, t), tokens)

RowCost(row) == PriceUsageRow(row.source, row.model, row.tokens, row.at)

TokensOf(rows) == [input    |-> Total([x \in rows |-> x.tokens.input]),
                   output   |-> Total([x \in rows |-> x.tokens.output]),
                   read     |-> Total([x \in rows |-> x.tokens.read]),
                   creation |-> Total([x \in rows |-> x.tokens.creation])]

\* A bucket of rows is priced as one, at the rates of its earliest instant.
BucketCost(rows) ==
    LET x == CHOOSE x \in rows : TRUE
    IN  PriceUsageRow(x.source, x.model, TokensOf(rows), Min({y.at : y \in rows}))

\* GROUP BY: what has one key.
Buckets(key) == {{x \in DOMAIN key : key[x] = k} : k \in {key[x] : x \in DOMAIN key}}

\* The totals of the whole filtered set, by source and model.
UsageTotals(R, w, f) ==
    LET rows    == UsageRows(R, w, f)
        buckets == Buckets([x \in rows |-> <<x.source, x.model>>])
    IN  [count   |-> Cardinality(rows),
         tokens  |-> TokensOf(rows),
         cost    |-> Total([b \in buckets |-> Plus(BucketCost(b))]),
         without |-> Total([b \in {c \in buckets : BucketCost(c) = Unpriced} |-> Cardinality(b)])]

----------------------------------------------------------------------------
(* The cache recommendations and their card.                               *)

\* The tiers of reuse: 0.5 and 0.8 of what is written.
CacheRecommendation(uncached, read, creation) ==
    LET cache == read + creation
    IN  CASE uncached + cache < VolumeFloor -> "ok"
          [] uncached + cache >= VolumeFloor /\ 2 * read < cache -> "warn"
          [] uncached + cache >= VolumeFloor /\ cache = 0 -> "warn"
          [] uncached + cache >= VolumeFloor /\ 2 * read >= cache
                /\ cache > 0 /\ 10 * read < 8 * cache -> "info"
          [] OTHER -> "ok"

\* By model, of Anthropic's rows, the superseded ones hidden.
CacheRecommendations(R, w) ==
    LET rows == AnthropicBranch(R, w, NoFilter)
    IN  {LET t == TokensOf(b)
         IN  [model |-> (CHOOSE x \in b : TRUE).model, tokens |-> t,
              severity |-> CacheRecommendation(t.input, t.read, t.creation)] :
         b \in Buckets([x \in rows |-> x.model])}

\* All of Anthropic's rows, superseded or not: the SQL of the insights.
PlainRows(R, w) ==
    UNION {{UsageRow(r, i, r.results[i].model, r.results[i].place,
                     AnthropicTokens(r.results[i])) : i \in DOMAIN r.results} :
           r \in FromSource(R, w, "admin")}

AnthropicItems(R, w) ==
    {LET t == TokensOf(b)
     IN  [model |-> (CHOOSE x \in b : TRUE).model,
          severity |-> IF 10 * t.read < 3 * (t.read + t.creation) THEN "action"
                       ELSE CacheRecommendation(t.input, t.read, t.creation)] :
     b \in {c \in Buckets([x \in PlainRows(R, w) |-> x.model]) :
               LET t == TokensOf(c)
               IN  /\ CacheRecommendation(t.input, t.read, t.creation) # "ok"
                   /\ t.read + t.creation > 0}}

\* 0.05 and 0.30 of the input.
OpenAICacheRecommendation(uncached, cached) ==
    CASE uncached + cached < VolumeFloor -> "ok"
      [] uncached + cached >= VolumeFloor
            /\ 100 * cached < 5 * (uncached + cached) -> "warn"
      [] uncached + cached >= VolumeFloor
            /\ 100 * cached >= 5 * (uncached + cached)
            /\ 100 * cached < 30 * (uncached + cached) -> "info"
      [] OTHER -> "ok"

OpenAIItems(R, w) ==
    {LET t == TokensOf(b)
     IN  [model |-> (CHOOSE x \in b : TRUE).model,
          severity |-> OpenAICacheRecommendation(t.input, t.read)] :
     b \in {c \in Buckets([x \in OpenAIBranch(R, w, NoFilter) |-> x.model]) :
               LET t == TokensOf(c) IN OpenAICacheRecommendation(t.input, t.read) # "ok"}}

CacheCard(R, w) ==
    LET items == AnthropicItems(R, w) \union OpenAIItems(R, w)
        has(s) == \E i \in items : i.severity = s
    IN  [items |-> items,
         severity |-> CASE has("action") -> "action"
                        [] has("warn") /\ ~has("action") -> "warning"
                        [] has("info") /\ ~has("warn") /\ ~has("action") -> "advisory"
                        [] OTHER -> "idle"]

----------------------------------------------------------------------------
(* The spend of budgets, days, models, workspaces and vendors.             *)

\* compute_spend_in_window: the scope is a filter; a row without a price
\* adds nothing.
ComputeSpend(R, w, f) == Total([x \in AnthropicBranch(R, w, f) |-> Plus(RowCost(x))])

\* A sparse series: the days that have at least one priced bucket.
DailySpend(R, w) ==
    LET buckets == Buckets([x \in PlainRows(R, w) |-> <<DayOf(x.at), x.model>>])
        priced  == {b \in buckets : BucketCost(b) # Unpriced}
        day(b)  == DayOf((CHOOSE x \in b : TRUE).at)
    IN  [d \in {day(b) : b \in priced} |->
            Total([b \in {c \in priced : day(c) = d} |-> BucketCost(b)])]

\* By model over the window; the share is of the priced total.
ModelSpend(R, w) ==
    LET buckets == {b \in Buckets([x \in PlainRows(R, w) |-> x.model]) :
                       BucketCost(b) # Unpriced}
        model(b) == (CHOOSE x \in b : TRUE).model
    IN  [m \in {model(b) : b \in buckets} |->
            BucketCost(CHOOSE b \in buckets : model(b) = m)]

\* By workspace and model; rows of no workspace are left out.
WorkspaceSpend(R, w) ==
    LET rows    == {x \in PlainRows(R, w) : x.place # NoPlace}
        buckets == {b \in Buckets([x \in rows |-> <<x.place, x.model>>]) :
                       BucketCost(b) # Unpriced}
        place(b) == (CHOOSE x \in b : TRUE).place
    IN  [p \in {place(b) : b \in buckets} |->
            Total([b \in {c \in buckets : place(c) = p} |-> BucketCost(b)])]

PriceByDay(R, w, source) ==
    LET priced == {r \in FromSource(R, w, source) : EstimateCost(r) # Unpriced}
    IN  [d \in {DayOf(r.at) : r \in priced} |->
            Total([r \in {q \in priced : DayOf(q.at) = d} |-> EstimateCost(r)])]

\* The billed days; a day that sums to zero is left out.
Billed(R, w) == {r \in FromSource(R, w, "openai_admin_costs") : r.amount # NoAmount}
\* Mutant of OpenAIActual: a day that sums to zero counts as billed.
ActualWithZeros(R, w) ==
    [d \in {DayOf(r.at) : r \in Billed(R, w)} |->
        Total([r \in {q \in Billed(R, w) : DayOf(q.at) = d} |-> r.amount])]

OpenAIActual(R, w) ==
    LET onDay(d) == Total([r \in {q \in Billed(R, w) : DayOf(q.at) = d} |-> r.amount])
    IN  [d \in {e \in {DayOf(r.at) : r \in Billed(R, w)} : onDay(e) # 0} |-> onDay(d)]

\* One billed day in the window hides what the other days' tokens would cost.
VendorBreakdown(R, w) ==
    LET actual == OpenAIActual(R, w)
    IN  [Anthropic |-> [daily |-> PriceByDay(R, w, "admin"), basis |-> "estimated"],
         OpenAI    |-> IF actual # NoDays
                       THEN [daily |-> actual, basis |-> "authoritative"]
                       ELSE [daily |-> PriceByDay(R, w, "openai_admin_usage"),
                             basis |-> "estimated"]]

----------------------------------------------------------------------------
(* The cards of model mix, attribution and forecast.                       *)

\* All of a record's cost goes to the first model it names.
ModelOf(r) ==
    IF r.source = "openai_admin_usage"
    THEN IF r.result = {} THEN NoModel ELSE (CHOOSE b \in r.result : TRUE).model
    ELSE LET named == {i \in DOMAIN r.results : r.results[i].model # NoModel}
         IN  IF named = {} THEN NoModel ELSE r.results[Min(named)].model

VendorModelCosts(R, w) ==
    LET counted == {r \in FromSource(R, w, "admin") \union FromSource(R, w, "openai_admin_usage") :
                       EstimateCost(r) # Unpriced /\ ModelOf(r) # NoModel}
        key(r)  == <<VendorOf(r.source), ModelOf(r)>>
    IN  [k \in {key(r) : r \in counted} |->
            Total([r \in {q \in counted : key(q) = k} |-> EstimateCost(r)])]

VendorCost(costs, v) == Total([k \in {j \in DOMAIN costs : j[1] = v} |-> costs[k]])
CostAt(costs, k)     == IF k \in DOMAIN costs THEN costs[k] ELSE 0

\* A share that moved by part/100, or a spend that grew threefold.  now and
\* then are the spends, all and before the totals; no spend before is share 0.
Flagged(now, then, all, before, part) ==
    LET t     == IF before = 0 THEN 1 ELSE before
        delta == now * t - then * all
    IN  \/ 100 * delta >= part * all * t \/ -100 * delta >= part * all * t
        \/ then > 0 /\ now >= 3 * then

\* Idle when this week has no spend.
ModelMix(R, week, prior) ==
    LET cur == VendorModelCosts(R, week)
        old == VendorModelCosts(R, prior)
    IN  IF Total(cur) = 0 THEN {}
        ELSE {v \in {"Anthropic", "OpenAI"} :
                  Flagged(VendorCost(cur, v), VendorCost(old, v), Total(cur), Total(old), 20)}
             \union
             {k[2] : k \in {j \in DOMAIN cur \union DOMAIN old :
                  Flagged(CostAt(cur, j), CostAt(old, j), Total(cur), Total(old), 30)}}

\* The billed cost centres; one without a positive amount is left out.
ProjectCosts(R, w) ==
    LET at(p) == Total([r \in {q \in Billed(R, w) : q.place = p} |-> r.amount])
    IN  [p \in {q \in {r.place : r \in Billed(R, w)} : at(q) > 0} |-> at(p)]

ProjectEstimate(R, w) ==
    LET priced == {r \in FromSource(R, w, "openai_admin_usage") : EstimateCost(r) # Unpriced}
    IN  [p \in {r.place : r \in priced} |->
            Total([r \in {q \in priced : q.place = p} |-> EstimateCost(r)])]

OpenAIEntries(R, w) == IF ProjectCosts(R, w) # NoDays THEN ProjectCosts(R, w)
                       ELSE ProjectEstimate(R, w)

\* Both vendors' centres in one ranking; the first at 60% or more dominates.
WorkspaceCard(R, w) ==
    LET ws  == WorkspaceSpend(R, w)
        pr  == OpenAIEntries(R, w)
        all == Total(ws) + Total(pr)
    IN  [total |-> all,
         dominant |-> {p \in DOMAIN ws : 100 * ws[p] >= 60 * all}
                      \union {p \in DOMAIN pr : 100 * pr[p] >= 60 * all}]

\* The month's level: billed if anything is, else estimated.
MonthToDate(R, month) ==
    LET billed == Total([r \in Billed(R, month) |-> r.amount])
    IN  IF billed > 0 THEN billed ELSE Total(PriceByDay(R, month, "openai_admin_usage"))

\* What the forecast starts from; its basis is that of the trailing window.
VendorForecast(R, month, trailing) ==
    [current |-> MonthToDate(R, month), basis |-> VendorBreakdown(R, trailing).OpenAI.basis]

----------------------------------------------------------------------------
(* GET /me/capabilities.                                                   *)

\* What the tiles of each vendor light up for: records of a stream (none is 90
\* days old here) or a sealed key.  Labels and the side table of OpenAI's users
\* are not in the records and left out; Google's users are never told apart.
Capabilities(R, sealed) ==
    LET of(name, source) == IF \E r \in R : r.source = source THEN {name} ELSE {}
        ifSealed(name, key) == {name : k \in sealed \intersect {key}}
        byUser == {r \in R : r.source = "openai_admin_usage" /\ "subject_user_id" \in DOMAIN r.who}
    IN  [Anthropic |-> of("admin_api", "admin") \union of("activity_feed", "compliance_activities")
                       \union of("code_analytics", "code_analytics")
                       \union of("mcp_connector", "mcp")
                       \union ifSealed("content_capture", "compliance"),
         OpenAI    |-> of("admin", "openai_admin_usage") \union ifSealed("admin", "openai")
                       \union of("costs", "openai_admin_costs")
                       \union of("audit_logs", "openai_audit_logs")
                       \union {"per_user_breakdown" : r \in byUser},
         Google    |-> {"project_attribution"} \union of("cost", "vertex_billing_costs")
                       \union of("usage", "vertex_token_usage")]

============================================================================
