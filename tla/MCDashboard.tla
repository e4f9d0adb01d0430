---------------------------- MODULE MCDashboard ----------------------------
(***************************************************************************)
(* Dashboard on two small tenants: one with usage and bills, days of two   *)
(* instants and a card of rates that changes on the second day; one with   *)
(* people, with few operations on all the records, or more on one record.  *)
(***************************************************************************)
EXTENDS Dashboard, TLC

CONSTANTS p1, p2

MCEmail == [ann |-> "ann@x", bob |-> "bob@x"]

Price(i, o) == [input |-> i, output |-> o, read |-> 1, creation |-> 3]
Old == (<<"sonnet">> :> Price(2, 4)) @@ (<<"opus">> :> Price(6, 8))
New == Old @@ (<<"opus", "4-7">> :> Price(5, 7))
MCAnthropicCards == <<[from |-> 0, until |-> 2, rates |-> Old],
                      [from |-> 2, until |-> 1000, rates |-> New]>>
MCOpenAIRates == (<<"gpt-4o">> :> Price(3, 5)) @@ (<<"gpt-4o", "mini">> :> Price(1, 2))
MCVertexRates == <<"gemini">> :> [threshold |-> 3, low |-> Price(1, 2), high |-> Price(2, 3)]

Part(m, place, i, flat, nested) ==
    [model |-> m, place |-> place, input |-> i, output |-> 1, read |-> 1,
     flat |-> flat, nested |-> nested]
Admin(id, at, parts) == [id |-> id, source |-> "admin", at |-> at, who |-> <<>>,
                         summary |-> FALSE, results |-> parts]
OpenAI(id, at, model, place) ==
    [id |-> id, source |-> "openai_admin_usage", at |-> at, summary |-> FALSE,
     who |-> [user_email |-> "bob@x", subject_user_id |-> "user-bob"], place |-> place,
     result |-> {[model |-> model, place |-> place, uncached |-> 3, cached |-> 1, output |-> 1]}]
Bill(id, at, place, amount) ==
    [id |-> id, source |-> "openai_admin_costs", at |-> at, who |-> <<>>, summary |-> FALSE,
     place |-> place, amount |-> amount]

Point(id, at, side, count) ==
    [id |-> id, source |-> "vertex_token_usage", at |-> at, who |-> <<>>, summary |-> FALSE,
     model |-> <<"gemini", "pro">>, side |-> side, count |-> count]

SpendFeed ==
    {Admin(1, 0, <<Part(NoModel, NoPlace, 4, 0, 0)>>),
     Admin(2, 1, <<Part(<<"opus", "4-7">>, "ws", 1, 0, 2), Part(<<"sonnet">>, NoPlace, 2, 5, 2)>>),
     Admin(3, 2, <<Part(<<"opus", "4-7">>, "ws", 3, 0, 0)>>),
     Admin(4, 2, <<Part(<<"haiku">>, NoPlace, 2, 0, 0)>>),
     OpenAI(5, 2, <<"gpt-4o", "mini">>, "proj"),
     Bill(6, 1, "proj", 4),
     Bill(7, 2, NoPlace, 0),
     Point(8, 2, "input", 4), Point(9, 2, "output", 1)}

Person(id, at, source, who, summary) ==
    [id |-> id, source |-> source, at |-> at, who |-> who, summary |-> summary,
     surface |-> "", tool |-> FALSE, model |-> <<"opus", "4-7">>, input |-> 2, output |-> id]

PeopleFeed ==
    {Person(1, 0, "mcp", [user_email |-> "ann@x"], TRUE),
     Person(2, 1, "mcp", [user_email |-> "a|b"], TRUE),
     Person(3, 1, "code_analytics", [type |-> "api_actor", api_key_name |-> "ci"], FALSE),
     Person(4, 2, "mcp", [user_email |-> "ann@x"], TRUE)}

MCScenarios ==
    {[feed |-> SpendFeed,  work |-> 1, staff |-> [ann |-> "admin", bob |-> "member"]],
     [feed |-> PeopleFeed, work |-> 2, staff |-> [ann |-> "admin", bob |-> "admin"]],
     [feed |-> {r \in PeopleFeed : r.id = 1}, work |-> 5,
      staff |-> [ann |-> "member", bob |-> "admin"]],
     [feed |-> {r \in PeopleFeed : r.id \in {1, 2}}, work |-> 2,
      staff |-> [ann |-> "absent", bob |-> "admin"]]}

MCWindows == {[from |-> 0, until |-> 4], [from |-> 2, until |-> 4]}
MCUsageFilters == {NoFilter, [models |-> {<<"opus", "4-7">>}, places |-> {}]}

MCWire == [name |-> [x \in {"", "ann@x", "a|b", "ci", "user_actor", "api_actor"} |->
                        IF x = "a|b" THEN "a_b" ELSE x],
           collation |-> <<"a|b", "ann@x", "api_actor", "ci", "user_actor", "">>]

DashboardSymmetry == Permutations({p1, p2})
============================================================================
