----------------------------- MODULE InvestigationMC -----------------------------
(* An instance of Investigation: two applications, three databases and      *)
(* questions that reach every route, window and way to name a subject.     *)
EXTENDS Investigation

CONSTANTS shop, blog, orders, users, logs

MCApplications == {shop, blog}
MCDatabases == {orders, users, logs}

Ask(concepts, mentions, named) ==
  [concepts |-> concepts, mentions |-> mentions, named |-> named, refers |-> "no", history |-> <<>>,
   times |-> <<>>, window |-> {}, now |-> 10, place |-> "word", seeded |-> FALSE]

AboutHost ==
  {Ask({"assessment"}, {"platform"}, {}), Ask({"trend"}, {"thermal", "platform"}, {}),
   [Ask({"incident"}, {"recovery"}, {}) EXCEPT !.window = {"yesterday"}],
   [Ask({"incident"}, {"recovery"}, {}) EXCEPT !.times = <<9, 3>>],
   Ask({"exact"}, {"platform"}, {}), Ask({"assessment"}, {"platform"}, {Host}), Ask({}, {}, {}), Ask({"comparison"}, {"platform"}, {}),
   [Ask({"causal"}, {}, {}) EXCEPT !.place = "none"]}

AboutApplications ==
  {Ask({"assessment"}, {"application"}, {shop}),
   [Ask({"assessment"}, {"application"}, {shop}) EXCEPT !.window = {"now"}],
   [Ask({"trend"}, {"application", "runtime"}, {shop}) EXCEPT !.window = {"today"}],
   [Ask({"assessment"}, {"application", "performance"}, {shop}) EXCEPT !.window = {"now"}],
   Ask({"causal"}, {"deployment"}, {shop}),
   [Ask({"causal"}, {"deployment"}, {shop}) EXCEPT !.times = <<3, 9>>],
   Ask({"assessment"}, {"application"}, {shop, blog}), Ask({"assessment"}, {"application"}, {Host, shop}),
   [Ask({"location"}, {}, {shop}) EXCEPT !.seeded = TRUE], Ask({"location"}, {}, {shop})}

AboutDatabases ==
  {Ask({"assessment"}, {"database"}, {}), Ask({"assessment"}, {"database"}, {orders})}

AboutTheConversation ==
  {[Ask({"causal"}, {"deployment"}, {}) EXCEPT !.refers = refers, !.history = history] :
     refers \in {"it", "this"},
     history \in {<<{blog}, {shop}>>, <<{shop}, {}>>, <<{blog, shop}>>, <<{shop}, {blog, shop}>>}}

MCQuestions == AboutHost \cup AboutApplications \cup AboutDatabases \cup AboutTheConversation
================================================================================
