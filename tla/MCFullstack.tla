----------------------------- MODULE MCFullstack ------------------------------
(* Artifacts and decisions for FullstackReconcile, as TLC is given them. *)
EXTENDS Sequences

Records == <<"api", "posts", "rows">>
Auth == <<"api", "collections", "{c}", "auth">>

Op(id, verb, path, collection, ctype, access) ==
  [id |-> id, verb |-> verb, path |-> path, collection |-> collection, ctype |-> ctype,
   access |-> access, gated |-> FALSE]
Reserved(method, path) == [method |-> method, path |-> path]
Posts(rest) == <<"api", "collections", "posts">> \o rest

Contract ==
  [reserved |-> <<Reserved("GET", <<"features">>), Reserved("HEAD", <<"features">>), Reserved("POST", Auth)>>,
   prefixes |-> {<<"_">>}, admin |-> TRUE, feature |-> <<"features">>,
   builtins |-> {[id |-> "signin", verb |-> "POST", path |-> Auth, access |-> "public"]},
   operations |-> {Op("list", "GET", Posts(<<"rows">>), "posts", "base", "conditional"),
                   Op("create", "POST", Posts(<<"rows">>), "posts", "base", "authenticated"),
                   Op("member", "POST", <<"api", "collections", "users", "rows">>, "users", "auth", "public"),
                   Op("sealed", "GET", Posts(<<"auth">>), "posts", "base", "locked"),
                   [Op("publish", "POST", <<"publish">>, "none", "none", "authenticated") EXCEPT !.gated = TRUE]},
   consumerRoutes |-> TRUE]

(* contracts the coordinator must look at before it believes them *)
Contracts ==
  { Contract,
    [Contract EXCEPT !.admin = FALSE, !.prefixes = {}],
    [Contract EXCEPT !.prefixes = {}],
    [Contract EXCEPT !.feature = <<"hook">>],
    [Contract EXCEPT !.feature = <<"hook">>,
       !.reserved = @ \o <<Reserved("GET", <<"hook">>), Reserved("HEAD", <<"hook">>)>>],
    [Contract EXCEPT !.reserved = @ \o <<Reserved("POST", <<"api", "collections", ":id", "auth">>)>>],
    [Contract EXCEPT !.reserved = SubSeq(@, 1, 2)],
    [Contract EXCEPT !.consumerRoutes = FALSE],
    [Contract EXCEPT !.operations = @ \cup {Op("list", "GET", <<"about">>, "none", "none", "public")}],
    [Contract EXCEPT !.operations = @ \cup {Op("stray", "GET", <<"hook">>, "posts", "base", "public")}] }

Create == [name |-> "create", methods |-> {"POST"}, path |-> <<"posts">>, internal |-> FALSE]
Either == [name |-> "any", methods |-> {"GET", "POST"}, path |-> <<"posts">>, internal |-> FALSE]
About == [name |-> "about", methods |-> {"GET"}, path |-> <<"about">>, internal |-> TRUE]

NoEndpoint == [id |-> "none", verb |-> "none", path |-> <<>>, named |-> <<>>]
Endpoint(id, verb, path) == [id |-> id, verb |-> verb, path |-> path, named |-> path]
F(code, n) == [code |-> code, n |-> n]
HandoffRow(id, status, endpoint, findings, answered) ==
  [id |-> id, status |-> status, endpoint |-> endpoint, findings |-> findings, decisions |-> answered]

Case(id, method, path, control) == [id |-> id, method |-> method, path |-> path, control |-> control]
Check(id, kind, url, operation, method, collection) ==
  [id |-> id, kind |-> kind, url |-> url, operation |-> operation, method |-> method, collection |-> collection]

Cases ==
  { Case("ok", "POST", Posts(<<"rows">>), "allowed"), Case("no", "POST", Posts(<<"rows">>), "denied"),
    Case("hook", "POST", <<"hook">>, "allowed"), Case("hooked", "POST", <<"hook", "{{v}}">>, "denied"),
    Case("read", "GET", <<"hook">>, "allowed"),
    Case("enter", "POST", <<"api", "collections", "users", "auth">>, "allowed"),
    Case("plain", "POST", Posts(<<"rows">>), "none") }

B(id) == [kind |-> "backend", id |-> id]
W(id) == [kind |-> "browser", id |-> id]

CreateDecisions ==
  [disposition : {"migrated", "blocked", "retained"}, surface : {"browser", "api", "internal"},
   operation : {"none", "create", "publish", "ghost"}, access : {"none", "authenticated", "public"},
   methodRationale : BOOLEAN,
   parity : {{}, {B("ok")}, {B("ok"), B("no")}, {W("submit"), B("no")}, {W("submit"), W("refused")},
             {W("submit"), W("elsewhere")}, {B("hook")}, {B("hook"), B("hooked")}, {B("plain")}, {B("read")}, {B("enter")}, {W("style")}, {W("join")}},
   blockers : {{}, {F("helper", 0)}, {F("helper", 1)}}]

AboutDecisions ==
  [disposition : {"migrated", "blocked", "retained"}, surface : {"browser", "internal"},
   operation : {"none"}, access : {"none"}, methodRationale : {FALSE}, parity : {{}, {W("look")}},
   blockers : {{}, {F("haml", 0)}, {F("haml", 1)}, {F("helper", 0)}, {F("helper", 1)}, {F("helper", 0), F("haml", 1)}}]

Migration ==
  [contract |-> Contract, complete |-> TRUE, backend |-> {Create},
   presentation |-> <<[id |-> "POST /posts", route |-> Create], [id |-> "GET /about", route |-> About]>>,
   handoff |-> {HandoffRow("GET /about", "migrated", NoEndpoint, {}, {})},
   findings |-> {[id |-> F("haml", 1), route |-> "GET /about"], [id |-> F("helper", 1), route |-> "POST /posts"]},
   blockers |-> {},
   replay |-> [findings |-> {[id |-> c.id, result |-> "pass"] : c \in Cases}, capture |-> Cases],
   browser |-> { Check("submit", "submit_allowed", Posts(<<"rows">>), "create", "POST", "posts"),
                 Check("refused", "submit_denied", Posts(<<"rows">>), "create", "POST", "posts"),
                 Check("elsewhere", "submit_denied", <<"publish">>, "publish", "POST", "none"),
                 Check("join", "signup", <<"api", "collections", "users", "rows">>, "none", "none", "users"),
                 Check("look", "navigate", <<"about">>, "none", "none", "none"),
                 Check("style", "asset", <<"about">>, "none", "none", "none") },
   answered |-> {Create, About}]

MCDecisions == [create |-> CreateDecisions, any |-> CreateDecisions, about |-> AboutDecisions]

(* POST /posts as a row of the handoff *)
With(status, endpoint, findings, answered) ==
  [Migration EXCEPT !.handoff = @ \cup {HandoffRow("POST /posts", status, endpoint, findings, answered)}]

AboutBlocked(blockers, findings, answered) ==
  [Migration EXCEPT !.handoff = {HandoffRow("GET /about", "blocked", NoEndpoint, findings, answered)},
                    !.blockers = blockers]

CustomPaths ==
  { <<"_", "hook">>, <<":id", "hook">>, <<"features">>, <<":id">>, <<"hook">>, <<"hook", "{c}">>,
    <<"api", "collections", ":id", "rows">>, <<"api", "collections", ":id", "auth">>, <<"hook", "%2F">> }

MCMigrations ==
  {[Migration EXCEPT !.contract = c] : c \in Contracts}
  \cup {[With("backend", Endpoint("custom", verb, path), {}, {}) EXCEPT !.contract = c] :
          verb \in {"GET", "POST"}, path \in CustomPaths, c \in {Contract} \cup {d \in Contracts : d.feature = <<"hook">>}}
  \cup {With(status, NoEndpoint, {}, {}) : status \in {"migrated", "blocked", "retained", "backend", "redirect", "open"}}
  \cup {With("backend", Endpoint("create", "POST", Posts(<<"rows">>)), {}, {}),
        With("backend", Endpoint("create", "GET", Posts(<<"rows">>)), {}, {}),
        With("backend", Endpoint("sealed", "GET", Posts(<<"auth">>)), {}, {}),
        With("backend", Endpoint("list", "GET", Posts(<<"rows">>)), {}, {}),
        With("backend", Endpoint("signin", "POST", <<"api", "collections", "users", "auth">>), {}, {}),
        With("backend", Endpoint("signin", "POST", <<"api", "collections", "posts", "auth">>), {}, {}),
        With("backend", [Endpoint("custom", "POST", <<"hook">>) EXCEPT !.named = <<"other">>], {}, {}),
        With("blocked", NoEndpoint, {F("helper", 1)}, {F("helper", 1)}),
        With("blocked", NoEndpoint, {}, {F("helper", 1)}) }
  \cup {AboutBlocked(blockers, findings, answered) :
          blockers \in {{}, {[code |-> "haml", route |-> "GET /about"]}, {[code |-> "helper", route |-> "none"]},
                        {[code |-> "haml", route |-> "POST /posts"]}},
          findings \in {{}, {F("haml", 1)}, {F("helper", 1), F("haml", 1)}}, answered \in {{}, {F("haml", 1)}}}
  \cup { [Migration EXCEPT !.complete = FALSE],
         [Migration EXCEPT !.replay.findings = {}],
         [Migration EXCEPT !.replay.findings = {f \in @ : f.id # "ok"} \cup {[id |-> "ok", result |-> "fail"]}],
         [Migration EXCEPT !.replay.findings = {f \in @ : f.id # "no"}],
         [Migration EXCEPT !.answered = {Create}],
         [Migration EXCEPT !.answered = {Create, About, Either}],
         [Migration EXCEPT !.backend = {Either}, !.answered = {Create, About, Either}],
         [Migration EXCEPT !.presentation = @ \o <<[id |-> "GET /about", route |-> [About EXCEPT !.name = "any"]]>>,
                           !.answered = @ \cup {[About EXCEPT !.name = "any"]}],
         [Migration EXCEPT !.handoff = {}] }
===============================================================================
