------------------------------ MODULE MCPbMapping ------------------------------
(* Exports for PbMapping, as TLC is given them; values as that module has them. *)
EXTENDS TLC

Null == "null"
NoName == "none"
V(k, v) == [k |-> k, v |-> v]
Nil == V("null", <<>>)
RuleKeys == {"listRule", "viewRule", "createRule", "updateRule", "deleteRule"}
Field(name, type) == [name |-> name, type |-> type, to |-> NoName, required |-> FALSE]

PbRules(list, manage) ==
  [k \in RuleKeys \cup {"manageRule", "authRule"} |->
     CASE k = "listRule" -> list [] k = "manageRule" -> manage [] k = "authRule" -> "verified = true"
       [] OTHER -> Null]
PbField(id, name, type) ==
  [id |-> id, name |-> name, type |-> type, system |-> FALSE, hidden |-> FALSE, odd |-> FALSE,
   required |-> FALSE, many |-> FALSE, to |-> NoName]
PbRow(id, vals) == [id |-> id, stamps |-> {"created", "updated"}, bcrypt |-> TRUE, vals |-> vals]
T(t) == V("text", <<t>>)
PbTitle == PbField("f1", "title", "text")

PbPosts ==
  [id |-> "c1", name |-> "posts", kind |-> "base", system |-> FALSE, fields |-> {PbTitle},
   rules |-> PbRules(Null, Null), indexes |-> {}, methods |-> {}, password |-> TRUE,
   rows |-> {PbRow("r1", [title |-> T("a")])}]
PbTags == [PbPosts EXCEPT !.id = "c2", !.name = "tags"]
PbUsers == [PbPosts EXCEPT !.id = "c3", !.name = "users", !.kind = "auth", !.rules = PbRules("owner", Null)]
PbSource(collections) ==
  [collections |-> collections, storage |-> {}, hooks |-> FALSE, go |-> FALSE]

(* one more field, of every type, with values it has and has not *)
PbValues ==
  {Nil, T(""), T("r1"), V("int", <<"1">>), V("int", <<"7">>), V("real", <<"1.5">>),
   V("list", <<"a", "b">>), V("list", <<>>), V("bytes", <<"b">>)}
PbTyped ==
  {PbSource({[PbPosts EXCEPT
      !.fields = @ \cup {[PbField("f2", "x", t) EXCEPT !.hidden = h, !.odd = o, !.many = m,
                            !.required = r /\ ~h, !.to = IF t = "relation" THEN "c2" ELSE NoName]},
      !.rows = {PbRow("r1", [title |-> T("a"), x |-> v])}], PbTags}) :
     t \in {"text", "bool", "number", "json", "select", "relation", "date"},
     h, o, m, r \in BOOLEAN, v \in PbValues}
  \cup
  {PbSource({[PbPosts EXCEPT
      !.fields = @ \cup {[PbField("f2", n, t) EXCEPT !.hidden = h]},
      !.rows = {PbRow("r1", [title |-> T("a")] @@ (n :> T("v")))}]}) :
     n \in {"x", "1st", "verified", "created"}, t \in {"text", "autodate", "geoPoint", "vector"}, h \in BOOLEAN}

(* files: kept, of several, lost, of nobody *)
PbFiles ==
  {[PbSource({[PbPosts EXCEPT !.name = n,
      !.fields = @ \cup {[PbField("f2", "doc", "file") EXCEPT !.many = m, !.odd = o]},
      !.rows = {PbRow("r1", [title |-> T("a"), doc |-> IF m THEN V("list", <<"p", "q">>) ELSE T("p")]),
                PbRow("r2", [title |-> T("a"), doc |-> IF m THEN V("list", <<>>) ELSE T("p")])}]})
      EXCEPT !.storage = s] :
     n \in {"posts", "my-posts"}, m, o \in BOOLEAN,
     s \in SUBSET {<<"c1", "r1", "p">>, <<"c1", "r1", "q">>, <<"c1", "r2", "p">>}}

(* collections, rules, indexes and links *)
PbIndex(name, columns, simple) == [name |-> name, columns |-> columns, simple |-> simple, own |-> FALSE]
PbLinks ==
  {PbSource({[PbPosts EXCEPT
      !.fields = @ \cup {[PbField("f2", "tag", "relation") EXCEPT !.to = "c2", !.odd = o]},
      !.rules = PbRules(r, g), !.indexes = i,
      !.rows = {PbRow("r1", [title |-> T("a"), tag |-> T("")])}],
    [PbTags EXCEPT !.name = t[1], !.kind = t[2], !.system = t[3]]}) :
     o \in BOOLEAN, r \in {Null, "", "owner", "macro"}, g \in {Null, ""},
     i \in {{}, {PbIndex("by_tag", {"tag"}, TRUE), PbIndex("odd", {"title"}, FALSE)}},
     t \in ({"tags", "my-tags"} \X {"base", "view"} \X {FALSE}) \cup {<<"tags", "base", TRUE>>}}

PbAccounts ==
  {[PbSource({[PbUsers EXCEPT !.methods = m, !.password = p, !.rules["listRule"] = l,
                 !.rules["authRule"] = a,
                 !.fields = @ \cup {[PbField("f9", "email", "email") EXCEPT !.system = TRUE, !.odd = o]},
                 !.rows = {[PbRow("r1", [title |-> T("a"), email |-> T("e")]) EXCEPT !.bcrypt = b]}]})
      EXCEPT !.hooks = h, !.go = h] :
     m \in {{}, {"mfa"}}, p, b, h, o \in BOOLEAN, l \in {Null, "owner", ""}, a \in {Null, "verified = true"}}

PbBare == {PbSource({[PbPosts EXCEPT !.rows = {[PbRow("r1", [title |-> T("a")]) EXCEPT !.stamps = t]}]}) :
             t \in SUBSET {"created", "updated"}}

MCExports == UNION {PbTyped, PbFiles, PbLinks, PbAccounts, PbBare}
MCNewFields == {Field("fresh", "text"), Field("second", "text")}
===============================================================================
