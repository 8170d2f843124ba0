------------------------------ MODULE MCRailsRows ------------------------------
(* Snapshots for RailsRows, as TLC is given them; values as that module has them. *)
EXTENDS Sequences, TLC

V(k, v) == [k |-> k, v |-> v]
Null == V("null", "")
Bad == V("bad", "")
Text(t) == V("text", t)

MCJson(t) == CASE t = "null" -> Null [] t = "[]" -> V("list", "[]") [] t = "0" -> V("int", "0")
               [] OTHER -> Bad
MCStrip(t) == CASE t = " " -> "" [] t = " false " -> "false" [] OTHER -> t
MCLower(t) == CASE t = "False" -> "false" [] t = "ON" -> "on" [] OTHER -> t
MCServable(w) == IF w = "my photo" THEN "my_photo" ELSE w
MCFolded(n) == IF n \in {"on-title", "on_title"} THEN "on_title" ELSE n

Touched == [created_at |-> Text("t1"), updated_at |-> Text("t2")]
Row(id, vals) == [id |-> V("int", id), vals |-> vals @@ Touched]
Field(name, column, type) ==
  [name |-> name, column |-> column, type |-> type, enum |-> <<>>, mode |-> "", required |-> FALSE]
Id(columns) == [c \in columns |-> c]

Users == [table |-> "users", collection |-> "users", is_auth |-> TRUE, digest |-> "digest",
          columns |-> {"email", "digest", "created_at", "updated_at"},
          field_names |-> Id({"email"}),
          fields |-> {[Field("email", "email", "text") EXCEPT !.required = TRUE]},
          relations |-> <<>>, attachments |-> <<>>, attachment_names |-> <<>>, indexes |-> {},
          routable |-> FALSE, separate |-> FALSE]
Posts == [Users EXCEPT !.table = "posts", !.collection = "articles", !.is_auth = FALSE, !.digest = "",
                       !.columns = {"x", "created_at", "updated_at"}, !.field_names = Id({"x"}),
                       !.fields = {Field("x", "x", "text")}]

User(id, email) == Row(id, [email |-> Text(email), digest |-> Text("bcrypt")])
Base == [mapped |-> <<Users, Posts>>,
         rows |-> [users |-> <<User("1", "a@x")>>, posts |-> <<>>],
         linked |-> <<>>, accounts |-> {}, attached |-> <<>>,
         models |-> [User |-> "users", Post |-> "posts", Old |-> "old"],
         blobs |-> {"k1", "k2", "k3"}, local |-> TRUE, counts |-> [users |-> 1], emit |-> TRUE]

(* two rows of one column, of each type and value *)
Values(type, enum) ==
  CASE enum -> {V("int", "0"), V("int", "7"), Text("draft"), Text("banana")}
    [] ~enum /\ type = "bool" ->
         {Null, Text(""), Text(" "), Text("f"), Text("FALSE"), Text("False"), Text(" false "),
          Text("true"), Text("ON"), Text("banana"), V("int", "0"), V("int", "1")}
    [] ~enum /\ type = "number" ->
         {Null, V("int", "2"), V("real", "1.5"), V("real", "1e20"), V("real", "inf"),
          V("decimal", "1.5"), Text("banana")}
    [] ~enum /\ type = "json" -> {Null, Text("null"), Text("[]"), Text("0"), Text("banana")}
    [] ~enum /\ type = "date" -> {Null, Text(""), Text("t1"), Text("banana")}
    [] OTHER -> {Null, Text(""), Text("[]"), Text("banana"), Text("huge"), V("int", "2"), V("bytes", "b")}

Index(name, rank, column, unique, where) ==
  [name |-> name, rank |-> rank, column |-> column, unique |-> unique, where |-> where,
   reviewed |-> FALSE]
Column(type, enum, q, m, a, b) ==
  [Base EXCEPT
     !.mapped[2].fields = {[Field("x", "x", type) EXCEPT !.required = q, !.mode = m,
        !.enum = IF enum THEN [o \in {"0", "1"} |-> IF o = "0" THEN "draft" ELSE "live"] ELSE <<>>]},
     !.mapped[2].indexes = {Index("on-title", 1, "x", TRUE, a = b),
                            Index("on_title", 2, "x", FALSE, FALSE), Index("gone", 3, "y", TRUE, FALSE)},
     !.rows["posts"] = <<Row("1", [x |-> a]), Row("2", [x |-> b])>>]
Pairs(type, enum) ==
  {z \in Values(type, enum) \X Values(type, enum) \X BOOLEAN : z[3] => Null \notin {z[1], z[2]}}
Columns ==
  UNION {{Column(t, FALSE, z[3], m, z[1], z[2]) : m \in {"int", "float"}, z \in Pairs(t, FALSE)} :
           t \in {"text", "bool", "number", "json", "date"}}
  \cup {Column("text", TRUE, z[3], "", z[1], z[2]) : z \in Pairs("text", TRUE)}

(* timestamps that are missing, mirrored, or routed apart *)
Stamps ==
  {[Base EXCEPT !.mapped[2].columns = c, !.mapped[2].separate = s, !.mapped[2].routable = s,
                !.rows["posts"] = <<[Row("1", [x |-> Text("v")]) EXCEPT !.vals.created_at = a,
                                                                          !.vals.updated_at = b]>>,
                !.counts = n] :
     c \in {{"x", "created_at", "updated_at"}, {"x", "created_at"}, {"x"}}, s \in BOOLEAN,
     a, b \in {Text("t1"), Text("t2"), Text(""), Text("banana")},
     n \in {<<>>, [posts |-> 1], [posts |-> 2]}}

(* accounts, their digests and their identities *)
Link(account, provider, uid) == [account |-> account, provider |-> provider, uid |-> uid]
Accounts ==
  {[Base EXCEPT !.rows["users"] = <<[User("1", a) EXCEPT !.vals.digest = d], User("2", b)>>,
                !.counts = <<>>, !.emit = e] :
     a, b \in {"", "a@x", "b@x", "admin"}, d \in {Null, Text(""), Text("bcrypt"), Text("sha1")},
     e \in BOOLEAN}
Identities ==
  {[Base EXCEPT !.rows["users"] = <<User("1", "a@x"), User("2", "b@x")>>, !.counts = <<>>,
                !.accounts = {"users"},
                !.linked = <<Link(x, "git", "u1"), Link(y, p, u), Link(z, "hub", "u2")>>] :
     x, y \in {"1", "2", "9", ""}, z \in {"1", "2"}, p \in {"git", "hub", ""}, u \in {"u1", "u2"}}

(* relations and the ids they name *)
Relations ==
  {[Base EXCEPT !.mapped[2].fields = {[Field("owner", "x", "relation") EXCEPT !.required = v # Null]},
                !.mapped[2].relations = [x |-> "users"], !.mapped[2].field_names = [x |-> "owner"],
                !.rows["users"][1].id = i, !.rows["posts"] = <<Row("5", [x |-> v])>>, !.counts = <<>>] :
     v \in {Null, V("int", "1"), Text("1"), Text(" 1"), V("uuid", "1"), V("real", "1")},
     i \in {V("int", "1"), Text("1"), V("uuid", "1"), Text("a b"), Text(""), V("bytes", "1")}}

(* attachments with one name, of absent records, of an omitted table, with no blob *)
At(model, record, field, key, filename) ==
  [model |-> model, record |-> record, field |-> field, key |-> key, filename |-> filename]
Filed(m, b, l, attached) ==
  [Base EXCEPT !.mapped[2].attachments = [doc |-> m, pics |-> "has_many_attached"],
               !.mapped[2].attachment_names = [doc |-> "doc", pics |-> "gallery"],
               !.mapped[2].fields = @ \cup {Field("doc", "doc", "file"), Field("gallery", "pics", "file")},
               !.rows["posts"] = <<Row("1", [x |-> Text("v")]), Row("2", [x |-> Text("v")])>>,
               !.counts = <<>>, !.blobs = b, !.local = l, !.attached = attached]
FileNames ==
  {Filed(m, {"k1", "k2", "k3"}, TRUE,
         <<At("Post", "1", "doc", "k1", <<"a">>), At("Post", r, f, "k2", p), At("Post", "1", "pics", "k3", q)>>) :
     m \in {"has_one_attached", "has_many_attached"}, r \in {"1", "2"}, f \in {"doc", "pics"},
     p, q \in {<<"a">>, <<"doc", "a">>, <<"my photo">>, <<"k3", "a">>, <<"pics", "a">>,
                <<"a", "b", "c", "d">>}}
FileOwners ==
  {Filed("has_many_attached", b, l, <<At(x, r, f, "k2", <<"a">>), At("Post", "1", "doc", "k1", <<"a">>)>>) :
     b \in {{"k1", "k2"}, {"k1"}, {}}, l \in BOOLEAN, x \in {"Post", "Old", "Gone"},
     r \in {"1", "9"}, f \in {"doc", "odd"}}

MCSnapshots ==
  UNION {Columns, Stamps, Accounts, Identities, Relations, FileNames, FileOwners}
===============================================================================
