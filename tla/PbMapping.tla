------------------------------- MODULE PbMapping -------------------------------
(* tools/pocketbase/pb2zb.py from the collections of a PocketBase export to a
   bundle: the findings somebody has to decide, what the decisions make of
   collections, fields, rules and indexes, the rows, and the files they refer to.
   BundleExtract has the directory the bundle is written in.

   A replacement artifact is [is, value]: "none" when the decision names none,
   "lost" when there is no such file, "foreign" when it is not made for the finding.
   The snapshot is one that has the tables of its collections.               *)
EXTENDS Integers, Sequences

CONSTANTS
  Exports,         \* exports and snapshots that may be converted
  Identifiers,     \* names of the form IDENTIFIER
  Portable,        \* rules ZigBase reads as PocketBase does
  Verified,        \* the authRule "verified = true"
  Owner,           \* rules of an owner's profile
  NewFields,       \* [name, type, to] a replacement of a field may hold
  NewNames         \* names a replacement of a collection may hold

VARIABLES
  export,     \* collections of the export, the files of pb_data/storage, the project around
  decided,    \* finding -> [choice, artifact]
  bundle      \* what _extract_bundle_from_snapshot made of it
pvars == <<export, decided, bundle>>

Null == "null"
NoName == "none"
Artifact(is, value) == [is |-> is, value |-> value]

(* A collection c: id, name, kind ("base", "auth", "view"), system, fields, rules (of
   RULE_KEYS), indexes, methods enabled, password enabled?, rows.  A field f: id,
   name, type, system, hidden, odd (options ZigBase has not), required, many, to.
   An index: name, columns, unique, simple, own (PocketBase's own).
   A row: id, stamps, bcrypt, vals (name of a field -> value). *)
ReservedFieldNames ==
  {"id", "created", "updated", "email", "username", "passwordhash", "tokenkey", "verified", "token_epoch"}
DirectFieldTypes ==
  {"autodate", "bool", "date", "editor", "email", "file", "json", "number", "relation", "select",
   "text", "url"}
RuleKeys == {"listRule", "viewRule", "createRule", "updateRule", "deleteRule"}

(* load_schema: ids and names are unique, and relations have targets.  (The names of
   indexes are unique in PocketBase's own database.) *)
ExportFormed(s) ==
  /\ \A b, c \in s.collections : b.id = c.id \/ b.name = c.name => b = c
  /\ \A c \in s.collections :
       /\ \A f, g \in c.fields : f.id = g.id \/ f.name = g.name => f = g
       /\ \A f \in c.fields : f.type = "relation" /\ ~f.system => \E b \in s.collections : b.id = f.to
       /\ \A i, j \in c.indexes : i.name = j.name => i = j

ASSUME PbConstants ==
  /\ \A s \in Exports : ExportFormed(s)
  /\ \A f \in NewFields : f.name # NoName

source_timestamp(f) == f.type = "autodate" /\ f.name \in {"created", "updated"}
mappable(f) == ~f.system /\ ~source_timestamp(f)

-------------------------------------------------------------------------------
(* collect_findings *)
Found(id, choices, artifact) == [id |-> id, choices |-> choices, artifact |-> artifact]
Replace(id) == Found(id, {"replacement"}, TRUE)
ReplaceOrOmit(id) == Found(id, {"replacement", "omit"}, TRUE)
When(condition, found) == IF condition THEN {found} ELSE {}

rule_requires_replacement(rule) == rule \notin Portable \cup {Null, ""}

field_findings(c, f) ==
  LET id(suffix) == <<"field", c.id, f.id, suffix>>
  IN IF ~mappable(f)
     THEN When(f.system /\ c.kind = "auth" /\ f.name = "email" /\ f.odd, ReplaceOrOmit(id("options")))
     ELSE When(f.type = "autodate", Found(id("autodate"), {"date", "replacement", "omit"}, TRUE))
          \cup When(f.odd, ReplaceOrOmit(id("options")))
          \cup When(f.hidden, ReplaceOrOmit(id("hidden")))
          \cup When(f.type = "geoPoint", Found(id("geoPoint"), {"json", "omit"}, FALSE))
          \cup When(f.type \notin DirectFieldTypes \cup {"geoPoint"}, ReplaceOrOmit(id("unsupported")))
          \cup When(f.name \notin Identifiers \/ f.name \in ReservedFieldNames, ReplaceOrOmit(id("identifier")))

auth_findings(c) ==
  LET id(a) == <<"collection", c.id, a, "replacement">>
  IN {Found(<<"collection", c.id, "authConfig">>, {"reviewed"}, FALSE)}
     \cup {Replace(id(m)) : m \in c.methods}
     \cup When(~c.password, Replace(id("passwordAuth")))
     \cup When(c.rules["authRule"] \notin Verified, Replace(id("authRule")))
     \cup When(\E k \in {"listRule", "viewRule"} : c.rules[k] \notin Owner \cup {Null},
               Found(<<"collection", c.id, "emailVisibility">>, {"reviewed"}, FALSE))

rule_findings(c) ==
  UNION {When(c.rules[k] = "", Found(<<"rule", c.id, k, "public">>, {"public"}, FALSE))
         \cup When(\/ k = "manageRule" /\ c.rules[k] # Null
                   \/ rule_requires_replacement(c.rules[k]), Replace(<<"rule", c.id, k, "replacement">>))
         : k \in RuleKeys \cup {"manageRule"}}

index_findings(c) ==
  {ReplaceOrOmit(<<"index", c.id, i.name, "replacement">>) : i \in {j \in c.indexes : ~j.own /\ ~j.simple}}

collection_findings(c) ==
  IF c.system THEN {Found(<<"collection", c.id, "system">>, {"omit"}, FALSE)}
  ELSE When(c.name \notin Identifiers, ReplaceOrOmit(<<"collection", c.id, "identifier">>))
       \cup When(c.kind = "view", Found(<<"collection", c.id, "view">>, {"replacement", "materialize"}, TRUE))
       \cup (IF c.kind = "auth" THEN auth_findings(c) ELSE {})
       \cup (UNION {field_findings(c, f) : f \in c.fields})
       \cup rule_findings(c) \cup index_findings(c)

has_files(s) == \E c \in s.collections : ~c.system /\ \E f \in c.fields : mappable(f) /\ f.type = "file"
collect_findings(s) ==
  (UNION {collection_findings(c) : c \in s.collections})
    \cup When(has_files(s),
              Found(<<"source", "file_storage", "confirmation">>, {"local-snapshot", "materialized-s3"}, FALSE))
    \cup When(s.hooks, Replace(<<"source", "pb_hooks", "replacement">>))
    \cup When(s.go, Replace(<<"source", "custom_go", "replacement">>))

(* reconcile_decisions: what is decided is what was found, by an offered choice,
   with an artifact where one is asked for *)
reconciled(s, d) ==
  /\ DOMAIN d = {f.id : f \in collect_findings(s)}
  /\ \A f \in collect_findings(s) :
       /\ d[f.id].choice \in f.choices
       /\ f.artifact /\ d[f.id].choice \notin {"omit", "date"} => d[f.id].artifact.is # "none"

-------------------------------------------------------------------------------
(* the target's schema *)
Field(name, type, to, required) == [name |-> name, type |-> type, to |-> to, required |-> required]
Gone == Field(NoName, "gone", NoName, FALSE)
Unusable == Field(NoName, "unusable", NoName, FALSE)
Place == [autodate |-> 1, geoPoint |-> 2, hidden |-> 3, identifier |-> 4, options |-> 5, unsupported |-> 6]
related(d, c, f) == {id \in DOMAIN d : id[1] = "field" /\ id[2] = c.id /\ id[3] = f.id}
chosen(d, ids, choice) == {id \in ids : d[id].choice = choice}
NameOf(s, id) == (CHOOSE c \in s.collections : c.id = id).name

(* _field_options: a relation names its target's collection *)
as_it_is(s, f) ==
  Field(f.name, IF f.type = "geoPoint" THEN "json" ELSE f.type,
        IF f.type = "relation" THEN NameOf(s, f.to) ELSE NoName, f.required)

(* _map_field: the decisions of a field in the order of their ids up to an omission,
   and replacements that agree *)
map_field(s, d, c, f) ==
  LET omitted == chosen(d, related(d, c, f), "omit")
      read == {id \in chosen(d, related(d, c, f), "replacement") :
                 \A o \in omitted : Place[id[4]] < Place[o[4]]}
      values == {d[id].artifact.value : id \in read}
  IN IF Unusable \in values THEN Unusable
     ELSE IF omitted # {} THEN Gone
     ELSE IF values # {} THEN IF \E v, w \in values : v # w THEN Unusable ELSE CHOOSE r \in values : TRUE
     ELSE IF chosen(d, related(d, c, f), "date") # {} THEN Field(f.name, "date", NoName, f.required)
     ELSE as_it_is(s, f)

map_fields(s, d, c) == {map_field(s, d, c, f) : f \in {g \in c.fields : mappable(g)}} \ {Gone}

(* _map_rule *)
map_rule(d, c, k) ==
  LET id == <<"rule", c.id, k, "replacement">>
  IN CASE c.rules[k] = "" -> "@public"
       [] c.rules[k] # "" /\ id \in DOMAIN d -> d[id].artifact.value
       [] OTHER -> c.rules[k]

map_indexes(d, c) ==
  {[name |-> i.name, columns |-> i.columns] : i \in {j \in c.indexes : ~j.own /\ j.simple}}
  \cup {d[id].artifact.value : id \in {j \in DOMAIN d : /\ j[1] = "index" /\ j[2] = c.id
                                                  /\ d[j].choice = "replacement"}}

(* _map_collection: the finding that decides about the collection as a whole, the
   identifier before the view *)
whole(d, c) ==
  LET id(suffix) == <<"collection", c.id, suffix>>
  IN IF id("system") \in DOMAIN d THEN id("system")
     ELSE IF id("identifier") \in DOMAIN d THEN id("identifier")
     ELSE IF id("view") \in DOMAIN d THEN id("view") ELSE <<>>
left_out(d, c) == whole(d, c) # <<>> /\ d[whole(d, c)].choice = "omit"
replaced_whole(d, c) == whole(d, c) # <<>> /\ ~left_out(d, c)

map_collection(s, d, c) ==
  IF replaced_whole(d, c) THEN d[whole(d, c)].artifact.value
  ELSE [name |-> c.name, fields |-> map_fields(s, d, c), indexes |-> map_indexes(d, c),
        rules |-> [k \in RuleKeys |-> map_rule(d, c, k)]]
TargetName(d, c) == IF replaced_whole(d, c) THEN d[whole(d, c)].artifact.value.name ELSE c.name

(* _replacement_value and _copy_replacement_artifacts: the artifacts that are used
   are read, those that are not are copied *)
unreadable(s, d) ==
  \/ \E id \in DOMAIN d : d[id].artifact.is = "lost"
  \/ \E c \in {b \in s.collections : ~left_out(d, b)} :
       \/ Unusable \in map_fields(s, d, c)
       \/ replaced_whole(d, c) /\ d[whole(d, c)].artifact.is = "foreign"
       \/ \E id \in DOMAIN d : /\ ~replaced_whole(d, c) /\ d[id].artifact.is = "foreign"
                               /\ id[1] \in {"index", "rule"} /\ id[2] = c.id /\ id[3] # "manageRule"
                               /\ d[id].choice = "replacement"

kept(s, d) == {c \in s.collections : ~left_out(d, c)}

(* Mutant: the names of the export are looked at, not those that are left. *)
LinkedInSource(s, d, to) == \E c \in s.collections : c.name = to

linked(s, d, to) == \E c \in kept(s, d) : TargetName(d, c) = to

(* _validate_target_schema_links *)
valid_collection(s, d, c) ==
  LET m == map_collection(s, d, c)
      names == {f.name : f \in m.fields}
  IN /\ m.name \in Identifiers
     /\ names \subseteq Identifiers \ ReservedFieldNames
     /\ replaced_whole(d, c) \/
          \A f, g \in {h \in c.fields : mappable(h) /\ map_field(s, d, c, h) # Gone} :
            map_field(s, d, c, f).name = map_field(s, d, c, g).name => f = g
     /\ \A f \in m.fields : f.type = "relation" => linked(s, d, f.to)
     /\ \A i \in m.indexes : i.columns \subseteq names
schema_valid(s, d) ==
  /\ \A b, c \in kept(s, d) : TargetName(d, b) = TargetName(d, c) => b = c
  /\ \A c \in kept(s, d) : valid_collection(s, d, c)

-------------------------------------------------------------------------------
(* the rows: a value is [k, v]; of many values, a sequence of texts *)
V(k, v) == [k |-> k, v |-> v]
Nil == V("null", <<>>)
Refusal == V("bad", <<>>)

(* nothing chosen where one may be *)
empty_choice(f, value) ==
  /\ value = V("text", <<"">>) /\ f.type \in {"select", "relation"} /\ ~f.many /\ ~f.required

(* _convert_value, by the type the field has in PocketBase *)
convert_value(f, value) ==
  CASE value = Nil \/ empty_choice(f, value) -> Nil
    [] OTHER ->
       CASE f.type = "bool" -> IF value \in {V("int", <<"0">>), V("int", <<"1">>)} THEN V("bool", value.v) ELSE Refusal
         [] f.type = "number" -> IF value.k \in {"int", "real"} THEN value ELSE Refusal
         [] f.type \in {"json", "geoPoint"} -> IF value.k = "text" THEN V("json", value.v) ELSE Refusal
         [] f.type \in {"select", "relation", "file"} /\ f.many ->
              IF value.k = "list" THEN value ELSE Refusal
         [] f.type \notin DirectFieldTypes \cup {"geoPoint"} -> Refusal
         [] OTHER -> IF value.k = "text" THEN value ELSE Refusal

(* _source_to_target_fields: also of a collection that is replaced *)
pairs(s, d, c) ==
  {<<f, map_field(s, d, c, f)>> : f \in {g \in c.fields : mappable(g) /\ map_field(s, d, c, g) # Gone}}

bad_row(s, d, c, r) ==
  \/ c.kind = "auth" /\ ~r.bcrypt
  \/ \E p \in pairs(s, d, c) :
       LET value == convert_value(p[1], r.vals[p[1].name])
       IN \/ value = Refusal
          \/ p[1].type = "file" /\ value.k = "list" /\ "" \in {value.v[i] : i \in DOMAIN value.v}

write_row(s, d, c, r) ==
  [id |-> r.id, stamps |-> r.stamps,
   vals |-> {<<p[2].name, convert_value(p[1], r.vals[p[1].name])>> : p \in pairs(s, d, c)}]

(* _record_file_references and _stage_referenced_files *)
TextsOf(value) == {value.v[i] : i \in DOMAIN value.v} \ {""}
references(s, d, c) ==
  UNION {UNION {{[from |-> <<c.id, r.id, n>>, path |-> <<TargetName(d, c), r.id, n>>] :
                   n \in TextsOf(convert_value(p[1], r.vals[p[1].name]))}
                : p \in {q \in pairs(s, d, c) : q[1].type = "file"}}
         : r \in c.rows}
all_references(s, d) == UNION {references(s, d, c) : c \in kept(s, d)}
unstageable(s, d) ==
  \E a \in all_references(s, d) :
    a.from \notin s.storage \/ \E b \in all_references(s, d) : a.path = b.path /\ a # b

(* extract: every refusal leaves nothing *)
extract(s, d) ==
  IF \/ unreadable(s, d)
     \/ ~schema_valid(s, d)
     \/ \E c \in kept(s, d) : \E r \in c.rows : bad_row(s, d, c, r)
     \/ unstageable(s, d)
  THEN [made |-> FALSE]
  ELSE [made |-> TRUE,
        schema |-> {map_collection(s, d, c) : c \in kept(s, d)},
        rows |-> [n \in {TargetName(d, c) : c \in kept(s, d)} |->
                    LET c == CHOOSE b \in kept(s, d) : TargetName(d, b) = n
                    IN {write_row(s, d, c, r) : r \in c.rows}],
        staged |-> all_references(s, d),
        unreferenced |-> s.storage \ {a.from : a \in all_references(s, d)}]

-------------------------------------------------------------------------------
NoBundle == [made |-> FALSE, rows |-> <<>>]

PbInit == export \in Exports /\ decided = <<>> /\ bundle = NoBundle

(* an artifact that fits the finding; one that does not, where it is read, and one
   that is not there, where it is only copied *)
Values(id) ==
  CASE id[1] = "field" -> NewFields
    [] id[1] = "rule" -> {Null, "replaced"}
    [] id[1] = "index" -> {[name |-> "reviewed", columns |-> {"title"}]}
    [] id[1] = "collection" /\ Len(id) = 3 ->
         {[name |-> n, fields |-> {Field("title", "text", NoName, FALSE)}, indexes |-> {},
           rules |-> [k \in RuleKeys |-> Null]] : n \in NewNames}
    [] OTHER -> {"reviewed"}
Read(id) == id[1] \in {"field", "index", "rule"} \/ (id[1] = "collection" /\ Len(id) = 3)
NoValue(id) == IF id[1] = "field" THEN Unusable ELSE CHOOSE v \in Values(id) : TRUE
Artifacts(id, choice) ==
  {Artifact("none", NoValue(id))} \cup
  (IF choice \notin {"replacement", "materialize"} THEN {}
   ELSE {Artifact(IF Read(id) THEN "foreign" ELSE "lost", NoValue(id))} \cup {Artifact("good", v) : v \in Values(id)})

PbDecide ==
  /\ bundle = NoBundle
  /\ \E f \in collect_findings(export) :
       /\ f.id \notin DOMAIN decided
       /\ f = CHOOSE g \in collect_findings(export) : g.id \notin DOMAIN decided
       /\ \E choice \in f.choices : \E a \in Artifacts(f.id, choice) :
            decided' = [id \in DOMAIN decided \cup {f.id} |->
                          IF id = f.id THEN [choice |-> choice, artifact |-> a] ELSE decided[id]]
  /\ UNCHANGED <<export, bundle>>

PbExtract ==
  /\ bundle = NoBundle /\ reconciled(export, decided)
  /\ bundle' = extract(export, decided)
  /\ UNCHANGED <<export, decided>>

PbNext == PbDecide \/ PbExtract
PbSpec == PbInit /\ [][PbNext]_pvars

-------------------------------------------------------------------------------
Made == bundle.made
Left(c) == ~left_out(decided, c)
Translated(c) == Left(c) /\ ~replaced_whole(decided, c)
SchemaOf(c) == CHOOSE m \in bundle.schema : m.name = c.name

Typed(f, value) ==
  CASE f.type = "bool" -> value.k = "bool"
    [] f.type = "number" -> value.k \in {"int", "real"}
    [] f.type \in {"select", "relation"} -> value # V("text", <<"">>)
    [] f.type \in {"json", "file"} -> TRUE
    [] OTHER -> value.k = "text"

Nothing == {Nil, V("text", <<"">>), V("list", <<>>)}

(* PocketBase holds a row to what a field requires when it writes the row, so that a
   row may be older than the requirement; pb2zb takes both over. *)
NotGiven(c, row, name) ==
  \E r \in c.rows : \E f \in c.fields :
    r.id = row.id /\ f.name = name /\ f.required /\ r.vals[name] \in Nothing

(* the value of a field that is not replaced: what replaces one is the operator's *)
Loads(c, row, f, value) ==
  /\ value = Nil \/ Typed(f, value)
  /\ f.required => value \notin Nothing
  /\ f.type = "file" =>
       \A n \in TextsOf(value) :
         \E e \in bundle.staged : e.path = <<c.name, row.id, n>> /\ e.from = <<c.id, row.id, n>>

(* A bundle loads: relations and indexes are of what is left, the values of a
   collection that is translated are of fields it declares, of their types and given
   where they are required, if the source gave them, and every file a record names is
   under that record ("referenced file bytes"), the others being listed. *)
BundleLoads ==
  Made =>
    /\ \A m, n \in bundle.schema : m.name = n.name => m = n
    /\ \A m \in bundle.schema :
         /\ \A f \in m.fields : f.type = "relation" => \E n \in bundle.schema : n.name = f.to
         /\ \A i \in m.indexes : \A x \in i.columns : \E f \in m.fields : f.name = x
    /\ \A c \in {b \in export.collections : Translated(b)} : \A row \in bundle.rows[c.name] :
         \A x \in row.vals : \E f \in SchemaOf(c).fields :
           /\ f.name = x[1]
           /\ f \in NewFields \/ Loads(c, row, f, x[2]) \/ NotGiven(c, row, x[1])
    /\ {e.from : e \in bundle.staged} \cup bundle.unreferenced = export.storage

(* What is decided happens: what is to be omitted is not there, unless something
   else was given its name; what is to be replaced is as its artifact has it, an
   omission before a replacement ("never silently drop behavior").  (Not so of the
   email of an auth collection, whose findings are about rules of the target's
   own; and a view with an unusable name has two artifacts, of which the one for
   the name is used.) *)
DecisionsHappen ==
  Made =>
    /\ \A c \in export.collections :
         left_out(decided, c) /\ c.name \in DOMAIN bundle.rows =>
           \E b \in export.collections \ {c} :
             replaced_whole(decided, b) /\ decided[whole(decided, b)].artifact.value.name = c.name
    /\ \A c \in export.collections : Left(c) /\ replaced_whole(decided, c) =>
         decided[whole(decided, c)].artifact.value \in bundle.schema
    /\ \A id \in DOMAIN decided : \A c \in export.collections :
         id[2] = c.id /\ Translated(c) =>
           /\ id[1] = "index" /\ decided[id].choice = "replacement" =>
                decided[id].artifact.value \in SchemaOf(c).indexes
           /\ id[1] = "index" /\ decided[id].choice = "omit" =>
                \A i \in SchemaOf(c).indexes : i.name = id[3] =>
                  \E j \in DOMAIN decided \ {id} : decided[j].artifact.value = i
           /\ id[1] = "field" => \A f \in c.fields :
                f.id = id[3] /\ mappable(f) =>
                  IF \E j \in related(decided, c, f) : decided[j].choice = "omit"
                  THEN \A g \in SchemaOf(c).fields : g.name = f.name =>
                         \E h \in c.fields \ {f} : \E j \in related(decided, c, h) :
                           decided[j].artifact.value = g
                  ELSE decided[id].choice = "replacement" =>
                         decided[id].artifact.value \in SchemaOf(c).fields

(* No rule admits more than it did: locked stays locked, what is public was public
   or was decided, and a rule that ZigBase reads otherwise is never taken over
   ("PocketBase-only semantics"). *)
RulesKept ==
  Made => \A c \in export.collections : Translated(c) => \A k \in RuleKeys :
    LET rule == SchemaOf(c).rules[k]
        id(suffix) == <<"rule", c.id, k, suffix>>
    IN \/ rule = c.rules[k] /\ rule \in Portable \cup {Null}
       \/ rule = "@public" /\ c.rules[k] = "" /\ decided[id("public")].choice = "public"
       \/ c.rules[k] \notin Portable \cup {Null, ""} /\ id("replacement") \in DOMAIN decided

(* A bundle pb2zb makes loads, has what was decided, and admits nobody it did not. *)
PbConverted == BundleLoads /\ DecisionsHappen /\ RulesKept

(* "Exit `0` means the snapshot is directly representable", and the documented
   import preserves the timestamps, of which every row must have both. *)
DirectlyRepresentable ==
  Made /\ collect_findings(export) = {} =>
    \A n \in DOMAIN bundle.rows : \A row \in bundle.rows[n] : row.stamps = {"created", "updated"}

===============================================================================
