------------------------------ MODULE RailsSource ------------------------------
(* What tools/rails/rails2zb.py knows of a Rails application, and the findings it
   raises about relations, names and deletion that someone has to decide.

   A finding is known by its id, the parts of which make a tuple here; the
   choices it offers are what a decision may choose.  Findings whose decision
   changes nothing in the schema are left out.                                *)
EXTENDS Integers, Sequences, FiniteSets

CONSTANTS
  Blank,
  Internal,         \* RAILS_INTERNAL_TABLES
  Key(_),           \* str.lower
  Stem(_),          \* a name without its _id
  IsIdentifier(_),  \* IDENTIFIER
  ColumnType(_)

Timestamps == {"created_at", "updated_at"}
RESERVED_FIELD_NAMES == {"id", "created", "updated", "email", "username", "verified"}
AuthMapped == {"email", "username", "verified"}

(* A source s has
     s.columns     table -> names of its columns, of every migratable table
     s.nullable    tables whose timestamps may be null
     s.readable    did the adapter read the foreign keys?
     s.fks         [table, column, to, key, on_delete, on_update]
     s.models      [name, table, sti]: sti is an STI base with subclasses
     s.assocs      [model, name, macro, table, column, type, dependent,
                    through, polymorphic]
     s.attachments <<table, name>>
     s.encrypted   <<table, column>>
     s.digests     table -> the column of its password, of every table with one
     s.omniauth    is OmniAuth present?
   and every table has the primary key id. *)

TablesOf(s) == DOMAIN s.columns
fks(s) == {fk \in s.fks : fk.to \notin Internal}
TableOf(s, model) == (CHOOSE m \in s.models : m.name = model).table

-------------------------------------------------------------------------------
(* _external_auth_candidates: tables of provider identities, each with the one
   foreign key to a table of accounts *)
accounts(s, t) ==
  {fk \in s.fks : /\ fk.table = t /\ fk.to \in TablesOf(s) /\ fk.key = "id"
                  /\ fk.column \in s.columns[t] /\ "email" \in s.columns[fk.to]}

external_auth_candidates(s) ==
  {[identity |-> t, account |-> (CHOOSE fk \in accounts(s, t) : TRUE).to] :
     t \in {u \in TablesOf(s) : /\ s.omniauth /\ {"id", "provider", "uid"} \subseteq s.columns[u]
                              /\ Cardinality(accounts(s, u)) = 1}}

(* _auth_tables: with the column of the password, if there is one *)
auth_tables(s) ==
  [t \in DOMAIN s.digests \cup {c.account : c \in external_auth_candidates(s)} |->
     IF t \in DOMAIN s.digests THEN s.digests[t] ELSE Blank]
is_auth(s, t) == t \in DOMAIN auth_tables(s)

(* _reserved_here *)
AllowedTypes(key) == IF key = "verified" THEN {"boolean"} ELSE {"string", "text", "uuid"}
reserved_here(name, auth, literal, type) ==
  /\ Key(name) \in RESERVED_FIELD_NAMES
  /\ \/ ~literal \/ ~auth \/ Key(name) \notin AuthMapped
     \/ type # Blank /\ type \notin AllowedTypes(Key(name))

(* columns whose value does not travel as a field: _unmigratable_relation_columns *)
unmigratable(s, t) ==
  {"id"} \cup Timestamps \cup {c \in s.columns[t] : <<t, c>> \in s.encrypted}
    \cup (IF is_auth(s, t) THEN {auth_tables(s)[t]} ELSE {})

(* _bearable_belongs_to and _relation_bearing_columns *)
bearable(a) == a.macro = "belongs_to" /\ ~a.polymorphic /\ a.table \notin Internal \cup {Blank}
relation_bearing_columns(s, t) ==
  s.columns[t] \cap
    ({fk.column : fk \in {k \in fks(s) : k.table = t}} \cup
     {a.column : a \in {b \in s.assocs : bearable(b) /\ TableOf(s, b.model) = t}})

-------------------------------------------------------------------------------
(* what deletes what *)
is_direct_child(a) == ~a.through /\ a.macro \in {"has_many", "has_one"}
cascades_children(a) == a.dependent \in {"destroy", "delete_all", "destroy_async", "delete"}
PairOf(a) == <<a.table, a.column>>

(* _restrict_protected: rows some model refuses to delete *)
restrict_protected(s) ==
  {PairOf(a) : a \in {b \in s.assocs : is_direct_child(b) /\ b.dependent = "restrict"}}

(* _cascadable_pairs *)
cascadable_pairs(s, model) ==
  {PairOf(a) : a \in {b \in s.assocs : /\ b.model = model /\ is_direct_child(b)
                                     /\ cascades_children(b)}}

(* _relation_emitted_for: does (t, c) become a relation into target? *)
relation_emitted(s, t, c, target) ==
  /\ t \in TablesOf(s)
  /\ \E fk \in fks(s) : fk.table = t /\ fk.column = c /\ fk.to = target
  /\ c \notin unmigratable(s, t)

-------------------------------------------------------------------------------
(* the findings *)
Finding(id, choices) == [id |-> id, choices |-> choices]

association_findings(s) ==
  {Finding(<<"association", a.model, a.name, "polymorphic">>, {"omit", "replacement"}) :
     a \in {b \in s.assocs : b.polymorphic}}
  \cup
  {Finding(<<"association", a.model, a.name, "nofk">>, {"relation", "omit"}) :
     a \in {b \in s.assocs :
              /\ bearable(b) /\ b.column \in s.columns[TableOf(s, b.model)]
              /\ ~\E fk \in fks(s) : fk.table = TableOf(s, b.model) /\ fk.column = b.column}}

foreign_key_findings(s) ==
  {Finding(<<"fk", fk.table, fk.column, "action">>, {"replacement", "omit"}) :
     fk \in {k \in fks(s) : k.on_delete \notin {Blank, "cascade"} \/ k.on_update # Blank}}
  \cup
  {Finding(<<"fk", fk.table, fk.column, "target_key">>, {"omit"}) :
     fk \in {k \in fks(s) : k.key # "id"}}
  \cup
  (IF s.readable THEN {} ELSE {Finding(<<"schema", "foreign_keys", "unsupported">>, {"omit"})})

(* ON DELETE CASCADE below a model that refuses the delete *)
cascade_contradiction_findings(s) ==
  {Finding(<<"fk", fk.table, fk.column, "cascade_vs_restrict">>, {"cascade", "hook", "omit"}) :
     fk \in {k \in fks(s) : /\ s.readable /\ <<k.table, k.column>> \in restrict_protected(s)
                            /\ k.on_delete = "cascade" /\ k.key = "id"
                            /\ relation_emitted(s, k.table, k.column, k.to)}}

(* cascade is offered where one association of the model can honour it *)
honourable(s, a) ==
  /\ is_direct_child(a) /\ cascades_children(a)
  /\ relation_emitted(s, a.table, a.column, TableOf(s, a.model))
  /\ PairOf(a) \notin restrict_protected(s)

dependent_findings(s) ==
  {Finding(<<"model", m.name, "dependent">>,
           IF \E a \in s.assocs : a.model = m.name /\ honourable(s, a)
           THEN {"hook", "cascade", "omit"} ELSE {"hook", "omit"}) :
     m \in {n \in s.models : \E a \in s.assocs : a.model = n.name /\ a.dependent # Blank}}

column_findings(s) ==
  UNION {
    LET C == s.columns[t] \ ({"id"} \cup Timestamps)
        rename == {"rename", "omit"}
    IN {Finding(<<"column", t, c, "reserved">>, rename) :
          c \in {d \in C : reserved_here(d, is_auth(s, t), d \notin relation_bearing_columns(s, t),
                                         ColumnType(d))}}
       \cup {Finding(<<"column", t, c, "identifier">>, rename) : c \in {d \in C : ~IsIdentifier(d)}}
       \cup (IF ~is_auth(s, t) THEN {}
             ELSE {Finding(<<"column", t, c, "auth_relation">>, {"omit", "keep"}) :
                     c \in relation_bearing_columns(s, t)})
    : t \in TablesOf(s)}

findings_of_attachment(s, t, name) ==
  LET found(suffix) == Finding(<<"attachment", t, name, suffix>>, {"rename", "omit"})
  IN (IF IsIdentifier(name) THEN {} ELSE {found("identifier")})
     \cup (IF Key(name) \in {Key(c) : c \in s.columns[t]} THEN {found("collision")} ELSE {})
     \cup (IF reserved_here(name, is_auth(s, t), FALSE, Blank) THEN {found("reserved")} ELSE {})
attachment_findings(s) == UNION {findings_of_attachment(s, at[1], at[2]) : at \in s.attachments}

table_findings(s) ==
  {Finding(<<"table", t, "identifier">>, {"rename", "omit"}) :
     t \in {u \in TablesOf(s) : ~IsIdentifier(u)}}
  \cup {Finding(<<"table", t, "nullable_timestamps">>, {"separate-import", "omit"}) : t \in s.nullable}
  \cup {Finding(<<"model", m.name, "sti">>, {"omit", "replacement"}) : m \in {n \in s.models : n.sti}}
  \cup (IF ~s.omniauth THEN {}
        ELSE {Finding(<<"auth", "omniauth", "identities">>,
                (IF Cardinality(external_auth_candidates(s)) = 1 THEN {"external-auths"} ELSE {})
                  \cup {"out-of-scope"})})

build_findings(s) ==
  association_findings(s) \cup foreign_key_findings(s) \cup cascade_contradiction_findings(s)
    \cup dependent_findings(s) \cup column_findings(s) \cup attachment_findings(s)
    \cup table_findings(s)

===============================================================================
