----------------------------- MODULE RailsMapping ------------------------------
(* How tools/rails/rails2zb.py turns a source and the decisions on its findings
   into collections: which tables and columns stay, what their fields are called,
   which of them are relations, and which relations delete with their target.

   Decisions d are a function from the ids of findings to [choice, to], to being
   the name a rename gives.  Contradictions are refused, never resolved.       *)
EXTENDS RailsSource

CONSTANTS
  Sources,      \* applications that may be migrated
  RailsNames,   \* names an operator may give
  ColumnOrder   \* the columns that may be relations, sorted

VARIABLES
  app,        \* the application
  decisions,  \* what the operator decided
  mapped      \* the outcome of map_tables

mvars == <<app, decisions, mapped>>

(* A foreign key is on a column of its table, a model has one association of a name,
   and what is left of an identifier without its _id is one. *)
SourceFormed(s) ==
  /\ \A fk \in fks(s) : fk.table \in TablesOf(s) => fk.column \in s.columns[fk.table]
  /\ \A a, b \in s.assocs : a.model = b.model /\ a.name = b.name => a = b
  /\ \A a \in s.attachments : a = <<a[1], a[2]>>
  /\ \A t \in TablesOf(s) : \A c \in relation_bearing_columns(s, t) :
       /\ \E n \in 1..Len(ColumnOrder) : ColumnOrder[n] = c
       /\ IsIdentifier(c) => IsIdentifier(Stem(c))

ASSUME RailsConstants ==
  /\ \A s \in Sources : SourceFormed(s)
  /\ \A k \in AuthMapped : Key(k) = k
  /\ Len(ColumnOrder) \in Nat

Chose(d, id, choice) == id \in DOMAIN d /\ d[id].choice = choice
Of(d, kind, len) == {id \in DOMAIN d : Len(id) = len /\ id[1] = kind}

-------------------------------------------------------------------------------
(* _refuse_contradictory_decisions: one column or attachment, several findings *)
contradictory(d) ==
  \E a, b \in Of(d, "column", 4) \cup Of(d, "attachment", 4) :
    /\ SubSeq(a, 1, 3) = SubSeq(b, 1, 3)
    /\ \/ d[a].choice = "omit" /\ d[b].choice # "omit"
       \/ d[a].choice = "rename" /\ d[b].choice = "rename" /\ d[a].to # d[b].to

(* what the decisions take away *)
omitted_tables(s, d) ==
  {t \in TablesOf(s) : \E x \in {"identifier", "nullable_timestamps"} : Chose(d, <<"table", t, x>>, "omit")}
  \cup {m.table : m \in {n \in s.models : Chose(d, <<"model", n.name, "sti">>, "omit")}}

polymorphic_omitted_columns(s, d) ==
  UNION {{<<TableOf(s, a.model), a.column>>, <<TableOf(s, a.model), a.type>>} :
           a \in {b \in s.assocs : Chose(d, <<"association", b.model, b.name, "polymorphic">>, "omit")}}

omitted_columns(d) == {<<id[2], id[3]>> : id \in {i \in Of(d, "column", 4) : d[i].choice = "omit"}}
dropped_columns(s, d) == omitted_columns(d) \cup polymorphic_omitted_columns(s, d)
omitted_attachments(d) ==
  {<<id[2], id[3]>> : id \in {i \in Of(d, "attachment", 4) : d[i].choice = "omit"}}

(* and what they rename: <<table, name, new name>> *)
renamed(d, kind) ==
  {<<id[2], id[3], d[id].to>> : id \in {i \in Of(d, kind, 4) : d[i].choice = "rename"}}
renamed_tables(d) ==
  {<<id[2], d[id].to>> : id \in {i \in Of(d, "table", 3) : d[i].choice = "rename"}}
Collection(d, t) ==
  IF \E r \in renamed_tables(d) : r[1] = t THEN (CHOOSE r \in renamed_tables(d) : r[1] = t)[2] ELSE t

(* _external_auth_plan: the identities travel with the accounts *)
external_auth_tables(s, d) ==
  IF Chose(d, <<"auth", "omniauth", "identities">>, "external-auths")
  THEN {c.identity : c \in external_auth_candidates(s)} ELSE {}

(* _declared_relations: <<table, column, target>> of promoted belongs_to *)
declared_relations(s, d) ==
  {<<TableOf(s, a.model), a.column, a.table>> :
     a \in {b \in s.assocs : Chose(d, <<"association", b.model, b.name, "nofk">>, "relation")}}

-------------------------------------------------------------------------------
fk_untrusted(d) == Chose(d, <<"schema", "foreign_keys", "unsupported">>, "omit")
dropped_relation(d, t, c) == Chose(d, <<"fk", t, c, "target_key">>, "omit")
action_dropped(d, t, c) == Chose(d, <<"fk", t, c, "action">>, "omit")

(* _cascade_blocked_by: can no cascade ride the column? *)
cascade_blocked(s, d, t, c, owner) ==
  \/ t \in omitted_tables(s, d) \/ ~relation_emitted(s, t, c, owner) \/ fk_untrusted(d)
  \/ <<t, c>> \in dropped_columns(s, d) \/ dropped_relation(d, t, c) \/ action_dropped(d, t, c)

(* _cascade_decisions: what the models decided to cascade delete *)
cascade_decisions(s, d) ==
  {p \in UNION {cascadable_pairs(s, m.name) :
                  m \in {n \in s.models : Chose(d, <<"model", n.name, "dependent">>, "cascade")}} :
     \E m \in s.models : /\ Chose(d, <<"model", m.name, "dependent">>, "cascade")
                         /\ p \in cascadable_pairs(s, m.name)
                         /\ relation_emitted(s, p[1], p[2], m.table)}
  \ restrict_protected(s)

(* _refuse_inert_decisions: a decision that keeps something another one drops *)
inert(s, d) ==
  LET gone == omitted_tables(s, d)
      dropped == {p \in dropped_columns(s, d) : p[1] \notin gone}
  IN \/ \E id \in Of(d, "column", 4) : d[id].choice # "omit" /\ <<id[2], id[3]>> \in dropped
     \/ \E r \in declared_relations(s, d) :
          /\ r[1] \notin gone
          /\ <<r[1], r[2]>> \in dropped \/ r[2] \in unmigratable(s, r[1])
     \/ \E fk \in fks(s) : /\ Chose(d, <<"fk", fk.table, fk.column, "cascade_vs_restrict">>, "cascade")
                           /\ cascade_blocked(s, d, fk.table, fk.column, fk.to)
     \/ \E m \in s.models :
          /\ Chose(d, <<"model", m.name, "dependent">>, "cascade")
          /\ cascadable_pairs(s, m.name) # {}
          /\ \A p \in cascadable_pairs(s, m.name) :
               p \in restrict_protected(s) \/ cascade_blocked(s, d, p[1], p[2], m.table)
     \/ \E t \in gone : \E id \in Of(d, "table", 3) : id[2] = t /\ d[id].choice = "separate-import"

-------------------------------------------------------------------------------
(* the columns of a table that make no field *)
skipped(s, d, t) ==
  {c \in s.columns[t] : c \in unmigratable(s, t) \/ <<t, c>> \in dropped_columns(s, d)}

(* the foreign keys of a table that make a relation *)
relation_keys(s, d, t) ==
  IF fk_untrusted(d) THEN {}
  ELSE {fk \in fks(s) : /\ fk.table = t /\ ~dropped_relation(d, t, fk.column)
                        /\ fk.column \notin skipped(s, d, t)}

(* column -> collection; a foreign key goes before a promoted association *)
relations(s, d, t) ==
  LET keys == relation_keys(s, d, t)
      own == {r \in declared_relations(s, d) : r[1] = t}
      target(c) == IF \E fk \in keys : fk.column = c THEN (CHOOSE fk \in keys : fk.column = c).to
                   ELSE (CHOOSE r \in own : r[2] = c)[3]
  IN [c \in {fk.column : fk \in keys} \cup {r[2] : r \in own} |-> Collection(d, target(c))]

(* does the relation delete with its target? *)
cascades(s, d, t, c) ==
  \E fk \in relation_keys(s, d, t) :
    /\ fk.column = c /\ ~action_dropped(d, t, c)
    /\ \/ <<t, c>> \in cascade_decisions(s, d)
       \/ /\ fk.on_delete = "cascade"
          /\ <<t, c>> \in restrict_protected(s) =>
               Chose(d, <<"fk", t, c, "cascade_vs_restrict">>, "cascade")

(* the name an operator gave, or its own *)
Renamed(d, kind, t, x) ==
  IF \E r \in renamed(d, kind) : r[1] = t /\ r[2] = x
  THEN (CHOOSE r \in renamed(d, kind) : r[1] = t /\ r[2] = x)[3] ELSE x
HasNewName(d, t, c) == \E r \in renamed(d, "column") : r[1] = t /\ r[2] = c

(* may a relation lose its _id? *)
ShortNameFree(name, taken, auth) ==
  Key(name) \notin taken /\ ~reserved_here(name, auth, FALSE, Blank)

(* _field_names: relations claim last, in order, what is not held yet *)
relation_name(s, d, t, held, c) ==
  IF HasNewName(d, t, c) THEN Renamed(d, "column", t, c)
  ELSE IF ShortNameFree(Stem(c), held, is_auth(s, t)) THEN Stem(c) ELSE c

claim(s, d, t, taken, names, c) ==
  IF c \notin DOMAIN relations(s, d, t) THEN names
  ELSE LET held == taken \cup {Key(names[x]) : x \in DOMAIN names}
       IN [x \in DOMAIN names \cup {c} |->
             IF x \in DOMAIN names THEN names[x] ELSE relation_name(s, d, t, held, c)]

relation_names(s, d, t, taken) ==
  LET claimed[n \in 0..Len(ColumnOrder)] ==
        IF n = 0 THEN <<>> ELSE claim(s, d, t, taken, claimed[n - 1], ColumnOrder[n])
  IN claimed[Len(ColumnOrder)]

MappedField(t, kind, from, name, type, target, cascade) ==
  [table |-> t, kind |-> kind, from |-> from, name |-> name, type |-> type,
   target |-> target, cascade |-> cascade]

scalar_fields(s, d, t) ==
  {LET n == Renamed(d, "column", t, c)
   IN MappedField(t, "column", c, IF is_auth(s, t) /\ Key(n) \in AuthMapped THEN Key(n) ELSE n,
            ColumnType(c), Blank, FALSE) :
     c \in s.columns[t] \ (skipped(s, d, t) \cup DOMAIN relations(s, d, t))}

file_fields(s, d, t) ==
  {MappedField(t, "attachment", a[2], Renamed(d, "attachment", t, a[2]), "file", Blank, FALSE) :
     a \in {b \in s.attachments \ omitted_attachments(d) : b[1] = t}}

fields(s, d, t) ==
  LET first == scalar_fields(s, d, t) \cup file_fields(s, d, t)
      names == relation_names(s, d, t, {Key(f.name) : f \in first})
  IN first \cup {MappedField(t, "column", c, names[c], "relation", relations(s, d, t)[c], cascades(s, d, t, c)) :
                   c \in DOMAIN names}

(* Mutant: names that differ by case are two names. *)
ClaimsByCase(s, t, F) ==
  \/ \E f, g \in F : f # g /\ f.name = g.name
  \/ \E f \in F : reserved_here(f.name, is_auth(s, t), f.type \notin {"relation", "file"}, f.type)

(* what claim refuses: a name that is taken, or the engine's *)
claims_refused(s, t, F) ==
  \/ \E f, g \in F : f # g /\ Key(f.name) = Key(g.name)
  \/ \E f \in F : reserved_here(f.name, is_auth(s, t), f.type \notin {"relation", "file"}, f.type)

(* _relation_columns, _renamed_columns and _renamed_attachments: is the new name usable? *)
relation_columns(s, d, t) ==
  {r[2] : r \in {x \in declared_relations(s, d) : x[1] = t}}
  \cup (IF fk_untrusted(d) THEN {}
        ELSE {fk.column : fk \in {k \in fks(s) : k.table = t /\ ~dropped_relation(d, t, k.column)}})

rename_refused(s, d) ==
  \/ \E r \in renamed(d, "column") :
       \/ ~IsIdentifier(r[3])
       \/ reserved_here(r[3], is_auth(s, r[1]), r[2] \notin relation_columns(s, d, r[1]), ColumnType(r[2]))
  \/ \E r \in renamed(d, "attachment") : ~IsIdentifier(r[3]) \/ reserved_here(r[3], FALSE, FALSE, Blank)
  \/ \E r \in renamed_tables(d) :
       \/ ~IsIdentifier(r[2]) \/ Key(r[2]) \in {Key(t) : t \in TablesOf(s)}
       \/ r[1] \in omitted_tables(s, d) \cup external_auth_tables(s, d)
  \/ \E q, r \in renamed_tables(d) : q # r /\ Key(q[2]) = Key(r[2])

(* two models promote one column to different targets *)
promotion_refused(s, d) ==
  \E q, r \in declared_relations(s, d) : q[1] = r[1] /\ q[2] = r[2] /\ q[3] # r[3]

(* map_tables *)
RefusedMap == [tables |-> {}, fields |-> {}, refused |-> TRUE]

map_tables(s, d) ==
  LET kept == TablesOf(s) \ (omitted_tables(s, d) \cup external_auth_tables(s, d))
      all == UNION {fields(s, d, t) : t \in kept}
  IN IF contradictory(d) \/ promotion_refused(s, d) THEN RefusedMap
     ELSE IF inert(s, d) \/ rename_refused(s, d) THEN RefusedMap
     ELSE IF \E t \in kept : claims_refused(s, t, {f \in all : f.table = t}) THEN RefusedMap
     ELSE IF \E f \in all : f.type = "relation" /\ f.target \notin {Collection(d, t) : t \in kept}
     THEN RefusedMap
     ELSE [tables |-> kept, fields |-> all, refused |-> FALSE]

(* _schema_fields: what the document declares; the engine has the rest *)
schema_fields(s, t) ==
  {f \in mapped.fields : f.table = t /\ ~(is_auth(s, t) /\ Key(f.name) \in AuthMapped)}

-------------------------------------------------------------------------------
Undecided == [tables |-> {}, fields |-> {}, refused |-> FALSE]

MappingInit ==
  /\ app \in Sources /\ decisions = <<>> /\ mapped = Undecided

AnswersTo(f) ==
  {a \in [choice : f.choices, to : RailsNames \cup {Blank}] : a.choice = "rename" <=> a.to # Blank}

(* reconcile: every finding is decided, and nothing else *)
all_decided(s, d) ==
  /\ DOMAIN d = {f.id : f \in build_findings(s)}
  /\ \A f \in build_findings(s) : d[f.id] \in AnswersTo(f)

(* the operator answers one finding after the other; the tool runs when all are *)
DecideFinding ==
  /\ mapped = Undecided
  /\ \E f \in build_findings(app) :
       /\ f.id \notin DOMAIN decisions
       /\ f = CHOOSE g \in build_findings(app) : g.id \notin DOMAIN decisions
       /\ \E a \in AnswersTo(f) :
            decisions' = [id \in DOMAIN decisions \cup {f.id} |-> IF id = f.id THEN a ELSE decisions[id]]
  /\ UNCHANGED <<app, mapped>>

Convert ==
  /\ mapped = Undecided /\ all_decided(app, decisions)
  /\ mapped' = map_tables(app, decisions)
  /\ UNCHANGED <<app, decisions>>

MappingNext == DecideFinding \/ Convert
MappingSpec == MappingInit /\ [][MappingNext]_mvars

-------------------------------------------------------------------------------
MapAccepted == mapped.tables # {}
Dropped(t, c) == <<t, c>> \in dropped_columns(app, decisions)

(* A column of a table that stays makes exactly one field, unless the engine has
   the value under another name, it is encrypted, or a decision drops it; and the
   fields of a collection have usable names that differ by more than case ("the
   column's data never reached the NDJSON, and the bundle was attested as clean"). *)
EveryColumnOnce ==
  MapAccepted => \A t \in mapped.tables :
    /\ \A c \in app.columns[t] :
         Cardinality({f \in mapped.fields : f.table = t /\ f.kind = "column" /\ f.from = c})
           = IF c \in unmigratable(app, t) \/ Dropped(t, c) THEN 0 ELSE 1
    /\ \A f, g \in mapped.fields :
         f.table = t /\ g.table = t /\ Key(f.name) = Key(g.name) => f = g
    /\ \A f \in schema_fields(app, t) : IsIdentifier(f.name) /\ Key(f.name) \notin RESERVED_FIELD_NAMES

(* Rows that some model refuses to delete are deleted with their owner only where
   the operator chose the database's cascade over the refusal. *)
RefusalKept ==
  MapAccepted => \A f \in mapped.fields :
    f.cascade /\ <<f.table, f.from>> \in restrict_protected(app) =>
      Chose(decisions, <<"fk", f.table, f.from, "cascade_vs_restrict">>, "cascade")

(* An accepted decision acts: a promoted association is a relation, a model that is
   decided to cascade has a relation that does, a kept cascade is one.  (Not so
   of rows that travel with their accounts: external-auths drops their table
   after the decisions were examined.) *)
DecisionsAct ==
  MapAccepted =>
    /\ \A r \in declared_relations(app, decisions) :
         r[1] \in mapped.tables =>
           \E f \in mapped.fields : f.table = r[1] /\ f.from = r[2] /\ f.type = "relation"
    /\ \A m \in app.models :
         Chose(decisions, <<"model", m.name, "dependent">>, "cascade") =>
           \E p \in cascadable_pairs(app, m.name) :
             \/ p[1] \in external_auth_tables(app, decisions)
             \/ \E f \in mapped.fields : f.table = p[1] /\ f.from = p[2] /\ f.cascade
    /\ \A fk \in app.fks :
         Chose(decisions, <<"fk", fk.table, fk.column, "cascade_vs_restrict">>, "cascade") =>
           \/ fk.table \in external_auth_tables(app, decisions)
           \/ \E f \in mapped.fields : f.table = fk.table /\ f.from = fk.column /\ f.cascade

(* Every column, refusal to delete and decision is accounted for in the schema that
   map_tables accepts. *)
RailsMapped == EveryColumnOnce /\ RefusalKept /\ DecisionsAct
===============================================================================
