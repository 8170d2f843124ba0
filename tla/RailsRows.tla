------------------------------- MODULE RailsRows -------------------------------
(* extract of tools/rails/rails2zb.py from the mapped tables on: the checks of the
   rows, the schema, the plan of the files, the records, and what is examined
   before the bundle is attested.  BundleExtract has its writes and kills,
   RailsMapping what map_tables decides, RailsDates the reading of a moment.

   A value is [k, v]: the kind the driver returns and its text.  A bundle that has
   hashes.json is ready to be imported; the importer's rules, which the program
   restates in its comments, are at the end.                                  *)
EXTENDS Integers, Sequences, SequencesExt, FiniteSets

CONSTANTS
  Snapshots,       \* sources that may be extracted
  Instants,        \* texts to_rfc3339 reads as a moment
  Json(_),         \* what a text is as JSON, Bad if it is none
  Strip(_), Lower(_),
  Servable(_),     \* a word of a filename, of servable characters
  NameLimit,       \* TARGET_NAME_LIMIT, in words
  TooLong,         \* texts that make a line over IMPORT_LINE_LIMIT
  Folded(_)        \* the characters of an index name the target takes

Cell(k, v) == [k |-> k, v |-> v]
NULL == Cell("null", "")
Bad == Cell("bad", "")           \* a RailsError is raised
Text(t) == Cell("text", t)

(* A snapshot s and its mapping have
     mapped   sequence of entries, one per kept table
     rows     table -> sequence of rows [id, vals], in the order of their ids
     linked   identities of OmniAuth [account, provider, uid], and the table of accounts
     attached rows of active_storage_attachments, in order of id
     models   model -> table        blobs   keys present      local   on the Disk service?
     counts   table -> rows the inventory observed, of those it observed
     emit     are password digests to be emitted?
   and an entry
     table, collection, is_auth, digest, columns, field_names (column -> field),
     fields (set of [name, column, type, enum, mode, required]), relations (column -> collection),
     attachments (name -> macro), attachment_names (name -> field),
     indexes (set of [name, rank, column, unique, where, reviewed]),
     routable, separate (its timestamps: may be routed apart, are routed apart) *)
Entries(s) == ToSet(s.mapped)
Rows(s, entry) == ToSet(s.rows[entry.table])
Fractional == {"1.5"}
Outside == {"1e20"}      \* beyond a 64-bit integer
NotFinite == {"inf"}
given(value) == value \notin {NULL, Text("")}

(* What map_tables, and the database, see to.  An entry is of one table and one
   collection; a field has a name of its own, and the name its column was given;
   a column that is not null has values; texts are of one kind, but for SQLite's
   blobs; an integer is one of 64 bits; a unique index of the source holds there. *)
OneKind(a, b) == given(a) /\ given(b) /\ "bytes" \notin {a.k, b.k} /\ a.v = b.v => a = b
FieldsFormed(s, e) ==
  /\ \A f, g \in e.fields : f.name = g.name => f = g
  /\ \A c, d \in DOMAIN e.field_names : e.field_names[c] = e.field_names[d] => c = d
  /\ \A f \in e.fields :
       /\ f = [name |-> f.name, column |-> f.column, type |-> f.type, enum |-> f.enum,
               mode |-> f.mode, required |-> f.required]
       /\ f.required \in BOOLEAN
       /\ f.type \in {"text", "number", "bool", "date", "json", "relation", "file"}
       /\ f.type # "file" => f.column \in DOMAIN e.field_names /\ e.field_names[f.column] = f.name
       /\ f.enum # <<>> \/ (e.is_auth /\ f.name = "email") => f.type = "text"
       /\ e.is_auth /\ f.name = "email" => f.enum = <<>>
       /\ f.type = "text" /\ f.enum = <<>> =>
            \A r, q \in Rows(s, e) : OneKind(r.vals[f.column], q.vals[f.column])
       /\ f.type = "relation" =>
            /\ f.column \in DOMAIN e.relations
            /\ f.required => \A r \in Rows(s, e) : r.vals[f.column] # NULL
       /\ f.type = "number" /\ f.mode = "int" =>
            \A r \in Rows(s, e) : LET value == r.vals[f.column]
                                  IN /\ value.k = "int" => value.v \notin Fractional \cup Outside
                                     /\ value.k = "decimal" => value.v \notin Outside

IndexesFormed(s, e) ==
  /\ \A i, j \in e.indexes : i # j => i.name # j.name /\ i.rank # j.rank
  /\ \A i \in e.indexes :
       /\ i.name # "" /\ i.rank \in Nat
       /\ i.unique /\ ~i.where /\ i.column \in DOMAIN e.field_names =>
            LET value(x) == s.rows[e.table][x].vals[i.column]
            IN \A x, y \in DOMAIN s.rows[e.table] :
                 x # y /\ given(value(x)) /\ given(value(y)) => value(x) # value(y)

SnapshotFormed(s) ==
  /\ Len(s.mapped) \in Nat /\ DOMAIN s.mapped = 1..Len(s.mapped)
  /\ Len(s.attached) \in Nat /\ DOMAIN s.attached = 1..Len(s.attached)
  /\ \A i, j \in DOMAIN s.mapped :
       s.mapped[i].table = s.mapped[j].table \/ s.mapped[i].collection = s.mapped[j].collection => i = j
  /\ \A e \in Entries(s) :
       /\ e.is_auth \in BOOLEAN /\ e.separate \in BOOLEAN
       /\ FieldsFormed(s, e) /\ IndexesFormed(s, e)
       /\ \A c \in DOMAIN e.relations : \E t \in Entries(s) : t.collection = e.relations[c]
       /\ DOMAIN e.attachment_names = DOMAIN e.attachments
       /\ \A n, m \in DOMAIN e.attachments : e.attachment_names[n] = e.attachment_names[m] => n = m

ASSUME RowsConstants == \A s \in Snapshots : SnapshotFormed(s)

VARIABLES
  db,        \* the snapshot and its mapping
  rowStage,  \* how far the extraction is
  rowAt,     \* the entry whose rows are next
  rowOut     \* what the bundle has
rvars == <<db, rowStage, rowAt, rowOut>>

-------------------------------------------------------------------------------
(* coerce *)
RAILS_FALSE_STRINGS == {"0", "f", "F", "false", "FALSE", "off", "OFF"}
TrueWords == {"t", "true", "1", "on"}

labelled(value, enum) ==
  CASE value.k = "int" /\ value.v \in DOMAIN enum -> Text(enum[value.v])
    [] value.k = "text" /\ value.v \in {enum[o] : o \in DOMAIN enum} -> value
    [] OTHER -> Bad

(* to_rfc3339, in RailsDates *)
moment(value) ==
  IF value \in {NULL, Text("")} THEN NULL
  ELSE IF value.k = "text" /\ value.v \in Instants THEN value ELSE Bad

(* the false side is compared as it stands, the true side is folded *)
as_bool(value) ==
  IF value.k # "text" THEN Cell("bool", IF value.v = "0" THEN "false" ELSE "true")
  ELSE IF Strip(value.v) = "" THEN NULL
  ELSE CASE value.v \in RAILS_FALSE_STRINGS -> Cell("bool", "false")
         [] value.v \notin RAILS_FALSE_STRINGS /\ Lower(Strip(value.v)) \in TrueWords -> Cell("bool", "true")
         [] OTHER -> Bad

as_number(value, mode) ==
  LET n == IF value.k = "decimal"
           THEN IF mode = "int" THEN Cell("int", IF value.v \in Fractional THEN "1" ELSE value.v)
                ELSE Cell("real", value.v)
           ELSE value
  IN IF \/ n.k \notin {"int", "real"} \/ n.v \in NotFinite
        \/ mode = "int" /\ n.k = "real" /\ n.v \in Fractional \cup Outside
     THEN Bad ELSE n

coerce(value, f) ==
  CASE value = NULL -> NULL
    [] value # NULL /\ f.enum # <<>> -> labelled(value, f.enum)
    [] OTHER ->
       CASE f.type = "date" -> moment(value)
         [] f.type = "bool" -> as_bool(value)
         [] f.type = "number" -> as_number(value, f.mode)
         [] f.type = "json" -> IF value.k = "text" THEN Json(value.v) ELSE value
         [] OTHER -> IF value.k = "bytes" THEN Bad ELSE Text(value.v)

(* _is_empty_to_the_engine *)
EmptyCell(value) == value \in {NULL, Text(""), Cell("list", "[]")}

-------------------------------------------------------------------------------
(* the checks that come first *)
EntryOf(s, collection) == CHOOSE e \in Entries(s) : e.collection = collection
Injected == {"email", "username", "verified"}

(* Mutant: the text of the column is looked at. *)
EmptyRaw(s, entry, f) == \E r \in Rows(s, entry) : r.vals[f.column] \in {NULL, Text(""), Text("[]")}

(* some row emits an empty value *)
EmptyIn(s, entry, f) == \E r \in Rows(s, entry) : EmptyCell(coerce(r.vals[f.column], f))

(* _relax_required_for_empty_values; a value that cannot be coerced refuses *)
relaxable(entry) ==
  {f \in entry.fields : /\ f.required /\ f.type \notin {"relation", "file"}
                        /\ ~(entry.is_auth /\ f.name \in Injected)}
uncoercible(s, entry) ==
  \E f \in relaxable(entry), r \in Rows(s, entry) : coerce(r.vals[f.column], f) = Bad
relaxed(s, entry) ==
  {IF f \in relaxable(entry) /\ EmptyIn(s, entry, f) THEN [f EXCEPT !.required = FALSE] ELSE f :
     f \in entry.fields}

(* _refuse_dangling_relation_values, compared as text *)
dangling(s, entry) ==
  \E c \in DOMAIN entry.relations, r \in Rows(s, entry) :
    /\ r.vals[c] # NULL
    /\ \A d \in Rows(s, EntryOf(s, entry.relations[c])) : d.id.v # r.vals[c].v

(* _refuse_duplicate_auth_identities *)
ColumnOf(entry, field) == {c \in DOMAIN entry.field_names : entry.field_names[c] = field}
duplicate_identity(s, entry) ==
  /\ entry.is_auth
  /\ \E identity \in {"email", "username"} : \E c \in ColumnOf(entry, identity) :
       \E r, q \in Rows(s, entry) : r # q /\ given(r.vals[c]) /\ r.vals[c] = q.vals[c]

(* _refuse_invalid_auth_identities *)
Emails == {"a@x", "b@x"}     \* the texts _is_servable_email takes
invalid_identity(s, entry) ==
  /\ entry.is_auth
  /\ \E c \in ColumnOf(entry, "email"), r \in Rows(s, entry) :
       given(r.vals[c]) /\ r.vals[c].v \notin Emails

-------------------------------------------------------------------------------
(* _external_auths_by_account *)
AccountIds(s) == {r.id.v : r \in UNION {ToSet(s.rows[t]) : t \in s.accounts}}
partial_link(s, l) == "" \in {l.account, l.provider, l.uid} \/ l.account \notin AccountIds(s)
repeats(l, m) == l.provider = m.provider /\ (l.uid = m.uid \/ l.account = m.account)
bad_links(s) ==
  \/ \E l \in ToSet(s.linked) : partial_link(s, l)
  \/ \E i, j \in DOMAIN s.linked : i # j /\ repeats(s.linked[i], s.linked[j])
links_of(s, a) == {<<l.provider, l.uid>> : l \in {m \in ToSet(s.linked) : m.account = a}}

(* _indexes_for: through the names of the fields, never the raw column; a
   predicate is emitted only as it was reviewed *)
emittable(entry, i) == i.column \in DOMAIN entry.field_names /\ (i.where => i.reviewed)
second(entry, i) ==
  \E j \in entry.indexes : /\ emittable(entry, j) /\ j.name # i.name
                           /\ Folded(j.name) = Folded(i.name) /\ j.rank < i.rank
index_for(entry, i) ==
  [name |-> <<Folded(i.name), IF second(entry, i) THEN i.name ELSE "">>,
   field |-> entry.field_names[i.column], unique |-> i.unique, where |-> i.where]
indexes_for(entry) == {index_for(entry, i) : i \in {j \in entry.indexes : emittable(entry, j)}}

(* _unique_target_name: a filename is a sequence of words *)
Bounded(name) ==
  IF Len(name) <= NameLimit THEN name ELSE SubSeq(name, 1, NameLimit - 1) \o <<Last(name)>>
Cleaned(name) == [i \in DOMAIN name |-> Servable(name[i])]
candidates(a) ==
  <<Bounded(Cleaned(a.filename)), Bounded(<<Servable(a.field)>> \o Cleaned(a.filename)),
    Bounded(<<a.key>> \o Cleaned(a.filename))>>

unique_target_name(taken, collection, a) ==
  LET free == {i \in 1..3 : <<collection, a.record, candidates(a)[i]>> \notin taken}
  IN IF free = {} THEN {} ELSE {candidates(a)[CHOOSE i \in free : \A j \in free : i <= j]}

(* build_file_plan: attachments of omitted tables are passed over, those of absent
   records and dropped fields are reported, and a missing blob refuses *)
EntryFor(s, a) == {e \in Entries(s) : e.table = s.models[a.model]}
owned(s, e, a) == \E r \in Rows(s, e) : r.id.v = a.record
with_file(s, acc, e, a) ==
  LET names == unique_target_name(acc.taken, e.collection, a)
      n == CHOOSE x \in names : TRUE
  IN IF a.key \notin s.blobs \/ names = {} THEN [acc EXCEPT !.refused = TRUE]
     ELSE [acc EXCEPT !.taken = @ \cup {<<e.collection, a.record, n>>},
                      !.plan = Append(@, [collection |-> e.collection, record |-> a.record,
                                          field |-> a.field, target |-> n, key |-> a.key])]
with_attachment(s, acc, a) ==
  IF a.model \notin DOMAIN s.models THEN [acc EXCEPT !.refused = TRUE]
  ELSE IF EntryFor(s, a) = {} THEN acc
  ELSE LET e == CHOOSE x \in EntryFor(s, a) : TRUE
       IN IF ~owned(s, e, a) \/ a.field \notin DOMAIN e.attachments
          THEN [acc EXCEPT !.dropped = @ \cup {<<e.collection, a.field>>}]
          ELSE with_file(s, acc, e, a)
NoPlan == [plan |-> <<>>, taken |-> {}, dropped |-> {}, refused |-> FALSE]
file_plan(s) ==
  LET planned[n \in 0..Len(s.attached)] ==
        IF n = 0 THEN NoPlan ELSE with_attachment(s, planned[n - 1], s.attached[n])
  IN planned[Len(s.attached)]

-------------------------------------------------------------------------------
(* _record_id: a number, a text or a uuid, of printable characters *)
record_id(row) == IF row.id.k \in {"int", "text", "uuid"} /\ row.id.v \notin {"", "a b"} THEN row.id ELSE Bad

relation_value(value) == IF value.k \in {"null", "int", "text", "uuid"}
                         THEN IF value = NULL THEN NULL ELSE Text(value.v) ELSE Bad

(* the names of a record's files, in the order of the plan *)
FilesOf(plan, collection, record, attachment) ==
  LET mine == {i \in DOMAIN plan : /\ plan[i].collection = collection /\ plan[i].record = record
                                   /\ plan[i].field = attachment}
      nth(k) == CHOOSE i \in mine : Cardinality({j \in mine : j <= i}) = k
  IN [k \in 1..Cardinality(mine) |-> plan[nth(k)].target]
named(plan, entry, row, attachment) ==
  LET names == FilesOf(plan, entry.collection, row.id.v, attachment)
  IN IF entry.attachments[attachment] = "has_one_attached" /\ names # <<>> THEN <<names[1]>> ELSE names

(* updated follows created only where the source has no such column *)
Mirrored(entry, row) == "updated_at" \notin entry.columns

Stamp(entry, row, column) ==
  IF column \in entry.columns THEN moment(row.vals[column]) ELSE NULL

(* build_record *)
value_of(row, f) ==
  IF f.type = "relation" THEN relation_value(row.vals[f.column]) ELSE coerce(row.vals[f.column], f)
build_record(entry, row, plan) ==
  LET created == Stamp(entry, row, "created_at")
      updated == Stamp(entry, row, "updated_at")
  IN [id |-> record_id(row),
      values |-> [n \in {f.name : f \in {g \in entry.fields : g.type # "file"}} |->
                   value_of(row, CHOOSE g \in entry.fields : g.name = n)],
      files |-> [n \in {entry.attachment_names[x] : x \in DOMAIN entry.attachments} |->
                   named(plan, entry, row,
                         CHOOSE x \in DOMAIN entry.attachments : entry.attachment_names[x] = n)],
      created |-> created,
      updated |-> IF updated = NULL /\ Mirrored(entry, row) THEN created ELSE updated]

(* build_auth_record: a digest is bcrypt, or there is none to emit *)
credential(s, entry, row) ==
  IF ~entry.is_auth \/ entry.digest = "" \/ ~s.emit THEN NULL
  ELSE IF row.vals[entry.digest] = Text("bcrypt") THEN row.vals[entry.digest] ELSE Bad

malformed(s, entry, row, plan) ==
  LET record == build_record(entry, row, plan)
  IN \/ Bad \in {record.id, record.created, record.updated, credential(s, entry, row)}
     \/ \E n \in DOMAIN record.values : record.values[n] = Bad

(* _importable_with_timestamps *)
unimportable(entry, row, plan) ==
  LET record == build_record(entry, row, plan)
  IN ~entry.separate /\ NULL \in {record.created, record.updated}

-------------------------------------------------------------------------------
NoExtract == [schema |-> <<>>, plan |-> <<>>, dropped |-> {}, data |-> <<>>, links |-> <<>>,
              apart |-> {}, hashes |-> FALSE]

RowsInit ==
  /\ db \in Snapshots
  /\ rowStage = "rows" /\ rowAt = 0 /\ rowOut = NoExtract

RefuseRows == rowStage' = "refused" /\ UNCHANGED <<rowAt, rowOut>>

(* everything that can be told from the rows, before anything is written *)
Validate ==
  /\ rowStage = "rows" /\ rowAt = 0
  /\ IF \E e \in Entries(db) : \/ uncoercible(db, e) \/ dangling(db, e) \/ duplicate_identity(db, e)
                               \/ invalid_identity(db, e)
     THEN RefuseRows
     ELSE /\ rowStage' = "plan" /\ UNCHANGED rowAt
          /\ rowOut' = [rowOut EXCEPT !.schema = [c \in {e.collection : e \in Entries(db)} |->
                          [fields |-> relaxed(db, EntryOf(db, c)), indexes |-> indexes_for(EntryOf(db, c))]]]
  /\ UNCHANGED db

(* the identities of the accounts, and the files *)
Plan ==
  /\ rowStage = "plan"
  /\ IF bad_links(db) \/ (db.attached # <<>> /\ ~db.local) \/ file_plan(db).refused
     THEN RefuseRows
     ELSE /\ rowStage' = "rows" /\ rowAt' = 1
          /\ rowOut' = [rowOut EXCEPT !.plan = file_plan(db).plan, !.dropped = file_plan(db).dropped,
                                      !.links = [a \in AccountIds(db) |-> links_of(db, a)]]
  /\ UNCHANGED db

(* the file of one collection; the rows before a refused one are on disk, and
   nothing attests them *)
RecordsOf(s, entry, plan) ==
  [i \in DOMAIN s.rows[entry.table] |-> build_record(entry, s.rows[entry.table][i], plan)]
WriteRows ==
  /\ rowStage = "rows" /\ rowAt \in DOMAIN db.mapped
  /\ LET entry == db.mapped[rowAt]
     IN IF \E r \in Rows(db, entry) : malformed(db, entry, r, rowOut.plan)
                                      \/ unimportable(entry, r, rowOut.plan)
        THEN RefuseRows
        ELSE /\ rowAt' = rowAt + 1
             /\ rowOut' = [rowOut EXCEPT
                  !.data = [c \in DOMAIN rowOut.data \cup {entry.collection} |->
                              IF c = entry.collection THEN RecordsOf(db, entry, rowOut.plan)
                              ELSE rowOut.data[c]],
                  !.apart = IF entry.separate THEN @ \cup {entry.collection} ELSE @]
             /\ UNCHANGED rowStage
  /\ UNCHANGED db

(* _refuse_incoherent_row_counts and _oversized_lines, then report and hashes *)
incoherent(s, entry, records) == entry.table \in DOMAIN s.counts /\ s.counts[entry.table] # Len(records)
oversized(record) == \E n \in DOMAIN record.values : record.values[n].v \in TooLong

Attest ==
  /\ rowStage = "rows" /\ rowAt = Len(db.mapped) + 1
  /\ IF \E e \in Entries(db) : LET records == rowOut.data[e.collection]
                               IN incoherent(db, e, records) \/ \E r \in ToSet(records) : oversized(r)
     THEN RefuseRows
     ELSE rowStage' = "done" /\ rowOut' = [rowOut EXCEPT !.hashes = TRUE] /\ UNCHANGED rowAt
  /\ UNCHANGED db

RowsNext == Validate \/ Plan \/ WriteRows \/ Attest
RowsSpec == RowsInit /\ [][RowsNext]_rvars

-------------------------------------------------------------------------------
(* the importer, as the comments of rails2zb.py have it *)
Records(entry) == ToSet(rowOut.data[entry.collection])
IdsOf(collection) == {r.id.v : r \in ToSet(rowOut.data[collection])}

Requires(entry, f) == f.required /\ ~(entry.is_auth /\ f.name \in Injected)

FitsField(entry, f, value) ==
  /\ f.type = "relation" => value.v \in IdsOf(entry.relations[f.column])
  /\ f.type = "bool" => value.k = "bool"
  /\ f.type = "number" => /\ value.k \in {"int", "real"} /\ value.v \notin NotFinite
                          /\ f.mode = "int" => value.v \notin Fractional \cup Outside
  /\ f.type = "date" => value.v \in Instants
  /\ f.type = "text" => /\ value.k = "text"
                        /\ f.enum # <<>> => value.v \in {f.enum[o] : o \in DOMAIN f.enum}
                        /\ entry.is_auth /\ f.name = "email" => value.v \in Emails

Takes(entry, f, value) ==
  \/ value = NULL /\ ~Requires(entry, f)
  \/ ~EmptyCell(value) /\ FitsField(entry, f, value)
  \/ EmptyCell(value) /\ ~Requires(entry, f) /\ f.type \in {"text", "json"}

TakesRecord(entry, record) ==
  /\ \A f \in rowOut.schema[entry.collection].fields :
       f.type # "file" => Takes(entry, f, record.values[f.name])
  /\ entry.collection \notin rowOut.apart => NULL \notin {record.created, record.updated}

(* Two values that the source tells apart may be one once they are converted, and
   nothing looks for it: what is said is said of texts. *)
TakesIndex(entry, index) ==
  (/\ index.unique /\ ~index.where
   /\ \E f \in entry.fields : f.name = index.field /\ f.type = "text" /\ f.enum = <<>>)
  => LET value(x) == rowOut.data[entry.collection][x].values[index.field]
     IN \A x, y \in DOMAIN rowOut.data[entry.collection] :
          x # y /\ given(value(x)) => value(x) # value(y)

(* A bundle that is attested imports to its end: every value is one its field
   takes, required fields are given, relations resolve, timestamps are there to be
   preserved, accounts have one identity per provider and share none, and unique
   indexes hold.  ("the import died partway through with earlier collections
   already committed".) *)
RecordsTaken == \A e \in Entries(db) : \A r \in Records(e) : TakesRecord(e, r)
IndexesTaken ==
  \A e \in Entries(db) :
    /\ \A x, y \in rowOut.schema[e.collection].indexes : x # y => x.name # y.name
    /\ \A x \in rowOut.schema[e.collection].indexes : TakesIndex(e, x)
LinksApart ==
  \A a, b \in AccountIds(db) : \A l \in rowOut.links[a] : \A m \in rowOut.links[b] :
    l[1] = m[1] /\ (a = b \/ l[2] = m[2]) => a = b /\ l = m
ImportsWhole == rowOut.hashes => RecordsTaken /\ IndexesTaken /\ LinksApart

(* Every attachment of a record that is kept arrives, once and in the order of the
   uploads; its file has a place of its own under the record, and the record names
   it. *)
Arrives(a) ==
  \E e \in Entries(db) : /\ a.model \in DOMAIN db.models /\ e.table = db.models[a.model]
                         /\ a.record \in IdsOf(e.collection) /\ a.field \in DOMAIN e.attachments
PlaceOf(p) == <<p.collection, p.record, p.target>>
PlacesDiffer == \A i, j \in DOMAIN rowOut.plan : i # j => PlaceOf(rowOut.plan[i]) # PlaceOf(rowOut.plan[j])
FilesArrive ==
  \E upload \in [DOMAIN rowOut.plan -> DOMAIN db.attached] :
    /\ \A i, j \in DOMAIN rowOut.plan : i < j => upload[i] < upload[j]
    /\ \A x \in DOMAIN db.attached :
         Arrives(db.attached[x]) <=> \E i \in DOMAIN rowOut.plan : upload[i] = x
    /\ \A i \in DOMAIN rowOut.plan :
         LET p == rowOut.plan[i]
             a == db.attached[upload[i]]
         IN /\ p.record = a.record /\ p.field = a.field /\ p.key = a.key
            /\ \E e \in Entries(db) : e.table = db.models[a.model] /\ e.collection = p.collection
FilesNamed ==
  \A e \in Entries(db) : \A n \in DOMAIN e.attachments : \A r \in Records(e) :
    LET files == FilesOf(rowOut.plan, e.collection, r.id.v, n)
    IN \/ r.files[e.attachment_names[n]] = files
       \/ e.attachments[n] = "has_one_attached" /\ Len(files) > 1
FilesServed == rowOut.hashes => PlacesDiffer /\ FilesArrive /\ FilesNamed

(* ActiveModel's FALSE_VALUES, and true for any other text *)
RailsReads(value) ==
  IF value.k = "text" THEN value.v \notin RAILS_FALSE_STRINGS ELSE value.v # "0"
(* A record tells what its row told: Booleans as Rails read them, an enum by its
   label, and an update only if the row had one or could not have. *)
TellsTheSame(e, row, record) ==
  /\ \A f \in e.fields :
       f.type = "bool" /\ record.values[f.name] # NULL =>
         record.values[f.name].v = (IF RailsReads(row.vals[f.column]) THEN "true" ELSE "false")
  /\ "updated_at" \in e.columns =>
       record.updated = (IF row.vals["updated_at"] = Text("") THEN NULL ELSE row.vals["updated_at"])
MeaningKept ==
  rowOut.hashes =>
    \A e \in Entries(db) : \A x \in DOMAIN rowOut.data[e.collection] :
      TellsTheSame(e, db.rows[e.table][x], rowOut.data[e.collection][x])

(* A bundle rails2zb attests imports to its end, with every attachment in its place
   and the meaning its rows had. *)
RailsImports == ImportsWhole /\ FilesServed /\ MeaningKept

===============================================================================
