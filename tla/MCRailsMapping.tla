---------------------------- MODULE MCRailsMapping -----------------------------
(* Applications for RailsMapping, and names for its constants, as TLC is given them. *)
EXTENDS Sequences, TLC

CONSTANT Blank

MCKey(n) == CASE n = "Author" -> "author" [] n = "Verified" -> "verified" [] OTHER -> n
MCStem(n) ==
  CASE n = "author_id" -> "author" [] n = "editor_id" -> "editor" [] n = "Author_id" -> "Author"
    [] n = "user_id" -> "user" [] n = "verified_id" -> "verified" [] OTHER -> n
MCIsIdentifier(n) == n \notin {"1st", "old tags"}
MCColumnType(c) == IF c \in {"Verified", "verified"} THEN "boolean" ELSE "string"
MCColumnOrder == <<"1st", "Author", "Author_id", "author", "author_id", "editor_id", "email",
                   "user_id", "verified_id">>

Has(model, name, table, column, dependent) ==
  [model |-> model, name |-> name, macro |-> "has_many", table |-> table, column |-> column,
   type |-> Blank, dependent |-> dependent, through |-> FALSE, polymorphic |-> FALSE]
BelongsTo(model, name, table, column) ==
  [model |-> model, name |-> name, macro |-> "belongs_to", table |-> table, column |-> column,
   type |-> Blank, dependent |-> Blank, through |-> FALSE, polymorphic |-> FALSE]
Polymorphic(model, name) ==
  [BelongsTo(model, name, Blank, "subject_id") EXCEPT !.type = "subject_type", !.polymorphic = TRUE]
Model(name, table, sti) == [name |-> name, table |-> table, sti |-> sti]
Fk(table, column, to) ==
  [table |-> table, column |-> column, to |-> to, key |-> "id", on_delete |-> Blank, on_update |-> Blank]

Base == [columns |-> [users |-> {"id", "email"}, posts |-> {"id", "author_id"}],
         nullable |-> {}, readable |-> TRUE,
         fks |-> {Fk("posts", "author_id", "users")},
         models |-> {Model("User", "users", FALSE), Model("Post", "posts", FALSE)},
         assocs |-> {BelongsTo("Post", "author", "users", "author_id")},
         attachments |-> {}, encrypted |-> {}, digests |-> <<>>, omniauth |-> FALSE]

(* who deletes, who refuses, and what else becomes of the foreign key *)
Deletion ==
  {[Base EXCEPT
      !.columns = [users |-> {"id"}, posts |-> {"id", "author_id"}, notes |-> {"id", "user_id"}],
      !.nullable = n, !.readable = r, !.encrypted = e,
      !.models = @ \cup {Model("Admin", "users", FALSE)},
      !.fks = {[Fk("posts", "author_id", "users") EXCEPT !.on_delete = a, !.key = k],
               Fk("notes", "user_id", "users")},
      !.assocs = {Has("User", "posts", "posts", "author_id", x),
                  Has("Admin", "posts", "posts", "author_id", y),
                  Has("User", "notes", "notes", "user_id", z)}] :
     n \in {{}, {"posts"}}, r \in BOOLEAN, e \in {{}, {<<"posts", "author_id">>}},
     a \in {Blank, "cascade", "nullify"}, k \in {"id", "uuid"},
     x, y \in {Blank, "destroy", "restrict"}, z \in {Blank, "destroy"}}

(* columns, attachments and relations that want the same name *)
Names ==
  {[Base EXCEPT
      !.columns = [users |-> {"id"}, posts |-> {"id", "created_at", "author_id"} \cup c],
      !.fks = IF f THEN @ \cup {Fk("posts", "Author_id", "blobs")} ELSE {},
      !.assocs = @ \cup {BelongsTo("Post", "editor", "users", "editor_id"),
                         BelongsTo("Post", "owner", "users", "Author_id")}
                   \cup (IF "1st" \in c THEN {Polymorphic("Post", "subject")} ELSE {}),
      !.attachments = {<<"posts", x>> : x \in p}] :
     c \in {{}, {"author", "editor_id"}, {"Author", "Author_id"}, {"Author_id", "editor_id"},
            {"author", "1st", "subject_id", "subject_type"}, {"email", "verified_id", "editor"}},
     f \in BOOLEAN, p \in {{}, {"author"}, {"Author", "email"}, {"1st"}}}

(* accounts and their identities *)
Accounts ==
  {[Base EXCEPT
      !.columns = [users |-> {"id", "email", "Verified", "secret", "verified_id"} \cup c,
                   posts |-> {"id", "author_id"},
                   identities |-> {"id", "provider", "uid", "user_id"}],
      !.models = {Model("User", "users", t), Model("Admin", "users", FALSE)},
      !.fks = @ \cup {[Fk("identities", "user_id", "users") EXCEPT !.on_delete = y],
                       Fk("users", "verified_id", "posts")},
      !.assocs = {Has("User", "identities", "identities", "user_id", IF y = Blank THEN "destroy" ELSE "restrict"),
                  BelongsTo("Admin", "chief", "users", "author_id"),
                  BelongsTo("User", "chief", "posts", "author_id")},
      !.digests = IF x THEN [users |-> "secret"] ELSE <<>>, !.omniauth = o] :
     c \in {{}, {"author_id"}}, t \in BOOLEAN, x \in BOOLEAN, o \in BOOLEAN, y \in {Blank, "cascade"}}

(* a table that must be renamed *)
OddTable ==
  {[Base EXCEPT !.columns = @ @@ ("old tags" :> {"id", "author_id"}),
                !.fks = @ \cup {Fk("posts", "editor_id", "old tags")},
                !.columns["posts"] = @ \cup {"editor_id"}, !.nullable = n] :
     n \in {{}, {"old tags"}}}

MCSources == Deletion \cup Names \cup Accounts \cup OddTable
===============================================================================
