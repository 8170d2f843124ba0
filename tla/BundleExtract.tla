----------------------------- MODULE BundleExtract -----------------------------
(* extract of the two migration tools.  pb2zb builds a bundle in a directory of
   its own beside the output and renames it into place; rails2zb writes into the
   output directory and digests what it finds there at the end.  The source is
   meant to be stopped, and may be written to all the same: the database, and what
   was exported of its schema, which is read before anything is digested.  A file is
   known by the version of the source it was made of.                         *)
EXTENDS Integers, FiniteSets

CONSTANTS
  Extractors,
  Tables,      \* the files of a bundle: the schema, and one per collection
  SchemaFile,  \* schema.json
  Absent,      \* no such file
  MaxEdits,    \* writes to the source
  MaxKills

ASSUME ExtractConstants ==
  /\ SchemaFile \in Tables /\ MaxEdits \in Nat /\ MaxKills \in Nat /\ Absent \notin Nat

Versions == 0..MaxEdits
NoFiles == [t \in Tables |-> Absent]
NoManifest == [files |-> NoFiles, source |-> Absent]

VARIABLES
  kind,       \* "pb" or "rails": the tool that is used
  source,     \* version of the database and its schema export together
  exists,     \* does the output directory exist?
  out,        \* its files
  manifest,   \* zigbase-pocketbase-bundle.json, or report.json and hashes.json
  step,       \* extractor -> where it is
  loaded,     \* extractor -> version whose schema it read
  seen,       \* extractor -> version its inventory digested
  stage,      \* extractor -> files in its temporary directory
  sealed,     \* extractor -> the manifest there
  kills

xvars == <<kind, source, exists, out, manifest, step, loaded, seen, stage, sealed, kills>>

ExtractInit ==
  /\ kind = "?" /\ source = 0
  /\ exists = FALSE /\ out = NoFiles /\ manifest = NoManifest
  /\ step = [e \in Extractors |-> "idle"]
  /\ loaded = [e \in Extractors |-> Absent] /\ seen = [e \in Extractors |-> Absent]
  /\ stage = [e \in Extractors |-> NoFiles]
  /\ sealed = [e \in Extractors |-> NoManifest]
  /\ kills = 0

To(e, from, to) == step[e] = from /\ step' = [step EXCEPT ![e] = to]
Empty == out = NoFiles /\ manifest = NoManifest
Running(e) == step[e] \notin {"idle", "done", "refused", "killed"}

(* _prepare_output_directory and _require_clean_output *)
Clean == Empty

(* The output is examined first, and the schema is read.  One rails2zb at a time: it
   takes an empty directory and fills it in place. *)
Begin(e) ==
  /\ step[e] \in {"idle", "refused", "killed"}
  /\ kind' \in {"pb", "rails"} /\ (kind # "?" => kind' = kind)
  /\ kind' = "rails" => \A d \in Extractors : ~Running(d)
  /\ \/ Clean /\ step' = [step EXCEPT ![e] = "inventory"] /\ loaded' = [loaded EXCEPT ![e] = source]
     \/ ~Empty /\ step' = [step EXCEPT ![e] = "refused"] /\ UNCHANGED loaded
  /\ stage' = [stage EXCEPT ![e] = NoFiles] /\ sealed' = [sealed EXCEPT ![e] = NoManifest]
  /\ UNCHANGED <<source, exists, out, manifest, seen, kills>>

(* the inventory digests the schema export and the database as they are by now *)
Inventory(e) ==
  /\ To(e, "inventory", "rows") /\ seen' = [seen EXCEPT ![e] = source]
  /\ UNCHANGED <<kind, source, exists, out, manifest, loaded, stage, sealed, kills>>

(* an error before the end; what rails2zb has written stays *)
Refuse(e) ==
  /\ Running(e)
  /\ step' = [step EXCEPT ![e] = "refused"]
  /\ stage' = [stage EXCEPT ![e] = NoFiles] /\ sealed' = [sealed EXCEPT ![e] = NoManifest]
  /\ UNCHANGED <<kind, source, exists, out, manifest, loaded, seen, kills>>

(* the schema as it was read, with which the rows are converted, and the rows as they
   are now *)
FileOf(e, t) == IF t = SchemaFile THEN loaded[e] ELSE source

(* one file *)
WriteTable(e, t) ==
  /\ step[e] = "rows"
  /\ \/ /\ kind = "pb" /\ stage[e][t] = Absent
        /\ stage' = [stage EXCEPT ![e][t] = FileOf(e, t)]
        /\ UNCHANGED <<exists, out>>
     \/ /\ kind = "rails" /\ out[t] = Absent
        /\ out' = [out EXCEPT ![t] = FileOf(e, t)] /\ exists' = TRUE
        /\ UNCHANGED stage
  /\ UNCHANGED <<kind, source, manifest, step, loaded, seen, sealed, kills>>

(* Mutant: the source is not digested again. *)
UnchangedAssumed(e) == TRUE

(* pb2zb digests the schema and the database again *)
SourceUnchanged(e) == seen[e] = source

(* every collection's file was written *)
AllWritten(files) == \A t \in Tables : files[t] # Absent

(* pb2zb: the bundle is complete in its temporary directory *)
Seal(e) ==
  /\ kind = "pb" /\ To(e, "rows", "publish")
  /\ AllWritten(stage[e])
  /\ SourceUnchanged(e)
  /\ sealed' = [sealed EXCEPT ![e] = [files |-> stage[e], source |-> seen[e]]]
  /\ UNCHANGED <<kind, source, exists, out, manifest, loaded, seen, stage, kills>>

(* an output directory that is there is removed, which only an empty one can be *)
RemoveEmpty(e) ==
  /\ To(e, "publish", "rename") /\ Empty
  /\ exists' = FALSE
  /\ UNCHANGED <<kind, source, out, manifest, loaded, seen, stage, sealed, kills>>

(* a rename onto a directory needs it absent or empty *)
Renameable == Empty

Rename(e) ==
  /\ To(e, "rename", "done") /\ Renameable
  /\ exists' = TRUE /\ out' = stage[e] /\ manifest' = sealed[e]
  /\ stage' = [stage EXCEPT ![e] = NoFiles] /\ sealed' = [sealed EXCEPT ![e] = NoManifest]
  /\ UNCHANGED <<kind, source, loaded, seen, kills>>

(* rails2zb: report.json holds a digest of the database taken now ... *)
Report(e) ==
  /\ kind = "rails" /\ To(e, "rows", "hashes")
  /\ AllWritten(out)
  /\ sealed' = [sealed EXCEPT ![e].source = source]
  /\ UNCHANGED <<kind, source, exists, out, manifest, loaded, seen, stage, kills>>

(* ... and hashes.json, last, the digests of what is in the directory *)
Hashes(e) ==
  /\ To(e, "hashes", "done")
  /\ manifest' = [files |-> out, source |-> sealed[e].source]
  /\ sealed' = [sealed EXCEPT ![e] = NoManifest]
  /\ UNCHANGED <<kind, source, exists, out, loaded, seen, stage, kills>>

-------------------------------------------------------------------------------
SourceEdited ==
  /\ source < MaxEdits /\ kind # "?"
  /\ source' = source + 1
  /\ UNCHANGED <<kind, exists, out, manifest, step, loaded, seen, stage, sealed, kills>>

(* killed: a temporary directory is left behind, and is nobody's *)
KillExtract(e) ==
  /\ Running(e) /\ kills < MaxKills
  /\ kills' = kills + 1
  /\ step' = [step EXCEPT ![e] = "killed"]
  /\ stage' = [stage EXCEPT ![e] = NoFiles] /\ sealed' = [sealed EXCEPT ![e] = NoManifest]
  /\ UNCHANGED <<kind, source, exists, out, manifest, loaded, seen>>

(* the operator clears an output without a manifest before the next attempt *)
Cleared ==
  /\ exists /\ manifest = NoManifest
  /\ \A e \in Extractors : ~Running(e)
  /\ exists' = FALSE /\ out' = NoFiles
  /\ UNCHANGED <<kind, source, manifest, step, loaded, seen, stage, sealed, kills>>

ExtractStep(e) ==
  \/ Begin(e) \/ Inventory(e) \/ Seal(e) \/ RemoveEmpty(e) \/ Rename(e) \/ Report(e) \/ Hashes(e)
  \/ \E t \in Tables : WriteTable(e, t)

ExtractNext ==
  \/ \E e \in Extractors : ExtractStep(e) \/ Refuse(e) \/ KillExtract(e)
  \/ SourceEdited \/ Cleared

ExtractSpec == ExtractInit /\ [][ExtractNext]_xvars

-------------------------------------------------------------------------------
ExtractTypeOK ==
  /\ kind \in {"?", "pb", "rails"} /\ source \in Versions /\ exists \in BOOLEAN
  /\ out \in [Tables -> Versions \cup {Absent}]
  /\ manifest \in [files : [Tables -> Versions \cup {Absent}], source : Versions \cup {Absent}]
  /\ step \in [Extractors -> {"idle", "inventory", "rows", "publish", "rename", "hashes", "done",
                              "refused", "killed"}]
  /\ loaded \in [Extractors -> Versions \cup {Absent}]
  /\ seen \in [Extractors -> Versions \cup {Absent}]
  /\ stage \in [Extractors -> [Tables -> Versions \cup {Absent}]]
  /\ sealed \in [Extractors ->
       [files : [Tables -> Versions \cup {Absent}], source : Versions \cup {Absent}]]
  /\ kills \in 0..MaxKills

(* An output that has its manifest has every file, each as the manifest records
   it, however many extractions ran and wherever they were killed. *)
BundleWhole ==
  manifest # NoManifest =>
    exists /\ manifest.files = out /\ \A t \in Tables : out[t] # Absent

(* The rows of a bundle of pb2zb are those of the database it names: "PocketBase
   source changed during extraction; retry from a stopped snapshot".  Its schema was
   never exported after what it names, and may be older (SchemaAttested).  (rails2zb
   digests the database once, after its rows were read.) *)
RowsAttested ==
  kind = "pb" /\ manifest # NoManifest =>
    /\ \A t \in Tables \ {SchemaFile} : out[t] = manifest.source
    /\ out[SchemaFile] =< manifest.source

(* The schema of a bundle of pb2zb is that of the export whose digest it names.  It
   need not be: an export written between load_schema and the digest is digested
   equal at the end. *)
SchemaAttested == kind = "pb" /\ manifest # NoManifest => out[SchemaFile] = manifest.source

(* What an output that has its manifest holds is what the manifest says of it, and
   what the database it names had in its rows. *)
BundleAttested == BundleWhole /\ RowsAttested

(* A published bundle is never touched again. *)
PublishedStays == [][manifest # NoManifest => UNCHANGED <<manifest, out>>]_xvars

===============================================================================
