---------------------------- MODULE MigrationProofs ----------------------------
(* A published bundle is whole, attested and left alone; and where no rails2zb has
   a rival in its data directory, no installed file is ever overwritten and an
   installation that says it is done is complete.  Both for any number of
   processes, files, edits and kills.  The day count that moves a timestamp to UTC
   is the calendar's, in every year.  And a reconciliation that exits 0 proves a
   mutation, shadows no route and leaves no blocker open, whatever its artifacts
   are and however many routes and decisions they have.  And a bundle pb2zb makes
   loads, has what was decided and admits nobody it did not, whatever is exported
   and decided.                                                                *)
EXTENDS BundleExtract, FileInstall, RailsDates, FullstackReconcile, PbMapping, FiniteSetTheorems, TLAPS

FileSet == [Tables -> Versions \cup {Absent}]
ManifestSet == [files : FileSet, source : Versions \cup {Absent}]

\* Nothing has happened before the tool is chosen.
Fresh == kind = "?" => manifest = NoManifest /\ \A e \in Extractors : step[e] = "idle"

\* An extractor at work has read a schema that is not newer than the source.
SchemaRead ==
  \A e \in Extractors : step[e] \in {"inventory", "rows"} =>
    /\ loaded[e] \in Versions /\ loaded[e] =< source
    /\ step[e] = "inventory" => stage[e] = NoFiles

\* A pb2zb that writes rows has inventoried a source that is not newer than any of
\* them, and not older than the schema.
Dated ==
  \A e \in Extractors : kind = "pb" /\ step[e] = "rows" =>
    /\ seen[e] \in Versions /\ seen[e] =< source /\ loaded[e] =< seen[e]
    /\ stage[e][SchemaFile] \in {Absent, loaded[e]}
    /\ \A t \in Tables \ {SchemaFile} :
         stage[e][t] # Absent => seen[e] =< stage[e][t] /\ stage[e][t] =< source

\* What it is about to publish is complete, and its rows are of the version it names.
Sealed ==
  \A e \in Extractors : step[e] \in {"publish", "rename"} =>
    /\ kind = "pb" /\ sealed[e].files = stage[e]
    /\ \A t \in Tables : stage[e][t] # Absent
    /\ \A t \in Tables \ {SchemaFile} : stage[e][t] = sealed[e].source
    /\ stage[e][SchemaFile] =< sealed[e].source

\* One rails2zb runs at a time, into a directory nothing was published in.
Alone ==
  kind = "rails" =>
    /\ \A d, e \in Extractors : Running(d) /\ Running(e) => d = e
    /\ manifest # NoManifest => \A e \in Extractors : ~Running(e)
    /\ \A e \in Extractors : step[e] = "hashes" => \A t \in Tables : out[t] # Absent

\* A rails2zb digests only what it has written itself.
Digested == \A e \in Extractors : step[e] = "hashes" => kind = "rails"

\* An output with a file exists.
Housed == (\E t \in Tables : out[t] # Absent) => exists

ExtractInv ==
  /\ ExtractTypeOK /\ BundleWhole /\ RowsAttested
  /\ Fresh /\ SchemaRead /\ Dated /\ Sealed /\ Alone /\ Digested /\ Housed

\* ExtractInit establishes the invariant.
LEMMA ExtractInitial == ExtractInit => ExtractInv
<1> SUFFICES ASSUME ExtractInit PROVE ExtractInv
  OBVIOUS
<1>1. NoFiles \in [Tables -> Versions \cup {Absent}]
  BY DEF NoFiles
<1>2. NoManifest \in [files : [Tables -> Versions \cup {Absent}], source : Versions \cup {Absent}]
  BY <1>1 DEF NoManifest
<1>3. ExtractTypeOK
  <2>1. 0 \in Versions /\ 0 \in 0..MaxKills
    BY ExtractConstants DEF Versions
  <2>2. QED
    BY <1>1, <1>2, <2>1 DEF ExtractInit, ExtractTypeOK
<1>4. Fresh /\ SchemaRead /\ Dated /\ Sealed /\ Alone /\ Digested /\ Housed
  BY DEF ExtractInit, Fresh, SchemaRead, Dated, Sealed, Alone, Digested, Housed, NoFiles
<1>5. BundleWhole /\ RowsAttested
  BY DEF ExtractInit, BundleWhole, RowsAttested
<1>6. QED
  BY <1>3, <1>4, <1>5 DEF ExtractInv

\* Begin preserves it: an output with files in it is refused.
LEMMA BeginKeeps == ASSUME ExtractInv, NEW e \in Extractors, Begin(e) PROVE ExtractInv'
<1>1. ExtractTypeOK'
  <2>1. step' \in [Extractors -> {"idle", "inventory", "rows", "publish", "rename", "hashes", "done",
                                  "refused", "killed"}]
    BY DEF ExtractInv, ExtractTypeOK, Begin
  <2>2. loaded' \in [Extractors -> Versions \cup {Absent}]
    BY DEF ExtractInv, ExtractTypeOK, Begin
  <2>3. stage' \in [Extractors -> [Tables -> Versions \cup {Absent}]]
    BY DEF ExtractInv, ExtractTypeOK, NoFiles, Begin
  <2>4. sealed' \in [Extractors ->
          [files : [Tables -> Versions \cup {Absent}], source : Versions \cup {Absent}]]
    BY DEF ExtractInv, ExtractTypeOK, NoFiles, NoManifest, Begin
  <2>5. QED
    BY <2>1, <2>2, <2>3, <2>4 DEF ExtractInv, ExtractTypeOK, Begin
<1>2. BundleWhole' /\ RowsAttested'
  BY DEF ExtractInv, BundleWhole, RowsAttested, Fresh, Begin
<1>3. Fresh' /\ Digested'
  BY DEF ExtractInv, ExtractTypeOK, Fresh, Digested, Begin
<1>4. Dated'
  BY DEF ExtractInv, ExtractTypeOK, Dated, Fresh, Versions, NoFiles, Begin
<1>5. Sealed'
  BY DEF ExtractInv, ExtractTypeOK, Sealed, Begin
<1>6. Alone'
  <2>1. CASE step' = [step EXCEPT ![e] = "inventory"] /\ Clean
    BY <2>1 DEF ExtractInv, ExtractTypeOK, Alone, Fresh, Digested, Running, Empty, Sealed, Begin,
                Clean
  <2>2. CASE step' = [step EXCEPT ![e] = "refused"]
    BY <2>2 DEF ExtractInv, ExtractTypeOK, Alone, Fresh, Digested, Running, Sealed, Begin
  <2>3. QED
    BY <2>1, <2>2 DEF Begin
<1>7. Housed'
  BY DEF ExtractInv, Housed, Begin
<1>8. SchemaRead'
  BY DEF ExtractInv, ExtractTypeOK, SchemaRead, To, Versions, Begin
<1>9. QED
  BY <1>1, <1>2, <1>3, <1>4, <1>5, <1>6, <1>7, <1>8 DEF ExtractInv

\* Inventory preserves it: what is digested is not older than what was read.
LEMMA InventoryKeeps == ASSUME ExtractInv, NEW e \in Extractors, Inventory(e) PROVE ExtractInv'
<1>1. ExtractTypeOK'
  BY DEF ExtractInv, ExtractTypeOK, Inventory, To
<1>2. BundleWhole' /\ RowsAttested'
  BY DEF ExtractInv, BundleWhole, RowsAttested, Inventory
<1>3. Fresh' /\ Digested'
  BY DEF ExtractInv, Fresh, Digested, Inventory, To
<1>4. Dated'
  <2>1. stage[e] = NoFiles /\ loaded[e] =< source /\ source \in Versions
    BY DEF ExtractInv, ExtractTypeOK, SchemaRead, Inventory, To
  <2>2. seen'[e] = source /\ \A d \in Extractors \ {e} : seen'[d] = seen[d] /\ step'[d] = step[d]
    BY DEF ExtractInv, ExtractTypeOK, Inventory, To
  <2>3. source =< source
    BY <2>1, ExtractConstants DEF Versions
  <2>4. QED
    BY <2>1, <2>2, <2>3, ExtractConstants DEF ExtractInv, Dated, NoFiles, Inventory
<1>5. Sealed'
  BY DEF ExtractInv, Sealed, Inventory, To
<1>6. Alone'
  BY DEF ExtractInv, Alone, Running, Inventory, To
<1>7. Housed'
  BY DEF ExtractInv, Housed, Inventory
<1>8. SchemaRead'
  BY DEF ExtractInv, ExtractTypeOK, SchemaRead, Inventory, To
<1>9. QED
  BY <1>1, <1>2, <1>3, <1>4, <1>5, <1>6, <1>7, <1>8 DEF ExtractInv

\* Refuse preserves it.
LEMMA RefuseKeeps == ASSUME ExtractInv, NEW e \in Extractors, Refuse(e) PROVE ExtractInv'
<1>1. ExtractTypeOK'
  BY DEF ExtractInv, ExtractTypeOK, NoFiles, NoManifest, Refuse
<1>2. BundleWhole' /\ RowsAttested'
  BY DEF ExtractInv, BundleWhole, RowsAttested, Refuse
<1>3. Fresh' /\ Digested'
  BY DEF ExtractInv, Fresh, Digested, Refuse, Running
<1>4. Dated'
  BY DEF ExtractInv, ExtractTypeOK, Dated, Refuse
<1>5. Sealed'
  BY DEF ExtractInv, ExtractTypeOK, Sealed, Refuse
<1>6. Alone'
  BY DEF ExtractInv, Alone, Running, Refuse
<1>7. Housed'
  BY DEF ExtractInv, Housed, Refuse
<1>8. SchemaRead'
  BY DEF ExtractInv, ExtractTypeOK, SchemaRead, To, Versions, Refuse
<1>9. QED
  BY <1>1, <1>2, <1>3, <1>4, <1>5, <1>6, <1>7, <1>8 DEF ExtractInv

\* A function that is updated with a value of its range is a function to it.
LEMMA Updated ==
  ASSUME NEW S, NEW T, NEW f \in [S -> T], NEW x \in S, NEW v \in T
  PROVE  [f EXCEPT ![x] = v] \in [S -> T]
  OBVIOUS

\* A schema is made as it was read, rows as they are.
LEMMA WrittenAs ==
  ASSUME NEW e \in Extractors, NEW t \in Tables
  PROVE  (t = SchemaFile => FileOf(e, t) = loaded[e]) /\ (t # SchemaFile => FileOf(e, t) = source)
<1>1. CASE t = SchemaFile
  BY <1>1 DEF FileOf
<1>2. CASE t # SchemaFile
  BY <1>2 DEF FileOf
<1>3. QED
  BY <1>1, <1>2

\* WriteTable preserves it: only a rails2zb writes into the output, and it is alone.
LEMMA WriteTableKeeps ==
  ASSUME ExtractInv, NEW e \in Extractors, NEW t \in Tables, WriteTable(e, t)
  PROVE  ExtractInv'
<1> DEFINE v == FileOf(e, t)
<1>0. /\ step[e] = "rows" /\ UNCHANGED <<kind, source, manifest, step, loaded, seen, sealed, kills>>
      /\ \/ kind = "pb" /\ stage[e][t] = Absent /\ stage' = [stage EXCEPT ![e][t] = v] /\ UNCHANGED <<exists, out>>
         \/ kind = "rails" /\ out' = [out EXCEPT ![t] = v] /\ exists' = TRUE /\ UNCHANGED stage
  BY DEF WriteTable
<1>a. (t = SchemaFile => v = loaded[e]) /\ (t # SchemaFile => v = source)
  BY WrittenAs DEF ExtractInv
<1> HIDE DEF v
<1>b. v \in Versions
  BY <1>0, <1>a DEF ExtractInv, ExtractTypeOK, SchemaRead
<1>1. ExtractTypeOK'
  <2>1. stage' \in [Extractors -> [Tables -> Versions \cup {Absent}]]
    <3>1. stage[e] \in [Tables -> Versions \cup {Absent}] /\ v \in Versions
      BY <1>b DEF ExtractInv, ExtractTypeOK
    <3>2. [stage[e] EXCEPT ![t] = v] \in [Tables -> Versions \cup {Absent}]
      BY <3>1
    <3>3. stage \in [Extractors -> [Tables -> Versions \cup {Absent}]]
      BY DEF ExtractInv, ExtractTypeOK
    <3>4. stage' = stage \/ stage' = [stage EXCEPT ![e] = [stage[e] EXCEPT ![t] = v]]
      BY <1>0, <3>3
    <3>5. [stage EXCEPT ![e] = [stage[e] EXCEPT ![t] = v]]
            \in [Extractors -> [Tables -> Versions \cup {Absent}]]
      BY <3>2, <3>3, Updated
    <3>6. QED
      BY <3>3, <3>4, <3>5
  <2>2. out' \in [Tables -> Versions \cup {Absent}]
    <3>1. out \in [Tables -> Versions \cup {Absent}] /\ v \in Versions
      BY <1>b DEF ExtractInv, ExtractTypeOK
    <3>2. out' = out \/ out' = [out EXCEPT ![t] = v]
      BY <1>0
    <3>3. QED
      BY <3>1, <3>2
  <2>3. exists' \in BOOLEAN
    BY <1>0 DEF ExtractInv, ExtractTypeOK
  <2>4. QED
    BY <1>0, <2>1, <2>2, <2>3 DEF ExtractInv, ExtractTypeOK
<1>2. BundleWhole' /\ RowsAttested'
  BY <1>0 DEF ExtractInv, BundleWhole, RowsAttested, Fresh, Alone, Running
<1>3. Fresh' /\ Digested'
  BY <1>0 DEF ExtractInv, Fresh, Digested
<1>4. Dated'
  <2> SUFFICES ASSUME NEW d \in Extractors, kind' = "pb", step'[d] = "rows"
               PROVE  /\ seen'[d] \in Versions /\ seen'[d] =< source' /\ loaded'[d] =< seen'[d]
                      /\ stage'[d][SchemaFile] \in {Absent, loaded'[d]}
                      /\ \A x \in Tables \ {SchemaFile} : stage'[d][x] # Absent =>
                           seen'[d] =< stage'[d][x] /\ stage'[d][x] =< source'
    BY DEF Dated
  <2>1. kind = "pb" /\ step[d] = "rows" /\ seen' = seen /\ source' = source /\ loaded' = loaded
    BY <1>0
  <2>2. /\ seen[d] \in Versions /\ seen[d] =< source /\ loaded[d] =< seen[d]
        /\ stage[d][SchemaFile] \in {Absent, loaded[d]}
        /\ \A x \in Tables \ {SchemaFile} :
             stage[d][x] # Absent => seen[d] =< stage[d][x] /\ stage[d][x] =< source
    BY <2>1 DEF ExtractInv, Dated
  <2>3. \A x \in Tables : stage'[d][x] = stage[d][x] \/ (d = e /\ x = t /\ stage'[d][x] = v)
    <3>1. stage \in [Extractors -> [Tables -> Versions \cup {Absent}]]
      BY DEF ExtractInv, ExtractTypeOK
    <3>2. stage[d] \in [Tables -> Versions \cup {Absent}]
      BY <3>1
    <3>3. CASE d # e
      BY <1>0, <3>1, <3>3
    <3>4. CASE d = e
      <4>1. stage'[d] = stage[d] \/ stage'[d] = [stage[d] EXCEPT ![t] = v]
        BY <1>0, <3>1, <3>4
      <4>2. QED
        BY <3>2, <3>4, <4>1
    <3>5. QED
      BY <3>3, <3>4
  <2>4. source =< source
    BY ExtractConstants DEF ExtractInv, ExtractTypeOK, Versions
  <2>5. stage'[d][SchemaFile] \in {Absent, loaded[d]}
    BY <1>a, <2>2, <2>3, ExtractConstants
  <2>6. ASSUME NEW x \in Tables \ {SchemaFile}, stage'[d][x] # Absent
        PROVE  seen[d] =< stage'[d][x] /\ stage'[d][x] =< source
    <3>1. CASE stage'[d][x] = stage[d][x]
      BY <2>2, <2>6, <3>1
    <3>2. CASE d = e /\ x = t /\ stage'[d][x] = v
      BY <1>a, <2>2, <2>4, <3>2
    <3>3. QED
      BY <2>3, <3>1, <3>2
  <2>7. QED
    BY <2>1, <2>2, <2>5, <2>6
<1>5. Sealed'
  <2>1. \A d \in Extractors : step[d] \in {"publish", "rename"} => stage'[d] = stage[d]
    BY <1>0 DEF ExtractInv, ExtractTypeOK
  <2>2. QED
    BY <1>0, <2>1 DEF ExtractInv, ExtractTypeOK, Sealed
<1>6. Alone'
  BY <1>0 DEF ExtractInv, Alone, Running
<1>7. Housed'
  BY <1>0 DEF ExtractInv, Housed
<1>8. SchemaRead'
  <2>1. \A d \in Extractors : step[d] = "inventory" => stage'[d] = stage[d]
    BY <1>0 DEF ExtractInv, ExtractTypeOK
  <2>2. loaded' = loaded /\ step' = step /\ source' = source
    BY <1>0
  <2>3. QED
    BY <2>1, <2>2 DEF ExtractInv, SchemaRead
<1>9. QED
  BY <1>1, <1>2, <1>3, <1>4, <1>5, <1>6, <1>7, <1>8 DEF ExtractInv

\* Seal preserves it: a source digested equal twice did not change in between.
LEMMA SealKeeps == ASSUME ExtractInv, NEW e \in Extractors, Seal(e) PROVE ExtractInv'
<1>1. ExtractTypeOK'
  BY DEF ExtractInv, ExtractTypeOK, Seal, To
<1>2. BundleWhole' /\ RowsAttested'
  BY DEF ExtractInv, BundleWhole, RowsAttested, Seal
<1>3. Fresh' /\ Digested'
  BY DEF ExtractInv, Fresh, Digested, Seal, To
<1>4. Dated'
  BY DEF ExtractInv, Dated, Seal, To
<1>5. Sealed'
  <2>1. step[e] = "rows" /\ kind = "pb" /\ seen[e] = source /\ seen[e] \in Versions
    BY DEF ExtractInv, Dated, Seal, To, SourceUnchanged
  <2>2. ASSUME NEW t \in Tables \ {SchemaFile} PROVE stage[e][t] = seen[e]
    <3>1. stage[e][t] \in Versions
      BY DEF ExtractInv, ExtractTypeOK, Seal, AllWritten
    <3>2. seen[e] =< stage[e][t] /\ stage[e][t] =< source
      BY <2>1 DEF ExtractInv, Dated, Seal, AllWritten
    <3>3. stage[e][t] \in Nat /\ source \in Nat
      BY <2>1, <3>1, ExtractConstants DEF Versions
    <3>4. QED
      BY <2>1, <3>2, <3>3, ExtractConstants
  <2>3. sealed'[e] = [files |-> stage[e], source |-> seen[e]]
    BY DEF ExtractInv, ExtractTypeOK, Seal
  <2>4. \A d \in Extractors \ {e} : step'[d] = step[d] /\ sealed'[d] = sealed[d]
    BY DEF Seal, To
  <2>5. \A t \in Tables : stage[e][t] # Absent
    BY DEF Seal, AllWritten
  <2>6. stage[e][SchemaFile] = loaded[e] /\ loaded[e] =< seen[e]
    BY <2>1, <2>5, ExtractConstants DEF ExtractInv, Dated
  <2>7. /\ sealed'[e].files = stage'[e] /\ sealed'[e].source = seen[e] /\ stage' = stage
        /\ kind' = "pb"
    BY <2>3 DEF Seal
  <2>8. QED
    BY <2>2, <2>4, <2>5, <2>6, <2>7 DEF ExtractInv, Sealed
<1>6. Alone'
  BY DEF Alone, Seal
<1>7. Housed'
  BY DEF ExtractInv, Housed, Seal
<1>8. SchemaRead'
  BY DEF ExtractInv, ExtractTypeOK, SchemaRead, To, Versions, Seal
<1>9. QED
  BY <1>1, <1>2, <1>3, <1>4, <1>5, <1>6, <1>7, <1>8 DEF ExtractInv

\* RemoveEmpty preserves it.
LEMMA RemoveEmptyKeeps ==
  ASSUME ExtractInv, NEW e \in Extractors, RemoveEmpty(e)
  PROVE  ExtractInv'
<1>1. ExtractTypeOK'
  BY DEF ExtractInv, ExtractTypeOK, RemoveEmpty, To
<1>2. BundleWhole' /\ RowsAttested'
  BY DEF BundleWhole, RowsAttested, Empty, RemoveEmpty
<1>3. Fresh' /\ Digested'
  BY DEF ExtractInv, Fresh, Digested, RemoveEmpty, To
<1>4. Dated'
  BY DEF ExtractInv, Dated, RemoveEmpty, To
<1>5. Sealed'
  BY DEF ExtractInv, Sealed, RemoveEmpty, To
<1>6. Alone'
  BY DEF ExtractInv, Alone, Running, RemoveEmpty, To
<1>7. Housed'
  BY DEF Housed, NoFiles, Empty, RemoveEmpty
<1>8. SchemaRead'
  BY DEF ExtractInv, ExtractTypeOK, SchemaRead, To, Versions, RemoveEmpty
<1>9. QED
  BY <1>1, <1>2, <1>3, <1>4, <1>5, <1>6, <1>7, <1>8 DEF ExtractInv

\* Rename preserves it: nothing is published over anything.
LEMMA RenameKeeps == ASSUME ExtractInv, NEW e \in Extractors, Rename(e) PROVE ExtractInv'
<1>1. ExtractTypeOK'
  BY DEF ExtractInv, ExtractTypeOK, NoFiles, NoManifest, Rename, To
<1>2. BundleWhole' /\ RowsAttested'
  BY DEF ExtractInv, BundleWhole, RowsAttested, Sealed, Rename, To
<1>3. Fresh' /\ Digested'
  BY DEF ExtractInv, Fresh, Digested, Rename, To
<1>4. Dated'
  BY DEF ExtractInv, Dated, Rename, To
<1>5. Sealed'
  BY DEF ExtractInv, ExtractTypeOK, Sealed, Rename, To
<1>6. Alone'
  BY DEF ExtractInv, Alone, Sealed, Rename, To
<1>7. Housed'
  BY DEF Housed, Rename
<1>8. SchemaRead'
  BY DEF ExtractInv, ExtractTypeOK, SchemaRead, To, Versions, Rename
<1>9. QED
  BY <1>1, <1>2, <1>3, <1>4, <1>5, <1>6, <1>7, <1>8 DEF ExtractInv

\* Report preserves it.
LEMMA ReportKeeps == ASSUME ExtractInv, NEW e \in Extractors, Report(e) PROVE ExtractInv'
<1>1. ExtractTypeOK'
  BY DEF ExtractInv, ExtractTypeOK, Report, To
<1>2. BundleWhole' /\ RowsAttested'
  BY DEF ExtractInv, BundleWhole, RowsAttested, Report
<1>3. Fresh' /\ Digested'
  BY DEF Fresh, Digested, Report
<1>4. Dated'
  BY DEF Dated, Report
<1>5. Sealed'
  BY DEF ExtractInv, Sealed, Report, To
<1>6. Alone'
  BY DEF ExtractInv, Alone, Running, Report, To, AllWritten
<1>7. Housed'
  BY DEF ExtractInv, Housed, Report
<1>8. SchemaRead'
  BY DEF ExtractInv, ExtractTypeOK, SchemaRead, To, Versions, Report
<1>9. QED
  BY <1>1, <1>2, <1>3, <1>4, <1>5, <1>6, <1>7, <1>8 DEF ExtractInv

\* Hashes preserves it: what it digests is complete.
LEMMA HashesKeeps == ASSUME ExtractInv, NEW e \in Extractors, Hashes(e) PROVE ExtractInv'
<1>1. ExtractTypeOK'
  BY DEF ExtractInv, ExtractTypeOK, NoFiles, NoManifest, Hashes, To
<1>2. BundleWhole' /\ RowsAttested'
  BY ExtractConstants
     DEF ExtractInv, BundleWhole, RowsAttested, Alone, Housed, Digested, Hashes, To
<1>3. Fresh' /\ Digested'
  BY DEF ExtractInv, Fresh, Digested, Hashes, To
<1>4. Dated'
  BY DEF ExtractInv, Dated, Hashes, To
<1>5. Sealed'
  BY DEF ExtractInv, Sealed, Hashes, To
<1>6. Alone'
  BY DEF ExtractInv, ExtractTypeOK, Alone, Fresh, Digested, Running, Empty, Sealed, Hashes,
         To
<1>7. Housed'
  BY DEF ExtractInv, Housed, Hashes
<1>8. SchemaRead'
  BY DEF ExtractInv, ExtractTypeOK, SchemaRead, To, Versions, Hashes
<1>9. QED
  BY <1>1, <1>2, <1>3, <1>4, <1>5, <1>6, <1>7, <1>8 DEF ExtractInv

\* SourceEdited preserves it: versions only grow.
LEMMA EditKeeps == ASSUME ExtractInv, SourceEdited PROVE ExtractInv'
<1>1. ExtractTypeOK'
  BY ExtractConstants DEF ExtractInv, ExtractTypeOK, Versions, SourceEdited
<1>2. BundleWhole' /\ RowsAttested'
  BY DEF ExtractInv, BundleWhole, RowsAttested, SourceEdited
<1>3. Fresh' /\ Digested'
  BY DEF ExtractInv, Fresh, Digested, SourceEdited
<1>4. Dated'
  BY DEF ExtractInv, ExtractTypeOK, Dated, Versions, SourceEdited
<1>5. Sealed'
  BY DEF ExtractInv, Sealed, SourceEdited
<1>6. Alone'
  BY DEF ExtractInv, Alone, Running, SourceEdited
<1>7. Housed'
  BY DEF ExtractInv, Housed, SourceEdited
<1>8. SchemaRead'
  BY DEF ExtractInv, ExtractTypeOK, SchemaRead, To, Versions, SourceEdited
<1>9. QED
  BY <1>1, <1>2, <1>3, <1>4, <1>5, <1>6, <1>7, <1>8 DEF ExtractInv

\* KillExtract preserves it.
LEMMA KillKeeps == ASSUME ExtractInv, NEW e \in Extractors, KillExtract(e) PROVE ExtractInv'
<1>1. ExtractTypeOK'
  BY ExtractConstants DEF ExtractInv, ExtractTypeOK, NoFiles, NoManifest, KillExtract
<1>2. BundleWhole' /\ RowsAttested'
  BY DEF ExtractInv, BundleWhole, RowsAttested, KillExtract
<1>3. Fresh' /\ Digested'
  BY DEF ExtractInv, Fresh, Digested, KillExtract, Running
<1>4. Dated'
  BY DEF ExtractInv, ExtractTypeOK, Dated, KillExtract
<1>5. Sealed'
  BY DEF ExtractInv, ExtractTypeOK, Sealed, KillExtract
<1>6. Alone'
  BY DEF ExtractInv, Alone, Running, KillExtract
<1>7. Housed'
  BY DEF ExtractInv, Housed, KillExtract
<1>8. SchemaRead'
  BY DEF ExtractInv, ExtractTypeOK, SchemaRead, To, Versions, KillExtract
<1>9. QED
  BY <1>1, <1>2, <1>3, <1>4, <1>5, <1>6, <1>7, <1>8 DEF ExtractInv

\* Cleared preserves it.
LEMMA ClearedKeeps == ASSUME ExtractInv, Cleared PROVE ExtractInv'
<1>1. ExtractTypeOK'
  BY DEF ExtractInv, ExtractTypeOK, NoFiles, Cleared
<1>2. BundleWhole' /\ RowsAttested'
  BY DEF BundleWhole, RowsAttested, Cleared
<1>3. Fresh' /\ Digested'
  BY DEF ExtractInv, Fresh, Digested, Cleared
<1>4. Dated'
  BY DEF ExtractInv, Dated, Cleared
<1>5. Sealed'
  BY DEF ExtractInv, Sealed, Cleared
<1>6. Alone'
  BY DEF Alone, Running, Cleared
<1>7. Housed'
  BY DEF Housed, NoFiles, Cleared
<1>8. SchemaRead'
  BY DEF ExtractInv, ExtractTypeOK, SchemaRead, To, Versions, Cleared
<1>9. QED
  BY <1>1, <1>2, <1>3, <1>4, <1>5, <1>6, <1>7, <1>8 DEF ExtractInv

\* The invariant is inductive.
LEMMA ExtractInductive == ExtractInv /\ [ExtractNext]_xvars => ExtractInv'
<1> SUFFICES ASSUME ExtractInv, [ExtractNext]_xvars PROVE ExtractInv'
  OBVIOUS
<1>1. CASE UNCHANGED xvars
  BY <1>1
     DEF ExtractInv, ExtractTypeOK, BundleWhole, RowsAttested, Fresh, SchemaRead, Dated, Sealed, Alone,
         Digested, Housed, Running, xvars
<1>2. ASSUME NEW e \in Extractors, ExtractStep(e) PROVE ExtractInv'
  BY <1>2, BeginKeeps, InventoryKeeps, SealKeeps, RemoveEmptyKeeps, RenameKeeps, ReportKeeps, HashesKeeps,
     WriteTableKeeps DEF ExtractStep
<1>3. QED
  BY <1>1, <1>2, RefuseKeeps, KillKeeps, EditKeeps, ClearedKeeps DEF ExtractNext

\* Every reachable state satisfies the invariant.
LEMMA ExtractInvariant == ExtractSpec => []ExtractInv
  BY ExtractInitial, ExtractInductive, PTL DEF ExtractSpec

\* A bundle that can be seen is whole, and a bundle of pb2zb is of the database it
\* names, wherever extractors are killed and whenever the source is edited.
THEOREM BundleIsAttested == ExtractSpec => []BundleAttested
<1>1. ExtractInv => BundleAttested
  BY DEF ExtractInv, BundleAttested
<1>2. QED
  BY <1>1, ExtractInvariant, PTL

\* No step changes a published bundle.
LEMMA PublishedStep ==
  ExtractInv /\ [ExtractNext]_xvars => [manifest # NoManifest => UNCHANGED <<manifest, out>>]_xvars
<1> SUFFICES ASSUME ExtractInv, ExtractNext, manifest # NoManifest
             PROVE  UNCHANGED <<manifest, out>>
  OBVIOUS
<1>2. ASSUME NEW e \in Extractors, NEW t \in Tables, WriteTable(e, t)
      PROVE  UNCHANGED <<manifest, out>>
  BY <1>2 DEF WriteTable, ExtractInv, Alone, Running
<1>3. ASSUME NEW e \in Extractors, Hashes(e) PROVE FALSE
  BY <1>3 DEF Hashes, To, ExtractInv, Digested, Alone, Running
<1>4. ASSUME NEW e \in Extractors, Rename(e) PROVE FALSE
  BY <1>4 DEF Rename, Renameable, Empty
<1>5. ASSUME NEW e \in Extractors, ExtractStep(e) PROVE UNCHANGED <<manifest, out>>
  BY <1>2, <1>3, <1>4, <1>5 DEF ExtractStep, Begin, Inventory, Seal, RemoveEmpty, Report
<1>6. QED
  BY <1>5 DEF ExtractNext, Refuse, KillExtract, SourceEdited, Cleared

\* A published bundle is never touched again.
THEOREM PublishedIsLeft == ExtractSpec => PublishedStays
  BY ExtractInvariant, PublishedStep, PTL DEF ExtractSpec, PublishedStays

-------------------------------------------------------------------------------
\* A rails2zb is the only installer of its data directory.
OneRails == \A i, j \in Installers : tool[i] = "rails" /\ i # j => tool[j] = "?"

\* An installer that was started has a digest of every file.
Launched ==
  \A i \in Installers :
    /\ tool[i] = "?" <=> pc[i] = "idle"
    /\ tool[i] # "?" => recorded[i] \in [Files -> Contents]

\* It copies and publishes files of its plan.
InPlan ==
  \A i \in Installers :
    /\ pc[i] \in {"copy", "publish"} => at[i] \in Files
    /\ pc[i] = "done" => at[i] \notin Files

\* Every file it went past, and every one its plan found in place, is there.
Behind ==
  \A i \in Installers :
    /\ pc[i] \in {"next", "copy", "publish", "done"} =>
         \A f \in Files : f < at[i] => target[f] = recorded[i][f]
    /\ \A f \in reuse[i] : target[f] = recorded[i][f] /\ tool[i] # "?"

\* A rails2zb copies only where it found nothing.
Room ==
  \A i \in Installers :
    tool[i] = "rails" /\ pc[i] \in {"copy", "publish"} => target[at[i]] = None

InstallInv == InstallTypeOK /\ OneRails /\ Launched /\ InPlan /\ Behind /\ Room

Kept == \A f \in Files : target[f] # None => target'[f] = target[f]

\* InstallInit establishes the invariant.
LEMMA InstallInitial == InstallInit => InstallInv
<1> SUFFICES ASSUME InstallInit PROVE InstallInv
  OBVIOUS
<1>1. 1 \in 1..(N + 1) /\ 0 \in 0..MaxFaults
  BY InstallConstants
<1>2. InstallTypeOK
  BY <1>1 DEF InstallInit, InstallTypeOK
<1>3. OneRails /\ Launched /\ InPlan /\ Behind /\ Room
  BY DEF InstallInit, OneRails, Launched, InPlan, Behind, Room
<1>4. QED
  BY <1>2, <1>3 DEF InstallInv

\* Launch preserves it.
LEMMA LaunchKeeps ==
  ASSUME ~RailsRivals, InstallInv, NEW i \in Installers, Launch(i) PROVE InstallInv'
<1>1. InstallTypeOK'
  BY DEF InstallInv, InstallTypeOK, Launch, Goes
<1>2. OneRails'
  BY DEF OneRails, Launch
<1>3. Launched'
  BY DEF InstallInv, InstallTypeOK, Launched, Launch, Goes
<1>4. InPlan'
  BY DEF InstallInv, InPlan, Launch, Goes
<1>5. Behind'
  BY DEF InstallInv, Behind, Launched, Launch, Goes
<1>6. Room'
  BY DEF Room, Launch, Goes
<1>7. QED
  BY <1>1, <1>2, <1>3, <1>4, <1>5, <1>6 DEF InstallInv

\* Restart preserves it.
LEMMA RestartKeeps ==
  ASSUME InstallInv, NEW i \in Installers, Restart(i) PROVE InstallInv'
<1>1. InstallTypeOK'
  BY InstallConstants DEF InstallInv, InstallTypeOK, Restart
<1>2. OneRails'
  BY DEF InstallInv, OneRails, Restart
<1>3. Launched'
  BY DEF InstallInv, Launched, Restart
<1>4. InPlan'
  BY DEF InstallInv, InPlan, Restart
<1>5. Behind'
  BY DEF InstallInv, Behind, Restart
<1>6. Room'
  BY DEF InstallInv, Room, Restart
<1>7. QED
  BY <1>1, <1>2, <1>3, <1>4, <1>5, <1>6 DEF InstallInv

\* PlanFile preserves it: only a file that is there is planned to be reused.
LEMMA PlanFileKeeps ==
  ASSUME InstallInv, NEW i \in Installers, PlanFile(i) PROVE InstallInv'
<1>1. InstallTypeOK'
  <2>1. at[i] + 1 \in 1..(N + 1)
    BY InstallConstants DEF PlanFile, Files
  <2>2. at' \in [Installers -> 1..(N + 1)]
    BY <2>1 DEF InstallInv, InstallTypeOK, PlanFile
  <2>3. reuse' \in [Installers -> SUBSET Files]
    <3>1. reuse[i] \in SUBSET Files /\ reuse[i] \cup {at[i]} \in SUBSET Files
      BY DEF InstallInv, InstallTypeOK, PlanFile
    <3>2. \/ reuse' = reuse \/ reuse' = [reuse EXCEPT ![i] = reuse[i]]
          \/ reuse' = [reuse EXCEPT ![i] = reuse[i] \cup {at[i]}]
      BY DEF PlanFile
    <3>3. QED
      BY <3>1, <3>2 DEF InstallInv, InstallTypeOK
  <2>4. pc' \in [Installers -> {"idle", "plan", "next", "copy", "publish", "done",
                                "refused", "killed"}]
    BY DEF InstallInv, InstallTypeOK, PlanFile, Refused
  <2>5. QED
    BY <2>2, <2>4 DEF InstallInv, InstallTypeOK, PlanFile
<1>2. OneRails'
  BY DEF InstallInv, OneRails, PlanFile
<1>3. Launched'
  BY DEF InstallInv, InstallTypeOK, Launched, PlanFile, Refused
<1>4. InPlan'
  BY DEF InstallInv, InstallTypeOK, InPlan, PlanFile, Refused
<1>5. Behind'
  <2>1. \A j \in Installers :
          pc'[j] \in {"next", "copy", "publish", "done"} => pc'[j] = pc[j] /\ at'[j] = at[j]
    BY DEF InstallInv, InstallTypeOK, PlanFile, Refused
  <2>2. \A f \in reuse'[i] : f \in reuse[i] \/ target[f] = recorded[i][f]
    BY DEF InstallInv, InstallTypeOK, PlanFile, Fits
  <2>3. \A j \in Installers \ {i} : reuse'[j] = reuse[j]
    BY DEF InstallInv, InstallTypeOK, PlanFile
  <2>4. UNCHANGED <<tool, target, recorded>> /\ tool[i] # "?"
    BY DEF PlanFile
  <2>5. QED
    BY <2>1, <2>2, <2>3, <2>4 DEF InstallInv, Behind
<1>6. Room'
  BY DEF InstallInv, Room, OneRails, PlanFile
<1>7. QED
  BY <1>1, <1>2, <1>3, <1>4, <1>5, <1>6 DEF InstallInv

\* Planned preserves it.
LEMMA PlannedKeeps ==
  ASSUME InstallInv, NEW i \in Installers, Planned(i) PROVE InstallInv'
<1>1. InstallTypeOK'
  BY InstallConstants DEF InstallInv, InstallTypeOK, Planned, Goes
<1>2. OneRails'
  BY DEF InstallInv, OneRails, Planned
<1>3. Launched'
  BY DEF InstallInv, Launched, Planned, Goes
<1>4. InPlan'
  BY DEF InstallInv, InPlan, Planned, Goes
<1>5. Behind'
  BY DEF InstallInv, InstallTypeOK, Behind, Files, Planned, Goes
<1>6. Room'
  BY DEF InstallInv, Room, Planned, Goes
<1>7. QED
  BY <1>1, <1>2, <1>3, <1>4, <1>5, <1>6 DEF InstallInv

\* Skip preserves it: a file that was there still is.
LEMMA SkipKeeps ==
  ASSUME InstallInv, NEW i \in Installers, Skip(i) PROVE InstallInv'
<1>1. InstallTypeOK'
  BY InstallConstants DEF InstallInv, InstallTypeOK, Files, Skip
<1>2. OneRails'
  BY DEF InstallInv, OneRails, Skip
<1>3. Launched'
  BY DEF InstallInv, Launched, Skip
<1>4. InPlan'
  BY DEF InstallInv, InPlan, Skip
<1>5. Behind'
  BY DEF InstallInv, InstallTypeOK, Behind, Files, Skip
<1>6. Room'
  BY DEF InstallInv, Room, Skip
<1>7. QED
  BY <1>1, <1>2, <1>3, <1>4, <1>5, <1>6 DEF InstallInv

\* Examine preserves it.
LEMMA ExamineKeeps ==
  ASSUME InstallInv, NEW i \in Installers, Examine(i) PROVE InstallInv'
<1>1. InstallTypeOK'
  <2>1. at[i] + 1 \in 1..(N + 1)
    BY InstallConstants DEF Examine, Files
  <2>2. at' \in [Installers -> 1..(N + 1)]
    BY <2>1 DEF InstallInv, InstallTypeOK, Examine
  <2>3. pc' \in [Installers -> {"idle", "plan", "next", "copy", "publish", "done",
                                "refused", "killed"}]
    BY DEF InstallInv, InstallTypeOK, Examine, Goes, Refused
  <2>4. QED
    BY <2>2, <2>3 DEF InstallInv, InstallTypeOK, Examine
<1>2. OneRails'
  BY DEF InstallInv, OneRails, Examine
<1>3. Launched'
  BY DEF InstallInv, InstallTypeOK, Launched, Examine, Goes, Refused
<1>4. InPlan'
  BY DEF InstallInv, InstallTypeOK, InPlan, Examine, Goes, Refused
<1>5. Behind'
  <2>1. UNCHANGED <<tool, target, recorded, reuse>>
    BY DEF Examine
  <2>2. \A j \in Installers \ {i} : pc'[j] = pc[j] /\ at'[j] = at[j]
    BY DEF InstallInv, InstallTypeOK, Examine, Goes, Refused
  <2>3. \A f \in Files : f < at[i] => target[f] = recorded[i][f]
    BY DEF InstallInv, Behind, Examine
  <2>4. pc'[i] \in {"next", "copy", "publish", "done"} =>
          at'[i] = at[i] \/ (at'[i] = at[i] + 1 /\ target[at[i]] = recorded[i][at[i]])
    BY DEF InstallInv, InstallTypeOK, Examine
  <2>5. \A f \in Files : f < at[i] + 1 => f < at[i] \/ f = at[i]
    BY DEF InstallInv, InstallTypeOK, Files
  <2>6. QED
    BY <2>1, <2>2, <2>3, <2>4, <2>5 DEF InstallInv, Behind
<1>6. Room'
  BY DEF InstallInv, InstallTypeOK, Room, OneRails, Examine, Refused
<1>7. QED
  BY <1>1, <1>2, <1>3, <1>4, <1>5, <1>6 DEF InstallInv

\* Copy preserves it.
LEMMA CopyKeeps ==
  ASSUME InstallInv, NEW i \in Installers, Copy(i) PROVE InstallInv'
<1>1. InstallTypeOK'
  <2>1. at[i] \in Files
    BY DEF InstallInv, InPlan, Copy, Goes
  <2>2. temp' \in [Installers -> Contents \cup {None}]
    BY <2>1 DEF InstallInv, InstallTypeOK, Copy
  <2>3. pc' \in [Installers -> {"idle", "plan", "next", "copy", "publish", "done",
                                "refused", "killed"}]
    BY DEF InstallInv, InstallTypeOK, Copy, Goes
  <2>4. QED
    BY <2>2, <2>3 DEF InstallInv, InstallTypeOK, Copy
<1>2. OneRails'
  BY DEF InstallInv, OneRails, Copy
<1>3. Launched'
  BY DEF InstallInv, InstallTypeOK, Launched, Copy, Goes
<1>4. InPlan'
  BY DEF InstallInv, InstallTypeOK, InPlan, Copy, Goes
<1>5. Behind'
  <2>1. \A j \in Installers : pc'[j] \in {"next", "copy", "publish", "done"} =>
          pc[j] \in {"next", "copy", "publish", "done"}
    BY DEF InstallInv, InstallTypeOK, Copy, Goes
  <2>2. QED
    BY <2>1 DEF InstallInv, Behind, Copy
<1>6. Room'
  BY DEF InstallInv, InstallTypeOK, Room, Copy, Goes
<1>7. QED
  BY <1>1, <1>2, <1>3, <1>4, <1>5, <1>6 DEF InstallInv

\* CopyChanged preserves it.
LEMMA CopyChangedKeeps ==
  ASSUME InstallInv, NEW i \in Installers, CopyChanged(i) PROVE InstallInv'
<1>1. InstallTypeOK'
  BY DEF InstallInv, InstallTypeOK, CopyChanged, Goes
<1>2. OneRails'
  BY DEF InstallInv, OneRails, CopyChanged
<1>3. Launched'
  BY DEF InstallInv, Launched, CopyChanged, Goes
<1>4. InPlan'
  BY DEF InstallInv, InPlan, CopyChanged, Goes
<1>5. Behind'
  BY DEF InstallInv, Behind, CopyChanged, Goes
<1>6. Room'
  BY DEF InstallInv, Room, CopyChanged, Goes
<1>7. QED
  BY <1>1, <1>2, <1>3, <1>4, <1>5, <1>6 DEF InstallInv

\* Publishing never touches a destination that has a file.
LEMMA PublishOverNothing ==
  ASSUME InstallInv, NEW i \in Installers, Publish(i) PROVE Kept
  BY DEF Kept, InstallInv, InstallTypeOK, Room, Publish, Linked, Replaced

\* Publish preserves it: what it replaces is nothing, and what it publishes is intact.
LEMMA PublishKeeps ==
  ASSUME InstallInv, NEW i \in Installers, Publish(i) PROVE InstallInv'
<1>1. InstallTypeOK'
  <2>1. at[i] \in Files /\ at[i] + 1 \in 1..(N + 1)
    BY InstallConstants DEF InstallInv, InPlan, Publish, Files
  <2>2. at' \in [Installers -> 1..(N + 1)]
    BY <2>1 DEF InstallInv, InstallTypeOK, Publish, Linked, Replaced, Advance
  <2>3. pc' \in [Installers -> {"idle", "plan", "next", "copy", "publish", "done",
                                "refused", "killed"}]
    BY DEF InstallInv, InstallTypeOK, Publish, Linked, Replaced, Advance, Refused
  <2>4. installed' \in [Installers -> SUBSET Files]
    <3>1. installed[i] \in SUBSET Files
      BY DEF InstallInv, InstallTypeOK
    <3>2. installed[i] \cup {at[i]} \in SUBSET Files
      BY <2>1, <3>1
    <3>3. \/ installed' = installed
          \/ installed' = [installed EXCEPT ![i] = installed[i]]
          \/ installed' = [installed EXCEPT ![i] = installed[i] \cup {at[i]}]
      BY DEF Publish, Linked, Replaced, Advance
    <3>4. QED
      BY <3>1, <3>2, <3>3 DEF InstallInv, InstallTypeOK
  <2>5. target' \in [Files -> Contents \cup {None}]
    BY DEF InstallInv, InstallTypeOK, Publish, Linked, Replaced
  <2>6. temp' \in [Installers -> Contents \cup {None}]
    BY DEF InstallInv, InstallTypeOK, Publish
  <2>7. QED
    BY <2>2, <2>3, <2>4, <2>5 DEF InstallInv, InstallTypeOK, Publish
<1>2. OneRails'
  BY DEF InstallInv, OneRails, Publish
<1>3. Launched'
  BY DEF InstallInv, InstallTypeOK, Launched, Publish, Linked, Replaced, Advance, Refused
<1>4. InPlan'
  BY InstallConstants
     DEF InstallInv, InstallTypeOK, InPlan, Publish, Linked, Replaced, Advance, Refused
<1>5. Behind'
  <2>1. UNCHANGED <<tool, recorded, reuse>>
    BY DEF Publish
  <2>2. \A j \in Installers \ {i} : pc'[j] = pc[j] /\ at'[j] = at[j]
    BY DEF InstallInv, InstallTypeOK, Publish, Linked, Replaced, Advance, Refused
  <2>3. \A j \in Installers, f \in Files :
          tool[j] # "?" /\ target[f] = recorded[j][f] => target'[f] = recorded[j][f]
    <3>1. \A j \in Installers, f \in Files :
            tool[j] # "?" /\ target[f] = recorded[j][f] => target[f] # None
      BY InstallConstants DEF InstallInv, Launched
    <3>2. QED
      BY <3>1, PublishOverNothing DEF Kept
  <2>4. \A j \in Installers : pc[j] \in {"next", "copy", "publish", "done"} => tool[j] # "?"
    BY DEF InstallInv, Launched
  <2>5. pc'[i] \in {"next", "copy", "publish", "done"} =>
          at'[i] = at[i] + 1 /\ target'[at[i]] = recorded[i][at[i]]
    BY DEF InstallInv, InstallTypeOK, InPlan, Publish, Linked, Replaced, Advance, Refused,
           Intact
  <2>6. \A f \in Files : f < at[i] + 1 => f < at[i] \/ f = at[i]
    BY DEF InstallInv, InstallTypeOK, Files
  <2>7. \A f \in Files : f < at[i] => target'[f] = recorded[i][f]
    BY <2>3 DEF InstallInv, Behind, Publish
  <2>8. pc'[i] \in {"next", "copy", "publish", "done"} =>
          \A f \in Files : f < at'[i] => target'[f] = recorded'[i][f]
    BY <2>1, <2>5, <2>6, <2>7
  <2>9. \A j \in Installers \ {i} : pc'[j] \in {"next", "copy", "publish", "done"} =>
          \A f \in Files : f < at'[j] => target'[f] = recorded'[j][f]
    BY <2>1, <2>2, <2>3, <2>4 DEF InstallInv, Behind
  <2>10. \A j \in Installers : \A f \in reuse'[j] : target'[f] = recorded'[j][f] /\ tool'[j] # "?"
    BY <2>1, <2>3 DEF InstallInv, InstallTypeOK, Behind
  <2>11. QED
    BY <2>8, <2>9, <2>10 DEF Behind
<1>6. Room'
  BY InstallConstants
     DEF InstallInv, InstallTypeOK, Room, OneRails, Launched, InPlan, Publish, Linked,
         Replaced, Advance, Refused, Intact
<1>7. QED
  BY <1>1, <1>2, <1>3, <1>4, <1>5, <1>6 DEF InstallInv

\* Finish preserves it.
LEMMA FinishKeeps ==
  ASSUME InstallInv, NEW i \in Installers, Finish(i) PROVE InstallInv'
<1>1. InstallTypeOK'
  BY DEF InstallInv, InstallTypeOK, Finish, Goes
<1>2. OneRails'
  BY DEF InstallInv, OneRails, Finish
<1>3. Launched'
  BY DEF InstallInv, Launched, Finish, Goes
<1>4. InPlan'
  BY DEF InstallInv, InPlan, Finish, Goes
<1>5. Behind'
  BY DEF InstallInv, Behind, Finish, Goes
<1>6. Room'
  BY DEF InstallInv, Room, Finish, Goes
<1>7. QED
  BY <1>1, <1>2, <1>3, <1>4, <1>5, <1>6 DEF InstallInv

\* Kill preserves it.
LEMMA InstallKillKeeps ==
  ASSUME InstallInv, NEW i \in Installers, Kill(i) PROVE InstallInv'
<1>1. InstallTypeOK'
  BY InstallConstants DEF InstallInv, InstallTypeOK, Kill, Fault
<1>2. OneRails'
  BY DEF InstallInv, OneRails, Kill
<1>3. Launched'
  BY DEF InstallInv, Launched, Kill, Busy
<1>4. InPlan'
  BY DEF InstallInv, InPlan, Kill
<1>5. Behind'
  BY DEF InstallInv, Behind, Kill
<1>6. Room'
  BY DEF InstallInv, Room, Kill
<1>7. QED
  BY <1>1, <1>2, <1>3, <1>4, <1>5, <1>6 DEF InstallInv

\* WriteFails preserves it.
LEMMA WriteFailsKeeps ==
  ASSUME InstallInv, NEW i \in Installers, WriteFails(i) PROVE InstallInv'
<1>1. InstallTypeOK'
  BY InstallConstants DEF InstallInv, InstallTypeOK, WriteFails, Fault, Refused
<1>2. OneRails'
  BY DEF InstallInv, OneRails, WriteFails
<1>3. Launched'
  BY DEF InstallInv, Launched, WriteFails, Refused
<1>4. InPlan'
  BY DEF InstallInv, InPlan, WriteFails, Refused
<1>5. Behind'
  BY DEF InstallInv, Behind, WriteFails, Refused
<1>6. Room'
  BY DEF InstallInv, Room, OneRails, Launched, WriteFails
<1>7. QED
  BY <1>1, <1>2, <1>3, <1>4, <1>5, <1>6 DEF InstallInv

\* OriginChanges preserves it.
LEMMA OriginKeeps ==
  ASSUME InstallInv, NEW i \in Installers, NEW f \in Files, OriginChanges(i, f) PROVE InstallInv'
<1>1. InstallTypeOK'
  BY InstallConstants DEF InstallInv, InstallTypeOK, OriginChanges, Fault
<1>2. OneRails'
  BY DEF InstallInv, OneRails, OriginChanges
<1>3. Launched'
  BY DEF InstallInv, Launched, OriginChanges
<1>4. InPlan'
  BY DEF InstallInv, InPlan, OriginChanges
<1>5. Behind'
  BY DEF InstallInv, Behind, OriginChanges
<1>6. Room'
  BY DEF InstallInv, Room, OriginChanges
<1>7. QED
  BY <1>1, <1>2, <1>3, <1>4, <1>5, <1>6 DEF InstallInv

\* Stored preserves it: nothing is stored beside a rails2zb.
LEMMA StoredKeeps ==
  ASSUME ~RailsRivals, InstallInv, NEW f \in Files, Stored(f) PROVE InstallInv'
<1>1. InstallTypeOK'
  BY InstallConstants DEF InstallInv, InstallTypeOK, Stored, Fault
<1>2. OneRails'
  BY DEF OneRails, Stored
<1>3. Launched'
  BY DEF InstallInv, Launched, Stored
<1>4. InPlan'
  BY DEF InstallInv, InPlan, Stored
<1>5. Behind'
  BY InstallConstants DEF InstallInv, Behind, Launched, Stored
<1>6. Room'
  BY DEF Room, Stored
<1>7. QED
  BY <1>1, <1>2, <1>3, <1>4, <1>5, <1>6 DEF InstallInv

\* The invariant is inductive.
LEMMA InstallInductive ==
  ASSUME ~RailsRivals PROVE InstallInv /\ [InstallNext]_ivars => InstallInv'
<1> SUFFICES ASSUME InstallInv, [InstallNext]_ivars PROVE InstallInv'
  OBVIOUS
<1>1. CASE UNCHANGED ivars
  BY <1>1 DEF InstallInv, InstallTypeOK, OneRails, Launched, InPlan, Behind, Room, ivars
<1>2. ASSUME NEW i \in Installers, Step(i) PROVE InstallInv'
  BY <1>2, RestartKeeps, PlanFileKeeps, PlannedKeeps, SkipKeeps, ExamineKeeps, CopyKeeps,
     CopyChangedKeeps, PublishKeeps, FinishKeeps DEF Step
<1>3. QED
  BY <1>1, <1>2, LaunchKeeps, InstallKillKeeps, WriteFailsKeeps, OriginKeeps, StoredKeeps
     DEF InstallNext

\* Every reachable state satisfies the invariant.
LEMMA InstallInvariant == ASSUME ~RailsRivals PROVE InstallSpec => []InstallInv
  BY InstallInitial, InstallInductive, PTL DEF InstallSpec

\* An installation that ends with success left every file of its bundle in place.
THEOREM DoneIsWhole == ASSUME ~RailsRivals PROVE InstallSpec => []DoneIsComplete
<1>1. InstallInv => DoneIsComplete
  <2> SUFFICES ASSUME InstallInv, NEW i \in Installers, pc[i] = "done", NEW f \in Files
               PROVE  target[f] = recorded[i][f]
    BY DEF DoneIsComplete
  <2>1. at[i] \in 1..(N + 1) /\ at[i] \notin Files
    BY DEF InstallInv, InstallTypeOK, InPlan
  <2>2. f < at[i]
    BY <2>1, InstallConstants DEF Files
  <2>3. QED
    BY <2>2 DEF InstallInv, Behind
<1>2. QED
  BY <1>1, InstallInvariant, PTL

\* No step takes a file away from its destination.
LEMMA InstallKept ==
  InstallInv /\ [InstallNext]_ivars =>
    [\A f \in Files : target[f] # None => target'[f] = target[f]]_ivars
<1> SUFFICES ASSUME InstallInv, InstallNext PROVE Kept
  BY DEF Kept
<1>1. ASSUME NEW f \in Files, Stored(f) PROVE Kept
  BY <1>1 DEF Stored, Kept
<1>2. ASSUME NEW i \in Installers, Step(i) PROVE Kept
  BY <1>2, PublishOverNothing
     DEF Step, Kept, Restart, PlanFile, Planned, Skip, Examine, Copy, CopyChanged, Finish
<1>3. QED
  BY <1>1, <1>2 DEF InstallNext, Kept, Launch, Kill, WriteFails, OriginChanges

\* No file is ever overwritten by another.
THEOREM NothingOverwritten == ASSUME ~RailsRivals PROVE InstallSpec => NoOverwrite
  BY InstallInvariant, InstallKept, PTL DEF InstallSpec, NoOverwrite
-------------------------------------------------------------------------------
(* The dates of rails2zb.py.  The lemmas keep large numbers in few places: the day
   count is taken apart into eras of 400 years, years that begin in March, and
   days of such a year. *)

\* The days of the calendar, before the year 1 too.
Calendar == {d \in [year : Int, month : 1..12, day : 1..31] : d.day <= LastDay(d.year, d.month)}

\* A year that begins in March: its position in 400 years, and what it adds to the day count.
March(y, month) == y - IF month <= 2 THEN 1 ELSE 0
Position(month) == month + IF month > 2 THEN -3 ELSE 9
YearsBefore(e, g) == e * 146097 + g * 365 + g \div 4 - g \div 100
Years(year) == YearsBefore(year \div 400, year - (year \div 400) * 400)
Epoch == 719469
DaysTo(position) == (153 * position + 2) \div 5
DaysBefore(month) == DaysTo(Position(month))
DayOfYear(month, day) == DaysBefore(month) + day - 1

\* The day of an era, and the number of that day.
DayOfEra(g, doy) == 365 * g + g \div 4 - g \div 100 + doy
NumberOf(e, g, doy) == YearsBefore(e, g) + doy + 1 - Epoch

\* A day of a year of an era.
InEra(g, doy) == g \in 0..399 /\ doy \in 0..365 /\ (doy = 365 => Leap(g + 1))

\* How _civil_from_days finds the year of an era and the month of a year.
YearAt(n) == (n - n \div 1460 + n \div 36524 - n \div 146096) \div 365
MonthAt(position) == position + IF position < 10 THEN 3 ELSE -9
DateAt(e, g, doy, position) ==
  [year  |-> g + e * 400 + IF MonthAt(position) <= 2 THEN 1 ELSE 0,
   month |-> MonthAt(position), day |-> doy - DaysTo(position) + 1]
PositionAt(doy) == (5 * doy + 2) \div 153

\* A year is one of 400.
LEMMA Era ==
  ASSUME NEW y \in Int
  PROVE  /\ y \div 400 \in Int /\ y - (y \div 400) * 400 \in 0..399
         /\ \A e \in Int, g \in 0..399 : y = 400 * e + g => y \div 400 = e /\ y % 400 = g /\ y - (y \div 400) * 400 = g
OBVIOUS

\* Both leap rules are one.
LEMMA LeapIs ==
  ASSUME NEW y \in Int
  PROVE  /\ Leap(y) <=> (y % 4 = 0 /\ (y % 100 # 0 \/ y % 400 = 0))
         /\ Leap(y) <=> _is_leap(y)
<1> DEFINE r == y % 400
<1>1. r \in 0..399 /\ r % 4 = y % 4 /\ r % 100 = y % 100
  OBVIOUS
<1>2. (\E k \in 0..100 : k * 4 = r) <=> r % 4 = 0
  BY <1>1
<1>3. (\E k \in 0..100 : k * 100 = r) <=> r % 100 = 0
  BY <1>1
<1>4. (\E k \in 0..100 : k * 400 = r) <=> r = 0
  BY <1>1
<1>5. QED
  BY <1>1, <1>2, <1>3, <1>4 DEF Leap, _is_leap

\* The code's months are as long as the calendar's.
LEMMA MonthsAgree ==
  ASSUME NEW y \in Int, NEW m \in 1..12
  PROVE  _days_in_month(y, m) = LastDay(y, m) /\ LastDay(y, m) \in 28..31
<1>1. Leap(y) <=> _is_leap(y)
  BY LeapIs
<1>2. m \in {1, 2, 3, 4, 5, 6, 7, 8, 9, 10, 11, 12}
  OBVIOUS
<1>3. QED
  BY <1>1, <1>2 DEF _days_in_month, LastDay, Long

\* The formula, by its parts.
LEMMA CountIs ==
  ASSUME NEW y \in Int, NEW m \in 1..12, NEW d \in Int
  PROVE  /\ _days_from_civil(y, m, d) = Years(March(y, m)) + DaysBefore(m) + d - Epoch
         /\ March(y, m) \in Int /\ Years(y) \in Int /\ DaysBefore(m) \in Int
<1>1. March(y, m) \in Int /\ Years(y) \in Int /\ DaysBefore(m) \in Int
  BY DEF March, Years, YearsBefore, DaysBefore, DaysTo, Position
<1>2. _days_from_civil(y, m, d) = Years(March(y, m)) + DaysBefore(m) + d - Epoch
  BY DEF _days_from_civil, March, Years, YearsBefore, DaysBefore, DaysTo, Position, Epoch
<1>3. QED
  BY <1>1, <1>2

\* A March year is as long as the leap rule of the next January says.
LEMMA YearLength ==
  ASSUME NEW y \in Int
  PROVE  Years(y) = Years(y - 1) + IF Leap(y) THEN 366 ELSE 365
<1> DEFINE e == y \div 400
           g == y - e * 400
<1>1. e \in Int /\ g \in 0..399 /\ y = 400 * e + g
  BY Era
<1>2. y % 400 = g /\ y % 4 = g % 4 /\ y % 100 = g % 100
  BY <1>1
<1>3. Leap(y) <=> (g % 4 = 0 /\ (g % 100 # 0 \/ g = 0))
  BY <1>2, LeapIs
<1> HIDE DEF e, g
<1>4. CASE g = 0
  <2>1. (y - 1) = 400 * (e - 1) + 399 /\ e - 1 \in Int
    BY <1>1, <1>4
  <2>2. (y - 1) \div 400 = e - 1 /\ (y - 1) - ((y - 1) \div 400) * 400 = 399
    <3>1. y - 1 \in Int /\ 399 \in 0..399
      OBVIOUS
    <3>2. \A k \in Int, i \in 0..399 :
             y - 1 = 400 * k + i => (y - 1) \div 400 = k /\ (y - 1) - ((y - 1) \div 400) * 400 = i
      BY <3>1, Era
    <3>3. QED
      BY <2>1, <3>1, <3>2
  <2>3. YearsBefore(e, 0) = YearsBefore(e - 1, 399) + 366
    BY <1>1 DEF YearsBefore
  <2>4. Leap(y)
    BY <1>3, <1>4
  <2>5. YearsBefore(e, g) = YearsBefore((y - 1) \div 400, (y - 1) - ((y - 1) \div 400) * 400) + 366
    BY <1>4, <2>2, <2>3
  <2>6. QED
    BY <2>4, <2>5 DEF e, g, Years
<1>5. CASE g # 0
  <2>1. (y - 1) = 400 * e + (g - 1) /\ g - 1 \in 0..399
    BY <1>1, <1>5
  <2>2. (y - 1) \div 400 = e /\ (y - 1) - ((y - 1) \div 400) * 400 = g - 1
    BY <1>1, <2>1, Era, y - 1 \in Int
  <2>3. (g \div 4) - ((g - 1) \div 4) = IF g % 4 = 0 THEN 1 ELSE 0
    BY <1>1, <1>5
  <2>4. (g \div 100) - ((g - 1) \div 100) = IF g % 100 = 0 THEN 1 ELSE 0
    BY <1>1, <1>5
  <2>5. g % 100 = 0 => g % 4 = 0
    BY <1>1
  <2>6. YearsBefore(e, g) = YearsBefore(e, g - 1) + 365 + (IF g % 4 = 0 THEN 1 ELSE 0) - (IF g % 100 = 0 THEN 1 ELSE 0)
    BY <1>1, <2>1, <2>3, <2>4 DEF YearsBefore
  <2>7. YearsBefore(e, g) = YearsBefore(e, g - 1) + IF Leap(y) THEN 366 ELSE 365
    <3>1. YearsBefore(e, g - 1) \in Int
      BY <1>1, <2>1 DEF YearsBefore
    <3>2. QED
      BY <1>3, <1>5, <2>5, <2>6, <3>1
  <2>8. QED
    BY <2>2, <2>7 DEF e, g, Years
<1>6. QED
  BY <1>4, <1>5

\* The next day has the next number.
LEMMA CountsOn ==
  ASSUME NEW d \in Calendar
  PROVE  /\ Tomorrow(d) \in Calendar
         /\ _days_from_civil(Tomorrow(d).year, Tomorrow(d).month, Tomorrow(d).day)
              = _days_from_civil(d.year, d.month, d.day) + 1
<1> DEFINE y == d.year
           m == d.month
           n == d.day
           t == Tomorrow(d)
<1>1. d \in [year : Int, month : 1..12, day : 1..31] /\ n <= LastDay(y, m)
  BY DEF Calendar
<1>2. y \in Int /\ m \in 1..12 /\ n \in 1..31 /\ LastDay(y, m) \in 28..31
  BY <1>1, MonthsAgree
<1>3. \A k \in Int : Years(k) \in Int
  BY DEF Years, YearsBefore
<1>e. Epoch \in Int
  BY DEF Epoch
<1>4. \A k \in Int : \A i \in 1..12 : \A j \in Int :
         _days_from_civil(k, i, j) = Years(March(k, i)) + DaysBefore(i) + j - Epoch
  BY CountIs
<1>5. \A i \in 1..12 : DaysBefore(i) \in Int /\ March(y, i) \in Int
  BY <1>2 DEF DaysBefore, DaysTo, Position, March
<1>6. CASE n < LastDay(y, m)
  <2>1. n + 1 \in 1..31
    BY <1>2, <1>6
  <2>2. t.year = y /\ t.month = m /\ t.day = n + 1 /\ t \in [year : Int, month : 1..12, day : 1..31]
    BY <1>1, <1>6, <2>1 DEF Tomorrow
  <2> HIDE DEF t
  <2>3. t \in Calendar
    BY <1>2, <1>6, <2>2 DEF Calendar
  <2>4. _days_from_civil(y, m, n + 1) = _days_from_civil(y, m, n) + 1
    <3>1. /\ _days_from_civil(y, m, n + 1) = Years(March(y, m)) + DaysBefore(m) + (n + 1) - Epoch
          /\ _days_from_civil(y, m, n) = Years(March(y, m)) + DaysBefore(m) + n - Epoch
      <4>1. n + 1 \in Int /\ n \in Int
        BY <1>2
      <4>2. QED
        BY <1>2, <1>4, <4>1
    <3>2. Years(March(y, m)) \in Int /\ DaysBefore(m) \in Int
      BY <1>2, <1>3, <1>5
    <3>3. QED
      BY <1>2, <1>e, <3>1, <3>2
  <2>5. QED
    BY <2>2, <2>3, <2>4 DEF t
<1>7. CASE n = LastDay(y, m) /\ m < 12
  <2>1. m + 1 \in 1..12
    BY <1>2, <1>7
  <2> DEFINE first == [d EXCEPT !.day = 1]
  <2>a. t = [first EXCEPT !.month = first.month + 1]
    BY <1>2, <1>7 DEF Tomorrow
  <2>b. first.year = y /\ first.month = m /\ first.day = 1 /\ first \in [year : Int, month : 1..12, day : 1..31]
    BY <1>1
  <2> HIDE DEF first
  <2>2. t.year = y /\ t.month = m + 1 /\ t.day = 1 /\ t \in [year : Int, month : 1..12, day : 1..31]
    <3> SUFFICES t.year = y /\ t.month = m + 1 /\ t.day = 1 /\ t \in [year : Int, month : 1..12, day : 1..31]
      OBVIOUS
    <3> HIDE DEF t
    <3>1. QED
      BY <2>1, <2>a, <2>b
  <2> HIDE DEF t
  <2>3. t \in Calendar
    BY <1>2, <2>2, MonthsAgree DEF Calendar
  <2>4. Years(March(y, m + 1)) + DaysBefore(m + 1) = Years(March(y, m)) + DaysBefore(m) + LastDay(y, m)
    <3>1. CASE m = 2
      <4>1. Years(y) = Years(y - 1) + IF Leap(y) THEN 366 ELSE 365
        BY <1>2, YearLength
      <4>2. March(y, 3) = y /\ March(y, 2) = y - 1
        BY <1>2 DEF March
      <4>3. DaysBefore(3) = 0 /\ DaysBefore(2) = 337
        BY DEF DaysBefore, DaysTo, Position
      <4>4. LastDay(y, 2) = IF Leap(y) THEN 29 ELSE 28
        BY DEF LastDay, Long
      <4>5. Years(y - 1) \in Int /\ Years(y) \in Int
        BY <1>2, <1>3
      <4>6. QED
        BY <3>1, <4>1, <4>2, <4>3, <4>4, <4>5
    <3>2. CASE m # 2
      <4>1. m \in {1, 3, 4, 5, 6, 7, 8, 9, 10, 11}
        BY <1>2, <1>7, <3>2
      <4>2. March(y, m + 1) = March(y, m)
        BY <1>2, <4>1 DEF March
      <4>3. DaysBefore(m + 1) = DaysBefore(m) + LastDay(y, m)
        BY <4>1 DEF DaysBefore, DaysTo, Position, LastDay, Long
      <4>4. Years(March(y, m)) \in Int /\ DaysBefore(m) \in Int
        BY <1>2, <1>3, <1>5
      <4>5. QED
        BY <1>2, <4>2, <4>3, <4>4
    <3>3. QED
      BY <3>1, <3>2
  <2>5. _days_from_civil(y, m + 1, 1) = _days_from_civil(y, m, n) + 1
    <3>1. m + 1 \in 1..12
      BY <1>2, <1>7
    <3>2. /\ _days_from_civil(y, m + 1, 1) = Years(March(y, m + 1)) + DaysBefore(m + 1) + 1 - Epoch
          /\ _days_from_civil(y, m, n) = Years(March(y, m)) + DaysBefore(m) + n - Epoch
      BY <1>2, <1>4, <3>1
    <3>3. /\ Years(March(y, m + 1)) \in Int /\ DaysBefore(m + 1) \in Int
          /\ Years(March(y, m)) \in Int /\ DaysBefore(m) \in Int
      BY <1>2, <1>3, <1>5, <3>1
    <3>4. QED
      BY <1>2, <1>7, <1>e, <2>4, <3>2, <3>3
  <2>6. QED
    BY <2>2, <2>3, <2>5 DEF t
<1>8. CASE n = LastDay(y, m) /\ m = 12
  <2>1. t = [year |-> y + 1, month |-> 1, day |-> 1] /\ n = 31
    BY <1>2, <1>8 DEF Tomorrow, LastDay, Long
  <2>2. t \in Calendar
    BY <1>2, <2>1 DEF Calendar, LastDay, Long
  <2>3. March(y + 1, 1) = y /\ March(y, 12) = y /\ DaysBefore(1) = 306 /\ DaysBefore(12) = 275
    BY <1>2 DEF March, DaysBefore, DaysTo, Position
  <2>4. Years(y) \in Int
    BY <1>2, <1>3
  <2>5. /\ _days_from_civil(y + 1, 1, 1) = Years(y) + 306 + 1 - Epoch
        /\ _days_from_civil(y, 12, 31) = Years(y) + 275 + 31 - Epoch
    <3>1. y + 1 \in Int /\ 1 \in 1..12 /\ 12 \in 1..12 /\ 1 \in Int /\ 31 \in Int
      BY <1>2
    <3>2. QED
      BY <1>2, <1>4, <2>3, <3>1
  <2>6. QED
    BY <1>8, <1>e, <2>1, <2>2, <2>4, <2>5
<1>9. QED
  BY <1>1, <1>2, <1>6, <1>7, <1>8

\* A quotient is known from its bounds.
LEMMA Centuries ==
  ASSUME NEW n \in Int, NEW c \in Int, 36524 * c <= n, n < 36524 * (c + 1)
  PROVE  n \div 36524 = c
BY SMT
LEMMA OneEra ==
  ASSUME NEW n \in Int, 0 <= n, n < 146096
  PROVE  n \div 146096 = 0
BY SMT
LEMMA Olympiads ==
  ASSUME NEW k \in Int, NEW t \in 0..1556, NEW n \in Int, n = 1460 * k + t
  PROVE  n \div 1460 = k + IF t >= 1460 THEN 1 ELSE 0
BY SMT
LEMMA OrdinaryYears ==
  ASSUME NEW y \in Int, NEW t \in 0..364, NEW n \in Int, n = 365 * y + t
  PROVE  n \div 365 = y
BY SMT

LEMMA CenturyIs ==
  ASSUME NEW c \in 0..3, NEW r \in Int, 0 <= r, r <= 36524, r = 36524 => c = 3, NEW n \in Int, n = 36524 * c + r
  PROVE  /\ 0 <= n /\ n <= 146096
         /\ n \div 36524 \in Int /\ n \div 146096 \in Int
         /\ n \div 36524 - n \div 146096 = c
<1>1. 0 <= n /\ n <= 146096
  BY SMT
<1>2. CASE r = 36524
  <2>1. c = 3 /\ n = 146096
    BY <1>2, SMT
  <2>2. n \div 36524 = 4 /\ n \div 146096 = 1
    BY ONLY <2>1, SMT
  <2>3. QED
    BY <1>1, <2>1, <2>2, SMT
<1>3. CASE r # 36524
  <2>1. r <= 36523
    BY <1>3, SMT
  <2>2. 36524 * c <= n /\ n < 36524 * (c + 1) /\ c \in Int
    BY <2>1, SMT
  <2>3. n < 146096
    BY <2>1, SMT
  <2>4. n \div 36524 = c /\ n \div 146096 = 0
    BY <1>1, <2>2, <2>3, Centuries, OneEra, SMT
  <2>5. QED
    BY <1>1, <2>2, <2>4, SMT
<1>4. QED
  BY <1>2, <1>3, SMT

\* A year of an era: its century, its olympiad and its place there.
Parted(g, c, b, a) ==
  /\ g = 100 * c + 4 * b + a
  /\ 365 * g + g \div 4 - g \div 100 = 36524 * c + 1461 * b + 365 * a
  /\ Leap(g + 1) => a = 3 /\ (b = 24 => c = 3)

\* Every year of an era has its parts.
LEMMA Parts ==
  ASSUME NEW g \in 0..399
  PROVE  \E c \in 0..3, b \in 0..24, a \in 0..3 : Parted(g, c, b, a)
<1> DEFINE c == g \div 100
           b == (g - 100 * c) \div 4
           a == g - 100 * c - 4 * b
<1>1. c \in 0..3
  BY SMT
<1>2. g - 100 * c \in 0..99
  BY SMT
<1>3. b \in 0..24 /\ a \in 0..3 /\ g = 100 * c + 4 * b + a
  BY <1>1, <1>2, SMT
<1>4. g \div 4 = 25 * c + b
  BY <1>1, <1>3, SMT
<1>5. g \div 100 = c
  OBVIOUS
<1> HIDE DEF a, b, c
<1>6. 365 * g + g \div 4 - g \div 100 = 36524 * c + 1461 * b + 365 * a
  BY <1>1, <1>3, <1>4, <1>5, SMT
<1>7. ASSUME Leap(g + 1) PROVE a = 3 /\ (b = 24 => c = 3)
  <2>1. (g + 1) % 4 = 0 /\ ((g + 1) % 100 # 0 \/ (g + 1) % 400 = 0)
    BY <1>7, LeapIs, SMT
  <2>2. a = 3
    BY <1>1, <1>3, <2>1, SMT
  <2>3. ASSUME b = 24 PROVE c = 3
    BY <1>1, <1>3, <2>1, <2>2, <2>3, SMT
  <2>4. QED
    BY <2>2, <2>3
<1>8. QED
  <2>1. Parted(g, c, b, a)
    BY <1>3, <1>6, <1>7 DEF Parted
  <2>2. QED
    BY <1>1, <1>3, <2>1

\* The year of the era is found again from the day of the era.
LEMMA YearOfEra ==
  ASSUME NEW g, NEW doy, InEra(g, doy)
  PROVE  /\ DayOfEra(g, doy) \in Int /\ 0 <= DayOfEra(g, doy) /\ DayOfEra(g, doy) <= 146096
         /\ YearAt(DayOfEra(g, doy)) = g
<1> DEFINE n == DayOfEra(g, doy)
<1>h. g \in 0..399 /\ doy \in 0..365 /\ (doy = 365 => Leap(g + 1))
  BY DEF InEra
<1>i. n \in Int /\ n = 365 * g + g \div 4 - g \div 100 + doy
  BY <1>h, SMT DEF DayOfEra
<1> HIDE DEF n
<1>p. PICK c \in 0..3, b \in 0..24, a \in 0..3 : Parted(g, c, b, a)
  BY <1>h, Parts, Zenon
<1>0. g = 100 * c + 4 * b + a
  BY <1>h, <1>p DEF Parted
<1>n. n = 36524 * c + (1461 * b + 365 * a + doy)
  BY <1>h, <1>i, <1>p, SMT DEF Parted
<1>l. doy = 365 => a = 3 /\ (b = 24 => c = 3)
  BY <1>h, <1>p DEF Parted
<1> DEFINE r == 1461 * b + 365 * a + doy
           k == 25 * c + b
           t == 24 * c + b + 365 * a + doy
           s == IF t >= 1460 THEN 1 ELSE 0
           x == n - n \div 1460 + n \div 36524 - n \div 146096
<1>1. r \in Int /\ 0 <= r /\ r <= 36524
  BY <1>h, SMT
<1>2. r = 36524 => c = 3
  BY <1>h, <1>i, <1>n, <1>l, SMT
<1>3. n = 1460 * k + t /\ k \in Int
  BY <1>h, <1>i, <1>n, <1>l, SMT
<1>4. t \in 0..1556
  BY <1>h, SMT
<1>5. doy - s \in 0..364 /\ s \in {0, 1}
  BY <1>h, <1>l, SMT
<1>6. n = 36524 * c + r
  BY <1>h, <1>i, <1>n, <1>l, SMT
<1>7. k = 25 * c + b
  OBVIOUS
<1>8. n = 36500 * c + 1460 * b + 365 * a + (24 * c + b + doy)
  BY <1>h, <1>i, <1>n, <1>l, SMT
<1> HIDE DEF r, t, k
<1>9. n \div 1460 = k + s
  BY <1>h, <1>3, <1>4, Olympiads, SMT DEF s
<1> HIDE DEF s
<1>10. /\ 0 <= n /\ n <= 146096
       /\ n \div 36524 \in Int /\ n \div 146096 \in Int
       /\ n \div 36524 - n \div 146096 = c
  <2> HIDE DEF x
  <2>1. QED
    BY ONLY <1>h, <1>i, <1>1, <1>2, <1>6, CenturyIs, n \in Int, c \in 0..3, SMT
<1>11. x = n - (k + s) + c /\ x \in Int
  BY <1>h, <1>3, <1>5, <1>9, <1>10, SMT
<1> HIDE DEF x
<1>12. x = 365 * (100 * c + 4 * b + a) + (doy - s)
  BY <1>h, <1>5, <1>7, <1>8, <1>11, SMT
<1>13. x \div 365 = 100 * c + 4 * b + a
  <2> DEFINE yoe == 100 * c + 4 * b + a
             u == doy - s
  <2>1. yoe \in Int /\ u \in 0..364 /\ x \in Int /\ x = 365 * yoe + u
    BY <1>h, <1>5, <1>11, <1>12, SMT
  <2> HIDE DEF yoe, u
  <2>2. x \div 365 = yoe
    BY ONLY <1>h, <2>1, OrdinaryYears, SMT
  <2>3. QED
    BY <1>h, <2>2 DEF yoe
<1>14. QED
  BY <1>h, <1>i, <1>0, <1>10, <1>13, SMT DEF n, x, YearAt

\* A day of a March year, by its month.
LEMMA MonthOfYear ==
  ASSUME NEW y \in Int, NEW m \in 1..12, NEW n \in 1..31, n <= LastDay(y, m)
  PROVE  /\ DayOfYear(m, n) \in 0..365
         /\ DayOfYear(m, n) = 365 => m = 2 /\ Leap(y)
         /\ PositionAt(DayOfYear(m, n)) = Position(m)
<1>1. CASE m = 2
  <2>1. DaysBefore(m) = 337 /\ Position(m) = 11
    BY <1>1, SMT DEF DaysBefore, DaysTo, Position
  <2>2. n \in 1..29 /\ (n = 29 => Leap(y))
    BY <1>1, SMT DEF LastDay, Long
  <2>3. QED
    BY <1>1, <2>1, <2>2, SMT DEF DayOfYear, PositionAt
<1>2. CASE m # 2
  <2>1. m \in {1, 3, 4, 5, 6, 7, 8, 9, 10, 11, 12}
    BY <1>2, SMT
  <2>2. n <= IF m \in {4, 6, 9, 11} THEN 30 ELSE 31
    BY <2>1, SMT DEF LastDay, Long
  <2>3. QED
    BY <2>1, <2>2, SMT DEF DayOfYear, PositionAt, DaysBefore, DaysTo, Position
<1>3. QED
  BY <1>1, <1>2

\* What _civil_from_days makes of an era, a year of it and a day of that year.
LEMMA CivilIs ==
  ASSUME NEW e \in Int, NEW g, NEW doy, InEra(g, doy)
  PROVE  _civil_from_days(NumberOf(e, g, doy)) = DateAt(e, g, doy, PositionAt(doy))
<1> DEFINE k == NumberOf(e, g, doy)
           n == DayOfEra(g, doy)
           days == k + 719468
           InYear(i, j) == i - (365 * j + j \div 4 - j \div 100)
           Civil(c, i) == DateAt(c, YearAt(i), InYear(i, YearAt(i)), PositionAt(InYear(i, YearAt(i))))
<1>h. g \in 0..399 /\ doy \in 0..365
  BY DEF InEra
<1>1. n \in Int /\ 0 <= n /\ n <= 146096 /\ YearAt(n) = g
  BY YearOfEra
<1>2. days = 146097 * e + n /\ days \in Int
  BY <1>h, SMT DEF NumberOf, YearsBefore, DayOfEra, Epoch
<1>3. InYear(n, g) = doy
  BY <1>h, SMT DEF DayOfEra
<1>4. _civil_from_days(k) = Civil(days \div 146097, days - (days \div 146097) * 146097)
  BY SMT DEF _civil_from_days, YearAt, MonthAt, PositionAt, DateAt, DaysTo
<1> HIDE DEF days, n, k
<1>5. days \div 146097 = e /\ days - e * 146097 = n
  BY ONLY <1>1, <1>2, e \in Int, SMT
<1>6. _civil_from_days(k) = Civil(e, n)
  <2> HIDE DEF Civil
  <2>1. QED
    BY <1>4, <1>5
<1> HIDE DEF InYear
<1>7. Civil(e, n) = DateAt(e, g, doy, PositionAt(doy))
  BY <1>1, <1>3
<1>8. QED
  BY <1>6, <1>7 DEF k

\* A day is found again from its number.
LEMMA CivilBack ==
  ASSUME NEW d \in Calendar
  PROVE  _civil_from_days(_days_from_civil(d.year, d.month, d.day)) = d
<1> DEFINE y == d.year
           m == d.month
           n == d.day
           Y == March(y, m)
           e == Y \div 400
           g == Y - e * 400
           doy == DayOfYear(m, n)
           p == Position(m)
           k == _days_from_civil(y, m, n)
<1>1. y \in Int /\ m \in 1..12 /\ n \in 1..31 /\ n <= LastDay(y, m) /\ d \in [year : Int, month : 1..12, day : 1..31]
  BY DEF Calendar
<1>2. /\ doy \in 0..365
      /\ doy = 365 => m = 2 /\ Leap(y)
      /\ PositionAt(doy) = p
  BY <1>1, MonthOfYear, Zenon
<1>3. n \in Int /\ Y \in Int /\ DaysBefore(m) \in Int /\ k = Years(Y) + DaysBefore(m) + n - Epoch
  <2>1. n \in Int
    BY <1>1
  <2>2. QED
    BY <1>1, <2>1, CountIs
<1>4. e \in Int /\ g \in 0..399 /\ Y = 400 * e + g
  <2> HIDE DEF Y
  <2>1. QED
    BY <1>3, Era, SMT
<1>5. p \in 0..11 /\ MonthAt(p) = m
  BY <1>1, SMT DEF Position, MonthAt
<1>6. DaysTo(p) = DaysBefore(m) /\ doy = DaysBefore(m) + n - 1
  BY DEF DaysBefore, DayOfYear
<1>7. Years(Y) = YearsBefore(e, g) /\ YearsBefore(e, g) \in Int
  BY <1>4, SMT DEF Years, YearsBefore
<1>8. Epoch \in Int
  BY DEF Epoch
<1>9. Y = y - IF m <= 2 THEN 1 ELSE 0
  BY DEF March
<1> HIDE DEF e, g, p, Y
<1>10. k = NumberOf(e, g, doy)
  BY <1>3, <1>6, <1>7, <1>8, SMT DEF NumberOf
<1>11. doy = 365 => Leap(g + 1)
  <2> SUFFICES ASSUME doy = 365 PROVE Leap(g + 1)
    OBVIOUS
  <2>1. y = 400 * e + (g + 1) /\ Leap(y)
    BY <1>1, <1>2, <1>4, <1>9, SMT
  <2>2. /\ Leap(y) <=> (y % 4 = 0 /\ (y % 100 # 0 \/ y % 400 = 0))
        /\ Leap(g + 1) <=> ((g + 1) % 4 = 0 /\ ((g + 1) % 100 # 0 \/ (g + 1) % 400 = 0))
    BY <1>1, <1>4, LeapIs
  <2>3. y % 4 = (g + 1) % 4 /\ y % 100 = (g + 1) % 100 /\ y % 400 = (g + 1) % 400
    BY ONLY <1>1, <1>4, <2>1, SMT
  <2>4. QED
    BY <2>1, <2>2, <2>3
<1>f. InEra(g, doy)
  BY <1>2, <1>4, <1>11 DEF InEra
<1>12. doy - DaysBefore(m) + 1 = n /\ g + e * 400 + (IF m <= 2 THEN 1 ELSE 0) = y
  BY <1>1, <1>3, <1>4, <1>6, <1>9, SMT
<1> HIDE DEF k, doy, m, n, y
<1>13. _civil_from_days(k) = DateAt(e, g, doy, p)
  BY <1>2, <1>4, <1>10, <1>f, CivilIs
<1>14. DateAt(e, g, doy, p) = [year |-> y, month |-> m, day |-> n]
  BY <1>5, <1>6, <1>12 DEF DateAt
<1>15. d = [year |-> y, month |-> m, day |-> n]
  BY <1>1 DEF y, m, n
<1>16. QED
  BY <1>13, <1>14, <1>15 DEF k, y, m, n

\* The day number of a date.
Number(d) == _days_from_civil(d.year, d.month, d.day)

\* The day before has the number before.
LEMMA CountsBack ==
  ASSUME NEW d \in Calendar
  PROVE  /\ Yesterday(d) \in Calendar
         /\ Number(Yesterday(d)) \in Int /\ Number(d) = Number(Yesterday(d)) + 1
<1> DEFINE y == d.year
           m == d.month
           n == d.day
           b == Yesterday(d)
<1>1. d \in [year : Int, month : 1..12, day : 1..31] /\ n <= LastDay(y, m)
  BY DEF Calendar
<1>2. y \in Int /\ m \in 1..12 /\ n \in 1..31
  BY <1>1
<1>3. \A k \in Int, i \in 1..12 : LastDay(k, i) \in 28..31
  BY MonthsAgree
<1>4. ASSUME b \in Calendar, Tomorrow(b) = d
      PROVE  Number(b) \in Int /\ Number(d) = Number(b) + 1
  <2>1. b.year \in Int /\ b.month \in 1..12 /\ b.day \in Int
    BY <1>4 DEF Calendar
  <2>2. Number(b) \in Int
    <3>1. /\ Years(March(b.year, b.month)) \in Int /\ DaysBefore(b.month) \in Int /\ Epoch \in Int
          /\ Number(b) = Years(March(b.year, b.month)) + DaysBefore(b.month) + b.day - Epoch
      <4>1. March(b.year, b.month) \in Int
        BY <2>1, CountIs
      <4>2. Epoch \in Int
        BY DEF Epoch
      <4>3. QED
        BY <2>1, <4>1, <4>2, CountIs DEF Number
    <3>2. QED
      BY <2>1, <3>1
  <2>3. Number(Tomorrow(b)) = Number(b) + 1
    BY <1>4, CountsOn DEF Number
  <2>4. QED
    BY <1>4, <2>2, <2>3
<1>5. d = [year |-> y, month |-> m, day |-> n]
  BY <1>1
<1>6. CASE n > 1
  <2>1. n - 1 \in 1..31
    BY <1>2, <1>6
  <2>2. b = [year |-> y, month |-> m, day |-> n - 1]
    BY <1>1, <1>6 DEF Yesterday
  <2> HIDE DEF b, y, m, n
  <2>3. b \in Calendar
    BY <1>1, <1>2, <1>3, <1>6, <2>1, <2>2 DEF Calendar
  <2>4. Tomorrow(b) = d
    <3>1. b.day < LastDay(b.year, b.month) /\ b.day + 1 = n
      BY <1>1, <1>2, <1>3, <2>1, <2>2
    <3>2. Tomorrow(b) = [b EXCEPT !.day = b.day + 1]
      BY <3>1 DEF Tomorrow
    <3>3. QED
      BY <1>5, <2>1, <2>2, <3>1, <3>2
  <2>5. QED
    BY <1>4, <2>3, <2>4 DEF b
<1>7. CASE n = 1 /\ m > 1
  <2>1. m - 1 \in 1..12 /\ LastDay(y, m - 1) \in 1..31 /\ LastDay(y, m - 1) \in Int
    BY <1>2, <1>3, <1>7
  <2>2. b = [year |-> y, month |-> m - 1, day |-> LastDay(y, m - 1)]
    <3>1. b = [[d EXCEPT !.day = LastDay(y, m - 1)] EXCEPT !.month = m - 1]
      BY <1>2, <1>7 DEF Yesterday
    <3>2. [d EXCEPT !.day = LastDay(y, m - 1)] = [year |-> y, month |-> m, day |-> LastDay(y, m - 1)]
      BY <1>1
    <3> DEFINE u == [year |-> y, month |-> m, day |-> LastDay(y, m - 1)]
    <3>3. [u EXCEPT !.month = m - 1] = [year |-> y, month |-> m - 1, day |-> LastDay(y, m - 1)]
      OBVIOUS
    <3>4. QED
      BY <3>1, <3>2, <3>3
  <2> HIDE DEF b, y, m, n
  <2>3. b \in Calendar
    BY <1>2, <2>1, <2>2 DEF Calendar
  <2>4. Tomorrow(b) = d
    <3>1. b.year = y /\ b.month = m - 1 /\ b.day = LastDay(b.year, b.month)
      BY <2>2
    <3>2. ~(b.day < LastDay(b.year, b.month)) /\ b.month < 12
      BY <1>2, <2>1, <3>1
    <3>3. Tomorrow(b) = [[b EXCEPT !.day = 1] EXCEPT !.month = b.month + 1]
      BY <3>2 DEF Tomorrow
    <3>4. [b EXCEPT !.day = 1] = [year |-> y, month |-> m - 1, day |-> 1]
      BY <2>2
    <3> DEFINE u == [year |-> y, month |-> m - 1, day |-> 1]
    <3>5. [u EXCEPT !.month = m] = [year |-> y, month |-> m, day |-> 1]
      OBVIOUS
    <3>6. b.month + 1 = m
      BY <1>2, <3>1
    <3>7. QED
      BY <1>5, <1>7, <3>3, <3>4, <3>5, <3>6
  <2>5. QED
    BY <1>4, <2>3, <2>4 DEF b
<1>8. CASE n = 1 /\ m = 1
  <2>1. b = [year |-> y - 1, month |-> 12, day |-> 31] /\ y - 1 \in Int
    BY <1>2, <1>8 DEF Yesterday
  <2>2. LastDay(y - 1, 12) = 31
    BY DEF LastDay, Long
  <2> HIDE DEF b, y, m, n
  <2>3. b \in Calendar
    BY <2>1, <2>2 DEF Calendar
  <2>4. Tomorrow(b) = d
    <3>1. Tomorrow(b) = [year |-> (y - 1) + 1, month |-> 1, day |-> 1]
      BY <2>1, <2>2 DEF Tomorrow
    <3>2. (y - 1) + 1 = y
      BY <1>2
    <3>3. QED
      BY <1>5, <1>8, <3>1, <3>2
  <2>5. QED
    BY <1>4, <2>3, <2>4 DEF b
<1>9. QED
  BY <1>2, <1>6, <1>7, <1>8

\* The walk begins at the number its formula says.
LEMMA BeginsAt ==
  ASSUME NEW y \in Int
  PROVE  LET d == [year |-> y, month |-> 12, day |-> 1]
         IN d \in Calendar /\ Number(d) = NumberOfDecember(y)
<1> DEFINE d == [year |-> y, month |-> 12, day |-> 1]
           e == y \div 400
           g == y - e * 400
<1>1. LastDay(y, 12) = 31
  BY DEF LastDay, Long
<1>2. d \in Calendar
  BY <1>1 DEF Calendar
<1>3. Number(d) = Years(y) + DaysBefore(12) + 1 - Epoch
  <2>1. March(y, 12) = y
    BY DEF March
  <2>2. 12 \in 1..12 /\ 1 \in Int
    OBVIOUS
  <2>3. _days_from_civil(y, 12, 1) = Years(March(y, 12)) + DaysBefore(12) + 1 - Epoch
    BY <2>2, CountIs
  <2>4. QED
    BY <2>1, <2>3 DEF Number
<1>4. DaysBefore(12) = 275
  BY SMT DEF DaysBefore, DaysTo, Position
<1>5. e \in Int /\ g \in 0..399 /\ y = 400 * e + g
  BY Era
<1>6. Years(y) = YearsBefore(e, g) /\ y \div 400 = e
  BY DEF Years
<1> HIDE DEF e, g
<1>7. y \div 4 = 100 * e + g \div 4 /\ y \div 100 = 4 * e + g \div 100
  BY <1>5, SMT
<1>8. Years(y) + 275 + 1 - Epoch = NumberOfDecember(y)
  BY <1>5, <1>6, <1>7, SMT DEF YearsBefore, NumberOfDecember, Epoch
<1>9. QED
  BY <1>2, <1>3, <1>4, <1>8

\* The walk is on a day of the calendar and carries its number.
Counted == today \in Calendar /\ number = Number(today)

\* What the two conjuncts of Counted make of the first property.
LEMMA CountedSuffices == Counted => DayCountIsCalendar
<1> SUFFICES ASSUME Counted PROVE DayCountIsCalendar
  OBVIOUS
<1> DEFINE y == today.year
           m == today.month
           n == today.day
<1>1. today \in Calendar /\ number = Number(today)
  BY DEF Counted
<1>2. today \in [year : Int, month : 1..12, day : 1..31] /\ y \in Int /\ m \in 1..12 /\ n \in 1..31 /\ n <= LastDay(y, m)
  BY <1>1 DEF Calendar
<1>3. _days_in_month(y, m) = LastDay(y, m) /\ LastDay(y, m) \in 28..31
  BY <1>2, MonthsAgree
<1>4. _civil_from_days(number) = today
  BY <1>1, CivilBack DEF Number
<1>5. Possible(today)
  BY <1>2, <1>3 DEF Possible
<1>6. Possible([today EXCEPT !.day = @ + 1]) <=> n < LastDay(y, m)
  <2> DEFINE u == [today EXCEPT !.day = today.day + 1]
  <2>1. u.year = y /\ u.month = m /\ u.day = n + 1
    BY <1>2
  <2> HIDE DEF u
  <2>2. Possible(u) <=> n < LastDay(y, m)
    BY <1>2, <1>3, <2>1 DEF Possible
  <2>3. QED
    BY <2>2 DEF u
<1>7. Tomorrow(today).month = m <=> n < LastDay(y, m)
  <2>1. CASE n < LastDay(y, m)
    BY <1>2, <2>1 DEF Tomorrow
  <2>2. CASE ~(n < LastDay(y, m)) /\ m < 12
    <3>1. Tomorrow(today) = [[today EXCEPT !.day = 1] EXCEPT !.month = m + 1]
      BY <2>2 DEF Tomorrow
    <3> DEFINE u == [today EXCEPT !.day = 1]
    <3>2. u \in [year : Int, month : 1..12, day : 1..31]
      BY <1>2
    <3> HIDE DEF u
    <3>3. Tomorrow(today).month = m + 1
      BY <3>1, <3>2 DEF u
    <3>4. QED
      BY <1>2, <2>2, <3>3
  <2>3. CASE ~(n < LastDay(y, m)) /\ m = 12
    BY <2>3 DEF Tomorrow
  <2>4. QED
    BY <1>2, <2>1, <2>2, <2>3
<1>8. QED
  BY <1>1, <1>4, <1>5, <1>6, <1>7 DEF DayCountIsCalendar, Number

\* The walk starts counted.
LEMMA CountedInit == DatesInit => Counted
<1> SUFFICES ASSUME DatesInit PROVE Counted
  OBVIOUS
<1>1. today \in Calendar
  <2>1. LastDay(1969, 12) = 31
    BY DEF LastDay, Long
  <2>2. QED
    BY <2>1, SMT DEF DatesInit, Calendar
<1>2. _days_from_civil(1969, 12, 31) = -1
  BY SMT DEF _days_from_civil
<1>3. QED
  BY <1>1, <1>2, SMT DEF DatesInit, Counted, Number

\* A step of the walk keeps it counted.
LEMMA CountedNext ==
  ASSUME Starts \subseteq Int, Counted, [DatesNext]_dvars
  PROVE  Counted'
<1>1. CASE \E year \in Starts :
             /\ today' = [year |-> year, month |-> 12, day |-> 1]
             /\ number' = NumberOfDecember(year)
  <2>1. PICK year \in Starts :
             /\ today' = [year |-> year, month |-> 12, day |-> 1]
             /\ number' = NumberOfDecember(year)
    BY <1>1, Zenon
  <2>2. year \in Int
    OBVIOUS
  <2>3. LET d == [year |-> year, month |-> 12, day |-> 1]
        IN d \in Calendar /\ Number(d) = NumberOfDecember(year)
    BY <2>2, BeginsAt
  <2>4. QED
    BY <2>1, <2>3 DEF Counted
<1>2. CASE today' = Tomorrow(today) /\ number' = number + 1
  <2>1. Tomorrow(today) \in Calendar /\ Number(Tomorrow(today)) = Number(today) + 1
    BY CountsOn DEF Counted, Number
  <2>2. QED
    BY <1>2, <2>1 DEF Counted
<1>3. CASE UNCHANGED dvars
  BY <1>3 DEF Counted, dvars
<1>4. QED
  BY <1>1, <1>2, <1>3 DEF DatesNext

\* Whatever years the walks begin in and however long they are, the day count of
\* rails2zb.py is the calendar's on every day, in both directions.
THEOREM DayCountIsKept ==
  ASSUME Starts \subseteq Int
  PROVE  DatesSpec => []DayCountIsCalendar
<1>1. DatesInit => Counted
  BY CountedInit
<1>2. Counted /\ [DatesNext]_dvars => Counted'
  BY CountedNext
<1>3. Counted => DayCountIsCalendar
  BY CountedSuffices
<1>4. QED
  BY <1>1, <1>2, <1>3, PTL DEF DatesSpec

\* What the two fields of an offset come to again.
LEMMA OffsetFields ==
  ASSUME NEW o \in Int, -1440 < o, o < 1440
  PROVE  LET size == IF o < 0 THEN -o ELSE o
         IN /\ size \div 60 \in Int /\ ~(size \div 60 > 23)
            /\ size % 60 \in Int /\ ~(size % 60 > 59)
            /\ (((size \div 60) * 60) + (size % 60)) * (IF o < 0 THEN -1 ELSE 1) = o
<1> DEFINE size == IF o < 0 THEN -o ELSE o
           h == size \div 60
           m == size % 60
<1>1. size \in Int /\ 0 <= size /\ size < 1440
  BY SMT
<1>2. size * (IF o < 0 THEN -1 ELSE 1) = o
  BY SMT
<1> HIDE DEF size
<1>3. h \in Int /\ ~(h > 23) /\ m \in Int /\ ~(m > 59)
  BY <1>1, SMT
<1>4. h * 60 + m = size
  BY <1>1, SMT
<1>5. (h * 60 + m) * (IF o < 0 THEN -1 ELSE 1) = o
  BY <1>2, <1>4
<1>6. QED
  BY <1>3, <1>5 DEF size

\* The day a time in UTC is on.
LEMMA DayShift ==
  ASSUME NEW u \in Int, -DaySeconds < u, u < 2 * DaySeconds
  PROVE  u \div DaySeconds = IF u < 0 THEN -1 ELSE IF u >= DaySeconds THEN 1 ELSE 0
BY SMT DEF DaySeconds

\* What is written of a moment whose date is d.
Written(d, rest) == IF d.year \notin FourDigits THEN Rejected ELSE [date |-> d, second |-> rest]

\* What is made of a whole timestamp with an offset.
Rewritten(d, s, offset) == to_rfc3339(d, "seconds", s, TRUE, offset)

\* What is written of a possible date with an offset.
LEMMA WrittenIs ==
  ASSUME NEW d, Possible(d), NEW s, NEW offset, offset.sign # 0, ~(offset.hours > 23), ~(offset.minutes > 59)
  PROVE  LET moment == Moment(d, s, (offset.hours * 60 + offset.minutes) * offset.sign)
         IN Rewritten(d, s, offset) = Written(_civil_from_days(moment.days), moment.rest)
BY DEF to_rfc3339, Written, Rewritten

\* Either way of saying it.
LEMMA WrittenOr ==
  ASSUME NEW d, NEW rest
  PROVE  Written(d, rest) = IF d.year \in FourDigits THEN [date |-> d, second |-> rest] ELSE Rejected
BY DEF Written

\* A counted date is moved by an offset as the calendar moves it.
LEMMA CountedMoves ==
  ASSUME \A s \in Times : s \in Int /\ 0 <= s /\ s < DaySeconds,
         \A o \in Offsets : o \in Int /\ -1440 < o /\ o < 1440,
         Counted
  PROVE  MomentKept
<1> SUFFICES ASSUME today.year \in FourDigits, NEW s \in Times, NEW o \in Offsets
             PROVE  LET size == IF o < 0 THEN -o ELSE o
                        offset == [sign |-> IF o < 0 THEN -1 ELSE 1,
                                   hours |-> size \div 60, minutes |-> size % 60]
                        utc == s - o * 60
                        day == IF utc < 0 THEN Yesterday(today)
                               ELSE IF utc >= DaySeconds THEN Tomorrow(today) ELSE today
                    IN to_rfc3339(today, "seconds", s, TRUE, offset) =
                         IF day.year \in FourDigits THEN [date |-> day, second |-> utc % DaySeconds]
                         ELSE Rejected
  BY Zenon DEF MomentKept
<1> DEFINE size == IF o < 0 THEN -o ELSE o
           sign == IF o < 0 THEN -1 ELSE 1
           hours == size \div 60
           minutes == size % 60
           offset == [sign |-> sign, hours |-> hours, minutes |-> minutes]
           utc == s - o * 60
           day == IF utc < 0 THEN Yesterday(today)
                  ELSE IF utc >= DaySeconds THEN Tomorrow(today) ELSE today
           rest == utc % DaySeconds
           moment == Moment(today, s, o)
<1>1. s \in Int /\ 0 <= s /\ s < DaySeconds /\ o \in Int /\ -1440 < o /\ o < 1440
  OBVIOUS
<1>2. ~(hours > 23) /\ ~(minutes > 59) /\ (hours * 60 + minutes) * sign = o
  BY <1>1, OffsetFields
<1>3. sign # 0
  BY SMT
<1>4. Possible(today) /\ number = Number(today) /\ today \in Calendar
  BY CountedSuffices DEF Counted, DayCountIsCalendar
<1>5. utc \in Int /\ -DaySeconds < utc /\ utc < 2 * DaySeconds
  BY <1>1, SMT DEF DaySeconds
<1>6. moment.days = Number(today) + utc \div DaySeconds /\ moment.rest = rest
  BY DEF Moment, Number
<1>7. Number(today) \in Int
  <2>1. /\ Number(Yesterday(today)) \in Int
        /\ Number(today) = Number(Yesterday(today)) + 1
    BY <1>4, CountsBack
  <2>2. QED
    BY <2>1
<1>8. day \in Calendar /\ Number(day) = moment.days
  <2> HIDE DEF utc, moment
  <2>0. utc \div DaySeconds = IF utc < 0 THEN -1 ELSE IF utc >= DaySeconds THEN 1 ELSE 0
    BY <1>5, DayShift
  <2>1. CASE utc < 0
    <3>1. /\ Yesterday(today) \in Calendar /\ Number(Yesterday(today)) \in Int
          /\ Number(today) = Number(Yesterday(today)) + 1
      BY <1>4, CountsBack
    <3>2. day = Yesterday(today)
      BY <2>1
    <3>3. moment.days = Number(today) - 1
      BY <1>6, <1>7, <2>0, <2>1
    <3>4. QED
      BY <3>1, <3>2, <3>3
  <2>2. CASE ~(utc < 0) /\ utc >= DaySeconds
    <3>1. Tomorrow(today) \in Calendar /\ Number(Tomorrow(today)) = Number(today) + 1
      BY <1>4, CountsOn DEF Number
    <3>2. day = Tomorrow(today)
      BY <2>2
    <3>3. QED
      BY <1>6, <2>0, <2>2, <3>1, <3>2
  <2>3. CASE ~(utc < 0) /\ ~(utc >= DaySeconds)
    BY <1>4, <1>6, <1>7, <2>0, <2>3
  <2>4. QED
    BY <2>1, <2>2, <2>3
<1>9. _civil_from_days(moment.days) = day
  <2>1. _civil_from_days(Number(day)) = day
    BY <1>8, CivilBack DEF Number
  <2>2. QED
    BY <1>8, <2>1
<1> HIDE DEF day, moment, hours, minutes, sign, utc, rest
<1>10. Rewritten(today, s, offset) = Written(day, rest)
  <2>1. offset.sign = sign /\ offset.hours = hours /\ offset.minutes = minutes
    OBVIOUS
  <2> HIDE DEF offset
  <2>2. offset.sign # 0 /\ ~(offset.hours > 23) /\ ~(offset.minutes > 59)
    BY <1>2, <1>3, <2>1
  <2> DEFINE place == Moment(today, s, (offset.hours * 60 + offset.minutes) * offset.sign)
  <2>3. place = moment
    BY <1>2, <2>1 DEF moment
  <2>4. Rewritten(today, s, offset) = Written(_civil_from_days(place.days), place.rest)
    BY <1>4, <2>2, WrittenIs
  <2> HIDE DEF place
  <2>5. QED
    BY <1>6, <1>9, <2>3, <2>4
<1>11. Written(day, rest) = IF day.year \in FourDigits THEN [date |-> day, second |-> rest] ELSE Rejected
  BY WrittenOr
<1>12. Rewritten(today, s, offset)
         = IF day.year \in FourDigits THEN [date |-> day, second |-> rest] ELSE Rejected
  <2> HIDE DEF offset
  <2>1. QED
    BY <1>10, <1>11
<1>13. QED
  BY <1>12, Zenon DEF Rewritten, offset, day, hours, minutes, sign, utc, rest

\* A timestamp with an offset is written as the same moment in UTC or refused for
\* its year, for every time of day and every offset of less than a day.
THEOREM MomentIsKept ==
  ASSUME Starts \subseteq Int,
         \A s \in Times : s \in Int /\ 0 <= s /\ s < DaySeconds,
         \A o \in Offsets : o \in Int /\ -1440 < o /\ o < 1440
  PROVE  DatesSpec => []MomentKept
<1>1. DatesInit => Counted
  BY CountedInit
<1>2. Counted /\ [DatesNext]_dvars => Counted'
  BY CountedNext
<1>3. Counted => MomentKept
  BY CountedMoves
<1>4. QED
  BY <1>1, <1>2, <1>3, PTL DEF DatesSpec

\* Both, for the property the runs check.
THEOREM DatesAreKept ==
  ASSUME Starts \subseteq Int,
         \A s \in Times : s \in Int /\ 0 <= s /\ s < DaySeconds,
         \A o \in Offsets : o \in Int /\ -1440 < o /\ o < 1440
  PROVE  DatesSpec => []DatesKept
<1>1. DayCountIsCalendar /\ MomentKept => DatesKept
  BY DEF DatesKept
<1>2. QED
  BY <1>1, DayCountIsKept, MomentIsKept, PTL

-------------------------------------------------------------------------------
(* FullstackReconcile.  The gate's one list, gateDecided, holds a settled entry for
   every route that has left gateTodo; that, and the checks Load and Attributable
   passed on the way, is what exit 0 rests on. *)
\* What the decisions file may hold for any route.
Answers == UNION {Decisions[r.name] : r \in Identities}

\* The entries of an accepted map that nothing is held against.
Settled ==
  {e \in {[route |-> r, d |-> d, op |-> Operation(r, d), presentation |-> Converted(r)] :
            r \in Identities, d \in Answers} : RouteOutcome(e.route, e.d, e.op) = 0}

\* The artifacts were accepted.
Loaded == docs.complete /\ load_operations(docs.contract) /\ ReplayPassed /\ CaptureBound

\* Every blocker is covered by an entry of the map.
Represented == \A b \in docs.blockers : \E i \in DOMAIN gateDecided : Covers(b, gateDecided[i])

\* Every route of either inventory is reconciled or still to do.
Accounted ==
  /\ gateDecided \in Seq(Settled) /\ gateTodo \in Seq(Identities)
  /\ Identities = {gateDecided[i].route : i \in DOMAIN gateDecided} \cup {gateTodo[i] : i \in DOMAIN gateTodo}

\* What is known at each stage, and of a run that exits 0.
GateInv ==
  /\ docs \in Migrations
  /\ gateStage \in {"load", "pair", "decide", "done"}
  /\ gateStage # "done" => exit = 9
  /\ gateStage \in {"load", "pair"} => gateDecided = <<>>
  /\ gateStage \in {"pair", "decide"} \/ exit = 0 => Loaded
  /\ gateStage = "decide" \/ exit = 0 => Attributable /\ Accounted
  /\ exit = 0 => gateTodo = <<>> /\ Represented

\* The artifacts are read once.
LEMMA DocsStay ==
  ASSUME docs' = docs
  PROVE  /\ Identities' = Identities /\ Answers' = Answers
         /\ Loaded' = Loaded /\ Attributable' = Attributable
         /\ \A r : PresentationId(r)' = PresentationId(r)
         /\ \A r : Converted(r)' = Converted(r)
<1>1. Presented' = Presented /\ Identities' = Identities
  BY DEF Presented, Identities
<1>2. Answers' = Answers
  BY <1>1 DEF Answers
<1>3. Loaded' = Loaded
  BY DEF Loaded, ReplayPassed, CaptureBound
<1>4. \A id : HandoffRows(id)' = HandoffRows(id)
  BY DEF HandoffRows
<1>5. \A r : PresentationId(r)' = PresentationId(r)
  BY DEF PresentationId
<1>6. \A r : Converted(r)' = Converted(r)
  BY <1>4, <1>5 DEF Converted
<1>7. Attributable' = Attributable
  BY <1>4 DEF Attributable
<1> QED
  BY <1>1, <1>2, <1>3, <1>5, <1>6, <1>7

\* So is the operation a decision selects.
LEMMA OperationStays ==
  ASSUME docs' = docs
  PROVE  \A r, d : Operation(r, d)' = Operation(r, d)
<1>0. \A r : Converted(r)' = Converted(r)
  BY DocsStay
<1>1. auth_collections' = auth_collections
  BY DEF auth_collections
<1>2. \A e, access : custom_operation(e, access)' = custom_operation(e, access)
  BY DEF custom_operation
<1>3. \A e, access : builtin_operation(e, access)' = builtin_operation(e, access)
  BY <1>1 DEF builtin_operation
<1>4. \A e, access : endpoint_operation(e, access)' = endpoint_operation(e, access)
  BY <1>2, <1>3 DEF endpoint_operation
<1>5. SUFFICES ASSUME NEW r, NEW d PROVE Operation(r, d)' = Operation(r, d)
  OBVIOUS
<1> DEFINE ops == {endpoint_operation(row.endpoint, d.access) :
                     row \in {q \in Converted(r) : q.endpoint.id # "none"}}
<1> DEFINE named == {o \in docs.contract.operations : o.id = d.operation}
<1>6. ops' = ops /\ named' = named
  BY <1>0, <1>4
<1>7. Operation(r, d) =
        IF ops # {} THEN IF d.operation = "none" /\ Cardinality(ops) = 1 THEN CHOOSE o \in ops : TRUE ELSE BadOp
        ELSE IF d.access # "none" THEN BadOp
        ELSE IF d.operation = "none" THEN NoOp
        ELSE IF named = {} THEN BadOp ELSE Selected(CHOOSE o \in named : TRUE)
  BY DEF Operation
<1>8. Operation(r, d)' =
        IF ops' # {} THEN IF d.operation = "none" /\ Cardinality(ops') = 1 THEN CHOOSE o \in ops' : TRUE ELSE BadOp
        ELSE IF d.access # "none" THEN BadOp
        ELSE IF d.operation = "none" THEN NoOp
        ELSE IF named' = {} THEN BadOp ELSE Selected(CHOOSE o \in named' : TRUE)
  BY DEF Operation
<1> HIDE DEF ops, named
<1> QED
  BY <1>6, <1>7, <1>8

\* And so is what is held against it.
LEMMA OutcomeStays ==
  ASSUME docs' = docs
  PROVE  \A r, d, op : RouteOutcome(r, d, op)' = RouteOutcome(r, d, op)
<1>0. /\ \A r : Converted(r)' = Converted(r)
      /\ \A r : PresentationId(r)' = PresentationId(r)
  BY DocsStay
<1>1. \A e, r, op : BackendFits(e, r, op)' = BackendFits(e, r, op)
  BY DEF BackendFits
<1>2. \A e, r, op : BrowserFits(e, r, op)' = BrowserFits(e, r, op)
  BY DEF BrowserFits
<1>3. \A r, d, op : EvidenceFits(r, d, op)' = EvidenceFits(r, d, op)
  BY <1>1, <1>2 DEF EvidenceFits
<1>4. \A e : Control(e)' = Control(e)
  BY DEF Control
<1>5. \A r, d, op : MigrationProven(r, d, op)' = MigrationProven(r, d, op)
  BY <1>0, <1>4 DEF MigrationProven
<1>6. \A r, d : BlockedOutcome(r, d)' = BlockedOutcome(r, d)
  <2>1. \A id : DirectCodes(id)' = DirectCodes(id)
    BY DEF DirectCodes
  <2>2. /\ \A r : RowFindings(r)' = RowFindings(r)
        /\ \A r : RowDecisions(r)' = RowDecisions(r)
    BY <1>0 DEF RowFindings, RowDecisions
  <2>3. FindingIds' = FindingIds /\ Presented' = Presented
    BY DEF FindingIds, Presented
  <2>4. \A r, b : Own(r, b)' = Own(r, b)
    BY <1>0, <2>2 DEF Own
  <2> QED
    BY <1>0, <2>1, <2>2, <2>3, <2>4 DEF BlockedOutcome
<1>7. \A r, d : StatusAgrees(r, d)' = StatusAgrees(r, d)
  BY <1>0 DEF StatusAgrees
<1>8. \A r, d : SurfaceTrue(r, d)' = SurfaceTrue(r, d)
  BY DEF SurfaceTrue, Presented
<1> QED
  BY <1>3, <1>5, <1>6, <1>7, <1>8 DEF RouteOutcome

\* Hence an entry once settled stays so.
LEMMA SettledStays == ASSUME docs' = docs PROVE Settled' = Settled
<1>1. /\ Identities' = Identities /\ Answers' = Answers
      /\ \A r : Converted(r)' = Converted(r)
  BY DocsStay
<1>2. \A r, d : Operation(r, d)' = Operation(r, d)
  BY OperationStays
<1>3. \A r, d, op : RouteOutcome(r, d, op)' = RouteOutcome(r, d, op)
  BY OutcomeStays
<1> QED
  BY <1>1, <1>2, <1>3 DEF Settled

\* The list of a finite set is of that set.
LEMMA ListsAll ==
  ASSUME NEW S, IsFiniteSet(S)
  PROVE  /\ SetToSeq(S) \in Seq(S)
         /\ S = {SetToSeq(S)[i] : i \in DOMAIN SetToSeq(S)}
<1> DEFINE n == Cardinality(S)
           f == SetToSeq(S)
<1>1. n \in Nat /\ ExistsBijection(1..n, S)
  BY FS_CardinalityType
<1>2. PICK g \in [1..n -> S] : IsInjective(g)
  BY <1>1 DEF ExistsBijection, Bijection, Injection, IsInjective
<1>3. f \in [1..n -> S] /\ IsInjective(f)
  BY <1>2, Zenon DEF SetToSeq
<1> HIDE DEF f
<1>4. f \in Injection(1..n, S)
  BY <1>3 DEF Injection, IsInjective
<1>5. IsFiniteSet(1..n) /\ Cardinality(1..n) = n
  BY <1>1, FS_Interval
<1>6. f \in Surjection(1..n, S)
  BY <1>4, <1>5, FS_Injection
<1>7. S = {f[i] : i \in 1..n}
  BY <1>6 DEF Surjection
<1>8. f \in Seq(S) /\ DOMAIN f = 1..n
  BY <1>1, <1>3
<1> QED
  BY <1>7, <1>8 DEF f

\* So does the cover of the blockers.
LEMMA CoverStays == ASSUME UNCHANGED <<docs, gateDecided>> PROVE Represented' = Represented
<1>1. \A r : PresentationId(r)' = PresentationId(r)
  BY DocsStay
<1>2. \A b, r : Covers(b, r)' = Covers(b, r)
  BY <1>1 DEF Covers
<1> QED
  BY <1>2 DEF Represented

\* A list is its head and its tail.
LEMMA HeadAndTail ==
  ASSUME NEW S, NEW s \in Seq(S), s # <<>>
  PROVE  {s[i] : i \in DOMAIN s} = {Tail(s)[i] : i \in DOMAIN Tail(s)} \cup {Head(s)}
<1>1. /\ Len(s) \in Nat \ {0} /\ DOMAIN s = 1..Len(s) /\ Head(s) = s[1]
      /\ Tail(s) \in Seq(S) /\ DOMAIN Tail(s) = 1..Len(s) - 1
  OBVIOUS
<1>2. \A i \in 1..Len(s) - 1 : Tail(s)[i] = s[i + 1]
  OBVIOUS
<1>3. ASSUME NEW i \in DOMAIN s PROVE s[i] \in {Tail(s)[j] : j \in DOMAIN Tail(s)} \cup {Head(s)}
  <2>1. CASE i = 1
    BY <1>1, <2>1
  <2>2. CASE i # 1
    <3>1. i - 1 \in DOMAIN Tail(s) /\ Tail(s)[i - 1] = s[i]
      BY <1>1, <1>2, <1>3, <2>2
    <3> QED
      BY <3>1
  <2> QED
    BY <2>1, <2>2
<1>4. ASSUME NEW i \in DOMAIN Tail(s) PROVE \E j \in DOMAIN s : s[j] = Tail(s)[i]
  BY <1>1, <1>2, <1>4
<1>5. \E j \in DOMAIN s : s[j] = Head(s)
  BY <1>1
<1> QED
  BY ONLY <1>3, <1>4, <1>5

\* There are finitely many routes.
LEMMA FiniteRoutes == ASSUME docs \in Migrations PROVE IsFiniteSet(Identities)
<1> DEFINE D == DOMAIN docs.presentation
           f == [i \in D |-> docs.presentation[i].route]
<1>1. IsFiniteSet(D) /\ IsFiniteSet(docs.backend)
  BY ReconcileConstants DEF RoutesFormed
<1>2. f \in Surjection(D, Presented)
  BY DEF Surjection, Presented
<1> HIDE DEF D, f
<1>3. IsFiniteSet(Presented)
  BY <1>1, <1>2, FS_Surjection
<1> QED
  BY <1>1, <1>3, FS_Union DEF Identities

\* Nothing has been looked at.
LEMMA GateInitial == ReconcileInit => GateInv
BY DEF ReconcileInit, GateInv

\* load_operations and the evidence are looked at before the routes are paired.
LEMMA LoadKeeps == ASSUME GateInv, Load PROVE GateInv'
<1>1. docs' = docs
  BY DEF Load, Fail
<1>2. Loaded' = Loaded
  BY <1>1, DocsStay
<1> QED
  BY <1>1, <1>2 DEF GateInv, Load, Fail, Loaded

\* Every route is listed once the handoff is paired.
LEMMA PairKeeps == ASSUME GateInv, Pair PROVE GateInv'
<1>1. docs' = docs
  BY DEF Pair, Fail
<1>2. Loaded' = Loaded /\ Attributable' = Attributable /\ Identities' = Identities
  BY <1>1, DocsStay
<1>3. CASE ~Attributable
  BY <1>1, <1>2, <1>3 DEF GateInv, Pair, Fail
<1>4. CASE Attributable
  <2>1. gateStage' = "decide" /\ gateTodo' = SetToSeq(Identities) /\ gateDecided' = <<>> /\ exit' = 9
    BY <1>4 DEF GateInv, Pair
  <2>2. IsFiniteSet(Identities)
    BY FiniteRoutes DEF GateInv
  <2>3. Accounted'
    BY <1>2, <2>1, <2>2, ListsAll DEF Accounted
  <2> QED
    BY <1>1, <1>2, <1>4, <2>1, <2>3 DEF GateInv, Pair
<1> QED
  BY <1>3, <1>4

\* A route leaves the list when its decision stands.
LEMMA DecideKeeps == ASSUME GateInv, Decide PROVE GateInv'
<1>0. gateStage = "decide" /\ gateTodo # <<>> /\ Loaded /\ Attributable /\ Accounted /\ docs \in Migrations /\ exit = 9
  BY DEF GateInv, Decide
<1>1. docs' = docs
  BY DEF Decide, Fail
<1>2. Loaded' = Loaded /\ Attributable' = Attributable /\ Identities' = Identities /\ Settled' = Settled
  BY <1>1, DocsStay, SettledStays
<1> DEFINE route == Head(gateTodo)
<1>3. ASSUME NEW code \in {Outcome(route, d) : d \in Decisions[route.name]} \ {0}, Fail(code)
      PROVE  GateInv'
  BY <1>0, <1>1, <1>2, <1>3 DEF GateInv, Fail
<1>4. ASSUME NEW d \in {c \in Decisions[route.name] : Outcome(route, c) = 0},
             gateTodo' = Tail(gateTodo),
             gateDecided' = Append(gateDecided, [route |-> route, d |-> d, op |-> Operation(route, d),
                                                 presentation |-> Converted(route)]),
             UNCHANGED <<docs, gateStage, exit>>
      PROVE  GateInv'
  <2> DEFINE entry == [route |-> route, d |-> d, op |-> Operation(route, d), presentation |-> Converted(route)]
  <2>1. gateTodo \in Seq(Identities) /\ gateDecided \in Seq(Settled)
    BY <1>0 DEF Accounted
  <2>2. route \in Identities /\ gateTodo' \in Seq(Identities)
    BY <1>0, <1>4, <2>1
  <2>3. d \in Answers
    BY <1>4, <2>2 DEF Answers
  <2>4. entry \in Settled /\ entry.route = route
    BY <1>4, <2>2, <2>3 DEF Settled, Outcome
  <2> HIDE DEF entry, route
  <2>5. gateDecided' = Append(gateDecided, entry)
    BY <1>4 DEF entry
  <2>6. gateDecided' \in Seq(Settled)
    BY <2>1, <2>4, <2>5
  <2>7. {gateDecided'[i].route : i \in DOMAIN gateDecided'} = {gateDecided[i].route : i \in DOMAIN gateDecided} \cup {route}
    BY <2>1, <2>4, <2>5
  <2>8. {gateTodo[i] : i \in DOMAIN gateTodo} = {gateTodo'[i] : i \in DOMAIN gateTodo'} \cup {route}
    BY <1>0, <1>4, <2>1, HeadAndTail DEF route
  <2>9. Accounted'
    BY <1>0, <1>2, <2>2, <2>6, <2>7, <2>8 DEF Accounted
  <2> QED
    BY <1>0, <1>1, <1>2, <1>4, <2>9 DEF GateInv
<1> QED
  BY <1>3, <1>4 DEF Decide

\* Nothing is left to do where it accepts.
LEMMA CoverKeeps == ASSUME GateInv, Cover PROVE GateInv'
<1>0. gateStage = "decide" /\ gateTodo = <<>> /\ Loaded /\ Attributable /\ Accounted /\ docs \in Migrations /\ exit = 9
  BY DEF GateInv, Cover
<1>1. UNCHANGED <<docs, gateTodo, gateDecided>> /\ gateStage' = "done"
  BY DEF Cover, Fail
<1>2. Loaded' = Loaded /\ Attributable' = Attributable /\ Identities' = Identities /\ Settled' = Settled
  BY <1>1, DocsStay, SettledStays
<1>3. Accounted'
  BY <1>0, <1>1, <1>2 DEF Accounted
<1>4. exit' = 0 => Represented
  BY DEF Cover, Fail, Represented
<1>5. Represented' = Represented
  BY <1>1, CoverStays
<1> QED
  BY <1>0, <1>1, <1>2, <1>3, <1>4, <1>5 DEF GateInv

\* Every step of the gate keeps the invariant.
LEMMA GateInductive == GateInv /\ [ReconcileNext]_fvars => GateInv'
<1> SUFFICES ASSUME GateInv, [ReconcileNext]_fvars PROVE GateInv'
  OBVIOUS
<1>1. CASE UNCHANGED fvars
  <2>1. UNCHANGED <<docs, gateStage, gateTodo, gateDecided, exit>>
    BY <1>1 DEF fvars
  <2>2. Loaded' = Loaded /\ Attributable' = Attributable /\ Identities' = Identities /\ Settled' = Settled
    BY <2>1, DocsStay, SettledStays
  <2>3. Accounted' = Accounted
    BY <2>1, <2>2 DEF Accounted
  <2>4. Represented' = Represented
    BY <2>1, CoverStays
  <2> QED
    BY <2>1, <2>2, <2>3, <2>4 DEF GateInv
<1> QED
  BY <1>1, LoadKeeps, PairKeeps, DecideKeeps, CoverKeeps DEF ReconcileNext

\* So every state has it.
LEMMA GateInvariant == ReconcileSpec => []GateInv
BY GateInitial, GateInductive, PTL DEF ReconcileSpec

-------------------------------------------------------------------------------
\* A request is served by a path where it has the segments that are not captures.
Serves(x, p) == DOMAIN p = DOMAIN x /\ \A i \in DOMAIN x : x[i] \notin CaptureSegs => p[i] = x[i]

\* An interval tells its length.
LEMMA SameLength == ASSUME NEW m \in Nat, NEW n \in Nat, 1..m = 1..n PROVE m = n
<1>1. (m = 0 \/ m \in 1..n) /\ (n = 0 \/ n \in 1..m)
  <2>1. (m = 0 \/ m \in 1..m) /\ (n = 0 \/ n \in 1..n)
    BY ONLY m \in Nat, n \in Nat
  <2> QED
    BY <2>1
<1> QED
  BY ONLY m \in Nat, n \in Nat, <1>1

\* Two paths that serve one request overlap.
LEMMA ServedByBoth ==
  ASSUME NEW S, NEW T, NEW x \in Seq(S), NEW y \in Seq(T), NEW p, Serves(x, p), Serves(y, p)
  PROVE  route_patterns_overlap(x, y)
<1>1. Len(x) = Len(y) /\ DOMAIN x = DOMAIN y
  <2>1. DOMAIN x = DOMAIN y
    BY DEF Serves
  <2>2. Len(x) \in Nat /\ Len(y) \in Nat /\ DOMAIN x = 1..Len(x) /\ DOMAIN y = 1..Len(y)
    OBVIOUS
  <2> QED
    BY <2>1, <2>2, SameLength
<1> QED
  BY <1>1 DEF Serves, route_patterns_overlap

\* Paths of one shape serve the same requests.
LEMMA OneShape ==
  ASSUME NEW x \in Canonical, NEW y \in Canonical, Shape(x) = Shape(y), NEW p, Serves(x, p)
  PROVE  Serves(y, p)
<1>1. DOMAIN x = DOMAIN y
  <2>1. DOMAIN Shape(x) = DOMAIN x /\ DOMAIN Shape(y) = DOMAIN y
    BY DEF Shape
  <2> QED
    BY <2>1
<1>2. ASSUME NEW i \in DOMAIN y, y[i] \notin CaptureSegs
      PROVE  x[i] \notin CaptureSegs /\ x[i] = y[i]
  <2>1. Shape(x)[i] = IF x[i] \in CaptureSegs THEN "{}" ELSE x[i]
    BY <1>1, <1>2 DEF Shape
  <2>2. Shape(y)[i] = y[i]
    BY <1>2 DEF Shape
  <2>3. y[i] \in CaptureSegs \cup Words
    BY <1>2 DEF Canonical
  <2> QED
    BY <2>1, <2>2, <2>3, ReconcileConstants
<1> QED
  BY <1>1, <1>2 DEF Serves

\* What a path serves.
LEMMA ConcreteServed == ASSUME NEW x, NEW p \in Concrete(x) PROVE Serves(x, p)
BY DEF Concrete, Serves

\* The shape of a path without captures is the path.
LEMMA ServesItsShape == ASSUME NEW x PROVE Serves(x, Shape(x))
BY DEF Serves, Shape

\* What custom_operation has looked at.
Free(op) ==
  /\ op.path \in Seq(CaptureSegs \cup Uncanonical \cup Words) \ {<<>>}
  /\ \A p \in docs.contract.prefixes : ~path_matches_reserved_prefix(op.path, p)
  /\ \A i \in DOMAIN docs.contract.reserved :
       docs.contract.reserved[i].method = op.verb => ~route_patterns_overlap(docs.contract.reserved[i].path, op.path)
  /\ \A o \in docs.contract.operations : o.verb = op.verb => ~route_patterns_overlap(o.path, op.path)

\* Only custom_operation makes a custom operation.
LEMMA CustomIsFree ==
  ASSUME docs \in Migrations, NEW route, NEW d, Operation(route, d).id = "custom"
  PROVE  Free(Operation(route, d))
<1> DEFINE op == Operation(route, d)
           rows == {r \in Converted(route) : r.endpoint.id # "none"}
           ops == {endpoint_operation(row.endpoint, d.access) : row \in rows}
           named == {o \in docs.contract.operations : o.id = d.operation}
<1>0. /\ \A o \in docs.contract.operations \cup docs.contract.builtins : o.id # "custom"
      /\ \A row \in docs.handoff :
           row.endpoint.id # "none" => row.endpoint.path \in Seq(CaptureSegs \cup Uncanonical \cup Words) \ {<<>>}
  BY ReconcileConstants DEF ContractFormed, RoutesFormed
<1>1. op # BadOp /\ op # NoOp
  BY DEF BadOp, NoOp
<1>2. op \in ops \/ \E o \in named : op = Selected(o)
  BY <1>1 DEF Operation
<1>3. ASSUME NEW o \in named PROVE op # Selected(o)
  BY <1>0 DEF Selected
<1>4. PICK row \in rows : op = endpoint_operation(row.endpoint, d.access)
  BY <1>2, <1>3
<1> DEFINE e == row.endpoint
<1>5. op = custom_operation(e, d.access)
  <2>1. ASSUME NEW o \in docs.contract.operations PROVE op # Selected(o)
    BY <1>0 DEF Selected
  <2>2. op # builtin_operation(e, d.access)
    <3> DEFINE fits == {b \in docs.contract.builtins :
                 /\ b.id = e.id /\ b.verb = e.verb /\ Len(b.path) = Len(e.path)
                 /\ \A i \in DOMAIN b.path : IF b.path[i] \in CaptureSegs THEN e.path[i] \in auth_collections
                                             ELSE b.path[i] = e.path[i]}
               b == CHOOSE b \in fits : TRUE
    <3>1. builtin_operation(e, d.access) = BadOp \/ (fits # {} /\ builtin_operation(e, d.access).id = b.id)
      BY DEF builtin_operation
    <3>2. fits # {} => b \in docs.contract.builtins
      OBVIOUS
    <3> HIDE DEF fits, b
    <3> QED
      BY <1>0, <1>1, <3>1, <3>2
  <2> QED
    BY <1>1, <1>4, <2>1, <2>2 DEF endpoint_operation
<1>6. e.path \in Seq(CaptureSegs \cup Uncanonical \cup Words) \ {<<>>}
  BY <1>0 DEF Converted, HandoffRows
<1> HIDE DEF e
<1> QED
  BY <1>1, <1>5, <1>6 DEF custom_operation, Free

\* What an entry of an accepted map is.
LEMMA EntryIs ==
  ASSUME GateInv, Accepted, NEW r \in Routes
  PROVE  /\ r \in Settled /\ r.route \in Identities
         /\ r.op = Operation(r.route, r.d) /\ r.op # BadOp
         /\ RouteOutcome(r.route, r.d, r.op) = 0 /\ EvidenceFits(r.route, r.d, r.op)
<1>1. r \in Settled
  BY DEF GateInv, Accepted, Accounted, Routes
<1>2. r.route \in Identities /\ r.op = Operation(r.route, r.d) /\ RouteOutcome(r.route, r.d, r.op) = 0
  BY <1>1 DEF Settled
<1> QED
  BY <1>1, <1>2 DEF RouteOutcome

\* A custom endpoint that is accepted overlaps nothing the engine serves.
LEMMA NothingShadowed == ASSUME GateInv PROVE NoShadow
<1> SUFFICES ASSUME Accepted, NEW r \in Routes, r.op.id = "custom", NEW p \in Concrete(r.op.path)
    PROVE  /\ \A o \in docs.contract.operations \cup docs.contract.builtins :
                o.verb = r.op.verb => p \notin Concrete(o.path)
           /\ r.op.verb \in {"GET", "HEAD"} => p # docs.contract.feature
           /\ docs.contract.admin => p[1] # "_"
  BY DEF NoShadow
<1> DEFINE c == docs.contract
           Seen == Seq(CaptureSegs \cup Uncanonical \cup Words)
<1>1. docs \in Migrations /\ load_operations(c) /\ ContractFormed(c)
  BY ReconcileConstants DEF GateInv, Accepted, Loaded
<1>2. Free(r.op)
  BY <1>1, EntryIs, CustomIsFree
<1>3. r.op.path \in Seen \ {<<>>} /\ Serves(r.op.path, p)
  BY <1>2, ConcreteServed DEF Free
<1>4. ASSUME NEW i \in DOMAIN c.reserved, c.reserved[i].method = r.op.verb
      PROVE  c.reserved[i].path \in Canonical /\ ~Serves(c.reserved[i].path, p)
  <2>1. c.reserved[i].path \in Canonical /\ ~route_patterns_overlap(c.reserved[i].path, r.op.path)
    BY <1>1, <1>2, <1>4 DEF ContractFormed, Free
  <2> QED
    BY <1>3, <2>1, ServedByBoth DEF Canonical
<1>5. ASSUME NEW o \in c.operations, o.verb = r.op.verb PROVE p \notin Concrete(o.path)
  <2>1. o.path \in Canonical /\ ~route_patterns_overlap(o.path, r.op.path)
    BY <1>1, <1>2, <1>5 DEF ContractFormed, Free
  <2> QED
    BY <1>3, <2>1, ServedByBoth, ConcreteServed DEF Canonical
<1>6. ASSUME NEW b \in c.builtins, b.verb = r.op.verb PROVE p \notin Concrete(b.path)
  <2>1. <<b.verb, Shape(b.path)>> \in Shapes(c) /\ b.path \in Canonical
    BY <1>1 DEF load_operations, BuiltinsReserved, ContractFormed
  <2>2. PICK i \in DOMAIN c.reserved : c.reserved[i].method = b.verb /\ Shape(c.reserved[i].path) = Shape(b.path)
    BY <2>1 DEF Shapes
  <2>3. c.reserved[i].path \in Canonical /\ ~Serves(c.reserved[i].path, p)
    BY <1>4, <1>6, <2>2
  <2> QED
    BY <2>1, <2>2, <2>3, OneShape, ConcreteServed
<1>7. ASSUME r.op.verb \in {"GET", "HEAD"}, p = c.feature PROVE FALSE
  <2>1. c.feature # <<>>
    BY <1>3, <1>7 DEF Serves
  <2>2. <<r.op.verb, c.feature>> \in Shapes(c)
    BY <1>1, <1>7, <2>1 DEF load_operations, FeatureReserved
  <2>3. PICK i \in DOMAIN c.reserved : c.reserved[i].method = r.op.verb /\ Shape(c.reserved[i].path) = c.feature
    BY <2>2 DEF Shapes
  <2> QED
    BY <1>4, <1>7, <2>3, ServesItsShape
<1>8. ASSUME c.admin PROVE p[1] # "_"
  <2>1. <<"_">> \in c.prefixes
    BY <1>1, <1>8 DEF load_operations, PrefixesMatchGates
  <2>2. ~path_matches_reserved_prefix(r.op.path, <<"_">>)
    BY <1>2, <2>1 DEF Free
  <2>3. Len(r.op.path) >= 1 /\ 1 \in DOMAIN r.op.path
    BY <1>3
  <2>4. r.op.path[1] \notin CaptureSegs /\ r.op.path[1] # "_"
    <3> DEFINE admin == <<"_">>
    <3>1. Len(admin) = 1 /\ DOMAIN admin = {1} /\ admin[1] = "_"
      OBVIOUS
    <3> HIDE DEF admin
    <3>2. ~path_matches_reserved_prefix(r.op.path, admin)
      BY <2>2 DEF admin
    <3> QED
      BY <2>3, <3>1, <3>2 DEF path_matches_reserved_prefix
  <2> QED
    BY <1>3, <2>3, <2>4 DEF Serves
<1> QED
  BY <1>5, <1>6, <1>7, <1>8

\* An operation that was selected has an access the engine knows.
LEMMA AccessKnown ==
  ASSUME docs \in Migrations, NEW route, NEW d, Operation(route, d) # BadOp, Operation(route, d) # NoOp
  PROVE  Operation(route, d).access \in KNOWN_ENDPOINT_ACCESS
<1> DEFINE op == Operation(route, d)
           rows == {r \in Converted(route) : r.endpoint.id # "none"}
           ops == {endpoint_operation(row.endpoint, d.access) : row \in rows}
           named == {o \in docs.contract.operations : o.id = d.operation}
<1>0. \A o \in docs.contract.operations \cup docs.contract.builtins : o.access \in KNOWN_ENDPOINT_ACCESS
  BY ReconcileConstants DEF ContractFormed
<1>1. \A o \in docs.contract.operations : Selected(o).access \in KNOWN_ENDPOINT_ACCESS
  BY <1>0 DEF Selected
<1>2. op \in ops \/ \E o \in named : op = Selected(o)
  BY DEF Operation
<1>3. ASSUME NEW e, endpoint_operation(e, d.access) # BadOp
      PROVE  endpoint_operation(e, d.access).access \in KNOWN_ENDPOINT_ACCESS
  <2>1. custom_operation(e, d.access) = BadOp \/ custom_operation(e, d.access).access \in KNOWN_ENDPOINT_ACCESS
    BY DEF custom_operation
  <2>2. builtin_operation(e, d.access) = BadOp \/ builtin_operation(e, d.access).access \in KNOWN_ENDPOINT_ACCESS
    <3> DEFINE fits == {b \in docs.contract.builtins :
                 /\ b.id = e.id /\ b.verb = e.verb /\ Len(b.path) = Len(e.path)
                 /\ \A i \in DOMAIN b.path : IF b.path[i] \in CaptureSegs THEN e.path[i] \in auth_collections
                                             ELSE b.path[i] = e.path[i]}
               b == CHOOSE b \in fits : TRUE
    <3>1. builtin_operation(e, d.access) = BadOp \/ (fits # {} /\ builtin_operation(e, d.access).access = b.access)
      BY DEF builtin_operation
    <3>2. fits # {} => b \in docs.contract.builtins
      OBVIOUS
    <3> HIDE DEF fits, b
    <3> QED
      BY <1>0, <3>1, <3>2
  <2>3. \/ endpoint_operation(e, d.access) \in {BadOp, custom_operation(e, d.access), builtin_operation(e, d.access)}
        \/ \E o \in docs.contract.operations : endpoint_operation(e, d.access) = Selected(o)
    BY DEF endpoint_operation
  <2> QED
    BY <1>1, <1>3, <2>1, <2>2, <2>3
<1>4. CASE op \in ops
  <2>1. PICK row \in rows : op = endpoint_operation(row.endpoint, d.access)
    BY <1>4
  <2> QED
    BY <1>3, <2>1
<1> QED
  BY <1>1, <1>2, <1>4

\* Evidence that was accepted shows its control on the operation of its route.
LEMMA EvidenceShows ==
  ASSUME docs \in Migrations, NEW r, NEW e \in r.d.parity, e.kind \in {"backend", "browser"},
         EvidenceFits(r.route, r.d, r.op), r.op # NoOp, Control(e) \in {"allowed", "denied"}
  PROVE  Shown(r, Control(e))
<1>0. EvidenceFormed(docs)
  BY ReconcileConstants
<1>1. CASE e.kind = "backend"
  <2>1. BackendFits(e, r.route, r.op)
    BY <1>1 DEF EvidenceFits
  <2>2. PICK c \in docs.replay.capture :
          c.id = e.id /\ c.method = r.op.verb /\ path_matches_template(r.op.path, c.path, TRUE)
    BY <2>1 DEF BackendFits
  <2>3. Control(e) = c.control
    BY <1>0, <1>1, <2>2 DEF Control, EvidenceFormed
  <2> QED
    BY <1>1, <2>2, <2>3 DEF Shown, Reaches
<1>2. CASE e.kind = "browser"
  <2>1. BrowserFits(e, r.route, r.op)
    BY <1>2 DEF EvidenceFits
  <2>2. PICK b \in docs.browser :
          /\ b.id = e.id
          /\ b.operation # "none" => path_matches_template(r.op.path, b.url, FALSE)
          /\ b.method # "none" => b.method = r.op.verb
          /\ b.kind \in {"signup", "signin"} => path_matches_template(r.op.path, b.url, FALSE)
    BY <2>1 DEF BrowserFits
  <2>3. Control(e) = BROWSER_CONTROLS[b.kind]
    BY <1>0, <1>2, <2>2 DEF Control, EvidenceFormed
  <2>4. b.kind \in {"signup", "signin", "submit_allowed", "submit_denied"}
    BY <1>0, <2>3 DEF BROWSER_CONTROLS, EvidenceFormed
  <2>5. path_matches_template(r.op.path, b.url, FALSE)
    BY <1>0, <2>2, <2>4 DEF EvidenceFormed
  <2>6. path_matches_template(r.op.path, b.url, TRUE)
    BY <2>5 DEF path_matches_template
  <2> QED
    BY <1>2, <2>2, <2>3, <2>6 DEF Shown, Reaches
<1> QED
  BY <1>1, <1>2

\* The decisions of a route of the application are those it was given.
LEMMA EvidenceKinds ==
  ASSUME GateInv, Accepted, NEW r \in Routes
  PROVE  \A e \in r.d.parity : e.kind \in {"backend", "browser"}
<1>1. docs \in Migrations /\ r \in Settled
  BY EntryIs DEF GateInv
<1>2. r.d \in Answers
  BY <1>1 DEF Settled
<1>3. PICK q \in Identities : r.d \in Decisions[q.name]
  BY <1>2 DEF Answers
<1>4. q.name \in DOMAIN Decisions
  BY <1>1, ReconcileConstants DEF RoutesFormed, Identities, Presented
<1> QED
  BY <1>3, <1>4, ReconcileConstants

\* A protected mutation was seen to be allowed and to be refused.
LEMMA ProvenBothWays == ASSUME GateInv PROVE MutationsProven
<1> SUFFICES ASSUME Accepted, NEW r \in Routes, r.d.disposition = "migrated", r.op # NoOp,
                    r.op.verb \in MUTATING_VERBS, r.op.access # "public"
    PROVE  Shown(r, "allowed") /\ Shown(r, "denied") /\ \A f \in docs.replay.findings : f.result = "pass"
  BY DEF MutationsProven
<1>1. docs \in Migrations /\ ReplayPassed
  BY DEF GateInv, Accepted, Loaded
<1>2. /\ r.op = Operation(r.route, r.d) /\ r.op # BadOp
      /\ RouteOutcome(r.route, r.d, r.op) = 0 /\ EvidenceFits(r.route, r.d, r.op)
  BY EntryIs
<1>3. r.op.access \in KNOWN_ENDPOINT_ACCESS
  BY <1>1, <1>2, AccessKnown
<1>4. Protected(r.route, r.op)
  BY <1>3 DEF Protected, KNOWN_ENDPOINT_ACCESS
<1>5. MigrationProven(r.route, r.d, r.op)
  BY <1>2 DEF RouteOutcome
<1>6. {"allowed", "denied"} \subseteq {Control(e) : e \in r.d.parity}
  BY <1>4, <1>5 DEF MigrationProven
<1>7. ASSUME NEW control \in {"allowed", "denied"} PROVE Shown(r, control)
  <2>1. PICK e \in r.d.parity : Control(e) = control
    BY <1>6
  <2> QED
    BY <1>1, <1>2, <2>1, EvidenceKinds, EvidenceShows
<1> QED
  BY <1>1, <1>7 DEF ReplayPassed

\* Every route has its entry.
LEMMA EveryRoute == ASSUME GateInv, Accepted PROVE {r.route : r \in Routes} = Identities
<1>1. Identities = {gateDecided[i].route : i \in DOMAIN gateDecided} \cup {gateTodo[i] : i \in DOMAIN gateTodo}
  BY DEF GateInv, Accepted, Accounted
<1>2. {gateTodo[i] : i \in DOMAIN gateTodo} = {}
  BY DEF GateInv, Accepted
<1> QED
  BY <1>1, <1>2 DEF Routes

\* The id of a page is that of its one declaration.
LEMMA PageId ==
  ASSUME docs \in Migrations, NEW i \in DOMAIN docs.presentation
  PROVE  PresentationId(docs.presentation[i].route) = docs.presentation[i].id
<1> DEFINE route == docs.presentation[i].route
           ids == {docs.presentation[j].id : j \in {k \in DOMAIN docs.presentation : docs.presentation[k].route = route}}
<1>1. ids = {docs.presentation[i].id}
  BY ReconcileConstants DEF RoutesFormed
<1>2. PresentationId(route) = IF ids = {} THEN "none" ELSE CHOOSE id \in ids : TRUE
  BY DEF PresentationId
<1> HIDE DEF ids, route
<1> QED
  BY <1>1, <1>2 DEF route

\* And a route that has one is a page.
LEMMA PageOf ==
  ASSUME NEW route, PresentationId(route) # "none"
  PROVE  \E i \in DOMAIN docs.presentation :
           docs.presentation[i].route = route /\ docs.presentation[i].id = PresentationId(route)
<1> DEFINE ids == {docs.presentation[j].id : j \in {k \in DOMAIN docs.presentation : docs.presentation[k].route = route}}
<1>1. PresentationId(route) = IF ids = {} THEN "none" ELSE CHOOSE id \in ids : TRUE
  BY DEF PresentationId
<1>2. PresentationId(route) \in ids
  <2> HIDE DEF ids
  <2> QED
    BY <1>1
<1> QED
  BY <1>2

\* A route that was blocked names blockers of its own, every question among them.
LEMMA BlockedIs ==
  ASSUME GateInv, Accepted, NEW r \in Routes
  PROVE  /\ r.d.blockers # {} => r.d.disposition = "blocked"
         /\ r.d.disposition = "blocked" => BlockedOutcome(r.route, r.d) = 0
         /\ StatusAgrees(r.route, r.d)
<1>1. RouteOutcome(r.route, r.d, r.op) = 0
  BY EntryIs
<1> QED
  BY <1>1 DEF RouteOutcome

\* No route, no blocker and no finding is lost.
LEMMA NothingLost == ASSUME GateInv PROVE BlockersVisible
<1> SUFFICES ASSUME Accepted PROVE BlockersVisible
  BY DEF BlockersVisible
<1>1. {r.route : r \in Routes} = Presented \cup docs.backend
  BY EveryRoute DEF Identities
<1>2. ASSUME NEW b \in docs.blockers
      PROVE  \E r \in Routes :
               /\ r.d.disposition = "blocked" /\ \E x \in r.d.blockers : x.code = b.code
               /\ b.route # "none" =>
                    \E i \in DOMAIN docs.presentation :
                      docs.presentation[i].id = b.route /\ docs.presentation[i].route = r.route
  <2>1. PICK i \in DOMAIN gateDecided : Covers(b, gateDecided[i])
    BY <1>2 DEF GateInv, Accepted, Represented
  <2>2. PICK r \in Routes : Covers(b, r)
    BY <2>1 DEF Routes
  <2>3. b.route # "none" => b.route = PresentationId(r.route)
    BY <2>2 DEF Covers
  <2> QED
    BY <2>2, <2>3, PageOf DEF Covers
<1>3. ASSUME NEW r \in Routes, NEW x \in r.d.blockers
      PROVE  /\ r.d.disposition = "blocked"
             /\ \A f \in docs.findings :
                  f.id = x /\ x.n # 0 /\ f.route # "none" => f.route = PresentationId(r.route)
  <2>1. r.d.disposition = "blocked" /\ BlockedOutcome(r.route, r.d) = 0
    BY <1>3, BlockedIs
  <2>2. x \in DirectCodes(PresentationId(r.route)) \/ Own(r.route, x)
    BY <1>3, <2>1 DEF BlockedOutcome
  <2>3. CASE x \in DirectCodes(PresentationId(r.route))
    BY <2>1, <2>3 DEF DirectCodes
  <2>4. CASE Own(r.route, x)
    BY <2>1, <2>4 DEF Own
  <2> QED
    BY <2>2, <2>3, <2>4
<1> QED
  BY <1>1, <1>2, <1>3 DEF BlockersVisible

\* Every row of the handoff is answered by the entry of its page.
LEMMA HandoffAnswered == ASSUME GateInv PROVE HandoffKept
<1> SUFFICES ASSUME Accepted, NEW row \in docs.handoff
    PROVE  \E r \in Routes :
             /\ PresentationId(r.route) = row.id
             /\ row.status = "blocked" <=> r.d.disposition = "blocked"
             /\ row.status \in {"migrated", "backend"} => r.d.disposition = "migrated"
             /\ r.d.disposition = "blocked" => row.decisions \subseteq r.d.blockers
  BY DEF HandoffKept
<1>1. docs \in Migrations /\ Attributable
  BY DEF GateInv, Accepted
<1>2. PICK i \in DOMAIN docs.presentation : docs.presentation[i].id = row.id
  BY <1>1 DEF Attributable
<1>3. docs.presentation[i].route \in Identities
  BY DEF Identities, Presented
<1>4. PICK r \in Routes : r.route = docs.presentation[i].route
  BY <1>3, EveryRoute
<1>5. PresentationId(r.route) = row.id /\ row \in Converted(r.route)
  BY <1>1, <1>2, <1>4, PageId DEF Converted, HandoffRows
<1>6. row.status \in DOMAIN EXPECTED_DISPOSITIONS
  <2>1. row.status # "open"
    BY <1>1 DEF Attributable
  <2> QED
    BY <1>1, <2>1, ReconcileConstants DEF RoutesFormed
<1>7. r.d.disposition \in EXPECTED_DISPOSITIONS[row.status]
  BY <1>5, BlockedIs DEF StatusAgrees
<1>8. /\ row.status = "blocked" <=> r.d.disposition = "blocked"
      /\ row.status \in {"migrated", "backend"} => r.d.disposition = "migrated"
  BY <1>6, <1>7 DEF EXPECTED_DISPOSITIONS
<1>9. r.d.disposition = "blocked" => row.decisions \subseteq r.d.blockers
  <2> SUFFICES ASSUME r.d.disposition = "blocked" PROVE row.decisions \subseteq r.d.blockers
    OBVIOUS
  <2>1. RowDecisions(r.route) \subseteq r.d.blockers
    BY BlockedIs DEF BlockedOutcome
  <2> QED
    BY <1>5, <2>1 DEF RowDecisions
<1> QED
  BY <1>5, <1>8, <1>9

\* Exit 0 of the coordinator: nothing is shadowed, unproven or left open, whatever
\* the artifacts and the decisions.
THEOREM CompletionIsProven == ReconcileSpec => []CompletionProven
<1>1. GateInv => CompletionProven
  BY NothingShadowed, ProvenBothWays, NothingLost, HandoffAnswered DEF CompletionProven
<1> QED
  BY <1>1, GateInvariant, PTL

-------------------------------------------------------------------------------
\* Every decision answers a finding, with one of the artifacts there are for it.
Answered(s, d) ==
  \A id \in DOMAIN d : \E f \in collect_findings(s) :
    f.id = id /\ d[id].choice \in f.choices /\ d[id].artifact \in Artifacts(id, d[id].choice)

PbInv ==
  /\ export \in Exports /\ Answered(export, decided)
  /\ Made => reconciled(export, decided) /\ bundle = extract(export, decided)

\* The invariant holds at first.
LEMMA PbInitial == PbInit => PbInv
BY DEF PbInit, PbInv, Answered, Made, NoBundle

\* A decision more answers one finding more.
LEMMA PbDecideKeeps == ASSUME PbInv, PbDecide PROVE PbInv'
<1>0. export \in Exports /\ Answered(export, decided)
  BY DEF PbInv
<1>1. export' = export /\ bundle' = NoBundle
  BY DEF PbDecide
<1>2. PICK f \in collect_findings(export) :
        \E choice \in f.choices : \E a \in Artifacts(f.id, choice) :
          decided' = [id \in DOMAIN decided \cup {f.id} |->
                        IF id = f.id THEN [choice |-> choice, artifact |-> a] ELSE decided[id]]
  BY Zenon DEF PbDecide
<1>5. PICK choice \in f.choices :
        \E a \in Artifacts(f.id, choice) :
          decided' = [id \in DOMAIN decided \cup {f.id} |->
                        IF id = f.id THEN [choice |-> choice, artifact |-> a] ELSE decided[id]]
  BY <1>2
<1>6. PICK a \in Artifacts(f.id, choice) :
        decided' = [id \in DOMAIN decided \cup {f.id} |->
                      IF id = f.id THEN [choice |-> choice, artifact |-> a] ELSE decided[id]]
  BY <1>5
<1>3. Answered(export', decided')
  <2> SUFFICES ASSUME NEW id \in DOMAIN decided'
               PROVE  \E g \in collect_findings(export) :
                        /\ g.id = id /\ decided'[id].choice \in g.choices
                        /\ decided'[id].artifact \in Artifacts(id, decided'[id].choice)
    BY <1>1 DEF Answered
  <2>1. CASE id = f.id
    BY <1>6, <2>1
  <2>2. CASE id # f.id
    <3>1. id \in DOMAIN decided /\ decided'[id] = decided[id]
      BY <1>6, <2>2
    <3> QED
      BY <1>0, <3>1 DEF Answered
  <2> QED
    BY <2>1, <2>2
<1>4. ~Made'
  BY <1>1 DEF Made, NoBundle
<1> QED
  BY <1>0, <1>1, <1>3, <1>4 DEF PbInv

\* The extraction is of what was reconciled.
LEMMA PbExtractKeeps == ASSUME PbInv, PbExtract PROVE PbInv'
BY DEF PbInv, PbExtract

\* So every state has the invariant.
LEMMA PbInvariant == PbSpec => []PbInv
<1>1. PbInv /\ [PbNext]_pvars => PbInv'
  <2> SUFFICES ASSUME PbInv, [PbNext]_pvars PROVE PbInv'
    OBVIOUS
  <2>1. CASE UNCHANGED pvars
    BY <2>1 DEF pvars, PbInv, Made
  <2> QED
    BY <2>1, PbDecideKeeps, PbExtractKeeps DEF PbNext
<1> QED
  BY <1>1, PbInitial, PTL DEF PbSpec

-------------------------------------------------------------------------------
\* What a finding is about.
LEMMA FieldFound ==
  ASSUME NEW c, NEW f, NEW x \in field_findings(c, f)
  PROVE  /\ x.id[1] = "field" /\ x.id[2] = c.id /\ x.id[3] = f.id
         /\ "date" \in x.choices => f.type = "autodate"
<1> DEFINE id(suffix) == <<"field", c.id, f.id, suffix>>
<1>1. \A suffix : id(suffix)[1] = "field" /\ id(suffix)[2] = c.id /\ id(suffix)[3] = f.id
  OBVIOUS
<1> HIDE DEF id
<1>2. \/ \E suffix : x = ReplaceOrOmit(id(suffix))
      \/ x = Found(id("autodate"), {"date", "replacement", "omit"}, TRUE) /\ f.type = "autodate"
      \/ x = Found(id("geoPoint"), {"json", "omit"}, FALSE)
  BY DEF field_findings, When, id
<1> QED
  BY <1>1, <1>2 DEF ReplaceOrOmit, Found

\* Those of rules.
LEMMA RuleFound ==
  ASSUME NEW c, NEW x \in rule_findings(c)
  PROVE  \E k \in RuleKeys \cup {"manageRule"} :
           \/ /\ x.id = <<"rule", c.id, k, "public">> /\ c.rules[k] = "" /\ x.choices = {"public"}
           \/ /\ x.id = <<"rule", c.id, k, "replacement">>
              /\ \/ k = "manageRule"
                 \/ rule_requires_replacement(c.rules[k])
<1>1. PICK k \in RuleKeys \cup {"manageRule"} :
        x \in When(c.rules[k] = "", Found(<<"rule", c.id, k, "public">>, {"public"}, FALSE))
               \cup When(\/ k = "manageRule" /\ c.rules[k] # Null
                         \/ rule_requires_replacement(c.rules[k]), Replace(<<"rule", c.id, k, "replacement">>))
  BY DEF rule_findings
<1>2. CASE x \in When(c.rules[k] = "", Found(<<"rule", c.id, k, "public">>, {"public"}, FALSE))
  <2>1. c.rules[k] = "" /\ x = Found(<<"rule", c.id, k, "public">>, {"public"}, FALSE)
    BY <1>2 DEF When
  <2>2. x.id = <<"rule", c.id, k, "public">> /\ x.choices = {"public"}
    BY <2>1 DEF Found
  <2> QED
    BY <2>1, <2>2
<1>3. CASE x \in When(\/ k = "manageRule" /\ c.rules[k] # Null
                    \/ rule_requires_replacement(c.rules[k]), Replace(<<"rule", c.id, k, "replacement">>))
  <2>1. /\ x = Replace(<<"rule", c.id, k, "replacement">>)
        /\ \/ k = "manageRule"
           \/ rule_requires_replacement(c.rules[k])
    BY <1>3 DEF When
  <2>2. x.id = <<"rule", c.id, k, "replacement">>
    BY <2>1 DEF Replace, Found
  <2> QED
    BY <2>1, <2>2
<1> QED
  BY <1>1, <1>2, <1>3

\* Those of indexes.
LEMMA IndexFound ==
  ASSUME NEW c, NEW x \in index_findings(c)
  PROVE  \E i \in c.indexes : ~i.own /\ ~i.simple /\ x.id = <<"index", c.id, i.name, "replacement">>
BY DEF index_findings, ReplaceOrOmit, Found

\* Those of the settings of an auth collection.
LEMMA AuthFound ==
  ASSUME NEW c, NEW x \in auth_findings(c)
  PROVE  \/ \E a \in {"authConfig", "emailVisibility"} : x.id = <<"collection", c.id, a>>
         \/ \E a : x.id = <<"collection", c.id, a, "replacement">>
BY DEF auth_findings, When, Found, Replace

\* What a finding is about is the first part of its id.
LEMMA FirstPart ==
  ASSUME NEW x, NEW b
  PROVE  /\ <<"collection", b.id, "system">>[1] = "collection"
         /\ x = ReplaceOrOmit(<<"collection", b.id, "identifier">>) => x.id[1] = "collection"
         /\ x = Found(<<"collection", b.id, "view">>, {"replacement", "materialize"}, TRUE)
              => x.id[1] = "collection"
         /\ x \in auth_findings(b) => x.id[1] = "collection"
         /\ x \in rule_findings(b) => x.id[1] = "rule"
         /\ x \in index_findings(b) => x.id[1] = "index"
         /\ \A f : x \in field_findings(b, f) => x.id[1] = "field"
<1>1. /\ <<"collection", b.id, "system">>[1] = "collection"
      /\ <<"collection", b.id, "identifier">>[1] = "collection"
      /\ <<"collection", b.id, "view">>[1] = "collection"
  OBVIOUS
<1>2. /\ x = ReplaceOrOmit(<<"collection", b.id, "identifier">>) => x.id[1] = "collection"
      /\ x = Found(<<"collection", b.id, "view">>, {"replacement", "materialize"}, TRUE)
           => x.id[1] = "collection"
  BY <1>1 DEF ReplaceOrOmit, Found
<1>3. x \in auth_findings(b) => x.id[1] = "collection"
  BY AuthFound
<1>4. x \in rule_findings(b) => x.id[1] = "rule"
  <2> SUFFICES ASSUME x \in rule_findings(b) PROVE x.id[1] = "rule"
    OBVIOUS
  <2>1. PICK k \in RuleKeys \cup {"manageRule"} :
          x.id = <<"rule", b.id, k, "public">> \/ x.id = <<"rule", b.id, k, "replacement">>
    BY RuleFound, Zenon
  <2> QED
    BY <2>1
<1>5. x \in index_findings(b) => x.id[1] = "index"
  BY IndexFound
<1>6. \A f : x \in field_findings(b, f) => x.id[1] = "field"
  BY FieldFound
<1> QED
  BY <1>1, <1>2, <1>3, <1>4, <1>5, <1>6

\* Three parts are not four.
LEMMA Shorter == \A a, b, c, p, q, r, t : <<a, b, c>> # <<p, q, r, t>>
<1> SUFFICES ASSUME NEW a, NEW b, NEW c, NEW p, NEW q, NEW r, NEW t, <<a, b, c>> = <<p, q, r, t>>
             PROVE  FALSE
  OBVIOUS
<1>1. Len(<<a, b, c>>) = 3 /\ Len(<<p, q, r, t>>) = 4
  OBVIOUS
<1> QED
  BY <1>1

\* A finding is of the export, of a collection, or of one of its fields, rules and indexes.
LEMMA Kinds ==
  ASSUME NEW s, NEW x \in collect_findings(s)
  PROVE  \/ x.id[1] = "source"
         \/ \E c \in s.collections : c.system /\ x.id = <<"collection", c.id, "system">> /\ x.choices = {"omit"}
         \/ \E c \in s.collections :
              /\ ~c.system
              /\ \/ x = ReplaceOrOmit(<<"collection", c.id, "identifier">>)
                 \/ x = Found(<<"collection", c.id, "view">>, {"replacement", "materialize"}, TRUE)
                 \/ x \in auth_findings(c)
                 \/ \E f \in c.fields : x \in field_findings(c, f)
                 \/ x \in rule_findings(c)
                 \/ x \in index_findings(c)
<1>1. CASE \E c \in s.collections : x \in collection_findings(c)
  <2>1. PICK c \in s.collections : x \in collection_findings(c)
    BY <1>1
  <2>2. CASE c.system
    BY <2>1, <2>2 DEF collection_findings, Found
  <2>3. CASE ~c.system
    <3>1. x \in When(c.name \notin Identifiers, ReplaceOrOmit(<<"collection", c.id, "identifier">>))
               \cup When(c.kind = "view", Found(<<"collection", c.id, "view">>, {"replacement", "materialize"}, TRUE))
               \cup (IF c.kind = "auth" THEN auth_findings(c) ELSE {})
               \cup (UNION {field_findings(c, f) : f \in c.fields})
               \cup rule_findings(c) \cup index_findings(c)
      BY <2>1, <2>3 DEF collection_findings
    <3>2. x \in When(c.name \notin Identifiers, ReplaceOrOmit(<<"collection", c.id, "identifier">>))
             => x = ReplaceOrOmit(<<"collection", c.id, "identifier">>)
      BY DEF When
    <3>3. x \in When(c.kind = "view", Found(<<"collection", c.id, "view">>, {"replacement", "materialize"}, TRUE))
             => x = Found(<<"collection", c.id, "view">>, {"replacement", "materialize"}, TRUE)
      BY DEF When
    <3>4. x \in (IF c.kind = "auth" THEN auth_findings(c) ELSE {}) => x \in auth_findings(c)
      OBVIOUS
    <3> QED
      <4>1. CASE x \in UNION {field_findings(c, f) : f \in c.fields}
        BY <2>1, <2>3, <4>1
      <4>2. CASE x \notin UNION {field_findings(c, f) : f \in c.fields}
        <5>1. \/ x = ReplaceOrOmit(<<"collection", c.id, "identifier">>)
              \/ x = Found(<<"collection", c.id, "view">>, {"replacement", "materialize"}, TRUE)
              \/ x \in auth_findings(c)
              \/ x \in rule_findings(c)
              \/ x \in index_findings(c)
          BY <3>1, <3>2, <3>3, <3>4, <4>2, Zenon
        <5> QED
          BY <2>1, <2>3, <5>1, Zenon
      <4> QED
        BY <4>1, <4>2
  <2> QED
    BY <2>1, <2>2, <2>3
<1>2. CASE ~\E c \in s.collections : x \in collection_findings(c)
  <2>1. \/ x = Found(<<"source", "file_storage", "confirmation">>, {"local-snapshot", "materialized-s3"}, FALSE)
        \/ x = Replace(<<"source", "pb_hooks", "replacement">>)
        \/ x = Replace(<<"source", "custom_go", "replacement">>)
    <3>1. x \in When(has_files(s),
              Found(<<"source", "file_storage", "confirmation">>, {"local-snapshot", "materialized-s3"}, FALSE))
            \cup When(s.hooks, Replace(<<"source", "pb_hooks", "replacement">>))
            \cup When(s.go, Replace(<<"source", "custom_go", "replacement">>))
      <4>1. x \notin UNION {collection_findings(c) : c \in s.collections}
        BY <1>2
      <4> QED
        BY <4>1, Zenon DEF collect_findings
    <3> QED
      BY <3>1 DEF When
  <2> QED
    BY <2>1 DEF Found, Replace
<1> QED
  BY <1>1, <1>2

-------------------------------------------------------------------------------
\* What extract is sure of when it makes a bundle.
Converts(s, d) ==
  /\ ExportFormed(s) /\ Answered(s, d) /\ reconciled(s, d) /\ ~unreadable(s, d) /\ schema_valid(s, d)
  /\ \A c \in kept(s, d) : \A r \in c.rows : ~bad_row(s, d, c, r)
  /\ ~unstageable(s, d)

\* And what the bundle has then.
LEMMA Extracted ==
  ASSUME PbInv, Made
  PROVE  /\ Converts(export, decided)
         /\ bundle.schema = {map_collection(export, decided, c) : c \in kept(export, decided)}
         /\ bundle.rows = [n \in {TargetName(decided, c) : c \in kept(export, decided)} |->
                             LET c == CHOOSE b \in kept(export, decided) : TargetName(decided, b) = n
                             IN {write_row(export, decided, c, r) : r \in c.rows}]
         /\ bundle.staged = all_references(export, decided)
         /\ bundle.unreferenced = export.storage \ {a.from : a \in all_references(export, decided)}
<1> DEFINE bad == \/ unreadable(export, decided)
                  \/ ~schema_valid(export, decided)
                  \/ \E c \in kept(export, decided) : \E r \in c.rows : bad_row(export, decided, c, r)
                  \/ unstageable(export, decided)
           schema == {map_collection(export, decided, c) : c \in kept(export, decided)}
           rows == [n \in {TargetName(decided, c) : c \in kept(export, decided)} |->
                             LET c == CHOOSE b \in kept(export, decided) : TargetName(decided, b) = n
                             IN {write_row(export, decided, c, r) : r \in c.rows}]
           staged == all_references(export, decided)
           rest == export.storage \ {a.from : a \in all_references(export, decided)}
<1>1. bundle = IF bad THEN [made |-> FALSE]
               ELSE [made |-> TRUE, schema |-> schema, rows |-> rows, staged |-> staged, unreferenced |-> rest]
  BY Zenon DEF PbInv, extract
<1>2. ExportFormed(export) /\ Answered(export, decided) /\ reconciled(export, decided) /\ bundle.made
  BY PbConstants DEF PbInv, Made
<1>3. ~bad => Converts(export, decided)
  BY <1>2 DEF Converts
<1> SUFFICES Converts(export, decided) /\ bundle.schema = schema /\ bundle.rows = rows /\ bundle.staged = staged
             /\ bundle.unreferenced = rest
  OBVIOUS
<1> HIDE DEF bad, schema, rows, staged, rest
<1>4. ~bad
  BY <1>1, <1>2
<1> QED
  BY <1>1, <1>3, <1>4

\* The findings of a field are what is decided of it.
LEMMA FieldAnswered ==
  ASSUME NEW s, NEW d, ExportFormed(s), Answered(s, d), NEW c \in s.collections, NEW f \in c.fields,
         NEW id \in related(d, c, f)
  PROVE  \E x \in field_findings(c, f) :
           x.id = id /\ d[id].choice \in x.choices /\ d[id].artifact \in Artifacts(id, d[id].choice)
<1>1. id \in DOMAIN d /\ id[1] = "field" /\ id[2] = c.id /\ id[3] = f.id
  BY DEF related
<1>2. PICK x \in collect_findings(s) :
        x.id = id /\ d[id].choice \in x.choices /\ d[id].artifact \in Artifacts(id, d[id].choice)
  BY <1>1 DEF Answered
<1>3. PICK b \in s.collections : \E g \in b.fields : x \in field_findings(b, g)
  BY <1>1, <1>2, FirstPart, Kinds
<1>4. PICK g \in b.fields : x \in field_findings(b, g)
  BY <1>3
<1>5. c = b
  BY <1>1, <1>2, <1>4, FieldFound DEF ExportFormed
<1>6. f = g
  BY <1>1, <1>2, <1>4, <1>5, FieldFound DEF ExportFormed
<1> QED
  BY <1>2, <1>4, <1>5, <1>6

\* And those of an index, one that is not simple.
LEMMA IndexAnswered ==
  ASSUME NEW s, NEW d, ExportFormed(s), Answered(s, d), NEW c \in s.collections,
         NEW id \in DOMAIN d, id[1] = "index", id[2] = c.id
  PROVE  \E i \in c.indexes : ~i.simple /\ id[3] = i.name
<1>2. PICK x \in collect_findings(s) : x.id = id
  BY DEF Answered
<1>3. PICK b \in s.collections : x \in index_findings(b)
  BY <1>2, FirstPart, Kinds
<1>4. PICK i \in b.indexes : ~i.simple /\ x.id = <<"index", b.id, i.name, "replacement">>
  BY <1>3, IndexFound
<1>5. id[2] = b.id /\ id[3] = i.name
  BY <1>2, <1>4
<1>6. c = b
  BY <1>5 DEF ExportFormed
<1> QED
  BY <1>4, <1>5, <1>6

\* A replacement of a rule is decided where ZigBase reads the rule otherwise.
LEMMA RuleAnswered ==
  ASSUME NEW s, NEW d, ExportFormed(s), Answered(s, d), NEW c \in s.collections, NEW k \in RuleKeys,
         <<"rule", c.id, k, "replacement">> \in DOMAIN d
  PROVE  c.rules[k] \notin Portable \cup {Null, ""}
<1> DEFINE id == <<"rule", c.id, k, "replacement">>
<1>1. id[1] = "rule" /\ id[2] = c.id /\ id[3] = k /\ id[4] = "replacement"
  OBVIOUS
<1>2. PICK x \in collect_findings(s) : x.id = id
  BY DEF Answered
<1> HIDE DEF id
<1>3. PICK b \in s.collections : x \in rule_findings(b)
  BY <1>1, <1>2, FirstPart, Kinds
<1>4. PICK j \in RuleKeys \cup {"manageRule"} :
        \/ x.id = <<"rule", b.id, j, "public">>
        \/ /\ x.id = <<"rule", b.id, j, "replacement">>
           /\ j = "manageRule" \/ rule_requires_replacement(b.rules[j])
  BY <1>3, RuleFound, Zenon
<1>5. \A n, a : <<"rule", n, a, "public">>[4] = "public"
  OBVIOUS
<1>6. /\ x.id = <<"rule", b.id, j, "replacement">>
      /\ j = "manageRule" \/ rule_requires_replacement(b.rules[j])
  BY <1>1, <1>2, <1>4, <1>5
<1>7. b.id = c.id /\ j = k
  BY <1>1, <1>2, <1>6
<1>8. b = c /\ k # "manageRule"
  BY <1>7 DEF ExportFormed, RuleKeys
<1> QED
  BY <1>6, <1>7, <1>8 DEF rule_requires_replacement

-------------------------------------------------------------------------------
\* Artifacts of fields are replacements of fields.
LEMMA FieldArtifact ==
  ASSUME NEW id, id[1] = "field", NEW choice, NEW a \in Artifacts(id, choice)
  PROVE  a.value \in NewFields \cup {Unusable}
<1>1. Values(id) = NewFields
  BY DEF Values
<1>2. NoValue(id) = Unusable
  BY DEF NoValue
<1> HIDE DEF Values, NoValue, Unusable
<1>3. \/ \E i : a = Artifact(i, NoValue(id))
      \/ \E v \in Values(id) : a = Artifact("good", v)
  BY DEF Artifacts
<1> QED
  BY <1>1, <1>2, <1>3 DEF Artifact

\* What becomes of a field: nothing that cannot be used, nothing at all if that was
\* decided, its replacement if it has one, a date, or what it was.
LEMMA FieldMapped ==
  ASSUME NEW s, NEW d, Converts(s, d), NEW c \in kept(s, d), NEW f \in c.fields, mappable(f)
  PROVE  LET g == map_field(s, d, c, f)
             omits == \E id \in related(d, c, f) : d[id].choice = "omit"
         IN /\ g # Unusable
            /\ omits => g = Gone
            /\ ~omits => \A id \in related(d, c, f) :
                 d[id].choice = "replacement" => g = d[id].artifact.value /\ g # Gone
            /\ \/ g = Gone
               \/ g \in NewFields /\ \E id \in related(d, c, f) : d[id].artifact.value = g
               \/ g = Field(f.name, "date", NoName, f.required) /\ f.type = "autodate"
               \/ g = as_it_is(s, f)
<1> DEFINE omitted == chosen(d, related(d, c, f), "omit")
           read == {id \in chosen(d, related(d, c, f), "replacement") :
                      \A o \in omitted : Place[id[4]] < Place[o[4]]}
           values == {d[id].artifact.value : id \in read}
           some == CHOOSE r \in values : TRUE
           dated == chosen(d, related(d, c, f), "date")
           g == map_field(s, d, c, f)
<1>1. c \in s.collections /\ ~left_out(d, c)
  BY DEF kept
<1>2. g = IF Unusable \in values THEN Unusable
          ELSE IF omitted # {} THEN Gone
          ELSE IF values # {} THEN IF \E v, w \in values : v # w THEN Unusable ELSE some
          ELSE IF dated # {} THEN Field(f.name, "date", NoName, f.required)
          ELSE as_it_is(s, f)
  BY Zenon DEF map_field
<1>3. Unusable # Gone
  BY DEF Unusable, Gone, Field
<1>4. g # Unusable
  <2>1. Unusable \notin map_fields(s, d, c)
    BY <1>1 DEF Converts, unreadable
  <2> QED
    BY <1>3, <2>1 DEF map_fields
<1>5. \A id \in related(d, c, f) : d[id].artifact.value \in NewFields \cup {Unusable}
  BY <1>1, FieldAnswered, FieldArtifact DEF Converts, related
<1>6. (\E id \in related(d, c, f) : d[id].choice = "omit") <=> omitted # {}
  BY DEF chosen
<1>7. omitted = {} => \A id \in related(d, c, f) : d[id].choice = "replacement" => d[id].artifact.value \in values
  BY DEF chosen
<1>8. \A v \in values : \E id \in related(d, c, f) : d[id].artifact.value = v
  BY DEF chosen
<1>9. dated # {} => f.type = "autodate"
  <2> SUFFICES ASSUME NEW id \in related(d, c, f), d[id].choice = "date" PROVE f.type = "autodate"
    BY DEF chosen
  <2>1. PICK x \in field_findings(c, f) : d[id].choice \in x.choices
    BY <1>1, FieldAnswered DEF Converts
  <2> QED
    BY <2>1, FieldFound
<1>10. values # {} => some \in values
  OBVIOUS
<1>11. \A r \in NewFields : r # Gone
  BY PbConstants DEF Gone, Field
<1> HIDE DEF omitted, values, some, dated, g
<1>12. omitted # {} => g = Gone
  BY <1>2, <1>4
<1>13. omitted = {} /\ values # {} => g = some /\ \A v \in values : v = some
  BY <1>2, <1>4, <1>10
<1>14. values # {} /\ omitted = {} => g \in NewFields /\ g # Gone /\ \E id \in related(d, c, f) : d[id].artifact.value = g
  BY <1>4, <1>5, <1>8, <1>10, <1>11, <1>13
<1>15. omitted = {} => \A id \in related(d, c, f) :
         d[id].choice = "replacement" => g = d[id].artifact.value /\ g # Gone
  BY <1>7, <1>13, <1>14
<1>16. \/ g = Gone
       \/ g \in NewFields /\ \E id \in related(d, c, f) : d[id].artifact.value = g
       \/ g = Field(f.name, "date", NoName, f.required) /\ f.type = "autodate"
       \/ g = as_it_is(s, f)
  <2>1. CASE omitted = {} /\ values = {}
    BY <1>2, <1>4, <1>9, <2>1, Zenon
  <2> QED
    BY <1>12, <1>14, <2>1
<1> QED
  BY <1>4, <1>6, <1>12, <1>15, <1>16 DEF g

-------------------------------------------------------------------------------
\* What a value is converted to.
LEMMA ValueConverted ==
  ASSUME NEW f, NEW value, convert_value(f, value) # Refusal
  PROVE  LET v == convert_value(f, value)
         IN \/ v = Nil /\ (value = Nil \/ empty_choice(f, value))
            \/ /\ value # Nil /\ ~empty_choice(f, value)
               /\ \/ f.type = "bool" /\ v = V("bool", value.v)
                  \/ f.type = "number" /\ v = value /\ value.k \in {"int", "real"}
                  \/ f.type \in {"json", "geoPoint"} /\ v = V("json", value.v)
                  \/ f.type \in {"select", "relation", "file"} /\ value.k = "list" /\ v = value
                  \/ /\ f.type \in DirectFieldTypes \ {"bool", "number", "json"}
                     /\ v = value /\ value.k = "text"
                     /\ f.type \in {"select", "relation"} => ~f.many
<1> DEFINE v == convert_value(f, value)
<1>1. CASE value = Nil \/ empty_choice(f, value)
  <2>1. v = Nil
    BY <1>1 DEF convert_value
  <2> QED
    BY <1>1, <2>1
<1>2. CASE ~(value = Nil \/ empty_choice(f, value))
  <2>0. v = CASE f.type = "bool" -> IF value \in {V("int", <<"0">>), V("int", <<"1">>)} THEN V("bool", value.v) ELSE Refusal
         [] f.type = "number" -> IF value.k \in {"int", "real"} THEN value ELSE Refusal
         [] f.type \in {"json", "geoPoint"} -> IF value.k = "text" THEN V("json", value.v) ELSE Refusal
         [] f.type \in {"select", "relation", "file"} /\ f.many ->
              IF value.k = "list" THEN value ELSE Refusal
         [] f.type \notin DirectFieldTypes \cup {"geoPoint"} -> Refusal
         [] OTHER -> IF value.k = "text" THEN value ELSE Refusal
    BY <1>2 DEF convert_value
  <2> HIDE DEF v
  <2>1. v # Refusal
    BY DEF v
  <2> SUFFICES \/ f.type = "bool" /\ v = V("bool", value.v)
               \/ f.type = "number" /\ v = value /\ value.k \in {"int", "real"}
               \/ f.type \in {"json", "geoPoint"} /\ v = V("json", value.v)
               \/ f.type \in {"select", "relation", "file"} /\ value.k = "list" /\ v = value
               \/ /\ f.type \in DirectFieldTypes \ {"bool", "number", "json"}
                  /\ v = value /\ value.k = "text"
                  /\ f.type \in {"select", "relation"} => ~f.many
    BY <1>2 DEF v
  <2> QED
    BY <2>0, <2>1 DEF DirectFieldTypes
<1> QED
  BY <1>1, <1>2

\* A value is of the type its field has in the target, and not lost on the way.
LEMMA ValueLoads ==
  ASSUME NEW s, NEW f, NEW g, NEW value, convert_value(f, value) # Refusal,
         \/ g = Field(f.name, "date", NoName, f.required) /\ f.type = "autodate"
         \/ g = as_it_is(s, f)
  PROVE  \/ f.required /\ value \in Nothing
         \/ /\ convert_value(f, value) = Nil \/ Typed(g, convert_value(f, value))
            /\ g.required => convert_value(f, value) \notin Nothing
<1> DEFINE v == convert_value(f, value)
<1>1. g.required = f.required
  BY DEF Field, as_it_is
<1>2. \/ g.type = "date" /\ f.type = "autodate"
      \/ g.type = "json" /\ f.type = "geoPoint"
      \/ g.type = f.type /\ f.type # "geoPoint"
  BY DEF Field, as_it_is
<1>3. Nil.k = "null" /\ V("text", <<"">>).k = "text" /\ V("list", <<>>).k = "list"
  BY DEF Nil, V
<1>4. \A x \in Nothing : x.k \in {"null", "text", "list"}
  BY <1>3 DEF Nothing
<1>5. V("bool", value.v).k = "bool" /\ V("json", value.v).k = "json"
  BY DEF V
<1>6. Nil \in Nothing /\ V("text", <<"">>) \in Nothing
  BY DEF Nothing
<1>7. empty_choice(f, value) => ~f.required
  BY DEF empty_choice
<1>8. \/ v = Nil /\ (value = Nil \/ empty_choice(f, value))
      \/ /\ value # Nil
         /\ \/ f.type = "bool" /\ v = V("bool", value.v)
            \/ f.type = "number" /\ v = value /\ value.k \in {"int", "real"}
            \/ f.type \in {"json", "geoPoint"} /\ v = V("json", value.v)
            \/ f.type \in {"select", "relation", "file"} /\ value.k = "list" /\ v = value
            \/ /\ f.type \in DirectFieldTypes \ {"bool", "number", "json"}
               /\ v = value /\ value.k = "text"
               /\ f.type \in {"select", "relation"} => ~f.many
         /\ ~empty_choice(f, value)
  BY ValueConverted
<1>9. f.type \in {"select", "relation"} /\ ~empty_choice(f, value) /\ value = V("text", <<"">>) /\ ~f.required
        => f.many
  BY DEF empty_choice
<1> HIDE DEF v
<1>10. v = Nil \/ Typed(g, v) \/ (f.required /\ value \in Nothing)
  <2>1. CASE v = Nil
    BY <2>1
  <2>2. CASE g.type = "bool"
    BY <1>2, <1>5, <1>8, <2>2 DEF Typed
  <2>3. CASE g.type = "number"
    BY <1>2, <1>8, <2>3 DEF Typed
  <2>4. CASE g.type \in {"json", "file"}
    BY <2>4 DEF Typed
  <2>5. CASE g.type \in {"select", "relation"}
    BY <1>2, <1>3, <1>6, <1>8, <1>9, <2>5 DEF Typed
  <2>6. CASE v # Nil /\ g.type \notin {"bool", "number", "json", "file", "select", "relation"}
    <3>1. v.k = "text"
      BY <1>2, <1>8, <2>6
    <3> QED
      BY <2>6, <3>1 DEF Typed
  <2> QED
    BY <2>1, <2>2, <2>3, <2>4, <2>5, <2>6
<1>11. f.required /\ v \in Nothing => value \in Nothing
  BY <1>4, <1>5, <1>6, <1>7, <1>8
<1> QED
  BY <1>1, <1>10, <1>11 DEF v

-------------------------------------------------------------------------------
\* A collection has the name it is given.
LEMMA Named ==
  ASSUME NEW s, NEW d, NEW c
  PROVE  map_collection(s, d, c).name = TargetName(d, c)
BY DEF map_collection, TargetName

\* What is in the bundle of a collection that is translated.
LEMMA OfCollection ==
  ASSUME PbInv, Made, NEW c \in export.collections, Translated(c)
  PROVE  /\ c \in kept(export, decided)
         /\ TargetName(decided, c) = c.name
         /\ SchemaOf(c).fields = map_fields(export, decided, c)
         /\ SchemaOf(c).indexes = map_indexes(decided, c)
         /\ SchemaOf(c).rules = [k \in RuleKeys |-> map_rule(decided, c, k)]
         /\ bundle.rows[c.name] = {write_row(export, decided, c, r) : r \in c.rows}
<1>1. c \in kept(export, decided) /\ ~replaced_whole(decided, c)
  BY DEF Translated, Left, kept
<1>2. TargetName(decided, c) = c.name
  BY <1>1 DEF TargetName
<1>3. \A b \in kept(export, decided) : TargetName(decided, b) = c.name => b = c
  BY <1>1, <1>2, Extracted DEF Converts, schema_valid
<1>4. SchemaOf(c) = map_collection(export, decided, c)
  <2>1. bundle.schema = {map_collection(export, decided, b) : b \in kept(export, decided)}
    BY Extracted
  <2>2. map_collection(export, decided, c) \in bundle.schema /\ map_collection(export, decided, c).name = c.name
    BY <1>1, <1>2, <2>1, Named
  <2>3. \A m \in bundle.schema : m.name = c.name => m = map_collection(export, decided, c)
    BY <1>3, <2>1, Named
  <2> QED
    BY <2>2, <2>3 DEF SchemaOf
<1>5. bundle.rows[c.name] = {write_row(export, decided, c, r) : r \in c.rows}
  <2>1. (CHOOSE b \in kept(export, decided) : TargetName(decided, b) = c.name) = c
    BY <1>1, <1>2, <1>3
  <2>2. c.name \in {TargetName(decided, b) : b \in kept(export, decided)}
    BY <1>1, <1>2
  <2>3. bundle.rows = [n \in {TargetName(decided, b) : b \in kept(export, decided)} |->
                             LET b == CHOOSE a \in kept(export, decided) : TargetName(decided, a) = n
                             IN {write_row(export, decided, b, r) : r \in b.rows}]
    BY Extracted
  <2>4. bundle.rows[c.name] =
          LET b == CHOOSE a \in kept(export, decided) : TargetName(decided, a) = c.name
          IN {write_row(export, decided, b, r) : r \in b.rows}
    BY <2>2, <2>3, Zenon
  <2> QED
    BY <2>1, <2>4
<1>6. /\ map_collection(export, decided, c).fields = map_fields(export, decided, c)
      /\ map_collection(export, decided, c).indexes = map_indexes(decided, c)
      /\ map_collection(export, decided, c).rules = [k \in RuleKeys |-> map_rule(decided, c, k)]
  BY <1>1 DEF map_collection
<1> QED
  BY <1>1, <1>2, <1>4, <1>5, <1>6

\* Relations and indexes are of what is left.
LEMMA SchemaLinked ==
  ASSUME PbInv, Made
  PROVE  /\ \A m, n \in bundle.schema : m.name = n.name => m = n
         /\ \A m \in bundle.schema :
              /\ \A f \in m.fields : f.type = "relation" => \E n \in bundle.schema : n.name = f.to
              /\ \A i \in m.indexes : \A x \in i.columns : \E f \in m.fields : f.name = x
<1> DEFINE s == export
           d == decided
<1>1. Converts(s, d) /\ bundle.schema = {map_collection(s, d, c) : c \in kept(s, d)}
  BY Extracted
<1> HIDE DEF s, d
<1>2. \A m, n \in bundle.schema : m.name = n.name => m = n
  BY <1>1, Named DEF Converts, schema_valid
<1>3. ASSUME NEW m \in bundle.schema
      PROVE  /\ \A f \in m.fields : f.type = "relation" => \E n \in bundle.schema : n.name = f.to
             /\ \A i \in m.indexes : \A x \in i.columns : \E f \in m.fields : f.name = x
  <2>1. PICK c \in kept(s, d) : m = map_collection(s, d, c)
    BY <1>1
  <2>2. valid_collection(s, d, c)
    BY <1>1 DEF Converts, schema_valid
  <2>3. /\ \A f \in m.fields : f.type = "relation" => linked(s, d, f.to)
        /\ \A i \in m.indexes : i.columns \subseteq {f.name : f \in m.fields}
    BY <2>1, <2>2, Zenon DEF valid_collection
  <2>4. \A to : linked(s, d, to) => \E n \in bundle.schema : n.name = to
    BY <1>1, Named DEF linked
  <2> QED
    BY <2>3, <2>4
<1> QED
  BY <1>2, <1>3

\* Every file a record names has been staged under that record.
LEMMA FilesStaged ==
  ASSUME NEW s, NEW d, Converts(s, d), NEW c \in kept(s, d), NEW r \in c.rows, NEW p \in pairs(s, d, c),
         p[1].type = "file", NEW n \in TextsOf(convert_value(p[1], r.vals[p[1].name]))
  PROVE  \E e \in all_references(s, d) :
           e.path = <<TargetName(d, c), r.id, n>> /\ e.from = <<c.id, r.id, n>>
<1> DEFINE e == [from |-> <<c.id, r.id, n>>, path |-> <<TargetName(d, c), r.id, n>>]
<1>1. e \in references(s, d, c)
  <2> DEFINE of(x, q) == {[from |-> <<c.id, x.id, m>>, path |-> <<TargetName(d, c), x.id, m>>] :
                            m \in TextsOf(convert_value(q[1], x.vals[q[1].name]))}
             row(x) == UNION {of(x, q) : q \in {y \in pairs(s, d, c) : y[1].type = "file"}}
  <2>1. e \in of(r, p)
    OBVIOUS
  <2>2. references(s, d, c) = UNION {row(x) : x \in c.rows}
    BY DEF references
  <2> HIDE DEF of, e
  <2>3. e \in row(r)
    BY <2>1
  <2> HIDE DEF row
  <2> QED
    BY <2>2, <2>3
<1>2. e \in all_references(s, d)
  BY <1>1 DEF all_references
<1> QED
  BY <1>2

\* A record's values are of declared fields, and load.
LEMMA RowLoads ==
  ASSUME PbInv, Made, NEW c \in export.collections, Translated(c), NEW row \in bundle.rows[c.name],
         NEW x \in row.vals
  PROVE  \E f \in SchemaOf(c).fields :
           f.name = x[1] /\ (f \in NewFields \/ Loads(c, row, f, x[2]) \/ NotGiven(c, row, x[1]))
<1>1. PICK r \in c.rows : row = write_row(export, decided, c, r)
  BY OfCollection
<1>2. row.id = r.id
  BY <1>1 DEF write_row
<1>3. PICK p \in pairs(export, decided, c) :
        x = <<p[2].name, convert_value(p[1], r.vals[p[1].name])>>
  BY <1>1 DEF write_row
<1>4. PICK f \in c.fields :
        mappable(f) /\ map_field(export, decided, c, f) # Gone /\ p = <<f, map_field(export, decided, c, f)>>
  BY DEF pairs
<1> DEFINE g == map_field(export, decided, c, f)
           raw == r.vals[f.name]
           value == convert_value(f, raw)
<1>5. x[1] = g.name /\ x[2] = value /\ p[1] = f /\ p[2] = g
  BY <1>3, <1>4
<1>6. g \in SchemaOf(c).fields
  BY <1>4, OfCollection DEF map_fields
<1>7. c \in kept(export, decided) /\ TargetName(decided, c) = c.name /\ Converts(export, decided)
  BY OfCollection, Extracted
<1>8. value # Refusal
  BY <1>4, <1>5, <1>7 DEF Converts, bad_row
<1>9. \/ g \in NewFields
      \/ g = Field(f.name, "date", NoName, f.required) /\ f.type = "autodate"
      \/ g = as_it_is(export, f)
  BY <1>4, <1>7, FieldMapped
<1>10. CASE g \in NewFields
  BY <1>5, <1>6, <1>10
<1>11. CASE \/ g = Field(f.name, "date", NoName, f.required) /\ f.type = "autodate"
            \/ g = as_it_is(export, f)
  <2>1. g.name = f.name
    BY <1>11 DEF Field, as_it_is
  <2>2. \/ f.required /\ raw \in Nothing
        \/ (value = Nil \/ Typed(g, value)) /\ (g.required => value \notin Nothing)
    BY <1>8, <1>11, ValueLoads
  <2>3. CASE f.required /\ raw \in Nothing
    <3>1. NotGiven(c, row, x[1])
      BY <1>2, <1>5, <2>1, <2>3 DEF NotGiven
    <3> QED
      BY <1>5, <1>6, <3>1
  <2>4. CASE (value = Nil \/ Typed(g, value)) /\ (g.required => value \notin Nothing)
    <3>1. ASSUME g.type = "file", NEW n \in TextsOf(value)
          PROVE  \E e \in bundle.staged : e.path = <<c.name, row.id, n>> /\ e.from = <<c.id, row.id, n>>
      <4>1. f.type = "file"
        BY <1>11, <3>1 DEF Field, as_it_is
      <4>2. bundle.staged = all_references(export, decided)
        BY Extracted
      <4> QED
        <5>1. p[1].type = "file" /\ n \in TextsOf(convert_value(p[1], r.vals[p[1].name]))
          BY <1>5, <3>1, <4>1
        <5>2. \E e \in all_references(export, decided) :
                e.path = <<TargetName(decided, c), r.id, n>> /\ e.from = <<c.id, r.id, n>>
          BY <1>7, <5>1, FilesStaged
        <5> QED
          BY <1>2, <1>7, <4>2, <5>2
    <3>2. Loads(c, row, g, value)
      BY <2>4, <3>1 DEF Loads
    <3> QED
      BY <1>5, <1>6, <3>2
  <2> QED
    BY <2>2, <2>3, <2>4
<1> QED
  BY <1>9, <1>10, <1>11

\* The files that are staged are of the storage, and the others are listed.
LEMMA FilesListed ==
  ASSUME PbInv, Made
  PROVE  {e.from : e \in bundle.staged} \cup bundle.unreferenced = export.storage
<1>1. \A e \in all_references(export, decided) : e.from \in export.storage
  BY Extracted DEF Converts, unstageable
<1> QED
  BY <1>1, Extracted

\* So a bundle loads.
LEMMA BundleLoaded == PbInv => BundleLoads
BY SchemaLinked, RowLoads, FilesListed DEF BundleLoads

-------------------------------------------------------------------------------
\* What is left out is not there, unless another collection was given its name.
LEMMA LeftOutHappens ==
  ASSUME PbInv, Made, NEW c \in export.collections, left_out(decided, c), c.name \in DOMAIN bundle.rows
  PROVE  \E b \in export.collections \ {c} :
           replaced_whole(decided, b) /\ decided[whole(decided, b)].artifact.value.name = c.name
<1>1. DOMAIN bundle.rows = {TargetName(decided, b) : b \in kept(export, decided)}
  <2>1. bundle.rows = [n \in {TargetName(decided, b) : b \in kept(export, decided)} |->
                             LET b == CHOOSE a \in kept(export, decided) : TargetName(decided, a) = n
                             IN {write_row(export, decided, b, r) : r \in b.rows}]
    BY Extracted
  <2> QED
    BY <2>1, Zenon
<1>2. PICK b \in kept(export, decided) : TargetName(decided, b) = c.name
  BY <1>1
<1>3. b \in export.collections \ {c}
  BY DEF kept
<1>4. replaced_whole(decided, b)
  <2>1. b.name # c.name
    BY <1>3, Extracted DEF Converts, ExportFormed
  <2> QED
    BY <1>2, <2>1 DEF TargetName
<1> QED
  BY <1>2, <1>3, <1>4 DEF TargetName

\* What is replaced as a whole is in the schema as its artifact has it.
LEMMA WholeHappens ==
  ASSUME PbInv, Made, NEW c \in export.collections, Left(c), replaced_whole(decided, c)
  PROVE  decided[whole(decided, c)].artifact.value \in bundle.schema
<1>1. c \in kept(export, decided)
  BY DEF Left, kept
<1>2. map_collection(export, decided, c) \in bundle.schema
  BY <1>1, Extracted
<1> QED
  BY <1>2 DEF map_collection

\* Indexes are replaced and left out as it was decided.
LEMMA IndexHappens ==
  ASSUME PbInv, Made, NEW id \in DOMAIN decided, NEW c \in export.collections,
         id[1] = "index", id[2] = c.id, Translated(c)
  PROVE  /\ decided[id].choice = "replacement" => decided[id].artifact.value \in SchemaOf(c).indexes
         /\ decided[id].choice = "omit" =>
              \A i \in SchemaOf(c).indexes : i.name = id[3] =>
                \E j \in DOMAIN decided \ {id} : decided[j].artifact.value = i
<1>1. SchemaOf(c).indexes = map_indexes(decided, c) /\ Converts(export, decided)
  BY OfCollection, Extracted
<1>2. decided[id].choice = "replacement" => decided[id].artifact.value \in map_indexes(decided, c)
  BY DEF map_indexes
<1>3. ASSUME decided[id].choice = "omit", NEW i \in map_indexes(decided, c), i.name = id[3]
      PROVE  \E j \in DOMAIN decided \ {id} : decided[j].artifact.value = i
  <2>1. PICK k \in c.indexes : ~k.simple /\ id[3] = k.name
    BY <1>1, IndexAnswered DEF Converts
  <2>2. \/ i \in {[name |-> j.name, columns |-> j.columns] : j \in {h \in c.indexes : ~h.own /\ h.simple}}
        \/ \E j \in DOMAIN decided : decided[j].choice = "replacement" /\ decided[j].artifact.value = i
    BY DEF map_indexes
  <2>3. i \notin {[name |-> j.name, columns |-> j.columns] : j \in {h \in c.indexes : ~h.own /\ h.simple}}
    BY <1>1, <1>3, <2>1 DEF Converts, ExportFormed
  <2> QED
    BY <1>3, <2>2, <2>3
<1> QED
  BY <1>1, <1>2, <1>3

\* And fields.
LEMMA FieldHappens ==
  ASSUME PbInv, Made, NEW id \in DOMAIN decided, NEW c \in export.collections,
         id[1] = "field", id[2] = c.id, Translated(c), NEW f \in c.fields, f.id = id[3], mappable(f)
  PROVE  IF \E j \in related(decided, c, f) : decided[j].choice = "omit"
         THEN \A g \in SchemaOf(c).fields : g.name = f.name =>
                \E h \in c.fields \ {f} : \E j \in related(decided, c, h) : decided[j].artifact.value = g
         ELSE decided[id].choice = "replacement" => decided[id].artifact.value \in SchemaOf(c).fields
<1>1. /\ SchemaOf(c).fields = map_fields(export, decided, c) /\ Converts(export, decided)
      /\ c \in kept(export, decided)
  BY OfCollection, Extracted
<1>2. CASE \E j \in related(decided, c, f) : decided[j].choice = "omit"
  <2>1. map_field(export, decided, c, f) = Gone
    BY <1>1, <1>2, FieldMapped
  <2>2. ASSUME NEW g \in map_fields(export, decided, c), g.name = f.name
        PROVE  \E h \in c.fields \ {f} : \E j \in related(decided, c, h) : decided[j].artifact.value = g
    <3>1. PICK h \in c.fields : mappable(h) /\ g = map_field(export, decided, c, h) /\ g # Gone
      BY DEF map_fields
    <3>2. h # f
      BY <2>1, <3>1
    <3>3. h.name # f.name
      BY <1>1, <3>2 DEF Converts, ExportFormed, kept
    <3>4. \/ \E j \in related(decided, c, h) : decided[j].artifact.value = g
          \/ g = Field(h.name, "date", NoName, h.required)
          \/ g = as_it_is(export, h)
      BY <1>1, <3>1, FieldMapped
    <3>5. g # Field(h.name, "date", NoName, h.required) /\ g # as_it_is(export, h)
      BY <2>2, <3>3 DEF Field, as_it_is
    <3> QED
      BY <3>2, <3>4, <3>5
  <2> QED
    BY <1>1, <1>2, <2>2
<1>3. CASE ~\E j \in related(decided, c, f) : decided[j].choice = "omit"
  <2>1. id \in related(decided, c, f)
    BY DEF related
  <2>2. decided[id].choice = "replacement" =>
          /\ map_field(export, decided, c, f) = decided[id].artifact.value
          /\ map_field(export, decided, c, f) # Gone
    BY <1>1, <1>3, <2>1, FieldMapped
  <2>3. decided[id].choice = "replacement" => decided[id].artifact.value \in map_fields(export, decided, c)
    BY <2>2 DEF map_fields
  <2> QED
    BY <1>1, <1>3, <2>3
<1> QED
  BY <1>2, <1>3

\* So what is decided happens.
LEMMA Happens == PbInv => DecisionsHappen
<1> SUFFICES ASSUME PbInv, Made PROVE DecisionsHappen
  BY DEF DecisionsHappen
<1> QED
  BY LeftOutHappens, WholeHappens, IndexHappens, FieldHappens DEF DecisionsHappen

\* A collection that is translated is none of PocketBase's own.
LEMMA NoSystem ==
  ASSUME NEW s, NEW d, reconciled(s, d), NEW c \in kept(s, d), ~replaced_whole(d, c)
  PROVE  ~c.system
<1> SUFFICES ASSUME c.system PROVE FALSE
  OBVIOUS
<1> DEFINE id == <<"collection", c.id, "system">>
           x == Found(id, {"omit"}, FALSE)
<1>1. x \in collect_findings(s)
  <2>1. x \in collection_findings(c)
    BY DEF collection_findings
  <2> QED
    BY <2>1 DEF collect_findings, kept
<1>2. id \in DOMAIN d /\ d[id].choice = "omit"
  <2>1. x.id = id /\ x.choices = {"omit"}
    BY DEF Found
  <2> HIDE DEF x, id
  <2> QED
    BY <1>1, <2>1 DEF reconciled
<1>3. whole(d, c) = id
  BY <1>2 DEF whole
<1>4. id # <<>>
  OBVIOUS
<1> QED
  BY <1>2, <1>3, <1>4 DEF kept, left_out

\* Its rules' findings have been decided.
LEMMA RuleFindings ==
  ASSUME NEW s, NEW d, reconciled(s, d), NEW c \in s.collections, ~c.system, NEW k \in RuleKeys
  PROVE  /\ c.rules[k] = "" => d[<<"rule", c.id, k, "public">>].choice = "public"
         /\ rule_requires_replacement(c.rules[k]) => <<"rule", c.id, k, "replacement">> \in DOMAIN d
<1> DEFINE public == Found(<<"rule", c.id, k, "public">>, {"public"}, FALSE)
           replace == Replace(<<"rule", c.id, k, "replacement">>)
<1>1. rule_findings(c) \subseteq collect_findings(s)
  <2>1. rule_findings(c) \subseteq collection_findings(c)
    BY DEF collection_findings
  <2> QED
    BY <2>1 DEF collect_findings
<1>2. /\ c.rules[k] = "" => public \in rule_findings(c)
      /\ rule_requires_replacement(c.rules[k]) => replace \in rule_findings(c)
  <2> HIDE DEF public, replace
  <2>1. When(c.rules[k] = "", public)
         \cup When(\/ k = "manageRule" /\ c.rules[k] # Null
                   \/ rule_requires_replacement(c.rules[k]), replace) \subseteq rule_findings(c)
    BY DEF rule_findings, public, replace
  <2>2. /\ c.rules[k] = "" => public \in When(c.rules[k] = "", public)
        /\ rule_requires_replacement(c.rules[k]) =>
             replace \in When(\/ k = "manageRule" /\ c.rules[k] # Null
                             \/ rule_requires_replacement(c.rules[k]), replace)
    BY DEF When
  <2> QED
    BY <2>1, <2>2
<1>3. /\ public.id = <<"rule", c.id, k, "public">> /\ public.choices = {"public"}
      /\ replace.id = <<"rule", c.id, k, "replacement">>
  BY DEF Found, Replace
<1> HIDE DEF public, replace
<1> QED
  BY <1>1, <1>2, <1>3 DEF reconciled

\* So no rule admits more than it did.
LEMMA RulesAreKept == PbInv => RulesKept
<1> SUFFICES ASSUME PbInv, Made, NEW c \in export.collections, Translated(c), NEW k \in RuleKeys
             PROVE  LET rule == SchemaOf(c).rules[k]
                        id(suffix) == <<"rule", c.id, k, suffix>>
                    IN \/ rule = c.rules[k] /\ rule \in Portable \cup {Null}
                       \/ rule = "@public" /\ c.rules[k] = "" /\ decided[id("public")].choice = "public"
                       \/ c.rules[k] \notin Portable \cup {Null, ""} /\ id("replacement") \in DOMAIN decided
  BY DEF RulesKept
<1> DEFINE id(suffix) == <<"rule", c.id, k, suffix>>
<1>1. Converts(export, decided) /\ c \in kept(export, decided) /\ SchemaOf(c).rules[k] = map_rule(decided, c, k)
  BY OfCollection, Extracted
<1>2. ~c.system
  BY <1>1, NoSystem DEF Converts, Translated
<1>3. c.rules[k] = "" => decided[id("public")].choice = "public"
  BY <1>1, <1>2, RuleFindings DEF Converts
<1>4. rule_requires_replacement(c.rules[k]) => id("replacement") \in DOMAIN decided
  BY <1>1, <1>2, RuleFindings DEF Converts
<1>5. id("replacement") \in DOMAIN decided => c.rules[k] \notin Portable \cup {Null, ""}
  BY <1>1, RuleAnswered DEF Converts
<1>6. /\ c.rules[k] = "" => map_rule(decided, c, k) = "@public"
      /\ c.rules[k] # "" /\ id("replacement") \notin DOMAIN decided => map_rule(decided, c, k) = c.rules[k]
  BY DEF map_rule
<1> HIDE DEF id
<1> SUFFICES \/ map_rule(decided, c, k) = c.rules[k] /\ map_rule(decided, c, k) \in Portable \cup {Null}
             \/ map_rule(decided, c, k) = "@public" /\ c.rules[k] = "" /\ decided[id("public")].choice = "public"
             \/ c.rules[k] \notin Portable \cup {Null, ""} /\ id("replacement") \in DOMAIN decided
  BY <1>1 DEF id
<1> QED
  BY <1>3, <1>4, <1>5, <1>6 DEF rule_requires_replacement

\* A bundle that pb2zb makes loads, has what was decided, and admits nobody it did not:
\* build_schema, build_records and _stage_referenced_files, for every export, whatever
\* is decided of it.
THEOREM ConversionIsFaithful == PbSpec => []PbConverted
<1>1. PbInv => PbConverted
  BY BundleLoaded, Happens, RulesAreKept DEF PbConverted
<1> QED
  BY <1>1, PbInvariant, PTL

==============================================================================
