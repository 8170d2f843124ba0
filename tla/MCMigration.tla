------------------------------ MODULE MCMigration ------------------------------
(* The migration tools, for TLC: one of them runs, on its own, while the variables
   of the others are idle. *)
EXTENDS BundleExtract, FileInstall, RailsDates, RailsRows, FullstackReconcile, PbMapping, RailsMapping

CONSTANTS
  RequestFiles, OldAnswers, NewAnswers, Variables, Volatile, MaxPasses, Bytes(_), MaxCapture

VARIABLES
  machine,                                    \* the tool that runs
  mode, cases, todo, old, new, results, capture, findings, replayTemp, exits    \* ReplayTool

Replay == INSTANCE ReplayTool WITH temp <- replayTemp

MCStarts == {-1, 0, 3, 99, 399, 1599, 1899, 1995, 1999, 2099, 9998}
MCOffsets == {-1439, -330, -1, 0, 60, 845, 1439}

MapInputs == INSTANCE MCRailsMapping
MCSources == MapInputs!MCSources
MCKey(n) == MapInputs!MCKey(n)
MCStem(n) == MapInputs!MCStem(n)
MCIsIdentifier(n) == MapInputs!MCIsIdentifier(n)
MCColumnType(c) == MapInputs!MCColumnType(c)
MCColumnOrder == MapInputs!MCColumnOrder

RowInputs == INSTANCE MCRailsRows
MCSnapshots == RowInputs!MCSnapshots
MCJson(t) == RowInputs!MCJson(t)
MCStrip(t) == RowInputs!MCStrip(t)
MCLower(t) == RowInputs!MCLower(t)
MCServable(w) == RowInputs!MCServable(w)
MCFolded(n) == RowInputs!MCFolded(n)

PbInputs == INSTANCE MCPbMapping
MCExports == PbInputs!MCExports
MCNewFields == PbInputs!MCNewFields

ReplayInputs == INSTANCE MCReplayTool
MCRequestFiles == ReplayInputs!MCRequestFiles
MCOldAnswers == ReplayInputs!MCOldAnswers
MCNewAnswers == ReplayInputs!MCNewAnswers
MCVariables == ReplayInputs!MCVariables
MCBytes(leaf) == ReplayInputs!MCBytes(leaf)

GateInputs == INSTANCE MCFullstack
MCMigrations == GateInputs!MCMigrations
MCDecisions == GateInputs!MCDecisions

replayVars == <<mode, cases, todo, old, new, results, capture, findings, replayTemp, exits>>
toolVars == <<dvars, mvars, rvars, pvars, replayVars, fvars, xvars, ivars>>

Machines == {"dates", "map", "rows", "pb", "replay", "gate", "extract", "install"}
MigrationInit ==
  /\ machine \in Machines
  /\ ExtractInit /\ InstallInit
  /\ IF machine = "dates" THEN DatesInit
     ELSE today = [year |-> 12000, month |-> 12, day |-> 1] /\ number = NumberOfDecember(12000) /\ walked = 0
  /\ IF machine = "map" THEN MappingInit ELSE app = 0 /\ decisions = <<>> /\ mapped = Undecided
  /\ IF machine = "rows" THEN RowsInit ELSE db = 0 /\ rowStage = 0 /\ rowAt = 0 /\ rowOut = NoExtract
  /\ IF machine = "pb" THEN PbInit ELSE export = 0 /\ decided = <<>> /\ bundle = NoBundle
  /\ IF machine = "replay" THEN Replay!Init
     ELSE /\ mode = 0 /\ cases = 0 /\ todo = 0 /\ old = 0 /\ new = 0 /\ results = 0
          /\ capture = 0 /\ findings = 0 /\ replayTemp = 0 /\ exits = 0
  /\ IF machine = "gate" THEN ReconcileInit
     ELSE docs = 0 /\ gateStage = 0 /\ gateTodo = 0 /\ gateDecided = 0 /\ exit = 9

RunDates ==
  /\ machine = "dates" /\ DatesNext
  /\ UNCHANGED <<machine, mvars, rvars, pvars, replayVars, fvars, xvars, ivars>>
RunMapping ==
  /\ machine = "map" /\ MappingNext
  /\ UNCHANGED <<machine, dvars, rvars, pvars, replayVars, fvars, xvars, ivars>>
RunRows ==
  /\ machine = "rows" /\ RowsNext
  /\ UNCHANGED <<machine, dvars, mvars, pvars, replayVars, fvars, xvars, ivars>>
RunPbConversion ==
  /\ machine = "pb" /\ PbNext
  /\ UNCHANGED <<machine, dvars, mvars, rvars, replayVars, fvars, xvars, ivars>>
RunReplay ==
  /\ machine = "replay" /\ Replay!Next
  /\ UNCHANGED <<machine, dvars, mvars, rvars, pvars, fvars, xvars, ivars>>
RunGate ==
  /\ machine = "gate" /\ ReconcileNext
  /\ UNCHANGED <<machine, dvars, mvars, rvars, pvars, replayVars, xvars, ivars>>
RunExtraction ==
  /\ machine = "extract" /\ ExtractNext
  /\ UNCHANGED <<machine, dvars, mvars, rvars, pvars, replayVars, fvars, ivars>>
RunInstall ==
  /\ machine = "install" /\ InstallNext
  /\ UNCHANGED <<machine, dvars, mvars, rvars, pvars, replayVars, fvars, xvars>>

MigrationNext ==
  \/ RunDates \/ RunMapping \/ RunRows \/ RunPbConversion
  \/ RunReplay \/ RunGate \/ RunExtraction \/ RunInstall

MigrationSpec == MigrationInit /\ [][MigrationNext]_<<machine, toolVars>>

-------------------------------------------------------------------------------
(* Exit 0 of zb_replay says that the new backend answers as the old one did; a
   backend that does gets it, and no artifact is half an artifact. *)
ParityHonest ==
  machine = "replay" =>
    Replay!ZeroMeansParity /\ Replay!SelfParity /\ Replay!RecordedLoads /\ Replay!ArtifactsWhole
================================================================================
