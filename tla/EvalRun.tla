------------------------------- MODULE EvalRun -------------------------------
(* evals/agents/run.py: execute() prepares a workspace, runs the agent command
   with run_process, grades what it left and removes the workspace; main()
   prints the result and copies it to a file.  The agent's processes, those that
   outlive run_process included, go on using the workspace.                   *)
EXTENDS ProcessRunner

CONSTANT Grades    \* completion, rules_locked, tests_green, deployed

VARIABLES
  phase,      \* where execute() and main() are
  workspace,  \* "own", "replaced" by the agent, or "gone"
  scratch,    \* is the HOME and TMPDIR in it the runner's or the agent's?
  passed,     \* grades of the report
  failures,   \* codes of EvalFailure
  exitCode,
  copy        \* the --out file: "none", "wanted" or "whole"

evars == <<phase, workspace, scratch, passed, failures, exitCode, copy>>
vars == <<rvars, evars>>

Codes == {"agent.interrupted", "agent.timeout", "agent.nonzero", "agent.output_limit",
          "harness.error", "harness.cleanup", "harness.output", "grader"}

Init ==
  /\ RunnerInit
  /\ phase = "prepare" /\ workspace = "own" /\ scratch = "runner"
  /\ passed = {} /\ failures = {} /\ exitCode = 0
  /\ copy \in {"none", "wanted"}

(* the except clause: an error of the harness is the whole report *)
Failed(code) ==
  /\ passed' = {} /\ failures' = {code} /\ exitCode' = 1
  /\ phase' = "cleanup"

(* everything before run_process: the command, the prompt, the fixture, the
   repository files, the skills and the environment are refused or in place *)
Prepare ==
  /\ phase = "prepare"
  /\ \/ phase' = "agent" /\ UNCHANGED <<passed, failures, exitCode>>
     \/ Failed("harness.error")
  /\ UNCHANGED <<rvars, workspace, scratch, copy>>

(* the agent's processes while they live; scratch is below the workspace *)
AgentUses ==
  /\ \E p \in Procs : Alive(p)
  /\ workspace # "gone"
  /\ \/ scratch' = "agent" /\ UNCHANGED workspace
     \/ workspace' = "replaced" /\ scratch' = "agent"
  /\ UNCHANGED <<rvars, phase, passed, failures, exitCode, copy>>

AgentRuns ==
  /\ phase = "agent"
  /\ RunnerNext
  /\ UNCHANGED evars

(* the agent's processes outlive run_process *)
AgentLingers ==
  /\ phase \notin {"prepare", "agent"}
  /\ \E p \in Procs : Exit(p)
  /\ UNCHANGED evars

(* Mutant: a cut transcript does not fail the run. *)
OutcomeIgnoringLimit(nonzero) ==
  IF cause = "interrupted" THEN "agent.interrupted"
  ELSE IF cause = "timed_out" THEN "agent.timeout"
  ELSE IF nonzero THEN "agent.nonzero" ELSE "none"

(* what the completed process means; a command that was signaled exits nonzero *)
Outcome(nonzero) ==
  IF cause = "interrupted" THEN "agent.interrupted"
  ELSE IF cause = "timed_out" THEN "agent.timeout"
  ELSE IF nonzero THEN "agent.nonzero"
  ELSE IF truncated THEN "agent.output_limit" ELSE "none"

(* require_directory_identity *)
SameDirectory == workspace = "own"

AgentDone ==
  /\ phase = "agent" /\ Returned
  /\ \/ ~SameDirectory /\ Failed("harness.error")
     \/ /\ SameDirectory
        /\ \E nonzero \in BOOLEAN :
             LET code == Outcome(nonzero)
             IN \/ code = "none" /\ phase' = "reset" /\ UNCHANGED <<passed, failures, exitCode>>
                \/ code # "none" /\ Failed(code)
  /\ UNCHANGED <<rvars, workspace, scratch, copy>>

(* run_process raised, and nothing in execute() catches what it raised (a
   KeyboardInterrupt, or the RuntimeError of a thread that cannot start): the
   finally removes the workspace and there is no result *)
AgentRaises ==
  /\ phase = "agent" /\ (pc = "raised" \/ (pc = "done" /\ cause = "failed"))
  /\ phase' = "crashed" /\ workspace' = "gone"
  /\ UNCHANGED <<rvars, scratch, passed, failures, exitCode, copy>>

(* Mutant: the grader inherits HOME and TMPDIR as the agent left them. *)
ResetKept == scratch

(* reset_grader_scratch empties both directories *)
Reset == "runner"

ResetScratch ==
  /\ phase = "reset"
  /\ \/ phase' = "grade" /\ scratch' = Reset /\ UNCHANGED <<passed, failures, exitCode>>
     \/ Failed("harness.error") /\ UNCHANGED scratch
  /\ UNCHANGED <<rvars, workspace, copy>>

(* the four grades alone decide: a grader may list failures beside them, as those
   that could not stop the server they started do after everything passed *)
Grade ==
  /\ phase = "grade"
  /\ \/ \E report \in SUBSET Grades, listed \in SUBSET {"grader"} :
          /\ passed' = report /\ failures' = listed
          /\ exitCode' = IF report = Grades THEN 0 ELSE 2
          /\ phase' = "cleanup"
     \/ Failed("harness.error")
  /\ UNCHANGED <<rvars, workspace, scratch, copy>>

(* cleanup_workspace: it removes the tree, or the link put in its place *)
Cleanup ==
  /\ phase = "cleanup"
  /\ phase' = "publish"
  /\ \/ workspace' = "gone" /\ UNCHANGED <<failures, exitCode>>
     \/ /\ failures' = failures \cup {"harness.cleanup"} /\ exitCode' = 1
        /\ UNCHANGED workspace
  /\ UNCHANGED <<rvars, scratch, passed, copy>>

(* _atomic_result_copy: a whole temporary file replaces the target, or nothing *)
Publish ==
  /\ phase = "publish"
  /\ phase' = "ended"
  /\ \/ copy = "none" /\ UNCHANGED <<copy, failures, exitCode>>
     \/ copy = "wanted" /\ copy' = "whole" /\ UNCHANGED <<failures, exitCode>>
     \/ /\ copy = "wanted" /\ failures' = failures \cup {"harness.output"}
        /\ exitCode' = 1 /\ UNCHANGED copy
  /\ UNCHANGED <<rvars, workspace, scratch, passed>>

HarnessStep == Prepare \/ AgentDone \/ AgentRaises \/ ResetScratch \/ Grade \/ Cleanup \/ Publish

Next == AgentRuns \/ AgentUses \/ AgentLingers \/ HarnessStep

Spec == Init /\ [][Next]_vars

(* The main thread and the pumps go on; waits run out.  Nothing obliges the
   command or a helper to exit, and a wait need not run out before they do. *)
Fairness ==
  /\ WF_vars(phase = "agent" /\ MainStep /\ UNCHANGED evars)
  /\ \A s \in Streams : WF_vars(phase = "agent" /\ PumpStep(s) /\ UNCHANGED evars)
  /\ WF_vars(HarnessStep)

FairSpec == Spec /\ Fairness

-------------------------------------------------------------------------------
(* Every variable keeps its type, those of ProcessRunner included. *)
TypeOK ==
  /\ proc \in [Procs -> {"none", "group", "detached", "gone"}]
  /\ pump \in [Streams -> {"off", "on", "eof"}]
  /\ pipe \in [Streams -> 0..MaxWrites] /\ chunk \in [Streams -> 0..MaxWrites]
  /\ got \in 0..MaxBytes /\ remaining \in 0..MaxBytes /\ truncated \in BOOLEAN
  /\ cause \in {"none", "timed_out", "interrupted", "failed"}
  /\ workspace \in {"own", "replaced", "gone"} /\ scratch \in {"runner", "agent"}
  /\ passed \subseteq Grades /\ failures \subseteq Codes /\ exitCode \in 0..2

(* Exit code 0 is given only to an agent that ended by itself, in time, with its
   whole transcript, in the workspace it was given, whose every grade passed,
   after which the workspace is gone and the wanted copy is in place.  The report
   then names no failure of the agent or of the harness; it may name a grader's own. *)
ZeroIsEarned ==
  phase = "ended" /\ exitCode = 0 =>
    /\ passed = Grades /\ failures \subseteq {"grader"}
    /\ cause = "none" /\ ~truncated
    /\ workspace = "gone" /\ copy # "wanted"

(* A grader never runs on the HOME and TMPDIR of the agent, nor in a directory
   the agent put in the workspace's place (reset_grader_scratch: "Discard
   agent-controlled HOME/TMPDIR contents before grader commands run"), where every
   helper holds a pipe: a quiet one outlives run_process and refills them. *)
GradesOwnScratch == phase = "grade" => scratch = "runner" /\ workspace = "own"

(* What a run is graded on is its own: the transcript is whole or says that it is
   not, and the graders run where the agent left nothing. *)
EvidenceHonest == TypeOK /\ TruncationHonest /\ GradesOwnScratch

===============================================================================
