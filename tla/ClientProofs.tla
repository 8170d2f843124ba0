----------------------------- MODULE ClientProofs ------------------------------
(* The Python processes.  Exit code 0 of an evaluation is earned, also where helpers
   of the agent outlive run_process; its transcript says whether it was cut; and the
   graders have the workspace to themselves where no helper outlives run_process.
   The request transport renews a refused token once, sends no request twice, and
   lets the latest call under a key win.  All for any processes, calls and bounds. *)
EXTENDS EvalRun, RequestTransport, TLAPS

-------------------------------------------------------------------------------
(* tools: an evaluation run and the process it runs *)

\* A run is graded only after its command ended by itself, with its whole transcript.
GradedWhole == phase \in {"reset", "grade"} => cause = "none" /\ ~truncated

\* From its report on, a run whose exit code is 0 has passed.
ZeroPassed ==
  phase \in {"cleanup", "publish", "ended"} /\ exitCode = 0 =>
    passed = Grades /\ failures \subseteq {"grader"} /\ cause = "none" /\ ~truncated

\* Its workspace was removed, and stays removed, before it is published.
ZeroCleaned ==
  /\ phase \in {"publish", "ended"} /\ exitCode = 0 => workspace = "gone"
  /\ phase = "ended" /\ exitCode = 0 => copy # "wanted"

\* run_process gives one of four causes.
CauseOK == cause \in {"none", "timed_out", "interrupted", "failed"}

EarnInv == CauseOK /\ GradedWhole /\ ZeroPassed /\ ZeroCleaned

\* Init establishes the invariant.
LEMMA EarnInit == Init => EarnInv
  BY DEF Init, RunnerInit, CauseOK, EarnInv, GradedWhole, ZeroPassed, ZeroCleaned

\* Every step of run_process gives one of them.
LEMMA CauseKept == ASSUME CauseOK, RunnerNext PROVE CauseOK'
<1>1. ASSUME MainStep PROVE CauseOK'
  BY <1>1
     DEF MainStep, Start, Deliver, WaitEnds, WaitTimesOut, TermEnds, TermTimesOut, Sweep,
         JoinEnds, JoinTimesOut, ClosePipes, Main, CauseOK
<1>2. ASSUME NEW s \in Streams, PumpStep(s) PROVE CauseOK'
  BY <1>2 DEF PumpStep, PumpRead, PumpClaim, PumpEof, CauseOK
<1>3. QED
  BY <1>1, <1>2 DEF RunnerNext, StartFails, Main, Interrupt, Spawn, Exit, Write, CauseOK

\* The agent's processes can neither take back a cut transcript nor bring a removed
\* workspace back.
LEMMA AgentKeeps == ASSUME EarnInv, AgentRuns \/ AgentUses \/ AgentLingers PROVE EarnInv'
<1>1. CASE AgentRuns
  <2>1. CauseOK'
    BY <1>1, CauseKept DEF AgentRuns, EarnInv
  <2>2. QED
    BY <1>1, <2>1 DEF AgentRuns, evars, EarnInv, GradedWhole, ZeroPassed, ZeroCleaned
<1>2. CASE AgentUses
  BY <1>2 DEF AgentUses, rvars, EarnInv, CauseOK, GradedWhole, ZeroPassed, ZeroCleaned
<1>3. CASE AgentLingers
  BY <1>3
     DEF AgentLingers, Exit, evars, EarnInv, CauseOK, GradedWhole, ZeroPassed, ZeroCleaned
<1>4. QED
  BY <1>1, <1>2, <1>3

\* The harness stops at the first thing that went wrong.
LEMMA HarnessKeeps == ASSUME EarnInv, HarnessStep PROVE EarnInv'
<1>1. CASE Prepare
  BY <1>1 DEF Prepare, Failed, rvars, EarnInv, CauseOK, GradedWhole, ZeroPassed, ZeroCleaned
<1>2. CASE AgentDone
  <2>1. phase' = "reset" => Outcome(TRUE) = "none" \/ Outcome(FALSE) = "none"
    BY <1>2 DEF AgentDone, Failed
  <2>2. phase' = "reset" => cause = "none" /\ ~truncated
    BY <1>2, <2>1 DEF AgentDone, Outcome, Returned, EarnInv, CauseOK
  <2>3. phase' = "cleanup" => exitCode' = 1
    BY <1>2 DEF AgentDone, Failed
  <2>4. phase' \in {"reset", "cleanup"} /\ UNCHANGED <<cause, truncated>>
    BY <1>2 DEF AgentDone, Failed, rvars
  <2>5. QED
    BY <2>2, <2>3, <2>4 DEF EarnInv, CauseOK, GradedWhole, ZeroPassed, ZeroCleaned
<1>3. CASE AgentRaises
  BY <1>3 DEF AgentRaises, rvars, EarnInv, CauseOK, GradedWhole, ZeroPassed, ZeroCleaned
<1>4. CASE ResetScratch
  BY <1>4
     DEF ResetScratch, Failed, rvars, EarnInv, CauseOK, GradedWhole, ZeroPassed, ZeroCleaned
<1>5. CASE Grade
  <2>1. /\ phase = "grade" /\ phase' = "cleanup"
        /\ UNCHANGED <<cause, truncated, workspace, copy>>
    BY <1>5 DEF Grade, Failed, rvars
  <2>2. exitCode' = 0 => passed' = Grades /\ failures' \subseteq {"grader"}
    <3>1. CASE exitCode' = 1
      BY <3>1
    <3>2. CASE exitCode' # 1
      <4>1. PICK report \in SUBSET Grades, listed \in SUBSET {"grader"} :
              /\ passed' = report /\ failures' = listed
              /\ exitCode' = IF report = Grades THEN 0 ELSE 2
        BY <1>5, <3>2 DEF Grade, Failed
      <4>2. QED
        BY <4>1
    <3>3. QED
      BY <3>1, <3>2
  <2>3. CauseOK' /\ GradedWhole' /\ ZeroCleaned'
    BY <2>1 DEF EarnInv, CauseOK, GradedWhole, ZeroCleaned
  <2>4. ZeroPassed'
    BY <2>1, <2>2 DEF EarnInv, GradedWhole, ZeroPassed
  <2>5. QED
    BY <2>3, <2>4 DEF EarnInv
<1>6. CASE Cleanup
  BY <1>6 DEF Cleanup, rvars, EarnInv, CauseOK, GradedWhole, ZeroPassed, ZeroCleaned
<1>7. CASE Publish
  BY <1>7 DEF Publish, rvars, EarnInv, CauseOK, GradedWhole, ZeroPassed, ZeroCleaned
<1>8. QED
  BY <1>1, <1>2, <1>3, <1>4, <1>5, <1>6, <1>7 DEF HarnessStep

\* The invariant is inductive.
LEMMA EarnInductive == EarnInv /\ [Next]_vars => EarnInv'
<1>1. ASSUME EarnInv, UNCHANGED vars PROVE EarnInv'
  BY <1>1 DEF vars, evars, rvars, EarnInv, CauseOK, GradedWhole, ZeroPassed, ZeroCleaned
<1>2. QED
  BY <1>1, AgentKeeps, HarnessKeeps DEF Next

\* Exit code 0 is given only to an agent that ended by itself, in time, with its
\* whole transcript and every grade, and after everything was put away.
THEOREM ZeroEarned == Spec => []ZeroIsEarned
<1>1. EarnInv => ZeroIsEarned
  BY DEF EarnInv, ZeroPassed, ZeroCleaned, ZeroIsEarned
<1>2. QED
  BY <1>1, EarnInit, EarnInductive, PTL DEF Spec

-------------------------------------------------------------------------------
PCs == {"start", "deliver", "wait", "term", "reap", "sweep", "join1", "join2", "close", "done", "raised"}
Phases == {"prepare", "agent", "reset", "grade", "cleanup", "publish", "ended", "crashed"}

\* What was written and is not yet in the logs or cut off.
Under == pipe["stdout"] + pipe["stderr"] + chunk["stdout"] + chunk["stderr"]

\* Every byte is in the logs, on its way there, or was cut off, which the budget notes.
Accounted ==
  /\ got + remaining = MaxBytes
  /\ written \in 0..MaxWrites /\ got + Under <= written
  /\ truncated <=> got + Under # written

\* A pump that saw the end of its pipe copied everything, and nobody can write again.
Emptied ==
  \A s \in Streams : pump[s] = "eof" => pipe[s] = 0 /\ chunk[s] = 0 /\ Holders = {}

\* The pumps run from the start of the command to the end of run_process, unless it fails.
Pumped ==
  /\ pc = "start" => cause = "none"
  /\ pc \in {"deliver", "wait"} => cause = "none"
  /\ pc # "start" /\ cause # "failed" => \A s \in Streams : pump[s] # "off"
  /\ pc = "done" => ~Pumping

CopyInv == TypeOK /\ pc \in PCs /\ phase \in Phases /\ Accounted /\ Emptied /\ Pumped

\* RunnerInit establishes what concerns the runner.
LEMMA CopyInit == Init => CopyInv
<1> SUFFICES ASSUME Init PROVE CopyInv
  OBVIOUS
<1>1. TypeOK
  <2>1. /\ got \in 0..MaxBytes /\ remaining \in 0..MaxBytes
        /\ pipe \in [Streams -> 0..MaxWrites] /\ chunk \in [Streams -> 0..MaxWrites]
    BY RunnerConstants DEF Init, RunnerInit
  <2>2. /\ proc \in [Procs -> {"none", "group", "detached", "gone"}]
        /\ pump \in [Streams -> {"off", "on", "eof"}]
    BY DEF Init, RunnerInit
  <2>3. truncated \in BOOLEAN
    BY DEF Init, RunnerInit
  <2>4. /\ cause \in {"none", "timed_out", "interrupted", "failed"}
        /\ workspace \in {"own", "replaced", "gone"} /\ scratch \in {"runner", "agent"}
    BY DEF Init, RunnerInit
  <2>5. passed \subseteq Grades /\ failures \subseteq Codes /\ exitCode \in 0..2
    BY DEF Init, RunnerInit
  <2>6. QED
    BY <2>1, <2>2, <2>3, <2>4, <2>5 DEF TypeOK
<1>2. Accounted /\ Emptied /\ Pumped
  BY RunnerConstants DEF Init, RunnerInit, Accounted, Under, Emptied, Pumped, Streams
<1>3. QED
  BY <1>1, <1>2 DEF CopyInv, Init, RunnerInit, PCs, Phases

\* Whoever holds a pipe is alive, and a command that is gone has none to hold it.
LEMMA SignaledHolds ==
  ASSUME proc \in [Procs -> {"none", "group", "detached", "gone"}], NEW force \in BOOLEAN,
         proc' = Signaled(force)
  PROVE  /\ proc' \in [Procs -> {"none", "group", "detached", "gone"}]
         /\ Holders' \subseteq Holders
  BY DEF Signaled, Holders, Alive

\* A step of a pump keeps the account.
LEMMA PumpCopies ==
  ASSUME CopyInv, NEW s \in Streams, PumpStep(s)
  PROVE  /\ Accounted' /\ Emptied'
         /\ pipe' \in [Streams -> 0..MaxWrites] /\ chunk' \in [Streams -> 0..MaxWrites]
         /\ got' \in 0..MaxBytes /\ remaining' \in 0..MaxBytes /\ truncated' \in BOOLEAN
         /\ pump' \in [Streams -> {"off", "on", "eof"}]
         /\ (Pumping' => Pumping) /\ \A r \in Streams : pump[r] # "off" => pump'[r] # "off"
         /\ UNCHANGED <<proc, pc, cause, sigint, interrupts, written>>
<1>0. /\ pipe \in [Streams -> 0..MaxWrites] /\ chunk \in [Streams -> 0..MaxWrites]
      /\ pump \in [Streams -> {"off", "on", "eof"}]
      /\ got \in 0..MaxBytes /\ remaining \in 0..MaxBytes /\ truncated \in BOOLEAN
      /\ MaxBytes \in Nat /\ MaxWrites \in Nat /\ written \in 0..MaxWrites
      /\ Streams = {"stdout", "stderr"} /\ s \in {"stdout", "stderr"}
  BY RunnerConstants DEF CopyInv, TypeOK, Accounted, Streams
<1>1. CASE PumpRead(s)
  <2>1. /\ chunk[s] = 0 /\ pipe[s] > 0 /\ pump[s] = "on"
        /\ chunk' = [chunk EXCEPT ![s] = pipe[s]] /\ pipe' = [pipe EXCEPT ![s] = 0]
        /\ UNCHANGED <<proc, pump, got, remaining, truncated, pc, cause, sigint, interrupts, written>>
    BY <1>1 DEF PumpRead
  <2>2. Under' = Under
    BY <1>0, <2>1 DEF Under
  <2>3. Accounted' /\ Emptied'
    BY <1>0, <2>1, <2>2 DEF CopyInv, Accounted, Emptied, Holders, Alive
  <2>4. QED
    BY <1>0, <2>1, <2>3 DEF Pumping
<1>2. CASE PumpClaim(s)
  <2> DEFINE accepted == IF chunk[s] <= remaining THEN chunk[s] ELSE remaining
  <2>1. /\ chunk[s] > 0
        /\ remaining' = remaining - accepted
        /\ truncated' = (truncated \/ accepted # chunk[s])
        /\ got' = got + accepted
        /\ chunk' = [chunk EXCEPT ![s] = 0]
        /\ UNCHANGED <<proc, pipe, pump, pc, cause, sigint, interrupts, written>>
    BY <1>2 DEF PumpClaim, Cut
  <2>2. accepted \in Nat /\ accepted <= chunk[s] /\ accepted <= remaining
    BY <1>0
  <2> HIDE DEF accepted
  <2>3. Under' = Under - chunk[s] /\ Under \in Nat /\ chunk[s] \in Nat
    BY <1>0, <2>1 DEF Under
  <2>4. got' + remaining' = MaxBytes
    BY <1>0, <2>1, <2>2 DEF CopyInv, Accounted
  <2>5. got' + Under' <= written' /\ (truncated' <=> got' + Under' # written')
    <3>0. /\ got + Under <= written /\ (truncated <=> got + Under # written)
          /\ got \in Nat /\ written \in Nat /\ Under \in Nat
      BY <1>0, <2>3 DEF CopyInv, Accounted
    <3>1. CASE accepted = chunk[s]
      <4>1. got' + Under' = got + Under /\ written' = written
        BY <1>0, <2>1, <2>3, <3>0, <3>1
      <4>2. truncated' <=> truncated
        BY <1>0, <2>1, <3>1
      <4>3. QED
        BY <3>0, <4>1, <4>2
    <3>2. CASE accepted # chunk[s]
      <4>1. got' + Under' < written' /\ got' + Under' \in Int /\ written' \in Nat
        BY <1>0, <2>1, <2>2, <2>3, <3>0, <3>2
      <4>2. truncated'
        BY <2>1, <3>2
      <4>3. QED
        BY <4>1, <4>2
    <3>3. QED
      BY <3>1, <3>2
  <2>6. Emptied'
    BY <1>0, <2>1 DEF CopyInv, Emptied, Holders, Alive
  <2>7. got' \in 0..MaxBytes /\ remaining' \in 0..MaxBytes
    BY <1>0, <2>1, <2>2, <2>4
  <2>8. QED
    BY <1>0, <2>1, <2>4, <2>5, <2>6, <2>7 DEF Pumping, Accounted
<1>3. CASE PumpEof(s)
  <2>1. /\ chunk[s] = 0 /\ pipe[s] = 0 /\ Holders = {}
        /\ pump' = [pump EXCEPT ![s] = "eof"]
        /\ UNCHANGED <<proc, pipe, chunk, got, remaining, truncated, pc, cause, sigint, interrupts, written>>
    BY <1>3 DEF PumpEof
  <2>2. Accounted' /\ Emptied'
    BY <1>0, <2>1 DEF CopyInv, Accounted, Under, Emptied, Holders, Alive
  <2>3. QED
    BY <1>0, <2>1, <2>2 DEF Pumping
<1>4. QED
  BY <1>1, <1>2, <1>3 DEF PumpStep

\* Who neither reads nor writes keeps the account, unless somebody gets hold of a pipe
\* again after its end was seen.
LEMMA OthersCopy ==
  ASSUME CopyInv, UNCHANGED <<pipe, chunk, got, remaining, truncated, written>>,
         \A s \in Streams : pump'[s] = "eof" => pump[s] = "eof" /\ Holders' \subseteq Holders
  PROVE  Accounted' /\ Emptied'
BY DEF CopyInv, Accounted, Under, Emptied

\* A step of the main thread, a failed start, or a Ctrl-C.
LEMMA MainCopies ==
  ASSUME CopyInv, MainStep \/ StartFails \/ Interrupt
  PROVE  /\ Accounted' /\ Emptied' /\ Pumped'
         /\ proc' \in [Procs -> {"none", "group", "detached", "gone"}]
         /\ pump' \in [Streams -> {"off", "on", "eof"}]
         /\ cause' \in {"none", "timed_out", "interrupted", "failed"}
         /\ pc' \in PCs
         /\ UNCHANGED <<pipe, chunk, got, remaining, truncated>>
<1>0. /\ proc \in [Procs -> {"none", "group", "detached", "gone"}]
      /\ pump \in [Streams -> {"off", "on", "eof"}]
      /\ cause \in {"none", "timed_out", "interrupted", "failed"}
      /\ pc \in PCs /\ Leader \in Procs
  BY DEF CopyInv, TypeOK, Procs
<1>1. UNCHANGED <<pipe, chunk, got, remaining, truncated, written>>
  BY DEF MainStep, Start, Deliver, WaitEnds, WaitTimesOut, TermEnds, TermTimesOut, Sweep,
         JoinEnds, JoinTimesOut, ClosePipes, Main, StartFails, Interrupt
<1>2. CASE Start \/ StartFails
  <2>1. /\ proc' \in [Procs -> {"none", "group", "detached", "gone"}]
        /\ pump' \in [Streams -> {"off", "on"}]
    BY <1>0, <1>2 DEF Start, StartFails, Main
  <2>2. /\ pc' \in PCs /\ cause' \in {"none", "failed"}
        /\ pc' \in {"deliver", "term"}
        /\ pc' = "deliver" => cause' = "none" /\ \A s \in Streams : pump'[s] = "on"
        /\ pc' = "term" => cause' = "failed"
    BY <1>2 DEF Start, StartFails, Main, CopyInv, Pumped, PCs
  <2>3. Pumped'
    BY <2>2 DEF Pumped
  <2>4. Accounted' /\ Emptied'
    BY <1>1, <2>1, OthersCopy
  <2>5. QED
    BY <1>0, <1>1, <2>1, <2>2, <2>3, <2>4
<1>3. CASE ~(Start \/ StartFails)
  <2>1. /\ pump' = pump
        /\ proc' = proc \/ proc' = Signaled(TRUE) \/ proc' = Signaled(FALSE)
    BY <1>3 DEF MainStep, Deliver, WaitEnds, WaitTimesOut, TermEnds, TermTimesOut, Sweep,
         JoinEnds, JoinTimesOut, Killed, ClosePipes, Main, Interrupt
  <2>2. proc' \in [Procs -> {"none", "group", "detached", "gone"}] /\ Holders' \subseteq Holders
    <3>1. CASE proc' = proc
      BY <1>0, <3>1 DEF Holders, Alive
    <3>2. QED
      BY <1>0, <2>1, <3>1, SignaledHolds
  <2>3. Accounted' /\ Emptied'
    BY <1>1, <2>1, <2>2, OthersCopy
  <2>4. /\ pc # "start" /\ pc' \in PCs \ {"start"}
        /\ cause' \in {"none", "timed_out", "interrupted", "failed"}
        /\ pc' \in {"deliver", "wait"} => cause' = cause /\ pc \in {"deliver", "wait"}
        /\ cause' # "failed" => cause # "failed"
        /\ pc' = "done" => ~Pumping
    <3>1. CASE Interrupt
      BY <1>0, <3>1 DEF Interrupt, CopyInv, Pumped, PCs
    <3>2. CASE Deliver \/ WaitEnds \/ WaitTimesOut
      BY <1>0, <3>2 DEF Deliver, WaitEnds, WaitTimesOut, Main, CopyInv, Pumped, PCs
    <3>3. CASE TermEnds \/ TermTimesOut \/ Sweep
      BY <1>0, <3>3 DEF TermEnds, TermTimesOut, Sweep, Main, PCs
    <3>4. CASE JoinEnds \/ JoinTimesOut \/ ClosePipes
      BY <1>0, <3>4 DEF JoinEnds, JoinTimesOut, ClosePipes, Main, PCs
    <3>5. QED
      BY <1>3, <3>1, <3>2, <3>3, <3>4 DEF MainStep
  <2>5. Pumped'
    BY <2>1, <2>4 DEF CopyInv, Pumped, Pumping
  <2>6. QED
    BY <1>0, <1>1, <2>1, <2>2, <2>3, <2>4, <2>5
<1>4. QED
  BY <1>2, <1>3

\* A step of the command or of a helper.
LEMMA ProcessCopies ==
  ASSUME CopyInv, NEW p \in Procs, (p \in Helpers /\ Spawn(p)) \/ Exit(p) \/ \E s \in Streams : Write(p, s)
  PROVE  /\ Accounted' /\ Emptied' /\ Pumped'
         /\ proc' \in [Procs -> {"none", "group", "detached", "gone"}]
         /\ pipe' \in [Streams -> 0..MaxWrites]
         /\ UNCHANGED <<pump, chunk, got, remaining, truncated, cause, pc>>
<1>0. /\ proc \in [Procs -> {"none", "group", "detached", "gone"}]
      /\ pipe \in [Streams -> 0..MaxWrites] /\ chunk \in [Streams -> 0..MaxWrites]
      /\ got \in 0..MaxBytes /\ MaxBytes \in Nat /\ MaxWrites \in Nat /\ written \in 0..MaxWrites
      /\ Leader \in Procs /\ Leader \notin Quiet /\ Streams = {"stdout", "stderr"}
  BY RunnerConstants DEF CopyInv, TypeOK, Accounted, Procs, Streams
<1>1. CASE p \in Helpers /\ Spawn(p)
  <2>1. Leader \in Holders
    BY <1>0, <1>1 DEF Spawn, Holders
  <2>2. \A s \in Streams : pump[s] # "eof"
    BY <2>1 DEF CopyInv, Emptied
  <2>3. UNCHANGED <<pipe, chunk, pump, got, remaining, truncated, pc, cause, sigint, interrupts, written>>
    BY <1>1 DEF Spawn
  <2>4. Accounted' /\ Emptied'
    BY <2>2, <2>3, OthersCopy
  <2>5. proc' \in [Procs -> {"none", "group", "detached", "gone"}]
    BY <1>0, <1>1 DEF Spawn
  <2>6. QED
    BY <1>0, <2>3, <2>4, <2>5 DEF CopyInv, Pumped, Pumping
<1>2. CASE Exit(p)
  <2>1. UNCHANGED <<pipe, chunk, pump, got, remaining, truncated, pc, cause, sigint, interrupts, written>>
    BY <1>2 DEF Exit
  <2>2. Holders' \subseteq Holders /\ proc' \in [Procs -> {"none", "group", "detached", "gone"}]
    BY <1>0, <1>2 DEF Exit, Holders, Alive
  <2>3. Accounted' /\ Emptied'
    BY <2>1, <2>2, OthersCopy
  <2>4. QED
    BY <1>0, <2>1, <2>2, <2>3 DEF CopyInv, Pumped, Pumping
<1>3. CASE \E s \in Streams : Write(p, s)
  <2>0. PICK s \in Streams : Write(p, s)
    BY <1>3
  <2>1. /\ p \in Holders /\ written < MaxWrites /\ s \in {"stdout", "stderr"}
        /\ pipe' = [pipe EXCEPT ![s] = pipe[s] + 1] /\ written' = written + 1
        /\ UNCHANGED <<proc, chunk, pump, got, remaining, truncated, pc, cause, sigint, interrupts>>
    BY <1>0, <2>0 DEF Write
  <2>2. Under' = Under + 1 /\ Under \in Nat /\ Under >= pipe[s]
    BY <1>0, <2>1 DEF Under
  <2>3. got' + Under' = got + Under + 1 /\ got + Under \in Nat
    BY <1>0, <2>1, <2>2
  <2>4. Accounted'
    BY <1>0, <2>1, <2>3 DEF CopyInv, Accounted
  <2>5. Emptied' /\ Pumped'
    BY <2>1 DEF CopyInv, Emptied, Pumped, Pumping
  <2>6. pipe[s] + 1 \in 0..MaxWrites
    BY <1>0, <2>1, <2>2 DEF CopyInv, Accounted
  <2>7. QED
    BY <1>0, <2>1, <2>4, <2>5, <2>6
<1>4. QED
  BY <1>1, <1>2, <1>3

\* The agent's processes and the runner keep the invariant.
LEMMA AgentCopies == ASSUME CopyInv, AgentRuns \/ AgentUses \/ AgentLingers PROVE CopyInv'
<1>1. CASE AgentRuns
  <2>1. /\ UNCHANGED evars /\ RunnerNext
    BY <1>1 DEF AgentRuns
  <2>2. /\ pipe' \in [Streams -> 0..MaxWrites] /\ chunk' \in [Streams -> 0..MaxWrites]
        /\ got' \in 0..MaxBytes /\ remaining' \in 0..MaxBytes /\ truncated' \in BOOLEAN
        /\ proc' \in [Procs -> {"none", "group", "detached", "gone"}]
        /\ pump' \in [Streams -> {"off", "on", "eof"}]
        /\ cause' \in {"none", "timed_out", "interrupted", "failed"} /\ pc' \in PCs
        /\ Accounted' /\ Emptied' /\ Pumped'
    <3>0. /\ pipe \in [Streams -> 0..MaxWrites] /\ chunk \in [Streams -> 0..MaxWrites]
          /\ got \in 0..MaxBytes /\ remaining \in 0..MaxBytes /\ truncated \in BOOLEAN
          /\ proc \in [Procs -> {"none", "group", "detached", "gone"}]
          /\ pump \in [Streams -> {"off", "on", "eof"}]
          /\ cause \in {"none", "timed_out", "interrupted", "failed"} /\ pc \in PCs
      BY DEF CopyInv, TypeOK
    <3>1. CASE MainStep \/ StartFails \/ Interrupt
      BY <3>0, <3>1, MainCopies
    <3>2. CASE \E s \in Streams : PumpStep(s)
      <4>1. PICK s \in Streams : PumpStep(s)
        BY <3>2
      <4>2. Pumped'
        BY <4>1, PumpCopies DEF CopyInv, Pumped
      <4>3. QED
        BY <3>0, <4>1, <4>2, PumpCopies
    <3>3. CASE \E h \in Helpers : Spawn(h)
      BY <3>0, <3>3, ProcessCopies DEF Procs
    <3>4. CASE \E p \in Procs : Exit(p) \/ \E s \in Streams : Write(p, s)
      BY <3>0, <3>4, ProcessCopies
    <3>5. QED
      BY <2>1, <3>1, <3>2, <3>3, <3>4 DEF RunnerNext
  <2>3. QED
    BY <2>1, <2>2 DEF evars, CopyInv, TypeOK
<1>2. CASE AgentUses
  <2>1. UNCHANGED <<rvars, phase, passed, failures, exitCode>>
    BY <1>2 DEF AgentUses
  <2>2. workspace' \in {"own", "replaced", "gone"} /\ scratch' \in {"runner", "agent"}
    BY <1>2 DEF AgentUses, CopyInv, TypeOK
  <2>3. QED
    BY <2>1, <2>2
       DEF rvars, CopyInv, TypeOK, Accounted, Under, Emptied, Holders, Alive, Pumped, Pumping
<1>3. CASE AgentLingers
  <2>1. UNCHANGED evars /\ \E p \in Procs : Exit(p)
    BY <1>3 DEF AgentLingers
  <2>2. QED
    BY <2>1, ProcessCopies DEF evars, CopyInv, TypeOK, Exit
<1>4. QED
  BY <1>1, <1>2, <1>3

\* The harness leaves the runner's variables alone.
LEMMA HarnessCopies == ASSUME CopyInv, HarnessStep PROVE CopyInv'
<1>1. UNCHANGED rvars
  BY DEF HarnessStep, Prepare, AgentDone, AgentRaises, ResetScratch, Grade, Cleanup, Publish
<1>2. /\ proc \in [Procs -> {"none", "group", "detached", "gone"}]
      /\ workspace \in {"own", "replaced", "gone"} /\ scratch \in {"runner", "agent"}
      /\ passed \subseteq Grades /\ failures \subseteq Codes /\ exitCode \in 0..2 /\ phase \in Phases
  BY DEF CopyInv, TypeOK
<1>3. /\ workspace' \in {"own", "replaced", "gone"} /\ scratch' \in {"runner", "agent"}
  BY <1>2 DEF HarnessStep, Prepare, AgentDone, AgentRaises, ResetScratch, Reset, Grade, Cleanup, Publish
<1>4. passed' \subseteq Grades /\ failures' \subseteq Codes /\ exitCode' \in 0..2 /\ phase' \in Phases
  <2>1. ASSUME NEW code \in Codes, Failed(code)
        PROVE  passed' \subseteq Grades /\ failures' \subseteq Codes /\ exitCode' \in 0..2 /\ phase' \in Phases
    BY <2>1 DEF Failed, Phases
  <2>2. CASE Prepare \/ ResetScratch
    BY <1>2, <2>1, <2>2 DEF Prepare, ResetScratch, Codes, Phases
  <2>3. CASE AgentDone
    <3>1. \A nonzero \in BOOLEAN : Outcome(nonzero) \in Codes \cup {"none"}
      BY DEF Outcome, Codes
    <3>2. QED
      BY <1>2, <2>1, <2>3, <3>1 DEF AgentDone, Codes, Phases
  <2>4. CASE AgentRaises
    BY <1>2, <2>4 DEF AgentRaises, Phases
  <2>5. CASE Grade
    <3>1. CASE Failed("harness.error")
      BY <2>1, <3>1 DEF Codes
    <3>2. CASE ~Failed("harness.error")
      <4>1. PICK report \in SUBSET Grades, listed \in SUBSET {"grader"} :
              /\ passed' = report /\ failures' = listed /\ phase' = "cleanup"
              /\ exitCode' = IF report = Grades THEN 0 ELSE 2
        BY <2>5, <3>2 DEF Grade
      <4>2. exitCode' \in 0..2
        BY <4>1
      <4>3. failures' \subseteq Codes
        BY <4>1 DEF Codes
      <4>4. QED
        BY <4>1, <4>2, <4>3 DEF Phases
    <3>3. QED
      BY <3>1, <3>2
  <2>6. CASE Cleanup \/ Publish
    <3>1. /\ passed' = passed /\ phase' \in {"publish", "ended"} /\ exitCode' \in {exitCode, 1}
          /\ failures' \in {failures, failures \cup {"harness.cleanup"}, failures \cup {"harness.output"}}
      BY <2>6 DEF Cleanup, Publish
    <3>2. QED
      BY <1>2, <3>1 DEF Codes, Phases
  <2>7. QED
    BY <2>2, <2>3, <2>4, <2>5, <2>6 DEF HarnessStep
<1>5. QED
  BY <1>1, <1>3, <1>4
     DEF rvars, CopyInv, TypeOK, Accounted, Under, Emptied, Holders, Alive, Pumped, Pumping

\* The invariant is inductive.
LEMMA CopyInductive == CopyInv /\ [Next]_vars => CopyInv'
<1>1. ASSUME CopyInv, UNCHANGED vars PROVE CopyInv'
  BY <1>1
     DEF vars, evars, rvars, CopyInv, TypeOK, Accounted, Under, Emptied, Holders, Alive, Pumped, Pumping
<1>2. QED
  BY <1>1, AgentCopies, HarnessCopies DEF Next

\* When run_process returns, both pumps saw the end of their pipes.
LEMMA ReturnedEmpty ==
  ASSUME CopyInv, Returned
  PROVE  Holders = {} /\ \A s \in Streams : pipe[s] = 0 /\ chunk[s] = 0
<1>1. \A s \in Streams : pump[s] = "eof"
  BY DEF CopyInv, TypeOK, Returned, Pumped, Pumping
<1>2. QED
  BY <1>1 DEF CopyInv, Emptied, Streams

\* The transcript says whether it was cut, for any processes, writes and limit.
THEOREM TranscriptIsHonest == Spec => [](TypeOK /\ TruncationHonest)
<1>1. CopyInv => TypeOK /\ TruncationHonest
  <2> SUFFICES ASSUME CopyInv, Returned PROVE (truncated <=> got < written) /\ got <= MaxBytes
    BY DEF CopyInv, TruncationHonest
  <2>1. Under = 0
    BY ReturnedEmpty DEF Under, Streams
  <2>2. got \in 0..MaxBytes /\ written \in 0..MaxWrites /\ MaxBytes \in Nat /\ MaxWrites \in Nat
    BY RunnerConstants DEF CopyInv, TypeOK, Accounted
  <2>3. got <= written /\ (truncated <=> got # written)
    BY <2>1, <2>2 DEF CopyInv, Accounted
  <2>4. got < written <=> got # written
    BY <2>2, <2>3
  <2>5. QED
    BY <2>2, <2>3, <2>4
<1>2. QED
  BY <1>1, CopyInit, CopyInductive, PTL DEF Spec

\* The graders run where no process of the agent is left, if every helper holds a pipe:
\* run_process then returns to execute() only after all of them.
Undisturbed ==
  /\ phase \in {"reset", "grade"} => pc = "done" /\ cause # "failed" /\ workspace = "own"
  /\ phase = "grade" => scratch = "runner"

\* No step of the agent or of the harness disturbs the graders.
LEMMA Undisturbs ==
  ASSUME Quiet = {}, CopyInv, Undisturbed, [Next]_vars PROVE Undisturbed'
<1>1. phase \in {"reset", "grade"} => \A p \in Procs : ~Alive(p)
  BY ReturnedEmpty DEF Undisturbed, Returned, Holders
<1>2. CASE AgentRuns
  BY <1>2 DEF AgentRuns, evars, Undisturbed
<1>3. CASE AgentUses
  BY <1>1, <1>3 DEF AgentUses, rvars, Undisturbed
<1>4. CASE AgentLingers
  BY <1>4 DEF AgentLingers, Exit, evars, Undisturbed
<1>5. CASE HarnessStep
  <2>1. UNCHANGED <<pc, cause>>
    BY <1>5
       DEF HarnessStep, Prepare, AgentDone, AgentRaises, ResetScratch, Grade, Cleanup, Publish, rvars
  <2>2. CASE Prepare \/ AgentRaises \/ Grade \/ Cleanup \/ Publish
    BY <2>2 DEF Prepare, Failed, AgentRaises, Grade, Cleanup, Publish, Undisturbed
  <2>3. CASE AgentDone
    BY <2>1, <2>3 DEF AgentDone, Failed, Returned, SameDirectory, Undisturbed
  <2>4. CASE ResetScratch
    BY <2>1, <2>4 DEF ResetScratch, Reset, Failed, Undisturbed
  <2>5. QED
    BY <1>5, <2>2, <2>3, <2>4 DEF HarnessStep
<1>6. CASE UNCHANGED vars
  BY <1>6 DEF vars, rvars, evars, Undisturbed
<1>7. QED
  BY <1>2, <1>3, <1>4, <1>5, <1>6 DEF Next

\* What a run is graded on is its own, if no helper lets go of the pipes: a quiet one
\* may survive run_process and go on using the workspace while it is graded.
THEOREM EvidenceIsHonest == ASSUME Quiet = {} PROVE Spec => []EvidenceHonest
<1>1. Init => Undisturbed
  BY DEF Init, Undisturbed
<1>2. CopyInv /\ Undisturbed /\ [Next]_vars => Undisturbed'
  BY Undisturbs
<1>3. Undisturbed => GradesOwnScratch
  BY DEF Undisturbed, GradesOwnScratch
<1>4. TypeOK /\ TruncationHonest /\ GradesOwnScratch => EvidenceHonest
  BY DEF EvidenceHonest
<1>5. QED
  BY <1>1, <1>2, <1>3, <1>4, CopyInit, CopyInductive, TranscriptIsHonest, PTL DEF Spec

-------------------------------------------------------------------------------
(* _transport.py: the requests of a client *)

\* Where a call is, how it was answered, and what its caller or a waiter is told.
Places == {"idle", "send", "sent", "enter", "join", "rsend", "rsent", "release",
           "fail", "finish", "finishError", "ended"}
Answers == {"none", "ok", "unauthorized", "busy", "failed", "lost", "renewed", "odd"}
Outcomes == {"none", "ok", "error", "cancelled"}
TaskSet == [pc : Places, sent : Tokens, answer : Answers, refreshed : BOOLEAN, attempt : 0..MaxRetries,
            joined : Calls \cup {NoCall}, woken : Outcomes]

\* The variables have their types.
Typed ==
  /\ threaded \in BOOLEAN /\ task \in [Calls -> TaskSet]
  /\ out \in [Calls -> Outcomes] /\ res \in [Calls -> Outcomes]
  /\ cancelled \in [Calls -> BOOLEAN] /\ keyed \in Calls \cup {NoCall}
  /\ flight \in [owner : Calls \cup {NoCall}, token : Tokens]
  /\ token \in Tokens /\ issued \in Tokens /\ expired \in 0..issued /\ token <= issued
  /\ applied \in [Calls -> Nat] /\ renewals \in [Tokens -> Nat]

\* Only requests with a key are superseded, and only threads take a flight down in
\* two steps.
KeyedOnly ==
  /\ \A c \in Calls : cancelled[c] => IsKeyed(c)
  /\ keyed # NoCall => IsKeyed(keyed)
  /\ \A c \in Calls : task[c].pc \in {"enter", "release", "fail", "finish", "finishError"} => threaded

\* The task is refreshing the token for everybody.
Owns(c) == task[c].pc \in {"rsend", "rsent", "release", "fail"} /\ ~cancelled[c]

\* A task refreshes, unless it was superseded, exactly while the flight is its own.
Owned ==
  /\ \A c \in Calls : Owns(c) => flight.owner = c
  /\ flight = NoFlight \/ \E c \in Calls : flight.owner = c /\ Owns(c)

\* 0 is no token.
Real == Tokens \ {0}

\* A token on whose account a refresh was saved is behind the store for ever.
Spent == \A t \in Real : renewals[t] = 0 \/ (renewals[t] = 1 /\ t <= issued /\ t # token)

\* The owner refreshes on account of a token that is not spent, and the token it was
\* given is newer than every spent one and its own.
Refreshing ==
  \A c \in Calls : Owns(c) /\ task[c].pc \in {"rsend", "rsent"} =>
    /\ task[c].sent # 0 => renewals[task[c].sent] = 0 /\ task[c].sent <= issued
    /\ task[c].pc = "rsent" /\ task[c].answer = "renewed" =>
         task[c].sent < issued /\ \A t \in Real : renewals[t] # 0 => t < issued

\* A request that was executed is answered, or its answer is on the way or lost.
Executed ==
  \A c \in Calls : applied[c] # 0 =>
    /\ applied[c] = 1
    /\ task[c].pc \in {"sent", "ended"}
    /\ task[c].pc = "sent" => task[c].answer \in {"ok", "failed", "lost"}

\* Unlike OneRenewal and AtMostOnce, inductive: it says who refreshes and on what account.
TransportInv == Typed /\ KeyedOnly /\ Owned /\ Spent /\ Refreshing /\ Executed

\* At gives a task record.
LEMMA AtTyped == \A p \in Places : At(p) \in TaskSet /\ At(p).pc = p
  BY ConstantsOK DEF At, TaskSet, Tokens, Answers, Outcomes

\* TransportInit establishes the invariant.
LEMMA TransportInitial == TransportInit => TransportInv
<1> SUFFICES ASSUME TransportInit PROVE TransportInv
  OBVIOUS
<1>1. At("idle") \in TaskSet /\ At("idle").pc = "idle"
  BY AtTyped DEF Places
<1>2. task \in [Calls -> TaskSet] /\ \A c \in Calls : task[c].pc = "idle"
  BY <1>1 DEF TransportInit
<1>3. NoFlight \in [owner : Calls \cup {NoCall}, token : Tokens]
  BY ConstantsOK DEF NoFlight, Tokens
<1>4. Typed
  BY <1>2, <1>3, ConstantsOK DEF TransportInit, Typed, Tokens, Outcomes
<1>5. KeyedOnly /\ Owned /\ Refreshing /\ Executed
  BY <1>2 DEF TransportInit, KeyedOnly, Owned, Owns, Refreshing, Executed
<1>6. Spent
  BY DEF TransportInit, Spent, Real
<1>7. QED
  BY <1>4, <1>5, <1>6 DEF TransportInv

\* Waking the waiters of a flight tells them how it finished, and nothing else.
LEMMA WokenTyped ==
  ASSUME task \in [Calls -> TaskSet], NEW c \in Calls, NEW o \in Outcomes
  PROVE  /\ Woken(c, o) \in [Calls -> TaskSet]
         /\ \A d \in Calls : /\ Woken(c, o)[d].pc = task[d].pc
                             /\ Woken(c, o)[d].sent = task[d].sent
                             /\ Woken(c, o)[d].answer = task[d].answer
BY DEF Woken, TaskSet

\* What a woken waiter keeps.
Alike(t, u) == t.pc = u.pc /\ t.sent = u.sent /\ t.answer = u.answer

\* A step of c: its record, and nothing but wakings in the others.
Moved(c) == /\ task' \in [Calls -> TaskSet]
            /\ \A d \in Calls \ {c} : Alike(task'[d], task[d])

\* What c becomes, while the waiters of a flight may be woken.
LEMMA MovedTo ==
  ASSUME Typed, NEW c \in Calls, NEW b \in Calls, NEW o \in Outcomes, NEW r \in TaskSet,
         task' = [task EXCEPT ![c] = r] \/ task' = [Woken(b, o) EXCEPT ![c] = r]
  PROVE  Moved(c) /\ task'[c] = r
<1>1. PICK W \in [Calls -> TaskSet] :
        task' = [W EXCEPT ![c] = r] /\ \A d \in Calls : Alike(W[d], task[d])
  <2>1. task \in [Calls -> TaskSet]
    BY DEF Typed
  <2>2. CASE task' = [task EXCEPT ![c] = r]
    BY <2>1, <2>2 DEF Alike
  <2>3. CASE task' = [Woken(b, o) EXCEPT ![c] = r]
    <3>1. /\ Woken(b, o) \in [Calls -> TaskSet]
          /\ \A d \in Calls : Alike(Woken(b, o)[d], task[d])
      BY <2>1, WokenTyped DEF Alike
    <3>2. QED
      BY <2>3, <3>1
  <2>4. QED
    BY <2>2, <2>3
<1>2. QED
  BY <1>1 DEF Moved

\* The outcome of a task is told to an unkeyed caller only.
LEMMA ToldTyped ==
  ASSUME Typed, NEW c \in Calls, NEW o \in Outcomes, Told(c, o)
  PROVE  /\ out' \in [Calls -> Outcomes] /\ res' \in [Calls -> Outcomes]
         /\ UNCHANGED <<cancelled, keyed>>
         /\ \A d \in Calls : IsKeyed(d) => out'[d] = out[d]
BY DEF Told, Typed, IsKeyed

\* A step that supersedes nobody keeps who owns the flight, if c takes it only when
\* it is free and leaves it as it stops refreshing.
LEMMA OwnedKept ==
  ASSUME KeyedOnly, Owned, Typed, NEW c \in Calls, Moved(c), UNCHANGED <<threaded, cancelled>>,
         keyed' \in {keyed, NoCall},
         task'[c].pc \in {"enter", "release", "fail", "finish", "finishError"} => threaded,
         \/ flight' = flight /\ (Owns(c)' <=> Owns(c))
         \/ flight = NoFlight /\ flight'.owner = c /\ Owns(c)'
         \/ flight' \in {Released(c), NoFlight} /\ Owns(c) /\ ~Owns(c)'
         \/ flight' = Released(c) /\ ~Owns(c)'
  PROVE  KeyedOnly' /\ Owned'
<1>1. \A d \in Calls \ {c} : (Owns(d)' <=> Owns(d)) /\ task'[d].pc = task[d].pc
  BY DEF Moved, Alike, Owns
<1>2. KeyedOnly'
  BY <1>1 DEF KeyedOnly, IsKeyed
<1>3. CASE flight' = flight /\ (Owns(c)' <=> Owns(c))
  BY <1>1, <1>2, <1>3 DEF Owned, NoFlight
<1>4. CASE flight = NoFlight /\ flight'.owner = c /\ Owns(c)'
  BY <1>1, <1>2, <1>4, ConstantsOK DEF Owned, NoFlight
<1>5. CASE flight' \in {Released(c), NoFlight} /\ Owns(c) /\ ~Owns(c)'
  BY <1>1, <1>2, <1>5 DEF Owned, NoFlight, Released
<1>6. CASE flight' = Released(c) /\ ~Owns(c)'
  BY <1>1, <1>2, <1>6, ConstantsOK DEF Owned, NoFlight, Released
<1>7. QED
  BY <1>2, <1>3, <1>4, <1>5, <1>6

\* Refreshes go on as they were if no token is spent and none comes back, and what c
\* does is in order.
LEMMA RefreshingKept ==
  ASSUME Refreshing, Typed, NEW c \in Calls, Moved(c), UNCHANGED <<cancelled, renewals>>,
         issued' \in Nat, issued <= issued',
         Owns(c)' /\ task'[c].pc \in {"rsend", "rsent"} =>
           /\ task'[c].sent # 0 => renewals[task'[c].sent] = 0 /\ task'[c].sent <= issued'
           /\ task'[c].pc = "rsent" /\ task'[c].answer = "renewed" =>
                task'[c].sent < issued' /\ \A t \in Real : renewals[t] # 0 => t < issued'
  PROVE  Refreshing'
<1>1. \A t \in Tokens : t \in Nat
  BY DEF Tokens
<1>2. \A d \in Calls : task[d].sent \in Nat
  BY <1>1 DEF Typed, TaskSet
<1>3. \A d \in Calls \ {c} : (Owns(d)' <=> Owns(d)) /\ Alike(task'[d], task[d])
  BY DEF Moved, Alike, Owns
<1>4. issued \in Nat
  BY <1>1 DEF Typed
<1>5. QED
  BY <1>1, <1>2, <1>3, <1>4 DEF Refreshing, Alike, Real

\* So do requests, if what c does is in order.
LEMMA ExecutedKept ==
  ASSUME Executed, NEW c \in Calls, Moved(c), \A d \in Calls \ {c} : applied'[d] = applied[d],
         applied'[c] # 0 =>
           /\ applied'[c] = 1 /\ task'[c].pc \in {"sent", "ended"}
           /\ task'[c].pc = "sent" => task'[c].answer \in {"ok", "failed", "lost"}
  PROVE  Executed'
BY DEF Executed, Moved, Alike

\* A step that leaves tokens and supersessions alone keeps the invariant, if it keeps
\* the types and if what c does is in order.
LEMMA QuietStep ==
  ASSUME TransportInv, NEW c \in Calls, Moved(c),
         UNCHANGED <<threaded, cancelled, token, issued, expired, applied, renewals>>,
         keyed' \in {keyed, NoCall},
         out' \in [Calls -> Outcomes], res' \in [Calls -> Outcomes],
         flight' \in [owner : Calls \cup {NoCall}, token : Tokens],
         task'[c].pc \in {"enter", "release", "fail", "finish", "finishError"} => threaded,
         \/ flight' = flight /\ (Owns(c)' <=> Owns(c))
         \/ flight = NoFlight /\ flight'.owner = c /\ Owns(c)'
         \/ flight' \in {Released(c), NoFlight} /\ Owns(c) /\ ~Owns(c)'
         \/ flight' = Released(c) /\ ~Owns(c)',
         Owns(c)' /\ task'[c].pc \in {"rsend", "rsent"} =>
           \/ Owns(c) /\ Alike(task'[c], task[c])
           \/ task'[c].pc = "rsend" /\ task'[c].sent = token
           \/ task'[c].pc = "rsend" /\ Owns(c) /\ task[c].pc = "rsent" /\ task'[c].sent = task[c].sent,
         applied[c] = 0 \/ task'[c].pc = "ended" \/ Alike(task'[c], task[c])
  PROVE  TransportInv'
<1>1. Typed'
  BY DEF TransportInv, Typed, Moved
<1>2. KeyedOnly' /\ Owned'
  BY OwnedKept DEF TransportInv
<1>3. Spent'
  BY DEF TransportInv, Spent
<1>4. Refreshing'
  <2>1. /\ \A t \in Tokens : t \in Nat
        /\ issued \in Nat /\ token \in Nat /\ token <= issued
    BY DEF Tokens, TransportInv, Typed
  <2>2. token # 0 => renewals[token] = 0
    BY DEF TransportInv, Spent, Real, Typed
  <2>3. Owns(c)' /\ task'[c].pc \in {"rsend", "rsent"} =>
           /\ task'[c].sent # 0 => renewals[task'[c].sent] = 0 /\ task'[c].sent <= issued
           /\ task'[c].pc = "rsent" /\ task'[c].answer = "renewed" =>
                task'[c].sent < issued /\ \A t \in Real : renewals[t] # 0 => t < issued
    BY <2>1, <2>2 DEF TransportInv, Refreshing, Alike
  <2>4. QED
    BY <2>1, <2>3, RefreshingKept DEF TransportInv
<1>5. Executed'
  BY ExecutedKept DEF TransportInv, Executed, Alike
<1>6. QED
  BY <1>1, <1>2, <1>3, <1>4, <1>5 DEF TransportInv

\* The top of _await_refresh.
LEMMA EnterKeeps ==
  ASSUME TransportInv, NEW c \in Calls, NEW t \in TaskSet, Enter(c, t),
         ~cancelled[c], ~Owns(c), applied[c] = 0,
         UNCHANGED <<threaded, token, server, renewals>>
  PROVE  TransportInv'
<1>0. /\ UNCHANGED keys /\ Typed
      /\ flight \in [owner : Calls \cup {NoCall}, token : Tokens] /\ token \in Tokens
  BY DEF Enter, Becomes, TransportInv, Typed
<1>1. CASE flight # NoFlight
  <2> DEFINE u == [t EXCEPT !.pc = "join", !.joined = flight.owner, !.woken = "none",
                            !.sent = IF threaded THEN @ ELSE flight.token]
  <2>1. task' = [task EXCEPT ![c] = u] /\ flight' = flight
    BY <1>1 DEF Enter, Becomes
  <2>2. u \in TaskSet /\ u.pc = "join"
    BY <1>0 DEF TaskSet, Places, Outcomes
  <2> HIDE DEF u
  <2>3. Moved(c) /\ task'[c] = u
    BY <1>0, <2>1, <2>2, MovedTo DEF Outcomes
  <2>4. QED
    BY <1>0, <2>1, <2>2, <2>3, QuietStep DEF keys, server, Typed, Owns
<1>2. CASE flight = NoFlight /\ Fresher(t)
  <2> DEFINE u == [t EXCEPT !.pc = "send"]
  <2>1. task' = [task EXCEPT ![c] = u] /\ flight' = flight
    BY <1>2 DEF Enter, Becomes
  <2>2. u \in TaskSet /\ u.pc = "send"
    BY DEF TaskSet, Places
  <2> HIDE DEF u
  <2>3. Moved(c) /\ task'[c] = u
    BY <1>0, <2>1, <2>2, MovedTo DEF Outcomes
  <2>4. QED
    BY <1>0, <2>1, <2>2, <2>3, QuietStep DEF keys, server, Typed, Owns
<1>3. CASE flight = NoFlight /\ ~Fresher(t)
  <2> DEFINE u == [t EXCEPT !.pc = "rsend", !.attempt = 0]
  <2>1. task' = [task EXCEPT ![c] = u] /\ flight' = [owner |-> c, token |-> t.sent] /\ t.sent = token
    BY <1>3 DEF Enter, Becomes, Fresher
  <2>2. u \in TaskSet /\ u.pc = "rsend" /\ u.sent = token
    <3>1. 0 \in 0..MaxRetries
      BY ConstantsOK
    <3>2. u \in TaskSet /\ u.pc = "rsend"
      BY <3>1 DEF TaskSet, Places
    <3>3. u.sent = t.sent
      BY DEF TaskSet
    <3>4. QED
      BY <2>1, <3>2, <3>3
  <2> HIDE DEF u
  <2>3. Moved(c) /\ task'[c] = u
    BY <1>0, <2>1, <2>2, MovedTo DEF Outcomes
  <2>4. flight' \in [owner : Calls \cup {NoCall}, token : Tokens] /\ flight'.owner = c /\ Owns(c)'
    BY <1>0, <2>1, <2>2, <2>3 DEF Owns, keys
  <2>5. QED
    BY <1>0, <1>3, <2>2, <2>3, <2>4, QuietStep DEF keys, server, Typed
<1>4. QED
  BY <1>1, <1>2, <1>3 DEF Enter

\* A flight that is given up is no flight.
LEMMA ReleasedTyped ==
  ASSUME Typed, NEW c \in Calls
  PROVE  /\ Released(c) \in [owner : Calls \cup {NoCall}, token : Tokens]
         /\ NoFlight \in [owner : Calls \cup {NoCall}, token : Tokens]
BY ConstantsOK DEF Typed, Released, NoFlight, Tokens

\* A task that is over gives up its flight, if it has one.
LEMMA EndKeeps ==
  ASSUME TransportInv, NEW c \in Calls, NEW b \in Calls, NEW o \in Outcomes, NEW x \in Outcomes,
         task' = [task EXCEPT ![c] = At("ended")] \/ task' = [Woken(b, o) EXCEPT ![c] = At("ended")],
         Told(c, x), flight' = Released(c) \/ (flight' = flight /\ ~Owns(c)),
         UNCHANGED <<threaded, token, server, renewals>>
  PROVE  TransportInv'
<1>1. At("ended") \in TaskSet /\ At("ended").pc = "ended"
  BY AtTyped DEF Places
<1>2. Moved(c) /\ task'[c] = At("ended") /\ Typed
  BY <1>1, MovedTo DEF TransportInv
<1>3. /\ out' \in [Calls -> Outcomes] /\ res' \in [Calls -> Outcomes]
      /\ UNCHANGED <<cancelled, keyed>>
  BY <1>2, ToldTyped
<1>4. flight' \in [owner : Calls \cup {NoCall}, token : Tokens]
  BY <1>2, ReleasedTyped DEF Typed
<1>5. ~Owns(c)'
  BY <1>1, <1>2 DEF Owns
<1>6. QED
  BY <1>1, <1>2, <1>3, <1>4, <1>5, QuietStep DEF server

\* A request is sent: it may be executed, once.
LEMMA SendKeeps == ASSUME TransportInv, NEW c \in Calls, Send(c) PROVE TransportInv'
<1>0. task[c].pc = "send" /\ ~Owns(c) /\ Typed /\ applied[c] = 0
  BY DEF Send, Owns, TransportInv, Executed
<1>1. CASE closed /\ Ends(c, "error")
  BY <1>0, <1>1, EndKeeps DEF Send, Ends, Outcomes, server
<1>2. CASE ~(closed /\ Ends(c, "error"))
  <2>1. PICK a \in {"ok", "unauthorized", "busy", "failed", "lost"}, executed \in {0, 1} :
          /\ a = "ok" => executed = 1
          /\ a \in {"unauthorized", "busy"} => executed = 0
          /\ applied' = [applied EXCEPT ![c] = applied[c] + executed]
          /\ Becomes(c, [task[c] EXCEPT !.pc = "sent", !.sent = token, !.answer = a])
          /\ UNCHANGED <<threaded, flight, token, issued, expired, renewals, closed>>
    BY <1>2 DEF Send
  <2> DEFINE u == [task[c] EXCEPT !.pc = "sent", !.sent = token, !.answer = a]
  <2>2. task' = [task EXCEPT ![c] = u] /\ UNCHANGED keys
    BY <2>1 DEF Becomes
  <2>3. u \in TaskSet /\ u.pc = "sent" /\ u.answer = a
    <3>1. task[c] \in TaskSet /\ token \in Tokens
      BY <1>0 DEF Typed
    <3>2. QED
      BY <3>1 DEF TaskSet, Places, Answers
  <2> HIDE DEF u
  <2>4. Moved(c) /\ task'[c] = u
    BY <1>0, <2>2, <2>3, MovedTo DEF Outcomes
  <2>5. applied' \in [Calls -> Nat] /\ applied'[c] = executed /\ \A d \in Calls \ {c} : applied'[d] = applied[d]
    BY <1>0, <2>1 DEF Typed
  <2>6. ~Owns(c)'
    BY <2>3, <2>4 DEF Owns
  <2>7. Typed'
    BY <1>0, <2>1, <2>2, <2>4, <2>5 DEF Typed, Moved, keys
  <2>8. KeyedOnly' /\ Owned'
    BY <1>0, <2>1, <2>2, <2>3, <2>4, <2>6, OwnedKept DEF TransportInv, keys
  <2>9. Spent'
    BY <2>1 DEF TransportInv, Spent
  <2>10. Refreshing'
    <3>1. issued \in Nat
      BY <1>0 DEF Typed, Tokens
    <3>2. QED
      BY <1>0, <2>1, <2>2, <2>4, <2>6, <3>1, RefreshingKept DEF TransportInv, keys
  <2>11. Executed'
    BY <2>1, <2>3, <2>4, <2>5, ExecutedKept DEF TransportInv
  <2>12. QED
    BY <2>7, <2>8, <2>9, <2>10, <2>11 DEF TransportInv
<1>3. QED
  BY <1>1, <1>2

\* An answer is reacted to.
LEMMA ReactKeeps == ASSUME TransportInv, NEW c \in Calls, React(c) PROVE TransportInv'
<1>0. task[c].pc = "sent" /\ ~Owns(c) /\ Typed /\ task[c] \in TaskSet
  BY DEF React, Owns, TransportInv, Typed
<1>1. PICK a \in {task[c].answer} \cup (IF closed THEN {"lost"} ELSE {}) :
        LET refresh == a = "unauthorized" /\ ~task[c].refreshed /\ token # 0
            again == Retryable(a) /\ task[c].attempt < MaxRetries
            t == [task[c] EXCEPT !.answer = "none"]
        IN \/ cancelled[c] /\ Ends(c, "cancelled") /\ UNCHANGED flight
           \/ /\ ~cancelled[c] /\ refresh
              /\ IF threaded THEN Becomes(c, [t EXCEPT !.pc = "enter", !.refreshed = TRUE]) /\ UNCHANGED flight
                 ELSE Enter(c, [t EXCEPT !.refreshed = TRUE])
           \/ /\ ~cancelled[c] /\ again
              /\ Becomes(c, [t EXCEPT !.pc = "send", !.attempt = @ + 1]) /\ UNCHANGED flight
           \/ /\ ~cancelled[c] /\ ~refresh /\ ~again
              /\ Ends(c, IF a = "ok" THEN "ok" ELSE "error") /\ UNCHANGED flight
  BY DEF React
<1>2. UNCHANGED <<threaded, token, server, renewals, closed, faults>>
  BY DEF React
<1> DEFINE t == [task[c] EXCEPT !.answer = "none"]
<1>3. t \in TaskSet
  BY <1>0 DEF TaskSet, Answers
<1>4. a \in {"unauthorized", "busy"} => applied[c] = 0
  BY <1>0 DEF TransportInv, Executed
<1> HIDE DEF t
<1>5. CASE \E x \in Outcomes : Ends(c, x) /\ UNCHANGED flight
  BY <1>0, <1>2, <1>5, EndKeeps DEF Ends
<1>6. CASE a = "unauthorized" /\ ~cancelled[c] /\ Enter(c, [t EXCEPT !.refreshed = TRUE])
  <2>1. [t EXCEPT !.refreshed = TRUE] \in TaskSet
    BY <1>3 DEF TaskSet
  <2>2. QED
    BY <1>0, <1>2, <1>4, <1>6, <2>1, EnterKeeps
<1>7. CASE /\ a = "unauthorized" /\ threaded /\ UNCHANGED flight
           /\ Becomes(c, [t EXCEPT !.pc = "enter", !.refreshed = TRUE])
  <2> DEFINE u == [t EXCEPT !.pc = "enter", !.refreshed = TRUE]
  <2>1. u \in TaskSet /\ u.pc = "enter"
    BY <1>3 DEF TaskSet, Places
  <2>2. task' = [task EXCEPT ![c] = u] /\ UNCHANGED keys
    BY <1>7 DEF Becomes
  <2> HIDE DEF u
  <2>3. Moved(c) /\ task'[c] = u
    BY <1>0, <2>1, <2>2, MovedTo DEF Outcomes
  <2>4. QED
    BY <1>0, <1>2, <1>4, <1>7, <2>1, <2>2, <2>3, QuietStep DEF keys, server, Typed, Owns
<1>8. CASE /\ Retryable(a) /\ task[c].attempt < MaxRetries /\ UNCHANGED flight
           /\ Becomes(c, [t EXCEPT !.pc = "send", !.attempt = @ + 1])
  <2> DEFINE u == [t EXCEPT !.pc = "send", !.attempt = @ + 1]
  <2>1. u \in TaskSet /\ u.pc = "send"
    <3>1. t.attempt = task[c].attempt /\ task[c].attempt \in 0..MaxRetries
      BY <1>0 DEF t, TaskSet
    <3>2. t.attempt + 1 \in 0..MaxRetries
      BY <1>8, <3>1, ConstantsOK
    <3>3. QED
      BY <1>3, <3>2 DEF TaskSet, Places
  <2>2. task' = [task EXCEPT ![c] = u] /\ UNCHANGED keys
    BY <1>8 DEF Becomes
  <2> HIDE DEF u
  <2>3. Moved(c) /\ task'[c] = u
    BY <1>0, <2>1, <2>2, MovedTo DEF Outcomes
  <2>4. QED
    BY <1>0, <1>2, <1>4, <1>8, <2>1, <2>2, <2>3, QuietStep DEF keys, server, Typed, Owns, Retryable
<1>9. QED
  BY <1>1, <1>5, <1>6, <1>7, <1>8 DEF Outcomes, t

\* A waiter goes on, or takes the flight.
LEMMA JoinKeeps == ASSUME TransportInv, NEW c \in Calls, Join(c) PROVE TransportInv'
<1>0. task[c].pc = "join" /\ ~Owns(c) /\ Typed /\ task[c] \in TaskSet /\ applied[c] = 0
  BY DEF Join, Owns, TransportInv, Typed, Executed
<1>1. UNCHANGED <<threaded, token, server, renewals, closed, faults>>
  BY DEF Join
<1>2. CASE \E x \in Outcomes : Ends(c, x) /\ UNCHANGED flight
  BY <1>0, <1>1, <1>2, EndKeeps DEF Ends
<1>3. CASE ~cancelled[c] /\ Enter(c, task[c])
  BY <1>0, <1>1, <1>3, EnterKeeps
<1>4. CASE Becomes(c, [task[c] EXCEPT !.pc = "send"]) /\ UNCHANGED flight
  <2> DEFINE u == [task[c] EXCEPT !.pc = "send"]
  <2>1. u \in TaskSet /\ u.pc = "send"
    BY <1>0 DEF TaskSet, Places
  <2>2. task' = [task EXCEPT ![c] = u] /\ UNCHANGED keys
    BY <1>4 DEF Becomes
  <2> HIDE DEF u
  <2>3. Moved(c) /\ task'[c] = u
    BY <1>0, <2>1, <2>2, MovedTo DEF Outcomes
  <2>4. QED
    BY <1>0, <1>1, <1>4, <2>1, <2>2, <2>3, QuietStep DEF keys, server, Typed, Owns
<1>5. QED
  BY <1>2, <1>3, <1>4 DEF Join, Barred, Outcomes

\* The owner's refresh is answered.
LEMMA RefreshSendKeeps == ASSUME TransportInv, NEW c \in Calls, RefreshSend(c) PROVE TransportInv'
<1>0. task[c].pc = "rsend" /\ Typed /\ task[c] \in TaskSet /\ applied[c] = 0
  BY DEF RefreshSend, TransportInv, Typed, Executed
<1>1. PICK a \in {"renewed", "odd", "busy", "lost"} :
        /\ a = "renewed" => issued < MaxToken
        /\ issued' = IF a = "renewed" THEN issued + 1 ELSE issued
        /\ Becomes(c, [task[c] EXCEPT !.pc = "rsent", !.answer = a])
        /\ UNCHANGED <<threaded, flight, token, expired, applied, renewals, closed>>
  BY DEF RefreshSend
<1> DEFINE u == [task[c] EXCEPT !.pc = "rsent", !.answer = a]
<1>2. task' = [task EXCEPT ![c] = u] /\ UNCHANGED keys
  BY <1>1 DEF Becomes
<1>3. u \in TaskSet /\ u.pc = "rsent" /\ u.answer = a /\ u.sent = task[c].sent
  BY <1>0 DEF TaskSet, Places, Answers
<1> HIDE DEF u
<1>4. Moved(c) /\ task'[c] = u
  BY <1>0, <1>2, <1>3, MovedTo DEF Outcomes
<1>5. /\ issued \in Nat /\ issued' \in Nat /\ issued' \in Tokens /\ issued <= issued'
      /\ a = "renewed" => issued < issued'
      /\ expired \in 0..issued /\ token \in Nat /\ token <= issued
  BY <1>0, <1>1, ConstantsOK DEF Typed, Tokens
<1>6. Typed'
  BY <1>0, <1>1, <1>2, <1>4, <1>5 DEF Typed, Moved, keys
<1>7. Owns(c)' <=> Owns(c)
  BY <1>0, <1>2, <1>3, <1>4 DEF Owns, keys
<1>8. KeyedOnly' /\ Owned'
  BY <1>0, <1>1, <1>2, <1>3, <1>4, <1>7, OwnedKept DEF TransportInv, keys
<1>9. \A t \in Real : t \in Nat
  BY DEF Real, Tokens
<1>10. Spent'
  BY <1>1, <1>5, <1>9 DEF TransportInv, Spent
<1>11. Refreshing'
  <2>1. task[c].sent \in Nat
    BY <1>0 DEF TaskSet, Tokens
  <2>2. \A t \in Real : renewals[t] # 0 => t <= issued
    BY DEF TransportInv, Spent
  <2>3. Owns(c)' => /\ u.sent # 0 => renewals[u.sent] = 0 /\ u.sent <= issued'
                    /\ u.answer = "renewed" =>
                         u.sent < issued' /\ \A t \in Real : renewals[t] # 0 => t < issued'
    BY <1>0, <1>3, <1>5, <1>7, <1>9, <2>1, <2>2 DEF TransportInv, Refreshing
  <2>4. QED
    BY <1>0, <1>1, <1>2, <1>4, <1>5, <2>3, RefreshingKept DEF TransportInv, keys
<1>12. Executed'
  BY <1>0, <1>1, <1>4, ExecutedKept DEF TransportInv
<1>13. QED
  BY <1>6, <1>8, <1>10, <1>11, <1>12 DEF TransportInv

\* Threads: the flight is taken down, then finished.
LEMMA ReleaseKeeps == ASSUME TransportInv, NEW c \in Calls, Release(c) \/ Finish(c) PROVE TransportInv'
<1>0. Typed /\ task[c] \in TaskSet /\ applied[c] = 0 /\ threaded
      /\ ~cancelled[c] /\ 0 \in 0..MaxRetries
  BY ConstantsOK DEF Release, Finish, TransportInv, Typed, Executed, KeyedOnly, IsKeyed
<1>1. UNCHANGED <<threaded, token, server, renewals, closed, faults>>
  BY DEF Release, Finish
<1>2. CASE Release(c)
  <2>1. PICK p \in {"finish", "finishError"} :
          /\ Becomes(c, [task[c] EXCEPT !.pc = p]) /\ flight' = NoFlight
          /\ task[c].pc \in {"release", "fail"}
    BY <1>2 DEF Release
  <2> DEFINE u == [task[c] EXCEPT !.pc = p]
  <2>2. task' = [task EXCEPT ![c] = u] /\ UNCHANGED keys
    BY <2>1 DEF Becomes
  <2>3. u \in TaskSet /\ u.pc = p
    BY <1>0 DEF TaskSet, Places
  <2> HIDE DEF u
  <2>4. Moved(c) /\ task'[c] = u
    BY <1>0, <2>2, <2>3, MovedTo DEF Outcomes
  <2>5. Owns(c) /\ ~Owns(c)'
    BY <1>0, <2>1, <2>2, <2>3, <2>4 DEF Owns, keys
  <2>6. QED
    BY <1>0, <1>1, <2>1, <2>2, <2>3, <2>4, <2>5, ReleasedTyped, QuietStep DEF keys, server, Typed
<1>3. CASE Finish(c) /\ task[c].pc = "finish"
  <2> DEFINE u == [task[c] EXCEPT !.pc = "send", !.attempt = 0]
  <2>1. task' = [Woken(c, "ok") EXCEPT ![c] = u] /\ UNCHANGED keys /\ flight' = flight
    BY <1>3 DEF Finish
  <2>2. u \in TaskSet /\ u.pc = "send"
    BY <1>0 DEF TaskSet, Places
  <2> HIDE DEF u
  <2>3. Moved(c) /\ task'[c] = u
    BY <1>0, <2>1, <2>2, MovedTo DEF Outcomes
  <2>4. QED
    BY <1>0, <1>1, <1>3, <2>1, <2>2, <2>3, QuietStep DEF keys, server, Typed, Owns
<1>4. CASE Finish(c) /\ task[c].pc = "finishError"
  BY <1>0, <1>1, <1>4, EndKeeps DEF Finish, Outcomes, Owns
<1>5. QED
  BY <1>2, <1>3, <1>4 DEF Finish

\* The answer to a refresh: saved by its owner only, and once for the refused token.
LEMMA RefreshReactKeeps == ASSUME TransportInv, NEW c \in Calls, RefreshReact(c) PROVE TransportInv'
<1>0. task[c].pc = "rsent" /\ Typed /\ task[c] \in TaskSet /\ applied[c] = 0 /\ 0 \in 0..MaxRetries
  BY ConstantsOK DEF RefreshReact, TransportInv, Typed, Executed
<1> DEFINE t == [task[c] EXCEPT !.answer = "none"]
           success == task[c].answer \in {"renewed", "odd"}
<1>1. t \in TaskSet /\ t.pc = "rsent" /\ t.sent = task[c].sent /\ t.attempt = task[c].attempt
  BY <1>0 DEF TaskSet, Answers
<1>2. UNCHANGED <<threaded, server, closed, faults>>
  BY DEF RefreshReact
<1>3. CASE Stale(c)
  <2>1. Ends(c, "cancelled") /\ flight' = Released(c) /\ UNCHANGED <<token, renewals>>
    BY <1>3 DEF RefreshReact
  <2>2. QED
    BY <1>2, <2>1, EndKeeps DEF Ends, Outcomes
<1>4. CASE /\ ~Stale(c) /\ task[c].attempt < MaxRetries /\ UNCHANGED <<flight, token, renewals>>
           /\ Becomes(c, [t EXCEPT !.pc = "rsend", !.attempt = @ + 1])
  <2> DEFINE u == [t EXCEPT !.pc = "rsend", !.attempt = @ + 1]
  <2>1. u \in TaskSet /\ u.pc = "rsend" /\ u.sent = task[c].sent
    <3>1. t.attempt + 1 \in 0..MaxRetries
      <4>1. task[c].attempt \in 0..MaxRetries
        BY <1>0 DEF TaskSet
      <4>2. QED
        BY <1>1, <1>4, <4>1, ConstantsOK
    <3> HIDE DEF t
    <3>2. QED
      BY <1>1, <3>1 DEF TaskSet, Places
  <2>2. task' = [task EXCEPT ![c] = u] /\ UNCHANGED keys
    BY <1>4 DEF Becomes
  <2> HIDE DEF u
  <2>3. Moved(c) /\ task'[c] = u
    BY <1>0, <2>1, <2>2, MovedTo DEF Outcomes
  <2>4. Owns(c) /\ Owns(c)'
    BY <1>0, <1>4, <2>1, <2>2, <2>3 DEF Owns, Stale, keys
  <2>5. QED
    BY <1>0, <1>2, <1>4, <2>1, <2>2, <2>3, <2>4, QuietStep DEF keys, server, Typed
<1>5. CASE ~Stale(c) /\ success /\ Saved(c)
  <2>1. Owns(c)
    BY <1>0, <1>5 DEF Owns, Stale
  <2>2. PICK u \in TaskSet :
          /\ Moved(c) /\ task'[c] = u /\ UNCHANGED keys
          /\ \/ threaded /\ u.pc = "release" /\ flight' = flight
             \/ ~threaded /\ u.pc = "send" /\ flight' = Released(c)
    <3> HIDE DEF t
    <3>1. CASE threaded
      <4> DEFINE u == [t EXCEPT !.pc = "release"]
      <4>1. task' = [task EXCEPT ![c] = u] /\ UNCHANGED keys /\ flight' = flight
        BY <1>0, <1>5, <3>1 DEF RefreshReact, Becomes, t
      <4>2. u \in TaskSet /\ u.pc = "release"
        BY <1>1 DEF TaskSet, Places
      <4> HIDE DEF u
      <4>3. Moved(c) /\ task'[c] = u
        BY <1>0, <4>1, <4>2, MovedTo DEF Outcomes
      <4>4. QED
        BY <3>1, <4>1, <4>2, <4>3
    <3>2. CASE ~threaded
      <4> DEFINE u == [t EXCEPT !.pc = "send", !.attempt = 0]
      <4>1. task' = [Woken(c, "ok") EXCEPT ![c] = u] /\ UNCHANGED keys /\ flight' = Released(c)
        BY <1>0, <1>5, <3>2 DEF RefreshReact, t
      <4>2. u \in TaskSet /\ u.pc = "send"
        BY <1>0, <1>1 DEF TaskSet, Places
      <4> HIDE DEF u
      <4>3. Moved(c) /\ task'[c] = u
        <5>1. "ok" \in Outcomes
          BY DEF Outcomes
        <5>2. Typed /\ u \in TaskSet
          BY <1>0, <4>2
        <5>3. QED
          BY <4>1, <5>1, <5>2, MovedTo
      <4>4. QED
        BY <3>2, <4>1, <4>2, <4>3
    <3>3. QED
      BY <3>1, <3>2
  <2>3. /\ token' = IF task[c].answer = "odd" THEN 0 ELSE issued
        /\ renewals' = [renewals EXCEPT ![task[c].sent] = renewals[task[c].sent] + 1]
    BY <1>5 DEF Saved
  <2>4. /\ issued \in Nat /\ 0 \in Tokens /\ issued \in Tokens /\ token' \in Tokens /\ token' <= issued
        /\ task[c].sent \in Tokens /\ \A x \in Tokens : x \in Nat
    BY <1>0, <2>3, ConstantsOK DEF Typed, Tokens, TaskSet
  <2>5. /\ renewals' \in [Tokens -> Nat]
        /\ \A x \in Tokens : x # task[c].sent => renewals'[x] = renewals[x]
        /\ renewals'[task[c].sent] = renewals[task[c].sent] + 1
    <3>1. renewals \in [Tokens -> Nat]
      BY <1>0 DEF Typed
    <3>2. renewals[task[c].sent] + 1 \in Nat
      <4>1. task[c].sent \in Tokens
        BY <2>4
      <4>2. renewals[task[c].sent] \in Nat
        BY <3>1, <4>1
      <4>3. QED
        BY <4>2
    <3>3. QED
      BY <2>3, <2>4, <3>1, <3>2
  <2>6. flight' \in [owner : Calls \cup {NoCall}, token : Tokens]
    BY <1>0, <2>2, ReleasedTyped DEF Typed
  <2>7. Typed'
    BY <1>0, <1>2, <2>2, <2>4, <2>5, <2>6 DEF Typed, Moved, keys, server
  <2>8. KeyedOnly' /\ Owned'
    BY <1>0, <1>2, <2>1, <2>2, OwnedKept DEF TransportInv, keys, Owns
  <2>9. /\ task[c].sent # 0 => renewals[task[c].sent] = 0 /\ task[c].sent <= issued
        /\ task[c].answer = "renewed" =>
             task[c].sent < issued /\ \A x \in Real : renewals[x] # 0 => x < issued
    BY <1>0, <2>1 DEF TransportInv, Refreshing
  <2>10. Spent'
    <3> SUFFICES ASSUME NEW x \in Real
                 PROVE  renewals'[x] = 0 \/ (renewals'[x] = 1 /\ x <= issued /\ x # token')
      BY <1>2 DEF Spent, server
    <3>0. x \in Nat /\ x # 0 /\ x \in Tokens
      BY <2>4 DEF Real
    <3>1. CASE x = task[c].sent
      <4>1. renewals'[x] = 1 /\ x <= issued
        BY <2>5, <2>9, <3>0, <3>1
      <4>2. x # token'
        BY <1>5, <2>3, <2>4, <2>9, <3>0, <3>1
      <4>3. QED
        BY <4>1, <4>2
    <3>2. CASE x # task[c].sent
      <4>1. renewals'[x] = renewals[x] /\ (renewals[x] = 0 \/ (renewals[x] = 1 /\ x <= issued))
        BY <2>5, <3>0, <3>2 DEF TransportInv, Spent
      <4>2. renewals[x] # 0 => x # token'
        BY <1>5, <2>3, <2>4, <2>9, <3>0
      <4>3. QED
        BY <4>1, <4>2
    <3>3. QED
      BY <3>1, <3>2
  <2>11. Refreshing'
    <3> SUFFICES ASSUME NEW d \in Calls, Owns(d)', task'[d].pc \in {"rsend", "rsent"} PROVE FALSE
      BY DEF Refreshing
    <3>1. d # c
      BY <2>2
    <3>2. Owns(d)
      BY <2>2, <3>1 DEF Owns, Moved, Alike, keys
    <3>3. QED
      BY <2>1, <3>1, <3>2 DEF TransportInv, Owned
  <2>12. Executed'
    BY <1>0, <1>2, <2>2, ExecutedKept DEF TransportInv, server
  <2>13. QED
    BY <2>7, <2>8, <2>10, <2>11, <2>12 DEF TransportInv
<1>6. CASE ~Stale(c) /\ ~success /\ UNCHANGED <<token, renewals>>
           /\ ~(task[c].answer = "busy" /\ task[c].attempt < MaxRetries)
  <2>1. Owns(c)
    BY <1>0, <1>6 DEF Owns, Stale
  <2>2. CASE threaded
    <3> DEFINE u == [t EXCEPT !.pc = "fail"]
    <3>1. task' = [task EXCEPT ![c] = u] /\ UNCHANGED keys /\ flight' = flight
      BY <1>0, <1>6, <2>2 DEF RefreshReact, Becomes
    <3>2. u \in TaskSet /\ u.pc = "fail"
      <4> HIDE DEF t
      <4>1. QED
        BY <1>1 DEF TaskSet, Places
    <3> HIDE DEF u
    <3>3. Moved(c) /\ task'[c] = u
      BY <1>0, <3>1, <3>2, MovedTo DEF Outcomes
    <3>4. Owns(c)'
      BY <2>1, <3>1, <3>2, <3>3 DEF Owns, keys
    <3>5. QED
      BY <1>0, <1>2, <1>6, <2>1, <2>2, <3>1, <3>2, <3>3, <3>4, QuietStep DEF keys, server, Typed
  <2>3. CASE ~threaded
    <3>1. /\ task' = [Woken(c, "error") EXCEPT ![c] = At("ended")]
          /\ flight' = Released(c) /\ Told(c, "error")
      BY <1>0, <1>6, <2>3 DEF RefreshReact
    <3>2. QED
      BY <1>2, <1>6, <3>1, EndKeeps DEF Outcomes
  <2>4. QED
    BY <2>2, <2>3
<1>7. QED
  BY <1>0, <1>3, <1>4, <1>5, <1>6 DEF RefreshReact

\* A request is superseded, perhaps by one that is sent: the flight it owned is given up.
LEMMA SupersedeKeeps ==
  ASSUME TransportInv, NEW k \in Calls, IsKeyed(k), CancelKeyed(k),
         NEW c \in Calls, Moved(c),
         Alike(task'[c], task[c]) \/ (task[c].pc = "idle" /\ task'[c].pc = "send"),
         keyed' \in Calls \cup {NoCall}, keyed' # NoCall => IsKeyed(keyed'),
         out' \in [Calls -> Outcomes],
         UNCHANGED <<threaded, token, server, renewals>>
  PROVE  TransportInv'
<1>0. Typed
  BY DEF TransportInv
<1>1. /\ cancelled' \in [Calls -> BOOLEAN] /\ cancelled'[k]
      /\ \A d \in Calls : cancelled[d] => cancelled'[d]
      /\ \A d \in Calls : d # k => cancelled'[d] = cancelled[d]
      /\ res' \in [Calls -> Outcomes] /\ flight' = Released(k)
  BY <1>0 DEF CancelKeyed, Typed, Outcomes
<1>2. Typed'
  BY <1>0, <1>1, ReleasedTyped DEF Typed, Moved, server
<1>3. \A d \in Calls : /\ Owns(d)' <=> Owns(d) /\ d # k
                       /\ Owns(d)' => Alike(task'[d], task[d])
                       /\ Alike(task'[d], task[d]) \/ (task[d].pc = "idle" /\ task'[d].pc = "send")
  BY <1>1 DEF Moved, Alike, Owns
<1>4. KeyedOnly'
  BY <1>1, <1>3 DEF TransportInv, KeyedOnly, IsKeyed, Alike
<1>5. Owned'
  BY <1>0, <1>1, <1>3, ConstantsOK DEF TransportInv, Owned, Released, NoFlight
<1>6. Spent'
  BY DEF TransportInv, Spent, server
<1>7. Refreshing'
  BY <1>3 DEF TransportInv, Refreshing, Alike, server
<1>8. Executed'
  BY <1>3 DEF TransportInv, Executed, Alike, server
<1>9. QED
  BY <1>2, <1>4, <1>5, <1>6, <1>7, <1>8 DEF TransportInv

\* A superseded request wakes those who waited for the flight it owned.
LEMMA FreedAlike ==
  ASSUME Typed, NEW k \in Calls
  PROVE  /\ FreedWaiters(k) \in [Calls -> TaskSet]
         /\ \A d \in Calls : Alike(FreedWaiters(k)[d], task[d])
<1>1. "cancelled" \in Outcomes
  BY DEF Outcomes
<1>2. QED
  BY <1>1, WokenTyped DEF FreedWaiters, Typed, Alike

\* A request is issued, and supersedes the one before it under its key.
LEMMA IssueKeeps == ASSUME TransportInv, NEW c \in Calls, Issue(c) PROVE TransportInv'
<1>0. Typed /\ task[c].pc = "idle" /\ ~Owns(c) /\ applied[c] = 0
      /\ UNCHANGED <<threaded, token, server, renewals>>
  BY DEF Issue, TransportInv, Executed, Owns
<1>1. At("send") \in TaskSet /\ At("send").pc = "send"
  BY AtTyped DEF Places
<1>2. CASE ~IsKeyed(c)
  <2>1. task' = [task EXCEPT ![c] = At("send")] /\ UNCHANGED <<keys, flight>>
    BY <1>2 DEF Issue, Becomes
  <2>2. Moved(c) /\ task'[c] = At("send")
    BY <1>0, <1>1, <2>1, MovedTo DEF Outcomes
  <2>3. ~Owns(c)'
    BY <1>1, <2>2 DEF Owns
  <2>4. QED
    BY <1>0, <1>1, <2>1, <2>2, <2>3, QuietStep DEF keys, server, Typed
<1>3. CASE IsKeyed(c) /\ keyed # NoCall /\ ~cancelled[keyed]
  <2>1. /\ keyed' = c /\ UNCHANGED out /\ CancelKeyed(keyed)
        /\ task' = [FreedWaiters(keyed) EXCEPT ![c] = At("send")]
    BY <1>3 DEF Issue
  <2>2. keyed \in Calls /\ IsKeyed(keyed)
    BY <1>0, <1>3 DEF Typed, TransportInv, KeyedOnly
  <2>3. Moved(c) /\ task'[c] = At("send")
    BY <1>0, <1>1, <2>1, <2>2, FreedAlike DEF Moved
  <2>4. IsKeyed(keyed')
    BY <1>3, <2>1
  <2>5. QED
    BY <1>0, <1>1, <2>1, <2>2, <2>3, <2>4, SupersedeKeeps DEF Typed
<1>4. CASE IsKeyed(c) /\ (keyed = NoCall \/ cancelled[keyed])
  <2>1. /\ keyed' = c /\ UNCHANGED <<out, cancelled, res, flight>>
        /\ task' = [task EXCEPT ![c] = At("send")]
    BY <1>4 DEF Issue
  <2>2. Moved(c) /\ task'[c] = At("send")
    BY <1>0, <1>1, <2>1, MovedTo DEF Outcomes
  <2>3. ~Owns(c)'
    BY <1>1, <2>2 DEF Owns
  <2>4. Typed'
    BY <1>0, <2>1, <2>2 DEF Typed, Moved, server
  <2>5. \A d \in Calls : Owns(d)' <=> Owns(d)
    BY <1>0, <2>1, <2>2, <2>3 DEF Owns, Moved, Alike
  <2>6. KeyedOnly'
    BY <1>0, <1>1, <1>4, <2>1, <2>2 DEF TransportInv, KeyedOnly, IsKeyed, Moved, Alike
  <2>7. Owned' /\ Spent'
    BY <1>0, <2>1, <2>5 DEF TransportInv, Owned, NoFlight, Spent, server
  <2>8. Refreshing' /\ Executed'
    BY <1>0, <2>1, <2>2, <2>3, <2>5 DEF TransportInv, Refreshing, Executed, Moved, Alike, server
  <2>9. QED
    BY <2>4, <2>6, <2>7, <2>8 DEF TransportInv
<1>5. QED
  BY <1>2, <1>3, <1>4

\* A caller resumes, or is cancelled.
LEMMA CallerKeeps == ASSUME TransportInv, NEW c \in Calls, Resume(c) \/ CancelCaller(c) PROVE TransportInv'
<1>0. Typed /\ UNCHANGED <<threaded, token, server, renewals>>
  BY DEF Resume, CancelCaller, TransportInv
<1>1. \A d \in Calls : Alike(task[d], task[d])
  BY DEF Alike
<1>2. CASE Resume(c)
  <2>1. /\ UNCHANGED <<task, res, cancelled, flight>> /\ keyed' \in {keyed, NoCall}
        /\ out' = [out EXCEPT ![c] = Result(c)]
    BY <1>2 DEF Resume
  <2>2. Result(c) \in Outcomes
    BY <1>0 DEF Result, Typed, Outcomes
  <2>3. Moved(c) /\ Alike(task'[c], task[c])
    BY <1>0, <2>1 DEF Moved, Alike, Typed
  <2>4. out' \in [Calls -> Outcomes]
    BY <1>0, <2>1, <2>2 DEF Typed
  <2>5. Owns(c)' <=> Owns(c)
    BY <2>1 DEF Owns
  <2>6. task[c].pc \in {"enter", "release", "fail", "finish", "finishError"} => threaded
    BY DEF TransportInv, KeyedOnly
  <2>7. QED
    BY <1>0, <2>1, <2>3, <2>4, <2>5, <2>6, QuietStep DEF server, Typed
<1>3. CASE CancelCaller(c) /\ IsKeyed(c)
  <2>1. /\ CancelKeyed(c) /\ task' = FreedWaiters(c) /\ keyed' \in {keyed, NoCall}
        /\ out' = [out EXCEPT ![c] = "cancelled"]
    BY <1>3 DEF CancelCaller
  <2>2. Moved(c) /\ Alike(task'[c], task[c])
    BY <1>0, <2>1, FreedAlike DEF Moved
  <2>3. keyed' \in Calls \cup {NoCall} /\ (keyed' # NoCall => IsKeyed(keyed'))
    BY <1>0, <2>1 DEF Typed, TransportInv, KeyedOnly
  <2>4. out' \in [Calls -> Outcomes]
    BY <1>0, <2>1 DEF Typed, Outcomes
  <2>5. QED
    BY <1>0, <1>3, <2>1, <2>2, <2>3, <2>4, SupersedeKeeps
<1>4. CASE CancelCaller(c) /\ ~IsKeyed(c)
  BY <1>0, <1>4, EndKeeps DEF CancelCaller, Outcomes
<1>5. QED
  BY <1>2, <1>3, <1>4

\* aclose, sign-ins and sign-outs, and tokens that run out.
LEMMA OutsideKeeps == ASSUME TransportInv, Close \/ StoreChanges \/ Expire PROVE TransportInv'
<1>0. Typed /\ UNCHANGED <<threaded, renewals, applied>>
  BY DEF Close, StoreChanges, Expire, TransportInv, server
<1>1. CASE Close /\ keyed # NoCall /\ ~cancelled[keyed]
  <2>1. /\ CancelKeyed(keyed) /\ task' = FreedWaiters(keyed) /\ keyed' = NoCall
        /\ UNCHANGED <<out, token, server>>
    BY <1>1 DEF Close
  <2>2. keyed \in Calls /\ IsKeyed(keyed)
    BY <1>0, <1>1 DEF Typed, TransportInv, KeyedOnly
  <2>3. Moved(keyed) /\ Alike(task'[keyed], task[keyed])
    BY <1>0, <2>1, <2>2, FreedAlike DEF Moved
  <2>4. QED
    BY <1>0, <2>1, <2>2, <2>3, SupersedeKeeps DEF Typed
<1>2. CASE Close /\ ~(keyed # NoCall /\ ~cancelled[keyed])
  <2>1. keyed' = NoCall /\ UNCHANGED <<task, out, res, cancelled, flight, token, issued, expired>>
    BY <1>2 DEF Close, server
  <2>2. Typed' /\ KeyedOnly' /\ Owned'
    BY <1>0, <2>1 DEF TransportInv, Typed, KeyedOnly, IsKeyed, Owned, Owns, NoFlight
  <2>3. Spent' /\ Refreshing' /\ Executed'
    BY <1>0, <2>1 DEF TransportInv, Spent, Refreshing, Owns, Executed
  <2>4. QED
    BY <2>2, <2>3 DEF TransportInv
<1>3. CASE StoreChanges \/ Expire
  <2>1. UNCHANGED <<task, keys, flight>>
    BY <1>3 DEF StoreChanges, Expire
  <2>2. /\ issued \in Nat /\ token \in Nat /\ expired \in Nat /\ token <= issued /\ expired <= issued
        /\ \A t \in Real : t \in Nat /\ t # 0
        /\ \A c \in Calls : task[c].sent \in Nat
    BY <1>0 DEF Typed, Tokens, Real, TaskSet
  <2>3. /\ issued' \in Tokens /\ token' \in Tokens /\ expired' \in 0..issued'
        /\ issued' \in Nat /\ issued <= issued' /\ token' <= issued'
        /\ token' = token \/ token' = 0 \/ token' = issued + 1
    BY <1>0, <1>3, <2>2, ConstantsOK DEF StoreChanges, Expire, Typed, Tokens
  <2>4. Typed'
    BY <1>0, <2>1, <2>3 DEF Typed, keys
  <2>5. KeyedOnly' /\ Owned'
    BY <1>0, <2>1 DEF TransportInv, KeyedOnly, IsKeyed, Owned, Owns, NoFlight, keys
  <2>6. Spent'
    BY <1>0, <2>2, <2>3 DEF TransportInv, Spent
  <2>7. Refreshing'
    BY <1>0, <2>1, <2>2, <2>3 DEF TransportInv, Refreshing, Owns, keys
  <2>8. Executed'
    BY <1>0, <2>1 DEF TransportInv, Executed
  <2>9. QED
    BY <2>4, <2>5, <2>6, <2>7, <2>8 DEF TransportInv
<1>4. QED
  BY <1>1, <1>2, <1>3

\* The invariant is inductive.
LEMMA TransportInductive == TransportInv /\ [TransportNext]_transportVars => TransportInv'
<1> SUFFICES ASSUME TransportInv, [TransportNext]_transportVars PROVE TransportInv'
  OBVIOUS
<1>1. CASE UNCHANGED transportVars
  BY <1>1
     DEF transportVars, keys, server, TransportInv, Typed, KeyedOnly, IsKeyed, Owned, Owns,
         NoFlight, Spent, Refreshing, Executed
<1>2. ASSUME NEW c \in Calls, Step(c) PROVE TransportInv'
  <2>1. CASE EnterGuard(c)
    <3>1. /\ task[c].pc = "enter" /\ Enter(c, task[c]) /\ task[c] \in TaskSet
          /\ UNCHANGED <<threaded, token, server, renewals>>
      BY <2>1 DEF EnterGuard, TransportInv, Typed
    <3>2. threaded /\ ~cancelled[c] /\ ~Owns(c) /\ applied[c] = 0
      BY <3>1 DEF TransportInv, KeyedOnly, IsKeyed, Owns, Executed
    <3>3. QED
      BY <3>1, <3>2, EnterKeeps
  <2>2. QED
    BY <1>2, <2>1, SendKeeps, ReactKeeps, JoinKeeps, RefreshSendKeeps, RefreshReactKeeps,
       ReleaseKeeps DEF Step
<1>3. ASSUME NEW c \in Calls, CancelLands(c) PROVE TransportInv'
  BY <1>3, EndKeeps DEF CancelLands, Ends, Outcomes
<1>4. QED
  BY <1>1, <1>2, <1>3, IssueKeeps, CallerKeeps, OutsideKeeps DEF TransportNext

\* Nothing is done twice, for any calls, keys, retries, tokens and faults: neither the
\* renewal of one refused token, by either transport, nor a request.
THEOREM TransportIsSound == TransportSpec => []TransportSound
<1>1. TransportInv => TransportSound
  <2> SUFFICES ASSUME TransportInv PROVE TransportSound
    OBVIOUS
  <2>1. TransportTypeOK
    BY DEF TransportInv, Typed, Owned, Owns, TransportTypeOK, TaskSet, Places, Answers, Outcomes
  <2>2. OneRenewal
    BY DEF TransportInv, Spent, Real, OneRenewal
  <2>3. AtMostOnce
    BY DEF TransportInv, Typed, Executed, AtMostOnce
  <2>4. QED
    BY <2>1, <2>2, <2>3 DEF TransportSound
<1>2. QED
  BY <1>1, TransportInitial, TransportInductive, PTL DEF TransportSpec

\* Nobody but its caller says how a request with a key ends, and a caller whose
\* request was superseded is told so.
LEMMA KeyedTold ==
  ASSUME TransportInv, NEW c \in Calls, cancelled[c], [TransportNext]_transportVars
  PROVE  out'[c] \in {out[c], "cancelled"}
<1>0. Typed /\ IsKeyed(c)
  BY DEF TransportInv, KeyedOnly
<1>1. ASSUME NEW d \in Calls, NEW o \in Outcomes, Told(d, o) PROVE out'[c] = out[c]
  BY <1>0, <1>1, ToldTyped
<1>2. CASE UNCHANGED out
  BY <1>2
<1>3. ASSUME NEW d \in Calls, Step(d) PROVE out'[c] = out[c]
  <2>1. UNCHANGED out \/ \E o \in Outcomes : Told(d, o)
    <3>1. Send(d) \/ React(d) => UNCHANGED out \/ \E o \in Outcomes : Told(d, o)
      BY DEF Send, React, Enter, Becomes, Ends, keys, Outcomes
    <3>2. EnterGuard(d) \/ Join(d) => UNCHANGED out \/ \E o \in Outcomes : Told(d, o)
      BY DEF EnterGuard, Join, Enter, Becomes, Ends, keys, Outcomes
    <3>3. RefreshSend(d) \/ RefreshReact(d) => UNCHANGED out \/ \E o \in Outcomes : Told(d, o)
      BY DEF RefreshSend, RefreshReact, Becomes, Ends, keys, Outcomes
    <3>4. Release(d) \/ Finish(d) => UNCHANGED out \/ \E o \in Outcomes : Told(d, o)
      BY DEF Release, Finish, Becomes, keys, Outcomes
    <3>5. QED
      BY <1>3, <3>1, <3>2, <3>3, <3>4 DEF Step
  <2>2. QED
    BY <1>1, <2>1
<1>4. ASSUME NEW d \in Calls, Issue(d) \/ CancelLands(d) PROVE out'[c] = out[c]
  BY <1>1, <1>4 DEF Issue, Becomes, CancelLands, Ends, keys, Outcomes
<1>5. ASSUME NEW d \in Calls, Resume(d) \/ CancelCaller(d) PROVE out'[c] \in {out[c], "cancelled"}
  <2>1. CASE Resume(d)
    BY <1>0, <2>1 DEF Resume, Result, Typed
  <2>2. CASE CancelCaller(d)
    BY <1>0, <1>1, <2>2 DEF CancelCaller, Typed, Outcomes
  <2>3. QED
    BY <1>5, <2>1, <2>2
<1>6. CASE Close \/ StoreChanges \/ Expire
  BY <1>6 DEF Close, StoreChanges, Expire, keys
<1>7. QED
  BY <1>2, <1>3, <1>4, <1>5, <1>6 DEF TransportNext, transportVars, keys

\* The store changes under a sign-in or a sign-out, or as a refresh is saved whose
\* owner was not superseded.
LEMMA StoreKept ==
  ASSUME TransportInv, NEW c \in Calls, cancelled[c], [TransportNext]_transportVars,
         token' # token
  PROVE  task'[c].pc = task[c].pc
<1>0. Typed
  BY DEF TransportInv
<1>1. CASE StoreChanges
  BY <1>1 DEF StoreChanges
<1>2. ASSUME NEW d \in Calls, RefreshReact(d) PROVE task'[c].pc = task[c].pc
  <2>1. ~Stale(d) /\ d # c
    BY <1>2 DEF RefreshReact, Stale
  <2>2. \E r : task' = [task EXCEPT ![d] = r] \/ task' = [Woken(d, "ok") EXCEPT ![d] = r]
               \/ task' = [Woken(d, "error") EXCEPT ![d] = r]
    BY <1>2 DEF RefreshReact, Becomes, Ends
  <2>3. /\ Woken(d, "ok") \in [Calls -> TaskSet] /\ Woken(d, "error") \in [Calls -> TaskSet]
        /\ Woken(d, "ok")[c].pc = task[c].pc /\ Woken(d, "error")[c].pc = task[c].pc
    BY <1>0, WokenTyped DEF Typed, Outcomes
  <2>4. QED
    BY <1>0, <2>1, <2>2, <2>3 DEF Typed
<1>3. ~(UNCHANGED transportVars \/ Close \/ Expire)
  BY DEF Close, Expire, transportVars
<1>4. ASSUME NEW d \in Calls
      PROVE  ~(Issue(d) \/ Send(d) \/ React(d) \/ EnterGuard(d) \/ Join(d) \/ RefreshSend(d)
               \/ Release(d) \/ Finish(d) \/ CancelLands(d) \/ Resume(d) \/ CancelCaller(d))
  BY DEF Issue, Send, React, EnterGuard, Join, RefreshSend, Release, Finish, CancelLands, Resume,
         CancelCaller
<1>5. QED
  BY <1>1, <1>2, <1>3, <1>4 DEF TransportNext, Step

\* A superseded call ends as cancelled, whatever was already set or under way, and its
\* refresh never reaches the auth store.
THEOREM LatestCallWins == TransportSpec => LatestWins
<1> DEFINE Wins(c) == cancelled[c] =>
             /\ out[c] = "none" => out'[c] \in {"none", "cancelled"}
             /\ task[c].pc = "rsent" /\ task'[c].pc # "rsent" => token' = token
<1>1. TransportInv /\ [TransportNext]_transportVars => [\A c \in Calls : Wins(c)]_transportVars
  BY KeyedTold, StoreKept
<1>2. QED
  BY <1>1, TransportInitial, TransportInductive, PTL DEF TransportSpec, LatestWins
================================================================================
