----------------------------- MODULE ProcessRunner -----------------------------
(* evals/agents/process.py: run_process runs a command in a process group of its
   own, copies its output into private logs under one byte budget, and cleans
   the group up after an exit, a timeout, a Ctrl-C or a failed start.

   The actors are the runner's main thread, one pump thread per stream, and the
   command with the helpers it starts.  A helper may hold the ends of the pipes
   it inherited, ignore SIGTERM, or leave the group.  A wait with a timeout may
   end by the timeout at any time.                                            *)
EXTENDS Integers, FiniteSets

CONSTANTS
  Leader, Helpers,   \* the command, and the processes it may start
  Stubborn,          \* processes that ignore SIGTERM
  Quiet,             \* processes that hold no pipe
  Detached,          \* helpers that leave the process group (setsid)
  MaxBytes,          \* max_output_bytes
  MaxWrites,         \* bytes the processes write
  MaxInterrupts      \* Ctrl-C

Procs == Helpers \cup {Leader}
Streams == {"stdout", "stderr"}

ASSUME RunnerConstants ==
  /\ Leader \notin Helpers
  /\ Stubborn \subseteq Procs /\ Quiet \subseteq Helpers /\ Detached \subseteq Helpers
  /\ MaxBytes \in Nat /\ MaxWrites \in Nat /\ MaxInterrupts \in Nat

VARIABLES
  proc,        \* process -> "none", "group", "detached" or "gone"
  pipe,        \* stream -> bytes written and not yet read
  chunk,       \* stream -> bytes a pump has read and not yet claimed
  pump,        \* stream -> "off", "on" or "eof"
  got,         \* bytes in the logs
  remaining, truncated,  \* _CaptureBudget
  pc,          \* where run_process is
  cause,       \* why the command is being terminated
  sigint,      \* a Ctrl-C deferred by _defer_startup_interrupt
  interrupts, written

rvars == <<proc, pipe, chunk, pump, got, remaining, truncated, pc, cause, sigint,
           interrupts, written>>

RunnerInit ==
  /\ proc = [p \in Procs |-> "none"]
  /\ pipe = [s \in Streams |-> 0] /\ chunk = [s \in Streams |-> 0]
  /\ pump = [s \in Streams |-> "off"]
  /\ got = 0 /\ remaining = MaxBytes /\ truncated = FALSE
  /\ pc = "start" /\ cause = "none" /\ sigint = FALSE
  /\ interrupts = 0 /\ written = 0

Alive(p) == proc[p] \in {"group", "detached"}
Holders == {p \in Procs \ Quiet : Alive(p)}
Pumping == \E s \in Streams : pump[s] = "on"

(* _signal_group: killpg reaches what is still in the group *)
Signaled(force) ==
  [p \in Procs |-> IF proc[p] = "group" /\ (force \/ p \notin Stubborn) THEN "gone" ELSE proc[p]]

-------------------------------------------------------------------------------
(* the command and its helpers *)
Spawn(h) ==
  /\ Alive(Leader) /\ proc[h] = "none"
  /\ proc' = [proc EXCEPT ![h] = IF h \in Detached THEN "detached" ELSE "group"]
  /\ UNCHANGED <<pipe, chunk, pump, got, remaining, truncated, pc, cause, sigint,
                 interrupts, written>>

Exit(p) ==
  /\ Alive(p)
  /\ proc' = [proc EXCEPT ![p] = "gone"]
  /\ UNCHANGED <<pipe, chunk, pump, got, remaining, truncated, pc, cause, sigint,
                 interrupts, written>>

Write(p, s) ==
  /\ p \in Holders /\ written < MaxWrites
  /\ pipe' = [pipe EXCEPT ![s] = @ + 1]
  /\ written' = written + 1
  /\ UNCHANGED <<proc, chunk, pump, got, remaining, truncated, pc, cause, sigint, interrupts>>

-------------------------------------------------------------------------------
(* _pump: read, claim under the budget's lock, until end of file *)
PumpRead(s) ==
  /\ pump[s] = "on" /\ chunk[s] = 0 /\ pipe[s] > 0
  /\ chunk' = [chunk EXCEPT ![s] = pipe[s]]
  /\ pipe' = [pipe EXCEPT ![s] = 0]
  /\ UNCHANGED <<proc, pump, got, remaining, truncated, pc, cause, sigint, interrupts, written>>

(* what _CaptureBudget.claim records as truncation *)
Cut(size, accepted) == accepted # size

PumpClaim(s) ==
  /\ chunk[s] > 0
  /\ LET accepted == IF chunk[s] <= remaining THEN chunk[s] ELSE remaining
     IN /\ remaining' = remaining - accepted
        /\ truncated' = (truncated \/ Cut(chunk[s], accepted))
        /\ got' = got + accepted
  /\ chunk' = [chunk EXCEPT ![s] = 0]
  /\ UNCHANGED <<proc, pipe, pump, pc, cause, sigint, interrupts, written>>

PumpEof(s) ==
  /\ pump[s] = "on" /\ chunk[s] = 0 /\ pipe[s] = 0 /\ Holders = {}
  /\ pump' = [pump EXCEPT ![s] = "eof"]
  /\ UNCHANGED <<proc, pipe, chunk, got, remaining, truncated, pc, cause, sigint,
                 interrupts, written>>

-------------------------------------------------------------------------------
(* the main thread *)
Main(from, to, why) == pc = from /\ pc' = to /\ cause' = why

(* Popen and the pumps, with Ctrl-C deferred *)
Start ==
  /\ Main("start", "deliver", cause)
  /\ proc' = [proc EXCEPT ![Leader] = "group"]
  /\ pump' = [s \in Streams |-> "on"]
  /\ UNCHANGED <<pipe, chunk, got, remaining, truncated, sigint, interrupts, written>>

(* a thread could not be started: the child is terminated and the error raised *)
StartFails ==
  /\ Main("start", "term", "failed")
  /\ proc' = [proc EXCEPT ![Leader] = IF Leader \in Stubborn THEN "group" ELSE "gone"]
  /\ \E on \in {{}, {"stdout"}} : pump' = [s \in Streams |-> IF s \in on THEN "on" ELSE "off"]
  /\ UNCHANGED <<pipe, chunk, got, remaining, truncated, sigint, interrupts, written>>

(* deliver_interrupt, then the wait: a signal sends the group SIGTERM *)
Deliver ==
  /\ IF sigint THEN Main("deliver", "term", "interrupted") /\ proc' = Signaled(FALSE)
               ELSE Main("deliver", "wait", cause) /\ UNCHANGED proc
  /\ sigint' = FALSE
  /\ UNCHANGED <<pipe, chunk, pump, got, remaining, truncated, interrupts, written>>

WaitEnds ==
  /\ Main("wait", "sweep", cause) /\ ~Alive(Leader)
  /\ UNCHANGED <<proc, pipe, chunk, pump, got, remaining, truncated, sigint, interrupts, written>>

(* process.wait ran out: _terminate_group sends SIGTERM *)
WaitTimesOut ==
  /\ Main("wait", "term", "timed_out") /\ Alive(Leader)
  /\ proc' = Signaled(FALSE)
  /\ UNCHANGED <<pipe, chunk, pump, got, remaining, truncated, sigint, interrupts, written>>

(* _terminate_group waits for the command, for ever once it sent SIGKILL *)
TermEnds ==
  /\ pc \in {"term", "reap"} /\ ~Alive(Leader)
  /\ pc' = "sweep"
  /\ UNCHANGED <<proc, pipe, chunk, pump, got, remaining, truncated, cause, sigint,
                 interrupts, written>>

TermTimesOut ==
  /\ Main("term", "reap", cause) /\ Alive(Leader)
  /\ proc' = Signaled(TRUE)
  /\ UNCHANGED <<pipe, chunk, pump, got, remaining, truncated, sigint, interrupts, written>>

(* the finally: SIGTERM to what is left of the group, then join the pumps *)
Sweep ==
  /\ Main("sweep", "join1", cause)
  /\ proc' = Signaled(FALSE)
  /\ UNCHANGED <<pipe, chunk, pump, got, remaining, truncated, sigint, interrupts, written>>

JoinEnds ==
  /\ pc \in {"join1", "join2"} /\ ~Pumping
  /\ pc' = "close"
  /\ UNCHANGED <<proc, pipe, chunk, pump, got, remaining, truncated, cause, sigint,
                 interrupts, written>>

(* Mutant: the second signal is SIGTERM again. *)
SignaledAgain == Signaled(FALSE)

(* the group does not survive the second signal *)
Killed == Signaled(TRUE)

(* a pump that outlives the first grace period brings SIGKILL on the group; it
   is blocked in a read then: a grace period outlasts what is left to copy *)
JoinTimesOut ==
  /\ pc \in {"join1", "join2"} /\ Pumping /\ Holders # {}
  /\ \A s \in Streams : pipe[s] = 0 /\ chunk[s] = 0
  /\ pc' = IF pc = "join1" THEN "join2" ELSE "close"
  /\ proc' = IF pc = "join1" THEN Killed ELSE proc
  /\ UNCHANGED <<pipe, chunk, pump, got, remaining, truncated, cause, sigint,
                 interrupts, written>>

(* pipe.close() waits for the lock of a pump that is still reading *)
ClosePipes ==
  /\ Main("close", "done", cause) /\ ~Pumping
  /\ UNCHANGED <<proc, pipe, chunk, pump, got, remaining, truncated, sigint, interrupts, written>>

(* Ctrl-C: deferred during the start; ends the wait; ends the termination, whose
   finally still runs; ends the joins of the finally and run_process with them *)
Interrupt ==
  /\ interrupts < MaxInterrupts
  /\ interrupts' = interrupts + 1
  /\ \/ /\ pc = "deliver" /\ sigint' = TRUE /\ UNCHANGED <<pc, cause, proc>>
     \/ /\ pc = "wait" /\ pc' = "term" /\ cause' = "interrupted"
        /\ proc' = Signaled(FALSE) /\ UNCHANGED sigint
     \/ /\ pc \in {"term", "reap"} /\ pc' = "sweep" /\ cause' = "failed"
        /\ UNCHANGED <<proc, sigint>>
     \/ /\ pc \in {"sweep", "join1", "join2"} /\ pc' = "raised" /\ cause' = "failed"
        /\ UNCHANGED <<proc, sigint>>
  /\ UNCHANGED <<pipe, chunk, pump, got, remaining, truncated, written>>

-------------------------------------------------------------------------------
MainStep ==
  \/ Start \/ Deliver \/ WaitEnds \/ WaitTimesOut \/ TermEnds \/ TermTimesOut
  \/ Sweep \/ JoinEnds \/ JoinTimesOut \/ ClosePipes

PumpStep(s) == PumpRead(s) \/ PumpClaim(s) \/ PumpEof(s)

RunnerNext ==
  \/ MainStep \/ StartFails \/ Interrupt
  \/ \E s \in Streams : PumpStep(s)
  \/ \E h \in Helpers : Spawn(h)
  \/ \E p \in Procs : Exit(p) \/ \E s \in Streams : Write(p, s)

Returned == pc = "done" /\ cause # "failed"

-------------------------------------------------------------------------------
(* A run whose output was cut says so, and one that says so was cut: the two
   pumps share one budget, and what was written is in the logs unless the
   command's own output reached the limit. *)
TruncationHonest == Returned => (truncated <=> got < written) /\ got <= MaxBytes

(* "clean up its whole process group" (the docstring of run_process). *)
GroupCleaned == Returned => \A p \in Procs : proc[p] # "group"

(* run_process ends, however stubborn the command and its helpers are: "Bounded
   subprocess execution".  Only a helper that left the process group with a pipe
   in hand (Detached) holds it up, for as long as it lives: pipe.close() waits for
   the reader, which nobody stops. *)
Returns == pc = "deliver" ~> pc \in {"done", "raised"}

===============================================================================
