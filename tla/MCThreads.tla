------------------------------ MODULE MCThreads ------------------------------
(* The thread pools of a process, for TLC: the memory queue and the scheduler,
   each on its own. *)
EXTENDS MemoryPool, Scheduler, TLC

CONSTANTS t1, t2, t3, always, cron, shared

VARIABLE part   \* "memory" or "scheduler"

\* t1 and t2 are called from outside, t3 by the handler of t1.
MCParent == (t1 :> Outside) @@ (t2 :> Outside) @@ (t3 :> t1)
MCSize == (t1 :> 1) @@ (t2 :> 2) @@ (t3 :> 1)

\* A reactive job that polls at once, a cron job that may end, and a shared
\* one that polls.
MCJobs == <<always, cron, shared>>
MCDelays == (always :> {0}) @@ (cron :> {1}) @@ (shared :> {0})

OfMemory(A) == part = "memory" /\ A /\ UNCHANGED <<part, schedulerVars>>
OfScheduler(A) == part = "scheduler" /\ A /\ UNCHANGED <<part, vars>>
RunMemory == part = "memory" /\ Next /\ UNCHANGED <<part, schedulerVars>>
RunScheduler == part = "scheduler" /\ SchedulerNext /\ UNCHANGED <<part, vars>>

\* A scheduler all of whose schedules have ended.
NoScheduler ==
  /\ status = [j \in J |-> "stopped"] /\ wait = [j \in J |-> 0] /\ failures = [j \in J |-> 0]
  /\ queue = <<>> /\ stopping = FALSE /\ loop = "check" /\ stopper = "no"
  /\ worker = [w \in Workers |-> "poll"] /\ job = [w \in Workers |-> NoJob]

ThreadsInit ==
  /\ part \in {"memory", "scheduler"} /\ Init
  /\ IF part = "scheduler" THEN SchedulerInit ELSE NoScheduler

\* FairSpec and SchedulerFairSpec, each of its own part.
both == <<part, vars, schedulerVars>>
ThreadsSpec ==
  /\ ThreadsInit
  /\ [][RunMemory \/ RunScheduler]_both
  /\ \A t \in Tasks : WF_both(OfMemory(Push(t))) /\ WF_both(OfMemory(Run(t)))
  /\ \A w \in Threads : WF_both(OfMemory(Work(w)))
  /\ WF_both(OfMemory(StopLock \/ StopJoin \/ StopDrain))
  /\ WF_both(OfScheduler(LoopCheck)) /\ WF_both(OfScheduler(LoopTick)) /\ WF_both(OfScheduler(Second))
  /\ WF_both(OfScheduler(StopJoinTicker)) /\ WF_both(OfScheduler(StopJoinWorkers))
  /\ \A w \in Workers : /\ WF_both(OfScheduler(Dequeue(w) \/ FoundEmpty(w) \/ ExitOrSleep(w)))
                        /\ WF_both(OfScheduler(Succeed(w) \/ Fail(w)))

-------------------------------------------------------------------------------
\* No task, job or call of stop() waits for ever, and what stop() leaves behind is
\* quiet.
ThreadsEnd == PoolEnds /\ SchedulerLives
================================================================================
