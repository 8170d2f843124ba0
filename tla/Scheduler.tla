----------------------------- MODULE Scheduler -----------------------------
(***************************************************************************)
(* The in-process scheduler (src/scheduler.zig): a tick thread moves due   *)
(* jobs of the state table to a ring, a pool of workers runs them, and     *)
(* stop() joins both.  Every step between two lock operations is one       *)
(* action; the shutdown flag is read outside the lock.                     *)
(*                                                                         *)
(* Times are relative: wait[j] is what is left until next_fire, so the     *)
(* state space is finite although time is not bounded.                     *)
(***************************************************************************)
EXTENDS Integers, Sequences, FiniteSets, SequencesExt

CONSTANTS
  Jobs,        \* the job table, a sequence of jobs without repetition
  Delays,      \* [jobs -> SUBSET Nat]: what a completion may wait for
  NoJob,
  Retires,     \* the jobs whose schedule may end
  Distributed, \* the jobs that poll a shared schedule
  Poll,        \* the least wait of those
  FireCap,     \* jobs fired by a tick at most, 256 in the code
  Workers,
  BackoffCap,  \* the longest backoff, 3600 in the code
  MaxFailures, \* failures from which the backoff stays at its cap
  MaxWait      \* no delay is longer

VARIABLES
  status,      \* [jobs -> {"idle", "running", "stopped"}]
  wait,        \* [jobs -> 0..MaxWait]: next_fire - now, never below 0
  failures,    \* [jobs -> 0..MaxFailures]
  queue,       \* the ring, oldest first
  stopping,    \* the shutdown flag
  loop,        \* the tick thread: "check", "tick" or "exit"
  worker,      \* [Workers -> {"poll", "empty", "run", "exit"}]
  job,         \* [Workers -> jobs]: what a worker runs, or NoJob
  stopper      \* stop(): "no", "ticker", "workers" or "returned"

table == <<status, wait, failures>>
pool  == <<worker, job>>
schedulerVars  == <<table, queue, stopping, loop, pool, stopper>>

J == ToSet(Jobs)

ASSUME SchedulerAssumption ==
  /\ Jobs \in Seq(J) /\ IsInjective(Jobs) /\ J # {} /\ NoJob \notin J
  /\ Delays \in [J -> SUBSET (0..MaxWait)]
  /\ Retires \subseteq J /\ Distributed \subseteq J
  /\ Poll \in 0..MaxWait /\ BackoffCap \in 1..MaxWait
  /\ FireCap \in Nat \ {0} /\ MaxFailures \in Nat \ {0} /\ MaxWait \in Nat

SchedulerTypeOK ==
  /\ status \in [J -> {"idle", "running", "stopped"}]
  /\ wait \in [J -> 0..MaxWait]
  /\ failures \in [J -> 0..MaxFailures]
  /\ queue \in Seq(J) /\ Len(queue) <= Len(Jobs)
  /\ stopping \in BOOLEAN
  /\ loop \in {"check", "tick", "exit"}
  /\ worker \in [Workers -> {"poll", "empty", "run", "exit"}]
  /\ job \in [Workers -> J \cup {NoJob}]
  /\ stopper \in {"no", "ticker", "workers", "returned"}

\* A fire that is still to come, now for a shared job, or retired for want of
\* one.
Starts(j) ==
  \/ j \notin Distributed /\ status[j] = "idle" /\ wait[j] \in Delays[j]
  \/ j \in Distributed /\ status[j] = "idle" /\ wait[j] = 0
  \/ j \in Retires /\ status[j] = "stopped" /\ wait[j] = 0

SchedulerInit ==
  /\ status \in [J -> {"idle", "stopped"}]
  /\ wait \in [J -> 0..MaxWait]
  /\ \A j \in J : Starts(j)
  /\ failures = [j \in J |-> 0]
  /\ queue = <<>>
  /\ stopping = FALSE
  /\ loop = "check"
  /\ worker = [w \in Workers |-> "poll"]
  /\ job = [w \in Workers |-> NoJob]
  /\ stopper = "no"

-----------------------------------------------------------------------------
Goes(w, to) == worker' = [worker EXCEPT ![w] = to]

Leaves(w) == Goes(w, "poll") /\ job' = [job EXCEPT ![w] = NoJob]

LoopCheck ==
  /\ loop = "check"
  /\ loop' = IF stopping THEN "exit" ELSE "tick"
  /\ UNCHANGED <<table, queue, stopping, pool, stopper>>

Due(j) == status[j] = "idle" /\ wait[j] = 0

\* The entries of the first due jobs of the table; those beyond the cap stay idle.
First == {i \in DOMAIN Jobs : Due(Jobs[i]) /\ Cardinality({k \in 1..i : Due(Jobs[k])}) <= FireCap}

Rank(i) == Cardinality({k \in First : k <= i})

\* They fire in the order of the table.
Fired == [n \in 1..Cardinality(First) |-> Jobs[CHOOSE i \in First : Rank(i) = n]]

\* Mutant: fires without marking.
MarkNone(fired) == UNCHANGED status

Mark(fired) == status' = [j \in J |-> IF j \in ToSet(fired) THEN "running" ELSE status[j]]

\* enqueue drops what does not fit, without a word.
Enqueue(fired) ==
  LET all == queue \o fired
  IN queue' = SubSeq(all, 1, IF Len(all) < Len(Jobs) THEN Len(all) ELSE Len(Jobs))

\* tick() and the enqueues are under one lock.
LoopTick ==
  /\ loop = "tick"
  /\ Mark(Fired) /\ Enqueue(Fired)
  /\ loop' = "check"
  /\ UNCHANGED <<wait, failures, stopping, pool, stopper>>

\* Mutant: the newest job first.
DequeueNewest(w) ==
  /\ worker[w] = "poll"
  /\ queue # <<>>
  /\ job' = [job EXCEPT ![w] = queue[Len(queue)]]
  /\ queue' = SubSeq(queue, 1, Len(queue) - 1)
  /\ Goes(w, "run")
  /\ UNCHANGED <<table, stopping, loop, stopper>>

Dequeue(w) ==
  /\ worker[w] = "poll"
  /\ queue # <<>>
  /\ job' = [job EXCEPT ![w] = Head(queue)]
  /\ queue' = Tail(queue)
  /\ Goes(w, "run")
  /\ UNCHANGED <<table, stopping, loop, stopper>>

FoundEmpty(w) ==
  /\ worker[w] = "poll"
  /\ queue = <<>>
  /\ Goes(w, "empty")
  /\ UNCHANGED <<table, queue, stopping, loop, job, stopper>>

\* Having seen the ring empty, it reads the flag without the lock.
ExitOrSleep(w) ==
  /\ worker[w] = "empty"
  /\ Goes(w, IF stopping THEN "exit" ELSE "poll")
  /\ UNCHANGED <<table, queue, stopping, loop, job, stopper>>

\* completeRuntimeJob: the next fire, at least a poll away for a distributed
\* job, or the end of the schedule.
Succeed(w) ==
  LET j == job[w] IN
  /\ worker[w] = "run"
  /\ failures' = [failures EXCEPT ![j] = 0]
  /\ \/ \E d \in Delays[j] :
          /\ wait' = [wait EXCEPT ![j] = IF j \in Distributed /\ d < Poll THEN Poll ELSE d]
          /\ status' = [status EXCEPT ![j] = "idle"]
     \/ j \in Retires /\ status' = [status EXCEPT ![j] = "stopped"] /\ UNCHANGED wait
  /\ Leaves(w)
  /\ UNCHANGED <<queue, stopping, loop, stopper>>

RetryDelay(n) == IF 2^(n - 1) \in 1..BackoffCap THEN 2^(n - 1) ELSE BackoffCap

\* completeJobError: the failed job comes back after its backoff.
Fail(w) ==
  LET j == job[w]
      n == IF failures[j] < MaxFailures THEN failures[j] + 1 ELSE MaxFailures
  IN /\ worker[w] = "run"
     /\ failures' = [failures EXCEPT ![j] = n]
     /\ wait' = [wait EXCEPT ![j] = RetryDelay(n)]
     /\ status' = [status EXCEPT ![j] = "idle"]
     /\ Leaves(w)
     /\ UNCHANGED <<queue, stopping, loop, stopper>>

StopRaise ==
  /\ stopper = "no"
  /\ stopping' = TRUE
  /\ stopper' = "ticker"
  /\ UNCHANGED <<table, queue, loop, pool>>

StopJoinTicker ==
  /\ stopper = "ticker" /\ loop = "exit"
  /\ stopper' = "workers"
  /\ UNCHANGED <<table, queue, stopping, loop, pool>>

StopJoinWorkers ==
  /\ stopper = "workers"
  /\ \A w \in Workers : worker[w] = "exit"
  /\ stopper' = "returned"
  /\ UNCHANGED <<table, queue, stopping, loop, pool>>

\* A second passes.
Second ==
  /\ \E j \in J : status[j] = "idle" /\ wait[j] > 0
  /\ wait' = [j \in J |-> IF wait[j] > 0 THEN wait[j] - 1 ELSE 0]
  /\ UNCHANGED <<status, failures, queue, stopping, loop, pool, stopper>>

SchedulerNext ==
  \/ LoopCheck \/ LoopTick \/ StopRaise \/ StopJoinTicker \/ StopJoinWorkers \/ Second
  \/ \E w \in Workers : Dequeue(w) \/ FoundEmpty(w) \/ ExitOrSleep(w) \/ Succeed(w) \/ Fail(w)

SchedulerSpec == SchedulerInit /\ [][SchedulerNext]_schedulerVars

\* The threads run, handlers return, and time passes; whether stop() is ever
\* called is open.
SchedulerFairness ==
  /\ WF_schedulerVars(LoopCheck) /\ WF_schedulerVars(LoopTick) /\ WF_schedulerVars(Second)
  /\ WF_schedulerVars(StopJoinTicker) /\ WF_schedulerVars(StopJoinWorkers)
  /\ \A w \in Workers : /\ WF_schedulerVars(Dequeue(w) \/ FoundEmpty(w) \/ ExitOrSleep(w))
                        /\ WF_schedulerVars(Succeed(w) \/ Fail(w))

SchedulerFairSpec == SchedulerSpec /\ SchedulerFairness

-----------------------------------------------------------------------------
RunBy(j) == {w \in Workers : job[w] = j}
Places(j) == Cardinality({i \in DOMAIN queue : queue[i] = j}) + Cardinality(RunBy(j))

\* Single flight: a job that is marked running is in exactly one place, the
\* ring or one worker, and no other job is in any: it can neither overlap
\* itself nor be marked and forgotten, although enqueue() drops silently when
\* the ring is full.
SingleFlight == \A j \in J : Places(j) = IF status[j] = "running" THEN 1 ELSE 0

\* After stop() returned, deinit() may free the table and the ring: nothing
\* touches them again.
ReturnedIsQuiet == [][stopper = "returned" => UNCHANGED <<status, failures, queue, pool>>]_schedulerVars

\* A job that is due runs, however many others keep the workers busy.
DueRuns == \A j \in J : Due(j) ~> (RunBy(j) # {} \/ stopping)

\* stop() returns, although jobs come back as soon as they end.
SchedulerReturns == stopping ~> stopper = "returned"

\* The types, and single flight.
SchedulerSound == SchedulerTypeOK /\ SingleFlight

\* A due job is not starved, stop() returns whatever still runs, and what it
\* leaves behind is quiet.
SchedulerLives == DueRuns /\ SchedulerReturns /\ ReturnedIsQuiet
=============================================================================
