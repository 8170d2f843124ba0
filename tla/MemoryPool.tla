---------------------------- MODULE MemoryPool ----------------------------
(***************************************************************************)
(* The bounded in-process worker pool behind memory queues and app.submit  *)
(* (src/queue/memory.zig), charging the shared budget of Admission.        *)
(*                                                                         *)
(* Threads are the callers (one per task, some of them handlers running on *)
(* the pool itself), the pool's workers, the thread that calls stop(), and *)
(* HTTP requests competing for the budget.  A critical section of the pool *)
(* mutex is one action, except that of push(): it is two, with `lock` held *)
(* in between, because stop() raises the shutdown flag without the mutex.  *)
(***************************************************************************)
EXTENDS Admission, Sequences, SequencesExt, FiniteSets

CONSTANTS
  Tasks,        \* calls of enqueue or app.submit
  Submits,      \* those that are app.submit: one attempt, never inline
  Parent,       \* [Tasks -> Tasks \cup {Outside}]: the handler that makes the call
  Outside,      \* not called from a pool handler
  Size,         \* [Tasks -> Nat]: payload (or name) bytes
  MaxAttempts,  \* retry.max_attempts
  Threads,      \* worker threads the pool may spawn
  Capacity,     \* ring capacity (256 in the code)
  Requests,     \* concurrent HTTP requests
  Free          \* nobody holds the pool mutex across a step

\* Where a worker thread is that runs no task.
Off == "off"        \* not spawned
Polling == "poll"   \* about to take the mutex
Empty == "empty"    \* saw an empty ring, has not read the flag yet
Exited == "exited"

ASSUME PoolAssumption ==
  /\ IsFiniteSet(Tasks) /\ Submits \subseteq Tasks
  /\ Outside \notin Tasks /\ Free \notin Tasks /\ Tasks \cap {Off, Polling, Empty, Exited} = {}
  /\ Parent \in [Tasks -> Tasks \cup {Outside}]
  /\ Size \in [Tasks -> Nat]
  /\ MaxAttempts \in Nat \ {0} /\ Capacity \in Nat \ {0}
  /\ IsFiniteSet(Requests)

VARIABLES
  phase,     \* [Tasks -> Phase]: where the call or its task stands
  outcome,   \* [Tasks -> Outcome]
  attempts,  \* [Tasks -> Nat]: handler runs so far
  ring,      \* Seq(Tasks)
  lock,      \* the push() inside its critical section, or Free
  thread,    \* [Threads -> ThreadState]
  started,   \* workers were spawned and stop() has not claimed them
  shutdown,  \* the atomic flag
  installed, \* app.memory_pool and app.submit_fn point at the pool
  stop,      \* where the call of stop() stands
  serving,   \* requests that hold a permit
  promised   \* history: what was in the ring when stop() raised the flag

Phase == {"new", "reserved", "pushing", "queued", "running", "inline", "freeing", "over"}
Outcome == {"none", "done", "failed", "refused", "dropped"}
ThreadState == {Off, Polling, Empty, Exited} \cup Tasks   \* a task: it runs that

poolVars == <<phase, outcome, attempts, ring, lock, thread, started, shutdown,
              installed, stop, serving, promised>>
vars == <<poolVars, budget>>

TypeOK ==
  /\ phase \in [Tasks -> Phase]
  /\ outcome \in [Tasks -> Outcome]
  /\ attempts \in [Tasks -> 0..MaxAttempts]
  /\ ring \in Seq(Tasks) /\ Len(ring) <= Capacity
  /\ lock \in Tasks \cup {Free}
  /\ thread \in [Threads -> ThreadState]
  /\ started \in BOOLEAN /\ shutdown \in BOOLEAN /\ installed \in BOOLEAN
  /\ stop \in {"up", "signaled", "joining", "drain", "stopped"}
  /\ serving \subseteq Requests /\ promised \subseteq Tasks
  /\ active \in Nat /\ jobs \in Nat /\ job_bytes \in Nat

Init ==
  /\ phase = [t \in Tasks |-> "new"]
  /\ outcome = [t \in Tasks |-> "none"]
  /\ attempts = [t \in Tasks |-> 0]
  /\ ring = <<>>
  /\ lock = Free
  /\ thread = [w \in Threads |-> Off]
  /\ started = FALSE
  /\ shutdown = FALSE
  /\ installed = TRUE
  /\ stop = "up"
  /\ serving = {}
  /\ promised = {}
  /\ BudgetInit

Moves(t, to) == phase' = [phase EXCEPT ![t] = to]
Ends(t, how) == outcome' = [outcome EXCEPT ![t] = how]

-----------------------------------------------------------------------------
(***************************************************************************)
(* HTTP requests                                                           *)
(***************************************************************************)
RequestStart(r) ==
  /\ r \notin serving
  /\ Acquire
  /\ serving' = serving \cup {r}
  /\ UNCHANGED <<phase, outcome, attempts, ring, lock, thread, started, shutdown, installed, stop, promised>>

RequestEnd(r) ==
  /\ r \in serving
  /\ Release
  /\ serving' = serving \ {r}
  /\ UNCHANGED <<phase, outcome, attempts, ring, lock, thread, started, shutdown, installed, stop, promised>>

-----------------------------------------------------------------------------
(***************************************************************************)
(* Callers                                                                 *)
(***************************************************************************)

\* A nested call is made while its parent's handler runs.
MayCall(t) == phase[t] = "new" /\ (Parent[t] # Outside => phase[Parent[t]] \in {"running", "inline"})

\* The bytes a task holds in the budget: an inline job borrows its payload.
Bytes(t) == IF phase[t] = "inline" THEN 0 ELSE Size[t]

Refuse(t) == Moves(t, "over") /\ Ends(t, "refused")

\* Without a pool, app.submit is refused and a memory job runs at once on the
\* caller's thread, under a work permit but without retained bytes.
CallInline(t) ==
  /\ MayCall(t) /\ ~installed
  /\ IF t \in Submits \/ ~CanAcquireJob(0)
     THEN Refuse(t) /\ UNCHANGED budget
     ELSE AcquireJobBytes(0) /\ Moves(t, "inline") /\ UNCHANGED outcome
  /\ UNCHANGED <<attempts, ring, lock, thread, started, shutdown, installed, stop, serving, promised>>

\* With one, the copy is charged to the budget first.
CallPooled(t) ==
  /\ MayCall(t) /\ installed
  /\ IF CanAcquireJob(Size[t])
     THEN AcquireJobBytes(Size[t]) /\ Moves(t, "reserved") /\ UNCHANGED outcome
     ELSE Refuse(t) /\ UNCHANGED budget
  /\ UNCHANGED <<attempts, ring, lock, thread, started, shutdown, installed, stop, serving, promised>>

\* An error after the reservation frees the copies, then the reservation.
FailCall(t) == Moves(t, "freeing") /\ Ends(t, "refused")

OutOfMemory(t) ==
  /\ phase[t] = "reserved"
  /\ FailCall(t)
  /\ UNCHANGED <<attempts, ring, lock, thread, started, shutdown, installed, stop, serving, promised, budget>>

\* push(), first half: take the mutex and read the flag.
PushEnter(t) ==
  /\ phase[t] = "reserved" /\ lock = Free
  /\ IF shutdown THEN FailCall(t) /\ UNCHANGED lock
                 ELSE Moves(t, "pushing") /\ lock' = t /\ UNCHANGED outcome
  /\ UNCHANGED <<attempts, ring, thread, started, shutdown, installed, stop, serving, promised, budget>>

\* startWorkers: some of the requested threads, or none and the push fails.
Spawn(t) ==
  /\ phase[t] = "pushing" /\ ~started
  /\ \E spawned \in SUBSET Threads :
       IF spawned = {}
       THEN FailCall(t) /\ lock' = Free /\ UNCHANGED <<thread, started>>
       ELSE /\ thread' = [w \in Threads |-> IF w \in spawned THEN Polling ELSE Off]
            /\ started' = TRUE
            /\ UNCHANGED <<phase, outcome, lock>>
  /\ UNCHANGED <<attempts, ring, shutdown, installed, stop, serving, promised, budget>>

\* push(), second half: the ring takes the task, or is full.
PushLeave(t) ==
  /\ phase[t] = "pushing" /\ started
  /\ lock' = Free
  /\ IF Len(ring) = Capacity
     THEN FailCall(t) /\ UNCHANGED ring
     ELSE ring' = Append(ring, t) /\ Moves(t, "queued") /\ UNCHANGED outcome
  /\ UNCHANGED <<attempts, thread, started, shutdown, installed, stop, serving, promised, budget>>

\* Mutant: a failed call forgets its reservation.
LeakFailedCall(t) ==
  /\ phase[t] = "freeing" /\ outcome[t] = "refused"
  /\ Moves(t, "over")
  /\ UNCHANGED <<outcome, attempts, ring, lock, thread, started, shutdown, installed, stop, serving, promised, budget>>

FreeFailedCall(t) ==
  /\ phase[t] = "freeing" /\ outcome[t] = "refused"
  /\ Moves(t, "over")
  /\ ReleaseJobBytes(Size[t])
  /\ UNCHANGED <<outcome, attempts, ring, lock, thread, started, shutdown, installed, stop, serving, promised>>

-----------------------------------------------------------------------------
(***************************************************************************)
(* Handlers                                                                *)
(***************************************************************************)

\* The handler of t is inside an enqueue of its own.
Calling(t) ==
  \E c \in Tasks : /\ Parent[c] = t
                   /\ \/ phase[c] \in {"reserved", "pushing", "inline"}
                      \/ phase[c] = "freeing" /\ outcome[c] = "refused"

Limit(t) == IF t \in Submits THEN 1 ELSE MaxAttempts

\* One attempt ends.  A retry sleeps its backoff on the same thread.
Attempt(t, ok) ==
  /\ phase[t] \in {"running", "inline"} /\ ~Calling(t)
  /\ attempts' = [attempts EXCEPT ![t] = @ + 1]
  /\ IF ok \/ attempts[t] + 1 >= Limit(t)
     THEN /\ Ends(t, IF ok THEN "done" ELSE "failed")
          /\ IF phase[t] = "inline" THEN Moves(t, "over") /\ ReleaseJobBytes(0)
                                    ELSE Moves(t, "freeing") /\ UNCHANGED budget
     ELSE UNCHANGED <<phase, outcome, budget>>
  /\ UNCHANGED <<ring, lock, thread, started, shutdown, installed, stop, serving, promised>>

\* Pop the ring, or see that it is empty.
Take(w) ==
  /\ thread[w] = Polling /\ lock = Free
  /\ IF ring = <<>>
     THEN thread' = [thread EXCEPT ![w] = Empty] /\ UNCHANGED <<ring, phase>>
     ELSE /\ thread' = [thread EXCEPT ![w] = Head(ring)]
          /\ ring' = Tail(ring)
          /\ Moves(Head(ring), "running")
  /\ UNCHANGED <<outcome, attempts, lock, started, shutdown, installed, stop, serving, promised, budget>>

\* Only a worker that found the ring empty reads the flag: exit, or sleep.
IdleOrExit(w) ==
  /\ thread[w] = Empty
  /\ thread' = [thread EXCEPT ![w] = IF shutdown THEN Exited ELSE Polling]
  /\ UNCHANGED <<phase, outcome, attempts, ring, lock, started, shutdown, installed, stop, serving, promised, budget>>

\* Task.destroy, after the handler's last attempt.
Destroy(w) ==
  LET t == thread[w]
  IN /\ t \in Tasks
     /\ phase[t] = "freeing"
     /\ Moves(t, "over")
     /\ ReleaseJobBytes(Size[t])
     /\ thread' = [thread EXCEPT ![w] = Polling]
     /\ UNCHANGED <<outcome, attempts, ring, lock, started, shutdown, installed, stop, serving, promised>>

-----------------------------------------------------------------------------
(***************************************************************************)
(* stop()                                                                  *)
(***************************************************************************)
StopRest == <<phase, outcome, attempts, ring, lock, thread, serving, budget>>

StopSignal ==
  /\ stop = "up"
  /\ shutdown' = TRUE
  /\ stop' = "signaled"
  /\ promised' = ToSet(ring)
  /\ UNCHANGED <<StopRest, started, installed>>

\* Snapshot of the threads to join.
StopLock ==
  /\ stop = "signaled" /\ lock = Free
  /\ started' = FALSE
  /\ stop' = "joining"
  /\ UNCHANGED <<StopRest, shutdown, installed, promised>>

StopJoin ==
  /\ stop = "joining"
  /\ \A w \in Threads : thread[w] \in {Off, Exited}
  /\ installed' = FALSE
  /\ stop' = "drain"
  /\ UNCHANGED <<StopRest, shutdown, started, promised>>

\* Mutant: returns without the last drain.
StopNoDrain ==
  /\ stop = "drain" /\ lock = Free
  /\ stop' = "stopped"
  /\ UNCHANGED <<StopRest, shutdown, started, installed, promised>>

\* The last drain frees what is still in the ring, unrun.
StopDrain ==
  /\ stop = "drain" /\ lock = Free
  /\ IF ring = <<>>
     THEN stop' = "stopped" /\ UNCHANGED <<ring, phase, outcome, budget>>
     ELSE /\ Moves(Head(ring), "over")
          /\ Ends(Head(ring), "dropped")
          /\ ReleaseJobBytes(Size[Head(ring)])
          /\ ring' = Tail(ring)
          /\ UNCHANGED stop
  /\ UNCHANGED <<attempts, lock, thread, serving, started, shutdown, installed, promised>>

-----------------------------------------------------------------------------
Call(t) == CallInline(t) \/ CallPooled(t)
Push(t) == OutOfMemory(t) \/ PushEnter(t) \/ Spawn(t) \/ PushLeave(t) \/ FreeFailedCall(t)
Run(t)  == \E ok \in BOOLEAN : Attempt(t, ok)
Work(w) == Take(w) \/ IdleOrExit(w) \/ Destroy(w)
Stop    == StopSignal \/ StopLock \/ StopJoin \/ StopDrain

Next ==
  \/ \E r \in Requests : RequestStart(r) \/ RequestEnd(r)
  \/ \E t \in Tasks : Call(t) \/ Push(t) \/ Run(t)
  \/ \E w \in Threads : Work(w)
  \/ Stop

Spec == Init /\ [][Next]_vars

\* Threads are scheduled, handlers return, and a stop() that began goes on.
Fairness ==
  /\ \A t \in Tasks : WF_vars(Push(t)) /\ WF_vars(Run(t))
  /\ \A w \in Threads : WF_vars(Work(w))
  /\ WF_vars(StopLock \/ StopJoin \/ StopDrain)

FairSpec == Spec /\ Fairness

-----------------------------------------------------------------------------
(***************************************************************************)
(* Properties                                                              *)
(***************************************************************************)
Charged == {t \in Tasks : phase[t] \notin {"new", "over"}}

\* The bytes they hold, each named by its task and its position.
Copies == UNION {{t} \X (1..Bytes(t)) : t \in Charged}

\* The budget is exactly what is charged to it: every path of a call (refusal
\* at the budget, failed allocation, full ring, shutdown, retries, the last
\* drain, inline runs) gives back what it took, once; and the joint limit of
\* requests and jobs holds.
BudgetExact ==
  /\ active = Cardinality(serving)
  /\ jobs = Cardinality(Charged)
  /\ job_bytes = Cardinality(Copies)
  /\ active <= MaxRequests /\ active + jobs <= MaxWork /\ job_bytes <= MaxJobBytes

\* When stop() returned nothing is left on the pool, and its threads are gone:
\* its memory may be freed.
StoppedIsQuiet ==
  stop = "stopped" =>
    /\ ring = <<>>
    /\ \A w \in Threads : thread[w] \in {Off, Exited}
    /\ \A t \in Tasks : phase[t] \notin {"queued", "running"}

\* A task pushed by a handler of the pool is never dropped: the thread that
\* runs the handler looks at the ring again before it may exit.
NestedPushRuns ==
  \A t \in Tasks : Parent[t] # Outside => outcome[t] # "dropped"

\* Every task that was in the ring when stop() raised the flag is run.
QueuedBeforeStopRuns == \A t \in promised : outcome[t] # "dropped"

\* stop() returns: nobody it waits for waits for it.
StopReturns == stop = "signaled" ~> stop = "stopped"

\* A task that got into the ring ends.
QueuedEnds == \A t \in Tasks : phase[t] = "queued" ~> phase[t] = "over"

\* The budget is exact, a stopped pool is empty and quiet, and no task of a
\* handler is lost.
PoolSound == TypeOK /\ BudgetExact /\ StoppedIsQuiet /\ NestedPushRuns

\* Neither stop() nor a queued task waits for ever.
PoolEnds == StopReturns /\ QueuedEnds
=============================================================================
