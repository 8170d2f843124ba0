--------------------------- MODULE DurableQueue ---------------------------
(***************************************************************************)
(* The durable job queue: the rows of "_queue_jobs" and the poll loops     *)
(* that drain them (src/queue/durable.zig, driven by queueWorkerRun and    *)
(* queueGcJob of src/framework.zig).                                       *)
(*                                                                         *)
(* Each statement or transaction against the table is one action; between  *)
(* two of them any other worker, of this process or of another instance    *)
(* sharing the PostgreSQL database, may step.  Handlers run with the       *)
(* writer released, so Dispatch and the three ways of finishing are        *)
(* separate actions.                                                       *)
(*                                                                         *)
(* Time.  Every timestamp is kept RELATIVE to the current second, which is *)
(* always 0: Tick ages all of them by one.  The code only ever compares    *)
(* timestamps, so nothing is lost, and a stamp older than every comparison *)
(* can reach stays where it is (the floors in Tick), which keeps the state *)
(* space finite without stopping the clock.                                *)
(*                                                                         *)
(* Clocks.  Instances on one PostgreSQL database read clocks of their own, *)
(* and pollOnce stamps claims and computes its cutoffs with its own        *)
(* reading.  Two clocks read at one moment differ by at most Drift: the    *)
(* current second is what the slowest of them shows, and every reading is  *)
(* one of 0..Drift, chosen anew each time.                                 *)
(***************************************************************************)
EXTENDS Integers, FiniteSets

CONSTANTS
  Jobs,          \* row ids that may be enqueued
  Queues,        \* names of the declared durable queues
  Priority,      \* [Queues -> Nat]: 0 high, 1 normal, 2 low
  Rated,         \* the queues that declare a .rate
  VisibilityTimeout, \* [Queues -> Nat]: visibility_timeout_s
  DoneTtl,       \* [Queues -> Nat]: done_ttl_s
  MaxAttempts,   \* [Queues -> Nat]: retry.max_attempts
  Backoff,       \* the delays, in whole seconds, backoffMs may ask for
  Schedule,      \* the offsets from now a caller may pass as run_at
  Registered,    \* the jobs whose kind the running build registers
  Workers,       \* poll loops: one per worker declaration and instance
  Drains,        \* [Workers -> SUBSET Queues]: WorkerDef.queues
  Concurrency,   \* [Workers -> Nat]: WorkerDef.concurrency, the batch size
  Drift,         \* two clocks read at one moment differ by at most this
  MaxRun,        \* bound: a handler runs at most this many seconds
  MaxPoll,       \* bound: a poll cycle lasts at most this many seconds
  MaxGeneration, \* bound on the number of times one row is claimed
  MaxAborts      \* bound on the number of aborted poll cycles

ASSUME QueueAssumption ==
  /\ IsFiniteSet(Jobs)
  /\ Rated \subseteq Queues /\ Queues # {}
  /\ Registered \subseteq Jobs
  /\ Priority \in [Queues -> Nat]
  /\ VisibilityTimeout \in [Queues -> Nat \ {0}]
  /\ DoneTtl \in [Queues -> Nat \ {0}]
  /\ MaxAttempts \in [Queues -> Nat \ {0}]
  /\ Backoff \subseteq Nat
  /\ Schedule \subseteq Nat
  /\ Drains \in [Workers -> SUBSET Queues]
  /\ Concurrency \in [Workers -> Nat \ {0}]
  /\ Drift \in Nat
  /\ MaxRun \in Nat /\ MaxPoll \in Nat
  /\ MaxGeneration \in Nat /\ MaxAborts \in Nat

(***************************************************************************)
(* The table "_queue_jobs", one variable per column the program reads back *)
(* (claimed_by and last_error are only written).                           *)
(***************************************************************************)
VARIABLES
  status,   \* [Jobs -> Status]; "none" is no row yet, "gone" a deleted one
  queue,    \* [Jobs -> Queues]
  attempts, \* [Jobs -> Nat]: failed attempts counted so far
  run_at,   \* [Jobs -> Int]: earliest claim
  claimed_at,       \* [Jobs -> Int]: when it was claimed (0 stands for NULL)
  claim_generation, \* [Jobs -> Nat]: number of claims so far
  created   \* [Jobs -> Int]

(***************************************************************************)
(* The poll loops.                                                         *)
(***************************************************************************)
VARIABLES
  pc,       \* [Workers -> PC]: where the poll cycle stands
  now,      \* [Workers -> Int]: the clock reading the cycle took at its start
  todo,     \* [Workers -> SUBSET Queues]: queues the current phase has yet to visit
  left,     \* [Workers -> Nat]: claims the batch still has room for
  batch,    \* [Workers -> SUBSET Claimed]: claimed, handler not started
  running,  \* [Workers -> SUBSET Claimed]: the claim whose handler runs, if any
  began,    \* [Workers -> Int]: when that handler was started
  reporting, \* [Workers -> SUBSET Jobs]: failed, the .onError event not sent yet
  aborts    \* number of aborted cycles, for the bound

(***************************************************************************)
(* History: what observers outside the table saw.                          *)
(***************************************************************************)
VARIABLES
  reported, \* [Jobs -> Nat]: .onError events of phase .job for the job
  silenced  \* jobs whose worker was gone before it could send that event

rows     == <<status, queue, attempts, run_at, claimed_at, claim_generation, created>>
pollVars == <<pc, now, todo, left, batch, running, began, reporting>>
history  == <<reported, silenced>>
vars     == <<status, queue, attempts, run_at, claimed_at, claim_generation, created,
              pc, now, todo, left, batch, running, began, reporting, aborts,
              reported, silenced>>

Terminal == {"done", "failed", "canceled"}
Live     == {"claimed", "pending"}
Status   == {"none", "gone"} \cup Live \cup Terminal

\* What a worker remembers of a row it claimed.
Claimed == [job : Jobs, attempts : Nat, generation : Nat]

PC == {"idle", "sweep", "claim", "rated", "serve"}

TypeOK ==
  /\ status \in [Jobs -> Status]
  /\ queue \in [Jobs -> Queues]
  /\ attempts \in [Jobs -> Nat]
  /\ run_at \in [Jobs -> Int]
  /\ claimed_at \in [Jobs -> Int]
  /\ claim_generation \in [Jobs -> Nat]
  /\ created \in [Jobs -> Int]
  /\ pc \in [Workers -> PC]
  /\ now \in [Workers -> Int]
  /\ todo \in [Workers -> SUBSET Queues]
  /\ left \in [Workers -> Nat]
  /\ batch \in [Workers -> SUBSET Claimed]
  /\ running \in [Workers -> SUBSET Claimed]
  /\ began \in [Workers -> Int]
  /\ reporting \in [Workers -> SUBSET Jobs]
  /\ aborts \in Nat
  /\ reported \in [Jobs -> Nat]
  /\ silenced \subseteq Jobs

Init ==
  /\ status = [j \in Jobs |-> "none"]
  /\ queue = [j \in Jobs |-> CHOOSE q \in Queues : TRUE]
  /\ attempts = [j \in Jobs |-> 0]
  /\ run_at = [j \in Jobs |-> 0]
  /\ claimed_at = [j \in Jobs |-> 0]
  /\ claim_generation = [j \in Jobs |-> 0]
  /\ created = [j \in Jobs |-> 0]
  /\ pc = [w \in Workers |-> "idle"]
  /\ now = [w \in Workers |-> 0]
  /\ todo = [w \in Workers |-> {}]
  /\ left = [w \in Workers |-> 0]
  /\ batch = [w \in Workers |-> {}]
  /\ running = [w \in Workers |-> {}]
  /\ began = [w \in Workers |-> 0]
  /\ reporting = [w \in Workers |-> {}]
  /\ aborts = 0
  /\ reported = [j \in Jobs |-> 0]
  /\ silenced = {}

-----------------------------------------------------------------------------
(***************************************************************************)
(* Operations of callers and of the hourly GC job.                         *)
(***************************************************************************)

\* The columns an UPDATE leaves alone.
RestUnchanged == UNCHANGED <<queue, attempts, run_at, claim_generation, created>>

\* A pending row goes in, due delay after what the caller's clock shows;
\* admission by capacity is the module QueueCapacity.
Enqueue(j, q, delay) ==
  /\ status[j] = "none"
  /\ status' = [status EXCEPT ![j] = "pending"]
  /\ queue' = [queue EXCEPT ![j] = q]
  /\ \E d \in 0..Drift : run_at' = [run_at EXCEPT ![j] = d + delay]
  /\ UNCHANGED <<attempts, claimed_at, claim_generation, created, pollVars, aborts, history>>

CancelJob(j) ==
  /\ status[j] = "pending"
  /\ status' = [status EXCEPT ![j] = "canceled"]
  /\ claimed_at' = [claimed_at EXCEPT ![j] = 0]
  /\ RestUnchanged
  /\ UNCHANGED <<pollVars, aborts, history>>

\* Mutant: any claim made before the sweep's clock reading is stale.
StaleAtOnce(q, t) ==
  {j \in Jobs : status[j] = "claimed" /\ queue[j] = q /\ claimed_at[j] <= t}

\* The rows of q whose claim the sweep of a worker that read the clock at t
\* takes for abandoned.
Stale(q, t) ==
  {j \in Jobs : /\ status[j] = "claimed"
                /\ queue[j] = q
                /\ claimed_at[j] <= t - VisibilityTimeout[q]}

\* Mutant: a sweep that matches nothing.
ReclaimNothing(q, t) == UNCHANGED rows

ReclaimStale(q, t) ==
  LET stale == Stale(q, t)
  IN /\ status' = [j \in Jobs |-> IF j \in stale THEN "pending" ELSE status[j]]
     /\ claimed_at' = [j \in Jobs |-> IF j \in stale THEN 0 ELSE claimed_at[j]]
     /\ RestUnchanged

\* The sweep of the instance that holds the GC lease, by that instance's clock.
GcReclaim(q) ==
  /\ \E t \in 0..Drift : Stale(q, t) # {} /\ ReclaimStale(q, t)
  /\ UNCHANGED <<pollVars, aborts, history>>

\* Deletes by age since creation, whenever the row became terminal.  Both stamps
\* are the database's, which has one clock.
GcDoneJobs(q) ==
  LET expired == {j \in Jobs : /\ status[j] \in Terminal
                               /\ queue[j] = q
                               /\ created[j] <= 0 - DoneTtl[q]}
  IN /\ expired # {}
     /\ status' = [j \in Jobs |-> IF j \in expired THEN "gone" ELSE status[j]]
     /\ RestUnchanged
     /\ UNCHANGED <<claimed_at, pollVars, aborts, history>>

-----------------------------------------------------------------------------
(***************************************************************************)
(* One poll cycle of a worker.                                             *)
(***************************************************************************)

\* The instance's clock is read once, here; every later statement of the cycle
\* uses that reading.
StartPoll(w) ==
  /\ pc[w] = "idle"
  /\ Drains[w] # {}
  /\ pc' = [pc EXCEPT ![w] = "sweep"]
  /\ \E d \in 0..Drift : now' = [now EXCEPT ![w] = d]
  /\ todo' = [todo EXCEPT ![w] = Drains[w]]
  /\ left' = [left EXCEPT ![w] = Concurrency[w]]
  /\ UNCHANGED <<rows, batch, running, began, reporting, aborts, history>>

\* Each drained queue is swept with its own timeout; an error of one sweep is
\* logged and the cycle goes on.
Sweep(w, q) ==
  /\ pc[w] = "sweep"
  /\ q \in todo[w]
  /\ ReclaimStale(q, now[w]) \/ UNCHANGED rows
  /\ todo' = [todo EXCEPT ![w] = @ \ {q}]
  /\ pc' = [pc EXCEPT ![w] = IF todo[w] = {q} THEN "claim" ELSE @]
  /\ UNCHANGED <<now, left, batch, running, began, reporting, aborts, history>>

Ready(qs, t) ==
  {j \in Jobs : /\ status[j] = "pending"
                /\ queue[j] \in qs
                /\ run_at[j] <= t
                /\ claim_generation[j] < MaxGeneration}

\* Mutant: the oldest run_at first, whatever the priority.
BeforeByAge(j, k) == run_at[j] < run_at[k]

\* ORDER BY priority, run_at
Before(j, k) ==
  LET p == Priority[queue[j]]
      r == Priority[queue[k]]
  IN p < r \/ (p = r /\ run_at[j] < run_at[k])

\* The sets of rows that SELECT ... ORDER BY ... LIMIT limit may return.
FirstReady(qs, t, limit) ==
  LET ready == Ready(qs, t)
  IN {S \in SUBSET ready :
        /\ Cardinality(S) <= limit
        /\ S = ready \/ Cardinality(S) = limit
        /\ \A j \in S, k \in ready \ S : ~Before(k, j)}

\* What RETURNING hands the worker.
Returned(S) ==
  {[job |-> j, attempts |-> attempts[j], generation |-> claim_generation[j] + 1] : j \in S}

ClaimBatch(w, S) ==
  /\ status' = [j \in Jobs |-> IF j \in S THEN "claimed" ELSE status[j]]
  /\ claimed_at' = [j \in Jobs |-> IF j \in S THEN now[w] ELSE claimed_at[j]]
  /\ claim_generation' =
       [j \in Jobs |-> IF j \in S THEN claim_generation[j] + 1 ELSE claim_generation[j]]
  /\ UNCHANGED <<queue, attempts, run_at, created>>
  /\ batch' = [batch EXCEPT ![w] = @ \cup Returned(S)]
  /\ left' = [left EXCEPT ![w] = @ - Cardinality(S)]

\* The unrated queues are claimed by one statement, in priority order.
ClaimUnrated(w) ==
  LET rated == Drains[w] \cap Rated
  IN /\ pc[w] = "claim"
     /\ \E S \in FirstReady(Drains[w] \ Rated, now[w], left[w]) : ClaimBatch(w, S)
     /\ todo' = [todo EXCEPT ![w] = rated]
     /\ pc' = [pc EXCEPT ![w] = IF rated = {} \/ left'[w] = 0 THEN "serve" ELSE "rated"]
     /\ UNCHANGED <<now, running, began, reporting, aborts, history>>

\* Then each rated queue by a transaction of its own, up to the allowance its
\* rate window has left (any number here; ClaimRate models the window).
ClaimRated(w, q) ==
  /\ pc[w] = "rated"
  /\ q \in todo[w]
  /\ \E allowance \in 0..left[w] :
       \E S \in FirstReady({q}, now[w], allowance) : ClaimBatch(w, S)
  /\ todo' = [todo EXCEPT ![w] = @ \ {q}]
  /\ pc' = [pc EXCEPT ![w] = IF todo[w] = {q} \/ left'[w] = 0 THEN "serve" ELSE @]
  /\ UNCHANGED <<now, running, began, reporting, aborts, history>>

\* The batch is served one job at a time.  RETURNING promises no order, so any
\* claim of the batch may be next, once the last failure is reported.
Dispatch(w, c) ==
  /\ pc[w] = "serve"
  /\ running[w] = {} /\ reporting[w] = {}
  /\ c \in batch[w]
  /\ batch' = [batch EXCEPT ![w] = @ \ {c}]
  /\ running' = [running EXCEPT ![w] = {c}]
  /\ began' = [began EXCEPT ![w] = 0]
  /\ UNCHANGED <<rows, pc, now, todo, left, reporting, aborts, history>>

\* Mutant: without the generation fence.
OwnsAnyGeneration(c) == status[c.job] \in Live

\* The UPDATE of finishClaim matches the row of claim c.
Owns(c) ==
  /\ claim_generation[c.job] = c.generation
  /\ status[c.job] \in Live

FinishClaim(c, outcome, count, at) ==
  \/ /\ Owns(c)
     /\ status' = [status EXCEPT ![c.job] = outcome]
     /\ attempts' = [attempts EXCEPT ![c.job] = count]
     /\ run_at' = [run_at EXCEPT ![c.job] = at]
     /\ claimed_at' = [claimed_at EXCEPT ![c.job] = 0]
     /\ UNCHANGED <<queue, claim_generation, created>>
  \/ ~Owns(c) /\ UNCHANGED rows

Returns(w, c) ==
  /\ c \in running[w]
  /\ running' = [running EXCEPT ![w] = {}]
  /\ began' = [began EXCEPT ![w] = 0]
  /\ UNCHANGED <<pc, now, todo, left, batch, aborts, history>>

JobDone(w, c) ==
  /\ Returns(w, c)
  /\ c.job \in Registered
  /\ FinishClaim(c, "done", c.attempts, now[w])
  /\ UNCHANGED reporting

\* Mutant: one attempt too many.
JobRetriesOnceMore(w, c) ==
  /\ Returns(w, c)
  /\ c.job \in Registered
  /\ c.attempts < MaxAttempts[queue[c.job]]
  /\ \E delay \in Backoff : FinishClaim(c, "pending", c.attempts + 1, now[w] + delay)
  /\ UNCHANGED reporting

\* attempts is the snapshot taken by the claim, plus this failure.
JobRetries(w, c) ==
  /\ Returns(w, c)
  /\ c.job \in Registered
  /\ c.attempts + 1 < MaxAttempts[queue[c.job]]
  /\ \E delay \in Backoff : FinishClaim(c, "pending", c.attempts + 1, now[w] + delay)
  /\ UNCHANGED reporting

\* Mutant: goes on to report although the row was no longer this worker's.
JobFailsLoudly(w, c) ==
  /\ Returns(w, c)
  /\ c.job \notin Registered \/ c.attempts + 1 >= MaxAttempts[queue[c.job]]
  /\ FinishClaim(c, "failed", c.attempts + 1, now[w])
  /\ reporting' = [reporting EXCEPT ![w] = {c.job}]

\* Attempts exhausted, or a kind this build does not register.  Only the worker
\* whose UPDATE matched goes on to report it, and the UPDATE is committed first.
JobFails(w, c) ==
  /\ Returns(w, c)
  /\ c.job \notin Registered \/ c.attempts + 1 >= MaxAttempts[queue[c.job]]
  /\ FinishClaim(c, "failed", c.attempts + 1, now[w])
  /\ reporting' = [reporting EXCEPT ![w] = IF Owns(c) THEN {c.job} ELSE {}]

\* The .onError event of the failure just written.
Report(w) ==
  /\ reporting[w] # {}
  /\ reported' = [j \in Jobs |-> IF j \in reporting[w] THEN reported[j] + 1 ELSE reported[j]]
  /\ reporting' = [reporting EXCEPT ![w] = {}]
  /\ UNCHANGED <<rows, pc, now, todo, left, batch, running, began, aborts, silenced>>

Idle(w) ==
  /\ pc' = [pc EXCEPT ![w] = "idle"]
  /\ now' = [now EXCEPT ![w] = 0]
  /\ todo' = [todo EXCEPT ![w] = {}]
  /\ left' = [left EXCEPT ![w] = 0]
  /\ batch' = [batch EXCEPT ![w] = {}]
  /\ running' = [running EXCEPT ![w] = {}]
  /\ began' = [began EXCEPT ![w] = 0]
  /\ reporting' = [reporting EXCEPT ![w] = {}]
  /\ UNCHANGED <<rows, reported>>

EndPoll(w) ==
  /\ pc[w] = "serve"
  /\ batch[w] = {} /\ running[w] = {} /\ reporting[w] = {}
  /\ Idle(w)
  /\ UNCHANGED <<aborts, silenced>>

\* The process dies, or a statement of the cycle fails and pollOnce returns its
\* error: either way the rows stay as they are, the claims are forgotten, and a
\* failure that was written but not reported never will be.
AbortPoll(w) ==
  /\ pc[w] # "idle"
  /\ aborts < MaxAborts
  /\ Idle(w)
  /\ aborts' = aborts + 1
  /\ silenced' = silenced \cup reporting[w]

-----------------------------------------------------------------------------
Aged(t, floor) == IF t > 0 - floor THEN t - 1 ELSE t

\* One second passes.  Handlers that reached their bound must move first, and so
\* must a cycle before the slowest clock is MaxPoll past what the cycle read:
\* every cycle of at most MaxPoll seconds is covered, whatever its clock.
Tick ==
  /\ \A w \in Workers : /\ pc[w] # "idle" => now[w] > -MaxPoll
                        /\ running[w] # {} => began[w] > -MaxRun
  /\ run_at' = [j \in Jobs |-> IF status[j] = "none" THEN 0 ELSE Aged(run_at[j], MaxPoll)]
  /\ claimed_at' =
       [j \in Jobs |-> IF status[j] = "claimed"
                       THEN Aged(claimed_at[j], MaxPoll + VisibilityTimeout[queue[j]])
                       ELSE 0]
  /\ created' = [j \in Jobs |-> IF status[j] \in {"none", "gone"} THEN 0
                                 ELSE Aged(created[j], DoneTtl[queue[j]])]
  /\ now' = [w \in Workers |-> IF pc[w] = "idle" THEN 0 ELSE now[w] - 1]
  /\ began' = [w \in Workers |-> IF running[w] = {} THEN 0 ELSE began[w] - 1]
  /\ UNCHANGED <<status, queue, attempts, claim_generation,
                 pc, todo, left, batch, running, reporting, aborts, history>>

Finish(w) == \E c \in running[w] : JobDone(w, c) \/ JobRetries(w, c) \/ JobFails(w, c)

PollStep(w) ==
  \/ StartPoll(w)
  \/ \E q \in Queues : Sweep(w, q)
  \/ ClaimUnrated(w)
  \/ \E q \in Queues : ClaimRated(w, q)
  \/ \E c \in batch[w] : Dispatch(w, c)
  \/ Finish(w)
  \/ Report(w)
  \/ EndPoll(w)

Next ==
  \/ \E j \in Jobs, q \in Queues, delay \in Schedule : Enqueue(j, q, delay)
  \/ \E j \in Jobs : CancelJob(j)
  \/ \E q \in Queues : GcReclaim(q) \/ GcDoneJobs(q)
  \/ \E w \in Workers : PollStep(w) \/ AbortPoll(w)
  \/ Tick

Spec == Init /\ [][Next]_vars

\* Every worker is a job of the scheduler that re-arms itself after each cycle,
\* handlers return, the clock runs, and the hourly GC job sweeps every queue.
Fairness ==
  /\ \A w \in Workers : WF_vars(PollStep(w))
  /\ \A q \in Queues : WF_vars(GcReclaim(q))
  /\ WF_vars(Tick)

FairSpec == Spec /\ Fairness

-----------------------------------------------------------------------------
(***************************************************************************)
(* Safety.                                                                 *)
(***************************************************************************)

Held(w) == batch[w] \cup running[w]

\* A claim generation is a fencing token: no two outstanding claims of a row
\* carry the same one, and none is ahead of the row (claimBatch increments it,
\* nothing resets it).
TokensUnique ==
  \A v, w \in Workers : \A c \in Held(v), d \in Held(w) :
    /\ c.generation <= claim_generation[c.job]
    /\ c.job = d.job /\ c.generation = d.generation => v = w /\ c = d

\* The attempt count a worker took with its claim is still the row's when the
\* worker may write it back, so a failure is neither counted twice nor lost
\* although the handler runs with the writer released.
NoLostAttempt ==
  \A w \in Workers : \A c \in Held(w) :
    c.generation = claim_generation[c.job] /\ status[c.job] \in Live
      => c.attempts = attempts[c.job] /\ c.attempts < c.generation

\* A job is reported to .onError at most once, and only when it really is failed
\* for good: attempts exhausted or a kind nobody registers.  A failed job that
\* nobody reported is about to be by exactly one worker, or that worker was gone
\* between the UPDATE and the event: nothing else loses the report.
FailureReportedOnce ==
  \A j \in Jobs :
    LET reporters == {w \in Workers : j \in reporting[w]}
    IN /\ reported[j] <= 1
       /\ \A v, w \in reporters : v = w
       /\ reported[j] = 1 => reporters = {} /\ j \notin silenced
       /\ j \in silenced => reporters = {}
       /\ reported[j] = 1 \/ j \in silenced \/ reporters # {} => status[j] \in {"failed", "gone"}
       /\ status[j] = "failed" =>
            /\ reported[j] = 1 \/ j \in silenced \/ reporters # {}
            /\ j \in Registered => attempts[j] = MaxAttempts[queue[j]]

\* No two handlers run for the same job at the same time.
NoDoubleDispatch ==
  \A v, w \in Workers : \A c \in running[v], d \in running[w] :
    c.job = d.job => v = w

\* A job that was called off is not running and will not be started by a
\* worker that claimed it earlier.
CanceledIsOff ==
  \A w \in Workers : \A c \in Held(w) : status[c.job] # "canceled"

\* Where a poll cycle, with the drift of the clocks, ends within the visibility
\* timeout, a handler that runs is the only one of its job, and its job is not
\* called off.
DispatchSound == NoDoubleDispatch /\ CanceledIsOff

\* Where no queue is rated, a worker claims a job only when it leaves no ready
\* job of a more urgent queue of its own behind.
StrictPriority ==
  [][\A w \in Workers : \A c \in batch'[w] \ batch[w] :
       \A k \in Ready(Drains[w], now[w]) :
         Priority[queue[k]] < Priority[queue[c.job]]
           => status'[k] = "claimed"]_vars

(***************************************************************************)
(* Refinement.                                                             *)
(***************************************************************************)

Contract(j) == INSTANCE JobContract WITH
  status <- status[j],
  limit <- IF status[j] = "none" THEN 0 ELSE MaxAttempts[queue[j]],
  attempts <- attempts[j],
  leases <- claim_generation[j]

\* Every job keeps the contract of JobContract: attempts are counted against
\* distinct claims, never beyond the limit, and the end is final.
KeepsContract ==
  /\ \A j \in Jobs : Contract(j)!Init
  /\ [][\A j \in Jobs : Contract(j)!Next \/ UNCHANGED Contract(j)!vars]_vars

(***************************************************************************)
(* Liveness.                                                               *)
(***************************************************************************)

\* An enqueued job ends, whatever workers die while they hold it.
EveryJobEnds ==
  \A j \in Jobs : status[j] = "pending" ~> status[j] \in Terminal \cup {"gone"}
=============================================================================
