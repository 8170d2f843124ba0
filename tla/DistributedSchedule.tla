------------------------ MODULE DistributedSchedule ------------------------
(***************************************************************************)
(* One .distributed cron or interval job shared by the instances on one    *)
(* database (src/scheduler_coordination.zig): its row of "_scheduler_jobs" *)
(* and, on every instance, the probe, the claim, the handler that runs     *)
(* outside any transaction and the fenced completion.                      *)
(*                                                                         *)
(* A claim and a completion are transactions that lock the row first and   *)
(* read the database clock under the lock, so each is one action.  The   *)
(* cadence is the set of times the schedule fires at; when none is left    *)
(* the schedule is retired, as an impossible cron expression is.  The      *)
(* owner of a lease is an id drawn for one run, written here as the number *)
(* of the claim it wins.                                                   *)
(***************************************************************************)
EXTENDS Integers, FiniteSets

CONSTANTS
  Instances,
  Definition,  \* [Instances -> fingerprints]: the cadence the build declares
  Lease,       \* [Instances -> Nat]: lease_seconds, free to differ
  Fires,       \* the times the schedule fires at
  RetryDelay,  \* [0..MaxFailures -> Nat]: backoff by consecutive failures
  MaxFailures, \* bound on consecutive failures
  MaxGeneration, \* bound on claims
  Latest       \* bound on the time

NoRow == "no row"

ASSUME ScheduleAssumption ==
  /\ \A i \in Instances : Definition[i] # NoRow
  /\ Lease \in [Instances -> Nat \ {0}]
  /\ Fires \subseteq Nat
  /\ MaxFailures \in Nat /\ MaxGeneration \in Nat /\ Latest \in Nat
  /\ RetryDelay \in [0..MaxFailures -> Nat \ {0}]

\* The row: one variable per column.
VARIABLES
  definition,    \* NoRow while nobody registered the job
  next_fire,
  occurrence_at, \* the occurrence the next success completes
  owner,         \* 0 when the lease was given back
  generation,    \* claims so far
  lease_until,
  failures,      \* consecutive failures of this occurrence
  stopped

VARIABLES
  now,           \* the database clock
  pc,            \* [Instances -> {"idle", "ready", "running", "retired"}]
  held,          \* [Instances -> Nat]: generation of the lease it runs under
  scheduled_at,  \* [Instances -> Nat]: JobEvent.scheduled_at
  known          \* [Instances -> Nat]: failures it read with the claim

VARIABLES
  until,         \* history, [Instances -> Nat]: when that lease ends
  completed      \* history: occurrences whose success was accepted

row  == <<definition, next_fire, occurrence_at, owner, generation, lease_until, failures, stopped>>
run  == <<held, scheduled_at, known, until>>
vars == <<row, now, pc, run, completed>>

TypeOK ==
  /\ definition \in {Definition[i] : i \in Instances} \cup {NoRow}
  /\ next_fire \in Nat /\ occurrence_at \in Nat
  /\ owner \in Nat /\ generation \in Nat
  /\ lease_until \in Nat /\ failures \in 0..MaxFailures
  /\ stopped \in BOOLEAN
  /\ now \in Nat
  /\ pc \in [Instances -> {"idle", "ready", "running", "retired"}]
  /\ held \in [Instances -> Nat]
  /\ scheduled_at \in [Instances -> Nat]
  /\ known \in [Instances -> 0..MaxFailures]
  /\ until \in [Instances -> Nat]
  /\ completed \subseteq Nat

Init ==
  /\ definition = NoRow
  /\ next_fire = 0 /\ occurrence_at = 0
  /\ owner = 0
  /\ generation = 0 /\ lease_until = 0 /\ failures = 0
  /\ stopped = FALSE
  /\ now = 0
  /\ pc = [i \in Instances |-> "idle"]
  /\ held = [i \in Instances |-> 0]
  /\ scheduled_at = [i \in Instances |-> 0]
  /\ known = [i \in Instances |-> 0]
  /\ until = [i \in Instances |-> 0]
  /\ completed = {}

\* n is the first fire after t; Ends(t): there is none.
NextFire(t, n) == n \in Fires /\ n > t /\ \A f \in Fires : f > t => n <= f
Ends(t) == \A f \in Fires : f <= t

\* The row moves on to the next occurrence after now, or is retired.
MoveOn ==
  \/ \E n \in Fires : /\ NextFire(now, n)
                      /\ next_fire' = n /\ occurrence_at' = n /\ stopped' = FALSE
  \/ Ends(now) /\ next_fire' = 0 /\ occurrence_at' = 0 /\ stopped' = TRUE

MovesTo(i, to) == pc' = [pc EXCEPT ![i] = to]

-----------------------------------------------------------------------------
\* A reader without locks looks whether a claim is worth the writer.
Probe(i) ==
  /\ pc[i] = "idle"
  /\ \/ definition = NoRow /\ MovesTo(i, "ready")
     \/ /\ definition = Definition[i]
        /\ \/ stopped /\ MovesTo(i, "retired")
           \/ ~stopped /\ next_fire <= now /\ lease_until <= now /\ MovesTo(i, "ready")
  /\ UNCHANGED <<row, now, run, completed>>

\* The first claim registers the schedule for its next fire, after now.
Register(i) ==
  /\ pc[i] = "ready"
  /\ definition = NoRow
  /\ definition' = Definition[i]
  /\ MoveOn
  /\ MovesTo(i, "idle")
  /\ UNCHANGED <<owner, generation, lease_until, failures, now, run, completed>>

\* Mutants: claims whatever is due, leased or not; never recovers a lease.
DueUnleased == ~stopped /\ next_fire <= now
DueUnowned == ~stopped /\ next_fire <= now /\ lease_until = 0

Due == ~stopped /\ next_fire <= now /\ lease_until <= now

NewGeneration == generation' = generation + 1

\* Under the row lock the probe's answer is checked again.
Claim(i) ==
  /\ pc[i] = "ready"
  /\ definition = Definition[i] /\ Due
  /\ generation < MaxGeneration
  /\ NewGeneration
  /\ owner' = generation'
  /\ lease_until' = now + Lease[i]
  /\ held' = [held EXCEPT ![i] = generation']
  /\ scheduled_at' = [scheduled_at EXCEPT ![i] = occurrence_at]
  /\ known' = [known EXCEPT ![i] = failures]
  /\ until' = [until EXCEPT ![i] = now + Lease[i]]
  /\ MovesTo(i, "running")
  /\ UNCHANGED <<definition, next_fire, occurrence_at, failures, stopped, now, completed>>

\* Not due any more, or DistributedScheduleMismatch: the instance polls on.
Declined(i) ==
  /\ pc[i] = "ready"
  /\ definition # NoRow
  /\ definition # Definition[i] \/ ~Due
  /\ MovesTo(i, "idle")
  /\ UNCHANGED <<row, now, run, completed>>

\* Mutant: an unexpired lease, whoever holds it, is enough.
ValidByLease(i) == lease_until > now

\* Only the newest claim may complete, even after its lease ran out.
Valid(i) == owner = held[i] /\ generation = held[i]

\* Mutant: a failed occurrence is given up.
GivesUp(i) ==
  /\ known[i] < MaxFailures
  /\ failures' = known[i] + 1
  /\ MoveOn
  /\ UNCHANGED completed

\* A failure keeps the occurrence and backs off.
Fails(i) ==
  /\ known[i] < MaxFailures
  /\ failures' = known[i] + 1
  /\ next_fire' = now + RetryDelay[known[i] + 1]
  /\ stopped' = FALSE
  /\ UNCHANGED <<occurrence_at, completed>>

\* A success moves on to the first fire after now: missed ones coalesce.
Succeeds(i) ==
  /\ failures' = 0
  /\ MoveOn
  /\ completed' = completed \cup {scheduled_at[i]}

Finishes(i) ==
  /\ pc[i] = "running"
  /\ \/ /\ Valid(i)
        /\ Fails(i) \/ Succeeds(i)
        /\ owner' = 0 /\ lease_until' = 0
        /\ UNCHANGED <<definition, generation>>
     \/ ~Valid(i) /\ UNCHANGED <<row, completed>>
  /\ MovesTo(i, "idle")
  /\ UNCHANGED <<now, run>>

\* A crash and restart, or a completion that could not be persisted.
Crash(i) ==
  /\ pc[i] \in {"running", "retired"}
  /\ MovesTo(i, "idle")
  /\ UNCHANGED <<row, now, run, completed>>

Tick ==
  /\ now < Latest
  /\ now' = now + 1
  /\ UNCHANGED <<row, pc, run, completed>>

Next ==
  \/ \E i \in Instances :
       Probe(i) \/ Register(i) \/ Claim(i) \/ Declined(i) \/ Finishes(i) \/ Crash(i)
  \/ Tick

Spec == Init /\ [][Next]_vars

\* Instances poll every 15 seconds, handlers return or crash, time passes.
Fairness ==
  /\ \A i \in Instances : /\ WF_vars(Probe(i))
                          /\ WF_vars(Register(i) \/ Claim(i) \/ Declined(i))
                          /\ WF_vars(Finishes(i))
  /\ WF_vars(Tick)

FairSpec == Spec /\ Fairness

-----------------------------------------------------------------------------
Running(i) == pc[i] = "running"

\* No two instances run the job inside their leases at the same time: only an
\* overrun can overlap its replacement.
LeaseExclusive ==
  \A i, j \in Instances :
    Running(i) /\ Running(j) /\ until[i] > now /\ until[j] > now => i = j

\* JobEvent.generation identifies the claim attempt: runs that overlap are
\* told apart by it.
GenerationsDiffer ==
  \A i, j \in Instances : Running(i) /\ Running(j) /\ held[i] = held[j] => i = j

\* JobEvent.scheduled_at is an idempotency key: of all the runs given the same
\* key, retries and overruns included, one success at most is accepted, and it
\* is the one of the occurrence the row still waits for.
CompletedOnce ==
  [][\A i \in Instances :
       Finishes(i) /\ completed' # completed
         => scheduled_at[i] = occurrence_at /\ scheduled_at[i] \notin completed]_vars

\* An occurrence stays the row's until a success completes it, whatever fails,
\* crashes or arrives late in between, and the cadence never goes back.
OccurrencesAdvance ==
  [][occurrence_at' # occurrence_at /\ definition # NoRow
       => occurrence_at \in completed' /\ (stopped' \/ occurrence_at' > occurrence_at)]_vars

\* Work that is due is claimed in the end, although the instance that held the
\* lease may be gone, until the bounds on claims and on time are reached.
Waiting == definition # NoRow /\ ~stopped /\ next_fire <= now
Recovered ==
  Waiting ~> (~Waiting \/ generation = MaxGeneration \/ lease_until > Latest)
=============================================================================
