---------------------------- MODULE JobContract ----------------------------
(***************************************************************************)
(* What the durable queue promises of ONE job, with no rows, clocks or     *)
(* workers: at-least-once execution under a bounded number of attempts,    *)
(* each counted against a lease of its own, and a final end.               *)
(* DurableQueue implements it for each of its jobs.                        *)
(***************************************************************************)
EXTENDS Naturals

VARIABLES
  status,    \* "none", "pending", "claimed", "done", "failed", "canceled", "gone"
  limit,     \* attempts the job may use, fixed when it is submitted
  attempts,  \* failed attempts counted against the job
  leases     \* times the job was handed to a worker

vars == <<status, limit, attempts, leases>>

Init == status = "none" /\ limit = 0 /\ attempts = 0 /\ leases = 0

Moves(from, to) == status \in from /\ status' = to

Submit == Moves({"none"}, "pending") /\ limit' > 0 /\ UNCHANGED <<attempts, leases>>

Lease == /\ Moves({"pending"}, "claimed")
         /\ leases' = leases + 1
         /\ UNCHANGED <<limit, attempts>>

\* The holder is presumed dead; no attempt is counted.
Lapse == Moves({"claimed"}, "pending") /\ UNCHANGED <<limit, attempts, leases>>

\* Outcomes come from a lease, also from one that lapsed but was not given to
\* anyone else; each needs a lease that has not been counted yet.
Outcome(to) == /\ Moves({"claimed", "pending"}, to)
               /\ attempts < leases
               /\ UNCHANGED <<limit, leases>>

Retry == Outcome("pending") /\ attempts' = attempts + 1 /\ attempts' < limit

Succeed == Outcome("done") /\ UNCHANGED attempts

Fail == Outcome("failed") /\ attempts' = attempts + 1 /\ attempts' <= limit

Cancel == Moves({"pending"}, "canceled") /\ UNCHANGED <<limit, attempts, leases>>

Forget == /\ Moves({"done", "failed", "canceled"}, "gone")
          /\ UNCHANGED <<limit, attempts, leases>>

Next == Submit \/ Lease \/ Lapse \/ Retry \/ Succeed \/ Fail \/ Cancel \/ Forget

Spec == Init /\ [][Next]_vars
=============================================================================
