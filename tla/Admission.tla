----------------------------- MODULE Admission -----------------------------
(***************************************************************************)
(* The shared work budget (src/admission.zig): HTTP permits, a joint limit *)
(* on requests plus retained jobs, and a budget of retained job bytes.     *)
(* Every operation runs under the state's own lock, so each operator is    *)
(* one atomic step; refusal is a value, nobody ever waits here.            *)
(* The statistics (high-water marks, counts of rejections) are left out.   *)
(***************************************************************************)
EXTENDS Integers

CONSTANTS
  MaxRequests,  \* .admission.max_requests
  MaxWork,      \* .admission.max_work
  MaxJobBytes   \* .admission.max_job_bytes

ASSUME AdmissionAssumption ==
  /\ MaxRequests \in Nat \ {0}
  /\ MaxWork \in Nat \ {0}
  /\ MaxJobBytes \in Nat \ {0}

VARIABLES
  active,     \* HTTP permits out
  jobs,       \* retained or inline jobs
  job_bytes   \* bytes of the queued copies

budget == <<active, jobs, job_bytes>>

BudgetInit == active = 0 /\ jobs = 0 /\ job_bytes = 0

WorkFull == active + jobs >= MaxWork

\* A request gets a permit, or a 503.
CanAcquire == active # MaxRequests /\ ~WorkFull

Acquire == CanAcquire /\ active' = active + 1 /\ UNCHANGED <<jobs, job_bytes>>

Release == active' = active - 1 /\ UNCHANGED <<jobs, job_bytes>>

\* One work slot and `bytes` of retained copy, or nothing of either.
CanAcquireJob(bytes) == ~WorkFull /\ bytes <= MaxJobBytes - job_bytes

AcquireJobBytes(bytes) ==
  /\ CanAcquireJob(bytes)
  /\ jobs' = jobs + 1
  /\ job_bytes' = job_bytes + bytes
  /\ UNCHANGED active

ReleaseJobBytes(bytes) ==
  /\ jobs' = jobs - 1
  /\ job_bytes' = job_bytes - bytes
  /\ UNCHANGED active
=============================================================================
