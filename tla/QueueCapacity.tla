--------------------------- MODULE QueueCapacity ---------------------------
(***************************************************************************)
(* Backlog admission of one durable queue with a .capacity, on PostgreSQL  *)
(* (enqueue and capacitySnapshot in src/queue/durable.zig).  Producers of  *)
(* any instance count the retained rows and insert one more, in a          *)
(* transaction of their own or, under a savepoint, in the caller's.        *)
(*                                                                         *)
(* The database is modelled by what the code relies on: a READ COMMITTED   *)
(* statement sees what is committed when it starts plus the transaction's  *)
(* own rows, a REPEATABLE READ one sees the snapshot of the transaction;   *)
(* an advisory lock lives until the transaction ends or the savepoint it   *)
(* was taken under is rolled back.  SQLite is the case of one producer at  *)
(* a time.                                                                 *)
(***************************************************************************)
EXTENDS Integers, FiniteSets

CONSTANTS
  Producers,
  Jobs,       \* rows that may be enqueued
  Size,       \* [Jobs -> Nat]: payload bytes
  MaxJobs,    \* capacity.max_jobs
  MaxBytes    \* capacity.max_payload_bytes

ASSUME CapacityAssumption ==
  /\ IsFiniteSet(Jobs) /\ Jobs # {}
  /\ Size \in [Jobs -> Nat]
  /\ MaxJobs \in Nat \ {0} /\ MaxBytes \in Nat \ {0}

VARIABLES
  rows,    \* committed rows of the queue
  fresh,   \* rows never tried yet
  at,      \* [Producers -> PC]
  nested,  \* [Producers -> BOOLEAN]: enqueue runs in the caller's transaction
  repeatable, \* [Producers -> BOOLEAN]: that one is not READ COMMITTED
  seen,    \* [Producers -> SUBSET Jobs]: snapshot of a repeatable transaction
  own,     \* [Producers -> SUBSET Jobs]: uncommitted rows
  saved,   \* [Producers -> SUBSET Jobs]: own at the savepoint
  job,     \* [Producers -> Jobs]: the row being enqueued
  lock,    \* producers that hold the advisory lock
  kept     \* producers that held it before the savepoint

ledgerVars == <<rows, fresh, at, nested, repeatable, seen, own, saved, job, lock, kept>>

\* Where a producer is.  out: no transaction; caller: in the caller's, outside enqueue;
\* begun, locked, counted, inserted: inside enqueue.
PC == {"out", "caller", "begun", "locked", "counted", "inserted"}

LedgerTypeOK ==
  /\ rows \subseteq Jobs /\ fresh \subseteq Jobs
  /\ at \in [Producers -> PC]
  /\ nested \in [Producers -> BOOLEAN]
  /\ repeatable \in [Producers -> BOOLEAN]
  /\ seen \in [Producers -> SUBSET Jobs]
  /\ own \in [Producers -> SUBSET Jobs]
  /\ saved \in [Producers -> SUBSET Jobs]
  /\ job \in [Producers -> Jobs]
  /\ lock \subseteq Producers /\ kept \subseteq Producers
  /\ \A p \in Producers : at[p] = "out" => own[p] = {} /\ p \notin lock

LedgerInit ==
  /\ rows = {}
  /\ fresh = Jobs
  /\ at = [p \in Producers |-> "out"]
  /\ nested = [p \in Producers |-> FALSE]
  /\ repeatable = [p \in Producers |-> FALSE]
  /\ seen = [p \in Producers |-> {}]
  /\ own = [p \in Producers |-> {}]
  /\ saved = [p \in Producers |-> {}]
  /\ job = [p \in Producers |-> CHOOSE j \in Jobs : TRUE]
  /\ lock = {}
  /\ kept = {}

Puts(p, to) == at' = [at EXCEPT ![p] = to]

-----------------------------------------------------------------------------
(***************************************************************************)
(* The caller's own transaction                                            *)
(***************************************************************************)
CallerBegin(p, rr) ==
  /\ at[p] = "out"
  /\ Puts(p, "caller")
  /\ repeatable' = [repeatable EXCEPT ![p] = rr]
  /\ seen' = [seen EXCEPT ![p] = IF rr THEN rows ELSE {}]
  /\ UNCHANGED <<rows, fresh, nested, own, saved, job, lock, kept>>

\* The transaction is over: its lock goes, its rows stay or not.
Ends(p) ==
  /\ Puts(p, "out")
  /\ own' = [own EXCEPT ![p] = {}]
  /\ saved' = [saved EXCEPT ![p] = {}]
  /\ seen' = [seen EXCEPT ![p] = {}]
  /\ repeatable' = [repeatable EXCEPT ![p] = FALSE]
  /\ nested' = [nested EXCEPT ![p] = FALSE]
  /\ lock' = lock \ {p} /\ kept' = kept \ {p}
  /\ UNCHANGED <<fresh, job>>

Commits(p) == rows' = rows \cup own[p] /\ Ends(p)

CallerCommit(p) == at[p] = "caller" /\ Commits(p)

\* Rollback by the caller, a lost connection or a crash, at any point.
Rollback(p) == at[p] # "out" /\ Ends(p) /\ UNCHANGED rows

-----------------------------------------------------------------------------
(***************************************************************************)
(* enqueue                                                                 *)
(***************************************************************************)

\* A payload that alone exceeds the capacity is refused without a transaction.
EnqueueBegin(p, j) ==
  /\ at[p] \in {"out", "caller"}
  /\ j \in fresh /\ Size[j] <= MaxBytes
  /\ fresh' = fresh \ {j}
  /\ job' = [job EXCEPT ![p] = j]
  /\ nested' = [nested EXCEPT ![p] = at[p] = "caller"]
  /\ saved' = [saved EXCEPT ![p] = own[p]]
  /\ kept' = IF p \in lock THEN kept \cup {p} ELSE kept \ {p}
  /\ Puts(p, "begun")
  /\ UNCHANGED <<rows, repeatable, seen, own, lock>>

\* Mutant: the refusal unlocks what the caller's earlier rows rely on.
RefuseAndUnlock(p) ==
  IF nested[p]
  THEN /\ Puts(p, "caller")
       /\ own' = [own EXCEPT ![p] = saved[p]]
       /\ lock' = lock \ {p}
       /\ UNCHANGED <<rows, fresh, nested, repeatable, seen, saved, job, kept>>
  ELSE Ends(p) /\ UNCHANGED rows

\* rollbackCapacity: of the whole transaction, or to the savepoint only.
Refuse(p) ==
  IF nested[p]
  THEN /\ Puts(p, "caller")
       /\ own' = [own EXCEPT ![p] = saved[p]]
       /\ lock' = IF p \in kept THEN lock ELSE lock \ {p}
       /\ UNCHANGED <<rows, fresh, nested, repeatable, seen, saved, job, kept>>
  ELSE Ends(p) /\ UNCHANGED rows

\* Mutant: trusts any isolation level.
TryLockAnyIsolation(p) ==
  /\ at[p] = "begun"
  /\ IF lock \subseteq {p}
     THEN /\ lock' = lock \cup {p}
          /\ Puts(p, "locked")
          /\ UNCHANGED <<rows, fresh, nested, repeatable, seen, own, saved, job, kept>>
     ELSE Refuse(p)

\* QueueCapacityIsolation, QueueAdmissionBusy, or the lock.
TryLock(p) ==
  /\ at[p] = "begun"
  /\ IF ~repeatable[p] /\ lock \subseteq {p}
     THEN /\ lock' = lock \cup {p}
          /\ Puts(p, "locked")
          /\ UNCHANGED <<rows, fresh, nested, repeatable, seen, own, saved, job, kept>>
     ELSE Refuse(p)

\* Mutant: counts committed rows only.
VisibleCommitted(p) == IF repeatable[p] THEN seen[p] ELSE rows

\* The rows the transaction's statements see.
Visible(p) == (IF repeatable[p] THEN seen[p] ELSE rows) \cup own[p]

\* The payload bytes of rows, each named by its row and its position, and their number.
Payload(S) == UNION {{j} \X (1..Size[j]) : j \in S}
Bytes(S) == Cardinality(Payload(S))

\* One more row with this payload fits on top of S.
Fits(S, j) == Cardinality(S) < MaxJobs /\ Size[j] <= MaxBytes - Bytes(S)

Count(p) ==
  /\ at[p] = "locked"
  /\ IF Fits(Visible(p), job[p])
     THEN /\ Puts(p, "counted")
          /\ UNCHANGED <<rows, fresh, nested, repeatable, seen, own, saved, job, lock, kept>>
     ELSE Refuse(p)

Insert(p) ==
  /\ at[p] = "counted"
  /\ own' = [own EXCEPT ![p] = @ \cup {job[p]}]
  /\ Puts(p, "inserted")
  /\ UNCHANGED <<rows, fresh, nested, repeatable, seen, saved, job, lock, kept>>

\* An insert or a release that fails rolls back the same way.
Fail(p) == at[p] \in {"counted", "inserted"} /\ Refuse(p)

\* COMMIT, or RELEASE SAVEPOINT with the lock kept by the caller's transaction.
EnqueueEnd(p) ==
  /\ at[p] = "inserted"
  /\ IF nested[p]
     THEN /\ Puts(p, "caller")
          /\ UNCHANGED <<rows, fresh, nested, repeatable, seen, own, saved, job, lock, kept>>
     ELSE Commits(p)

\* Terminal history is deleted, or an operator deletes rows.
Delete(j) ==
  /\ j \in rows
  /\ rows' = rows \ {j}
  /\ UNCHANGED <<fresh, at, nested, repeatable, seen, own, saved, job, lock, kept>>

LedgerNext ==
  \/ \E p \in Producers :
       \/ \E rr \in BOOLEAN : CallerBegin(p, rr)
       \/ CallerCommit(p) \/ Rollback(p)
       \/ \E j \in Jobs : EnqueueBegin(p, j)
       \/ TryLock(p) \/ Count(p) \/ Insert(p) \/ Fail(p) \/ EnqueueEnd(p)
  \/ \E j \in Jobs : Delete(j)

LedgerSpec == LedgerInit /\ [][LedgerNext]_ledgerVars

-----------------------------------------------------------------------------
Retained == rows \cup UNION {own[p] : p \in Producers}

\* Even if every open transaction commits, the queue retains no more rows than
\* its capacity: producers that count before they insert never both win.
RowsBounded == Cardinality(Retained) <= MaxJobs

\* The same of the retained payload bytes.
BytesBounded == Bytes(Retained) <= MaxBytes

\* A refusal costs the caller's transaction nothing: the rows it had enqueued
\* before are still there, and still guarded by the lock.
RefusalIsLocal ==
  [][\A p \in Producers :
       nested[p] /\ at[p] \notin {"out", "caller"} /\ at'[p] = "caller"
         => own[p] \ {job[p]} \subseteq own'[p] /\ (own'[p] # {} => p \in lock')]_ledgerVars
=============================================================================
