------------------------ MODULE DurableQueueProofs ------------------------
(***************************************************************************)
(* Proofs about DurableQueue, for every set of jobs, queues and workers,   *)
(* every timeout and every batch size.                                     *)
(***************************************************************************)
EXTENDS DurableQueue, FiniteSetTheorems, TLAPS

(***************************************************************************)
(* The claims a statement may take.                                        *)
(***************************************************************************)
LEMMA ReadyJobs ==
  ASSUME NEW qs, NEW t
  PROVE  Ready(qs, t) \subseteq Jobs
BY DEF Ready

\* What one claim statement takes are pending rows, at most limit of them.
LEMMA FirstReadyBound ==
  ASSUME NEW qs, NEW t, NEW limit \in Nat, NEW S \in FirstReady(qs, t, limit)
  PROVE  /\ S \subseteq Jobs
         /\ \A j \in S : status[j] = "pending"
         /\ Cardinality(S) \in Nat
         /\ Cardinality(S) <= limit
<1>1. S \subseteq Ready(qs, t) /\ Cardinality(S) <= limit
  BY DEF FirstReady
<1>2. IsFiniteSet(S)
  BY <1>1, ReadyJobs, QueueAssumption, FS_Subset
<1>3. QED
  BY <1>1, <1>2, ReadyJobs, FS_CardinalityType DEF Ready

\* A set of claims a worker gets is well typed.
LEMMA ReturnedType ==
  ASSUME TypeOK, NEW S \in SUBSET Jobs
  PROVE  Returned(S) \subseteq Claimed
BY DEF Returned, Claimed, TypeOK

(***************************************************************************)
(* Type correctness.                                                       *)
(***************************************************************************)
\* The columns, typed.
RowsType ==
  /\ status \in [Jobs -> Status]
  /\ queue \in [Jobs -> Queues]
  /\ attempts \in [Jobs -> Nat]
  /\ run_at \in [Jobs -> Int]
  /\ claimed_at \in [Jobs -> Int]
  /\ claim_generation \in [Jobs -> Nat]
  /\ created \in [Jobs -> Int]

\* A sweep leaves the columns typed.
LEMMA ReclaimType ==
  ASSUME TypeOK, NEW q, NEW t, ReclaimStale(q, t)
  PROVE  RowsType'
BY DEF TypeOK, RowsType, ReclaimStale, RestUnchanged, Status, Live

\* A claim statement leaves the columns typed, and the batch within its room.
LEMMA ClaimBatchType ==
  ASSUME TypeOK, NEW w \in Workers, NEW qs, NEW t, NEW limit \in 0..left[w],
         NEW S \in FirstReady(qs, t, limit), ClaimBatch(w, S)
  PROVE  /\ RowsType'
         /\ batch' \in [Workers -> SUBSET Claimed]
         /\ left' \in [Workers -> Nat]
<1>0. left[w] \in Nat
  BY DEF TypeOK
<1>1. limit \in Nat
  BY <1>0
<1>2. S \subseteq Jobs /\ Cardinality(S) \in Nat /\ Cardinality(S) <= limit
  BY <1>1, FirstReadyBound
<1>3. RowsType'
  BY DEF TypeOK, RowsType, ClaimBatch, Status, Live
<1>4. batch' \in [Workers -> SUBSET Claimed]
  BY <1>2, ReturnedType DEF TypeOK, ClaimBatch
<1>5. left[w] - Cardinality(S) \in Nat
  BY <1>0, <1>2
<1>6. left' \in [Workers -> Nat]
  BY <1>5 DEF TypeOK, ClaimBatch
<1>7. QED
  BY <1>3, <1>4, <1>6

\* A write-back, matching or not, leaves the columns typed.
LEMMA FinishClaimType ==
  ASSUME TypeOK, NEW c \in Claimed, NEW s \in Live \cup Terminal, NEW a \in Nat,
         NEW t \in Int, FinishClaim(c, s, a, t)
  PROVE  RowsType'
BY DEF TypeOK, RowsType, FinishClaim, rows, Claimed, Status

\* Every step of callers, workers, GC and clock keeps the types.
LEMMA TypeStep == TypeOK /\ [Next]_vars => TypeOK'
<1> SUFFICES ASSUME TypeOK, [Next]_vars
             PROVE  TypeOK'
  OBVIOUS
<1>1. ASSUME NEW j \in Jobs, NEW q \in Queues, NEW delay \in Schedule, Enqueue(j, q, delay)
      PROVE  TypeOK'
  <2>1. PICK d \in 0..Drift : run_at' = [run_at EXCEPT ![j] = d + delay]
    BY <1>1 DEF Enqueue
  <2>2. d + delay \in Int
    BY QueueAssumption
  <2>3. run_at' \in [Jobs -> Int]
    BY <2>1, <2>2 DEF TypeOK
  <2>4. QED
    BY <1>1, <2>3 DEF TypeOK, Enqueue, Status, Live, pollVars, history
<1>2. ASSUME NEW j \in Jobs, CancelJob(j)
      PROVE  TypeOK'
  BY <1>2 DEF TypeOK, CancelJob, RestUnchanged, Status, Terminal, pollVars, history
<1>3. ASSUME NEW q \in Queues, GcReclaim(q)
      PROVE  TypeOK'
  BY <1>3, ReclaimType DEF TypeOK, RowsType, GcReclaim, pollVars, history
<1>4. ASSUME NEW q \in Queues, GcDoneJobs(q)
      PROVE  TypeOK'
  BY <1>4 DEF TypeOK, GcDoneJobs, RestUnchanged, Status, pollVars, history
<1>5. ASSUME NEW w \in Workers, StartPoll(w)
      PROVE  TypeOK'
  <2>1. Drains[w] \in SUBSET Queues /\ Concurrency[w] \in Nat
    BY QueueAssumption
  <2>2. PICK d \in 0..Drift : now' = [now EXCEPT ![w] = d]
    BY <1>5 DEF StartPoll
  <2>3. now' \in [Workers -> Int]
    BY <2>2, QueueAssumption DEF TypeOK
  <2>4. QED
    BY <1>5, <2>1, <2>3 DEF TypeOK, StartPoll, PC, rows, history
<1>6. ASSUME NEW w \in Workers, NEW q \in Queues, Sweep(w, q)
      PROVE  TypeOK'
  <2>1. RowsType'
    BY <1>6, ReclaimType DEF Sweep, TypeOK, RowsType, rows
  <2>2. QED
    BY <1>6, <2>1 DEF TypeOK, RowsType, Sweep, PC, history
<1>7. ASSUME NEW w \in Workers, ClaimUnrated(w)
      PROVE  TypeOK'
  <2>1. left[w] \in 0..left[w]
    BY DEF TypeOK
  <2>2. PICK S \in FirstReady(Drains[w] \ Rated, now[w], left[w]) : ClaimBatch(w, S)
    BY <1>7 DEF ClaimUnrated
  <2>3. /\ RowsType'
        /\ batch' \in [Workers -> SUBSET Claimed]
        /\ left' \in [Workers -> Nat]
    BY <2>1, <2>2, ClaimBatchType
  <2>4. todo' \in [Workers -> SUBSET Queues] /\ pc' \in [Workers -> PC]
    <3>1. Drains[w] \cap Rated \in SUBSET Queues
      BY QueueAssumption
    <3>2. QED
      BY <1>7, <3>1 DEF TypeOK, ClaimUnrated, PC
  <2>5. QED
    BY <1>7, <2>3, <2>4 DEF TypeOK, RowsType, ClaimUnrated, history
<1>8. ASSUME NEW w \in Workers, NEW q \in Queues, ClaimRated(w, q)
      PROVE  TypeOK'
  <2>1. PICK allowance \in 0..left[w] :
          \E S \in FirstReady({q}, now[w], allowance) : ClaimBatch(w, S)
    BY <1>8 DEF ClaimRated
  <2>2. PICK S \in FirstReady({q}, now[w], allowance) : ClaimBatch(w, S)
    BY <2>1
  <2>3. /\ RowsType'
        /\ batch' \in [Workers -> SUBSET Claimed]
        /\ left' \in [Workers -> Nat]
    BY <2>2, ClaimBatchType
  <2>4. todo' \in [Workers -> SUBSET Queues] /\ pc' \in [Workers -> PC]
    BY <1>8 DEF TypeOK, ClaimRated, PC
  <2>5. QED
    BY <1>8, <2>3, <2>4 DEF TypeOK, RowsType, ClaimRated, history
<1>9. ASSUME NEW w \in Workers, NEW c \in batch[w], Dispatch(w, c)
      PROVE  TypeOK'
  BY <1>9 DEF TypeOK, Dispatch, rows, history
<1>10. ASSUME NEW w \in Workers, NEW c \in running[w],
              JobDone(w, c) \/ JobRetries(w, c) \/ JobFails(w, c)
       PROVE  TypeOK'
  <2>0. c \in Claimed /\ c.attempts + 1 \in Nat /\ c.attempts \in Nat /\ now[w] \in Int
        /\ c.job \in Jobs
    BY DEF TypeOK, Claimed
  <2>1. RowsType'
    <3>1. CASE JobDone(w, c)
      BY <2>0, <3>1, FinishClaimType DEF JobDone, Terminal
    <3>2. CASE JobRetries(w, c)
      <4>1. PICK delay \in Backoff : FinishClaim(c, "pending", c.attempts + 1, now[w] + delay)
        BY <3>2 DEF JobRetries
      <4>2. now[w] + delay \in Int
        BY <2>0, QueueAssumption
      <4>3. QED
        BY <2>0, <4>1, <4>2, FinishClaimType DEF Live
    <3>3. CASE JobFails(w, c)
      BY <2>0, <3>3, FinishClaimType DEF JobFails, Terminal
    <3>4. QED
      BY <1>10, <3>1, <3>2, <3>3
  <2>2. reporting' \in [Workers -> SUBSET Jobs]
    <3>1. \/ reporting' = reporting
          \/ \E told \in {{c.job}, {}} : reporting' = [reporting EXCEPT ![w] = told]
      BY <1>10 DEF JobDone, JobRetries, JobFails
    <3>2. QED
      BY <2>0, <3>1 DEF TypeOK
  <2>3. QED
    <3>1. Returns(w, c)
      BY <1>10 DEF JobDone, JobRetries, JobFails
    <3>2. QED
      BY <2>1, <2>2, <3>1 DEF TypeOK, RowsType, Returns, history
<1>11. ASSUME NEW w \in Workers, EndPoll(w) \/ AbortPoll(w)
       PROVE  TypeOK'
  <2>0. Idle(w) /\ aborts' \in Nat /\ silenced' \subseteq Jobs
    BY <1>11 DEF TypeOK, EndPoll, AbortPoll
  <2>1. pc' \in [Workers -> PC] /\ UNCHANGED <<rows, reported>>
    BY <2>0 DEF TypeOK, Idle, PC
  <2>2. /\ now' \in [Workers -> Int] /\ began' \in [Workers -> Int]
        /\ left' \in [Workers -> Nat]
    BY <2>0 DEF TypeOK, Idle
  <2>3. /\ todo' \in [Workers -> SUBSET Queues]
        /\ batch' \in [Workers -> SUBSET Claimed]
        /\ running' \in [Workers -> SUBSET Claimed]
        /\ reporting' \in [Workers -> SUBSET Jobs]
    BY <2>0 DEF TypeOK, Idle
  <2>4. QED
    BY <2>0, <2>1, <2>2, <2>3 DEF TypeOK, rows
<1>12. ASSUME Tick
       PROVE  TypeOK'
  <2>1. ASSUME NEW t \in Int, NEW n \in Nat
        PROVE  Aged(t, n) \in Int
    BY DEF Aged
  <2>2. ASSUME NEW j \in Jobs
        PROVE  /\ VisibilityTimeout[queue[j]] \in Nat
               /\ DoneTtl[queue[j]] \in Nat
               /\ MaxPoll \in Nat
    BY QueueAssumption DEF TypeOK
  <2>3. /\ run_at' \in [Jobs -> Int] /\ claimed_at' \in [Jobs -> Int]
        /\ created' \in [Jobs -> Int]
    <3>1. ASSUME NEW j \in Jobs
          PROVE  /\ Aged(run_at[j], MaxPoll) \in Int
                 /\ Aged(claimed_at[j], MaxPoll + VisibilityTimeout[queue[j]]) \in Int
                 /\ Aged(created[j], DoneTtl[queue[j]]) \in Int
      <4>1. /\ run_at[j] \in Int /\ claimed_at[j] \in Int
            /\ created[j] \in Int
        BY DEF TypeOK
      <4>2. MaxPoll + VisibilityTimeout[queue[j]] \in Nat
        BY <2>2
      <4>3. QED
        BY <2>1, <2>2, <4>1, <4>2
    <3>2. QED
      BY <1>12, <3>1 DEF Tick
  <2>4. now' \in [Workers -> Int] /\ began' \in [Workers -> Int]
    BY <1>12 DEF Tick, TypeOK
  <2>5. QED
    BY <1>12, <2>3, <2>4 DEF TypeOK, Tick, history
<1>13. ASSUME NEW w \in Workers, Report(w)
       PROVE  TypeOK'
  BY <1>13 DEF TypeOK, Report, rows
<1>14. CASE UNCHANGED vars
  BY <1>14 DEF TypeOK, vars
<1>15. QED
  BY <1>1, <1>2, <1>3, <1>4, <1>5, <1>6, <1>7, <1>8, <1>9, <1>10, <1>11, <1>12, <1>13, <1>14
  DEF Next, PollStep, Finish

\* The empty table and the idle workers are typed.
LEMMA TypeInit == Init => TypeOK
BY QueueAssumption DEF Init, TypeOK, Status, PC, Claimed

\* The table and the workers' memories stay well formed; in particular a batch
\* never takes more rows than WorkerDef.concurrency leaves room for.
THEOREM TypeCorrect == Spec => []TypeOK
BY TypeInit, TypeStep, PTL DEF Spec

(***************************************************************************)
(* The three kinds of step, as far as claims and attempts are concerned.   *)
(***************************************************************************)

\* No claim is made and no attempt counted.
Quiet ==
  /\ UNCHANGED <<attempts, claim_generation>>
  /\ \A w \in Workers : Held(w)' \subseteq Held(w)
  /\ \A j \in Jobs : status'[j] \in Live => status[j] \in Live \cup {"none"}
  /\ \A j \in Jobs : status'[j] = "none" => status[j] = "none"

Claims(w, S) ==
  /\ ClaimBatch(w, S)
  /\ S \subseteq Jobs
  /\ \A j \in S : status[j] = "pending"
  /\ UNCHANGED running

Finishes(w, c) ==
  /\ Returns(w, c)
  /\ \E outcome \in {"done", "pending", "failed"}, count \in {c.attempts, c.attempts + 1},
        at \in Int : FinishClaim(c, outcome, count, at)

\* What a worker holds is its batch and the claim it runs, nothing else.
LEMMA HeldUnchanged ==
  ASSUME UNCHANGED <<batch, running>>
  PROVE  \A w \in Workers : Held(w)' = Held(w)
BY DEF Held

\* A sweep revives no ended row and counts nothing.
LEMMA ReclaimQuiet ==
  ASSUME TypeOK, NEW q, NEW t, ReclaimStale(q, t)
  PROVE  /\ UNCHANGED <<attempts, claim_generation>>
         /\ \A j \in Jobs : status'[j] \in Live => status[j] \in Live
         /\ \A j \in Jobs : status'[j] = "none" => status[j] = "none"
BY DEF TypeOK, ReclaimStale, RestUnchanged, Stale, Live

\* The claim of the unrated queues takes pending rows.
LEMMA UnratedClaims ==
  ASSUME TypeOK, NEW w \in Workers, ClaimUnrated(w)
  PROVE  \E S \in SUBSET Jobs : Claims(w, S)
<1>1. PICK S \in FirstReady(Drains[w] \ Rated, now[w], left[w]) : ClaimBatch(w, S)
  BY DEF ClaimUnrated
<1>2. left[w] \in Nat
  BY DEF TypeOK
<1>3. S \subseteq Jobs /\ \A j \in S : status[j] = "pending"
  BY <1>2, FirstReadyBound
<1>4. UNCHANGED running
  BY DEF ClaimUnrated
<1>5. QED
  BY <1>1, <1>3, <1>4 DEF Claims

\* So does the claim of a rated queue, whatever its allowance.
LEMMA RatedClaims ==
  ASSUME TypeOK, NEW w \in Workers, NEW q, ClaimRated(w, q)
  PROVE  \E S \in SUBSET Jobs : Claims(w, S)
<1>1. PICK allowance \in 0..left[w] :
        \E S \in FirstReady({q}, now[w], allowance) : ClaimBatch(w, S)
  BY DEF ClaimRated
<1>2. PICK S \in FirstReady({q}, now[w], allowance) : ClaimBatch(w, S)
  BY <1>1
<1>3. allowance \in Nat
  BY DEF TypeOK
<1>4. S \subseteq Jobs /\ \A j \in S : status[j] = "pending"
  BY <1>3, FirstReadyBound
<1>5. UNCHANGED running
  BY DEF ClaimRated
<1>6. QED
  BY <1>2, <1>4, <1>5 DEF Claims

\* Each way a handler returns ends in one write-back of its own claim.
LEMMA FinishFinishes ==
  ASSUME TypeOK, NEW w \in Workers, NEW c \in running[w],
         JobDone(w, c) \/ JobRetries(w, c) \/ JobFails(w, c)
  PROVE  Finishes(w, c)
<1>1. Returns(w, c)
  BY DEF JobDone, JobRetries, JobFails
<1>2. now[w] \in Int
  BY DEF TypeOK
<1>3. CASE JobDone(w, c)
  BY <1>1, <1>2, <1>3 DEF JobDone, Finishes
<1>4. CASE JobRetries(w, c)
  <2>1. PICK delay \in Backoff : FinishClaim(c, "pending", c.attempts + 1, now[w] + delay)
    BY <1>4 DEF JobRetries
  <2>2. now[w] + delay \in Int
    BY <1>2, QueueAssumption
  <2>3. QED
    BY <1>1, <2>1, <2>2 DEF Finishes
<1>5. CASE JobFails(w, c)
  BY <1>1, <1>2, <1>5 DEF JobFails, Finishes
<1>6. QED
  BY <1>3, <1>4, <1>5

\* Every step is one of the three kinds.
LEMMA StepKinds ==
  ASSUME TypeOK, [Next]_vars
  PROVE  \/ Quiet
         \/ \E w \in Workers, S \in SUBSET Jobs : Claims(w, S)
         \/ \E w \in Workers : \E c \in running[w] : Finishes(w, c)
<1>1. ASSUME NEW j \in Jobs, NEW q \in Queues, NEW delay \in Schedule, Enqueue(j, q, delay)
      PROVE  Quiet
  BY <1>1, HeldUnchanged DEF Quiet, Enqueue, pollVars, TypeOK, Live
<1>2. ASSUME NEW j \in Jobs, CancelJob(j)
      PROVE  Quiet
  BY <1>2, HeldUnchanged DEF Quiet, CancelJob, RestUnchanged, pollVars, TypeOK, Live
<1>3. ASSUME NEW q \in Queues, GcReclaim(q)
      PROVE  Quiet
  BY <1>3, HeldUnchanged, ReclaimQuiet DEF Quiet, GcReclaim, pollVars
<1>4. ASSUME NEW q \in Queues, GcDoneJobs(q)
      PROVE  Quiet
  BY <1>4, HeldUnchanged DEF Quiet, GcDoneJobs, RestUnchanged, pollVars, TypeOK, Live
<1>5. ASSUME NEW w \in Workers, StartPoll(w)
      PROVE  Quiet
  BY <1>5, HeldUnchanged DEF Quiet, StartPoll, rows
<1>6. ASSUME NEW w \in Workers, NEW q \in Queues, Sweep(w, q)
      PROVE  Quiet
  <2>1. \A v \in Workers : Held(v)' = Held(v)
    BY <1>6, HeldUnchanged DEF Sweep
  <2>2. CASE ReclaimStale(q, now[w])
    BY <2>1, <2>2, ReclaimQuiet DEF Quiet
  <2>3. CASE UNCHANGED rows
    BY <2>1, <2>3 DEF Quiet, rows
  <2>4. QED
    BY <1>6, <2>2, <2>3 DEF Sweep
<1>7. ASSUME NEW w \in Workers, NEW c \in batch[w], Dispatch(w, c)
      PROVE  Quiet
  <2>1. \A v \in Workers : Held(v)' \subseteq Held(v)
    BY <1>7 DEF Dispatch, Held, TypeOK
  <2>2. QED
    BY <1>7, <2>1 DEF Quiet, Dispatch, rows
<1>8. ASSUME NEW w \in Workers, EndPoll(w) \/ AbortPoll(w)
      PROVE  Quiet
  <2>1. Idle(w)
    BY <1>8 DEF EndPoll, AbortPoll
  <2>2. \A v \in Workers : Held(v)' \subseteq Held(v)
    BY <2>1 DEF Idle, Held, TypeOK
  <2>3. QED
    BY <2>1, <2>2 DEF Quiet, Idle, rows
<1>9. ASSUME Tick
      PROVE  Quiet
  BY <1>9, HeldUnchanged DEF Quiet, Tick
<1>10. ASSUME NEW w \in Workers, Report(w)
       PROVE  Quiet
  BY <1>10, HeldUnchanged DEF Quiet, Report, rows
<1>11. CASE UNCHANGED vars
  BY <1>11, HeldUnchanged DEF Quiet, vars
<1>12. QED
  BY <1>1, <1>2, <1>3, <1>4, <1>5, <1>6, <1>7, <1>8, <1>9, <1>10, <1>11,
     UnratedClaims, RatedClaims, FinishFinishes DEF Next, PollStep, Finish

(***************************************************************************)
(* The inductive invariant of the claim generations.                       *)
(***************************************************************************)

\* A claim is either waiting in its batch or being served, once.
ServedOnce ==
  \A w \in Workers : /\ batch[w] \cap running[w] = {}
                     /\ \A c, d \in running[w] : c = d

\* Every outstanding claim raised the generation, and attempts never outrun
\* generations; a row that was never inserted was never claimed.
Issued ==
  /\ \A w \in Workers : \A c \in Held(w) : 0 < c.generation
  /\ \A j \in Jobs : /\ attempts[j] <= claim_generation[j]
                     /\ status[j] = "none" => claim_generation[j] = 0

FenceInv == TypeOK /\ TokensUnique /\ ServedOnce /\ Issued /\ NoLostAttempt

\* A held claim is typed.
LEMMA HeldType ==
  ASSUME TypeOK, NEW w \in Workers, NEW c \in Held(w)
  PROVE  c \in Claimed /\ c.job \in Jobs /\ c.attempts \in Nat /\ c.generation \in Nat
BY DEF TypeOK, Held, Claimed

\* Steps that claim and count nothing keep the tokens and the counts.
LEMMA QuietKeeps ==
  ASSUME FenceInv, Quiet
  PROVE  TokensUnique' /\ Issued' /\ NoLostAttempt'
<1> USE DEF FenceInv, Quiet
<1>1. TokensUnique'
  BY DEF TokensUnique
<1>2. Issued'
  BY DEF Issued
<1>3. ASSUME NEW w \in Workers, NEW c \in Held(w)',
             c.generation = claim_generation'[c.job], status'[c.job] \in Live
      PROVE  c.attempts = attempts'[c.job] /\ c.attempts < c.generation
  <2>1. c \in Held(w) /\ c.job \in Jobs
    BY HeldType
  <2>2. 0 < c.generation /\ c.generation = claim_generation[c.job] /\ c.generation \in Nat
    BY <1>3, <2>1, HeldType DEF Issued
  <2>3. status[c.job] \in Live
    BY <1>3, <2>1, <2>2 DEF Issued
  <2>4. QED
    BY <2>1, <2>2, <2>3 DEF NoLostAttempt
<1>4. QED
  BY <1>1, <1>2, <1>3 DEF NoLostAttempt

\* A claim statement hands its worker generations no one holds.
LEMMA ClaimsFresh ==
  ASSUME FenceInv, NEW w \in Workers, NEW S \in SUBSET Jobs, Claims(w, S),
         NEW v \in Workers, NEW c \in Held(v)'
  PROVE  \/ c \in Held(v)
         \/ /\ v = w /\ c.job \in S
            /\ c.generation = claim_generation[c.job] + 1
            /\ c.attempts = attempts[c.job]
BY DEF FenceInv, TypeOK, Claims, ClaimBatch, Held, Returned

\* A claim hands out generations above every outstanding one.
LEMMA ClaimsKeep ==
  ASSUME FenceInv, NEW w \in Workers, NEW S \in SUBSET Jobs, Claims(w, S)
  PROVE  TokensUnique' /\ Issued' /\ NoLostAttempt'
<1>0. TypeOK
  BY DEF FenceInv
<1>1. ASSUME NEW j \in Jobs
      PROVE  /\ attempts'[j] = attempts[j] /\ attempts[j] \in Nat /\ claim_generation[j] \in Nat
             /\ j \in S => /\ claim_generation'[j] = claim_generation[j] + 1
                           /\ status[j] = "pending"
             /\ j \notin S => /\ claim_generation'[j] = claim_generation[j]
                              /\ status'[j] = status[j]
  BY <1>0 DEF TypeOK, Claims, ClaimBatch
<1>2. ASSUME NEW j \in Jobs, status'[j] = "none"
      PROVE  j \notin S
  BY <1>0, <1>2 DEF TypeOK, Claims, ClaimBatch
<1>3. ASSUME NEW v \in Workers, NEW c \in Held(v)'
      PROVE  c.job \in Jobs /\ c.generation \in Nat /\ c.attempts \in Nat
  BY <1>0, <1>1, <1>3, ClaimsFresh, HeldType
<1>4. ASSUME NEW u \in Workers, NEW v \in Workers, NEW c \in Held(u)', NEW d \in Held(v)'
      PROVE  /\ c.generation <= claim_generation'[c.job]
             /\ c.job = d.job /\ c.generation = d.generation => u = v /\ c = d
  <2>1. ASSUME NEW x \in Workers, NEW e \in Held(x)
        PROVE  e.generation <= claim_generation[e.job]
    BY <2>1 DEF FenceInv, TokensUnique
  <2>2. c.generation <= claim_generation'[c.job]
    BY <1>1, <1>3, <2>1, ClaimsFresh
  <2>3. CASE c \in Held(u) /\ d \in Held(v)
    BY <2>2, <2>3 DEF FenceInv, TokensUnique
  <2>4. CASE c \notin Held(u) /\ d \in Held(v)
    BY <1>1, <1>3, <2>1, <2>2, <2>4, ClaimsFresh
  <2>5. CASE c \in Held(u) /\ d \notin Held(v)
    BY <1>1, <1>3, <2>1, <2>2, <2>5, ClaimsFresh
  <2>6. CASE c \notin Held(u) /\ d \notin Held(v)
    <3>1. /\ c \in Returned(S) /\ d \in Returned(S) /\ u = w /\ v = w
      BY <1>0, <2>6 DEF TypeOK, Claims, ClaimBatch, Held
    <3>2. QED
      BY <2>2, <3>1 DEF Returned
  <2>7. QED
    BY <2>3, <2>4, <2>5, <2>6
<1>5. Issued'
  <2>1. ASSUME NEW v \in Workers, NEW c \in Held(v)'
        PROVE  0 < c.generation
    BY <1>1, <1>3, <2>1, ClaimsFresh DEF FenceInv, Issued
  <2>2. ASSUME NEW j \in Jobs
        PROVE  /\ attempts'[j] <= claim_generation'[j]
               /\ status'[j] = "none" => claim_generation'[j] = 0
    BY <1>1, <1>2 DEF FenceInv, Issued
  <2>3. QED
    BY <2>1, <2>2 DEF Issued
<1>6. ASSUME NEW v \in Workers, NEW c \in Held(v)',
             c.generation = claim_generation'[c.job], status'[c.job] \in Live
      PROVE  c.attempts = attempts'[c.job] /\ c.attempts < c.generation
  <2>1. CASE c \in Held(v)
    <3>1. c.generation <= claim_generation[c.job]
      BY <2>1 DEF FenceInv, TokensUnique
    <3>2. c.job \notin S
      BY <1>1, <1>3, <1>6, <3>1
    <3>3. QED
      BY <1>1, <1>3, <1>6, <2>1, <3>2 DEF FenceInv, NoLostAttempt
  <2>2. CASE c \notin Held(v)
    BY <1>1, <1>3, <2>2, ClaimsFresh DEF FenceInv, Issued
  <2>3. QED
    BY <2>1, <2>2
<1>7. QED
  BY <1>4, <1>5, <1>6 DEF TokensUnique, NoLostAttempt

\* A write-back that matches uses up the only claim of its generation.
LEMMA FinishesKeep ==
  ASSUME FenceInv, NEW w \in Workers, NEW c \in running[w], Finishes(w, c)
  PROVE  TokensUnique' /\ Issued' /\ NoLostAttempt'
<1>0. TypeOK /\ c \in Held(w) /\ c.job \in Jobs /\ c.attempts \in Nat /\ c.generation \in Nat
  BY HeldType DEF FenceInv, Held
<1>1. \A v \in Workers : Held(v)' \subseteq Held(v)
  BY <1>0 DEF Finishes, Returns, Held, TypeOK
<1>2. c \notin Held(w)'
  BY <1>0 DEF Finishes, Returns, Held, TypeOK, FenceInv, ServedOnce
<1>3. PICK outcome \in {"done", "pending", "failed"}, count \in {c.attempts, c.attempts + 1},
           at \in Int : FinishClaim(c, outcome, count, at)
  BY DEF Finishes
<1>4. UNCHANGED claim_generation
  BY <1>3 DEF FinishClaim, rows
<1>5. \/ ~Owns(c) /\ UNCHANGED <<status, attempts>>
      \/ /\ Owns(c)
         /\ status' = [status EXCEPT ![c.job] = outcome]
         /\ attempts' = [attempts EXCEPT ![c.job] = count]
  BY <1>3 DEF FinishClaim, rows
<1>6. TokensUnique'
  BY <1>1, <1>4 DEF FenceInv, TokensUnique
<1>7. CASE UNCHANGED <<status, attempts>>
  BY <1>0, <1>1, <1>4, <1>6, <1>7 DEF FenceInv, Issued, NoLostAttempt
<1>8. CASE /\ Owns(c)
           /\ status' = [status EXCEPT ![c.job] = outcome]
           /\ attempts' = [attempts EXCEPT ![c.job] = count]
  <2>1. c.attempts = attempts[c.job] /\ c.attempts < claim_generation[c.job]
    BY <1>0, <1>8 DEF FenceInv, NoLostAttempt, Owns
  <2>2. /\ \A j \in Jobs \ {c.job} : status'[j] = status[j] /\ attempts'[j] = attempts[j]
        /\ status'[c.job] = outcome /\ attempts'[c.job] = count
    BY <1>0, <1>8 DEF TypeOK
  <2>3. claim_generation[c.job] \in Nat
    BY <1>0 DEF TypeOK
  <2>4. Issued'
    <3>1. ASSUME NEW j \in Jobs
          PROVE  /\ attempts'[j] <= claim_generation[j]
                 /\ status'[j] = "none" => claim_generation[j] = 0
      BY <1>0, <2>1, <2>2, <2>3 DEF FenceInv, Issued
    <3>2. QED
      BY <1>1, <1>4, <3>1 DEF FenceInv, Issued
  <2>5. ASSUME NEW v \in Workers, NEW d \in Held(v)',
               d.generation = claim_generation'[d.job], status'[d.job] \in Live
        PROVE  d.attempts = attempts'[d.job] /\ d.attempts < d.generation
    <3>1. d \in Held(v) /\ d.job \in Jobs
      BY <1>0, <1>1, HeldType
    <3>2. d.job # c.job
      <4>1. SUFFICES ASSUME d.job = c.job PROVE FALSE
        OBVIOUS
      <4>2. d.generation = c.generation
        BY <1>4, <1>8, <2>5, <4>1 DEF Owns
      <4>3. v = w /\ d = c
        BY <1>0, <3>1, <4>1, <4>2 DEF FenceInv, TokensUnique
      <4>4. QED
        BY <1>2, <4>3
    <3>3. QED
      BY <1>4, <2>2, <2>5, <3>1, <3>2 DEF FenceInv, NoLostAttempt
  <2>6. QED
    BY <1>6, <2>4, <2>5 DEF NoLostAttempt
<1>9. QED
  BY <1>5, <1>7, <1>8

\* A claim leaves the batch when its handler starts.
LEMMA ServedOnceStep ==
  ASSUME FenceInv, [Next]_vars
  PROVE  ServedOnce'
<1>0. TypeOK /\ ServedOnce
  BY DEF FenceInv
<1>1. CASE UNCHANGED <<batch, running>>
  BY <1>0, <1>1 DEF ServedOnce
<1>2. ASSUME NEW w \in Workers, NEW S \in SUBSET Jobs, Claims(w, S)
      PROVE  ServedOnce'
  <2>1. ASSUME NEW c \in Returned(S)
        PROVE  c \notin running[w]
    <3>1. c.job \in Jobs /\ c.generation = claim_generation[c.job] + 1
      BY DEF Returned
    <3>2. claim_generation[c.job] \in Nat
      BY <1>0, <3>1 DEF TypeOK
    <3>3. c \in Held(w) => c.generation <= claim_generation[c.job]
      BY DEF FenceInv, TokensUnique
    <3>4. QED
      BY <3>1, <3>2, <3>3 DEF Held
  <2>2. QED
    BY <1>0, <1>2, <2>1 DEF ServedOnce, Claims, ClaimBatch, TypeOK
<1>3. ASSUME NEW w \in Workers, NEW c \in batch[w], Dispatch(w, c)
      PROVE  ServedOnce'
  BY <1>0, <1>3 DEF ServedOnce, Dispatch, TypeOK
<1>4. ASSUME NEW w \in Workers, NEW c \in running[w], Finishes(w, c)
      PROVE  ServedOnce'
  BY <1>0, <1>4 DEF ServedOnce, Finishes, Returns, TypeOK
<1>5. ASSUME NEW w \in Workers, EndPoll(w) \/ AbortPoll(w)
      PROVE  ServedOnce'
  <2>1. Idle(w)
    BY <1>5 DEF EndPoll, AbortPoll
  <2>2. QED
    BY <1>0, <2>1 DEF ServedOnce, Idle, TypeOK
<1>6. ASSUME Next
      PROVE  \/ UNCHANGED <<batch, running>>
             \/ \E w \in Workers, S \in SUBSET Jobs : Claims(w, S)
             \/ \E w \in Workers : \E c \in batch[w] : Dispatch(w, c)
             \/ \E w \in Workers : \E c \in running[w] : Finishes(w, c)
             \/ \E w \in Workers : EndPoll(w) \/ AbortPoll(w)
  <2>1. ASSUME NEW w \in Workers, PollStep(w)
        PROVE  \/ UNCHANGED <<batch, running>>
               \/ \E S \in SUBSET Jobs : Claims(w, S)
               \/ \E c \in batch[w] : Dispatch(w, c)
               \/ \E c \in running[w] : Finishes(w, c)
               \/ EndPoll(w)
    BY <1>0, <2>1, UnratedClaims, RatedClaims, FinishFinishes
    DEF PollStep, Finish, StartPoll, Sweep, Report
  <2>2. QED
    BY <1>6, <2>1
    DEF Next, Enqueue, CancelJob, GcReclaim, GcDoneJobs, Tick, pollVars
<1>7. QED
  BY <1>1, <1>2, <1>3, <1>4, <1>5, <1>6 DEF vars

\* Every step keeps the fencing invariant.
LEMMA FenceStep == FenceInv /\ [Next]_vars => FenceInv'
<1> SUFFICES ASSUME FenceInv, [Next]_vars
             PROVE  FenceInv'
  OBVIOUS
<1>1. TypeOK
  BY DEF FenceInv
<1>2. TypeOK' /\ ServedOnce'
  BY <1>1, TypeStep, ServedOnceStep
<1>3. TokensUnique' /\ Issued' /\ NoLostAttempt'
  BY <1>1, StepKinds, QuietKeeps, ClaimsKeep, FinishesKeep
<1>4. QED
  BY <1>2, <1>3 DEF FenceInv

\* Nothing is claimed at the start.
LEMMA FenceInit == Init => FenceInv
<1> SUFFICES ASSUME Init
             PROVE  FenceInv
  OBVIOUS
<1>1. TypeOK
  BY TypeInit
<1>2. \A w \in Workers : batch[w] = {} /\ running[w] = {} /\ Held(w) = {}
  BY DEF Init, Held
<1>3. QED
  BY <1>1, <1>2 DEF FenceInv, TokensUnique, ServedOnce, Issued, NoLostAttempt, Init

\* The invariant that makes the two properties below inductive: it adds that
\* every outstanding generation was issued by the row (Issued) and that a claim
\* is in the batch or running, not both (ServedOnce).
THEOREM FenceInvariant == Spec => []FenceInv
BY FenceInit, FenceStep, PTL DEF Spec

\* Claim generations fence: whatever overruns, is reclaimed, crashes or is
\* retried, no two workers ever hold the same generation of a row.
THEOREM Fencing == Spec => []TokensUnique
<1>1. FenceInv => TokensUnique
  BY DEF FenceInv
<1>2. QED
  BY <1>1, FenceInvariant, PTL

\* The attempt count written back after a handler ran is the row's own count.
THEOREM ExactAttempts == Spec => []NoLostAttempt
<1>1. FenceInv => NoLostAttempt
  BY DEF FenceInv
<1>2. QED
  BY <1>1, FenceInvariant, PTL

(***************************************************************************)
(* What a step does to one job, and the two results that follow.           *)
(***************************************************************************)

\* The columns of a job that most steps leave alone.
Kept(j) == /\ attempts'[j] = attempts[j] /\ claim_generation'[j] = claim_generation[j]
           /\ queue'[j] = queue[j]

Submitted(j) == /\ status[j] = "none" /\ status'[j] = "pending"
                /\ queue'[j] \in Queues
                /\ attempts'[j] = attempts[j] /\ claim_generation'[j] = claim_generation[j]

Shifted(j) == /\ Kept(j)
              /\ \/ status'[j] = status[j]
                 \/ status[j] = "claimed" /\ status'[j] = "pending"
                 \/ status[j] = "pending" /\ status'[j] = "canceled"
                 \/ status[j] \in Terminal /\ status'[j] = "gone"

Leased(j) == /\ status[j] = "pending" /\ status'[j] = "claimed"
             /\ claim_generation'[j] = claim_generation[j] + 1
             /\ attempts'[j] = attempts[j] /\ queue'[j] = queue[j]

Ended(j) == /\ status[j] \in Live
            /\ attempts[j] < claim_generation[j]
            /\ claim_generation'[j] = claim_generation[j] /\ queue'[j] = queue[j]
            /\ \/ /\ status'[j] = "done"
                  /\ attempts'[j] = attempts[j]
               \/ /\ status'[j] = "pending"
                  /\ attempts'[j] = attempts[j] + 1
                  /\ attempts[j] + 1 < MaxAttempts[queue[j]]
               \/ /\ status'[j] = "failed"
                  /\ attempts'[j] = attempts[j] + 1
                  /\ j \notin Registered \/ attempts[j] + 1 >= MaxAttempts[queue[j]]

JobStep(j) == Submitted(j) \/ Shifted(j) \/ Leased(j) \/ Ended(j)

\* A claim statement leases the rows it takes and leaves the others.
LEMMA ClaimsAreLeases ==
  ASSUME TypeOK, NEW w \in Workers, NEW S \in SUBSET Jobs, Claims(w, S),
         NEW j \in Jobs
  PROVE  JobStep(j)
<1>1. CASE j \in S
  BY <1>1 DEF TypeOK, Claims, ClaimBatch, JobStep, Leased
<1>2. CASE j \notin S
  BY <1>2 DEF TypeOK, Claims, ClaimBatch, JobStep, Shifted, Kept
<1>3. QED
  BY <1>1, <1>2

\* A sweep moves claimed rows back and leaves the others.
LEMMA ReclaimShifts ==
  ASSUME TypeOK, NEW q, NEW t, ReclaimStale(q, t), NEW j \in Jobs
  PROVE  Shifted(j)
BY DEF TypeOK, ReclaimStale, Stale, RestUnchanged, Shifted, Kept

\* A write-back ends the lease of its own job, if it matches.
LEMMA FinishEnds ==
  ASSUME FenceInv, NEW w \in Workers, NEW c \in running[w],
         JobDone(w, c) \/ JobRetries(w, c) \/ JobFails(w, c), NEW j \in Jobs
  PROVE  JobStep(j)
<1>0. TypeOK /\ c \in Held(w) /\ c.job \in Jobs /\ c.attempts \in Nat /\ c.generation \in Nat
  BY HeldType DEF FenceInv, Held
<1>1. PICK outcome \in {"done", "pending", "failed"}, count \in {c.attempts, c.attempts + 1},
           at \in Int :
        /\ FinishClaim(c, outcome, count, at)
        /\ outcome = "done" => count = c.attempts
        /\ outcome = "pending" => /\ count = c.attempts + 1
                                  /\ count < MaxAttempts[queue[c.job]]
        /\ outcome = "failed" => /\ count = c.attempts + 1
                                 /\ \/ c.job \notin Registered
                                    \/ count >= MaxAttempts[queue[c.job]]
  <2>1. now[w] \in Int
    BY <1>0 DEF TypeOK
  <2>2. CASE JobDone(w, c)
    BY <2>1, <2>2 DEF JobDone
  <2>3. CASE JobRetries(w, c)
    <3>1. PICK delay \in Backoff :
            FinishClaim(c, "pending", c.attempts + 1, now[w] + delay)
      BY <2>3 DEF JobRetries
    <3>2. now[w] + delay \in Int
      BY <2>1, QueueAssumption
    <3>3. c.attempts + 1 < MaxAttempts[queue[c.job]]
      BY <2>3 DEF JobRetries
    <3>4. QED
      BY <3>1, <3>2, <3>3
  <2>4. CASE JobFails(w, c)
    BY <2>1, <2>4 DEF JobFails
  <2>5. QED
    BY <2>2, <2>3, <2>4
<1>2. CASE ~Owns(c)
  BY <1>1, <1>2 DEF FinishClaim, rows, JobStep, Shifted, Kept
<1>3. CASE Owns(c)
  <2>1. /\ status' = [status EXCEPT ![c.job] = outcome]
        /\ attempts' = [attempts EXCEPT ![c.job] = count]
        /\ UNCHANGED <<queue, claim_generation>>
    BY <1>1, <1>3 DEF FinishClaim
  <2>2. CASE j # c.job
    BY <1>0, <1>1, <2>1, <2>2 DEF TypeOK, JobStep, Shifted, Kept
  <2>3. CASE j = c.job
    <3>1. /\ c.attempts = attempts[j] /\ attempts[j] < claim_generation[j]
          /\ status[j] \in Live
      BY <1>0, <1>3, <2>3 DEF FenceInv, NoLostAttempt, Owns
    <3>2. status'[j] = outcome /\ attempts'[j] = count
      BY <1>0, <2>1, <2>3 DEF TypeOK
    <3>3. Ended(j)
      BY <1>1, <2>1, <2>3, <3>1, <3>2 DEF Ended
    <3>4. QED
      BY <3>3 DEF JobStep
  <2>4. QED
    BY <2>2, <2>3
<1>4. QED
  BY <1>2, <1>3

\* Every step of the queue is, for every job, a step of this kind.
LEMMA EveryJobSteps ==
  ASSUME FenceInv, [Next]_vars, NEW j \in Jobs
  PROVE  JobStep(j)
<1>0. TypeOK
  BY DEF FenceInv
<1>1. ASSUME NEW k \in Jobs, NEW q \in Queues, NEW delay \in Schedule, Enqueue(k, q, delay)
      PROVE  JobStep(j)
  BY <1>0, <1>1 DEF TypeOK, Enqueue, JobStep, Submitted, Shifted, Kept
<1>2. ASSUME NEW k \in Jobs, CancelJob(k)
      PROVE  JobStep(j)
  BY <1>0, <1>2 DEF TypeOK, CancelJob, RestUnchanged, JobStep, Shifted, Kept
<1>3. ASSUME NEW q \in Queues, GcReclaim(q)
      PROVE  JobStep(j)
  BY <1>0, <1>3, ReclaimShifts DEF GcReclaim, JobStep
<1>4. ASSUME NEW q \in Queues, GcDoneJobs(q)
      PROVE  JobStep(j)
  BY <1>0, <1>4 DEF TypeOK, GcDoneJobs, RestUnchanged, JobStep, Shifted, Kept
<1>5. ASSUME NEW w \in Workers, NEW q \in Queues, Sweep(w, q)
      PROVE  JobStep(j)
  <2>1. CASE ReclaimStale(q, now[w])
    BY <1>0, <1>5, <2>1, ReclaimShifts DEF JobStep
  <2>2. CASE UNCHANGED rows
    BY <2>2 DEF rows, JobStep, Shifted, Kept
  <2>3. QED
    BY <1>5, <2>1, <2>2 DEF Sweep
<1>6. ASSUME NEW w \in Workers, ClaimUnrated(w) \/ \E q \in Queues : ClaimRated(w, q)
      PROVE  JobStep(j)
  BY <1>0, <1>6, UnratedClaims, RatedClaims, ClaimsAreLeases
<1>7. CASE UNCHANGED rows
  BY <1>7 DEF rows, JobStep, Shifted, Kept
<1>8. CASE Tick
  BY <1>8 DEF Tick, JobStep, Shifted, Kept
<1>9. ASSUME NEW w \in Workers, PollStep(w) \/ AbortPoll(w)
      PROVE  JobStep(j)
  <2>1. ASSUME \/ StartPoll(w) \/ EndPoll(w) \/ AbortPoll(w) \/ Report(w)
               \/ \E c \in batch[w] : Dispatch(w, c)
        PROVE  UNCHANGED rows
    BY <2>1 DEF StartPoll, EndPoll, AbortPoll, Idle, Dispatch, Report
  <2>2. QED
    BY <1>5, <1>6, <1>7, <1>9, <2>1, FinishEnds DEF PollStep, Finish
<1>10. CASE UNCHANGED vars
  BY <1>7, <1>10 DEF vars, rows
<1>11. QED
  BY <1>1, <1>2, <1>3, <1>4, <1>8, <1>9, <1>10 DEF Next

\* A live job has an attempt left.
AttemptLeft == \A j \in Jobs : status[j] \in Live => attempts[j] < MaxAttempts[queue[j]]

ContractInv == FenceInv /\ AttemptLeft

\* At the start there are no jobs.
LEMMA ContractInit == Init => ContractInv
BY FenceInit DEF Init, ContractInv, AttemptLeft, Live

\* A job that was never inserted has no attempts, so its first lease has one.
LEMMA ContractStep == ContractInv /\ [Next]_vars => ContractInv'
<1> SUFFICES ASSUME ContractInv, [Next]_vars
             PROVE  ContractInv'
  OBVIOUS
<1>1. FenceInv /\ TypeOK /\ FenceInv'
  BY FenceStep DEF ContractInv, FenceInv
<1>2. ASSUME NEW j \in Jobs
      PROVE  status'[j] \in Live => attempts'[j] < MaxAttempts[queue'[j]]
  <2>1. /\ attempts[j] \in Nat /\ status[j] \in Status
        /\ MaxAttempts[queue[j]] \in Nat \ {0}
        /\ attempts[j] <= claim_generation[j]
        /\ status[j] = "none" => claim_generation[j] = 0
    BY <1>1, QueueAssumption DEF TypeOK, FenceInv, Issued
  <2>2. status[j] \in Live => attempts[j] < MaxAttempts[queue[j]]
    BY DEF ContractInv, AttemptLeft
  <2>3. CASE Submitted(j)
    <3>1. MaxAttempts[queue'[j]] \in Nat \ {0}
      BY <2>3, QueueAssumption DEF Submitted
    <3>2. attempts[j] = 0
      BY <2>1, <2>3 DEF Submitted
    <3>3. QED
      BY <2>1, <2>2, <2>3, <3>1, <3>2 DEF Submitted
  <2>4. CASE Shifted(j)
    BY <2>1, <2>2, <2>4 DEF Shifted, Kept, Live, Terminal
  <2>5. CASE Leased(j)
    BY <2>1, <2>2, <2>5 DEF Leased, Live
  <2>6. CASE Ended(j)
    BY <2>1, <2>2, <2>6 DEF Ended, Live
  <2>7. QED
    BY <1>1, <2>3, <2>4, <2>5, <2>6, EveryJobSteps DEF JobStep
<1>3. AttemptLeft'
  BY <1>2 DEF AttemptLeft
<1>4. QED
  BY <1>1, <1>3 DEF ContractInv

\* The invariant under which every step of a job is one the contract allows.
LEMMA ContractInvariant == Spec => []ContractInv
BY ContractInit, ContractStep, PTL DEF Spec

(***************************************************************************)
(* The report of a failure: written to the row first, sent afterwards.     *)
(***************************************************************************)

\* Nobody starts, finishes or loses the report of j.
Unheard(j) == /\ reported'[j] = reported[j]
              /\ j \in silenced' <=> j \in silenced
              /\ \A w \in Workers : j \in reporting'[w] <=> j \in reporting[w]
              /\ status'[j] = "failed" => status[j] = "failed"
              /\ status[j] \in {"failed", "gone"} => status'[j] \in {"failed", "gone"}

\* Worker w has just written the failure of j.
Noticed(w, j) == /\ status[j] \in Live /\ status'[j] = "failed"
                 /\ reported'[j] = reported[j]
                 /\ j \in silenced' <=> j \in silenced
                 /\ j \in reporting'[w]
                 /\ \A v \in Workers \ {w} : j \in reporting'[v] <=> j \in reporting[v]

\* Worker w sends the report of j, or is gone with it.
Settled(w, j) == /\ j \in reporting[w] /\ status'[j] = status[j]
                 /\ \/ reported'[j] = reported[j] + 1 /\ (j \in silenced' <=> j \in silenced)
                    \/ reported'[j] = reported[j] /\ j \in silenced'
                 /\ j \notin reporting'[w]
                 /\ \A v \in Workers \ {w} : j \in reporting'[v] <=> j \in reporting[v]

\* A worker that runs a handler has reported its last failure.
OneAtATime == \A w \in Workers : running[w] # {} => reporting[w] = {}

\* Every job that failed for good and is registered used its attempts up.
FailedIsFinal ==
  \A j \in Jobs : status[j] = "failed" /\ j \in Registered => attempts[j] = MaxAttempts[queue[j]]

ReportInv == ContractInv /\ OneAtATime /\ FailedIsFinal /\ FailureReportedOnce

\* Steps that leave the reports alone and write no failure.
LEMMA QuietIsUnheard ==
  ASSUME UNCHANGED <<reporting, reported, silenced>>, NEW j \in Jobs,
         Submitted(j) \/ Shifted(j) \/ Leased(j)
  PROVE  Unheard(j)
BY DEF Unheard, Submitted, Shifted, Kept, Leased, Terminal

\* A handler's return: the failure it wrote is its worker's to report.
LEMMA FinishHeard ==
  ASSUME TypeOK, OneAtATime, NEW w \in Workers, NEW c \in running[w],
         JobDone(w, c) \/ JobRetries(w, c) \/ JobFails(w, c), NEW j \in Jobs
  PROVE  Unheard(j) \/ Noticed(w, j)
<1>0. c.job \in Jobs
  BY DEF TypeOK, Claimed
<1>1. UNCHANGED history /\ reporting[w] = {}
  BY DEF JobDone, JobRetries, JobFails, Returns, OneAtATime
<1>2. CASE JobDone(w, c)
  <2>1. /\ UNCHANGED reporting
        /\ \/ Owns(c) /\ status' = [status EXCEPT ![c.job] = "done"]
           \/ UNCHANGED status
    BY <1>2 DEF JobDone, FinishClaim, rows
  <2>2. QED
    BY <1>0, <1>1, <2>1 DEF Unheard, Owns, Live, TypeOK, history
<1>3. CASE JobRetries(w, c)
  <2>1. /\ UNCHANGED reporting
        /\ \/ Owns(c) /\ status' = [status EXCEPT ![c.job] = "pending"]
           \/ UNCHANGED status
    BY <1>3 DEF JobRetries, FinishClaim, rows
  <2>2. QED
    BY <1>0, <1>1, <2>1 DEF Unheard, Owns, Live, TypeOK, history
<1>4. CASE JobFails(w, c)
  <2>1. CASE Owns(c)
    <3>1. /\ status' = [status EXCEPT ![c.job] = "failed"]
          /\ reporting' = [reporting EXCEPT ![w] = {c.job}]
      BY <1>4, <2>1 DEF JobFails, FinishClaim
    <3>2. /\ reporting'[w] = {c.job}
          /\ \A v \in Workers \ {w} : reporting'[v] = reporting[v]
      BY <3>1 DEF TypeOK
    <3>3. CASE j = c.job
      BY <1>0, <1>1, <2>1, <3>1, <3>2, <3>3 DEF Noticed, Owns, TypeOK, history
    <3>4. CASE j # c.job
      <4>1. status'[j] = status[j]
        BY <1>0, <3>1, <3>4 DEF TypeOK
      <4>2. \A v \in Workers : j \in reporting'[v] <=> j \in reporting[v]
        BY <1>1, <3>2, <3>4
      <4>3. QED
        BY <1>1, <4>1, <4>2 DEF Unheard, history
    <3>5. QED
      BY <3>3, <3>4
  <2>2. CASE ~Owns(c)
    <3>1. UNCHANGED status /\ reporting' = [reporting EXCEPT ![w] = {}]
      BY <1>4, <2>2 DEF JobFails, FinishClaim, rows
    <3>2. \A v \in Workers : reporting'[v] = reporting[v]
      BY <1>1, <3>1 DEF TypeOK
    <3>3. QED
      BY <1>1, <3>1, <3>2 DEF Unheard, history
  <2>3. QED
    BY <2>1, <2>2
<1>5. QED
  BY <1>2, <1>3, <1>4

\* The event itself, and a cycle that ends with or without having sent it.
LEMMA ReportHeard ==
  ASSUME TypeOK, NEW w \in Workers, Report(w) \/ EndPoll(w) \/ AbortPoll(w), NEW j \in Jobs
  PROVE  Unheard(j) \/ Settled(w, j)
<1>1. /\ UNCHANGED status
      /\ reporting'[w] = {}
      /\ \A v \in Workers \ {w} : reporting'[v] = reporting[v]
  BY DEF Report, EndPoll, AbortPoll, Idle, rows, TypeOK
<1>2. CASE Report(w)
  <2>1. /\ reported'[j] = IF j \in reporting[w] THEN reported[j] + 1 ELSE reported[j]
        /\ UNCHANGED silenced
    BY <1>2 DEF Report
  <2>2. QED
    BY <1>1, <2>1 DEF Unheard, Settled
<1>3. CASE EndPoll(w)
  <2>1. UNCHANGED <<reported, silenced>> /\ reporting[w] = {}
    BY <1>3 DEF EndPoll, Idle
  <2>2. QED
    BY <1>1, <2>1 DEF Unheard
<1>4. CASE AbortPoll(w)
  <2>1. UNCHANGED reported /\ silenced' = silenced \cup reporting[w]
    BY <1>4 DEF AbortPoll, Idle
  <2>2. QED
    BY <1>1, <2>1 DEF Unheard, Settled
<1>5. QED
  BY <1>2, <1>3, <1>4

\* Every step does one of these things to the report of a job.
LEMMA EveryReportSteps ==
  ASSUME FenceInv, OneAtATime, [Next]_vars, NEW j \in Jobs
  PROVE  Unheard(j) \/ \E w \in Workers : Noticed(w, j) \/ Settled(w, j)
<1>0. TypeOK
  BY DEF FenceInv
<1>1. ASSUME NEW k \in Jobs, NEW q \in Queues, NEW delay \in Schedule, Enqueue(k, q, delay)
      PROVE  Unheard(j)
  BY <1>0, <1>1, QuietIsUnheard
  DEF TypeOK, Enqueue, pollVars, history, Submitted, Shifted, Kept
<1>2. ASSUME NEW k \in Jobs, CancelJob(k)
      PROVE  Unheard(j)
  BY <1>0, <1>2, QuietIsUnheard
  DEF TypeOK, CancelJob, RestUnchanged, pollVars, history, Shifted, Kept
<1>3. ASSUME NEW q \in Queues, GcReclaim(q)
      PROVE  Unheard(j)
  BY <1>0, <1>3, ReclaimShifts, QuietIsUnheard DEF GcReclaim, pollVars, history
<1>4. ASSUME NEW q \in Queues, GcDoneJobs(q)
      PROVE  Unheard(j)
  BY <1>0, <1>4, QuietIsUnheard
  DEF TypeOK, GcDoneJobs, RestUnchanged, pollVars, history, Shifted, Kept
<1>5. ASSUME NEW w \in Workers, NEW q \in Queues, Sweep(w, q)
      PROVE  Unheard(j)
  <2>1. Shifted(j)
    BY <1>0, <1>5, ReclaimShifts DEF Sweep, rows, Shifted, Kept
  <2>2. QED
    BY <1>5, <2>1, QuietIsUnheard DEF Sweep, history
<1>6. ASSUME NEW w \in Workers, ClaimUnrated(w) \/ \E q \in Queues : ClaimRated(w, q)
      PROVE  Unheard(j)
  <2>1. PICK S \in SUBSET Jobs : Claims(w, S)
    BY <1>0, <1>6, UnratedClaims, RatedClaims
  <2>2. Leased(j) \/ Shifted(j)
    BY <1>0, <2>1 DEF TypeOK, Claims, ClaimBatch, Leased, Shifted, Kept
  <2>3. QED
    BY <1>6, <2>2, QuietIsUnheard DEF ClaimUnrated, ClaimRated, history
<1>7. CASE UNCHANGED <<rows, reporting, history>>
  BY <1>7 DEF rows, history, Unheard
<1>8. CASE Tick
  BY <1>8 DEF Tick, history, Unheard
<1>9. ASSUME NEW w \in Workers, PollStep(w) \/ AbortPoll(w)
      PROVE  Unheard(j) \/ Noticed(w, j) \/ Settled(w, j)
  <2>1. ASSUME StartPoll(w) \/ \E c \in batch[w] : Dispatch(w, c)
        PROVE  Unheard(j)
    BY <2>1 DEF StartPoll, Dispatch, rows, history, Unheard
  <2>2. ASSUME NEW c \in running[w], JobDone(w, c) \/ JobRetries(w, c) \/ JobFails(w, c)
        PROVE  Unheard(j) \/ Noticed(w, j)
    BY <1>0, <2>2, FinishHeard
  <2>3. ASSUME Report(w) \/ EndPoll(w) \/ AbortPoll(w)
        PROVE  Unheard(j) \/ Settled(w, j)
    BY <1>0, <2>3, ReportHeard
  <2>4. CASE StartPoll(w) \/ \E c \in batch[w] : Dispatch(w, c)
    BY <2>1, <2>4
  <2>5. CASE \E q \in Queues : Sweep(w, q)
    BY <1>5, <2>5
  <2>6. CASE ClaimUnrated(w) \/ \E q \in Queues : ClaimRated(w, q)
    BY <1>6, <2>6
  <2>7. CASE \E c \in running[w] : JobDone(w, c) \/ JobRetries(w, c) \/ JobFails(w, c)
    BY <2>2, <2>7
  <2>8. CASE Report(w) \/ EndPoll(w) \/ AbortPoll(w)
    BY <2>3, <2>8
  <2>9. QED
    BY <1>9, <2>4, <2>5, <2>6, <2>7, <2>8 DEF PollStep, Finish
<1>10. CASE UNCHANGED vars
  BY <1>7, <1>10 DEF vars, rows, history
<1>11. QED
  BY <1>1, <1>2, <1>3, <1>4, <1>8, <1>9, <1>10 DEF Next

\* A handler starts only when nothing is left to report.
LEMMA OneAtATimeStep ==
  ASSUME TypeOK, OneAtATime, [Next]_vars
  PROVE  OneAtATime'
<1>1. CASE UNCHANGED <<running, reporting>>
  BY <1>1 DEF OneAtATime
<1>2. ASSUME NEW w \in Workers, NEW c \in batch[w], Dispatch(w, c)
      PROVE  OneAtATime'
  BY <1>2 DEF OneAtATime, Dispatch, TypeOK
<1>3. ASSUME NEW w \in Workers, NEW c \in running[w],
             JobDone(w, c) \/ JobRetries(w, c) \/ JobFails(w, c)
      PROVE  OneAtATime'
  <2>1. /\ running'[w] = {}
        /\ \A v \in Workers \ {w} : running'[v] = running[v] /\ reporting'[v] = reporting[v]
    BY <1>3 DEF JobDone, JobRetries, JobFails, Returns, TypeOK
  <2>2. QED
    BY <2>1 DEF OneAtATime
<1>4. ASSUME NEW w \in Workers, Report(w) \/ EndPoll(w) \/ AbortPoll(w)
      PROVE  OneAtATime'
  <2>1. /\ reporting'[w] = {}
        /\ \A v \in Workers \ {w} : running'[v] = running[v] /\ reporting'[v] = reporting[v]
    BY <1>4 DEF Report, EndPoll, AbortPoll, Idle, TypeOK
  <2>2. QED
    BY <2>1 DEF OneAtATime
<1>5. ASSUME NEW w \in Workers,
             \/ StartPoll(w) \/ ClaimUnrated(w)
             \/ \E q \in Queues : Sweep(w, q) \/ ClaimRated(w, q)
      PROVE  UNCHANGED <<running, reporting>>
  BY <1>5 DEF StartPoll, Sweep, ClaimUnrated, ClaimRated
<1>6. QED
  BY <1>1, <1>2, <1>3, <1>4, <1>5
  DEF Next, PollStep, Finish, Enqueue, CancelJob, GcReclaim, GcDoneJobs, Tick, pollVars, vars

\* At the start nothing has failed.
LEMMA ReportInit == Init => ReportInv
BY ContractInit DEF Init, ReportInv, OneAtATime, FailedIsFinal, FailureReportedOnce

\* One worker ends the job, and it alone reports it.
LEMMA ReportStep == ReportInv /\ [Next]_vars => ReportInv'
<1> SUFFICES ASSUME ReportInv, [Next]_vars
             PROVE  ReportInv'
  OBVIOUS
<1>1. /\ ContractInv /\ ContractInv' /\ OneAtATime /\ OneAtATime'
      /\ FenceInv /\ TypeOK
  BY ContractStep, OneAtATimeStep DEF ReportInv, ContractInv, FenceInv
<1>2. ASSUME NEW j \in Jobs
      PROVE  status'[j] = "failed" /\ j \in Registered
               => attempts'[j] = MaxAttempts[queue'[j]]
  <2>1. /\ attempts[j] \in Nat /\ MaxAttempts[queue[j]] \in Nat \ {0}
        /\ status[j] \in Live => attempts[j] < MaxAttempts[queue[j]]
        /\ status[j] = "failed" /\ j \in Registered => attempts[j] = MaxAttempts[queue[j]]
    BY <1>1, QueueAssumption DEF TypeOK, ContractInv, AttemptLeft, ReportInv, FailedIsFinal
  <2>2. QED
    BY <1>1, <2>1, EveryJobSteps
    DEF JobStep, Submitted, Shifted, Kept, Leased, Ended, Live, Terminal
<1>3. FailedIsFinal'
  BY <1>2 DEF FailedIsFinal
<1>4. FailureReportedOnce'
  <2> DEFINE reporters(j) == {w \in Workers : j \in reporting[w]}
             Once(j) ==
               /\ reported[j] <= 1
               /\ \A v, w \in reporters(j) : v = w
               /\ reported[j] = 1 => reporters(j) = {} /\ j \notin silenced
               /\ j \in silenced => reporters(j) = {}
               /\ reported[j] = 1 \/ j \in silenced \/ reporters(j) # {}
                    => status[j] \in {"failed", "gone"}
               /\ status[j] = "failed"
                    => reported[j] = 1 \/ j \in silenced \/ reporters(j) # {}
  <2>1. ASSUME NEW j \in Jobs
        PROVE  Once(j)'
    <3>1. Once(j) /\ reported[j] \in Nat
      BY <1>1 DEF ReportInv, FailureReportedOnce, TypeOK
    <3>2. CASE Unheard(j)
      <4>1. reporters(j)' = reporters(j)
        BY <3>2 DEF Unheard
      <4>2. QED
        BY <3>1, <3>2, <4>1 DEF Unheard
    <3>3. ASSUME NEW w \in Workers, Noticed(w, j)
          PROVE  Once(j)'
      <4>1. reported[j] = 0 /\ j \notin silenced /\ reporters(j) = {}
        BY <3>1, <3>3 DEF Noticed, Live
      <4>2. reporters(j)' = {w}
        BY <3>3, <4>1 DEF Noticed
      <4>3. QED
        BY <3>3, <4>1, <4>2 DEF Noticed
    <3>4. ASSUME NEW w \in Workers, Settled(w, j)
          PROVE  Once(j)'
      <4>1. /\ w \in reporters(j)
            /\ \A v \in reporters(j) : v = w
            /\ reported[j] = 0 /\ j \notin silenced
        BY <3>1, <3>4 DEF Settled
      <4>2. reporters(j)' = {}
        BY <3>4, <4>1 DEF Settled
      <4>3. QED
        BY <3>1, <3>4, <4>1, <4>2 DEF Settled
    <3>5. QED
      BY <1>1, <3>2, <3>3, <3>4, EveryReportSteps
  <2>2. QED
    BY <2>1, <1>2 DEF FailureReportedOnce
<1>5. QED
  BY <1>1, <1>3, <1>4 DEF ReportInv

\* A failure is reported at most once, when the job is failed for good, although
\* the worker that saw it may have lost the row; and the report is lost only with
\* the worker that was about to send it.
THEOREM ReportedOnce == Spec => []FailureReportedOnce
<1>1. ReportInv => FailureReportedOnce
  BY DEF ReportInv
<1>2. QED
  BY <1>1, ReportInit, ReportStep, PTL DEF Spec

\* Each step of a job is a step of JobContract or a stutter.
LEMMA StepKeepsContract ==
  ASSUME ContractInv, [Next]_vars, NEW j \in Jobs
  PROVE  Contract(j)!Next \/ UNCHANGED Contract(j)!vars
<1>1. FenceInv /\ TypeOK
  BY DEF ContractInv, FenceInv
<1>2. /\ attempts[j] \in Nat /\ claim_generation[j] \in Nat
      /\ MaxAttempts[queue[j]] \in Nat \ {0}
      /\ status[j] \in Live => attempts[j] < MaxAttempts[queue[j]]
  BY <1>1, QueueAssumption DEF TypeOK, ContractInv, AttemptLeft
<1>3. CASE Submitted(j)
  <2>1. MaxAttempts[queue'[j]] > 0
    BY <1>3, QueueAssumption DEF Submitted
  <2>2. Contract(j)!Submit
    BY <1>3, <2>1 DEF Submitted, Contract!Submit, Contract!Moves
  <2>3. QED
    BY <2>2 DEF Contract!Next
<1>4. CASE Shifted(j)
  BY <1>4 DEF Shifted, Kept, Terminal, Contract!Next, Contract!vars, Contract!Lapse,
       Contract!Cancel, Contract!Forget, Contract!Moves
<1>5. CASE Leased(j)
  BY <1>5 DEF Leased, Contract!Next, Contract!Lease, Contract!Moves
<1>6. CASE Ended(j)
  BY <1>2, <1>6 DEF Ended, Live, Contract!Next, Contract!Succeed, Contract!Retry,
       Contract!Fail, Contract!Outcome, Contract!Moves
<1>7. QED
  BY <1>1, <1>3, <1>4, <1>5, <1>6, EveryJobSteps DEF JobStep

\* The queue implements its abstract contract: whatever workers die, overrun or
\* abort, and however rows are swept, canceled and collected, each job is run
\* under distinct leases, within its attempts, and ends once.
THEOREM QueueKeepsContract == Spec => KeepsContract
<1>1. Init => \A j \in Jobs : Contract(j)!Init
  BY DEF Init, Contract!Init
<1>2. ContractInv /\ [Next]_vars =>
        [\A j \in Jobs : Contract(j)!Next \/ UNCHANGED Contract(j)!vars]_vars
  BY StepKeepsContract
<1>3. QED
  BY <1>1, <1>2, ContractInvariant, PTL DEF Spec, KeepsContract

(***************************************************************************)
(* Priority, where no queue is rated.                                      *)
(***************************************************************************)

\* No cycle gets to the rated queues.
NoneRated == \A w \in Workers : pc[w] # "rated"

\* The unrated statement goes straight on to serving.
LEMMA NoneRatedStep ==
  ASSUME Rated = {}, TypeOK, NoneRated, [Next]_vars
  PROVE  NoneRated'
<1>1. ASSUME NEW w \in Workers, PollStep(w) \/ AbortPoll(w)
      PROVE  NoneRated'
  BY <1>1 DEF NoneRated, TypeOK, PollStep, StartPoll, Sweep, ClaimUnrated, ClaimRated,
       Dispatch, Finish, JobDone, JobRetries, JobFails, Returns, Report, EndPoll, AbortPoll,
       Idle
<1>2. CASE UNCHANGED pc
  BY <1>2 DEF NoneRated
<1>3. QED
  BY <1>1, <1>2 DEF Next, Enqueue, CancelJob, GcReclaim, GcDoneJobs, Tick, pollVars, vars

\* A claim takes the most urgent rows of the worker's queues.
LEMMA PriorityStep ==
  ASSUME Rated = {}, TypeOK, NoneRated, [Next]_vars,
         NEW w \in Workers, NEW c \in batch'[w] \ batch[w], NEW k \in Ready(Drains[w], now[w]),
         Priority[queue[k]] < Priority[queue[c.job]]
  PROVE  status'[k] = "claimed"
<1>1. ClaimUnrated(w)
  <2>1. ASSUME NEW v \in Workers, ClaimUnrated(v)
        PROVE  v = w
    BY <2>1 DEF ClaimUnrated, ClaimBatch, TypeOK
  <2>2. ASSUME NEW v \in Workers, PollStep(v) \/ AbortPoll(v)
        PROVE  ClaimUnrated(v)
    <3>1. ~UNCHANGED batch
      OBVIOUS
    <3>2. ~EndPoll(v) /\ ~AbortPoll(v)
      BY DEF EndPoll, AbortPoll, Idle, TypeOK
    <3>3. \A d \in batch[v] : ~Dispatch(v, d)
      BY DEF Dispatch, TypeOK
    <3>4. ~Finish(v)
      BY <3>1 DEF Finish, JobDone, JobRetries, JobFails, Returns
    <3>5. \A q \in Queues : ~ClaimRated(v, q)
      BY DEF NoneRated, ClaimRated
    <3>6. QED
      BY <2>2, <3>1, <3>2, <3>3, <3>4, <3>5 DEF PollStep, StartPoll, Sweep, Report
  <2>3. ~UNCHANGED batch
    OBVIOUS
  <2>4. QED
    BY <2>1, <2>2, <2>3
    DEF Next, Enqueue, CancelJob, GcReclaim, GcDoneJobs, Tick, pollVars, vars
<1>2. PICK S \in FirstReady(Drains[w], now[w], left[w]) : ClaimBatch(w, S)
  <2>1. Drains[w] \ Rated = Drains[w]
    OBVIOUS
  <2>2. QED
    BY <1>1, <2>1 DEF ClaimUnrated
<1>3. S \subseteq Ready(Drains[w], now[w]) /\ c.job \in S
  BY <1>2 DEF FirstReady, ClaimBatch, Returned, TypeOK
<1>4. k \in S
  BY <1>3 DEF FirstReady, Before
<1>5. QED
  BY <1>2, <1>3, <1>4 DEF ClaimBatch, Ready

\* Where no queue is rated, no worker takes a job while it leaves a ready one
\* of a more urgent queue behind, whatever the batch size.
THEOREM PriorityIsStrict ==
  ASSUME Rated = {}
  PROVE  Spec => StrictPriority
<1>1. Init => TypeOK /\ NoneRated
  BY TypeInit DEF Init, NoneRated
<1>2. TypeOK /\ NoneRated /\ [Next]_vars => (TypeOK /\ NoneRated)'
  BY TypeStep, NoneRatedStep
<1>3. TypeOK /\ NoneRated /\ [Next]_vars =>
        [\A w \in Workers : \A c \in batch'[w] \ batch[w] :
           \A k \in Ready(Drains[w], now[w]) :
             Priority[queue[k]] < Priority[queue[c.job]]
               => status'[k] = "claimed"]_vars
  BY PriorityStep
<1>4. QED
  BY <1>1, <1>2, <1>3, PTL DEF Spec, StrictPriority

(***************************************************************************)
(* Exclusive dispatch, where cycles and drift end within every timeout.    *)
(***************************************************************************)

\* A cycle that holds claims is not past its bound, and every claim it holds
\* is the row's newest, stamped with the cycle's own clock reading.
HoldsFirmly ==
  /\ \A w \in Workers : /\ now[w] <= Drift
                        /\ pc[w] # "idle" => now[w] >= -MaxPoll
                        /\ pc[w] = "idle" => Held(w) = {}
  /\ \A w \in Workers : \A c \in Held(w) :
       /\ status[c.job] = "claimed"
       /\ claim_generation[c.job] = c.generation
       /\ claimed_at[c.job] = now[w]

FirmInv == FenceInv /\ HoldsFirmly

\* A poll cycle ends within every queue's visibility timeout, as measured by any
\* two of the instances' clocks.
BriefPolls == \A q \in Queues : MaxPoll + Drift < VisibilityTimeout[q]

\* No sweep takes a held claim for abandoned.
LEMMA HeldNotStale ==
  ASSUME BriefPolls, FirmInv, NEW w \in Workers, NEW c \in Held(w),
         NEW q \in Queues, NEW t \in Int, t <= Drift
  PROVE  c.job \notin Stale(q, t)
<1>1. TypeOK /\ HoldsFirmly
  BY DEF FirmInv, FenceInv
<1>2. claimed_at[c.job] = now[w] /\ now[w] >= -MaxPoll /\ now[w] \in Int
  BY <1>1 DEF HoldsFirmly, TypeOK
<1>3. /\ MaxPoll \in Nat /\ Drift \in Nat /\ VisibilityTimeout[q] \in Nat
      /\ MaxPoll + Drift < VisibilityTimeout[q]
  BY QueueAssumption DEF BriefPolls
<1>4. QED
  BY <1>2, <1>3 DEF Stale

\* Steps that give nobody a claim keep the invariant if they leave the rows of
\* the held claims and the clocks of their cycles alone.
LEMMA HoldersKeep ==
  ASSUME HoldsFirmly,
         \A w \in Workers :
           /\ Held(w)' \subseteq Held(w)
           /\ \/ now'[w] = now[w] /\ (pc'[w] = "idle" <=> pc[w] = "idle")
              \/ now'[w] \in 0..Drift /\ Held(w)' = {}
           /\ \A c \in Held(w)' : /\ status'[c.job] = status[c.job]
                                  /\ claim_generation'[c.job] = claim_generation[c.job]
                                  /\ claimed_at'[c.job] = claimed_at[c.job]
  PROVE  HoldsFirmly'
<1>1. MaxPoll \in Nat /\ Drift \in Nat
  BY QueueAssumption
<1>2. ASSUME NEW w \in Workers
      PROVE  /\ now'[w] <= Drift
             /\ pc'[w] # "idle" => now'[w] >= -MaxPoll
             /\ pc'[w] = "idle" => Held(w)' = {}
  BY <1>1 DEF HoldsFirmly
<1>3. ASSUME NEW w \in Workers, NEW c \in Held(w)'
      PROVE  /\ status'[c.job] = "claimed"
             /\ claim_generation'[c.job] = c.generation
             /\ claimed_at'[c.job] = now'[w]
  BY <1>3 DEF HoldsFirmly
<1>4. QED
  BY <1>2, <1>3 DEF HoldsFirmly

\* Callers, the GC and the sweeps touch no row that is held.
LEMMA OutsidersKeep ==
  ASSUME BriefPolls, FirmInv,
         \/ \E j \in Jobs, q \in Queues, delay \in Schedule : Enqueue(j, q, delay)
         \/ \E j \in Jobs : CancelJob(j)
         \/ \E q \in Queues : GcReclaim(q) \/ GcDoneJobs(q)
         \/ \E w \in Workers, q \in Queues : Sweep(w, q)
  PROVE  HoldsFirmly'
<1>0. TypeOK /\ HoldsFirmly
  BY DEF FirmInv, FenceInv
<1>1. ASSUME NEW w \in Workers, NEW c \in Held(w)
      PROVE  c.job \in Jobs /\ status[c.job] = "claimed"
  BY <1>0, HeldType DEF HoldsFirmly
<1>2. UNCHANGED <<now, batch, running, claim_generation>>
      /\ \A w \in Workers : pc'[w] = "idle" <=> pc[w] = "idle"
  BY <1>0 DEF Enqueue, CancelJob, GcReclaim, GcDoneJobs, Sweep, ReclaimStale, RestUnchanged,
       pollVars, rows, TypeOK
<1>3. ASSUME NEW w \in Workers, NEW c \in Held(w)
      PROVE  status'[c.job] = status[c.job] /\ claimed_at'[c.job] = claimed_at[c.job]
  <2>1. ASSUME NEW q \in Queues, NEW t \in Int, t <= Drift, ReclaimStale(q, t)
        PROVE  status'[c.job] = status[c.job] /\ claimed_at'[c.job] = claimed_at[c.job]
    BY <1>1, <2>1, HeldNotStale DEF ReclaimStale
  <2>2. \A v \in Workers : now[v] \in Int /\ now[v] <= Drift
    BY <1>0 DEF TypeOK, HoldsFirmly
  <2>3. CASE \E j \in Jobs, q \in Queues, delay \in Schedule : Enqueue(j, q, delay)
    BY <1>0, <1>1, <2>3 DEF Enqueue, TypeOK
  <2>4. CASE \E j \in Jobs : CancelJob(j)
    BY <1>0, <1>1, <2>4 DEF CancelJob, TypeOK
  <2>5. ASSUME NEW q \in Queues, GcDoneJobs(q)
        PROVE  status'[c.job] = status[c.job] /\ claimed_at'[c.job] = claimed_at[c.job]
    BY <1>0, <1>1, <2>5 DEF GcDoneJobs, TypeOK, Terminal
  <2>6. ASSUME NEW q \in Queues, GcReclaim(q)
        PROVE  status'[c.job] = status[c.job] /\ claimed_at'[c.job] = claimed_at[c.job]
    <3>1. PICK t \in 0..Drift : ReclaimStale(q, t)
      BY <2>6 DEF GcReclaim
    <3>2. t \in Int /\ t <= Drift
      BY QueueAssumption
    <3>3. QED
      BY <2>1, <3>1, <3>2
  <2>7. ASSUME NEW v \in Workers, NEW q \in Queues, Sweep(v, q)
        PROVE  status'[c.job] = status[c.job] /\ claimed_at'[c.job] = claimed_at[c.job]
    BY <2>1, <2>2, <2>7 DEF Sweep, rows
  <2>8. QED
    BY <2>3, <2>4, <2>5, <2>6, <2>7
<1>4. QED
  BY <1>0, <1>2, <1>3, HeldUnchanged, HoldersKeep

\* A claim statement stamps what it takes with the cycle's clock.
LEMMA ClaimsFirm ==
  ASSUME FirmInv, NEW w \in Workers, NEW S \in SUBSET Jobs, Claims(w, S), UNCHANGED now,
         \A v \in Workers : pc'[v] = "idle" <=> pc[v] = "idle", pc[w] # "idle"
  PROVE  HoldsFirmly'
<1>0. FenceInv /\ TypeOK /\ HoldsFirmly
  BY DEF FirmInv, FenceInv
<1>1. ASSUME NEW v \in Workers, NEW c \in Held(v)'
      PROVE  /\ status'[c.job] = "claimed"
             /\ claim_generation'[c.job] = c.generation
             /\ claimed_at'[c.job] = now'[v]
  <2>1. CASE c \in Held(v)
    <3>1. c.job \in Jobs /\ status[c.job] = "claimed"
      BY <1>0, <2>1, HeldType DEF HoldsFirmly
    <3>2. c.job \notin S
      BY <3>1 DEF Claims
    <3>3. QED
      BY <1>0, <2>1, <3>1, <3>2 DEF HoldsFirmly, Claims, ClaimBatch
  <2>2. CASE c \notin Held(v)
    <3>1. v = w /\ c.job \in S /\ c.generation = claim_generation[c.job] + 1
      BY <1>0, <1>1, <2>2, ClaimsFresh
    <3>2. QED
      BY <3>1 DEF Claims, ClaimBatch
  <2>3. QED
    BY <2>1, <2>2
<1>2. ASSUME NEW v \in Workers
      PROVE  pc'[v] = "idle" => Held(v)' = {}
  <2>1. v # w => Held(v)' = Held(v)
    BY <1>0 DEF Claims, ClaimBatch, Held, TypeOK
  <2>2. QED
    BY <1>0, <2>1 DEF HoldsFirmly
<1>3. QED
  BY <1>0, <1>1, <1>2 DEF HoldsFirmly

\* The other steps of a cycle: the claim that is finished was the only one of
\* its job.
LEMMA PollFirm ==
  ASSUME BriefPolls, FirmInv, NEW w \in Workers, PollStep(w) \/ AbortPoll(w)
  PROVE  HoldsFirmly'
<1>0. FenceInv /\ TypeOK /\ HoldsFirmly
  BY DEF FirmInv, FenceInv
<1>1. CASE StartPoll(w)
  <2>1. Held(w) = {} /\ UNCHANGED <<batch, running, rows>>
    BY <1>0, <1>1 DEF StartPoll, HoldsFirmly
  <2>2. /\ now'[w] \in 0..Drift
        /\ \A v \in Workers \ {w} : now'[v] = now[v] /\ pc'[v] = pc[v]
    BY <1>0, <1>1 DEF StartPoll, TypeOK
  <2>3. QED
    BY <1>0, <2>1, <2>2, HeldUnchanged, HoldersKeep DEF rows
<1>2. CASE EndPoll(w) \/ AbortPoll(w)
  <2>1. Idle(w)
    BY <1>2 DEF EndPoll, AbortPoll
  <2>2. now'[w] \in 0..Drift /\ Held(w)' = {}
    BY <1>0, <2>1, QueueAssumption DEF Idle, Held, TypeOK
  <2>3. ASSUME NEW v \in Workers \ {w}
        PROVE  now'[v] = now[v] /\ pc'[v] = pc[v] /\ Held(v)' = Held(v)
    BY <1>0, <2>1 DEF Idle, Held, TypeOK
  <2>4. UNCHANGED rows
    BY <2>1 DEF Idle
  <2>5. QED
    BY <1>0, <2>2, <2>3, <2>4, HoldersKeep DEF rows
<1>3. ASSUME NEW c \in batch[w], Dispatch(w, c)
      PROVE  HoldsFirmly'
  <2>1. \A v \in Workers : Held(v)' \subseteq Held(v)
    BY <1>0, <1>3 DEF Dispatch, Held, TypeOK
  <2>2. UNCHANGED <<rows, pc, now>>
    BY <1>3 DEF Dispatch
  <2>3. QED
    BY <1>0, <2>1, <2>2, HoldersKeep DEF rows
<1>4. ASSUME NEW c \in running[w], JobDone(w, c) \/ JobRetries(w, c) \/ JobFails(w, c)
      PROVE  HoldsFirmly'
  <2>1. Finishes(w, c)
    BY <1>0, <1>4, FinishFinishes
  <2>2. UNCHANGED <<pc, now>> /\ \A v \in Workers : Held(v)' \subseteq Held(v)
    BY <1>0, <2>1 DEF Finishes, Returns, Held, TypeOK
  <2>3. c \notin Held(w)'
    BY <1>0, <2>1 DEF Finishes, Returns, Held, TypeOK, FenceInv, ServedOnce
  <2>4. c \in Held(w) /\ c.job \in Jobs
    BY <1>0, HeldType DEF Held
  <2>5. ASSUME NEW v \in Workers, NEW d \in Held(v)'
        PROVE  d.job # c.job /\ d.job \in Jobs
    <3>1. d \in Held(v)
      BY <2>2
    <3>2. /\ claim_generation[d.job] = d.generation
          /\ claim_generation[c.job] = c.generation
      BY <1>0, <2>4, <3>1 DEF HoldsFirmly
    <3>3. d.job = c.job => v = w /\ d = c
      BY <1>0, <2>4, <3>1, <3>2 DEF FenceInv, TokensUnique
    <3>4. d.job # c.job
      BY <2>3, <3>3
    <3>5. d.job \in Jobs
      BY <1>0, <3>1, HeldType
    <3>6. QED
      BY <3>4, <3>5
  <2>6. \A j \in Jobs \ {c.job} : /\ status'[j] = status[j]
                                  /\ claim_generation'[j] = claim_generation[j]
                                  /\ claimed_at'[j] = claimed_at[j]
    BY <1>0, <2>1 DEF Finishes, FinishClaim, rows, TypeOK
  <2>7. QED
    BY <1>0, <2>2, <2>5, <2>6, HoldersKeep
<1>5. ASSUME ClaimUnrated(w) \/ \E q \in Queues : ClaimRated(w, q)
      PROVE  HoldsFirmly'
  <2>1. /\ UNCHANGED now /\ pc[w] # "idle"
        /\ \A v \in Workers : pc'[v] = "idle" <=> pc[v] = "idle"
    BY <1>0, <1>5 DEF ClaimUnrated, ClaimRated, TypeOK
  <2>2. QED
    BY <1>0, <1>5, <2>1, UnratedClaims, RatedClaims, ClaimsFirm
<1>6. ASSUME NEW q \in Queues, Sweep(w, q)
      PROVE  HoldsFirmly'
  BY <1>6, OutsidersKeep
<1>7. CASE Report(w)
  <2>1. UNCHANGED <<rows, pc, now, batch, running>>
    BY <1>7 DEF Report
  <2>2. QED
    BY <1>0, <2>1, HeldUnchanged, HoldersKeep DEF rows
<1>8. QED
  BY <1>1, <1>2, <1>3, <1>4, <1>5, <1>6, <1>7 DEF PollStep, Finish

\* Stamps and clocks age together, as long as the cycle is within its bound.
LEMMA TickFirm ==
  ASSUME FirmInv, Tick
  PROVE  HoldsFirmly'
<1>0. TypeOK /\ HoldsFirmly
  BY DEF FirmInv, FenceInv
<1>1. \A w \in Workers : Held(w)' = Held(w)
  BY HeldUnchanged DEF Tick
<1>2. MaxPoll \in Nat /\ Drift \in Nat
  BY QueueAssumption
<1>3. ASSUME NEW w \in Workers
      PROVE  /\ now'[w] <= Drift
             /\ pc'[w] # "idle" => now'[w] >= -MaxPoll /\ now'[w] = now[w] - 1
                                   /\ now[w] > -MaxPoll
             /\ pc'[w] = "idle" => Held(w)' = {}
  <2>1. now[w] \in Int /\ now[w] <= Drift /\ pc' = pc
    BY <1>0 DEF TypeOK, HoldsFirmly, Tick
  <2>2. now'[w] = IF pc[w] = "idle" THEN 0 ELSE now[w] - 1
    BY DEF Tick
  <2>3. pc[w] # "idle" => now[w] > -MaxPoll
    BY DEF Tick
  <2>4. pc[w] = "idle" => Held(w)' = {}
    BY <1>0, <1>1 DEF HoldsFirmly
  <2>5. QED
    BY <1>2, <2>1, <2>2, <2>3, <2>4
<1>4. ASSUME NEW w \in Workers, NEW c \in Held(w)'
      PROVE  /\ status'[c.job] = "claimed"
             /\ claim_generation'[c.job] = c.generation
             /\ claimed_at'[c.job] = now'[w]
  <2>1. /\ c.job \in Jobs /\ status[c.job] = "claimed" /\ claimed_at[c.job] = now[w]
        /\ claim_generation[c.job] = c.generation
    BY <1>0, <1>1, HeldType DEF HoldsFirmly
  <2>2. pc'[w] # "idle"
    BY <1>3
  <2>3. now'[w] = now[w] - 1 /\ now[w] > -MaxPoll /\ now[w] \in Int
    BY <1>0, <1>3, <2>2 DEF TypeOK
  <2>4. VisibilityTimeout[queue[c.job]] \in Nat
    BY <1>0, <2>1, QueueAssumption DEF TypeOK
  <2>5. claimed_at'[c.job] =
          Aged(claimed_at[c.job], MaxPoll + VisibilityTimeout[queue[c.job]])
    BY <2>1 DEF Tick
  <2>6. claimed_at'[c.job] = now[w] - 1
    BY <1>2, <2>1, <2>3, <2>4, <2>5 DEF Aged
  <2>7. UNCHANGED <<status, claim_generation>>
    BY DEF Tick
  <2>8. QED
    BY <2>1, <2>3, <2>6, <2>7
<1>5. QED
  BY <1>3, <1>4 DEF HoldsFirmly

\* Every step keeps the claims firm.
LEMMA FirmStep ==
  ASSUME BriefPolls
  PROVE  FirmInv /\ [Next]_vars => FirmInv'
<1> SUFFICES ASSUME FirmInv, [Next]_vars
             PROVE  FirmInv'
  OBVIOUS
<1>1. FenceInv /\ FenceInv' /\ HoldsFirmly
  BY FenceStep DEF FirmInv
<1>2. CASE UNCHANGED vars
  <2>1. UNCHANGED <<batch, running, pc, now, status, claim_generation, claimed_at>>
    BY <1>2 DEF vars
  <2>2. QED
    BY <1>1, <2>1, HeldUnchanged, HoldersKeep DEF FirmInv
<1>3. CASE Next
  BY <1>1, <1>3, OutsidersKeep, PollFirm, TickFirm DEF Next, FirmInv
<1>4. QED
  BY <1>2, <1>3

\* At the start nobody holds a claim.
LEMMA FirmInit == Init => FirmInv
<1> SUFFICES ASSUME Init
             PROVE  FirmInv
  OBVIOUS
<1>1. \A w \in Workers : Held(w) = {} /\ pc[w] = "idle" /\ now[w] = 0
  BY DEF Init, Held
<1>2. Drift \in Nat
  BY QueueAssumption
<1>3. QED
  BY <1>1, <1>2, FenceInit DEF FirmInv, HoldsFirmly

\* If every poll cycle, with the drift of the instances' clocks added, ends
\* within the visibility timeouts, a job runs in one handler at a time and a
\* handler that runs was not called off.  The bound is on the whole cycle, not on
\* the longest handler.
THEOREM DispatchIsSound ==
  ASSUME BriefPolls
  PROVE  Spec => []DispatchSound
<1>1. FirmInv => DispatchSound
  <2> SUFFICES ASSUME FirmInv
               PROVE  DispatchSound
    OBVIOUS
  <2>1. FenceInv /\ HoldsFirmly
    BY DEF FirmInv
  <2>2. NoDoubleDispatch
    BY <2>1 DEF NoDoubleDispatch, HoldsFirmly, FenceInv, TokensUnique, Held
  <2>3. CanceledIsOff
    BY <2>1 DEF CanceledIsOff, HoldsFirmly
  <2>4. QED
    BY <2>2, <2>3 DEF DispatchSound
<1>2. QED
  BY <1>1, FirmInit, FirmStep, PTL DEF Spec
=============================================================================
