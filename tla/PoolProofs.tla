------------------------------ MODULE PoolProofs -------------------------------
(* The two thread pools of a process.  The memory queue's budget is exact, a pool
   that was stopped is quiet, and a task a handler pushed is run, for any tasks,
   nesting, threads, ring and budget.  A scheduled job never overlaps itself and
   is never forgotten, and a stopped scheduler is quiet, for any table, delays,
   cap and workers.                                                              *)
EXTENDS MemoryPool, Scheduler, FiniteSetTheorems, TLAPS

\* A call or task that may still run has an attempt left.
AttemptsLeft ==
  \A t \in Tasks : phase[t] \notin {"freeing", "over"} => attempts[t] < Limit(t)

\* The ring holds exactly the queued tasks, each once.
Ringed ==
  /\ \A i, k \in 1..Len(ring) : ring[i] = ring[k] => i = k
  /\ \A t \in Tasks : phase[t] = "queued" <=> \E i \in 1..Len(ring) : ring[i] = t

\* A worker has a task from its first attempt to its end, and it alone has it.
Threaded ==
  /\ \A t \in Tasks : phase[t] = "running" => \E w \in Threads : thread[w] = t
  /\ \A w \in Threads : thread[w] \in Tasks =>
       \/ phase[thread[w]] = "running"
       \/ phase[thread[w]] = "freeing" /\ outcome[thread[w]] # "refused"
  /\ \A v, w \in Threads : thread[v] \in Tasks /\ thread[v] = thread[w] => v = w

\* The mutex is held by the call inside push(), if there is one.
Pushing ==
  /\ \A t \in Tasks : phase[t] = "pushing" <=> lock = t
  /\ lock # Free => stop \in {"up", "signaled"}

\* Workers live between their start and the join.
Lifetime ==
  /\ stop # "up" => shutdown
  /\ installed <=> stop \in {"up", "signaled", "joining"}
  /\ stop \in {"up", "signaled"} /\ ~started => \A w \in Threads : thread[w] = Off
  /\ stop \in {"drain", "stopped"} => \A w \in Threads : thread[w] \in {Off, Exited}
  /\ stop = "stopped" => ring = <<>>

\* A worker that will look at the ring before it exits.
Looking == \E w \in Threads : thread[w] = Polling \/ thread[w] \in Tasks

\* A handler that calls runs on such a worker, and so one is there as long as the ring
\* holds its task.
Nested ==
  /\ \A t \in Tasks : phase[t] = "inline" => ~installed
  /\ \A t \in Tasks : phase[t] \in {"reserved", "pushing"} /\ Parent[t] # Outside =>
       phase[Parent[t]] = "running"
  /\ \A i \in 1..Len(ring) : Parent[ring[i]] # Outside => Looking
  /\ NestedPushRuns

PoolInv ==
  /\ TypeOK /\ AttemptsLeft /\ Ringed /\ Threaded /\ Pushing /\ Lifetime /\ Nested

\* The constants, where a proof needs no more of them.
LEMMA LimitType == \A t \in Tasks : Limit(t) \in Nat /\ 1 <= Limit(t) /\ Limit(t) <= MaxAttempts
  BY PoolAssumption DEF Limit

\* A call or task moves on and nothing else changes, unless it enters or leaves the
\* ring, the mutex or a worker.
LEMMA MoveKeeps ==
  ASSUME PoolInv, NEW t \in Tasks, NEW p \in Phase, NEW o \in Outcome,
         phase' = [phase EXCEPT ![t] = p],
         outcome' = outcome \/ outcome' = [outcome EXCEPT ![t] = o],
         UNCHANGED <<attempts, ring, lock, thread, started, shutdown, installed, stop, serving, promised>>,
         active' \in Nat, jobs' \in Nat, job_bytes' \in Nat,
         phase[t] \in {"new", "reserved", "inline", "freeing"},
         p \in {"reserved", "inline", "freeing", "over"},
         phase[t] = "freeing" => p = "over",
         p = "inline" => ~installed,
         p = "reserved" /\ Parent[t] # Outside => phase[Parent[t]] = "running",
         o # "dropped",
         \A w \in Threads : thread[w] # t
  PROVE  PoolInv'
<1>0. /\ TypeOK /\ AttemptsLeft /\ Ringed /\ Threaded /\ Pushing /\ Lifetime /\ Nested
      /\ Parent \in [Tasks -> Tasks \cup {Outside}] /\ Outside \notin Tasks
  BY PoolAssumption DEF PoolInv
<1>1. /\ phase \in [Tasks -> Phase] /\ outcome \in [Tasks -> Outcome]
      /\ phase' \in [Tasks -> Phase] /\ outcome' \in [Tasks -> Outcome]
      /\ phase'[t] = p /\ \A s \in Tasks \ {t} : phase'[s] = phase[s] /\ outcome'[s] = outcome[s]
      /\ outcome'[t] \in {outcome[t], o}
  BY <1>0 DEF TypeOK
<1>2. TypeOK'
  BY <1>0, <1>1 DEF TypeOK
<1>3. AttemptsLeft'
  BY <1>0, <1>1 DEF AttemptsLeft, Limit
<1>4. Ringed'
  BY <1>0, <1>1 DEF Ringed
<1>5. Threaded'
  BY <1>0, <1>1 DEF Threaded
<1>6. Pushing'
  BY <1>0, <1>1 DEF Pushing
<1>7. Lifetime'
  BY <1>0 DEF Lifetime
<1>8. Nested'
  <2>1. \A s \in Tasks : phase'[s] = "inline" => ~installed'
    BY <1>0, <1>1 DEF Nested
  <2>2. \A s \in Tasks : phase'[s] \in {"reserved", "pushing"} /\ Parent[s] # Outside =>
           phase'[Parent[s]] = "running"
    BY <1>0, <1>1 DEF Nested
  <2>3. \A i \in 1..Len(ring') : Parent[ring'[i]] # Outside => Looking'
    BY <1>0 DEF Nested, Looking
  <2>4. NestedPushRuns'
    BY <1>0, <1>1 DEF Nested, NestedPushRuns
  <2>5. QED
    BY <2>1, <2>2, <2>3, <2>4 DEF Nested
<1>9. QED
  BY <1>2, <1>3, <1>4, <1>5, <1>6, <1>7, <1>8 DEF PoolInv

\* The budget's counters are numbers.
Counted == active \in Nat /\ jobs \in Nat /\ job_bytes \in Nat

\* A call is made, refused or abandoned.
LEMMA CallKeeps ==
  ASSUME PoolInv, Counted', NEW t \in Tasks,
         Call(t) \/ OutOfMemory(t) \/ FreeFailedCall(t) \/ (PushEnter(t) /\ shutdown)
  PROVE  PoolInv'
<1>0. /\ TypeOK /\ Threaded /\ Nested /\ Lifetime
      /\ {"new", "reserved", "inline", "freeing", "over"} \subseteq Phase
      /\ {"none", "refused"} \subseteq Outcome
  BY DEF PoolInv, Phase, Outcome
<1>1. ASSUME NEW w \in Threads, thread[w] = t
      PROVE  phase[t] = "running" \/ (phase[t] = "freeing" /\ outcome[t] # "refused")
  BY <1>0, <1>1 DEF Threaded
<1>2. UNCHANGED <<attempts, ring, lock, thread, started, shutdown, installed, stop, serving, promised>>
  BY DEF Call, CallInline, CallPooled, OutOfMemory, FreeFailedCall, PushEnter
<1>3. CASE CallInline(t)
  <2>1. phase[t] = "new" /\ ~installed
    BY <1>3 DEF CallInline, MayCall
  <2>2. \/ phase' = [phase EXCEPT ![t] = "over"] /\ outcome' = [outcome EXCEPT ![t] = "refused"]
        \/ phase' = [phase EXCEPT ![t] = "inline"] /\ outcome' = outcome
    BY <1>3 DEF CallInline, Refuse, Moves, Ends
  <2>3. \A w \in Threads : thread[w] # t
    BY <1>1, <2>1
  <2>4. QED
    BY <1>0, <1>2, <2>1, <2>2, <2>3, MoveKeeps DEF Counted
<1>4. CASE CallPooled(t)
  <2>1. phase[t] = "new" /\ installed /\ (Parent[t] # Outside => phase[Parent[t]] \in {"running", "inline"})
    BY <1>4 DEF CallPooled, MayCall
  <2>2. \/ phase' = [phase EXCEPT ![t] = "over"] /\ outcome' = [outcome EXCEPT ![t] = "refused"]
        \/ phase' = [phase EXCEPT ![t] = "reserved"] /\ outcome' = outcome
    BY <1>4 DEF CallPooled, Refuse, Moves, Ends
  <2>3. \A w \in Threads : thread[w] # t
    BY <1>1, <2>1
  <2>4. Parent[t] # Outside => phase[Parent[t]] = "running"
    BY <1>0, <2>1, PoolAssumption DEF Nested
  <2>5. QED
    BY <1>0, <1>2, <2>1, <2>2, <2>3, <2>4, MoveKeeps DEF Counted
<1>5. CASE OutOfMemory(t) \/ (PushEnter(t) /\ shutdown)
  <2>1. /\ phase[t] = "reserved"
        /\ phase' = [phase EXCEPT ![t] = "freeing"] /\ outcome' = [outcome EXCEPT ![t] = "refused"]
    BY <1>5 DEF OutOfMemory, PushEnter, FailCall, Moves, Ends
  <2>2. \A w \in Threads : thread[w] # t
    BY <1>1, <2>1
  <2>3. QED
    BY <1>0, <1>2, <2>1, <2>2, MoveKeeps DEF Counted
<1>6. CASE FreeFailedCall(t)
  <2>1. /\ phase[t] = "freeing" /\ outcome[t] = "refused"
        /\ phase' = [phase EXCEPT ![t] = "over"] /\ outcome' = outcome
    BY <1>6 DEF FreeFailedCall, Moves
  <2>2. \A w \in Threads : thread[w] # t
    BY <1>1, <2>1
  <2>3. QED
    BY <1>0, <1>2, <2>1, <2>2, MoveKeeps DEF Counted
<1>7. QED
  BY <1>3, <1>4, <1>5, <1>6 DEF Call

\* push() enters its critical section, or leaves it without the task.
LEMMA MutexKeeps ==
  ASSUME PoolInv, Counted', NEW t \in Tasks, PushEnter(t) /\ ~shutdown
  PROVE  PoolInv'
<1>0. /\ TypeOK /\ AttemptsLeft /\ Ringed /\ Threaded /\ Pushing /\ Lifetime /\ Nested
      /\ Parent \in [Tasks -> Tasks \cup {Outside}] /\ Free \notin Tasks
  BY PoolAssumption DEF PoolInv
<1>1. /\ phase[t] = "reserved" /\ lock = Free /\ lock' = t
      /\ phase' = [phase EXCEPT ![t] = "pushing"]
      /\ UNCHANGED <<outcome, attempts, ring, thread, started, shutdown, installed, stop, serving, promised>>
  BY DEF PushEnter, Moves
<1>2. phase' \in [Tasks -> Phase] /\ phase'[t] = "pushing" /\ \A s \in Tasks \ {t} : phase'[s] = phase[s]
  BY <1>0, <1>1 DEF TypeOK, Phase
<1>3. TypeOK'
  BY <1>0, <1>1, <1>2 DEF TypeOK, Counted
<1>4. AttemptsLeft' /\ Ringed'
  BY <1>0, <1>1, <1>2 DEF AttemptsLeft, Ringed, Limit
<1>5. Threaded'
  BY <1>0, <1>1, <1>2 DEF Threaded
<1>6. Pushing' /\ Lifetime'
  BY <1>0, <1>1, <1>2 DEF Pushing, Lifetime, TypeOK
<1>7. Nested'
  BY <1>0, <1>1, <1>2 DEF Nested, Looking, NestedPushRuns
<1>8. QED
  BY <1>3, <1>4, <1>5, <1>6, <1>7 DEF PoolInv

\* The first push starts the workers, or fails.
LEMMA SpawnKeeps == ASSUME PoolInv, Counted', NEW t \in Tasks, Spawn(t) PROVE PoolInv'
<1>0. /\ TypeOK /\ AttemptsLeft /\ Ringed /\ Threaded /\ Pushing /\ Lifetime /\ Nested
      /\ Parent \in [Tasks -> Tasks \cup {Outside}] /\ Free \notin Tasks
      /\ Tasks \cap {Off, Polling, Empty, Exited} = {}
  BY PoolAssumption DEF PoolInv
<1>1. /\ phase[t] = "pushing" /\ lock = t /\ ~started /\ stop \in {"up", "signaled"}
      /\ \A w \in Threads : thread[w] = Off
      /\ UNCHANGED <<attempts, ring, shutdown, installed, stop, serving, promised>>
  BY <1>0 DEF Spawn, Pushing, Lifetime
<1>2. ~Looking /\ \A s \in Tasks : phase[s] # "running"
  BY <1>0, <1>1 DEF Looking, Threaded, Off, Polling
<1>3. PICK spawned \in SUBSET Threads :
        IF spawned = {}
        THEN FailCall(t) /\ lock' = Free /\ UNCHANGED <<thread, started>>
        ELSE /\ thread' = [w \in Threads |-> IF w \in spawned THEN Polling ELSE Off]
             /\ started' = TRUE
             /\ UNCHANGED <<phase, outcome, lock>>
  BY DEF Spawn
<1>4. CASE spawned = {}
  <2>1. /\ phase' = [phase EXCEPT ![t] = "freeing"] /\ outcome' = [outcome EXCEPT ![t] = "refused"]
        /\ lock' = Free /\ UNCHANGED <<thread, started>>
    BY <1>3, <1>4 DEF FailCall, Moves, Ends
  <2>2. /\ phase' \in [Tasks -> Phase] /\ outcome' \in [Tasks -> Outcome]
        /\ phase'[t] = "freeing" /\ outcome'[t] = "refused"
        /\ \A s \in Tasks \ {t} : phase'[s] = phase[s] /\ outcome'[s] = outcome[s]
    BY <1>0, <2>1 DEF TypeOK, Phase, Outcome
  <2>3. TypeOK'
    BY <1>0, <1>1, <2>1, <2>2 DEF TypeOK, Counted
  <2>4. AttemptsLeft' /\ Ringed'
    BY <1>0, <1>1, <2>2 DEF AttemptsLeft, Ringed, Limit
  <2>5. Threaded'
    BY <1>0, <1>1, <2>1, <2>2 DEF Threaded, Off
  <2>6. Pushing' /\ Lifetime'
    BY <1>0, <1>1, <2>1, <2>2 DEF Pushing, Lifetime
  <2>7. Nested'
    BY <1>0, <1>1, <1>2, <2>1, <2>2 DEF Nested, Looking, NestedPushRuns
  <2>8. QED
    BY <2>3, <2>4, <2>5, <2>6, <2>7 DEF PoolInv
<1>5. CASE spawned # {}
  <2>1. /\ thread' = [w \in Threads |-> IF w \in spawned THEN Polling ELSE Off]
        /\ started' = TRUE /\ UNCHANGED <<phase, outcome, lock>>
    BY <1>3, <1>5
  <2>2. thread' \in [Threads -> ThreadState] /\ \A w \in Threads : thread'[w] \in {Polling, Off}
    BY <2>1 DEF ThreadState
  <2>3. TypeOK'
    BY <1>0, <1>1, <2>1, <2>2 DEF TypeOK, Counted
  <2>4. AttemptsLeft' /\ Ringed'
    BY <1>0, <1>1, <2>1 DEF AttemptsLeft, Ringed, Limit
  <2>5. Threaded'
    BY <1>0, <1>2, <2>1, <2>2 DEF Threaded
  <2>6. Pushing' /\ Lifetime'
    BY <1>0, <1>1, <2>1 DEF Pushing, Lifetime
  <2>7. Looking'
    BY <1>5, <2>1 DEF Looking
  <2>8. Nested'
    BY <1>0, <1>1, <2>1, <2>7 DEF Nested, NestedPushRuns
  <2>9. QED
    BY <2>3, <2>4, <2>5, <2>6, <2>8 DEF PoolInv
<1>6. QED
  BY <1>4, <1>5

\* The ring takes the task behind the others, or is full.
LEMMA LeaveKeeps == ASSUME PoolInv, Counted', NEW t \in Tasks, PushLeave(t) PROVE PoolInv'
<1>0. /\ TypeOK /\ AttemptsLeft /\ Ringed /\ Threaded /\ Pushing /\ Lifetime /\ Nested
      /\ Parent \in [Tasks -> Tasks \cup {Outside}] /\ Outside \notin Tasks /\ Free \notin Tasks
      /\ Capacity \in Nat
  BY PoolAssumption DEF PoolInv
<1>1. /\ phase[t] = "pushing" /\ lock = t /\ started /\ lock' = Free /\ stop \in {"up", "signaled"}
      /\ UNCHANGED <<attempts, thread, started, shutdown, installed, stop, serving, promised>>
  BY <1>0 DEF PushLeave, Pushing
<1>2. CASE Len(ring) = Capacity
  <2>1. /\ phase' = [phase EXCEPT ![t] = "freeing"] /\ outcome' = [outcome EXCEPT ![t] = "refused"]
        /\ UNCHANGED ring
    BY <1>2 DEF PushLeave, FailCall, Moves, Ends
  <2>2. /\ phase' \in [Tasks -> Phase] /\ outcome' \in [Tasks -> Outcome]
        /\ phase'[t] = "freeing" /\ outcome'[t] = "refused"
        /\ \A s \in Tasks \ {t} : phase'[s] = phase[s] /\ outcome'[s] = outcome[s]
    BY <1>0, <2>1 DEF TypeOK, Phase, Outcome
  <2>3. TypeOK'
    BY <1>0, <1>1, <2>1, <2>2 DEF TypeOK, Counted
  <2>4. AttemptsLeft' /\ Ringed'
    BY <1>0, <1>1, <2>1, <2>2 DEF AttemptsLeft, Ringed, Limit
  <2>5. Threaded'
    BY <1>0, <1>1, <2>2 DEF Threaded
  <2>6. Pushing' /\ Lifetime'
    BY <1>0, <1>1, <2>1, <2>2 DEF Pushing, Lifetime
  <2>7. Nested'
    BY <1>0, <1>1, <2>1, <2>2 DEF Nested, Looking, NestedPushRuns
  <2>8. QED
    BY <2>3, <2>4, <2>5, <2>6, <2>7 DEF PoolInv
<1>3. CASE Len(ring) # Capacity
  <2>1. /\ ring' = Append(ring, t) /\ phase' = [phase EXCEPT ![t] = "queued"] /\ UNCHANGED outcome
    BY <1>3 DEF PushLeave, Moves
  <2>2. /\ phase' \in [Tasks -> Phase] /\ phase'[t] = "queued"
        /\ \A s \in Tasks \ {t} : phase'[s] = phase[s]
    BY <1>0, <2>1 DEF TypeOK, Phase
  <2>3. /\ ring' \in Seq(Tasks) /\ Len(ring') = Len(ring) + 1 /\ ring'[Len(ring) + 1] = t
        /\ \A i \in 1..Len(ring) : ring'[i] = ring[i] /\ ring[i] \in Tasks
        /\ Len(ring) \in Nat
    BY <1>0, <2>1 DEF TypeOK
  <2>4. TypeOK'
    BY <1>0, <1>1, <1>3, <2>1, <2>2, <2>3 DEF TypeOK, Counted
  <2>5. AttemptsLeft'
    BY <1>0, <1>1, <2>1, <2>2 DEF AttemptsLeft, Limit
  <2>6. Ringed'
    <3>1. \A i \in 1..Len(ring) : ring[i] # t
      BY <1>0, <1>1, <2>3 DEF Ringed
    <3>2. \A i \in 1..Len(ring') : i \in 1..Len(ring) \/ i = Len(ring) + 1
      BY <2>3
    <3>3. \A i, k \in 1..Len(ring') : ring'[i] = ring'[k] => i = k
      BY <1>0, <2>3, <3>1, <3>2 DEF Ringed
    <3>4. \A s \in Tasks : phase'[s] = "queued" <=> \E i \in 1..Len(ring') : ring'[i] = s
      <4>1. \A i \in 1..Len(ring) : i \in 1..Len(ring')
        BY <2>3
      <4>2. Len(ring) + 1 \in 1..Len(ring')
        BY <2>3
      <4>3. QED
        BY <1>0, <2>2, <2>3, <3>1, <3>2, <4>1, <4>2 DEF Ringed
    <3>5. QED
      BY <3>3, <3>4 DEF Ringed
  <2>7. Threaded'
    BY <1>0, <1>1, <2>1, <2>2 DEF Threaded
  <2>8. Pushing' /\ Lifetime'
    BY <1>0, <1>1, <2>1, <2>2 DEF Pushing, Lifetime
  <2>9. Nested'
    <3>1. Parent[t] # Outside => Looking
      BY <1>0, <1>1 DEF Nested, Threaded, Looking
    <3>2. Looking' <=> Looking
      BY <1>1 DEF Looking
    <3>3. \A i \in 1..Len(ring') : Parent[ring'[i]] # Outside => Looking'
      <4>1. \A i \in 1..Len(ring') : i \in 1..Len(ring) \/ i = Len(ring) + 1
        BY <2>3
      <4>2. QED
        BY <1>0, <2>3, <3>1, <3>2, <4>1 DEF Nested
    <3>4. QED
      BY <1>0, <1>1, <2>1, <2>2, <3>3 DEF Nested, NestedPushRuns
  <2>10. QED
    BY <2>4, <2>5, <2>6, <2>7, <2>8, <2>9 DEF PoolInv
<1>4. QED
  BY <1>2, <1>3

\* A handler that is not inside a call of its own tries once more, or ends.
LEMMA AttemptKeeps ==
  ASSUME PoolInv, Counted', NEW t \in Tasks, NEW ok \in BOOLEAN, Attempt(t, ok) PROVE PoolInv'
<1>0. /\ TypeOK /\ AttemptsLeft /\ Ringed /\ Threaded /\ Pushing /\ Lifetime /\ Nested
      /\ Parent \in [Tasks -> Tasks \cup {Outside}] /\ Outside \notin Tasks /\ MaxAttempts \in Nat
  BY PoolAssumption DEF PoolInv
<1>1. /\ phase[t] \in {"running", "inline"} /\ ~Calling(t)
      /\ attempts' = [attempts EXCEPT ![t] = attempts[t] + 1]
      /\ UNCHANGED <<ring, lock, thread, started, shutdown, installed, stop, serving, promised>>
  BY DEF Attempt
<1>2. attempts[t] \in Nat /\ attempts[t] < Limit(t) /\ Limit(t) \in Nat /\ Limit(t) <= MaxAttempts
  <2>1. attempts[t] \in 0..MaxAttempts
    BY <1>0 DEF TypeOK
  <2>2. phase[t] \notin {"freeing", "over"}
    BY <1>1
  <2>3. attempts[t] < Limit(t)
    BY <1>0, <2>2 DEF AttemptsLeft
  <2>4. QED
    BY <1>0, <2>1, <2>3, LimitType
<1>3. /\ attempts' \in [Tasks -> 0..MaxAttempts] /\ attempts'[t] = attempts[t] + 1
      /\ \A s \in Tasks \ {t} : attempts'[s] = attempts[s]
  <2>1. attempts[t] + 1 \in 0..MaxAttempts
    BY <1>0, <1>2
  <2>2. QED
    BY <1>0, <1>1, <2>1 DEF TypeOK
<1>4. CASE ok \/ attempts[t] + 1 >= Limit(t)
  <2>1. /\ outcome' = [outcome EXCEPT ![t] = IF ok THEN "done" ELSE "failed"]
        /\ phase' = [phase EXCEPT ![t] = IF phase[t] = "inline" THEN "over" ELSE "freeing"]
    BY <1>4 DEF Attempt, Ends, Moves
  <2>2. /\ phase' \in [Tasks -> Phase] /\ outcome' \in [Tasks -> Outcome]
        /\ phase'[t] = (IF phase[t] = "inline" THEN "over" ELSE "freeing")
        /\ outcome'[t] \in {"done", "failed"}
        /\ \A s \in Tasks \ {t} : phase'[s] = phase[s] /\ outcome'[s] = outcome[s]
    BY <1>0, <2>1 DEF TypeOK, Phase, Outcome
  <2>3. TypeOK'
    BY <1>0, <1>1, <1>3, <2>2 DEF TypeOK, Counted
  <2>4. AttemptsLeft'
    BY <1>0, <1>3, <2>2 DEF AttemptsLeft, Limit
  <2>5. Ringed'
    BY <1>0, <1>1, <2>2 DEF Ringed
  <2>6. Threaded'
    BY <1>0, <1>1, <2>2 DEF Threaded
  <2>7. Pushing' /\ Lifetime'
    BY <1>0, <1>1, <2>2 DEF Pushing, Lifetime
  <2>8. Nested'
    <3>1. \A s \in Tasks : phase'[s] = "inline" => ~installed'
      BY <1>0, <1>1, <2>2 DEF Nested
    <3>2. \A s \in Tasks : phase'[s] \in {"reserved", "pushing"} /\ Parent[s] # Outside =>
             phase'[Parent[s]] = "running"
      <4>1. \A s \in Tasks : phase[s] \in {"reserved", "pushing"} => Parent[s] # t
        BY <1>1 DEF Calling
      <4>2. QED
        BY <1>0, <1>1, <2>2, <4>1 DEF Nested
    <3>3. \A i \in 1..Len(ring') : Parent[ring'[i]] # Outside => Looking'
      BY <1>0, <1>1 DEF Nested, Looking
    <3>4. NestedPushRuns'
      BY <1>0, <2>2 DEF Nested, NestedPushRuns
    <3>5. QED
      BY <3>1, <3>2, <3>3, <3>4 DEF Nested
  <2>9. QED
    BY <2>3, <2>4, <2>5, <2>6, <2>7, <2>8 DEF PoolInv
<1>5. CASE ~(ok \/ attempts[t] + 1 >= Limit(t))
  <2>1. UNCHANGED <<phase, outcome>>
    BY <1>5 DEF Attempt
  <2>2. TypeOK'
    BY <1>0, <1>1, <1>3, <2>1 DEF TypeOK, Counted
  <2>3. AttemptsLeft'
    BY <1>0, <1>2, <1>3, <1>5, <2>1 DEF AttemptsLeft, Limit
  <2>4. Ringed' /\ Threaded' /\ Pushing' /\ Lifetime' /\ Nested'
    BY <1>0, <1>1, <2>1 DEF Ringed, Threaded, Pushing, Lifetime, Nested, Looking, NestedPushRuns
  <2>5. QED
    BY <2>2, <2>3, <2>4 DEF PoolInv
<1>6. QED
  BY <1>4, <1>5

\* The oldest task leaves a ring that is not empty.
LEMMA HeadLeaves ==
  ASSUME PoolInv, ring # <<>>
  PROVE  /\ Head(ring) \in Tasks /\ phase[Head(ring)] = "queued"
         /\ Tail(ring) \in Seq(Tasks) /\ Len(Tail(ring)) = Len(ring) - 1
         /\ Len(ring) \in Nat /\ Head(ring) = ring[1] /\ 1 \in 1..Len(ring)
         /\ \A i \in 1..Len(Tail(ring)) : Tail(ring)[i] = ring[i + 1] /\ i + 1 \in 1..Len(ring)
         /\ \A i, k \in 1..Len(Tail(ring)) : Tail(ring)[i] = Tail(ring)[k] => i = k
         /\ \A t \in Tasks : (phase[t] = "queued" /\ t # Head(ring)) <=>
                               \E i \in 1..Len(Tail(ring)) : Tail(ring)[i] = t
<1>1. ring \in Seq(Tasks) /\ Ringed
  BY DEF PoolInv, TypeOK
<1>2. /\ Len(ring) \in Nat /\ 1 \in 1..Len(ring) /\ Head(ring) = ring[1] /\ Head(ring) \in Tasks
      /\ Tail(ring) \in Seq(Tasks) /\ Len(Tail(ring)) = Len(ring) - 1
  BY <1>1
<1>3. \A i \in 1..Len(Tail(ring)) : Tail(ring)[i] = ring[i + 1] /\ i + 1 \in 1..Len(ring)
  BY <1>1, <1>2
<1>4. \A i, k \in 1..Len(Tail(ring)) : Tail(ring)[i] = Tail(ring)[k] => i = k
  BY <1>1, <1>2, <1>3 DEF Ringed
<1>5. ASSUME NEW t \in Tasks
      PROVE  (phase[t] = "queued" /\ t # Head(ring)) <=> \E i \in 1..Len(Tail(ring)) : Tail(ring)[i] = t
  <2>1. ASSUME phase[t] = "queued", t # Head(ring)
        PROVE  \E i \in 1..Len(Tail(ring)) : Tail(ring)[i] = t
    <3>1. PICK i \in 1..Len(ring) : ring[i] = t
      BY <1>1, <2>1 DEF Ringed
    <3>2. i # 1
      BY <1>2, <2>1, <3>1
    <3>3. i - 1 \in 1..Len(Tail(ring)) /\ (i - 1) + 1 = i
      BY <1>2, <3>2
    <3>4. QED
      BY <1>3, <3>1, <3>3
  <2>2. ASSUME NEW i \in 1..Len(Tail(ring)), Tail(ring)[i] = t
        PROVE  phase[t] = "queued" /\ t # Head(ring)
    <3>1. ring[i + 1] = t /\ i + 1 \in 1..Len(ring) /\ i + 1 # 1
      BY <1>2, <1>3, <2>2
    <3>2. QED
      BY <1>1, <1>2, <3>1 DEF Ringed
  <2>3. QED
    BY <2>1, <2>2
<1>6. phase[Head(ring)] = "queued"
  BY <1>1, <1>2 DEF Ringed
<1>7. QED
  BY <1>2, <1>3, <1>4, <1>5, <1>6

\* A worker takes the oldest task, or sees that there is none.
LEMMA TakeKeeps == ASSUME PoolInv, Counted', NEW w \in Threads, Take(w) PROVE PoolInv'
<1>0. /\ TypeOK /\ AttemptsLeft /\ Ringed /\ Threaded /\ Pushing /\ Lifetime /\ Nested
      /\ Parent \in [Tasks -> Tasks \cup {Outside}] /\ Outside \notin Tasks
      /\ Tasks \cap {Off, Polling, Empty, Exited} = {} /\ Capacity \in Nat
  BY PoolAssumption DEF PoolInv
<1>1. /\ thread[w] = Polling /\ lock = Free
      /\ UNCHANGED <<outcome, attempts, lock, started, shutdown, installed, stop, serving, promised>>
  BY DEF Take
<1>2. /\ stop \notin {"drain", "stopped"}
      /\ stop \in {"up", "signaled"} => started
  BY <1>0, <1>1 DEF Lifetime, Off, Polling, Exited
<1>3. CASE ring = <<>>
  <2>1. thread' = [thread EXCEPT ![w] = Empty] /\ UNCHANGED <<ring, phase>>
    BY <1>3 DEF Take
  <2>2. /\ thread' \in [Threads -> ThreadState] /\ thread'[w] = Empty
        /\ \A v \in Threads \ {w} : thread'[v] = thread[v]
    BY <1>0, <2>1 DEF TypeOK, ThreadState
  <2>3. TypeOK' /\ AttemptsLeft' /\ Ringed' /\ Pushing'
    BY <1>0, <1>1, <2>1, <2>2 DEF TypeOK, Counted, AttemptsLeft, Limit, Ringed, Pushing
  <2>4. Threaded'
    BY <1>0, <1>1, <2>1, <2>2 DEF Threaded
  <2>5. Lifetime'
    BY <1>0, <1>1, <1>2, <2>1, <2>2 DEF Lifetime
  <2>6. Nested'
    BY <1>0, <1>1, <1>3, <2>1 DEF Nested, NestedPushRuns
  <2>7. QED
    BY <2>3, <2>4, <2>5, <2>6 DEF PoolInv
<1>4. CASE ring # <<>>
  <2> DEFINE h == Head(ring)
  <2>1. /\ thread' = [thread EXCEPT ![w] = h] /\ ring' = Tail(ring)
        /\ phase' = [phase EXCEPT ![h] = "running"]
    BY <1>4 DEF Take, Moves
  <2>2. /\ h \in Tasks /\ phase[h] = "queued"
        /\ ring' \in Seq(Tasks) /\ Len(ring') = Len(ring) - 1 /\ Len(ring) \in Nat
        /\ \A i \in 1..Len(ring') : ring'[i] = ring[i + 1] /\ i + 1 \in 1..Len(ring)
        /\ \A i, k \in 1..Len(ring') : ring'[i] = ring'[k] => i = k
        /\ \A t \in Tasks : (phase[t] = "queued" /\ t # h) <=> \E i \in 1..Len(ring') : ring'[i] = t
    BY <1>4, <2>1, HeadLeaves
  <2> HIDE DEF h
  <2>3. /\ thread' \in [Threads -> ThreadState] /\ thread'[w] = h
        /\ \A v \in Threads \ {w} : thread'[v] = thread[v]
        /\ phase' \in [Tasks -> Phase] /\ phase'[h] = "running"
        /\ \A s \in Tasks \ {h} : phase'[s] = phase[s]
    BY <1>0, <2>1, <2>2 DEF TypeOK, ThreadState, Phase
  <2>4. TypeOK'
    BY <1>0, <1>1, <2>2, <2>3 DEF TypeOK, Counted
  <2>5. AttemptsLeft'
    BY <1>0, <1>1, <2>2, <2>3 DEF AttemptsLeft, Limit
  <2>6. Ringed'
    BY <2>2, <2>3 DEF Ringed
  <2>7. Threaded'
    <3>1. \A v \in Threads : thread[v] # h
      BY <1>0, <2>2 DEF Threaded
    <3>2. QED
      BY <1>0, <1>1, <2>2, <2>3, <3>1 DEF Threaded
  <2>8. Pushing'
    BY <1>0, <1>1, <2>2, <2>3 DEF Pushing
  <2>9. Lifetime'
    BY <1>0, <1>1, <1>2 DEF Lifetime
  <2>10. Looking'
    BY <2>2, <2>3 DEF Looking
  <2>11. Nested'
    BY <1>0, <1>1, <2>2, <2>3, <2>10 DEF Nested, NestedPushRuns
  <2>12. QED
    BY <2>4, <2>5, <2>6, <2>7, <2>8, <2>9, <2>11 DEF PoolInv
<1>5. QED
  BY <1>3, <1>4

\* A worker that saw an empty ring sleeps or exits.
LEMMA IdleKeeps == ASSUME PoolInv, Counted', NEW w \in Threads, IdleOrExit(w) PROVE PoolInv'
<1>0. /\ TypeOK /\ AttemptsLeft /\ Ringed /\ Threaded /\ Pushing /\ Lifetime /\ Nested
      /\ Tasks \cap {Off, Polling, Empty, Exited} = {}
  BY PoolAssumption DEF PoolInv
<1>1. /\ thread[w] = Empty /\ thread' = [thread EXCEPT ![w] = IF shutdown THEN Exited ELSE Polling]
      /\ UNCHANGED <<phase, outcome, attempts, ring, lock, started, shutdown, installed, stop, serving, promised>>
  BY DEF IdleOrExit
<1>2. /\ thread' \in [Threads -> ThreadState] /\ thread'[w] \in {Exited, Polling}
      /\ \A v \in Threads \ {w} : thread'[v] = thread[v]
  BY <1>0, <1>1 DEF TypeOK, ThreadState
<1>3. /\ stop \notin {"drain", "stopped"}
      /\ stop \in {"up", "signaled"} => started
  BY <1>0, <1>1 DEF Lifetime, Off, Empty, Exited
<1>4. TypeOK' /\ AttemptsLeft' /\ Ringed' /\ Pushing'
  BY <1>0, <1>1, <1>2 DEF TypeOK, Counted, AttemptsLeft, Limit, Ringed, Pushing
<1>5. Threaded'
  BY <1>0, <1>1, <1>2 DEF Threaded
<1>6. Lifetime'
  BY <1>0, <1>1, <1>3 DEF Lifetime
<1>7. Looking => Looking'
  <2>1. ASSUME NEW v \in Threads, thread[v] = Polling \/ thread[v] \in Tasks
        PROVE  v # w
    BY <1>0, <1>1, <2>1 DEF Empty, Polling
  <2>2. QED
    BY <1>2, <2>1 DEF Looking
<1>8. Nested'
  BY <1>0, <1>1, <1>7 DEF Nested, NestedPushRuns
<1>9. QED
  BY <1>4, <1>5, <1>6, <1>8 DEF PoolInv

\* A worker frees a task that ended, and looks at the ring again.
LEMMA DestroyKeeps == ASSUME PoolInv, Counted', NEW w \in Threads, Destroy(w) PROVE PoolInv'
<1> DEFINE t == thread[w]
<1>0. /\ TypeOK /\ AttemptsLeft /\ Ringed /\ Threaded /\ Pushing /\ Lifetime /\ Nested
      /\ Parent \in [Tasks -> Tasks \cup {Outside}] /\ Outside \notin Tasks
      /\ Tasks \cap {Off, Polling, Empty, Exited} = {}
  BY PoolAssumption DEF PoolInv
<1>1. /\ t \in Tasks /\ phase[t] = "freeing" /\ t = thread[w]
      /\ phase' = [phase EXCEPT ![t] = "over"] /\ thread' = [thread EXCEPT ![w] = Polling]
      /\ UNCHANGED <<outcome, attempts, ring, lock, started, shutdown, installed, stop, serving, promised>>
  BY DEF Destroy, Moves
<1> HIDE DEF t
<1>2. /\ thread' \in [Threads -> ThreadState] /\ thread'[w] = Polling
      /\ \A v \in Threads \ {w} : thread'[v] = thread[v]
      /\ phase' \in [Tasks -> Phase] /\ phase'[t] = "over"
      /\ \A s \in Tasks \ {t} : phase'[s] = phase[s]
  BY <1>0, <1>1 DEF TypeOK, ThreadState, Phase
<1>3. /\ stop \notin {"drain", "stopped"}
      /\ stop \in {"up", "signaled"} => started
  BY <1>0, <1>1 DEF Lifetime
<1>4. TypeOK' /\ AttemptsLeft' /\ Pushing'
  BY <1>0, <1>1, <1>2 DEF TypeOK, Counted, AttemptsLeft, Limit, Pushing
<1>5. Ringed'
  BY <1>0, <1>1, <1>2 DEF Ringed
<1>6. Threaded'
  BY <1>0, <1>1, <1>2 DEF Threaded
<1>7. Lifetime'
  BY <1>0, <1>1, <1>3 DEF Lifetime
<1>8. Looking'
  BY <1>2 DEF Looking
<1>9. Nested'
  BY <1>0, <1>1, <1>2, <1>8 DEF Nested, NestedPushRuns
<1>10. QED
  BY <1>4, <1>5, <1>6, <1>7, <1>9 DEF PoolInv

\* stop(): the flag, the snapshot of the threads, the join, and the last drain.
LEMMA StopKeeps == ASSUME PoolInv, Counted', Stop PROVE PoolInv'
<1>0. /\ TypeOK /\ AttemptsLeft /\ Ringed /\ Threaded /\ Pushing /\ Lifetime /\ Nested
      /\ Parent \in [Tasks -> Tasks \cup {Outside}] /\ Outside \notin Tasks
      /\ Tasks \cap {Off, Polling, Empty, Exited} = {} /\ Capacity \in Nat
  BY PoolAssumption DEF PoolInv
<1>1. CASE StopSignal \/ StopLock \/ StopJoin
  <2>1. UNCHANGED <<phase, outcome, attempts, ring, lock, thread, serving>>
    BY <1>1 DEF StopSignal, StopLock, StopJoin, StopRest
  <2>2. TypeOK'
    <3>1. ToSet(ring) \subseteq Tasks
      BY <1>0 DEF TypeOK, ToSet
    <3>2. QED
      BY <1>0, <1>1, <2>1, <3>1 DEF TypeOK, Counted, StopSignal, StopLock, StopJoin
  <2>3. AttemptsLeft' /\ Ringed' /\ Threaded'
    BY <1>0, <2>1 DEF AttemptsLeft, Limit, Ringed, Threaded
  <2>4. Pushing'
    BY <1>0, <1>1, <2>1 DEF Pushing, StopSignal, StopLock, StopJoin
  <2>5. Lifetime'
    BY <1>0, <1>1, <2>1 DEF Lifetime, StopSignal, StopLock, StopJoin
  <2>6. Nested'
    BY <1>0, <1>1, <2>1 DEF Nested, Looking, NestedPushRuns, StopSignal, StopLock, StopJoin
  <2>7. QED
    BY <2>2, <2>3, <2>4, <2>5, <2>6 DEF PoolInv
<1>2. CASE StopDrain /\ ring = <<>>
  <2>1. /\ stop = "drain" /\ stop' = "stopped"
        /\ UNCHANGED <<phase, outcome, attempts, ring, lock, thread, serving, started, shutdown,
                       installed, promised>>
    BY <1>2 DEF StopDrain
  <2>2. TypeOK' /\ AttemptsLeft' /\ Ringed' /\ Threaded'
    BY <1>0, <2>1 DEF TypeOK, Counted, AttemptsLeft, Limit, Ringed, Threaded
  <2>3. Pushing' /\ Lifetime'
    BY <1>0, <1>2, <2>1 DEF Pushing, Lifetime
  <2>4. Nested'
    BY <1>0, <2>1 DEF Nested, Looking, NestedPushRuns
  <2>5. QED
    BY <2>2, <2>3, <2>4 DEF PoolInv
<1>3. CASE StopDrain /\ ring # <<>>
  <2> DEFINE h == Head(ring)
  <2>1. /\ stop = "drain" /\ ring' = Tail(ring)
        /\ phase' = [phase EXCEPT ![h] = "over"] /\ outcome' = [outcome EXCEPT ![h] = "dropped"]
        /\ UNCHANGED <<stop, attempts, lock, thread, serving, started, shutdown, installed, promised>>
    BY <1>3 DEF StopDrain, Moves, Ends
  <2>2. /\ h \in Tasks /\ phase[h] = "queued" /\ h = ring[1] /\ 1 \in 1..Len(ring)
        /\ ring' \in Seq(Tasks) /\ Len(ring') = Len(ring) - 1 /\ Len(ring) \in Nat
        /\ \A i \in 1..Len(ring') : ring'[i] = ring[i + 1] /\ i + 1 \in 1..Len(ring)
        /\ \A i, k \in 1..Len(ring') : ring'[i] = ring'[k] => i = k
        /\ \A t \in Tasks : (phase[t] = "queued" /\ t # h) <=> \E i \in 1..Len(ring') : ring'[i] = t
    BY <1>3, <2>1, HeadLeaves
  <2> HIDE DEF h
  <2>3. /\ phase' \in [Tasks -> Phase] /\ phase'[h] = "over"
        /\ outcome' \in [Tasks -> Outcome] /\ outcome'[h] = "dropped"
        /\ \A s \in Tasks \ {h} : phase'[s] = phase[s] /\ outcome'[s] = outcome[s]
    BY <1>0, <2>1, <2>2 DEF TypeOK, Phase, Outcome
  <2>4. \A v \in Threads : thread[v] \in {Off, Exited}
    BY <1>0, <2>1 DEF Lifetime
  <2>5. ~Looking /\ ~Looking'
    BY <1>0, <2>1, <2>4 DEF Looking, Off, Exited, Polling
  <2>6. TypeOK'
    BY <1>0, <2>1, <2>2, <2>3 DEF TypeOK, Counted
  <2>7. AttemptsLeft' /\ Ringed'
    BY <1>0, <2>1, <2>2, <2>3 DEF AttemptsLeft, Limit, Ringed
  <2>8. Threaded'
    BY <1>0, <2>1, <2>2, <2>3, <2>4 DEF Threaded
  <2>9. Pushing' /\ Lifetime'
    BY <1>0, <2>1, <2>2, <2>3 DEF Pushing, Lifetime
  <2>10. Nested'
    <3>1. Parent[h] = Outside
      BY <1>0, <2>2, <2>5 DEF Nested
    <3>2. \A s \in Tasks : phase'[s] \in {"reserved", "pushing"} /\ Parent[s] # Outside =>
             phase'[Parent[s]] = "running"
      BY <1>0, <2>2, <2>3 DEF Nested
    <3>3. QED
      BY <1>0, <2>1, <2>2, <2>3, <2>5, <3>1, <3>2 DEF Nested, NestedPushRuns
  <2>11. QED
    BY <2>6, <2>7, <2>8, <2>9, <2>10 DEF PoolInv
<1>4. QED
  BY <1>1, <1>2, <1>3 DEF Stop

\* Every task t has f[t] bytes, each named by its task and its position.
Slots(f) == UNION {{t} \X (1..f[t]) : t \in Tasks}

\* The bytes a task has in the budget.
Held == [t \in Tasks |-> IF t \in Charged THEN Bytes(t) ELSE 0]

\* 1..n has n elements.
LEMMA UpTo == ASSUME NEW n \in Nat PROVE IsFiniteSet(1..n) /\ Cardinality(1..n) = n
<1>1. IsFiniteSet(1..n) /\ Cardinality(1..n) = IF 1 > n THEN 0 ELSE n - 1 + 1
  BY 1 \in Int, n \in Int, FS_Interval
<1>2. QED
  BY <1>1

\* The bytes of one task are added to those of the others.
LEMMA SlotsSplit ==
  ASSUME NEW f \in [Tasks -> Nat], NEW t \in Tasks
  PROVE  LET rest == UNION {{s} \X (1..f[s]) : s \in Tasks \ {t}}
         IN /\ IsFiniteSet(rest) /\ Cardinality(rest) \in Nat
            /\ IsFiniteSet(Slots(f)) /\ Cardinality(Slots(f)) = Cardinality(rest) + f[t]
<1> DEFINE others == Tasks \ {t}
           rest == UNION {{s} \X (1..f[s]) : s \in others}
           one == {t} \X (1..f[t])
<1>1. Slots(f) = rest \cup one
  BY DEF Slots
<1>2. rest \cap one = {}
  OBVIOUS
<1>3. \A s \in Tasks : IsFiniteSet({s} \X (1..f[s]))
  <2>1. TAKE s \in Tasks
  <2>2. IsFiniteSet({s})
    BY FS_Singleton
  <2>3. IsFiniteSet(1..f[s])
    BY UpTo
  <2>4. QED
    BY <2>2, <2>3, FS_Product
<1>4. IsFiniteSet(rest)
  <2> DEFINE slots == [s \in others |-> {s} \X (1..f[s])]
             T == {{s} \X (1..f[s]) : s \in others}
  <2>1. IsFiniteSet(others)
    BY PoolAssumption, FS_Subset
  <2>2. slots \in Surjection(others, T)
    BY DEF Surjection
  <2>3. IsFiniteSet(T)
    BY <2>1, <2>2, FS_Surjection
  <2>4. QED
    BY <1>3, <2>3, FS_UNION
<1>5. IsFiniteSet(one) /\ Cardinality(one) = f[t]
  <2>1. /\ IsFiniteSet({t}) /\ Cardinality({t}) = 1
        /\ IsFiniteSet(1..f[t]) /\ Cardinality(1..f[t]) = f[t] /\ f[t] \in Nat
    BY FS_Singleton, UpTo
  <2>2. IsFiniteSet(one) /\ Cardinality(one) = Cardinality({t}) * Cardinality(1..f[t])
    BY <2>1, FS_Product
  <2>3. QED
    BY <2>1, <2>2
<1> HIDE DEF rest, one
<1>6. /\ IsFiniteSet(rest \cup one)
      /\ Cardinality(rest \cup one) = Cardinality(rest) + Cardinality(one) - Cardinality(rest \cap one)
  BY <1>4, <1>5, FS_Union
<1>7. Cardinality(rest \cap one) = 0 /\ Cardinality(rest) \in Nat /\ f[t] \in Nat
  BY <1>2, <1>4, FS_EmptySet, FS_CardinalityType
<1>8. IsFiniteSet(Slots(f)) /\ Cardinality(Slots(f)) = Cardinality(rest) + f[t]
  BY <1>1, <1>5, <1>6, <1>7
<1>9. QED
  BY <1>4, <1>7, <1>8 DEF rest

\* When one task's bytes change, their number changes by as much.
LEMMA SlotsChange ==
  ASSUME NEW f \in [Tasks -> Nat], NEW g \in [Tasks -> Nat], NEW t \in Tasks,
         \A s \in Tasks \ {t} : g[s] = f[s]
  PROVE  /\ Cardinality(Slots(f)) \in Nat /\ Cardinality(Slots(g)) \in Nat
         /\ Cardinality(Slots(g)) = Cardinality(Slots(f)) - f[t] + g[t]
         /\ Cardinality(Slots(f)) >= f[t]
<1> DEFINE rest == UNION {{s} \X (1..f[s]) : s \in Tasks \ {t}}
           other == UNION {{s} \X (1..g[s]) : s \in Tasks \ {t}}
<1>1. rest = other
  OBVIOUS
<1>2. Cardinality(rest) \in Nat /\ Cardinality(Slots(f)) = Cardinality(rest) + f[t]
  BY SlotsSplit
<1>3. Cardinality(Slots(g)) = Cardinality(other) + g[t]
  BY SlotsSplit
<1> HIDE DEF rest, other
<1>4. f[t] \in Nat /\ g[t] \in Nat
  OBVIOUS
<1>5. QED
  BY <1>1, <1>2, <1>3, <1>4

\* The retained copies are what every task holds.
LEMMA CopiesAreSlots == Copies = Slots(Held) /\ Held \in [Tasks -> Nat]
<1>1. \A t \in Tasks : Bytes(t) \in Nat
  BY PoolAssumption DEF Bytes
<1>2. Held \in [Tasks -> Nat]
  BY <1>1 DEF Held
<1>3. Copies = Slots(Held)
  <2> DEFINE of(t) == {t} \X (1..Held[t])
  <2>1. \A t \in Charged : of(t) = {t} \X (1..Bytes(t)) /\ t \in Tasks
    BY DEF Held, Charged
  <2>2. \A t \in Tasks \ Charged : of(t) = {}
    BY DEF Held
  <2>3. Copies = UNION {of(t) : t \in Charged}
    BY <2>1 DEF Copies
  <2>4. Slots(Held) = UNION {of(t) : t \in Tasks}
    BY DEF Slots
  <2> HIDE DEF of
  <2>5. QED
    BY <2>1, <2>2, <2>3, <2>4
<1>4. QED
  BY <1>2, <1>3

\* A step that charges one task, returns its charge or leaves it as it is keeps the
\* budget exact, if it takes no more than there is.
LEMMA ChargeKeeps ==
  ASSUME BudgetExact, serving \subseteq Requests, NEW t \in Tasks,
         \A s \in Tasks \ {t} : phase'[s] = phase[s],
         UNCHANGED <<serving, active>>,
         \/ /\ t \notin Charged /\ t \in Charged' /\ CanAcquireJob(Bytes(t)')
            /\ jobs' = jobs + 1 /\ job_bytes' = job_bytes + Bytes(t)'
         \/ /\ t \in Charged /\ t \notin Charged'
            /\ jobs' = jobs - 1 /\ job_bytes' = job_bytes - Bytes(t)
         \/ /\ t \in Charged <=> t \in Charged'
            /\ t \in Charged => Bytes(t)' = Bytes(t)
            /\ UNCHANGED <<jobs, job_bytes>>
  PROVE  BudgetExact' /\ Counted'
<1>0. /\ IsFiniteSet(Charged) /\ Cardinality(Charged) \in Nat /\ Cardinality(serving) \in Nat
      /\ MaxWork \in Nat /\ MaxJobBytes \in Nat /\ MaxRequests \in Nat
  <2>1. IsFiniteSet(Charged) /\ IsFiniteSet(serving)
    BY PoolAssumption, FS_Subset DEF Charged
  <2>2. QED
    BY <2>1, FS_CardinalityType, AdmissionAssumption
<1>1. /\ Copies = Slots(Held) /\ Held \in [Tasks -> Nat]
      /\ Copies' = Slots(Held)' /\ Held' \in [Tasks -> Nat]
  <2>1. (Copies = Slots(Held) /\ Held \in [Tasks -> Nat])'
    BY CopiesAreSlots, PTL
  <2>2. QED
    BY <2>1, CopiesAreSlots
<1> DEFINE f == Held
           g == Held'
<1>2. \A s \in Tasks \ {t} : g[s] = f[s] /\ (s \in Charged <=> s \in Charged')
  BY DEF Held, Charged, Bytes
<1>3. /\ f[t] = IF t \in Charged THEN Bytes(t) ELSE 0
      /\ g[t] = IF t \in Charged' THEN Bytes(t)' ELSE 0
  BY DEF Held
<1>4. Slots(Held)' = Slots(g)
  BY DEF Slots
<1>5. /\ Cardinality(Copies) \in Nat /\ Cardinality(Copies') \in Nat
      /\ Cardinality(Copies') = Cardinality(Copies) - f[t] + g[t]
      /\ Cardinality(Copies) >= f[t] /\ f[t] \in Nat /\ g[t] \in Nat
  BY <1>1, <1>2, <1>4, SlotsChange
<1>6. /\ active = Cardinality(serving) /\ jobs = Cardinality(Charged) /\ job_bytes = Cardinality(Copies)
      /\ active <= MaxRequests /\ active + jobs <= MaxWork /\ job_bytes <= MaxJobBytes
  BY DEF BudgetExact
<1> HIDE DEF f, g
<1>7. CASE t \notin Charged /\ t \in Charged' /\ CanAcquireJob(Bytes(t)')
           /\ jobs' = jobs + 1 /\ job_bytes' = job_bytes + Bytes(t)'
  <2>1. Charged' = Charged \cup {t}
    BY <1>2, <1>7 DEF Charged
  <2>2. Cardinality(Charged') = Cardinality(Charged) + 1
    BY <1>0, <1>7, <2>1, FS_AddElement
  <2>3. active + jobs < MaxWork /\ Bytes(t)' <= MaxJobBytes - job_bytes
    BY <1>0, <1>6, <1>7 DEF CanAcquireJob, WorkFull
  <2>4. g[t] = Bytes(t)' /\ f[t] = 0
    BY <1>3, <1>7
  <2>5. jobs' = Cardinality(Charged') /\ job_bytes' = Cardinality(Copies')
    BY <1>0, <1>5, <1>6, <1>7, <2>2, <2>4
  <2>6. active' = Cardinality(serving') /\ active' <= MaxRequests
    BY <1>6
  <2>7. active' + jobs' <= MaxWork /\ job_bytes' <= MaxJobBytes
    BY <1>0, <1>5, <1>6, <1>7, <2>3, <2>4
  <2>8. Counted'
    BY <1>0, <1>5, <1>6, <1>7, <2>4 DEF Counted
  <2>9. QED
    BY <2>5, <2>6, <2>7, <2>8 DEF BudgetExact
<1>8. CASE t \in Charged /\ t \notin Charged'
           /\ jobs' = jobs - 1 /\ job_bytes' = job_bytes - Bytes(t)
  <2>1. Charged' = Charged \ {t}
    BY <1>2, <1>8 DEF Charged
  <2>2. Cardinality(Charged') = Cardinality(Charged) - 1 /\ Cardinality(Charged') \in Nat
    BY <1>0, <1>8, <2>1, FS_RemoveElement, FS_CardinalityType
  <2>3. g[t] = 0 /\ f[t] = Bytes(t)
    BY <1>3, <1>8
  <2>4. jobs' = Cardinality(Charged') /\ job_bytes' = Cardinality(Copies')
    BY <1>0, <1>5, <1>6, <1>8, <2>2, <2>3
  <2>5. active' = Cardinality(serving') /\ active' <= MaxRequests
    BY <1>6
  <2>6. active' + jobs' <= MaxWork /\ job_bytes' <= MaxJobBytes
    BY <1>0, <1>5, <1>6, <1>8, <2>3
  <2>7. Counted'
    BY <1>0, <1>5, <1>6, <2>2, <2>4 DEF Counted
  <2>8. QED
    BY <2>4, <2>5, <2>6, <2>7 DEF BudgetExact
<1>9. CASE (t \in Charged <=> t \in Charged') /\ (t \in Charged => Bytes(t)' = Bytes(t))
           /\ UNCHANGED <<jobs, job_bytes>>
  <2>1. Charged' = Charged
    BY <1>2, <1>9 DEF Charged
  <2>2. g[t] = f[t]
    BY <1>3, <1>9
  <2>3. Cardinality(Copies') = Cardinality(Copies)
    BY <1>5, <2>2
  <2>4. Counted'
    BY <1>0, <1>5, <1>6, <1>9 DEF Counted
  <2>5. QED
    BY <1>6, <1>9, <2>1, <2>3, <2>4 DEF BudgetExact
<1>10. QED
  BY <1>7, <1>8, <1>9

\* Every step keeps the budget exact.
LEMMA BudgetStep ==
  ASSUME PoolInv, BudgetExact, [Next]_vars
  PROVE  BudgetExact' /\ Counted'
<1>0. /\ TypeOK /\ Threaded /\ Nested /\ Lifetime
      /\ phase \in [Tasks -> Phase] /\ serving \subseteq Requests /\ Counted
      /\ IsFiniteSet(serving) /\ Cardinality(serving) \in Nat
      /\ \A t \in Tasks : Size[t] \in Nat
  <2>1. IsFiniteSet(serving)
    BY PoolAssumption, FS_Subset DEF PoolInv, TypeOK
  <2>2. QED
    BY <2>1, PoolAssumption, FS_CardinalityType DEF PoolInv, TypeOK, Counted
<1>1. ASSUME NEW t \in Tasks, NEW p \in Phase, phase' = [phase EXCEPT ![t] = p],
             UNCHANGED <<serving, active>>
      PROVE  /\ phase'[t] = p /\ \A s \in Tasks \ {t} : phase'[s] = phase[s]
             /\ t \in Charged <=> phase[t] \notin {"new", "over"}
             /\ t \in Charged' <=> p \notin {"new", "over"}
             /\ Bytes(t) = IF phase[t] = "inline" THEN 0 ELSE Size[t]
             /\ Bytes(t)' = IF p = "inline" THEN 0 ELSE Size[t]
  BY <1>0, <1>1 DEF Charged, Bytes
<1>2. ASSUME UNCHANGED <<phase, serving, budget>> PROVE BudgetExact' /\ Counted'
  BY <1>0, <1>2 DEF BudgetExact, Charged, Copies, Bytes, budget, Counted
<1>3. ASSUME NEW t \in Tasks, NEW p \in Phase \ {"new", "over"}, phase' = [phase EXCEPT ![t] = p],
             phase[t] \notin {"new", "over"}, phase[t] = "inline" <=> p = "inline",
             UNCHANGED <<serving, budget>>
      PROVE  BudgetExact' /\ Counted'
  BY <1>0, <1>1, <1>3, ChargeKeeps DEF budget
<1>4. ASSUME NEW t \in Tasks, phase' = [phase EXCEPT ![t] = "over"],
             phase[t] \notin {"new", "over"}, UNCHANGED serving,
             ReleaseJobBytes(IF phase[t] = "inline" THEN 0 ELSE Size[t])
      PROVE  BudgetExact' /\ Counted'
  <2>1. "over" \in Phase
    BY DEF Phase
  <2>2. QED
    BY <1>0, <1>1, <1>4, <2>1, ChargeKeeps DEF ReleaseJobBytes
<1>5. ASSUME NEW t \in Tasks, Call(t) PROVE BudgetExact' /\ Counted'
  <2>1. phase[t] = "new" /\ UNCHANGED serving /\ {"over", "inline", "reserved"} \subseteq Phase
    BY <1>5 DEF Call, CallInline, CallPooled, MayCall, Phase
  <2>2. \/ phase' = [phase EXCEPT ![t] = "over"] /\ UNCHANGED budget
        \/ phase' = [phase EXCEPT ![t] = "inline"] /\ AcquireJobBytes(0)
        \/ phase' = [phase EXCEPT ![t] = "reserved"] /\ AcquireJobBytes(Size[t])
    BY <1>5 DEF Call, CallInline, CallPooled, Refuse, Moves
  <2>3. CASE phase' = [phase EXCEPT ![t] = "over"] /\ UNCHANGED budget
    BY <1>0, <1>1, <2>1, <2>3, ChargeKeeps DEF budget
  <2>4. CASE phase' = [phase EXCEPT ![t] = "inline"] /\ AcquireJobBytes(0)
    BY <1>0, <1>1, <2>1, <2>4, ChargeKeeps DEF AcquireJobBytes
  <2>5. CASE phase' = [phase EXCEPT ![t] = "reserved"] /\ AcquireJobBytes(Size[t])
    BY <1>0, <1>1, <2>1, <2>5, ChargeKeeps DEF AcquireJobBytes
  <2>6. QED
    BY <2>2, <2>3, <2>4, <2>5
<1>6. ASSUME NEW t \in Tasks, Push(t) PROVE BudgetExact' /\ Counted'
  <2>1. CASE FreeFailedCall(t)
    BY <1>4, <2>1 DEF FreeFailedCall, Moves
  <2>2. CASE OutOfMemory(t) \/ PushEnter(t) \/ Spawn(t) \/ PushLeave(t)
    <3>1. phase[t] \in {"reserved", "pushing"} /\ UNCHANGED <<serving, budget>>
      BY <2>2 DEF OutOfMemory, PushEnter, Spawn, PushLeave
    <3>2. UNCHANGED phase \/ \E p \in {"freeing", "pushing", "queued"} : phase' = [phase EXCEPT ![t] = p]
      BY <2>2 DEF OutOfMemory, PushEnter, Spawn, PushLeave, FailCall, Moves
    <3>3. {"freeing", "pushing", "queued"} \subseteq Phase \ {"new", "over"}
      BY DEF Phase
    <3>4. QED
      BY <1>2, <1>3, <3>1, <3>2, <3>3
  <2>3. QED
    BY <1>6, <2>1, <2>2 DEF Push
<1>7. ASSUME NEW t \in Tasks, NEW ok \in BOOLEAN, Attempt(t, ok) PROVE BudgetExact' /\ Counted'
  <2>1. phase[t] \in {"running", "inline"} /\ UNCHANGED serving /\ "freeing" \in Phase \ {"new", "over"}
    BY <1>7 DEF Attempt, Phase
  <2>2. \/ UNCHANGED <<phase, budget>>
        \/ phase[t] = "inline" /\ phase' = [phase EXCEPT ![t] = "over"] /\ ReleaseJobBytes(0)
        \/ phase[t] # "inline" /\ phase' = [phase EXCEPT ![t] = "freeing"] /\ UNCHANGED budget
    BY <1>7 DEF Attempt, Moves
  <2>3. QED
    BY <1>2, <1>3, <1>4, <2>1, <2>2
<1>8. ASSUME NEW w \in Threads, Work(w) PROVE BudgetExact' /\ Counted'
  <2>1. CASE IdleOrExit(w) \/ (Take(w) /\ ring = <<>>)
    BY <1>2, <2>1 DEF IdleOrExit, Take
  <2>2. CASE Take(w) /\ ring # <<>>
    <3>1. Head(ring) \in Tasks /\ phase[Head(ring)] = "queued"
      BY <2>2, HeadLeaves
    <3>2. phase' = [phase EXCEPT ![Head(ring)] = "running"] /\ UNCHANGED <<serving, budget>>
      BY <2>2 DEF Take, Moves
    <3>3. "running" \in Phase \ {"new", "over"}
      BY DEF Phase
    <3>4. QED
      BY <1>3, <3>1, <3>2, <3>3
  <2>3. CASE Destroy(w)
    BY <1>4, <2>3 DEF Destroy, Moves
  <2>4. QED
    BY <1>8, <2>1, <2>2, <2>3 DEF Work
<1>9. CASE Stop
  <2>1. CASE StopSignal \/ StopLock \/ StopJoin \/ (StopDrain /\ ring = <<>>)
    BY <1>2, <2>1 DEF StopSignal, StopLock, StopJoin, StopDrain, StopRest
  <2>2. CASE StopDrain /\ ring # <<>>
    <3>1. Head(ring) \in Tasks /\ phase[Head(ring)] = "queued"
      BY <2>2, HeadLeaves
    <3>2. /\ phase' = [phase EXCEPT ![Head(ring)] = "over"] /\ UNCHANGED serving
          /\ ReleaseJobBytes(Size[Head(ring)])
      BY <2>2 DEF StopDrain, Moves
    <3>3. QED
      BY <1>4, <3>1, <3>2
  <2>3. QED
    BY <1>9, <2>1, <2>2 DEF Stop
<1>10. ASSUME NEW r \in Requests, RequestStart(r) \/ RequestEnd(r) PROVE BudgetExact' /\ Counted'
  <2>1. UNCHANGED <<phase, jobs, job_bytes>>
    BY <1>10 DEF RequestStart, RequestEnd, Acquire, Release
  <2>2. Charged' = Charged /\ Copies' = Copies
    BY <2>1 DEF Charged, Copies, Bytes
  <2>3. CASE RequestStart(r)
    <3>1. r \notin serving /\ serving' = serving \cup {r} /\ active' = active + 1
      BY <2>3 DEF RequestStart, Acquire
    <3>2. Cardinality(serving') = Cardinality(serving) + 1
      BY <1>0, <3>1, FS_AddElement
    <3>3. active # MaxRequests /\ active + jobs < MaxWork
      BY <1>0, <2>3, AdmissionAssumption DEF RequestStart, Acquire, CanAcquire, WorkFull, Counted
    <3>4. QED
      BY <1>0, <2>1, <2>2, <3>1, <3>2, <3>3, AdmissionAssumption DEF BudgetExact, Counted
  <2>4. CASE RequestEnd(r)
    <3>1. r \in serving /\ serving' = serving \ {r} /\ active' = active - 1
      BY <2>4 DEF RequestEnd, Release
    <3>2. Cardinality(serving') = Cardinality(serving) - 1 /\ Cardinality(serving') \in Nat
      BY <1>0, <3>1, FS_RemoveElement, FS_CardinalityType
    <3>3. QED
      BY <1>0, <2>1, <2>2, <3>1, <3>2, AdmissionAssumption DEF BudgetExact, Counted
  <2>5. QED
    BY <1>10, <2>3, <2>4
<1>11. CASE UNCHANGED vars
  BY <1>2, <1>11 DEF vars, poolVars
<1>12. QED
  BY <1>5, <1>6, <1>7, <1>8, <1>9, <1>10, <1>11 DEF Next, Run

\* Init establishes both.
LEMMA PoolInitial == Init => PoolInv /\ BudgetExact
<1> SUFFICES ASSUME Init PROVE PoolInv /\ BudgetExact
  OBVIOUS
<1>1. TypeOK
  <2>1. 0 \in 0..MaxAttempts /\ Capacity \in Nat
    BY PoolAssumption
  <2>2. ring \in Seq(Tasks) /\ Len(ring) = 0
    BY DEF Init
  <2>3. phase \in [Tasks -> Phase] /\ outcome \in [Tasks -> Outcome] /\ thread \in [Threads -> ThreadState]
    BY DEF Init, Phase, Outcome, ThreadState
  <2>4. attempts \in [Tasks -> 0..MaxAttempts]
    BY <2>1 DEF Init
  <2>5. Len(ring) <= Capacity
    BY <2>1, <2>2
  <2>6. active \in Nat /\ jobs \in Nat /\ job_bytes \in Nat
    BY DEF Init, BudgetInit
  <2>7. QED
    BY <2>2, <2>3, <2>4, <2>5, <2>6 DEF Init, TypeOK
<1>2. AttemptsLeft
  BY LimitType DEF Init, AttemptsLeft
<1>3. Ringed /\ Pushing /\ Lifetime
  BY PoolAssumption DEF Init, Ringed, Pushing, Lifetime
<1>4. Threaded
  BY PoolAssumption DEF Init, Threaded
<1>5. Nested
  BY DEF Init, Nested, NestedPushRuns
<1>6. Charged = {} /\ Copies = {} /\ serving = {}
  BY DEF Init, Charged, Copies
<1>7. BudgetExact
  BY <1>6, FS_EmptySet, AdmissionAssumption DEF Init, BudgetInit, BudgetExact
<1>8. QED
  BY <1>1, <1>2, <1>3, <1>4, <1>5, <1>7 DEF PoolInv

\* Both are inductive.
LEMMA PoolStep == PoolInv /\ BudgetExact /\ [Next]_vars => PoolInv' /\ BudgetExact'
<1> SUFFICES ASSUME PoolInv, BudgetExact, [Next]_vars PROVE PoolInv' /\ BudgetExact'
  OBVIOUS
<1>1. BudgetExact' /\ Counted'
  BY BudgetStep
<1>2. ASSUME NEW t \in Tasks, Call(t) \/ Push(t) \/ Run(t) PROVE PoolInv'
  BY <1>1, <1>2, CallKeeps, MutexKeeps, SpawnKeeps, LeaveKeeps, AttemptKeeps DEF Push, Run
<1>3. ASSUME NEW w \in Threads, Work(w) PROVE PoolInv'
  BY <1>1, <1>3, TakeKeeps, IdleKeeps, DestroyKeeps DEF Work
<1>4. ASSUME NEW r \in Requests, RequestStart(r) \/ RequestEnd(r) PROVE PoolInv'
  <2>1. /\ UNCHANGED <<phase, outcome, attempts, ring, lock, thread, started, shutdown, installed,
                       stop, promised>>
        /\ serving' \subseteq Requests
    BY <1>4 DEF RequestStart, RequestEnd, PoolInv, TypeOK
  <2>2. TypeOK' /\ AttemptsLeft' /\ Ringed' /\ Threaded'
    BY <1>1, <2>1 DEF PoolInv, TypeOK, Counted, AttemptsLeft, Limit, Ringed, Threaded
  <2>3. Pushing' /\ Lifetime' /\ Nested'
    BY <2>1 DEF PoolInv, Pushing, Lifetime, Nested, Looking, NestedPushRuns
  <2>4. QED
    BY <2>2, <2>3 DEF PoolInv
<1>5. CASE UNCHANGED vars
  BY <1>1, <1>5
     DEF vars, poolVars, PoolInv, TypeOK, Counted, AttemptsLeft, Limit, Ringed, Threaded, Pushing,
         Lifetime, Nested, Looking, NestedPushRuns
<1>6. QED
  BY <1>1, <1>2, <1>3, <1>4, <1>5, StopKeeps DEF Next

\* The budget is exactly what is charged to it, a pool that was stopped has no thread
\* and no task, and what a handler pushed is never dropped.
THEOREM PoolIsSound == Spec => []PoolSound
<1>1. PoolInv /\ BudgetExact => PoolSound
  <2> SUFFICES ASSUME PoolInv, BudgetExact PROVE PoolSound
    OBVIOUS
  <2>1. StoppedIsQuiet
    BY PoolAssumption DEF PoolInv, TypeOK, Lifetime, Ringed, Threaded, StoppedIsQuiet
  <2>2. QED
    BY <2>1 DEF PoolInv, Nested, PoolSound
<1>2. QED
  BY <1>1, PoolInitial, PoolStep, PTL DEF Spec

--------------------------------------------------------------------------------
\* A worker that runs has a job; a job in the ring is there once, marked, and
\* runs nowhere; a job that runs is marked, on one worker; and no mark is
\* without one of the two.
OnWorker == \A w \in Workers : worker[w] = "run" <=> job[w] # NoJob
InRing ==
  /\ \A i, k \in DOMAIN queue : queue[i] = queue[k] => i = k
  /\ \A i \in DOMAIN queue : status[queue[i]] = "running"
  /\ \A i \in DOMAIN queue, w \in Workers : job[w] # queue[i]
Alone ==
  /\ \A w \in Workers : job[w] # NoJob => status[job[w]] = "running"
  /\ \A w, v \in Workers : job[w] # NoJob /\ job[w] = job[v] => w = v
NotForgotten ==
  \A j \in J : status[j] = "running" =>
    (\E i \in DOMAIN queue : queue[i] = j) \/ (\E w \in Workers : job[w] = j)

FlightInv == SchedulerTypeOK /\ OnWorker /\ InRing /\ Alone /\ NotForgotten

\* The table has as many entries as jobs.
LEMMA TableOfJobs ==
  /\ Jobs \in Seq(J) /\ IsFiniteSet(J) /\ Cardinality(J) <= Len(Jobs)
  /\ \A i, k \in DOMAIN Jobs : Jobs[i] = Jobs[k] => i = k
<1>1. Jobs \in Seq(J) /\ \A i, k \in DOMAIN Jobs : Jobs[i] = Jobs[k] => i = k
  BY SchedulerAssumption DEF IsInjective
<1>2. Len(Jobs) \in Nat /\ DOMAIN Jobs = 1..Len(Jobs) /\ Jobs \in [1..Len(Jobs) -> J]
  BY <1>1
<1>3. ExistsSurjection(1..Len(Jobs), J)
  <2>1. Jobs \in Surjection(1..Len(Jobs), J)
    BY <1>2 DEF J, ToSet, Surjection
  <2>2. QED
    BY <2>1 DEF ExistsSurjection
<1>4. Cardinality(J) <= Len(Jobs)
  BY <1>2, <1>3, FS_SurjCardinalityBound
<1>5. IsFiniteSet(1..Len(Jobs))
  BY <1>2, 1 \in Int, FS_Interval
<1>6. IsFiniteSet(J)
  BY <1>3, <1>5, FS_Surjection DEF ExistsSurjection
<1>7. QED
  BY <1>1, <1>4, <1>6

\* A sequence of jobs without repetition is no longer than the table.
LEMMA RingRoom ==
  ASSUME NEW q \in Seq(J), \A i, k \in DOMAIN q : q[i] = q[k] => i = k
  PROVE  Len(q) <= Len(Jobs)
<1>1. Len(q) \in Nat /\ DOMAIN q = 1..Len(q) /\ q \in [1..Len(q) -> J]
  OBVIOUS
<1>2. q \in Injection(1..Len(q), J)
  BY <1>1 DEF Injection, IsInjective
<1>3. Cardinality(1..Len(q)) <= Cardinality(J) /\ IsFiniteSet(J)
  BY <1>2, TableOfJobs, FS_Injection
<1>4. Cardinality(1..Len(q)) = Len(q)
  BY <1>1, 1 \in Int, FS_Interval
<1>5. Cardinality(J) \in Nat /\ Len(Jobs) \in Nat
  BY <1>3, TableOfJobs, FS_CardinalityType
<1>6. QED
  BY <1>1, <1>3, <1>4, <1>5, TableOfJobs

\* The ranks of the fired entries are 1 to their number, each once.
LEMMA Ranks ==
  /\ Cardinality(First) \in Nat
  /\ \A n \in 1..Cardinality(First) : \E i \in First : Rank(i) = n
<1> DEFINE N == Cardinality(First)
           r == [i \in First |-> Rank(i)]
<1>1. First \subseteq 1..Len(Jobs) /\ Len(Jobs) \in Nat
  BY TableOfJobs DEF First
<1>2. IsFiniteSet(First) /\ N \in Nat
  <2>1. IsFiniteSet(1..Len(Jobs))
    BY <1>1, 1 \in Int, Len(Jobs) \in Int, FS_Interval
  <2>2. IsFiniteSet(First)
    BY <1>1, <2>1, FS_Subset
  <2>3. QED
    BY <2>2, FS_CardinalityType
<1>3. ASSUME NEW i \in First PROVE Rank(i) \in 1..N
  <2> DEFINE upto == {k \in First : k <= i}
  <2>1. IsFiniteSet(upto) /\ Cardinality(upto) <= N /\ Cardinality(upto) \in Nat
    BY <1>2, FS_Subset, FS_CardinalityType, upto \subseteq First
  <2>2. i \in upto
    BY <1>1, <1>3
  <2>3. Cardinality(upto) # 0
    BY <2>1, <2>2, FS_EmptySet
  <2>4. Rank(i) = Cardinality(upto)
    BY DEF Rank
  <2> HIDE DEF upto, N
  <2>5. QED
    BY <1>2, <2>1, <2>3, <2>4
<1>4. ASSUME NEW i \in First, NEW k \in First, i < k PROVE Rank(i) # Rank(k)
  <2> DEFINE upto(x) == {y \in First : y <= x}
  <2>1. IsFiniteSet(upto(k))
    BY <1>2, FS_Subset, upto(k) \subseteq First
  <2>2. upto(i) \subseteq upto(k) /\ k \in upto(k) /\ k \notin upto(i)
    <3>1. \A y \in First : y \in Int
      BY <1>1
    <3>2. \A y \in First : y <= i => y <= k
      BY <3>1, <1>4
    <3>3. k <= k /\ ~(k <= i)
      BY <3>1, <1>4
    <3>4. QED
      BY <3>2, <3>3
  <2>3. Cardinality(upto(i)) < Cardinality(upto(k))
    <3>1. upto(i) # upto(k)
      BY <2>2
    <3>2. Cardinality(upto(i)) <= Cardinality(upto(k)) /\ Cardinality(upto(i)) # Cardinality(upto(k))
      BY <2>1, <2>2, <3>1, FS_Subset
    <3>3. Cardinality(upto(i)) \in Nat /\ Cardinality(upto(k)) \in Nat
      BY <2>1, <2>2, FS_Subset, FS_CardinalityType
    <3>4. QED
      BY <3>2, <3>3
  <2>4. Rank(i) = Cardinality(upto(i)) /\ Rank(k) = Cardinality(upto(k))
    BY DEF Rank
  <2>5. Cardinality(upto(i)) # Cardinality(upto(k))
    BY <2>1, <2>2, FS_Subset
  <2>6. QED
    BY <2>4, <2>5
<1>5. r \in Injection(First, 1..N)
  <2>1. r \in [First -> 1..N]
    BY <1>3
  <2>2. \A i, k \in First : r[i] = r[k] => i = k
    <3>1. SUFFICES ASSUME NEW i \in First, NEW k \in First, i # k PROVE r[i] # r[k]
      OBVIOUS
    <3>2. i < k \/ k < i
      BY <1>1, <3>1
    <3>3. QED
      BY <1>4, <3>2
  <2>3. DOMAIN r = First
    OBVIOUS
  <2>4. IsInjective(r)
    BY <2>2, <2>3 DEF IsInjective
  <2>5. QED
    BY <2>1, <2>4 DEF Injection
<1>6. Cardinality(1..N) = N /\ IsFiniteSet(1..N)
  BY <1>2, 1 \in Int, FS_Interval
<1>7. r \in Surjection(First, 1..N)
  BY <1>5, <1>6, FS_Injection
<1>8. \A n \in 1..N : \E i \in First : r[i] = n
  BY <1>7 DEF Surjection
<1>9. QED
  BY <1>2, <1>8

\* A tick fires due jobs, none twice.
LEMMA FiredOnce ==
  /\ Fired \in Seq(J)
  /\ \A n \in DOMAIN Fired : Due(Fired[n])
  /\ \A n, m \in DOMAIN Fired : Fired[n] = Fired[m] => n = m
<1> DEFINE N == Cardinality(First)
           at(n) == CHOOSE i \in First : Rank(i) = n
<1>1. N \in Nat /\ \A n \in 1..N : at(n) \in First /\ Rank(at(n)) = n
  BY Ranks
<1>2. \A i \in First : i \in DOMAIN Jobs /\ Due(Jobs[i]) /\ Jobs[i] \in J
  BY TableOfJobs DEF First
<1>3. Fired = [n \in 1..N |-> Jobs[at(n)]]
  BY DEF Fired
<1> HIDE DEF N, at
<1>4. Fired \in [1..N -> J]
  BY <1>1, <1>2, <1>3
<1>5. Fired \in Seq(J) /\ DOMAIN Fired = 1..N
  BY <1>1, <1>4, <1>3
<1>6. \A n \in 1..N : Due(Fired[n])
  BY <1>1, <1>2, <1>3
<1>7. ASSUME NEW n \in 1..N, NEW m \in 1..N, Fired[n] = Fired[m] PROVE n = m
  <2>1. Jobs[at(n)] = Jobs[at(m)]
    BY <1>3, <1>7
  <2>2. at(n) = at(m)
    BY <1>1, <1>2, <2>1, TableOfJobs
  <2>3. QED
    BY <1>1, <2>2
<1>8. QED
  BY <1>5, <1>6, <1>7

\* What the loop, stop() and the clock do not touch stays as it is.
LEMMA QuietKeeps ==
  ASSUME FlightInv, SchedulerTypeOK', UNCHANGED <<status, queue, pool>> PROVE FlightInv'
BY DEF FlightInv, OnWorker, InRing, Alone, NotForgotten, pool

\* The flag, and the progress of stop(), touch no job.
LEMMA FlagKeeps ==
  ASSUME FlightInv, LoopCheck \/ StopRaise \/ StopJoinTicker \/ StopJoinWorkers
  PROVE  FlightInv'
<1>1. SchedulerTypeOK'
  <2>0. SchedulerTypeOK
    BY DEF FlightInv
  <2>1. CASE LoopCheck
    BY <2>0, <2>1 DEF SchedulerTypeOK, LoopCheck, table, pool
  <2>2. CASE StopRaise
    BY <2>0, <2>2 DEF SchedulerTypeOK, StopRaise, table, pool
  <2>3. CASE StopJoinTicker
    BY <2>0, <2>3 DEF SchedulerTypeOK, StopJoinTicker, table, pool
  <2>4. CASE StopJoinWorkers
    BY <2>0, <2>4 DEF SchedulerTypeOK, StopJoinWorkers, table, pool
  <2>5. QED
    BY <2>1, <2>2, <2>3, <2>4
<1>2. UNCHANGED <<status, queue, pool>>
  BY DEF LoopCheck, StopRaise, StopJoinTicker, StopJoinWorkers, table
<1>3. QED
  BY <1>1, <1>2, QuietKeeps

\* A second brings every job nearer to its fire.
LEMMA SecondKeeps == ASSUME FlightInv, Second PROVE FlightInv'
<1>1. SchedulerTypeOK
  BY DEF FlightInv
<1>2. wait' \in [J -> 0..MaxWait]
  <2>1. \A j \in J : wait[j] \in 0..MaxWait
    BY <1>1 DEF SchedulerTypeOK
  <2>2. \A j \in J : (IF wait[j] > 0 THEN wait[j] - 1 ELSE 0) \in 0..MaxWait
    BY <2>1, SchedulerAssumption
  <2>3. QED
    BY <2>2 DEF Second
<1>3. UNCHANGED <<status, failures, queue, stopping, loop, pool, stopper>>
  BY DEF Second
<1>4. SchedulerTypeOK'
  BY <1>1, <1>2, <1>3 DEF SchedulerTypeOK, pool
<1>5. QED
  BY <1>3, <1>4, QuietKeeps

\* All that a tick fires fits in the ring, behind what is there.
LEMMA RingTakesAll ==
  ASSUME FlightInv, LoopTick
  PROVE  /\ queue' = queue \o Fired /\ queue' \in Seq(J) /\ Len(queue') <= Len(Jobs)
         /\ \A i, k \in DOMAIN queue' : queue'[i] = queue'[k] => i = k
<1> DEFINE all == queue \o Fired
<1>0. /\ queue \in Seq(J) /\ Fired \in Seq(J)
      /\ \A i, k \in DOMAIN queue : queue[i] = queue[k] => i = k
      /\ \A n, m \in DOMAIN Fired : Fired[n] = Fired[m] => n = m
      /\ \A i \in DOMAIN queue : status[queue[i]] = "running"
      /\ \A n \in DOMAIN Fired : status[Fired[n]] = "idle"
  BY FiredOnce DEF FlightInv, SchedulerTypeOK, InRing, Due
<1>1. /\ all \in Seq(J) /\ Len(all) = Len(queue) + Len(Fired)
      /\ Len(queue) \in Nat /\ Len(Fired) \in Nat
      /\ \A i \in 1..Len(all) : all[i] = IF i <= Len(queue) THEN queue[i] ELSE Fired[i - Len(queue)]
  BY <1>0
<1>2. \A i, k \in DOMAIN all : all[i] = all[k] => i = k
  <2>1. SUFFICES ASSUME NEW i \in 1..Len(all), NEW k \in 1..Len(all), all[i] = all[k] PROVE i = k
    BY <1>1
  <2>2. /\ i <= Len(queue) => i \in DOMAIN queue
        /\ k <= Len(queue) => k \in DOMAIN queue
        /\ ~(i <= Len(queue)) => i - Len(queue) \in DOMAIN Fired
        /\ ~(k <= Len(queue)) => k - Len(queue) \in DOMAIN Fired
    BY <1>0, <1>1
  <2>3. CASE i <= Len(queue) /\ k <= Len(queue)
    BY <1>0, <1>1, <2>1, <2>2, <2>3
  <2>4. CASE i <= Len(queue) /\ ~(k <= Len(queue))
    BY <1>0, <1>1, <2>1, <2>2, <2>4
  <2>5. CASE ~(i <= Len(queue)) /\ k <= Len(queue)
    BY <1>0, <1>1, <2>1, <2>2, <2>5
  <2>6. CASE ~(i <= Len(queue)) /\ ~(k <= Len(queue))
    <3>1. i - Len(queue) = k - Len(queue)
      BY <1>0, <1>1, <2>1, <2>2, <2>6
    <3>2. QED
      BY <3>1, <1>1
  <2>7. QED
    BY <2>3, <2>4, <2>5, <2>6
<1>3. Len(all) <= Len(Jobs)
  BY <1>1, <1>2, RingRoom
<1>4. queue' = SubSeq(all, 1, IF Len(all) < Len(Jobs) THEN Len(all) ELSE Len(Jobs))
  BY DEF LoopTick, Enqueue
<1>5. Len(Jobs) \in Nat
  BY TableOfJobs
<1> HIDE DEF all
<1>6. queue' = SubSeq(all, 1, Len(all))
  BY <1>1, <1>3, <1>4, <1>5
<1>7. SubSeq(all, 1, Len(all)) = all
  BY <1>1
<1>8. queue' = all
  BY <1>6, <1>7
<1>9. QED
  BY <1>1, <1>2, <1>3, <1>8 DEF all

\* A tick marks what it puts in the ring.
LEMMA TickKeeps == ASSUME FlightInv, LoopTick PROVE FlightInv'
<1>0. SchedulerTypeOK /\ OnWorker /\ InRing /\ Alone /\ NotForgotten
  BY DEF FlightInv
<1>1. /\ status' = [j \in J |-> IF j \in ToSet(Fired) THEN "running" ELSE status[j]]
      /\ loop' = "check" /\ UNCHANGED <<wait, failures, stopping, worker, job, stopper>>
  BY DEF LoopTick, Mark, pool
<1>2. /\ queue' = queue \o Fired /\ queue' \in Seq(J) /\ Len(queue') <= Len(Jobs)
      /\ \A i, k \in DOMAIN queue' : queue'[i] = queue'[k] => i = k
  BY RingTakesAll
<1>3. SchedulerTypeOK'
  BY <1>0, <1>1, <1>2 DEF SchedulerTypeOK
<1>4. queue \in Seq(J) /\ Fired \in Seq(J) /\ \A n \in DOMAIN Fired : status[Fired[n]] = "idle"
  BY <1>0, FiredOnce DEF SchedulerTypeOK, Due
<1>5. /\ \A i \in DOMAIN queue' : (\E k \in DOMAIN queue : queue'[i] = queue[k])
                               \/ (\E n \in DOMAIN Fired : queue'[i] = Fired[n])
      /\ \A k \in DOMAIN queue : k \in DOMAIN queue' /\ queue'[k] = queue[k]
      /\ \A n \in DOMAIN Fired : Len(queue) + n \in DOMAIN queue' /\ queue'[Len(queue) + n] = Fired[n]
  <2>1. /\ Len(queue') = Len(queue) + Len(Fired)
        /\ Len(queue) \in Nat /\ Len(Fired) \in Nat
        /\ DOMAIN queue = 1..Len(queue) /\ DOMAIN Fired = 1..Len(Fired) /\ DOMAIN queue' = 1..Len(queue')
        /\ \A i \in 1..Len(queue') : queue'[i] = IF i <= Len(queue) THEN queue[i] ELSE Fired[i - Len(queue)]
    BY <1>2, <1>4
  <2>2. ASSUME NEW i \in DOMAIN queue'
        PROVE  (\E k \in DOMAIN queue : queue'[i] = queue[k]) \/ (\E n \in DOMAIN Fired : queue'[i] = Fired[n])
    <3>1. CASE i <= Len(queue)
      <4>1. i \in DOMAIN queue /\ queue'[i] = queue[i]
        BY <2>1, <3>1
      <4>2. QED
        BY <4>1
    <3>2. CASE ~(i <= Len(queue))
      <4>1. i - Len(queue) \in DOMAIN Fired /\ queue'[i] = Fired[i - Len(queue)]
        BY <2>1, <3>2
      <4>2. QED
        BY <4>1
    <3>3. QED
      BY <3>1, <3>2
  <2>3. \A k \in DOMAIN queue : k \in DOMAIN queue' /\ queue'[k] = queue[k]
    BY <2>1
  <2>4. \A n \in DOMAIN Fired : Len(queue) + n \in DOMAIN queue' /\ queue'[Len(queue) + n] = Fired[n]
    <3>1. SUFFICES ASSUME NEW n \in 1..Len(Fired)
          PROVE Len(queue) + n \in 1..Len(queue') /\ queue'[Len(queue) + n] = Fired[n]
      BY <2>1
    <3>2. Len(queue) + n \in 1..Len(queue') /\ ~(Len(queue) + n <= Len(queue)) /\ (Len(queue) + n) - Len(queue) = n
      BY <2>1
    <3>3. QED
      BY <2>1, <3>2
  <2>5. QED
    BY <2>2, <2>3, <2>4
<1>6. \A j \in J : j \in ToSet(Fired) <=> \E n \in DOMAIN Fired : Fired[n] = j
  BY DEF ToSet
<1>7. \A w \in Workers : job[w] \in J \cup {NoJob}
  BY <1>0 DEF SchedulerTypeOK
<1>8. \A n \in DOMAIN Fired : Fired[n] \in J /\ status'[Fired[n]] = "running" /\ \A w \in Workers : job[w] # Fired[n]
  <2>1. SUFFICES ASSUME NEW n \in DOMAIN Fired
        PROVE Fired[n] \in J /\ status'[Fired[n]] = "running" /\ \A w \in Workers : job[w] # Fired[n]
    OBVIOUS
  <2>2. Fired[n] \in J
    BY <1>4
  <2>3. status'[Fired[n]] = "running"
    BY <1>1, <1>6, <2>2
  <2>4. \A w \in Workers : job[w] # Fired[n]
    BY <1>0, <1>4, <1>7, <2>2, SchedulerAssumption DEF Alone
  <2>5. QED
    BY <2>2, <2>3, <2>4
<1>9. \A j \in J : status[j] = "running" => status'[j] = "running"
  BY <1>1
<1>10. InRing'
  <2>1. \A k \in DOMAIN queue : queue[k] \in J /\ status[queue[k]] = "running" /\ \A w \in Workers : job[w] # queue[k]
    BY <1>0, <1>4 DEF InRing
  <2>2. \A i \in DOMAIN queue' : status'[queue'[i]] = "running" /\ \A w \in Workers : job'[w] # queue'[i]
    <3>1. SUFFICES ASSUME NEW i \in DOMAIN queue'
          PROVE  status'[queue'[i]] = "running" /\ \A w \in Workers : job[w] # queue'[i]
      BY <1>1
    <3>2. CASE \E k \in DOMAIN queue : queue'[i] = queue[k]
      BY <1>9, <2>1, <3>2
    <3>3. CASE \E n \in DOMAIN Fired : queue'[i] = Fired[n]
      BY <1>8, <3>3
    <3>4. QED
      BY <1>5, <3>2, <3>3
  <2>3. QED
    BY <1>2, <2>2 DEF InRing
<1>11. Alone'
  BY <1>0, <1>1, <1>7, <1>9 DEF Alone
<1>12. NotForgotten'
  <2>1. SUFFICES ASSUME NEW j \in J, status'[j] = "running"
        PROVE (\E i \in DOMAIN queue' : queue'[i] = j) \/ (\E w \in Workers : job'[w] = j)
    BY DEF NotForgotten
  <2>2. CASE j \in ToSet(Fired)
    BY <1>5, <1>6, <2>2
  <2>3. CASE j \notin ToSet(Fired)
    <3>1. status[j] = "running"
      BY <1>1, <2>1, <2>3
    <3>2. (\E i \in DOMAIN queue : queue[i] = j) \/ (\E w \in Workers : job[w] = j)
      BY <1>0, <3>1 DEF NotForgotten
    <3>3. QED
      BY <1>1, <1>5, <3>2
  <2>4. QED
    BY <2>2, <2>3
<1>13. OnWorker'
  BY <1>0, <1>1 DEF OnWorker
<1>14. QED
  BY <1>3, <1>10, <1>11, <1>12, <1>13 DEF FlightInv

\* The oldest job leaves the ring for the worker.
LEMMA DequeueKeeps == ASSUME FlightInv, NEW w \in Workers, Dequeue(w) PROVE FlightInv'
<1>0. SchedulerTypeOK /\ OnWorker /\ InRing /\ Alone /\ NotForgotten
  BY DEF FlightInv
<1>1. /\ worker[w] = "poll" /\ queue # <<>> /\ queue' = Tail(queue)
      /\ job' = [job EXCEPT ![w] = Head(queue)] /\ worker' = [worker EXCEPT ![w] = "run"]
      /\ UNCHANGED <<status, wait, failures, stopping, loop, stopper>>
  BY DEF Dequeue, Goes, table
<1>2. queue \in Seq(J) /\ job \in [Workers -> J \cup {NoJob}] /\ Len(queue) <= Len(Jobs)
      /\ worker \in [Workers -> {"poll", "empty", "run", "exit"}]
  BY <1>0 DEF SchedulerTypeOK
<1>3. /\ queue' \in Seq(J) /\ Len(queue') = Len(queue) - 1 /\ Len(queue) \in Nat /\ Len(queue) >= 1
      /\ DOMAIN queue = 1..Len(queue) /\ DOMAIN queue' = 1..Len(queue')
      /\ \A i \in 1..Len(queue') : queue'[i] = queue[i + 1]
      /\ Head(queue) = queue[1] /\ 1 \in DOMAIN queue
  BY <1>1, <1>2
<1>4. /\ \A i \in DOMAIN queue' : i + 1 \in DOMAIN queue /\ i + 1 # 1 /\ queue'[i] = queue[i + 1]
      /\ \A k \in DOMAIN queue : k # 1 => k - 1 \in DOMAIN queue' /\ queue'[k - 1] = queue[k]
  <2>1. \A i \in DOMAIN queue' : i + 1 \in DOMAIN queue /\ i + 1 # 1 /\ queue'[i] = queue[i + 1]
    BY <1>3
  <2>2. \A k \in DOMAIN queue : k # 1 => k - 1 \in DOMAIN queue' /\ queue'[k - 1] = queue[k]
    <3>1. SUFFICES ASSUME NEW k \in DOMAIN queue, k # 1
          PROVE k - 1 \in DOMAIN queue' /\ queue'[k - 1] = queue[k]
      OBVIOUS
    <3>2. k - 1 \in 1..Len(queue') /\ (k - 1) + 1 = k
      BY <1>3, <3>1
    <3>3. QED
      BY <1>3, <3>2
  <2>3. QED
    BY <2>1, <2>2
<1>5. job[w] = NoJob /\ queue[1] \in J /\ queue[1] # NoJob /\ status[queue[1]] = "running"
      /\ \A v \in Workers : job[v] # queue[1]
  BY <1>0, <1>1, <1>2, <1>3, SchedulerAssumption DEF OnWorker, InRing
<1>6. job'[w] = queue[1] /\ \A v \in Workers : v # w => job'[v] = job[v]
  BY <1>1, <1>2, <1>3
<1>7. SchedulerTypeOK'
  <2>1. job' \in [Workers -> J \cup {NoJob}] /\ worker' \in [Workers -> {"poll", "empty", "run", "exit"}]
    BY <1>1, <1>2, <1>3, <1>5
  <2>2. Len(queue') <= Len(Jobs)
    BY <1>2, <1>3, TableOfJobs
  <2>3. QED
    BY <1>0, <1>1, <1>3, <2>1, <2>2 DEF SchedulerTypeOK
<1>8. OnWorker'
  BY <1>0, <1>1, <1>2, <1>5, <1>6 DEF OnWorker
<1>9. InRing'
  <2>1. \A i, k \in DOMAIN queue' : queue'[i] = queue'[k] => i = k
    <3>1. SUFFICES ASSUME NEW i \in DOMAIN queue', NEW k \in DOMAIN queue', queue'[i] = queue'[k] PROVE i = k
      OBVIOUS
    <3>2. i + 1 = k + 1
      BY <1>0, <1>4, <3>1 DEF InRing
    <3>3. QED
      BY <1>3, <3>2
  <2>2. \A i \in DOMAIN queue' : status'[queue'[i]] = "running"
    BY <1>0, <1>1, <1>4 DEF InRing
  <2>3. \A i \in DOMAIN queue' : queue'[i] # queue[1]
    BY <1>0, <1>3, <1>4 DEF InRing
  <2>4. \A i \in DOMAIN queue', v \in Workers : job'[v] # queue'[i]
    BY <1>0, <1>4, <1>6, <2>3 DEF InRing
  <2>5. QED
    BY <2>1, <2>2, <2>4 DEF InRing
<1>10. Alone'
  BY <1>0, <1>1, <1>5, <1>6 DEF Alone
<1>11. NotForgotten'
  <2>1. SUFFICES ASSUME NEW j \in J, status[j] = "running"
        PROVE (\E i \in DOMAIN queue' : queue'[i] = j) \/ (\E v \in Workers : job'[v] = j)
    BY <1>1 DEF NotForgotten
  <2>2. CASE \E i \in DOMAIN queue : queue[i] = j
    <3>1. PICK i \in DOMAIN queue : queue[i] = j
      BY <2>2
    <3>2. CASE i = 1
      BY <1>6, <3>1, <3>2
    <3>3. CASE i # 1
      BY <1>4, <3>1, <3>3
    <3>4. QED
      BY <3>2, <3>3
  <2>3. CASE \E v \in Workers : job[v] = j
    BY <1>5, <1>6, <2>3, SchedulerAssumption
  <2>4. QED
    BY <1>0, <2>1, <2>2, <2>3 DEF NotForgotten
<1>12. QED
  BY <1>7, <1>8, <1>9, <1>10, <1>11 DEF FlightInv

\* A worker without a job moves without touching any.
LEMMA WaitKeeps ==
  ASSUME FlightInv, NEW w \in Workers, FoundEmpty(w) \/ ExitOrSleep(w) PROVE FlightInv'
<1>0. SchedulerTypeOK /\ OnWorker /\ InRing /\ Alone /\ NotForgotten
  BY DEF FlightInv
<1>1. PICK to \in {"empty", "exit", "poll"} : worker' = [worker EXCEPT ![w] = to]
  BY DEF FoundEmpty, ExitOrSleep, Goes
<1>2. worker[w] # "run" /\ UNCHANGED <<status, wait, failures, queue, stopping, loop, job, stopper>>
  BY DEF FoundEmpty, ExitOrSleep, table
<1>3. worker \in [Workers -> {"poll", "empty", "run", "exit"}]
  BY <1>0 DEF SchedulerTypeOK
<1>4. SchedulerTypeOK'
  BY <1>0, <1>1, <1>2, <1>3 DEF SchedulerTypeOK
<1>5. OnWorker'
  BY <1>0, <1>1, <1>2, <1>3 DEF OnWorker
<1>6. InRing' /\ Alone' /\ NotForgotten'
  BY <1>0, <1>2 DEF InRing, Alone, NotForgotten
<1>7. QED
  BY <1>4, <1>5, <1>6 DEF FlightInv

\* No backoff is longer than its cap.
LEMMA BackoffCapped == ASSUME NEW n PROVE RetryDelay(n) \in 0..MaxWait
<1>1. BackoffCap \in 1..MaxWait /\ MaxWait \in Nat
  BY SchedulerAssumption
<1>2. 1..BackoffCap \subseteq 0..MaxWait /\ BackoffCap \in 0..MaxWait
  BY <1>1
<1>3. QED
  BY <1>2, Zenon DEF RetryDelay

\* A job that ends, either way, is unmarked and leaves its worker.
LEMMA EndKeeps ==
  ASSUME FlightInv, NEW w \in Workers, Succeed(w) \/ Fail(w) PROVE FlightInv'
<1> DEFINE j == job[w]
<1>0. SchedulerTypeOK /\ OnWorker /\ InRing /\ Alone /\ NotForgotten
  BY DEF FlightInv
<1>1. /\ worker[w] = "run" /\ worker' = [worker EXCEPT ![w] = "poll"] /\ job' = [job EXCEPT ![w] = NoJob]
      /\ UNCHANGED <<queue, stopping, loop, stopper>>
  BY DEF Succeed, Fail, Leaves, Goes
<1>2. /\ queue \in Seq(J) /\ job \in [Workers -> J \cup {NoJob}]
      /\ worker \in [Workers -> {"poll", "empty", "run", "exit"}]
      /\ status \in [J -> {"idle", "running", "stopped"}]
      /\ wait \in [J -> 0..MaxWait] /\ failures \in [J -> 0..MaxFailures]
  BY <1>0 DEF SchedulerTypeOK
<1>3. j \in J /\ j # NoJob /\ status[j] = "running"
  BY <1>0, <1>1, <1>2 DEF OnWorker, Alone
<1>4. PICK to \in {"idle", "stopped"} : status' = [status EXCEPT ![j] = to]
  BY DEF Succeed, Fail
<1>5. wait' \in [J -> 0..MaxWait] /\ failures' \in [J -> 0..MaxFailures]
  <2>1. CASE Succeed(w)
    <3>1. failures' = [failures EXCEPT ![j] = 0] /\ 0 \in 0..MaxFailures
      BY <2>1, SchedulerAssumption DEF Succeed
    <3>2. failures' \in [J -> 0..MaxFailures]
      BY <1>2, <1>3, <3>1
    <3>3. CASE UNCHANGED wait
      BY <1>2, <3>2, <3>3
    <3>4. CASE \E d \in Delays[j] : wait' = [wait EXCEPT ![j] = IF j \in Distributed /\ d < Poll THEN Poll ELSE d]
      <4>1. PICK d \in Delays[j] : wait' = [wait EXCEPT ![j] = IF j \in Distributed /\ d < Poll THEN Poll ELSE d]
        BY <3>4
      <4>2. d \in 0..MaxWait /\ Poll \in 0..MaxWait
        BY <1>3, <4>1, SchedulerAssumption
      <4>3. QED
        BY <1>2, <1>3, <3>2, <4>1, <4>2
    <3>5. QED
      BY <2>1, <3>3, <3>4 DEF Succeed
  <2>2. CASE Fail(w)
    <3>1. PICK n : /\ n = (IF failures[j] < MaxFailures THEN failures[j] + 1 ELSE MaxFailures)
                   /\ failures' = [failures EXCEPT ![j] = n] /\ wait' = [wait EXCEPT ![j] = RetryDelay(n)]
      BY <2>2 DEF Fail
    <3>2. n \in 0..MaxFailures
      <4>1. failures[j] \in 0..MaxFailures /\ MaxFailures \in Nat
        BY <1>2, <1>3, SchedulerAssumption
      <4>2. QED
        BY <3>1, <4>1
    <3>3. RetryDelay(n) \in 0..MaxWait
      BY BackoffCapped
    <3>4. QED
      BY <1>2, <1>3, <3>1, <3>2, <3>3
  <2>3. QED
    BY <2>1, <2>2
<1>6. SchedulerTypeOK'
  <2>1. job' \in [Workers -> J \cup {NoJob}] /\ worker' \in [Workers -> {"poll", "empty", "run", "exit"}]
    BY <1>1, <1>2
  <2>2. status' \in [J -> {"idle", "running", "stopped"}]
    BY <1>2, <1>4
  <2>3. QED
    BY <1>0, <1>1, <1>5, <2>1, <2>2 DEF SchedulerTypeOK
<1>7. /\ job'[w] = NoJob /\ \A v \in Workers : v # w => job'[v] = job[v] /\ job[v] # j
      /\ \A k \in J : k # j => status'[k] = status[k]
      /\ status'[j] # "running"
  BY <1>0, <1>1, <1>2, <1>3, <1>4 DEF Alone
<1>8. \A i \in DOMAIN queue : queue[i] \in J /\ queue[i] # j
  BY <1>0, <1>2 DEF InRing
<1> HIDE DEF j
<1>9. OnWorker'
  BY <1>0, <1>1, <1>2, <1>7 DEF OnWorker
<1>10. InRing'
  <2>1. \A i \in DOMAIN queue : status'[queue[i]] = "running"
    BY <1>0, <1>7, <1>8 DEF InRing
  <2>2. \A i \in DOMAIN queue, v \in Workers : job'[v] # queue[i]
    BY <1>0, <1>2, <1>7, <1>8, SchedulerAssumption DEF InRing
  <2>3. QED
    BY <1>0, <1>1, <2>1, <2>2 DEF InRing
<1>11. Alone'
  <2>1. \A v \in Workers : job'[v] # NoJob => v # w
    BY <1>7
  <2>2. \A v \in Workers : job'[v] # NoJob => job'[v] = job[v] /\ job[v] \in J /\ job[v] # j
    BY <1>2, <1>7, <2>1
  <2>3. \A v \in Workers : job'[v] # NoJob => status'[job'[v]] = "running"
    BY <1>0, <1>7, <2>2 DEF Alone
  <2>4. \A u, v \in Workers : job'[u] # NoJob /\ job'[u] = job'[v] => u = v
    BY <1>0, <2>2 DEF Alone
  <2>5. QED
    BY <2>3, <2>4 DEF Alone
<1>12. NotForgotten'
  <2>1. SUFFICES ASSUME NEW k \in J, status'[k] = "running"
        PROVE (\E i \in DOMAIN queue : queue[i] = k) \/ (\E v \in Workers : job'[v] = k)
    BY <1>1 DEF NotForgotten
  <2>2. k # j /\ status[k] = "running"
    BY <1>7, <2>1
  <2>3. \A v \in Workers : job[v] = k => v # w
    BY <2>2 DEF j
  <2>4. QED
    BY <1>0, <1>7, <2>2, <2>3 DEF NotForgotten
<1>13. QED
  BY <1>6, <1>9, <1>10, <1>11, <1>12 DEF FlightInv

\* A set all of whose members are equal has one of them, or none.
LEMMA OneOrNone ==
  ASSUME NEW S, \A x, y \in S : x = y
  PROVE  Cardinality(S) = IF S = {} THEN 0 ELSE 1
<1>1. CASE S = {}
  BY <1>1, FS_EmptySet
<1>2. CASE S # {}
  <2>1. PICK x \in S : S = {x}
    BY <1>2
  <2>2. Cardinality({x}) = 1
    BY FS_Singleton
  <2>3. QED
    BY <1>2, <2>1, <2>2
<1>3. QED
  BY <1>1, <1>2

\* The invariant is single flight.
LEMMA InOnePlace == ASSUME FlightInv PROVE SingleFlight
<1>0. SchedulerTypeOK /\ OnWorker /\ InRing /\ Alone /\ NotForgotten
  BY DEF FlightInv
<1>1. SUFFICES ASSUME NEW j \in J PROVE Places(j) = IF status[j] = "running" THEN 1 ELSE 0
  BY DEF SingleFlight
<1> DEFINE inRing == {i \in DOMAIN queue : queue[i] = j}
<1>2. Cardinality(inRing) = IF inRing = {} THEN 0 ELSE 1
  <2>1. \A x, y \in inRing : x = y
    BY <1>0 DEF InRing
  <2>2. QED
    BY <2>1, OneOrNone
<1>3. Cardinality(RunBy(j)) = IF RunBy(j) = {} THEN 0 ELSE 1
  <2>1. \A x, y \in RunBy(j) : x = y
    BY <1>0, SchedulerAssumption DEF Alone, RunBy
  <2>2. QED
    BY <2>1, OneOrNone
<1>4. inRing = {} \/ RunBy(j) = {}
  BY <1>0 DEF InRing, RunBy
<1>5. inRing # {} \/ RunBy(j) # {} <=> status[j] = "running"
  <2>1. inRing # {} => status[j] = "running"
    BY <1>0 DEF InRing
  <2>2. RunBy(j) # {} => status[j] = "running"
    BY <1>0, SchedulerAssumption DEF Alone, RunBy
  <2>3. status[j] = "running" => inRing # {} \/ RunBy(j) # {}
    BY <1>0 DEF NotForgotten, RunBy
  <2>4. QED
    BY <2>1, <2>2, <2>3
<1>6. Places(j) = Cardinality(inRing) + Cardinality(RunBy(j))
  BY DEF Places
<1> HIDE DEF inRing
<1>7. QED
  BY <1>2, <1>3, <1>4, <1>5, <1>6

\* SchedulerInit establishes the invariant.
LEMMA SchedulerInitial == SchedulerInit => FlightInv
<1> SUFFICES ASSUME SchedulerInit PROVE FlightInv
  OBVIOUS
<1>1. /\ queue = <<>> /\ DOMAIN queue = {} /\ queue \in Seq(J) /\ Len(queue) = 0
      /\ \A w \in Workers : worker[w] = "poll" /\ job[w] = NoJob
      /\ \A j \in J : status[j] # "running"
  BY DEF SchedulerInit
<1>2. failures \in [J -> 0..MaxFailures] /\ 0 <= Len(Jobs)
  BY SchedulerAssumption, TableOfJobs DEF SchedulerInit
<1>3. SchedulerTypeOK
  BY <1>1, <1>2 DEF SchedulerInit, SchedulerTypeOK
<1>4. OnWorker /\ InRing /\ Alone /\ NotForgotten
  BY <1>1 DEF OnWorker, InRing, Alone, NotForgotten
<1>5. QED
  BY <1>3, <1>4 DEF FlightInv

\* Every step of the scheduler keeps the invariant.
LEMMA SchedulerStep == FlightInv /\ [SchedulerNext]_schedulerVars => FlightInv'
<1> SUFFICES ASSUME FlightInv, [SchedulerNext]_schedulerVars PROVE FlightInv'
  OBVIOUS
<1>1. CASE LoopCheck \/ StopRaise \/ StopJoinTicker \/ StopJoinWorkers
  BY <1>1, FlagKeeps
<1>2. CASE LoopTick
  BY <1>2, TickKeeps
<1>3. CASE Second
  BY <1>3, SecondKeeps
<1>4. ASSUME NEW w \in Workers, Dequeue(w) PROVE FlightInv'
  BY <1>4, DequeueKeeps
<1>5. ASSUME NEW w \in Workers, FoundEmpty(w) \/ ExitOrSleep(w) PROVE FlightInv'
  BY <1>5, WaitKeeps
<1>6. ASSUME NEW w \in Workers, Succeed(w) \/ Fail(w) PROVE FlightInv'
  BY <1>6, EndKeeps
<1>7. CASE UNCHANGED schedulerVars
  <2>1. SchedulerTypeOK'
    BY <1>7 DEF FlightInv, SchedulerTypeOK, schedulerVars, table, pool
  <2>2. QED
    BY <1>7, <2>1, QuietKeeps DEF schedulerVars, table
<1>8. QED
  BY <1>1, <1>2, <1>3, <1>4, <1>5, <1>6, <1>7 DEF SchedulerNext

\* THEOREM: for any table, delays, cap of fired jobs, workers and backoff, a
\* job that is marked is in the ring or on a worker, in one place: it never
\* overlaps itself and is never forgotten.
THEOREM SchedulerIsSound == SchedulerSpec => []SchedulerSound
<1>1. FlightInv => SchedulerSound
  BY InOnePlace DEF FlightInv, SchedulerSound
<1>2. QED
  BY <1>1, SchedulerInitial, SchedulerStep, PTL DEF SchedulerSpec

\* stop() passes a thread only when it has exited.
Joined ==
  /\ stopper \in {"workers", "returned"} => loop = "exit"
  /\ stopper = "returned" => \A w \in Workers : worker[w] = "exit"

\* No thread that stop() has passed runs again.
LEMMA JoinedKeeps ==
  ASSUME FlightInv, Joined, [SchedulerNext]_schedulerVars
  PROVE  Joined' /\ (stopper = "returned" => UNCHANGED <<status, failures, queue, pool>>)
<1>0. worker \in [Workers -> {"poll", "empty", "run", "exit"}]
  BY DEF FlightInv, SchedulerTypeOK
<1>1. CASE LoopCheck
  BY <1>1 DEF Joined, LoopCheck, table, pool
<1>2. CASE LoopTick
  BY <1>2 DEF Joined, LoopTick, pool
<1>3. CASE StopRaise
  BY <1>3 DEF Joined, StopRaise, table, pool
<1>4. CASE StopJoinTicker
  BY <1>4 DEF Joined, StopJoinTicker, table, pool
<1>5. CASE StopJoinWorkers
  BY <1>5 DEF Joined, StopJoinWorkers, table, pool
<1>6. CASE Second
  BY <1>6 DEF Joined, Second, pool
<1>7. ASSUME NEW w \in Workers, Dequeue(w) \/ FoundEmpty(w) \/ ExitOrSleep(w) \/ Succeed(w) \/ Fail(w)
      PROVE  Joined' /\ (stopper = "returned" => UNCHANGED <<status, failures, queue, pool>>)
  <2>1. worker[w] # "exit" /\ UNCHANGED <<loop, stopper>>
    BY <1>7 DEF Dequeue, FoundEmpty, ExitOrSleep, Succeed, Fail
  <2>2. stopper # "returned"
    BY <2>1 DEF Joined
  <2>3. QED
    BY <2>1, <2>2 DEF Joined
<1>8. CASE UNCHANGED schedulerVars
  BY <1>8 DEF Joined, schedulerVars, table, pool
<1>9. QED
  BY <1>1, <1>2, <1>3, <1>4, <1>5, <1>6, <1>7, <1>8 DEF SchedulerNext

\* THEOREM: once stop() returned, no thread touches the table's marks, the ring
\* or a worker again, so that deinit() may free them, whatever ran meanwhile.
THEOREM SchedulerStopIsQuiet == SchedulerSpec => ReturnedIsQuiet
<1>1. SchedulerInit => Joined
  BY DEF SchedulerInit, Joined
<1>2. FlightInv /\ Joined /\ [SchedulerNext]_schedulerVars => Joined'
  BY JoinedKeeps
<1>3. FlightInv /\ Joined /\ [SchedulerNext]_schedulerVars
        => [stopper = "returned" => UNCHANGED <<status, failures, queue, pool>>]_schedulerVars
  BY JoinedKeeps
<1>4. QED
  BY <1>1, <1>2, <1>3, SchedulerInitial, SchedulerStep, PTL DEF SchedulerSpec, ReturnedIsQuiet
================================================================================
