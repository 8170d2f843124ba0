-------------------------- MODULE QueueLimitsProofs --------------------------
(* The two limits of the durable queue, for any numbers of workers, producers,  *)
(* jobs, rates and sizes: the sustained ceiling of a rated queue, and the       *)
(* capacity of a bounded one.                                                   *)
EXTENDS ClaimRate, QueueCapacity, FiniteSetTheorems, TLAPS

InTxn(w) == pc[w] \in {"claim", "charge"}

\* Whoever is in a transaction holds the row lock alone.
Locked == \A w \in Workers : InTxn(w) => holder = {w}

\* What a transaction computed is still true of the row it locked.
Current ==
  \A w \in Workers : InTxn(w) =>
    /\ window[w] >= window_s
    /\ spent[w] = IF window[w] = window_s THEN used ELSE 0
    /\ pc[w] = "charge" => spent[w] + claims[w] <= Ceiling

\* Every window before the current one was worth Ceiling claims at most.
Budgeted ==
  IF window_s = None
  THEN total = 0 /\ used = 0
  ELSE first <= window_s /\ total <= Ceiling * (window_s - first) + used

RateInv == TypeOK /\ Locked /\ Current /\ Budgeted

\* A later window is worth one more ceiling.
LEMMA OneMoreWindow ==
  ASSUME NEW c \in Nat, NEW a \in Nat, NEW b \in Nat, a < b
  PROVE  c * a + c <= c * b
<1>1. PICK d \in Nat : b = a + 1 + d
  <2>1. b - a - 1 \in Nat /\ b = a + 1 + (b - a - 1)
    OBVIOUS
  <2>2. QED
    BY <2>1
<1>2. c * b = c * a + c + c * d
  BY <1>1
<1>3. c * d \in Nat /\ c * a \in Nat
  OBVIOUS
<1>4. QED
  BY <1>2, <1>3

\* Init establishes the invariant.
LEMMA RateInit == Init => RateInv
BY RateAssumption DEF Init, RateInv, TypeOK, Locked, Current, Budgeted, InTxn, None

\* Every variable keeps its type.
LEMMA RateType == RateInv /\ [Next]_vars => TypeOK'
<1> SUFFICES ASSUME RateInv, [Next]_vars PROVE TypeOK'
  OBVIOUS
<1>0. TypeOK
  BY DEF RateInv
<1>1. ASSUME NEW w \in Workers, StartPoll(w) PROVE TypeOK'
  <2>1. clock + Skew[w] \in Nat
    BY <1>0, RateAssumption DEF TypeOK
  <2>2. QED
    BY <1>0, <1>1, <2>1 DEF StartPoll, Goes, TypeOK, local
<1>2. ASSUME NEW w \in Workers, Enter(w) PROVE TypeOK'
  <2>1. View(w).window \in Nat /\ View(w).used \in 0..Ceiling
    BY <1>0, RateAssumption DEF View, TypeOK, None
  <2>2. QED
    BY <1>0, <1>2, <2>1 DEF Enter, Goes, TypeOK, local
<1>3. ASSUME NEW w \in Workers, Claim(w) PROVE TypeOK'
  <2>1. PICK k \in 0..Batch : k <= Rate[w] - spent[w] /\ claims' = [claims EXCEPT ![w] = k]
    BY <1>3 DEF Claim
  <2>2. k \in 0..Ceiling
    <3>1. Rate[w] \in 1..Ceiling /\ spent[w] \in 0..Ceiling
          /\ Ceiling \in Nat /\ Batch \in Nat
      BY <1>0, RateAssumption DEF TypeOK
    <3>2. QED
      BY <2>1, <3>1
  <2>3. QED
    BY <1>0, <1>3, <2>1, <2>2 DEF Claim, Goes, TypeOK
<1>4. ASSUME NEW w \in Workers, Commit(w) PROVE TypeOK'
  <2>1. spent[w] + claims[w] \in 0..Ceiling
    BY <1>4, RateAssumption DEF RateInv, Current, Commit, InTxn, TypeOK
  <2>2. window_s' \in Nat \cup {None} /\ used' \in 0..Ceiling
    BY <1>0, <1>4, <2>1 DEF Commit, TypeOK
  <2>3. total' \in Nat /\ burst' \in Nat /\ first' \in Nat
    BY <1>0, <1>4, RateAssumption DEF Commit, TypeOK
  <2>4. QED
    BY <1>0, <1>4, <2>2, <2>3 DEF Commit, Goes, TypeOK, local
<1>5. ASSUME NEW w \in Workers, Abort(w) PROVE TypeOK'
  BY <1>0, <1>5 DEF Abort, Goes, TypeOK, local
<1>6. CASE Tick
  BY <1>0, <1>6 DEF Tick, TypeOK, local
<1>7. CASE UNCHANGED vars
  BY <1>0, <1>7 DEF vars, TypeOK, local
<1>8. QED
  BY <1>1, <1>2, <1>3, <1>4, <1>5, <1>6, <1>7 DEF Next

\* The lock, the transaction's view and the budget survive every step.
LEMMA RateStep == RateInv /\ [Next]_vars => RateInv'
<1> SUFFICES ASSUME RateInv, [Next]_vars PROVE RateInv'
  OBVIOUS
<1>0. TypeOK /\ TypeOK'
  BY RateType DEF RateInv
<1>1. ASSUME NEW w \in Workers, StartPoll(w) PROVE Locked' /\ Current' /\ Budgeted'
  BY <1>0, <1>1 DEF StartPoll, Goes, RateInv, Locked, Current, Budgeted, InTxn, TypeOK, local
<1>2. ASSUME NEW w \in Workers, Enter(w) PROVE Locked' /\ Current' /\ Budgeted'
  <2>1. \A v \in Workers : ~InTxn(v)
    BY <1>2 DEF Enter, RateInv, Locked
  <2>2. \A v \in Workers : InTxn(v)' => v = w /\ pc'[v] = "claim"
    BY <1>0, <1>2, <2>1 DEF Enter, Goes, InTxn, TypeOK
  <2>3. Locked'
    BY <1>0, <1>2, <2>2 DEF Enter, Goes, Locked, InTxn, TypeOK
  <2>4. /\ View(w).window >= window_s
        /\ View(w).used = IF View(w).window = window_s THEN used ELSE 0
    BY <1>0 DEF View, TypeOK, None
  <2>5. Current'
    BY <1>0, <1>2, <2>2, <2>4 DEF Enter, Goes, Current, InTxn, TypeOK
  <2>6. Budgeted'
    BY <1>2 DEF Enter, RateInv, Budgeted
  <2>7. QED
    BY <2>3, <2>5, <2>6
<1>3. ASSUME NEW w \in Workers, Claim(w) PROVE Locked' /\ Current' /\ Budgeted'
  <2>1. PICK k \in 0..Batch : k <= Rate[w] - spent[w] /\ claims' = [claims EXCEPT ![w] = k]
    BY <1>3 DEF Claim
  <2>2. spent[w] + k <= Ceiling
    <3>1. Rate[w] \in 1..Ceiling /\ spent[w] \in 0..Ceiling
          /\ Ceiling \in Nat /\ Batch \in Nat
      BY <1>0, RateAssumption DEF TypeOK
    <3>2. QED
      BY <2>1, <3>1
  <2>3. \A v \in Workers : InTxn(v)' => InTxn(v) /\ v = w
    BY <1>0, <1>3 DEF Claim, Goes, InTxn, TypeOK, RateInv, Locked
  <2>4. Locked' /\ Budgeted'
    BY <1>0, <1>3, <2>3 DEF Claim, RateInv, Locked, Budgeted
  <2>5. Current'
    BY <1>0, <1>3, <2>1, <2>2, <2>3 DEF Claim, Goes, RateInv, Current, TypeOK
  <2>6. QED
    BY <2>4, <2>5
<1>4. ASSUME NEW w \in Workers, Commit(w) PROVE Locked' /\ Current' /\ Budgeted'
  <2>1. \A v \in Workers : ~InTxn(v)'
    BY <1>0, <1>4 DEF Commit, Goes, InTxn, TypeOK, RateInv, Locked
  <2>2. Locked' /\ Current'
    BY <2>1 DEF Locked, Current
  <2>3. /\ window[w] >= window_s
        /\ spent[w] = IF window[w] = window_s THEN used ELSE 0
        /\ Budgeted
    BY <1>4 DEF RateInv, Current, Commit, InTxn
  <2>4. /\ window[w] \in Nat /\ claims[w] \in Nat /\ total \in Nat /\ first \in Nat
        /\ used \in 0..Ceiling /\ Ceiling \in Nat /\ window_s \in Nat \cup {-1}
    BY <1>0, RateAssumption DEF TypeOK, None
  <2>5. CASE window_s = None
    <3>1. /\ window_s' = window[w] /\ first' = window[w]
          /\ total' = claims[w] /\ used' = claims[w]
      BY <1>4, <2>3, <2>4, <2>5 DEF Commit, Budgeted, None
    <3>2. Ceiling * (window[w] - window[w]) = 0
      BY <2>4
    <3>3. QED
      BY <2>2, <2>4, <3>1, <3>2 DEF Budgeted, None
  <2>6. CASE window_s # None /\ (claims[w] = 0 \/ window[w] = window_s)
    <3>1. /\ window_s' = window_s /\ first' = first
          /\ total' = total + claims[w] /\ used' = used + claims[w]
      <4>1. claims[w] = 0 => used = used + claims[w] /\ window_s # None
        BY <2>4, <2>6
      <4>2. QED
        BY <1>4, <2>3, <2>4, <2>6, <4>1 DEF Commit
    <3>2. first <= window_s /\ total <= Ceiling * (window_s - first) + used
      BY <2>3, <2>6 DEF Budgeted
    <3>3. Ceiling * (window_s - first) \in Int /\ window_s \in Nat
      BY <2>4, <2>6 DEF None
    <3>4. total + claims[w] <= Ceiling * (window_s - first) + (used + claims[w])
      BY <2>4, <3>2, <3>3
    <3>5. QED
      BY <2>2, <2>6, <3>1, <3>2, <3>4 DEF Budgeted
  <2>7. CASE window_s # None /\ claims[w] # 0 /\ window[w] # window_s
    <3>1. /\ window_s' = window[w] /\ used' = claims[w] /\ first' = first
          /\ total' = total + claims[w]
      BY <1>4, <2>3, <2>4, <2>7 DEF Commit
    <3>2. /\ first <= window_s /\ window_s < window[w] /\ window_s \in Nat
          /\ total <= Ceiling * (window_s - first) + used
      <4>1. first <= window_s /\ total <= Ceiling * (window_s - first) + used
        BY <2>3, <2>7 DEF Budgeted
      <4>2. window_s \in Nat /\ window_s < window[w]
        <5>1. window_s \in Nat
          BY <2>4, <2>7 DEF None
        <5>2. QED
          BY <2>3, <2>4, <2>7, <5>1
      <4>3. QED
        BY <4>1, <4>2
    <3>3. Ceiling * (window_s - first) + Ceiling <= Ceiling * (window[w] - first)
      BY <2>4, <3>2, OneMoreWindow
    <3>4. Ceiling * (window_s - first) \in Int /\ Ceiling * (window[w] - first) \in Int
      BY <2>4, <3>2
    <3>5. total + claims[w] <= Ceiling * (window[w] - first) + claims[w]
      BY <2>4, <3>2, <3>3, <3>4
    <3>6. window_s' # None /\ first <= window[w]
      BY <2>4, <3>1, <3>2 DEF None
    <3>7. QED
      BY <2>2, <3>1, <3>5, <3>6 DEF Budgeted
  <2>8. QED
    BY <2>2, <2>5, <2>6, <2>7
<1>5. ASSUME NEW w \in Workers, Abort(w) PROVE Locked' /\ Current' /\ Budgeted'
  <2>1. \A v \in Workers : InTxn(v)' => InTxn(v) /\ v # w /\ pc'[v] = pc[v]
    BY <1>0, <1>5 DEF Abort, Goes, InTxn, TypeOK
  <2>2. Locked'
    BY <1>0, <1>5, <2>1 DEF Abort, RateInv, Locked
  <2>3. Current' /\ Budgeted'
    BY <1>5, <2>1 DEF Abort, RateInv, Current, Budgeted, local
  <2>4. QED
    BY <2>2, <2>3
<1>6. ASSUME Tick PROVE Locked' /\ Current' /\ Budgeted'
  <2>1. Locked' /\ Current'
    BY <1>6 DEF Tick, RateInv, Locked, Current, InTxn, local
  <2>2. Budgeted'
    BY <1>6 DEF Tick, RateInv, Budgeted
  <2>3. QED
    BY <2>1, <2>2
<1>7. ASSUME UNCHANGED vars PROVE Locked' /\ Current' /\ Budgeted'
  <2>1. Locked' /\ Current'
    BY <1>7 DEF vars, RateInv, Locked, Current, InTxn, local
  <2>2. Budgeted'
    BY <1>7 DEF vars, RateInv, Budgeted
  <2>3. QED
    BY <2>1, <2>2
<1>8. QED
  BY <1>0, <1>1, <1>2, <1>3, <1>4, <1>5, <1>6, <1>7 DEF Next, RateInv

\* The inductive invariant holds: row lock, the transaction's view, budget.
THEOREM RateInvariant == Spec => []RateInv
BY RateInit, RateStep, PTL DEF Spec

\* Over n windows a rated queue delivers at most n times its ceiling.
THEOREM SustainedCeiling == Spec => []Sustained
<1>1. RateInv => Sustained
  <2> SUFFICES ASSUME RateInv PROVE Sustained
    OBVIOUS
  <2>1. CASE window_s = None
    BY <2>1 DEF RateInv, Budgeted, Sustained
  <2>2. CASE window_s # None
    <3>1. /\ window_s \in Nat /\ first \in Nat /\ total \in Nat /\ first <= window_s
          /\ used \in 0..Ceiling /\ Ceiling \in Nat
          /\ total <= Ceiling * (window_s - first) + used
      BY <2>2, RateAssumption DEF RateInv, TypeOK, Budgeted, None
    <3>2. Ceiling * (window_s - first) + Ceiling <= Ceiling * (window_s - first + 1)
      BY <3>1, OneMoreWindow
    <3>3. Ceiling * (window_s - first) \in Int /\ Ceiling * (window_s - first + 1) \in Int
      BY <3>1
    <3>4. total <= Ceiling * (window_s - first + 1)
      BY <3>1, <3>2, <3>3
    <3>5. QED
      BY <2>2, <3>4 DEF Sustained
  <2>3. QED
    BY <2>1, <2>2
<1>2. QED
  BY <1>1, RateInvariant, PTL

\* No window reopens.
THEOREM WindowsAdvance == Spec => WindowAdvances
<1>1. RateInv /\ [Next]_vars => [window_s' >= window_s]_vars
  <2> SUFFICES ASSUME RateInv, [Next]_vars PROVE [window_s' >= window_s]_vars
    OBVIOUS
  <2>1. window_s \in Int
    BY DEF RateInv, TypeOK, None
  <2>2. ASSUME NEW w \in Workers, Commit(w) PROVE window_s' >= window_s
    BY <2>1, <2>2 DEF Commit, RateInv, Current, InTxn
  <2>3. QED
    BY <2>1, <2>2 DEF Next, StartPoll, Enter, Claim, Abort, Tick, vars
<1>2. QED
  BY <1>1, RateInvariant, PTL DEF Spec, WindowAdvances

------------------------------------------------------------------------------
(* Whoever counts holds the advisory lock and sees every row another transaction
   may still commit, because there is none. *)
Inside == {"begun", "locked", "counted", "inserted"}
Decided == {"locked", "counted", "inserted"}

\* The column types, without the coherence LedgerTypeOK adds.
Columns ==
  /\ rows \subseteq Jobs /\ fresh \subseteq Jobs
  /\ at \in [Producers -> PC]
  /\ nested \in [Producers -> BOOLEAN]
  /\ repeatable \in [Producers -> BOOLEAN]
  /\ seen \in [Producers -> SUBSET Jobs]
  /\ own \in [Producers -> SUBSET Jobs]
  /\ saved \in [Producers -> SUBSET Jobs]
  /\ job \in [Producers -> Jobs]
  /\ lock \subseteq Producers /\ kept \subseteq Producers

\* Uncommitted rows are guarded by the lock, which one transaction holds.
Exclusive == \A p, q \in lock : p = q
Guarded ==
  \A p \in Producers :
    /\ at[p] = "out" => own[p] = {} /\ p \notin lock
    /\ own[p] # {} \/ at[p] \in Decided => p \in lock
    /\ at[p] \in Inside => /\ saved[p] \subseteq own[p]
                           /\ saved[p] # {} => p \in kept
                           /\ p \in kept => p \in lock
                           /\ ~nested[p] => saved[p] = {}
    /\ at[p] \in Decided => ~repeatable[p]

\* What was counted still leaves room.
Room == \A p \in Producers : at[p] = "counted" => Cardinality(rows \cup own[p]) < MaxJobs

CapacityInv == Columns /\ Exclusive /\ Guarded /\ Room /\ RowsBounded

\* The lock holder's view of the retained rows is complete.
LEMMA HolderSeesAll ==
  ASSUME Columns, Exclusive, Guarded, NEW p \in Producers, p \in lock
  PROVE  Retained = rows \cup own[p]
<1>1. \A q \in Producers : q # p => own[q] = {}
  BY DEF Exclusive, Guarded
<1>2. QED
  BY <1>1 DEF Retained

\* Fewer rows stay within the capacity.
LEMMA FewerRows ==
  ASSUME NEW A, NEW B, A \subseteq B, B \subseteq Jobs, Cardinality(B) <= MaxJobs
  PROVE  Cardinality(A) <= MaxJobs
<1>1. IsFiniteSet(B)
  BY CapacityAssumption, FS_Subset
<1>2. IsFiniteSet(A) /\ Cardinality(A) <= Cardinality(B)
  BY <1>1, FS_Subset
<1>3. Cardinality(A) \in Nat /\ Cardinality(B) \in Nat
  BY <1>1, <1>2, FS_CardinalityType
<1>4. QED
  BY <1>2, <1>3, CapacityAssumption

\* A transaction that ends: committed or not, nobody else's rows change.
LEMMA EndKeeps ==
  ASSUME CapacityInv, NEW p \in Producers, Ends(p), UNCHANGED rows \/ rows' = rows \cup own[p]
  PROVE  CapacityInv'
<1>1. Columns'
  BY DEF CapacityInv, Columns, Ends, Puts, PC
<1>2. \A q \in Producers : /\ q # p => /\ at'[q] = at[q] /\ own'[q] = own[q] /\ saved'[q] = saved[q]
                                       /\ nested'[q] = nested[q] /\ repeatable'[q] = repeatable[q]
                                       /\ q \in lock' <=> q \in lock
                                       /\ q \in kept' <=> q \in kept
                           /\ q = p => at'[q] = "out" /\ own'[q] = {} /\ q \notin lock'
  BY DEF CapacityInv, Columns, Ends, Puts
<1>3. Exclusive'
  BY DEF CapacityInv, Exclusive, Ends
<1>4. Guarded'
  BY <1>2 DEF CapacityInv, Guarded, Inside, Decided
<1>5. Retained' \subseteq Retained /\ Retained \subseteq Jobs
  BY <1>2 DEF CapacityInv, Columns, Retained
<1>6. RowsBounded'
  BY <1>5, FewerRows DEF CapacityInv, RowsBounded
<1>7. ASSUME NEW q \in Producers, at'[q] = "counted"
      PROVE  Cardinality(rows' \cup own'[q]) < MaxJobs
  <2>1. q # p /\ at[q] = "counted" /\ own'[q] = own[q] /\ q \in lock
    BY <1>2, <1>7 DEF CapacityInv, Guarded, Decided
  <2>2. own[p] = {}
    BY <2>1 DEF CapacityInv, Guarded, Exclusive
  <2>3. rows' = rows
    BY <2>2
  <2>4. QED
    BY <2>1, <2>3 DEF CapacityInv, Room
<1>8. QED
  BY <1>1, <1>3, <1>4, <1>6, <1>7 DEF CapacityInv, Room

\* A refusal ends enqueue's transaction or returns to the savepoint.
LEMMA RefuseKeeps ==
  ASSUME CapacityInv, NEW p \in Producers, at[p] \in Inside, Refuse(p)
  PROVE  CapacityInv'
<1>1. CASE ~nested[p]
  BY <1>1, EndKeeps DEF Refuse
<1>2. CASE nested[p]
  <2>1. Columns'
    BY <1>2 DEF CapacityInv, Columns, Refuse, Puts, PC
  <2>2. \A q \in Producers : /\ q # p => /\ at'[q] = at[q] /\ own'[q] = own[q]
                                         /\ q \in lock' <=> q \in lock
                             /\ saved'[q] = saved[q] /\ nested'[q] = nested[q]
                             /\ repeatable'[q] = repeatable[q]
                             /\ q \in kept' <=> q \in kept
                             /\ q = p => /\ at'[q] = "caller" /\ own'[q] = saved[q]
                                         /\ q \in kept => (q \in lock' <=> q \in lock)
    BY <1>2 DEF CapacityInv, Columns, Refuse, Puts
  <2>3. Exclusive' /\ rows' = rows
    BY <1>2 DEF CapacityInv, Exclusive, Refuse
  <2>4. Guarded'
    BY <2>2 DEF CapacityInv, Guarded, Inside, Decided
  <2>5. saved[p] \subseteq own[p]
    BY DEF CapacityInv, Guarded
  <2>6. Retained' \subseteq Retained /\ Retained \subseteq Jobs
    BY <2>2, <2>3, <2>5 DEF CapacityInv, Columns, Retained
  <2>7. RowsBounded'
    BY <2>6, FewerRows DEF CapacityInv, RowsBounded
  <2>8. Room'
    BY <2>2, <2>3 DEF CapacityInv, Room
  <2>9. QED
    BY <2>1, <2>3, <2>4, <2>7, <2>8 DEF CapacityInv
<1>3. QED
  BY <1>1, <1>2

\* LedgerInit establishes the invariant.
LEMMA CapacityInit == LedgerInit => CapacityInv
<1> SUFFICES ASSUME LedgerInit PROVE CapacityInv
  OBVIOUS
<1>1. Columns /\ Exclusive /\ Guarded /\ Room
  <2>1. ASSUME NEW p \in Producers PROVE job[p] \in Jobs
    <3>1. job[p] = CHOOSE j \in Jobs : TRUE
      BY DEF LedgerInit
    <3>2. QED
      BY <3>1, CapacityAssumption
  <2>2. Columns
    BY <2>1 DEF LedgerInit, Columns, PC
  <2>3. QED
    BY <2>2 DEF LedgerInit, Exclusive, Guarded, Room, Inside, Decided
<1>2. Retained = {}
  BY DEF LedgerInit, Retained
<1>3. Cardinality(Retained) <= MaxJobs
  BY <1>2, FS_EmptySet, CapacityAssumption
<1>4. QED
  BY <1>1, <1>3 DEF CapacityInv, RowsBounded

\* One enqueued row fits in the room that was counted under the lock.
LEMMA InsertKeeps ==
  ASSUME CapacityInv, NEW p \in Producers, Insert(p)
  PROVE  CapacityInv'
<1>1. Columns'
  BY DEF CapacityInv, Columns, Insert, Puts, PC
<1>2. \A q \in Producers : /\ q # p => at'[q] = at[q] /\ own'[q] = own[q]
                           /\ q = p => at'[q] = "inserted" /\ own'[q] = own[q] \cup {job[q]}
  BY DEF CapacityInv, Columns, Insert, Puts
<1>3. UNCHANGED <<rows, nested, repeatable, saved, lock, kept>>
  BY DEF Insert
<1>4. p \in lock /\ at[p] = "counted"
  BY DEF CapacityInv, Guarded, Decided, Insert
<1>5. Exclusive' /\ Guarded' /\ Room'
  <2>1. Exclusive'
    BY <1>3 DEF CapacityInv, Exclusive
  <2>2. Guarded'
    BY <1>2, <1>3, <1>4 DEF CapacityInv, Guarded, Inside, Decided
  <2>3. Room'
    BY <1>2, <1>3 DEF CapacityInv, Room
  <2>4. QED
    BY <2>1, <2>2, <2>3
<1>6. Retained' = (rows \cup own[p]) \cup {job[p]}
  <2>1. Retained' = rows' \cup own'[p]
    BY <1>1, <1>3, <1>4, <1>5, HolderSeesAll DEF CapacityInv, Exclusive, Guarded, Retained
  <2>2. QED
    BY <1>2, <1>3, <2>1
<1>7. IsFiniteSet(rows \cup own[p])
  BY CapacityAssumption, FS_Subset DEF CapacityInv, Columns
<1>8. Cardinality(rows \cup own[p]) \in Nat /\ Cardinality(rows \cup own[p]) < MaxJobs
  BY <1>4, <1>7, FS_CardinalityType DEF CapacityInv, Room
<1>9. Cardinality(Retained') <= Cardinality(rows \cup own[p]) + 1
  BY <1>6, <1>7, <1>8, FS_AddElement
<1>10. Cardinality(Retained') \in Nat
  BY <1>6, <1>7, FS_AddElement, FS_CardinalityType
<1>11. RowsBounded'
  BY <1>8, <1>9, <1>10, CapacityAssumption DEF RowsBounded
<1>12. QED
  BY <1>1, <1>5, <1>11 DEF CapacityInv

\* Every step of the specification keeps the invariant.
LEMMA CapacityStep == CapacityInv /\ [LedgerNext]_ledgerVars => CapacityInv'
<1> SUFFICES ASSUME CapacityInv, [LedgerNext]_ledgerVars PROVE CapacityInv'
  OBVIOUS
<1>0. Columns /\ Exclusive /\ Guarded /\ Room /\ RowsBounded
  BY DEF CapacityInv
<1>1. ASSUME NEW p \in Producers, NEW rr \in BOOLEAN, CallerBegin(p, rr) PROVE CapacityInv'
  <2>1. Columns' /\ UNCHANGED <<rows, own, saved, nested, lock, kept>>
    BY <1>0, <1>1 DEF Columns, CallerBegin, Puts, PC
  <2>2. \A q \in Producers : /\ q # p => at'[q] = at[q] /\ repeatable'[q] = repeatable[q]
                             /\ q = p => at'[q] = "caller"
    BY <1>0, <1>1 DEF Columns, CallerBegin, Puts
  <2>3. Exclusive' /\ RowsBounded'
    BY <1>0, <2>1 DEF Exclusive, RowsBounded, Retained
  <2>4. Guarded' /\ Room'
    BY <1>0, <2>1, <2>2 DEF Guarded, Room, Inside, Decided
  <2>5. QED
    BY <2>1, <2>3, <2>4 DEF CapacityInv
<1>2. ASSUME NEW p \in Producers, CallerCommit(p) \/ Rollback(p) PROVE CapacityInv'
  BY <1>2, EndKeeps DEF CallerCommit, Commits, Rollback
<1>3. ASSUME NEW p \in Producers, NEW j \in Jobs, EnqueueBegin(p, j) PROVE CapacityInv'
  <2>1. Columns' /\ UNCHANGED <<rows, own, repeatable, lock>>
    BY <1>0, <1>3 DEF Columns, EnqueueBegin, Puts, PC
  <2>2. \A q \in Producers : /\ q # p => /\ at'[q] = at[q] /\ saved'[q] = saved[q]
                                         /\ nested'[q] = nested[q]
                                         /\ q \in kept' <=> q \in kept
                             /\ q = p => /\ at'[q] = "begun" /\ saved'[q] = own[q]
                                         /\ nested'[q] = (at[q] = "caller")
                                         /\ q \in kept' <=> q \in lock
                                         /\ at[q] \in {"out", "caller"}
    BY <1>0, <1>3 DEF Columns, EnqueueBegin, Puts
  <2>3. Exclusive' /\ RowsBounded'
    BY <1>0, <2>1 DEF Exclusive, RowsBounded, Retained
  <2>4. Guarded' /\ Room'
    BY <1>0, <2>1, <2>2 DEF Guarded, Room, Inside, Decided
  <2>5. QED
    BY <2>1, <2>3, <2>4 DEF CapacityInv
<1>4. ASSUME NEW p \in Producers, TryLock(p) PROVE CapacityInv'
  <2>1. at[p] = "begun"
    BY <1>4 DEF TryLock
  <2>2. CASE ~repeatable[p] /\ lock \subseteq {p}
    <3>1. Columns' /\ UNCHANGED <<rows, own, saved, nested, repeatable, kept>> /\ lock' = lock \cup {p}
      BY <1>0, <1>4, <2>2 DEF Columns, TryLock, Puts, PC
    <3>2. \A q \in Producers : /\ q # p => at'[q] = at[q]
                               /\ q = p => at'[q] = "locked"
      BY <1>0, <1>4, <2>2 DEF Columns, TryLock, Puts
    <3>3. Exclusive' /\ RowsBounded'
      BY <1>0, <2>2, <3>1 DEF Exclusive, RowsBounded, Retained
    <3>4. Guarded' /\ Room'
      BY <1>0, <2>1, <2>2, <3>1, <3>2 DEF Guarded, Room, Inside, Decided
    <3>5. QED
      BY <3>1, <3>3, <3>4 DEF CapacityInv
  <2>3. CASE ~(~repeatable[p] /\ lock \subseteq {p})
    BY <1>4, <2>1, <2>3, RefuseKeeps DEF TryLock, Inside
  <2>4. QED
    BY <2>2, <2>3
<1>5. ASSUME NEW p \in Producers, Count(p) PROVE CapacityInv'
  <2>1. at[p] = "locked"
    BY <1>5 DEF Count
  <2>2. CASE Fits(Visible(p), job[p])
    <3>1. Columns' /\ UNCHANGED <<rows, own, saved, nested, repeatable, lock, kept>>
      BY <1>0, <1>5, <2>2 DEF Columns, Count, Puts, PC
    <3>2. \A q \in Producers : /\ q # p => at'[q] = at[q]
                               /\ q = p => at'[q] = "counted"
      BY <1>0, <1>5, <2>2 DEF Columns, Count, Puts
    <3>3. Exclusive' /\ RowsBounded' /\ Guarded'
      BY <1>0, <2>1, <3>1, <3>2 DEF Exclusive, RowsBounded, Retained, Guarded, Inside, Decided
    <3>4. Cardinality(rows \cup own[p]) < MaxJobs
      <4>1. Visible(p) = rows \cup own[p]
        BY <1>0, <2>1 DEF Visible, Guarded, Decided
      <4>2. QED
        BY <2>2, <4>1 DEF Fits
    <3>5. Room'
      BY <1>0, <3>1, <3>2, <3>4 DEF Room
    <3>6. QED
      BY <3>1, <3>3, <3>5 DEF CapacityInv
  <2>3. CASE ~Fits(Visible(p), job[p])
    BY <1>5, <2>1, <2>3, RefuseKeeps DEF Count, Inside
  <2>4. QED
    BY <2>2, <2>3
<1>6. ASSUME NEW p \in Producers, Insert(p) PROVE CapacityInv'
  BY <1>6, InsertKeeps
<1>7. ASSUME NEW p \in Producers, Fail(p) PROVE CapacityInv'
  BY <1>7, RefuseKeeps DEF Fail, Inside
<1>8. ASSUME NEW p \in Producers, EnqueueEnd(p) PROVE CapacityInv'
  <2>1. CASE nested[p]
    <3>1. Columns' /\ UNCHANGED <<rows, own, saved, nested, repeatable, lock, kept>>
      BY <1>0, <1>8, <2>1 DEF Columns, EnqueueEnd, Puts, PC
    <3>2. \A q \in Producers : /\ q # p => at'[q] = at[q]
                               /\ q = p => at'[q] = "caller"
      BY <1>0, <1>8, <2>1 DEF Columns, EnqueueEnd, Puts
    <3>3. QED
      BY <1>0, <3>1, <3>2
      DEF CapacityInv, Exclusive, RowsBounded, Retained, Guarded, Room, Inside, Decided
  <2>2. CASE ~nested[p]
    BY <1>8, <2>2, EndKeeps DEF EnqueueEnd, Commits
  <2>3. QED
    BY <2>1, <2>2
<1>9. ASSUME NEW j \in Jobs, Delete(j) PROVE CapacityInv'
  <2>1. Columns' /\ Exclusive' /\ Guarded'
    BY <1>0, <1>9 DEF Columns, Exclusive, Guarded, Delete
  <2>2. rows' \subseteq rows /\ UNCHANGED <<at, own>>
    BY <1>9 DEF Delete
  <2>3. Retained' \subseteq Retained /\ Retained \subseteq Jobs
    BY <1>0, <2>2 DEF Columns, Retained
  <2>4. RowsBounded'
    BY <1>0, <2>3, FewerRows DEF RowsBounded
  <2>5. ASSUME NEW q \in Producers, at[q] = "counted"
        PROVE  Cardinality(rows' \cup own[q]) < MaxJobs
    <3>1. IsFiniteSet(rows \cup own[q])
      BY <1>0, CapacityAssumption, FS_Subset DEF Columns
    <3>2. /\ IsFiniteSet(rows' \cup own[q])
          /\ Cardinality(rows' \cup own[q]) <= Cardinality(rows \cup own[q])
      BY <2>2, <3>1, FS_Subset
    <3>3. Cardinality(rows' \cup own[q]) \in Nat /\ Cardinality(rows \cup own[q]) \in Nat
      BY <3>1, <3>2, FS_CardinalityType
    <3>4. QED
      BY <1>0, <2>5, <3>2, <3>3, CapacityAssumption DEF Room
  <2>6. Room'
    BY <2>2, <2>5 DEF Room
  <2>7. QED
    BY <2>1, <2>4, <2>6 DEF CapacityInv
<1>10. ASSUME UNCHANGED ledgerVars PROVE CapacityInv'
  BY <1>0, <1>10
  DEF ledgerVars, CapacityInv, Columns, Exclusive, Guarded, Room, RowsBounded, Retained
<1>11. QED
  BY <1>1, <1>2, <1>3, <1>4, <1>5, <1>6, <1>7, <1>8, <1>9, <1>10 DEF LedgerNext

\* The invariant behind the capacity: the lock is exclusive, uncommitted rows
\* are under it, and what was counted is still true.
THEOREM CapacityInvariant == LedgerSpec => []CapacityInv
BY CapacityInit, CapacityStep, PTL DEF LedgerSpec

\* A queue never retains more rows than its capacity.
THEOREM RowCapacity == LedgerSpec => []RowsBounded
<1>1. CapacityInv => RowsBounded
  BY DEF CapacityInv
<1>2. QED
  BY <1>1, CapacityInvariant, PTL

\* Columns have their types, and outside a transaction nothing is pending and
\* nothing is locked.
THEOREM CapacityTypes == LedgerSpec => []LedgerTypeOK
<1>1. CapacityInv => LedgerTypeOK
  BY DEF CapacityInv, Columns, Guarded, LedgerTypeOK
<1>2. QED
  BY <1>1, CapacityInvariant, PTL

\* Inside enqueue a transaction has its earlier rows and the new one.
Since == \A p \in Producers : at[p] \in Inside => own[p] \subseteq saved[p] \cup {job[p]}

\* The savepoint is taken before the new row is inserted.
LEMMA SinceStep == Columns /\ Since /\ [LedgerNext]_ledgerVars => Since'
<1> SUFFICES ASSUME Columns, Since, [LedgerNext]_ledgerVars
             PROVE  Since'
  OBVIOUS
<1>1. ASSUME NEW p \in Producers, Ends(p)
      PROVE  Since'
  BY <1>1 DEF Columns, Since, Ends, Puts, Inside
<1>2. ASSUME NEW p \in Producers, Refuse(p)
      PROVE  Since'
  BY <1>1, <1>2 DEF Columns, Since, Refuse, Puts, Inside
<1>3. ASSUME NEW p \in Producers, NEW rr \in BOOLEAN, CallerBegin(p, rr)
      PROVE  Since'
  BY <1>3 DEF Columns, Since, CallerBegin, Puts, Inside
<1>4. ASSUME NEW p \in Producers, CallerCommit(p) \/ Rollback(p)
      PROVE  Since'
  BY <1>1, <1>4 DEF CallerCommit, Commits, Rollback
<1>5. ASSUME NEW p \in Producers, NEW j \in Jobs, EnqueueBegin(p, j)
      PROVE  Since'
  BY <1>5 DEF Columns, Since, EnqueueBegin, Puts, Inside
<1>6. ASSUME NEW p \in Producers, TryLock(p) \/ Count(p) \/ Fail(p)
      PROVE  Since'
  BY <1>2, <1>6 DEF Columns, Since, TryLock, Count, Fail, Puts, Inside
<1>7. ASSUME NEW p \in Producers, Insert(p)
      PROVE  Since'
  BY <1>7 DEF Columns, Since, Insert, Puts, Inside
<1>8. ASSUME NEW p \in Producers, EnqueueEnd(p)
      PROVE  Since'
  BY <1>1, <1>8 DEF Columns, Since, EnqueueEnd, Commits, Puts, Inside
<1>9. ASSUME NEW j \in Jobs, Delete(j)
      PROVE  Since'
  BY <1>9 DEF Since, Delete
<1>10. CASE UNCHANGED ledgerVars
  BY <1>10 DEF Since, ledgerVars
<1>11. QED
  BY <1>3, <1>4, <1>5, <1>6, <1>7, <1>8, <1>9, <1>10 DEF LedgerNext

\* A refused enqueue takes nothing from the caller's transaction but its own
\* row, and leaves the lock that guards the others, at whatever step it fails.
THEOREM RefusalsAreLocal == LedgerSpec => RefusalIsLocal
<1>1. LedgerInit => Since
  BY DEF LedgerInit, Since, Inside
<1>2. CapacityInv /\ CapacityInv' /\ Since /\ [LedgerNext]_ledgerVars
        => [\A p \in Producers :
              nested[p] /\ at[p] \notin {"out", "caller"} /\ at'[p] = "caller"
                => own[p] \ {job[p]} \subseteq own'[p] /\ (own'[p] # {} => p \in lock')]_ledgerVars
  <2> SUFFICES ASSUME CapacityInv, CapacityInv', Since, [LedgerNext]_ledgerVars,
                      NEW p \in Producers,
                      nested[p], at[p] \notin {"out", "caller"}, at'[p] = "caller"
               PROVE  own[p] \ {job[p]} \subseteq own'[p] /\ (own'[p] # {} => p \in lock')
    OBVIOUS
  <2>1. own'[p] # {} => p \in lock'
    BY DEF CapacityInv, Guarded
  <2>2. at[p] \in Inside
    BY DEF CapacityInv, Columns, PC, Inside
  <2>3. Refuse(p) \/ EnqueueEnd(p)
    <3>1. ASSUME NEW q \in Producers, q # p, at'[p] # at[p]
          PROVE  ~(\/ \E rr \in BOOLEAN : CallerBegin(q, rr)
                   \/ CallerCommit(q) \/ Rollback(q)
                   \/ \E j \in Jobs : EnqueueBegin(q, j)
                   \/ TryLock(q) \/ Count(q) \/ Insert(q) \/ Fail(q) \/ EnqueueEnd(q))
      BY <3>1 DEF CapacityInv, Columns, CallerBegin, CallerCommit, Rollback, EnqueueBegin,
           TryLock, Count, Insert, Fail, EnqueueEnd, Commits, Refuse, Ends, Puts
    <3>2. at'[p] # at[p]
      OBVIOUS
    <3>3. /\ \A rr \in BOOLEAN : ~CallerBegin(p, rr)
          /\ ~CallerCommit(p) /\ ~Rollback(p)
          /\ \A j \in Jobs : ~EnqueueBegin(p, j) /\ ~Delete(j)
          /\ ~Insert(p)
      BY <2>2, <3>2 DEF CapacityInv, Columns, CallerBegin, CallerCommit, Rollback,
           EnqueueBegin, Insert, Delete, Ends, Puts, Inside
    <3>4. TryLock(p) \/ Count(p) \/ Fail(p) => Refuse(p)
      BY <2>2 DEF CapacityInv, Columns, TryLock, Count, Fail, Puts
    <3>5. QED
      BY <3>1, <3>2, <3>3, <3>4 DEF LedgerNext, ledgerVars, Delete
  <2>4. CASE Refuse(p)
    BY <2>1, <2>2, <2>4 DEF CapacityInv, Columns, Since, Refuse
  <2>5. CASE EnqueueEnd(p)
    BY <2>1, <2>5 DEF CapacityInv, Columns, EnqueueEnd
  <2>6. QED
    BY <2>1, <2>3, <2>4, <2>5
<1>3. CapacityInv => Columns
  BY DEF CapacityInv
<1>4. QED
  BY <1>1, <1>2, <1>3, SinceStep, CapacityInvariant, PTL DEF LedgerSpec, RefusalIsLocal

\* The payload of finitely many rows is finite.
LEMMA PayloadFinite ==
  ASSUME NEW S, S \subseteq Jobs
  PROVE  IsFiniteSet(Payload(S)) /\ Bytes(S) \in Nat
<1>1. IsFiniteSet(S)
  BY CapacityAssumption, FS_Subset
<1>2. \A j \in S : IsFiniteSet({j} \X (1..Size[j]))
  <2>1. TAKE j \in S
  <2>2. Size[j] \in Nat
    BY CapacityAssumption
  <2>3. IsFiniteSet({j})
    BY FS_Singleton
  <2>4. IsFiniteSet(1..Size[j])
    BY <2>2, 1 \in Int, Size[j] \in Int, FS_Interval
  <2>5. QED
    BY <2>3, <2>4, FS_Product
<1>3. IsFiniteSet({{j} \X (1..Size[j]) : j \in S})
  <2> DEFINE slots == [j \in S |-> {j} \X (1..Size[j])]
             T == {{j} \X (1..Size[j]) : j \in S}
  <2>1. slots \in Surjection(S, T)
    BY DEF Surjection
  <2>2. QED
    BY <1>1, <2>1, FS_Surjection
<1>4. IsFiniteSet(Payload(S))
  BY <1>2, <1>3, FS_UNION DEF Payload
<1>5. QED
  BY <1>4, FS_CardinalityType DEF Bytes

\* Fewer rows have no more bytes.
LEMMA FewerBytes ==
  ASSUME NEW A, NEW B, A \subseteq B, B \subseteq Jobs
  PROVE  Bytes(A) <= Bytes(B)
<1>1. IsFiniteSet(Payload(B)) /\ Payload(A) \subseteq Payload(B)
  BY PayloadFinite DEF Payload
<1>2. QED
  BY <1>1, FS_Subset DEF Bytes

\* One more row brings the bytes of its payload.
LEMMA MoreBytes ==
  ASSUME NEW S, S \subseteq Jobs, NEW j \in Jobs
  PROVE  Bytes(S \cup {j}) <= Bytes(S) + Size[j]
<1> DEFINE one == {j} \X (1..Size[j])
<1>1. Payload(S \cup {j}) = Payload(S) \cup one
  BY DEF Payload
<1>2. IsFiniteSet(Payload(S)) /\ Cardinality(Payload(S)) \in Nat
  BY PayloadFinite DEF Bytes
<1>3. Size[j] \in Nat
  BY CapacityAssumption
<1>4. IsFiniteSet(one) /\ Cardinality(one) = Size[j]
  <2>1. IsFiniteSet({j}) /\ Cardinality({j}) = 1
    BY FS_Singleton
  <2>2. /\ IsFiniteSet(1..Size[j])
        /\ Cardinality(1..Size[j]) = IF 1 > Size[j] THEN 0 ELSE Size[j] - 1 + 1
    BY <1>3, 1 \in Int, Size[j] \in Int, FS_Interval
  <2>3. Cardinality(1..Size[j]) = Size[j]
    BY <1>3, <2>2
  <2>4. IsFiniteSet(one) /\ Cardinality(one) = Cardinality({j}) * Cardinality(1..Size[j])
    BY <2>1, <2>2, FS_Product
  <2>5. QED
    BY <1>3, <2>1, <2>3, <2>4
<1> HIDE DEF one
<1>5. /\ Cardinality(Payload(S) \cup one)
           = Cardinality(Payload(S)) + Cardinality(one) - Cardinality(Payload(S) \cap one)
      /\ Cardinality(Payload(S) \cap one) \in Nat
      /\ Cardinality(Payload(S) \cup one) \in Nat
  <2>1. IsFiniteSet(Payload(S) \cap one) /\ IsFiniteSet(Payload(S) \cup one)
    BY <1>2, <1>4, FS_Intersection, FS_Union
  <2>2. QED
    BY <1>2, <1>4, <2>1, FS_Union, FS_CardinalityType
<1>6. Cardinality(Payload(S) \cup one) <= Cardinality(Payload(S)) + Size[j]
  BY <1>2, <1>3, <1>4, <1>5
<1>7. QED
  BY <1>1, <1>6 DEF Bytes

\* The payload that was counted still fits on top of everything retained.
BytesRoom == \A p \in Producers : at[p] = "counted" => Size[job[p]] <= MaxBytes - Bytes(Retained)

\* No step but an insert adds to what may be retained.
LEMMA OnlyInsertAdds ==
  ASSUME CapacityInv, [LedgerNext]_ledgerVars, ~ \E p \in Producers : Insert(p)
  PROVE  Retained' \subseteq Retained
<1>0. Columns /\ Guarded
  BY DEF CapacityInv
<1>1. ASSUME NEW p \in Producers, Ends(p), UNCHANGED rows \/ rows' = rows \cup own[p]
      PROVE  Retained' \subseteq Retained
  BY <1>0, <1>1 DEF Columns, Ends, Retained
<1>2. ASSUME NEW p \in Producers, Refuse(p), at[p] \in Inside PROVE Retained' \subseteq Retained
  <2>1. CASE nested[p]
    BY <1>0, <1>2, <2>1 DEF Columns, Guarded, Refuse, Retained
  <2>2. CASE ~nested[p]
    BY <1>1, <1>2, <2>2 DEF Refuse
  <2>3. QED
    BY <2>1, <2>2
<1>3. ASSUME NEW p \in Producers, TryLock(p) \/ Count(p) \/ Fail(p)
      PROVE  Retained' \subseteq Retained
  <2>1. Refuse(p) \/ UNCHANGED <<rows, own>>
    BY <1>3 DEF TryLock, Count, Fail
  <2>2. at[p] \in Inside
    BY <1>3 DEF TryLock, Count, Fail, Inside
  <2>3. QED
    BY <1>2, <2>1, <2>2 DEF Retained
<1>4. ASSUME NEW p \in Producers, NEW rr \in BOOLEAN, NEW j \in Jobs,
             CallerBegin(p, rr) \/ EnqueueBegin(p, j)
      PROVE  Retained' \subseteq Retained
  BY <1>4 DEF CallerBegin, EnqueueBegin, Retained
<1>5. ASSUME NEW p \in Producers, CallerCommit(p) \/ Rollback(p) \/ EnqueueEnd(p)
      PROVE  Retained' \subseteq Retained
  <2>1. \/ UNCHANGED <<rows, own>>
        \/ Ends(p) /\ (UNCHANGED rows \/ rows' = rows \cup own[p])
    BY <1>5 DEF CallerCommit, Rollback, EnqueueEnd, Commits
  <2>2. QED
    BY <1>1, <2>1 DEF Retained
<1>6. ASSUME NEW j \in Jobs, Delete(j) PROVE Retained' \subseteq Retained
  BY <1>6 DEF Delete, Retained
<1>7. CASE UNCHANGED ledgerVars
  BY <1>7 DEF ledgerVars, Retained
<1>8. QED
  BY <1>3, <1>4, <1>5, <1>6, <1>7, CapacityAssumption DEF LedgerNext

\* Only Count finds room, and only for the holder of the lock.
LEMMA CountedByCount ==
  ASSUME CapacityInv, [LedgerNext]_ledgerVars, NEW q \in Producers, at'[q] = "counted"
  PROVE  job'[q] = job[q] /\ (at[q] = "counted" \/ (Count(q) /\ Fits(Visible(q), job[q])))
<1>0. Columns
  BY DEF CapacityInv
<1>1. ASSUME NEW p \in Producers, Ends(p) PROVE q # p /\ at[q] = "counted" /\ job'[q] = job[q]
  BY <1>0, <1>1 DEF Columns, Ends, Puts
<1>2. ASSUME NEW p \in Producers, Refuse(p) PROVE q # p /\ at[q] = "counted" /\ job'[q] = job[q]
  BY <1>0, <1>1, <1>2 DEF Columns, Refuse, Puts
<1>3. ASSUME NEW p \in Producers, Count(p)
      PROVE  job'[q] = job[q] /\ (at[q] = "counted" \/ (Count(q) /\ Fits(Visible(q), job[q])))
  <2>1. CASE Fits(Visible(p), job[p])
    <3>1. at' = [at EXCEPT ![p] = "counted"] /\ UNCHANGED job
      BY <1>3, <2>1 DEF Count, Puts
    <3>2. CASE q = p
      BY <1>3, <2>1, <3>1, <3>2
    <3>3. CASE q # p
      BY <1>0, <3>1, <3>3 DEF Columns
    <3>4. QED
      BY <3>2, <3>3
  <2>2. CASE ~Fits(Visible(p), job[p])
    BY <1>2, <1>3, <2>2 DEF Count
  <2>3. QED
    BY <2>1, <2>2
<1>4. ASSUME NEW p \in Producers, TryLock(p) \/ Fail(p) \/ Insert(p) \/ EnqueueEnd(p)
      PROVE  job'[q] = job[q] /\ at[q] = "counted"
  BY <1>0, <1>1, <1>2, <1>4 DEF Columns, TryLock, Fail, Insert, EnqueueEnd, Commits, Puts
<1>5. ASSUME NEW p \in Producers, NEW rr \in BOOLEAN, NEW j \in Jobs,
             CallerBegin(p, rr) \/ EnqueueBegin(p, j)
      PROVE  job'[q] = job[q] /\ at[q] = "counted"
  BY <1>0, <1>5 DEF Columns, CallerBegin, EnqueueBegin, Puts
<1>6. ASSUME NEW p \in Producers, CallerCommit(p) \/ Rollback(p)
      PROVE  job'[q] = job[q] /\ at[q] = "counted"
  BY <1>1, <1>6 DEF CallerCommit, Commits, Rollback
<1>7. ASSUME NEW j \in Jobs, Delete(j) PROVE job'[q] = job[q] /\ at[q] = "counted"
  BY <1>7 DEF Delete
<1>8. CASE UNCHANGED ledgerVars
  BY <1>8 DEF ledgerVars
<1>9. QED
  BY <1>3, <1>4, <1>5, <1>6, <1>7, <1>8, CapacityAssumption DEF LedgerNext

\* What was counted under the lock is what the insert adds to.
LEMMA BytesStep ==
  ASSUME CapacityInv, CapacityInv', BytesRoom, BytesBounded, [LedgerNext]_ledgerVars
  PROVE  BytesRoom' /\ BytesBounded'
<1>0. /\ Retained \subseteq Jobs /\ Retained' \subseteq Jobs
      /\ Bytes(Retained) \in Nat /\ Bytes(Retained') \in Nat /\ MaxBytes \in Nat
      /\ \A p \in Producers : job[p] \in Jobs /\ Size[job[p]] \in Nat
  <2>1. Retained \subseteq Jobs /\ Retained' \subseteq Jobs /\ \A p \in Producers : job[p] \in Jobs
    BY DEF CapacityInv, Columns, Retained
  <2>2. QED
    BY <2>1, PayloadFinite, CapacityAssumption
<1>1. CASE \E p \in Producers : Insert(p)
  <2>1. PICK p \in Producers : Insert(p)
    BY <1>1
  <2>2. at[p] = "counted" /\ p \in lock /\ lock' = lock /\ rows' = rows /\ at'[p] = "inserted"
    BY <2>1 DEF Insert, Puts, CapacityInv, Columns, Guarded, Decided
  <2>3. Retained = rows \cup own[p]
    BY <2>2, HolderSeesAll DEF CapacityInv
  <2>4. Retained' = Retained \cup {job[p]}
    <3>1. own'[p] = own[p] \cup {job[p]} /\ \A q \in Producers \ {p} : own'[q] = own[q]
      BY <2>1 DEF Insert, CapacityInv, Columns
    <3>2. QED
      BY <2>2, <3>1 DEF Retained
  <2>5. Bytes(Retained') <= Bytes(Retained) + Size[job[p]]
    BY <1>0, <2>4, MoreBytes
  <2>6. BytesBounded'
    BY <1>0, <2>2, <2>5 DEF BytesRoom, BytesBounded
  <2>7. BytesRoom'
    <3>1. \A q \in Producers : at'[q] = "counted" => q \in lock'
      BY DEF CapacityInv, Guarded, Decided
    <3>2. \A q \in Producers : at'[q] = "counted" => q = p
      BY <2>2, <3>1 DEF CapacityInv, Exclusive
    <3>3. QED
      BY <2>2, <3>2 DEF BytesRoom
  <2>8. QED
    BY <2>6, <2>7
<1>2. CASE ~ \E p \in Producers : Insert(p)
  <2>1. Bytes(Retained') <= Bytes(Retained)
    BY <1>0, <1>2, OnlyInsertAdds, FewerBytes
  <2>2. BytesBounded'
    BY <1>0, <2>1 DEF BytesBounded
  <2>3. ASSUME NEW q \in Producers, at'[q] = "counted"
        PROVE  Size[job'[q]] <= MaxBytes - Bytes(Retained')
    <3>1. job'[q] = job[q] /\ (at[q] = "counted" \/ (Count(q) /\ Fits(Visible(q), job[q])))
      BY <2>3, CountedByCount
    <3>2. Size[job[q]] <= MaxBytes - Bytes(Retained)
      <4>1. CASE at[q] = "counted"
        BY <4>1 DEF BytesRoom
      <4>2. CASE Count(q) /\ Fits(Visible(q), job[q])
        <5>1. q \in lock /\ ~repeatable[q]
          BY <4>2 DEF Count, CapacityInv, Guarded, Decided
        <5>2. Visible(q) = Retained
          BY <5>1, HolderSeesAll DEF Visible, CapacityInv
        <5>3. QED
          BY <4>2, <5>2 DEF Fits
      <4>3. QED
        BY <3>1, <4>1, <4>2
    <3>3. QED
      BY <1>0, <2>1, <3>1, <3>2
  <2>4. QED
    BY <2>2, <2>3 DEF BytesRoom
<1>3. QED
  BY <1>1, <1>2

\* The retained payload bytes never exceed the capacity, counting those of every
\* transaction that may still commit.
THEOREM BytesCapacity == LedgerSpec => []BytesBounded
<1>1. LedgerInit => BytesRoom /\ BytesBounded
  <2> SUFFICES ASSUME LedgerInit PROVE BytesRoom /\ BytesBounded
    OBVIOUS
  <2>1. Payload(Retained) = {}
    BY DEF LedgerInit, Retained, Payload
  <2>2. QED
    BY <2>1, FS_EmptySet, CapacityAssumption DEF LedgerInit, BytesRoom, BytesBounded, Bytes
<1>2. QED
  BY <1>1, CapacityInvariant, BytesStep, PTL DEF LedgerSpec
==============================================================================
