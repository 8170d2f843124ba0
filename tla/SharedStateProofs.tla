------------------------- MODULE SharedStateProofs -------------------------
(* What requests and instances share: the idempotency receipts, with one    *)
(* effect per retention and truthful answers, for any clients, keys,        *)
(* capacities and clocks; the cached feature overrides, for any callers,    *)
(* writers and time to live: an entry is freed by its last holder only,     *)
(* and, where no hook writes overrides, a call sees every override it must; *)
(* and the distributed schedule, with exclusion inside a lease and one      *)
(* accepted success per occurrence, for any instances, leases, backoffs and *)
(* cadence.                                                                 *)
EXTENDS Idempotency, FeatureCache, DistributedSchedule, FiniteSetTheorems, TLAPS

\* No attempt is ahead of the clock.
NowsPast == \A c \in Clients : saw[c] <= clock

\* A receipt is that of the last mutation under its key, and is missing only
\* before the first one or after it ran out.
Faithful ==
  \A k \in Keys :
    /\ receipts[k] # None => receipts[k] = effect[k]
    /\ effect[k] # None /\ receipts[k] = None => effect[k].expires <= clock

ReceiptInv == ReceiptsTypeOK /\ NowsPast /\ Faithful

\* ReceiptsInit establishes the invariant.
LEMMA ReceiptInit == ReceiptsInit => ReceiptInv
<1> SUFFICES ASSUME ReceiptsInit PROVE ReceiptInv
  OBVIOUS
<1>1. receipts \in [Scopes -> Receipts \cup {None}]
  <2>1. OldReceipt \in Receipts
    <3>1. (CHOOSE p \in Payloads : TRUE) \in Payloads
      BY IdempotencyAssumption
    <3>2. QED
      BY <3>1 DEF OldReceipt, Receipts
  <2>2. QED
    BY <2>1 DEF ReceiptsInit
<1>2. ReceiptsTypeOK
  BY <1>1 DEF ReceiptsInit, ReceiptsTypeOK
<1>3. \A k \in Keys : receipts[k] = None
  BY IdempotencyAssumption DEF ReceiptsInit, Scopes
<1>4. QED
  BY <1>2, <1>3 DEF ReceiptsInit, ReceiptInv, NowsPast, Faithful

\* A cleaned table keeps every receipt but expired ones.
LEMMA CleanedKeeps ==
  ASSUME ReceiptsTypeOK, NEW c \in Clients, NEW r \in Cleaned(c)
  PROVE  /\ r \in [Scopes -> Receipts \cup {None}]
         /\ \A s \in Scopes :
              \/ r[s] = receipts[s]
              \/ r[s] = None /\ receipts[s] # None /\ receipts[s].expires <= saw[c]
<1>1. PICK gone \in SUBSET Expired(receipts, c) : r = Without(receipts, gone)
  BY DEF Cleaned
<1>2. QED
  BY <1>1 DEF ReceiptsTypeOK, Without, Expired, Present

\* The same holds for the dropped receipt, when no live one is there.
LEMMA DroppedKeeps ==
  ASSUME ReceiptsTypeOK, NEW c \in Clients, NEW r \in Cleaned(c), ~Kept(r, c)
  PROVE  /\ Dropped(r, c) \in [Scopes -> Receipts \cup {None}]
         /\ \A s \in Scopes :
              \/ Dropped(r, c)[s] = receipts[s]
              \/ Dropped(r, c)[s] = None /\ receipts[s] # None /\ receipts[s].expires <= saw[c]
<1>1. key[c] \in Scopes
  BY DEF ReceiptsTypeOK, Scopes
<1>2. r \in [Scopes -> Receipts \cup {None}]
  BY CleanedKeeps
<1>3. Dropped(r, c) \in [Scopes -> Receipts \cup {None}]
  BY <1>2 DEF Dropped, Without
<1>4. ASSUME NEW s \in Scopes, s # key[c]
      PROVE  Dropped(r, c)[s] = r[s]
  BY <1>4 DEF Dropped, Without
<1>5. Dropped(r, c)[key[c]] = None
  BY <1>1 DEF Dropped, Without
<1>6. r[key[c]] # None => r[key[c]].expires <= saw[c]
  <2>1. r[key[c]] # None => r[key[c]].expires \in Nat /\ saw[c] \in Nat
    BY <1>1, <1>2 DEF Receipts, ReceiptsTypeOK
  <2>2. QED
    BY <2>1 DEF Kept
<1>7. QED
  BY <1>1, <1>3, <1>4, <1>5, <1>6, CleanedKeeps

\* Losing expired receipts only keeps the table faithful.
LEMMA StaysFaithful ==
  ASSUME ReceiptInv, NEW c \in Clients,
         UNCHANGED <<effect, clock>>,
         \A s \in Scopes :
           \/ receipts'[s] = receipts[s]
           \/ receipts'[s] = None /\ receipts[s] # None /\ receipts[s].expires <= saw[c]
  PROVE  Faithful'
<1> SUFFICES ASSUME NEW k \in Keys
             PROVE  /\ receipts'[k] # None => receipts'[k] = effect[k]
                    /\ effect[k] # None /\ receipts'[k] = None => effect[k].expires <= clock
  BY DEF Faithful
<1>1. k \in Scopes
  BY DEF Scopes
<1>2. CASE receipts'[k] = receipts[k]
  BY <1>2 DEF ReceiptInv, Faithful
<1>3. CASE receipts'[k] = None /\ receipts[k] # None /\ receipts[k].expires <= saw[c]
  <2>1. effect[k] = receipts[k] /\ saw[c] <= clock
    BY <1>3 DEF ReceiptInv, Faithful, NowsPast
  <2>2. receipts[k].expires \in Nat /\ saw[c] \in Nat /\ clock \in Nat
    BY <1>1, <1>3 DEF ReceiptInv, ReceiptsTypeOK, Receipts
  <2>3. QED
    BY <1>3, <2>1, <2>2
<1>4. QED
  BY <1>1, <1>2, <1>3

\* What a mutation does to the table: its receipt replaces one that ran out.
LEMMA MutateStep ==
  ASSUME ReceiptInv, NEW c \in Clients, Mutate(c)
  PROVE  /\ effect' \in [Keys -> Receipts \cup {None}]
         /\ receipts' \in [Scopes -> Receipts \cup {None}]
         /\ Faithful'
         /\ effect'[key[c]].payload = payload[c] /\ effect'[key[c]].result = effects + 1
         /\ \A k \in Keys : effect[k] # None /\ effect'[k] # effect[k] => effect[k].expires <= clock
<1>0. ReceiptsTypeOK
  BY DEF ReceiptInv
<1> DEFINE receipt == [payload |-> payload[c], result |-> effects + 1, expires |-> saw[c] + Retention]
<1>1. PICK r \in Cleaned(c) :
        /\ ~Kept(r, c)
        /\ receipts' = [Dropped(r, c) EXCEPT ![key[c]] = receipt]
        /\ effect' = [effect EXCEPT ![key[c]] = receipt]
  BY DEF Mutate
<1>2. receipt \in Receipts
  <2>1. saw[c] + Retention \in Nat /\ effects + 1 \in Nat /\ payload[c] \in Payloads
    BY <1>0, IdempotencyAssumption DEF ReceiptsTypeOK
  <2>2. QED
    BY <2>1 DEF Receipts
<1>3. key[c] \in Keys /\ key[c] \in Scopes
  BY <1>0 DEF ReceiptsTypeOK, Scopes
<1>4. receipts' \in [Scopes -> Receipts \cup {None}]
  BY <1>0, <1>1, <1>2, DroppedKeeps
<1>5. effect' \in [Keys -> Receipts \cup {None}]
  BY <1>0, <1>1, <1>2 DEF ReceiptsTypeOK
<1>6. effect'[key[c]] = receipt /\ receipts'[key[c]] = receipt
  <2>1. Dropped(r, c) \in [Scopes -> Receipts \cup {None}]
    BY <1>0, <1>1, DroppedKeeps
  <2>2. QED
    BY <1>0, <1>1, <1>3, <2>1 DEF ReceiptsTypeOK
<1>7. effect'[key[c]].payload = payload[c] /\ effect'[key[c]].result = effects + 1
  BY <1>6
<1>8. \A s \in Scopes \ {key[c]} : receipts'[s] = Dropped(r, c)[s]
  BY <1>0, <1>1, DroppedKeeps
<1>9. \A k \in Keys \ {key[c]} : effect'[k] = effect[k]
  BY <1>0, <1>1 DEF ReceiptsTypeOK
<1>10. clock' = clock /\ clock \in Nat /\ saw[c] \in Nat /\ saw[c] <= clock
  BY <1>0 DEF Mutate, ReceiptsTypeOK, ReceiptInv, NowsPast
<1>11. \A s \in Scopes : receipts[s] # None => receipts[s].expires \in Nat
  BY <1>0 DEF ReceiptsTypeOK, Receipts
<1>12. ASSUME NEW k \in Keys, effect[k] # None, Dropped(r, c)[k] = None
       PROVE  effect[k].expires <= clock
  <2>1. k \in Scopes
    BY DEF Scopes
  <2>2. CASE receipts[k] = None
    BY <1>12, <2>2 DEF ReceiptInv, Faithful
  <2>3. CASE receipts[k] # None
    <3>1. receipts[k] = effect[k]
      BY <2>3 DEF ReceiptInv, Faithful
    <3>2. receipts[k].expires <= saw[c]
      BY <1>0, <1>1, <1>12, <2>1, <2>3, DroppedKeeps
    <3>3. QED
      BY <1>10, <1>11, <2>1, <2>3, <3>1, <3>2
  <2>4. QED
    BY <2>2, <2>3
<1>13. ASSUME NEW k \in Keys
       PROVE  /\ receipts'[k] # None => receipts'[k] = effect'[k]
              /\ effect'[k] # None /\ receipts'[k] = None => effect'[k].expires <= clock'
  <2>1. CASE k = key[c]
    BY <1>2, <1>6, <2>1, IdempotencyAssumption
  <2>2. CASE k # key[c]
    <3>1. k \in Scopes /\ receipts'[k] = Dropped(r, c)[k] /\ effect'[k] = effect[k]
      BY <1>8, <1>9, <2>2 DEF Scopes
    <3>2. Dropped(r, c)[k] # None => Dropped(r, c)[k] = receipts[k]
      BY <1>0, <1>1, <3>1, DroppedKeeps
    <3>3. receipts'[k] # None => receipts'[k] = effect'[k]
      BY <3>1, <3>2 DEF ReceiptInv, Faithful
    <3>4. QED
      BY <1>10, <1>12, <3>1, <3>3
  <2>3. QED
    BY <2>1, <2>2
<1>14. Faithful'
  BY <1>13 DEF Faithful
<1>15. ASSUME NEW k \in Keys, effect[k] # None, effect'[k] # effect[k]
       PROVE  effect[k].expires <= clock
  <2>1. k = key[c]
    BY <1>9, <1>15
  <2>2. Dropped(r, c)[k] = None
    BY <1>3, <2>1 DEF Dropped, Without
  <2>3. QED
    BY <1>12, <1>15, <2>2
<1>16. QED
  BY <1>4, <1>5, <1>7, <1>14, <1>15

\* Every step keeps the types.
LEMMA ReceiptType == ReceiptInv /\ [ReceiptsNext]_receiptsVars => ReceiptsTypeOK'
<1> SUFFICES ASSUME ReceiptInv, [ReceiptsNext]_receiptsVars PROVE ReceiptsTypeOK'
  OBVIOUS
<1>0. ReceiptsTypeOK
  BY DEF ReceiptInv
<1>1. ASSUME NEW c \in Clients, Attempt(c) PROVE ReceiptsTypeOK'
  BY <1>0, <1>1 DEF Attempt, Goes, ReceiptsTypeOK, client
<1>2. ASSUME NEW c \in Clients, RolledBack(c) \/ PayloadConflict(c) PROVE ReceiptsTypeOK'
  BY <1>0, <1>2 DEF RolledBack, PayloadConflict, Goes, ReceiptsTypeOK, client
<1>3. ASSUME NEW c \in Clients, Replay(c) PROVE ReceiptsTypeOK'
  <2>1. PICK r \in Cleaned(c) :
          /\ Kept(r, c) /\ receipts' = r
          /\ \/ Goes(c, "done") /\ answer' = [answer EXCEPT ![c] = r[key[c]].result]
             \/ Goes(c, "idle") /\ UNCHANGED answer
    BY <1>3 DEF Replay
  <2>2. r \in [Scopes -> Receipts \cup {None}]
    BY <1>0, CleanedKeeps
  <2>3. r[key[c]].result \in Nat
    <3>1. key[c] \in Scopes
      BY <1>0 DEF ReceiptsTypeOK, Scopes
    <3>2. r[key[c]] \in Receipts
      BY <2>1, <2>2, <3>1 DEF Kept
    <3>3. QED
      BY <3>2 DEF Receipts
  <2>4. at' \in [Clients -> {"idle", "waiting", "done"}] /\ answer' \in [Clients -> Nat]
    BY <1>0, <2>1, <2>3 DEF Goes, ReceiptsTypeOK
  <2>5. QED
    BY <1>0, <1>3, <2>1, <2>2, <2>4 DEF Replay, ReceiptsTypeOK, client
<1>4. ASSUME NEW c \in Clients, Refused(c) PROVE ReceiptsTypeOK'
  BY <1>0, <1>4, DroppedKeeps DEF Refused, Goes, ReceiptsTypeOK, client
<1>5. ASSUME NEW c \in Clients, Mutate(c) PROVE ReceiptsTypeOK'
  <2>1. /\ receipts' \in [Scopes -> Receipts \cup {None}]
        /\ effect' \in [Keys -> Receipts \cup {None}]
    BY <1>5, MutateStep
  <2>2. effects' \in Nat /\ answer' \in [Clients -> Nat]
    BY <1>0, <1>5 DEF Mutate, ReceiptsTypeOK
  <2>3. QED
    BY <1>0, <1>5, <2>1, <2>2 DEF Mutate, Goes, ReceiptsTypeOK, client
<1>6. CASE ReceiptsTick
  BY <1>0, <1>6 DEF ReceiptsTick, ReceiptsTypeOK, client
<1>7. CASE UNCHANGED receiptsVars
  BY <1>0, <1>7 DEF receiptsVars, ReceiptsTypeOK, client
<1>8. QED
  BY <1>1, <1>2, <1>3, <1>4, <1>5, <1>6, <1>7 DEF ReceiptsNext, Execute

\* The table stays faithful to what took effect.
THEOREM ReceiptInvariant == ReceiptsSpec => []ReceiptInv
<1>1. ReceiptInv /\ [ReceiptsNext]_receiptsVars => ReceiptInv'
  <2> SUFFICES ASSUME ReceiptInv, [ReceiptsNext]_receiptsVars PROVE NowsPast' /\ Faithful'
    BY ReceiptType DEF ReceiptInv
  <2>0. ReceiptsTypeOK
    BY DEF ReceiptInv
  <2>1. NowsPast'
    <3>1. ASSUME NEW c \in Clients, Attempt(c) PROVE NowsPast'
      BY <2>0, <3>1 DEF Attempt, ReceiptInv, NowsPast, ReceiptsTypeOK
    <3>2. CASE UNCHANGED <<saw, clock>>
      BY <3>2 DEF ReceiptInv, NowsPast
    <3>3. CASE ReceiptsTick
      BY <2>0, <3>3 DEF ReceiptsTick, ReceiptInv, NowsPast, ReceiptsTypeOK
    <3>4. QED
      BY <3>1, <3>2, <3>3
         DEF ReceiptsNext, Execute, RolledBack, PayloadConflict, Replay, Refused, Mutate, receiptsVars
  <2>2. Faithful'
    <3>1. CASE UNCHANGED <<receipts, effect, clock>>
      BY <3>1 DEF ReceiptInv, Faithful
    <3>2. ASSUME NEW c \in Clients, Replay(c) PROVE Faithful'
      BY <2>0, <3>2, CleanedKeeps, StaysFaithful DEF Replay
    <3>3. ASSUME NEW c \in Clients, Refused(c) PROVE Faithful'
      BY <2>0, <3>3, DroppedKeeps, StaysFaithful DEF Refused
    <3>4. ASSUME NEW c \in Clients, Mutate(c) PROVE Faithful'
      BY <3>4, MutateStep
    <3>5. CASE ReceiptsTick
      <4>1. \A k \in Keys : effect[k] # None => effect[k].expires \in Nat
        BY <2>0 DEF ReceiptsTypeOK, Receipts
      <4>2. clock \in Nat /\ clock' = clock + 1 /\ UNCHANGED <<receipts, effect>>
        BY <2>0, <3>5 DEF ReceiptsTick, ReceiptsTypeOK
      <4>3. QED
        BY <4>1, <4>2 DEF ReceiptInv, Faithful
    <3>6. QED
      BY <3>1, <3>2, <3>3, <3>4, <3>5
         DEF ReceiptsNext, Execute, Attempt, RolledBack, PayloadConflict, receiptsVars
  <2>3. QED
    BY <2>1, <2>2
<1>2. QED
  BY <1>1, ReceiptInit, PTL DEF ReceiptsSpec

\* execute() never lets an operation take effect twice within its retention,
\* however late, lost or repeated the attempts are.
THEOREM EffectsOncePerRetention == ReceiptsSpec => OncePerRetention
<1>1. ReceiptInv /\ [ReceiptsNext]_receiptsVars
        => [\A k \in Keys : effect[k] # None /\ effect'[k] # effect[k]
              => effect[k].expires <= clock]_receiptsVars
  <2> SUFFICES ASSUME ReceiptInv, ReceiptsNext
               PROVE  \A k \in Keys : effect[k] # None /\ effect'[k] # effect[k]
                        => effect[k].expires <= clock
    OBVIOUS
  <2>1. CASE UNCHANGED effect
    BY <2>1
  <2>2. ASSUME NEW c \in Clients, Mutate(c)
        PROVE  \A k \in Keys : effect[k] # None /\ effect'[k] # effect[k]
                 => effect[k].expires <= clock
    BY <2>2, MutateStep
  <2>3. QED
    BY <2>1, <2>2 DEF ReceiptsNext, Execute, Attempt, RolledBack, PayloadConflict, Replay, Refused, ReceiptsTick
<1>2. QED
  BY <1>1, ReceiptInvariant, PTL DEF ReceiptsSpec, OncePerRetention

\* What execute() answers is the result of the last operation under the key,
\* and that operation had the payload of the attempt.
THEOREM TruthfulAnswers == ReceiptsSpec => AnswersMatch
<1>1. ReceiptInv /\ [ReceiptsNext]_receiptsVars
        => [\A c \in Clients : answer'[c] # answer[c]
              => /\ effect'[key[c]].result = answer'[c]
                 /\ effect'[key[c]].payload = payload[c]]_receiptsVars
  <2> SUFFICES ASSUME ReceiptInv, ReceiptsNext, NEW c \in Clients, answer'[c] # answer[c]
               PROVE  /\ effect'[key[c]].result = answer'[c]
                      /\ effect'[key[c]].payload = payload[c]
    OBVIOUS
  <2>0. ReceiptsTypeOK
    BY DEF ReceiptInv
  <2>2. CASE Replay(c)
    <3>1. PICK r \in Cleaned(c) :
            Kept(r, c) /\ r[key[c]].payload = payload[c] /\ answer'[c] = r[key[c]].result
      BY <2>0, <2>2 DEF Replay, ReceiptsTypeOK
    <3>2. key[c] \in Keys /\ key[c] \in Scopes
      BY <2>0 DEF ReceiptsTypeOK, Scopes
    <3>3. r[key[c]] = receipts[key[c]] /\ receipts[key[c]] # None
      BY <2>0, <3>1, <3>2, CleanedKeeps DEF Kept
    <3>4. receipts[key[c]] = effect[key[c]]
      BY <3>2, <3>3 DEF ReceiptInv, Faithful
    <3>5. QED
      BY <2>2, <3>1, <3>3, <3>4 DEF Replay
  <2>3. CASE Mutate(c)
    <3>1. answer'[c] = effects + 1
      BY <2>0, <2>3 DEF Mutate, ReceiptsTypeOK
    <3>2. QED
      BY <2>3, <3>1, MutateStep
  <2>4. ASSUME NEW d \in Clients, Replay(d) \/ Mutate(d) PROVE d = c
    BY <2>0, <2>4 DEF Replay, Mutate, ReceiptsTypeOK
  <2>5. \E d \in Clients : Replay(d) \/ Mutate(d)
    BY DEF ReceiptsNext, Execute, Attempt, RolledBack, PayloadConflict, Refused, ReceiptsTick
  <2>6. QED
    BY <2>2, <2>3, <2>4, <2>5
<1>2. QED
  BY <1>1, ReceiptInvariant, PTL DEF ReceiptsSpec, AnswersMatch

\* The set of receipts is finite, and so are its subsets.
LEMMA FiniteTable ==
  ASSUME NEW r, NEW S \in SUBSET Present(r)
  PROVE  /\ IsFiniteSet(S) /\ Cardinality(S) \in Nat
         /\ Cardinality(S) <= Cardinality(Present(r))
<1>1. IsFiniteSet(Scopes)
  BY FS_Union, IdempotencyAssumption DEF Scopes
<1>2. Present(r) \subseteq Scopes
  BY DEF Present
<1>3. IsFiniteSet(Present(r))
  BY <1>1, <1>2, FS_Subset
<1>4. QED
  BY <1>3, FS_Subset, FS_CardinalityType

\* A mutation adds one receipt to a table that had room for it.
LEMMA MutateFits ==
  ASSUME ReceiptInv, NEW c \in Clients, Mutate(c)
  PROVE  Cardinality(Present(receipts')) <= MaxEntries
<1>0. ReceiptsTypeOK /\ key[c] \in Scopes
  BY DEF ReceiptInv, ReceiptsTypeOK, Scopes
<1>1. PICK r \in Cleaned(c) :
        /\ ~Kept(r, c) /\ ~Full(r, c)
        /\ receipts' = [Dropped(r, c) EXCEPT ![key[c]] =
             [payload |-> payload[c], result |-> effects + 1, expires |-> saw[c] + Retention]]
  BY DEF Mutate
<1>2. [payload |-> payload[c], result |-> effects + 1, expires |-> saw[c] + Retention] # None
  <2>1. payload[c] \in Payloads /\ effects + 1 \in Nat /\ saw[c] + Retention \in Nat
    BY <1>0, IdempotencyAssumption DEF ReceiptsTypeOK
  <2>2. QED
    BY <2>1, IdempotencyAssumption DEF Receipts
<1>3. Dropped(r, c) \in [Scopes -> Receipts \cup {None}]
  BY <1>0, <1>1, DroppedKeeps
<1>4. Present(receipts') = Present(Dropped(r, c)) \cup {key[c]}
  BY <1>0, <1>1, <1>2, <1>3 DEF Present
<1>5. IsFiniteSet(Present(Dropped(r, c))) /\ Cardinality(Present(Dropped(r, c))) \in Nat
  BY FiniteTable
<1>6. Cardinality(Present(Dropped(r, c))) < MaxEntries
  BY <1>1, <1>5, IdempotencyAssumption DEF Full
<1>7. Cardinality(Present(receipts')) <= Cardinality(Present(Dropped(r, c))) + 1
  BY <1>4, <1>5, FS_AddElement
<1>8. Cardinality(Present(receipts')) \in Nat
  BY FiniteTable
<1>9. QED
  BY <1>5, <1>6, <1>7, <1>8, IdempotencyAssumption

\* Every other step adds no receipt.
LEMMA NoneAdded ==
  ASSUME ReceiptInv, [ReceiptsNext]_receiptsVars, \A c \in Clients : ~Mutate(c)
  PROVE  Present(receipts') \subseteq Present(receipts)
<1>0. ReceiptsTypeOK
  BY DEF ReceiptInv
<1>1. ASSUME NEW c \in Clients, Replay(c)
      PROVE  Present(receipts') \subseteq Present(receipts)
  BY <1>0, <1>1, CleanedKeeps DEF Replay, Present
<1>2. ASSUME NEW c \in Clients, Refused(c)
      PROVE  Present(receipts') \subseteq Present(receipts)
  BY <1>0, <1>2, DroppedKeeps DEF Refused, Present
<1>3. CASE UNCHANGED receipts
  BY <1>3
<1>4. QED
  BY <1>1, <1>2, <1>3 DEF ReceiptsNext, Execute, Attempt, RolledBack, PayloadConflict,
       ReceiptsTick, receiptsVars

\* A ledger never grows beyond max_entries, and one that is beyond it (left by a
\* build with a larger limit) does not grow at all.
THEOREM LedgerCapacity == ReceiptsSpec => CapacityKept
<1>1. ReceiptInv /\ [ReceiptsNext]_receiptsVars
        => [Cardinality(Present(receipts')) > Cardinality(Present(receipts))
              => Cardinality(Present(receipts')) <= MaxEntries]_receiptsVars
  <2> SUFFICES ASSUME ReceiptInv, [ReceiptsNext]_receiptsVars,
                      Cardinality(Present(receipts')) > Cardinality(Present(receipts))
               PROVE  Cardinality(Present(receipts')) <= MaxEntries
    OBVIOUS
  <2>1. CASE \E c \in Clients : Mutate(c)
    BY <2>1, MutateFits
  <2>2. CASE \A c \in Clients : ~Mutate(c)
    <3>1. Present(receipts') \subseteq Present(receipts)
      BY <2>2, NoneAdded
    <3>2. /\ Cardinality(Present(receipts')) <= Cardinality(Present(receipts))
          /\ Cardinality(Present(receipts')) \in Nat
      BY <3>1, FiniteTable
    <3>3. Cardinality(Present(receipts)) \in Nat
      BY FiniteTable
    <3>4. QED
      BY <3>2, <3>3
  <2>3. QED
    BY <2>1, <2>2
<1>2. QED
  BY <1>1, ReceiptInvariant, PTL DEF ReceiptsSpec, CapacityKept

-----------------------------------------------------------------------------
Maybe == Slots \cup {Null}
Calls == [pc : {"idle", "timed", "missed", "scanned", "detached", "using"}, began : 0..MaxTime,
          gen : Nat, using : Maybe, old : Maybe, owed : Nat, stale : BOOLEAN]

Shapes ==
  /\ kv \in Nat /\ kvAt \in [0..MaxTime -> Nat] /\ millis \in 0..MaxTime
  /\ version \in Nat /\ due \in Nat
  /\ entry \in [Slots -> Entries \cup {Null}] /\ current \in Maybe
  /\ call \in [Callers -> Calls]
  /\ setter \in [Setters -> {"idle", "written", "noted", "committed"}]

\* A call holds an entry from its scan or its hit on, and the replaced one until Detach.
Handles ==
  \A c \in Callers :
    /\ call[c].pc \in {"idle", "timed", "missed"} => call[c].using = Null
    /\ call[c].pc \in {"scanned", "detached"} => call[c].using # Null
    /\ call[c].pc = "detached" <=> call[c].old # Null

RefInv == Shapes /\ Handles /\ RefsExact

\* Nothing due is newer than what is committed, nor is the past.
Past ==
  /\ due <= kv /\ \A t \in 0..MaxTime : kvAt[t] <= kv
  /\ \A c \in Callers : call[c].began <= millis /\ call[c].gen <= version

\* What a call must see was due when it began, or was committed ttl_ms before.
Owing ==
  \A c \in Callers : call[c].pc \in {"timed", "missed"} =>
    /\ call[c].owed <= kv
    /\ \/ call[c].owed <= due
       \/ ttl_ms <= call[c].began /\ call[c].owed <= kvAt[call[c].began - ttl_ms]

\* An entry of the present version has all that is due, and each has what was
\* committed before the instant its scan began in.
Truthful(s) ==
  /\ entry[s].loaded_version <= version /\ entry[s].loaded_at_ms <= millis
  /\ entry[s].loaded_version = version => due <= entry[s].map
  /\ \A t \in 0..MaxTime : t < entry[s].loaded_at_ms => kvAt[t] <= entry[s].map

\* Whoever has a commit behind its first invalidation is in ctx.tx.
Renewing == \A w \in Setters : setter[w] \in {"noted", "committed"} => w \in InTx

TimeInv ==
  /\ Past /\ Owing /\ Renewing /\ NeverStale
  /\ \A s \in Slots : entry[s] # Null => Truthful(s)

\* No entry appears or changes, except in its references.
KeptEntries ==
  \A s \in Slots : entry'[s] # Null =>
    /\ entry[s] # Null
    /\ entry'[s].map = entry[s].map /\ entry'[s].loaded_version = entry[s].loaded_version
    /\ entry'[s].loaded_at_ms = entry[s].loaded_at_ms

-----------------------------------------------------------------------------
Users(s) == {c \in Callers : call[c].using = s}
Leavers(s) == {c \in Callers : call[c].old = s}
One(P) == IF P THEN 1 ELSE 0

\* What a step of one call does to the number of those who hold an entry.
LEMMA Recount ==
  ASSUME call \in [Callers -> Calls], NEW c \in Callers, NEW r \in Calls, Becomes(c, r), NEW s \in Slots
  PROVE  /\ Cardinality(Users(s)') = Cardinality(Users(s)) + One(r.using = s) - One(call[c].using = s)
         /\ Cardinality(Leavers(s)') = Cardinality(Leavers(s)) + One(r.old = s) - One(call[c].old = s)
         /\ Cardinality(Users(s)) \in Nat /\ Cardinality(Leavers(s)) \in Nat
         /\ call[c].using = s => Cardinality(Users(s)) > 0
         /\ call[c].old = s => Cardinality(Leavers(s)) > 0
<1>1. IsFiniteSet(Users(s)) /\ IsFiniteSet(Leavers(s))
  BY FS_Subset, CacheAssumption DEF Users, Leavers
<1>2. Cardinality(Users(s)) \in Nat /\ Cardinality(Leavers(s)) \in Nat
  BY <1>1, FS_CardinalityType
<1>3. call'[c] = r /\ \A d \in Callers \ {c} : call'[d] = call[d]
  BY DEF Becomes
<1>4. Users(s)' = IF r.using = s THEN Users(s) \cup {c} ELSE Users(s) \ {c}
  BY <1>3 DEF Users
<1>5. Leavers(s)' = IF r.old = s THEN Leavers(s) \cup {c} ELSE Leavers(s) \ {c}
  BY <1>3 DEF Leavers
<1>6. /\ c \in Users(s) <=> call[c].using = s
      /\ c \in Leavers(s) <=> call[c].old = s
  BY DEF Users, Leavers
<1>7. /\ c \in Users(s) => Cardinality(Users(s)) > 0
      /\ c \in Leavers(s) => Cardinality(Leavers(s)) > 0
  BY <1>1, <1>2, FS_EmptySet
<1>8. Cardinality(Users(s)') = Cardinality(Users(s)) + One(r.using = s) - One(call[c].using = s)
  <2>1. Cardinality(Users(s) \cup {c}) = IF c \in Users(s) THEN Cardinality(Users(s)) ELSE Cardinality(Users(s)) + 1
    BY <1>1, FS_AddElement
  <2>2. Cardinality(Users(s) \ {c}) = IF c \in Users(s) THEN Cardinality(Users(s)) - 1 ELSE Cardinality(Users(s))
    BY <1>1, FS_RemoveElement
  <2>3. QED
    BY <1>2, <1>4, <1>6, <2>1, <2>2 DEF One
<1>9. Cardinality(Leavers(s)') = Cardinality(Leavers(s)) + One(r.old = s) - One(call[c].old = s)
  <2>1. Cardinality(Leavers(s) \cup {c}) = IF c \in Leavers(s) THEN Cardinality(Leavers(s)) ELSE Cardinality(Leavers(s)) + 1
    BY <1>1, FS_AddElement
  <2>2. Cardinality(Leavers(s) \ {c}) = IF c \in Leavers(s) THEN Cardinality(Leavers(s)) - 1 ELSE Cardinality(Leavers(s))
    BY <1>1, FS_RemoveElement
  <2>3. QED
    BY <1>2, <1>5, <1>6, <2>1, <2>2 DEF One
<1>10. QED
  BY <1>2, <1>6, <1>7, <1>8, <1>9

\* The same of all holders, and what they tell of the entry.
LEMMA Recounted ==
  ASSUME RefInv, NEW c \in Callers, NEW r \in Calls, Becomes(c, r), current' \in Maybe, NEW s \in Slots
  PROVE  /\ Holders(s) \in Nat
         /\ Holders(s)' = Holders(s) + One(r.using = s) - One(call[c].using = s)
                          + One(r.old = s) - One(call[c].old = s) + One(current' = s) - One(current = s)
         /\ entry[s] = Null => Holders(s) = 0
         /\ entry[s] # Null => entry[s] \in Entries /\ entry[s].refs = Holders(s)
         /\ call[c].using = s \/ call[c].old = s \/ current = s => entry[s] # Null /\ entry[s].refs > 0
<1>1. call \in [Callers -> Calls] /\ RefsExact /\ entry \in [Slots -> Entries \cup {Null}]
  BY DEF RefInv, Shapes
<1>2. /\ Holders(s) = Cardinality(Users(s)) + Cardinality(Leavers(s)) + One(current = s)
      /\ Holders(s)' = Cardinality(Users(s)') + Cardinality(Leavers(s)') + One(current' = s)
  BY DEF Holders, Users, Leavers, One
<1>3. One(current = s) \in Nat /\ (current = s => One(current = s) > 0)
  BY DEF One
<1>4. Holders(s) \in Nat
  BY <1>1, <1>2, <1>3, Recount
<1>5. Holders(s)' = Holders(s) + One(r.using = s) - One(call[c].using = s)
                    + One(r.old = s) - One(call[c].old = s) + One(current' = s) - One(current = s)
  BY <1>1, <1>2, Recount DEF One
<1>6. Holders(s) = IF entry[s] = Null THEN 0 ELSE entry[s].refs
  BY <1>1 DEF RefsExact
<1>7. call[c].using = s \/ call[c].old = s \/ current = s => Holders(s) > 0
  BY <1>1, <1>2, <1>3, Recount
<1>8. QED
  BY <1>1, <1>4, <1>5, <1>6, <1>7

\* A step of one call keeps the shape of calls.
LEMMA CallKeeps ==
  ASSUME Shapes, Handles, NEW c \in Callers, NEW r \in Calls, Becomes(c, r),
         r.pc \in {"idle", "timed", "missed"} => r.using = Null,
         r.pc \in {"scanned", "detached"} => r.using # Null,
         r.pc = "detached" <=> r.old # Null
  PROVE  call' \in [Callers -> Calls] /\ Handles'
BY DEF Shapes, Handles, Becomes

\* A reference more or less changes nothing else of an entry.
LEMMA Referenced ==
  ASSUME entry \in [Slots -> Entries \cup {Null}], NEW s \in Slots, entry[s] \in Entries, NEW n \in Nat,
         entry' = [entry EXCEPT ![s] = [@ EXCEPT !.refs = n]]
  PROVE  /\ entry' \in [Slots -> Entries \cup {Null}] /\ entry'[s] \in Entries /\ entry'[s].refs = n
         /\ entry'[s].map = entry[s].map /\ entry'[s].loaded_version = entry[s].loaded_version
         /\ entry'[s].loaded_at_ms = entry[s].loaded_at_ms
         /\ \A u \in Slots \ {s} : entry'[u] = entry[u]
<1>1. [entry[s] EXCEPT !.refs = n] \in Entries
  BY DEF Entries
<1>2. QED
  BY <1>1 DEF Entries

\* unref takes one reference, or frees the entry.
LEMMA Unreferenced ==
  ASSUME entry \in [Slots -> Entries \cup {Null}], NEW s \in Slots, entry[s] \in Entries, entry[s].refs > 0,
         Unref(s)
  PROVE  /\ entry' \in [Slots -> Entries \cup {Null}]
         /\ entry[s].refs = 1 => entry'[s] = Null
         /\ entry[s].refs # 1 => /\ entry'[s] \in Entries /\ entry'[s].refs = entry[s].refs - 1
                                 /\ entry'[s].map = entry[s].map
                                 /\ entry'[s].loaded_version = entry[s].loaded_version
                                 /\ entry'[s].loaded_at_ms = entry[s].loaded_at_ms
         /\ \A u \in Slots \ {s} : entry'[u] = entry[u]
<1>1. entry[s].refs - 1 \in Nat /\ entry[s].refs \in Nat
  BY DEF Entries
<1>2. CASE entry[s].refs = 1
  BY <1>2 DEF Unref
<1>3. CASE entry[s].refs # 1
  <2>. DEFINE less == [entry[s] EXCEPT !.refs = entry[s].refs - 1]
  <2>1. entry' = [entry EXCEPT ![s] = IF entry[s].refs = 1 THEN Null ELSE less]
    BY DEF Unref
  <2>2. (IF entry[s].refs = 1 THEN Null ELSE less) = less
    BY <1>3, Zenon
  <2>3. entry' = [entry EXCEPT ![s] = less]
    <3>. HIDE DEF less
    <3>1. QED
      BY <2>1, <2>2
  <2>4. QED
    BY <1>1, <1>3, <2>3, Referenced
<1>4. QED
  BY <1>2, <1>3

\* What a call starts and ends with.
LEMMA IdleFacts ==
  ASSUME Shapes
  PROVE  /\ Idle \in Calls /\ Idle.pc = "idle" /\ Idle.began = 0 /\ Idle.gen = 0 /\ Idle.using = Null
         /\ Idle.old = Null /\ Idle.owed = 0 /\ Idle.stale = FALSE
<1>1. 0 \in 0..MaxTime /\ Null \in Maybe
  BY CacheAssumption DEF Maybe
<1>2. Idle \in Calls
  BY <1>1 DEF Idle, Calls
<1>3. QED
  BY <1>2 DEF Idle

\* What a call has that got its overrides.
LEMMA BorrowsFacts ==
  ASSUME Shapes, NEW c \in Callers, NEW s \in Maybe, NEW seen
  PROVE  /\ Borrows(c, s, seen) \in Calls /\ Borrows(c, s, seen).pc = "using" /\ Borrows(c, s, seen).using = s
         /\ Borrows(c, s, seen).old = Null /\ Borrows(c, s, seen).began = 0 /\ Borrows(c, s, seen).gen = 0
         /\ Borrows(c, s, seen).stale => seen < call[c].owed
<1>. DEFINE late == seen < call[c].owed
<1>1. late \in BOOLEAN
  OBVIOUS
<1>2. Borrows(c, s, seen) = [Idle EXCEPT !.pc = "using", !.using = s, !.stale = late]
  BY DEF Borrows
<1>3. (Borrows(c, s, seen).stale = late) => (Borrows(c, s, seen).stale => seen < call[c].owed)
  BY Zenon
<1>. HIDE DEF late
<1>4. QED
  BY <1>1, <1>2, <1>3, IdleFacts DEF Calls

-----------------------------------------------------------------------------
\* In the beginning nobody holds an entry.
LEMMA RefInit == CacheInit => RefInv
<1> SUFFICES ASSUME CacheInit PROVE RefInv
  OBVIOUS
<1>1. Shapes
  BY CacheAssumption DEF CacheInit, Shapes, Idle, Calls, Maybe
<1>2. Handles
  BY DEF CacheInit, Handles, Idle
<1>3. ASSUME NEW s \in Slots PROVE Holders(s) = 0 /\ entry[s] = Null
  <2>1. Users(s) = {} /\ Leavers(s) = {} /\ current # s /\ entry[s] = Null
    BY CacheAssumption DEF CacheInit, Idle, Users, Leavers
  <2>2. Holders(s) = Cardinality(Users(s)) + Cardinality(Leavers(s)) + 0
    BY <2>1 DEF Holders, Users, Leavers
  <2>3. QED
    BY <2>1, <2>2, FS_EmptySet
<1>4. QED
  BY <1>1, <1>2, <1>3 DEF RefInv, RefsExact

\* A call begins.
LEMMA BeginKeeps ==
  ASSUME RefInv, NEW c \in Callers, Begin(c)
  PROVE  RefInv'
<1>. DEFINE r == [Idle EXCEPT !.pc = "timed", !.began = millis, !.owed = Owed]
<1>1. Shapes /\ Handles /\ RefsExact
  BY DEF RefInv
<1>2. Becomes(c, r) /\ UNCHANGED <<Rest, current, entry>> /\ call[c].pc = "idle"
  BY DEF Begin
<1>3. Owed \in Nat /\ millis \in 0..MaxTime
  BY <1>1, CacheAssumption DEF Shapes, Owed
<1>4. r \in Calls /\ r.pc = "timed" /\ r.using = Null /\ r.old = Null
  BY <1>1, <1>3, IdleFacts DEF Calls
<1>5. call[c].using = Null /\ call[c].old = Null
  BY <1>1, <1>2 DEF Handles
<1>. HIDE DEF r
<1>6. Shapes' /\ Handles'
  BY <1>1, <1>2, <1>4, CallKeeps DEF Shapes, Rest
<1>7. ASSUME NEW s \in Slots PROVE Holders(s)' = Holders(s) /\ Holders(s) \in Nat
  BY <1>1, <1>2, <1>4, <1>5, <1>7, Recounted, CacheAssumption DEF Shapes, One
<1>8. QED
  BY <1>1, <1>2, <1>6, <1>7 DEF RefInv, RefsExact

\* A hit takes a reference, a miss takes nothing.
LEMMA LookKeeps ==
  ASSUME RefInv, NEW c \in Callers, Look(c)
  PROVE  RefInv' /\ KeptEntries
<1>1. Shapes /\ Handles /\ RefsExact
  BY DEF RefInv
<1>2. call[c].pc = "timed" /\ UNCHANGED <<Rest, current>> /\ call[c].using = Null /\ call[c].old = Null
  BY <1>1 DEF Look, Handles
<1>3. call[c] \in Calls /\ version \in Nat
  BY <1>1 DEF Shapes
<1>4. CASE Fresh(c)
  <2>. DEFINE r == Borrows(c, current, entry[current].map)
              n == entry[current].refs + 1
  <2>1. current \in Slots /\ current # Null
    BY <1>1, <1>4 DEF Fresh, Shapes, Maybe
  <2>2. Becomes(c, r)
    BY <1>4 DEF Look
  <2>3. r \in Calls /\ r.pc = "using" /\ r.using = current /\ r.old = Null
    BY <1>1, <2>1, BorrowsFacts DEF Maybe
  <2>4. entry[current] \in Entries /\ entry[current].refs = Holders(current) /\ Holders(current) \in Nat
    <3>. HIDE DEF r
    <3>1. QED
      BY <1>1, <1>2, <2>1, <2>2, <2>3, Recounted DEF Shapes
  <2>5. n \in Nat
    BY <2>4
  <2>6. entry' = [entry EXCEPT ![current] = [@ EXCEPT !.refs = n]]
    BY <1>4 DEF Look
  <2>. HIDE DEF r, n
  <2>7. /\ entry' \in [Slots -> Entries \cup {Null}] /\ entry'[current] \in Entries
        /\ entry'[current].refs = n /\ \A u \in Slots \ {current} : entry'[u] = entry[u]
        /\ KeptEntries
    BY <1>1, <2>1, <2>4, <2>5, <2>6, Referenced, CacheAssumption DEF Shapes, KeptEntries
  <2>8. Shapes' /\ Handles'
    BY <1>1, <1>2, <2>1, <2>2, <2>3, <2>7, CallKeeps DEF Shapes, Rest
  <2>9. ASSUME NEW s \in Slots
        PROVE  Holders(s)' = IF entry'[s] = Null THEN 0 ELSE entry'[s].refs
    <3>1. Holders(s)' = Holders(s) + One(current = s) /\ Holders(s) \in Nat
      <4>1. current' = current /\ current' \in Maybe
        BY <1>1, <1>2 DEF Shapes
      <4>2. s # Null
        BY CacheAssumption
      <4>3. call[c].using # s /\ call[c].old # s
        BY <1>2, <4>2
      <4> QED
        BY <1>2, <2>1, <2>2, <2>3, <4>1, <4>2, <4>3, Recounted DEF One
    <3>2. CASE s = current
      BY <2>4, <2>7, <3>1, <3>2, CacheAssumption DEF One, n
    <3>3. CASE s # current
      BY <1>1, <2>7, <3>1, <3>3 DEF One, RefsExact
    <3>4. QED
      BY <3>2, <3>3
  <2>10. QED
    BY <2>7, <2>8, <2>9 DEF RefInv, RefsExact
<1>5. CASE ~Fresh(c)
  <2>. DEFINE r == [call[c] EXCEPT !.pc = "missed", !.gen = version]
  <2>1. Becomes(c, r) /\ entry' = entry
    BY <1>5 DEF Look
  <2>2. r \in Calls /\ r.pc = "missed" /\ r.using = Null /\ r.old = Null
    BY <1>2, <1>3 DEF Calls
  <2>. HIDE DEF r
  <2>3. Shapes' /\ Handles'
    BY <1>1, <1>2, <2>1, <2>2, CallKeeps DEF Shapes, Rest
  <2>4. ASSUME NEW s \in Slots PROVE Holders(s)' = Holders(s) /\ Holders(s) \in Nat
    BY <1>1, <1>2, <2>1, <2>2, <2>4, Recounted, CacheAssumption DEF Shapes, One
  <2>5. QED
    BY <1>1, <2>1, <2>3, <2>4 DEF RefInv, RefsExact, KeptEntries
<1>6. QED
  BY <1>4, <1>5

\* A scan fills free memory, or keeps what it read to itself.
LEMMA ScanKeeps ==
  ASSUME RefInv, NEW c \in Callers, Scan(c)
  PROVE  RefInv'
<1>1. Shapes /\ Handles /\ RefsExact
  BY DEF RefInv
<1>2. call[c].pc = "missed" /\ UNCHANGED <<Rest, current>> /\ call[c].using = Null /\ call[c].old = Null
  BY <1>1 DEF Scan, Handles
<1>3. call[c] \in Calls /\ kv \in Nat
  BY <1>1 DEF Shapes
<1>4. CASE Becomes(c, Borrows(c, Null, kv)) /\ UNCHANGED entry
  <2>. DEFINE r == Borrows(c, Null, kv)
  <2>1. r \in Calls /\ r.pc = "using" /\ r.using = Null /\ r.old = Null
    BY <1>1, BorrowsFacts DEF Maybe
  <2>2. Becomes(c, r) /\ entry' = entry
    BY <1>4
  <2>. HIDE DEF r
  <2>3. Shapes' /\ Handles'
    BY <1>1, <1>2, <2>1, <2>2, CallKeeps DEF Shapes, Rest
  <2>4. ASSUME NEW s \in Slots PROVE Holders(s)' = Holders(s) /\ Holders(s) \in Nat
    BY <1>1, <1>2, <2>1, <2>2, <2>4, Recounted, CacheAssumption DEF Shapes, One
  <2>5. QED
    BY <1>1, <2>2, <2>3, <2>4 DEF RefInv, RefsExact
<1>5. CASE ~(Becomes(c, Borrows(c, Null, kv)) /\ UNCHANGED entry)
  <2>. DEFINE a == Allocated
              r == [Borrows(c, a, kv) EXCEPT !.pc = "scanned", !.gen = call[c].gen]
              e == [map |-> kv, loaded_version |-> call[c].gen, loaded_at_ms |-> call[c].began, refs |-> 1]
  <2>1. /\ \E s \in Slots : entry[s] = Null
        /\ entry' = [entry EXCEPT ![a] = e] /\ Becomes(c, r)
    BY <1>5 DEF Scan
  <2>2. a \in Slots /\ entry[a] = Null
    BY <2>1 DEF Allocated
  <2>3. e \in Entries /\ e.refs = 1
    BY <1>1, <1>3 DEF Entries, Calls
  <2>. HIDE DEF a, e
  <2>4. Borrows(c, a, kv) \in Calls /\ Borrows(c, a, kv).using = a /\ Borrows(c, a, kv).old = Null
    BY <1>1, <2>2, BorrowsFacts DEF Maybe
  <2>5. r \in Calls /\ r.pc = "scanned" /\ r.using = a /\ r.old = Null
    BY <1>3, <2>4 DEF Calls
  <2>. HIDE DEF r
  <2>6. a # Null /\ e # Null
    BY <2>2, <2>3, CacheAssumption
  <2>7. Shapes' /\ Handles'
    BY <1>1, <1>2, <2>1, <2>2, <2>3, <2>5, <2>6, CallKeeps DEF Shapes, Rest
  <2>8. ASSUME NEW s \in Slots
        PROVE  Holders(s)' = IF entry'[s] = Null THEN 0 ELSE entry'[s].refs
    <3>1. Holders(s)' = Holders(s) + One(a = s) /\ Holders(s) \in Nat
      <4>1. current' \in Maybe /\ current' = current
        BY <1>1, <1>2 DEF Shapes
      <4>2. /\ Holders(s) \in Nat
            /\ Holders(s)' = Holders(s) + One(a = s) - One(Null = s) + One(Null = s) - One(Null = s)
                             + One(current = s) - One(current = s)
        BY <1>2, <2>1, <2>5, <2>8, <4>1, Recounted
      <4>3. Null # s
        BY <2>8, CacheAssumption
      <4>4. QED
        BY <4>2, <4>3 DEF One
    <3>2. CASE s = a
      <4>1. entry'[s] = e /\ Holders(s) = 0
        BY <1>1, <2>1, <2>2, <3>2 DEF Shapes, RefsExact
      <4>2. QED
        BY <2>3, <2>6, <3>1, <3>2, <4>1 DEF One
    <3>3. CASE s # a
      <4>1. entry'[s] = entry[s]
        BY <1>1, <2>1, <2>8, <3>3 DEF Shapes
      <4>2. QED
        BY <1>1, <3>1, <3>3, <4>1 DEF One, RefsExact
    <3>4. QED
      BY <3>2, <3>3
  <2>9. QED
    BY <2>7, <2>8 DEF RefInv, RefsExact
<1>6. QED
  BY <1>4, <1>5

\* What is published has a reference more, and what it replaces is still held.
LEMMA PublishKeeps ==
  ASSUME RefInv, NEW c \in Callers, Publish(c)
  PROVE  RefInv' /\ KeptEntries
<1>. DEFINE u == call[c].using
<1>1. Shapes /\ Handles /\ RefsExact
  BY DEF RefInv
<1>2. call[c].pc = "scanned" /\ UNCHANGED Rest /\ u # Null /\ call[c].old = Null
  BY <1>1 DEF Publish, Handles
<1>3. call[c] \in Calls /\ u \in Slots /\ current \in Maybe
  BY <1>1, <1>2 DEF Shapes, Calls, Maybe
<1>4. CASE Undisturbed(c)
  <2>. DEFINE r == [call[c] EXCEPT !.pc = IF current = Null THEN "using" ELSE "detached", !.old = current, !.gen = 0]
              n == entry[u].refs + 1
  <2>1. Becomes(c, r) /\ current' = u /\ entry' = [entry EXCEPT ![u] = [@ EXCEPT !.refs = n]]
    BY <1>2, <1>4 DEF Publish
  <2>2. r \in Calls /\ r.using = u /\ r.old = current /\ r.pc = IF current = Null THEN "using" ELSE "detached"
    BY <1>3 DEF Calls
  <2>. HIDE DEF r
  <2>3. entry[u] \in Entries /\ entry[u].refs = Holders(u) /\ Holders(u) \in Nat
    BY <1>1, <1>3, <2>1, <2>2, Recounted DEF Maybe
  <2>4. n \in Nat
    BY <2>3
  <2>. HIDE DEF u
  <2>5. /\ entry' \in [Slots -> Entries \cup {Null}] /\ entry'[u] \in Entries /\ entry'[u].refs = n
        /\ \A s \in Slots \ {u} : entry'[s] = entry[s]
        /\ KeptEntries
    <3>. HIDE DEF n
    <3>1. QED
      BY <1>1, <1>3, <2>1, <2>3, <2>4, Referenced, CacheAssumption DEF Shapes, KeptEntries
  <2>6. Shapes' /\ Handles'
    BY <1>1, <1>2, <1>3, <2>1, <2>2, <2>5, CallKeeps DEF Shapes, Rest, Maybe
  <2>7. ASSUME NEW s \in Slots
        PROVE  Holders(s)' = IF entry'[s] = Null THEN 0 ELSE entry'[s].refs
    <3>1. Holders(s)' = Holders(s) + One(u = s) /\ Holders(s) \in Nat
      BY <1>1, <1>2, <1>3, <2>1, <2>2, <2>7, Recounted, CacheAssumption DEF One, Maybe, u
    <3>2. CASE s = u
      BY <2>3, <2>5, <3>1, <3>2, CacheAssumption DEF One
    <3>3. CASE s # u
      BY <1>1, <2>5, <3>1, <3>3 DEF One, RefsExact
    <3>4. QED
      BY <3>2, <3>3
  <2>8. QED
    BY <2>5, <2>6, <2>7 DEF RefInv, RefsExact
<1>5. CASE ~Undisturbed(c)
  <2>. DEFINE r == [call[c] EXCEPT !.pc = "using", !.gen = 0]
  <2>1. Becomes(c, r) /\ UNCHANGED <<current, entry>>
    BY <1>5 DEF Publish
  <2>2. r \in Calls /\ r.pc = "using" /\ r.using = u /\ r.old = Null
    BY <1>2, <1>3 DEF Calls
  <2>. HIDE DEF r
  <2>3. Shapes' /\ Handles'
    BY <1>1, <1>2, <2>1, <2>2, CallKeeps DEF Shapes, Rest
  <2>4. ASSUME NEW s \in Slots PROVE Holders(s)' = Holders(s) /\ Holders(s) \in Nat
    BY <1>1, <1>2, <1>3, <2>1, <2>2, <2>4, Recounted, CacheAssumption DEF One
  <2>5. QED
    BY <1>1, <2>1, <2>3, <2>4 DEF RefInv, RefsExact, KeptEntries
<1>6. QED
  BY <1>4, <1>5

\* Whoever lets go of an entry was counted by it.
LEMMA LetGo ==
  ASSUME RefInv, NEW c \in Callers, NEW u \in Slots, NEW r \in Calls, Becomes(c, r), Unref(u), current' = current,
         \/ call[c].using = u /\ r.using = Null /\ r.old = call[c].old
         \/ call[c].old = u /\ r.old = Null /\ r.using = call[c].using
  PROVE  entry' \in [Slots -> Entries \cup {Null}] /\ RefsExact' /\ KeptEntries
<1>1. Shapes /\ RefsExact /\ u # Null
  BY CacheAssumption DEF RefInv
<1>2. entry[u] \in Entries /\ entry[u].refs > 0 /\ entry[u].refs = Holders(u) /\ Holders(u) \in Nat
  BY <1>1, Recounted DEF Shapes
<1>3. /\ entry' \in [Slots -> Entries \cup {Null}]
      /\ entry[u].refs = 1 => entry'[u] = Null
      /\ entry[u].refs # 1 => entry'[u] \in Entries /\ entry'[u].refs = entry[u].refs - 1
      /\ \A s \in Slots \ {u} : entry'[s] = entry[s]
      /\ KeptEntries
  BY <1>1, <1>2, Unreferenced, CacheAssumption DEF Shapes, KeptEntries
<1>4. ASSUME NEW s \in Slots
      PROVE  Holders(s)' = IF entry'[s] = Null THEN 0 ELSE entry'[s].refs
  <2>1. Holders(s)' = Holders(s) - One(u = s) /\ Holders(s) \in Nat
    <3>1. current' \in Maybe /\ current' = current /\ Null # s
      BY <1>1, <1>4, CacheAssumption DEF Shapes
    <3>2. /\ Holders(s) \in Nat
          /\ Holders(s)' = Holders(s) + One(r.using = s) - One(call[c].using = s)
                           + One(r.old = s) - One(call[c].old = s) + One(current' = s) - One(current = s)
      BY <1>4, <3>1, Recounted
    <3>3. CASE call[c].using = u /\ r.using = Null /\ r.old = call[c].old
      BY <3>1, <3>2, <3>3 DEF One
    <3>4. CASE call[c].old = u /\ r.old = Null /\ r.using = call[c].using
      BY <3>1, <3>2, <3>4 DEF One
    <3>5. QED
      BY <3>3, <3>4
  <2>2. CASE s = u
    BY <1>2, <1>3, <2>1, <2>2, CacheAssumption DEF One
  <2>3. CASE s # u
    BY <1>1, <1>3, <2>1, <2>3 DEF One, RefsExact
  <2>4. QED
    BY <2>2, <2>3
<1>5. QED
  BY <1>3, <1>4 DEF RefsExact

\* The replaced entry loses the publisher's reference.
LEMMA DetachKeeps ==
  ASSUME RefInv, NEW c \in Callers, Detach(c)
  PROVE  RefInv' /\ KeptEntries
<1>. DEFINE r == [call[c] EXCEPT !.pc = "using", !.old = Null]
<1>1. Shapes /\ Handles
  BY DEF RefInv
<1>2. Becomes(c, r) /\ Unref(call[c].old) /\ UNCHANGED <<Rest, current>> /\ call[c].old # Null
  BY <1>1 DEF Detach, Handles
<1>3. call[c] \in Calls /\ call[c].old \in Slots
  BY <1>1, <1>2 DEF Shapes, Calls, Maybe
<1>4. r \in Calls /\ r.pc = "using" /\ r.using = call[c].using /\ r.old = Null
  BY <1>3 DEF Calls, Maybe
<1>. HIDE DEF r
<1>5. entry' \in [Slots -> Entries \cup {Null}] /\ RefsExact' /\ KeptEntries
  BY <1>2, <1>3, <1>4, LetGo
<1>6. QED
  BY <1>1, <1>2, <1>4, <1>5, CallKeeps DEF RefInv, Shapes, Rest

\* A call ends with its reference.
LEMMA FinishKeeps ==
  ASSUME RefInv, NEW c \in Callers, Finish(c)
  PROVE  RefInv' /\ KeptEntries
<1>1. Shapes /\ Handles /\ RefsExact
  BY DEF RefInv
<1>2. Becomes(c, Idle) /\ UNCHANGED <<Rest, current>> /\ call[c].old = Null
  BY <1>1 DEF Finish, Handles
<1>3. call[c].using \in Maybe
  BY <1>1 DEF Shapes, Calls
<1>4. CASE call[c].using = Null
  <2>1. entry' = entry
    BY <1>4 DEF Finish
  <2>2. ASSUME NEW s \in Slots PROVE Holders(s)' = Holders(s) /\ Holders(s) \in Nat
    <3>1. current' \in Maybe /\ current' = current /\ Null # s
      BY <1>1, <1>2, <2>2, CacheAssumption DEF Shapes
    <3>2. Idle \in Calls /\ Idle.using = Null /\ Idle.old = Null
      BY <1>1, IdleFacts
    <3>3. /\ Holders(s) \in Nat
          /\ Holders(s)' = Holders(s) + One(Idle.using = s) - One(call[c].using = s)
                           + One(Idle.old = s) - One(call[c].old = s) + One(current' = s) - One(current = s)
      BY <1>2, <2>2, <3>1, <3>2, Recounted
    <3>4. QED
      BY <1>2, <1>4, <3>1, <3>2, <3>3 DEF One
  <2>3. Shapes' /\ Handles'
    BY <1>1, <1>2, <2>1, IdleFacts, CallKeeps DEF Shapes, Rest
  <2>4. QED
    BY <1>1, <2>1, <2>2, <2>3 DEF RefInv, RefsExact, KeptEntries
<1>5. CASE call[c].using # Null
  <2>1. Unref(call[c].using) /\ call[c].using \in Slots
    BY <1>3, <1>5 DEF Finish, Maybe
  <2>2. entry' \in [Slots -> Entries \cup {Null}] /\ RefsExact' /\ KeptEntries
    BY <1>1, <1>2, <2>1, IdleFacts, LetGo
  <2>3. QED
    BY <1>1, <1>2, <2>2, IdleFacts, CallKeeps DEF RefInv, Shapes, Rest
<1>6. QED
  BY <1>4, <1>5

\* Writers and time touch no entry.
LEMMA RestKeeps ==
  ASSUME RefInv, UNCHANGED <<current, entry, call>>, Shapes'
  PROVE  RefInv'
BY DEF RefInv, Handles, RefsExact, Holders

\* Every step preserves the invariant.
LEMMA RefStep == RefInv /\ [CacheNext]_cacheVars => RefInv'
<1> SUFFICES ASSUME RefInv, [CacheNext]_cacheVars PROVE RefInv'
  OBVIOUS
<1>0. Shapes
  BY DEF RefInv
<1>1. ASSUME NEW c \in Callers, Begin(c) \/ Look(c) \/ Scan(c) \/ Publish(c) \/ Detach(c) \/ Finish(c)
      PROVE  RefInv'
  BY <1>1, BeginKeeps, LookKeeps, ScanKeeps, PublishKeeps, DetachKeeps, FinishKeeps
<1>2. ASSUME NEW w \in Setters, Write(w) \/ Invalidate(w) \/ CommitTx(w) \/ Returns(w) \/ RollbackTx(w)
      PROVE  RefInv'
  <2>1. UNCHANGED <<current, entry, call, millis>>
    BY <1>2 DEF Write, Invalidate, CommitTx, Returns, RollbackTx, Cached
  <2>2. CASE Write(w)
    BY <1>0, <2>1, <2>2, RestKeeps DEF Write, Steps, Committed, Shapes
  <2>3. CASE Invalidate(w)
    BY <1>0, <2>1, <2>3, RestKeeps DEF Invalidate, Steps, Shapes
  <2>4. CASE CommitTx(w)
    BY <1>0, <2>1, <2>4, RestKeeps DEF CommitTx, Steps, Committed, Shapes
  <2>5. CASE Returns(w)
    BY <1>0, <2>1, <2>5, RestKeeps DEF Returns, Steps, Shapes
  <2>6. CASE RollbackTx(w)
    BY <1>0, <2>1, <2>6, RestKeeps DEF RollbackTx, Steps, Shapes
  <2>7. QED
    BY <1>2, <2>2, <2>3, <2>4, <2>5, <2>6
<1>3. CASE RemoteWrite
  BY <1>0, <1>3, RestKeeps DEF RemoteWrite, Cached, Committed, Shapes
<1>4. CASE Passes
  BY <1>0, <1>4, CacheAssumption, RestKeeps DEF Passes, Shapes
<1>5. CASE UNCHANGED cacheVars
  BY <1>0, <1>5, RestKeeps DEF cacheVars, Shapes
<1>6. QED
  BY <1>1, <1>2, <1>3, <1>4, <1>5 DEF CacheNext

\* feature_cache.zig frees an entry exactly when its last holder lets go of it, with
\* any number of callers, and whoever publishes in between.
THEOREM NoUseAfterFree == CacheSpec => []RefsExact
<1>1. RefInv => RefsExact
  BY DEF RefInv
<1>2. QED
  BY <1>1, RefInit, RefStep, PTL DEF CacheSpec

-----------------------------------------------------------------------------
\* The moment one ttl before a moment of the run is one too, when there was time for it.
LEMMA EarlierMoment ==
  ASSUME NEW m \in Nat, NEW b \in 0..m, NEW t \in Nat
  PROVE  /\ t <= b => b - t \in 0..m
         /\ \A l \in Nat : b - l < t => b - t < l
  OBVIOUS

\* A published entry is there.
LEMMA CurrentThere ==
  ASSUME RefInv, current # Null
  PROVE  current \in Slots /\ entry[current] \in Entries
<1>1. current \in Slots /\ entry[current] \in Entries \cup {Null}
  BY DEF RefInv, Shapes, Maybe
<1>2. /\ IsFiniteSet({c \in Callers : call[c].using = current})
      /\ IsFiniteSet({c \in Callers : call[c].old = current})
  BY FS_Subset, CacheAssumption
<1>3. Holders(current) > 0
  BY <1>2, FS_CardinalityType DEF Holders
<1>4. QED
  BY <1>1, <1>3 DEF RefInv, RefsExact

\* A step of one call that keeps the entries keeps their truth.
LEMMA CallTimely ==
  ASSUME RefInv, TimeInv, UNCHANGED Rest, NEW c \in Callers, NEW r \in Calls, Becomes(c, r),
         r.began <= millis, r.gen <= version, ~r.stale,
         r.pc \in {"timed", "missed"} =>
           /\ r.owed <= kv
           /\ r.owed <= due \/ (ttl_ms <= r.began /\ r.owed <= kvAt[r.began - ttl_ms]),
         KeptEntries
  PROVE  TimeInv'
<1>1. call'[c] = r /\ \A d \in Callers \ {c} : call'[d] = call[d]
  BY DEF Becomes, RefInv, Shapes
<1>2. Past' /\ Owing' /\ Renewing' /\ NeverStale'
  BY <1>1 DEF TimeInv, Past, Owing, Renewing, NeverStale, Rest
<1>3. ASSUME NEW s \in Slots, entry'[s] # Null PROVE Truthful(s)'
  BY <1>3 DEF TimeInv, Truthful, Rest, KeptEntries
<1>4. QED
  BY <1>2, <1>3 DEF TimeInv

\* A hit has all that the call must see.
LEMMA HitIsTrue ==
  ASSUME RefInv, TimeInv, NEW c \in Callers, call[c].pc = "timed", Fresh(c)
  PROVE  ~(entry[current].map < call[c].owed)
<1>1. Truthful(current) /\ entry[current] \in Entries
  BY CurrentThere, CacheAssumption DEF Fresh, TimeInv
<1>2. /\ call[c].owed \in Nat /\ call[c].began \in 0..MaxTime /\ due \in Nat
      /\ kvAt \in [0..MaxTime -> Nat] /\ millis \in 0..MaxTime
  BY DEF RefInv, Shapes, Calls
<1>3. entry[current].map \in Nat /\ entry[current].loaded_at_ms \in Nat
  BY <1>1 DEF Entries
<1>4. CASE call[c].owed <= due
  BY <1>1, <1>2, <1>3, <1>4 DEF Fresh, Truthful
<1>5. CASE ttl_ms <= call[c].began /\ call[c].owed <= kvAt[call[c].began - ttl_ms]
  <2>0. ttl_ms \in Nat /\ MaxTime \in Nat
    BY CacheAssumption
  <2>4. call[c].began - entry[current].loaded_at_ms < ttl_ms
    BY DEF Fresh
  <2>1. call[c].began - ttl_ms \in 0..MaxTime /\ call[c].began - ttl_ms < entry[current].loaded_at_ms
    BY <1>2, <1>3, <1>5, <2>0, <2>4, EarlierMoment
  <2>2. kvAt[call[c].began - ttl_ms] <= entry[current].map /\ kvAt[call[c].began - ttl_ms] \in Nat
    BY <1>1, <1>2, <2>1 DEF Truthful
  <2>3. QED
    BY <1>2, <1>3, <1>5, <2>2
<1>6. QED
  BY <1>4, <1>5 DEF TimeInv, Owing

\* The steps of calls.
LEMMA CallTime ==
  ASSUME RefInv, TimeInv, NEW c \in Callers,
         Begin(c) \/ Look(c) \/ Scan(c) \/ Publish(c) \/ Detach(c) \/ Finish(c)
  PROVE  TimeInv'
<1>0. Shapes /\ call[c] \in Calls
  BY DEF RefInv, Shapes
<1>1. CASE Begin(c)
  <2>. DEFINE r == [Idle EXCEPT !.pc = "timed", !.began = millis, !.owed = Owed]
  <2>1. Becomes(c, r) /\ UNCHANGED <<Rest, entry>>
    BY <1>1 DEF Begin
  <2>2. /\ Owed \in Nat /\ Owed <= kv /\ millis \in 0..MaxTime
        /\ Owed <= due \/ (ttl_ms <= millis /\ Owed <= kvAt[millis - ttl_ms])
    BY <1>0, CacheAssumption DEF Shapes, Owed, TimeInv, Past
  <2>3. r \in Calls /\ r.began = millis /\ r.gen = 0 /\ r.stale = FALSE /\ r.owed = Owed
    BY <1>0, <2>2, IdleFacts DEF Calls
  <2>. HIDE DEF r
  <2>4. KeptEntries /\ r.gen <= version /\ r.began <= millis
    BY <1>0, <2>1, <2>2, <2>3 DEF KeptEntries, Shapes
  <2>5. QED
    BY <2>1, <2>2, <2>3, <2>4, CallTimely
<1>2. CASE Look(c)
  <2>1. UNCHANGED Rest /\ KeptEntries /\ call[c].pc = "timed"
    BY <1>2, LookKeeps DEF Look
  <2>2. CASE Fresh(c)
    <3>. DEFINE r == Borrows(c, current, entry[current].map)
    <3>1. Becomes(c, r)
      BY <1>2, <2>2 DEF Look
    <3>2. current \in Slots
      BY <2>2, CurrentThere DEF Fresh
    <3>3. r.stale => entry[current].map < call[c].owed
      BY <1>0, <3>2, BorrowsFacts DEF Maybe
    <3>4. r \in Calls /\ r.began = 0 /\ r.gen = 0 /\ r.pc = "using"
      BY <1>0, <3>2, BorrowsFacts DEF Maybe
    <3>5. ~r.stale
      BY <2>1, <2>2, <3>3, HitIsTrue
    <3>. HIDE DEF r
    <3>6. r.gen <= version /\ r.began <= millis
      BY <1>0, <3>4 DEF Shapes
    <3>7. QED
      BY <2>1, <3>1, <3>4, <3>5, <3>6, CallTimely
  <2>3. CASE ~Fresh(c)
    <3>. DEFINE r == [call[c] EXCEPT !.pc = "missed", !.gen = version]
    <3>1. Becomes(c, r)
      BY <1>2, <2>3 DEF Look
    <3>2. /\ r \in Calls /\ r.began = call[c].began /\ r.gen = version /\ r.owed = call[c].owed
          /\ r.stale = call[c].stale
      BY <1>0 DEF Calls, Shapes
    <3>. HIDE DEF r
    <3>3. r.began <= millis /\ r.gen <= version /\ ~r.stale
      BY <1>0, <3>2 DEF TimeInv, Past, NeverStale, Shapes
    <3>4. /\ r.owed <= kv
          /\ r.owed <= due \/ (ttl_ms <= r.began /\ r.owed <= kvAt[r.began - ttl_ms])
      BY <2>1, <3>2 DEF TimeInv, Owing
    <3>5. QED
      BY <2>1, <3>1, <3>2, <3>3, <3>4, CallTimely
  <2>4. QED
    BY <2>2, <2>3
<1>3. CASE Scan(c)
  <2>1. UNCHANGED Rest /\ call[c].pc = "missed"
    BY <1>3 DEF Scan
  <2>2. call[c].owed \in Nat /\ call[c].owed <= kv /\ kv \in Nat /\ call[c].gen <= version /\ call[c].began <= millis
    BY <1>0, <2>1 DEF TimeInv, Owing, Past, Calls, Shapes
  <2>3. CASE Becomes(c, Borrows(c, Null, kv)) /\ UNCHANGED entry
    <3>. DEFINE r == Borrows(c, Null, kv)
    <3>1. r.stale => kv < call[c].owed
      BY <1>0, BorrowsFacts DEF Maybe
    <3>2. r \in Calls /\ r.began = 0 /\ r.gen = 0 /\ r.pc = "using"
      BY <1>0, BorrowsFacts DEF Maybe
    <3>3. Becomes(c, r)
      BY <2>3
    <3>. HIDE DEF r
    <3>4. r.gen <= version /\ r.began <= millis /\ KeptEntries
      BY <1>0, <2>3, <3>2 DEF Shapes, KeptEntries
    <3>5. ~r.stale
      BY <2>2, <3>1
    <3>6. QED
      BY <2>1, <3>2, <3>3, <3>4, <3>5, CallTimely
  <2>4. CASE ~(Becomes(c, Borrows(c, Null, kv)) /\ UNCHANGED entry)
    <3>. DEFINE a == Allocated
                r == [Borrows(c, a, kv) EXCEPT !.pc = "scanned", !.gen = call[c].gen]
                e == [map |-> kv, loaded_version |-> call[c].gen, loaded_at_ms |-> call[c].began, refs |-> 1]
    <3>1. /\ \E s \in Slots : entry[s] = Null
          /\ entry' = [entry EXCEPT ![a] = e] /\ Becomes(c, r)
      BY <1>3, <2>4 DEF Scan
    <3>2. a \in Slots /\ e.map = kv /\ e.loaded_version = call[c].gen /\ e.loaded_at_ms = call[c].began
      BY <3>1 DEF Allocated
    <3>. HIDE DEF a, e
    <3>3. /\ Borrows(c, a, kv) \in Calls /\ Borrows(c, a, kv).began = 0
          /\ Borrows(c, a, kv).stale => kv < call[c].owed
      BY <1>0, <3>2, BorrowsFacts DEF Maybe
    <3>4. /\ r \in Calls /\ r.pc = "scanned" /\ r.began = 0 /\ r.gen = call[c].gen
          /\ r.stale = Borrows(c, a, kv).stale
      BY <1>0, <3>3 DEF Calls
    <3>. HIDE DEF r
    <3>5. call'[c] = r /\ \A d \in Callers \ {c} : call'[d] = call[d]
      BY <1>0, <3>1 DEF Becomes, Shapes
    <3>6. r.began <= millis /\ r.gen <= version /\ ~r.stale
      BY <1>0, <2>2, <3>3, <3>4 DEF Shapes
    <3>7. Past' /\ Owing' /\ Renewing' /\ NeverStale'
      BY <2>1, <3>4, <3>5, <3>6 DEF TimeInv, Past, Owing, Renewing, NeverStale, Rest
    <3>8. ASSUME NEW s \in Slots, entry'[s] # Null PROVE Truthful(s)'
      <4>1. CASE s = a
        <5>1. entry'[s] = e
          BY <1>0, <3>1, <3>2, <4>1 DEF Shapes
        <5>2. QED
          BY <2>1, <2>2, <3>2, <5>1 DEF Truthful, TimeInv, Past, Rest
      <4>2. CASE s # a
        <5>1. entry'[s] = entry[s]
          BY <1>0, <3>1, <3>8, <4>2 DEF Shapes
        <5>2. QED
          BY <2>1, <3>8, <5>1 DEF Truthful, TimeInv, Rest
      <4>3. QED
        BY <4>1, <4>2
    <3>9. QED
      BY <3>7, <3>8 DEF TimeInv
  <2>5. QED
    BY <2>3, <2>4
<1>4. CASE Publish(c) \/ Detach(c) \/ Finish(c)
  <2>1. UNCHANGED Rest /\ KeptEntries
    BY <1>4, PublishKeeps, DetachKeeps, FinishKeeps DEF Publish, Detach, Finish
  <2>2. PICK r \in Calls : /\ Becomes(c, r) /\ r.pc \notin {"timed", "missed"}
                           /\ r.began \in {0, call[c].began} /\ r.gen \in {0, call[c].gen}
                           /\ r.stale => call[c].stale
    <3>1. CASE Publish(c) /\ Undisturbed(c)
      <4>. DEFINE r == [call[c] EXCEPT !.pc = IF current = Null THEN "using" ELSE "detached",
                                       !.old = current, !.gen = 0]
      <4>1. r \in Calls /\ Becomes(c, r)
        BY <1>0, <3>1 DEF Publish, Calls, Shapes
      <4>2. r.pc \in {"using", "detached"} /\ r.began = call[c].began /\ r.gen = 0 /\ r.stale = call[c].stale
        BY <1>0 DEF Calls
      <4>3. QED
        BY <4>1, <4>2
    <3>2. CASE Publish(c) /\ ~Undisturbed(c)
      <4>. DEFINE r == [call[c] EXCEPT !.pc = "using", !.gen = 0]
      <4>1. r \in Calls /\ Becomes(c, r)
        BY <1>0, <3>2 DEF Publish, Calls
      <4>2. r.pc = "using" /\ r.began = call[c].began /\ r.gen = 0 /\ r.stale = call[c].stale
        BY <1>0 DEF Calls
      <4>3. QED
        BY <4>1, <4>2
    <3>3. CASE Detach(c)
      <4>. DEFINE r == [call[c] EXCEPT !.pc = "using", !.old = Null]
      <4>1. r \in Calls /\ Becomes(c, r)
        BY <1>0, <3>3 DEF Detach, Calls, Maybe
      <4>2. r.pc = "using" /\ r.began = call[c].began /\ r.gen = call[c].gen /\ r.stale = call[c].stale
        BY <1>0 DEF Calls
      <4>3. QED
        BY <4>1, <4>2
    <3>4. CASE Finish(c)
      <4>1. Becomes(c, Idle)
        BY <3>4 DEF Finish
      <4>2. QED
        BY <1>0, <4>1, IdleFacts
    <3>5. QED
      BY <1>4, <3>1, <3>2, <3>3, <3>4
  <2>3. r.began <= millis /\ r.gen <= version /\ ~r.stale
    BY <1>0, <2>2 DEF TimeInv, Past, NeverStale, Shapes
  <2>4. QED
    BY <2>1, <2>2, <2>3, CallTimely
<1>5. QED
  BY <1>1, <1>2, <1>3, <1>4

\* A commit is newer than anything due, and changes the present instant only.
LEMMA CommitTime ==
  ASSUME RefInv, TimeInv, Committed, UNCHANGED <<Cached, version, due>>, Renewing'
  PROVE  TimeInv'
<1>1. Shapes
  BY DEF RefInv
<1>2. /\ kv' = kv + 1 /\ kvAt'[millis] = kv + 1
      /\ \A t \in 0..MaxTime \ {millis} : kvAt'[t] = kvAt[t]
  BY <1>1 DEF Committed, Shapes
<1>3. \A t \in 0..MaxTime : kvAt[t] \in Nat /\ kvAt[t] <= kv /\ kvAt[t] <= kvAt'[t] /\ kvAt'[t] <= kv'
  BY <1>1, <1>2 DEF TimeInv, Past, Shapes
<1>4. Past'
  BY <1>1, <1>2, <1>3 DEF TimeInv, Past, Shapes, Cached
<1>5. Owing'
  <2>1. SUFFICES ASSUME NEW c \in Callers, call[c].pc \in {"timed", "missed"}
                 PROVE  /\ call[c].owed <= kv'
                        /\ \/ call[c].owed <= due
                           \/ ttl_ms <= call[c].began /\ call[c].owed <= kvAt'[call[c].began - ttl_ms]
    BY DEF Owing, Cached
  <2>2. call[c].owed \in Nat /\ call[c].began \in 0..MaxTime /\ kv \in Nat
    BY <1>1 DEF Shapes, Calls
  <2>3. call[c].owed <= kv /\ (\/ call[c].owed <= due
                               \/ ttl_ms <= call[c].began /\ call[c].owed <= kvAt[call[c].began - ttl_ms])
    BY <2>1 DEF TimeInv, Owing
  <2>4. ttl_ms <= call[c].began => call[c].began - ttl_ms \in 0..MaxTime
    BY <2>2, CacheAssumption, EarlierMoment
  <2>5. ttl_ms <= call[c].began => /\ kvAt[call[c].began - ttl_ms] <= kvAt'[call[c].began - ttl_ms]
                                   /\ kvAt[call[c].began - ttl_ms] \in Nat /\ kvAt'[call[c].began - ttl_ms] \in Nat
    BY <1>1, <1>2, <1>3, <2>4 DEF Shapes
  <2>6. QED
    BY <1>2, <2>2, <2>3, <2>5
<1>6. NeverStale'
  BY DEF TimeInv, NeverStale, Cached
<1>7. ASSUME NEW s \in Slots, entry'[s] # Null PROVE Truthful(s)'
  <2>1. entry[s] \in Entries /\ Truthful(s) /\ millis \in 0..MaxTime
    BY <1>1, <1>7 DEF TimeInv, Shapes, Cached
  <2>2. \A t \in 0..MaxTime : t < entry[s].loaded_at_ms => kvAt'[t] <= entry[s].map
    BY <1>2, <2>1 DEF Truthful, Entries
  <2>3. QED
    BY <2>1, <2>2 DEF Truthful, Cached
<1>8. QED
  BY <1>4, <1>5, <1>6, <1>7 DEF TimeInv

\* A new version is the entry of no scan yet.
LEMMA BumpTime ==
  ASSUME RefInv, TimeInv, version' = version + 1, due' \in {due, kv}, UNCHANGED <<Cached, kv, kvAt>>, Renewing'
  PROVE  TimeInv'
<1>1. Shapes /\ due <= due' /\ due' <= kv /\ due' \in Nat
  BY DEF RefInv, Shapes, TimeInv, Past
<1>2. Past'
  BY <1>1 DEF TimeInv, Past, Shapes, Cached, Calls
<1>3. Owing'
  <2>1. \A c \in Callers : call[c].owed \in Nat
    BY <1>1 DEF Shapes, Calls
  <2>2. QED
    BY <1>1, <2>1 DEF TimeInv, Owing, Shapes, Cached
<1>4. NeverStale'
  BY DEF TimeInv, NeverStale, Cached
<1>5. ASSUME NEW s \in Slots, entry'[s] # Null PROVE Truthful(s)'
  BY <1>1, <1>5 DEF TimeInv, Truthful, Shapes, Cached, Entries
<1>6. QED
  BY <1>2, <1>3, <1>4, <1>5 DEF TimeInv

\* The next instant starts with what is committed.
LEMMA PassTime ==
  ASSUME RefInv, TimeInv, Passes
  PROVE  TimeInv'
<1>1. Shapes
  BY DEF RefInv
<1>2. /\ millis' = millis + 1 /\ millis + 1 \in 0..MaxTime /\ kvAt'[millis + 1] = kv
      /\ \A t \in 0..MaxTime \ {millis + 1} : kvAt'[t] = kvAt[t]
      /\ UNCHANGED <<kv, version, current, entry, call, setter, due>>
  BY <1>1, CacheAssumption DEF Passes, Shapes
<1>3. \A t \in 0..MaxTime : kvAt[t] \in Nat /\ kvAt'[t] \in Nat /\ kvAt[t] <= kvAt'[t] /\ kvAt'[t] <= kv
  BY <1>1, <1>2 DEF TimeInv, Past, Shapes
<1>4. Past' /\ Renewing' /\ NeverStale'
  BY <1>1, <1>2, <1>3 DEF TimeInv, Past, Renewing, NeverStale, Shapes, Calls
<1>5. Owing'
  <2>1. SUFFICES ASSUME NEW c \in Callers, call[c].pc \in {"timed", "missed"}
                 PROVE  /\ call[c].owed <= kv
                        /\ \/ call[c].owed <= due
                           \/ ttl_ms <= call[c].began /\ call[c].owed <= kvAt'[call[c].began - ttl_ms]
    BY <1>2 DEF Owing
  <2>2. call[c].owed \in Nat /\ call[c].began \in 0..MaxTime
    BY <1>1 DEF Shapes, Calls
  <2>3. call[c].owed <= kv /\ (\/ call[c].owed <= due
                               \/ ttl_ms <= call[c].began /\ call[c].owed <= kvAt[call[c].began - ttl_ms])
    BY <2>1 DEF TimeInv, Owing
  <2>4. ttl_ms <= call[c].began => call[c].began - ttl_ms \in 0..MaxTime
    BY <2>2, CacheAssumption, EarlierMoment
  <2>5. QED
    BY <1>3, <2>2, <2>3, <2>4
<1>6. ASSUME NEW s \in Slots, entry'[s] # Null PROVE Truthful(s)'
  <2>1. entry[s] \in Entries /\ Truthful(s)
    BY <1>1, <1>2, <1>6 DEF TimeInv, Shapes
  <2>2. \A t \in 0..MaxTime : t < entry[s].loaded_at_ms => kvAt'[t] <= entry[s].map
    BY <1>1, <1>2, <2>1 DEF Truthful, Entries, Shapes
  <2>3. QED
    BY <1>1, <1>2, <2>1, <2>2 DEF Truthful, Entries, Shapes
<1>7. QED
  BY <1>4, <1>5, <1>6 DEF TimeInv

\* Nothing moves but a writer.
LEMMA WriterTime ==
  ASSUME TimeInv, UNCHANGED <<Cached, kv, kvAt, version, due>>, Renewing'
  PROVE  TimeInv'
BY DEF TimeInv, Past, Owing, NeverStale, Truthful, Cached

\* In the beginning nothing is owed.
LEMMA TimeInit == CacheInit => TimeInv
BY CacheAssumption DEF CacheInit, TimeInv, Past, Owing, Renewing, NeverStale, Idle

\* Without hooks every step preserves the invariant.
LEMMA TimeStep ==
  ASSUME InHook = {}, RefInv, TimeInv, [CacheNext]_cacheVars
  PROVE  TimeInv'
<1>0. Shapes /\ Renewing
  BY DEF RefInv, TimeInv
<1>1. ASSUME NEW c \in Callers, Begin(c) \/ Look(c) \/ Scan(c) \/ Publish(c) \/ Detach(c) \/ Finish(c)
      PROVE  TimeInv'
  BY <1>1, CallTime
<1>2. ASSUME NEW w \in Setters, Write(w) \/ Invalidate(w) \/ CommitTx(w) \/ Returns(w) \/ RollbackTx(w)
      PROVE  TimeInv'
  <2>1. CASE Write(w)
    <3>1. Renewing'
      BY <1>0, <2>1 DEF Write, Steps, Renewing, Shapes
    <3>2. CASE Bound(w)
      BY <2>1, <3>1, <3>2, WriterTime DEF Write
    <3>3. CASE ~Bound(w)
      BY <2>1, <3>1, <3>3, CommitTime DEF Write
    <3>4. QED
      BY <3>2, <3>3
  <2>2. CASE Invalidate(w)
    <3>1. Renewing'
      BY <1>0, <2>2 DEF Invalidate, Steps, Renewing, Shapes, Bound
    <3>2. version' = version + 1 /\ due' \in {due, kv} /\ UNCHANGED <<Cached, kv, kvAt>>
      BY <2>2 DEF Invalidate
    <3>3. QED
      BY <3>1, <3>2, BumpTime
  <2>3. CASE CommitTx(w)
    <3>1. Renewing'
      BY <1>0, <2>3 DEF CommitTx, Steps, Renewing, Shapes
    <3>2. QED
      BY <2>3, <3>1, CommitTime DEF CommitTx
  <2>4. CASE Returns(w)
    <3>1. Renewing'
      BY <1>0, <2>4 DEF Returns, Steps, Renewing, Shapes
    <3>2. w \in InTx
      BY <1>0, <2>4 DEF Returns, Renewing
    <3>3. version' = version + 1 /\ due' \in {due, kv} /\ UNCHANGED <<Cached, kv, kvAt>>
      BY <2>4, <3>2 DEF Returns, Again
    <3>4. QED
      BY <3>1, <3>3, BumpTime
  <2>5. CASE RollbackTx(w)
    <3>1. Renewing'
      BY <1>0, <2>5 DEF RollbackTx, Steps, Renewing, Shapes
    <3>2. QED
      BY <2>5, <3>1, WriterTime DEF RollbackTx
  <2>6. QED
    BY <1>2, <2>1, <2>2, <2>3, <2>4, <2>5
<1>3. CASE RemoteWrite
  <2>1. Renewing'
    BY <1>0, <1>3 DEF RemoteWrite, Renewing
  <2>2. QED
    BY <1>3, <2>1, CommitTime DEF RemoteWrite
<1>4. CASE Passes
  BY <1>4, PassTime
<1>5. CASE UNCHANGED cacheVars
  <2>1. Renewing'
    BY <1>0, <1>5 DEF cacheVars, Renewing
  <2>2. QED
    BY <1>5, <2>1, WriterTime DEF cacheVars, Cached
<1>6. QED
  BY <1>1, <1>2, <1>3, <1>4, <1>5 DEF CacheNext

\* Where no hook writes overrides, a call of the feature cache sees whatever a writer
\* that returned before it began had committed, and what another instance committed
\* ttl_ms before, and the memory of the entries is safe.
THEOREM CacheIsSound ==
  ASSUME InHook = {}
  PROVE  CacheSpec => []CacheSound
<1>1. RefInv /\ TimeInv => CacheSound
  BY DEF RefInv, TimeInv, CacheSound
<1>2. RefInv /\ TimeInv /\ [CacheNext]_cacheVars => (RefInv /\ TimeInv)'
  BY RefStep, TimeStep
<1>3. QED
  BY <1>1, <1>2, RefInit, TimeInit, PTL DEF CacheSpec

-----------------------------------------------------------------------------
\* Every run has a claim of its own.
OwnClaims ==
  \A i \in Instances : Running(i) =>
    /\ held[i] > 0 /\ held[i] <= generation
    /\ \A j \in Instances : Running(j) /\ held[j] = held[i] => j = i

\* The run of the newest claim holds the lease, and works on what the row
\* waits for.
NewestHolds ==
  \A i \in Instances : Running(i) /\ held[i] = generation =>
    /\ owner = generation
    /\ until[i] = lease_until
    /\ scheduled_at[i] = occurrence_at
    /\ known[i] = failures
    /\ ~stopped /\ occurrence_at <= now

\* A run whose claim was replaced is past its lease.
ReplacedIsLate ==
  \A i \in Instances : Running(i) /\ held[i] # generation => until[i] <= now

\* What was completed lies before what the row waits for.
Progress ==
  /\ definition = NoRow => completed = {} /\ \A i \in Instances : ~Running(i)
  /\ ~stopped => \A o \in completed : o < occurrence_at
  /\ ~stopped => occurrence_at <= next_fire \/ occurrence_at <= now

ScheduleInv == TypeOK /\ OwnClaims /\ NewestHolds /\ ReplacedIsLate /\ Progress

\* Init establishes the invariant.
LEMMA ScheduleInit == Init => ScheduleInv
<1> SUFFICES ASSUME Init PROVE ScheduleInv
  OBVIOUS
<1>1. 0 \in Nat /\ 0 \in 0..MaxFailures
  BY ScheduleAssumption
<1>2. TypeOK
  BY <1>1 DEF Init, TypeOK
<1>3. \A i \in Instances : ~Running(i)
  BY DEF Init, Running
<1>4. Progress
  BY <1>3 DEF Init, Progress
<1>5. QED
  BY <1>2, <1>3, <1>4 DEF ScheduleInv, OwnClaims, NewestHolds, ReplacedIsLate

\* The times MoveOn stores are times, and later than now.
LEMMA MoveOnLater ==
  ASSUME TypeOK, MoveOn
  PROVE  /\ next_fire' \in Nat /\ occurrence_at' \in Nat /\ stopped' \in BOOLEAN
         /\ ~stopped' => next_fire' > now /\ occurrence_at' > now
<1>1. CASE \E n \in Fires : /\ NextFire(now, n)
                            /\ next_fire' = n /\ occurrence_at' = n /\ stopped' = FALSE
  <2>1. PICK n \in Fires : n > now /\ next_fire' = n /\ occurrence_at' = n /\ stopped' = FALSE
    BY <1>1 DEF NextFire
  <2>2. n \in Nat
    BY ScheduleAssumption
  <2>3. QED
    BY <2>1, <2>2
<1>2. CASE next_fire' = 0 /\ occurrence_at' = 0 /\ stopped' = TRUE
  BY <1>2
<1>3. QED
  BY <1>1, <1>2 DEF MoveOn

\* Every variable keeps its type.
LEMMA ScheduleType == ScheduleInv /\ [Next]_vars => TypeOK'
<1> SUFFICES ASSUME ScheduleInv, [Next]_vars PROVE TypeOK'
  OBVIOUS
<1>0. TypeOK
  BY DEF ScheduleInv
<1>1. ASSUME NEW i \in Instances, Probe(i) PROVE TypeOK'
  BY <1>0, <1>1 DEF Probe, MovesTo, TypeOK, row, run
<1>2. ASSUME NEW i \in Instances, Register(i) PROVE TypeOK'
  BY <1>0, <1>2, MoveOnLater DEF Register, MovesTo, TypeOK, run
<1>3. ASSUME NEW i \in Instances, Claim(i) PROVE TypeOK'
  <2>1. generation' \in Nat
    BY <1>0, <1>3 DEF Claim, NewGeneration, TypeOK
  <2>2. Lease[i] \in Nat /\ now \in Nat
    BY <1>0, ScheduleAssumption DEF TypeOK
  <2>3. now + Lease[i] \in Nat
    BY <2>2
  <2>4. QED
    BY <1>0, <1>3, <2>1, <2>3 DEF Claim, MovesTo, TypeOK
<1>4. ASSUME NEW i \in Instances, Declined(i) PROVE TypeOK'
  BY <1>0, <1>4 DEF Declined, MovesTo, TypeOK, row, run
<1>5. ASSUME NEW i \in Instances, Finishes(i) PROVE TypeOK'
  <2>1. /\ pc' \in [Instances -> {"idle", "ready", "running", "retired"}]
        /\ now' \in Nat
        /\ held' \in [Instances -> Nat] /\ scheduled_at' \in [Instances -> Nat]
        /\ known' \in [Instances -> 0..MaxFailures] /\ until' \in [Instances -> Nat]
    BY <1>0, <1>5 DEF Finishes, MovesTo, TypeOK, run
  <2>2. CASE ~Valid(i) /\ UNCHANGED <<row, completed>>
    BY <1>0, <2>1, <2>2 DEF TypeOK, row
  <2>3. CASE /\ Fails(i)
             /\ owner' = 0 /\ lease_until' = 0
             /\ UNCHANGED <<definition, generation>>
    <3>1. known[i] + 1 \in 0..MaxFailures
      BY <1>0, <2>3, ScheduleAssumption DEF Fails, TypeOK
    <3>2. now + RetryDelay[known[i] + 1] \in Nat
      BY <1>0, <3>1, ScheduleAssumption DEF TypeOK
    <3>3. QED
      BY <1>0, <2>1, <2>3, <3>1, <3>2 DEF Fails, TypeOK
  <2>4. CASE /\ Succeeds(i)
             /\ owner' = 0 /\ lease_until' = 0
             /\ UNCHANGED <<definition, generation>>
    <3>1. scheduled_at[i] \in Nat /\ 0 \in 0..MaxFailures
      BY <1>0, ScheduleAssumption DEF TypeOK
    <3>2. QED
      BY <1>0, <2>1, <2>4, <3>1, MoveOnLater DEF Succeeds, TypeOK
  <2>5. QED
    BY <1>5, <2>2, <2>3, <2>4 DEF Finishes
<1>6. ASSUME NEW i \in Instances, Crash(i) PROVE TypeOK'
  BY <1>0, <1>6 DEF Crash, MovesTo, TypeOK, row, run
<1>7. CASE Tick
  BY <1>0, <1>7 DEF Tick, TypeOK, row, run
<1>8. CASE UNCHANGED vars
  BY <1>0, <1>8 DEF TypeOK, vars, row, run
<1>9. QED
  BY <1>1, <1>2, <1>3, <1>4, <1>5, <1>6, <1>7, <1>8 DEF Next

\* Steps of instances that start or end no run keep what is said of runs.
LEMMA QuietStep ==
  ASSUME ScheduleInv, UNCHANGED <<row, now, run, completed>>,
         \A i \in Instances : Running(i)' => Running(i)
  PROVE  (OwnClaims /\ NewestHolds /\ ReplacedIsLate /\ Progress)'
BY DEF ScheduleInv, OwnClaims, NewestHolds, ReplacedIsLate, Progress, Running, row, run

\* Registering starts no run: nobody ran before.
LEMMA RegisterStep ==
  ASSUME ScheduleInv, NEW i \in Instances, Register(i)
  PROVE  (OwnClaims /\ NewestHolds /\ ReplacedIsLate /\ Progress)'
<1>0. TypeOK
  BY DEF ScheduleInv
<1>1. \A j \in Instances : ~Running(j)'
  BY <1>0 DEF ScheduleInv, Progress, Register, MovesTo, Running, TypeOK
<1>2. completed' = {} /\ now' = now
  BY DEF ScheduleInv, Progress, Register
<1>4. Progress'
  <2>1. occurrence_at' = next_fire' /\ occurrence_at' \in Nat
    BY <1>0, MoveOnLater DEF Register, MoveOn
  <2>2. QED
    BY <1>1, <1>2, <2>1 DEF Progress
<1>5. QED
  BY <1>1, <1>4 DEF OwnClaims, NewestHolds, ReplacedIsLate

\* The new run is newest and holds the lease; the one before it, if it still
\* runs, was past its own.
LEMMA ClaimStep ==
  ASSUME ScheduleInv, NEW i \in Instances, Claim(i)
  PROVE  (OwnClaims /\ NewestHolds /\ ReplacedIsLate /\ Progress)'
<1>0. TypeOK
  BY DEF ScheduleInv
<1>1. /\ generation' = generation + 1 /\ held'[i] = generation + 1
      /\ owner' = generation' /\ until'[i] = lease_until'
      /\ scheduled_at'[i] = occurrence_at' /\ known'[i] = failures'
      /\ ~stopped' /\ now' = now /\ occurrence_at' = occurrence_at
  BY <1>0 DEF Claim, NewGeneration, Due, TypeOK
<1>2. \A j \in Instances \ {i} :
        /\ Running(j)' <=> Running(j)
        /\ held'[j] = held[j] /\ until'[j] = until[j]
  BY <1>0 DEF Claim, MovesTo, Running, TypeOK
<1>3. ~stopped /\ next_fire <= now /\ lease_until <= now
  BY DEF Claim, Due
<1>4. generation \in Nat /\ \A j \in Instances : held[j] \in Nat
  BY <1>0 DEF TypeOK
<1>5. \A j \in Instances \ {i} :
        Running(j)' => held'[j] \in Nat /\ held'[j] > 0 /\ held'[j] <= generation
  BY <1>2, <1>4 DEF ScheduleInv, OwnClaims
<1>6. OwnClaims'
  <2>1. ASSUME NEW j \in Instances, Running(j)' PROVE held'[j] > 0 /\ held'[j] <= generation'
    BY <1>1, <1>4, <1>5, <2>1
  <2>2. ASSUME NEW j \in Instances, NEW k \in Instances, Running(j)', Running(k)', held'[k] = held'[j]
        PROVE  k = j
    <3>1. CASE j = i
      BY <1>1, <1>4, <1>5, <2>2, <3>1
    <3>2. CASE k = i
      BY <1>1, <1>4, <1>5, <2>2, <3>2
    <3>3. CASE j # i /\ k # i
      BY <1>2, <2>2, <3>3 DEF ScheduleInv, OwnClaims
    <3>4. QED
      BY <3>1, <3>2, <3>3
  <2>3. QED
    BY <2>1, <2>2 DEF OwnClaims
<1>7. occurrence_at <= now
  <2>1. next_fire \in Nat /\ now \in Nat /\ occurrence_at \in Nat
    BY <1>0 DEF TypeOK
  <2>2. QED
    BY <1>3, <2>1 DEF ScheduleInv, Progress
<1>8. ASSUME NEW j \in Instances, Running(j)', held'[j] = generation' PROVE j = i
  BY <1>1, <1>4, <1>5, <1>8
<1>9. NewestHolds'
  BY <1>1, <1>7, <1>8 DEF NewestHolds
<1>10. ASSUME NEW j \in Instances, Running(j)', held'[j] # generation' PROVE until'[j] <= now'
  <2>1. j # i
    BY <1>1, <1>10
  <2>2. Running(j) /\ until'[j] = until[j]
    BY <1>2, <1>10, <2>1
  <2>3. CASE held[j] = generation
    BY <1>1, <1>3, <2>2, <2>3 DEF ScheduleInv, NewestHolds
  <2>4. CASE held[j] # generation
    BY <1>1, <2>2, <2>4 DEF ScheduleInv, ReplacedIsLate
  <2>5. QED
    BY <2>3, <2>4
<1>11. Progress'
  <2>1. /\ definition' # NoRow
        /\ UNCHANGED <<next_fire, occurrence_at, stopped, now, completed>>
    <3>1. definition # NoRow
      BY ScheduleAssumption DEF Claim
    <3>2. QED
      BY <3>1 DEF Claim
  <2>2. QED
    BY <2>1 DEF ScheduleInv, Progress
<1>12. QED
  BY <1>6, <1>9, <1>10, <1>11 DEF ReplacedIsLate

\* A completion of a replaced run changes no column; one that is accepted ends
\* the only run of the newest claim.
LEMMA FinishStep ==
  ASSUME ScheduleInv, NEW i \in Instances, Finishes(i)
  PROVE  (OwnClaims /\ NewestHolds /\ ReplacedIsLate /\ Progress)'
<1>0. TypeOK
  BY DEF ScheduleInv
<1>1. /\ Running(i)
      /\ \A j \in Instances : Running(j)' => Running(j) /\ j # i
      /\ UNCHANGED <<now, run>>
  BY <1>0 DEF Finishes, MovesTo, Running, TypeOK
<1>2. CASE UNCHANGED <<row, completed>>
  BY <1>1, <1>2, QuietStep
<1>3. CASE /\ Valid(i)
           /\ Fails(i) \/ Succeeds(i)
           /\ UNCHANGED <<definition, generation>>
  <2>1. /\ held[i] = generation /\ scheduled_at[i] = occurrence_at
        /\ ~stopped /\ occurrence_at <= now
    BY <1>1, <1>3 DEF Valid, ScheduleInv, NewestHolds
  <2>2. \A j \in Instances : Running(j)' => held[j] # generation
    BY <1>1, <2>1 DEF ScheduleInv, OwnClaims
  <2>3. OwnClaims'
    BY <1>1, <1>3 DEF ScheduleInv, OwnClaims, run
  <2>4. NewestHolds' /\ ReplacedIsLate'
    BY <1>1, <1>3, <2>2 DEF ScheduleInv, NewestHolds, ReplacedIsLate, run
  <2>5. definition' # NoRow
    BY <1>1, <1>3 DEF ScheduleInv, Progress
  <2>6. CASE Fails(i)
    <3>1. UNCHANGED <<occurrence_at, completed>> /\ now' = now
      BY <1>1, <2>6 DEF Fails
    <3>2. Progress'
      BY <2>1, <2>5, <3>1 DEF ScheduleInv, Progress
    <3>3. QED
      BY <2>3, <2>4, <3>2
  <2>7. CASE Succeeds(i)
    <3>1. completed' = completed \cup {occurrence_at}
      BY <2>1, <2>7 DEF Succeeds
    <3>2. ~stopped' => occurrence_at' \in Nat /\ occurrence_at' > now /\ next_fire' \in Nat /\ next_fire' > now
      BY <1>0, <2>7, MoveOnLater DEF Succeeds
    <3>3. now \in Nat /\ occurrence_at \in Nat /\ now' = now /\ completed \subseteq Nat
      BY <1>0, <1>1 DEF TypeOK
    <3>4. \A o \in completed' : o \in Nat /\ o <= now
      BY <2>1, <3>1, <3>3 DEF ScheduleInv, Progress
    <3>5. ~stopped' => occurrence_at' = next_fire' /\ \A o \in completed' : o < occurrence_at'
      BY <2>7, <3>2, <3>3, <3>4 DEF Succeeds, MoveOn
    <3>6. QED
      BY <2>3, <2>4, <2>5, <3>2, <3>5 DEF Progress
  <2>8. QED
    BY <1>3, <2>3, <2>4, <2>6, <2>7
<1>4. QED
  BY <1>2, <1>3 DEF Finishes

\* Time only makes leases run out.
LEMMA TickStep ==
  ASSUME ScheduleInv, Tick
  PROVE  (OwnClaims /\ NewestHolds /\ ReplacedIsLate /\ Progress)'
<1>0. TypeOK
  BY DEF ScheduleInv
<1>1. now' = now + 1 /\ UNCHANGED <<row, pc, run, completed>>
  BY DEF Tick
<1>2. \A n \in Nat : n <= now => n <= now'
  BY <1>0, <1>1 DEF TypeOK
<1>3. OwnClaims'
  BY <1>1 DEF ScheduleInv, OwnClaims, Running, row, run
<1>4. NewestHolds'
  BY <1>0, <1>1, <1>2 DEF ScheduleInv, NewestHolds, Running, row, run, TypeOK
<1>5. ReplacedIsLate'
  BY <1>0, <1>1, <1>2 DEF ScheduleInv, ReplacedIsLate, Running, row, run, TypeOK
<1>6. Progress'
  BY <1>0, <1>1, <1>2 DEF ScheduleInv, Progress, Running, row, run, TypeOK
<1>7. QED
  BY <1>3, <1>4, <1>5, <1>6

\* The parts of the invariant are never broken.
THEOREM ScheduleInvariant == Spec => []ScheduleInv
<1>1. ScheduleInv /\ [Next]_vars => ScheduleInv'
  <2> SUFFICES ASSUME ScheduleInv, [Next]_vars
               PROVE  (OwnClaims /\ NewestHolds /\ ReplacedIsLate /\ Progress)'
    BY ScheduleType DEF ScheduleInv
  <2>0. TypeOK
    BY DEF ScheduleInv
  <2>1. ASSUME NEW i \in Instances, Probe(i) \/ Declined(i) \/ Crash(i)
        PROVE  (OwnClaims /\ NewestHolds /\ ReplacedIsLate /\ Progress)'
    <3>1. UNCHANGED <<row, now, run, completed>>
      BY <2>1 DEF Probe, Declined, Crash
    <3>2. \A j \in Instances : Running(j)' => Running(j)
      BY <2>0, <2>1 DEF Probe, Declined, Crash, MovesTo, Running, TypeOK
    <3>3. QED
      BY <3>1, <3>2, QuietStep
  <2>2. CASE UNCHANGED vars
    BY <2>2, QuietStep DEF vars, Running
  <2>3. QED
    BY <2>1, <2>2, RegisterStep, ClaimStep, FinishStep, TickStep DEF Next
<1>2. QED
  BY <1>1, ScheduleInit, PTL DEF Spec

\* TypeOK, for all parameters.
THEOREM ScheduleTypes == Spec => []TypeOK
<1>1. ScheduleInv => TypeOK
  BY DEF ScheduleInv
<1>2. QED
  BY <1>1, ScheduleInvariant, PTL

\* scheduler_coordination.zig runs a job on one instance at a time, except for
\* runs that stay past their lease.
THEOREM ExclusiveInsideLease == Spec => []LeaseExclusive
<1>1. ScheduleInv => LeaseExclusive
  <2> SUFFICES ASSUME ScheduleInv, NEW i \in Instances, NEW j \in Instances,
                      Running(i), Running(j), until[i] > now, until[j] > now
               PROVE  i = j
    BY DEF LeaseExclusive
  <2>1. now \in Nat /\ until[i] \in Nat /\ until[j] \in Nat
    BY DEF ScheduleInv, TypeOK
  <2>2. held[i] = generation /\ held[j] = generation
    BY <2>1 DEF ScheduleInv, ReplacedIsLate
  <2>3. QED
    BY <2>2 DEF ScheduleInv, OwnClaims
<1>2. QED
  BY <1>1, ScheduleInvariant, PTL

\* Overlapping runs hold different generations.
THEOREM DistinctGenerations == Spec => []GenerationsDiffer
<1>1. ScheduleInv => GenerationsDiffer
  BY DEF ScheduleInv, OwnClaims, GenerationsDiffer
<1>2. QED
  BY <1>1, ScheduleInvariant, PTL

\* finish() accepts one success for an occurrence, however many runs work on it.
THEOREM OneSuccessPerOccurrence == Spec => CompletedOnce
<1>1. ScheduleInv /\ [Next]_vars
        => [\A i \in Instances :
              Finishes(i) /\ completed' # completed
                => scheduled_at[i] = occurrence_at /\ scheduled_at[i] \notin completed]_vars
  <2> SUFFICES ASSUME ScheduleInv, NEW i \in Instances, Finishes(i), completed' # completed
               PROVE  scheduled_at[i] = occurrence_at /\ scheduled_at[i] \notin completed
    OBVIOUS
  <2>1. Running(i) /\ Valid(i)
    BY DEF Finishes, Running
  <2>2. scheduled_at[i] = occurrence_at /\ ~stopped
    BY <2>1 DEF ScheduleInv, NewestHolds, Valid
  <2>3. occurrence_at \in Nat /\ \A o \in completed : o < occurrence_at
    BY <2>2 DEF ScheduleInv, Progress, TypeOK
  <2>4. QED
    BY <2>2, <2>3
<1>2. QED
  BY <1>1, ScheduleInvariant, PTL DEF Spec, CompletedOnce

\* The row leaves an occurrence only for a later one, by a success that was
\* given this very occurrence.
THEOREM NoneLost == Spec => OccurrencesAdvance
<1>1. ScheduleInv /\ [Next]_vars
        => [occurrence_at' # occurrence_at /\ definition # NoRow
              => occurrence_at \in completed' /\ (stopped' \/ occurrence_at' > occurrence_at)]_vars
  <2> SUFFICES ASSUME ScheduleInv, [Next]_vars,
                      occurrence_at' # occurrence_at, definition # NoRow
               PROVE  occurrence_at \in completed'
                      /\ (stopped' \/ occurrence_at' > occurrence_at)
    OBVIOUS
  <2>1. PICK i \in Instances : Finishes(i)
    BY DEF Next, Probe, Register, Claim, Declined, Crash, Tick, row, vars
  <2>2. Running(i) /\ Valid(i) /\ Succeeds(i)
    BY <2>1 DEF Finishes, Running, Fails, row
  <2>3. scheduled_at[i] = occurrence_at /\ occurrence_at <= now
    BY <2>2 DEF ScheduleInv, NewestHolds, Valid
  <2>4. /\ ~stopped' => occurrence_at' \in Nat /\ occurrence_at' > now
        /\ stopped' \in BOOLEAN
    BY <2>2, MoveOnLater DEF ScheduleInv, Succeeds
  <2>5. occurrence_at \in Nat /\ now \in Nat
    BY DEF ScheduleInv, TypeOK
  <2>6. QED
    BY <2>2, <2>3, <2>4, <2>5 DEF Succeeds
<1>2. QED
  BY <1>1, ScheduleInvariant, PTL DEF Spec, OccurrencesAdvance
=============================================================================
