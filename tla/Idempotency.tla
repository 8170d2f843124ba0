---------------------------- MODULE Idempotency ----------------------------
(***************************************************************************)
(* Transactional receipts of custom operations (src/idempotency.zig).      *)
(* Clients retry an operation under one key until they see an answer; an   *)
(* attempt captures the time, waits for the writer (SQLite) or the lock of *)
(* the namespace (PostgreSQL), and then does everything else in one        *)
(* transaction, which is one action here.  Its answer may be lost.         *)
(***************************************************************************)
EXTENDS Integers, FiniteSets

CONSTANTS
  Clients,
  Keys,        \* scopes: principal, operation and key, hashed
  Payloads,
  Old,         \* scopes of receipts left by a build with a larger ledger
  None,        \* no receipt
  MaxEntries,  \* limits.max_entries
  Retention,   \* limits.retention_seconds
  CleanupBatch,\* limits.cleanup_batch
  MaxClock,    \* bound on time
  MaxEffects   \* bound on mutations

Scopes == Keys \cup Old
\* A result is the number of the mutation that produced it.
Receipts == [payload : Payloads, result : Nat, expires : Nat]

ASSUME IdempotencyAssumption ==
  /\ IsFiniteSet(Keys) /\ IsFiniteSet(Old) /\ Keys \cap Old = {}
  /\ Payloads # {} /\ None \notin Receipts
  /\ MaxEntries \in Nat \ {0} /\ Retention \in Nat \ {0} /\ CleanupBatch \in Nat \ {0}
  /\ MaxClock \in Nat /\ MaxEffects \in Nat

VARIABLES
  receipts,  \* [Scopes -> Receipts \cup {None}]: the table
  clock,
  at,        \* [Clients -> {"idle", "waiting", "done"}]
  key,       \* [Clients -> Keys]: what the client wants, set once
  payload,   \* [Clients -> Payloads]
  saw,       \* [Clients -> Nat]: input.now, captured before the wait
  effects,   \* mutations so far
  answer     \* [Clients -> Nat]: the result the client got, 0 for none

VARIABLE effect  \* history, [Keys -> Receipts \cup {None}]: the last mutation

client == <<key, payload>>
receiptsVars == <<receipts, clock, at, client, saw, effects, answer, effect>>

ReceiptsTypeOK ==
  /\ receipts \in [Scopes -> Receipts \cup {None}]
  /\ clock \in Nat /\ effects \in Nat
  /\ at \in [Clients -> {"idle", "waiting", "done"}]
  /\ key \in [Clients -> Keys] /\ payload \in [Clients -> Payloads]
  /\ saw \in [Clients -> Nat] /\ answer \in [Clients -> Nat]
  /\ effect \in [Keys -> Receipts \cup {None}]

OldReceipt == [payload |-> CHOOSE p \in Payloads : TRUE, result |-> 0, expires |-> 0]

Present(r) == {s \in Scopes : r[s] # None}

ReceiptsInit ==
  /\ receipts \in [Scopes -> {OldReceipt, None}]
  /\ \A s \in Scopes : receipts[s] # None <=> s \in Old
  /\ clock = 0 /\ effects = 0
  /\ at = [c \in Clients |-> "idle"]
  /\ key \in [Clients -> Keys] /\ payload \in [Clients -> Payloads]
  /\ saw = [c \in Clients |-> 0]
  /\ answer = [c \in Clients |-> 0]
  /\ effect = [k \in Keys |-> None]

-----------------------------------------------------------------------------
Goes(c, to) == at' = [at EXCEPT ![c] = to]

\* A first attempt or a retry.
Attempt(c) ==
  /\ at[c] = "idle"
  /\ saw' = [saw EXCEPT ![c] = clock]
  /\ Goes(c, "waiting")
  /\ UNCHANGED <<receipts, clock, client, effects, answer, effect>>

\* No lock (IdempotencyBusy), no authorization, or a crash before the commit:
\* the transaction leaves nothing.
RolledBack(c) ==
  /\ at[c] = "waiting"
  /\ Goes(c, "idle")
  /\ UNCHANGED <<receipts, clock, client, saw, effects, answer, effect>>

Expired(r, c) == {s \in Present(r) : r[s].expires <= saw[c]}
Without(r, gone) == [s \in Scopes |-> IF s \in gone THEN None ELSE r[s]]

\* Mutant: makes room with any receipt, the oldest first.
CleanedAny(c) ==
  {Without(receipts, gone) : gone \in
    {g \in SUBSET Present(receipts) :
       /\ Cardinality(g) <= CleanupBatch
       /\ \A s \in Present(receipts) \ g : \A t \in g : receipts[t].expires <= receipts[s].expires}}

\* The first expired receipts, oldest first, one batch at most.
Cleaned(c) ==
  {Without(receipts, gone) : gone \in
    {g \in SUBSET Expired(receipts, c) :
       /\ Cardinality(g) <= CleanupBatch
       /\ Expired(receipts, c) = g \/ Cardinality(g) = CleanupBatch
       /\ \A s \in Expired(receipts, c) \ g : \A t \in g : receipts[t].expires <= receipts[s].expires}}

Kept(r, c) == r[key[c]] # None /\ r[key[c]].expires > saw[c]

\* An unexpired receipt of another payload: the transaction rolls back.
PayloadConflict(c) ==
  /\ at[c] = "waiting"
  /\ \E r \in Cleaned(c) : Kept(r, c) /\ r[key[c]].payload # payload[c]
  /\ Goes(c, "done")
  /\ UNCHANGED <<receipts, clock, client, saw, effects, answer, effect>>

\* Mutant: the payload is not compared.
ReplayAny(c) ==
  /\ at[c] = "waiting"
  /\ \E r \in Cleaned(c) :
       /\ Kept(r, c)
       /\ receipts' = r
       /\ \/ Goes(c, "done") /\ answer' = [answer EXCEPT ![c] = r[key[c]].result]
          \/ Goes(c, "idle") /\ UNCHANGED answer
  /\ UNCHANGED <<clock, client, saw, effects, effect>>

\* The stored result; the second alternative loses the answer.
Replay(c) ==
  /\ at[c] = "waiting"
  /\ \E r \in Cleaned(c) :
       /\ Kept(r, c) /\ r[key[c]].payload = payload[c]
       /\ receipts' = r
       /\ \/ Goes(c, "done") /\ answer' = [answer EXCEPT ![c] = r[key[c]].result]
          \/ Goes(c, "idle") /\ UNCHANGED answer
  /\ UNCHANGED <<clock, client, saw, effects, effect>>

\* A receipt that expired beyond the batch is deleted before room is counted.
Dropped(r, c) == Without(r, {key[c]})

\* Mutant: one receipt too many.
FullAtOneMore(r, c) == Cardinality(Present(Dropped(r, c))) > MaxEntries

Full(r, c) == Cardinality(Present(Dropped(r, c))) >= MaxEntries

\* CapacityExceeded commits what was cleaned up.
Refused(c) ==
  /\ at[c] = "waiting"
  /\ \E r \in Cleaned(c) :
       /\ ~Kept(r, c) /\ Full(r, c)
       /\ receipts' = Dropped(r, c)
  /\ Goes(c, "idle")
  /\ UNCHANGED <<clock, client, saw, effects, answer, effect>>

\* The mutation and its receipt commit together; the second alternative loses
\* the answer.
Mutate(c) ==
  /\ at[c] = "waiting"
  /\ effects < MaxEffects
  /\ \E r \in Cleaned(c) :
       LET receipt == [payload |-> payload[c], result |-> effects + 1, expires |-> saw[c] + Retention]
       IN /\ ~Kept(r, c) /\ ~Full(r, c)
          /\ receipts' = [Dropped(r, c) EXCEPT ![key[c]] = receipt]
          /\ effect' = [effect EXCEPT ![key[c]] = receipt]
  /\ effects' = effects + 1
  /\ \/ Goes(c, "done") /\ answer' = [answer EXCEPT ![c] = effects + 1]
     \/ Goes(c, "idle") /\ UNCHANGED answer
  /\ UNCHANGED <<clock, client, saw>>

ReceiptsTick ==
  /\ clock < MaxClock
  /\ clock' = clock + 1
  /\ UNCHANGED <<receipts, at, client, saw, effects, answer, effect>>

Execute(c) == PayloadConflict(c) \/ Replay(c) \/ Refused(c) \/ Mutate(c)

ReceiptsNext ==
  \/ \E c \in Clients : Attempt(c) \/ RolledBack(c) \/ Execute(c)
  \/ ReceiptsTick

ReceiptsSpec == ReceiptsInit /\ [][ReceiptsNext]_receiptsVars

\* Clients retry, and an attempt is not rolled back for ever.
ReceiptsFairSpec == ReceiptsSpec /\ \A c \in Clients : WF_receiptsVars(Attempt(c)) /\ SF_receiptsVars(Execute(c))

-----------------------------------------------------------------------------
\* An operation takes effect once within its retention: however late, lost or
\* repeated the attempts are, a mutation commits only when the receipt of the
\* one before it has run out by the time of the commit.
OncePerRetention ==
  [][\A k \in Keys : effect[k] # None /\ effect'[k] # effect[k]
       => effect[k].expires <= clock]_receiptsVars

\* A client that gets an answer gets the result of an operation with its own
\* payload: the last one that took effect under its key.
AnswersMatch ==
  [][\A c \in Clients : answer'[c] # answer[c]
       => /\ effect'[key[c]].result = answer'[c]
          /\ effect'[key[c]].payload = payload[c]]_receiptsVars

\* The ledger only grows within its capacity, also where it started beyond it.
CapacityKept ==
  [][Cardinality(Present(receipts')) > Cardinality(Present(receipts))
       => Cardinality(Present(receipts')) <= MaxEntries]_receiptsVars

\* A ledger that is too large is no permanent refusal: the attempts that are
\* refused work off its expired receipts themselves, a batch each.
WorkedOff ==
  Cardinality(Present(receipts)) > MaxEntries ~> Cardinality(Present(receipts)) <= MaxEntries

\* A ledger beyond its capacity only shrinks, and does.
LedgerShrinks == CapacityKept /\ WorkedOff
=============================================================================
