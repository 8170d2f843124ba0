-------------------------------- MODULE MCWork --------------------------------
(* Retried work, for TLC: a client that retries an idempotent operation, and the
   jobs of a durable queue, each on its own. *)
EXTENDS Idempotency, DurableQueue

CONSTANTS c1, c2, k1, k2, p1, p2, o1, o2, o3, j1, j2, w1, q1

After(seconds) == [q \in Queues |-> seconds]
After1s == After(1)
After2s == After(2)
DrainsAll == [w \in Workers |-> Queues]
OneEach == [w \in Workers |-> 1]

VARIABLE part   \* "client" or "queue"
both == <<part, receiptsVars, vars>>

OfClient(A) == part = "client" /\ A /\ UNCHANGED <<part, vars>>
OfQueue(A) == part = "queue" /\ A /\ UNCHANGED <<part, receiptsVars>>

RunClient == part = "client" /\ ReceiptsNext /\ UNCHANGED <<part, vars>>
RunQueue == part = "queue" /\ Next /\ UNCHANGED <<part, receiptsVars>>

\* A ledger nobody uses.
NoClient ==
  /\ receipts = [s \in Scopes |-> None] /\ clock = 0 /\ effects = 0
  /\ at = [c \in Clients |-> "done"] /\ key = [c \in Clients |-> k1]
  /\ payload = [c \in Clients |-> p1] /\ saw = [c \in Clients |-> 0]
  /\ answer = [c \in Clients |-> 0] /\ effect = [k \in Keys |-> None]

WorkInit ==
  /\ part \in {"client", "queue"} /\ Init
  /\ IF part = "client" THEN ReceiptsInit ELSE NoClient

\* ReceiptsFairSpec and FairSpec, each of its own part.
WorkSpec ==
  /\ WorkInit
  /\ [][RunClient \/ RunQueue]_both
  /\ \A c \in Clients : WF_both(OfClient(Attempt(c))) /\ SF_both(OfClient(Execute(c)))
  /\ \A w \in Workers : WF_both(OfQueue(PollStep(w)))
  /\ \A q \in Queues : WF_both(OfQueue(GcReclaim(q)))
  /\ WF_both(OfQueue(Tick))
===============================================================================
