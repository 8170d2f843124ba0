-------------------------- MODULE MCDurableQueue --------------------------
(***************************************************************************)
(* Small instances of DurableQueue.                                        *)
(***************************************************************************)
EXTENDS DurableQueue, TLC

CONSTANTS j1, j2, w1, w2, q1, q2

JobSymmetry == Permutations({j1, j2})

BatchOf(n) == [w \in Workers |-> n]
OneEach == BatchOf(1)
TwoEach == BatchOf(2)
TwoAndOne == [w \in Workers |-> IF w = w1 THEN 2 ELSE 1]
DrainsAll == [w \in Workers |-> Queues]

AllQueues(n) == [q \in Queues |-> n]
AllNormal == AllQueues(1)
HighFirst == [q \in Queues |-> IF q = q1 THEN 0 ELSE 2]
After1s == AllQueues(1)
After2s == AllQueues(2)
After3s == AllQueues(3)
TwoAttempts == AllQueues(2)
OneAttempt == AllQueues(1)
=============================================================================
