----------------------------- MODULE MCReadThenAct -----------------------------
(* What is read first and acted upon later, for TLC: the claim budget of a rated
   queue, the capacity of a bounded one, and the cached feature overrides, each on
   its own. *)
EXTENDS ClaimRate, QueueCapacity, FeatureCache, TLC

CONSTANTS w1, w2, j1, j2, j3, j4, p1, p2, c1, c2, s1, s2, e1, e2

VARIABLE part   \* "rate", "capacity" or "cache"
all == <<part, vars, ledgerVars, cacheVars>>

MCRate == (w1 :> 2) @@ (w2 :> 1)
MCSkew == (w1 :> 0) @@ (w2 :> 1)
MCSize == (j1 :> 1) @@ (j2 :> 1) @@ (j3 :> 1) @@ (j4 :> 3)
Symmetry == Permutations({p1, p2}) \cup Permutations({c1, c2})

RunRate == part = "rate" /\ Next /\ UNCHANGED <<part, ledgerVars, cacheVars>>
RunCapacity == part = "capacity" /\ LedgerNext /\ UNCHANGED <<part, vars, cacheVars>>
RunCache == part = "cache" /\ CacheNext /\ UNCHANGED <<part, vars, ledgerVars>>

ReadThenActInit == part \in {"rate", "capacity", "cache"} /\ Init /\ LedgerInit /\ CacheInit
ReadThenActSpec ==
  /\ ReadThenActInit
  /\ [][RunRate \/ RunCapacity \/ RunCache]_all
================================================================================
