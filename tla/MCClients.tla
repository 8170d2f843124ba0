------------------------------- MODULE MCClients -------------------------------
(* The Python processes, for TLC: the client's requests, and a run of the agent
   evaluation, each on its own. *)
EXTENDS RequestTransport, EvalRun

VARIABLE part   \* "client" or "eval"
both == <<part, transportVars, vars>>

RunClient == part = "client" /\ TransportNext /\ UNCHANGED <<part, vars>>
RunEval == part = "eval" /\ Next /\ UNCHANGED <<part, transportVars>>

ClientsInit ==
  /\ part \in {"client", "eval"} /\ TransportInit /\ Init
  /\ part = "client" => copy = "none"
  /\ part = "eval" => ~threaded /\ expired = 0

\* TransportFairSpec and FairSpec, each of its own part.
ClientsSpec ==
  /\ ClientsInit
  /\ [][RunClient \/ RunEval]_both
  /\ \A c \in Calls : WF_transportVars(part = "client" /\ ((Step(c) /\ ~cancelled[c]) \/ Resume(c)))
  /\ WF_vars(part = "eval" /\ phase = "agent" /\ MainStep /\ UNCHANGED evars)
  /\ \A s \in Streams : WF_vars(part = "eval" /\ phase = "agent" /\ PumpStep(s) /\ UNCHANGED evars)
  /\ WF_vars(part = "eval" /\ HarnessStep)

--------------------------------------------------------------------------------
\* A request that is not cancelled returns or raises, whatever becomes of the calls
\* it shares a key or a refresh with, and so does the run of an agent, whatever its
\* processes of the group do with the signals (no helper is Detached in the cfg).
EverythingReturns == EveryCallReturns /\ Returns
================================================================================
