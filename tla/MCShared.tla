------------------------------- MODULE MCShared -------------------------------
(* What instances and clients share through the database, for TLC: the row of a
   schedule, and the replay journal, each on its own. *)
EXTENDS DistributedSchedule, ReplayJournal, TLC

CONSTANTS i1, i2, i3, a1, a2, r1, posts, drafts

\* A rolling deployment that shortens the lease, and an instance that disagrees
\* on the definition.
MCLease == (i1 :> 2) @@ (i2 :> 1) @@ (i3 :> 1)
MCDefinition == (i1 :> "hourly") @@ (i2 :> "hourly") @@ (i3 :> "daily")
MCRetryDelay == (0 :> 1) @@ (1 :> 1) @@ (2 :> 2)
MCWatches == r1 :> posts

VARIABLE part   \* "schedule" or "journal"
both == <<part, vars, journalVars>>

OfSchedule(A) == part = "schedule" /\ A /\ UNCHANGED <<part, journalVars>>
OfJournal(A) == part = "journal" /\ A /\ UNCHANGED <<part, vars>>
RunSchedule == part = "schedule" /\ Next /\ UNCHANGED <<part, journalVars>>
RunJournal == part = "journal" /\ JournalNext /\ UNCHANGED <<part, vars>>

SharedInit == part \in {"schedule", "journal"} /\ Init /\ JournalInit

\* FairSpec and JournalFairSpec, each of its own part.
SharedSpec ==
  /\ SharedInit
  /\ [][RunSchedule \/ RunJournal]_both
  /\ \A i \in Instances : /\ WF_both(OfSchedule(Probe(i)))
                          /\ WF_both(OfSchedule(Register(i) \/ Claim(i) \/ Declined(i)))
                          /\ WF_both(OfSchedule(Finishes(i)))
  /\ WF_both(OfSchedule(Tick))
  /\ \A r \in Readers : WF_both(OfJournal(ReadPage(r)))
===============================================================================
