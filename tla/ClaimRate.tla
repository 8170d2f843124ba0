----------------------------- MODULE ClaimRate -----------------------------
(***************************************************************************)
(* The delivery ceiling of one rated durable queue: its row of             *)
(* "_queue_rates", charged by every worker of every instance that claims   *)
(* (claimRateLimited in src/queue/durable.zig).                            *)
(*                                                                         *)
(* A claim is one transaction that locks the row; reading the row, taking  *)
(* the jobs and charging them are separate steps here, with an abort       *)
(* possible after each.  A worker reads its clock when its poll cycle      *)
(* starts and enters the transaction later; the clocks of two instances    *)
(* need not agree.                                                         *)
(***************************************************************************)
EXTENDS Integers

CONSTANTS
  Workers,
  Rate,      \* [Workers -> Nat]: rate.per_second in the worker's build
  Ceiling,   \* none of them is larger
  Skew,      \* [Workers -> Nat]: how far the worker's clock runs ahead
  Batch,     \* claims one poll cycle may make at most
  MaxClock   \* bound on the time

ASSUME RateAssumption ==
  /\ Ceiling \in Nat
  /\ Rate \in [Workers -> 1..Ceiling]
  /\ Skew \in [Workers -> Nat]
  /\ Batch \in Nat /\ MaxClock \in Nat

VARIABLES
  clock,    \* true time, in seconds
  window_s, \* column window_s; None while there is no row
  used,     \* column used
  holder,   \* the workers in a transaction that locked the row
  pc,       \* [Workers -> {"idle", "poll", "claim", "charge"}]
  now,      \* [Workers -> Nat]: the clock reading of the poll cycle
  window,   \* [Workers -> Nat]: local variable of the transaction
  spent,    \* [Workers -> Nat]: its local `used`
  claims,   \* [Workers -> Nat]: claimed.len
  total,    \* history: claims committed so far
  first,    \* history: the first window
  burst     \* history: claims committed in the current second

local == <<window, spent, claims>>
vars  == <<clock, window_s, used, holder, pc, now, local, total, first, burst>>

None == -1

TypeOK ==
  /\ clock \in Nat
  /\ window_s \in Nat \cup {None}
  /\ used \in 0..Ceiling
  /\ holder \in SUBSET Workers
  /\ pc \in [Workers -> {"idle", "poll", "claim", "charge"}]
  /\ now \in [Workers -> Nat]
  /\ window \in [Workers -> Nat]
  /\ spent \in [Workers -> 0..Ceiling]
  /\ claims \in [Workers -> 0..Ceiling]
  /\ total \in Nat /\ first \in Nat /\ burst \in Nat

Init ==
  /\ clock = 0
  /\ window_s = None
  /\ used = 0
  /\ holder = {}
  /\ pc = [w \in Workers |-> "idle"]
  /\ now = [w \in Workers |-> 0]
  /\ window = [w \in Workers |-> 0]
  /\ spent = [w \in Workers |-> 0]
  /\ claims = [w \in Workers |-> 0]
  /\ total = 0
  /\ first = 0
  /\ burst = 0

Goes(w, to) == pc' = [pc EXCEPT ![w] = to]

\* pollOnce reads the clock.
StartPoll(w) ==
  /\ pc[w] = "idle"
  /\ Goes(w, "poll")
  /\ now' = [now EXCEPT ![w] = clock + Skew[w]]
  /\ UNCHANGED <<clock, window_s, used, holder, local, total, first, burst>>

\* The transaction's view of the window: the row's, the one it just inserted,
\* or a new one.  A clock that runs behind never refills.
View(w) ==
  IF window_s = None \/ now[w] > window_s
  THEN [window |-> now[w], used |-> 0]
  ELSE [window |-> window_s, used |-> used]

\* Mutant: without FOR UPDATE.
EnterUnlocked(w) ==
  /\ pc[w] = "poll"
  /\ IF View(w).used >= Rate[w]
     THEN Goes(w, "idle") /\ UNCHANGED <<holder, local>>
     ELSE /\ Goes(w, "claim")
          /\ holder' = holder \cup {w}
          /\ window' = [window EXCEPT ![w] = View(w).window]
          /\ spent' = [spent EXCEPT ![w] = View(w).used]
          /\ UNCHANGED claims
  /\ UNCHANGED <<clock, window_s, used, now, total, first, burst>>

\* Lock the row and compute what is left of the window; with nothing left the
\* transaction commits at once.
Enter(w) ==
  /\ pc[w] = "poll" /\ holder = {}
  /\ IF View(w).used >= Rate[w]
     THEN Goes(w, "idle") /\ UNCHANGED <<holder, local>>
     ELSE /\ Goes(w, "claim")
          /\ holder' = {w}
          /\ window' = [window EXCEPT ![w] = View(w).window]
          /\ spent' = [spent EXCEPT ![w] = View(w).used]
          /\ UNCHANGED claims
  /\ UNCHANGED <<clock, window_s, used, now, total, first, burst>>

\* At most what the batch has room for and the window has left.
Claim(w) ==
  /\ pc[w] = "claim"
  /\ \E k \in 0..Batch :
       /\ k <= Rate[w] - spent[w]
       /\ claims' = [claims EXCEPT ![w] = k]
  /\ Goes(w, "charge")
  /\ UNCHANGED <<clock, window_s, used, holder, now, window, spent, total, first, burst>>

\* Only a claim persists a window that rolled over; an inserted row persists
\* in any case.
Commit(w) ==
  /\ pc[w] = "charge"
  /\ IF claims[w] = 0
     THEN window_s' = (IF window_s = None THEN window[w] ELSE window_s) /\ UNCHANGED used
     ELSE window_s' = window[w] /\ used' = spent[w] + claims[w]
  /\ first' = IF window_s = None THEN window[w] ELSE first
  /\ total' = total + claims[w] /\ burst' = burst + claims[w]
  /\ Goes(w, "idle") /\ holder' = holder \ {w}
  /\ UNCHANGED <<clock, now, local>>

\* An error or a crash rolls back the claims with their charge.
Abort(w) ==
  /\ pc[w] # "idle"
  /\ Goes(w, "idle") /\ holder' = holder \ {w}
  /\ UNCHANGED <<clock, window_s, used, now, local, total, first, burst>>

Tick ==
  /\ clock < MaxClock
  /\ clock' = clock + 1
  /\ burst' = 0
  /\ UNCHANGED <<window_s, used, holder, pc, now, local, total, first>>

Next ==
  \/ \E w \in Workers : StartPoll(w) \/ Enter(w) \/ Claim(w) \/ Commit(w) \/ Abort(w)
  \/ Tick

Spec == Init /\ [][Next]_vars

-----------------------------------------------------------------------------
\* The sustained ceiling: over all windows that ever opened, the claims stay
\* below the rate, whatever aborts, polls late or reads a skewed clock.
Sustained ==
  IF window_s = None THEN total = 0
                     ELSE total <= Ceiling * (window_s - first + 1)

\* A window never reopens: a clock that runs behind spends what is left.
WindowAdvances == [][window_s' >= window_s]_vars

\* The maximum burst is one second's worth.
BurstIsOneSecond == burst <= Ceiling
=============================================================================
