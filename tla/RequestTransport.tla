--------------------------- MODULE RequestTransport ---------------------------
(* clients/python/src/zigbase/_transport.py: the request loop of SyncTransport
   and of AsyncTransport, with the refresh that concurrent 401 answers share, the
   retries after an overload, and the keyed requests that supersede one another.

   One step is what a task does between two awaits, or what a thread does to the
   shared state at once: `threaded` tells which of the two transports runs.  A
   call names its task, its _KeyedRequest and the flight it may own (a call
   refreshes at most once).  The server, which decides on a request as it is
   sent, and a transport that does not give in to a cancellation, are external.
   Tokens are numbered as they are issued; 0 is no token.                     *)
EXTENDS Integers, FiniteSets

CONSTANTS
  Calls, NoCall,
  Keyed,         \* calls that carry the one request_key (asyncio only)
  MaxRetries,
  MaxToken,      \* the server issues no token beyond this one
  MaxFaults      \* sign-ins and outs, cancellations, failing answers, closing

ASSUME ConstantsOK ==
  /\ NoCall \notin Calls /\ Keyed \subseteq Calls
  /\ MaxRetries \in Nat /\ MaxToken \in Nat \ {0} /\ MaxFaults \in Nat

VARIABLES
  threaded,
  task,       \* call -> its _exchange: where it is and its locals
  out,        \* call -> what its caller was given: "none", "ok", "error", "cancelled"
  res,        \* call -> _KeyedRequest.result, before its caller resumes
  cancelled,  \* call -> _KeyedRequest.cancelled
  keyed,      \* the call self._keyed_requests names, or NoCall
  flight,     \* owner and attempt_token of self._refresh_flight
  token,      \* auth_store.token
  issued, expired, \* tokens the server issued; those up to `expired` are refused
  applied,    \* call -> times the server executed its request
  renewals,   \* refused token -> refreshes saved on its account
  closed, faults

server == <<issued, expired, applied>>
keys == <<out, res, cancelled, keyed>>
transportVars == <<threaded, task, keys, flight, token, server, renewals, closed, faults>>

Tokens == 0..MaxToken
NoFlight == [owner |-> NoCall, token |-> 0]

(* sent: attempt_token; answer: a response under way; refreshed: did_refresh;
   joined: the owner of the flight it waits for; woken: how that flight finished *)
At(place) == [pc |-> place, sent |-> 0, answer |-> "none", refreshed |-> FALSE,
              attempt |-> 0, joined |-> NoCall, woken |-> "none"]

TransportInit ==
  /\ threaded \in BOOLEAN
  /\ task = [c \in Calls |-> At("idle")] /\ out = [c \in Calls |-> "none"]
  /\ res = [c \in Calls |-> "none"] /\ cancelled = [c \in Calls |-> FALSE]
  /\ keyed = NoCall /\ flight = NoFlight
  /\ token = 1 /\ issued = 1 /\ expired \in {0, 1}
  /\ applied = [c \in Calls |-> 0] /\ renewals = [t \in Tokens |-> 0]
  /\ closed = FALSE /\ faults = 0

IsKeyed(c) == c \in Keyed /\ ~threaded
Fault == faults < MaxFaults /\ faults' = faults + 1

(* the outcome of a task that is over: an unkeyed caller is that task, a keyed one
   resumes later with what its future holds *)
Told(c, outcome) ==
  /\ out' = [out EXCEPT ![c] = IF IsKeyed(c) THEN @ ELSE outcome]
  /\ res' = [res EXCEPT ![c] = IF IsKeyed(c) /\ @ = "none" THEN outcome ELSE @]
  /\ UNCHANGED <<cancelled, keyed>>

(* finish: whoever waits for the flight of c is woken with its outcome *)
Woken(c, outcome) ==
  [d \in Calls |-> IF task[d].pc = "join" /\ task[d].joined = c /\ task[d].woken = "none"
                   THEN [task[d] EXCEPT !.woken = outcome] ELSE task[d]]

(* only the flight that is still current is taken down *)
Released(c) == IF flight.owner = c THEN NoFlight ELSE flight

(* task c goes on as t, or it is over *)
Becomes(c, t) == task' = [task EXCEPT ![c] = t] /\ UNCHANGED keys
Ends(c, outcome) == task' = [task EXCEPT ![c] = At("ended")] /\ Told(c, outcome)

-------------------------------------------------------------------------------
(* Mutant: giving up the flight of a superseded owner wakes nobody. *)
StrandedWaiters(c) == task

(* the waiters a superseded owner wakes as its flight is given up *)
FreedWaiters(c) == IF flight.owner = c THEN Woken(c, "cancelled") ELSE task

CancelKeyed(c) ==
  /\ cancelled' = [cancelled EXCEPT ![c] = TRUE]
  /\ res' = [res EXCEPT ![c] = IF @ = "none" THEN "cancelled" ELSE @]
  /\ flight' = Released(c)

Issue(c) ==
  /\ task[c].pc = "idle" /\ ~closed
  /\ IF ~IsKeyed(c) THEN Becomes(c, At("send")) /\ UNCHANGED flight
     ELSE /\ keyed' = c /\ UNCHANGED out
          /\ IF keyed # NoCall /\ ~cancelled[keyed]
             THEN CancelKeyed(keyed) /\ task' = [FreedWaiters(keyed) EXCEPT ![c] = At("send")]
             ELSE /\ task' = [task EXCEPT ![c] = At("send")]
                  /\ UNCHANGED <<cancelled, res, flight>>
  /\ UNCHANGED <<threaded, token, server, renewals, closed, faults>>

(* _perform_once with the token of this moment; a closed client raises.  An expired
   or missing token and an overload are refused before the request is executed; a
   generic 503 and a lost answer may follow it. *)
Send(c) ==
  /\ task[c].pc = "send"
  /\ \/ closed /\ Ends(c, "error") /\ UNCHANGED <<applied, faults>>
     \/ /\ ~closed
        /\ \E a \in {"ok", "unauthorized", "busy", "failed", "lost"}, executed \in {0, 1} :
             /\ (a = "unauthorized") <=> (token <= expired)
             /\ (a = "ok" => executed = 1) /\ (a \in {"unauthorized", "busy"} => executed = 0)
             /\ IF a \in {"ok", "unauthorized"} THEN UNCHANGED faults ELSE Fault
             /\ applied' = [applied EXCEPT ![c] = @ + executed]
             /\ Becomes(c, [task[c] EXCEPT !.pc = "sent", !.sent = token, !.answer = a])
  /\ UNCHANGED <<threaded, flight, token, issued, expired, renewals, closed>>

(* a 429, or a 503 whose code is "overloaded" *)
Retryable(a) == a = "busy"

(* Mutant: a 401 that comes late starts a refresh of its own. *)
FresherNever(t) == FALSE

(* the store holds another token than the one that was refused *)
Fresher(t) == token # t.sent

(* the top of _await_refresh, under the guard, by a task with the locals t *)
Enter(c, t) ==
  /\ \/ /\ flight # NoFlight
        /\ Becomes(c, [t EXCEPT !.pc = "join", !.joined = flight.owner, !.woken = "none",
                                !.sent = IF threaded THEN @ ELSE flight.token])
        /\ UNCHANGED flight
     \/ flight = NoFlight /\ Fresher(t) /\ Becomes(c, [t EXCEPT !.pc = "send"]) /\ UNCHANGED flight
     \/ /\ flight = NoFlight /\ ~Fresher(t)
        /\ Becomes(c, [t EXCEPT !.pc = "rsend", !.attempt = 0])
        /\ flight' = [owner |-> c, token |-> t.sent]

(* the response, if closing the client did not break it off *)
React(c) ==
  /\ task[c].pc = "sent"
  /\ \E a \in {task[c].answer} \cup (IF closed THEN {"lost"} ELSE {}) :
       LET refresh == a = "unauthorized" /\ ~task[c].refreshed /\ token # 0
           again == Retryable(a) /\ task[c].attempt < MaxRetries
           t == [task[c] EXCEPT !.answer = "none"]
       IN \/ cancelled[c] /\ Ends(c, "cancelled") /\ UNCHANGED flight
          \/ /\ ~cancelled[c] /\ refresh
             /\ IF threaded THEN Becomes(c, [t EXCEPT !.pc = "enter", !.refreshed = TRUE]) /\ UNCHANGED flight
                ELSE Enter(c, [t EXCEPT !.refreshed = TRUE])
          \/ /\ ~cancelled[c] /\ again
             /\ Becomes(c, [t EXCEPT !.pc = "send", !.attempt = @ + 1]) /\ UNCHANGED flight
          \/ /\ ~cancelled[c] /\ ~refresh /\ ~again
             /\ Ends(c, IF a = "ok" THEN "ok" ELSE "error") /\ UNCHANGED flight
  /\ UNCHANGED <<threaded, token, server, renewals, closed, faults>>

EnterGuard(c) ==
  /\ task[c].pc = "enter" /\ Enter(c, task[c])
  /\ UNCHANGED <<threaded, token, server, renewals, closed, faults>>

(* a cancelled waiter is not elected *)
Barred(c) == cancelled[c]

(* the flight finished: retry, fail with the original 401, or, when its owner was
   cancelled, elect another owner *)
Join(c) ==
  /\ task[c].pc = "join" /\ task[c].woken # "none"
  /\ \/ Barred(c) /\ Ends(c, "cancelled") /\ UNCHANGED flight
     \/ ~Barred(c) /\ task[c].woken = "cancelled" /\ Enter(c, task[c])
     \/ /\ ~Barred(c) /\ task[c].woken = "ok"
        /\ Becomes(c, [task[c] EXCEPT !.pc = "send"]) /\ UNCHANGED flight
     \/ ~Barred(c) /\ task[c].woken = "error" /\ Ends(c, "error") /\ UNCHANGED flight
  /\ UNCHANGED <<threaded, token, server, renewals, closed, faults>>

-------------------------------------------------------------------------------
(* the owner's auth-refresh, an exchange of its own, is answered with a new token,
   with a body that holds none, with an overload, or not to any use *)
RefreshSend(c) ==
  /\ task[c].pc = "rsend"
  /\ \E a \in {"renewed", "odd", "busy", "lost"} :
       /\ (closed => a = "lost") /\ (a = "renewed" => issued < MaxToken)
       /\ IF a = "renewed" \/ closed \/ (a = "lost" /\ issued = MaxToken) THEN UNCHANGED faults ELSE Fault
       /\ issued' = IF a = "renewed" THEN issued + 1 ELSE issued
       /\ Becomes(c, [task[c] EXCEPT !.pc = "rsent", !.answer = a])
  /\ UNCHANGED <<threaded, flight, token, expired, applied, renewals, closed>>

(* Mutant: nobody looks whether the owner was superseded. *)
StaleNever(c) == FALSE

(* owner.cancelled, checked after every await of the exchange *)
Stale(c) == cancelled[c]

(* _perform_refresh saves what a successful answer holds *)
Saved(c) ==
  /\ token' = IF task[c].answer = "odd" THEN 0 ELSE issued
  /\ renewals' = [renewals EXCEPT ![task[c].sent] = @ + 1]

RefreshReact(c) ==
  /\ task[c].pc = "rsent"
  /\ LET success == task[c].answer \in {"renewed", "odd"}
         again == task[c].answer = "busy" /\ task[c].attempt < MaxRetries
         t == [task[c] EXCEPT !.answer = "none"]
     IN \/ /\ Stale(c) /\ Ends(c, "cancelled") /\ flight' = Released(c)
           /\ UNCHANGED <<token, renewals>>
        \/ /\ ~Stale(c) /\ again
           /\ Becomes(c, [t EXCEPT !.pc = "rsend", !.attempt = @ + 1])
           /\ UNCHANGED <<flight, token, renewals>>
        \/ /\ ~Stale(c) /\ success /\ Saved(c)
           /\ IF threaded
              THEN Becomes(c, [t EXCEPT !.pc = "release"]) /\ UNCHANGED flight
              ELSE /\ task' = [Woken(c, "ok") EXCEPT ![c] = [t EXCEPT !.pc = "send", !.attempt = 0]]
                   /\ flight' = Released(c) /\ UNCHANGED keys
        \/ /\ ~Stale(c) /\ ~again /\ ~success /\ UNCHANGED <<token, renewals>>
           /\ IF threaded
              THEN Becomes(c, [t EXCEPT !.pc = "fail"]) /\ UNCHANGED flight
              ELSE /\ task' = [Woken(c, "error") EXCEPT ![c] = At("ended")]
                   /\ flight' = Released(c) /\ Told(c, "error")
  /\ UNCHANGED <<threaded, server, closed, faults>>

(* threads: the flight is taken down under the guard, then finished *)
Release(c) ==
  /\ \/ task[c].pc = "release" /\ Becomes(c, [task[c] EXCEPT !.pc = "finish"])
     \/ task[c].pc = "fail" /\ Becomes(c, [task[c] EXCEPT !.pc = "finishError"])
  /\ flight' = NoFlight
  /\ UNCHANGED <<threaded, token, server, renewals, closed, faults>>

Finish(c) ==
  /\ \/ /\ task[c].pc = "finish"
        /\ task' = [Woken(c, "ok") EXCEPT ![c] = [task[c] EXCEPT !.pc = "send", !.attempt = 0]]
        /\ UNCHANGED keys
     \/ /\ task[c].pc = "finishError"
        /\ task' = [Woken(c, "error") EXCEPT ![c] = At("ended")] /\ Told(c, "error")
  /\ UNCHANGED <<threaded, flight, token, server, renewals, closed, faults>>

-------------------------------------------------------------------------------
Awaiting == {"send", "sent", "join", "rsend", "rsent"}

(* a cancellation reaches the task of a superseded request *)
CancelLands(c) ==
  /\ cancelled[c] /\ task[c].pc \in Awaiting
  /\ Ends(c, "cancelled") /\ flight' = Released(c)
  /\ UNCHANGED <<threaded, token, server, renewals, closed, faults>>

(* a request superseded after its response was set still ends as cancelled *)
Result(c) == IF cancelled[c] THEN "cancelled" ELSE res[c]

Resume(c) ==
  /\ IsKeyed(c) /\ out[c] = "none" /\ res[c] # "none"
  /\ out' = [out EXCEPT ![c] = Result(c)]
  /\ keyed' = IF keyed = c THEN NoCall ELSE keyed
  /\ UNCHANGED <<threaded, task, res, cancelled, flight, token, server, renewals, closed, faults>>

(* the caller's own task is cancelled.  A keyed one cancels its request; an
   unkeyed one unwinds, and as an owner wakes the others to elect a new one *)
CancelCaller(c) ==
  /\ ~threaded /\ out[c] = "none" /\ Fault
  /\ \/ /\ IsKeyed(c) /\ task[c].pc \notin {"idle", "ended"} /\ ~cancelled[c]
        /\ CancelKeyed(c) /\ task' = FreedWaiters(c)
        /\ out' = [out EXCEPT ![c] = "cancelled"]
        /\ keyed' = IF keyed = c THEN NoCall ELSE keyed
     \/ /\ ~IsKeyed(c) /\ task[c].pc \in Awaiting
        /\ task' = [Woken(c, "cancelled") EXCEPT ![c] = At("ended")]
        /\ Told(c, "cancelled") /\ flight' = Released(c)
  /\ UNCHANGED <<threaded, token, server, renewals, closed>>

(* aclose: keyed calls are cancelled, then the client is closed *)
Close ==
  /\ ~closed /\ Fault /\ closed' = TRUE
  /\ keyed' = NoCall
  /\ IF keyed # NoCall /\ ~cancelled[keyed] THEN CancelKeyed(keyed) /\ task' = FreedWaiters(keyed)
     ELSE UNCHANGED <<task, cancelled, res, flight>>
  /\ UNCHANGED <<threaded, out, token, server, renewals>>

(* the application signs in or out: AuthStore.save and clear *)
StoreChanges ==
  /\ Fault
  /\ \/ token # 0 /\ token' = 0 /\ UNCHANGED issued
     \/ issued < MaxToken /\ issued' = issued + 1 /\ token' = issued + 1
  /\ UNCHANGED <<threaded, task, keys, flight, expired, applied, renewals, closed>>

Expire ==
  /\ expired < issued /\ Fault /\ expired' = issued
  /\ UNCHANGED <<threaded, task, keys, flight, token, issued, applied, renewals, closed>>

Step(c) ==
  \/ Send(c) \/ React(c) \/ EnterGuard(c) \/ Join(c)
  \/ RefreshSend(c) \/ RefreshReact(c) \/ Release(c) \/ Finish(c)

TransportNext ==
  \/ \E c \in Calls : Issue(c) \/ Step(c) \/ CancelLands(c) \/ Resume(c) \/ CancelCaller(c)
  \/ Close \/ StoreChanges \/ Expire

TransportSpec == TransportInit /\ [][TransportNext]_transportVars

(* Answers arrive and the loop or the threads run; the task of a cancelled request
   is owed nothing, its transport may hang for ever. *)
TransportFairSpec == TransportSpec /\ \A c \in Calls : WF_transportVars((Step(c) /\ ~cancelled[c]) \/ Resume(c))

-------------------------------------------------------------------------------
(* Every variable keeps its type; every flight has a live owner. *)
TransportTypeOK ==
  /\ task \in [Calls -> [pc : {"idle", "send", "sent", "enter", "join", "rsend", "rsent", "release",
                               "fail", "finish", "finishError", "ended"},
                         sent : Tokens,
                         answer : {"none", "ok", "unauthorized", "busy", "failed", "lost", "renewed", "odd"},
                         refreshed : BOOLEAN, attempt : 0..MaxRetries,
                         joined : Calls \cup {NoCall}, woken : {"none", "ok", "error", "cancelled"}]]
  /\ out \in [Calls -> {"none", "ok", "error", "cancelled"}]
  /\ res \in [Calls -> {"none", "ok", "error", "cancelled"}]
  /\ cancelled \in [Calls -> BOOLEAN] /\ keyed \in Calls \cup {NoCall}
  /\ token \in Tokens /\ issued \in Tokens /\ expired \in 0..issued
  /\ flight = NoFlight \/ (flight.owner \in Calls /\ task[flight.owner].pc # "ended")

(* No two refreshes made because of one refused token are both saved: a burst of
   401s, a late one, and a superseded owner whose transport goes on lead to one.
   0 is no token. *)
OneRenewal == \A t \in Tokens \ {0} : renewals[t] <= 1

(* A request that may have been executed is not sent again: only refusals before
   routing are retried ("A generic 503 may follow a write"). *)
AtMostOnce == \A c \in Calls : applied[c] <= 1

(* Nothing is done twice: neither the renewal of one refused token nor a request. *)
TransportSound == TransportTypeOK /\ OneRenewal /\ AtMostOnce

(* A superseded call ends as cancelled, also when its response was already set;
   what it still does never reaches the auth store. *)
LatestWins ==
  [][\A c \in Calls :
       cancelled[c] =>
         /\ out[c] = "none" => out'[c] \in {"none", "cancelled"}
         /\ task[c].pc = "rsent" /\ task'[c].pc # "rsent" => token' = token]_transportVars

(* Every call returns to its caller, whoever is cancelled, refused, superseded or
   closed, and however long the task of a cancelled request hangs. *)
EveryCallReturns == \A c \in Calls : (task[c].pc # "idle") ~> (out[c] # "none")

===============================================================================
