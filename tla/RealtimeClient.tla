---------------------------- MODULE RealtimeClient ----------------------------
(* clients/python/src/zigbase/realtime.py: RealtimeService, the asyncio client
   that multiplexes every subscription over one WebSocket.

   One step of the model is what one task does between two awaits.  The tasks
   are the callers of subscribe(), the reconnect task, one receive loop per
   connection, the re-authentication tasks of the token listener, and close().
   A subscribing caller may itself be the task that opens the connection, so a
   caller and the reconnect task run the same steps of _connect_once and
   _on_open.  The server is external: it answers the frames of a connection in
   order.  A _Subscription object is named by the caller that created it; an
   object outlives its removal from the map in the locals that hold it.      *)
EXTENDS Integers, Sequences, FiniteSets

CONSTANTS
  Callers,        \* tasks that subscribe, each once
  Keys,           \* (topic, filter) variants and custom topics: _sub_key, _topic_key
  Wants,          \* the assignments of keys to callers to consider
  TopicOf,        \* the topic of a key: acknowledgements name only the topic
  Rejected,       \* topics whose subscription the server refuses
  Reconnector,    \* the task _schedule_reconnect creates
  None,
  MaxConn,        \* connection attempts; the last one neither fails nor is dropped
  MaxFaults,      \* disturbances: failed attempts, drops, token changes, cancellations,
                  \* and unsubscribes of a topic or of a caller that still waits
  CancelConnect   \* may a caller be cancelled while it opens the connection?

ASSUME ConstantsOK ==
  /\ Wants \subseteq [Callers -> Keys]
  /\ Reconnector \notin Callers
  /\ None \notin Callers
  /\ MaxConn \in Nat \ {0} /\ MaxFaults \in Nat

VARIABLES
  key,       \* the key each caller subscribes to
  pc,        \* caller -> where it is in subscribe() and after it
  ref,       \* caller -> its local `sub` while it opens the connection
  sub,       \* the _Subscription objects
  reg,       \* self._subscriptions: key -> object
  at,        \* task -> where it is in _connect_once / _on_open
  todo,      \* task -> objects its _resubscribe_all snapshot has still to send
  sleeping,  \* self._reconnect_pending: a reconnect waits out its backoff
  conn,      \* self._connection (0 is None)
  wire,      \* connection -> socket, frames in flight and the server's view
  token,     \* auth_store.token (0 is no token)
  spawned,   \* re-authentications scheduled on the loop, not yet run
  faults,
  removed,   \* callers waiting on an object that an unsubscribe took off the map
  closing,   \* close(): "no", "begun" (it awaits the tasks it cancelled), "done"
  slow       \* does a send suspend its task (a full write buffer)?

vars == <<key, pc, ref, sub, reg, at, todo, sleeping, conn, wire, token, spawned,
          faults, removed, closing, slow>>

Tasks == Callers \cup {Reconnector}
Conns == 1..MaxConn
Tokens == 0..1
Unset == 2                          \* the server has seen no auth frame yet
Closed == closing # "no"            \* self._closed_by_user
Frames == {<<"auth", t>> : t \in Tokens} \cup {<<"sub", k>> : k \in Keys}
          \cup {<<"unsub", TopicOf[k]>> : k \in Keys}

Sockets == [link : {"none", "up", "down", "done"}, up : Seq(Frames), who : Tokens \cup {Unset},
            first : Tokens, served : SUBSET Keys]

Fresh == [cbs |-> {}, pending |-> {}, acked |-> FALSE, inflight |-> FALSE]
Socket(link) == [link |-> link, up |-> <<>>, who |-> Unset, first |-> 0, served |-> {}]

Init ==
  /\ key \in Wants
  /\ pc = [c \in Callers |-> "idle"]
  /\ ref = [c \in Callers |-> None]
  /\ sub = [c \in Callers |-> Fresh]
  /\ reg = [k \in Keys |-> None]
  /\ at = [t \in Tasks |-> "off"]
  /\ todo = [t \in Tasks |-> {}]
  /\ sleeping = FALSE /\ conn = 0
  /\ wire = [k \in Conns |-> Socket("none")]
  /\ token \in {0, 1} /\ spawned = <<>> /\ faults = 0 /\ removed = {}
  /\ closing = "no" /\ slow \in BOOLEAN

-------------------------------------------------------------------------------
Waiting(c) == pc[c] \in {"subscribing", "waiting"}
Registered == {o \in Callers : \E k \in Keys : reg[k] = o}
Attempts == Cardinality({k \in Conns : wire[k].link # "none"})
Connecting == \E t \in Tasks : at[t] = "connector"     \* self._connecting
Up(k) == k # 0 /\ wire[k].link = "up"

(* connection.send: a frame on a socket that is up; on a dead one it raises *)
Sent(k, f) == IF Up(k) THEN [wire EXCEPT ![k].up = Append(@, f)] ELSE wire

(* _send_subscribe marks the object in flight unless the send raised *)
Marked(o, k) == [sub EXCEPT ![o].inflight = (Up(k) \/ (k = 0 /\ @))]

(* the auth ack settles: every task waiting in _on_open goes on *)
AuthSettled == [t \in Tasks |-> IF at[t] = "auth" THEN "snap" ELSE at[t]]


(* _schedule_reconnect *)
WillReconnect == sleeping \/ (~Closed /\ Registered # {})

(* A task that is between two awaits.  When sends do not suspend, nothing else
   runs until it reaches its next await. *)
Running == {t \in Tasks : at[t] \in {"resub", "back"}}
Yielded == slow \/ Running = {}

Disturbance == faults < MaxFaults /\ faults' = faults + 1

(* _ensure_connected leaves the connection to whoever has it in hand *)
Deferred == conn # 0 \/ Connecting \/ sleeping

(* the rest of subscribe() once _ensure_connected returned, on object o, which an
   unsubscribe may have taken off the map meanwhile; mine is the callback, when
   the same step registers it *)
AfterConnect(c, o, mine) ==
  LET send == conn # 0 /\ ~sub[o].inflight
  IN \/ /\ Closed
        /\ pc' = [pc EXCEPT ![c] = "failed"]
        /\ UNCHANGED <<sub, wire>>
     \/ /\ ~Closed /\ sub[o].acked
        /\ pc' = [pc EXCEPT ![c] = "live"]
        /\ sub' = [sub EXCEPT ![o].cbs = @ \cup mine]
        /\ UNCHANGED wire
     \/ /\ ~Closed /\ ~sub[o].acked
        /\ pc' = [pc EXCEPT ![c] = "waiting"]
        /\ sub' = [(IF send THEN Marked(o, conn) ELSE sub)
                     EXCEPT ![o].cbs = @ \cup mine, ![o].pending = @ \cup {c}]
        /\ wire' = IF send THEN Sent(conn, <<"sub", key[c]>>) ELSE wire

(* subscribe / subscribe_topic up to its first suspension; on a closed service
   it raises before it registers anything *)
Subscribe(c) ==
  LET o == IF reg[key[c]] = None THEN c ELSE reg[key[c]]
  IN /\ Yielded /\ pc[c] = "idle" /\ ~Closed
     /\ reg' = [reg EXCEPT ![key[c]] = o]
     /\ IF Deferred
        THEN AfterConnect(c, o, {c}) /\ UNCHANGED <<ref, at>>
        ELSE /\ ref' = [ref EXCEPT ![c] = o]
             /\ pc' = [pc EXCEPT ![c] = "subscribing"]
             /\ sub' = [sub EXCEPT ![o].cbs = @ \cup {c}]
             /\ at' = [at EXCEPT ![c] = "connector"]
             /\ UNCHANGED wire
     /\ UNCHANGED <<key, todo, sleeping, conn, token, spawned, faults, removed, closing, slow>>

-------------------------------------------------------------------------------
(* _connect_once and _on_open, run by task t *)


(* close() ran while the connector was at work: its socket is closed again *)
TooLate == Closed

(* what _on_open sends before it awaits the reply *)
FirstFrames == IF token # 0 THEN <<<<"auth", token>>>> ELSE <<>>

(* the connector returned a socket; a stored token is sent and awaited first.
   A handshake takes several turns of the event loop: what was scheduled on the
   loop before has run by then. *)
ConnectorOk(t) ==
  /\ Yielded /\ at[t] = "connector" /\ Attempts < MaxConn /\ spawned = <<>>
  /\ IF TooLate
     THEN at' = [at EXCEPT ![t] = "back"] /\ UNCHANGED <<todo, conn, wire>>
     ELSE LET k == Attempts + 1
          IN /\ conn' = k
             /\ wire' = [wire EXCEPT ![k] = [link |-> "up", up |-> FirstFrames, who |-> Unset,
                                             first |-> token, served |-> {}]]
             /\ at' = [at EXCEPT ![t] = IF token # 0 THEN "auth" ELSE "resub"]
             /\ todo' = [todo EXCEPT ![t] = IF token # 0 THEN {} ELSE Registered]
  /\ UNCHANGED <<key, pc, ref, sub, reg, sleeping, token, spawned, faults, removed, closing, slow>>

ConnectorFails(t) ==
  /\ Yielded /\ at[t] = "connector" /\ Attempts + 1 < MaxConn
  /\ Disturbance
  /\ wire' = [wire EXCEPT ![Attempts + 1].link = "done"]
  /\ sleeping' = WillReconnect
  /\ at' = [at EXCEPT ![t] = "back"]
  /\ UNCHANGED <<key, pc, ref, sub, reg, todo, conn, token, spawned, removed, closing, slow>>

(* the auth reply settled: _resubscribe_all takes its snapshot *)
ResubscribeStart(t) ==
  /\ Yielded /\ at[t] = "snap"
  /\ at' = [at EXCEPT ![t] = IF conn = 0 THEN "back" ELSE "resub"]
  /\ todo' = [todo EXCEPT ![t] = IF conn = 0 THEN {} ELSE Registered]
  /\ UNCHANGED <<key, pc, ref, sub, reg, sleeping, conn, wire, token, spawned,
                 faults, removed, closing, slow>>

(* one iteration of the loop of _resubscribe_all, or its end *)
ResubscribeNext(t) ==
  /\ at[t] = "resub"
  /\ \/ /\ todo[t] = {}
        /\ at' = [at EXCEPT ![t] = "back"]
        /\ UNCHANGED <<sub, wire, todo>>
     \/ \E o \in todo[t] :
          /\ todo' = [todo EXCEPT ![t] = @ \ {o}]
          /\ sub' = [Marked(o, conn) EXCEPT ![o].acked = FALSE]
          /\ wire' = Sent(conn, <<"sub", key[o]>>)
          /\ UNCHANGED at
  /\ UNCHANGED <<key, pc, ref, reg, sleeping, conn, token, spawned, faults, removed, closing, slow>>

(* _connect_once returned to the caller, which goes on in subscribe() *)
ConnectReturns(c) ==
  /\ at[c] = "back"
  /\ at' = [at EXCEPT ![c] = "off"]
  /\ AfterConnect(c, ref[c], {})
  /\ ref' = [ref EXCEPT ![c] = None]
  /\ UNCHANGED <<key, reg, todo, sleeping, conn, token, spawned, faults, removed, closing, slow>>

ReconnectReturns ==
  /\ at[Reconnector] = "back"
  /\ at' = [at EXCEPT ![Reconnector] = "off"]
  /\ UNCHANGED <<key, pc, ref, sub, reg, todo, sleeping, conn, wire, token, spawned,
                 faults, removed, closing, slow>>

(* _reconnect after its backoff, at least _RECONNECT_MIN_DELAY long: whatever
   the drop woke up has run by then *)
ReconnectWakes ==
  /\ Yielded /\ sleeping
  /\ \A t \in Tasks : at[t] \notin {"snap", "resub", "back"}
  /\ spawned = <<>>
  /\ sleeping' = FALSE
  /\ at' = IF Closed THEN at ELSE [at EXCEPT ![Reconnector] = "connector"]
  /\ UNCHANGED <<key, pc, ref, sub, reg, todo, conn, wire, token, spawned, faults,
                 removed, closing, slow>>

-------------------------------------------------------------------------------
(* the network, the server and the receive loop *)

(* a future's callers learn the outcome; a cancelled one no longer waits *)
Told(objs, outcome) ==
  [c \in Callers |-> IF pc[c] = "waiting" /\ \E o \in objs : c \in sub[o].pending
                     THEN outcome ELSE pc[c]]

(* _on_ack: settles every registered subscription of the topic *)
OnAck(topic) ==
  LET objs == {o \in Registered : TopicOf[key[o]] = topic}
  IN /\ pc' = Told(objs, "live")
     /\ sub' = [o \in Callers |-> IF o \in objs
                  THEN [sub[o] EXCEPT !.acked = TRUE, !.inflight = FALSE, !.pending = {}]
                  ELSE sub[o]]
     /\ UNCHANGED <<reg, at>>

(* _on_error_frame: no topic on it, every unacked pending subscription goes *)
OnErrorFrame ==
  LET objs == {o \in Registered : ~sub[o].acked /\ sub[o].pending # {}}
  IN /\ pc' = Told(objs, "failed")
     /\ sub' = [o \in Callers |-> IF o \in objs THEN [sub[o] EXCEPT !.pending = {}] ELSE sub[o]]
     /\ reg' = [k \in Keys |-> IF reg[k] \in objs THEN None ELSE reg[k]]
     /\ UNCHANGED at

(* _on_auth_frame *)
OnAuthFrame == at' = AuthSettled /\ UNCHANGED <<pc, sub, reg>>

(* external: the server's answer to a frame.  A connection is first in, first
   out in both directions, so all the delay of a round trip can be on the way
   to the server: it answers when the receive loop takes the answer. *)
Answered(k, f) ==
  [wire EXCEPT ![k].up = Tail(@),
               ![k].who = IF f[1] = "auth" THEN f[2] ELSE @,
               ![k].served = CASE f[1] = "sub" /\ TopicOf[f[2]] \notin Rejected -> @ \cup {f[2]}
                               [] f[1] = "unsub" -> {x \in @ : TopicOf[x] # f[2]}
                               [] OTHER -> @]

(* the receive loop takes one frame: _dispatch; what arrived before a drop is
   still delivered after it *)
Dispatch(k) ==
  /\ Yielded /\ wire[k].link \in {"up", "down"} /\ wire[k].up # <<>>
  /\ LET f == Head(wire[k].up)
     IN /\ wire' = Answered(k, f)
        /\ \/ f[1] = "auth" /\ OnAuthFrame
           \/ f[1] = "sub" /\ TopicOf[f[2]] \notin Rejected /\ OnAck(TopicOf[f[2]])
           \/ f[1] = "sub" /\ TopicOf[f[2]] \in Rejected /\ OnErrorFrame
           \/ f[1] = "unsub" /\ UNCHANGED <<pc, sub, reg, at>>
  /\ UNCHANGED <<key, ref, todo, sleeping, conn, token, spawned, faults, removed, closing, slow>>

(* external: the socket is lost; nothing more is sent on it *)
Drop(k) ==
  /\ Yielded /\ Up(k) /\ Attempts < MaxConn /\ ~Closed
  /\ Disturbance
  /\ wire' = [wire EXCEPT ![k].link = "down"]
  /\ UNCHANGED <<key, pc, ref, sub, reg, at, todo, sleeping, conn, token, spawned, removed,
                 closing, slow>>

(* the finally of _receive_loop after a drop *)
LoopEnds(k) ==
  /\ Yielded /\ wire[k].link = "down" /\ conn = k
  /\ wire' = [wire EXCEPT ![k] = Socket("done")]
  /\ conn' = 0
  /\ at' = AuthSettled
  /\ sleeping' = WillReconnect
  /\ UNCHANGED <<key, pc, ref, sub, reg, todo, token, spawned, faults, removed, closing, slow>>

-------------------------------------------------------------------------------
(* Mutant: a logout wakes nobody. *)
NotifiedOfLogin(t) == conn # 0 /\ t # 0

(* the listener drops a change while no socket is open *)
Notified(t) == conn # 0

(* auth_store.save() / clear() and the listener _on_auth_store_change *)
TokenChanges(t) ==
  /\ Yielded /\ t # token /\ ~Closed
  /\ Disturbance
  /\ token' = t
  /\ spawned' = IF Notified(t) THEN Append(spawned, t) ELSE spawned
  /\ UNCHANGED <<key, pc, ref, sub, reg, at, todo, sleeping, conn, wire, removed, closing, slow>>

(* _spawn_auth_send and the send of its _send_auth_frame; a send that raises
   fails the shared ack *)
Reauth ==
  /\ Yielded /\ spawned # <<>>
  /\ spawned' = Tail(spawned)
  /\ wire' = IF conn # 0 THEN Sent(conn, <<"auth", Head(spawned)>>) ELSE wire
  /\ at' = IF conn # 0 /\ ~Up(conn) THEN AuthSettled ELSE at
  /\ UNCHANGED <<key, pc, ref, sub, reg, todo, sleeping, conn, token, faults, removed,
                 closing, slow>>

(* Mutant: the frame goes out when one variant of the topic ends. *)
LastOfKey(topic, gone) == TRUE

(* no variant of the topic but these is registered: _has_topic *)
LastOfTopic(topic, gone) == \A x \in Keys \ gone : TopicOf[x] = topic => reg[x] = None

(* unsubscribe: the callbacks leave the objects of the keys ks, all of one topic,
   and an object without callbacks leaves the map.  Its pending futures go with
   it: nothing settles them.  A caller that is past subscribe() has left. *)
Leave(topic, ks, callbacks) ==
  LET gone  == {x \in ks : reg[x] # None /\ sub[reg[x]].cbs \subseteq callbacks}
      found == {reg[x] : x \in ks}
      lost  == {reg[x] : x \in gone}
  IN /\ sub' = [o \in Callers |-> IF o \in found
                                THEN [sub[o] EXCEPT !.cbs = @ \ callbacks] ELSE sub[o]]
     /\ reg' = [x \in Keys |-> IF x \in gone THEN None ELSE reg[x]]
     /\ wire' = IF gone # {} /\ LastOfTopic(topic, gone)
                THEN Sent(conn, <<"unsub", topic>>) ELSE wire
     /\ removed' = removed \cup {c \in Callers : Waiting(c) /\
                                    \E o \in lost : c \in sub[o].pending \/ ref[c] = o}
     /\ pc' = [c \in Callers |-> IF c \in callbacks /\ key[c] \in ks
                                    /\ pc[c] \in {"live", "cancelled"}
                                 THEN "left" ELSE pc[c]]
     /\ UNCHANGED <<key, ref, at, todo, sleeping, conn, token, spawned, closing, slow>>

(* unsubscribe(topic, callback): of a live caller, or of a cancelled one as the
   finally of stream() does.  After close() there is nothing to remove. *)
Unsubscribe(c) ==
  /\ Yielded /\ ~Closed /\ pc[c] \in {"live", "cancelled"}
  /\ Leave(TopicOf[key[c]], {key[c]}, {c}) /\ UNCHANGED faults

(* the same by another task, while the caller's subscribe() still waits *)
UnsubscribeEarly(c) ==
  /\ Yielded /\ ~Closed /\ Waiting(c) /\ Disturbance
  /\ Leave(TopicOf[key[c]], {key[c]}, {c})

(* unsubscribe(topic) without a callback: everybody's, of one variant if a filter
   is given and of every variant if not *)
UnsubscribeTopic(k) ==
  /\ Yielded /\ Disturbance
  /\ \E ks \in {{k}, {x \in Keys : TopicOf[x] = TopicOf[k]}} :
       (\E x \in ks : reg[x] # None) /\ Leave(TopicOf[k], ks, Callers)

(* the caller's task is cancelled: while it awaits its ack, or (CancelConnect)
   while it is the task that opens the connection *)
Cancel(c) ==
  /\ Yielded /\ Disturbance
  /\ pc[c] = "waiting" \/ (CancelConnect /\ at[c] \in {"connector", "auth"})
  /\ pc' = [pc EXCEPT ![c] = "cancelled"]
  /\ at' = [at EXCEPT ![c] = "off"]
  /\ UNCHANGED <<key, ref, sub, reg, todo, sleeping, conn, wire, token, spawned, removed,
                 closing, slow>>

(* close() up to its first await: the pending subscribes of the map and the auth
   ack fail, the map is emptied, the reconnect task is cancelled.  No object is
   read again. *)
Close ==
  /\ Yielded /\ ~Closed
  /\ closing' = "begun"
  /\ pc' = Told(Registered, "failed")
  /\ sub' = [o \in Callers |-> Fresh]
  /\ reg' = [k \in Keys |-> None]
  /\ at' = IF sleeping THEN AuthSettled ELSE [AuthSettled EXCEPT ![Reconnector] = "off"]
  /\ sleeping' = FALSE
  /\ spawned' = <<>>
  /\ UNCHANGED <<key, ref, todo, conn, wire, token, faults, removed, slow>>

(* the awaited tasks are gone: the rest of close() *)
CloseFinish ==
  /\ Yielded /\ closing = "begun"
  /\ closing' = "done"
  /\ conn' = 0
  /\ at' = AuthSettled
  /\ wire' = IF conn = 0 THEN wire
             ELSE [wire EXCEPT ![conn] = Socket("done")]
  /\ UNCHANGED <<key, pc, ref, sub, reg, todo, sleeping, token, spawned, faults, removed,
                 slow>>

-------------------------------------------------------------------------------
(* what the event loop, the connector, the backoff and the server owe *)
Progress ==
  \/ \E t \in Tasks : ConnectorOk(t) \/ ResubscribeStart(t) \/ ResubscribeNext(t)
  \/ \E c \in Callers : ConnectReturns(c)
  \/ \E k \in Conns : Dispatch(k) \/ LoopEnds(k)
  \/ ReconnectReturns \/ ReconnectWakes \/ Reauth \/ CloseFinish

(* what callers and the network may do *)
Environment ==
  \/ \E c \in Callers : Subscribe(c) \/ Unsubscribe(c) \/ UnsubscribeEarly(c) \/ Cancel(c)
  \/ \E k \in Keys : UnsubscribeTopic(k)
  \/ \E t \in Tasks : ConnectorFails(t)
  \/ \E k \in Conns : Drop(k)
  \/ \E t \in Tokens : TokenChanges(t)
  \/ Close

Next == Progress \/ Environment

Spec == Init /\ [][Next]_vars

(* The event loop runs some ready task, and connector calls, backoff sleeps and
   the server's answers end; every run being finite (each step uses up a frame,
   a task or a bound), fairness of the whole is enough.  Nothing obliges a
   caller to subscribe, leave, be cancelled or close. *)
Fairness == WF_vars(Progress)

FairSpec == Spec /\ Fairness

-------------------------------------------------------------------------------
(* Every variable keeps its type (RealtimeService.__init__ and _Subscription). *)
TypeOK ==
  /\ key \in [Callers -> Keys]
  /\ pc \in [Callers -> {"idle", "subscribing", "waiting", "live", "failed",
                         "cancelled", "left"}]
  /\ ref \in [Callers -> Callers \cup {None}]
  /\ sub \in [Callers -> [cbs : SUBSET Callers, pending : SUBSET Callers,
                          acked : BOOLEAN, inflight : BOOLEAN]]
  /\ reg \in [Keys -> Callers \cup {None}]
  /\ at \in [Tasks -> {"off", "connector", "auth", "snap", "resub", "back"}]
  /\ todo \in [Tasks -> SUBSET Callers]
  /\ sleeping \in BOOLEAN /\ conn \in 0..MaxConn
  /\ wire \in [Conns -> Sockets]
  /\ token \in Tokens /\ spawned \in Seq(Tokens)
  /\ faults \in 0..MaxFaults
  /\ removed \subseteq Callers
  /\ closing \in {"no", "begun", "done"} /\ slow \in BOOLEAN

(* At most one socket exists or is being opened, however a subscribe races the
   backoff, a failing connector, a drop and close(): the hand-over between
   _connection, _connecting and _reconnect_pending leaves no gap. *)
OneSocket ==
  Cardinality({k \in Conns : wire[k].link = "up"})
    + Cardinality({t \in Tasks : at[t] = "connector"}) <= 1

(* No subscription of a connection that was opened with a stored token reaches
   the server before the server has seen an auth frame of that connection: not
   one re-sent by _resubscribe_all, not one of a subscriber racing _on_open. *)
AuthFirst ==
  \A k \in Conns : Up(k) /\ wire[k].up # <<>> /\ Head(wire[k].up)[1] = "sub"
                   => wire[k].first = 0 \/ wire[k].who # Unset

(* No task of the client is about to send, and every frame was handled. *)
Quiet ==
  /\ ~Closed /\ Up(conn) /\ spawned = <<>>
  /\ wire[conn].up = <<>>
  /\ \A t \in Tasks : at[t] = "off"

(* Once the frames in flight are handled the server knows the connection by the
   token the store holds, whatever changed while it was opened or lost. *)
IdentityFollows ==
  Quiet => wire[conn].who = token \/ (token = 0 /\ wire[conn].who = Unset)

(* A connection is never served under another identity than the store's: not
   before its first auth frame, and not after the frames in flight. *)
IdentityKnown == AuthFirst /\ IdentityFollows

(* ... and serves every key the client believes is live on this connection:
   unsubscribes of one filter variant, resubscription and shared
   acknowledgements leave no acked key that the server does not serve. *)
AckedIsServed ==
  Quiet => \A k \in Keys : reg[k] # None /\ sub[reg[k]].acked => k \in wire[conn].served

(* One socket, which knows who it serves and serves what the client believes. *)
ConnectionSound == TypeOK /\ OneSocket /\ IdentityKnown /\ AckedIsServed

(* A subscribe() that is not cancelled returns or raises, through failed
   connects, drops, reconnects and close() ("the caller's pending future simply
   stays pending until a later attempt succeeds and resends its frame").  The
   exceptions are an unsubscribe that takes the entry away while the caller waits
   (the first of the module's "Known limitations"), and a refusal that arrives
   while a send suspends the task that is resubscribing: the error frame then
   finds no pending future of that task. *)
SubscribersAnswered ==
  \A c \in Callers :
    Waiting(c) ~> ~Waiting(c) \/ c \in removed \/ (slow /\ TopicOf[key[c]] \in Rejected)


===============================================================================
