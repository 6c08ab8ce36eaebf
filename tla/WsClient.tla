------------------------------ MODULE WsClient ------------------------------
(***************************************************************************)
(* The web socket client every SolanaClient of a program shares            *)
(* (src/src/solana_client/rpc_single_ws_request_client.cpp): a queue of    *)
(* subscribe and unsubscribe requests of which the first is on the wire,   *)
(* and the subscriptions the node has confirmed.  Godot's WebSocketPeer,   *)
(* the connection and the RPC node behind it are the environment.          *)
(*                                                                         *)
(* The queue and the vector of subscriptions are sets here: a request is   *)
(* pushed as it gets its id from make_rpc_dict, so that the queue's order  *)
(* is that of the ids, and the subscriptions are pushed in the order of    *)
(* the requests they confirm.                                              *)
(***************************************************************************)
EXTENDS Integers, Sequences, FiniteSets

CONSTANTS
  Callbacks, \* the listeners: callables that get notifications
  NoCallback, \* Callable(), the callback of an unsubscribe request
  Once,      \* those that wait for a signature: the node notifies them once
  MaxId,     \* bound on the requests made
  MaxNotes,  \* bound on the notifications of the node
  MaxIssued, \* bound on the subscriptions it makes: a lost request is sent again
  Timeout,   \* frames in DEFAULT_REQUEST_TIMEOUT
  Env        \* what may happen, of Events

\* slow: the node or the network may take any time; drop: the connection may be
\* lost; reject: the node may refuse a request; refuse: connect_to_url may fail;
\* unsubscribe: the program calls unsubscribe_all, of a callback none of whose
\* requests is queued (socket_response_received has been waited for);
\* react: the program makes requests in the handler of socket_response_received.
Events == {"slow", "drop", "reject", "refuse", "unsubscribe", "react"}

ASSUME Assumption ==
  /\ IsFiniteSet(Callbacks) /\ Once \subseteq Callbacks /\ NoCallback \notin Callbacks
  /\ MaxId \in Nat /\ MaxNotes \in Nat /\ MaxIssued \in Nat /\ Timeout \in Nat
  /\ Env \subseteq Events

Ids == 1 .. MaxId

VARIABLES
  ws,     \* RpcSingleWsRequestClient and what it is connected to, see TypeOK
  avail,  \* packets the frame's poll has made available and process has not read
  notes   \* history: notifications sent so far

vars == <<ws, avail, notes>>

\* The least request of a nonempty queue, request_queue.front().
Front(queue) == CHOOSE r \in queue : \A q \in queue : r.id <= q.id

\* What the node gets to see of a request.
Text(r) == [id |-> r.id, cb |-> r.cb, target |-> r.target]

Lost(w) == [w EXCEPT !.asked = <<>>, !.wire = <<>>, !.node = {}]

-----------------------------------------------------------------------------
(* Godot's WebSocketPeer.                                                  *)

\* poll() in a state
Poll(peer) ==
  CASE peer = "connecting" -> IF "slow" \in Env THEN {"connecting", "open", "closed"} ELSE {"open"}
    [] peer = "closing"    -> IF "slow" \in Env THEN {"closing", "closed"} ELSE {"closed"}
    [] peer = "open"       -> IF "drop" \in Env THEN {"open", "closed"} ELSE {"open"}
    [] OTHER               -> {"closed"}

\* close() drops what has arrived; an open connection takes a while to close.
Close(w) == [Lost(w) EXCEPT !.peer = IF @ \in {"open", "closing"} THEN "closing" ELSE "closed"]

-----------------------------------------------------------------------------
(* The operations of the client.                                           *)

\* void enqueue_ws_request(...), of a subscription
Enqueue(w, cb) ==
  [w EXCEPT !.queue = @ \cup {[id |-> w.next, cb |-> cb, target |-> 0, left |-> Timeout]},
            !.next = @ + 1, !.silent = @ \ {cb}]

\* the subscriptions unsubscribe_all removes
Gone(w, cb) == {s \in w.subs : s.cb = cb}

\* Mutant: subscriptions are forgotten without a request to the node.
UnsubscribeQuietly(w, cb) ==
  [w EXCEPT !.subs = {s \in @ : s.cb # cb}, !.silent = @ \cup {cb}]

\* void unsubscribe_all(callback, ...): a request for each of its subscriptions,
\* which are forgotten at once
UnsubscribeAll(w, cb) ==
  LET gone == Gone(w, cb)
      IdFor(s) == w.next + Cardinality({t \in gone : t.req < s.req})
  IN [w EXCEPT
        !.queue = @ \cup {[id |-> IdFor(s), cb |-> NoCallback, target |-> s.sid, left |-> Timeout] : s \in gone},
        !.subs = @ \ gone, !.next = @ + Cardinality(gone), !.silent = @ \cup {cb}]

\* What the program may do in a handler of socket_response_received.
Reactions(w) ==
  {w} \cup (IF "react" \notin Env THEN {} ELSE
              {Enqueue(w, cb) : cb \in {c \in Callbacks : w.next <= MaxId}}
              \cup {UnsubscribeAll(w, cb) : cb \in {c \in Callbacks : "unsubscribe" \in Env /\
                      w.next + Cardinality(Gone(w, c)) <= MaxId + 1 /\ \A r \in w.queue : r.cb # c}})

\* Mutant: the socket stays open.
NeverClose(w) == w

\* Mutant: closed after every request.
CloseAlways(w) == Close(w)

\* void close_if_done()
CloseIfDone(w) == IF w.subs = {} THEN Close(w) ELSE w

\* void finalize_request(query_id, result): the confirmation callback, which only
\* subscribe requests have, then the request is removed
Finalize(w, id, how) ==
  LET found == {r \in w.queue : r.id = id}
      told == IF found = {} \/ Front(found).cb = NoCallback THEN {w}
              ELSE Reactions([w EXCEPT !.told[id] = how])
  IN {CloseIfDone([t EXCEPT !.queue = {r \in @ : r.id # id}, !.pending = FALSE]) : t \in told}

\* Mutant: a request that waits for the connection has no timeout.
TimeoutsWhenPending(w) ==
  LET late == {r \in w.queue : r.left = 0}
      last == IF late = {} THEN MaxId + 1 ELSE Front(late).id
      aged == [w EXCEPT !.queue = {IF r.id <= last THEN [r EXCEPT !.left = @ - 1] ELSE r : r \in @}]
  IN IF ~w.pending \/ late = {} THEN {w}
     ELSE Finalize([aged EXCEPT !.connecting = FALSE], last, "timeout")

\* void process_timeouts(delta): ends at the first request whose time is over
ProcessTimeouts(w) ==
  LET late == {r \in w.queue : r.left = 0}
      last == IF late = {} THEN MaxId + 1 ELSE Front(late).id
      aged == [w EXCEPT !.queue = {IF r.id <= last THEN [r EXCEPT !.left = @ - 1] ELSE r : r \in @}]
  IN IF late = {} THEN {aged} ELSE Finalize([aged EXCEPT !.connecting = FALSE], last, "timeout")

\* void connect_ws(url), of a closed client that is not connecting; request 0,
\* which is finalized when the URL is refused, does not exist (ids start at 1).
ConnectWs(w) ==
  {[w EXCEPT !.peer = "connecting", !.connecting = TRUE]}
  \cup (IF "refuse" \in Env THEN Finalize([w EXCEPT !.refused = TRUE], 0, "error") ELSE {})

\* the first request of the queue is sent
SendFront(w) ==
  [w EXCEPT !.pending = TRUE, !.connecting = FALSE, !.asked = Append(@, Text(Front(w.queue)))]

\* the switch of process(delta) on the state after poll()
Switch(w) ==
  CASE w.peer = "open" ->
         IF w.queue # {} /\ ~w.pending THEN {SendFront(w)} ELSE ProcessTimeouts(w)
    [] w.peer = "closed" ->
         IF w.queue # {} /\ ~w.connecting THEN ConnectWs(w)
         ELSE IF w.connecting THEN ProcessTimeouts(w) ELSE {w}
    [] OTHER -> ProcessTimeouts(w)

\* Mutant: whatever comes is taken for the answer to the first request.
AddToFront(w, m) ==
  IF w.queue = {} THEN w
  ELSE [w EXCEPT !.subs = @ \cup {[req |-> Front(w.queue).id, sid |-> m.sid, cb |-> Front(w.queue).cb]}]

\* void add_subscription(identifiers): with the callback of the queue's front
AddSubscription(w, m) ==
  IF \A r \in w.queue : r.id # m.id THEN w
  ELSE [w EXCEPT !.subs = @ \cup {[req |-> m.id, sid |-> m.sid, cb |-> Front(w.queue).cb]},
                 !.known = @ \cup {m.sid}]

\* void process_package(packet_data).  A notification calls its listeners, which
\* make no requests then; the confirmation of an unsubscribe request is not looked at.
ProcessPackage(w, m) ==
  CASE m.type \in {"note", "bool"} -> {w}
    [] m.type = "ok"    -> Finalize(AddSubscription(w, m), m.id, "ok")
    [] m.type = "error" -> Finalize(w, m.id, "error")

-----------------------------------------------------------------------------
(* The actions.                                                            *)

Init ==
  /\ ws = [queue |-> {}, subs |-> {}, pending |-> FALSE, connecting |-> FALSE, next |-> 1,
           lost |-> FALSE, refused |-> FALSE, peer |-> "closed", asked |-> <<>>, wire |-> <<>>, node |-> {},
           issued |-> 0, known |-> {}, told |-> [i \in Ids |-> "none"], silent |-> {}]
  /\ avail = 0 /\ notes = 0

\* account_subscribe, signature_subscribe, ... of SolanaClient
Subscribe(cb) ==
  /\ avail = 0 /\ ws.next <= MaxId
  /\ ws' = Enqueue(ws, cb)
  /\ UNCHANGED <<avail, notes>>

\* unsubscribe_all of SolanaClient
Unsubscribe(cb) ==
  /\ avail = 0 /\ "unsubscribe" \in Env
  /\ ws.next + Cardinality(Gone(ws, cb)) <= MaxId + 1
  /\ \A r \in ws.queue : r.cb # cb
  /\ ws' = UnsubscribeAll(ws, cb)
  /\ UNCHANGED <<avail, notes>>

\* void process(delta), once a frame, up to the packets
Process ==
  /\ avail = 0
  /\ "slow" \in Env \/ ws.asked = <<>>
  /\ \E p \in Poll(ws.peer) :
       LET w == [(IF p = "open" THEN ws ELSE Lost(ws)) EXCEPT
                   !.peer = p, !.lost = @ \/ (ws.peer = "open" /\ p # "open")]
       IN \E n \in (IF "slow" \in Env THEN 0 .. Len(w.wire) ELSE {Len(w.wire)}) :
            /\ ws' \in Switch(w)
            /\ avail' = IF ws'.peer = "open" THEN n ELSE 0
  /\ UNCHANGED notes

\* The next packet of the loop; when the socket has been closed none is left.
ProcessPacket ==
  /\ avail > 0
  /\ ws' \in ProcessPackage([ws EXCEPT !.wire = Tail(@)], Head(ws.wire))
  /\ avail' = IF ws'.peer = "open" THEN avail - 1 ELSE 0
  /\ UNCHANGED notes

\* The node answers the first request it has not answered yet.
NodeAnswers ==
  /\ ws.asked # <<>>
  /\ LET r == Head(ws.asked)
         Answer(type, sid) == [type |-> type, id |-> r.id, sid |-> sid, cb |-> r.cb]
         w == [ws EXCEPT !.asked = Tail(@)]
     IN \/ /\ r.target = 0 /\ w.issued < MaxIssued
           /\ ws' = [w EXCEPT !.issued = @ + 1, !.node = @ \cup {[sid |-> w.issued + 1, cb |-> r.cb]},
                              !.wire = Append(@, Answer("ok", w.issued + 1))]
        \/ /\ \E n \in w.node : n.sid = r.target
           /\ ws' = [w EXCEPT !.node = {n \in @ : n.sid # r.target},
                              !.wire = Append(@, Answer("bool", r.target))]
        \/ /\ IF r.target = 0 THEN "reject" \in Env ELSE \A n \in w.node : n.sid # r.target
           /\ ws' = [w EXCEPT !.wire = Append(@, Answer("error", 0))]
  /\ UNCHANGED <<avail, notes>>

\* The node notifies a listener.
NodeNotifies(n) ==
  /\ notes < MaxNotes
  /\ ws' = [ws EXCEPT !.wire = Append(@, [type |-> "note", id |-> 0, sid |-> n.sid, cb |-> n.cb]),
                      !.node = IF n.cb \in Once THEN @ \ {n} ELSE @]
  /\ notes' = notes + 1
  /\ UNCHANGED avail

Next ==
  \/ \E cb \in Callbacks : Subscribe(cb) \/ Unsubscribe(cb)
  \/ Process
  \/ ProcessPacket
  \/ NodeAnswers
  \/ \E n \in ws.node : NodeNotifies(n)

\* The engine draws frame after frame; nothing is promised of the node.
Spec == Init /\ [][Next]_vars /\ WF_vars(Process) /\ WF_vars(ProcessPacket)

-----------------------------------------------------------------------------
(* Properties.                                                             *)

Requests == [id : Ids, cb : Callbacks \cup {NoCallback}, target : Nat, left : 0 .. Timeout]
Texts == [id : Ids, cb : Callbacks \cup {NoCallback}, target : Nat]
Messages == [type : {"note", "bool", "ok", "error"}, id : Nat, sid : Nat, cb : Callbacks \cup {NoCallback}]
TypeOK ==
  /\ ws \in
       [queue : SUBSET Requests,                                      \* request_queue
        subs : SUBSET [req : Ids, sid : Nat, cb : Callbacks],         \* subscriptions
        pending : BOOLEAN, connecting : BOOLEAN,                      \* pending_request, connecting
        next : 1 .. MaxId + 1,                                        \* global_rpc_id
        lost : BOOLEAN, refused : BOOLEAN,                            \* history: a connection broke, an URL was refused
        peer : {"closed", "connecting", "open", "closing"},           \* get_ready_state()
        asked : Seq(Texts), wire : Seq(Messages),                  \* on their way, and back
        node : SUBSET [sid : Nat, cb : Callbacks], issued : Nat,      \* the node's subscriptions
        known : SUBSET Nat,                                           \* history: subscriptions confirmed
        told : [Ids -> {"none", "ok", "error", "timeout"}],           \* history: confirmation callbacks
        silent : SUBSET Callbacks]                                    \* history: have unsubscribed
  /\ avail \in 0 .. Len(ws.wire) /\ notes \in 0 .. MaxNotes

\* The flags that stop process from sending or connecting (pending_request,
\* connecting) are only set for a request that is still queued and so times out:
\* neither can be left over and block the requests to come.  And a socket is only
\* kept as long as somebody wants it, a subscription or a request (close_if_done
\* has been called for the last of both).
KeptForSomebody ==
  /\ ws.pending \/ ws.connecting => ws.queue # {}
  /\ ws.peer \in {"connecting", "open"} => ws.queue # {} \/ ws.subs # {}

\* A subscription has the callback of the request the node has confirmed, and so
\* a notification goes to nobody else, although add_subscription takes the
\* callback of the queue's front; and not to one that has unsubscribed and not
\* subscribed again (unsubscribe_account_test, _should_not_be_called).
RightListener ==
  \A s \in ws.subs :
    /\ s.cb \notin ws.silent
    /\ \A n \in ws.node : s.sid = n.sid => s.cb = n.cb
    /\ \A i \in DOMAIN ws.wire : ws.wire[i].type = "note" /\ s.sid = ws.wire[i].sid => s.cb = ws.wire[i].cb

\* A subscription the client has known and forgotten is ended at the node too,
\* or the request to do so is queued or on its way: none times out unsent.
ForgottenIsEnded ==
  \A n \in ws.node : n.sid \in ws.known =>
    \/ \E s \in ws.subs : s.sid = n.sid
    \/ \E r \in ws.queue : r.target = n.sid
    \/ \E i \in DOMAIN ws.asked : ws.asked[i].target = n.sid

\* As long as no connection has broken, the subscriptions of an open one are known
\* to the node, until a signature has been notified: who has subscribed receives
\* notifications.
KeepsListening ==
  ws.peer = "open" /\ ~ws.lost =>
    \A s \in ws.subs : s.cb \in Once \/ \E n \in ws.node : n.sid = s.sid

\* Every request leaves the queue, so that socket_response_received comes for
\* every subscription, whatever becomes of the connection, unless its URL has
\* been refused.
EventuallyTold ==
  \A i \in Ids : (\E r \in ws.queue : r.id = i) ~> (ws.refused \/ \A r \in ws.queue : r.id # i)
=============================================================================
