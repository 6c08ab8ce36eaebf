--------------------------- MODULE WsClientProofs ---------------------------
(***************************************************************************)
(* The web socket client for any listeners, any number of requests and any *)
(* environment: the invariants of WsClient hold of every reachable state.  *)
(*                                                                         *)
(* The argument is one inductive invariant, Good, of the client and what   *)
(* it is connected to.  Its heart is that there is one request at a time   *)
(* on its way (Sent, Answered): whatever the node answers is of the front  *)
(* of the queue or of a request that has gone, so that add_subscription is *)
(* right to take the callback of the front; and that the queue has its     *)
(* times in order (Queued), so that process_timeouts, which ends at the    *)
(* first late request, removes none but the front, which has been sent.    *)
(* A number the node has confirmed is nobody else's until it is read       *)
(* (Confirmed), and what is to be ended was known and is not listened to   *)
(* (Ending).  Good has a parameter: the request finalize_request is about  *)
(* to remove, which may be past its time and whose confirmed subscription  *)
(* is already among the others when the program's handler runs.            *)
(***************************************************************************)
EXTENDS WsClient, FiniteSetTheorems, WellFoundedInduction, TLAPS

\* Requests with any time left: one that is removed in this step may be past it.
Pending == [id : Ids, cb : Callbacks \cup {NoCallback}, target : Nat, left : Int]

Clients ==
  [queue : SUBSET Pending, subs : SUBSET [req : Ids, sid : Nat, cb : Callbacks],
   pending : BOOLEAN, connecting : BOOLEAN, next : 1 .. MaxId + 1,
   lost : BOOLEAN, refused : BOOLEAN, peer : {"closed", "connecting", "open", "closing"},
   asked : Seq(Texts), wire : Seq(Messages),
   node : SUBSET [sid : Nat, cb : Callbacks], issued : Nat, known : SUBSET Nat,
   told : [Ids -> {"none", "ok", "error", "timeout"}], silent : SUBSET Callbacks]

IsFront(w, r) == \A q \in w.queue : r.id <= q.id

\* The queue is in the order of the ids, and what is in front has least time
\* left.  Here and below id is a request about to be removed, or 0.
Queued(w, id) ==
  /\ \A r \in w.queue : r.id < w.next
  /\ \A r, q \in w.queue : r.id = q.id => r = q
  /\ \A r \in w.queue : r.id # id => r.left \in 0 .. Timeout
  /\ \A r, q \in w.queue : r.id # id /\ q.id # id /\ r.id <= q.id => r.left <= q.left
  /\ \A r \in w.queue : r.target = 0 <=> r.cb \in Callbacks

\* What is on its way to the node, and what it has answered, is of the front, or
\* of a request that has gone.
Sent(w) ==
  \A i \in DOMAIN w.asked :
    /\ w.asked[i].target = 0 => w.asked[i].cb \in Callbacks
    /\ w.asked[i].id < w.next
    /\ \A r \in w.queue : w.asked[i].id <= r.id
    /\ \A r \in w.queue : w.asked[i].id = r.id => r.cb = w.asked[i].cb /\ r.target = w.asked[i].target

Answered(w) ==
  \A i \in DOMAIN w.wire : w.wire[i].type \in {"ok", "error"} =>
    /\ w.wire[i].id \in Ids /\ w.wire[i].id < w.next
    /\ \A r \in w.queue : w.wire[i].id <= r.id
    /\ \A r \in w.queue : w.wire[i].id = r.id =>
         IF w.wire[i].type = "ok" THEN r.cb = w.wire[i].cb /\ r.target = 0
                                  ELSE \A n \in w.node : n.sid # r.target

\* Subscriptions have confirmed requests that were in front of the others, and
\* numbers of their own.
Subscribed(w, id) ==
  /\ IsFiniteSet(w.subs)
  /\ \A s \in w.subs : s.req < w.next /\ s.sid \in w.known
  /\ \A s \in w.subs, r \in w.queue : r.id # id => s.req < r.id
  /\ \A s, t \in w.subs : s.req = t.req \/ s.sid = t.sid => s = t

Numbered(w) ==
  /\ w.known \subseteq 1 .. w.issued
  /\ \A n \in w.node : n.sid \in 1 .. w.issued
  /\ \A n, m \in w.node : n.sid = m.sid => n = m
  /\ \A i \in DOMAIN w.wire : w.wire[i].type \in {"ok", "note"} => w.wire[i].sid \in 1 .. w.issued

\* A number confirmed but not read yet is known to nobody but the node.
Confirmed(w) ==
  \A i \in DOMAIN w.wire : w.wire[i].type = "ok" =>
    /\ w.wire[i].cb \in Callbacks
    /\ w.wire[i].sid \notin w.known
    /\ \A j \in DOMAIN w.wire : w.wire[j].type \in {"ok", "note"} /\ w.wire[j].sid = w.wire[i].sid =>
         w.wire[j].cb = w.wire[i].cb /\ (w.wire[j].type = "ok" => j = i)
    /\ w.wire[i].cb \in Once \/ \E n \in w.node : n.sid = w.wire[i].sid
    /\ \A n \in w.node : n.sid = w.wire[i].sid => n.cb = w.wire[i].cb

\* A notification has the listener of its subscription.
Noted(w) ==
  \A i \in DOMAIN w.wire : w.wire[i].type = "note" =>
    /\ \A n \in w.node : n.sid = w.wire[i].sid => n.cb = w.wire[i].cb
    /\ \A s \in w.subs : s.sid = w.wire[i].sid => s.cb = w.wire[i].cb

\* Whoever listens has not unsubscribed.
Listening(w) ==
  /\ \A s \in w.subs : s.cb \notin w.silent /\ \A n \in w.node : s.sid = n.sid => s.cb = n.cb
  /\ \A r \in w.queue : r.cb \notin w.silent

\* What is to be ended has been known and is no subscription any more.
Ending(w) ==
  /\ \A r \in w.queue : r.target # 0 => r.target \in w.known /\ \A s \in w.subs : s.sid # r.target
  /\ \A i \in DOMAIN w.asked : w.asked[i].target # 0 =>
       w.asked[i].target \in w.known /\ \A s \in w.subs : s.sid # w.asked[i].target

\* The node has been asked to end the subscription n.
AskedToEnd(w, n) == \E i \in DOMAIN w.asked : w.asked[i].target = n.sid

Forgotten(w) ==
  \A n \in w.node : n.sid \in w.known =>
    \/ \E s \in w.subs : s.sid = n.sid
    \/ \E r \in w.queue : r.target = n.sid
    \/ AskedToEnd(w, n)

\* A request that is waited for has been sent, or the connection it was sent on
\* is gone with the subscriptions of the node.
FrontIsSent(w) ==
  w.pending => \A r \in w.queue : IsFront(w, r) =>
    \A n \in w.node : n.sid = r.target => AskedToEnd(w, n)

\* Without a connection nothing is on its way; one is kept for somebody.
Silence(w) == w.asked = <<>> /\ w.wire = <<>> /\ w.node = {}

Connected(w) ==
  /\ w.peer # "open" \/ w.connecting => Silence(w)
  /\ ~w.lost /\ w.subs # {} => w.peer = "open"
  /\ w.pending \/ w.connecting => w.queue # {}
  /\ w.peer \in {"connecting", "open"} => w.queue # {} \/ w.subs # {}

Heard(w) == ~w.lost => \A s \in w.subs : s.cb \in Once \/ \E n \in w.node : n.sid = s.sid

Good(w, id) ==
  /\ w \in Clients
  /\ Queued(w, id) /\ Sent(w) /\ Answered(w)
  /\ Subscribed(w, id) /\ Numbered(w) /\ Confirmed(w) /\ Noted(w)
  /\ Listening(w) /\ Ending(w) /\ Forgotten(w) /\ FrontIsSent(w)
  /\ Connected(w) /\ Heard(w)

IInv == Good(ws, 0) /\ avail \in 0 .. Len(ws.wire) /\ notes \in 0 .. MaxNotes
-----------------------------------------------------------------------------
(* Steps that leave most of the state.                                     *)

\* Good is about these fields alone.
LEMMA SameGood ==
  ASSUME NEW w, NEW v \in Clients, NEW id, Good(w, id),
         v.queue = w.queue, v.next = w.next, v.silent = w.silent, v.subs = w.subs,
         v.pending = w.pending, v.connecting = w.connecting, v.lost = w.lost, v.peer = w.peer,
         v.asked = w.asked, v.wire = w.wire, v.node = w.node, v.issued = w.issued, v.known = w.known
  PROVE  Good(v, id)
<1>1. Queued(v, id) /\ Sent(v) /\ Answered(v)
  BY DEF Good, Queued, Sent, Answered
<1>2. Subscribed(v, id) /\ Numbered(v) /\ Confirmed(v) /\ Noted(v)
  BY DEF Good, Subscribed, Numbered, Confirmed, Noted
<1>3. Listening(v) /\ Ending(v) /\ Forgotten(v) /\ FrontIsSent(v)
  BY DEF Good, Listening, Ending, Forgotten, FrontIsSent, AskedToEnd, IsFront
<1>4. Connected(v) /\ Heard(v)
  BY DEF Good, Connected, Silence, Heard
<1> QED
  BY <1>1, <1>2, <1>3, <1>4 DEF Good

\* A connection that ends takes with it what is on its way and what the node holds.
LEMMA SilenceKeeps ==
  ASSUME NEW w, NEW v \in Clients, NEW id,
         Queued(w, id), Subscribed(w, id), Numbered(w), Listening(w), Ending(w), Silence(v),
         v.queue = w.queue, v.next = w.next, v.silent = w.silent, v.subs = w.subs,
         v.issued = w.issued, v.known = w.known, Connected(v), Heard(v)
  PROVE  Good(v, id)
<1>1. v.asked = <<>> /\ v.wire = <<>> /\ v.node = {}
  BY DEF Silence
<1>2. DOMAIN v.asked = {} /\ DOMAIN v.wire = {}
  BY <1>1
<1>3. Queued(v, id) /\ Sent(v) /\ Answered(v)
  BY <1>2 DEF Queued, Sent, Answered
<1>4. Subscribed(v, id) /\ Confirmed(v) /\ Noted(v)
  BY <1>2 DEF Subscribed, Confirmed, Noted
<1>5. Numbered(v)
  BY <1>1, <1>2 DEF Numbered
<1>6. Listening(v) /\ Ending(v)
  BY <1>1, <1>2 DEF Listening, Ending
<1>7. Forgotten(v) /\ FrontIsSent(v)
  BY <1>1 DEF Forgotten, FrontIsSent
<1> QED
  BY <1>3, <1>4, <1>5, <1>6, <1>7 DEF Good

\* A client that closes its socket, which nobody needs.
LEMMA ClosedKeeps ==
  ASSUME NEW w \in Clients, w.subs = {}, ~w.pending, ~w.connecting,
         Queued(w, 0), Subscribed(w, 0), Numbered(w), Listening(w), Ending(w)
  PROVE  Good(Close(w), 0) /\ Close(w).peer # "open"
<1> DEFINE v == Close(w)
           how == IF w.peer \in {"open", "closing"} THEN "closing" ELSE "closed"
<1>1. v = [w EXCEPT !.asked = <<>>, !.wire = <<>>, !.node = {}, !.peer = how]
  <2>1. Lost(w) = [w EXCEPT !.asked = <<>>, !.wire = <<>>, !.node = {}]
    BY DEF Lost
  <2>2. Lost(w).peer = w.peer
    BY <2>1 DEF Clients
  <2>3. v = [Lost(w) EXCEPT !.peer = how]
    BY <2>2 DEF Close
  <2> QED
    BY <2>1, <2>3 DEF Clients
<1>2. how \in {"closing", "closed"}
  OBVIOUS
<1> HIDE DEF v, how
<1>3. v \in Clients
  <2>1. <<>> \in Seq(Texts) /\ <<>> \in Seq(Messages)
    OBVIOUS
  <2> QED
    BY <1>1, <1>2, <2>1 DEF Clients
<1>4. /\ v.queue = w.queue /\ v.next = w.next /\ v.silent = w.silent
      /\ v.subs = {} /\ v.pending = w.pending /\ v.connecting = w.connecting
      /\ v.lost = w.lost /\ v.peer \in {"closing", "closed"}
      /\ v.asked = <<>> /\ v.wire = <<>> /\ v.node = {}
      /\ v.issued = w.issued /\ v.known = w.known
  BY <1>1, <1>2 DEF Clients
<1>5. Silence(v) /\ Connected(v) /\ Heard(v)
  BY <1>4 DEF Silence, Connected, Heard
<1>6. Good(v, 0)
  BY <1>3, <1>4, <1>5, SilenceKeeps
<1> QED
  BY <1>4, <1>6 DEF v

\* To be no longer connecting disturbs nothing.
LEMMA IdleKeeps ==
  ASSUME NEW w, NEW v \in Clients, NEW id, Good(w, id), v.connecting = FALSE,
         v.queue = w.queue, v.next = w.next, v.silent = w.silent, v.subs = w.subs,
         v.pending = w.pending, v.lost = w.lost, v.peer = w.peer,
         v.asked = w.asked, v.wire = w.wire, v.node = w.node, v.issued = w.issued, v.known = w.known
  PROVE  Good(v, id)
<1>1. Queued(v, id) /\ Sent(v) /\ Answered(v)
  BY DEF Good, Queued, Sent, Answered
<1>2. Subscribed(v, id) /\ Numbered(v) /\ Confirmed(v) /\ Noted(v)
  BY DEF Good, Subscribed, Numbered, Confirmed, Noted
<1>3. Listening(v) /\ Ending(v) /\ Forgotten(v) /\ FrontIsSent(v)
  BY DEF Good, Listening, Ending, Forgotten, FrontIsSent, AskedToEnd, IsFront
<1>4. Connected(v) /\ Heard(v)
  BY DEF Good, Connected, Silence, Heard
<1> QED
  BY <1>1, <1>2, <1>3, <1>4 DEF Good
-----------------------------------------------------------------------------
(* The queue, and what the program does to it.                             *)

\* A queue that is not empty has a front.
LEMMA FrontOf ==
  ASSUME NEW queue \in SUBSET Pending, queue # {}
  PROVE  Front(queue) \in queue /\ \A q \in queue : Front(queue).id <= q.id
<1> DEFINE T == {r.id : r \in queue}
           Less == OpToRel(<, Nat)
<1>1. T \subseteq Nat /\ T # {}
  BY DEF Pending, Ids
<1>2. \A x, y \in Nat : x < y => <<x, y>> \in Less
  BY DEF OpToRel
<1>3. IsWellFoundedOn(Less, Nat)
  BY NatLessThanWellFounded
<1> HIDE DEF Less, T
<1>4. PICK x \in T : \A y \in T : <<y, x>> \notin Less
  BY <1>1, <1>3, WFMin
<1>5. \A y \in T : x <= y
  <2> SUFFICES ASSUME NEW y \in T
               PROVE  x <= y
    OBVIOUS
  <2>1. x \in Nat /\ y \in Nat
    BY <1>1, <1>4
  <2>2. ~(y < x)
    BY <2>1, <1>2, <1>4
  <2> QED
    BY <2>1, <2>2
<1>6. PICK r \in queue : x = r.id
  BY <1>4 DEF T
<1>7. \A q \in queue : r.id <= q.id
  BY <1>5, <1>6 DEF T
<1> QED
  BY <1>7 DEF Front

\* Nothing of a request about to be removed keeps anything alive.
Removable(w, id) ==
  /\ ~w.connecting /\ id < w.next
  /\ \A r \in w.queue : r.id = id => \A n \in w.node : n.sid = r.target => AskedToEnd(w, n)

\* The fields of what a client holds.
LEMMA Fields ==
  ASSUME NEW w \in Clients
  PROVE  /\ \A r \in w.queue : r.id \in Ids /\ r.left \in Int /\ r.target \in Nat
         /\ \A i \in DOMAIN w.asked : w.asked[i].id \in Ids /\ w.asked[i].target \in Nat
         /\ \A i \in DOMAIN w.wire : w.wire[i].id \in Nat /\ w.wire[i].sid \in Nat
         /\ \A s \in w.subs : s.req \in Ids /\ s.sid \in Nat /\ s.cb \in Callbacks
         /\ \A n \in w.node : n.sid \in Nat /\ n.cb \in Callbacks
<1>1. \A r \in w.queue : r.id \in Ids /\ r.left \in Int /\ r.target \in Nat
  BY DEF Clients, Pending
<1>2. \A i \in DOMAIN w.asked : w.asked[i].id \in Ids /\ w.asked[i].target \in Nat
  <2> SUFFICES ASSUME NEW i \in DOMAIN w.asked PROVE w.asked[i] \in Texts
    BY DEF Texts
  <2> QED
    BY DEF Clients
<1>3. \A i \in DOMAIN w.wire : w.wire[i].id \in Nat /\ w.wire[i].sid \in Nat
  <2> SUFFICES ASSUME NEW i \in DOMAIN w.wire PROVE w.wire[i] \in Messages
    BY DEF Messages
  <2> QED
    BY DEF Clients
<1>4. /\ \A s \in w.subs : s.req \in Ids /\ s.sid \in Nat /\ s.cb \in Callbacks
      /\ \A n \in w.node : n.sid \in Nat /\ n.cb \in Callbacks
  BY DEF Clients
<1> QED
  BY <1>1, <1>2, <1>3, <1>4

\* enqueue_ws_request
LEMMA EnqueueKeeps ==
  ASSUME NEW w, NEW id \in Nat, Good(w, id), id < w.next, w.next <= MaxId,
         NEW cb \in Callbacks
  PROVE  /\ Good(Enqueue(w, cb), id) /\ id < Enqueue(w, cb).next
         /\ Removable(w, id) => Removable(Enqueue(w, cb), id)
         /\ Enqueue(w, cb).peer = w.peer /\ Enqueue(w, cb).wire = w.wire
<1> DEFINE v == Enqueue(w, cb)
           new == [id |-> w.next, cb |-> cb, target |-> 0, left |-> Timeout]
<1>1. w \in Clients /\ w.next \in Ids /\ MaxId \in Nat /\ Timeout \in Nat
  BY Assumption DEF Good, Clients, Ids
<1>2. new \in Pending
  BY <1>1 DEF Pending
<1>3. v \in Clients
  <2>1. w.queue \cup {new} \in SUBSET Pending /\ w.next + 1 \in 1 .. MaxId + 1
        /\ w.silent \ {cb} \in SUBSET Callbacks
    BY <1>1, <1>2 DEF Clients, Ids
  <2> QED
    BY <1>1, <2>1 DEF Clients, Enqueue
<1>4. /\ v.queue = w.queue \cup {new} /\ v.next = w.next + 1 /\ v.silent = w.silent \ {cb}
      /\ v.subs = w.subs /\ v.pending = w.pending /\ v.connecting = w.connecting
      /\ v.lost = w.lost /\ v.peer = w.peer /\ v.asked = w.asked /\ v.wire = w.wire
      /\ v.node = w.node /\ v.issued = w.issued /\ v.known = w.known
  BY <1>1 DEF Clients, Enqueue
<1>5. new.id = w.next /\ new.cb = cb /\ new.target = 0 /\ new.left = Timeout
  OBVIOUS
<1>6. NoCallback \notin Callbacks
  BY Assumption
<1>7. /\ \A r \in w.queue : r.id \in Ids /\ r.left \in Int /\ r.target \in Nat
      /\ \A i \in DOMAIN w.asked : w.asked[i].id \in Ids
      /\ \A s \in w.subs : s.req \in Ids
      /\ \A n \in w.node : n.sid \in Nat
  BY <1>1, Fields
<1> HIDE DEF v, new
<1>8. Queued(v, id)
  BY <1>1, <1>4, <1>5, <1>6, <1>7 DEF Good, Queued, Ids
<1>9. Sent(v) /\ Answered(v)
  <2>1. Sent(v)
    BY <1>1, <1>4, <1>5, <1>7 DEF Good, Sent, Ids
  <2>2. Answered(v)
    BY <1>1, <1>4, <1>5, <1>7 DEF Good, Answered, Ids
  <2> QED
    BY <2>1, <2>2
<1>10. Subscribed(v, id)
  BY <1>1, <1>4, <1>5, <1>7 DEF Good, Subscribed, Ids
<1>11. Numbered(v) /\ Confirmed(v) /\ Noted(v) /\ Heard(v)
  BY <1>4 DEF Good, Numbered, Confirmed, Noted, Heard
<1>12. Listening(v) /\ Ending(v)
  BY <1>4, <1>5 DEF Good, Listening, Ending
<1>13. Forgotten(v) /\ Connected(v)
  BY <1>4 DEF Good, Forgotten, Connected, AskedToEnd, Silence
<1>14. FrontIsSent(v)
  <2> SUFFICES ASSUME w.pending, NEW r \in v.queue, IsFront(v, r), NEW n \in w.node, n.sid = r.target
               PROVE  AskedToEnd(w, n)
    BY <1>4 DEF FrontIsSent, AskedToEnd
  <2>1. PICK q \in w.queue : TRUE
    BY DEF Good, Connected
  <2>2. r # new
    BY <1>1, <1>4, <1>5, <1>7, <2>1 DEF IsFront, Good, Queued, Ids
  <2>3. r \in w.queue /\ IsFront(w, r)
    BY <1>4, <2>2 DEF IsFront
  <2> QED
    BY <2>3 DEF Good, FrontIsSent
<1>15. ASSUME Removable(w, id) PROVE Removable(v, id)
  BY <1>1, <1>4, <1>5, <1>15 DEF Removable, AskedToEnd, Ids
<1>16. id < v.next
  BY <1>1, <1>4 DEF Ids
<1> QED
  BY <1>3, <1>4, <1>8, <1>9, <1>10, <1>11, <1>12, <1>13, <1>14, <1>15, <1>16 DEF Good, v

\* The requests that end subscriptions have ids of their own, in a row.
LEMMA IdsInARow ==
  ASSUME NEW w, NEW id, Good(w, id), NEW gone \in SUBSET w.subs
  PROVE  /\ IsFiniteSet(gone) /\ Cardinality(gone) \in Nat
         /\ \A s \in gone : Cardinality({t \in gone : t.req < s.req}) \in 0 .. Cardinality(gone) - 1
         /\ \A s, q \in gone :
              Cardinality({t \in gone : t.req < s.req}) = Cardinality({t \in gone : t.req < q.req}) => s = q
<1> DEFINE Below(s) == {t \in gone : t.req < s.req}
<1>1. IsFiniteSet(gone) /\ Cardinality(gone) \in Nat
  BY FS_Subset, FS_CardinalityType DEF Good, Subscribed
<1>2. \A s \in gone : s.req \in Nat
  <2>1. w \in Clients
    BY DEF Good
  <2> QED
    BY <2>1, Fields DEF Ids
<1>3. ASSUME NEW s \in gone
      PROVE  /\ IsFiniteSet(Below(s)) /\ Cardinality(Below(s)) \in Nat
             /\ Cardinality(Below(s)) < Cardinality(gone)
  <2>1. Below(s) \in SUBSET gone /\ s \in gone /\ s \notin Below(s)
    BY <1>2
  <2> HIDE DEF Below
  <2> QED
    BY <1>1, <2>1, FS_Subset, FS_CardinalityType
<1>4. ASSUME NEW s \in gone, NEW q \in gone, s.req < q.req
      PROVE  Cardinality(Below(s)) < Cardinality(Below(q))
  <2>1. Below(s) \in SUBSET Below(q)
    BY <1>2, <1>4
  <2>2. s \in Below(q) /\ s \notin Below(s)
    BY <1>2, <1>4
  <2>3. /\ IsFiniteSet(Below(q)) /\ Cardinality(Below(q)) \in Nat
        /\ Cardinality(Below(s)) \in Nat
    BY <1>3
  <2> HIDE DEF Below
  <2>4. Cardinality(Below(s)) <= Cardinality(Below(q)) /\ Cardinality(Below(s)) # Cardinality(Below(q))
    BY <2>1, <2>2, <2>3, FS_Subset
  <2> QED
    BY <2>3, <2>4
<1>5. ASSUME NEW s \in gone, NEW q \in gone, Cardinality(Below(s)) = Cardinality(Below(q))
      PROVE  s = q
  <2>1. Cardinality(Below(s)) \in Nat /\ Cardinality(Below(q)) \in Nat
    BY <1>3
  <2>2. ~(s.req < q.req) /\ ~(q.req < s.req)
    <3>1. ~(Cardinality(Below(s)) < Cardinality(Below(q))) /\ ~(Cardinality(Below(q)) < Cardinality(Below(s)))
      BY <1>5, <2>1
    <3> HIDE DEF Below
    <3> QED
      BY <1>4, <3>1
  <2>3. s.req = q.req
    BY <1>2, <2>2
  <2> QED
    BY <2>3 DEF Good, Subscribed
<1>6. \A s \in gone : Cardinality(Below(s)) \in 0 .. Cardinality(gone) - 1
  <2> HIDE DEF Below
  <2> QED
    BY <1>1, <1>3
<1> QED
  BY <1>1, <1>5, <1>6

\* unsubscribe_all, of a listener that waits for no answer
LEMMA UnsubscribeAllKeeps ==
  ASSUME NEW w, NEW id \in Nat, Good(w, id), id < w.next, NEW cb \in Callbacks,
         w.next + Cardinality(Gone(w, cb)) <= MaxId + 1,
         \A r \in w.queue : r.cb # cb
  PROVE  /\ Good(UnsubscribeAll(w, cb), id) /\ id < UnsubscribeAll(w, cb).next
         /\ Removable(w, id) => Removable(UnsubscribeAll(w, cb), id)
         /\ UnsubscribeAll(w, cb).peer = w.peer /\ UnsubscribeAll(w, cb).wire = w.wire
<1> DEFINE v == UnsubscribeAll(w, cb)
           gone == Gone(w, cb)
           count == Cardinality(gone)
           Place(s) == Cardinality({t \in gone : t.req < s.req})
           End(s) == [id |-> w.next + Place(s), cb |-> NoCallback, target |-> s.sid, left |-> Timeout]
           ends == {End(s) : s \in gone}
<1>1. w \in Clients /\ w.next \in Nat /\ MaxId \in Nat /\ Timeout \in Nat /\ NoCallback \notin Callbacks
  BY Assumption DEF Good, Clients, Ids
<1>2. gone \in SUBSET w.subs
  BY DEF Gone
<1>3. /\ count \in Nat
      /\ \A s \in gone : Place(s) \in 0 .. count - 1
      /\ \A s, q \in gone : Place(s) = Place(q) => s = q
  BY <1>2, IdsInARow
<1>4. \A s \in gone : s.sid \in w.known /\ s.sid \in Nat /\ s.sid # 0
  <2>1. w.known \subseteq 1 .. w.issued /\ w.issued \in Nat
    BY <1>1 DEF Good, Numbered, Clients
  <2> QED
    BY <1>2, <2>1 DEF Good, Subscribed
<1>5. v = [w EXCEPT !.queue = @ \cup ends, !.subs = @ \ gone, !.next = @ + count,
                    !.silent = @ \cup {cb}]
  BY DEF UnsubscribeAll
<1>6. \A s \in gone : End(s).id = w.next + Place(s) /\ End(s).cb = NoCallback
                      /\ End(s).target = s.sid /\ End(s).left = Timeout
  OBVIOUS
<1>7. w.next + count \in 1 .. MaxId + 1
  <2>1. w.next \in 1 .. MaxId + 1
    BY <1>1 DEF Clients
  <2> QED
    BY <1>3, <2>1
<1>8. \A s \in gone : w.next + Place(s) \in Ids
  <2>1. w.next \in 1 .. MaxId + 1
    BY <1>1 DEF Clients
  <2> HIDE DEF Place, count, gone
  <2> QED
    BY <1>1, <1>3, <1>7, <2>1 DEF Ids
<1>9. ends \subseteq Pending
  <2> HIDE DEF Place, gone, count
  <2> QED
    BY <1>1, <1>4, <1>8 DEF Pending
<1>10. /\ \A r \in ends : /\ r.id \in w.next .. w.next + count - 1 /\ r.left = Timeout
                          /\ r.cb = NoCallback /\ r.target # 0 /\ r.target \in w.known
                          /\ \E s \in gone : r.target = s.sid
       /\ \A r, q \in ends : r.id = q.id => r = q
       /\ \A s \in gone : \E r \in ends : r.target = s.sid
  <2>1. ASSUME NEW r \in ends
        PROVE  /\ r.id \in w.next .. w.next + count - 1 /\ r.left = Timeout
               /\ r.cb = NoCallback /\ r.target # 0 /\ r.target \in w.known
               /\ \E s \in gone : r.target = s.sid
    <3>1. PICK s \in gone : r = End(s)
      OBVIOUS
    <3> HIDE DEF Place, gone, count, End
    <3> QED
      BY <1>1, <1>3, <1>4, <1>6, <3>1
  <2>2. ASSUME NEW r \in ends, NEW q \in ends, r.id = q.id PROVE r = q
    <3>1. PICK s \in gone : r = End(s)
      OBVIOUS
    <3>2. PICK t \in gone : q = End(t)
      OBVIOUS
    <3> HIDE DEF Place, gone, count, End, ends
    <3>3. w.next + Place(s) = w.next + Place(t) /\ Place(s) \in Nat /\ Place(t) \in Nat
      BY <1>3, <1>6, <2>2, <3>1, <3>2
    <3>4. Place(s) = Place(t)
      BY <1>1, <3>3
    <3> QED
      BY <1>3, <3>1, <3>2, <3>4
  <2>3. \A s \in gone : \E r \in ends : r.target = s.sid
    <3> HIDE DEF Place, gone, count
    <3> QED
      BY <1>6
  <2> QED
    BY <2>1, <2>2, <2>3
<1>11. \A s \in w.subs : s \in gone <=> s.cb = cb
  BY DEF Gone
<1> HIDE DEF Place, End, ends, gone, count, v
<1>12. v \in Clients
  <2>1. w.queue \cup ends \in SUBSET Pending /\ w.next + count \in 1 .. MaxId + 1
        /\ w.silent \cup {cb} \in SUBSET Callbacks
    BY <1>1, <1>7, <1>9 DEF Clients
  <2> QED
    BY <1>1, <1>5, <2>1 DEF Clients
<1>13. /\ v.queue = w.queue \cup ends /\ v.next = w.next + count /\ v.silent = w.silent \cup {cb}
       /\ v.subs = w.subs \ gone /\ v.pending = w.pending /\ v.connecting = w.connecting
       /\ v.lost = w.lost /\ v.peer = w.peer /\ v.asked = w.asked /\ v.wire = w.wire
       /\ v.node = w.node /\ v.issued = w.issued /\ v.known = w.known
  BY <1>1, <1>5 DEF Clients
<1>14. /\ \A r \in w.queue : r.id \in Nat /\ r.left \in Int /\ r.target \in Nat /\ r.id < w.next
       /\ \A i \in DOMAIN w.asked : w.asked[i].id \in Nat /\ w.asked[i].id < w.next
       /\ \A s \in w.subs : s.req \in Nat /\ s.req < w.next
  BY <1>1, Fields DEF Good, Queued, Sent, Subscribed, Ids
\* The ends come after everything that was made before.
<1>15. \A r \in ends : r.id \in Nat /\ r.id >= w.next /\ r.id < v.next /\ r.id # id
  BY <1>1, <1>3, <1>10, <1>13
<1>16. v.next \in Nat /\ v.next >= w.next /\ id < v.next
  BY <1>1, <1>3, <1>13
<1>17. Queued(v, id)
  <2>1. \A r \in v.queue : r.id < v.next
    BY <1>1, <1>13, <1>14, <1>15, <1>16
  <2>2. \A r, q \in v.queue : r.id = q.id => r = q
    BY <1>1, <1>10, <1>13, <1>14, <1>15 DEF Good, Queued
  <2>3. \A r \in v.queue : r.id # id => r.left \in 0 .. Timeout
    BY <1>1, <1>10, <1>13 DEF Good, Queued
  <2>4. \A r, q \in v.queue : r.id # id /\ q.id # id /\ r.id <= q.id => r.left <= q.left
    <3> SUFFICES ASSUME NEW r \in v.queue, NEW q \in v.queue, r.id # id, q.id # id, r.id <= q.id
                 PROVE  r.left <= q.left
      OBVIOUS
    <3>1. CASE q \in ends
      BY <1>1, <1>10, <2>3, <3>1
    <3>2. CASE q \notin ends
      BY <1>1, <1>13, <1>14, <1>15, <3>2 DEF Good, Queued
    <3> QED
      BY <3>1, <3>2
  <2>5. \A r \in v.queue : r.target = 0 <=> r.cb \in Callbacks
    BY <1>1, <1>10, <1>13 DEF Good, Queued
  <2> QED
    BY <2>1, <2>2, <2>3, <2>4, <2>5 DEF Queued
<1>18. Sent(v) /\ Answered(v)
  <2>1. Sent(v)
    BY <1>1, <1>13, <1>14, <1>15, <1>16 DEF Good, Sent
  <2>2. Answered(v)
    BY <1>1, <1>13, <1>14, <1>15, <1>16 DEF Good, Answered, Ids
  <2> QED
    BY <2>1, <2>2
<1>19. Subscribed(v, id)
  <2>1. IsFiniteSet(v.subs)
    BY <1>13, FS_Subset DEF Good, Subscribed
  <2> QED
    BY <1>1, <1>13, <1>14, <1>15, <1>16, <2>1 DEF Good, Subscribed
<1>20. Numbered(v) /\ Confirmed(v) /\ Noted(v) /\ Heard(v)
  BY <1>13 DEF Good, Numbered, Confirmed, Noted, Heard
<1>21. Listening(v)
  <2>1. NoCallback \notin v.silent
    BY <1>1, <1>13 DEF Clients
  <2>2. \A r \in v.queue : r.cb \notin v.silent
    BY <1>10, <1>13, <2>1 DEF Good, Listening
  <2>3. \A s \in v.subs : s.cb \notin v.silent
    BY <1>11, <1>13 DEF Good, Listening
  <2> QED
    BY <1>13, <2>2, <2>3 DEF Good, Listening
<1>22. Ending(v)
  <2>1. \A r \in ends : \A s \in v.subs : s.sid # r.target
    BY <1>2, <1>10, <1>13 DEF Good, Subscribed
  <2> QED
    BY <1>10, <1>13, <2>1 DEF Good, Ending
<1>23. Forgotten(v)
  BY <1>10, <1>13 DEF Good, Forgotten, AskedToEnd
<1>24. Connected(v)
  BY <1>10, <1>13 DEF Good, Connected, Silence
<1>25. FrontIsSent(v)
  <2> SUFFICES ASSUME w.pending, NEW r \in v.queue, IsFront(v, r), NEW n \in w.node, n.sid = r.target
               PROVE  AskedToEnd(w, n)
    BY <1>13 DEF FrontIsSent, AskedToEnd
  <2>1. PICK q \in w.queue : TRUE
    BY DEF Good, Connected
  <2>2. r \notin ends
    BY <1>1, <1>13, <1>14, <1>15, <2>1 DEF IsFront
  <2>3. r \in w.queue /\ IsFront(w, r)
    BY <1>13, <2>2 DEF IsFront
  <2> QED
    BY <2>3 DEF Good, FrontIsSent
<1>26. ASSUME Removable(w, id) PROVE Removable(v, id)
  BY <1>13, <1>15, <1>16, <1>26 DEF Removable, AskedToEnd
<1> QED
  BY <1>12, <1>13, <1>16, <1>17, <1>18, <1>19, <1>20, <1>21, <1>22, <1>23, <1>24, <1>25, <1>26 DEF Good, v

\* What a program's handler may do when it is called.
LEMMA ReactionsKeep ==
  ASSUME NEW w, NEW id \in Nat, Good(w, id), Removable(w, id), NEW v \in Reactions(w)
  PROVE  Good(v, id) /\ Removable(v, id) /\ v.peer = w.peer /\ v.wire = w.wire
<1>1. CASE v = w
  BY <1>1
<1>2. ASSUME NEW cb \in Callbacks, w.next <= MaxId, v = Enqueue(w, cb)
      PROVE  Good(v, id) /\ Removable(v, id) /\ v.peer = w.peer /\ v.wire = w.wire
  BY <1>2, EnqueueKeeps DEF Removable
<1>3. ASSUME NEW cb \in Callbacks, w.next + Cardinality(Gone(w, cb)) <= MaxId + 1,
             \A r \in w.queue : r.cb # cb, v = UnsubscribeAll(w, cb)
      PROVE  Good(v, id) /\ Removable(v, id) /\ v.peer = w.peer /\ v.wire = w.wire
  BY <1>3, UnsubscribeAllKeeps DEF Removable
<1> QED
  BY <1>1, <1>2, <1>3 DEF Reactions

\* socket_response_received
LEMMA ToldKeeps ==
  ASSUME NEW w, NEW id \in Nat, Good(w, id), Removable(w, id),
         NEW how \in {"ok", "error", "timeout"}
  PROVE  /\ Good([w EXCEPT !.told[id] = how], id) /\ Removable([w EXCEPT !.told[id] = how], id)
         /\ [w EXCEPT !.told[id] = how].peer = w.peer /\ [w EXCEPT !.told[id] = how].wire = w.wire
<1> DEFINE v == [w EXCEPT !.told[id] = how]
<1>1. w \in Clients
  BY DEF Good
<1>2. v \in Clients
  BY <1>1 DEF Clients
<1>3. /\ v.queue = w.queue /\ v.next = w.next /\ v.silent = w.silent
      /\ v.subs = w.subs /\ v.pending = w.pending /\ v.connecting = w.connecting
      /\ v.lost = w.lost /\ v.peer = w.peer /\ v.asked = w.asked /\ v.wire = w.wire
      /\ v.node = w.node /\ v.issued = w.issued /\ v.known = w.known
  BY <1>1 DEF Clients
<1> HIDE DEF v
<1>4. Good(v, id)
  BY <1>2, <1>3, SameGood
<1>5. Removable(v, id)
  BY <1>3 DEF Removable, AskedToEnd
<1> QED
  BY <1>3, <1>4, <1>5 DEF v

\* The request is removed, and the socket closed if nobody is left.
LEMMA RemoveKeeps ==
  ASSUME NEW t, NEW id \in Nat, Good(t, id), Removable(t, id)
  PROVE  LET v == CloseIfDone([t EXCEPT !.queue = {r \in @ : r.id # id}, !.pending = FALSE])
         IN Good(v, 0) /\ (v.peer = "open" => t.peer = "open" /\ v.wire = t.wire)
<1> DEFINE u == [t EXCEPT !.queue = {r \in @ : r.id # id}, !.pending = FALSE]
           v == CloseIfDone(u)
           left == {r \in t.queue : r.id # id}
<1>1. t \in Clients /\ left \subseteq t.queue
  BY DEF Good
<1>2. u \in Clients /\ u = [t EXCEPT !.queue = left, !.pending = FALSE]
  <2>1. u = [t EXCEPT !.queue = left, !.pending = FALSE]
    OBVIOUS
  <2>2. left \in SUBSET Pending
    BY <1>1 DEF Clients
  <2> HIDE DEF left, u
  <2> QED
    BY <1>1, <2>1, <2>2 DEF Clients
<1>3. \A r \in left : r.id # id
  OBVIOUS
<1>4. \A r \in t.queue : r \in left \/ r.id = id
  OBVIOUS
<1> HIDE DEF left, u
<1>5. /\ u.queue = left /\ u.next = t.next /\ u.silent = t.silent
      /\ u.subs = t.subs /\ u.pending = FALSE /\ u.connecting = FALSE
      /\ u.lost = t.lost /\ u.peer = t.peer /\ u.asked = t.asked /\ u.wire = t.wire
      /\ u.node = t.node /\ u.issued = t.issued /\ u.known = t.known
  <2>1. t.connecting = FALSE
    BY <1>1 DEF Removable, Clients
  <2> QED
    BY <1>1, <1>2, <2>1 DEF Clients
<1>6. \A r \in left : r.id # 0
  BY <1>1, Fields DEF Ids
\* What holds of the rest.
<1>7. Queued(u, 0) /\ Sent(u) /\ Answered(u)
  <2>1. Queued(u, 0)
    BY <1>1, <1>3, <1>5 DEF Good, Queued
  <2>2. Sent(u)
    BY <1>1, <1>5 DEF Good, Sent
  <2>3. Answered(u)
    BY <1>1, <1>5 DEF Good, Answered
  <2> QED
    BY <2>1, <2>2, <2>3
<1>8. Subscribed(u, 0)
  BY <1>1, <1>3, <1>5 DEF Good, Subscribed
<1>9. Numbered(u) /\ Confirmed(u) /\ Noted(u) /\ Heard(u)
  BY <1>5 DEF Good, Numbered, Confirmed, Noted, Heard
<1>10. Listening(u) /\ Ending(u)
  BY <1>1, <1>5 DEF Good, Listening, Ending
<1>11. Forgotten(u)
  <2> SUFFICES ASSUME NEW n \in t.node, n.sid \in t.known,
                      ~\E s \in t.subs : s.sid = n.sid, ~AskedToEnd(t, n)
               PROVE  \E r \in left : r.target = n.sid
    BY <1>5 DEF Forgotten, AskedToEnd
  <2>1. PICK r \in t.queue : r.target = n.sid
    BY DEF Good, Forgotten
  <2>2. r.id # id
    BY <2>1 DEF Removable
  <2> QED
    BY <1>4, <2>1, <2>2
<1>12. FrontIsSent(u)
  BY <1>5 DEF FrontIsSent
<1>13. CASE u.subs # {}
  <2>1. v = u
    BY <1>13 DEF CloseIfDone
  <2>2. Connected(u)
    BY <1>5, <1>13 DEF Good, Connected, Silence
  <2> QED
    BY <1>2, <1>5, <1>7, <1>8, <1>9, <1>10, <1>11, <1>12, <2>1, <2>2 DEF Good, u
<1>14. CASE u.subs = {}
  <2>1. v = Close(u)
    BY <1>14 DEF CloseIfDone
  <2>2. Good(v, 0) /\ v.peer # "open"
    BY <1>2, <1>5, <1>7, <1>8, <1>9, <1>10, <1>14, <2>1, ClosedKeeps
  <2> QED
    BY <2>2 DEF u
<1> QED
  BY <1>13, <1>14

\* Good and kept: of a step that leaves the connection and its packets, if it
\* leaves the connection open.
Kept(v, w) == Good(v, 0) /\ (v.peer = "open" => w.peer = "open" /\ v.wire = w.wire)

\* finalize_request, with the handler it runs
LEMMA FinalizeKeeps ==
  ASSUME NEW w, NEW id \in Nat, Good(w, id), Removable(w, id),
         NEW how \in {"ok", "error", "timeout"}, NEW v \in Finalize(w, id, how)
  PROVE  Kept(v, w)
<1> DEFINE told == [w EXCEPT !.told[id] = how]
           Removed(t) == CloseIfDone([t EXCEPT !.queue = {r \in @ : r.id # id}, !.pending = FALSE])
<1>1. PICK t : (t = w \/ t \in Reactions(told)) /\ v = Removed(t)
  BY DEF Finalize
<1>2. Good(t, id) /\ Removable(t, id) /\ t.peer = w.peer /\ t.wire = w.wire
  <2>1. Good(told, id) /\ Removable(told, id) /\ told.peer = w.peer /\ told.wire = w.wire
    BY ToldKeeps
  <2> HIDE DEF told
  <2>2. CASE t \in Reactions(told)
    BY <2>1, <2>2, ReactionsKeep
  <2> QED
    BY <1>1, <2>2
<1> QED
  BY <1>1, <1>2, RemoveKeeps DEF Kept

-----------------------------------------------------------------------------
(* process(delta).                                                         *)

\* The requests up to one lose a frame; none but the one about to be removed is
\* over its time.
LEMMA AgedKeeps ==
  ASSUME NEW w, Good(w, 0), NEW last \in Nat, NEW id \in Nat,
         \A r \in w.queue : r.id <= last /\ r.id # id => r.left # 0
  PROVE  LET v == [w EXCEPT !.queue = {IF r.id <= last THEN [r EXCEPT !.left = @ - 1] ELSE r : r \in @}]
         IN /\ Good(v, id) /\ \A p \in v.queue : \E r \in w.queue : p.id = r.id /\ p.target = r.target
            /\ v.connecting = w.connecting /\ v.next = w.next /\ v.node = w.node /\ v.asked = w.asked
            /\ v.peer = w.peer /\ v.wire = w.wire /\ v.pending = w.pending
<1> DEFINE Aged(r) == IF r.id <= last THEN [r EXCEPT !.left = @ - 1] ELSE r
           aged == {Aged(r) : r \in w.queue}
           v == [w EXCEPT !.queue = {IF r.id <= last THEN [r EXCEPT !.left = @ - 1] ELSE r : r \in @}]
<1>1. w \in Clients /\ w.queue \in SUBSET Pending /\ Timeout \in Nat
  BY Assumption DEF Good, Clients
<1>2. v = [w EXCEPT !.queue = aged]
  OBVIOUS
<1>3. ASSUME NEW r \in w.queue
      PROVE  /\ Aged(r) \in Pending /\ Aged(r).id = r.id /\ Aged(r).cb = r.cb /\ Aged(r).target = r.target
             /\ Aged(r).left = IF r.id <= last THEN r.left - 1 ELSE r.left
  BY <1>1 DEF Pending
<1>4. /\ \A r \in w.queue : Aged(r) \in aged
      /\ \A p \in aged : \E r \in w.queue : p = Aged(r)
  OBVIOUS
<1>5. \A r \in w.queue : r.id \in Nat /\ r.left \in 0 .. Timeout /\ r.id # 0
  BY <1>1, Fields DEF Good, Queued, Ids
<1> HIDE DEF Aged, aged, v
<1>6. v \in Clients
  <2>1. aged \in SUBSET Pending
    BY <1>3, <1>4
  <2> QED
    BY <1>1, <1>2, <2>1 DEF Clients
<1>7. /\ v.queue = aged /\ v.next = w.next /\ v.silent = w.silent
      /\ v.subs = w.subs /\ v.pending = w.pending /\ v.connecting = w.connecting
      /\ v.lost = w.lost /\ v.peer = w.peer /\ v.asked = w.asked /\ v.wire = w.wire
      /\ v.node = w.node /\ v.issued = w.issued /\ v.known = w.known
  BY <1>1, <1>2 DEF Clients
<1>8. ASSUME NEW p \in aged
      PROVE  \E r \in w.queue : /\ p = Aged(r) /\ p.id = r.id /\ p.cb = r.cb /\ p.target = r.target
                                /\ p.left = IF r.id <= last THEN r.left - 1 ELSE r.left
  BY <1>3, <1>4
<1>9. Queued(v, id)
  <2>1. \A p \in aged : p.id < w.next
    BY <1>8 DEF Good, Queued
  <2>2. \A p, q \in aged : p.id = q.id => p = q
    BY <1>8 DEF Good, Queued
  <2>3. \A p \in aged : p.id # id => p.left \in 0 .. Timeout
    <3> SUFFICES ASSUME NEW p \in aged, p.id # id PROVE p.left \in 0 .. Timeout
      OBVIOUS
    <3>1. PICK r \in w.queue : p.id = r.id /\ p.left = IF r.id <= last THEN r.left - 1 ELSE r.left
      BY <1>8
    <3> QED
      BY <1>1, <1>5, <3>1
  <2>4. \A p, q \in aged : p.id # id /\ q.id # id /\ p.id <= q.id => p.left <= q.left
    <3> SUFFICES ASSUME NEW p \in aged, NEW q \in aged, p.id # id, q.id # id, p.id <= q.id
                 PROVE  p.left <= q.left
      OBVIOUS
    <3>1. PICK r \in w.queue : p.id = r.id /\ p.left = IF r.id <= last THEN r.left - 1 ELSE r.left
      BY <1>8
    <3>2. PICK s \in w.queue : q.id = s.id /\ q.left = IF s.id <= last THEN s.left - 1 ELSE s.left
      BY <1>8
    <3>3. r.left <= s.left
      BY <1>5, <3>1, <3>2 DEF Good, Queued
    <3> QED
      BY <1>1, <1>5, <3>1, <3>2, <3>3
  <2>5. \A p \in aged : p.target = 0 <=> p.cb \in Callbacks
    BY <1>8 DEF Good, Queued
  <2> QED
    BY <1>7, <2>1, <2>2, <2>3, <2>4, <2>5 DEF Queued
<1>10. Sent(v) /\ Answered(v)
  <2>1. Sent(v)
    BY <1>7, <1>8 DEF Good, Sent
  <2>2. Answered(v)
    BY <1>7, <1>8 DEF Good, Answered
  <2> QED
    BY <2>1, <2>2
<1>11. Subscribed(v, id)
  <2>1. \A s \in w.subs, p \in aged : s.req < p.id
    BY <1>5, <1>8 DEF Good, Subscribed
  <2> QED
    BY <1>7, <2>1 DEF Good, Subscribed
<1>12. Numbered(v) /\ Confirmed(v) /\ Noted(v) /\ Heard(v)
  BY <1>7 DEF Good, Numbered, Confirmed, Noted, Heard
<1>13. Listening(v) /\ Ending(v)
  BY <1>7, <1>8 DEF Good, Listening, Ending
<1>14. Forgotten(v)
  BY <1>3, <1>4, <1>7 DEF Good, Forgotten, AskedToEnd
<1>15. Connected(v)
  BY <1>4, <1>7 DEF Good, Connected, Silence
<1>16. FrontIsSent(v)
  <2> SUFFICES ASSUME w.pending, NEW p \in aged, IsFront(v, p), NEW n \in w.node, n.sid = p.target
               PROVE  AskedToEnd(w, n)
    BY <1>7 DEF FrontIsSent, AskedToEnd
  <2>1. PICK r \in w.queue : p.id = r.id /\ p.target = r.target
    BY <1>8
  <2>2. IsFront(w, r)
    BY <1>3, <1>4, <1>7, <2>1 DEF IsFront
  <2> QED
    BY <2>1, <2>2 DEF Good, FrontIsSent
<1>17. \A p \in v.queue : \E r \in w.queue : p.id = r.id /\ p.target = r.target
  BY <1>7, <1>8
<1> QED
  BY <1>6, <1>7, <1>9, <1>10, <1>11, <1>12, <1>13, <1>14, <1>15, <1>16, <1>17 DEF Good, v

\* Only the front runs out of time, and it has been sent.
LEMMA ProcessTimeoutsKeeps ==
  ASSUME NEW w, Good(w, 0), w.pending \/ w.node = {}, NEW v \in ProcessTimeouts(w)
  PROVE  Kept(v, w)
<1> DEFINE late == {r \in w.queue : r.left = 0}
           last == IF late = {} THEN MaxId + 1 ELSE Front(late).id
           aged == [w EXCEPT !.queue = {IF r.id <= last THEN [r EXCEPT !.left = @ - 1] ELSE r : r \in @}]
           idle == [aged EXCEPT !.connecting = FALSE]
<1>1. w \in Clients /\ MaxId \in Nat
  BY Assumption DEF Good
<1>2. /\ v \in IF late = {} THEN {aged} ELSE Finalize(idle, last, "timeout")
      /\ \A r \in late : r \in w.queue /\ r.left = 0
      /\ \A r \in w.queue : r.left = 0 => r \in late
      /\ late \in SUBSET w.queue
  BY DEF ProcessTimeouts
<1>3. \A r \in w.queue : r.id \in Nat /\ r.id # 0 /\ r.left \in 0 .. Timeout
  BY <1>1, Fields DEF Good, Queued, Ids
<1>4. CASE late = {}
  <2>1. v = aged /\ last \in Nat
    BY <1>1, <1>2, <1>4
  <2>2. Good(aged, 0) /\ aged.peer = w.peer /\ aged.wire = w.wire
    <3>1. 0 \in Nat /\ \A r \in w.queue : r.id <= last /\ r.id # 0 => r.left # 0
      BY <1>2, <1>4
    <3> HIDE DEF late, last
    <3> QED
      BY <2>1, <3>1, AgedKeeps
  <2> HIDE DEF aged
  <2> QED
    BY <2>1, <2>2 DEF Kept
<1>5. CASE late # {}
  <2>1. /\ Front(late) \in late /\ last = Front(late).id
        /\ \A q \in late : last <= q.id
    <3>1. late \in SUBSET Pending
      BY <1>1, <1>2 DEF Clients
    <3> HIDE DEF late
    <3> QED
      BY <1>5, <3>1, FrontOf
  <2>2. last \in Nat /\ last # 0 /\ Front(late) \in w.queue /\ Front(late).left = 0
    BY <1>2, <1>3, <2>1
  <2>3. v \in Finalize(idle, last, "timeout")
    BY <1>2, <1>5
  <2> HIDE DEF late, last
  \* Nothing before it has time left, and nothing is late before it.
  <2>4. \A r \in w.queue : last <= r.id
    <3> SUFFICES ASSUME NEW r \in w.queue, ~(last <= r.id) PROVE FALSE
      OBVIOUS
    <3>1. r.left <= Front(late).left
      BY <1>3, <2>1, <2>2 DEF Good, Queued
    <3>2. r.left = 0
      BY <1>3, <2>2, <3>1
    <3> QED
      BY <1>2, <2>1, <3>2
  <2>5. /\ Good(aged, last) /\ \A p \in aged.queue : \E r \in w.queue : p.id = r.id /\ p.target = r.target
        /\ aged.connecting = w.connecting /\ aged.next = w.next /\ aged.node = w.node
        /\ aged.asked = w.asked /\ aged.peer = w.peer /\ aged.wire = w.wire /\ aged.pending = w.pending
    <3>1. \A r \in w.queue : r.id <= last /\ r.id # last => r.left # 0
      BY <1>3, <2>2, <2>4
    <3> QED
      BY <2>2, <3>1, AgedKeeps
  <2> HIDE DEF aged
  <2>6. Good(idle, last) /\ idle.peer = w.peer /\ idle.wire = w.wire
    <3>1. aged \in Clients
      BY <2>5 DEF Good
    <3>2. idle \in Clients
      BY <3>1 DEF Clients
    <3>3. /\ idle.queue = aged.queue /\ idle.next = aged.next /\ idle.silent = aged.silent
          /\ idle.subs = aged.subs /\ idle.pending = aged.pending /\ idle.connecting = FALSE
          /\ idle.lost = aged.lost /\ idle.peer = aged.peer /\ idle.asked = aged.asked
          /\ idle.wire = aged.wire /\ idle.node = aged.node /\ idle.issued = aged.issued
          /\ idle.known = aged.known
      BY <3>1 DEF Clients
    <3> HIDE DEF idle
    <3> QED
      BY <2>5, <3>2, <3>3, IdleKeeps
  <2>7. Removable(idle, last)
    <3>1. /\ idle.queue = aged.queue /\ idle.next = aged.next /\ idle.connecting = FALSE
          /\ idle.asked = aged.asked /\ idle.node = aged.node
      <4>1. aged \in Clients
        BY <2>5 DEF Good
      <4> QED
        BY <4>1 DEF Clients
    <3> HIDE DEF idle
    <3>2. last < w.next
      BY <2>1, <2>2 DEF Good, Queued
    <3>3. ASSUME NEW p \in aged.queue, p.id = last, NEW n \in w.node, n.sid = p.target
          PROVE  AskedToEnd(w, n)
      <4>1. PICK r \in w.queue : r.id = last /\ r.target = p.target
        BY <2>5, <3>3
      <4>2. w.pending /\ IsFront(w, r)
        BY <2>4, <3>3, <4>1 DEF IsFront
      <4> QED
        BY <3>3, <4>1, <4>2 DEF Good, FrontIsSent
    <3> QED
      BY <2>5, <3>1, <3>2, <3>3 DEF Removable, AskedToEnd
  <2> HIDE DEF idle
  <2>8. Kept(v, idle)
    BY <2>2, <2>3, <2>6, <2>7, FinalizeKeeps
  <2> QED
    BY <2>6, <2>8 DEF Kept
<1> QED
  BY <1>4, <1>5

\* connect_ws: a connection is begun, or the URL is refused and what is queued waits.
LEMMA ConnectWsKeeps ==
  ASSUME NEW w, Good(w, 0), w.peer = "closed", w.queue # {}, ~w.connecting, NEW v \in ConnectWs(w)
  PROVE  Kept(v, w)
<1>1. w \in Clients
  BY DEF Good
<1>2. CASE v = [w EXCEPT !.peer = "connecting", !.connecting = TRUE]
  <2>1. v \in Clients
    BY <1>1, <1>2 DEF Clients
  <2>2. /\ v.queue = w.queue /\ v.next = w.next /\ v.silent = w.silent
        /\ v.subs = w.subs /\ v.pending = w.pending /\ v.connecting = TRUE
        /\ v.lost = w.lost /\ v.peer = "connecting" /\ v.asked = w.asked /\ v.wire = w.wire
        /\ v.node = w.node /\ v.issued = w.issued /\ v.known = w.known
    BY <1>1, <1>2 DEF Clients
  <2>3. Silence(w) /\ (w.lost \/ w.subs = {})
    BY DEF Good, Connected
  <2>4. Silence(v)
    BY <2>2, <2>3 DEF Silence
  <2>5. Connected(v)
    BY <2>2, <2>3, <2>4 DEF Connected
  <2>6. Heard(v)
    BY <2>2, <2>3 DEF Heard
  <2>7. Good(v, 0)
    BY <2>1, <2>2, <2>4, <2>5, <2>6, SilenceKeeps DEF Good
  <2> QED
    BY <2>2, <2>7 DEF Kept
<1>3. CASE v \in Finalize([w EXCEPT !.refused = TRUE], 0, "error")
  <2> DEFINE u == [w EXCEPT !.refused = TRUE]
  <2>1. u \in Clients
    BY <1>1 DEF Clients
  <2>2. /\ u.queue = w.queue /\ u.next = w.next /\ u.silent = w.silent
        /\ u.subs = w.subs /\ u.pending = w.pending /\ u.connecting = w.connecting
        /\ u.lost = w.lost /\ u.peer = w.peer /\ u.asked = w.asked /\ u.wire = w.wire
        /\ u.node = w.node /\ u.issued = w.issued /\ u.known = w.known
    BY <1>1 DEF Clients
  <2> HIDE DEF u
  <2>3. Good(u, 0)
    BY <2>1, <2>2, SameGood
  <2>4. Removable(u, 0)
    <3>1. \A r \in u.queue : r.id # 0
      BY <1>1, <2>2, Fields DEF Ids
    <3>2. 0 < u.next
      BY <2>1 DEF Clients
    <3> QED
      BY <2>2, <3>1, <3>2 DEF Removable
  <2>5. v \in Finalize(u, 0, "error")
    BY <1>3 DEF u
  <2>6. Kept(v, u)
    BY <2>3, <2>4, <2>5, FinalizeKeeps
  <2> QED
    BY <2>2, <2>6 DEF Kept
<1> QED
  BY <1>2, <1>3 DEF ConnectWs

\* The front is sent when no other request is waited for.
LEMMA SendFrontKeeps ==
  ASSUME NEW w, Good(w, 0), w.peer = "open", w.queue # {}, ~w.pending
  PROVE  Kept(SendFront(w), w)
<1> DEFINE v == SendFront(w)
           f == Front(w.queue)
           n == Len(w.asked)
<1>1. w \in Clients /\ w.queue \in SUBSET Pending /\ w.asked \in Seq(Texts)
  BY DEF Good, Clients
<1>2. f \in w.queue /\ \A q \in w.queue : f.id <= q.id
  BY <1>1, FrontOf
<1> HIDE DEF f
<1>3. f \in Pending
  BY <1>1, <1>2
<1>4. /\ Text(f) \in Texts /\ Text(f).id = f.id /\ Text(f).cb = f.cb /\ Text(f).target = f.target
  BY <1>3 DEF Text, Texts, Pending
<1>5. v = [w EXCEPT !.pending = TRUE, !.connecting = FALSE, !.asked = Append(w.asked, Text(f))]
  BY DEF SendFront, f
<1>6. /\ Append(w.asked, Text(f)) \in Seq(Texts)
      /\ n \in Nat /\ DOMAIN w.asked = 1 .. n /\ DOMAIN Append(w.asked, Text(f)) = 1 .. n + 1
      /\ Append(w.asked, Text(f))[n + 1] = Text(f)
      /\ \A i \in 1 .. n : Append(w.asked, Text(f))[i] = w.asked[i]
  <2> HIDE DEF v
  <2> QED
    BY <1>1, <1>4
<1> HIDE DEF v
<1>7. v \in Clients
  BY <1>1, <1>5, <1>6 DEF Clients
<1>8. /\ v.queue = w.queue /\ v.next = w.next /\ v.silent = w.silent
      /\ v.subs = w.subs /\ v.pending = TRUE /\ v.connecting = FALSE
      /\ v.lost = w.lost /\ v.peer = w.peer /\ v.asked = Append(w.asked, Text(f)) /\ v.wire = w.wire
      /\ v.node = w.node /\ v.issued = w.issued /\ v.known = w.known
  BY <1>1, <1>5 DEF Clients
\* What is asked is what was, and the front.
<1>9. \A i \in DOMAIN v.asked : (i \in DOMAIN w.asked /\ v.asked[i] = w.asked[i]) \/ v.asked[i] = Text(f)
  BY <1>6, <1>8
<1>10. /\ \A i \in DOMAIN w.asked : i \in DOMAIN v.asked /\ v.asked[i] = w.asked[i]
       /\ n + 1 \in DOMAIN v.asked /\ v.asked[n + 1] = Text(f)
  BY <1>6, <1>8
<1> HIDE DEF n
<1>11. Queued(v, 0) /\ Answered(v)
  BY <1>8 DEF Good, Queued, Answered
<1>12. Sent(v)
  <2> SUFFICES ASSUME NEW i \in DOMAIN v.asked
               PROVE  /\ v.asked[i].target = 0 => v.asked[i].cb \in Callbacks
                      /\ v.asked[i].id < w.next
                      /\ \A r \in w.queue : v.asked[i].id <= r.id
                      /\ \A r \in w.queue : v.asked[i].id = r.id =>
                           r.cb = v.asked[i].cb /\ r.target = v.asked[i].target
    BY <1>8 DEF Sent
  <2>1. CASE v.asked[i] = Text(f)
    BY <1>2, <1>4, <2>1 DEF Good, Queued
  <2>2. CASE i \in DOMAIN w.asked /\ v.asked[i] = w.asked[i]
    BY <2>2 DEF Good, Sent
  <2> QED
    BY <1>9, <2>1, <2>2
<1>13. Subscribed(v, 0) /\ Numbered(v) /\ Confirmed(v) /\ Noted(v) /\ Listening(v) /\ Heard(v)
  BY <1>8 DEF Good, Subscribed, Numbered, Confirmed, Noted, Listening, Heard
<1>14. Ending(v)
  BY <1>2, <1>4, <1>8, <1>9 DEF Good, Ending
<1>15. Forgotten(v)
  BY <1>8, <1>10 DEF Good, Forgotten, AskedToEnd
<1>16. FrontIsSent(v)
  <2> SUFFICES ASSUME NEW r \in w.queue, IsFront(v, r), NEW m \in w.node, m.sid = r.target
               PROVE  AskedToEnd(v, m)
    BY <1>8 DEF FrontIsSent
  <2>1. r.id = f.id
    <3>1. r.id <= f.id /\ f.id <= r.id
      BY <1>2, <1>8 DEF IsFront
    <3>2. r.id \in Nat /\ f.id \in Nat
      BY <1>1, <1>2, Fields DEF Ids
    <3> QED
      BY <3>1, <3>2
  <2>2. r = f
    BY <1>2, <2>1 DEF Good, Queued
  <2> QED
    BY <1>4, <1>10, <2>2 DEF AskedToEnd
<1>17. Connected(v)
  BY <1>8 DEF Good, Connected
<1> QED
  BY <1>7, <1>8, <1>11, <1>12, <1>13, <1>14, <1>15, <1>16, <1>17 DEF Good, Kept, v

\* One frame, after the poll.
LEMMA SwitchKeeps ==
  ASSUME NEW w, Good(w, 0), NEW v \in Switch(w)
  PROVE  Kept(v, w)
<1>1. w \in Clients
  BY DEF Good
<1>2. w.peer \in {"closed", "connecting", "open", "closing"}
  BY <1>1 DEF Clients
<1>3. CASE w.peer = "open"
  <2>1. CASE w.queue # {} /\ ~w.pending
    BY <1>3, <2>1, SendFrontKeeps DEF Switch
  <2>2. CASE ~(w.queue # {} /\ ~w.pending)
    <3>1. v \in ProcessTimeouts(w)
      BY <1>3, <2>2 DEF Switch
    <3>2. CASE w.pending
      BY <3>1, <3>2, ProcessTimeoutsKeeps
    <3>3. CASE w.queue = {}
      <4>1. v = w
        <5>1. {r \in w.queue : r.left = 0} = {}
          BY <3>3
        <5>2. {IF r.id <= MaxId + 1 THEN [r EXCEPT !.left = @ - 1] ELSE r : r \in w.queue} = w.queue
          BY <3>3
        <5>3. v = [w EXCEPT !.queue = w.queue]
          BY <3>1, <5>1, <5>2 DEF ProcessTimeouts
        <5> QED
          BY <1>1, <5>3 DEF Clients
      <4> QED
        BY <4>1 DEF Kept
    <3> QED
      BY <2>2, <3>2, <3>3
  <2> QED
    BY <2>1, <2>2
<1>4. CASE w.peer # "open"
  <2>1. w.node = {}
    BY <1>4 DEF Good, Connected, Silence
  <2>2. CASE v \in ProcessTimeouts(w)
    BY <2>1, <2>2, ProcessTimeoutsKeeps
  <2>3. CASE w.peer = "closed" /\ w.queue # {} /\ ~w.connecting
    <3>1. v \in ConnectWs(w)
      BY <2>3 DEF Switch
    <3> QED
      BY <2>3, <3>1, ConnectWsKeeps
  <2>4. CASE v = w
    BY <2>4 DEF Kept
  <2> QED
    BY <1>2, <1>4, <2>2, <2>3, <2>4 DEF Switch
<1> QED
  BY <1>3, <1>4

\* The poll: a connection that is not open holds nothing.
LEMMA PollKeeps ==
  ASSUME NEW w, Good(w, 0), NEW p \in Poll(w.peer)
  PROVE  Good([(IF p = "open" THEN w ELSE Lost(w)) EXCEPT
                 !.peer = p, !.lost = @ \/ (w.peer = "open" /\ p # "open")], 0)
<1> DEFINE v == [(IF p = "open" THEN w ELSE Lost(w)) EXCEPT
                 !.peer = p, !.lost = @ \/ (w.peer = "open" /\ p # "open")]
           broke == w.lost \/ (w.peer = "open" /\ p # "open")
<1>1. w \in Clients /\ w.lost \in BOOLEAN /\ w.peer \in {"closed", "connecting", "open", "closing"}
  BY DEF Good, Clients
<1>2. /\ p \in {"closed", "connecting", "open", "closing"}
      /\ p = "open" => w.peer \in {"connecting", "open"}
      /\ p \in {"connecting", "open"} => w.peer \in {"connecting", "open"}
  BY <1>1 DEF Poll
<1>3. CASE p = "open"
  <2>1. v = [w EXCEPT !.peer = "open", !.lost = w.lost]
    <3>1. broke = w.lost
      BY <1>1, <1>3
    <3> QED
      BY <1>3, <3>1
  <2> HIDE DEF v
  <2>2. v \in Clients
    BY <1>1, <2>1 DEF Clients
  <2>3. /\ v.queue = w.queue /\ v.next = w.next /\ v.silent = w.silent
        /\ v.subs = w.subs /\ v.pending = w.pending /\ v.connecting = w.connecting
        /\ v.lost = w.lost /\ v.peer = "open" /\ v.asked = w.asked /\ v.wire = w.wire
        /\ v.node = w.node /\ v.issued = w.issued /\ v.known = w.known
    BY <1>1, <2>1 DEF Clients
  <2>4. CASE w.peer = "open"
    BY <2>2, <2>3, <2>4, SameGood DEF v
  <2>5. CASE w.peer = "connecting"
    <3>1. Silence(w) /\ (w.lost \/ w.subs = {})
      BY <2>5 DEF Good, Connected
    <3>2. Silence(v)
      BY <2>3, <3>1 DEF Silence
    <3>3. Connected(v)
      <4>1. /\ w.pending \/ w.connecting => w.queue # {}
            /\ w.queue # {} \/ w.subs # {}
        BY <2>5 DEF Good, Connected
      <4> QED
        BY <2>3, <3>2, <4>1 DEF Connected
    <3>4. Heard(v)
      BY <2>3, <3>1 DEF Heard
    <3>5. Good(v, 0)
      BY <2>2, <2>3, <3>2, <3>3, <3>4, SilenceKeeps DEF Good
    <3> QED
      BY <3>5 DEF v
  <2> QED
    BY <1>2, <1>3, <2>4, <2>5
<1>4. CASE p # "open"
  <2>1. Lost(w) = [w EXCEPT !.asked = <<>>, !.wire = <<>>, !.node = {}]
    BY DEF Lost
  <2>2. Lost(w).lost = w.lost
    BY <1>1, <2>1 DEF Clients
  <2>3. v = [Lost(w) EXCEPT !.peer = p, !.lost = broke]
    BY <1>4, <2>2
  <2>4. broke \in BOOLEAN
    BY <1>1
  <2>5. w.peer = "open" \/ w.lost => broke
    BY <1>4
  <2> HIDE DEF v, broke
  <2>6. v = [w EXCEPT !.asked = <<>>, !.wire = <<>>, !.node = {}, !.peer = p, !.lost = broke]
    BY <1>1, <2>1, <2>3 DEF Clients
  <2>7. v \in Clients
    <3>1. <<>> \in Seq(Texts) /\ <<>> \in Seq(Messages)
      OBVIOUS
    <3> QED
      BY <1>1, <1>2, <2>4, <2>6, <3>1 DEF Clients
  <2>8. /\ v.queue = w.queue /\ v.next = w.next /\ v.silent = w.silent
        /\ v.subs = w.subs /\ v.pending = w.pending /\ v.connecting = w.connecting
        /\ v.lost = broke /\ v.peer = p /\ v.asked = <<>> /\ v.wire = <<>>
        /\ v.node = {} /\ v.issued = w.issued /\ v.known = w.known
    BY <1>1, <2>6 DEF Clients
  <2>9. Silence(v)
    BY <2>8 DEF Silence
  <2>10. broke \/ w.subs = {}
    BY <2>5 DEF Good, Connected
  <2>11. Connected(v)
    <3>1. w.pending \/ w.connecting => w.queue # {}
      BY DEF Good, Connected
    <3>2. w.peer \in {"connecting", "open"} => w.queue # {} \/ w.subs # {}
      BY DEF Good, Connected
    <3> QED
      BY <1>2, <2>8, <2>9, <2>10, <3>1, <3>2 DEF Connected
  <2>12. Heard(v)
    BY <2>8, <2>10 DEF Heard
  <2>13. Good(v, 0)
    BY <2>7, <2>8, <2>9, <2>11, <2>12, SilenceKeeps DEF Good
  <2> QED
    BY <2>13 DEF v
<1> QED
  BY <1>3, <1>4

-----------------------------------------------------------------------------
(* process_package(packet_data).                                           *)

\* What was said of the packet m while it was on the wire.
Read(w, m) ==
  /\ m.type \in {"ok", "error"} =>
       /\ m.id \in Ids /\ m.id < w.next
       /\ \A r \in w.queue : m.id <= r.id
       /\ \A r \in w.queue : m.id = r.id =>
            IF m.type = "ok" THEN r.cb = m.cb /\ r.target = 0
                             ELSE \A n \in w.node : n.sid # r.target
  /\ m.type = "ok" =>
       /\ m.sid \in 1 .. w.issued /\ m.sid \notin w.known /\ m.cb \in Callbacks
       /\ \A i \in DOMAIN w.wire : w.wire[i].type \in {"ok", "note"} /\ w.wire[i].sid = m.sid =>
            w.wire[i].cb = m.cb /\ w.wire[i].type = "note"
       /\ m.cb \in Once \/ \E n \in w.node : n.sid = m.sid
       /\ \A n \in w.node : n.sid = m.sid => n.cb = m.cb

\* A packet is taken off the wire.
LEMMA ReadKeeps ==
  ASSUME NEW w, Good(w, 0), w.wire # <<>>
  PROVE  LET v == [w EXCEPT !.wire = Tail(@)]
         IN /\ Good(v, 0) /\ Read(v, Head(w.wire)) /\ Head(w.wire) \in Messages
            /\ v.peer = "open" /\ ~v.connecting /\ v.wire = Tail(w.wire)
<1> DEFINE v == [w EXCEPT !.wire = Tail(@)]
           m == Head(w.wire)
           n == Len(w.wire)
<1>1. w \in Clients /\ w.wire \in Seq(Messages)
  BY DEF Good, Clients
<1>2. /\ n \in Nat \ {0} /\ DOMAIN w.wire = 1 .. n /\ m = w.wire[1] /\ m \in Messages
      /\ Tail(w.wire) \in Seq(Messages) /\ DOMAIN Tail(w.wire) = 1 .. n - 1
      /\ \A i \in 1 .. n - 1 : Tail(w.wire)[i] = w.wire[i + 1]
  BY <1>1
<1>3. v = [w EXCEPT !.wire = Tail(w.wire)]
  OBVIOUS
<1> HIDE DEF v, m, n
<1>4. v \in Clients
  BY <1>1, <1>2, <1>3 DEF Clients
<1>5. /\ v.queue = w.queue /\ v.next = w.next /\ v.silent = w.silent
      /\ v.subs = w.subs /\ v.pending = w.pending /\ v.connecting = w.connecting
      /\ v.lost = w.lost /\ v.peer = w.peer /\ v.asked = w.asked /\ v.wire = Tail(w.wire)
      /\ v.node = w.node /\ v.issued = w.issued /\ v.known = w.known
  BY <1>1, <1>3 DEF Clients
\* A packet that is left was one place further.
<1>6. /\ \A i \in DOMAIN v.wire : i + 1 \in DOMAIN w.wire /\ v.wire[i] = w.wire[i + 1] /\ i + 1 # 1
      /\ \A i, j \in DOMAIN v.wire : i + 1 = j + 1 => i = j
      /\ 1 \in DOMAIN w.wire
  BY <1>2, <1>5
<1>7. w.peer = "open" /\ ~w.connecting
  BY DEF Good, Connected, Silence
<1>8. Queued(v, 0) /\ Sent(v)
  BY <1>5 DEF Good, Queued, Sent
<1>9. Answered(v)
  BY <1>5, <1>6 DEF Good, Answered
<1>10. Subscribed(v, 0) /\ Numbered(v)
  BY <1>5, <1>6 DEF Good, Subscribed, Numbered
<1>11. Confirmed(v)
  <2> SUFFICES ASSUME NEW i \in DOMAIN v.wire, v.wire[i].type = "ok"
      PROVE  /\ v.wire[i].cb \in Callbacks
             /\ v.wire[i].sid \notin v.known
             /\ \A j \in DOMAIN v.wire : v.wire[j].type \in {"ok", "note"} /\ v.wire[j].sid = v.wire[i].sid =>
                  v.wire[j].cb = v.wire[i].cb /\ (v.wire[j].type = "ok" => j = i)
             /\ v.wire[i].cb \in Once \/ \E k \in v.node : k.sid = v.wire[i].sid
             /\ \A k \in v.node : k.sid = v.wire[i].sid => k.cb = v.wire[i].cb
    BY DEF Confirmed
  <2> DEFINE h == i + 1
  <2>1. h \in DOMAIN w.wire /\ v.wire[i] = w.wire[h]
    BY <1>6
  <2>2. \A j \in DOMAIN v.wire : j + 1 = h => j = i
    BY <1>6
  <2> HIDE DEF h
  <2> QED
    BY <1>5, <1>6, <2>1, <2>2 DEF Good, Confirmed
<1>12. Noted(v)
  BY <1>5, <1>6 DEF Good, Noted
<1>13. Listening(v) /\ Ending(v) /\ Forgotten(v) /\ FrontIsSent(v)
  BY <1>5 DEF Good, Listening, Ending, Forgotten, FrontIsSent, AskedToEnd, IsFront
<1>14. Connected(v) /\ Heard(v)
  BY <1>5, <1>7 DEF Good, Connected, Heard
<1>15. Read(v, m)
  <2>1. ASSUME m.type \in {"ok", "error"}
        PROVE  /\ m.id \in Ids /\ m.id < v.next
               /\ \A r \in v.queue : m.id <= r.id
               /\ \A r \in v.queue : m.id = r.id =>
                    IF m.type = "ok" THEN r.cb = m.cb /\ r.target = 0
                                     ELSE \A k \in v.node : k.sid # r.target
    BY <1>2, <1>5, <1>6, <2>1 DEF Good, Answered
  <2>2. ASSUME m.type = "ok"
        PROVE  /\ m.sid \in 1 .. v.issued /\ m.sid \notin v.known /\ m.cb \in Callbacks
               /\ m.cb \in Once \/ \E k \in v.node : k.sid = m.sid
               /\ \A k \in v.node : k.sid = m.sid => k.cb = m.cb
    BY <1>2, <1>5, <1>6, <2>2 DEF Good, Numbered, Confirmed
  <2>3. ASSUME m.type = "ok", NEW i \in DOMAIN v.wire,
               v.wire[i].type \in {"ok", "note"}, v.wire[i].sid = m.sid
        PROVE  v.wire[i].cb = m.cb /\ v.wire[i].type = "note"
    <3> DEFINE h == i + 1
    <3>1. h \in DOMAIN w.wire /\ v.wire[i] = w.wire[h] /\ h # 1
      BY <1>6
    <3> HIDE DEF h
    <3>2. w.wire[h].cb = w.wire[1].cb /\ (w.wire[h].type = "ok" => h = 1)
      BY <1>2, <1>6, <2>3, <3>1 DEF Good, Confirmed
    <3> QED
      BY <1>2, <2>3, <3>1, <3>2
  <2> QED
    BY <2>1, <2>2, <2>3 DEF Read
<1> QED
  BY <1>2, <1>4, <1>5, <1>7, <1>8, <1>9, <1>10, <1>11, <1>12, <1>13, <1>14, <1>15 DEF Good, v, m

\* Less is said of a request about to be removed.
LEMMA Weaker ==
  ASSUME NEW w, NEW id, Good(w, 0)
  PROVE  Good(w, id)
<1>1. \A r \in w.queue : r.id # 0
  <2>1. w \in Clients
    BY DEF Good
  <2> QED
    BY <2>1, Fields DEF Ids
<1>2. Queued(w, id)
  BY <1>1 DEF Good, Queued
<1>3. Subscribed(w, id)
  BY <1>1 DEF Good, Subscribed
<1> QED
  BY <1>2, <1>3 DEF Good

\* add_subscription: the front of the queue is the request that is confirmed.
LEMMA AddSubscriptionKeeps ==
  ASSUME NEW w, Good(w, 0), w.peer = "open", ~w.connecting,
         NEW m \in Messages, m.type = "ok", Read(w, m)
  PROVE  /\ Good(AddSubscription(w, m), m.id) /\ Removable(AddSubscription(w, m), m.id)
         /\ AddSubscription(w, m).peer = w.peer /\ AddSubscription(w, m).wire = w.wire
<1>1. w \in Clients /\ w.queue \in SUBSET Pending /\ w.issued \in Nat /\ m.id \in Nat /\ m.id # 0
  BY DEF Good, Clients, Read, Ids
<1>2. CASE \A r \in w.queue : r.id # m.id
  <2>1. AddSubscription(w, m) = w
    BY <1>2 DEF AddSubscription
  <2> QED
    BY <1>2, <2>1, Weaker DEF Removable, Read
<1>3. CASE \E r \in w.queue : r.id = m.id
  <2> DEFINE v == AddSubscription(w, m)
             new == [req |-> m.id, sid |-> m.sid, cb |-> m.cb]
             subs == w.subs \cup {new}
             known == w.known \cup {m.sid}
  <2>1. PICK f \in w.queue : f.id = m.id
    BY <1>3
  <2>2. Front(w.queue) = f
    <3>1. Front(w.queue) \in w.queue /\ Front(w.queue).id <= f.id
      BY <1>1, <2>1, FrontOf
    <3>2. f.id <= Front(w.queue).id
      BY <2>1, <3>1 DEF Read
    <3>3. Front(w.queue).id = f.id
      <4>1. Front(w.queue).id \in Nat /\ f.id \in Nat
        BY <1>1, <3>1, Fields DEF Ids
      <4> QED
        BY <3>1, <3>2, <4>1
    <3> QED
      BY <3>1, <3>3 DEF Good, Queued
  <2>3. f.cb = m.cb /\ f.target = 0
    BY <2>1 DEF Read
  <2>4. v = [w EXCEPT !.subs = subs, !.known = known]
    BY <2>1, <2>2, <2>3 DEF AddSubscription
  <2>5. new.req = m.id /\ new.sid = m.sid /\ new.cb = m.cb /\ new \in subs
    OBVIOUS
  <2>6. subs = w.subs \cup {new} /\ known = w.known \cup {m.sid}
    OBVIOUS
  <2>7. new \in [req : Ids, sid : Nat, cb : Callbacks] /\ m.sid \in Nat
    BY DEF Read
  <2> HIDE DEF v, new, subs, known
  <2>8. v \in Clients
    <3>1. subs \in SUBSET [req : Ids, sid : Nat, cb : Callbacks] /\ known \in SUBSET Nat
      BY <1>1, <2>6, <2>7 DEF Clients
    <3> QED
      BY <1>1, <2>4, <3>1 DEF Clients
  <2>9. /\ v.queue = w.queue /\ v.next = w.next /\ v.silent = w.silent
        /\ v.subs = subs /\ v.pending = w.pending /\ v.connecting = w.connecting
        /\ v.lost = w.lost /\ v.peer = w.peer /\ v.asked = w.asked /\ v.wire = w.wire
        /\ v.node = w.node /\ v.issued = w.issued /\ v.known = known
    BY <1>1, <2>4 DEF Clients
  <2>10. Queued(v, 0) /\ Sent(v) /\ Answered(v)
    BY <2>9 DEF Good, Queued, Sent, Answered
  <2>11. Queued(v, m.id)
    <3>1. \A r \in v.queue : r.id # 0
      BY <1>1, <2>9, Fields DEF Ids
    <3> QED
      BY <2>10, <3>1 DEF Queued
  <2>12. Subscribed(v, m.id)
    <3>1. IsFiniteSet(subs)
      BY <2>6, FS_AddElement DEF Good, Subscribed
    <3>2. \A s \in subs : s.req < w.next /\ s.sid \in known
      BY <2>5, <2>6 DEF Good, Subscribed, Read
    <3>3. /\ \A r \in w.queue : r.id \in Nat /\ r.id # 0
          /\ \A s \in w.subs : s.req \in Nat
      BY <1>1, Fields DEF Ids
    <3>4. \A s \in subs, r \in w.queue : r.id # m.id => s.req < r.id
      <4> SUFFICES ASSUME NEW s \in subs, NEW r \in w.queue, r.id # m.id PROVE s.req < r.id
        OBVIOUS
      <4>1. CASE s \in w.subs
        BY <3>3, <4>1 DEF Good, Subscribed
      <4>2. CASE s = new
        <5>1. m.id <= r.id
          BY DEF Read
        <5> QED
          BY <1>1, <2>5, <3>3, <4>2, <5>1
      <4> QED
        BY <2>6, <4>1, <4>2
    <3>5. \A s \in w.subs : s.req # m.id /\ s.sid # m.sid
      <4>1. \A s \in w.subs : s.req < f.id
        BY <1>1, <2>1 DEF Good, Subscribed
      <4>2. \A s \in w.subs : s.sid # m.sid
        BY DEF Good, Subscribed, Read
      <4> QED
        BY <1>1, <2>1, <3>3, <4>1, <4>2
    <3>6. \A s, t \in subs : s.req = t.req \/ s.sid = t.sid => s = t
      BY <2>5, <2>6, <3>5 DEF Good, Subscribed
    <3> QED
      BY <2>9, <3>1, <3>2, <3>4, <3>6 DEF Subscribed
  <2>13. Numbered(v)
    BY <2>6, <2>9 DEF Good, Numbered, Read
  <2>14. Confirmed(v)
    <3>1. \A i \in DOMAIN w.wire : w.wire[i].type = "ok" => w.wire[i].sid \notin known
      BY <2>6 DEF Good, Confirmed, Read
    <3> QED
      BY <2>9, <3>1 DEF Good, Confirmed
  <2>15. Noted(v)
    BY <2>5, <2>6, <2>9 DEF Good, Noted, Read
  <2>16. Listening(v)
    BY <2>1, <2>3, <2>5, <2>6, <2>9 DEF Good, Listening, Read
  <2>17. Ending(v)
    BY <2>5, <2>6, <2>9 DEF Good, Ending, Read
  <2>18. Forgotten(v)
    BY <2>5, <2>6, <2>9 DEF Good, Forgotten, AskedToEnd
  <2>19. FrontIsSent(v)
    BY <2>9 DEF Good, FrontIsSent, IsFront, AskedToEnd
  <2>20. Connected(v)
    BY <2>9 DEF Good, Connected
  <2>21. Heard(v)
    BY <2>5, <2>6, <2>9 DEF Good, Heard, Read
  <2>22. Good(v, m.id)
    BY <2>8, <2>10, <2>11, <2>12, <2>13, <2>14, <2>15, <2>16, <2>17, <2>18, <2>19, <2>20, <2>21 DEF Good
  <2>23. Removable(v, m.id)
    <3>1. m.id < w.next
      BY DEF Read
    <3>2. \A r \in w.queue : r.id = m.id => r.target = 0
      BY DEF Read
    <3>3. \A n \in w.node : n.sid # 0
      BY <1>1 DEF Good, Numbered
    <3> QED
      BY <2>9, <3>1, <3>2, <3>3 DEF Removable
  <2> QED
    BY <2>9, <2>22, <2>23 DEF v
<1> QED
  BY <1>2, <1>3

\* process_package, of what was taken
LEMMA ProcessPackageKeeps ==
  ASSUME NEW w, Good(w, 0), w.peer = "open", ~w.connecting,
         NEW m \in Messages, Read(w, m), NEW v \in ProcessPackage(w, m)
  PROVE  Kept(v, w)
<1>1. m.type \in {"note", "bool", "ok", "error"} /\ m.id \in Nat
  BY DEF Messages
<1>2. CASE m.type \in {"note", "bool"}
  <2>1. v = w
    BY <1>2 DEF ProcessPackage
  <2> QED
    BY <2>1 DEF Kept
<1>3. CASE m.type = "ok"
  <2>1. v \in Finalize(AddSubscription(w, m), m.id, "ok")
    BY <1>3 DEF ProcessPackage
  <2>2. /\ Good(AddSubscription(w, m), m.id) /\ Removable(AddSubscription(w, m), m.id)
        /\ AddSubscription(w, m).peer = w.peer /\ AddSubscription(w, m).wire = w.wire
    BY <1>3, AddSubscriptionKeeps
  <2>3. Kept(v, AddSubscription(w, m))
    BY <1>1, <2>1, <2>2, FinalizeKeeps
  <2> QED
    BY <2>2, <2>3 DEF Kept
<1>4. CASE m.type = "error"
  <2>1. v \in Finalize(w, m.id, "error")
    BY <1>4 DEF ProcessPackage
  <2>2. Good(w, m.id)
    BY Weaker
  <2>3. Removable(w, m.id)
    BY <1>4 DEF Removable, Read
  <2> QED
    BY <1>1, <2>1, <2>2, <2>3, FinalizeKeeps
<1> QED
  BY <1>1, <1>2, <1>3, <1>4

-----------------------------------------------------------------------------
(* The node.                                                               *)

\* What is asked is r and what v has left of it.
Taken(w, r, v) ==
  /\ 1 \in DOMAIN w.asked /\ r = w.asked[1] /\ r \in Texts
  /\ \A i \in DOMAIN v.asked : \E j \in DOMAIN w.asked : v.asked[i] = w.asked[j]
  /\ \A j \in DOMAIN w.asked : w.asked[j] = r \/ \E i \in DOMAIN v.asked : v.asked[i] = w.asked[j]

\* The node takes the first request.
LEMMA AnswerFields ==
  ASSUME NEW w \in Clients, w.asked # <<>>, NEW v, v.asked = Tail(w.asked)
  PROVE  v.asked \in Seq(Texts) /\ Taken(w, Head(w.asked), v)
<1>1. w.asked \in Seq(Texts)
  BY DEF Clients
<1> DEFINE n == Len(w.asked)
<1>2. /\ n \in Nat \ {0} /\ DOMAIN w.asked = 1 .. n /\ Head(w.asked) = w.asked[1]
      /\ v.asked \in Seq(Texts) /\ DOMAIN v.asked = 1 .. n - 1
      /\ \A i \in 1 .. n - 1 : v.asked[i] = w.asked[i + 1]
  BY <1>1
<1> HIDE DEF n
<1>4. 1 \in DOMAIN w.asked /\ Head(w.asked) \in Texts
  BY <1>1, <1>2
<1>5. \A i \in DOMAIN v.asked : i + 1 \in DOMAIN w.asked /\ v.asked[i] = w.asked[i + 1]
  BY <1>2
<1>6. ASSUME NEW j \in DOMAIN w.asked, j # 1
      PROVE  \E i \in DOMAIN v.asked : v.asked[i] = w.asked[j]
  <2>1. j - 1 \in DOMAIN v.asked /\ v.asked[j - 1] = w.asked[j]
    BY <1>2, <1>6
  <2> QED
    BY <2>1
<1> QED
  BY <1>2, <1>4, <1>5, <1>6 DEF Taken

\* One packet more on the wire.
LEMMA WireFields ==
  ASSUME NEW w \in Clients, NEW m \in Messages, NEW v, v.wire = Append(w.wire, m)
  PROVE  LET last == Len(w.wire) + 1
         IN /\ v.wire \in Seq(Messages) /\ Len(v.wire) = Len(w.wire) + 1
            /\ last \in DOMAIN v.wire /\ v.wire[last] = m
            /\ \A i \in DOMAIN w.wire : i \in DOMAIN v.wire /\ v.wire[i] = w.wire[i]
            /\ \A i \in DOMAIN v.wire : i = last \/ (i \in DOMAIN w.wire /\ v.wire[i] = w.wire[i])
<1>1. w.wire \in Seq(Messages)
  BY DEF Clients
<1> QED
  BY <1>1

\* The node makes a subscription and confirms it.
LEMMA ConfirmKeeps ==
  ASSUME NEW w, Good(w, 0), w.asked # <<>>, Head(w.asked).target = 0,
         NEW v \in Clients, NEW m \in Messages,
         m.type = "ok", m.id = Head(w.asked).id, m.sid = w.issued + 1, m.cb = Head(w.asked).cb,
         v.queue = w.queue, v.next = w.next, v.silent = w.silent, v.subs = w.subs,
         v.pending = w.pending, v.connecting = w.connecting, v.lost = w.lost, v.peer = w.peer,
         v.asked = Tail(w.asked), v.wire = Append(w.wire, m), v.known = w.known,
         v.issued = w.issued + 1, v.node = w.node \cup {[sid |-> m.sid, cb |-> m.cb]}
  PROVE  Good(v, 0)
<1> DEFINE r == Head(w.asked)
           new == [sid |-> m.sid, cb |-> m.cb]
           last == Len(w.wire) + 1
<1>1. w \in Clients /\ w.issued \in Nat /\ w.next \in Nat
  BY DEF Good, Clients
<1>2. /\ 1 \in DOMAIN w.asked /\ r = w.asked[1] /\ r \in Texts
      /\ \A i \in DOMAIN v.asked : \E j \in DOMAIN w.asked : v.asked[i] = w.asked[j]
      /\ \A j \in DOMAIN w.asked : w.asked[j] = r \/ \E i \in DOMAIN v.asked : v.asked[i] = w.asked[j]
  <2>1. Taken(w, Head(w.asked), v)
    BY <1>1, AnswerFields
  <2> QED
    BY <2>1 DEF Taken
<1>3. /\ v.wire[last] = m
      /\ \A i \in DOMAIN w.wire : i \in DOMAIN v.wire /\ v.wire[i] = w.wire[i]
      /\ \A i \in DOMAIN v.wire : i = last \/ (i \in DOMAIN w.wire /\ v.wire[i] = w.wire[i])
  BY <1>1, WireFields
<1>4. new.sid = m.sid /\ new.cb = m.cb /\ v.node = w.node \cup {new}
  OBVIOUS
<1>5. w.peer = "open" /\ ~w.connecting
  BY DEF Good, Connected, Silence
<1> HIDE DEF r, new, last
\* The number is new.
<1>6. /\ m.sid \in 1 .. v.issued /\ m.sid # 0 /\ m.sid \notin w.known
      /\ \A k \in w.node : k.sid # m.sid /\ k.sid # 0
      /\ \A i \in DOMAIN w.wire : w.wire[i].type \in {"ok", "note"} => w.wire[i].sid # m.sid
      /\ \A s \in w.subs : s.sid # m.sid
      /\ \A q \in w.queue : q.target # m.sid
  <2>1. m.sid \notin w.known /\ m.sid \in 1 .. v.issued /\ m.sid # 0
    BY <1>1 DEF Good, Numbered
  <2>2. \A k \in w.node : k.sid # m.sid /\ k.sid # 0
    BY <1>1 DEF Good, Numbered
  <2>3. \A i \in DOMAIN w.wire : w.wire[i].type \in {"ok", "note"} => w.wire[i].sid # m.sid
    BY <1>1 DEF Good, Numbered
  <2>4. \A s \in w.subs : s.sid # m.sid
    BY <2>1 DEF Good, Subscribed
  <2>5. \A q \in w.queue : q.target # m.sid
    BY <2>1 DEF Good, Ending
  <2> QED
    BY <2>1, <2>2, <2>3, <2>4, <2>5
\* What is confirmed is the front or nothing that is queued.
<1>7. /\ m.id \in Ids /\ m.id < w.next /\ m.cb \in Callbacks
      /\ \A q \in w.queue : m.id <= q.id
      /\ \A q \in w.queue : m.id = q.id => q.cb = m.cb /\ q.target = 0
  <2>1. m.id \in Ids
    BY <1>2 DEF r, Texts
  <2> QED
    BY <1>2, <2>1 DEF Good, Sent, r
<1>8. Queued(v, 0) /\ Subscribed(v, 0)
  BY DEF Good, Queued, Subscribed
<1>9. Sent(v)
  BY <1>2 DEF Good, Sent
<1>10. Answered(v)
  <2> SUFFICES ASSUME NEW i \in DOMAIN v.wire, v.wire[i].type \in {"ok", "error"}
      PROVE  /\ v.wire[i].id \in Ids /\ v.wire[i].id < w.next
             /\ \A q \in w.queue : v.wire[i].id <= q.id
             /\ \A q \in w.queue : v.wire[i].id = q.id =>
                  IF v.wire[i].type = "ok" THEN q.cb = v.wire[i].cb /\ q.target = 0
                                           ELSE \A k \in v.node : k.sid # q.target
    BY DEF Answered
  <2>1. CASE i = last
    BY <1>3, <1>7, <2>1
  <2>2. CASE i \in DOMAIN w.wire /\ v.wire[i] = w.wire[i]
    BY <1>4, <1>6, <2>2 DEF Good, Answered
  <2> QED
    BY <1>3, <2>1, <2>2
<1>11. Numbered(v)
  <2>1. /\ w.known \subseteq 1 .. v.issued
        /\ \A k \in v.node : k.sid \in 1 .. v.issued
        /\ \A k, l \in v.node : k.sid = l.sid => k = l
    BY <1>1, <1>4, <1>6 DEF Good, Numbered
  <2>2. ASSUME NEW i \in DOMAIN v.wire, v.wire[i].type \in {"ok", "note"}
        PROVE  v.wire[i].sid \in 1 .. v.issued
    <3>1. CASE i = last
      BY <1>3, <1>6, <3>1
    <3>2. CASE i \in DOMAIN w.wire /\ v.wire[i] = w.wire[i]
      BY <1>1, <2>2, <3>2 DEF Good, Numbered
    <3> QED
      BY <1>3, <3>1, <3>2
  <2> QED
    BY <2>1, <2>2 DEF Numbered
<1>12. Confirmed(v)
  <2> SUFFICES ASSUME NEW i \in DOMAIN v.wire, v.wire[i].type = "ok"
      PROVE  /\ v.wire[i].cb \in Callbacks
             /\ v.wire[i].sid \notin v.known
             /\ \A j \in DOMAIN v.wire : v.wire[j].type \in {"ok", "note"} /\ v.wire[j].sid = v.wire[i].sid =>
                  v.wire[j].cb = v.wire[i].cb /\ (v.wire[j].type = "ok" => j = i)
             /\ v.wire[i].cb \in Once \/ \E k \in v.node : k.sid = v.wire[i].sid
             /\ \A k \in v.node : k.sid = v.wire[i].sid => k.cb = v.wire[i].cb
    BY DEF Confirmed
  <2>1. CASE i = last
    <3>1. \A j \in DOMAIN v.wire : v.wire[j].type \in {"ok", "note"} /\ v.wire[j].sid = m.sid => j = last
      BY <1>3, <1>6
    <3>2. \A k \in v.node : k.sid = m.sid => k.cb = m.cb
      BY <1>4, <1>6
    <3> QED
      BY <1>3, <1>4, <1>6, <1>7, <2>1, <3>1, <3>2
  <2>2. CASE i \in DOMAIN w.wire /\ v.wire[i] = w.wire[i]
    <3>1. v.wire[i].sid # m.sid
      BY <1>6, <2>2
    <3>2. /\ w.wire[i].cb \in Callbacks /\ w.wire[i].sid \notin w.known
          /\ w.wire[i].cb \in Once \/ \E k \in w.node : k.sid = w.wire[i].sid
          /\ \A k \in w.node : k.sid = w.wire[i].sid => k.cb = w.wire[i].cb
      BY <2>2 DEF Good, Confirmed
    <3>3. ASSUME NEW j \in DOMAIN v.wire, v.wire[j].type \in {"ok", "note"}, v.wire[j].sid = v.wire[i].sid
          PROVE  v.wire[j].cb = v.wire[i].cb /\ (v.wire[j].type = "ok" => j = i)
      <4>1. j # last
        BY <1>3, <3>1, <3>3
      <4> QED
        BY <1>3, <2>2, <3>3, <4>1 DEF Good, Confirmed
    <3> QED
      BY <1>4, <2>2, <3>1, <3>2, <3>3
  <2> QED
    BY <1>3, <2>1, <2>2
<1>13. Noted(v)
  BY <1>3, <1>4, <1>6 DEF Good, Noted
<1>14. Listening(v)
  BY <1>4, <1>6 DEF Good, Listening
<1>15. Ending(v)
  BY <1>2 DEF Good, Ending
<1>16. \A k \in w.node : AskedToEnd(w, k) => AskedToEnd(v, k)
  BY <1>2, <1>6 DEF AskedToEnd, r
<1>17. Forgotten(v) /\ FrontIsSent(v)
  <2>1. Forgotten(v)
    BY <1>4, <1>6, <1>16 DEF Good, Forgotten
  <2>2. FrontIsSent(v)
    BY <1>4, <1>6, <1>16 DEF Good, FrontIsSent, IsFront
  <2> QED
    BY <2>1, <2>2
<1>18. Connected(v) /\ Heard(v)
  BY <1>4, <1>5 DEF Good, Connected, Heard
<1> QED
  BY <1>8, <1>9, <1>10, <1>11, <1>12, <1>13, <1>14, <1>15, <1>17, <1>18 DEF Good

\* The node ends a subscription, or refuses a request.
LEMMA EndKeeps ==
  ASSUME NEW w, Good(w, 0), w.asked # <<>>,
         NEW v \in Clients, NEW m \in Messages, m.id = Head(w.asked).id,
         \/ m.type = "bool" /\ \E k \in w.node : k.sid = Head(w.asked).target
         \/ m.type = "error" /\ \A k \in w.node : k.sid # Head(w.asked).target,
         v.queue = w.queue, v.next = w.next, v.silent = w.silent, v.subs = w.subs,
         v.pending = w.pending, v.connecting = w.connecting, v.lost = w.lost, v.peer = w.peer,
         v.asked = Tail(w.asked), v.wire = Append(w.wire, m), v.known = w.known,
         v.issued = w.issued, v.node = {k \in w.node : k.sid # Head(w.asked).target}
  PROVE  Good(v, 0)
<1> DEFINE r == Head(w.asked)
           last == Len(w.wire) + 1
<1>1. w \in Clients /\ w.issued \in Nat /\ w.next \in Nat
  BY DEF Good, Clients
<1>2. /\ 1 \in DOMAIN w.asked /\ r = w.asked[1] /\ r \in Texts
      /\ \A i \in DOMAIN v.asked : \E j \in DOMAIN w.asked : v.asked[i] = w.asked[j]
      /\ \A j \in DOMAIN w.asked : w.asked[j] = r \/ \E i \in DOMAIN v.asked : v.asked[i] = w.asked[j]
  <2>1. Taken(w, Head(w.asked), v)
    BY <1>1, AnswerFields
  <2> QED
    BY <2>1 DEF Taken
<1>3. /\ v.wire[last] = m
      /\ \A i \in DOMAIN w.wire : i \in DOMAIN v.wire /\ v.wire[i] = w.wire[i]
      /\ \A i \in DOMAIN v.wire : i = last \/ (i \in DOMAIN w.wire /\ v.wire[i] = w.wire[i])
  BY <1>1, WireFields
<1>4. m.type \in {"bool", "error"}
  OBVIOUS
<1>5. w.peer = "open" /\ ~w.connecting
  BY DEF Good, Connected, Silence
<1>6. m.type = "error" => \A k \in w.node : k.sid # r.target
  OBVIOUS
<1>7. \A k \in v.node : k \in w.node /\ k.sid # r.target
  OBVIOUS
<1>8. \A k \in w.node : k.sid # r.target => k \in v.node
  OBVIOUS
<1> HIDE DEF r, last
<1>9. m.id = r.id
  BY DEF r
\* Nobody listens to what is ended, and it has been read.
<1>10. /\ \A s \in w.subs : \A k \in w.node : k.sid = s.sid => k.sid # r.target
       /\ \A k \in w.node : k.sid \notin w.known => k.sid # r.target
  <2>1. \A k \in w.node : k.sid # 0
    BY <1>1 DEF Good, Numbered
  <2>2. r.target # 0 => r.target \in w.known /\ \A s \in w.subs : s.sid # r.target
    BY <1>2 DEF Good, Ending
  <2> QED
    BY <2>1, <2>2
<1>11. Queued(v, 0) /\ Subscribed(v, 0)
  BY DEF Good, Queued, Subscribed
<1>12. Sent(v)
  BY <1>2 DEF Good, Sent
<1>13. Answered(v)
  <2> SUFFICES ASSUME NEW i \in DOMAIN v.wire, v.wire[i].type \in {"ok", "error"}
      PROVE  /\ v.wire[i].id \in Ids /\ v.wire[i].id < w.next
             /\ \A q \in w.queue : v.wire[i].id <= q.id
             /\ \A q \in w.queue : v.wire[i].id = q.id =>
                  IF v.wire[i].type = "ok" THEN q.cb = v.wire[i].cb /\ q.target = 0
                                           ELSE \A k \in v.node : k.sid # q.target
    BY DEF Answered
  <2>1. CASE i = last
    <3>1. v.wire[i] = m /\ m.type = "error"
      BY <1>3, <1>4, <2>1
    <3>2. r.id \in Ids
      BY <1>2 DEF Texts
    <3>3. /\ r.id < w.next /\ \A q \in w.queue : r.id <= q.id
          /\ \A q \in w.queue : r.id = q.id => q.target = r.target
      BY <1>2 DEF Good, Sent
    <3> QED
      BY <1>7, <1>9, <3>1, <3>2, <3>3
  <2>2. CASE i \in DOMAIN w.wire /\ v.wire[i] = w.wire[i]
    BY <1>7, <2>2 DEF Good, Answered
  <2> QED
    BY <1>3, <2>1, <2>2
<1>14. Numbered(v)
  BY <1>3, <1>4, <1>7 DEF Good, Numbered
<1>15. Confirmed(v)
  <2> SUFFICES ASSUME NEW i \in DOMAIN v.wire, v.wire[i].type = "ok"
      PROVE  /\ v.wire[i].cb \in Callbacks
             /\ v.wire[i].sid \notin v.known
             /\ \A j \in DOMAIN v.wire : v.wire[j].type \in {"ok", "note"} /\ v.wire[j].sid = v.wire[i].sid =>
                  v.wire[j].cb = v.wire[i].cb /\ (v.wire[j].type = "ok" => j = i)
             /\ v.wire[i].cb \in Once \/ \E k \in v.node : k.sid = v.wire[i].sid
             /\ \A k \in v.node : k.sid = v.wire[i].sid => k.cb = v.wire[i].cb
    BY DEF Confirmed
  <2>1. i \in DOMAIN w.wire /\ v.wire[i] = w.wire[i]
    BY <1>3, <1>4
  <2>2. /\ w.wire[i].cb \in Callbacks /\ w.wire[i].sid \notin w.known
        /\ w.wire[i].cb \in Once \/ \E k \in w.node : k.sid = w.wire[i].sid
        /\ \A k \in w.node : k.sid = w.wire[i].sid => k.cb = w.wire[i].cb
    BY <2>1 DEF Good, Confirmed
  <2>3. w.wire[i].cb \in Once \/ \E k \in v.node : k.sid = w.wire[i].sid
    BY <1>8, <1>10, <2>2
  <2>4. ASSUME NEW j \in DOMAIN v.wire, v.wire[j].type \in {"ok", "note"}, v.wire[j].sid = v.wire[i].sid
        PROVE  v.wire[j].cb = v.wire[i].cb /\ (v.wire[j].type = "ok" => j = i)
    <3>1. j \in DOMAIN w.wire /\ v.wire[j] = w.wire[j]
      BY <1>3, <1>4, <2>4
    <3> QED
      BY <2>1, <2>4, <3>1 DEF Good, Confirmed
  <2> QED
    BY <1>7, <2>1, <2>2, <2>3, <2>4
<1>16. Noted(v)
  BY <1>3, <1>4, <1>7 DEF Good, Noted
<1>17. Listening(v) /\ Ending(v)
  BY <1>2, <1>7 DEF Good, Listening, Ending
<1>18. \A k \in v.node : AskedToEnd(w, k) => AskedToEnd(v, k)
  BY <1>2, <1>7 DEF AskedToEnd
<1>19. Forgotten(v) /\ FrontIsSent(v)
  BY <1>7, <1>18 DEF Good, Forgotten, FrontIsSent, IsFront
<1>20. Connected(v)
  BY <1>5 DEF Good, Connected
<1>21. Heard(v)
  <2> SUFFICES ASSUME ~w.lost, NEW s \in w.subs, s.cb \notin Once PROVE \E k \in v.node : k.sid = s.sid
    BY DEF Heard
  <2>1. PICK k \in w.node : k.sid = s.sid
    BY DEF Good, Heard
  <2> QED
    BY <1>8, <1>10, <2>1
<1> QED
  BY <1>11, <1>12, <1>13, <1>14, <1>15, <1>16, <1>17, <1>19, <1>20, <1>21 DEF Good

\* A listener that waits for a signature is notified once.
LEMMA NotifyKeeps ==
  ASSUME NEW w, Good(w, 0), NEW n \in w.node,
         NEW v \in Clients, NEW m \in Messages, m.type = "note", m.sid = n.sid, m.cb = n.cb,
         v.queue = w.queue, v.next = w.next, v.silent = w.silent, v.subs = w.subs,
         v.pending = w.pending, v.connecting = w.connecting, v.lost = w.lost, v.peer = w.peer,
         v.asked = w.asked, v.wire = Append(w.wire, m), v.known = w.known,
         v.issued = w.issued, v.node = IF n.cb \in Once THEN w.node \ {n} ELSE w.node
  PROVE  Good(v, 0)
<1> DEFINE last == Len(w.wire) + 1
<1>1. w \in Clients
  BY DEF Good
<1>2. /\ v.wire[last] = m
      /\ \A i \in DOMAIN w.wire : i \in DOMAIN v.wire /\ v.wire[i] = w.wire[i]
      /\ \A i \in DOMAIN v.wire : i = last \/ (i \in DOMAIN w.wire /\ v.wire[i] = w.wire[i])
  BY <1>1, WireFields
<1>3. w.peer = "open" /\ ~w.connecting
  BY DEF Good, Connected, Silence
<1>4. \A k \in v.node : k \in w.node
  OBVIOUS
<1>5. \A k \in w.node : k \in v.node \/ (k = n /\ n.cb \in Once)
  OBVIOUS
<1> HIDE DEF last
<1>6. Queued(v, 0) /\ Sent(v) /\ Subscribed(v, 0) /\ Ending(v)
  BY DEF Good, Queued, Sent, Subscribed, Ending
<1>7. Answered(v)
  BY <1>2, <1>4 DEF Good, Answered
<1>8. Numbered(v)
  <2>1. m.sid \in 1 .. w.issued
    BY DEF Good, Numbered
  <2> QED
    BY <1>2, <1>4, <2>1 DEF Good, Numbered
<1>9. Confirmed(v)
  <2> SUFFICES ASSUME NEW i \in DOMAIN v.wire, v.wire[i].type = "ok"
      PROVE  /\ v.wire[i].cb \in Callbacks
             /\ v.wire[i].sid \notin v.known
             /\ \A j \in DOMAIN v.wire : v.wire[j].type \in {"ok", "note"} /\ v.wire[j].sid = v.wire[i].sid =>
                  v.wire[j].cb = v.wire[i].cb /\ (v.wire[j].type = "ok" => j = i)
             /\ v.wire[i].cb \in Once \/ \E k \in v.node : k.sid = v.wire[i].sid
             /\ \A k \in v.node : k.sid = v.wire[i].sid => k.cb = v.wire[i].cb
    BY DEF Confirmed
  <2>1. i \in DOMAIN w.wire /\ v.wire[i] = w.wire[i]
    BY <1>2
  <2>2. /\ w.wire[i].cb \in Callbacks /\ w.wire[i].sid \notin w.known
        /\ w.wire[i].cb \in Once \/ \E k \in w.node : k.sid = w.wire[i].sid
        /\ \A k \in w.node : k.sid = w.wire[i].sid => k.cb = w.wire[i].cb
    BY <2>1 DEF Good, Confirmed
  <2>3. w.wire[i].cb \in Once \/ \E k \in v.node : k.sid = w.wire[i].sid
    BY <1>5, <2>2
  <2>4. ASSUME NEW j \in DOMAIN v.wire, v.wire[j].type \in {"ok", "note"}, v.wire[j].sid = v.wire[i].sid
        PROVE  v.wire[j].cb = v.wire[i].cb /\ (v.wire[j].type = "ok" => j = i)
    <3>1. CASE j = last
      BY <1>2, <2>1, <2>2, <2>4, <3>1
    <3>2. CASE j \in DOMAIN w.wire /\ v.wire[j] = w.wire[j]
      BY <2>1, <2>4, <3>2 DEF Good, Confirmed
    <3> QED
      BY <1>2, <3>1, <3>2
  <2> QED
    BY <1>4, <2>1, <2>2, <2>3, <2>4
<1>10. Noted(v)
  <2>1. \A s \in w.subs : s.sid = n.sid => s.cb = n.cb
    BY DEF Good, Listening
  <2>2. \A k \in w.node : k.sid = n.sid => k = n
    BY DEF Good, Numbered
  <2> QED
    BY <1>2, <1>4, <2>1, <2>2 DEF Good, Noted
<1>11. Listening(v) /\ Forgotten(v) /\ FrontIsSent(v)
  BY <1>4 DEF Good, Listening, Forgotten, FrontIsSent, IsFront, AskedToEnd
<1>12. Connected(v)
  BY <1>3 DEF Good, Connected
<1>13. Heard(v)
  <2> SUFFICES ASSUME ~w.lost, NEW s \in w.subs, s.cb \notin Once PROVE \E k \in v.node : k.sid = s.sid
    BY DEF Heard
  <2>1. PICK k \in w.node : k.sid = s.sid
    BY DEF Good, Heard
  <2>2. k.cb = s.cb
    BY <2>1 DEF Good, Listening
  <2> QED
    BY <1>5, <2>1, <2>2
<1> QED
  BY <1>6, <1>7, <1>8, <1>9, <1>10, <1>11, <1>12, <1>13 DEF Good

-----------------------------------------------------------------------------
(* The specification.                                                      *)

\* At first there is neither request nor socket.
LEMMA InitGood == Init => IInv
<1> SUFFICES ASSUME Init PROVE IInv
  OBVIOUS
<1>1. /\ ws.queue = {} /\ ws.subs = {} /\ ws.pending = FALSE /\ ws.connecting = FALSE /\ ws.next = 1
      /\ ws.lost = FALSE /\ ws.peer = "closed" /\ ws.asked = <<>> /\ ws.wire = <<>> /\ ws.node = {}
      /\ ws.issued = 0 /\ ws.known = {} /\ ws.silent = {}
  BY DEF Init
<1>2. ws \in Clients
  <2>1. <<>> \in Seq(Texts) /\ <<>> \in Seq(Messages) /\ 1 \in 1 .. MaxId + 1
    BY Assumption
  <2> QED
    BY <2>1 DEF Init, Clients
<1>3. Silence(ws) /\ Connected(ws) /\ Heard(ws)
  BY <1>1 DEF Silence, Connected, Heard
<1>4. Queued(ws, 0) /\ Listening(ws)
  BY <1>1 DEF Queued, Listening
<1>5. Subscribed(ws, 0)
  BY <1>1, FS_EmptySet DEF Subscribed
<1>6. Numbered(ws) /\ Ending(ws)
  <2>1. DOMAIN ws.wire = {} /\ DOMAIN ws.asked = {}
    BY <1>1
  <2> QED
    BY <1>1, <2>1 DEF Numbered, Ending
<1>7. Good(ws, 0)
  BY <1>1, <1>2, <1>3, <1>4, <1>5, <1>6, SilenceKeeps
<1>8. avail \in 0 .. Len(ws.wire) /\ notes \in 0 .. MaxNotes
  BY <1>1, Assumption DEF Init
<1> QED
  BY <1>7, <1>8 DEF IInv

\* A call that subscribes.
LEMMA SubscribeGood ==
  ASSUME IInv, NEW cb \in Callbacks, Subscribe(cb)
  PROVE  IInv'
<1>1. Good(ws, 0) /\ 0 < ws.next
  <2>1. Good(ws, 0)
    BY DEF IInv
  <2> QED
    BY <2>1 DEF Good, Clients
<1>2. ws' = Enqueue(ws, cb) /\ ws.next <= MaxId /\ UNCHANGED <<avail, notes>>
  BY DEF Subscribe
<1>3. Good(ws', 0) /\ ws'.wire = ws.wire
  BY <1>1, <1>2, EnqueueKeeps
<1> QED
  BY <1>2, <1>3 DEF IInv

\* A call that unsubscribes.
LEMMA UnsubscribeGood ==
  ASSUME IInv, NEW cb \in Callbacks, Unsubscribe(cb)
  PROVE  IInv'
<1>1. Good(ws, 0) /\ 0 < ws.next
  <2>1. Good(ws, 0)
    BY DEF IInv
  <2> QED
    BY <2>1 DEF Good, Clients
<1>2. /\ ws' = UnsubscribeAll(ws, cb) /\ UNCHANGED <<avail, notes>>
      /\ ws.next + Cardinality(Gone(ws, cb)) <= MaxId + 1 /\ \A r \in ws.queue : r.cb # cb
  BY DEF Unsubscribe
<1>3. Good(ws', 0) /\ ws'.wire = ws.wire
  BY <1>1, <1>2, UnsubscribeAllKeeps
<1> QED
  BY <1>2, <1>3 DEF IInv

\* A frame, up to its packets.
LEMMA ProcessGood ==
  ASSUME IInv, Process
  PROVE  IInv'
<1> DEFINE Polled(p) == [(IF p = "open" THEN ws ELSE Lost(ws)) EXCEPT
                           !.peer = p, !.lost = @ \/ (ws.peer = "open" /\ p # "open")]
<1>1. PICK p \in Poll(ws.peer) :
        \E n \in (IF "slow" \in Env THEN 0 .. Len(Polled(p).wire) ELSE {Len(Polled(p).wire)}) :
          /\ ws' \in Switch(Polled(p))
          /\ avail' = IF ws'.peer = "open" THEN n ELSE 0
  BY DEF Process
<1>2. Good(Polled(p), 0)
  BY PollKeeps DEF IInv
<1> HIDE DEF Polled
<1>3. Kept(ws', Polled(p))
  BY <1>1, <1>2, SwitchKeeps
<1>4. Polled(p).wire \in Seq(Messages) /\ ws'.wire \in Seq(Messages)
  BY <1>2, <1>3 DEF Good, Kept, Clients
<1>5. avail' \in 0 .. Len(ws'.wire)
  <2>1. Len(Polled(p).wire) \in Nat /\ Len(ws'.wire) \in Nat
    BY <1>4
  <2> QED
    BY <1>1, <1>3, <2>1 DEF Kept
<1>6. notes' = notes
  BY DEF Process
<1> QED
  BY <1>3, <1>5, <1>6 DEF IInv, Kept

\* A turn of the packet loop.
LEMMA ProcessPacketGood ==
  ASSUME IInv, ProcessPacket
  PROVE  IInv'
<1> DEFINE w == [ws EXCEPT !.wire = Tail(@)]
           m == Head(ws.wire)
<1>1. /\ avail > 0 /\ ws' \in ProcessPackage(w, m) /\ notes' = notes
      /\ avail' = IF ws'.peer = "open" THEN avail - 1 ELSE 0
  BY DEF ProcessPacket
<1>2. Good(ws, 0) /\ ws.wire \in Seq(Messages) /\ avail \in 0 .. Len(ws.wire)
  BY DEF IInv, Good, Clients
<1>3. ws.wire # <<>>
  BY <1>1, <1>2
<1>4. Good(w, 0) /\ Read(w, m) /\ m \in Messages /\ w.peer = "open" /\ ~w.connecting /\ w.wire = Tail(ws.wire)
  BY <1>2, <1>3, ReadKeeps
<1> HIDE DEF w, m
<1>5. Kept(ws', w)
  BY <1>1, <1>4, ProcessPackageKeeps
<1>6. avail' \in 0 .. Len(ws'.wire)
  <2>1. ws'.wire \in Seq(Messages)
    BY <1>5 DEF Good, Kept, Clients
  <2>2. Len(Tail(ws.wire)) = Len(ws.wire) - 1
    BY <1>2, <1>3
  <2>3. Len(ws'.wire) \in Nat
    BY <2>1
  <2>4. CASE ws'.peer = "open"
    <3>1. Len(ws'.wire) = Len(ws.wire) - 1 /\ avail' = avail - 1
      BY <1>1, <1>4, <1>5, <2>2, <2>4 DEF Kept
    <3>2. Len(ws.wire) \in Nat
      BY <1>2
    <3> QED
      BY <1>1, <1>2, <3>1, <3>2
  <2>5. CASE ws'.peer # "open"
    BY <1>1, <2>3, <2>5
  <2> QED
    BY <2>4, <2>5
<1> QED
  BY <1>1, <1>5, <1>6 DEF IInv, Kept

\* The node answers the first request.
LEMMA NodeAnswersGood ==
  ASSUME IInv, NodeAnswers
  PROVE  IInv'
<1> DEFINE r == Head(ws.asked)
           Answer(type, sid) == [type |-> type, id |-> r.id, sid |-> sid, cb |-> r.cb]
           w == [ws EXCEPT !.asked = Tail(@)]
<1>1. /\ ws.asked # <<>> /\ UNCHANGED <<avail, notes>>
      /\ \/ /\ r.target = 0
            /\ ws' = [w EXCEPT !.issued = @ + 1, !.node = @ \cup {[sid |-> w.issued + 1, cb |-> r.cb]},
                               !.wire = Append(@, Answer("ok", w.issued + 1))]
         \/ /\ \E n \in w.node : n.sid = r.target
            /\ ws' = [w EXCEPT !.node = {n \in @ : n.sid # r.target},
                               !.wire = Append(@, Answer("bool", r.target))]
         \/ /\ IF r.target = 0 THEN "reject" \in Env ELSE \A n \in w.node : n.sid # r.target
            /\ ws' = [w EXCEPT !.wire = Append(@, Answer("error", 0))]
  BY DEF NodeAnswers
<1>2. Good(ws, 0) /\ ws \in Clients /\ ws.issued \in Nat /\ ws.node \in SUBSET [sid : Nat, cb : Callbacks]
  BY DEF IInv, Good, Clients
<1>3. /\ Tail(ws.asked) \in Seq(Texts) /\ r \in Texts
      /\ r.target = 0 => r.cb \in Callbacks
  <2>1. ws.asked \in Seq(Texts)
    BY <1>2 DEF Clients
  <2>2. Tail(ws.asked) \in Seq(Texts) /\ 1 \in DOMAIN ws.asked /\ r = ws.asked[1] /\ r \in Texts
    BY <1>1, <2>1
  <2> HIDE DEF r
  <2> QED
    BY <1>2, <2>2 DEF Good, Sent
<1>4. /\ w \in Clients /\ w.asked = Tail(ws.asked)
      /\ w.queue = ws.queue /\ w.next = ws.next /\ w.silent = ws.silent
      /\ w.subs = ws.subs /\ w.pending = ws.pending /\ w.connecting = ws.connecting
      /\ w.lost = ws.lost /\ w.peer = ws.peer /\ w.wire = ws.wire
      /\ w.node = ws.node /\ w.issued = ws.issued /\ w.known = ws.known
  <2> HIDE DEF r, Answer
  <2> QED
    BY <1>2, <1>3 DEF Clients
<1>5. ASSUME NEW type \in {"ok", "bool", "error"}, NEW sid \in Nat
      PROVE  /\ Answer(type, sid) \in Messages /\ Answer(type, sid).type = type
             /\ Answer(type, sid).id = r.id /\ Answer(type, sid).sid = sid /\ Answer(type, sid).cb = r.cb
             /\ Append(ws.wire, Answer(type, sid)) \in Seq(Messages)
  <2>1. r.id \in Nat /\ r.cb \in Callbacks \cup {NoCallback}
    <3> HIDE DEF r
    <3> QED
      BY <1>3 DEF Texts, Ids
  <2> HIDE DEF r
  <2>2. Answer(type, sid) \in Messages
    BY <2>1 DEF Messages
  <2>3. ws.wire \in Seq(Messages)
    BY <1>2 DEF Clients
  <2> QED
    BY <2>2, <2>3
<1> HIDE DEF w, Answer
<1>6. CASE /\ r.target = 0
           /\ ws' = [w EXCEPT !.issued = @ + 1, !.node = @ \cup {[sid |-> w.issued + 1, cb |-> r.cb]},
                              !.wire = Append(@, Answer("ok", w.issued + 1))]
  <2> DEFINE m == Answer("ok", w.issued + 1)
  <2>1. ws.issued + 1 \in Nat
    BY <1>2
  <2>2. /\ m \in Messages /\ m.type = "ok" /\ m.id = r.id /\ m.sid = ws.issued + 1 /\ m.cb = r.cb
        /\ Append(ws.wire, m) \in Seq(Messages)
    BY <1>4, <1>5, <2>1
  <2>3. ws' = [w EXCEPT !.issued = ws.issued + 1, !.node = ws.node \cup {[sid |-> m.sid, cb |-> m.cb]},
                        !.wire = Append(ws.wire, m)]
    <3>1. ws' = [w EXCEPT !.issued = ws.issued + 1, !.node = ws.node \cup {[sid |-> ws.issued + 1, cb |-> r.cb]},
                          !.wire = Append(ws.wire, m)]
      <4> HIDE DEF r
      <4> QED
        BY <1>4, <1>6
    <3> HIDE DEF m, r
    <3> QED
      BY <2>2, <3>1
  <2> HIDE DEF m
  <2>4. ws.node \cup {[sid |-> m.sid, cb |-> m.cb]} \in SUBSET [sid : Nat, cb : Callbacks]
    <3>1. m.sid \in Nat /\ m.cb \in Callbacks
      BY <1>3, <1>6, <2>1, <2>2
    <3> QED
      BY <1>2, <3>1
  <2> HIDE DEF r
  <2>5. /\ ws' \in Clients /\ ws'.asked = w.asked /\ ws'.queue = w.queue /\ ws'.next = w.next
        /\ ws'.silent = w.silent /\ ws'.subs = w.subs /\ ws'.pending = w.pending
        /\ ws'.connecting = w.connecting /\ ws'.lost = w.lost /\ ws'.peer = w.peer
        /\ ws'.wire = Append(ws.wire, m) /\ ws'.known = w.known /\ ws'.issued = ws.issued + 1
        /\ ws'.node = ws.node \cup {[sid |-> m.sid, cb |-> m.cb]}
    BY <1>4, <2>1, <2>2, <2>3, <2>4 DEF Clients
  <2>6. r = Head(ws.asked) /\ r.target = 0
    BY <1>6 DEF r
  <2>7. Good(ws', 0)
    BY <1>1, <1>2, <1>4, <2>2, <2>5, <2>6, ConfirmKeeps
  <2>8. Len(ws'.wire) = Len(ws.wire) + 1
    BY <1>2, <2>2, <2>5, WireFields
  <2>9. Len(ws.wire) \in Nat
    BY <1>2 DEF Clients
  <2> QED
    BY <1>1, <2>7, <2>8, <2>9 DEF IInv
\* An error leaves the node's subscriptions: none of them was meant.
<1>7. ASSUME NEW m \in Messages, m.id = r.id, Append(ws.wire, m) \in Seq(Messages),
             \/ m.type = "bool" /\ \E k \in ws.node : k.sid = r.target
             \/ m.type = "error" /\ \A k \in ws.node : k.sid # r.target,
             ws' = [w EXCEPT !.node = {k \in ws.node : k.sid # r.target}, !.wire = Append(ws.wire, m)]
      PROVE  IInv'
  <2> DEFINE node == {k \in ws.node : k.sid # r.target}
  <2>1. node \in SUBSET [sid : Nat, cb : Callbacks]
    BY <1>2
  <2>2. ws' = [w EXCEPT !.node = node, !.wire = Append(ws.wire, m)]
    BY <1>7
  <2> HIDE DEF node
  <2>3. /\ ws' \in Clients /\ ws'.asked = w.asked /\ ws'.queue = w.queue /\ ws'.next = w.next
        /\ ws'.silent = w.silent /\ ws'.subs = w.subs /\ ws'.pending = w.pending
        /\ ws'.connecting = w.connecting /\ ws'.lost = w.lost /\ ws'.peer = w.peer
        /\ ws'.wire = Append(ws.wire, m) /\ ws'.known = w.known /\ ws'.issued = w.issued
        /\ ws'.node = node
    BY <1>4, <1>7, <2>1, <2>2 DEF Clients
  <2>4. ws'.node = {k \in ws.node : k.sid # Head(ws.asked).target}
    BY <2>3 DEF node, r
  <2>5. Good(ws', 0)
    <3>1. /\ m.id = Head(ws.asked).id
          /\ \/ m.type = "bool" /\ \E k \in ws.node : k.sid = Head(ws.asked).target
             \/ m.type = "error" /\ \A k \in ws.node : k.sid # Head(ws.asked).target
      BY <1>7 DEF r
    <3>2. /\ ws'.asked = Tail(ws.asked) /\ ws'.queue = ws.queue /\ ws'.next = ws.next
          /\ ws'.silent = ws.silent /\ ws'.subs = ws.subs /\ ws'.pending = ws.pending
          /\ ws'.connecting = ws.connecting /\ ws'.lost = ws.lost /\ ws'.peer = ws.peer
          /\ ws'.known = ws.known /\ ws'.issued = ws.issued
      BY <1>4, <2>3
    <3> HIDE DEF r
    <3>3. ws.asked # <<>> /\ ws' \in Clients /\ ws'.wire = Append(ws.wire, m)
      BY <1>1, <2>3
    <3> QED
      BY <1>2, <2>4, <3>1, <3>2, <3>3, EndKeeps
  <2>6. Len(ws'.wire) = Len(ws.wire) + 1
    BY <1>2, <2>3, WireFields
  <2>7. Len(ws.wire) \in Nat
    BY <1>2 DEF Clients
  <2> QED
    BY <1>1, <2>5, <2>6, <2>7 DEF IInv
<1>8. CASE /\ \E n \in w.node : n.sid = r.target
           /\ ws' = [w EXCEPT !.node = {n \in @ : n.sid # r.target},
                              !.wire = Append(@, Answer("bool", r.target))]
  <2> DEFINE m == Answer("bool", r.target)
  <2>1. r.target \in Nat
    BY <1>3 DEF Texts
  <2>2. m \in Messages /\ m.type = "bool" /\ m.id = r.id /\ Append(ws.wire, m) \in Seq(Messages)
    BY <1>5, <2>1
  <2>3. ws' = [w EXCEPT !.node = {k \in ws.node : k.sid # r.target}, !.wire = Append(ws.wire, m)]
    BY <1>4, <1>8
  <2>4. \E k \in ws.node : k.sid = r.target
    BY <1>4, <1>8
  <2> HIDE DEF m, r
  <2> QED
    BY <1>7, <2>2, <2>3, <2>4
<1>9. CASE /\ IF r.target = 0 THEN "reject" \in Env ELSE \A n \in w.node : n.sid # r.target
           /\ ws' = [w EXCEPT !.wire = Append(@, Answer("error", 0))]
  <2> DEFINE m == Answer("error", 0)
  <2>1. \A k \in ws.node : k.sid # r.target
    <3>1. \A k \in ws.node : k.sid # 0
      BY <1>2 DEF Good, Numbered
    <3> HIDE DEF r
    <3> QED
      BY <1>4, <1>9, <3>1
  <2>2. m \in Messages /\ m.type = "error" /\ m.id = r.id /\ Append(ws.wire, m) \in Seq(Messages)
    BY <1>5
  <2>3. ws' = [w EXCEPT !.wire = Append(ws.wire, m)]
    BY <1>4, <1>9
  <2> HIDE DEF m, r
  <2>4. {k \in ws.node : k.sid # r.target} = ws.node
    BY <2>1
  <2>5. w = [w EXCEPT !.node = ws.node]
    BY <1>4 DEF Clients
  <2>6. ws' = [w EXCEPT !.node = {k \in ws.node : k.sid # r.target}, !.wire = Append(ws.wire, m)]
    BY <2>3, <2>4, <2>5
  <2> QED
    BY <1>7, <2>1, <2>2, <2>6
<1> QED
  BY <1>1, <1>6, <1>8, <1>9

\* The node notifies a subscription.
LEMMA NodeNotifiesGood ==
  ASSUME IInv, NEW n \in ws.node, NodeNotifies(n)
  PROVE  IInv'
<1> DEFINE m == [type |-> "note", id |-> 0, sid |-> n.sid, cb |-> n.cb]
           node == IF n.cb \in Once THEN ws.node \ {n} ELSE ws.node
<1>1. Good(ws, 0) /\ ws \in Clients /\ n.sid \in Nat /\ n.cb \in Callbacks /\ ws.node \in SUBSET [sid : Nat, cb : Callbacks]
  BY DEF IInv, Good, Clients
<1>2. m \in Messages /\ m.type = "note" /\ m.sid = n.sid /\ m.cb = n.cb
  BY <1>1 DEF Messages
<1>3. /\ notes < MaxNotes /\ notes' = notes + 1 /\ avail' = avail
      /\ ws' = [ws EXCEPT !.wire = Append(ws.wire, m), !.node = node]
  <2>1. ws' = [ws EXCEPT !.wire = Append(@, m), !.node = IF n.cb \in Once THEN @ \ {n} ELSE @]
    BY DEF NodeNotifies
  <2> QED
    BY <2>1 DEF NodeNotifies
<1>4. node \in SUBSET [sid : Nat, cb : Callbacks] /\ Append(ws.wire, m) \in Seq(Messages)
  <2>1. ws.wire \in Seq(Messages)
    BY <1>1 DEF Clients
  <2> HIDE DEF m
  <2> QED
    BY <1>1, <1>2, <2>1
<1> HIDE DEF m, node
<1>5. /\ ws' \in Clients /\ ws'.asked = ws.asked /\ ws'.queue = ws.queue /\ ws'.next = ws.next
      /\ ws'.silent = ws.silent /\ ws'.subs = ws.subs /\ ws'.pending = ws.pending
      /\ ws'.connecting = ws.connecting /\ ws'.lost = ws.lost /\ ws'.peer = ws.peer
      /\ ws'.wire = Append(ws.wire, m) /\ ws'.known = ws.known /\ ws'.issued = ws.issued
      /\ ws'.node = node
  BY <1>1, <1>3, <1>4 DEF Clients
<1>6. ws'.node = IF n.cb \in Once THEN ws.node \ {n} ELSE ws.node
  BY <1>5 DEF node
<1>7. Good(ws', 0)
  BY <1>1, <1>2, <1>5, <1>6, NotifyKeeps
<1>8. Len(ws'.wire) = Len(ws.wire) + 1
  BY <1>1, <1>2, <1>5, WireFields
<1>9. Len(ws.wire) \in Nat /\ MaxNotes \in Nat
  BY <1>1, Assumption DEF Clients
<1> QED
  BY <1>3, <1>7, <1>8, <1>9 DEF IInv

\* No step breaks the invariant.
LEMMA NextGood == IInv /\ [Next]_vars => IInv'
<1> SUFFICES ASSUME IInv, [Next]_vars PROVE IInv'
  OBVIOUS
<1>1. ASSUME NEW cb \in Callbacks, Subscribe(cb) PROVE IInv'
  BY <1>1, SubscribeGood
<1>2. ASSUME NEW cb \in Callbacks, Unsubscribe(cb) PROVE IInv'
  BY <1>2, UnsubscribeGood
<1>3. CASE Process
  BY <1>3, ProcessGood
<1>4. CASE ProcessPacket
  BY <1>4, ProcessPacketGood
<1>5. CASE NodeAnswers
  BY <1>5, NodeAnswersGood
<1>6. ASSUME NEW n \in ws.node, NodeNotifies(n) PROVE IInv'
  BY <1>6, NodeNotifiesGood
<1>7. CASE UNCHANGED vars
  BY <1>7 DEF vars, IInv
<1> QED
  BY <1>1, <1>2, <1>3, <1>4, <1>5, <1>6, <1>7 DEF Next

\* So it always holds.
LEMMA AlwaysGood == Spec => []IInv
  BY InitGood, NextGood, PTL DEF Spec

\* The state keeps its type: the time of what is queued included, which only
\* the request that is removed in the same step is past.
THEOREM TypeCorrect == Spec => []TypeOK
<1>1. IInv => TypeOK
  <2> SUFFICES ASSUME IInv PROVE TypeOK
    OBVIOUS
  <2>1. ws \in Clients /\ Queued(ws, 0)
    BY DEF IInv, Good
  <2>2. ws.queue \in SUBSET Requests
    <3> SUFFICES ASSUME NEW r \in ws.queue PROVE r \in Requests
      OBVIOUS
    <3>1. r \in Pending
      BY <2>1 DEF Clients
    <3>2. r.left \in 0 .. Timeout
      BY <2>1, <3>1 DEF Queued, Pending, Ids
    <3> QED
      BY <3>1, <3>2 DEF Pending, Requests
  <2> QED
    BY <2>1, <2>2 DEF TypeOK, IInv, Clients
<1> QED
  BY <1>1, AlwaysGood, PTL

\* No flag of process is left over without a request, and no socket without
\* somebody who wants it (finalize_request, close_if_done).
THEOREM NothingIsLeftOver == Spec => []KeptForSomebody
<1>1. IInv => KeptForSomebody
  BY DEF IInv, Good, Connected, KeptForSomebody
<1> QED
  BY <1>1, AlwaysGood, PTL

\* add_subscription takes the callback of the front of the queue, and that is
\* the request the node has confirmed: no other listener is ever called.
THEOREM ListenersAreRight == Spec => []RightListener
<1>1. IInv => RightListener
  BY DEF IInv, Good, Listening, Noted, RightListener
<1> QED
  BY <1>1, AlwaysGood, PTL

\* unsubscribe_all forgets a subscription at once, and its request to the node
\* is queued, on its way or answered: process_timeouts removes none unsent.
THEOREM NoneIsForgottenAlive == Spec => []ForgottenIsEnded
<1>1. IInv => ForgottenIsEnded
  BY DEF IInv, Good, Forgotten, AskedToEnd, ForgottenIsEnded
<1> QED
  BY <1>1, AlwaysGood, PTL

\* While no connection has broken, who has subscribed is known to the node.
THEOREM ListenersAreHeard == Spec => []KeepsListening
<1>1. IInv => KeepsListening
  BY DEF IInv, Good, Heard, KeepsListening
<1> QED
  BY <1>1, AlwaysGood, PTL
=============================================================================
