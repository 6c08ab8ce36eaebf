------------------------- MODULE HttpClientProofs -------------------------
(***************************************************************************)
(* HttpClient for any number of requests and nodes and any timeout: the    *)
(* loop serves each client once a frame although clients leave the list    *)
(* and enter it under the loop, so that a request times out in time; none  *)
(* is posted twice without a useless response; and every step of the       *)
(* shared client is a step of the request/reply service or a stutter.      *)
(***************************************************************************)
EXTENDS HttpClient, SequenceTheorems, TLAPS

\* The request of a single client.
Of(c) == Head(c.queue)

\* The list cs has one client for each request of W, and no other.
Lists(cs, W) ==
  /\ cs \in Seq([queue : Seq(Requests), status : Status])
  /\ \A i \in DOMAIN cs : cs[i].queue = <<Of(cs[i])>> /\ Of(cs[i]) \in W
  /\ \A i, j \in DOMAIN cs : Of(cs[i]) = Of(cs[j]) => i = j
  /\ \A r \in W : \E i \in DOMAIN cs : Of(cs[i]) = r

Fresh(r) == left[r] = Timeout /\ age[r] = 0 /\ connects[r] = 0 /\ visits[r] = 0
Untouched(r) == Fresh(r) /\ posts[r] = 0 /\ useless[r] = 0

\* What the loop has served: the clients before the cursor; when it has ended,
\* all but those of the requests made since.
Served ==
  /\ done <=> called # {}
  /\ cursor > 0 => done
  /\ ~done => \A r \in Requests : visits[r] = 0
  /\ cursor > 0 => \A i \in DOMAIN clients : visits[Of(clients[i])] = (IF i < cursor THEN 1 ELSE 0)
  /\ done /\ cursor = 0 => \A r \in Waiting : visits[r] = 1 \/ Fresh(r)
  /\ \A r \in Requests : visits[r] <= 1

\* Every visit of a client has either connected or taken a frame off its time, and
\* every frame but the one the request was made in has had one visit.
Timed(r) ==
  /\ left[r] >= 0 /\ left[r] <= Timeout
  /\ visits[r] = 1 => connects[r] >= 1
  /\ age[r] + visits[r] - connects[r] + left[r] - Timeout \in {0, 1}

\* A client that may still send has a useless response for everything it sent.
OnWire(s) == IF s \in {"requesting", "body"} THEN 1 ELSE 0
Wire(c) ==
  /\ posts[Of(c)] <= useless[Of(c)] + OnWire(c.status)
  /\ c.status # "disconnected" => connects[Of(c)] >= 1
Wires == \A i \in DOMAIN clients : Wire(clients[i])

IInv ==
  /\ TypeOK /\ Lists(clients, Waiting) /\ Served
  /\ \A r \in Requests : state[r] = "new" => Untouched(r)
  /\ \A r \in Waiting : Timed(r)
  /\ Wires
  /\ PostedOnce

-----------------------------------------------------------------------------
(* The list of clients. *)

\* A queue of one request.
LEMMA HeadOne ==
  ASSUME NEW r PROVE Head(<<r>>) = r /\ <<r>> # <<>>
OBVIOUS

\* A new single client has its request and no connection.
LEMMA ClientType ==
  ASSUME NEW r \in Requests
  PROVE  /\ Client(r) \in [queue : Seq(Requests), status : Status]
         /\ Of(Client(r)) = r /\ Client(r).queue = <<r>> /\ Client(r).status = "disconnected"
<1>1. <<r>> \in Seq(Requests)
  BY SeqDef
<1> QED
  BY <1>1, HeadOne DEF Client, Of, Status

\* A request adds its client at the end of the list.
LEMMA AppendLists ==
  ASSUME NEW cs, NEW W, Lists(cs, W), NEW r \in Requests, r \notin W
  PROVE  LET ds == Append(cs, Client(r))
         IN /\ Lists(ds, W \cup {r}) /\ DOMAIN ds = 1 .. Len(cs) + 1 /\ Len(ds) = Len(cs) + 1
            /\ \A i \in DOMAIN cs : ds[i] = cs[i]
            /\ ds[Len(cs) + 1] = Client(r)
<1> DEFINE S == [queue : Seq(Requests), status : Status]
           ds == Append(cs, Client(r))
           n == Len(cs)
<1>1. cs \in Seq(S) /\ n \in Nat /\ DOMAIN cs = 1 .. n
  BY LenProperties DEF Lists
<1>2. Client(r) \in S /\ Of(Client(r)) = r /\ Client(r).queue = <<r>>
  BY ClientType
<1> HIDE DEF S
<1>3. /\ ds \in Seq(S) /\ Len(ds) = n + 1 /\ DOMAIN ds = 1 .. n + 1
      /\ \A i \in 1 .. n : ds[i] = cs[i]
      /\ ds[n + 1] = Client(r)
  <2>1. ds \in Seq(S) /\ Len(ds) = n + 1
    BY <1>1, <1>2, AppendProperties
  <2>2. \A i \in 1 .. n + 1 : ds[i] = IF i <= n THEN cs[i] ELSE Client(r)
    BY <1>1, <1>2, AppendProperties
  <2> QED
    BY <1>1, <2>1, <2>2, LenProperties
<1> HIDE DEF ds, n
<1>4. \A i \in DOMAIN ds : i \in DOMAIN cs \/ (i = n + 1 /\ i \notin DOMAIN cs)
  BY <1>1, <1>3
<1>5. \A i \in DOMAIN ds : ds[i].queue = <<Of(ds[i])>> /\ Of(ds[i]) \in W \cup {r}
  BY <1>1, <1>2, <1>3, <1>4 DEF Lists
<1>6. \A i, j \in DOMAIN ds : Of(ds[i]) = Of(ds[j]) => i = j
  BY <1>1, <1>2, <1>3, <1>4 DEF Lists
<1>7. \A q \in W \cup {r} : \E i \in DOMAIN ds : Of(ds[i]) = q
  <2>1. \A i \in DOMAIN cs : i \in DOMAIN ds
    BY <1>1, <1>3
  <2>2. n + 1 \in DOMAIN ds
    BY <1>1, <1>3
  <2> QED
    BY <1>1, <1>2, <1>3, <2>1, <2>2 DEF Lists
<1> QED
  BY <1>1, <1>3, <1>5, <1>6, <1>7 DEF Lists, S, ds, n

\* One that is done leaves it, and those behind move up.
LEMMA RemoveLists ==
  ASSUME NEW cs, NEW W, Lists(cs, W), NEW k \in DOMAIN cs
  PROVE  LET ds == Without(cs, k)
         IN /\ Lists(ds, W \ {Of(cs[k])}) /\ DOMAIN ds = 1 .. Len(cs) - 1 /\ Len(ds) = Len(cs) - 1
            /\ \A i \in DOMAIN ds : ds[i] = IF i < k THEN cs[i] ELSE cs[i + 1]
<1> DEFINE S == [queue : Seq(Requests), status : Status]
           ds == Without(cs, k)
           n == Len(cs)
<1>1. cs \in Seq(S) /\ n \in Nat /\ DOMAIN cs = 1 .. n /\ k \in 1 .. n
  BY LenProperties DEF Lists
<1> HIDE DEF S
<1>2. /\ DOMAIN ds = 1 .. n - 1
      /\ \A i \in 1 .. n - 1 : ds[i] = IF i < k THEN cs[i] ELSE cs[i + 1]
  BY DEF Without
<1>3. n - 1 \in Nat /\ \A i \in 1 .. n - 1 : i \in 1 .. n /\ i + 1 \in 1 .. n
  BY <1>1
<1>4. \A i \in 1 .. n : cs[i] \in S
  BY <1>1, ElementOfSeq
<1>5. ds \in Seq(S) /\ Len(ds) = n - 1
  <2>1. ds \in [1 .. n - 1 -> S]
    BY <1>2, <1>3, <1>4 DEF Without
  <2>2. ds \in Seq(S)
    BY <1>3, <2>1, SeqDef
  <2> QED
    BY <1>2, <1>3, <2>2, LenProperties
<1> DEFINE old(i) == IF i < k THEN i ELSE i + 1
<1>6. \A i \in 1 .. n - 1 : old(i) \in 1 .. n /\ old(i) # k /\ ds[i] = cs[old(i)]
  BY <1>1, <1>2, <1>3
<1>7. \A i, j \in 1 .. n - 1 : old(i) = old(j) => i = j
  BY <1>1
<1>8. \A m \in 1 .. n : m # k => \E i \in 1 .. n - 1 : old(i) = m
  <2> SUFFICES ASSUME NEW m \in 1 .. n, m # k PROVE \E i \in 1 .. n - 1 : old(i) = m
    OBVIOUS
  <2>1. CASE m < k
    BY <1>1, <2>1
  <2>2. CASE m > k
    <3>1. m - 1 \in 1 .. n - 1 /\ old(m - 1) = m
      BY <1>1, <2>2
    <3> QED BY <3>1
  <2> QED
    BY <1>1, <2>1, <2>2
<1> HIDE DEF old, ds, n
<1>9. \A i \in DOMAIN ds : ds[i].queue = <<Of(ds[i])>> /\ Of(ds[i]) \in W \ {Of(cs[k])}
  BY <1>1, <1>2, <1>6 DEF Lists
<1>10. \A i, j \in DOMAIN ds : Of(ds[i]) = Of(ds[j]) => i = j
  BY <1>1, <1>2, <1>6, <1>7 DEF Lists
<1>11. \A q \in W \ {Of(cs[k])} : \E i \in DOMAIN ds : Of(ds[i]) = q
  <2> SUFFICES ASSUME NEW q \in W \ {Of(cs[k])} PROVE \E i \in DOMAIN ds : Of(ds[i]) = q
    OBVIOUS
  <2>1. PICK m \in 1 .. n : Of(cs[m]) = q
    BY <1>1 DEF Lists
  <2>2. PICK i \in 1 .. n - 1 : old(i) = m
    BY <1>8, <2>1
  <2> QED
    BY <1>2, <1>6, <2>1, <2>2
<1> QED
  BY <1>2, <1>5, <1>9, <1>10, <1>11 DEF Lists, S, ds, n

-----------------------------------------------------------------------------
(* One single client. *)

\* Where Godot's poll leads from a status.
LEMMA PollTo ==
  ASSUME NEW q \in Status, NEW p \in Poll(q)
  PROVE  /\ p \in Status \cup {"error"}
         /\ q = "requesting" => p \in {"requesting", "body", "error", "connected"}
         /\ q = "body" => p \in {"body", "error"}
<1>1. CASE q = "connecting"
  BY <1>1 DEF Poll, Status
<1>2. CASE q = "connected"
  BY <1>2 DEF Poll, Status
<1>3. CASE q = "requesting"
  BY <1>3 DEF Poll, Status
<1>4. CASE q = "body"
  BY <1>4 DEF Poll, Status
<1>5. CASE q = "disconnected"
  BY <1>5 DEF Poll, Status
<1> QED
  BY <1>1, <1>2, <1>3, <1>4, <1>5 DEF Status

\* What a visit of a client may come to.
LEMMA OutcomeOf ==
  ASSUME NEW r \in Requests, NEW s \in Status, NEW timedOut \in BOOLEAN,
         NEW o \in ProcessSingle(r, s, timedOut)
  PROVE  /\ o.end \in {"waiting", "answered", "failed"} /\ o.crash \in BOOLEAN
         /\ o.post \in {0, 1} /\ o.other \in {0, 1}
         /\ o.end = "waiting" =>
              /\ o.queue = <<r>> /\ o.status \in Status
              /\ OnWire(s) + o.post <= OnWire(o.status) + o.other
              /\ ~timedOut \/ s = "disconnected"
         /\ o.end # "waiting" => o.queue = <<>> /\ o.post = 0
<1> DEFINE Fine(u, p) ==
             /\ u.end \in {"waiting", "answered", "failed"} /\ u.crash \in BOOLEAN
             /\ u.post \in {0, 1} /\ u.other \in {0, 1}
             /\ u.end = "waiting" =>
                  /\ u.queue = <<r>> /\ u.status \in Status
                  /\ OnWire(p) + u.post <= OnWire(u.status) + u.other
             /\ u.end # "waiting" => u.queue = <<>> /\ u.post = 0
<1>1. ASSUME NEW how \in {"answered", "failed"}, NEW p
      PROVE  Fine(Finalize(r, how), p) /\ Finalize(r, how).other = 0
  BY DEF Finalize
<1>a. ASSUME NEW q \in Status, NEW p, OnWire(p) <= OnWire(q)
      PROVE  Fine(Stays(r, q), p) /\ Stays(r, q).other = 0
  <2>1. OnWire(q) \in {0, 1} /\ OnWire(p) \in {0, 1}
    BY DEF OnWire
  <2>2. Stays(r, q) = [queue |-> <<r>>, status |-> q, end |-> "waiting", post |-> 0, other |-> 0, crash |-> FALSE]
    BY DEF Stays
  <2> QED
    BY <1>a, <2>1, <2>2
<1>2. ASSUME NEW p \in Status \cup {"error"}, NEW u \in Dispatch(r, p)
      PROVE  Fine(u, p) /\ (p = "connected" => u.other = 0) /\ (p = "error" => u.end # "waiting")
  <2>1. CASE p \in {"connecting", "requesting"}
    <3>1. u = Stays(r, p) /\ p \in Status
      BY <1>2, <2>1 DEF Dispatch, Status
    <3>2. OnWire(p) <= OnWire(p)
      BY DEF OnWire
    <3> QED
      BY <1>a, <2>1, <3>1, <3>2
  <2>2. CASE p = "connected"
    <3>1. u \in ProcessMessageSending(r)
      BY <1>2, <2>2 DEF Dispatch
    <3>2. CASE u = Finalize(r, "failed")
      BY <1>1, <2>2, <3>2
    <3>3. CASE u = [Stays(r, "requesting") EXCEPT !.post = 1]
      <4>1. u = [queue |-> <<r>>, status |-> "requesting", end |-> "waiting", post |-> 1, other |-> 0, crash |-> FALSE]
        BY <3>3 DEF Stays
      <4> QED
        BY <2>2, <4>1 DEF OnWire, Status
    <3> QED
      BY <3>1, <3>2, <3>3 DEF ProcessMessageSending
  <2>3. CASE p = "body"
    <3>1. u \in ProcessBody(r)
      BY <1>2, <2>3 DEF Dispatch
    <3>2. CASE u = Stays(r, "body")
      BY <1>a, <2>3, <3>2 DEF OnWire, Status
    <3>3. CASE u \in {Finalize(r, "failed"), Finalize(r, "answered")}
      BY <1>1, <2>3, <3>3
    <3>4. CASE u \in {[Stays(r, q) EXCEPT !.other = 1] : q \in AfterBody}
      <4>1. PICK q \in AfterBody : u = [Stays(r, q) EXCEPT !.other = 1]
        BY <3>4
      <4>2. u = [queue |-> <<r>>, status |-> q, end |-> "waiting", post |-> 0, other |-> 1, crash |-> FALSE]
        BY <4>1 DEF Stays
      <4> QED
        BY <2>3, <4>2 DEF OnWire, Status, AfterBody
    <3> QED
      BY <3>1, <3>2, <3>3, <3>4 DEF ProcessBody
  <2>4. CASE p \in {"disconnected", "error"}
    <3>1. u = Finalize(r, "failed")
      BY <1>2, <2>4 DEF Dispatch
    <3> QED
      BY <1>1, <2>4, <3>1 DEF Finalize
  <2> QED
    BY <2>1, <2>2, <2>3, <2>4 DEF Status
<1> DEFINE Outcome == [queue : {<<r>>, <<>>}, status : Status, end : {"waiting", "answered", "failed"},
                      post : {0, 1}, other : {0, 1}, crash : BOOLEAN]
<1>b. ASSUME NEW p \in Status \cup {"error"}, NEW u \in Dispatch(r, p)
      PROVE  u \in Outcome
  <2>1. Finalize(r, "failed") \in Outcome /\ Finalize(r, "answered") \in Outcome
    BY DEF Finalize, Status
  <2>2. \A q \in Status : Stays(r, q) \in Outcome
    BY DEF Stays
  <2>3. \A q \in Status : [Stays(r, q) EXCEPT !.post = 1] \in Outcome /\ [Stays(r, q) EXCEPT !.other = 1] \in Outcome
    BY <2>2
  <2>4. CASE p \in {"connecting", "requesting"}
    <3>1. u = Stays(r, p) /\ p \in Status
      BY <1>b, <2>4 DEF Dispatch, Status
    <3> QED BY <2>2, <3>1
  <2>5. CASE p = "connected"
    <3>1. u \in ProcessMessageSending(r)
      BY <1>b, <2>5 DEF Dispatch
    <3>2. "requesting" \in Status
      BY DEF Status
    <3> HIDE DEF Outcome
    <3> QED BY <2>1, <2>3, <3>1, <3>2 DEF ProcessMessageSending
  <2>6. CASE p = "body"
    <3>1. u \in ProcessBody(r)
      BY <1>b, <2>6 DEF Dispatch
    <3>2. \/ u \in {Finalize(r, "failed"), Finalize(r, "answered"), Stays(r, "body")}
          \/ \E q \in AfterBody : u = [Stays(r, q) EXCEPT !.other = 1]
      BY <3>1 DEF ProcessBody
    <3>3. "body" \in Status /\ AfterBody \subseteq Status
      BY DEF Status, AfterBody
    <3> HIDE DEF Outcome
    <3> QED BY <2>1, <2>2, <2>3, <3>2, <3>3
  <2>7. CASE p \in {"disconnected", "error"}
    <3>1. u = Finalize(r, "failed")
      BY <1>b, <2>7 DEF Dispatch
    <3> QED BY <2>1, <3>1
  <2> QED
    BY <2>4, <2>5, <2>6, <2>7 DEF Status
<1>3. ASSUME NEW q \in Status, NEW u \in PollAndDispatch(r, q)
      PROVE  Fine(u, q)
  <2> DEFINE Empty(p) == IF q = "requesting" /\ p = "connected" THEN 1 ELSE 0
  <2>a. PICK p \in Poll(q) : u \in {[v EXCEPT !.other = @ + Empty(p)] : v \in Dispatch(r, p)}
    BY <1>3 DEF PollAndDispatch
  <2>1. PICK v \in Dispatch(r, p) : u = [v EXCEPT !.other = @ + Empty(p)]
    BY <2>a
  <2>2. p \in Status \cup {"error"}
    BY PollTo
  <2>3. Fine(v, p) /\ (p = "connected" => v.other = 0) /\ (p = "error" => v.end # "waiting")
    BY <1>2, <2>2
  <2>4. v \in Outcome
    BY <1>b, <2>2
  <2>5. /\ u.queue = v.queue /\ u.status = v.status /\ u.end = v.end /\ u.post = v.post
        /\ u.crash = v.crash /\ u.other = v.other + Empty(p)
    BY <2>1, <2>4
  <2>6. p # "error" => OnWire(q) <= OnWire(p) + Empty(p)
    <3>a. /\ q = "requesting" => p \in {"requesting", "body", "error", "connected"}
          /\ q = "body" => p \in {"body", "error"}
      BY PollTo
    <3>1. CASE q = "requesting"
      BY <3>a, <3>1 DEF OnWire
    <3>2. CASE q = "body"
      BY <3>a, <3>2 DEF OnWire
    <3>3. CASE q \notin {"requesting", "body"}
      BY <3>3 DEF OnWire
    <3> QED BY <3>1, <3>2, <3>3
  <2>7. Empty(p) \in {0, 1} /\ (Empty(p) = 1 => p = "connected")
    OBVIOUS
  <2>8. OnWire(q) \in {0, 1} /\ OnWire(p) \in {0, 1} /\ OnWire(v.status) \in {0, 1}
    BY DEF OnWire
  <2> HIDE DEF Empty
  <2>9. u.other \in {0, 1}
    BY <2>3, <2>5, <2>7
  <2>10. u.end = "waiting" => OnWire(q) + u.post <= OnWire(u.status) + u.other
    BY <2>3, <2>5, <2>6, <2>7, <2>8
  <2> QED
    BY <2>3, <2>5, <2>9, <2>10
<1>4. CASE s = "disconnected"
  <2>1. o \in PollAndDispatch(r, "connecting") \/ o = [Finalize(r, "failed") EXCEPT !.crash = TRUE]
    BY <1>4 DEF ProcessSingle, InitiateConnection
  <2>2. CASE o \in PollAndDispatch(r, "connecting")
    <3>1. Fine(o, "connecting")
      BY <1>3, <2>2 DEF Status
    <3> QED
      BY <1>4, <3>1 DEF OnWire
  <2>3. CASE o = [Finalize(r, "failed") EXCEPT !.crash = TRUE]
    <3>1. o = [queue |-> <<>>, status |-> "disconnected", end |-> "failed", post |-> 0, other |-> 0, crash |-> TRUE]
      BY <2>3 DEF Finalize
    <3> QED
      BY <3>1
  <2> QED
    BY <2>1, <2>2, <2>3
<1>5. CASE s # "disconnected" /\ timedOut
  <2>1. o = Finalize(r, "failed")
    BY <1>5 DEF ProcessSingle
  <2> QED
    BY <1>1, <2>1 DEF Finalize
<1>6. CASE s # "disconnected" /\ ~timedOut
  BY <1>3, <1>6 DEF ProcessSingle
<1> QED
  BY <1>4, <1>5, <1>6

-----------------------------------------------------------------------------
(* The shared client. *)

\* The types, one by one.
LEMMA TypeElim ==
  ASSUME TypeOK
  PROVE  /\ cursor \in Nat /\ called \subseteq Nodes /\ done \in BOOLEAN /\ crashed \in BOOLEAN
         /\ left \in [Requests -> Int]
         /\ state \in [Requests -> {"new", "waiting", "answered", "failed"}]
         /\ age \in [Requests -> Nat] /\ connects \in [Requests -> Nat]
         /\ posts \in [Requests -> Nat] /\ useless \in [Requests -> Nat]
         /\ visits \in [Requests -> Nat]
BY DEF TypeOK

\* At first there is no client.
LEMMA InitInv == Init => IInv
<1> SUFFICES ASSUME Init PROVE IInv
  OBVIOUS
<1>1. /\ clients = <<>> /\ cursor = 0 /\ called = {} /\ done = FALSE /\ crashed = FALSE
      /\ left = [r \in Requests |-> Timeout] /\ state = [r \in Requests |-> "new"]
      /\ age = [r \in Requests |-> 0] /\ connects = [r \in Requests |-> 0]
      /\ posts = [r \in Requests |-> 0] /\ useless = [r \in Requests |-> 0]
      /\ visits = [r \in Requests |-> 0]
  BY DEF Init
<1>2. clients \in Seq([queue : Seq(Requests), status : Status]) /\ DOMAIN clients = {}
  BY <1>1, EmptySeq
<1>3. TypeOK
  <2> DEFINE zero == [r \in Requests |-> 0]
  <2>1. zero \in [Requests -> Nat]
    OBVIOUS
  <2>2. [r \in Requests |-> Timeout] \in [Requests -> Int]
    BY Assumption
  <2>3. [r \in Requests |-> "new"] \in [Requests -> {"new", "waiting", "answered", "failed"}]
    OBVIOUS
  <2>4. age = zero /\ connects = zero /\ posts = zero /\ useless = zero /\ visits = zero
    BY <1>1
  <2> HIDE DEF zero
  <2> QED
    BY <1>1, <1>2, <2>1, <2>2, <2>3, <2>4 DEF TypeOK
<1>4. Waiting = {}
  BY <1>1 DEF Waiting
<1>5. Lists(clients, Waiting)
  BY <1>2, <1>4 DEF Lists
<1>6. Served
  BY <1>1, <1>2 DEF Served
<1>7. \A r \in Requests : Untouched(r)
  BY <1>1 DEF Untouched, Fresh
<1> QED
  BY <1>1, <1>2, <1>3, <1>4, <1>5, <1>6, <1>7 DEF IInv, PostedOnce, Wires

\* asynchronous_request adds a client that nobody has visited.
LEMMA RequestKeeps ==
  ASSUME IInv, NEW r \in Requests, AsynchronousRequest(r)
  PROVE  IInv'
<1>1. /\ cursor = 0 /\ state[r] = "new" /\ clients' = Append(clients, Client(r))
      /\ state' = [state EXCEPT ![r] = "waiting"]
      /\ UNCHANGED <<cursor, called, done, left, crashed, age, connects, posts, useless, visits>>
  BY DEF AsynchronousRequest, history
<1>2. /\ TypeOK /\ Lists(clients, Waiting) /\ Served /\ Untouched(r)
      /\ \A q \in Requests : state[q] = "new" => Untouched(q)
      /\ \A q \in Waiting : Timed(q)
      /\ Wires
      /\ PostedOnce
  BY <1>1 DEF IInv
<1>3. /\ \A q \in Requests : state'[q] = IF q = r THEN "waiting" ELSE state[q]
      /\ state' \in [Requests -> {"new", "waiting", "answered", "failed"}]
  BY <1>1, <1>2, TypeElim
<1>4. r \notin Waiting /\ Waiting' = Waiting \cup {r}
  BY <1>1, <1>3 DEF Waiting
<1>5. /\ Lists(clients', Waiting') /\ DOMAIN clients' = 1 .. Len(clients) + 1
      /\ \A i \in DOMAIN clients : clients'[i] = clients[i]
      /\ clients'[Len(clients) + 1] = Client(r)
  BY <1>1, <1>2, <1>4, AppendLists
<1>6. TypeOK'
  BY <1>1, <1>2, <1>3, <1>5, TypeElim DEF TypeOK, Lists
<1>7. Served'
  BY <1>1, <1>2, <1>4 DEF Served, Untouched, Fresh
<1>8. \A q \in Requests : state'[q] = "new" => Untouched(q)'
  BY <1>1, <1>2, <1>3 DEF Untouched, Fresh
<1>9. \A q \in Waiting' : Timed(q)'
  <2>1. Timed(r)
    BY <1>2, Assumption, TypeElim DEF Untouched, Fresh, Timed
  <2>2. \A q \in Waiting' : Timed(q)
    BY <1>2, <1>4, <2>1
  <2> QED
    BY <1>1, <2>2 DEF Timed
<1>10. Wires'
  <2>1. Wire(Client(r))
    BY <1>2, ClientType DEF Wire, Untouched, OnWire
  <2>2. \A i \in DOMAIN clients' : i \in DOMAIN clients \/ i = Len(clients) + 1
    BY <1>2, <1>5, LenProperties DEF Lists
  <2>3. \A i \in DOMAIN clients' : Wire(clients'[i])
    BY <1>2, <1>5, <2>1, <2>2 DEF Wires
  <2> QED
    BY <1>1, <2>3 DEF Wires, Wire
<1>11. PostedOnce'
  BY <1>1, <1>2 DEF PostedOnce
<1> QED
  BY <1>5, <1>6, <1>7, <1>8, <1>9, <1>10, <1>11 DEF IInv

\* A new frame has served nobody yet.
LEMMA NewFrameKeeps ==
  ASSUME IInv, NewFrame
  PROVE  IInv'
<1>1. /\ cursor = 0 /\ called = Nodes /\ called' = {} /\ done' = FALSE
      /\ age' = [r \in Requests |-> IF r \in Waiting THEN age[r] + 1 ELSE age[r]]
      /\ visits' = [r \in Requests |-> 0]
      /\ UNCHANGED <<clients, cursor, left, state, crashed, connects, posts, useless>>
  BY DEF NewFrame
<1>2. /\ TypeOK /\ Lists(clients, Waiting) /\ Served
      /\ \A q \in Requests : state[q] = "new" => Untouched(q)
      /\ \A q \in Waiting : Timed(q)
      /\ Wires
      /\ PostedOnce
  BY DEF IInv
<1>3. Waiting' = Waiting /\ Lists(clients', Waiting')
  BY <1>1, <1>2 DEF Waiting
<1>4. /\ age' \in [Requests -> Nat] /\ visits' \in [Requests -> Nat]
      /\ \A q \in Requests : age'[q] = IF q \in Waiting THEN age[q] + 1 ELSE age[q]
      /\ \A q \in Requests : visits'[q] = 0
  BY <1>1, <1>2, TypeElim
<1>5. TypeOK'
  BY <1>1, <1>2, <1>4, TypeElim DEF TypeOK, Lists
<1>6. Served'
  BY <1>1, <1>4 DEF Served
<1>7. \A q \in Requests : state'[q] = "new" => Untouched(q)'
  BY <1>1, <1>2, <1>4 DEF Untouched, Fresh, Waiting
<1>8. done
  BY <1>1, <1>2, Assumption DEF Served
<1>9. ASSUME NEW q \in Waiting PROVE Timed(q)'
  <2>1. q \in Requests /\ Timed(q) /\ (visits[q] = 1 \/ Fresh(q))
    BY <1>1, <1>2, <1>8, <1>9 DEF Served, Waiting
  <2>2. left[q] \in Int /\ age[q] \in Nat /\ connects[q] \in Nat /\ Timeout \in Nat
    BY <1>2, <2>1, TypeElim, Assumption
  <2>3. age'[q] = age[q] + 1 /\ visits'[q] = 0 /\ left'[q] = left[q] /\ connects'[q] = connects[q]
    BY <1>1, <1>4, <1>9, <2>1
  <2>4. CASE visits[q] = 1
    BY <2>1, <2>2, <2>3, <2>4 DEF Timed
  <2>5. CASE Fresh(q)
    BY <2>1, <2>2, <2>3, <2>5 DEF Timed, Fresh
  <2> QED
    BY <2>1, <2>4, <2>5
<1>10. Wires'
  BY <1>1, <1>2 DEF Wires, Wire
<1>11. PostedOnce'
  BY <1>1, <1>2 DEF PostedOnce
<1> QED
  BY <1>3, <1>5, <1>6, <1>7, <1>9, <1>10, <1>11 DEF IInv

\* The steps that only begin and end the loop.
LEMMA LoopEndsKeep ==
  ASSUME IInv, EndProcess \/ \E n \in Nodes : Process(n)
  PROVE  IInv'
<1>1. UNCHANGED <<clients, left, state, crashed, age, connects, posts, useless, visits>>
  BY DEF EndProcess, Process, history
<1>2. /\ TypeOK /\ Lists(clients, Waiting) /\ Served
      /\ \A q \in Requests : state[q] = "new" => Untouched(q)
      /\ \A q \in Waiting : Timed(q)
      /\ Wires
      /\ PostedOnce
  BY DEF IInv
<1>3. clients \in Seq([queue : Seq(Requests), status : Status])
      /\ Len(clients) \in Nat /\ DOMAIN clients = 1 .. Len(clients)
  BY <1>2, LenProperties DEF Lists
<1>4. Waiting' = Waiting /\ Lists(clients', Waiting')
  BY <1>1, <1>2 DEF Waiting
<1>5. cursor' \in Nat /\ called' \subseteq Nodes /\ done' \in BOOLEAN
  <2>1. called \subseteq Nodes /\ done \in BOOLEAN
    BY <1>2, TypeElim
  <2>2. CASE EndProcess
    BY <2>1, <2>2 DEF EndProcess
  <2>3. CASE \E n \in Nodes : Process(n)
    <3>1. PICK n \in Nodes : called' = called \cup {n} /\ done' = TRUE /\ cursor' = IF done THEN 0 ELSE 1
      BY <2>3 DEF Process
    <3> QED
      BY <2>1, <3>1
  <2> QED
    BY <2>2, <2>3
<1>6. TypeOK'
  BY <1>1, <1>2, <1>3, <1>5, TypeElim DEF TypeOK
<1>7. Served'
  <2>1. CASE EndProcess
    <3>1. cursor > Len(clients) /\ cursor' = 0 /\ UNCHANGED <<called, done>>
      BY <2>1 DEF EndProcess
    <3>2. cursor > 0 /\ \A i \in DOMAIN clients : i < cursor
      BY <1>2, <1>3, <3>1, TypeElim
    <3>3. \A r \in Waiting : visits[r] = 1
      BY <1>2, <3>2 DEF Served, Lists
    <3> QED
      BY <1>1, <1>2, <1>4, <3>1, <3>3 DEF Served
  <2>2. CASE \E n \in Nodes : Process(n)
    <3>1. PICK n \in Nodes : Process(n)
      BY <2>2
    <3>2. /\ cursor = 0 /\ called' = called \cup {n} /\ done' = TRUE
          /\ cursor' = IF done THEN 0 ELSE 1
      BY <3>1 DEF Process
    <3>3. CASE done
      BY <1>1, <1>2, <1>4, <3>2, <3>3 DEF Served, Fresh
    <3>4. CASE ~done
      <4>1. \A i \in DOMAIN clients : visits[Of(clients[i])] = 0 /\ ~(i < 1)
        BY <1>2, <1>3, <3>4 DEF Served, Lists, Waiting
      <4> QED
        BY <1>1, <1>2, <3>2, <3>4, <4>1 DEF Served
    <3> QED
      BY <3>3, <3>4
  <2> QED
    BY <2>1, <2>2
<1>8. \A q \in Requests : state'[q] = "new" => Untouched(q)'
  BY <1>1, <1>2 DEF Untouched, Fresh
<1>9. \A q \in Waiting' : Timed(q)'
  BY <1>1, <1>2, <1>4 DEF Timed
<1>10. Wires'
  BY <1>1, <1>2 DEF Wires, Wire
<1>11. PostedOnce'
  BY <1>1, <1>2 DEF PostedOnce
<1> QED
  BY <1>4, <1>6, <1>7, <1>8, <1>9, <1>10, <1>11 DEF IInv

\* One round of the loop.
LEMMA ProcessClientKeeps ==
  ASSUME IInv, ProcessClient
  PROVE  IInv' /\ [Service!Next]_state
<1> DEFINE c == clients[cursor]
           r == Of(c)
           pending == c.status # "disconnected"
           now == IF pending THEN left[r] - 1 ELSE left[r]
<1>1. /\ TypeOK /\ Lists(clients, Waiting) /\ Served
      /\ \A q \in Requests : state[q] = "new" => Untouched(q)
      /\ \A q \in Waiting : Timed(q)
      /\ Wires /\ PostedOnce
  BY DEF IInv
<1>2. /\ clients \in Seq([queue : Seq(Requests), status : Status])
      /\ Len(clients) \in Nat /\ DOMAIN clients = 1 .. Len(clients)
      /\ cursor \in DOMAIN clients /\ cursor > 0
  BY <1>1, LenProperties DEF Lists, ProcessClient
<1>3. c.queue = <<r>> /\ r \in Waiting /\ r \in Requests /\ c.status \in Status
  <2>1. c \in [queue : Seq(Requests), status : Status]
    BY <1>2, ElementOfSeq
  <2>2. c.queue = <<r>> /\ r \in Waiting
    BY <1>1, <1>2 DEF Lists
  <2> QED
    BY <2>1, <2>2 DEF Waiting
<1>4. state[r] = "waiting" /\ visits[r] = 0 /\ done /\ Timed(r) /\ Wire(c)
  BY <1>1, <1>2, <1>3 DEF Served, Waiting, Wires
<1>a. PICK o \in ProcessSingle(r, c.status, now < 0) :
        \E new \in {{}} \cup (IF o.end = "waiting" THEN {} ELSE {{n} : n \in {m \in Requests : state[m] = "new"}}) :
        LET more == IF new = {} THEN clients ELSE Append(clients, Client(CHOOSE n \in new : TRUE))
            completed == o.queue = <<>>
        IN /\ clients' = IF completed THEN Without(more, cursor)
                         ELSE [more EXCEPT ![cursor] = [queue |-> o.queue, status |-> o.status]]
           /\ cursor' = NextIndex(cursor, completed)
           /\ left' = [left EXCEPT ![r] = now]
           /\ state' = [m \in Requests |-> IF m = r THEN o.end ELSE
                                           IF m \in new THEN "waiting" ELSE state[m]]
           /\ crashed' = o.crash
           /\ connects' = [connects EXCEPT ![r] = IF pending THEN @ ELSE @ + 1]
           /\ posts' = [posts EXCEPT ![r] = @ + o.post]
           /\ useless' = [useless EXCEPT ![r] = @ + o.other]
           /\ visits' = [visits EXCEPT ![r] = @ + 1]
  BY DEF ProcessClient, Of
<1>5. PICK new \in {{}} \cup (IF o.end = "waiting" THEN {} ELSE {{n} : n \in {m \in Requests : state[m] = "new"}}) :
        LET more == IF new = {} THEN clients ELSE Append(clients, Client(CHOOSE n \in new : TRUE))
            completed == o.queue = <<>>
        IN /\ clients' = IF completed THEN Without(more, cursor)
                         ELSE [more EXCEPT ![cursor] = [queue |-> o.queue, status |-> o.status]]
           /\ cursor' = NextIndex(cursor, completed)
           /\ left' = [left EXCEPT ![r] = now]
           /\ state' = [m \in Requests |-> IF m = r THEN o.end ELSE
                                           IF m \in new THEN "waiting" ELSE state[m]]
           /\ crashed' = o.crash
           /\ connects' = [connects EXCEPT ![r] = IF pending THEN @ ELSE @ + 1]
           /\ posts' = [posts EXCEPT ![r] = @ + o.post]
           /\ useless' = [useless EXCEPT ![r] = @ + o.other]
           /\ visits' = [visits EXCEPT ![r] = @ + 1]
  BY <1>a
<1>b. /\ o.end = "waiting" => new = {}
      /\ new = {} \/ \E n \in Requests : new = {n} /\ state[n] = "new"
  <2>1. CASE o.end = "waiting"
    BY <2>1
  <2>2. CASE o.end # "waiting"
    <3>1. new \in {{}} \cup {{n} : n \in {m \in Requests : state[m] = "new"}}
      BY <2>2
    <3> QED
      BY <2>2, <3>1
  <2> QED
    BY <2>1, <2>2
<1>6. UNCHANGED <<called, done, age>>
  BY DEF ProcessClient
<1>7. now \in Int /\ left[r] \in Int
  BY <1>1, <1>3, TypeElim
<1>8. /\ o.end \in {"waiting", "answered", "failed"} /\ o.crash \in BOOLEAN
      /\ o.post \in {0, 1} /\ o.other \in {0, 1}
      /\ o.end = "waiting" =>
           /\ o.queue = <<r>> /\ o.status \in Status
           /\ OnWire(c.status) + o.post <= OnWire(o.status) + o.other
           /\ ~(now < 0) \/ c.status = "disconnected"
      /\ o.end # "waiting" => o.queue = <<>> /\ o.post = 0
  <2> DEFINE timedOut == now < 0
  <2>1. timedOut \in BOOLEAN
    OBVIOUS
  <2>2. o \in ProcessSingle(r, c.status, timedOut)
    OBVIOUS
  <2> HIDE DEF timedOut, now, c, r
  <2>3. r \in Requests /\ c.status \in Status
    BY <1>3
  <2>4. /\ o.end \in {"waiting", "answered", "failed"} /\ o.crash \in BOOLEAN
        /\ o.post \in {0, 1} /\ o.other \in {0, 1}
        /\ o.end = "waiting" =>
             /\ o.queue = <<r>> /\ o.status \in Status
             /\ OnWire(c.status) + o.post <= OnWire(o.status) + o.other
             /\ ~timedOut \/ c.status = "disconnected"
        /\ o.end # "waiting" => o.queue = <<>> /\ o.post = 0
    BY <2>1, <2>2, <2>3, OutcomeOf
  <2> QED
    BY <2>4 DEF timedOut
<1> HIDE DEF r, now
<1>9. /\ \A q \in Requests :
           /\ left'[q] = IF q = r THEN now ELSE left[q]
           /\ connects'[q] = IF q = r THEN (IF pending THEN connects[r] ELSE connects[r] + 1) ELSE connects[q]
           /\ posts'[q] = IF q = r THEN posts[r] + o.post ELSE posts[q]
           /\ useless'[q] = IF q = r THEN useless[r] + o.other ELSE useless[q]
           /\ visits'[q] = IF q = r THEN 1 ELSE visits[q]
           /\ state'[q] = IF q = r THEN o.end ELSE IF q \in new THEN "waiting" ELSE state[q]
      /\ left' \in [Requests -> Int] /\ connects' \in [Requests -> Nat] /\ posts' \in [Requests -> Nat]
      /\ useless' \in [Requests -> Nat] /\ visits' \in [Requests -> Nat]
      /\ state' \in [Requests -> {"new", "waiting", "answered", "failed"}]
      /\ age' = age /\ crashed' \in BOOLEAN
  <2> DEFINE n == IF pending THEN connects[r] ELSE connects[r] + 1
  <2>1. /\ left \in [Requests -> Int] /\ connects \in [Requests -> Nat] /\ posts \in [Requests -> Nat]
        /\ useless \in [Requests -> Nat] /\ visits \in [Requests -> Nat]
        /\ state \in [Requests -> {"new", "waiting", "answered", "failed"}]
    BY <1>1, TypeElim
  <2>2. n \in Nat /\ posts[r] + o.post \in Nat /\ useless[r] + o.other \in Nat /\ visits[r] + 1 = 1
    BY <1>3, <1>4, <1>8, <2>1
  <2>3. connects' = [connects EXCEPT ![r] = n]
    BY <1>3, <1>5, <2>1
  <2>4. posts' = [posts EXCEPT ![r] = posts[r] + o.post] /\ useless' = [useless EXCEPT ![r] = useless[r] + o.other]
        /\ visits' = [visits EXCEPT ![r] = 1]
    BY <1>3, <1>5, <2>1, <2>2
  <2> HIDE DEF n
  <2>5. connects' \in [Requests -> Nat] /\ \A q \in Requests : connects'[q] = IF q = r THEN n ELSE connects[q]
    BY <1>3, <2>1, <2>2, <2>3
  <2>6. /\ posts' \in [Requests -> Nat] /\ useless' \in [Requests -> Nat] /\ visits' \in [Requests -> Nat]
        /\ \A q \in Requests : posts'[q] = IF q = r THEN posts[r] + o.post ELSE posts[q]
        /\ \A q \in Requests : useless'[q] = IF q = r THEN useless[r] + o.other ELSE useless[q]
        /\ \A q \in Requests : visits'[q] = IF q = r THEN 1 ELSE visits[q]
    BY <1>3, <2>1, <2>2, <2>4
  <2>7. /\ left' \in [Requests -> Int]
        /\ \A q \in Requests : left'[q] = IF q = r THEN now ELSE left[q]
    BY <1>3, <1>5, <1>7, <2>1
  <2>8. /\ state' \in [Requests -> {"new", "waiting", "answered", "failed"}]
        /\ \A q \in Requests : state'[q] = IF q = r THEN o.end ELSE IF q \in new THEN "waiting" ELSE state[q]
    BY <1>5, <1>8, <2>1
  <2> QED
    BY <1>5, <1>6, <1>8, <2>5, <2>6, <2>7, <2>8 DEF n
<1>10. /\ \A n \in new : n \in Requests /\ state[n] = "new" /\ Untouched(n) /\ n # r /\ n \notin Waiting
       /\ new \subseteq Requests /\ (new # {} => \E n : new = {n})
  BY <1>1, <1>4, <1>b DEF Waiting
<1>11. Waiting' = (IF o.end = "waiting" THEN Waiting ELSE (Waiting \cup new) \ {r})
  BY <1>4, <1>b, <1>8, <1>9, <1>10 DEF Waiting
\* Each client was there before, with its request unserved behind the cursor, or
\* is that of the new request, or the one that was served.
<1> DEFINE Old(d, i) == \E k \in DOMAIN clients : k # cursor /\ d = clients[k] /\ (i < cursor' <=> k < cursor)
           New(d, i) == d.status = "disconnected" /\ Of(d) \in new /\ ~(i < cursor')
           Same(d, i) == Of(d) = r /\ d.status = o.status /\ i < cursor' /\ o.end = "waiting"
<1>12. /\ Lists(clients', Waiting')
       /\ \A i \in DOMAIN clients' : Old(clients'[i], i) \/ New(clients'[i], i) \/ Same(clients'[i], i)
       /\ cursor' \in Nat /\ cursor' > 0
  <2>1. CASE o.end = "waiting"
    <3> DEFINE d == [queue |-> <<r>>, status |-> o.status]
               S == [queue : Seq(Requests), status : Status]
    <3>1. clients' = [clients EXCEPT ![cursor] = d] /\ cursor' = cursor + 1
      <4>1. o.queue = <<r>> /\ <<r>> # <<>> /\ new = {}
        BY <1>8, <1>b, <2>1, HeadOne
      <4> QED
        BY <1>5, <4>1 DEF NextIndex
    <3>2. d \in S /\ Of(d) = r /\ d.queue = <<r>> /\ d.status = o.status
      <4>1. <<r>> \in Seq(Requests)
        BY <1>3, SeqDef
      <4> QED
        BY <1>8, <2>1, <4>1, HeadOne DEF Of
    <3> HIDE DEF d, S
    <3>3. /\ clients' \in Seq(S) /\ DOMAIN clients' = DOMAIN clients
          /\ \A i \in DOMAIN clients : clients'[i] = IF i = cursor THEN d ELSE clients[i]
      <4>1. clients \in Seq(S) /\ cursor \in 1 .. Len(clients)
        BY <1>2 DEF S
      <4> QED
        BY <3>1, <3>2, <4>1, ExceptSeq
    <3>4. \A i \in DOMAIN clients : Of(clients'[i]) = Of(clients[i]) /\ clients'[i].queue = clients[i].queue
      BY <1>3, <3>2, <3>3 DEF r
    <3>5. Lists(clients', Waiting')
      BY <1>1, <1>11, <2>1, <3>3, <3>4 DEF Lists, S
    <3>6. \A i \in DOMAIN clients : i # cursor => (i < cursor' <=> i < cursor)
      BY <1>2, <3>1
    <3>7. \A i \in DOMAIN clients' : Old(clients'[i], i) \/ Same(clients'[i], i)
      BY <1>2, <2>1, <3>1, <3>2, <3>3, <3>6
    <3> QED
      BY <1>2, <3>1, <3>5, <3>7
  <2>2. CASE o.end # "waiting"
    <3> DEFINE more == IF new = {} THEN clients ELSE Append(clients, Client(CHOOSE n \in new : TRUE))
    <3>1. clients' = Without(more, cursor) /\ cursor' = cursor
      BY <1>5, <1>8, <2>2 DEF NextIndex
    <3>2. /\ Lists(more, Waiting \cup new) /\ Len(more) \in Nat /\ Len(clients) <= Len(more)
          /\ DOMAIN more = 1 .. Len(more)
          /\ \A i \in DOMAIN clients : more[i] = clients[i]
          /\ \A i \in DOMAIN more : i \in DOMAIN clients \/ (more[i].status = "disconnected" /\ Of(more[i]) \in new)
      <4>1. CASE new = {}
        BY <1>1, <1>2, <4>1
      <4>2. CASE new # {}
        <5>1. PICK n : new = {n}
          BY <1>10, <4>2
        <5>2. more = Append(clients, Client(n)) /\ n \in Requests /\ n \notin Waiting
          BY <1>10, <4>2, <5>1
        <5> HIDE DEF more
        <5>3. /\ Lists(more, Waiting \cup {n}) /\ DOMAIN more = 1 .. Len(clients) + 1
              /\ Len(more) = Len(clients) + 1
              /\ \A i \in DOMAIN clients : more[i] = clients[i]
              /\ more[Len(clients) + 1] = Client(n)
          BY <1>1, <5>2, AppendLists
        <5>4. \A i \in DOMAIN more : i \in DOMAIN clients \/ i = Len(clients) + 1
          BY <1>2, <5>3
        <5> QED
          BY <1>2, <5>1, <5>2, <5>3, <5>4, ClientType
      <4> QED
        BY <4>1, <4>2
    <3> HIDE DEF more
    <3>3. cursor \in DOMAIN more /\ Of(more[cursor]) = r
      BY <1>2, <3>2 DEF r
    <3>4. /\ Lists(clients', (Waiting \cup new) \ {r})
          /\ DOMAIN clients' = 1 .. Len(more) - 1
          /\ \A i \in DOMAIN clients' : clients'[i] = IF i < cursor THEN more[i] ELSE more[i + 1]
      BY <3>1, <3>2, <3>3, RemoveLists
    <3>5. ASSUME NEW i \in DOMAIN clients' PROVE Old(clients'[i], i) \/ New(clients'[i], i)
      <4> DEFINE k == IF i < cursor THEN i ELSE i + 1
      <4>1. /\ k \in DOMAIN more /\ k # cursor /\ clients'[i] = more[k]
            /\ (i < cursor <=> k < cursor)
        BY <1>2, <3>2, <3>4, <3>5
      <4> HIDE DEF k
      <4>2. CASE k \in DOMAIN clients
        BY <3>1, <3>2, <4>1, <4>2
      <4>3. CASE k \notin DOMAIN clients
        <5>1. ~(k < cursor)
          BY <1>2, <3>2, <4>1, <4>3
        <5> QED
          BY <3>1, <3>2, <4>1, <4>3, <5>1
      <4> QED BY <4>2, <4>3
    <3> QED
      BY <1>2, <1>11, <2>2, <3>1, <3>4, <3>5
  <2> QED
    BY <2>1, <2>2
<1>13. TypeOK'
  <2>1. called' \subseteq Nodes /\ done' \in BOOLEAN /\ age' \in [Requests -> Nat]
    BY <1>1, <1>6, TypeElim
  <2>2. clients' \in Seq([queue : Seq(Requests), status : Status])
    BY <1>12 DEF Lists
  <2> QED
    BY <1>9, <1>12, <2>1, <2>2 DEF TypeOK
<1>14. Served'
  <2>1. \A q \in Requests : visits'[q] <= 1
    BY <1>1, <1>9 DEF Served
  <2>2. ASSUME NEW i \in DOMAIN clients'
        PROVE  visits'[Of(clients'[i])] = IF i < cursor' THEN 1 ELSE 0
    <3>1. Of(clients'[i]) \in Requests
      BY <1>12 DEF Lists, Waiting
    <3>2. CASE Old(clients'[i], i)
      <4>1. PICK k \in DOMAIN clients : k # cursor /\ clients'[i] = clients[k] /\ (i < cursor' <=> k < cursor)
        BY <3>2
      <4>2. Of(clients[k]) # r /\ visits[Of(clients[k])] = IF k < cursor THEN 1 ELSE 0
        BY <1>1, <1>2, <4>1 DEF Lists, Served, r
      <4> QED
        BY <1>9, <3>1, <4>1, <4>2
    <3>3. CASE New(clients'[i], i)
      BY <1>9, <1>10, <3>1, <3>3 DEF Untouched, Fresh
    <3>4. CASE Same(clients'[i], i)
      BY <1>9, <3>1, <3>4
    <3> QED
      BY <1>12, <3>2, <3>3, <3>4
  <2> QED
    BY <1>1, <1>4, <1>6, <1>12, <2>1, <2>2 DEF Served
<1>15. \A q \in Requests : state'[q] = "new" => Untouched(q)'
  <2> SUFFICES ASSUME NEW q \in Requests, state'[q] = "new" PROVE Untouched(q)'
    OBVIOUS
  <2>1. q # r /\ q \notin new /\ state[q] = "new"
    BY <1>8, <1>9
  <2>2. Untouched(q)
    BY <1>1, <2>1
  <2>3. /\ left'[q] = left[q] /\ connects'[q] = connects[q] /\ posts'[q] = posts[q]
        /\ useless'[q] = useless[q] /\ visits'[q] = visits[q] /\ age' = age
    BY <1>9, <2>1
  <2> QED
    BY <2>2, <2>3 DEF Untouched, Fresh
<1>16. ASSUME NEW q \in Waiting' PROVE Timed(q)'
  <2>1. q \in Requests
    BY DEF Waiting
  <2>2. /\ left[q] \in Int /\ age[q] \in Nat /\ connects[q] \in Nat /\ visits[q] \in Nat /\ Timeout \in Nat
    BY <1>1, <2>1, TypeElim, Assumption
  <2>3. CASE q = r
    <3>1. o.end = "waiting"
      BY <1>11, <1>16, <2>3
    <3>2. /\ left'[q] = now /\ visits'[q] = 1 /\ age'[q] = age[q]
          /\ connects'[q] = IF pending THEN connects[q] ELSE connects[q] + 1
      BY <1>9, <2>1, <2>3
    <3>3. now = (IF pending THEN left[q] - 1 ELSE left[q]) /\ (pending => ~(now < 0))
      BY <1>8, <2>3, <3>1 DEF now
    <3>4. pending => connects[q] >= 1
      BY <1>4, <2>3 DEF Wire, r
    <3>5. Timed(q) /\ visits[q] = 0
      BY <1>4, <2>3
    <3> QED
      BY <1>7, <2>2, <3>2, <3>3, <3>4, <3>5 DEF Timed
  <2>4. CASE q # r
    <3>1. /\ left'[q] = left[q] /\ visits'[q] = visits[q] /\ age'[q] = age[q] /\ connects'[q] = connects[q]
      BY <1>9, <2>1, <2>4
    <3>2. CASE q \in Waiting
      BY <1>1, <3>1, <3>2 DEF Timed
    <3>3. CASE q \in new
      <4>1. left[q] = Timeout /\ age[q] = 0 /\ connects[q] = 0 /\ visits[q] = 0
        BY <1>10, <3>3 DEF Untouched, Fresh
      <4>2. Timed(q)
        BY <2>2, <4>1 DEF Timed
      <4> QED
        BY <3>1, <4>2 DEF Timed
    <3> QED
      BY <1>11, <1>16, <3>2, <3>3
  <2> QED
    BY <2>3, <2>4
<1>17. Wires'
  <2> SUFFICES ASSUME NEW i \in DOMAIN clients'
               PROVE  /\ posts'[Of(clients'[i])] <= useless'[Of(clients'[i])] + OnWire(clients'[i].status)
                      /\ clients'[i].status # "disconnected" => connects'[Of(clients'[i])] >= 1
    BY DEF Wires, Wire
  <2>1. Of(clients'[i]) \in Requests
    BY <1>12 DEF Lists, Waiting
  <2>2. CASE Old(clients'[i], i)
    <3>1. PICK k \in DOMAIN clients : k # cursor /\ clients'[i] = clients[k]
      BY <2>2
    <3>2. Of(clients[k]) # r /\ Wire(clients[k])
      BY <1>1, <1>2, <3>1 DEF Lists, Wires, r
    <3> QED
      BY <1>9, <2>1, <3>1, <3>2 DEF Wire
  <2>3. CASE New(clients'[i], i)
    BY <1>9, <1>10, <2>1, <2>3 DEF Untouched, Fresh, OnWire
  <2>4. CASE Same(clients'[i], i)
    <3>1. /\ posts'[r] = posts[r] + o.post /\ useless'[r] = useless[r] + o.other
          /\ connects'[r] = IF pending THEN connects[r] ELSE connects[r] + 1
      BY <1>3, <1>9
    <3>2. /\ posts[r] <= useless[r] + OnWire(c.status) /\ (pending => connects[r] >= 1)
      BY <1>4 DEF Wire, r
    <3>3. OnWire(c.status) + o.post <= OnWire(o.status) + o.other
      BY <1>8, <2>4
    <3>4. /\ posts[r] \in Nat /\ useless[r] \in Nat /\ connects[r] \in Nat
          /\ OnWire(c.status) \in Nat /\ OnWire(o.status) \in Nat
      BY <1>1, <1>3, TypeElim DEF OnWire
    <3>5. posts'[r] <= useless'[r] + OnWire(o.status) /\ connects'[r] >= 1
      BY <1>8, <3>1, <3>2, <3>3, <3>4
    <3> QED
      BY <2>4, <3>5
  <2> QED
    BY <1>12, <2>2, <2>3, <2>4
<1>18. PostedOnce'
  <2>1. posts[r] \in Nat /\ useless[r] \in Nat
    BY <1>1, <1>3, TypeElim
  <2>2. posts[r] + o.post <= 1 + useless[r] + o.other
    <3>1. posts[r] <= useless[r] + OnWire(c.status) /\ OnWire(c.status) \in {0, 1}
      BY <1>4 DEF Wire, r, OnWire
    <3>2. OnWire(o.status) \in {0, 1}
      BY DEF OnWire
    <3> QED
      BY <1>8, <2>1, <3>1, <3>2
  <2>3. \A q \in Requests : posts'[q] <= 1 + useless'[q]
    <3> SUFFICES ASSUME NEW q \in Requests PROVE posts'[q] <= 1 + useless'[q]
      OBVIOUS
    <3>1. CASE q = r
      BY <1>8, <1>9, <2>1, <2>2, <3>1
    <3>2. CASE q # r
      BY <1>1, <1>9, <3>2 DEF PostedOnce
    <3> QED BY <3>1, <3>2
  <2> QED
    BY <2>3 DEF PostedOnce
<1>19. [Service!Next]_state
  <2>1. CASE o.end = "waiting"
    <3>1. new = {}
      BY <1>b, <2>1
    <3>2. state \in [Requests -> {"new", "waiting", "answered", "failed"}] /\ state' \in [Requests -> {"new", "waiting", "answered", "failed"}]
      BY <1>1, <1>9, TypeElim
    <3>3. \A q \in Requests : state'[q] = state[q]
      BY <1>4, <1>9, <2>1, <3>1
    <3>4. state' = state
      BY <3>2, <3>3
    <3> QED
      BY <3>4
  <2>2. CASE o.end # "waiting"
    <3> DEFINE outcome == [q \in {r} |-> o.end]
    <3>1. outcome \in [{r} -> {"answered", "failed"}] /\ outcome[r] = o.end
      BY <1>8, <2>2
    <3>2. state' = [q \in Requests |-> IF q \in new THEN "waiting" ELSE
                                       IF q \in {r} THEN outcome[q] ELSE state[q]]
      BY <1>5, <1>10, <3>1
    <3> HIDE DEF outcome
    <3>3. Service!Step(new, {r})
      BY <1>4, <1>10, <3>1, <3>2 DEF Service!Step
    <3>4. Service!End(r)
      BY <1>10, <3>3 DEF Service!End
    <3> QED
      BY <1>3, <3>4 DEF Service!Next
  <2> QED
    BY <2>1, <2>2
<1> QED
  BY <1>12, <1>13, <1>14, <1>15, <1>16, <1>17, <1>18, <1>19 DEF IInv

-----------------------------------------------------------------------------
\* No step breaks the invariant.
LEMMA Inductive == IInv /\ [Next]_vars => IInv'
<1> SUFFICES ASSUME IInv, [Next]_vars PROVE IInv'
  OBVIOUS
<1>1. CASE UNCHANGED vars
  BY <1>1 DEF IInv, TypeOK, Waiting, Served, Untouched, Fresh, Timed, Wires, Wire, PostedOnce, vars
<1> QED
  BY <1>1, RequestKeeps, NewFrameKeeps, LoopEndsKeep, ProcessClientKeeps DEF Next, Loop

\* So it always holds.
LEMMA Invariant == Spec => []IInv
BY InitInv, Inductive, PTL DEF Spec

\* For any number of requests and nodes and any timeout, a request times out
\* neither before its time, however many nodes drive the shared client, nor more
\* than its connections late (RpcMultiHttpRequestClient::process,
\* rpc_multi_http_request_client.cpp:22-44).
THEOREM RequestsEndOnTime == Spec => []OnTime
<1>1. IInv => OnTime
  <2> SUFFICES ASSUME IInv, NEW r \in Waiting
               PROVE  left[r] + age[r] >= Timeout /\ age[r] <= Timeout + connects[r] + 1
    BY DEF OnTime
  <2>1. r \in Requests /\ Timed(r) /\ visits[r] <= 1
    BY DEF IInv, Waiting, Served
  <2>2. /\ left[r] \in Int /\ age[r] \in Nat /\ connects[r] \in Nat /\ visits[r] \in Nat /\ Timeout \in Nat
    BY <2>1, TypeElim, Assumption DEF IInv
  <2>3. \E late \in {0, 1} : age[r] + visits[r] - connects[r] + left[r] - Timeout = late
    BY <2>1 DEF Timed
  <2>4. left[r] >= 0 /\ (visits[r] = 1 => connects[r] >= 1)
    BY <2>1 DEF Timed
  <2>5. visits[r] = 0 \/ visits[r] = 1
    BY <2>1, <2>2
  <2> QED
    BY <2>2, <2>3, <2>4, <2>5
<1> QED
  BY <1>1, Invariant, PTL

\* A request goes on the wire once, and once more at most for each response that
\* has no body or is not its own (process_body and process_message_sending,
\* rpc_single_http_request_client.cpp).
THEOREM RequestsArePostedOnce == Spec => []PostedOnce
<1>1. IInv => PostedOnce
  BY DEF IInv
<1> QED
  BY <1>1, Invariant, PTL

\* The loop of process() serves every client once a frame, although it removes
\* clients from the list it runs over, callbacks add to it and every node calls it.
THEOREM EveryClientIsServed == Spec => []ServedOncePerFrame
<1>1. IInv => ServedOncePerFrame
  <2> SUFFICES ASSUME IInv
               PROVE  cursor > Len(clients) => \A r \in Waiting : visits[r] = 1
    BY DEF IInv, Served, ServedOncePerFrame
  <2>1. Len(clients) \in Nat /\ DOMAIN clients = 1 .. Len(clients) /\ cursor \in Nat
    BY LenProperties, TypeElim DEF IInv, Lists
  <2>2. cursor > Len(clients) => cursor > 0 /\ \A i \in DOMAIN clients : i < cursor
    BY <2>1
  <2> QED
    BY <2>2 DEF IInv, Lists, Served
<1> QED
  BY <1>1, Invariant, PTL

\* The shared client implements the request/reply service as far as safety goes:
\* a request ends at most once, and only one that was made (the liveness of
\* IsService is model-checked).
THEOREM ImplementsService == Spec => Service!Init /\ [][Service!Next]_state
<1>1. Init => Service!Init
  BY DEF Init, Service!Init
<1>2. IInv /\ [Next]_vars => [Service!Next]_state
  <2> SUFFICES ASSUME IInv, Next PROVE [Service!Next]_state
    BY DEF vars
  <2>1. ASSUME NEW r \in Requests, AsynchronousRequest(r) PROVE Service!Request(r)
    <3>1. state[r] = "new" /\ state' = [state EXCEPT ![r] = "waiting"]
      BY <2>1 DEF AsynchronousRequest
    <3>2. state' = [q \in Requests |-> IF q \in {r} THEN "waiting" ELSE state[q]]
      BY <3>1, TypeElim DEF IInv
    <3>3. [q \in {} |-> "failed"] \in [{} -> {"answered", "failed"}]
      OBVIOUS
    <3> QED
      BY <3>1, <3>2, <3>3 DEF Service!Request, Service!Step
  <2>2. CASE NewFrame \/ EndProcess \/ \E n \in Nodes : Process(n)
    BY <2>2 DEF NewFrame, EndProcess, Process
  <2> QED
    BY <2>1, <2>2, ProcessClientKeeps DEF Next, Loop, Service!Next
<1> QED
  BY <1>1, <1>2, Invariant, PTL DEF Spec
=============================================================================
