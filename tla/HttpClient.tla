----------------------------- MODULE HttpClient -----------------------------
(***************************************************************************)
(* The http client every SolanaClient of a program shares                  *)
(* (src/src/solana_client/rpc_{multi,single}_http_request_client.cpp): a   *)
(* list of single clients, one per request, each of them driven once a     *)
(* frame through Godot's HTTPClient, whose poll may move it to any state   *)
(* the library reaches from the present one.                               *)
(***************************************************************************)
EXTENDS Integers, Sequences, FiniteSets

CONSTANTS
  Requests,      \* request ids; make_rpc_dict never gives one twice
  Nodes,         \* SolanaClient nodes in the scene tree
  Timeout,       \* frames in DEFAULT_REQUEST_TIMEOUT
  Replies,       \* what the node may answer, of Bodies
  ConnectErrors  \* TRUE: connect_to_host may refuse an URL

\* A response to the request, one with another id or none, no JSON dictionary,
\* or a response without a body.
Bodies == {"mine", "foreign", "garbage", "empty"}

ASSUME Assumption ==
  /\ IsFiniteSet(Requests) /\ IsFiniteSet(Nodes) /\ Nodes # {}
  /\ Timeout \in Nat
  /\ Replies \subseteq Bodies
  /\ ConnectErrors \in BOOLEAN

VARIABLES
  clients,  \* requests: the list of single clients [queue, status]
  cursor,   \* i in the loop of process(), 0 outside of it
  called,   \* nodes whose _process ran in this frame
  done,     \* last_processed_frame is this frame
  left,     \* timeout of each request, as decremented so far
  state,    \* of each request: "new", "waiting", "answered" or "failed"
  crashed,  \* the queue of a single client was read or popped when empty
  age,      \* history: frames a request has been waiting
  connects, \* history: connections made for it
  posts,    \* history: times it was put on the wire
  useless,  \* history: responses it got that had no body, another id or none
  visits    \* history: times its client was processed in this frame

vars == <<clients, cursor, called, done, left, state, crashed, age, connects, posts, useless, visits>>
history == <<age, connects, posts, useless, visits>>

Waiting == {r \in Requests : state[r] = "waiting"}
Client(r) == [queue |-> <<r>>, status |-> "disconnected"]

Without(s, i) == [j \in 1 .. Len(s) - 1 |-> IF j < i THEN s[j] ELSE s[j + 1]]

-----------------------------------------------------------------------------
(* Godot's HTTPClient.                                                     *)

\* poll() in a status
Poll(status) ==
  CASE status = "connecting" -> {"connecting", "connected", "error"}
    [] status = "connected"  -> {"connected", "error"}
    [] status = "requesting" ->
         {"requesting", "body", "error"} \cup (IF "empty" \in Replies THEN {"connected"} ELSE {})
    [] status = "body"       -> {"body", "error"}
    [] OTHER                 -> {status}

\* get_status() after the last chunk of a body: the node may keep the connection.
AfterBody == {"connected", "disconnected"}

-----------------------------------------------------------------------------
(* One single client: the ways RpcSingleHttpRequestClient::process may go  *)
(* from status s with request r at the front, as the client it leaves and  *)
(* what becomes of r.                                                      *)

Stays(r, s) == [queue |-> <<r>>, status |-> s, end |-> "waiting", post |-> 0, other |-> 0, crash |-> FALSE]
\* Mutant: the request is not popped.
FinalizeKeeps(r, how) ==
  [queue |-> <<r>>, status |-> "disconnected", end |-> how, post |-> 0, other |-> 0, crash |-> FALSE]

\* finalize_request and finalize_faulty: close, call back, pop.
Finalize(r, how) == [queue |-> <<>>, status |-> "disconnected", end |-> how, post |-> 0, other |-> 0, crash |-> FALSE]

\* void process_message_sending()
ProcessMessageSending(r) ==
  {[Stays(r, "requesting") EXCEPT !.post = 1], Finalize(r, "failed")}

\* Mutant: a response that is no JSON is asked for again.
BodyAsksAgain(r) ==
  {Stays(r, "body"), Finalize(r, "answered")} \cup {Stays(r, s) : s \in AfterBody}

\* void process_body(), when the whole body has arrived or more is to come
ProcessBody(r) ==
  {Stays(r, "body")}
  \cup (IF "garbage" \in Replies THEN {Finalize(r, "failed")} ELSE {})
  \cup (IF "mine" \in Replies THEN {Finalize(r, "answered")} ELSE {})
  \cup (IF "foreign" \in Replies THEN {[Stays(r, s) EXCEPT !.other = 1] : s \in AfterBody} ELSE {})

\* the switch over the status after poll()
Dispatch(r, s) ==
  CASE s \in {"connecting", "requesting"} -> {Stays(r, s)}
    [] s = "connected" -> ProcessMessageSending(r)
    [] s = "body" -> ProcessBody(r)
    [] OTHER -> {Finalize(r, "failed")}

PollAndDispatch(r, s) ==
  LET Empty(p) == IF s = "requesting" /\ p = "connected" THEN 1 ELSE 0
  IN UNION {{[o EXCEPT !.other = @ + Empty(p)] : o \in Dispatch(r, p)} : p \in Poll(s)}

\* void initiate_connection(); when it fails the request is popped and process
\* goes on to the default branch, which pops the queue once more.
InitiateConnection(r) ==
  PollAndDispatch(r, "connecting")
  \cup (IF ConnectErrors THEN {[Finalize(r, "failed") EXCEPT !.crash = TRUE]} ELSE {})

\* void process(delta), of a client whose queue is not empty
ProcessSingle(r, s, timedOut) ==
  IF s = "disconnected" THEN InitiateConnection(r)
  ELSE IF timedOut THEN {Finalize(r, "failed")}
  ELSE PollAndDispatch(r, s)

-----------------------------------------------------------------------------
(* The shared client.                                                      *)

Init ==
  /\ clients = <<>> /\ cursor = 0 /\ called = {} /\ done = FALSE
  /\ left = [r \in Requests |-> Timeout]
  /\ state = [r \in Requests |-> "new"]
  /\ crashed = FALSE
  /\ age = [r \in Requests |-> 0] /\ connects = [r \in Requests |-> 0]
  /\ posts = [r \in Requests |-> 0] /\ useless = [r \in Requests |-> 0]
  /\ visits = [r \in Requests |-> 0]

\* Error/void asynchronous_request(...), called between two node callbacks
AsynchronousRequest(r) ==
  /\ ~crashed /\ cursor = 0 /\ state[r] = "new"
  /\ clients' = Append(clients, Client(r))
  /\ state' = [state EXCEPT ![r] = "waiting"]
  /\ UNCHANGED <<cursor, called, done, left, crashed, history>>

\* A new frame, when the _process of every node has run.
NewFrame ==
  /\ ~crashed /\ cursor = 0 /\ called = Nodes
  /\ called' = {} /\ done' = FALSE
  /\ age' = [r \in Requests |-> IF r \in Waiting THEN age[r] + 1 ELSE age[r]]
  /\ visits' = [r \in Requests |-> 0]
  /\ UNCHANGED <<clients, cursor, left, state, crashed, connects, posts, useless>>

\* SolanaClient::_process calls process(delta), which works once a frame.
Process(n) ==
  /\ ~crashed /\ cursor = 0 /\ n \notin called
  /\ called' = called \cup {n} /\ done' = TRUE
  /\ cursor' = IF done THEN 0 ELSE 1
  /\ UNCHANGED <<clients, left, state, crashed, history>>

\* Mutant: the loop goes on behind a client that moved up.
NextIndexSkips(i, completed) == i + 1

\* pop_at(i) moves the rest of the list up, i-- undoes the loop's i++.
NextIndex(i, completed) == IF completed THEN i ELSE i + 1

\* One round of the loop.  The callback of a request that ends may make another
\* request, which is appended before the client that has completed is removed.
ProcessClient ==
  /\ ~crashed /\ cursor \in DOMAIN clients
  /\ LET c == clients[cursor]
         r == Head(c.queue)
         pending == c.status # "disconnected"
         now == IF pending THEN left[r] - 1 ELSE left[r]
     IN \E o \in ProcessSingle(r, c.status, now < 0) :
          \E new \in {{}} \cup (IF o.end = "waiting" THEN {} ELSE {{n} : n \in {m \in Requests : state[m] = "new"}}) :
            LET more == IF new = {} THEN clients ELSE Append(clients, Client(CHOOSE n \in new : TRUE))
                completed == o.queue = <<>>
            IN /\ clients' = IF completed THEN Without(more, cursor)
                             ELSE [more EXCEPT ![cursor] = [queue |-> o.queue, status |-> o.status]]
               /\ cursor' = NextIndex(cursor, completed)
               /\ left' = [left EXCEPT ![r] = now]
               /\ state' = [m \in Requests |-> IF m = r THEN o.end ELSE
                                               IF m \in new THEN "waiting" ELSE state[m]]
               /\ crashed' = o.crash
               /\ connects' = [connects EXCEPT ![r] = IF pending THEN @ ELSE @ + 1]
               /\ posts' = [posts EXCEPT ![r] = @ + o.post]
               /\ useless' = [useless EXCEPT ![r] = @ + o.other]
               /\ visits' = [visits EXCEPT ![r] = @ + 1]
  /\ UNCHANGED <<called, done, age>>

\* The loop ends behind the last client.
EndProcess ==
  /\ ~crashed /\ cursor > Len(clients)
  /\ cursor' = 0
  /\ UNCHANGED <<clients, called, done, left, state, crashed, history>>

Loop == ProcessClient \/ EndProcess

Next ==
  \/ \E r \in Requests : AsynchronousRequest(r)
  \/ NewFrame
  \/ \E n \in Nodes : Process(n)
  \/ Loop

\* The engine draws frame after frame and calls every node in each; a chunk of
\* a body may come at any time, so that only the timeout ends a silent request.
Spec ==
  /\ Init /\ [][Next]_vars
  /\ WF_vars(NewFrame) /\ WF_vars(Loop) /\ \A n \in Nodes : WF_vars(Process(n))

-----------------------------------------------------------------------------
(* Properties.                                                             *)

Status == {"disconnected", "connecting", "connected", "requesting", "body"}
TypeOK ==
  /\ clients \in Seq([queue : Seq(Requests), status : Status])
  /\ cursor \in Nat /\ called \subseteq Nodes /\ done \in BOOLEAN /\ crashed \in BOOLEAN
  /\ left \in [Requests -> Int]
  /\ state \in [Requests -> {"new", "waiting", "answered", "failed"}]
  /\ {age, connects, posts, useless, visits} \subseteq [Requests -> Nat]

\* The loop serves every client once a frame, although it removes clients from
\* the list it runs over, callbacks add to it, and every node calls it.
ServedOncePerFrame ==
  /\ \A r \in Requests : visits[r] <= 1
  /\ cursor > Len(clients) => \A r \in Waiting : visits[r] = 1

\* A request does not time out before its time (each frame counts at most once,
\* however many nodes drive the shared client), nor long after it (only frames
\* that (re)connect are not counted).
OnTime ==
  \A r \in Waiting : left[r] + age[r] >= Timeout /\ age[r] <= Timeout + connects[r] + 1

\* A request goes on the wire once, and once more only for every response that
\* has no body or is another's (the request is kept, and its connection is ready
\* to send): a transaction whose answer is late or garbled is not sent twice.
PostedOnce == \A r \in Requests : posts[r] <= 1 + useless[r]

\* A request that cannot connect is reported once and popped once; no queue is
\* read or popped when it is empty.
NoBadPop == ~crashed

Service == INSTANCE RequestReply WITH Requests <- Requests, state <- state
\* The shared client implements the request/reply service: a request that is made
\* ends, once, with an answer or an error, and one that is not made does not.
IsService == Service!Spec
=============================================================================
