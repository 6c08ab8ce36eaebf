---------------------------- MODULE TxConfirmation ----------------------------
(***************************************************************************)
(* How a Transaction tells that it was processed, confirmed and finalized  *)
(* (src/src/transaction/transaction.cpp): it subscribes to its signature   *)
(* for the levels whose signals are connected to, when the answer to send  *)
(* comes and again in _process, and emits the signal when the node         *)
(* notifies it.  The web socket client is taken to be reliable here; what  *)
(* it does when it is not is the matter of WsClient.  The program sends    *)
(* and edits whenever it likes: with an answer to come, with levels        *)
(* awaited and announcements open, and without an edit, which leaves       *)
(* result_signature in place.  It awaits a level of the last send before   *)
(* that is announced (SKILL.md:230-233): the code never answers an await   *)
(* that comes later.                                                       *)
(***************************************************************************)
EXTENDS Integers, FiniteSetsExt

CONSTANTS
  Levels,   \* of 1, 2, 3: processed, confirmed, finalized
  MaxSends  \* bound on the calls of send

ASSUME Assumption == Levels \subseteq 1 .. 3 /\ MaxSends \in Nat

Sigs == 1 .. MaxSends \* send number s gets signature s; 0 is the empty signature
Subscriptions == Levels \X Sigs

VARIABLES
  tx,   \* the fields of Transaction: see TypeOK
  prog, \* the program: for each level the send a coroutine awaits it for, or 0;
        \* the levels with a function connected for good; whether it has edited
        \* the transaction since the last send or answer; history: the levels
        \* crossed and dropped, see Crossed and Dropped
  subs, \* how many subscriptions of a level and signature are open
  node  \* the node: sends it has seen, those it has yet to answer, those whose
        \* acceptance the transaction was told of, the levels they have reached,
        \* and how often a level of a signature was announced

vars == <<tx, prog, subs, node>>

-----------------------------------------------------------------------------
\* get_signal_connection_list(l).size()
Connections(l) == (IF prog.waits[l] # 0 THEN 1 ELSE 0) + (IF l \in prog.handlers THEN 1 ELSE 0)

\* void subscribe_to_signature(level), for some levels of the signature of t
Subscribe(t, ls) ==
  /\ tx' = [t EXCEPT !.active = @ + Cardinality(ls)]
  /\ subs' = [x \in Subscriptions |-> subs[x] + IF x[1] \in ls /\ x[2] = t.result THEN 1 ELSE 0]

\* Mutant: the old signature stays.
KeepSignature(t) == t

\* void reset_state()
ResetState(t) == [t EXCEPT !.result = 0]

\* Levels for which something of an earlier send is still to come when the next one is
\* made: the level is awaited or subscribed to, the answer is out, or the transaction
\* was not edited and holds the earlier signature.
Crossed ==
  {l \in Levels : \/ prog.waits[l] # 0 \/ node.wire # {} \/ ~prog.edited
                  \/ \E s \in Sigs : subs[<<l, s>>] # 0}

\* void send(), which connects send_callback, or leaves it connected
Send ==
  /\ node.sends < MaxSends
  /\ tx' = [tx EXCEPT !.sending = TRUE]
  /\ prog' = [prog EXCEPT !.edited = FALSE, !.crossed = Crossed]
  /\ node' = [node EXCEPT !.sends = @ + 1, !.wire = @ \cup {node.sends + 1}]
  /\ UNCHANGED subs

\* Awaited levels of an accepted transaction that _process has not seen yet.
Dropped == {l \in Levels : prog.waits[l] \in node.accepted /\ tx.connections[l] = 0}

\* set_instructions, add_instruction, set_payer
Edit ==
  /\ prog' = [prog EXCEPT !.edited = TRUE, !.dropped = @ \cup Dropped]
  /\ tx' = ResetState(tx)
  /\ UNCHANGED <<subs, node>>

\* void copy_connection_state()
CopyConnectionState(t) == [t EXCEPT !.connections = [l \in Levels |-> Connections(l)]]

Connected(t) == {l \in Levels : t.connections[l] # 0}

\* Mutant: nothing is subscribed to when the answer comes.
AnsweredOnly(t) == Subscribe(CopyConnectionState(t), {})

\* What send_callback does when it has a result.
HasResult(t) == LET c == CopyConnectionState(t) IN Subscribe(c, Connected(c))

\* void send_callback(error, params) on the answer to send s, a result or an error of
\* network or node; it is a one-shot handler, which hears the first answer.
SendCallback(s, accepted) ==
  /\ s \in node.wire
  /\ IF tx.sending /\ accepted
     THEN /\ HasResult([tx EXCEPT !.sending = FALSE, !.result = s])
          /\ prog' = [prog EXCEPT !.edited = FALSE]
     ELSE tx' = [tx EXCEPT !.sending = FALSE] /\ UNCHANGED <<prog, subs>>
  /\ node' = [node EXCEPT !.wire = @ \ {s},
                          !.accepted = IF tx.sending /\ accepted THEN @ \cup {s} ELSE @]

\* Mutant: the new connections are not counted.
DetectUncounted ==
  /\ tx.result # 0
  /\ LET new == {l \in Levels : Connections(l) # 0 /\ tx.connections[l] = 0}
     IN new # {} /\ Subscribe(tx, new)
  /\ UNCHANGED <<prog, node>>

\* The part of _process that detects new connections.
Detect ==
  /\ tx.result # 0
  /\ LET new == {l \in Levels : Connections(l) # 0 /\ tx.connections[l] = 0}
     IN /\ new # {}
        /\ Subscribe([tx EXCEPT !.connections = [l \in Levels |-> IF l \in new THEN Connections(l) ELSE @[l]]], new)
  /\ UNCHANGED <<prog, node>>

\* The counter of an _emit_..._callback.
Ended(t) == [t EXCEPT !.active = @ - 1]

\* The node notifies, once, of a level that is reached; a callback emits the
\* signal, whatever the present signature is, and the coroutine goes on.
Notify(l, s) ==
  /\ subs[<<l, s>>] > 0 /\ node.reached[s] >= l
  /\ subs' = [subs EXCEPT ![<<l, s>>] = @ - 1]
  /\ tx' = Ended(tx)
  /\ prog' = [prog EXCEPT !.waits[l] = 0, !.dropped = @ \ {l}]
  /\ node' = [node EXCEPT !.heard[<<l, s>>] = @ + 1]

-----------------------------------------------------------------------------
\* await tx.processed, and so on, for the last send, before it is announced
Await(l) ==
  /\ prog.waits[l] = 0 /\ node.sends > 0 /\ ~prog.edited
  /\ node.heard[<<l, node.sends>>] = 0
  /\ node.sends \in node.wire \cup node.accepted \* the last send has not failed
  /\ prog' = [prog EXCEPT !.waits[l] = node.sends]
  /\ UNCHANGED <<tx, subs, node>>

\* tx.connect("processed", ...), and so on
Handle(l) ==
  /\ l \notin prog.handlers /\ prog' = [prog EXCEPT !.handlers = @ \cup {l}]
  /\ UNCHANGED <<tx, subs, node>>

\* A transaction the node has seen reaches the next level, even if the answer is lost.
Reach(s) ==
  /\ s <= node.sends /\ node.reached[s] < 3
  /\ node' = [node EXCEPT !.reached[s] = @ + 1]
  /\ UNCHANGED <<tx, prog, subs>>

Init ==
  /\ tx = [result |-> 0, connections |-> [l \in Levels |-> 0], sending |-> FALSE, active |-> 0]
  /\ prog = [waits |-> [l \in Levels |-> 0], handlers |-> {}, edited |-> TRUE,
             crossed |-> {}, dropped |-> {}]
  /\ subs = [x \in Subscriptions |-> 0]
  /\ node = [sends |-> 0, wire |-> {}, accepted |-> {}, reached |-> [s \in Sigs |-> 0],
             heard |-> [x \in Subscriptions |-> 0]]

Answered == \E s \in Sigs, accepted \in BOOLEAN : SendCallback(s, accepted)

Next ==
  \/ Send \/ Edit \/ Detect
  \/ Answered
  \/ \E l \in Levels : Await(l) \/ Handle(l) \/ \E s \in Sigs : Notify(l, s)
  \/ \E s \in Sigs : Reach(s)

Spec == Init /\ [][Next]_vars

\* Frames go on, requests are answered or time out, and the node finalizes what
\* it has accepted and notifies its subscribers.
FairSpec ==
  /\ Spec /\ WF_vars(Detect) /\ WF_vars(Answered)
  /\ \A s \in Sigs : WF_vars(s \in node.accepted /\ Reach(s)) /\ \A l \in Levels : WF_vars(Notify(l, s))

-----------------------------------------------------------------------------
\* Types; active_subscriptions counts the open subscriptions, and so never wraps.
TypeOK ==
  /\ tx \in [result : {0} \cup Sigs, connections : [Levels -> 0 .. 2], sending : BOOLEAN, active : Nat]
  /\ prog \in [waits : [Levels -> {0} \cup Sigs], handlers : SUBSET Levels, edited : BOOLEAN,
              crossed : SUBSET Levels, dropped : SUBSET Levels]
  /\ subs \in [Subscriptions -> Nat]
  /\ node \in [sends : {0} \cup Sigs, wire : SUBSET Sigs, accepted : SUBSET Sigs, reached : [Sigs -> 0 .. 3],
              heard : [Subscriptions -> Nat]]
  /\ tx.active = MapThenSumSet(LAMBDA x : subs[x], Subscriptions)

\* A level of a signature is announced once: the subscriptions made on the
\* answer and those _process makes later never double.
ToldOnce == \A x \in Subscriptions : subs[x] + node.heard[x] <= 1

\* A coroutine that awaits a level goes on only when a transaction this object was told
\* is accepted has reached the level, and only when its own has, if nothing of an earlier
\* send was still to come at that level when it was sent (Crossed).  If it was, a
\* callback announces whatever signature it was subscribed for.
AwaitIsTrue ==
  [][\A l \in Levels : prog.waits[l] # 0 /\ prog'.waits[l] = 0 =>
       \E s \in node.accepted : /\ node.reached[s] >= l
                                /\ l \notin prog.crossed => s = prog.waits[l]]_vars

\* A coroutine that awaits a level of an accepted transaction goes on, whether
\* it connected before the answer, with it or in a later frame, unless the transaction
\* was edited before the frame that would have seen it (Dropped).
EveryAwaitEnds ==
  \A l \in Levels : \A s \in Sigs :
    prog.waits[l] = s /\ s \in node.accepted ~> prog.waits[l] # s \/ l \in prog.dropped
=============================================================================
