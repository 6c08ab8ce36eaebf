---------------------------- MODULE RequestReply ----------------------------
(***************************************************************************)
(* What the http client promises to the objects that send RPC requests     *)
(* through it: every request ends once, with the node's answer or with an  *)
(* error, and it does end (the service Transaction counts on in Answer).   *)
(***************************************************************************)
CONSTANT Requests \* the requests ever made, by their JSON-RPC id

VARIABLE state    \* of each request: "new", "waiting", "answered" or "failed"

Init == state = [r \in Requests |-> "new"]

\* Requests of R are made while D end: a handler may send further requests.
Step(R, D) ==
  /\ \A r \in R : state[r] = "new"
  /\ \A r \in D : state[r] = "waiting"
  /\ \E outcome \in [D -> {"answered", "failed"}] :
       state' = [r \in Requests |-> IF r \in R THEN "waiting" ELSE
                                    IF r \in D THEN outcome[r] ELSE state[r]]

Request(r) == Step({r}, {})
End(r) == Step({}, {r}) \/ \E n \in Requests : Step({n}, {r})

Next == \E r \in Requests : Request(r) \/ End(r)

Spec == Init /\ [][Next]_state /\ \A r \in Requests : WF_state(End(r))
=============================================================================
