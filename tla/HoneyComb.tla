----------------------------- MODULE HoneyComb -----------------------------
(***************************************************************************)
(* The HoneyComb node (src/src/honeycomb/honeycomb.cpp): one query at a    *)
(* time over an HTTPRequest child that is in the tree only while it works. *)
(* The arguments of a query are collected in a member, which the response  *)
(* clears and a query that cannot be sent does not.                        *)
(***************************************************************************)
EXTENDS HoneyCombApi, Naturals, Sequences

CONSTANTS
  Asked,    \* the queries the application uses, of DOMAIN Queries
  MaxUnsent \* bound: queries that cannot be sent between two responses

None == [method |-> "none", args |-> <<>>]

VARIABLES
  in_tree,     \* is_inside_tree()
  valid_url,   \* honeycomb_url can be parsed
  args,        \* HoneyComb::args: the calls whose arguments it holds
  method_name,
  pending,
  wire,        \* what the HTTPRequest sent and has no response to
  unsent,      \* history: the calls that could not be sent since the last response
  lost         \* history: the node left the tree while a query was pending

vars == <<in_tree, valid_url, args, method_name, pending, wire, unsent, lost>>

TypeOK ==
  /\ {in_tree, valid_url, pending, lost} \subseteq BOOLEAN
  /\ method_name \in Asked \cup {"none"}
  /\ \A s \in {args, unsent, wire.args} : \A i \in DOMAIN s : s[i].query \in Asked

Init ==
  /\ in_tree = TRUE /\ valid_url = TRUE
  /\ args = <<>> /\ method_name = "none"
  /\ pending = FALSE /\ wire = None
  /\ unsent = <<>> /\ lost = FALSE

\* add_arg, for each argument the call has
AddArgs(query, given) ==
  args' = Append(args, [query |-> query, args |-> AddedArgs(Queries[query], given)])

\* Error HTTPRequest::request(...)
CanSend == in_tree /\ valid_url

\* void send_query(); an error is reported by query_error_occurred at once.
SendQuery ==
  IF CanSend
  THEN /\ wire' = [method |-> method_name', args |-> args']
       /\ pending' = TRUE
       /\ UNCHANGED unsent
  ELSE /\ pending' = FALSE
       /\ unsent' = Append(unsent, args'[Len(args')])
       /\ UNCHANGED wire

\* A query of HoneyCombApi: ERR_BUSY while another is pending.
Call(query, given) ==
  /\ ~pending
  /\ Len(unsent) < MaxUnsent \/ CanSend
  /\ AddArgs(query, given)
  /\ method_name' = query
  /\ SendQuery
  /\ UNCHANGED <<in_tree, valid_url, lost>>

\* Mutant: a response that is no Dictionary is reported before the query ends.
BadResponseLeavesPending ==
  /\ wire # None
  /\ args' = <<>> /\ unsent' = <<>>
  /\ wire' = None
  /\ pending' \in BOOLEAN
  /\ UNCHANGED <<in_tree, valid_url, method_name, lost>>

\* Mutant: the arguments are left for the next query.
ResponseKeepsArgs ==
  /\ wire # None
  /\ wire' = None
  /\ pending' = FALSE
  /\ UNCHANGED <<in_tree, valid_url, args, method_name, unsent, lost>>

\* void query_response_callback(...): query_response_function, or
\* query_error_function when the response has no "data" or there is none.  Both
\* end the query before they emit.
QueryResponseCallback ==
  /\ wire # None
  /\ args' = <<>> /\ unsent' = <<>>
  /\ wire' = None
  /\ pending' = FALSE
  /\ UNCHANGED <<in_tree, valid_url, method_name, lost>>

SetHoneycombUrl ==
  /\ valid_url' = ~valid_url
  /\ UNCHANGED <<in_tree, args, method_name, pending, wire, unsent, lost>>

EnterTree ==
  /\ ~in_tree
  /\ in_tree' = TRUE
  /\ UNCHANGED <<valid_url, args, method_name, pending, wire, unsent, lost>>

\* HTTPRequest cancels its request when it leaves the tree and emits nothing.
ExitTree ==
  /\ in_tree
  /\ in_tree' = FALSE
  /\ wire' = None
  /\ lost' = (lost \/ wire # None)
  /\ UNCHANGED <<valid_url, args, method_name, pending, unsent>>

Next ==
  \/ \E query \in Asked : \E given \in {{}, Queries[query].optional} : Call(query, given)
  \/ QueryResponseCallback
  \/ SetHoneycombUrl
  \/ EnterTree
  \/ ExitTree

\* The server, or the loss of the connection to it, ends a request.
Spec == Init /\ [][Next]_vars /\ WF_vars(QueryResponseCallback)

-----------------------------------------------------------------------------
(* Properties.                                                             *)

\* A query on the wire has the method called last and its arguments, after
\* those of the calls that could not be sent since the last response, and of
\* no other: what was answered never comes again.  add_arg and send_query.
CarriesItsOwn ==
  wire # None =>
    /\ wire.method = method_name
    /\ \E own \in {wire.args[Len(wire.args)]} :
         own.query = method_name /\ wire.args = Append(unsent, own)

\* Whoever sent a query is told of a response or an error, unless the node left
\* the tree meanwhile; then it stays busy for ever.  pending, query_response_callback.
EveryQueryEnds == (pending /\ ~lost) ~> (~pending \/ lost)
=============================================================================
