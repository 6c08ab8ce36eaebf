-------------------------- MODULE WalletAdapterWeb --------------------------
(***************************************************************************)
(* The wallet adapter in a web build: the node                             *)
(* (src/src/wallet_adapter/wallet_adapter.cpp) starts a procedure of the   *)
(* JavaScript bridge (src/wallet_adapter_bridge/src/bindings.js) and polls *)
(* Module.wallet_status, one variable for all procedures, once a frame.    *)
(* The procedures run on when the wallet's promise is settled, between two *)
(* frames.                                                                 *)
(***************************************************************************)
EXTENDS Naturals, FiniteSets

CONSTANTS
  Requests, \* calls of connect_wallet, sign_message and sign_text_message
  None,     \* no request
  Env       \* what may happen, of Events

\* absent: the chosen wallet is not installed; stranger: it is asked to sign before
\* it is connected; declined: the user declines a connection; rejected: or a
\* signature; modified: the wallet changes the transactions it signs; text: text
\* is signed.
Events == {"absent", "stranger", "declined", "rejected", "modified", "text"}

ASSUME Assumption == IsFiniteSet(Requests) /\ None \notin Requests /\ Env \subseteq Events

VARIABLES
  wallet_state, \* State of the node
  current,      \* history: the call that has set it
  dirty,        \* dirty_transaction
  js,           \* the variables of Module, see TypeOK
  popups,       \* promises the bridge awaits, [req, kind]
  told,         \* history: what the caller of each call has heard
  got,          \* history: what message_signed has delivered for it
  unheard       \* history: calls the bridge has dropped, or answered by a signal
                \* nobody can connect to

vars == <<wallet_state, current, dirty, js, popups, told, got, unheard>>

\* A serialized transaction or a signature: the call it belongs to, and whether it
\* is what was sent, what the wallet has made of it, or text.
Bytes(r, made) == [of |-> r, made |-> made]
Empty == Bytes(None, "sent")

\* The signals _bind_methods declares; nobody hears another one.
Signals == {"connection_established", "connection_failed", "message_signed", "signing_failed"}

-----------------------------------------------------------------------------
(* The bridge.                                                             *)

\* void clear_state(), of the node and of the bridge
ClearState == wallet_state' = "idle" /\ js' = [js EXCEPT !.status = 0, !.old = Empty]

\* connectWalletProcedure(walletName) makes a handler, which is not connected yet
ConnectProcedure(r, installed) ==
  IF js.status = 2 \/ ~installed THEN UNCHANGED <<js, popups>>
  ELSE /\ js' = [js EXCEPT !.handler = "connecting"]
       /\ popups' = popups \cup {[req |-> r, kind |-> "connect"]}

\* Mutant: the message that was sent is not kept.
TransactionForgotten(r) ==
  IF js.status = 2 \/ js.handler = "undefined" THEN UNCHANGED <<js, popups>>
  ELSE popups' = popups \cup {[req |-> r, kind |-> "tx"]} /\ UNCHANGED js

\* signTransactionProcedure(signer_index), up to its await
SignTransactionProcedure(r) ==
  IF js.status = 2 \/ js.handler = "undefined" THEN UNCHANGED <<js, popups>>
  ELSE /\ js' = [js EXCEPT !.old = Bytes(r, "sent")]
       /\ popups' = popups \cup {[req |-> r, kind |-> "tx"]}

\* signMessageProcedure(buffer_message), up to its await
SignMessageProcedure(r) ==
  IF js.status = 2 \/ js.handler = "undefined" THEN UNCHANGED <<js, popups>>
  ELSE popups' = popups \cup {[req |-> r, kind |-> "text"]} /\ UNCHANGED js

\* The wallet grants what a procedure waits for.
Granted(p) ==
  /\ p.kind = "connect" \/ js.handler = "connected"
  /\ \E m \in {"sent"} \cup (IF p.kind = "tx" /\ "modified" \in Env THEN {"modified"} ELSE {}) :
       js' = CASE p.kind = "connect" -> [js EXCEPT !.handler = "connected", !.status = 1]
               [] p.kind = "tx" -> [js EXCEPT !.new = Bytes(p.req, m), !.signature = Bytes(p.req, m), !.status = 1]
               [] OTHER -> [js EXCEPT !.signature = Bytes(p.req, "text"), !.status = 1]

\* Mutant: an exception is only logged.
RefusedSilently(p) == UNCHANGED js

\* The wallet or its user refuses, returns a transaction it has not signed, or
\* there is no connection to sign with.
Refused(p) ==
  /\ \/ "declined" \in Env /\ p.kind = "connect"
     \/ "rejected" \in Env /\ p.kind # "connect"
     \/ js.handler # "connected" /\ p.kind # "connect"
  /\ \/ js' = [js EXCEPT !.status = 2]
     \/ p.kind = "tx" /\ js' = [js EXCEPT !.status = 2, !.new = Bytes(p.req, "sent"), !.signature = Empty]

-----------------------------------------------------------------------------
(* The node.                                                               *)

Idle == wallet_state = "idle"

\* A call the program may make: a new one, when the adapter is idle.
Calls(r, state) ==
  /\ told[r] = "new" /\ Idle
  /\ wallet_state' = state /\ current' = r
  /\ told' = [told EXCEPT ![r] = "waiting"]
  /\ unheard' = IF popups' = popups THEN unheard \cup {r} ELSE unheard
  /\ UNCHANGED got

\* void connect_wallet()
ConnectWallet(r) ==
  /\ \E installed \in {TRUE} \cup (IF "absent" \in Env THEN {FALSE} ELSE {}) : ConnectProcedure(r, installed)
  /\ Calls(r, "connecting") /\ UNCHANGED dirty

\* void sign_message(serialized_message, index)
SignMessage(r) ==
  /\ "stranger" \in Env \/ js.handler = "connected"
  /\ SignTransactionProcedure(r)
  /\ Calls(r, "signing") /\ dirty' = FALSE

\* void sign_text_message(message)
SignTextMessage(r) ==
  /\ "text" \in Env /\ ("stranger" \in Env \/ js.handler = "connected")
  /\ SignMessageProcedure(r)
  /\ Calls(r, "signing") /\ dirty' = FALSE

\* The wallet's promise is settled and the procedure runs on.
Settled(p) ==
  /\ Granted(p) \/ Refused(p)
  /\ popups' = popups \ {p}
  /\ UNCHANGED <<wallet_state, current, dirty, told, got, unheard>>

\* emit_signal, as far as the caller hears it
Emit(signal, outcome) ==
  IF signal \in Signals
  THEN told' = [told EXCEPT ![current] = outcome] /\ UNCHANGED unheard
  ELSE unheard' = unheard \cup {current} /\ UNCHANGED told

\* void poll_connection()
PollConnection ==
  /\ wallet_state = "connecting" /\ js.status # 0
  /\ ClearState
  /\ IF js.status = 1 THEN Emit("connection_established", "answered")
                      ELSE Emit("connection_error", "failed")
  /\ UNCHANGED <<current, dirty, popups, got>>

\* bool is_message_tampered(original_serialization, new_serialization)
IsMessageTampered(old, new) == old # new

\* void poll_message_signing()
PollMessageSigning ==
  /\ wallet_state = "signing" /\ js.status # 0
  /\ ClearState
  /\ IF js.status = 1
     THEN /\ dirty' = IsMessageTampered(js.old, js.new)
          /\ got' = [got EXCEPT ![current] = [signature |-> js.signature, dirty |-> dirty']]
          /\ Emit("message_signed", "answered")
     ELSE Emit("signing_failed", "failed") /\ UNCHANGED <<dirty, got>>
  /\ UNCHANGED <<current, popups>>

Init ==
  /\ wallet_state = "idle" /\ current = None /\ dirty = FALSE /\ popups = {} /\ unheard = {}
  /\ js = [status |-> 0, handler |-> "undefined", old |-> Empty, new |-> Empty, signature |-> Empty]
  /\ told = [r \in Requests |-> "new"]
  /\ got = [r \in Requests |-> [signature |-> Empty, dirty |-> FALSE]]

\* _process(delta)
Process == PollConnection \/ PollMessageSigning

\* A frame in which _process has nothing to do.
Return == (Idle \/ js.status = 0) /\ UNCHANGED vars

Next ==
  \/ \E r \in Requests : ConnectWallet(r) \/ SignMessage(r) \/ SignTextMessage(r)
  \/ \E p \in popups : Settled(p)
  \/ Process
  \/ Return

\* Frames go on, and the user answers every popup in the end.
Spec ==
  /\ Init /\ [][Next]_vars /\ WF_vars(Process)
  /\ WF_vars(\E p \in popups : Settled(p))

-----------------------------------------------------------------------------
(* Properties.                                                             *)

AnyBytes == [of : Requests \cup {None}, made : {"sent", "modified", "text"}]
TypeOK ==
  /\ wallet_state \in {"idle", "connecting", "signing"} /\ current \in Requests \cup {None}
  /\ dirty \in BOOLEAN /\ unheard \subseteq Requests
  /\ js \in [status : 0 .. 2,                                      \* wallet_status (2 for -1)
             handler : {"undefined", "connecting", "connected"},   \* wallet_handler
             old : AnyBytes, new : AnyBytes,                       \* {old,tampered}_serialized_message
             signature : AnyBytes]                                 \* message_signature
  /\ popups \in SUBSET [req : Requests, kind : {"connect", "tx", "text"}]
  /\ told \in [Requests -> {"new", "waiting", "answered", "failed"}]
  /\ got \in [Requests -> [signature : AnyBytes, dirty : BOOLEAN]]
  /\ ~Idle => told[current] = "waiting"

\* message_signed delivers the signature of the call it answers, not one that an
\* earlier call has left in Module or that a later one has overwritten.
SignedIsOwn ==
  \A r \in Requests : got[r].signature # Empty => got[r].signature.of = r

\* did_transaction_change is the truth about the transaction of that call: Transaction
\* loads what the wallet has made of it (_signer_signed) then and only then, never the
\* bytes an earlier call has left in Module.
DirtyIsTrue ==
  \A r \in Requests :
    got[r].signature.made # "text" => got[r].dirty = (got[r].signature.made = "modified")

\* Every call is answered by a signal.
EveryCallEnds == \A r \in Requests : told[r] = "waiting" ~> told[r] \in {"answered", "failed"}

\* Every call is answered but one the bridge has dropped, for a wallet that is not
\* installed or not connected, and a connection the user declines.
HeardCallEnds ==
  \A r \in Requests : told[r] = "waiting" ~> told[r] \in {"answered", "failed"} \/ r \in unheard
=============================================================================
