------------------------ MODULE WalletAdapterAndroid ------------------------
(***************************************************************************)
(* The wallet adapter in an Android build: the node                        *)
(* (src/src/wallet_adapter/wallet_adapter.cpp) calls the plugin            *)
(* (GDExtensionAndroidPlugin.kt), which opens an activity                  *)
(* (MyComponentActivity.kt) that runs one of the functions of              *)
(* MyComposable.kt on another thread; they share the global variables of   *)
(* that file and the node polls two of them once a frame.                  *)
(***************************************************************************)
EXTENDS Naturals, FiniteSets

CONSTANTS
  Requests, \* calls of connect_wallet, sign_message and sign_text_message
  None,     \* no request
  Env       \* what may happen, of Events

\* noplugin: the plugin is not installed; declined: the user declines a connection;
\* rejected: or a signature; nothing: the wallet succeeds and returns no payload;
\* modified: the wallet changes the transactions it signs; text: text is signed.
Events == {"noplugin", "declined", "rejected", "nothing", "modified", "text"}

VARIABLES
  wallet_state, \* State of the node
  current,      \* history: the call that has set it
  dirty,        \* dirty_transaction
  plugin,       \* the plugin is installed
  kt,           \* the global variables, see TypeOK
  activities,   \* activities started and not finished, see TypeOK
  told,         \* history: what the caller of each call has heard
  got,          \* history: what message_signed has delivered for it
  unheard       \* history: calls whose wallet returned no payload, or answered by a
                \* signal nobody can connect to

vars == <<wallet_state, current, dirty, plugin, kt, activities, told, got, unheard>>

\* A signature: the call it belongs to, and whether it is of the transaction that was
\* sent, of what the wallet has made of it, or of a text.
Signature(r, kind) == [of |-> r, kind |-> kind]
NoSignature == Signature(None, "none")

\* The signals _bind_methods declares; nobody hears another one.
Signals == {"connection_established", "connection_failed", "message_signed", "signing_failed"}

Idle == wallet_state = "idle"

-----------------------------------------------------------------------------
(* The plugin.                                                             *)

\* startActivity(Intent(it, ComposeWalletActivity))
StartActivity(r) ==
  activities' = activities \cup {[req |-> r, stage |-> "starting", action |-> 0, payload |-> None,
                                 result |-> "null"]}

\* Mutant: the cached result is not looked at.
PluginConnectsAnew(r) == StartActivity(r) /\ UNCHANGED kt

\* connectWallet(cluster, uri, icon, name)
PluginConnect(r) ==
  /\ IF kt.result = "Success" THEN UNCHANGED activities ELSE StartActivity(r)
  /\ UNCHANGED kt

\* signTransaction(serializedTransaction)
PluginSignTransaction(r) ==
  kt' = [kt EXCEPT !.action = 1, !.transaction = r] /\ StartActivity(r)

\* signTextMessage(textMessage)
PluginSignText(r) ==
  kt' = [kt EXCEPT !.action = 2, !.text = r] /\ StartActivity(r)

\* void clear_state() of the node and clearState() of the plugin, whose variables are k
\* (without it they are as at first, and so is the status)
ClearState(k) == wallet_state' = "idle" /\ kt' = [k EXCEPT !.status = 0]

-----------------------------------------------------------------------------
(* The activity.                                                           *)

Replaced(a, b) == activities' = (activities \ {a}) \cup {b}
Finished(a) == activities' = activities \ {a}

\* onCreate(savedInstanceState)
OnCreate(a) ==
  /\ a.stage = "starting"
  /\ Replaced(a, [a EXCEPT !.stage = "created", !.action = kt.action])
  /\ UNCHANGED kt

\* The wallet is asked: connectWallet, signTransaction or signTextMessage as far
\* as walletAdapter.connect or the block of walletAdapter.transact.
Ask(a) ==
  /\ a.stage = "created"
  /\ IF a.action = 2 /\ ~kt.key
     THEN kt' = [kt EXCEPT !.status = 2] /\ Finished(a)
     ELSE /\ Replaced(a, [a EXCEPT !.stage = "asking",
                          !.payload = CASE a.action = 1 -> kt.transaction
                                        [] a.action = 2 -> kt.text
                                        [] OTHER -> None])
          /\ UNCHANGED kt

\* The rest of connectWallet
Connected(a) ==
  /\ a.stage = "asking" /\ a.action = 0 /\ Finished(a)
  /\ \/ kt' = [kt EXCEPT !.key = TRUE, !.result = "Success"]
     \/ "declined" \in Env /\ kt' = [kt EXCEPT !.result = "Failure"]

\* The status of a signature is set first, myResult only when the activity ends; the
\* node may poll and the program call again in between.
Ends(a, result) == Replaced(a, [a EXCEPT !.stage = "ending", !.result = result])

\* The TransactionResult.Failure branch of signTransaction or signTextMessage
Refuse(a) == kt' = [kt EXCEPT !.status = 2] /\ Ends(a, "Failure")

\* The rest of signTransaction or signTextMessage as far as the status
Signed(a) ==
  /\ a.stage = "asking" /\ a.action # 0
  /\ \/ /\ \E kind \in IF a.action = 2 THEN {"text"}
                     ELSE {"transaction"} \cup (IF "modified" \in Env THEN {"modified"} ELSE {}) :
             kt' = [kt EXCEPT !.status = 1, !.signature = Signature(a.payload, kind)]
        /\ Ends(a, "Success") /\ UNCHANGED unheard
     \/ /\ "nothing" \in Env /\ UNCHANGED kt
        /\ Ends(a, "Success") /\ unheard' = unheard \cup {a.req}
     \/ "rejected" \in Env /\ Refuse(a) /\ UNCHANGED unheard

\* myResult = result; activity?.finish()
Finish(a) ==
  /\ a.stage = "ending" /\ Finished(a)
  /\ kt' = [kt EXCEPT !.result = a.result]

-----------------------------------------------------------------------------
(* The node.                                                               *)

\* A call the program may make: a new one, of an idle adapter.  What it calls of the
\* plugin is called if there is one.
Calls(r, state, call) ==
  /\ told[r] = "new" /\ Idle
  /\ wallet_state' = state /\ current' = r
  /\ told' = [told EXCEPT ![r] = "waiting"]
  /\ IF plugin THEN call ELSE UNCHANGED <<kt, activities>>
  /\ UNCHANGED <<plugin, got, unheard>>

\* void connect_wallet(), of a program that does not connect again after an operation
\* has failed: connectWallet leaves the result and myAction of that operation, so
\* poll_connection reports its failure and the activity repeats it.
ConnectWallet(r) ==
  /\ kt.result = "Success" \/ (kt.result = "null" /\ kt.action = 0)
  /\ Calls(r, "connecting", PluginConnect(r)) /\ UNCHANGED dirty

\* void sign_message(serialized_message, index)
SignMessage(r) == Calls(r, "signing", PluginSignTransaction(r)) /\ dirty' = FALSE

\* void sign_text_message(message)
SignTextMessage(r) == "text" \in Env /\ Calls(r, "signing", PluginSignText(r)) /\ dirty' = FALSE

Activity(a) ==
  /\ ((OnCreate(a) \/ Ask(a) \/ Connected(a) \/ Finish(a)) /\ UNCHANGED unheard) \/ Signed(a)
  /\ UNCHANGED <<wallet_state, current, dirty, plugin, told, got>>

\* emit_signal, as far as the caller hears it
Emit(signal, outcome) ==
  IF signal \in Signals
  THEN told' = [told EXCEPT ![current] = outcome] /\ UNCHANGED unheard
  ELSE unheard' = unheard \cup {current} /\ UNCHANGED told

\* void poll_connection(), with getConnectionStatus and getConnectedKey
PollConnection ==
  /\ wallet_state = "connecting" /\ (plugin => kt.result # "null")
  /\ IF plugin /\ kt.result = "Success"
     THEN ClearState([kt EXCEPT !.action = 0]) /\ Emit("connection_established", "answered")
     ELSE ClearState(kt) /\ Emit("connection_error", "failed")
  /\ UNCHANGED <<current, dirty, plugin, activities, got>>

\* A signature of 64 bytes is delivered as it is, a signed transaction is cut; a
\* text's signature that is taken for a transaction is too short.
Deliverable == (kt.action = 2 /\ kt.signature.kind = "text") \/ kt.signature.kind \in {"transaction", "modified"}

\* void poll_message_signing(), with getSigningStatus and getLatestAction; what was
\* signed is not compared with what was sent.
PollMessageSigning ==
  /\ wallet_state = "signing" /\ (plugin => kt.status # 0)
  /\ ClearState(kt)
  /\ dirty' = IF plugin /\ kt.status = 1 THEN FALSE ELSE dirty
  /\ IF plugin /\ kt.status = 1 /\ Deliverable
     THEN /\ got' = [got EXCEPT ![current] = [signature |-> kt.signature, dirty |-> dirty']]
          /\ Emit("message_signed", "answered")
     ELSE Emit("signing_failed", "failed") /\ UNCHANGED got
  /\ UNCHANGED <<current, plugin, activities>>

Init ==
  /\ wallet_state = "idle" /\ current = None /\ dirty = FALSE /\ activities = {} /\ unheard = {}
  /\ plugin = TRUE \/ ("noplugin" \in Env /\ plugin = FALSE)
  /\ kt = [result |-> "null", action |-> 0, transaction |-> None, text |-> None,
           signature |-> NoSignature, status |-> 0, key |-> FALSE]
  /\ told = [r \in Requests |-> "new"]
  /\ got = [r \in Requests |-> [signature |-> NoSignature, dirty |-> FALSE]]

\* _process(delta)
Process == PollConnection \/ PollMessageSigning

\* A frame in which _process has nothing to do.
Return ==
  /\ \/ Idle
     \/ plugin /\ wallet_state = "connecting" /\ kt.result = "null"
     \/ plugin /\ wallet_state = "signing" /\ kt.status = 0
  /\ UNCHANGED vars

Next ==
  \/ \E r \in Requests : ConnectWallet(r) \/ SignMessage(r) \/ SignTextMessage(r)
  \/ \E a \in activities : Activity(a)
  \/ Process
  \/ Return

\* Frames go on, an activity that was started runs, and the user answers the wallet.
Spec ==
  /\ Init /\ [][Next]_vars /\ WF_vars(Process)
  /\ WF_vars(\E a \in activities : Activity(a))

-----------------------------------------------------------------------------
(* Properties.                                                             *)

Calling == Requests \cup {None}
AnySignature == [of : Calling, kind : {"none", "transaction", "modified", "text"}]
TypeOK ==
  /\ wallet_state \in {"idle", "connecting", "signing"} /\ current \in Calling
  /\ dirty \in BOOLEAN /\ plugin \in BOOLEAN /\ unheard \subseteq Requests
  /\ kt \in [result : {"null", "Success", "Failure"}, \* myResult
             action : 0 .. 2,                         \* myAction
             transaction : Calling, text : Calling,   \* myStoredTransaction, myStoredTextMessage
             signature : AnySignature, status : 0 .. 2, \* myMessageSignature, myMessageSigningStatus
             key : BOOLEAN]                           \* myConnectedKey is set
  /\ activities \in SUBSET [req : Requests, stage : {"starting", "created", "asking", "ending"},
                            action : 0 .. 2, payload : Calling, result : {"null", "Success", "Failure"}]
  /\ told \in [Requests -> {"new", "waiting", "answered", "failed"}]
  /\ got \in [Requests -> [signature : AnySignature, dirty : BOOLEAN]]
  /\ ~Idle => told[current] = "waiting"

\* message_signed delivers the signature of what the call it answers has sent.
SignedIsOwn ==
  \A r \in Requests : got[r].signature # NoSignature => got[r].signature.of = r

\* did_transaction_change claims a change only of a transaction the wallet has changed.
\* The converse, which is true in the web build, is not: a change is never reported.
DirtyIsDue == \A r \in Requests : got[r].dirty => got[r].signature.kind = "modified"

\* The user is asked to sign only what a call waits for, once.
AskedForACall ==
  \A a \in activities : a.stage = "asking" /\ a.action # 0 =>
    /\ told[a.payload] = "waiting"
    /\ \A b \in activities : b.payload = a.payload => b = a

\* Every call is answered by a signal but one for which the wallet returned no payload
\* and a connection the user declines or the plugin is not there for.
HeardCallEnds ==
  \A r \in Requests : told[r] = "waiting" ~> told[r] \in {"answered", "failed"} \/ r \in unheard
=============================================================================
