------------------------ MODULE WalletAdapterProofs ------------------------
(***************************************************************************)
(* The wallet adapter for any calls, in either build: the signatures that  *)
(* message_signed delivers, and what the user is asked.                    *)
(*                                                                         *)
(* The node and its bridge or plugin share single variables, so that all   *)
(* rests on when they are written.  In the web build one procedure runs at *)
(* a time, because a call is only made of an idle adapter and clear_state  *)
(* is only reached when the procedure has set wallet_status (WebInv).  In  *)
(* the Android build activities of calls before may still wait to end when *)
(* the next call is made; but at most one may still ask, it is of the call *)
(* the node waits for (ForTheCall), and what it has read of myAction and   *)
(* the stored transaction or text is of that call (AsksForTheCall).        *)
(***************************************************************************)
EXTENDS WalletAdapter, TLAPS

-----------------------------------------------------------------------------
(* The web build.                                                          *)

\* One procedure of the bridge runs at a time, for the call the node waits for,
\* and while it runs or when it has ended nothing but its own bytes is in Module.
WebInv ==
  /\ TypeOK /\ (~Idle => current \in Requests)
  /\ Idle => popups = {} /\ js.status = 0
  /\ js.status # 0 => popups = {}
  /\ \A p \in popups :
       /\ p.req = current /\ \A q \in popups : q = p
       /\ p.kind = "connect" <=> wallet_state = "connecting"
       /\ p.kind = "tx" => js.old = Bytes(current, "sent")
  /\ wallet_state = "signing" /\ js.status = 1 =>
       /\ js.signature.of = current
       /\ js.signature.made # "text" => js.old = Bytes(current, "sent") /\ js.new = js.signature
  /\ SignedIsOwn /\ DirtyIsTrue

-----------------------------------------------------------------------------
(* The Android build.                                                      *)

\* An activity that may still ask the user: the others only wait to end.
Live(a) == a.stage # "ending"

\* There is one activity for the call the node waits for.
ForTheCall ==
  \A a \in activities : Live(a) =>
    /\ ~Idle /\ a.req = current /\ kt.status = 0
    /\ \A b \in activities : Live(b) => b = a

\* What it is going to ask for, or asks for, is what the call has stored.
AsksForTheCall ==
  \A a \in activities :
    /\ Live(a) /\ wallet_state = "connecting" =>
         a.action = 0 /\ kt.action = 0 /\ kt.result = "null"
    /\ Live(a) /\ wallet_state = "signing" =>
         /\ a.stage # "starting" => a.action = kt.action
         /\ a.stage = "asking" => a.payload = current

Stored ==
  plugin /\ wallet_state = "signing" =>
    \/ kt.action = 1 /\ kt.transaction = current
    \/ kt.action = 2 /\ kt.text = current

\* Activities that wait to end are of calls before, or there is no other.
Ending ==
  \A a \in activities :
    /\ a.payload = None \/ told[a.payload] # "new"
    /\ ~Live(a) =>
         /\ a.result # "null" /\ ~(kt.result = "null" /\ kt.action = 0)
         /\ \A b \in activities : Live(b) => a.payload # current

AndroidInv ==
  /\ Android!TypeOK /\ (~Idle => current \in Requests)
  /\ ~plugin => activities = {} /\ kt.status = 0
  /\ ForTheCall /\ AsksForTheCall /\ Stored /\ Ending
  /\ wallet_state # "signing" => kt.status = 0
  /\ wallet_state = "signing" /\ kt.status = 1 => kt.signature.of = current
  /\ Android!SignedIsOwn /\ Android!DirtyIsDue

AdapterInv ==
  /\ build \in {"web", "android"}
  /\ build = "web" => WebInv
  /\ build = "android" => AndroidInv

\* The variables of Module.
Statuses == 0 .. 2
Modules == [status : Statuses, handler : {"undefined", "connecting", "connected"},
            old : AnyBytes, new : AnyBytes, signature : AnyBytes]

\* What the procedures of the bridge write into Module.
LEMMA ModuleUpdates ==
  ASSUME NEW m \in Modules, NEW b \in AnyBytes, NEW c \in AnyBytes, NEW n \in Statuses
  PROVE  /\ [m EXCEPT !.handler = "connecting"] \in Modules
         /\ [m EXCEPT !.handler = "connected", !.status = n] \in Modules
         /\ [m EXCEPT !.old = b] \in Modules
         /\ [m EXCEPT !.status = n] \in Modules
         /\ [m EXCEPT !.signature = b, !.status = n] \in Modules
         /\ [m EXCEPT !.status = n, !.old = b] \in Modules
         /\ [m EXCEPT !.new = b, !.signature = c, !.status = n] \in Modules
         /\ [m EXCEPT !.status = n, !.new = b, !.signature = c] \in Modules
<1>1. [m EXCEPT !.handler = "connecting"] \in Modules
  BY DEF Modules
<1>2. [m EXCEPT !.handler = "connected", !.status = n] \in Modules
  BY DEF Modules
<1>3. [m EXCEPT !.old = b] \in Modules
  BY DEF Modules
<1>4. [m EXCEPT !.status = n] \in Modules
  BY DEF Modules
<1>5. [m EXCEPT !.signature = b, !.status = n] \in Modules
  BY DEF Modules
<1>6. [m EXCEPT !.status = n, !.old = b] \in Modules
  BY DEF Modules
<1>7. [m EXCEPT !.new = b, !.signature = c, !.status = n] \in Modules
  BY DEF Modules
<1>8. [m EXCEPT !.status = n, !.new = b, !.signature = c] \in Modules
  BY DEF Modules
<1> QED
  BY <1>1, <1>2, <1>3, <1>4, <1>5, <1>6, <1>7, <1>8

\* The codes of a status.
LEMMA Codes == 0 \in Statuses /\ 1 \in Statuses /\ 2 \in Statuses
BY DEF Statuses

\* The bytes of a call.
LEMMA BytesType ==
  ASSUME NEW r \in Requests \cup {None}, NEW made \in {"sent", "modified", "text"}
  PROVE  Bytes(r, made) \in AnyBytes /\ Bytes(r, made).of = r /\ Bytes(r, made).made = made
BY DEF Bytes, AnyBytes

\* No bytes.
LEMMA EmptyType == Empty \in AnyBytes /\ Empty.of = None /\ Empty.made = "sent"
BY BytesType DEF Empty

\* At first nothing runs.
LEMMA InitWeb == Init => WebInv
<1> SUFFICES ASSUME Init PROVE WebInv
  OBVIOUS
<1>1. TypeOK
  <2>1. js \in Modules
    BY EmptyType, Codes DEF Init, Modules
  <2>2. told \in [Requests -> {"new", "waiting", "answered", "failed"}]
        /\ got \in [Requests -> [signature : AnyBytes, dirty : BOOLEAN]]
    <3>1. [signature |-> Empty, dirty |-> FALSE] \in [signature : AnyBytes, dirty : BOOLEAN]
      BY EmptyType
    <3> QED
      BY <3>1 DEF Init
  <2>3. wallet_state = "idle" /\ current = None /\ dirty = FALSE /\ popups = {} /\ unheard = {}
    BY DEF Init
  <2> QED
    BY <2>1, <2>2, <2>3 DEF TypeOK, Modules, Statuses, Idle
<1>2. SignedIsOwn /\ DirtyIsTrue
  <2>1. \A r \in Requests : got[r].signature = Empty /\ got[r].dirty = FALSE
    BY DEF Init
  <2> QED
    BY <2>1, EmptyType DEF SignedIsOwn, DirtyIsTrue
<1>3. Idle /\ popups = {} /\ js.status = 0 /\ wallet_state = "idle"
  BY DEF Init, Idle
<1> QED
  BY <1>1, <1>2, <1>3 DEF WebInv

\* A call of an idle adapter starts one procedure, or none.
LEMMA CallsKeep ==
  ASSUME WebInv, NEW r \in Requests, NEW state \in {"connecting", "signing"}, Calls(r, state),
         dirty' \in BOOLEAN,
         NEW kind \in {"connect", "tx", "text"}, kind = "connect" <=> state = "connecting",
         popups' = popups \/ popups' = popups \cup {[req |-> r, kind |-> kind]},
         js' \in Modules /\ js'.status = 0,
         popups' # popups /\ kind = "tx" => js'.old = Bytes(r, "sent")
  PROVE  WebInv'
<1>1. /\ Idle /\ popups = {} /\ js.status = 0
      /\ wallet_state' = state /\ current' = r /\ got' = got
      /\ told' = [told EXCEPT ![r] = "waiting"] /\ unheard' \subseteq unheard \cup {r}
  BY DEF Calls, WebInv
<1>2. TypeOK /\ SignedIsOwn /\ DirtyIsTrue
  BY DEF WebInv
<1>4. TypeOK'
  <2>1. wallet_state' \in {"idle", "connecting", "signing"} /\ current' \in Requests \cup {None}
    BY <1>1
  <2>2. dirty' \in BOOLEAN /\ unheard' \subseteq Requests
    BY <1>1, <1>2 DEF TypeOK, Modules, Statuses
  <2>3. js' \in Modules
    OBVIOUS
  <2>4. popups' \in SUBSET [req : Requests, kind : {"connect", "tx", "text"}]
    BY <1>1
  <2>5. told' \in [Requests -> {"new", "waiting", "answered", "failed"}] /\ told'[current'] = "waiting"
    BY <1>1, <1>2 DEF TypeOK, Modules, Statuses
  <2>6. got' \in [Requests -> [signature : AnyBytes, dirty : BOOLEAN]]
    BY <1>1, <1>2 DEF TypeOK, Modules, Statuses
  <2> QED
    BY <2>1, <2>2, <2>3, <2>4, <2>5, <2>6 DEF TypeOK, Modules, Statuses
<1>5. ~Idle'
  BY <1>1 DEF Idle
<1>6. \A p \in popups' : /\ p = [req |-> r, kind |-> kind] /\ p.req = r /\ p.kind = kind
                         /\ popups' # popups
  BY <1>1
<1>7. SignedIsOwn' /\ DirtyIsTrue'
  BY <1>1, <1>2 DEF SignedIsOwn, DirtyIsTrue
<1> QED
  BY <1>1, <1>4, <1>5, <1>6, <1>7 DEF WebInv

\* A call of an idle adapter starts the one procedure.
LEMMA WebCallsKeep ==
  ASSUME WebInv, NEW r \in Requests, ConnectWallet(r) \/ SignMessage(r) \/ SignTextMessage(r)
  PROVE  WebInv'
<1>1. /\ TypeOK /\ (Idle => js.status = 0)
      /\ js \in Modules
      /\ dirty \in BOOLEAN
  BY DEF WebInv, TypeOK, Modules, Statuses
<1>2. CASE ConnectWallet(r)
  <2>1. Calls(r, "connecting") /\ dirty' = dirty
    BY <1>2 DEF ConnectWallet
  <2>2. \/ js' = js /\ popups' = popups
        \/ js' = [js EXCEPT !.handler = "connecting"] /\ popups' = popups \cup {[req |-> r, kind |-> "connect"]}
    BY <1>2 DEF ConnectWallet, ConnectProcedure
  <2>3. js.status = 0
    BY <1>1, <2>1 DEF Calls
  <2>4. js' \in Modules /\ js'.status = 0
    BY <1>1, <2>2, <2>3 DEF Modules
  <2> QED
    BY <1>1, <2>1, <2>2, <2>4, CallsKeep
<1>3. CASE SignMessage(r)
  <2>1. Calls(r, "signing") /\ dirty' = FALSE
    BY <1>3 DEF SignMessage
  <2>2. \/ js' = js /\ popups' = popups
        \/ js' = [js EXCEPT !.old = Bytes(r, "sent")] /\ popups' = popups \cup {[req |-> r, kind |-> "tx"]}
    BY <1>3 DEF SignMessage, SignTransactionProcedure
  <2>3. js.status = 0 /\ Bytes(r, "sent") \in AnyBytes
    BY <1>1, <2>1, BytesType DEF Calls
  <2>4. js' \in Modules /\ js'.status = 0
    BY <1>1, <2>2, <2>3 DEF Modules
  <2>5. popups' # popups => js'.old = Bytes(r, "sent")
    BY <1>1, <2>2 DEF Modules
  <2> QED
    BY <2>1, <2>2, <2>4, <2>5, CallsKeep
<1>4. CASE SignTextMessage(r)
  <2>1. Calls(r, "signing") /\ dirty' = FALSE
    BY <1>4 DEF SignTextMessage
  <2>2. js' = js /\ (popups' = popups \/ popups' = popups \cup {[req |-> r, kind |-> "text"]})
    BY <1>4 DEF SignTextMessage, SignMessageProcedure
  <2>3. js.status = 0
    BY <1>1, <2>1 DEF Calls
  <2>4. js' \in Modules /\ js'.status = 0
    BY <1>1, <2>2, <2>3 DEF Modules
  <2> QED
    BY <2>1, <2>2, <2>4, CallsKeep
<1> QED
  BY <1>2, <1>3, <1>4

\* The procedure that runs is the only one: it ends with its own bytes.
LEMMA SettledKeeps ==
  ASSUME WebInv, NEW p \in popups, Settled(p)
  PROVE  WebInv'
<1>1. /\ UNCHANGED <<wallet_state, current, dirty, told, got, unheard>> /\ popups' = popups \ {p}
      /\ Granted(p) \/ Refused(p)
  BY DEF Settled
<1>2. /\ TypeOK /\ SignedIsOwn /\ DirtyIsTrue /\ ~Idle /\ current \in Requests
      /\ p.req = current /\ (\A q \in popups : q = p)
      /\ p.kind = "connect" <=> wallet_state = "connecting"
      /\ p.kind = "tx" => js.old = Bytes(current, "sent")
  BY DEF WebInv
<1>3. popups' = {} /\ p.kind \in {"connect", "tx", "text"}
      /\ wallet_state \in {"idle", "connecting", "signing"} /\ wallet_state # "idle"
  BY <1>1, <1>2 DEF TypeOK, Modules, Statuses, Idle
<1>4. js \in Modules
  BY <1>2 DEF TypeOK, Modules, Statuses
\* What the procedure leaves.
<1>5. /\ js' \in Modules
      /\ js'.status = 1 /\ p.kind # "connect" =>
           /\ js'.signature.of = current
           /\ js'.signature.made # "text" => js'.old = Bytes(current, "sent") /\ js'.new = js'.signature
  <2>1. CASE Refused(p)
    <3>1. \/ js' = [js EXCEPT !.status = 2]
          \/ js' = [js EXCEPT !.status = 2, !.new = Bytes(current, "sent"), !.signature = Empty]
      BY <1>2, <2>1 DEF Refused
    <3>2. Bytes(current, "sent") \in AnyBytes /\ Empty \in AnyBytes
      BY <1>2, BytesType, EmptyType
    <3>3. CASE js' = [js EXCEPT !.status = 2]
      BY <1>4, <3>3, Codes DEF Modules
    <3>4. CASE js' = [js EXCEPT !.status = 2, !.new = Bytes(current, "sent"), !.signature = Empty]
      <4>1. js' \in Modules
        BY <1>4, <3>2, <3>4, ModuleUpdates, Codes
      <4>2. js'.status = 2
        BY <1>4, <3>4 DEF Modules
      <4> QED
        BY <4>1, <4>2
    <3> QED
      BY <3>1, <3>3, <3>4
  <2>2. CASE Granted(p) /\ p.kind = "connect"
    <3>1. js' = [js EXCEPT !.handler = "connected", !.status = 1]
      BY <2>2 DEF Granted
    <3> QED
      <4>1. js' \in Modules
        BY <1>4, <3>1, EmptyType, ModuleUpdates, Codes
      <4> QED
        BY <2>2, <4>1
  <2>3. CASE Granted(p) /\ p.kind = "tx"
    <3>1. PICK m \in {"sent", "modified"} :
            js' = [js EXCEPT !.new = Bytes(p.req, m), !.signature = Bytes(p.req, m), !.status = 1]
      BY <2>3 DEF Granted
    <3>2. Bytes(p.req, m) \in AnyBytes /\ Bytes(p.req, m).of = current
      BY <1>2, <3>1, BytesType
    <3>3. js.old = Bytes(current, "sent")
      BY <1>2, <2>3
    <3> DEFINE b == Bytes(p.req, m)
    <3> HIDE DEF b
    <3>4. js' = [js EXCEPT !.new = b, !.signature = b, !.status = 1] /\ b \in AnyBytes /\ b.of = current
      BY <3>1, <3>2 DEF b
    <3> QED
      <4>1. js' \in Modules
        BY <1>4, <3>4, ModuleUpdates, Codes
      <4>2. js'.old = js.old /\ js'.new = b /\ js'.signature = b
        BY <1>4, <3>4 DEF Modules
      <4> QED
        BY <3>3, <3>4, <4>1, <4>2
  <2>4. CASE Granted(p) /\ p.kind = "text"
    <3>1. js' = [js EXCEPT !.signature = Bytes(p.req, "text"), !.status = 1]
      BY <2>4 DEF Granted
    <3>2. Bytes(p.req, "text") \in AnyBytes /\ Bytes(p.req, "text").of = current
          /\ Bytes(p.req, "text").made = "text"
      BY <1>2, BytesType
    <3> DEFINE b == Bytes(p.req, "text")
    <3> HIDE DEF b
    <3>3. js' = [js EXCEPT !.signature = b, !.status = 1] /\ b \in AnyBytes /\ b.of = current /\ b.made = "text"
      BY <3>1, <3>2 DEF b
    <3> QED
      <4>1. js' \in Modules
        BY <1>4, <3>3, ModuleUpdates, Codes
      <4>2. js'.signature = b
        BY <1>4, <3>3 DEF Modules
      <4> QED
        BY <3>3, <4>1, <4>2
  <2> QED
    BY <1>1, <1>3, <2>1, <2>2, <2>3, <2>4
<1>6. TypeOK'
  BY <1>1, <1>2, <1>3, <1>5 DEF TypeOK, Modules, Statuses, Idle
<1>7. SignedIsOwn' /\ DirtyIsTrue'
  BY <1>1, <1>2 DEF SignedIsOwn, DirtyIsTrue
<1>8. ~Idle' /\ current' \in Requests
  BY <1>1, <1>2 DEF Idle
<1>9. wallet_state' = "signing" => p.kind # "connect"
  BY <1>1, <1>2, <1>3
<1> QED
  BY <1>1, <1>3, <1>5, <1>6, <1>7, <1>8, <1>9 DEF WebInv

\* _process reads what the procedure of the call has left.
LEMMA WebProcessKeeps ==
  ASSUME WebInv, Process
  PROVE  WebInv'
<1>1. /\ TypeOK /\ SignedIsOwn /\ DirtyIsTrue
      /\ js \in Modules
      /\ current \in Requests \cup {None} /\ unheard \subseteq Requests /\ dirty \in BOOLEAN
      /\ told \in [Requests -> {"new", "waiting", "answered", "failed"}]
      /\ got \in [Requests -> [signature : AnyBytes, dirty : BOOLEAN]]
  BY DEF WebInv, TypeOK, Modules, Statuses
<1>2. /\ js.status # 0 /\ ClearState /\ current' = current /\ popups' = popups
      /\ \/ told' = [told EXCEPT ![current] = "answered"] /\ unheard' = unheard
         \/ told' = [told EXCEPT ![current] = "failed"] /\ unheard' = unheard
         \/ told' = told /\ unheard' = unheard \cup {current}
      /\ wallet_state \in {"connecting", "signing"}
      /\ \/ dirty' = dirty /\ got' = got
         \/ /\ wallet_state = "signing" /\ js.status = 1 /\ dirty' = (js.old # js.new)
            /\ got' = [got EXCEPT ![current] = [signature |-> js.signature, dirty |-> dirty']]
  BY DEF Process, PollConnection, PollMessageSigning, Emit, IsMessageTampered
<1>3. popups = {} /\ current \in Requests
  BY <1>2 DEF WebInv, Idle
<1>4. wallet_state' = "idle" /\ js' = [js EXCEPT !.status = 0, !.old = Empty]
  BY <1>2 DEF ClearState
<1>5. /\ js'.status = 0
      /\ js' \in Modules
  <2>1. js' \in Modules
    BY <1>1, <1>4, EmptyType, ModuleUpdates, Codes
  <2>2. js'.status = 0
    BY <1>1, <1>4 DEF Modules
  <2> QED
    BY <2>1, <2>2
<1>6. Idle' /\ wallet_state' # "signing"
  BY <1>4 DEF Idle
<1>7. /\ dirty' \in BOOLEAN /\ got' \in [Requests -> [signature : AnyBytes, dirty : BOOLEAN]]
      /\ SignedIsOwn' /\ DirtyIsTrue'
  <2>1. CASE dirty' = dirty /\ got' = got
    BY <1>1, <2>1 DEF SignedIsOwn, DirtyIsTrue
  <2>2. CASE /\ wallet_state = "signing" /\ js.status = 1 /\ dirty' = (js.old # js.new)
             /\ got' = [got EXCEPT ![current] = [signature |-> js.signature, dirty |-> dirty']]
    <3> DEFINE new == [signature |-> js.signature, dirty |-> dirty']
    <3>1. js.signature \in AnyBytes /\ dirty' \in BOOLEAN
      <4>1. js.signature \in AnyBytes
        BY <1>1 DEF Modules
      <4> QED
        BY <2>2, <4>1
    <3>2. /\ js.signature.of = current
          /\ js.signature.made # "text" => js.old = Bytes(current, "sent") /\ js.new = js.signature
      BY <2>2 DEF WebInv
    <3>3. js.signature.made # "text" => dirty' = (js.signature.made = "modified")
      <4> SUFFICES ASSUME js.signature.made # "text"
                   PROVE  dirty' = (js.signature.made = "modified")
        OBVIOUS
      <4>1. dirty' = (js.signature # Bytes(current, "sent"))
        BY <2>2, <3>2
      <4>2. js.signature = Bytes(current, js.signature.made) /\ js.signature.made \in {"sent", "modified"}
        BY <3>1, <3>2 DEF AnyBytes, Bytes
      <4>3. Bytes(current, "sent").made = "sent"
        BY DEF Bytes
      <4> QED
        BY <4>1, <4>2, <4>3
    <3>4. new.signature = js.signature /\ new.dirty = dirty' /\ new \in [signature : AnyBytes, dirty : BOOLEAN]
      BY <3>1
    <3>5. got' = [got EXCEPT ![current] = new]
      BY <2>2
    <3> HIDE DEF new
    <3>6. \A r \in Requests : got'[r] = IF r = current THEN new ELSE got[r]
      BY <1>1, <3>5
    <3>7. SignedIsOwn'
      BY <1>1, <3>2, <3>4, <3>6 DEF SignedIsOwn
    <3>8. DirtyIsTrue'
      BY <1>1, <3>3, <3>4, <3>6 DEF DirtyIsTrue
    <3> QED
      BY <1>1, <3>1, <3>4, <3>5, <3>7, <3>8
  <2> QED
    BY <1>2, <2>1, <2>2
<1>8. TypeOK'
  <2>1. told' \in [Requests -> {"new", "waiting", "answered", "failed"}]
    <3>1. CASE told' = [told EXCEPT ![current] = "answered"]
      BY <1>1, <1>3, <3>1
    <3>2. CASE told' = [told EXCEPT ![current] = "failed"]
      BY <1>1, <1>3, <3>2
    <3> QED
      BY <1>1, <1>2, <3>1, <3>2
  <2>2. unheard' \subseteq Requests
    BY <1>1, <1>2, <1>3
  <2> QED
    BY <1>1, <1>2, <1>3, <1>4, <1>5, <1>6, <1>7, <2>1, <2>2 DEF TypeOK, Modules, Statuses
<1> QED
  BY <1>2, <1>3, <1>5, <1>6, <1>7, <1>8 DEF WebInv

\* No step of the web build breaks its invariant.
LEMMA WebNextKeeps ==
  ASSUME WebInv, [Next]_vars
  PROVE  WebInv'
<1>1. ASSUME NEW r \in Requests, ConnectWallet(r) \/ SignMessage(r) \/ SignTextMessage(r)
      PROVE  WebInv'
  BY <1>1, WebCallsKeep
<1>2. ASSUME NEW p \in popups, Settled(p) PROVE WebInv'
  BY <1>2, SettledKeeps
<1>3. CASE Process
  BY <1>3, WebProcessKeeps
<1>4. CASE UNCHANGED vars
  BY <1>4 DEF vars, WebInv, TypeOK, Modules, Statuses, Idle, SignedIsOwn, DirtyIsTrue
<1> QED
  BY <1>1, <1>2, <1>3, <1>4 DEF Next, Return

-----------------------------------------------------------------------------

\* The fields of the plugin and of an activity.
Plugins == [result : {"null", "Success", "Failure"}, action : Statuses, transaction : Android!Calling,
            text : Android!Calling, signature : Android!AnySignature, status : Statuses, key : BOOLEAN]
Activities == [req : Requests, stage : {"starting", "created", "asking", "ending"}, action : Statuses,
               payload : Android!Calling, result : {"null", "Success", "Failure"}]
Reports == [signature : Android!AnySignature, dirty : BOOLEAN]

\* The types of the Android build, as the proofs use them.
LEMMA AndroidTypes ==
  Android!TypeOK <=>
    /\ wallet_state \in {"idle", "connecting", "signing"} /\ current \in Android!Calling
    /\ dirty \in BOOLEAN /\ plugin \in BOOLEAN /\ unheard \subseteq Requests
    /\ kt \in Plugins /\ activities \in SUBSET Activities
    /\ told \in [Requests -> {"new", "waiting", "answered", "failed"}]
    /\ got \in [Requests -> Reports]
    /\ ~Idle => told[current] = "waiting"
BY DEF Android!TypeOK, Plugins, Activities, Reports, Statuses, Idle, Android!Idle

\* The signature of a call.
LEMMA SignatureType ==
  ASSUME NEW r \in Android!Calling, NEW kind \in {"none", "transaction", "modified", "text"}
  PROVE  Android!Signature(r, kind) \in Android!AnySignature /\ Android!Signature(r, kind).of = r
BY DEF Android!Signature, Android!AnySignature

\* At first there is no activity.
LEMMA InitAndroid == Android!Init => AndroidInv
<1> SUFFICES ASSUME Android!Init PROVE AndroidInv
  OBVIOUS
<1>1. /\ wallet_state = "idle" /\ current = None /\ dirty = FALSE /\ plugin \in BOOLEAN
      /\ activities = {} /\ unheard = {}
      /\ kt = [result |-> "null", action |-> 0, transaction |-> None, text |-> None,
               signature |-> Android!NoSignature, status |-> 0, key |-> FALSE]
      /\ told = [r \in Requests |-> "new"]
      /\ got = [r \in Requests |-> [signature |-> Android!NoSignature, dirty |-> FALSE]]
  BY DEF Android!Init
<1>2. None \in Android!Calling /\ Android!NoSignature \in Android!AnySignature
  BY SignatureType DEF Android!Calling, Android!NoSignature
<1>3. Android!TypeOK
  <2>1. kt \in Plugins
    BY <1>1, <1>2, Codes DEF Plugins
  <2>2. got \in [Requests -> Reports]
    <3>1. [signature |-> Android!NoSignature, dirty |-> FALSE] \in Reports
      BY <1>2 DEF Reports
    <3> QED
      BY <1>1, <3>1
  <2> QED
    BY <1>1, <1>2, <2>1, <2>2, AndroidTypes DEF Idle
<1>4. Android!SignedIsOwn /\ Android!DirtyIsDue
  <2>1. \A r \in Requests : got[r].signature = Android!NoSignature /\ got[r].dirty = FALSE
    BY <1>1
  <2> QED
    BY <2>1 DEF Android!SignedIsOwn, Android!DirtyIsDue
<1>5. ForTheCall /\ AsksForTheCall /\ Stored /\ Ending /\ Idle /\ kt.status = 0
  BY <1>1 DEF ForTheCall, AsksForTheCall, Stored, Ending, Idle
<1> QED
  BY <1>1, <1>3, <1>4, <1>5 DEF AndroidInv

\* A call of an idle adapter: what is stored is of this call, and at most one
\* activity is started for it.
LEMMA AndroidCallKeeps ==
  ASSUME AndroidInv, NEW r \in Requests, NEW state \in {"connecting", "signing"},
         told[r] = "new", Idle, wallet_state' = state, current' = r, dirty' \in BOOLEAN,
         told' = [told EXCEPT ![r] = "waiting"], UNCHANGED <<plugin, got, unheard>>,
         kt' \in Plugins, kt'.status = kt.status, kt'.result = kt.result,
         activities' = activities \/ Android!StartActivity(r),
         ~plugin => kt' = kt /\ activities' = activities,
         plugin /\ state = "signing" => \/ kt'.action = 1 /\ kt'.transaction = r
                                        \/ kt'.action = 2 /\ kt'.text = r,
         state = "connecting" => /\ kt'.action = kt.action
                                 /\ activities' = activities \/ (kt.action = 0 /\ kt.result = "null")
  PROVE  AndroidInv'
<1> DEFINE new == [req |-> r, stage |-> "starting", action |-> 0, payload |-> None, result |-> "null"]
<1>1. /\ told[r] = "new" /\ Idle /\ wallet_state' = state /\ current' = r
      /\ told' = [told EXCEPT ![r] = "waiting"] /\ got' = got /\ unheard' = unheard
      /\ activities' \subseteq activities \cup {new}
  BY DEF Android!StartActivity
<1>2. /\ kt \in Plugins /\ activities \in SUBSET Activities /\ unheard \subseteq Requests
      /\ told \in [Requests -> {"new", "waiting", "answered", "failed"}]
      /\ got \in [Requests -> Reports] /\ Android!SignedIsOwn /\ Android!DirtyIsDue
      /\ plugin \in BOOLEAN /\ (~plugin => activities = {} /\ kt.status = 0)
      /\ ForTheCall /\ Ending
  BY AndroidTypes DEF AndroidInv
<1>3. kt.status = 0
  BY <1>1 DEF AndroidInv, Idle
<1>4. None \notin Requests
  BY Assumption
<1>5. /\ new \in Activities /\ Live(new) /\ new.req = r /\ new.stage = "starting"
      /\ new.action = 0 /\ new.payload = None
  BY Codes DEF Activities, Live, Android!Calling
<1> HIDE DEF new
\* Nothing is left of the calls before but activities that wait to end.
<1>6. \A a \in activities : a \in Activities /\ ~Live(a) /\ a.payload # r
  BY <1>1, <1>2, <1>4 DEF ForTheCall, Ending
<1>7. r \in Android!Calling /\ ~Idle'
  BY <1>1 DEF Android!Calling, Idle
<1>8. \A q \in Requests : told[q] # "new" => told'[q] # "new"
  BY <1>1, <1>2
<1>9. Android!TypeOK'
  <2>1. activities' \in SUBSET Activities
    BY <1>1, <1>2, <1>5
  <2>2. told' \in [Requests -> {"new", "waiting", "answered", "failed"}] /\ told'[r] = "waiting"
    BY <1>1, <1>2
  <2> QED
    BY <1>1, <1>2, <1>7, <2>1, <2>2, AndroidTypes
       DEF Android!TypeOK, Plugins, Activities, Reports, Statuses, Android!Idle
<1>10. ForTheCall'
  BY <1>1, <1>3, <1>5, <1>6, <1>7 DEF ForTheCall, Live
<1>11. AsksForTheCall'
  BY <1>1, <1>5, <1>6 DEF AsksForTheCall, Live
<1>12. Stored'
  BY <1>1 DEF Stored
<1>13. Ending'
  <2> SUFFICES ASSUME NEW a \in activities'
      PROVE  /\ a.payload = None \/ told'[a.payload] # "new"
             /\ ~Live(a) =>
                  /\ a.result # "null" /\ ~(kt'.result = "null" /\ kt'.action = 0)
                  /\ \A b \in activities' : Live(b) => a.payload # current'
    BY DEF Ending, Live
  <2>1. CASE a = new
    BY <1>5, <2>1
  <2>2. CASE a \in activities
    <3>1. a.payload = None \/ (a.payload \in Requests /\ told[a.payload] # "new")
      BY <1>2, <1>6, <2>2 DEF Ending, Activities, Android!Calling
    <3>2. a.result # "null" /\ ~(kt.result = "null" /\ kt.action = 0)
      BY <1>2, <1>6, <2>2 DEF Ending
    <3>3. ~(kt'.result = "null" /\ kt'.action = 0)
      <4>1. plugin /\ state = "signing" => kt'.action # 0
        OBVIOUS
      <4>2. state = "connecting" \/ ~plugin => kt'.action = kt.action
        OBVIOUS
      <4> QED
        BY <3>2, <4>1, <4>2
    <3> QED
      BY <1>1, <1>6, <1>8, <2>2, <3>1, <3>2, <3>3
  <2> QED
    BY <1>1, <2>1, <2>2
<1>14. Android!SignedIsOwn' /\ Android!DirtyIsDue'
  BY <1>1, <1>2 DEF Android!SignedIsOwn, Android!DirtyIsDue
<1>15. ~plugin' => activities' = {} /\ kt'.status = 0
  BY <1>2
<1> QED
  BY <1>15, <1>1, <1>3, <1>9, <1>10, <1>11, <1>12, <1>13, <1>14 DEF AndroidInv

\* A call of an idle adapter stores what it asks for and starts an activity.
LEMMA AndroidCallsKeep ==
  ASSUME AndroidInv, NEW r \in Requests,
         Android!ConnectWallet(r) \/ Android!SignMessage(r) \/ Android!SignTextMessage(r)
  PROVE  AndroidInv'
<1>1. kt \in Plugins /\ r \in Android!Calling /\ plugin \in BOOLEAN /\ dirty \in BOOLEAN
  BY AndroidTypes DEF AndroidInv, Android!Calling
<1>2. CASE Android!ConnectWallet(r)
  <2>1. /\ told[r] = "new" /\ Idle /\ wallet_state' = "connecting" /\ current' = r /\ dirty' = dirty
        /\ told' = [told EXCEPT ![r] = "waiting"] /\ UNCHANGED <<plugin, got, unheard>>
        /\ kt' = kt /\ (~plugin => activities' = activities)
        /\ activities' = activities \/ Android!StartActivity(r)
        /\ activities' = activities \/ (kt.action = 0 /\ kt.result = "null")
    BY <1>2 DEF Android!ConnectWallet, Android!Calls, Android!PluginConnect, Idle, Android!Idle
  <2> QED
    BY <1>1, <2>1, AndroidCallKeeps
<1>3. CASE Android!SignMessage(r)
  <2>1. /\ told[r] = "new" /\ Idle /\ wallet_state' = "signing" /\ current' = r /\ dirty' = FALSE
        /\ told' = [told EXCEPT ![r] = "waiting"] /\ UNCHANGED <<plugin, got, unheard>>
        /\ IF plugin THEN kt' = [kt EXCEPT !.action = 1, !.transaction = r] /\ Android!StartActivity(r)
                     ELSE kt' = kt /\ activities' = activities
    BY <1>3 DEF Android!SignMessage, Android!Calls, Android!PluginSignTransaction, Idle, Android!Idle
  <2>2. kt' \in Plugins
    BY <1>1, <2>1, Codes DEF Plugins
  <2>3. /\ kt'.status = kt.status /\ kt'.result = kt.result
        /\ plugin => kt'.action = 1 /\ kt'.transaction = r
    BY <1>1, <2>1 DEF Plugins
  <2> QED
    BY <2>1, <2>2, <2>3, AndroidCallKeeps
<1>4. CASE Android!SignTextMessage(r)
  <2>1. /\ told[r] = "new" /\ Idle /\ wallet_state' = "signing" /\ current' = r /\ dirty' = FALSE
        /\ told' = [told EXCEPT ![r] = "waiting"] /\ UNCHANGED <<plugin, got, unheard>>
        /\ IF plugin THEN kt' = [kt EXCEPT !.action = 2, !.text = r] /\ Android!StartActivity(r)
                     ELSE kt' = kt /\ activities' = activities
    BY <1>4 DEF Android!SignTextMessage, Android!Calls, Android!PluginSignText, Idle, Android!Idle
  <2>2. kt' \in Plugins
    BY <1>1, <2>1, Codes DEF Plugins
  <2>3. /\ kt'.status = kt.status /\ kt'.result = kt.result
        /\ plugin => kt'.action = 2 /\ kt'.text = r
    BY <1>1, <2>1 DEF Plugins
  <2> QED
    BY <2>1, <2>2, <2>3, AndroidCallKeeps
<1> QED
  BY <1>2, <1>3, <1>4

\* What a step of an activity starts from.
LEMMA ActivityFields ==
  ASSUME AndroidInv, NEW a \in activities
  PROVE  /\ kt \in Plugins /\ activities \in SUBSET Activities /\ a \in Activities
         /\ wallet_state \in {"idle", "connecting", "signing"} /\ None \notin Requests /\ plugin
         /\ Live(a) => /\ ~Idle /\ wallet_state \in {"connecting", "signing"} /\ current \in Requests
                       /\ current \in Android!Calling /\ told[current] = "waiting"
                       /\ \A b \in activities : Live(b) => b = a
         /\ a.payload = None \/ told[a.payload] # "new"
<1>1. /\ kt \in Plugins /\ activities \in SUBSET Activities /\ ForTheCall /\ Ending
      /\ wallet_state \in {"idle", "connecting", "signing"} /\ (~Idle => told[current] = "waiting")
      /\ (~Idle => current \in Requests) /\ plugin
  BY AndroidTypes DEF AndroidInv
<1>2. Live(a) => ~Idle /\ \A b \in activities : Live(b) => b = a
  BY <1>1 DEF ForTheCall
<1>3. a.payload = None \/ told[a.payload] # "new"
  BY <1>1 DEF Ending
<1> QED
  BY <1>1, <1>2, <1>3, Assumption DEF Idle, Android!Calling

\* The activity of the call goes on.
LEMMA GoesOnKeeps ==
  ASSUME AndroidInv, NEW a \in activities, Live(a), NEW b \in Activities, Live(b), b.req = a.req,
         activities' = (activities \ {a}) \cup {b}, kt' = kt,
         UNCHANGED <<wallet_state, current, dirty, plugin, told, got, unheard>>,
         wallet_state = "connecting" => b.action = 0,
         wallet_state = "signing" =>
           /\ b.stage # "starting" => b.action = kt.action
           /\ b.stage = "asking" => b.payload = current,
         b.payload = None \/ told[b.payload] # "new"
  PROVE  AndroidInv'
<1>1. /\ kt \in Plugins /\ activities \in SUBSET Activities /\ plugin /\ plugin'
      /\ ~Idle /\ \A c \in activities : Live(c) => c = a
  BY ActivityFields
<1>2. /\ ForTheCall /\ AsksForTheCall /\ Stored /\ Ending /\ Android!SignedIsOwn /\ Android!DirtyIsDue
      /\ a.req = current /\ kt.status = 0 /\ (~Idle => current \in Requests)
  BY DEF AndroidInv, ForTheCall
<1>3. /\ \A c \in activities' : c = b \/ (c \in activities /\ c # a)
      /\ \A c \in activities' : Live(c) => c = b
  BY <1>1
<1>4. Android!TypeOK'
  <2>1. activities' \in SUBSET Activities
    BY <1>1
  <2> QED
    BY <2>1 DEF AndroidInv, Android!TypeOK, Activities, Statuses, Android!Idle
<1>5. ForTheCall'
  BY <1>1, <1>2, <1>3 DEF ForTheCall, Live, Idle
<1>6. AsksForTheCall'
  <2>1. wallet_state = "connecting" => kt.action = 0 /\ kt.result = "null"
    BY <1>2 DEF AsksForTheCall
  <2> QED
    BY <1>3, <2>1 DEF AsksForTheCall, Live
<1>7. Stored' /\ Android!SignedIsOwn' /\ Android!DirtyIsDue'
  BY <1>2 DEF Stored, Android!SignedIsOwn, Android!DirtyIsDue
<1>8. Ending'
  <2> SUFFICES ASSUME NEW c \in activities'
      PROVE  /\ c.payload = None \/ told[c.payload] # "new"
             /\ ~Live(c) =>
                  /\ c.result # "null" /\ ~(kt.result = "null" /\ kt.action = 0)
                  /\ \A d \in activities' : Live(d) => c.payload # current
    BY DEF Ending, Live
  <2>1. CASE c = b
    BY <2>1
  <2>2. CASE c \in activities
    BY <1>2, <2>2 DEF Ending
  <2> QED
    BY <1>3, <2>1, <2>2
<1> QED
  BY <1>1, <1>2, <1>4, <1>5, <1>6, <1>7, <1>8 DEF AndroidInv, Idle

\* The activity of the call has what it wants: none is left that asks.
LEMMA HasAskedKeeps ==
  ASSUME AndroidInv, NEW a \in activities, Live(a), NEW b \in Activities, ~Live(b),
         activities' = activities \ {a}
         \/ (activities' = (activities \ {a}) \cup {b} /\ kt.action # 0 /\ b.result # "null"),
         b.payload = a.payload,
         kt' \in Plugins, kt'.action = kt.action, kt'.transaction = kt.transaction, kt'.text = kt.text,
         kt'.result = kt.result \/ kt'.result # "null",
         kt'.status # 0 => wallet_state = "signing",
         kt'.status = 1 => kt'.signature.of = current,
         UNCHANGED <<wallet_state, current, dirty, plugin, told, got>>, unheard' \subseteq Requests
  PROVE  AndroidInv'
<1>1. /\ kt \in Plugins /\ activities \in SUBSET Activities /\ plugin /\ plugin'
      /\ ~Idle /\ \A c \in activities : Live(c) => c = a
      /\ a.payload = None \/ told[a.payload] # "new"
  BY ActivityFields
<1>2. Stored /\ Ending /\ Android!SignedIsOwn /\ Android!DirtyIsDue /\ Android!TypeOK /\ (~Idle => current \in Requests)
  BY DEF AndroidInv
<1>3. /\ \A c \in activities' : ~Live(c)
      /\ \A c \in activities' : (c = b /\ kt.action # 0 /\ b.result # "null") \/ (c \in activities /\ ~Live(c))
  BY <1>1
<1>4. Android!TypeOK'
  <2>1. activities' \in SUBSET Activities
    BY <1>1
  <2> QED
    BY <1>2, <2>1 DEF Android!TypeOK, Plugins, Activities, Statuses, Android!Idle
<1>5. ForTheCall' /\ AsksForTheCall'
  BY <1>3 DEF ForTheCall, AsksForTheCall, Live
<1>6. Stored' /\ Android!SignedIsOwn' /\ Android!DirtyIsDue'
  BY <1>2 DEF Stored, Android!SignedIsOwn, Android!DirtyIsDue
<1>7. Ending'
  <2> SUFFICES ASSUME NEW c \in activities'
      PROVE  /\ c.payload = None \/ told[c.payload] # "new"
             /\ c.result # "null" /\ ~(kt'.result = "null" /\ kt'.action = 0)
    BY <1>3 DEF Ending, Live
  <2>1. CASE c = b /\ kt.action # 0 /\ b.result # "null"
    BY <1>1, <2>1
  <2>2. CASE c \in activities /\ ~Live(c)
    BY <1>2, <2>2 DEF Ending
  <2> QED
    BY <1>3, <2>1, <2>2
<1> QED
  BY <1>1, <1>2, <1>4, <1>5, <1>6, <1>7 DEF AndroidInv, Idle

\* The activity reads myAction, which is that of its call.
LEMMA OnCreateKeeps ==
  ASSUME AndroidInv, NEW a \in activities, Android!OnCreate(a),
         UNCHANGED <<wallet_state, current, dirty, plugin, told, got, unheard>>
  PROVE  AndroidInv'
<1> DEFINE b == [a EXCEPT !.stage = "created", !.action = kt.action]
<1>1. a \in Activities /\ kt \in Plugins /\ (a.payload = None \/ told[a.payload] # "new")
  BY ActivityFields
<1>2. a.stage = "starting" /\ activities' = (activities \ {a}) \cup {b} /\ kt' = kt
  BY DEF Android!OnCreate, Android!Replaced
<1>3. /\ b \in Activities /\ b.stage = "created" /\ b.action = kt.action /\ b.req = a.req
      /\ b.payload = a.payload
  <2>1. kt.action \in Statuses
    BY <1>1 DEF Plugins
  <2> QED
    BY <1>1, <2>1 DEF Activities
<1>4. Live(a) /\ Live(b)
  BY <1>2, <1>3 DEF Live
<1>5. wallet_state = "connecting" => kt.action = 0
  BY <1>4 DEF AndroidInv, AsksForTheCall
<1> HIDE DEF b
<1> QED
  BY <1>1, <1>2, <1>3, <1>4, <1>5, GoesOnKeeps

\* It asks for what the call has stored.
LEMMA AskKeeps ==
  ASSUME AndroidInv, NEW a \in activities, Android!Ask(a),
         UNCHANGED <<wallet_state, current, dirty, plugin, told, got, unheard>>
  PROVE  AndroidInv'
<1> DEFINE payload == CASE a.action = 1 -> kt.transaction [] a.action = 2 -> kt.text [] OTHER -> None
           b == [a EXCEPT !.stage = "asking", !.payload = payload]
           ends == [a EXCEPT !.stage = "ending"]
<1>1. a \in Activities /\ kt \in Plugins /\ activities \in SUBSET Activities
  BY ActivityFields
<1>2. a.stage = "created" /\ Live(a)
  BY DEF Android!Ask, Live
<1>3. /\ ~Idle /\ wallet_state \in {"connecting", "signing"} /\ current \in Requests
      /\ current \in Android!Calling /\ told[current] = "waiting" /\ plugin
  BY <1>2, ActivityFields
<1>4. /\ wallet_state = "connecting" => a.action = 0
      /\ wallet_state = "signing" => a.action = kt.action
  BY <1>2 DEF AndroidInv, AsksForTheCall
<1>5. /\ wallet_state = "signing" => payload = current
      /\ wallet_state = "connecting" => payload = None
  BY <1>3, <1>4 DEF AndroidInv, Stored
<1>6. CASE a.action = 2 /\ ~kt.key
  <2>1. kt' = [kt EXCEPT !.status = 2] /\ activities' = activities \ {a}
    BY <1>6 DEF Android!Ask, Android!Finished
  <2>2. /\ kt' \in Plugins /\ kt'.status = 2 /\ kt'.action = kt.action /\ kt'.result = kt.result
        /\ kt'.transaction = kt.transaction /\ kt'.text = kt.text
    BY <1>1, <2>1, Codes DEF Plugins
  <2>3. ends \in Activities /\ ends.payload = a.payload /\ ~Live(ends)
    BY <1>1 DEF Activities, Live
  <2>4. wallet_state = "signing"
    BY <1>3, <1>4, <1>6
  <2>5. unheard' \subseteq Requests
    BY AndroidTypes DEF AndroidInv
  <2> HIDE DEF ends
  <2> QED
    BY <1>2, <2>1, <2>2, <2>3, <2>4, <2>5, HasAskedKeeps
<1>7. CASE ~(a.action = 2 /\ ~kt.key)
  <2>1. activities' = (activities \ {a}) \cup {b} /\ kt' = kt
    BY <1>7 DEF Android!Ask, Android!Replaced
  <2>2. payload \in Android!Calling
    BY <1>3, <1>5 DEF Android!Calling
  <2>3. payload = None \/ told[payload] # "new"
    BY <1>3, <1>5
  <2> HIDE DEF payload
  <2>4. /\ b \in Activities /\ b.stage = "asking" /\ b.action = a.action /\ b.req = a.req
        /\ b.payload = payload /\ Live(b)
    BY <1>1, <2>2 DEF Activities, Live
  <2> HIDE DEF b
  <2> QED
    BY <1>2, <1>4, <1>5, <2>1, <2>3, <2>4, GoesOnKeeps
<1> QED
  BY <1>6, <1>7

\* The user connects, or does not.
LEMMA ConnectedKeeps ==
  ASSUME AndroidInv, NEW a \in activities, Android!Connected(a),
         UNCHANGED <<wallet_state, current, dirty, plugin, told, got, unheard>>
  PROVE  AndroidInv'
<1> DEFINE ends == [a EXCEPT !.stage = "ending"]
<1>1. a \in Activities /\ kt \in Plugins
  BY ActivityFields
<1>2. /\ a.stage = "asking" /\ Live(a) /\ activities' = activities \ {a}
      /\ \/ kt' = [kt EXCEPT !.key = TRUE, !.result = "Success"]
         \/ kt' = [kt EXCEPT !.result = "Failure"]
  BY DEF Android!Connected, Android!Finished, Live
<1>3. kt.status = 0
  BY <1>2 DEF AndroidInv, ForTheCall
<1>4. /\ kt' \in Plugins /\ kt'.status = kt.status /\ kt'.action = kt.action /\ kt'.result # "null"
      /\ kt'.transaction = kt.transaction /\ kt'.text = kt.text
  <2>1. CASE kt' = [kt EXCEPT !.key = TRUE, !.result = "Success"]
    BY <1>1, <2>1 DEF Plugins
  <2>2. CASE kt' = [kt EXCEPT !.result = "Failure"]
    BY <1>1, <2>2 DEF Plugins
  <2> QED
    BY <1>2, <2>1, <2>2
<1>5. ends \in Activities /\ ends.payload = a.payload /\ ~Live(ends)
  BY <1>1 DEF Activities, Live
<1>6. unheard' \subseteq Requests
  BY AndroidTypes DEF AndroidInv
<1> HIDE DEF ends
<1> QED
  BY <1>2, <1>3, <1>4, <1>5, <1>6, HasAskedKeeps

\* The user signs, or does not.
LEMMA SignedKeeps ==
  ASSUME AndroidInv, NEW a \in activities, Android!Signed(a),
         UNCHANGED <<wallet_state, current, dirty, plugin, told, got>>
  PROVE  AndroidInv'
<1>1. a \in Activities /\ kt \in Plugins /\ unheard \subseteq Requests
  BY ActivityFields, AndroidTypes DEF AndroidInv
<1>2. a.stage = "asking" /\ a.action # 0 /\ Live(a)
  BY DEF Android!Signed, Live
<1>3. wallet_state \in {"connecting", "signing"}
  BY <1>2, ActivityFields
<1>4. wallet_state = "signing" /\ kt.action # 0 /\ a.payload = current /\ kt.status = 0
      /\ a.req = current /\ current \in Requests
  BY <1>2, <1>3 DEF AndroidInv, AsksForTheCall, ForTheCall
<1>5. PICK kind \in {"transaction", "modified", "text"}, result \in {"Success", "Failure"} :
        /\ activities' = (activities \ {a}) \cup {[a EXCEPT !.stage = "ending", !.result = result]}
        /\ \/ kt' = [kt EXCEPT !.status = 1, !.signature = Android!Signature(a.payload, kind)]
              /\ unheard' = unheard
           \/ kt' = kt /\ unheard' = unheard \cup {a.req}
           \/ kt' = [kt EXCEPT !.status = 2] /\ unheard' = unheard
  BY DEF Android!Signed, Android!Ends, Android!Replaced, Android!Refuse
<1> DEFINE signature == Android!Signature(a.payload, kind)
<1>6. signature \in Android!AnySignature /\ signature.of = current
  <2>1. a.payload \in Android!Calling
    BY <1>1 DEF Activities
  <2> QED
    BY <1>4, <2>1, SignatureType
<1> HIDE DEF signature
<1> DEFINE b == [a EXCEPT !.stage = "ending", !.result = result]
<1>7. b \in Activities /\ b.payload = a.payload /\ b.result # "null" /\ ~Live(b)
  BY <1>1, <1>5 DEF Activities, Live
<1>8. /\ kt' \in Plugins /\ kt'.action = kt.action /\ kt'.result = kt.result
      /\ kt'.transaction = kt.transaction /\ kt'.text = kt.text
      /\ kt'.status = 1 => kt'.signature.of = current
  <2>1. CASE kt' = [kt EXCEPT !.status = 1, !.signature = signature]
    BY <1>1, <1>6, <2>1, Codes DEF Plugins
  <2>2. CASE kt' = kt
    BY <1>1, <1>4, <2>2
  <2>3. CASE kt' = [kt EXCEPT !.status = 2]
    BY <1>1, <2>3, Codes DEF Plugins
  <2> QED
    BY <1>5, <2>1, <2>2, <2>3 DEF signature
<1>9. unheard' \subseteq Requests
  BY <1>1, <1>4, <1>5
<1>10. activities' = (activities \ {a}) \cup {b}
  BY <1>5
<1> HIDE DEF b
<1> QED
  BY <1>2, <1>4, <1>7, <1>8, <1>9, <1>10, HasAskedKeeps

\* An activity that ends changes no call but by its result.
LEMMA FinishKeeps ==
  ASSUME AndroidInv, NEW a \in activities, Android!Finish(a),
         UNCHANGED <<wallet_state, current, dirty, plugin, told, got, unheard>>
  PROVE  AndroidInv'
<1>1. a \in Activities /\ kt \in Plugins /\ plugin /\ plugin'
  BY ActivityFields
<1>2. ~Live(a) /\ activities' = activities \ {a} /\ kt' = [kt EXCEPT !.result = a.result]
  BY DEF Android!Finish, Android!Finished, Live
<1>3. a.result \in {"null", "Success", "Failure"} /\ a.result # "null" /\ ~(kt.result = "null" /\ kt.action = 0)
  BY <1>1, <1>2 DEF AndroidInv, Ending, Activities
<1>4. /\ kt' \in Plugins /\ kt'.result # "null" /\ kt'.action = kt.action /\ kt'.status = kt.status
      /\ kt'.transaction = kt.transaction /\ kt'.text = kt.text /\ kt'.signature = kt.signature
  BY <1>1, <1>2, <1>3 DEF Plugins
<1>5. /\ ForTheCall /\ AsksForTheCall /\ Stored /\ Ending
      /\ Android!SignedIsOwn /\ Android!DirtyIsDue /\ Android!TypeOK
      /\ (~Idle => current \in Requests)
      /\ wallet_state # "signing" => kt.status = 0
      /\ wallet_state = "signing" /\ kt.status = 1 => kt.signature.of = current
  BY DEF AndroidInv
<1>6. Android!TypeOK'
  BY <1>2, <1>4, <1>5 DEF Android!TypeOK, Plugins, Statuses, Android!Idle
<1>7. ForTheCall'
  BY <1>2, <1>4, <1>5 DEF ForTheCall, Live, Idle
<1>8. AsksForTheCall'
  BY <1>2, <1>3, <1>4, <1>5 DEF AsksForTheCall, Live
<1>9. Stored' /\ Android!SignedIsOwn' /\ Android!DirtyIsDue'
  BY <1>4, <1>5 DEF Stored, Android!SignedIsOwn, Android!DirtyIsDue
<1>10. Ending'
  BY <1>2, <1>4, <1>5 DEF Ending, Live
<1> QED
  BY <1>1, <1>4, <1>5, <1>6, <1>7, <1>8, <1>9, <1>10 DEF AndroidInv, Idle

\* The poll ends a call whose activity has asked, and delivers its signature.
LEMMA AndroidProcessKeeps ==
  ASSUME AndroidInv, Android!Process
  PROVE  AndroidInv'
<1>1. /\ Stored /\ ForTheCall /\ AsksForTheCall /\ Ending /\ Android!SignedIsOwn /\ Android!DirtyIsDue
      /\ kt \in Plugins /\ activities \in SUBSET Activities /\ unheard \subseteq Requests
      /\ current \in Android!Calling
      /\ told \in [Requests -> {"new", "waiting", "answered", "failed"}]
      /\ got \in [Requests -> Reports] /\ (~Idle => current \in Requests)
      /\ dirty \in BOOLEAN /\ plugin \in BOOLEAN /\ (~plugin => activities = {} /\ kt.status = 0)
  BY AndroidTypes DEF AndroidInv
<1>2. /\ current' = current /\ activities' = activities /\ plugin' = plugin /\ wallet_state' = "idle"
      /\ \/ kt' = [kt EXCEPT !.status = 0]
         \/ kt' = [[kt EXCEPT !.action = 0] EXCEPT !.status = 0] /\ kt.result = "Success"
      /\ \/ wallet_state = "connecting" /\ (plugin => kt.result # "null") /\ got' = got /\ dirty' = dirty
         \/ wallet_state = "signing" /\ (plugin => kt.status # 0) /\ dirty' \in {FALSE, dirty}
      /\ \/ told' = [told EXCEPT ![current] = "answered"] /\ unheard' = unheard
         \/ told' = [told EXCEPT ![current] = "failed"] /\ unheard' = unheard
         \/ told' = told /\ unheard' = unheard \cup {current}
      /\ \/ got' = got
         \/ /\ kt.status = 1 /\ wallet_state = "signing"
            /\ got' = [got EXCEPT ![current] = [signature |-> kt.signature, dirty |-> FALSE]]
  BY DEF Android!Process, Android!PollConnection, Android!PollMessageSigning, Android!ClearState, Android!Emit
<1>3. ~Idle /\ current \in Requests /\ Idle' /\ wallet_state' # "signing"
  BY <1>1, <1>2 DEF Idle
<1>4. \A a \in activities : ~Live(a)
  BY <1>1, <1>2 DEF ForTheCall, AsksForTheCall
<1>5. kt' \in Plugins /\ kt'.status = 0 /\ kt'.result = kt.result
      /\ (kt'.action = kt.action \/ kt.result = "Success")
  <2>1. CASE kt' = [kt EXCEPT !.status = 0]
    BY <1>1, <2>1, Codes DEF Plugins
  <2>2. CASE kt' = [[kt EXCEPT !.action = 0] EXCEPT !.status = 0] /\ kt.result = "Success"
    BY <1>1, <2>2, Codes DEF Plugins
  <2> QED
    BY <1>2, <2>1, <2>2
<1>6. /\ told' \in [Requests -> {"new", "waiting", "answered", "failed"}]
      /\ \A r \in Requests : told[r] # "new" => told'[r] # "new"
  <2>1. CASE told' = [told EXCEPT ![current] = "answered"]
    BY <1>1, <1>3, <2>1
  <2>2. CASE told' = [told EXCEPT ![current] = "failed"]
    BY <1>1, <1>3, <2>2
  <2>3. CASE told' = told
    BY <1>1, <2>3
  <2> QED
    BY <1>2, <2>1, <2>2, <2>3
<1>7. got' \in [Requests -> Reports] /\ Android!SignedIsOwn' /\ Android!DirtyIsDue'
  <2>1. CASE got' = got
    BY <1>1, <2>1 DEF Android!SignedIsOwn, Android!DirtyIsDue
  <2>2. CASE /\ kt.status = 1 /\ wallet_state = "signing"
             /\ got' = [got EXCEPT ![current] = [signature |-> kt.signature, dirty |-> FALSE]]
    <3> DEFINE new == [signature |-> kt.signature, dirty |-> FALSE]
    <3>1. kt.signature \in Android!AnySignature /\ kt.signature.of = current
      BY <1>1, <2>2 DEF AndroidInv, Plugins
    <3>2. new \in Reports /\ new.signature.of = current /\ new.dirty = FALSE
      BY <3>1 DEF Reports
    <3> HIDE DEF new
    <3>3. got' = [got EXCEPT ![current] = new]
      BY <2>2 DEF new
    <3>4. \A r \in Requests : got'[r] = IF r = current THEN new ELSE got[r]
      BY <1>1, <3>3
    <3>5. Android!SignedIsOwn' /\ Android!DirtyIsDue'
      BY <1>1, <3>2, <3>4 DEF Android!SignedIsOwn, Android!DirtyIsDue
    <3> QED
      BY <1>1, <3>2, <3>3, <3>5
  <2> QED
    BY <1>2, <2>1, <2>2
<1>8. unheard' \subseteq Requests
  BY <1>1, <1>2, <1>3
<1>9. Android!TypeOK'
  BY <1>1, <1>2, <1>3, <1>5, <1>6, <1>7, <1>8
     DEF Android!TypeOK, Plugins, Activities, Reports, Statuses, Android!Idle, Idle
<1>10. ForTheCall' /\ AsksForTheCall'
  BY <1>2, <1>4 DEF ForTheCall, AsksForTheCall, Live
<1>11. Stored'
  BY <1>3 DEF Stored
<1>12. Ending'
  <2> SUFFICES ASSUME NEW a \in activities
      PROVE  /\ a.payload = None \/ told'[a.payload] # "new"
             /\ a.result # "null" /\ ~(kt'.result = "null" /\ kt'.action = 0)
    BY <1>2, <1>4 DEF Ending, Live
  <2>1. a.payload = None \/ (a.payload \in Requests /\ told[a.payload] # "new")
    BY <1>1 DEF Ending, Activities, Android!Calling
  <2>2. a.result # "null" /\ ~(kt.result = "null" /\ kt.action = 0)
    BY <1>1, <1>4 DEF Ending
  <2> QED
    BY <1>5, <1>6, <2>1, <2>2
<1> QED
  BY <1>1, <1>2, <1>3, <1>5, <1>7, <1>9, <1>10, <1>11, <1>12 DEF AndroidInv

\* No step of the Android build breaks its invariant.
LEMMA AndroidNextKeeps ==
  ASSUME AndroidInv, [Android!Next]_(Android!vars)
  PROVE  AndroidInv'
<1>1. ASSUME NEW r \in Requests,
             Android!ConnectWallet(r) \/ Android!SignMessage(r) \/ Android!SignTextMessage(r)
      PROVE  AndroidInv'
  BY <1>1, AndroidCallsKeep
<1>2. ASSUME NEW a \in activities, Android!Activity(a) PROVE AndroidInv'
  <2>1. UNCHANGED <<wallet_state, current, dirty, plugin, told, got>>
    BY <1>2 DEF Android!Activity
  <2>2. CASE Android!Signed(a)
    BY <2>1, <2>2, SignedKeeps
  <2>3. CASE UNCHANGED unheard /\ Android!OnCreate(a)
    BY <2>1, <2>3, OnCreateKeeps
  <2>4. CASE UNCHANGED unheard /\ Android!Ask(a)
    BY <2>1, <2>4, AskKeeps
  <2>5. CASE UNCHANGED unheard /\ Android!Connected(a)
    BY <2>1, <2>5, ConnectedKeeps
  <2>6. CASE UNCHANGED unheard /\ Android!Finish(a)
    BY <2>1, <2>6, FinishKeeps
  <2> QED
    BY <1>2, <2>2, <2>3, <2>4, <2>5, <2>6 DEF Android!Activity
<1>3. CASE Android!Process
  BY <1>3, AndroidProcessKeeps
<1>4. CASE UNCHANGED Android!vars
  <2>1. /\ wallet_state' = wallet_state /\ current' = current /\ kt' = kt /\ activities' = activities
        /\ dirty' = dirty /\ plugin' = plugin
        /\ told' = told /\ got' = got /\ unheard' = unheard
    BY <1>4 DEF Android!vars
  <2>2. Android!TypeOK' /\ Android!SignedIsOwn' /\ Android!DirtyIsDue'
    BY <2>1 DEF AndroidInv, Android!TypeOK, Android!SignedIsOwn, Android!DirtyIsDue, Android!Idle
  <2>3. ForTheCall' /\ AsksForTheCall' /\ Stored' /\ Ending'
    BY <2>1 DEF AndroidInv, ForTheCall, AsksForTheCall, Stored, Ending, Live, Idle
  <2> QED
    BY <2>1, <2>2, <2>3 DEF AndroidInv, Idle
<1> QED
  BY <1>1, <1>2, <1>3, <1>4 DEF Android!Next, Android!Return

-----------------------------------------------------------------------------
(* The adapter.                                                            *)

\* Both builds begin well.
LEMMA InitKeeps == InitAdapter => AdapterInv
BY InitWeb, InitAndroid DEF InitAdapter, AdapterInv

\* And go on so, each by its own steps.
LEMMA NextKeeps == AdapterInv /\ [NextAdapter]_adapterVars => AdapterInv'
<1> SUFFICES ASSUME AdapterInv, [NextAdapter]_adapterVars
             PROVE  AdapterInv'
  OBVIOUS
<1>1. CASE build = "web" /\ Next /\ UNCHANGED <<build, plugin, kt, activities>>
  BY <1>1, WebNextKeeps DEF AdapterInv
<1>2. CASE build = "android" /\ Android!Next /\ UNCHANGED <<build, js, popups>>
  BY <1>2, AndroidNextKeeps DEF AdapterInv
<1>3. CASE UNCHANGED adapterVars
  <2>1. build' = build /\ UNCHANGED vars /\ UNCHANGED Android!vars
    BY <1>3 DEF adapterVars, vars, Android!vars
  <2> QED
    BY <2>1, WebNextKeeps, AndroidNextKeeps DEF AdapterInv
<1> QED
  BY <1>1, <1>2, <1>3 DEF NextAdapter

\* So the invariant always holds.
LEMMA Always == SpecAdapter => []AdapterInv
BY InitKeeps, NextKeeps, PTL DEF SpecAdapter

\* For any calls in either build: message_signed delivers the signature of what
\* the call it answers has sent; did_transaction_change is the truth in the web
\* build, and in the Android build claims no change there was not.
THEOREM SignaturesAreOwn == SpecAdapter => []EverySignatureIsOwn
<1>1. AdapterInv => EverySignatureIsOwn
  BY DEF AdapterInv, WebInv, AndroidInv, EverySignatureIsOwn
<1> QED
  BY <1>1, Always, PTL

\* For any calls the Android user is asked to sign what the call the node waits
\* for has stored, by one activity, although those of the calls before may still
\* wait to end and share myStoredTransaction with it.
THEOREM AskedForTheCall == SpecAdapter => []AskedForACall
<1>1. AdapterInv => AskedForACall
  <2> SUFFICES ASSUME AndroidInv, NEW a \in activities, a.stage = "asking", a.action # 0
               PROVE  told[a.payload] = "waiting" /\ \A b \in activities : b.payload = a.payload => b = a
    BY DEF AdapterInv, AskedForACall, Android!AskedForACall
  <2>1. Live(a)
    BY DEF Live
  <2>2. /\ wallet_state \in {"connecting", "signing"} /\ told[current] = "waiting"
        /\ \A b \in activities : Live(b) => b = a
    BY <2>1, ActivityFields
  <2>3. wallet_state = "signing" /\ a.payload = current
    BY <2>1, <2>2 DEF AndroidInv, AsksForTheCall
  <2>4. ASSUME NEW b \in activities, b.payload = a.payload PROVE b = a
    BY <2>1, <2>2, <2>3, <2>4 DEF AndroidInv, Ending
  <2> QED
    BY <2>2, <2>3, <2>4
<1> QED
  BY <1>1, Always, PTL
=============================================================================
