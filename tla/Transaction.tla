---------------------------- MODULE Transaction ----------------------------
(***************************************************************************)
(* One Transaction object (src/src/transaction/transaction.cpp): building  *)
(* the message, fetching a blockhash, collecting the signatures of keypair *)
(* and wallet signers, and sending.  Everything runs on Godot's main       *)
(* thread, so a call, an RPC answer or a wallet answer is one step with    *)
(* every signal handler it triggers; between two steps anything may come.  *)
(* A handler that is entered from another one is an operator from the      *)
(* object to the object it leaves behind; an action applies one to tx.     *)
(***************************************************************************)
EXTENDS Naturals, Sequences, FiniteSets

CONSTANTS
  Keypairs,    \* signers that sign at once (Keypair)
  Wallets,     \* signers behind a popup (WalletAdapter)
  SignerList,  \* SignerList[n]: signers of the message of n instructions, payer first
  Inline,      \* signers the instructions name by a signing object, not by a Pubkey
  Alterers,    \* wallets that may return a modified transaction
  Hashes,      \* blockhashes the RPC node may return
  Api,         \* the calls the application makes
  Documented,  \* the kinds of calls it makes in the documented order, of Kinds
  MaxFee,      \* bound: changes of the unit price
  MaxReady,    \* bound: ready_signature_amount after which no signing call is made
  MaxRequests, \* bound: RPC requests in flight when a call starts another one
  MaxAltered,  \* signers of a transaction a wallet of Alterers modifies, at most
  NoHash, NoMessage, NoSig, Nil

Signer == Keypairs \cup Wallets
Kinds == {"edit", "price", "fetch", "sign", "send"}

ASSUME ConstantsAssumption ==
  /\ IsFiniteSet(Signer)
  /\ Keypairs \cap Wallets = {}
  /\ SignerList \in Seq(Seq(Signer) \ {<<>>})
  /\ Inline \subseteq Signer
  /\ Alterers \subseteq Wallets
  /\ Nil \notin Signer
  /\ NoHash \notin Hashes
  /\ MaxFee \in Nat /\ MaxReady \in Nat /\ MaxRequests \in Nat /\ MaxAltered \in Nat
  /\ Documented \subseteq Kinds

\* The unit price a wallet writes into a transaction it modifies.
AlteredFee == MaxFee + 1

\* What a message says, as far as a signature over it is concerned.
Message == [ix : DOMAIN SignerList, fee : 0 .. AlteredFee, hash : Hashes \cup {NoHash}]
Signature == [by : Signer, over : Message]
\* A serialized transaction: the message and the signature slots before it.
Slots == Seq(Signature \cup {NoSig})
Payload == [msg : Message, sigs : Slots]

ASSUME NullAssumption == NoMessage \notin Message /\ NoSig \notin Signature

\* A message names each signer once: the metas of a key are merged
\* (merged_account_metas.cpp).
ASSUME SignersAssumption ==
  \A n \in DOMAIN SignerList : \A i, j \in DOMAIN SignerList[n] :
    SignerList[n][i] = SignerList[n][j] => i = j

VARIABLES
  tx,   \* the fields and signal connections of the object, see TypeOK
  rpc   \* requests in flight at the shared http client, by kind

vars == <<tx, rpc>>

SignersOf(m) == SignerList[m.ix]
Amount(m) == Len(SignersOf(m))
Valid(m, i) == [by |-> SignersOf(m)[i], over |-> m]
Blank(n) == [i \in 1 .. n |-> NoSig]
Ready(sigs) == Cardinality({i \in DOMAIN sigs : sigs[i] # NoSig})
FullySigned(p) == p.sigs = [i \in 1 .. Amount(p.msg) |-> Valid(p.msg, i)]

\* Array Message::get_signers(): the keys of the signing metas; a key that is
\* no signing object is Nil.
GetSigners(t) ==
  [i \in 1 .. Amount(t.message) |->
     IF SignersOf(t.message)[i] \in t.supplied THEN SignersOf(t.message)[i] ELSE Nil]

SizesAgree(t) == t.message # NoMessage /\ Amount(t.message) = Len(t.signatures)
Serialized(t) == [msg |-> t.message, sigs |-> t.signatures]

----------------------------------------------------------------------------
(* Building the message.                                                   *)

ResetState(t) ==
  [t EXCEPT !.ready = 0, !.signatures = <<>>, !.signers = <<>>, !.result = "none"]

\* The keys of the payer's own meta are made anew; those of the instructions'
\* metas keep the objects set_signers merged into them.
CreateMessage(t) ==
  IF t.ix = 0 \/ ~t.payer
  THEN [t EXCEPT !.signatures = <<>>]
  ELSE LET m == [ix |-> t.ix, fee |-> t.fee, hash |-> t.hash]
           built == [t EXCEPT !.message = m,
                              !.supplied = Inline \cup (@ \ {SignersOf(m)[1]})]
       IN IF Len(t.signers) = Amount(m)
          THEN built
          ELSE [built EXCEPT !.ready = 0, !.signatures = Blank(Amount(m))]

----------------------------------------------------------------------------
(* Signals.  A one-shot connection is dropped before its handler runs, and *)
(* connecting a method twice leaves one connection.                        *)

\* void Transaction::send()
SendTx(t) ==
  IF ~SizesAgree(t)          THEN t
  ELSE IF t.pending_blockhash THEN [t EXCEPT !.sendOnFullySigned = TRUE]
  ELSE [t EXCEPT !.pending_send = TRUE, !.sent = @ \cup {Serialized(t)}]

\* emit_signal("fully_signed"), to which at most send is connected.
EmitFullySigned(t) ==
  LET e == [t EXCEPT !.claims = @ \cup {Serialized(t)}, !.sendOnFullySigned = FALSE]
  IN IF t.sendOnFullySigned THEN SendTx(e) ELSE e

\* Mutant: one signature too early.
CheckOneEarly(t) ==
  IF t.ready + 1 >= Len(t.signatures) THEN EmitFullySigned(t) ELSE t

CheckFullySigned(t) ==
  IF t.ready = Len(t.signatures) THEN EmitFullySigned(t) ELSE t

\* sign_at_index(j) for every j of J in slot order.  The signature of a keypair
\* is there at once, and the one that brings the counter to the number of slots
\* emits fully_signed with the later slots still as they were; a wallet gets both
\* its signals connected and the transaction as it is by then.
SignIndices(t, J) ==
  LET K       == {j \in J : t.signers[j] \in Keypairs}
      Upto(j) == {k \in K : k <= j}
      Filled(u, L) ==
        [u EXCEPT !.ready = t.ready + Cardinality(L),
                  !.signatures = [i \in DOMAIN @ |-> IF i \in L THEN Valid(t.message, i) ELSE @[i]]]
      Last    == {j \in K : t.ready + Cardinality(Upto(j)) = Len(t.signatures)}
      first   == IF Last = {} THEN t
                 ELSE EmitFullySigned(Filled(t, Upto(CHOOSE j \in Last : TRUE)))
      Asked(w) == {j \in J : t.signers[j] = w}
      Connect(on) == [w \in Wallets |-> IF Asked(w) = {} \/ on[w] # 0 THEN on[w]
                                        ELSE CHOOSE j \in Asked(w) : TRUE]
  IN IF ~(J \subseteq DOMAIN t.signers) \/ (K # {} /\ ~SizesAgree(t))
     THEN [t EXCEPT !.crashed = TRUE]
     ELSE [Filled(first, K) EXCEPT
             !.popup = [w \in Wallets |-> @[w] \cup {Serialized(Filled(t, Upto(j))) : j \in Asked(w)}],
             !.onSigned = Connect(@),
             !.onFailed = Connect(@)]

SignAll(t, J) ==
  LET done == SignIndices([t EXCEPT !.signers = GetSigners(t)], J)
  IN IF done.crashed THEN done ELSE CheckFullySigned(done)

Indices(t, by) == {j \in 1 .. Amount(t.message) : SignersOf(t.message)[j] \in by}

\* Error Transaction::sign() and partially_sign(array): while the blockhash is
\* pending the call is made again by send_ready.
SignCall(t, method, by) ==
  IF t.message = NoMessage THEN t
  ELSE IF ~t.pending_blockhash THEN SignAll(t, Indices(t, by))
  ELSE IF \E i \in DOMAIN t.onSendReady : t.onSendReady[i].method = method THEN t
  ELSE [t EXCEPT !.onSendReady = Append(@, [method |-> method, by |-> by])]

----------------------------------------------------------------------------
(* Handlers.                                                               *)

\* Mutant: the blockhash is stored for the next message only.
SetHashOfObject(t, h) == [t EXCEPT !.hash = h]

SetHash(t, h) ==
  [t EXCEPT !.hash = h,
            !.message = IF @ = NoMessage THEN @ ELSE [@ EXCEPT !.hash = h]]

\* Mutant: send_ready is not emitted.
BlockhashWithoutSendReady(t, ok, h) ==
  IF ok THEN [SetHash(t, h) EXCEPT !.pending_blockhash = FALSE]
  ELSE [t EXCEPT !.pending_blockhash = FALSE]

\* void Transaction::blockhash_callback(error, params); h is what params holds
\* where a blockhash answer has its hash.
BlockhashCallback(t, ok, h) ==
  LET got     == [t EXCEPT !.pending_blockhash = FALSE]
      calls   == t.onSendReady
      Run(u, i) == IF i \in DOMAIN calls THEN SignCall(u, calls[i].method, calls[i].by) ELSE u
  IN IF ok THEN Run(Run([SetHash(got, h) EXCEPT !.onSendReady = <<>>], 1), 2) ELSE got

\* Mutant: a failed send stays pending.
SendCallbackOnSuccess(t, ok, res) ==
  IF ok THEN [t EXCEPT !.pending_send = FALSE, !.result = res] ELSE t

\* void Transaction::send_callback(error, params)
SendCallback(t, ok, res) ==
  [t EXCEPT !.pending_send = FALSE, !.result = IF ok THEN res ELSE @]

\* http_request_completed reaches every handler connected to it, whichever
\* request was answered.  send_callback was connected first if both are, since
\* send does not connect it while a blockhash is pending.
HttpRequestCompleted(t, ok, h, res) ==
  LET s == IF t.pending_send THEN SendCallback(t, ok, res) ELSE t
  IN IF t.pending_blockhash THEN BlockhashCallback(s, ok, h) ELSE s

\* void Transaction::from_bytes(bytes)
FromBytes(t, p) ==
  CheckFullySigned(
    [t EXCEPT !.ix = 0, !.message = p.msg, !.supplied = {}, !.signatures = p.sigs,
              !.ready = @ + Ready(p.sigs), !.deserialized = TRUE])

\* What a wallet may have made of the transaction replaces it (did_transaction_change).
TakeModified(t, new, changed) == IF changed THEN FromBytes(t, new) ELSE t

\* void Transaction::_signer_signed(signature, index), the wallet having signed
\* the transaction new in place of the one it was given if changed.
SignerSigned(t, w, new, changed) ==
  LET i == t.onSigned[w]
      loaded == TakeModified([t EXCEPT !.onSigned[w] = 0], new, changed)
  IN IF i = 0 THEN t
     ELSE IF i \notin DOMAIN t.signers \/ t.signers[i] \notin Wallets
             \/ i \notin DOMAIN loaded.signatures
     THEN [t EXCEPT !.crashed = TRUE]
     ELSE CheckFullySigned(
            [loaded EXCEPT !.onFailed[t.signers[i]] = 0, !.ready = @ + 1,
                           !.signatures[i] = [by |-> w, over |-> new.msg]])

\* Mutants: a rejection takes back a signature that was never counted; it does
\* not disconnect message_signed; it wipes the signatures, not the counter.
FailTakesBack(t, w) ==
  [t EXCEPT !.onFailed[w] = 0, !.onSigned[w] = 0, !.ready = @ - 1]
FailStaysConnected(t, w) == [t EXCEPT !.onFailed[w] = 0]
FailWipes(t, w) ==
  [t EXCEPT !.onFailed[w] = 0, !.onSigned[w] = 0, !.signatures = Blank(Len(@))]

\* void Transaction::_signer_failed(index)
SignerFailed(t, w) ==
  LET i == t.onFailed[w]
      dropped == [t EXCEPT !.onFailed[w] = 0]
  IN IF i \in DOMAIN t.signers /\ t.signers[i] \in Wallets
     THEN [dropped EXCEPT !.onSigned[t.signers[i]] = 0] ELSE dropped

----------------------------------------------------------------------------
(* The order of calls SKILL.md documents (217-282): build, fetch the        *)
(* blockhash, sign once, send, and start over by editing; one thing at a    *)
(* time, except that signing and sending may be asked while the blockhash   *)
(* is on its way.  The calls of a kind outside Documented come at any time. *)

WalletIdle(t) == \A w \in Wallets : t.onSigned[w] = 0 /\ t.onFailed[w] = 0
Quiet(t)    == WalletIdle(t) /\ ~t.pending_send /\ ~t.pending_blockhash /\ t.onSendReady = <<>>
Unsigned(t) == t.ready = 0
MayEdit(t)  == "edit" \in Documented => Quiet(t) /\ ~t.deserialized
MayPrice(t) == "price" \in Documented => Quiet(t) /\ ~t.deserialized /\ Unsigned(t)
MayFetch(t) ==
  "fetch" \in Documented => WalletIdle(t) /\ ~t.pending_send /\ ~t.pending_blockhash /\ Unsigned(t)
MaySign(t, by) ==
  /\ t.ready <= MaxReady
  /\ "sign" \in Documented =>
       /\ t.message # NoMessage /\ SizesAgree(t)
       /\ t.hash # NoHash \/ t.pending_blockhash
       /\ ~t.pending_send /\ t.onSendReady = <<>> /\ WalletIdle(t)
       /\ \A j \in Indices(t, by) : t.signatures[j] = NoSig
MaySend(t) ==
  "send" \in Documented =>
    /\ SizesAgree(t) /\ ~t.pending_send /\ ~t.sendOnFullySigned
    /\ IF t.pending_blockhash
       THEN \E i \in DOMAIN t.onSendReady : t.onSendReady[i].method = "sign"
       ELSE t.ready = Len(t.signatures)

\* A step starts with no emission and no transmission and changes nothing once
\* the process has crashed; send runs at most once in it.
Requests(t) == IF t.sent = {} THEN 0 ELSE 1

Now == [tx EXCEPT !.claims = {}, !.sent = {}]

Step(new) == ~tx.crashed /\ tx' = new

Call(c) == c \in Api
Local(new) ==
  /\ Step(new)
  /\ rpc.blockhash + rpc.send + Requests(new) <= MaxRequests
  /\ rpc' = [rpc EXCEPT !.send = @ + Requests(new)]

SetPayer ==
  /\ Call("set_payer") /\ MayEdit(tx)
  /\ Local(IF tx.deserialized THEN Now ELSE CreateMessage(ResetState([Now EXCEPT !.payer = TRUE])))

AddInstruction ==
  /\ Call("add_instruction") /\ MayEdit(tx)
  /\ tx.ix < Len(SignerList)
  /\ Local(CreateMessage(ResetState([Now EXCEPT !.ix = @ + 1])))

\* set_instructions([])
SetInstructions ==
  /\ Call("set_instructions") /\ MayEdit(tx)
  /\ Local(CreateMessage(ResetState([Now EXCEPT !.ix = 0])))

\* set_unit_price and set_unit_limit, which do not call reset_state
SetUnitPrice ==
  /\ Call("set_unit_price") /\ MayPrice(tx)
  /\ tx.fee < MaxFee
  /\ Local(CreateMessage([Now EXCEPT !.fee = @ + 1]))

SetSigners ==
  /\ Call("set_signers")
  /\ "edit" \in Documented => Quiet(tx)
  /\ \E S \in SUBSET Signer :
       LET known == IF tx.message = NoMessage THEN {} ELSE S \cap {SignersOf(tx.message)[i] : i \in 1 .. Amount(tx.message)}
       IN \E s \in [1 .. Cardinality(S) -> S] :
            /\ {s[i] : i \in DOMAIN s} = S
            /\ Local([Now EXCEPT !.supplied = @ \cup known, !.signers = s])

UpdateLatestBlockhash ==
  /\ Call("update_latest_blockhash") /\ MayFetch(tx)
  /\ rpc.blockhash + rpc.send < MaxRequests
  /\ Step([Now EXCEPT !.pending_blockhash = TRUE])
  /\ rpc' = [rpc EXCEPT !.blockhash = @ + 1]

\* update_latest_blockhash(custom_hash)
SetBlockhash ==
  /\ Call("set_blockhash") /\ MayFetch(tx) /\ ("fetch" \in Documented => tx.onSendReady = <<>>)
  /\ \E h \in Hashes : Local(SetHash(Now, h))

Sign ==
  /\ Call("sign") /\ MaySign(tx, Signer)
  /\ Local(SignCall(Now, "sign", Signer))

PartiallySign ==
  /\ Call("partially_sign")
  /\ \E by \in (SUBSET Signer) \ {{}} :
       /\ MaySign(tx, by)
       /\ Local(SignCall(Now, "partially_sign", by))

SignAndSend ==
  /\ Call("sign_and_send") /\ MaySign(tx, Signer)
  /\ Local(IF tx.message # NoMessage /\ ~SizesAgree(tx) THEN Now
           ELSE SignCall([Now EXCEPT !.sendOnFullySigned = TRUE], "sign", Signer))

\* send on a message that was never built is left out: it transmits no message.
Send ==
  /\ Call("send") /\ MaySend(tx) /\ tx.message # NoMessage
  /\ Local(SendTx(Now))

\* The http client ends a request of this object, with a result or an error.
Answer(kind) ==
  /\ rpc[kind] > 0
  /\ \E ok \in BOOLEAN, h \in Hashes :
       LET new == IF kind = "blockhash"
                  THEN HttpRequestCompleted(Now, ok, h, "not_a_signature")
                  ELSE HttpRequestCompleted(Now, ok, NoHash, "signature")
       IN /\ Step(new)
          /\ rpc' = [[rpc EXCEPT ![kind] = @ - 1] EXCEPT !.send = @ + Requests(new)]

\* The wallet answers one of its popups while the adapter polls for an answer.
WalletSigns(w) ==
  /\ tx.onSigned[w] # 0 \/ tx.onFailed[w] # 0
  /\ \E p \in tx.popup[w] :
       LET i == tx.onSigned[w]
           polled == [Now EXCEPT !.popup[w] = @ \ {p}]
           m == [p.msg EXCEPT !.fee = AlteredFee]
           new == [msg |-> m, sigs |-> [p.sigs EXCEPT ![i] = [by |-> w, over |-> m]]]
       IN \/ Local(SignerSigned(polled, w, p, FALSE))
          \/ /\ w \in Alterers /\ Amount(p.msg) <= MaxAltered /\ i \in DOMAIN p.sigs
             /\ Local(SignerSigned(polled, w, new, TRUE))

WalletFails(w) ==
  /\ tx.onSigned[w] # 0 \/ tx.onFailed[w] # 0
  /\ \E p \in tx.popup[w] : Local(SignerFailed([Now EXCEPT !.popup[w] = @ \ {p}], w))

----------------------------------------------------------------------------
New ==
  [ix |-> 0, fee |-> 0, hash |-> NoHash, payer |-> FALSE, message |-> NoMessage,
   supplied |-> {}, signers |-> <<>>, signatures |-> <<>>, ready |-> 0, result |-> "none",
   pending_blockhash |-> FALSE, pending_send |-> FALSE, deserialized |-> FALSE,
   sendOnFullySigned |-> FALSE, onSendReady |-> <<>>,
   onSigned |-> [w \in Wallets |-> 0], onFailed |-> [w \in Wallets |-> 0],
   popup |-> [w \in Wallets |-> {}], claims |-> {}, sent |-> {}, crashed |-> FALSE]

\* Transaction.new(), or new_from_bytes of a transaction other parties may have
\* signed; the signers array then holds as many nulls as there are slots.
Init ==
  /\ rpc = [blockhash |-> 0, send |-> 0]
  /\ \/ tx = New
     \/ /\ Call("new_from_bytes")
        /\ \E n \in DOMAIN SignerList, h \in Hashes :
             LET m == [ix |-> n, fee |-> 0, hash |-> h]
             IN \E by \in SUBSET (1 .. Amount(m)) :
                  tx = [FromBytes(New, [msg |-> m,
                          sigs |-> [i \in 1 .. Amount(m) |-> IF i \in by THEN Valid(m, i) ELSE NoSig]])
                        EXCEPT !.signers = [i \in 1 .. Amount(m) |-> Nil]]

Calls ==
  \/ SetPayer \/ AddInstruction \/ SetInstructions \/ SetUnitPrice \/ SetSigners
  \/ UpdateLatestBlockhash \/ SetBlockhash
  \/ Sign \/ PartiallySign \/ SignAndSend \/ Send

Events ==
  \/ \E kind \in {"blockhash", "send"} : Answer(kind)
  \/ \E w \in Wallets : WalletSigns(w) \/ WalletFails(w)

Next == Calls \/ Events

Spec == Init /\ [][Next]_vars

\* The http client ends every request, by its timeout at the latest; what the
\* application calls and when the user answers a popup is not promised.
FairSpec == Spec /\ \A kind \in {"blockhash", "send"} : WF_vars(Answer(kind))

----------------------------------------------------------------------------
(* Properties.                                                             *)

\* The fields of the object, its signal connections (one-shot: send on
\* fully_signed; sign and partially_sign on send_ready; per wallet the index
\* bound to message_signed and signing_failed, 0 for none), the popups its
\* wallets have open, and what the last step emitted and transmitted.
TxType ==
  [ix : 0 .. Len(SignerList), fee : 0 .. MaxFee, hash : Hashes \cup {NoHash},
   payer : BOOLEAN, message : Message \cup {NoMessage}, supplied : SUBSET Signer,
   signers : Seq(Signer \cup {Nil}), signatures : Slots, ready : Nat,
   result : {"none", "signature", "not_a_signature"},
   pending_blockhash : BOOLEAN, pending_send : BOOLEAN, deserialized : BOOLEAN,
   sendOnFullySigned : BOOLEAN,
   onSendReady : Seq([method : {"sign", "partially_sign"}, by : SUBSET Signer]),
   onSigned : [Wallets -> Nat], onFailed : [Wallets -> Nat],
   popup : [Wallets -> SUBSET Payload],
   claims : SUBSET Payload, sent : SUBSET Payload, crashed : BOOLEAN]

TypeOK ==
  /\ tx \in TxType
  /\ rpc \in [{"blockhash", "send"} -> Nat]

\* A pending flag is always backed by a request in flight, in whatever order
\* the application calls and the answers come: the object never waits for an
\* answer nobody will give.
PendingIsBacked ==
  /\ tx.pending_blockhash => rpc["blockhash"] > 0
  /\ tx.pending_send => rpc["send"] > 0

\* What is handed to the RPC node carries, for each signer of its message, that
\* signer's signature over that very message, and names a blockhash (send,
\* transaction.hpp:250-253).
SentFullySigned == \A p \in tx.sent : FullySigned(p) /\ p.msg.hash # NoHash

\* fully_signed is emitted only when every signature is there and is over the
\* message as it is then (check_fully_signed compares a counter instead).
ClaimsFullySigned == \A p \in tx.claims : FullySigned(p)

\* While a wallet may answer, what it was given to sign is the message the
\* signature will be stored for, and the slot is its own and still empty; no
\* handler indexes signers or signatures outside their bounds, or takes for a
\* wallet what is none, after whatever edits came in between.
PopupIsCurrent ==
  /\ ~tx.crashed
  /\ \A w \in Wallets : tx.onSigned[w] # 0 =>
       /\ tx.popup[w] # {} /\ \A p \in tx.popup[w] : p.msg = tx.message
       /\ tx.onSigned[w] \in DOMAIN tx.signers \cap DOMAIN tx.signatures
       /\ tx.signers[tx.onSigned[w]] = w
       /\ tx.signatures[tx.onSigned[w]] = NoSig

\* A signature over the current message is lost only by the reset that takes
\* the counter back to zero with it.
NoSignatureLost ==
  [][tx'.message = tx.message /\ tx'.ready # 0 =>
       \A i \in DOMAIN tx.signatures \cap DOMAIN tx'.signatures :
         tx.signatures[i] = NoSig \/ tx'.signatures[i] = tx.signatures[i]]_vars

\* A transaction whose signers are all there and for which sign_and_send was called
\* while the blockhash was on its way goes out, unless a wallet's answer is awaited, or
\* the fetch fails, which leaves the old blockhash and the call waiting for the next
\* one (sign defers to send_ready).
SignWaits == \E i \in DOMAIN tx.onSendReady : tx.onSendReady[i].method = "sign"
SignAndSendGoesOut ==
  \A h \in Hashes \cup {NoHash} :
    (/\ tx.sendOnFullySigned /\ tx.pending_blockhash /\ SignWaits /\ tx.hash = h
     /\ \A i \in 1 .. Amount(tx.message) : GetSigners(tx)[i] # Nil)
      ~> \/ tx.sent # {} \/ ~WalletIdle(tx)
         \/ ~tx.pending_blockhash /\ SignWaits /\ tx.hash = h

=============================================================================
