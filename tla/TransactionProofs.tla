------------------------- MODULE TransactionProofs -------------------------
(***************************************************************************)
(* Type correctness of Transaction and the fact that a pending flag is     *)
(* always backed by a request, for all constants: each operator of the     *)
(* module gets a lemma that it maps a well-typed object to a well-typed    *)
(* one and follows from it as far as the pending flags are concerned.      *)
(* Then, for calls in the documented order (InOrder), the properties of    *)
(* signing and sending, from the inductive invariant OrderInv: each        *)
(* operator gets a second lemma that it keeps a sound object sound.        *)
(***************************************************************************)
EXTENDS Transaction, SequenceTheorems, FiniteSetTheorems, TLAPS

\* A well-typed object; it has signatures only for a message.
TxOK(t) == t \in TxType /\ (t.message = NoMessage => t.signatures = <<>>)

\* What a handler may do to the pending flags of t: none but send raises
\* pending_send, and send transmits.
Follows(t, u) ==
  /\ u.pending_blockhash = t.pending_blockhash
  /\ u.pending_send => t.pending_send \/ u.sent # {}
  /\ t.sent # {} => u.sent # {}

-----------------------------------------------------------------------------
(* Sequences of the model. *)

\* An element of a sequence.
LEMMA InDomain ==
  ASSUME NEW S, NEW s \in Seq(S), NEW i \in DOMAIN s
  PROVE  s[i] \in S
BY LenProperties, ElementOfSeq

\* The signers of a message are a non-empty sequence of signers.
LEMMA SignersType ==
  ASSUME NEW m \in Message
  PROVE  /\ SignersOf(m) \in Seq(Signer)
         /\ Amount(m) \in Nat \ {0}
         /\ DOMAIN SignersOf(m) = 1 .. Amount(m)
<1>1. SignerList[m.ix] \in Seq(Signer) \ {<<>>}
  BY ConstantsAssumption, ElementOfSeq, LenProperties DEF Message
<1> QED
  BY <1>1, LenProperties, EmptySeq DEF SignersOf, Amount

\* A signature over a message by one of its signers.
LEMMA ValidType ==
  ASSUME NEW m \in Message, NEW i \in 1 .. Amount(m)
  PROVE  Valid(m, i) \in Signature
BY SignersType, ElementOfSeq DEF Valid, Signature, Amount

\* A function on 1 .. n with signatures as values is an array of slots.
LEMMA SlotsIntro ==
  ASSUME NEW n \in Nat, NEW s \in [1 .. n -> Signature \cup {NoSig}]
  PROVE  s \in Slots
BY SeqDef DEF Slots

\* What a slot holds.
LEMMA SlotsElim ==
  ASSUME NEW s \in Slots
  PROVE  /\ Len(s) \in Nat
         /\ DOMAIN s = 1 .. Len(s)
         /\ \A i \in DOMAIN s : s[i] \in Signature \cup {NoSig}
         /\ IsFiniteSet(DOMAIN s)
BY LenProperties, ElementOfSeq, FS_Interval DEF Slots

\* Empty slots.
LEMMA BlankType ==
  ASSUME NEW n \in Nat
  PROVE  Blank(n) \in Slots
BY SlotsIntro DEF Blank

\* The filled slots can be counted.
LEMMA ReadyType ==
  ASSUME NEW s \in Slots
  PROVE  Ready(s) \in Nat
BY SlotsElim, FS_Subset, FS_CardinalityType DEF Ready

\* A message has as many signers as it counts.
LEMMA GetSignersType ==
  ASSUME NEW t, TxOK(t), t.message # NoMessage
  PROVE  /\ GetSigners(t) \in Seq(Signer \cup {Nil})
         /\ DOMAIN GetSigners(t) = 1 .. Amount(t.message)
<1>1. t.message \in Message
  BY DEF TxOK, TxType
<1>2. \A i \in 1 .. Amount(t.message) : SignersOf(t.message)[i] \in Signer
  BY <1>1, SignersType, ElementOfSeq DEF Amount
<1>3. GetSigners(t) \in [1 .. Amount(t.message) -> Signer \cup {Nil}]
  BY <1>2 DEF GetSigners
<1> QED
  BY <1>1, <1>3, SignersType, SeqDef

\* What is shown to a wallet or transmitted.
LEMMA SerializedType ==
  ASSUME NEW t, TxOK(t), t.message # NoMessage
  PROVE  Serialized(t) \in Payload
BY DEF TxOK, TxType, Serialized, Payload

-----------------------------------------------------------------------------
(* Building the message. *)

\* reset_state
LEMMA ResetStateType ==
  ASSUME NEW t, TxOK(t)
  PROVE  TxOK(ResetState(t)) /\ Follows(t, ResetState(t))
BY EmptySeq DEF TxOK, TxType, ResetState, Follows, Slots

\* create_message
LEMMA CreateMessageType ==
  ASSUME NEW t, TxOK(t)
  PROVE  TxOK(CreateMessage(t)) /\ Follows(t, CreateMessage(t))
<1>1. CASE t.ix = 0 \/ ~t.payer
  BY <1>1, EmptySeq DEF TxOK, TxType, CreateMessage, Follows, Slots
<1>2. CASE ~(t.ix = 0 \/ ~t.payer)
  <2> DEFINE m == [ix |-> t.ix, fee |-> t.fee, hash |-> t.hash]
             built == [t EXCEPT !.message = m,
                              !.supplied = Inline \cup (@ \ {SignersOf(m)[1]})]
             blank == [built EXCEPT !.ready = 0, !.signatures = Blank(Amount(m))]
  <2>1. m \in Message
    BY <1>2, ConstantsAssumption, LenProperties DEF TxOK, TxType, Message, AlteredFee
  <2>2. TxOK(built) /\ Follows(t, built)
    BY <2>1, NullAssumption, ConstantsAssumption DEF TxOK, TxType, Signer, Follows
  <2>3. TxOK(blank) /\ Follows(t, blank)
    <3>1. Blank(Amount(m)) \in Slots
      BY <2>1, SignersType, BlankType
    <3> QED
      BY <3>1, <2>1, <2>2, NullAssumption DEF TxOK, TxType, Follows
  <2> HIDE DEF m
  <2>4. CreateMessage(t) \in {built, blank}
    BY <1>2 DEF CreateMessage, m
  <2> QED
    BY <2>2, <2>3, <2>4
<1> QED
  BY <1>1, <1>2
-----------------------------------------------------------------------------
(* Signals and signing. *)

\* send
LEMMA SendTxType ==
  ASSUME NEW t, TxOK(t)
  PROVE  TxOK(SendTx(t)) /\ Follows(t, SendTx(t))
<1>1. CASE ~SizesAgree(t)
  BY <1>1 DEF SendTx, Follows
<1>2. CASE SizesAgree(t) /\ t.pending_blockhash
  BY <1>2 DEF SendTx, Follows, TxOK, TxType
<1>3. CASE SizesAgree(t) /\ ~t.pending_blockhash
  <2>1. Serialized(t) \in Payload
    BY <1>3, SerializedType DEF SizesAgree
  <2>2. SendTx(t) = [t EXCEPT !.pending_send = TRUE, !.sent = @ \cup {Serialized(t)}]
    BY <1>3 DEF SendTx
  <2>3. TxOK(SendTx(t))
    <3> DEFINE sent == t.sent \cup {Serialized(t)}
    <3>1. sent \in SUBSET Payload
      BY <2>1 DEF TxOK, TxType
    <3>2. SendTx(t) = [t EXCEPT !.pending_send = TRUE, !.sent = sent]
      BY <2>2 DEF TxOK, TxType
    <3> HIDE DEF sent
    <3>3. SendTx(t) \in TxType
      BY <3>1, <3>2 DEF TxOK, TxType
    <3> QED
      BY <3>2, <3>3 DEF TxOK, TxType
  <2>4. Follows(t, SendTx(t))
    BY <2>2 DEF TxOK, TxType, Follows
  <2> QED
    BY <2>3, <2>4
<1> QED
  BY <1>1, <1>2, <1>3

\* Without a connection to fully_signed its emission changes no flag.
LEMMA EmitFullySignedType ==
  ASSUME NEW t, TxOK(t), t.message # NoMessage
  PROVE  /\ TxOK(EmitFullySigned(t)) /\ Follows(t, EmitFullySigned(t))
         /\ EmitFullySigned(t).message = t.message
         /\ EmitFullySigned(t).signatures = t.signatures
         /\ ~t.sendOnFullySigned => EmitFullySigned(t).pending_send = t.pending_send
<1> DEFINE e == [t EXCEPT !.claims = @ \cup {Serialized(t)}, !.sendOnFullySigned = FALSE]
<1>1. Serialized(t) \in Payload
  BY SerializedType
<1>2. /\ TxOK(e) /\ Follows(t, e) /\ e.pending_send = t.pending_send
      /\ e.message = t.message /\ e.signatures = t.signatures
  BY <1>1 DEF TxOK, TxType, Follows
<1>3. /\ TxOK(SendTx(e)) /\ Follows(e, SendTx(e))
      /\ SendTx(e).message = t.message /\ SendTx(e).signatures = t.signatures
  <2>1. TxOK(SendTx(e)) /\ Follows(e, SendTx(e))
    BY <1>2, SendTxType
  <2> HIDE DEF e
  <2>2. SendTx(e).message = e.message /\ SendTx(e).signatures = e.signatures
    BY <1>2 DEF SendTx, TxOK, TxType
  <2> QED
    BY <1>2, <2>1, <2>2
<1>4. EmitFullySigned(t) = IF t.sendOnFullySigned THEN SendTx(e) ELSE e
  BY DEF EmitFullySigned
<1> HIDE DEF e
<1>5. Follows(t, SendTx(e))
  BY <1>2, <1>3 DEF Follows
<1> QED
  BY <1>2, <1>3, <1>4, <1>5

\* check_fully_signed
LEMMA CheckFullySignedType ==
  ASSUME NEW t, TxOK(t), t.message # NoMessage
  PROVE  /\ TxOK(CheckFullySigned(t)) /\ Follows(t, CheckFullySigned(t))
         /\ ~t.sendOnFullySigned => CheckFullySigned(t).pending_send = t.pending_send
BY EmitFullySignedType DEF CheckFullySigned, Follows

\* sign_at_index, of some indices
LEMMA SignIndicesType ==
  ASSUME NEW t, TxOK(t), t.message # NoMessage, NEW J \in SUBSET (1 .. Amount(t.message))
  PROVE  /\ TxOK(SignIndices(t, J)) /\ Follows(t, SignIndices(t, J))
         /\ SignIndices(t, J).message = t.message
<1> DEFINE K       == {j \in J : t.signers[j] \in Keypairs}
           Upto(j) == {k \in K : k <= j}
           Filled(u, L) ==
             [u EXCEPT !.ready = t.ready + Cardinality(L),
                       !.signatures = [i \in DOMAIN @ |-> IF i \in L THEN Valid(t.message, i) ELSE @[i]]]
           Last    == {j \in K : t.ready + Cardinality(Upto(j)) = Len(t.signatures)}
           first   == IF Last = {} THEN t
                      ELSE EmitFullySigned(Filled(t, Upto(CHOOSE j \in Last : TRUE)))
           Asked(w) == {j \in J : t.signers[j] = w}
           Connect(on) == [w \in Wallets |-> IF Asked(w) = {} \/ on[w] # 0 THEN on[w]
                                             ELSE CHOOSE j \in Asked(w) : TRUE]
           asked == [w \in Wallets |-> t.popup[w] \cup {Serialized(Filled(t, Upto(j))) : j \in Asked(w)}]
           done == [Filled(first, K) EXCEPT
                      !.popup = [w \in Wallets |-> @[w] \cup {Serialized(Filled(t, Upto(j))) : j \in Asked(w)}],
                      !.onSigned = Connect(@),
                      !.onFailed = Connect(@)]
<1>1. t.message \in Message /\ Amount(t.message) \in Nat /\ J \subseteq Nat
  BY SignersType DEF TxOK, TxType
<1>2. ASSUME NEW u, TxOK(u), u.message = t.message, NEW L \in SUBSET K
      PROVE  /\ TxOK(Filled(u, L)) /\ Follows(u, Filled(u, L))
             /\ Filled(u, L).message = t.message
  <2> DEFINE sigs == [i \in DOMAIN u.signatures |-> IF i \in L THEN Valid(t.message, i) ELSE u.signatures[i]]
  <2>1. Cardinality(L) \in Nat
    <3>1. IsFiniteSet(1 .. Amount(t.message)) /\ L \in SUBSET (1 .. Amount(t.message))
      BY <1>1, FS_Interval
    <3> QED
      BY <3>1, FS_Subset, FS_CardinalityType
  <2>2. \A i \in L : Valid(t.message, i) \in Signature
    BY <1>1, ValidType
  <2>3. u.signatures \in Slots
    BY <1>2 DEF TxOK, TxType
  <2>4. sigs \in Slots
    BY <2>2, <2>3, SlotsElim, SlotsIntro
  <2>5. t.ready + Cardinality(L) \in Nat
    BY <2>1 DEF TxOK, TxType
  <2>6. Filled(u, L) = [u EXCEPT !.ready = t.ready + Cardinality(L), !.signatures = sigs]
    BY <1>2 DEF TxOK, TxType
  <2> HIDE DEF Filled, sigs, K
  <2> QED
    BY <1>2, <2>4, <2>5, <2>6 DEF TxOK, TxType, Follows
<1>3. \A j : Upto(j) \in SUBSET K
  OBVIOUS
<1>4. TxOK(first) /\ Follows(t, first) /\ first.message = t.message
  <2>1. CASE Last = {}
    BY <2>1 DEF Follows
  <2>2. CASE Last # {}
    <3> DEFINE f == Filled(t, Upto(CHOOSE j \in Last : TRUE))
    <3>1. TxOK(f) /\ Follows(t, f) /\ f.message = t.message
      BY <1>2, <1>3
    <3> HIDE DEF f
    <3>2. first = EmitFullySigned(f)
      BY <2>2 DEF f
    <3>3. /\ TxOK(EmitFullySigned(f)) /\ Follows(f, EmitFullySigned(f))
          /\ EmitFullySigned(f).message = t.message
      BY <3>1, EmitFullySignedType
    <3> QED
      BY <3>1, <3>2, <3>3 DEF Follows
  <2> QED
    BY <2>1, <2>2
<1>5. \A w \in Wallets : {Serialized(Filled(t, Upto(j))) : j \in Asked(w)} \subseteq Payload
  <2> SUFFICES ASSUME NEW j \in J PROVE Serialized(Filled(t, Upto(j))) \in Payload
    OBVIOUS
  <2>1. TxOK(Filled(t, Upto(j))) /\ Filled(t, Upto(j)).message # NoMessage
    BY <1>2, <1>3
  <2> QED
    BY <2>1, SerializedType
<1>6. \A on \in [Wallets -> Nat] : Connect(on) \in [Wallets -> Nat]
  <2> SUFFICES ASSUME NEW on \in [Wallets -> Nat], NEW w \in Wallets
               PROVE (IF Asked(w) = {} \/ on[w] # 0 THEN on[w] ELSE CHOOSE j \in Asked(w) : TRUE) \in Nat
    OBVIOUS
  <2>1. CASE Asked(w) = {} \/ on[w] # 0
    BY <2>1
  <2>2. CASE ~(Asked(w) = {} \/ on[w] # 0)
    <3>1. (CHOOSE j \in Asked(w) : TRUE) \in Asked(w)
      BY <2>2
    <3> QED
      BY <2>2, <3>1, <1>1
  <2> QED
    BY <2>1, <2>2
<1>7. TxOK(done) /\ Follows(t, done) /\ done.message = t.message
  <2> DEFINE g == Filled(first, K)
             popup == [w \in Wallets |-> g.popup[w] \cup {Serialized(Filled(t, Upto(j))) : j \in Asked(w)}]
             signed == Connect(g.onSigned)
             failed == Connect(g.onFailed)
  <2>1. TxOK(g) /\ Follows(first, g) /\ g.message = t.message
    <3> HIDE DEF first, Filled
    <3> QED BY <1>2, <1>4
  <2>2. popup \in [Wallets -> SUBSET Payload]
    BY <1>5, <2>1 DEF TxOK, TxType
  <2>3. signed \in [Wallets -> Nat] /\ failed \in [Wallets -> Nat]
    BY <1>6, <2>1 DEF TxOK, TxType
  <2>4. done = [g EXCEPT !.popup = popup, !.onSigned = signed, !.onFailed = failed]
    BY <2>1 DEF TxOK, TxType
  <2> HIDE DEF popup, signed, failed, g, done, Asked, Connect
  <2>5. TxOK(done) /\ Follows(g, done) /\ done.message = g.message
    BY <2>1, <2>2, <2>3, <2>4 DEF TxOK, TxType, Follows
  <2> QED
    BY <2>1, <2>5, <1>4 DEF Follows
<1>8. CASE ~(J \subseteq DOMAIN t.signers) \/ (K # {} /\ ~SizesAgree(t))
  <2>1. SignIndices(t, J) = [t EXCEPT !.crashed = TRUE]
    BY <1>8 DEF SignIndices
  <2> QED
    BY <2>1 DEF TxOK, TxType, Follows
<1>9. CASE ~(~(J \subseteq DOMAIN t.signers) \/ (K # {} /\ ~SizesAgree(t)))
  <2>1. SignIndices(t, J) = done
    BY <1>9 DEF SignIndices
  <2> HIDE DEF done
  <2> QED
    BY <2>1, <1>7
<1> QED
  BY <1>8, <1>9

\* sign and partially_sign, of a message
LEMMA SignAllType ==
  ASSUME NEW t, TxOK(t), t.message # NoMessage, NEW J \in SUBSET (1 .. Amount(t.message))
  PROVE  TxOK(SignAll(t, J)) /\ Follows(t, SignAll(t, J))
<1> DEFINE given == [t EXCEPT !.signers = GetSigners(t)]
           done  == SignIndices(given, J)
<1>1. TxOK(given) /\ Follows(t, given) /\ given.message = t.message
  BY GetSignersType DEF TxOK, TxType, Follows
<1> HIDE DEF given
<1>2. TxOK(done) /\ Follows(given, done) /\ done.message = t.message
  BY <1>1, SignIndicesType
<1>3. SignAll(t, J) = IF done.crashed THEN done ELSE CheckFullySigned(done)
  BY DEF SignAll, given
<1> HIDE DEF done
<1>4. TxOK(CheckFullySigned(done)) /\ Follows(done, CheckFullySigned(done))
  BY <1>2, CheckFullySignedType
<1> QED
  BY <1>1, <1>2, <1>3, <1>4 DEF Follows

\* The two calls, which may wait for the blockhash.
LEMMA SignCallType ==
  ASSUME NEW t, TxOK(t), NEW method \in {"sign", "partially_sign"}, NEW by \in SUBSET Signer
  PROVE  TxOK(SignCall(t, method, by)) /\ Follows(t, SignCall(t, method, by))
<1>1. CASE t.message = NoMessage
  BY <1>1 DEF SignCall, Follows
<1>2. CASE t.message # NoMessage /\ ~t.pending_blockhash
  BY <1>2, SignAllType DEF SignCall, Indices
<1>3. CASE t.message # NoMessage /\ t.pending_blockhash
  <2>1. Append(t.onSendReady, [method |-> method, by |-> by])
          \in Seq([method : {"sign", "partially_sign"}, by : SUBSET Signer])
    BY AppendProperties DEF TxOK, TxType
  <2> QED
    BY <1>3, <2>1 DEF SignCall, TxOK, TxType, Follows
<1> QED
  BY <1>1, <1>2, <1>3

-----------------------------------------------------------------------------
(* Handlers. *)

\* set_latest_blockhash
LEMMA SetHashType ==
  ASSUME NEW t, TxOK(t), NEW h \in Hashes \cup {NoHash}
  PROVE  TxOK(SetHash(t, h)) /\ Follows(t, SetHash(t, h))
<1> DEFINE m == IF t.message = NoMessage THEN t.message ELSE [t.message EXCEPT !.hash = h]
<1>1. m \in Message \cup {NoMessage} /\ (m = NoMessage => t.message = NoMessage)
  BY NullAssumption DEF TxOK, TxType, Message
<1>2. SetHash(t, h) = [t EXCEPT !.hash = h, !.message = m]
  BY DEF SetHash, TxOK, TxType
<1> HIDE DEF m
<1> QED
  BY <1>1, <1>2 DEF TxOK, TxType, Follows

\* The answer to a fetch lowers pending_blockhash and may send.
LEMMA BlockhashCallbackType ==
  ASSUME NEW t, TxOK(t), NEW ok \in BOOLEAN, NEW h \in Hashes \cup {NoHash}
  PROVE  LET u == BlockhashCallback(t, ok, h)
         IN /\ TxOK(u) /\ ~u.pending_blockhash
            /\ u.pending_send => t.pending_send \/ u.sent # {}
            /\ t.sent # {} => u.sent # {}
<1> DEFINE got == [t EXCEPT !.pending_blockhash = FALSE]
           set == [SetHash(got, h) EXCEPT !.onSendReady = <<>>]
           calls == t.onSendReady
           Run(u, i) == IF i \in DOMAIN calls THEN SignCall(u, calls[i].method, calls[i].by) ELSE u
<1>1. TxOK(got) /\ ~got.pending_blockhash /\ got.pending_send = t.pending_send /\ got.sent = t.sent
  BY DEF TxOK, TxType
<1>2. TxOK(set) /\ Follows(got, set)
  <2> HIDE DEF got
  <2>1. TxOK(SetHash(got, h)) /\ Follows(got, SetHash(got, h))
    BY <1>1, SetHashType
  <2> QED
    BY <2>1, EmptySeq DEF TxOK, TxType, Follows
<1>3. ASSUME NEW u, TxOK(u), NEW i \in {1, 2}
      PROVE  TxOK(Run(u, i)) /\ Follows(u, Run(u, i))
  <2>1. CASE i \in DOMAIN calls
    <3>1. calls[i] \in [method : {"sign", "partially_sign"}, by : SUBSET Signer]
      <4>1. calls \in Seq([method : {"sign", "partially_sign"}, by : SUBSET Signer])
        BY DEF TxOK, TxType
      <4> QED
        BY <2>1, <4>1, InDomain
    <3>2. /\ calls[i].method \in {"sign", "partially_sign"} /\ calls[i].by \in SUBSET Signer
      BY <3>1
    <3> QED
      BY <2>1, <3>2, <1>3, SignCallType
  <2>2. CASE i \notin DOMAIN calls
    BY <2>2, <1>3 DEF Follows
  <2> QED
    BY <2>1, <2>2
<1> HIDE DEF set
<1>4. TxOK(Run(set, 1)) /\ Follows(set, Run(set, 1))
  BY <1>2, <1>3
<1>5. TxOK(Run(Run(set, 1), 2)) /\ Follows(Run(set, 1), Run(Run(set, 1), 2))
  BY <1>3, <1>4
<1>6. BlockhashCallback(t, ok, h) = IF ok THEN Run(Run(set, 1), 2) ELSE got
  BY DEF BlockhashCallback, set
<1> HIDE DEF got, Run
<1> QED
  BY <1>1, <1>2, <1>4, <1>5, <1>6 DEF Follows

\* After an answer nothing is pending but what the answer itself sent.
LEMMA HttpRequestCompletedType ==
  ASSUME NEW t, TxOK(t), NEW ok \in BOOLEAN, NEW h \in Hashes \cup {NoHash},
         NEW res \in {"signature", "not_a_signature"}
  PROVE  LET u == HttpRequestCompleted(t, ok, h, res)
         IN TxOK(u) /\ ~u.pending_blockhash /\ (u.pending_send => u.sent # {})
<1> DEFINE s == IF t.pending_send THEN SendCallback(t, ok, res) ELSE t
<1>1. TxOK(s) /\ ~s.pending_send
  <2> DEFINE c == SendCallback(t, ok, res)
  <2>1. TxOK(c)
    BY DEF TxOK, TxType, SendCallback
  <2>2. c.pending_send = FALSE
    BY DEF TxOK, TxType, SendCallback
  <2> QED
    BY <2>1, <2>2
<1>2. HttpRequestCompleted(t, ok, h, res) = IF t.pending_blockhash THEN BlockhashCallback(s, ok, h) ELSE s
  BY DEF HttpRequestCompleted
<1>3. s.pending_blockhash = t.pending_blockhash
  BY DEF TxOK, TxType, SendCallback
<1> HIDE DEF s
<1>4. CASE t.pending_blockhash
  BY <1>1, <1>2, <1>4, BlockhashCallbackType
<1>5. CASE ~t.pending_blockhash
  BY <1>1, <1>2, <1>3, <1>5
<1> QED
  BY <1>4, <1>5

\* create from bytes
LEMMA FromBytesType ==
  ASSUME NEW t, TxOK(t), NEW p \in Payload
  PROVE  /\ TxOK(FromBytes(t, p)) /\ Follows(t, FromBytes(t, p))
         /\ ~t.sendOnFullySigned => FromBytes(t, p).pending_send = t.pending_send
<1> DEFINE u == [t EXCEPT !.ix = 0, !.message = p.msg, !.supplied = {}, !.signatures = p.sigs,
                          !.ready = @ + Ready(p.sigs), !.deserialized = TRUE]
<1>1. p.msg \in Message /\ p.sigs \in Slots /\ Ready(p.sigs) \in Nat
  BY ReadyType DEF Payload
<1>2. TxOK(u) /\ Follows(t, u) /\ u.message # NoMessage
      /\ u.pending_send = t.pending_send /\ u.sendOnFullySigned = t.sendOnFullySigned
  <2>1. u.message = p.msg /\ u.message # NoMessage
    BY <1>1, NullAssumption DEF TxOK, TxType
  <2>2. u \in TxType
    <3> DEFINE ready == t.ready + Ready(p.sigs)
    <3>1. ready \in Nat /\ 0 \in 0 .. Len(SignerList) /\ {} \in SUBSET Signer
      BY <1>1, ConstantsAssumption, LenProperties DEF TxOK, TxType
    <3>2. u = [t EXCEPT !.ix = 0, !.message = p.msg, !.supplied = {}, !.signatures = p.sigs,
                        !.ready = ready, !.deserialized = TRUE]
      BY DEF TxOK, TxType
    <3> HIDE DEF ready, u
    <3> QED
      BY <1>1, <3>1, <3>2 DEF TxOK, TxType
  <2>3. Follows(t, u) /\ u.pending_send = t.pending_send /\ u.sendOnFullySigned = t.sendOnFullySigned
    BY DEF TxOK, TxType, Follows
  <2> QED
    BY <2>1, <2>2, <2>3 DEF TxOK
<1>3. FromBytes(t, p) = CheckFullySigned(u)
  BY DEF FromBytes
<1> HIDE DEF u
<1> QED
  BY <1>2, <1>3, CheckFullySignedType DEF Follows

\* _signer_signed
LEMMA SignerSignedType ==
  ASSUME NEW t, TxOK(t), NEW w \in Wallets, NEW new \in Payload, NEW changed \in BOOLEAN
  PROVE  TxOK(SignerSigned(t, w, new, changed)) /\ Follows(t, SignerSigned(t, w, new, changed))
<1> DEFINE i == t.onSigned[w]
           dropped == [t EXCEPT !.onSigned[w] = 0]
           loaded == TakeModified(dropped, new, changed)
           stored == [loaded EXCEPT !.onFailed[t.signers[i]] = 0, !.ready = @ + 1,
                                    !.signatures[i] = [by |-> w, over |-> new.msg]]
<1>1. CASE i = 0
  BY <1>1 DEF SignerSigned, Follows
<1>2. CASE i # 0 /\ (i \notin DOMAIN t.signers \/ t.signers[i] \notin Wallets
                     \/ i \notin DOMAIN loaded.signatures)
  <2>1. SignerSigned(t, w, new, changed) = [t EXCEPT !.crashed = TRUE]
    BY <1>2 DEF SignerSigned
  <2> QED
    BY <2>1 DEF TxOK, TxType, Follows
<1>3. CASE i # 0 /\ ~(i \notin DOMAIN t.signers \/ t.signers[i] \notin Wallets
                      \/ i \notin DOMAIN loaded.signatures)
  <2>1. TxOK(dropped) /\ Follows(t, dropped)
    BY DEF TxOK, TxType, Follows
  <2>2. TxOK(loaded) /\ Follows(dropped, loaded)
    <3> HIDE DEF dropped
    <3> QED BY <2>1, FromBytesType DEF TakeModified, Follows
  <2>3. TxOK(stored) /\ Follows(loaded, stored) /\ stored.message # NoMessage
    <3> DEFINE sigs == [loaded.signatures EXCEPT ![i] = [by |-> w, over |-> new.msg]]
               failed == [loaded.onFailed EXCEPT ![t.signers[i]] = 0]
    <3> HIDE DEF loaded
    <3>1. loaded.signatures \in Slots /\ loaded.onFailed \in [Wallets -> Nat] /\ loaded.ready \in Nat
      BY <2>2 DEF TxOK, TxType
    <3>2. [by |-> w, over |-> new.msg] \in Signature
      BY DEF Payload, Signature, Signer
    <3>3. sigs \in Slots
      BY <3>1, <3>2, <1>3, ExceptSeq, LenProperties DEF Slots
    <3>4. failed \in [Wallets -> Nat]
      BY <3>1
    <3>5. stored = [loaded EXCEPT !.onFailed = failed, !.ready = @ + 1, !.signatures = sigs]
      BY <2>2 DEF TxOK, TxType
    <3>6. loaded.message # NoMessage
      <4>1. loaded.signatures # <<>>
        BY <1>3, <3>1, LenProperties, EmptySeq
      <4> QED BY <4>1, <2>2 DEF TxOK
    <3> HIDE DEF stored, sigs, failed
    <3>7. stored \in TxType
      <4> DEFINE ready == loaded.ready + 1
      <4>1. ready \in Nat
        BY <3>1
      <4>2. stored = [loaded EXCEPT !.onFailed = failed, !.ready = ready, !.signatures = sigs]
        BY <3>5
      <4> HIDE DEF ready
      <4> QED
        BY <2>2, <3>3, <3>4, <4>1, <4>2 DEF TxOK, TxType
    <3>8. stored.message # NoMessage
      BY <2>2, <3>5, <3>6 DEF TxOK, TxType
    <3>9. Follows(loaded, stored)
      BY <2>2, <3>5 DEF TxOK, TxType, Follows
    <3> QED
      BY <3>7, <3>8, <3>9 DEF TxOK
  <2>4. SignerSigned(t, w, new, changed) = CheckFullySigned(stored)
    BY <1>3 DEF SignerSigned
  <2> HIDE DEF dropped, loaded, stored
  <2>5. TxOK(CheckFullySigned(stored)) /\ Follows(stored, CheckFullySigned(stored))
    BY <2>3, CheckFullySignedType
  <2> QED
    BY <2>1, <2>2, <2>3, <2>4, <2>5 DEF Follows
<1> QED
  BY <1>1, <1>2, <1>3

\* _signer_failed
LEMMA SignerFailedType ==
  ASSUME NEW t, TxOK(t), NEW w \in Wallets
  PROVE  TxOK(SignerFailed(t, w)) /\ Follows(t, SignerFailed(t, w))
<1> DEFINE dropped == [t EXCEPT !.onFailed[w] = 0]
<1>1. TxOK(dropped) /\ Follows(t, dropped)
  BY DEF TxOK, TxType, Follows
<1> HIDE DEF dropped
<1>2. ASSUME NEW v \in Wallets
      PROVE  TxOK([dropped EXCEPT !.onSigned[v] = 0]) /\ Follows(dropped, [dropped EXCEPT !.onSigned[v] = 0])
  BY <1>1 DEF TxOK, TxType, Follows
<1> QED
  BY <1>1, <1>2 DEF SignerFailed, Follows, dropped

-----------------------------------------------------------------------------
(* The invariant: the object is well-typed, and a flag that is pending has a *)
(* request that will be answered.                                            *)

IInv == TypeOK /\ TxOK(tx) /\ PendingIsBacked

\* Handlers in a row do to the flags what each may do.
LEMMA FollowsTransitive ==
  ASSUME NEW t, NEW u, NEW v, Follows(t, u), Follows(u, v)
  PROVE  Follows(t, v)
BY DEF Follows

\* The object as a step finds it, with nothing emitted yet.
LEMMA NowType ==
  ASSUME IInv
  PROVE  /\ TxOK(Now) /\ Now.sent = {}
         /\ Now.pending_send = tx.pending_send /\ Now.pending_blockhash = tx.pending_blockhash
         /\ Now.message = tx.message
<1>1. Now \in TxType
  BY DEF IInv, TxOK, TxType, Now
<1> QED
  BY <1>1 DEF IInv, TxOK, TxType, Now

\* A call or a wallet's answer whose object follows from the present one.
LEMMA LocalStep ==
  ASSUME IInv, NEW new, TxOK(new), Follows(Now, new), Local(new)
  PROVE  IInv'
<1>1. tx' = new /\ rpc' = [rpc EXCEPT !.send = @ + Requests(new)] /\ Requests(new) \in Nat
  BY DEF Local, Step, Requests
<1>2. rpc \in [{"blockhash", "send"} -> Nat]
  BY DEF IInv, TypeOK
<1>3. rpc' \in [{"blockhash", "send"} -> Nat]
  BY <1>1, <1>2
<1>4. rpc'["blockhash"] = rpc["blockhash"] /\ rpc'["send"] = rpc["send"] + Requests(new)
  BY <1>1, <1>2
<1>5. new.pending_blockhash => rpc'["blockhash"] > 0
  BY <1>4, NowType DEF Follows, IInv, PendingIsBacked
<1>6. ASSUME new.pending_send PROVE rpc'["send"] > 0
  <2>1. tx.pending_send \/ Requests(new) = 1
    BY <1>6, NowType DEF Follows, Requests
  <2> QED
    BY <2>1, <1>1, <1>2, <1>4 DEF IInv, PendingIsBacked
<1> QED
  BY <1>1, <1>3, <1>5, <1>6 DEF IInv, TypeOK, TxOK, PendingIsBacked

\* The calls of the application.
LEMMA CallsKeep ==
  ASSUME IInv, Calls
  PROVE  IInv'
<1> USE NowType
<1>1. CASE SetPayer
  <2> DEFINE paid == [Now EXCEPT !.payer = TRUE]
  <2>1. TxOK(paid) /\ Follows(Now, paid)
    BY DEF TxOK, TxType, Follows
  <2> HIDE DEF paid
  <2>2. TxOK(CreateMessage(ResetState(paid))) /\ Follows(Now, CreateMessage(ResetState(paid)))
    BY <2>1, ResetStateType, CreateMessageType, FollowsTransitive
  <2>3. Follows(Now, Now)
    BY DEF Follows
  <2> QED
    BY <1>1, <2>2, <2>3, LocalStep DEF SetPayer, paid
<1>2. CASE AddInstruction
  <2> DEFINE added == [Now EXCEPT !.ix = @ + 1]
  <2>1. TxOK(added) /\ Follows(Now, added)
    <3>1. Now.ix = tx.ix /\ tx.ix \in 0 .. Len(SignerList)
      BY DEF Now, IInv, TxOK, TxType
    <3>2. Now.ix + 1 \in 0 .. Len(SignerList)
      BY <1>2, <3>1, ConstantsAssumption, LenProperties DEF AddInstruction
    <3> QED
      BY <3>2 DEF TxOK, TxType, Follows
  <2> HIDE DEF added
  <2>2. TxOK(CreateMessage(ResetState(added))) /\ Follows(Now, CreateMessage(ResetState(added)))
    BY <2>1, ResetStateType, CreateMessageType, FollowsTransitive
  <2> QED
    BY <1>2, <2>2, LocalStep DEF AddInstruction, added
<1>3. CASE SetInstructions
  <2> DEFINE cleared == [Now EXCEPT !.ix = 0]
  <2>1. TxOK(cleared) /\ Follows(Now, cleared)
    <3>1. 0 \in 0 .. Len(SignerList)
      BY ConstantsAssumption, LenProperties
    <3> QED
      BY <3>1 DEF TxOK, TxType, Follows
  <2> HIDE DEF cleared
  <2>2. TxOK(CreateMessage(ResetState(cleared))) /\ Follows(Now, CreateMessage(ResetState(cleared)))
    BY <2>1, ResetStateType, CreateMessageType, FollowsTransitive
  <2> QED
    BY <1>3, <2>2, LocalStep DEF SetInstructions, cleared
<1>4. CASE SetUnitPrice
  <2> DEFINE priced == [Now EXCEPT !.fee = @ + 1]
  <2>1. TxOK(priced) /\ Follows(Now, priced)
    <3>1. Now.fee = tx.fee /\ tx.fee \in 0 .. MaxFee
      BY DEF Now, IInv, TxOK, TxType
    <3>2. Now.fee + 1 \in 0 .. MaxFee
      BY <1>4, <3>1, ConstantsAssumption DEF SetUnitPrice
    <3> QED
      BY <3>2 DEF TxOK, TxType, Follows
  <2> HIDE DEF priced
  <2>2. TxOK(CreateMessage(priced)) /\ Follows(Now, CreateMessage(priced))
    BY <2>1, CreateMessageType, FollowsTransitive
  <2> QED
    BY <1>4, <2>2, LocalStep DEF SetUnitPrice, priced
<1>5. CASE SetSigners
  <2>1. PICK S \in SUBSET Signer :
          LET known == IF tx.message = NoMessage THEN {} ELSE S \cap {SignersOf(tx.message)[i] : i \in 1 .. Amount(tx.message)}
          IN \E s \in [1 .. Cardinality(S) -> S] :
               Local([Now EXCEPT !.supplied = @ \cup known, !.signers = s])
    BY <1>5 DEF SetSigners
  <2> DEFINE known == IF tx.message = NoMessage THEN {} ELSE S \cap {SignersOf(tx.message)[i] : i \in 1 .. Amount(tx.message)}
  <2>2. PICK s \in [1 .. Cardinality(S) -> S] : Local([Now EXCEPT !.supplied = @ \cup known, !.signers = s])
    BY <2>1
  <2> DEFINE new == [Now EXCEPT !.supplied = @ \cup known, !.signers = s]
  <2>3. known \in SUBSET Signer
    OBVIOUS
  <2>4. s \in Seq(Signer \cup {Nil})
    <3>1. Cardinality(S) \in Nat
      BY ConstantsAssumption, FS_Subset, FS_CardinalityType
    <3> QED
      BY <3>1, SeqDef
  <2> HIDE DEF known
  <2>5. TxOK(new) /\ Follows(Now, new)
    BY <2>3, <2>4 DEF TxOK, TxType, Follows
  <2> QED
    BY <2>2, <2>5, LocalStep
<1>6. CASE UpdateLatestBlockhash
  <2>1. tx' = [Now EXCEPT !.pending_blockhash = TRUE] /\ rpc' = [rpc EXCEPT !.blockhash = @ + 1]
    BY <1>6 DEF UpdateLatestBlockhash, Step
  <2>2. TxOK(tx') /\ tx'.pending_send = tx.pending_send
    BY <2>1 DEF TxOK, TxType
  <2> QED
    BY <2>1, <2>2 DEF IInv, TypeOK, TxOK, PendingIsBacked
<1>7. CASE SetBlockhash
  BY <1>7, SetHashType, LocalStep DEF SetBlockhash
<1>8. CASE Sign
  BY <1>8, SignCallType, LocalStep DEF Sign
<1>9. CASE PartiallySign
  BY <1>9, SignCallType, LocalStep DEF PartiallySign
<1>10. CASE SignAndSend
  <2> DEFINE connected == [Now EXCEPT !.sendOnFullySigned = TRUE]
  <2>1. TxOK(connected) /\ Follows(Now, connected)
    BY DEF TxOK, TxType, Follows
  <2> HIDE DEF connected
  <2>2. /\ TxOK(SignCall(connected, "sign", Signer))
        /\ Follows(Now, SignCall(connected, "sign", Signer))
    BY <2>1, SignCallType, FollowsTransitive
  <2>3. Follows(Now, Now)
    BY DEF Follows
  <2> QED
    BY <1>10, <2>2, <2>3, LocalStep DEF SignAndSend, connected
<1>11. CASE Send
  BY <1>11, SendTxType, LocalStep DEF Send
<1> QED
  BY <1>1, <1>2, <1>3, <1>4, <1>5, <1>6, <1>7, <1>8, <1>9, <1>10, <1>11 DEF Calls

\* The http client's answer: both flags are lowered with the request.
LEMMA AnswerKeeps ==
  ASSUME IInv, NEW kind \in {"blockhash", "send"}, Answer(kind)
  PROVE  IInv'
<1>1. PICK ok \in BOOLEAN, h \in Hashes \cup {NoHash}, res \in {"signature", "not_a_signature"} :
        LET new == HttpRequestCompleted(Now, ok, h, res)
        IN Step(new) /\ rpc' = [[rpc EXCEPT ![kind] = @ - 1] EXCEPT !.send = @ + Requests(new)]
  BY DEF Answer
<1> DEFINE new == HttpRequestCompleted(Now, ok, h, res)
<1>2. TxOK(new) /\ ~new.pending_blockhash /\ (new.pending_send => new.sent # {})
  BY NowType, HttpRequestCompletedType
<1> HIDE DEF new
<1>3. /\ tx' = new /\ rpc' = [[rpc EXCEPT ![kind] = @ - 1] EXCEPT !.send = @ + Requests(new)]
      /\ Requests(new) \in Nat /\ (new.sent # {} => Requests(new) = 1)
  BY <1>1 DEF new, Step, Requests
<1>4. rpc \in [{"blockhash", "send"} -> Nat] /\ rpc[kind] > 0
  BY DEF IInv, TypeOK, Answer
<1>5. rpc' \in [{"blockhash", "send"} -> Nat] /\ (Requests(new) = 1 => rpc'["send"] > 0)
  <2> DEFINE left == [rpc EXCEPT ![kind] = @ - 1]
  <2>1. left \in [{"blockhash", "send"} -> Nat]
    BY <1>4
  <2>2. rpc' = [left EXCEPT !.send = @ + Requests(new)]
    BY <1>3
  <2> HIDE DEF left
  <2>3. left["send"] \in Nat /\ Requests(new) \in {0, 1}
    BY <2>1 DEF Requests
  <2>4. rpc' \in [{"blockhash", "send"} -> Nat] /\ rpc'["send"] = left["send"] + Requests(new)
    BY <2>1, <2>2, <2>3
  <2> QED
    BY <2>3, <2>4
<1> QED
  BY <1>2, <1>3, <1>5 DEF IInv, TypeOK, TxOK, PendingIsBacked

\* A wallet's answer leaves the requests alone, or sends.
LEMMA WalletKeeps ==
  ASSUME IInv, NEW w \in Wallets, WalletSigns(w) \/ WalletFails(w)
  PROVE  IInv'
<1>1. PICK p \in tx.popup[w] :
        LET polled == [Now EXCEPT !.popup[w] = @ \ {p}]
            m == [p.msg EXCEPT !.fee = AlteredFee]
            new == [msg |-> m, sigs |-> [p.sigs EXCEPT ![tx.onSigned[w]] = [by |-> w, over |-> m]]]
        IN \/ Local(SignerSigned(polled, w, p, FALSE))
           \/ tx.onSigned[w] \in DOMAIN p.sigs /\ Local(SignerSigned(polled, w, new, TRUE))
           \/ Local(SignerFailed(polled, w))
  BY DEF WalletSigns, WalletFails
<1> DEFINE polled == [Now EXCEPT !.popup[w] = @ \ {p}]
           m == [p.msg EXCEPT !.fee = AlteredFee]
           new == [msg |-> m, sigs |-> [p.sigs EXCEPT ![tx.onSigned[w]] = [by |-> w, over |-> m]]]
<1>2. p \in Payload
  BY DEF IInv, TxOK, TxType
<1>3. TxOK(polled) /\ Follows(Now, polled)
  BY NowType DEF TxOK, TxType, Follows
<1>4. ASSUME tx.onSigned[w] \in DOMAIN p.sigs PROVE new \in Payload
  <2>1. m \in Message
    <3>1. p.msg \in Message
      BY <1>2 DEF Payload
    <3>2. AlteredFee \in 0 .. AlteredFee
      BY ConstantsAssumption DEF AlteredFee
    <3> QED
      BY <3>1, <3>2 DEF Message
  <2>2. [by |-> w, over |-> m] \in Signature
    BY <2>1 DEF Signature, Signer
  <2>3. p.sigs \in Slots /\ tx.onSigned[w] \in 1 .. Len(p.sigs)
    BY <1>2, <1>4, SlotsElim DEF Payload
  <2> HIDE DEF m
  <2>4. [p.sigs EXCEPT ![tx.onSigned[w]] = [by |-> w, over |-> m]] \in Slots
    BY <2>2, <2>3, ExceptSeq DEF Slots
  <2> QED
    BY <2>1, <2>4 DEF Payload
<1>5. CASE Local(SignerSigned(polled, w, p, FALSE))
  <2> HIDE DEF polled
  <2> QED BY <1>2, <1>3, <1>5, SignerSignedType, FollowsTransitive, LocalStep
<1>6. CASE tx.onSigned[w] \in DOMAIN p.sigs /\ Local(SignerSigned(polled, w, new, TRUE))
  <2>1. new \in Payload
    BY <1>4, <1>6
  <2> HIDE DEF polled, new
  <2> QED BY <2>1, <1>3, <1>6, SignerSignedType, FollowsTransitive, LocalStep
<1>7. CASE Local(SignerFailed(polled, w))
  <2> HIDE DEF polled
  <2> QED BY <1>3, <1>7, SignerFailedType, FollowsTransitive, LocalStep
<1> QED
  BY <1>1, <1>5, <1>6, <1>7

-----------------------------------------------------------------------------
(* Initial states. *)

\* An object that was just made.
LEMMA NewType == TxOK(New) /\ ~New.pending_send /\ ~New.pending_blockhash /\ ~New.sendOnFullySigned
BY ConstantsAssumption, LenProperties, EmptySeq DEF New, TxOK, TxType, Slots

\* The first states.
LEMMA InitInv == Init => IInv
<1> SUFFICES ASSUME Init PROVE IInv
  OBVIOUS
<1>1. rpc = [blockhash |-> 0, send |-> 0]
  BY DEF Init
<1>2. CASE tx = New
  BY <1>1, <1>2, NewType DEF IInv, TypeOK, TxOK, PendingIsBacked
<1>3. CASE tx # New
  <2>1. PICK n \in DOMAIN SignerList, h \in Hashes :
          LET m == [ix |-> n, fee |-> 0, hash |-> h]
          IN \E by \in SUBSET (1 .. Amount(m)) :
               tx = [FromBytes(New, [msg |-> m,
                       sigs |-> [i \in 1 .. Amount(m) |-> IF i \in by THEN Valid(m, i) ELSE NoSig]])
                     EXCEPT !.signers = [i \in 1 .. Amount(m) |-> Nil]]
    BY <1>3 DEF Init
  <2> DEFINE m == [ix |-> n, fee |-> 0, hash |-> h]
  <2>2. PICK by \in SUBSET (1 .. Amount(m)) :
          tx = [FromBytes(New, [msg |-> m,
                  sigs |-> [i \in 1 .. Amount(m) |-> IF i \in by THEN Valid(m, i) ELSE NoSig]])
                EXCEPT !.signers = [i \in 1 .. Amount(m) |-> Nil]]
    BY <2>1
  <2>3. m \in Message
    BY ConstantsAssumption DEF Message, AlteredFee
  <2> HIDE DEF m
  <2> DEFINE p == [msg |-> m, sigs |-> [i \in 1 .. Amount(m) |-> IF i \in by THEN Valid(m, i) ELSE NoSig]]
             u == FromBytes(New, p)
             nils == [i \in 1 .. Amount(m) |-> Nil]
  <2>4. p \in Payload
    BY <2>3, SignersType, ValidType, SlotsIntro DEF Payload
  <2>5. nils \in Seq(Signer \cup {Nil})
    BY <2>3, SignersType, SeqDef
  <2> HIDE DEF p
  <2>6. TxOK(u) /\ ~u.pending_send /\ ~u.pending_blockhash
    BY <2>4, NewType, FromBytesType DEF Follows
  <2>7. tx = [u EXCEPT !.signers = nils]
    BY <2>2 DEF p
  <2> HIDE DEF u, nils
  <2>8. TxOK(tx) /\ ~tx.pending_send /\ ~tx.pending_blockhash
    BY <2>5, <2>6, <2>7 DEF TxOK, TxType
  <2> QED
    BY <1>1, <2>8 DEF IInv, TypeOK, TxOK, PendingIsBacked
<1> QED
  BY <1>2, <1>3

\* A step of somebody else.
LEMMA StutterKeeps ==
  ASSUME IInv, UNCHANGED vars
  PROVE  IInv'
BY DEF IInv, TypeOK, TxOK, PendingIsBacked, vars

\* No step breaks the invariant.
LEMMA Inductive == IInv /\ [Next]_vars => IInv'
<1> SUFFICES ASSUME IInv, [Next]_vars PROVE IInv'
  OBVIOUS
<1> QED
  BY CallsKeep, AnswerKeeps, WalletKeeps, StutterKeeps DEF Next, Events

\* Every object the model reaches is well-typed, for all constants, any set of
\* calls and any order of them (the fields of Transaction, transaction.hpp:40-74).
THEOREM TypeCorrect == Spec => []TypeOK
<1>1. IInv => TypeOK
  BY DEF IInv
<1> QED
  BY <1>1, InitInv, Inductive, PTL DEF Spec

\* In every order of calls and answers, documented or not, a pending flag is
\* backed by a request in flight, so the client's next answer lowers it
\* (send_callback and blockhash_callback, transaction.cpp:571-599).
THEOREM NeverWaitsInVain == Spec => []PendingIsBacked
<1>1. IInv => PendingIsBacked
  BY DEF IInv
<1> QED
  BY <1>1, InitInv, Inductive, PTL DEF Spec

-----------------------------------------------------------------------------
(* The documented order.  When every call is made in it and a wallet       *)
(* modifies only transactions it signs alone, the counter counts the       *)
(* signatures, every signature is over the message as it is, and a wallet  *)
(* is asked for an empty slot of its own.                                  *)

InOrder == Documented = Kinds /\ MaxAltered <= 1

\* The slots are those of the message, and a filled one holds the signature of
\* its signer over the message, which has a blockhash.
SlotsSound(t) ==
  /\ t.signatures = <<>> \/ (SizesAgree(t) /\ (t.deserialized \/ t.message.ix = t.ix))
  /\ \A i \in DOMAIN t.signatures : t.signatures[i] # NoSig =>
       t.message.hash # NoHash /\ t.signatures[i] = Valid(t.message, i)

\* The counter is right, or beyond the slots of a transaction a wallet modified.
AllFilled(s) == \A i \in DOMAIN s : s[i] # NoSig
Counted(t) ==
  \/ t.ready = Ready(t.signatures)
  \/ t.ready > Len(t.signatures) /\ AllFilled(t.signatures)

HashKnown(t) == t.message # NoMessage /\ t.hash # NoHash => t.message.hash # NoHash

Emissions(t) ==
  /\ \A p \in t.claims : FullySigned(p)
  /\ \A p \in t.sent : FullySigned(p) /\ p.msg.hash # NoHash

Safe(t) ==
  TxOK(t) /\ ~t.crashed /\ SlotsSound(t) /\ Counted(t) /\ HashKnown(t) /\ Emissions(t)

\* A wallet that may answer was asked once, for its own empty slot.
Unasked(t, w) == t.onSigned[w] = 0 /\ t.onFailed[w] = 0 /\ t.popup[w] = {}
AskedFor(t, w, i) ==
  /\ t.onSigned[w] = i /\ t.onFailed[w] = i
  /\ SizesAgree(t) /\ t.message.hash # NoHash
  /\ i \in DOMAIN t.signers /\ i \in DOMAIN t.signatures
  /\ t.signers[i] = w /\ SignersOf(t.message)[i] = w /\ t.signatures[i] = NoSig
  /\ \E p \in Payload : t.popup[w] = {p} /\ p.msg = t.message /\ Len(p.sigs) = Len(t.signatures)

\* One thing at a time.
Orderly(t) ==
  /\ \A w \in Wallets : Unasked(t, w) \/ AskedFor(t, w, t.onSigned[w])
  /\ t.pending_blockhash => ~t.pending_send /\ t.ready = 0 /\ WalletIdle(t)
  /\ t.onSendReady # <<>> =>
       Len(t.onSendReady) = 1 /\ t.ready = 0 /\ WalletIdle(t) /\ SizesAgree(t)
  /\ t.pending_send => WalletIdle(t)

\* An object in the middle of a step that started with no transmission.
Posted(t) == t.pending_send <=> t.sent # {}
Sound(t) == Safe(t) /\ Orderly(t) /\ Posted(t)

OrderInv ==
  /\ TypeOK /\ Safe(tx) /\ Orderly(tx)
  /\ rpc.send = (IF tx.pending_send THEN 1 ELSE 0)
  /\ rpc.blockhash = (IF tx.pending_blockhash THEN 1 ELSE 0)

\* What an emission leaves alone.
SameSlots(t, u) ==
  /\ u.message = t.message /\ u.signatures = t.signatures /\ u.ready = t.ready
  /\ u.hash = t.hash /\ u.ix = t.ix /\ u.signers = t.signers
  /\ u.deserialized = t.deserialized /\ u.crashed = t.crashed
SameWaiting(t, u) ==
  /\ u.onSigned = t.onSigned /\ u.onFailed = t.onFailed /\ u.popup = t.popup
  /\ u.pending_blockhash = t.pending_blockhash /\ u.onSendReady = t.onSendReady

Full(t) == SizesAgree(t) /\ AllFilled(t.signatures)

\* The signatures that are there stay.
Grown(t, u) ==
  \A i \in DOMAIN t.signatures : t.signatures[i] # NoSig => u.signatures[i] = t.signatures[i]

-----------------------------------------------------------------------------
(* The counter of the signatures. *)

\* If all slots count, all are filled.
LEMMA ReadyFull ==
  ASSUME NEW s \in Slots, Ready(s) = Len(s)
  PROVE  AllFilled(s)
<1> DEFINE F == {i \in DOMAIN s : s[i] # NoSig}
<1>1. IsFiniteSet(DOMAIN s) /\ DOMAIN s = 1 .. Len(s) /\ Len(s) \in Nat
  BY SlotsElim
<1>2. Cardinality(1 .. Len(s)) = Len(s)
  <2> DEFINE n == Len(s)
  <2>1. n \in Int /\ 1 \in Int
    BY <1>1
  <2> HIDE DEF n
  <2>2. Cardinality(1 .. n) = IF 1 > n THEN 0 ELSE n - 1 + 1
    BY <2>1, FS_Interval
  <2> QED
    BY <2>2, <1>1 DEF n
<1>3. Cardinality(F) = Cardinality(DOMAIN s)
  BY <1>1, <1>2 DEF Ready
<1>4. F \in SUBSET DOMAIN s
  OBVIOUS
<1> HIDE DEF F
<1>5. F = DOMAIN s
  BY <1>1, <1>3, <1>4, FS_Subset
<1> QED
  BY <1>5 DEF AllFilled, F

\* If none counts, none is filled.
LEMMA ReadyZero ==
  ASSUME NEW s \in Slots, Ready(s) = 0
  PROVE  \A i \in DOMAIN s : s[i] = NoSig
<1> DEFINE F == {i \in DOMAIN s : s[i] # NoSig}
<1>1. IsFiniteSet(F) /\ Cardinality(F) = 0
  BY SlotsElim, FS_Subset DEF Ready
<1>2. F = {}
  BY <1>1, FS_EmptySet
<1> QED
  BY <1>2

\* And the other way round.
LEMMA NoneReady ==
  ASSUME NEW s, \A i \in DOMAIN s : s[i] = NoSig
  PROVE  Ready(s) = 0
<1>1. {i \in DOMAIN s : s[i] # NoSig} = {}
  OBVIOUS
<1> QED
  BY <1>1, FS_EmptySet DEF Ready

\* Filling the empty slots of L counts as many more.
LEMMA ReadyAdds ==
  ASSUME NEW s \in Slots, NEW u \in Slots, DOMAIN u = DOMAIN s,
         NEW L \in SUBSET DOMAIN s, \A i \in L : s[i] = NoSig,
         \A i \in DOMAIN s : u[i] # NoSig <=> (i \in L \/ s[i] # NoSig)
  PROVE  Ready(u) = Ready(s) + Cardinality(L)
<1> DEFINE F == {i \in DOMAIN s : s[i] # NoSig}
           G == {i \in DOMAIN u : u[i] # NoSig}
<1>1. IsFiniteSet(DOMAIN s)
  BY SlotsElim
<1>2. IsFiniteSet(F) /\ IsFiniteSet(L)
  BY <1>1, FS_Subset
<1>3. G = F \cup L /\ F \cap L = {}
  OBVIOUS
<1>4. Cardinality(F \cup L) = Cardinality(F) + Cardinality(L) - Cardinality(F \cap L)
  BY <1>2, FS_Union
<1>5. Cardinality(F) \in Nat /\ Cardinality(L) \in Nat /\ Cardinality(F \cap L) = 0
  BY <1>2, <1>3, FS_CardinalityType, FS_EmptySet
<1>6. Ready(s) = Cardinality(F) /\ Ready(u) = Cardinality(G)
  BY DEF Ready
<1> HIDE DEF F, G
<1> QED
  BY <1>3, <1>4, <1>5, <1>6

\* A right counter of zero means empty slots.
LEMMA CountedZero ==
  ASSUME NEW t, TxOK(t), Counted(t), t.ready = 0
  PROVE  \A i \in DOMAIN t.signatures : t.signatures[i] = NoSig
<1>1. t.signatures \in Slots
  BY DEF TxOK, TxType
<1>2. Len(t.signatures) \in Nat
  BY <1>1, SlotsElim
<1> QED
  BY <1>1, <1>2, ReadyZero DEF Counted

\* One as large as the slots means full ones.
LEMMA CountedFull ==
  ASSUME NEW t, TxOK(t), Counted(t), t.ready = Len(t.signatures)
  PROVE  AllFilled(t.signatures)
<1>1. t.signatures \in Slots
  BY DEF TxOK, TxType
<1> QED
  BY <1>1, SlotsElim, ReadyFull DEF Counted

\* All slots filled with sound signatures are the signatures of a full transaction.
LEMMA FullSigned ==
  ASSUME NEW t, Safe(t), Full(t)
  PROVE  FullySigned(Serialized(t)) /\ t.message.hash # NoHash /\ Serialized(t) \in Payload
<1>1. t.message \in Message /\ t.signatures \in Slots /\ t.message # NoMessage
  BY DEF Safe, Full, SizesAgree, TxOK, TxType
<1>2. DOMAIN t.signatures = 1 .. Amount(t.message) /\ Amount(t.message) \in Nat \ {0}
  BY <1>1, SlotsElim, SignersType DEF Full, SizesAgree
<1>3. \A i \in DOMAIN t.signatures : t.signatures[i] = Valid(t.message, i) /\ t.message.hash # NoHash
  BY DEF Full, AllFilled, Safe, SlotsSound
<1>4. t.signatures = [i \in 1 .. Amount(t.message) |-> Valid(t.message, i)]
  BY <1>1, <1>2, <1>3, LenProperties DEF Slots
<1>5. t.message.hash # NoHash
  BY <1>2, <1>3
<1>6. Serialized(t) \in Payload
  BY <1>1, SerializedType DEF Safe
<1> QED
  BY <1>4, <1>5, <1>6 DEF Serialized, FullySigned

-----------------------------------------------------------------------------
(* Emissions. *)

\* send, of what is completely signed or waits for its blockhash.
LEMMA SendTxSound ==
  ASSUME NEW t, Safe(t), Posted(t), Full(t) \/ t.pending_blockhash
  PROVE  /\ Safe(SendTx(t)) /\ Posted(SendTx(t))
         /\ SameSlots(t, SendTx(t)) /\ SameWaiting(t, SendTx(t))
         /\ SendTx(t).pending_send => t.pending_send \/ Full(t)
<1>1. CASE ~SizesAgree(t)
  BY <1>1 DEF SendTx, Full, SameSlots, SameWaiting
<1>2. CASE SizesAgree(t) /\ t.pending_blockhash
  <2>1. SendTx(t) = [t EXCEPT !.sendOnFullySigned = TRUE]
    BY <1>2 DEF SendTx
  <2>2. TxOK(SendTx(t))
    BY SendTxType DEF Safe
  <2>3. /\ SameSlots(t, SendTx(t)) /\ SameWaiting(t, SendTx(t))
        /\ SendTx(t).claims = t.claims /\ SendTx(t).sent = t.sent
        /\ SendTx(t).pending_send = t.pending_send
    BY <2>1 DEF Safe, TxOK, TxType, SameSlots, SameWaiting
  <2> QED
    BY <2>2, <2>3 DEF Safe, SlotsSound, Counted, HashKnown, Emissions, SizesAgree, Posted, SameSlots
<1>3. CASE SizesAgree(t) /\ ~t.pending_blockhash
  <2>1. SendTx(t) = [t EXCEPT !.pending_send = TRUE, !.sent = @ \cup {Serialized(t)}]
    BY <1>3 DEF SendTx
  <2>2. TxOK(SendTx(t))
    BY SendTxType DEF Safe
  <2>3. /\ SameSlots(t, SendTx(t)) /\ SameWaiting(t, SendTx(t))
        /\ SendTx(t).claims = t.claims /\ SendTx(t).sent = t.sent \cup {Serialized(t)}
        /\ SendTx(t).pending_send = TRUE
    BY <2>1 DEF Safe, TxOK, TxType, SameSlots, SameWaiting
  <2>4. Full(t)
    BY <1>3
  <2>5. FullySigned(Serialized(t)) /\ t.message.hash # NoHash /\ Serialized(t).msg = t.message
    BY <2>4, FullSigned DEF Serialized
  <2>6. Emissions(SendTx(t))
    BY <2>3, <2>5 DEF Safe, Emissions
  <2> QED
    BY <2>2, <2>3, <2>4, <2>6 DEF Safe, SlotsSound, Counted, HashKnown, SizesAgree, Posted, SameSlots
<1> QED
  BY <1>1, <1>2, <1>3

\* fully_signed is emitted for what is.
LEMMA EmitSound ==
  ASSUME NEW t, Safe(t), Posted(t), Full(t)
  PROVE  /\ Safe(EmitFullySigned(t)) /\ Posted(EmitFullySigned(t))
         /\ SameSlots(t, EmitFullySigned(t)) /\ SameWaiting(t, EmitFullySigned(t))
<1> DEFINE e == [t EXCEPT !.claims = @ \cup {Serialized(t)}, !.sendOnFullySigned = FALSE]
<1>1. FullySigned(Serialized(t)) /\ Serialized(t) \in Payload
  BY FullSigned
<1>2. /\ TxOK(e) /\ SameSlots(t, e) /\ SameWaiting(t, e)
      /\ e.claims = t.claims \cup {Serialized(t)} /\ e.sent = t.sent /\ e.pending_send = t.pending_send
  BY <1>1 DEF Safe, TxOK, TxType, SameSlots, SameWaiting
<1>3. EmitFullySigned(t) = IF t.sendOnFullySigned THEN SendTx(e) ELSE e
  BY DEF EmitFullySigned
<1> HIDE DEF e
<1>4. Emissions(e)
  BY <1>1, <1>2 DEF Safe, Emissions
<1>5. Safe(e) /\ Posted(e) /\ Full(e)
  BY <1>2, <1>4 DEF Safe, SlotsSound, Counted, HashKnown, SizesAgree, Posted, SameSlots, Full
<1>6. /\ Safe(SendTx(e)) /\ Posted(SendTx(e))
      /\ SameSlots(e, SendTx(e)) /\ SameWaiting(e, SendTx(e))
  BY <1>5, SendTxSound
<1> QED
  BY <1>2, <1>3, <1>5, <1>6 DEF SameSlots, SameWaiting

\* A wallet still to answer leaves a slot empty, so a full transaction has none.
LEMMA FullIsIdle ==
  ASSUME NEW t, Orderly(t), Full(t)
  PROVE  WalletIdle(t)
BY DEF Orderly, Full, AllFilled, AskedFor, Unasked, WalletIdle

\* What emitting leaves alone is enough to stay orderly.
LEMMA SameOrderly ==
  ASSUME NEW t, NEW u, Orderly(t), SameSlots(t, u), SameWaiting(t, u),
         u.pending_send => t.pending_send \/ (WalletIdle(t) /\ ~t.pending_blockhash)
  PROVE  Orderly(u)
BY DEF Orderly, Unasked, AskedFor, SameSlots, SameWaiting, WalletIdle, SizesAgree

\* A message has a signer, so that full slots count.
LEMMA FullIsSigned ==
  ASSUME NEW t, Safe(t), Full(t)
  PROVE  t.ready # 0
<1>1. t.message \in Message /\ t.signatures \in Slots
  BY DEF Safe, Full, SizesAgree, TxOK, TxType
<1>2. 1 \in DOMAIN t.signatures
  BY <1>1, SlotsElim, SignersType DEF Full, SizesAgree
<1> QED
  BY <1>2, CountedZero DEF Safe, Full, AllFilled

\* After fully_signed the object is sound, though it may have been sent.
LEMMA EmitOrderly ==
  ASSUME NEW t, Sound(t), Full(t)
  PROVE  Sound(EmitFullySigned(t))
<1>1. WalletIdle(t)
  BY FullIsIdle DEF Sound
<1>2. ~t.pending_blockhash
  BY FullIsSigned DEF Sound, Orderly
<1> QED
  BY <1>1, <1>2, EmitSound, SameOrderly DEF Sound

\* check_fully_signed
LEMMA CheckSound ==
  ASSUME NEW t, Sound(t), SizesAgree(t)
  PROVE  Sound(CheckFullySigned(t)) /\ CheckFullySigned(t).signatures = t.signatures
<1>1. t.ready = Len(t.signatures) => Full(t)
  BY CountedFull DEF Sound, Safe, Full
<1> QED
  BY <1>1, EmitOrderly, EmitSound DEF CheckFullySigned, Sound, SameSlots

-----------------------------------------------------------------------------
(* Signing. *)

\* When no wallet is waited for, none was asked.
LEMMA IdleUnasked ==
  ASSUME NEW t, TxOK(t), Orderly(t), WalletIdle(t)
  PROVE  \A w \in Wallets : Unasked(t, w)
<1>1. t.signers \in Seq(Signer \cup {Nil})
  BY DEF TxOK, TxType
<1>2. 0 \notin DOMAIN t.signers
  BY <1>1, LenProperties
<1> QED
  BY <1>2 DEF Orderly, AskedFor, WalletIdle

\* When a signature may be made: nothing is under way, and the message is complete.
Signable(t) ==
  /\ Sound(t) /\ SizesAgree(t) /\ t.message.hash # NoHash /\ WalletIdle(t)
  /\ ~t.pending_blockhash /\ ~t.pending_send /\ t.onSendReady = <<>>

WithSigned(t, L) ==
  [t EXCEPT !.ready = t.ready + Cardinality(L),
            !.signatures = [i \in DOMAIN @ |-> IF i \in L THEN Valid(t.message, i) ELSE @[i]]]

\* Signatures stored in empty slots are counted as many as they are.
LEMMA WithSignedSound ==
  ASSUME NEW t, Signable(t), NEW L \in SUBSET DOMAIN t.signatures,
         \A i \in L : t.signatures[i] = NoSig
  PROVE  LET u == WithSigned(t, L)
         IN /\ Signable(u) /\ SameWaiting(t, u)
            /\ u.message = t.message /\ u.signers = t.signers
            /\ u.ready = t.ready + Cardinality(L) /\ DOMAIN u.signatures = DOMAIN t.signatures
            /\ u.claims = t.claims /\ u.sent = t.sent
            /\ \A i \in DOMAIN t.signatures :
                 u.signatures[i] = IF i \in L THEN Valid(t.message, i) ELSE t.signatures[i]
<1> DEFINE s == [i \in DOMAIN t.signatures |-> IF i \in L THEN Valid(t.message, i) ELSE t.signatures[i]]
           n == t.ready + Cardinality(L)
           u == WithSigned(t, L)
<1>1. t.signatures \in Slots /\ t.message \in Message /\ t.ready \in Nat /\ t.message # NoMessage
  BY DEF Signable, Sound, Safe, TxOK, TxType, SizesAgree
<1>2. DOMAIN t.signatures = 1 .. Amount(t.message) /\ Len(t.signatures) = Amount(t.message)
  BY <1>1, SlotsElim DEF Signable, SizesAgree
<1>3. \A i \in L : Valid(t.message, i) \in Signature /\ Valid(t.message, i) # NoSig
  BY <1>1, <1>2, ValidType, NullAssumption
<1>4. s \in Slots /\ DOMAIN s = DOMAIN t.signatures /\ Len(s) = Len(t.signatures)
  <2>1. s \in [1 .. Amount(t.message) -> Signature \cup {NoSig}]
    BY <1>1, <1>2, <1>3, SlotsElim
  <2>2. Amount(t.message) \in Nat
    BY <1>1, SignersType
  <2>3. s \in Slots
    BY <2>1, <2>2, SlotsIntro
  <2>4. DOMAIN s = 1 .. Amount(t.message) /\ DOMAIN s = 1 .. Len(s) /\ Len(s) \in Nat
    BY <2>1, <2>3, SlotsElim
  <2>5. Len(s) = Amount(t.message)
    <3> HIDE DEF s
    <3> QED BY <2>2, <2>4, <1>1, SignersType
  <2> QED
    BY <2>3, <2>4, <2>5, <1>2
<1>5. IsFiniteSet(L) /\ Cardinality(L) \in Nat
  BY <1>1, SlotsElim, FS_Subset, FS_CardinalityType
<1>6. u = [t EXCEPT !.ready = n, !.signatures = s]
  BY DEF WithSigned, Signable, Sound, Safe, TxOK, TxType
<1>7. Ready(s) = Ready(t.signatures) + Cardinality(L)
  <2>1. \A i \in DOMAIN t.signatures : s[i] # NoSig <=> (i \in L \/ t.signatures[i] # NoSig)
    BY <1>3
  <2> HIDE DEF s
  <2> QED
    BY <1>1, <1>4, <2>1, ReadyAdds
<1>8. \A i \in DOMAIN t.signatures : s[i] = IF i \in L THEN Valid(t.message, i) ELSE t.signatures[i]
  OBVIOUS
<1>9. \/ n = Ready(s)
      \/ n > Len(s) /\ AllFilled(s)
  <2>1. CASE t.ready = Ready(t.signatures)
    BY <2>1, <1>7
  <2>2. CASE t.ready > Len(t.signatures) /\ AllFilled(t.signatures)
    <3>1. L = {}
      BY <2>2 DEF AllFilled
    <3>2. Cardinality(L) = 0
      BY <3>1, FS_EmptySet
    <3>3. AllFilled(s)
      BY <2>2, <3>1, <1>4 DEF AllFilled
    <3> HIDE DEF s
    <3> QED
      BY <2>2, <3>2, <3>3, <1>1, <1>4
  <2> QED
    BY <2>1, <2>2 DEF Signable, Sound, Safe, Counted
<1> HIDE DEF u, s
<1>10. n \in Nat
  BY <1>1, <1>5
<1> HIDE DEF n
<1>11. /\ u.ready = n /\ u.signatures = s /\ u.message = t.message /\ u.signers = t.signers
       /\ u.ix = t.ix /\ u.hash = t.hash /\ u.deserialized = t.deserialized /\ u.crashed = t.crashed
       /\ u.claims = t.claims /\ u.sent = t.sent /\ u.pending_send = t.pending_send
       /\ SameWaiting(t, u)
  BY <1>6 DEF Signable, Sound, Safe, TxOK, TxType, SameWaiting
<1>12. TxOK(u)
  BY <1>1, <1>4, <1>6, <1>10, <1>11 DEF Signable, Sound, Safe, TxOK, TxType
<1>13. SizesAgree(u)
  BY <1>4, <1>11 DEF Signable, SizesAgree
<1>14. SlotsSound(u)
  <2>1. u.deserialized \/ u.message.ix = u.ix
    <3>1. t.signatures # <<>>
      BY <1>1, <1>2, SignersType, EmptySeq
    <3> QED
      BY <3>1, <1>11 DEF Signable, Sound, Safe, SlotsSound
  <2>2. \A i \in DOMAIN s : s[i] # NoSig => t.message.hash # NoHash /\ s[i] = Valid(t.message, i)
    BY <1>4, <1>8 DEF Signable, Sound, Safe, SlotsSound
  <2> QED
    BY <2>1, <2>2, <1>11, <1>13 DEF SlotsSound
<1>15. Safe(u)
  BY <1>9, <1>11, <1>12, <1>14 DEF Signable, Sound, Safe, Counted, HashKnown, Emissions
<1>16. Orderly(u)
  <2>1. \A w \in Wallets : Unasked(t, w)
    BY IdleUnasked DEF Signable, Sound, Safe
  <2> QED
    BY <2>1, <1>11 DEF Signable, Orderly, SameWaiting, Unasked, WalletIdle
<1>17. Signable(u)
  BY <1>11, <1>13, <1>15, <1>16 DEF Signable, Sound, Posted, SameWaiting, WalletIdle
<1>18. u.ready = t.ready + Cardinality(L)
  BY <1>11 DEF n
<1> QED
  BY <1>4, <1>8, <1>11, <1>17, <1>18 DEF u

\* Signing empty slots fills them validly, or asks their wallets once.
LEMMA SignIndicesSound ==
  ASSUME NEW t, Signable(t), t.signers = GetSigners(t),
         NEW J \in SUBSET (1 .. Amount(t.message)), \A j \in J : t.signatures[j] = NoSig
  PROVE  LET u == SignIndices(t, J)
         IN Sound(u) /\ SizesAgree(u) /\ Grown(t, u)
<1> DEFINE K       == {j \in J : t.signers[j] \in Keypairs}
           Upto(j) == {k \in K : k <= j}
           Last    == {j \in K : t.ready + Cardinality(Upto(j)) = Len(t.signatures)}
           last    == CHOOSE j \in Last : TRUE
           first   == IF Last = {} THEN t ELSE EmitFullySigned(WithSigned(t, Upto(last)))
           Filled(u) ==
             [u EXCEPT !.ready = t.ready + Cardinality(K),
                       !.signatures = [i \in DOMAIN @ |-> IF i \in K THEN Valid(t.message, i) ELSE @[i]]]
           Asked(w) == {j \in J : t.signers[j] = w}
           Connect(on) == [w \in Wallets |-> IF Asked(w) = {} \/ on[w] # 0 THEN on[w]
                                             ELSE CHOOSE j \in Asked(w) : TRUE]
           Popups(w) == {Serialized(WithSigned(t, Upto(j))) : j \in Asked(w)}
           done == [Filled(first) EXCEPT
                      !.popup = [w \in Wallets |-> @[w] \cup Popups(w)],
                      !.onSigned = Connect(@),
                      !.onFailed = Connect(@)]
<1>1. /\ TxOK(t) /\ t.signatures \in Slots /\ t.message \in Message /\ t.message # NoMessage
      /\ DOMAIN t.signatures = 1 .. Amount(t.message) /\ Len(t.signatures) = Amount(t.message)
  <2>1. TxOK(t) /\ t.signatures \in Slots /\ t.message \in Message /\ t.message # NoMessage
    BY DEF Signable, Sound, Safe, TxOK, TxType, SizesAgree
  <2> QED
    BY <2>1, SlotsElim DEF Signable, SizesAgree
<1>2. /\ t.signers \in Seq(Signer \cup {Nil}) /\ DOMAIN t.signers = 1 .. Amount(t.message)
      /\ \A j \in DOMAIN t.signers : t.signers[j] \in {SignersOf(t.message)[j], Nil}
  BY <1>1, GetSignersType DEF GetSigners
<1>3. SignIndices(t, J) = done
  <2>1. ~(~(J \subseteq DOMAIN t.signers) \/ (K # {} /\ ~SizesAgree(t)))
    BY <1>2 DEF Signable
  <2> QED
    BY <2>1 DEF SignIndices, WithSigned
<1>4. TxOK(done)
  <2> HIDE DEF done
  <2> QED BY <1>1, <1>3, SignIndicesType
<1> DEFINE Stored(u, L) ==
             /\ Signable(u) /\ SameWaiting(t, u) /\ u.message = t.message /\ u.signers = t.signers
             /\ u.ready = t.ready + Cardinality(L) /\ DOMAIN u.signatures = DOMAIN t.signatures
             /\ u.claims = t.claims /\ u.sent = t.sent
             /\ \A i \in DOMAIN t.signatures :
                  u.signatures[i] = IF i \in L THEN Valid(t.message, i) ELSE t.signatures[i]
<1>5. ASSUME NEW L \in SUBSET K
      PROVE  Stored(WithSigned(t, L), L)
  <2>1. L \in SUBSET DOMAIN t.signatures /\ \A i \in L : t.signatures[i] = NoSig
    BY <1>1
  <2> HIDE DEF K
  <2> QED BY <2>1, WithSignedSound
<1>6. \A w \in Wallets : Unasked(t, w)
  BY <1>1, IdleUnasked DEF Signable, Sound
<1>7. CASE Last # {}
  <2> DEFINE f == WithSigned(t, Upto(last))
             e == EmitFullySigned(f)
  <2>1. last \in K /\ t.ready + Cardinality(Upto(last)) = Len(t.signatures)
    BY <1>7
  <2>2. Stored(f, Upto(last))
    BY <1>5
  <2> HIDE DEF f, last
  <2>3. SizesAgree(f) /\ f.ready = Len(f.signatures)
    BY <1>1, <2>1, <2>2 DEF Signable, SizesAgree
  <2>4. Full(f)
    BY <2>2, <2>3, CountedFull DEF Signable, Sound, Safe, Full
  <2>5. Sound(e) /\ SameSlots(f, e) /\ SameWaiting(f, e)
    BY <2>2, <2>4, EmitSound, EmitOrderly DEF Signable, Sound
  <2>6. J = Upto(last) /\ K = J
    BY <1>1, <2>2, <2>4 DEF Full, AllFilled
  <2>7. \A w \in Wallets : Asked(w) = {}
    BY <2>6, ConstantsAssumption
  <2> HIDE DEF e
  <2>8. /\ TxOK(e) /\ e.ready = t.ready + Cardinality(K)
        /\ DOMAIN e.signatures = DOMAIN t.signatures
        /\ \A i \in K : e.signatures[i] = Valid(t.message, i)
    <3>1. K = Upto(last) /\ K \in SUBSET DOMAIN t.signatures
      BY <1>1, <2>6
    <3> HIDE DEF K, Upto
    <3> QED BY <2>2, <2>5, <3>1 DEF Sound, Safe, SameSlots
  <2>9. first = e
    BY <1>7 DEF e, f
  <2>10. [i \in DOMAIN e.signatures |-> IF i \in K THEN Valid(t.message, i) ELSE e.signatures[i]] = e.signatures
    <3>1. e.signatures \in Slots
      BY <2>8 DEF TxOK, TxType
    <3>2. e.signatures = [i \in DOMAIN e.signatures |-> e.signatures[i]]
      BY <3>1 DEF Slots
    <3> HIDE DEF K
    <3> QED BY <2>8, <3>2
  <2>11. /\ [w \in Wallets |-> e.popup[w] \cup Popups(w)] = e.popup
         /\ Connect(e.onSigned) = e.onSigned /\ Connect(e.onFailed) = e.onFailed
    <3>1. e.popup \in [Wallets -> SUBSET Payload] /\ e.onSigned \in [Wallets -> Nat] /\ e.onFailed \in [Wallets -> Nat]
      BY <2>8 DEF TxOK, TxType
    <3>2. \A w \in Wallets : Popups(w) = {}
      BY <2>7
    <3> HIDE DEF Popups, Asked
    <3> QED BY <2>7, <3>1, <3>2
  <2>12. Filled(e) = e
    <3> HIDE DEF K
    <3> QED BY <2>8, <2>10 DEF TxOK, TxType
  <2>13. done = e
    <3>1. done = [Filled(e) EXCEPT
                    !.popup = [w \in Wallets |-> @[w] \cup Popups(w)],
                    !.onSigned = Connect(@), !.onFailed = Connect(@)]
      <4> HIDE DEF first, Filled, Popups, Connect
      <4> QED BY <2>9
    <3>2. done = [e EXCEPT !.popup = [w \in Wallets |-> e.popup[w] \cup Popups(w)],
                           !.onSigned = Connect(e.onSigned), !.onFailed = Connect(e.onFailed)]
      <4> HIDE DEF Filled, Popups, Connect, done
      <4> QED BY <3>1, <2>12, <2>8 DEF TxOK, TxType
    <3> HIDE DEF done, Popups, Connect
    <3> QED BY <3>2, <2>11, <2>8 DEF TxOK, TxType
  <2> HIDE DEF done
  <2>14. Grown(t, done)
    <3>1. done.signatures = f.signatures
      BY <2>5, <2>13 DEF SameSlots
    <3>2. \A i \in Upto(last) : t.signatures[i] = NoSig
      OBVIOUS
    <3> HIDE DEF Upto
    <3> QED BY <2>2, <3>1, <3>2 DEF Grown
  <2> QED
    BY <1>3, <2>3, <2>5, <2>13, <2>14 DEF SizesAgree, SameSlots
<1>8. CASE Last = {}
  <2> DEFINE g == WithSigned(t, K)
  <2>1. Stored(g, K)
    BY <1>5
  <2>2. Filled(first) = g
    BY <1>8 DEF WithSigned
  <2> HIDE DEF g, Filled
  <2>3. done = [g EXCEPT !.popup = [w \in Wallets |-> g.popup[w] \cup Popups(w)],
                         !.onSigned = Connect(g.onSigned), !.onFailed = Connect(g.onFailed)]
    <3> HIDE DEF Popups, Connect, first
    <3> QED BY <2>1, <2>2 DEF Signable, Sound, Safe, TxOK, TxType
  <2>4. /\ done.popup = [w \in Wallets |-> g.popup[w] \cup Popups(w)]
        /\ done.onSigned = Connect(g.onSigned) /\ done.onFailed = Connect(g.onFailed)
        /\ SameSlots(g, done) /\ done.pending_blockhash = g.pending_blockhash
        /\ done.onSendReady = g.onSendReady /\ done.pending_send = g.pending_send
        /\ done.claims = g.claims /\ done.sent = g.sent
    <3> HIDE DEF Popups, Connect, done
    <3> QED BY <2>1, <2>3 DEF Signable, Sound, Safe, TxOK, TxType, SameSlots
  <2> HIDE DEF done
  <2>5. ASSUME NEW w \in Wallets, Asked(w) = {}
        PROVE  Unasked(done, w)
    <3>1. Popups(w) = {} /\ Unasked(g, w)
      BY <1>6, <2>1, <2>5 DEF SameWaiting, Unasked
    <3> HIDE DEF Popups, Asked
    <3> QED BY <2>4, <2>5, <3>1 DEF Unasked
  <2>6. ASSUME NEW w \in Wallets, NEW j \in Asked(w)
        PROVE  AskedFor(done, w, j)
    <3>1. j \in J /\ t.signers[j] = w /\ j \in 1 .. Amount(t.message) /\ SignersOf(t.message)[j] = w
      BY <1>2, ConstantsAssumption DEF Signer
    <3>2. Asked(w) = {j}
      <4>1. ASSUME NEW k \in Asked(w) PROVE k = j
        <5>1. k \in 1 .. Amount(t.message) /\ SignersOf(t.message)[k] = w
          BY <1>2, ConstantsAssumption DEF Signer
        <5> QED
          BY <1>1, <3>1, <5>1, SignersType, SignersAssumption DEF SignersOf, Message
      <4> QED
        BY <4>1
    <3>3. Unasked(g, w)
      BY <1>6, <2>1 DEF SameWaiting, Unasked
    <3>4. (CHOOSE k \in Asked(w) : TRUE) = j
      BY <3>2
    <3>5. done.onSigned[w] = j /\ done.onFailed[w] = j
      <4> HIDE DEF Asked
      <4> QED BY <2>4, <3>2, <3>3, <3>4 DEF Unasked
    <3> DEFINE p == Serialized(WithSigned(t, Upto(j)))
    <3>6. p \in Payload /\ p.msg = t.message /\ Len(p.sigs) = Len(t.signatures)
      <4> DEFINE v == WithSigned(t, Upto(j))
      <4>1. Signable(v) /\ v.message = t.message
        BY <1>5
      <4> HIDE DEF v
      <4>2. Serialized(v) \in Payload /\ Len(v.signatures) = Len(t.signatures)
        BY <1>1, <4>1, SerializedType DEF Signable, Sound, Safe, SizesAgree
      <4>3. p = Serialized(v)
        BY DEF v
      <4> QED
        BY <4>1, <4>2, <4>3 DEF Serialized
    <3>7. done.popup[w] = {p}
      <4>1. Popups(w) = {p}
        BY <3>2
      <4> HIDE DEF Popups, p
      <4> QED BY <2>4, <3>3, <4>1 DEF Unasked
    <3>8. j \in DOMAIN t.signatures /\ j \notin K /\ g.signatures[j] = NoSig
      BY <1>1, <2>1, <3>1, ConstantsAssumption
    <3> HIDE DEF p, Asked, K
    <3>9. /\ done.message = t.message /\ done.signers = t.signers
          /\ done.signatures = g.signatures /\ Len(g.signatures) = Len(t.signatures)
      BY <1>1, <2>1, <2>4 DEF SameSlots, Signable, SizesAgree
    <3>10. \E q \in Payload : done.popup[w] = {q} /\ q.msg = done.message /\ Len(q.sigs) = Len(done.signatures)
      BY <3>6, <3>7, <3>9
    <3> QED
      BY <1>1, <1>2, <2>1, <3>1, <3>5, <3>8, <3>9, <3>10
      DEF AskedFor, Signable, SizesAgree
  <2>7. Orderly(done)
    <3>1. ASSUME NEW w \in Wallets
          PROVE  Unasked(done, w) \/ AskedFor(done, w, done.onSigned[w])
      <4>1. CASE Asked(w) = {}
        BY <2>5, <4>1
      <4>2. CASE Asked(w) # {}
        <5>1. PICK j \in Asked(w) : TRUE
          BY <4>2
        <5>2. AskedFor(done, w, j)
          BY <2>6
        <5> QED
          BY <5>2 DEF AskedFor
      <4> QED
        BY <4>1, <4>2
    <3> QED
      BY <3>1, <2>1, <2>4 DEF Orderly, Signable
  <2>8. Safe(done)
    BY <1>4, <2>1, <2>4 DEF Signable, Sound, Safe, SlotsSound, Counted, HashKnown, Emissions, SizesAgree, SameSlots
  <2>9. Grown(t, done)
    <3>1. \A i \in K : t.signatures[i] = NoSig
      OBVIOUS
    <3> HIDE DEF K
    <3> QED BY <2>1, <2>4, <3>1 DEF Grown, SameSlots
  <2> QED
    BY <1>3, <2>1, <2>4, <2>7, <2>8, <2>9 DEF Signable, Sound, Posted, SizesAgree, SameSlots
<1> QED
  BY <1>7, <1>8

\* So do sign and partially_sign.
LEMMA SignAllSound ==
  ASSUME NEW t, Signable(t), NEW by \in SUBSET Signer,
         \A j \in Indices(t, by) : t.signatures[j] = NoSig
  PROVE  Sound(SignAll(t, Indices(t, by))) /\ Grown(t, SignAll(t, Indices(t, by)))
<1> DEFINE J == Indices(t, by)
           given == [t EXCEPT !.signers = GetSigners(t)]
           done == SignIndices(given, J)
<1>1. TxOK(t) /\ t.message # NoMessage
  BY DEF Signable, Sound, Safe, SizesAgree
<1>2. GetSigners(t) \in Seq(Signer \cup {Nil})
  BY <1>1, GetSignersType
<1>3. /\ TxOK(given) /\ given.signers = GetSigners(t) /\ SameWaiting(t, given)
      /\ given.message = t.message /\ given.signatures = t.signatures /\ given.ready = t.ready
      /\ given.hash = t.hash /\ given.ix = t.ix /\ given.deserialized = t.deserialized
      /\ given.crashed = t.crashed /\ given.claims = t.claims /\ given.sent = t.sent
      /\ given.pending_send = t.pending_send /\ given.supplied = t.supplied
  BY <1>1, <1>2 DEF TxOK, TxType, SameWaiting
<1>4. SignAll(t, J) = IF done.crashed THEN done ELSE CheckFullySigned(done)
  BY DEF SignAll
<1> HIDE DEF given
<1>5. Safe(given) /\ Posted(given) /\ SizesAgree(given)
  BY <1>3 DEF Signable, Sound, Safe, SlotsSound, Counted, HashKnown, Emissions, Posted, SizesAgree
<1>6. Orderly(given)
  <2>1. \A w \in Wallets : Unasked(t, w)
    BY <1>1, IdleUnasked DEF Signable, Sound
  <2> QED
    BY <2>1, <1>3 DEF Signable, Orderly, SameWaiting, Unasked, WalletIdle
<1>7. Signable(given)
  BY <1>3, <1>5, <1>6 DEF Signable, Sound, SameWaiting, WalletIdle
<1>8. given.signers = GetSigners(given)
  BY <1>3 DEF GetSigners
<1>9. J \in SUBSET (1 .. Amount(given.message)) /\ \A j \in J : given.signatures[j] = NoSig
  BY <1>3 DEF Indices
<1> HIDE DEF J
<1>10. Sound(done) /\ SizesAgree(done) /\ Grown(given, done)
  BY <1>7, <1>8, <1>9, SignIndicesSound
<1> HIDE DEF done
<1>11. Sound(CheckFullySigned(done)) /\ CheckFullySigned(done).signatures = done.signatures
  BY <1>10, CheckSound
<1> QED
  BY <1>3, <1>4, <1>10, <1>11 DEF J, Grown

\* The conditions under which a signing call is documented.
LEMMA SignCallSound ==
  ASSUME NEW t, Sound(t), SizesAgree(t), WalletIdle(t), ~t.pending_send,
         t.pending_blockhash \/ t.message.hash # NoHash, t.onSendReady = <<>>,
         NEW method \in {"sign", "partially_sign"}, NEW by \in SUBSET Signer,
         \A j \in Indices(t, by) : t.signatures[j] = NoSig
  PROVE  Sound(SignCall(t, method, by)) /\ Grown(t, SignCall(t, method, by))
<1>1. TxOK(t) /\ t.message # NoMessage
  BY DEF Sound, Safe, SizesAgree
<1>2. CASE ~t.pending_blockhash
  <2>1. Signable(t)
    BY <1>2 DEF Signable
  <2> QED
    BY <1>1, <1>2, <2>1, SignAllSound DEF SignCall
<1>3. CASE t.pending_blockhash
  <2> DEFINE calls == Append(t.onSendReady, [method |-> method, by |-> by])
             u == [t EXCEPT !.onSendReady = calls]
  <2>1. DOMAIN t.onSendReady = {}
    BY EmptySeq
  <2>2. SignCall(t, method, by) = u
    BY <1>1, <1>3, <2>1 DEF SignCall
  <2>3. calls \in Seq([method : {"sign", "partially_sign"}, by : SUBSET Signer]) /\ Len(calls) = 1
    <3>1. t.onSendReady \in Seq([method : {"sign", "partially_sign"}, by : SUBSET Signer]) /\ Len(t.onSendReady) = 0
      BY <1>1 DEF TxOK, TxType
    <3> QED
      BY <3>1, AppendProperties
  <2> HIDE DEF calls
  <2>4. /\ TxOK(u) /\ SameSlots(t, u) /\ u.onSendReady = calls
        /\ u.onSigned = t.onSigned /\ u.onFailed = t.onFailed /\ u.popup = t.popup
        /\ u.pending_blockhash = t.pending_blockhash /\ u.pending_send = t.pending_send
        /\ u.claims = t.claims /\ u.sent = t.sent
    BY <1>1, <2>3 DEF TxOK, TxType, SameSlots
  <2> HIDE DEF u
  <2>5. Safe(u) /\ Posted(u) /\ SizesAgree(u)
    BY <2>4 DEF Sound, Safe, SlotsSound, Counted, HashKnown, Emissions, SizesAgree, Posted, SameSlots
  <2>6. Orderly(u)
    <3>1. \A w \in Wallets : Unasked(t, w)
      BY <1>1, IdleUnasked DEF Sound
    <3>2. t.ready = 0
      BY <1>3 DEF Sound, Orderly
    <3> QED
      BY <1>3, <2>3, <2>4, <2>5, <3>1, <3>2 DEF Orderly, Unasked, WalletIdle, SameSlots
  <2> QED
    BY <2>2, <2>4, <2>5, <2>6 DEF Sound, Grown, SameSlots
<1> QED
  BY <1>2, <1>3

-----------------------------------------------------------------------------
(* Handlers. *)

\* A blockhash reaches a transaction nobody has signed.
LEMMA SetHashSound ==
  ASSUME NEW t, Sound(t), WalletIdle(t), t.ready = 0, NEW h \in Hashes
  PROVE  LET u == SetHash(t, h)
         IN /\ Sound(u) /\ SameWaiting(t, u) /\ u.ready = 0
            /\ u.pending_send = t.pending_send /\ u.signatures = t.signatures
            /\ SizesAgree(t) => SizesAgree(u) /\ u.message.hash # NoHash
<1> DEFINE m == IF t.message = NoMessage THEN t.message ELSE [t.message EXCEPT !.hash = h]
           u == [t EXCEPT !.hash = h, !.message = m]
<1>1. TxOK(t) /\ h # NoHash
  BY ConstantsAssumption DEF Sound, Safe
<1>2. SetHash(t, h) = u
  BY <1>1 DEF SetHash, TxOK, TxType
<1>3. TxOK(u)
  BY <1>1, <1>2, SetHashType
<1>4. t.message # NoMessage => m \in Message /\ m # NoMessage /\ m.hash = h /\ m.ix = t.message.ix
  BY <1>1, NullAssumption DEF TxOK, TxType, Message
<1>5. t.message = NoMessage => m = NoMessage
  OBVIOUS
<1> HIDE DEF m
<1>6. /\ u.message = m /\ u.hash = h /\ u.signatures = t.signatures /\ u.ready = t.ready /\ u.ix = t.ix
      /\ u.signers = t.signers /\ u.deserialized = t.deserialized /\ u.crashed = t.crashed
      /\ u.claims = t.claims /\ u.sent = t.sent /\ u.pending_send = t.pending_send
      /\ SameWaiting(t, u)
  BY <1>1 DEF TxOK, TxType, SameWaiting
<1> HIDE DEF u
<1>7. \A i \in DOMAIN t.signatures : t.signatures[i] = NoSig
  BY CountedZero DEF Sound, Safe
<1>8. SizesAgree(t) => SizesAgree(u) /\ u.message.hash # NoHash
  BY <1>1, <1>4, <1>6 DEF SizesAgree, Amount, SignersOf
<1>9. Safe(u)
  <2>1. SlotsSound(u)
    BY <1>4, <1>6, <1>7, <1>8 DEF Sound, Safe, SlotsSound, SizesAgree
  <2>2. HashKnown(u)
    BY <1>1, <1>4, <1>5, <1>6 DEF HashKnown
  <2> QED
    BY <1>3, <1>6, <2>1, <2>2 DEF Sound, Safe, Counted, Emissions
<1>10. Orderly(u)
  <2>1. \A w \in Wallets : Unasked(t, w)
    BY <1>1, IdleUnasked DEF Sound
  <2>2. \A w \in Wallets : Unasked(u, w)
    BY <2>1, <1>6 DEF Unasked, SameWaiting
  <2> QED
    BY <2>2, <1>6, <1>8 DEF Sound, Orderly, SameWaiting, WalletIdle
<1> QED
  BY <1>2, <1>6, <1>8, <1>9, <1>10 DEF Sound, Posted

\* The blockhash comes before any signature that was asked for with it.
LEMMA BlockhashCallbackSound ==
  ASSUME NEW t, Sound(t), t.pending_blockhash, NEW ok \in BOOLEAN, NEW h \in Hashes
  PROVE  Sound(BlockhashCallback(t, ok, h))
<1> DEFINE got == [t EXCEPT !.pending_blockhash = FALSE]
           set == [SetHash(got, h) EXCEPT !.onSendReady = <<>>]
           calls == t.onSendReady
           Run(u, i) == IF i \in DOMAIN calls THEN SignCall(u, calls[i].method, calls[i].by) ELSE u
<1>1. TxOK(t) /\ ~t.pending_send /\ t.ready = 0 /\ WalletIdle(t) /\ \A w \in Wallets : Unasked(t, w)
  BY IdleUnasked DEF Sound, Safe, Orderly
<1>2. /\ TxOK(got) /\ SameSlots(t, got) /\ got.onSendReady = calls
      /\ got.onSigned = t.onSigned /\ got.onFailed = t.onFailed /\ got.popup = t.popup
      /\ got.pending_blockhash = FALSE /\ got.pending_send = t.pending_send
      /\ got.claims = t.claims /\ got.sent = t.sent
  BY <1>1 DEF TxOK, TxType, SameSlots
<1>3. BlockhashCallback(t, ok, h) = IF ok THEN Run(Run(set, 1), 2) ELSE got
  BY DEF BlockhashCallback
<1> HIDE DEF got
<1>4. Sound(got) /\ WalletIdle(got) /\ got.ready = 0 /\ (calls # <<>> => SizesAgree(got))
  <2>1. Safe(got) /\ Posted(got)
    BY <1>2 DEF Sound, Safe, SlotsSound, Counted, HashKnown, Emissions, SizesAgree, Posted, SameSlots
  <2>2. calls # <<>> => SizesAgree(got)
    BY <1>2 DEF Sound, Orderly, SizesAgree, SameSlots
  <2>3. Orderly(got)
    BY <1>1, <1>2, <2>2 DEF Sound, Orderly, Unasked, WalletIdle, SameSlots
  <2> QED
    BY <1>1, <1>2, <2>1, <2>2, <2>3 DEF Sound, WalletIdle, SameSlots
<1> DEFINE hashed == SetHash(got, h)
<1>5. /\ Sound(hashed) /\ SameWaiting(got, hashed) /\ hashed.ready = 0
      /\ hashed.pending_send = got.pending_send
      /\ SizesAgree(got) => SizesAgree(hashed) /\ hashed.message.hash # NoHash
  BY <1>4, SetHashSound
<1> HIDE DEF hashed
<1>6. /\ TxOK(set) /\ SameSlots(hashed, set) /\ set.onSendReady = <<>>
      /\ set.onSigned = hashed.onSigned /\ set.onFailed = hashed.onFailed /\ set.popup = hashed.popup
      /\ set.pending_blockhash = hashed.pending_blockhash /\ set.pending_send = hashed.pending_send
      /\ set.claims = hashed.claims /\ set.sent = hashed.sent
  BY <1>5, EmptySeq DEF hashed, Sound, Safe, TxOK, TxType, SameSlots
<1> HIDE DEF set
<1>7. /\ Sound(set) /\ WalletIdle(set) /\ ~set.pending_send /\ ~set.pending_blockhash /\ set.ready = 0
      /\ calls # <<>> => SizesAgree(set) /\ set.message.hash # NoHash
  <2>1. Safe(set) /\ Posted(set)
    BY <1>5, <1>6 DEF Sound, Safe, SlotsSound, Counted, HashKnown, Emissions, SizesAgree, Posted, SameSlots
  <2>2. \A w \in Wallets : Unasked(set, w)
    BY <1>1, <1>2, <1>5, <1>6 DEF Unasked, SameWaiting
  <2>3. ~set.pending_send /\ ~set.pending_blockhash
    BY <1>1, <1>2, <1>5, <1>6 DEF SameWaiting
  <2>4. WalletIdle(set)
    BY <2>2 DEF WalletIdle, Unasked
  <2>5. Orderly(set)
    BY <1>6, <2>2, <2>3 DEF Orderly
  <2>6. calls # <<>> => SizesAgree(set) /\ set.message.hash # NoHash
    BY <1>4, <1>5, <1>6 DEF SizesAgree, SameSlots
  <2> QED
    BY <1>5, <1>6, <2>1, <2>3, <2>4, <2>5, <2>6 DEF Sound, SameSlots
<1>8. Sound(Run(set, 1))
  <2>1. CASE 1 \in DOMAIN calls
    <3>1. calls \in Seq([method : {"sign", "partially_sign"}, by : SUBSET Signer])
      BY <1>1 DEF TxOK, TxType
    <3>2. calls[1].method \in {"sign", "partially_sign"} /\ calls[1].by \in SUBSET Signer
      <4>1. calls[1] \in [method : {"sign", "partially_sign"}, by : SUBSET Signer]
        BY <2>1, <3>1, InDomain
      <4> QED BY <4>1
    <3>3. calls # <<>>
      BY <2>1, EmptySeq
    <3>4. \A j \in Indices(set, calls[1].by) : set.signatures[j] = NoSig
      <4>1. \A j \in DOMAIN set.signatures : set.signatures[j] = NoSig
        BY <1>7, CountedZero DEF Sound, Safe
      <4>2. DOMAIN set.signatures = 1 .. Amount(set.message)
        <5>1. set.signatures \in Slots /\ SizesAgree(set)
          BY <1>6, <1>7, <3>3 DEF TxOK, TxType
        <5> QED BY <5>1, SlotsElim DEF SizesAgree
      <4> QED
        BY <4>1, <4>2 DEF Indices
    <3> HIDE DEF calls
    <3>5. Sound(SignCall(set, calls[1].method, calls[1].by))
      BY <1>6, <1>7, <3>2, <3>3, <3>4, SignCallSound
    <3> QED
      BY <2>1, <3>5
  <2>2. CASE 1 \notin DOMAIN calls
    BY <2>2, <1>7
  <2> QED
    BY <2>1, <2>2
<1>9. 2 \notin DOMAIN calls
  <2>1. calls \in Seq([method : {"sign", "partially_sign"}, by : SUBSET Signer])
    BY <1>1 DEF TxOK, TxType
  <2>2. calls = <<>> \/ Len(calls) = 1
    BY DEF Sound, Orderly
  <2> QED
    BY <2>1, <2>2, EmptySeq, LenProperties
<1> QED
  BY <1>3, <1>4, <1>8, <1>9

\* The transaction a wallet signs: the slot is filled and counted, the wallet free.
LEMMA SignerSignedSound ==
  ASSUME NEW t, Sound(t), NEW w \in Wallets, t.onSigned[w] # 0 \/ t.onFailed[w] # 0,
         NEW p \in t.popup[w]
  PROVE  LET u == SignerSigned([t EXCEPT !.popup[w] = @ \ {p}], w, p, FALSE)
         IN Sound(u) /\ Grown(t, u)
<1> DEFINE i == t.onSigned[w]
           polled == [t EXCEPT !.popup[w] = @ \ {p}]
           dropped == [polled EXCEPT !.onSigned[w] = 0]
           sig == [by |-> w, over |-> p.msg]
           stored == [dropped EXCEPT !.onFailed[w] = 0, !.ready = @ + 1, !.signatures[i] = sig]
<1>1. TxOK(t) /\ AskedFor(t, w, i)
  BY DEF Sound, Safe, Orderly, Unasked
<1>2. /\ t.popup[w] = {p} /\ p \in Payload /\ p.msg = t.message /\ p.msg \in Message
      /\ ~WalletIdle(t) /\ i # 0
  <2>1. t.popup[w] = {p} /\ p \in Payload /\ p.msg = t.message
    BY <1>1 DEF AskedFor
  <2>2. p.msg \in Message
    BY <2>1 DEF Payload
  <2>3. t.signers \in Seq(Signer \cup {Nil})
    BY <1>1 DEF TxOK, TxType
  <2>4. i # 0
    BY <1>1, <2>3, LenProperties DEF AskedFor
  <2> QED
    BY <2>1, <2>2, <2>4 DEF WalletIdle
<1>3. ~t.pending_send /\ ~t.pending_blockhash /\ t.onSendReady = <<>> /\ t.sent = {}
  BY <1>2 DEF Sound, Orderly, Posted
<1>4. /\ t.signatures \in Slots /\ t.onSigned \in [Wallets -> Nat] /\ t.onFailed \in [Wallets -> Nat]
      /\ t.popup \in [Wallets -> SUBSET Payload] /\ t.ready \in Nat
  BY <1>1 DEF TxOK, TxType
<1> DEFINE sigs == [t.signatures EXCEPT ![i] = sig]
           ready == t.ready + 1
           popup == [t.popup EXCEPT ![w] = {}]
           onSigned == [t.onSigned EXCEPT ![w] = 0]
           onFailed == [t.onFailed EXCEPT ![w] = 0]
<1>5. sig \in Signature /\ sig = Valid(t.message, i) /\ sig # NoSig
  BY <1>1, <1>2, NullAssumption DEF Signature, Signer, Valid, AskedFor
<1>6. sigs \in Slots /\ DOMAIN sigs = DOMAIN t.signatures /\ Len(sigs) = Len(t.signatures)
  <2> HIDE DEF sig
  <2> QED BY <1>1, <1>4, <1>5, ExceptSeq, LenProperties DEF AskedFor, Slots
<1>7. \A k \in DOMAIN t.signatures : sigs[k] = IF k = i THEN sig ELSE t.signatures[k]
  BY <1>4 DEF Slots
<1>8. SignerSigned(polled, w, p, FALSE) = CheckFullySigned(stored)
  <2>1. /\ polled.onSigned[w] = i /\ polled.signers = t.signers /\ polled.signatures = t.signatures
        /\ t.signers[i] = w
    BY <1>1, <1>4 DEF TxOK, TxType, AskedFor
  <2>2. dropped.signatures = t.signatures
    BY <2>1 DEF TxOK, TxType
  <2> HIDE DEF polled
  <2>3. i \in DOMAIN polled.signers /\ polled.signers[i] \in Wallets
    BY <1>1, <2>1 DEF AskedFor
  <2>4. i \in DOMAIN dropped.signatures
    BY <1>1, <2>2 DEF AskedFor
  <2> QED
    BY <1>2, <2>1, <2>3, <2>4 DEF SignerSigned, TakeModified
<1> HIDE DEF sig
<1>9. stored = [t EXCEPT !.popup = popup, !.onSigned = onSigned, !.onFailed = onFailed,
                         !.ready = ready, !.signatures = sigs]
  <2>1. t.popup[w] \ {p} = {}
    BY <1>2
  <2> QED
    BY <1>1, <2>1 DEF TxOK, TxType
<1>10. /\ popup \in [Wallets -> SUBSET Payload] /\ onSigned \in [Wallets -> Nat]
       /\ onFailed \in [Wallets -> Nat] /\ ready \in Nat
  BY <1>4
<1>11. /\ popup[w] = {} /\ onSigned[w] = 0 /\ onFailed[w] = 0
       /\ \A v \in Wallets : v # w =>
            popup[v] = t.popup[v] /\ onSigned[v] = t.onSigned[v] /\ onFailed[v] = t.onFailed[v]
  BY <1>4
<1>12. ready = Ready(sigs)
  <2>1. t.ready = Ready(t.signatures)
    BY <1>1 DEF Sound, Safe, Counted, AskedFor, AllFilled
  <2>2. Cardinality({i}) = 1
    BY FS_Singleton
  <2>3. Ready(sigs) = Ready(t.signatures) + Cardinality({i})
    <3> HIDE DEF sigs
    <3> QED BY <1>1, <1>4, <1>5, <1>6, <1>7, ReadyAdds DEF AskedFor
  <2> QED
    BY <2>1, <2>2, <2>3
<1> HIDE DEF stored, sigs, popup, onSigned, onFailed, ready
<1>13. /\ TxOK(stored) /\ stored.popup = popup /\ stored.onSigned = onSigned /\ stored.onFailed = onFailed
       /\ stored.ready = ready /\ stored.signatures = sigs
       /\ stored.message = t.message /\ stored.signers = t.signers /\ stored.ix = t.ix
       /\ stored.hash = t.hash /\ stored.deserialized = t.deserialized /\ stored.crashed = t.crashed
       /\ stored.claims = t.claims /\ stored.sent = t.sent /\ stored.pending_send = t.pending_send
       /\ stored.pending_blockhash = t.pending_blockhash /\ stored.onSendReady = t.onSendReady
  <2>1. t.message # NoMessage
    BY <1>1 DEF AskedFor, SizesAgree
  <2> QED
    BY <1>1, <1>6, <1>9, <1>10, <2>1 DEF TxOK, TxType
<1>14. SizesAgree(stored)
  BY <1>1, <1>6, <1>13 DEF AskedFor, SizesAgree
<1>15. Safe(stored)
  <2>1. t.signatures # <<>> /\ t.message.hash # NoHash
    BY <1>1, EmptySeq DEF AskedFor
  <2>2. \A k \in DOMAIN sigs : sigs[k] # NoSig =>
          t.message.hash # NoHash /\ sigs[k] = Valid(t.message, k)
    BY <1>5, <1>6, <1>7, <2>1 DEF Sound, Safe, SlotsSound
  <2>3. SlotsSound(stored)
    BY <1>13, <1>14, <2>1, <2>2 DEF Sound, Safe, SlotsSound
  <2> QED
    BY <1>12, <1>13, <2>3 DEF Sound, Safe, Counted, HashKnown, Emissions
<1>16. Orderly(stored)
  <2>1. ASSUME NEW v \in Wallets
        PROVE  Unasked(stored, v) \/ AskedFor(stored, v, stored.onSigned[v])
    <3>1. CASE v = w
      BY <3>1, <1>11, <1>13 DEF Unasked
    <3>2. CASE v # w /\ Unasked(t, v)
      BY <3>2, <1>11, <1>13 DEF Unasked
    <3>3. CASE v # w /\ AskedFor(t, v, t.onSigned[v])
      <4>1. t.onSigned[v] # i
        BY <1>1, <3>3 DEF AskedFor
      <4> QED
        BY <1>6, <1>7, <1>11, <1>13, <1>14, <3>3, <4>1 DEF AskedFor
    <3> QED
      BY <3>1, <3>2, <3>3 DEF Sound, Orderly
  <2> QED
    BY <1>3, <1>13, <2>1 DEF Orderly
<1>17. Sound(stored)
  BY <1>3, <1>13, <1>15, <1>16 DEF Sound, Posted
<1>18. Grown(t, CheckFullySigned(stored))
  <2>1. CheckFullySigned(stored).signatures = sigs
    BY <1>13, <1>14, <1>17, CheckSound
  <2> QED
    BY <1>1, <1>7, <2>1 DEF Grown, AskedFor
<1> QED
  BY <1>8, <1>14, <1>17, <1>18, CheckSound

\* What _signer_signed does with a signature for its own slot.
LEMMA StoresSigned ==
  ASSUME NEW t, NEW w, NEW new, NEW changed,
         t.onSigned[w] # 0, t.onSigned[w] \in DOMAIN t.signers,
         t.signers[t.onSigned[w]] \in Wallets,
         t.onSigned[w] \in DOMAIN TakeModified([t EXCEPT !.onSigned[w] = 0], new, changed).signatures
  PROVE  SignerSigned(t, w, new, changed) =
           CheckFullySigned([TakeModified([t EXCEPT !.onSigned[w] = 0], new, changed) EXCEPT
                               !.onFailed[t.signers[t.onSigned[w]]] = 0, !.ready = @ + 1,
                               !.signatures[t.onSigned[w]] = [by |-> w, over |-> new.msg]])
BY DEF SignerSigned

\* The transaction a wallet modified and signed, being its only signer: it is full,
\* and the counter runs past its one slot.
LEMMA SignerModifiedSound ==
  ASSUME NEW t, Sound(t), NEW w \in Wallets, t.onSigned[w] # 0 \/ t.onFailed[w] # 0,
         NEW p \in t.popup[w], Amount(p.msg) = 1
  PROVE  LET m == [p.msg EXCEPT !.fee = AlteredFee]
             new == [msg |-> m, sigs |-> [p.sigs EXCEPT ![t.onSigned[w]] = [by |-> w, over |-> m]]]
             u == SignerSigned([t EXCEPT !.popup[w] = @ \ {p}], w, new, TRUE)
         IN Sound(u) /\ Grown(t, u)
<1> DEFINE m == [p.msg EXCEPT !.fee = AlteredFee]
           i == t.onSigned[w]
           sig == [by |-> w, over |-> m]
           new == [msg |-> m, sigs |-> [p.sigs EXCEPT ![i] = sig]]
           polled == [t EXCEPT !.popup[w] = @ \ {p}]
           dropped == [polled EXCEPT !.onSigned[w] = 0]
           taken == [dropped EXCEPT !.ix = 0, !.message = new.msg, !.supplied = {}, !.signatures = new.sigs,
                          !.ready = @ + Ready(new.sigs), !.deserialized = TRUE]
           loaded == CheckFullySigned(taken)
           stored == [loaded EXCEPT !.onFailed[w] = 0, !.ready = @ + 1, !.signatures[i] = sig]
<1>1. TxOK(t) /\ AskedFor(t, w, i)
  BY DEF Sound, Safe, Orderly, Unasked
<1>2. t.popup[w] = {p} /\ p \in Payload /\ p.msg = t.message /\ Len(p.sigs) = Len(t.signatures)
  BY <1>1 DEF AskedFor
<1>3. /\ p.msg \in Message /\ p.sigs \in Slots /\ t.signatures \in Slots
      /\ t.signers \in Seq(Signer \cup {Nil})
  BY <1>1, <1>2 DEF Payload, TxOK, TxType
<1>4. i = 1 /\ DOMAIN t.signatures = {1} /\ Len(t.signatures) = 1 /\ Len(p.sigs) = 1
      /\ DOMAIN p.sigs = {1} /\ SignersOf(p.msg)[1] = w /\ 1 \in DOMAIN t.signers /\ t.signers[1] = w
      /\ t.signatures[1] = NoSig /\ t.message.hash # NoHash
  <2>1. DOMAIN t.signatures = 1 .. 1 /\ DOMAIN p.sigs = 1 .. 1 /\ Len(t.signatures) = 1
    BY <1>1, <1>2, <1>3, SlotsElim DEF AskedFor, SizesAgree
  <2>2. i = 1
    BY <1>1, <2>1 DEF AskedFor
  <2> QED
    BY <1>1, <1>2, <2>1, <2>2 DEF AskedFor
<1>5. /\ m \in Message /\ m # NoMessage /\ m.ix = p.msg.ix /\ m.hash = p.msg.hash
  <2>1. AlteredFee \in 0 .. AlteredFee
    BY ConstantsAssumption DEF AlteredFee
  <2> QED
    BY <1>3, <2>1, NullAssumption DEF Message
<1>6. SignersOf(m) = SignersOf(p.msg) /\ Amount(m) = 1
  BY <1>5 DEF SignersOf, Amount
<1> HIDE DEF m
<1>7. sig \in Signature /\ sig = Valid(m, 1) /\ sig # NoSig
  BY <1>4, <1>5, <1>6, NullAssumption DEF Signature, Signer, Valid
<1> HIDE DEF sig
<1> DEFINE sigs == [p.sigs EXCEPT ![i] = sig]
<1>8. sigs \in Slots /\ Len(sigs) = 1 /\ DOMAIN sigs = {1} /\ sigs[1] = sig /\ [sigs EXCEPT ![i] = sig] = sigs
  <2>1. sigs \in Seq(Signature \cup {NoSig}) /\ Len(sigs) = 1 /\ sigs[1] = sig
    BY <1>3, <1>4, <1>7, ExceptSeq DEF Slots
  <2> HIDE DEF sigs
  <2>2. DOMAIN sigs = {1} /\ sigs = [k \in DOMAIN sigs |-> sigs[k]]
    BY <2>1, LenProperties
  <2>3. [sigs EXCEPT ![i] = sig] = sigs
    BY <1>4, <2>1, <2>2
  <2> QED
    BY <2>1, <2>2, <2>3 DEF Slots
<1> HIDE DEF sigs
<1>9. Ready(sigs) = 1
  <2>1. {k \in DOMAIN sigs : sigs[k] # NoSig} = {1}
    BY <1>7, <1>8
  <2> QED
    BY <2>1, FS_Singleton DEF Ready
<1>10. t.ready = 0
  <2>1. Ready(t.signatures) = 0
    BY <1>4, NoneReady
  <2> QED
    BY <1>4, <2>1 DEF Sound, Safe, Counted, AllFilled
<1>11. ~t.pending_send /\ ~t.pending_blockhash /\ t.onSendReady = <<>> /\ t.sent = {}
  BY <1>4 DEF Sound, Orderly, Posted, WalletIdle
<1>12. \A v \in Wallets : v # w => Unasked(t, v)
  BY <1>4 DEF Sound, Orderly, AskedFor
<1>13. new.msg = m /\ new.sigs = sigs
  BY DEF sigs
<1> HIDE DEF new
<1> DEFINE popup == [t.popup EXCEPT ![w] = {}]
           onSigned == [t.onSigned EXCEPT ![w] = 0]
           onFailed == [t.onFailed EXCEPT ![w] = 0]
<1>14. /\ popup \in [Wallets -> SUBSET Payload] /\ onSigned \in [Wallets -> Nat]
       /\ onFailed \in [Wallets -> Nat]
       /\ \A v \in Wallets : popup[v] = {} /\ onSigned[v] = 0 /\ onFailed[v] = 0
  BY <1>1, <1>12 DEF TxOK, TxType, Unasked
<1>15. taken = [t EXCEPT !.popup = popup, !.onSigned = onSigned, !.ix = 0, !.message = m, !.supplied = {},
                         !.signatures = sigs, !.ready = 1, !.deserialized = TRUE]
  <2>1. polled = [t EXCEPT !.popup = popup]
    <3>1. t.popup[w] \ {p} = {}
      BY <1>2
    <3> QED BY <1>1, <3>1 DEF TxOK, TxType
  <2>2. dropped = [t EXCEPT !.popup = popup, !.onSigned = onSigned]
    <3> HIDE DEF popup, polled
    <3> QED BY <1>1, <2>1 DEF TxOK, TxType
  <2>3. dropped.ready + Ready(new.sigs) = 1
    <3>1. dropped.ready = t.ready
      <4> HIDE DEF popup, onSigned, dropped
      <4> QED BY <1>1, <2>2 DEF TxOK, TxType
    <3> QED BY <3>1, <1>9, <1>10, <1>13
  <2> HIDE DEF popup, onSigned, dropped, sigs, new
  <2>4. taken = [dropped EXCEPT !.ix = 0, !.message = m, !.supplied = {}, !.signatures = sigs,
                                !.ready = 1, !.deserialized = TRUE]
    BY <1>1, <1>13, <2>2, <2>3 DEF TxOK, TxType
  <2> QED
    BY <1>1, <2>2, <2>4 DEF TxOK, TxType
<1> HIDE DEF taken, popup, onSigned, onFailed
<1>16. /\ taken.popup = popup /\ taken.onSigned = onSigned /\ taken.onFailed = t.onFailed
       /\ taken.message = m /\ taken.signatures = sigs /\ taken.ready = 1 /\ taken.deserialized = TRUE
       /\ taken.signers = t.signers /\ taken.hash = t.hash /\ taken.crashed = t.crashed
       /\ taken.claims = t.claims /\ taken.sent = t.sent /\ taken.pending_send = t.pending_send
       /\ taken.pending_blockhash = t.pending_blockhash /\ taken.onSendReady = t.onSendReady
  BY <1>1, <1>15 DEF TxOK, TxType
<1>17. TxOK(taken)
  <2>1. 0 \in 0 .. Len(SignerList) /\ {} \in SUBSET Signer /\ 1 \in Nat
    BY ConstantsAssumption, LenProperties
  <2> QED
    BY <1>1, <1>5, <1>8, <1>14, <1>15, <1>16, <2>1 DEF TxOK, TxType
<1>18. SizesAgree(taken) /\ Full(taken)
  BY <1>5, <1>6, <1>7, <1>8, <1>16 DEF SizesAgree, Full, AllFilled
<1>19. Safe(taken) /\ Posted(taken)
  <2>1. m.hash # NoHash
    BY <1>2, <1>4, <1>5
  <2>2. SlotsSound(taken)
    BY <1>7, <1>8, <1>16, <1>18, <2>1 DEF SlotsSound
  <2>3. Counted(taken) /\ HashKnown(taken)
    BY <1>9, <1>16, <2>1 DEF Counted, HashKnown
  <2> QED
    BY <1>16, <1>17, <2>2, <2>3 DEF Sound, Safe, Emissions, Posted
<1>20. loaded = EmitFullySigned(taken)
  BY <1>8, <1>16 DEF CheckFullySigned
<1>21. Safe(loaded) /\ Posted(loaded) /\ SameSlots(taken, loaded) /\ SameWaiting(taken, loaded)
  BY <1>18, <1>19, <1>20, EmitSound
<1>22. SignerSigned(polled, w, new, TRUE) = CheckFullySigned(stored)
  <2>1. polled.onSigned[w] = i /\ polled.signers = t.signers
    BY <1>1 DEF TxOK, TxType
  <2>2. loaded = FromBytes(dropped, new)
    BY DEF FromBytes, taken
  <2>3. loaded.signatures = sigs
    BY <1>16, <1>21 DEF SameSlots
  <2>4. sig = [by |-> w, over |-> new.msg]
    BY <1>13 DEF sig
  <2> HIDE DEF polled, dropped, loaded
  <2>5. TakeModified([polled EXCEPT !.onSigned[w] = 0], new, TRUE) = loaded
    BY <2>2 DEF TakeModified, dropped
  <2>6. /\ polled.onSigned[w] = 1 /\ polled.signers[1] = w
        /\ 1 \in DOMAIN polled.signers /\ 1 \in DOMAIN loaded.signatures
    BY <2>1, <2>3, <1>4, <1>8
  <2>7. SignerSigned(polled, w, new, TRUE) =
          CheckFullySigned([loaded EXCEPT !.onFailed[w] = 0, !.ready = @ + 1,
                                          !.signatures[1] = [by |-> w, over |-> new.msg]])
    <3> DEFINE given == [polled EXCEPT !.onSigned[w] = 0]
    <3>1. TakeModified(given, new, TRUE) = loaded
      BY <2>5
    <3>2. SignerSigned(polled, w, new, TRUE) =
            CheckFullySigned([TakeModified(given, new, TRUE) EXCEPT
                                !.onFailed[polled.signers[polled.onSigned[w]]] = 0, !.ready = @ + 1,
                                !.signatures[polled.onSigned[w]] = [by |-> w, over |-> new.msg]])
      <4>1. /\ polled.onSigned[w] # 0 /\ polled.onSigned[w] \in DOMAIN polled.signers
            /\ polled.signers[polled.onSigned[w]] \in Wallets
        BY <2>6
      <4>2. polled.onSigned[w] \in DOMAIN TakeModified([polled EXCEPT !.onSigned[w] = 0], new, TRUE).signatures
        BY <2>5, <2>6
      <4> QED BY <4>1, <4>2, StoresSigned
    <3> HIDE DEF given
    <3> QED
      BY <2>6, <3>1, <3>2
  <2>8. stored = [loaded EXCEPT !.onFailed[w] = 0, !.ready = @ + 1,
                                !.signatures[1] = [by |-> w, over |-> new.msg]]
    BY <2>4, <1>4
  <2> HIDE DEF stored
  <2> QED
    BY <2>7, <2>8
<1> HIDE DEF loaded
<1>23. stored = [loaded EXCEPT !.onFailed = onFailed, !.ready = 2]
  <2>1. loaded.onFailed = t.onFailed /\ loaded.ready = 1 /\ loaded.signatures = sigs
    BY <1>16, <1>21 DEF SameSlots, SameWaiting
  <2>2. stored = [loaded EXCEPT !.onFailed = onFailed, !.ready = 2, !.signatures = sigs]
    <3>1. /\ [loaded.onFailed EXCEPT ![w] = 0] = onFailed /\ loaded.ready + 1 = 2
          /\ [loaded.signatures EXCEPT ![i] = sig] = sigs
      BY <1>8, <2>1 DEF onFailed
    <3>2. stored = [loaded EXCEPT !.onFailed = [loaded.onFailed EXCEPT ![w] = 0],
                                  !.ready = loaded.ready + 1,
                                  !.signatures = [loaded.signatures EXCEPT ![i] = sig]]
      BY <1>21 DEF Safe, TxOK, TxType
    <3> HIDE DEF stored
    <3> QED BY <3>1, <3>2
  <2> QED
    BY <1>21, <2>1, <2>2 DEF Safe, TxOK, TxType
<1> HIDE DEF stored
<1>24. /\ TxOK(stored) /\ stored.onFailed = onFailed /\ stored.ready = 2
       /\ stored.popup = popup /\ stored.onSigned = onSigned
       /\ stored.signatures = sigs /\ stored.message = m /\ stored.hash = loaded.hash
       /\ stored.deserialized = TRUE /\ stored.crashed = loaded.crashed
       /\ stored.claims = loaded.claims /\ stored.sent = loaded.sent
       /\ stored.pending_send = loaded.pending_send
       /\ ~stored.pending_blockhash /\ stored.onSendReady = <<>>
  <2>1. /\ stored.onFailed = onFailed /\ stored.ready = 2
        /\ stored.popup = loaded.popup /\ stored.onSigned = loaded.onSigned
        /\ stored.signatures = loaded.signatures /\ stored.message = loaded.message
        /\ stored.hash = loaded.hash
        /\ stored.deserialized = loaded.deserialized /\ stored.crashed = loaded.crashed
        /\ stored.claims = loaded.claims /\ stored.sent = loaded.sent
        /\ stored.pending_send = loaded.pending_send
        /\ stored.pending_blockhash = loaded.pending_blockhash /\ stored.onSendReady = loaded.onSendReady
    BY <1>21, <1>23 DEF Safe, TxOK, TxType
  <2>2. TxOK(stored)
    BY <1>14, <1>21, <1>23, <2>1 DEF Safe, TxOK, TxType
  <2> QED
    BY <1>11, <1>16, <1>21, <2>1, <2>2 DEF SameSlots, SameWaiting
<1>25. Safe(stored) /\ Posted(stored) /\ SizesAgree(stored)
  <2>1. SizesAgree(stored) /\ SlotsSound(stored)
    BY <1>16, <1>18, <1>19, <1>24 DEF Safe, SlotsSound, SizesAgree
  <2>2. Counted(stored)
    <3>1. AllFilled(sigs)
      BY <1>7, <1>8 DEF AllFilled
    <3> QED
      <4>1. stored.ready = 2 /\ stored.signatures = sigs /\ Len(sigs) = 1
        BY <1>8, <1>24
      <4>2. stored.ready > Len(stored.signatures)
        BY <4>1
      <4> QED BY <3>1, <4>1, <4>2 DEF Counted
  <2>3. HashKnown(stored)
    BY <1>16, <1>21, <1>24 DEF Safe, HashKnown, SameSlots
  <2> QED
    BY <1>21, <1>24, <2>1, <2>2, <2>3 DEF Safe, Emissions, Posted
<1>26. Orderly(stored)
  BY <1>14, <1>24 DEF Orderly, Unasked, WalletIdle
<1>27. CheckFullySigned(stored) = stored
  BY <1>8, <1>24 DEF CheckFullySigned
<1>28. Sound(SignerSigned(polled, w, new, TRUE))
  BY <1>22, <1>25, <1>26, <1>27 DEF Sound
<1>29. Grown(t, SignerSigned(polled, w, new, TRUE))
  BY <1>4 DEF Grown
<1> QED
  BY <1>28, <1>29 DEF new, sig, m

\* A wallet that fails is free again.
LEMMA SignerFailedSound ==
  ASSUME NEW t, Sound(t), NEW w \in Wallets, t.onSigned[w] # 0 \/ t.onFailed[w] # 0,
         NEW p \in t.popup[w]
  PROVE  LET v == SignerFailed([t EXCEPT !.popup[w] = @ \ {p}], w)
         IN Sound(v) /\ Grown(t, v)
<1> DEFINE i == t.onSigned[w]
           polled == [t EXCEPT !.popup[w] = @ \ {p}]
           popup == [t.popup EXCEPT ![w] = {}]
           onSigned == [t.onSigned EXCEPT ![w] = 0]
           onFailed == [t.onFailed EXCEPT ![w] = 0]
           u == [t EXCEPT !.popup = popup, !.onSigned = onSigned, !.onFailed = onFailed]
<1>1. TxOK(t) /\ AskedFor(t, w, i) /\ t.onFailed[w] = i /\ t.popup[w] = {p} /\ t.signers[i] = w
  BY DEF Sound, Safe, Orderly, Unasked, AskedFor
<1>2. SignerFailed(polled, w) = u
  <2>1. polled = [t EXCEPT !.popup = popup]
    <3>1. t.popup[w] \ {p} = {}
      BY <1>1
    <3> QED BY <1>1, <3>1 DEF TxOK, TxType
  <2>2. polled.onFailed = t.onFailed /\ polled.signers = t.signers /\ polled.onSigned = t.onSigned
    BY <1>1 DEF TxOK, TxType
  <2> HIDE DEF polled, popup
  <2>3. i \in DOMAIN polled.signers /\ polled.signers[i] = w /\ polled.onFailed[w] = i
    BY <1>1, <2>2 DEF AskedFor
  <2>4. SignerFailed(polled, w) = [[polled EXCEPT !.onFailed[w] = 0] EXCEPT !.onSigned[w] = 0]
    BY <2>3 DEF SignerFailed
  <2> QED
    BY <1>1, <2>1, <2>4 DEF TxOK, TxType
<1>3. /\ popup \in [Wallets -> SUBSET Payload] /\ onSigned \in [Wallets -> Nat]
      /\ onFailed \in [Wallets -> Nat]
      /\ popup[w] = {} /\ onSigned[w] = 0 /\ onFailed[w] = 0
      /\ \A v \in Wallets : v # w =>
           popup[v] = t.popup[v] /\ onSigned[v] = t.onSigned[v] /\ onFailed[v] = t.onFailed[v]
  BY <1>1 DEF TxOK, TxType
<1> HIDE DEF popup, onSigned, onFailed
<1>4. /\ TxOK(u) /\ SameSlots(t, u) /\ u.popup = popup /\ u.onSigned = onSigned /\ u.onFailed = onFailed
      /\ u.claims = t.claims /\ u.sent = t.sent /\ u.pending_send = t.pending_send
      /\ u.pending_blockhash = t.pending_blockhash /\ u.onSendReady = t.onSendReady
  BY <1>1, <1>3 DEF TxOK, TxType, SameSlots
<1> HIDE DEF u
<1>5. Safe(u) /\ Posted(u)
  BY <1>4 DEF Sound, Safe, SlotsSound, Counted, HashKnown, Emissions, SizesAgree, Posted, SameSlots
<1>6. ~WalletIdle(t)
  BY DEF WalletIdle
<1>7. \A v \in Wallets : Unasked(u, v) \/ AskedFor(u, v, u.onSigned[v])
  <2> SUFFICES ASSUME NEW v \in Wallets PROVE Unasked(u, v) \/ AskedFor(u, v, u.onSigned[v])
    OBVIOUS
  <2>1. CASE v = w
    BY <2>1, <1>3, <1>4 DEF Unasked
  <2>2. CASE v # w
    <3>1. /\ u.onSigned[v] = t.onSigned[v] /\ u.onFailed[v] = t.onFailed[v] /\ u.popup[v] = t.popup[v]
      BY <2>2, <1>3, <1>4
    <3>2. Unasked(t, v) => Unasked(u, v)
      BY <3>1 DEF Unasked
    <3>3. AskedFor(t, v, t.onSigned[v]) => AskedFor(u, v, u.onSigned[v])
      BY <3>1, <1>4 DEF AskedFor, SameSlots, SizesAgree
    <3> QED
      BY <3>2, <3>3 DEF Sound, Orderly
  <2> QED
    BY <2>1, <2>2
<1>8. Orderly(u)
  BY <1>4, <1>6, <1>7 DEF Sound, Orderly
<1> QED
  BY <1>2, <1>4, <1>5, <1>8 DEF Sound, Grown, SameSlots

-----------------------------------------------------------------------------
(* Building the message. *)

\* What an edit changes besides the message is reset.
LEMMA ResetSound ==
  ASSUME NEW t, Sound(t), Quiet(t), ~t.deserialized,
         NEW v, TxOK(v), SameWaiting(t, v), v.message = t.message, v.hash = t.hash,
         v.deserialized = t.deserialized, v.crashed = t.crashed, v.pending_send = t.pending_send,
         v.claims = t.claims, v.sent = t.sent
  PROVE  LET u == ResetState(v)
         IN Sound(u) /\ SameWaiting(t, u) /\ Quiet(u) /\ ~u.deserialized /\ u.ready = 0
<1> DEFINE u == ResetState(v)
<1>1. TxOK(u)
  BY ResetStateType
<1>2. /\ u.signatures = <<>> /\ u.ready = 0 /\ SameWaiting(t, u)
      /\ u.message = t.message /\ u.hash = t.hash /\ u.deserialized = t.deserialized
      /\ u.crashed = t.crashed /\ u.pending_send = t.pending_send
      /\ u.claims = t.claims /\ u.sent = t.sent
  BY DEF ResetState, TxOK, TxType, SameWaiting
<1> HIDE DEF u
<1>3. Counted(u)
  <2>1. \A i \in DOMAIN u.signatures : u.signatures[i] = NoSig
    BY <1>2, EmptySeq
  <2> QED
    BY <1>2, <2>1, NoneReady DEF Counted
<1>4. Safe(u) /\ Posted(u)
  BY <1>1, <1>2, <1>3, EmptySeq DEF Sound, Safe, SlotsSound, HashKnown, Emissions, Posted
<1>5. \A w \in Wallets : Unasked(t, w)
  BY IdleUnasked DEF Sound, Safe, Quiet
<1>6. Orderly(u) /\ Quiet(u)
  BY <1>2, <1>5 DEF Orderly, Quiet, SameWaiting, Unasked, WalletIdle
<1> QED
  BY <1>2, <1>4, <1>6 DEF Sound, u

\* An edit of an unsigned transaction.
LEMMA CreateMessageSound ==
  ASSUME NEW t, Sound(t), Quiet(t), ~t.deserialized, t.ready = 0
  PROVE  LET u == CreateMessage(t)
         IN Sound(u) /\ SameWaiting(t, u) /\ u.ready = 0
<1> DEFINE m == [ix |-> t.ix, fee |-> t.fee, hash |-> t.hash]
           built == [t EXCEPT !.message = m,
                              !.supplied = Inline \cup (@ \ {SignersOf(m)[1]})]
           blank == [built EXCEPT !.ready = 0, !.signatures = Blank(Amount(m))]
           u == CreateMessage(t)
           Built(v) ==
             /\ SameWaiting(t, v) /\ v.ready = 0 /\ v.hash = t.hash /\ v.ix = t.ix
             /\ v.crashed = t.crashed /\ v.deserialized = t.deserialized
             /\ v.pending_send = t.pending_send /\ v.claims = t.claims /\ v.sent = t.sent
<1>1. TxOK(t) /\ TxOK(u)
  BY CreateMessageType DEF Sound, Safe
<1>2. \A w \in Wallets : Unasked(t, w)
  BY IdleUnasked DEF Sound, Safe, Quiet
<1>3. ASSUME NEW v, Built(v) PROVE Orderly(v) /\ Posted(v)
  BY <1>2, <1>3 DEF Sound, Orderly, Quiet, SameWaiting, Unasked, WalletIdle, Posted
<1>4. CASE t.ix = 0 \/ ~t.payer
  <2>1. u = [t EXCEPT !.signatures = <<>>]
    BY <1>4 DEF CreateMessage
  <2>2. Built(u) /\ u.message = t.message /\ u.signatures = <<>>
    BY <1>1, <2>1 DEF TxOK, TxType, SameWaiting
  <2> HIDE DEF u
  <2>3. Counted(u)
    <3>1. \A i \in DOMAIN u.signatures : u.signatures[i] = NoSig
      BY <2>2, EmptySeq
    <3> QED BY <2>2, <3>1, NoneReady DEF Counted
  <2>4. Safe(u)
    BY <1>1, <2>2, <2>3, EmptySeq DEF Sound, Safe, SlotsSound, HashKnown, Emissions
  <2> QED
    BY <1>3, <2>2, <2>4 DEF Sound, u
<1>5. CASE ~(t.ix = 0 \/ ~t.payer)
  <2>1. m \in Message /\ m # NoMessage /\ m.ix = t.ix /\ m.hash = t.hash
    <3>1. t.ix \in DOMAIN SignerList
      BY <1>1, <1>5, ConstantsAssumption, LenProperties DEF TxOK, TxType
    <3>2. t.fee \in 0 .. AlteredFee /\ t.hash \in Hashes \cup {NoHash}
      BY <1>1, ConstantsAssumption DEF TxOK, TxType, AlteredFee
    <3>3. m \in Message
      BY <3>1, <3>2 DEF Message
    <3> QED
      BY <3>3, NullAssumption
  <2>2. u = IF Len(t.signers) = Amount(m) THEN built ELSE blank
    BY <1>5 DEF CreateMessage
  <2> HIDE DEF m
  <2>3. Built(built) /\ built.message = m /\ built.signatures = t.signatures
    BY <1>1 DEF TxOK, TxType, SameWaiting
  <2>4. Built(blank) /\ blank.message = m /\ blank.signatures = Blank(Amount(m))
    <3> DEFINE slots == Blank(Amount(m))
    <3> HIDE DEF slots
    <3> QED BY <1>1 DEF TxOK, TxType, SameWaiting, slots
  <2>5. \A i \in DOMAIN t.signatures : t.signatures[i] = NoSig
    BY CountedZero DEF Sound, Safe
  <2>6. Amount(m) \in Nat /\ Len(Blank(Amount(m))) = Amount(m) /\ Blank(Amount(m)) \in Slots
    <3>1. Amount(m) \in Nat
      BY <2>1, SignersType
    <3> DEFINE n == Amount(m)
    <3> HIDE DEF n
    <3>2. n \in Nat => Blank(n) \in Slots /\ DOMAIN Blank(n) = 1 .. n
      BY BlankType DEF Blank
    <3>3. n \in Nat => Len(Blank(n)) = n
      BY <3>2, SlotsElim
    <3> QED BY <3>1, <3>2, <3>3 DEF n
  <2>7. \A i \in DOMAIN Blank(Amount(m)) : Blank(Amount(m))[i] = NoSig
    BY DEF Blank
  <2>8. t.signatures = <<>> \/ Len(t.signatures) = Amount(m)
    BY <2>1 DEF Sound, Safe, SlotsSound, SizesAgree, Amount, SignersOf
  <2> HIDE DEF u, built, blank
  <2>9. /\ Built(u) /\ u.message = m /\ u.signatures \in {t.signatures, Blank(Amount(m))}
    BY <2>2, <2>3, <2>4
  <2>10. \A i \in DOMAIN u.signatures : u.signatures[i] = NoSig
    BY <2>5, <2>7, <2>9
  <2>11. Counted(u)
    BY <2>9, <2>10, NoneReady DEF Counted
  <2>12. SlotsSound(u)
    <3>1. u.signatures = <<>> \/ SizesAgree(u)
      BY <2>1, <2>6, <2>8, <2>9 DEF SizesAgree
    <3> QED
      BY <2>1, <2>9, <2>10, <3>1 DEF SlotsSound
  <2>13. Safe(u)
    BY <1>1, <2>1, <2>9, <2>11, <2>12 DEF Sound, Safe, HashKnown, Emissions
  <2> QED
    BY <1>3, <2>9, <2>13 DEF Sound, u
<1> QED
  BY <1>4, <1>5

-----------------------------------------------------------------------------
(* The steps of the object. *)

\* The object as a step finds it is sound, unless a send is out.
LEMMA NowSound ==
  ASSUME OrderInv
  PROVE  /\ TxOK(Now) /\ SameSlots(tx, Now) /\ SameWaiting(tx, Now)
         /\ Now.claims = {} /\ Now.sent = {} /\ Now.pending_send = tx.pending_send
         /\ Safe(Now) /\ Orderly(Now) /\ (~tx.pending_send => Sound(Now))
<1>1. TxOK(tx)
  BY DEF OrderInv, Safe
<1>2. /\ TxOK(Now) /\ SameSlots(tx, Now) /\ SameWaiting(tx, Now)
      /\ Now.claims = {} /\ Now.sent = {} /\ Now.pending_send = tx.pending_send
  BY <1>1 DEF Now, TxOK, TxType, SameSlots, SameWaiting
<1>3. Safe(Now)
  BY <1>2 DEF OrderInv, Safe, SlotsSound, Counted, HashKnown, Emissions, SizesAgree, SameSlots
<1>4. Orderly(Now)
  BY <1>2 DEF OrderInv, Orderly, Unasked, AskedFor, SizesAgree, SameSlots, SameWaiting, WalletIdle
<1> QED
  BY <1>2, <1>3, <1>4 DEF Sound, Posted

\* A step loses no signature over the same message but by taking the counter to zero.
KeepsSignatures ==
  tx'.message = tx.message /\ tx'.ready # 0 =>
    \A i \in DOMAIN tx.signatures \cap DOMAIN tx'.signatures :
      tx.signatures[i] = NoSig \/ tx'.signatures[i] = tx.signatures[i]

\* A step that only fills slots loses no signature.
LEMMA GrownKeeps ==
  ASSUME OrderInv, Grown(Now, tx') \/ tx.ready = 0 \/ tx'.ready = 0
  PROVE  KeepsSignatures
<1>1. Now.signatures = tx.signatures
  BY NowSound DEF SameSlots
<1>2. tx.ready = 0 => \A i \in DOMAIN tx.signatures : tx.signatures[i] = NoSig
  BY CountedZero DEF OrderInv, Safe
<1> QED
  BY <1>1, <1>2 DEF KeepsSignatures, Grown

\* A call that leaves a sound object leaves a sound state.
LEMMA LocalOrder ==
  ASSUME OrderInv, NEW new, Sound(new), Local(new), ~tx.pending_send,
         new.pending_blockhash = tx.pending_blockhash
  PROVE  OrderInv' /\ tx' = new
<1>1. tx' = new /\ rpc' = [rpc EXCEPT !.send = @ + Requests(new)]
  BY DEF Local, Step
<1>2. rpc \in [{"blockhash", "send"} -> Nat] /\ rpc.send = 0
  BY DEF OrderInv, TypeOK
<1>3. Requests(new) = IF new.pending_send THEN 1 ELSE 0
  BY DEF Sound, Posted, Requests
<1>4. Requests(new) \in Nat
  BY DEF Requests
<1>5. /\ rpc' \in [{"blockhash", "send"} -> Nat]
      /\ rpc'.send = Requests(new) /\ rpc'.blockhash = rpc.blockhash
  BY <1>1, <1>2, <1>4
<1>6. TypeOK' /\ Safe(tx)' /\ Orderly(tx)'
  BY <1>1, <1>5 DEF Sound, Safe, TypeOK, TxOK
<1> QED
  BY <1>1, <1>3, <1>5, <1>6 DEF OrderInv

\* The calls that edit the transaction.
LEMMA EditsOrder ==
  ASSUME OrderInv, InOrder, SetPayer \/ AddInstruction \/ SetInstructions \/ SetUnitPrice
  PROVE  OrderInv' /\ KeepsSignatures
<1>1. "edit" \in Documented /\ "price" \in Documented
  BY DEF InOrder, Kinds
<1>2. Quiet(tx) /\ ~tx.deserialized
  BY <1>1 DEF SetPayer, AddInstruction, SetInstructions, SetUnitPrice, MayEdit, MayPrice
<1>3. /\ TxOK(Now) /\ Sound(Now) /\ Quiet(Now) /\ ~Now.deserialized /\ ~tx.pending_send
      /\ Now.pending_blockhash = tx.pending_blockhash
  BY <1>2, NowSound DEF Quiet, SameSlots, SameWaiting, WalletIdle
<1> DEFINE Edited(v) ==
             /\ TxOK(v) /\ SameWaiting(Now, v) /\ v.message = Now.message /\ v.hash = Now.hash
             /\ v.deserialized = Now.deserialized /\ v.crashed = Now.crashed
             /\ v.pending_send = Now.pending_send /\ v.claims = Now.claims /\ v.sent = Now.sent
<1>4. ASSUME NEW v, Edited(v), Local(CreateMessage(ResetState(v)))
      PROVE  OrderInv' /\ KeepsSignatures
  <2> DEFINE r == ResetState(v)
             u == CreateMessage(r)
  <2>1. Sound(r) /\ SameWaiting(Now, r) /\ Quiet(r) /\ ~r.deserialized /\ r.ready = 0
    BY <1>3, <1>4, ResetSound
  <2> HIDE DEF r
  <2>2. Sound(u) /\ SameWaiting(r, u) /\ u.ready = 0
    BY <2>1, CreateMessageSound
  <2>3. Local(u)
    BY <1>4 DEF r
  <2> HIDE DEF u
  <2>4. u.pending_blockhash = tx.pending_blockhash
    BY <1>3, <2>1, <2>2 DEF SameWaiting
  <2>5. OrderInv' /\ tx' = u
    BY <1>3, <2>2, <2>3, <2>4, LocalOrder
  <2> QED
    BY <2>2, <2>5, GrownKeeps
<1>5. CASE SetPayer
  <2> DEFINE v == [Now EXCEPT !.payer = TRUE]
  <2>1. Edited(v)
    BY <1>3 DEF TxOK, TxType, SameWaiting
  <2> HIDE DEF v
  <2> QED
    BY <1>2, <1>4, <1>5, <2>1 DEF SetPayer, v
<1>6. CASE AddInstruction
  <2> DEFINE v == [Now EXCEPT !.ix = @ + 1]
  <2>1. Now.ix + 1 \in 0 .. Len(SignerList)
    <3>1. Now.ix = tx.ix
      BY NowSound DEF SameSlots
    <3> QED
      BY <1>3, <1>6, <3>1, ConstantsAssumption, LenProperties DEF AddInstruction, TxOK, TxType
  <2>2. Edited(v)
    BY <1>3, <2>1 DEF TxOK, TxType, SameWaiting
  <2> HIDE DEF v
  <2> QED
    BY <1>4, <1>6, <2>2 DEF AddInstruction, v
<1>7. CASE SetInstructions
  <2> DEFINE v == [Now EXCEPT !.ix = 0]
  <2>1. Edited(v)
    <3>1. 0 \in 0 .. Len(SignerList)
      BY ConstantsAssumption, LenProperties
    <3> QED BY <1>3, <3>1 DEF TxOK, TxType, SameWaiting
  <2> HIDE DEF v
  <2> QED
    BY <1>4, <1>7, <2>1 DEF SetInstructions, v
<1>8. CASE SetUnitPrice
  <2> DEFINE v == [Now EXCEPT !.fee = @ + 1]
             u == CreateMessage(v)
  <2>1. Now.fee = tx.fee /\ tx.fee < MaxFee /\ tx.ready = 0
    <3>1. Now.fee = tx.fee
      BY DEF Now, OrderInv, Safe, TxOK, TxType
    <3> QED
      BY <1>1, <1>8, <3>1 DEF SetUnitPrice, MayPrice, Unsigned
  <2>2. Now.fee + 1 \in 0 .. MaxFee
    BY <1>3, <2>1, ConstantsAssumption DEF TxOK, TxType
  <2>3. Edited(v) /\ SameSlots(Now, v)
    BY <1>3, <2>2 DEF TxOK, TxType, SameWaiting, SameSlots
  <2>4. Local(u)
    BY <1>8 DEF SetUnitPrice
  <2> HIDE DEF v
  <2>5. Sound(v) /\ Quiet(v) /\ ~v.deserialized /\ v.ready = 0
    <3>1. Safe(v) /\ Posted(v)
      BY <1>3, <2>3 DEF Sound, Safe, SlotsSound, Counted, HashKnown, Emissions, SizesAgree, Posted, SameSlots
    <3>2. Orderly(v)
      BY <1>3, <2>3, SameOrderly DEF Sound
    <3>3. v.ready = 0
      BY <2>1, <2>3, NowSound DEF SameSlots
    <3> QED
      BY <1>3, <2>3, <3>1, <3>2, <3>3 DEF Sound, Quiet, SameWaiting, WalletIdle
  <2>6. Sound(u) /\ SameWaiting(v, u) /\ u.ready = 0
    BY <2>5, CreateMessageSound
  <2> HIDE DEF u
  <2>7. u.pending_blockhash = tx.pending_blockhash
    BY <1>3, <2>3, <2>6 DEF SameWaiting
  <2>8. OrderInv' /\ tx' = u
    BY <1>3, <2>4, <2>6, <2>7, LocalOrder
  <2> QED
    BY <2>6, <2>8, GrownKeeps
<1> QED
  BY <1>5, <1>6, <1>7, <1>8

\* The calls before signing, and send.
LEMMA OtherCallsOrder ==
  ASSUME OrderInv, InOrder,
         SetSigners \/ UpdateLatestBlockhash \/ SetBlockhash \/ Send
  PROVE  OrderInv' /\ KeepsSignatures
<1>1. Kinds = Documented
  BY DEF InOrder
<1>2. /\ TxOK(Now) /\ Safe(Now) /\ Orderly(Now) /\ SameSlots(tx, Now) /\ SameWaiting(tx, Now)
      /\ Now.pending_send = tx.pending_send /\ Now.sent = {} /\ Now.claims = {}
      /\ (~tx.pending_send => Sound(Now))
  BY NowSound
<1>3. CASE SetSigners
  <2>1. Quiet(tx)
    BY <1>1, <1>3 DEF SetSigners, Kinds
  <2>2. PICK known, s : Local([Now EXCEPT !.supplied = @ \cup known, !.signers = s])
                          /\ known \in SUBSET Signer /\ s \in Seq(Signer \cup {Nil})
    <3>1. PICK S \in SUBSET Signer :
            LET known == IF tx.message = NoMessage THEN {} ELSE S \cap {SignersOf(tx.message)[i] : i \in 1 .. Amount(tx.message)}
            IN \E s \in [1 .. Cardinality(S) -> S] :
                 Local([Now EXCEPT !.supplied = @ \cup known, !.signers = s])
      BY <1>3 DEF SetSigners
    <3> DEFINE known == IF tx.message = NoMessage THEN {} ELSE S \cap {SignersOf(tx.message)[i] : i \in 1 .. Amount(tx.message)}
    <3>2. PICK s \in [1 .. Cardinality(S) -> S] : Local([Now EXCEPT !.supplied = @ \cup known, !.signers = s])
      BY <3>1
    <3>3. known \in SUBSET Signer
      OBVIOUS
    <3>4. s \in Seq(Signer \cup {Nil})
      <4>1. Cardinality(S) \in Nat
        BY ConstantsAssumption, FS_Subset, FS_CardinalityType
      <4> QED BY <4>1, SeqDef
    <3> HIDE DEF known
    <3> QED BY <3>2, <3>3, <3>4
  <2> DEFINE u == [Now EXCEPT !.supplied = @ \cup known, !.signers = s]
  <2>3. /\ TxOK(u) /\ SameWaiting(Now, u) /\ u.message = Now.message /\ u.signatures = Now.signatures
        /\ u.ready = Now.ready /\ u.hash = Now.hash /\ u.ix = Now.ix /\ u.deserialized = Now.deserialized
        /\ u.crashed = Now.crashed /\ u.pending_send = Now.pending_send
        /\ u.claims = Now.claims /\ u.sent = Now.sent
    BY <1>2, <2>2 DEF TxOK, TxType, SameWaiting
  <2>4. Local(u)
    BY <2>2
  <2> HIDE DEF u
  <2>5. Safe(u) /\ Posted(u)
    BY <1>2, <2>1, <2>3 DEF Quiet, Safe, SlotsSound, Counted, HashKnown, Emissions, SizesAgree, Posted
  <2>6. Orderly(u)
    <3>1. \A w \in Wallets : Unasked(Now, w)
      BY <1>2, <2>1, IdleUnasked DEF Quiet, SameWaiting, WalletIdle
    <3> QED
      BY <1>2, <2>1, <2>3, <3>1 DEF Orderly, Quiet, SameWaiting, Unasked, WalletIdle
  <2>7. OrderInv' /\ tx' = u
    BY <1>2, <2>1, <2>3, <2>4, <2>5, <2>6, LocalOrder DEF Sound, Quiet, SameWaiting
  <2> QED
    BY <2>3, <2>7, GrownKeeps DEF Grown
<1>4. CASE UpdateLatestBlockhash
  <2> DEFINE u == [Now EXCEPT !.pending_blockhash = TRUE]
  <2>1. WalletIdle(tx) /\ ~tx.pending_send /\ ~tx.pending_blockhash /\ tx.ready = 0
    BY <1>1, <1>4 DEF UpdateLatestBlockhash, MayFetch, Kinds, Unsigned
  <2>2. tx' = u /\ rpc' = [rpc EXCEPT !.blockhash = @ + 1]
    BY <1>4 DEF UpdateLatestBlockhash, Step
  <2>3. /\ TxOK(u) /\ SameSlots(Now, u) /\ u.pending_blockhash = TRUE
        /\ u.onSigned = Now.onSigned /\ u.onFailed = Now.onFailed /\ u.popup = Now.popup
        /\ u.onSendReady = Now.onSendReady /\ u.pending_send = Now.pending_send
        /\ u.claims = Now.claims /\ u.sent = Now.sent
    BY <1>2 DEF TxOK, TxType, SameSlots
  <2> HIDE DEF u
  <2>4. Safe(u)
    BY <1>2, <2>3 DEF Safe, SlotsSound, Counted, HashKnown, Emissions, SizesAgree, SameSlots
  <2>5. Orderly(u)
    <3>1. \A w \in Wallets : Unasked(Now, w)
      BY <1>2, <2>1, IdleUnasked DEF SameWaiting, WalletIdle
    <3> QED
      BY <1>2, <2>1, <2>3, <3>1 DEF Orderly, SameSlots, SameWaiting, Unasked, WalletIdle, SizesAgree
  <2>6. rpc \in [{"blockhash", "send"} -> Nat] /\ rpc.blockhash = 0 /\ rpc.send = 0
    BY <2>1 DEF OrderInv, TypeOK
  <2>7. rpc' \in [{"blockhash", "send"} -> Nat] /\ rpc'.blockhash = 1 /\ rpc'.send = 0
    BY <2>2, <2>6
  <2>8. OrderInv'
    <3>1. u.pending_send = FALSE /\ u.pending_blockhash = TRUE
      BY <1>2, <2>1, <2>3 DEF TxOK, TxType
    <3>2. TypeOK'
      BY <2>2, <2>4, <2>7 DEF TypeOK, Safe, TxOK
    <3> QED
      BY <2>2, <2>4, <2>5, <2>7, <3>1, <3>2 DEF OrderInv
  <2> QED
    BY <2>1, <2>8, GrownKeeps
<1>5. CASE SetBlockhash
  <2>1. WalletIdle(tx) /\ ~tx.pending_send /\ ~tx.pending_blockhash /\ tx.ready = 0
    BY <1>1, <1>5 DEF SetBlockhash, MayFetch, Kinds, Unsigned
  <2>2. PICK h \in Hashes : Local(SetHash(Now, h))
    BY <1>5 DEF SetBlockhash
  <2> DEFINE u == SetHash(Now, h)
  <2>3. Sound(u) /\ SameWaiting(Now, u)
    BY <1>2, <2>1, SetHashSound DEF SameSlots, SameWaiting, WalletIdle
  <2> HIDE DEF u
  <2>4. OrderInv'
    BY <1>2, <2>1, <2>2, <2>3, LocalOrder DEF SameWaiting, u
  <2> QED
    BY <2>1, <2>4, GrownKeeps
<1>6. CASE Send
  <2> DEFINE u == SendTx(Now)
  <2>1. /\ SizesAgree(tx) /\ ~tx.pending_send /\ Local(u)
        /\ tx.pending_blockhash \/ tx.ready = Len(tx.signatures)
    BY <1>1, <1>6 DEF Send, MaySend, Kinds
  <2>2. SizesAgree(Now)
    BY <1>2, <2>1 DEF SameSlots, SizesAgree
  <2>3. Now.pending_blockhash \/ Full(Now)
    <3>1. Now.ready = Len(Now.signatures) => Full(Now)
      BY <1>2, <2>2, CountedFull DEF Safe, Full
    <3> QED
      BY <1>2, <2>1, <3>1 DEF SameSlots, SameWaiting
  <2>4. /\ Safe(u) /\ Posted(u) /\ SameSlots(Now, u) /\ SameWaiting(Now, u)
        /\ u.pending_send => Now.pending_send \/ Full(Now)
    BY <1>2, <2>1, <2>3, SendTxSound DEF Sound
  <2> HIDE DEF u
  <2>5. Full(Now) => WalletIdle(Now) /\ ~Now.pending_blockhash
    BY <1>2, <2>1, FullIsIdle, FullIsSigned DEF Sound, Orderly
  <2>6. Orderly(u)
    BY <1>2, <2>1, <2>4, <2>5, SameOrderly
  <2>7. OrderInv' /\ tx' = u
    BY <1>2, <2>1, <2>4, <2>6, LocalOrder DEF Sound, SameWaiting
  <2> QED
    BY <2>4, <2>7, GrownKeeps DEF Grown, SameSlots
<1> QED
  BY <1>3, <1>4, <1>5, <1>6

\* The calls that sign.
LEMMA SigningOrder ==
  ASSUME OrderInv, InOrder, Sign \/ PartiallySign \/ SignAndSend
  PROVE  OrderInv' /\ KeepsSignatures
<1>1. /\ TxOK(Now) /\ Safe(Now) /\ Orderly(Now) /\ SameSlots(tx, Now) /\ SameWaiting(tx, Now)
      /\ Now.pending_send = tx.pending_send /\ Now.sent = {} /\ Now.claims = {}
      /\ (~tx.pending_send => Sound(Now))
  BY NowSound
<1>2. PICK by \in SUBSET Signer, method \in {"sign", "partially_sign"},
           t \in {Now, [Now EXCEPT !.sendOnFullySigned = TRUE]} :
        MaySign(tx, by) /\ Local(SignCall(t, method, by))
  <2>1. CASE Sign
    BY <2>1 DEF Sign
  <2>2. CASE PartiallySign
    BY <2>2 DEF PartiallySign
  <2>3. CASE SignAndSend
    <3>1. SizesAgree(tx)
      BY <2>3 DEF SignAndSend, MaySign, InOrder, Kinds
    <3>2. Local(SignCall([Now EXCEPT !.sendOnFullySigned = TRUE], "sign", Signer))
      BY <2>3, <3>1 DEF SignAndSend
    <3> QED
      BY <2>3, <3>2 DEF SignAndSend
  <2> QED
    BY <2>1, <2>2, <2>3
<1>3. /\ SizesAgree(tx) /\ ~tx.pending_send /\ tx.onSendReady = <<>> /\ WalletIdle(tx)
      /\ tx.hash # NoHash \/ tx.pending_blockhash
      /\ \A j \in Indices(tx, by) : tx.signatures[j] = NoSig
  BY <1>2 DEF MaySign, InOrder, Kinds
<1>4. /\ TxOK(t) /\ SameSlots(Now, t) /\ SameWaiting(Now, t) /\ t.pending_send = Now.pending_send
      /\ t.claims = Now.claims /\ t.sent = Now.sent
  BY <1>1, <1>2 DEF TxOK, TxType, SameSlots, SameWaiting
<1>5. Sound(t)
  <2>1. Safe(t) /\ Posted(t)
    BY <1>1, <1>3, <1>4 DEF Sound, Safe, SlotsSound, Counted, HashKnown, Emissions, SizesAgree, Posted, SameSlots
  <2>2. Orderly(t)
    BY <1>1, <1>4, SameOrderly
  <2> QED BY <2>1, <2>2 DEF Sound
<1>6. /\ SizesAgree(t) /\ WalletIdle(t) /\ ~t.pending_send /\ t.onSendReady = <<>>
      /\ \A j \in Indices(t, by) : t.signatures[j] = NoSig
  BY <1>1, <1>3, <1>4 DEF SameSlots, SameWaiting, SizesAgree, WalletIdle, Indices
<1>7. t.pending_blockhash \/ t.message.hash # NoHash
  BY <1>1, <1>3, <1>4 DEF SameSlots, SameWaiting, SizesAgree, Safe, HashKnown
<1> DEFINE u == SignCall(t, method, by)
<1>8. Sound(u) /\ Grown(t, u)
  BY <1>5, <1>6, <1>7, SignCallSound
<1>9. Follows(t, u)
  BY <1>4, SignCallType
<1> HIDE DEF u
<1>10. u.pending_blockhash = tx.pending_blockhash
  BY <1>1, <1>4, <1>9 DEF Follows, SameWaiting
<1>11. OrderInv' /\ tx' = u
  BY <1>2, <1>3, <1>8, <1>10, LocalOrder DEF u
<1> QED
  BY <1>4, <1>8, <1>11, GrownKeeps DEF Grown, SameSlots

\* The answers of the node.
LEMMA AnswerOrder ==
  ASSUME OrderInv, NEW kind \in {"blockhash", "send"}, Answer(kind)
  PROVE  OrderInv' /\ KeepsSignatures
<1>1. /\ TxOK(Now) /\ Safe(Now) /\ Orderly(Now) /\ SameSlots(tx, Now) /\ SameWaiting(tx, Now)
      /\ Now.pending_send = tx.pending_send /\ Now.sent = {} /\ Now.claims = {}
      /\ (~tx.pending_send => Sound(Now))
  BY NowSound
<1>2. rpc \in [{"blockhash", "send"} -> Nat] /\ rpc[kind] > 0
  BY DEF OrderInv, TypeOK, Answer
<1>3. /\ rpc.send = (IF tx.pending_send THEN 1 ELSE 0)
      /\ rpc.blockhash = (IF tx.pending_blockhash THEN 1 ELSE 0)
      /\ Orderly(tx) /\ TxOK(tx)
  BY DEF OrderInv, Safe
<1>4. CASE kind = "blockhash"
  <2>1. tx.pending_blockhash /\ ~tx.pending_send /\ rpc.blockhash = 1 /\ rpc.send = 0 /\ tx.ready = 0
    BY <1>2, <1>3, <1>4 DEF Orderly
  <2>2. PICK ok \in BOOLEAN, h \in Hashes :
          LET new == HttpRequestCompleted(Now, ok, h, "not_a_signature")
          IN Step(new) /\ rpc' = [[rpc EXCEPT !.blockhash = @ - 1] EXCEPT !.send = @ + Requests(new)]
    BY <1>4 DEF Answer
  <2> DEFINE new == BlockhashCallback(Now, ok, h)
  <2>3. HttpRequestCompleted(Now, ok, h, "not_a_signature") = new
    BY <1>1, <2>1 DEF HttpRequestCompleted, SameWaiting
  <2>4. Sound(new) /\ TxOK(new) /\ ~new.pending_blockhash
    BY <1>1, <2>1, BlockhashCallbackSound, BlockhashCallbackType DEF SameWaiting
  <2> HIDE DEF new
  <2>5. tx' = new /\ rpc' = [[rpc EXCEPT !.blockhash = @ - 1] EXCEPT !.send = @ + Requests(new)]
    BY <2>2, <2>3 DEF Step
  <2>6. Requests(new) = (IF new.pending_send THEN 1 ELSE 0) /\ Requests(new) \in Nat
    BY <2>4 DEF Sound, Posted, Requests
  <2>7. /\ rpc' \in [{"blockhash", "send"} -> Nat]
        /\ rpc'.send = Requests(new) /\ rpc'.blockhash = 0
    <3> DEFINE left == [rpc EXCEPT !.blockhash = @ - 1]
    <3>1. left \in [{"blockhash", "send"} -> Nat] /\ left.blockhash = 0 /\ left.send = 0
      BY <1>2, <2>1
    <3>2. rpc' = [left EXCEPT !.send = @ + Requests(new)]
      BY <2>5
    <3> HIDE DEF left
    <3> QED
      BY <2>6, <3>1, <3>2
  <2>8. TypeOK'
    BY <2>4, <2>5, <2>7 DEF TypeOK, TxOK
  <2>9. OrderInv'
    BY <2>4, <2>5, <2>6, <2>7, <2>8 DEF OrderInv, Sound
  <2> QED
    BY <2>1, <2>9, GrownKeeps
<1>5. CASE kind = "send"
  <2>1. tx.pending_send /\ ~tx.pending_blockhash /\ rpc.blockhash = 0 /\ rpc.send = 1
    BY <1>2, <1>3, <1>5 DEF Orderly
  <2>2. PICK ok \in BOOLEAN :
          LET new == HttpRequestCompleted(Now, ok, NoHash, "signature")
          IN Step(new) /\ rpc' = [[rpc EXCEPT !.send = @ - 1] EXCEPT !.send = @ + Requests(new)]
    BY <1>5 DEF Answer
  <2> DEFINE new == SendCallback(Now, ok, "signature")
  <2>3. /\ TxOK(new) /\ SameSlots(Now, new) /\ SameWaiting(Now, new)
        /\ new.pending_send = FALSE /\ new.claims = Now.claims /\ new.sent = Now.sent
    <3> DEFINE res == IF ok THEN "signature" ELSE Now.result
    <3>1. new = [Now EXCEPT !.pending_send = FALSE, !.result = res]
      BY <1>1 DEF SendCallback, TxOK, TxType
    <3>2. res \in {"none", "signature", "not_a_signature"}
      BY <1>1 DEF TxOK, TxType
    <3> HIDE DEF res
    <3> QED
      BY <1>1, <3>1, <3>2 DEF TxOK, TxType, SameSlots, SameWaiting
  <2>4. HttpRequestCompleted(Now, ok, NoHash, "signature") = new
    BY <1>1, <2>1, <2>3 DEF HttpRequestCompleted, SameWaiting
  <2> HIDE DEF new
  <2>5. Safe(new)
    BY <1>1, <2>3 DEF Safe, SlotsSound, Counted, HashKnown, Emissions, SizesAgree, SameSlots
  <2>6. Orderly(new)
    BY <1>1, <2>3, SameOrderly
  <2>7. Requests(new) = 0
    BY <1>1, <2>3 DEF Requests
  <2>8. tx' = new /\ rpc' = [[rpc EXCEPT !.send = @ - 1] EXCEPT !.send = @ + Requests(new)]
    BY <2>2, <2>4 DEF Step
  <2>9. rpc' \in [{"blockhash", "send"} -> Nat] /\ rpc'.send = 0 /\ rpc'.blockhash = 0
    <3> DEFINE left == [rpc EXCEPT !.send = @ - 1]
    <3>1. left \in [{"blockhash", "send"} -> Nat] /\ left.blockhash = 0 /\ left.send = 0
      BY <1>2, <2>1
    <3>2. rpc' = [left EXCEPT !.send = @ + Requests(new)]
      BY <2>8
    <3> HIDE DEF left
    <3> QED
      BY <2>7, <3>1, <3>2
  <2>10. new.pending_blockhash = FALSE
    BY <1>1, <1>3, <2>1, <2>3 DEF SameWaiting, TxOK, TxType
  <2>11. OrderInv'
    <3>1. TypeOK'
      BY <2>3, <2>8, <2>9 DEF TypeOK, TxOK
    <3> QED
      BY <2>3, <2>5, <2>6, <2>8, <2>9, <2>10, <3>1 DEF OrderInv
  <2>12. Grown(Now, tx')
    BY <2>3, <2>8 DEF Grown, SameSlots
  <2> QED
    BY <2>11, <2>12, GrownKeeps
<1> QED
  BY <1>4, <1>5

\* The answers of a wallet.
LEMMA WalletOrder ==
  ASSUME OrderInv, InOrder, NEW w \in Wallets, WalletSigns(w) \/ WalletFails(w)
  PROVE  OrderInv' /\ KeepsSignatures
<1>1. /\ TxOK(Now) /\ SameWaiting(tx, Now) /\ Orderly(Now)
      /\ Now.pending_send = tx.pending_send /\ (~tx.pending_send => Sound(Now))
  BY NowSound
<1>2. tx.onSigned[w] # 0 \/ tx.onFailed[w] # 0
  BY DEF WalletSigns, WalletFails
<1>3. ~tx.pending_send /\ ~WalletIdle(Now)
  BY <1>1, <1>2 DEF OrderInv, Orderly, WalletIdle, SameWaiting
<1>4. Sound(Now) /\ (Now.onSigned[w] # 0 \/ Now.onFailed[w] # 0)
  BY <1>1, <1>2, <1>3 DEF SameWaiting
<1>5. Now.onSigned = tx.onSigned /\ Now.popup = tx.popup
  BY <1>1 DEF SameWaiting
<1>6. ASSUME NEW p \in Now.popup[w]
      PROVE  p \in Payload /\ TxOK([Now EXCEPT !.popup[w] = @ \ {p}])
             /\ Follows(Now, [Now EXCEPT !.popup[w] = @ \ {p}])
  BY <1>1 DEF TxOK, TxType, Follows
<1>7. ASSUME NEW u, Sound(u), Grown(Now, u), Follows(Now, u), Local(u)
      PROVE  OrderInv' /\ KeepsSignatures
  <2>1. u.pending_blockhash = tx.pending_blockhash
    BY <1>1, <1>7 DEF Follows, SameWaiting
  <2>2. OrderInv' /\ tx' = u
    BY <1>3, <1>7, <2>1, LocalOrder
  <2> QED
    BY <1>7, <2>2, GrownKeeps
<1>8. CASE \E p \in Now.popup[w] : Local(SignerSigned([Now EXCEPT !.popup[w] = @ \ {p}], w, p, FALSE))
  <2>1. PICK p \in Now.popup[w] : Local(SignerSigned([Now EXCEPT !.popup[w] = @ \ {p}], w, p, FALSE))
    BY <1>8
  <2> DEFINE polled == [Now EXCEPT !.popup[w] = @ \ {p}]
             u == SignerSigned(polled, w, p, FALSE)
  <2>2. Sound(u) /\ Grown(Now, u)
    BY <1>4, SignerSignedSound
  <2>3. Follows(Now, u)
    <3>1. p \in Payload /\ TxOK(polled) /\ Follows(Now, polled)
      BY <1>6
    <3> HIDE DEF polled
    <3> QED
      BY <3>1, SignerSignedType, FollowsTransitive
  <2> HIDE DEF u
  <2> QED
    BY <1>7, <2>1, <2>2, <2>3 DEF u
<1>9. CASE \E p \in Now.popup[w] :
             LET i == Now.onSigned[w]
                 m == [p.msg EXCEPT !.fee = AlteredFee]
                 new == [msg |-> m, sigs |-> [p.sigs EXCEPT ![i] = [by |-> w, over |-> m]]]
             IN /\ Amount(p.msg) <= MaxAltered /\ i \in DOMAIN p.sigs
                /\ Local(SignerSigned([Now EXCEPT !.popup[w] = @ \ {p}], w, new, TRUE))
  <2>1. PICK p \in Now.popup[w] :
             LET i == Now.onSigned[w]
                 m == [p.msg EXCEPT !.fee = AlteredFee]
                 new == [msg |-> m, sigs |-> [p.sigs EXCEPT ![i] = [by |-> w, over |-> m]]]
             IN /\ Amount(p.msg) <= MaxAltered /\ i \in DOMAIN p.sigs
                /\ Local(SignerSigned([Now EXCEPT !.popup[w] = @ \ {p}], w, new, TRUE))
    BY <1>9
  <2> DEFINE polled == [Now EXCEPT !.popup[w] = @ \ {p}]
             m == [p.msg EXCEPT !.fee = AlteredFee]
             new == [msg |-> m, sigs |-> [p.sigs EXCEPT ![Now.onSigned[w]] = [by |-> w, over |-> m]]]
             u == SignerSigned(polled, w, new, TRUE)
  <2>2. p \in Payload /\ TxOK(polled) /\ Follows(Now, polled)
    BY <1>6
  <2>3. Amount(p.msg) = 1
    <3>1. Amount(p.msg) \in Nat \ {0}
      BY <2>2, SignersType DEF Payload
    <3> QED
      BY <2>1, <3>1, ConstantsAssumption DEF InOrder
  <2>4. Sound(u) /\ Grown(Now, u)
    BY <1>4, <2>3, SignerModifiedSound
  <2>5. new \in Payload
    <3>1. p.msg \in Message /\ p.sigs \in Slots /\ Now.onSigned[w] \in 1 .. Len(p.sigs)
      BY <2>1, <2>2, SlotsElim DEF Payload
    <3>2. m \in Message
      <4>1. AlteredFee \in 0 .. AlteredFee
        BY ConstantsAssumption DEF AlteredFee
      <4> QED
        BY <3>1, <4>1 DEF Message
    <3> HIDE DEF m
    <3>3. [by |-> w, over |-> m] \in Signature
      BY <3>2 DEF Signature, Signer
    <3>4. [p.sigs EXCEPT ![Now.onSigned[w]] = [by |-> w, over |-> m]] \in Slots
      BY <3>1, <3>3, ExceptSeq DEF Slots
    <3> QED
      BY <3>2, <3>4 DEF Payload
  <2>6. Local(u)
    BY <2>1
  <2> HIDE DEF polled, new
  <2>7. Follows(Now, u)
    BY <2>2, <2>5, SignerSignedType, FollowsTransitive
  <2> HIDE DEF u
  <2> QED
    BY <1>7, <2>4, <2>6, <2>7
<1>10. CASE \E p \in Now.popup[w] : Local(SignerFailed([Now EXCEPT !.popup[w] = @ \ {p}], w))
  <2>1. PICK p \in Now.popup[w] : Local(SignerFailed([Now EXCEPT !.popup[w] = @ \ {p}], w))
    BY <1>10
  <2> DEFINE polled == [Now EXCEPT !.popup[w] = @ \ {p}]
             u == SignerFailed(polled, w)
  <2>2. Sound(u) /\ Grown(Now, u)
    BY <1>4, SignerFailedSound
  <2>3. Follows(Now, u)
    <3>1. TxOK(polled) /\ Follows(Now, polled)
      BY <1>6
    <3> HIDE DEF polled
    <3> QED
      BY <3>1, SignerFailedType, FollowsTransitive
  <2> HIDE DEF u
  <2> QED
    BY <1>7, <2>1, <2>2, <2>3 DEF u
<1> QED
  BY <1>5, <1>8, <1>9, <1>10 DEF WalletSigns, WalletFails

-----------------------------------------------------------------------------
(* Initial states. *)

\* An object that was just made is sound.
LEMMA NewSound ==
  Sound(New) /\ WalletIdle(New) /\ ~New.pending_send /\ ~New.pending_blockhash
  /\ ~New.sendOnFullySigned /\ New.ready = 0 /\ New.onSendReady = <<>>
<1>1. TxOK(New)
  BY NewType
<1>2. /\ New.message = NoMessage /\ New.signatures = <<>> /\ New.ready = 0 /\ New.claims = {}
      /\ New.sent = {} /\ New.onSendReady = <<>> /\ ~New.pending_send /\ ~New.pending_blockhash
      /\ ~New.crashed /\ ~New.sendOnFullySigned
      /\ \A w \in Wallets : New.onSigned[w] = 0 /\ New.onFailed[w] = 0 /\ New.popup[w] = {}
  BY DEF New
<1>3. Ready(New.signatures) = 0
  BY <1>2, NoneReady, EmptySeq
<1>4. Safe(New)
  BY <1>1, <1>2, <1>3, EmptySeq DEF Safe, SlotsSound, Counted, HashKnown, Emissions
<1> QED
  BY <1>2, <1>4 DEF Sound, Orderly, Posted, Unasked, WalletIdle

\* A transaction loaded from the bytes other parties signed.
LEMMA LoadedSound ==
  ASSUME NEW p \in Payload, p.msg.hash # NoHash, Len(p.sigs) = Amount(p.msg),
         \A i \in DOMAIN p.sigs : p.sigs[i] # NoSig => p.sigs[i] = Valid(p.msg, i)
  PROVE  LET u == FromBytes(New, p)
         IN Sound(u) /\ TxOK(u) /\ \A w \in Wallets : Unasked(u, w)
<1> DEFINE u == [New EXCEPT !.ix = 0, !.message = p.msg, !.supplied = {}, !.signatures = p.sigs,
                            !.ready = @ + Ready(p.sigs), !.deserialized = TRUE]
<1>1. p.msg \in Message /\ p.sigs \in Slots /\ Ready(p.sigs) \in Nat /\ p.msg # NoMessage
  BY ReadyType, NullAssumption DEF Payload
<1>2. TxOK(New) /\ New.ready = 0 /\ 0 + Ready(p.sigs) = Ready(p.sigs)
  BY <1>1, NewType DEF New
<1>3. /\ u.message = p.msg /\ u.signatures = p.sigs /\ u.ready = 0 + Ready(p.sigs)
      /\ u.deserialized = TRUE /\ u.crashed = New.crashed /\ u.claims = New.claims /\ u.sent = New.sent
      /\ u.hash = New.hash /\ SameWaiting(New, u) /\ u.pending_send = New.pending_send
  BY <1>1, <1>2 DEF TxOK, TxType, SameWaiting
<1>4. u \in TxType
  <2> DEFINE n == Ready(p.sigs)
  <2>1. u = [New EXCEPT !.ix = 0, !.message = p.msg, !.supplied = {}, !.signatures = p.sigs,
                        !.ready = n, !.deserialized = TRUE]
    BY <1>2 DEF TxOK, TxType
  <2>2. 0 \in 0 .. Len(SignerList)
    BY ConstantsAssumption, LenProperties
  <2> HIDE DEF n, u
  <2>3. n \in Nat
    BY <1>1 DEF n
  <2> QED
    BY <1>1, <1>2, <2>1, <2>2, <2>3 DEF TxOK, TxType
<1>5. FromBytes(New, p) = CheckFullySigned(u)
  BY DEF FromBytes
<1> HIDE DEF u
<1>6. TxOK(u) /\ SizesAgree(u)
  BY <1>1, <1>3, <1>4 DEF TxOK, SizesAgree
<1>7. Safe(u) /\ Posted(u)
  BY <1>1, <1>2, <1>3, <1>6, NewSound DEF Sound, Safe, SlotsSound, Counted, HashKnown, Emissions, Posted
<1>8. Orderly(u) /\ \A w \in Wallets : Unasked(u, w)
  <2>1. \A w \in Wallets : Unasked(New, w)
    BY NewSound, <1>2, IdleUnasked DEF Sound
  <2> QED
    BY <1>3, <2>1, NewSound DEF Orderly, Unasked, SameWaiting, WalletIdle
<1>9. Sound(CheckFullySigned(u))
  BY <1>6, <1>7, <1>8, CheckSound DEF Sound
<1>10. SameWaiting(u, CheckFullySigned(u))
  <2>1. u.ready = Len(u.signatures) => Full(u)
    BY <1>6, <1>7, CountedFull DEF Safe, Full
  <2>2. u.ready = Len(u.signatures) => SameWaiting(u, EmitFullySigned(u))
    BY <1>7, <2>1, EmitSound
  <2> QED
    BY <2>2 DEF CheckFullySigned, SameWaiting
<1> QED
  BY <1>5, <1>8, <1>9, <1>10 DEF Sound, Safe, SameWaiting, Unasked

\* The first states, those of deserialized transactions included.
LEMMA InitOrder == Init => OrderInv
<1> SUFFICES ASSUME Init PROVE OrderInv
  OBVIOUS
<1>1. /\ rpc = [blockhash |-> 0, send |-> 0] /\ TypeOK
      /\ ~tx.pending_blockhash /\ ~tx.pending_send
  <2>1. IInv /\ rpc = [blockhash |-> 0, send |-> 0]
    BY InitInv DEF Init
  <2> QED
    BY <2>1 DEF IInv, PendingIsBacked
<1>2. CASE tx = New
  BY <1>1, <1>2, NewSound DEF OrderInv, Sound
<1>3. CASE tx # New
  <2>1. PICK n \in DOMAIN SignerList, h \in Hashes :
          LET m == [ix |-> n, fee |-> 0, hash |-> h]
          IN \E by \in SUBSET (1 .. Amount(m)) :
               tx = [FromBytes(New, [msg |-> m,
                       sigs |-> [i \in 1 .. Amount(m) |-> IF i \in by THEN Valid(m, i) ELSE NoSig]])
                     EXCEPT !.signers = [i \in 1 .. Amount(m) |-> Nil]]
    BY <1>3 DEF Init
  <2> DEFINE m == [ix |-> n, fee |-> 0, hash |-> h]
  <2>2. PICK by \in SUBSET (1 .. Amount(m)) :
          tx = [FromBytes(New, [msg |-> m,
                  sigs |-> [i \in 1 .. Amount(m) |-> IF i \in by THEN Valid(m, i) ELSE NoSig]])
                EXCEPT !.signers = [i \in 1 .. Amount(m) |-> Nil]]
    BY <2>1
  <2>3. m \in Message /\ m.hash # NoHash
    BY ConstantsAssumption DEF Message, AlteredFee
  <2> HIDE DEF m
  <2> DEFINE sigs == [i \in 1 .. Amount(m) |-> IF i \in by THEN Valid(m, i) ELSE NoSig]
             p == [msg |-> m, sigs |-> sigs]
             u == FromBytes(New, p)
             nils == [i \in 1 .. Amount(m) |-> Nil]
  <2>4. sigs \in Slots /\ Len(sigs) = Amount(m) /\ DOMAIN sigs = 1 .. Amount(m)
        /\ \A i \in DOMAIN sigs : sigs[i] # NoSig => sigs[i] = Valid(m, i)
    BY <2>3, SignersType, ValidType, SlotsIntro, SlotsElim
  <2> HIDE DEF sigs
  <2>5. /\ p \in Payload /\ p.msg.hash # NoHash /\ Len(p.sigs) = Amount(p.msg)
        /\ \A i \in DOMAIN p.sigs : p.sigs[i] # NoSig => p.sigs[i] = Valid(p.msg, i)
    BY <2>3, <2>4 DEF Payload
  <2> HIDE DEF p
  <2>6. Sound(u) /\ TxOK(u) /\ \A w \in Wallets : Unasked(u, w)
    BY <2>5, LoadedSound
  <2>7. tx = [u EXCEPT !.signers = nils]
    BY <2>2 DEF p, sigs
  <2> HIDE DEF u, nils
  <2>8. /\ tx.message = u.message /\ tx.signatures = u.signatures /\ tx.ready = u.ready
        /\ tx.hash = u.hash /\ tx.ix = u.ix /\ tx.deserialized = u.deserialized
        /\ tx.crashed = u.crashed /\ tx.claims = u.claims /\ tx.sent = u.sent
        /\ tx.pending_send = u.pending_send /\ SameWaiting(u, tx)
    BY <2>6, <2>7 DEF TxOK, TxType, SameWaiting
  <2>9. Safe(tx)
    <3>1. TxOK(tx)
      BY <1>1, <2>6, <2>8 DEF TypeOK, TxOK
    <3> QED
      BY <2>6, <2>8, <3>1 DEF Sound, Safe, SlotsSound, Counted, HashKnown, Emissions, SizesAgree
  <2>10. Orderly(tx)
    BY <2>6, <2>8 DEF Sound, Orderly, Unasked, SameWaiting, WalletIdle, SizesAgree
  <2> QED
    BY <1>1, <2>9, <2>10 DEF OrderInv
<1> QED
  BY <1>2, <1>3

\* In the documented order no step breaks the invariant or loses a signature.
LEMMA OrderStep ==
  ASSUME InOrder, OrderInv, [Next]_vars
  PROVE  OrderInv' /\ [KeepsSignatures]_vars
<1>1. CASE Calls
  BY <1>1, EditsOrder, OtherCallsOrder, SigningOrder DEF Calls
<1>2. CASE Events
  BY <1>2, AnswerOrder, WalletOrder DEF Events
<1>3. CASE UNCHANGED vars
  BY <1>3 DEF OrderInv, TypeOK, TxOK, Safe, vars
<1> QED
  BY <1>1, <1>2, <1>3 DEF Next

\* So it always holds.
LEMMA OrderInvariant == ASSUME InOrder PROVE Spec => []OrderInv
<1>1. OrderInv /\ [Next]_vars => OrderInv'
  BY OrderStep
<1> QED
  BY <1>1, InitOrder, PTL DEF Spec

\* With the calls in the documented order, what is transmitted carries the
\* signature of every signer of its message over that very message, and names
\* a blockhash (send, transaction.cpp:478-510).
THEOREM DocumentedSendsSigned == ASSUME InOrder PROVE Spec => []SentFullySigned
<1>1. OrderInv => SentFullySigned
  BY DEF OrderInv, Safe, Emissions, SentFullySigned
<1> QED
  BY <1>1, OrderInvariant, PTL

\* With the calls in the documented order, fully_signed is emitted only when
\* every signature is there, though check_fully_signed (transaction.cpp:51-55)
\* only compares a counter with the number of slots.
THEOREM DocumentedClaimsHold == ASSUME InOrder PROVE Spec => []ClaimsFullySigned
<1>1. OrderInv => ClaimsFullySigned
  BY DEF OrderInv, Safe, Emissions, ClaimsFullySigned
<1> QED
  BY <1>1, OrderInvariant, PTL

\* With the calls in the documented order, a wallet that may answer has been
\* given the message its signature will be stored for, its slot is its own and
\* still empty, and no handler indexes past an array.
THEOREM DocumentedPopups == ASSUME InOrder PROVE Spec => []PopupIsCurrent
<1>1. OrderInv => PopupIsCurrent
  <2> SUFFICES ASSUME OrderInv, NEW w \in Wallets, tx.onSigned[w] # 0
               PROVE  /\ tx.popup[w] # {} /\ \A p \in tx.popup[w] : p.msg = tx.message
                      /\ tx.onSigned[w] \in DOMAIN tx.signers \cap DOMAIN tx.signatures
                      /\ tx.signers[tx.onSigned[w]] = w
                      /\ tx.signatures[tx.onSigned[w]] = NoSig
    BY DEF OrderInv, Safe, PopupIsCurrent
  <2>1. AskedFor(tx, w, tx.onSigned[w])
    BY DEF OrderInv, Orderly, Unasked
  <2> QED
    BY <2>1 DEF AskedFor
<1> QED
  BY <1>1, OrderInvariant, PTL

\* With the calls in the documented order, a signature over the current message
\* is lost only by the reset that takes ready_signature_amount to zero with it.
THEOREM DocumentedKeepsSignatures == ASSUME InOrder PROVE Spec => NoSignatureLost
<1>1. OrderInv /\ [Next]_vars => [KeepsSignatures]_vars
  BY OrderStep
<1> QED
  BY <1>1, OrderInvariant, PTL DEF Spec, NoSignatureLost, KeepsSignatures

=============================================================================
