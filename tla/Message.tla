------------------------------- MODULE Message -------------------------------
(***************************************************************************)
(* How a Transaction builds its message: the account metas of payer and    *)
(* instructions are merged by address                                      *)
(* (src/src/transaction/merged_account_metas.cpp), sorted into the four    *)
(* groups the header counts, and the instructions compiled to indices into *)
(* that list (message.cpp, instruction.cpp).  The list holds references:   *)
(* the first meta of an address is the object of an instruction, and       *)
(* merging changes that object.                                            *)
(***************************************************************************)
EXTENDS Naturals, Sequences, FiniteSets, SequencesExt

CONSTANTS
  Accounts, \* addresses
  Kinds,    \* what keys are, of KeyKinds
  Metas,    \* AccountMeta objects of the instructions
  Plain,    \* bound: those of Metas that are made with an address for a key
  Ix,       \* the instructions, a function to [program, accounts : Seq(Metas)]
  Payers,   \* keys set_payer may be given
  Api,      \* the calls the program makes
  MaxCalls, \* bound: instructions in a transaction
  Fresh, NoPayer, NoMessage

\* What a key is: an address alone, or an object that can sign for it.
KeyKinds == {"pubkey", "keypair", "wallet"}
Key == [addr : Accounts, kind : Kinds]
AccountMetas == [key : Key, is_signer : BOOLEAN, writeable : BOOLEAN]

ASSUME Assumption ==
  /\ Kinds \subseteq KeyKinds /\ "pubkey" \in Kinds /\ Payers \subseteq Key /\ MaxCalls \in Nat
  /\ Fresh \notin Metas /\ Plain \subseteq Metas /\ NoPayer \notin Key
  /\ Ix \in [DOMAIN Ix -> [program : Accounts, accounts : Seq(Metas)]]

VARIABLES
  heap,         \* the AccountMeta objects
  instructions, \* of the transaction, in order
  payer,        \* its payer
  message,      \* the message as it was last built
  asked,        \* history: the metas as the program has made them
  replaced      \* history: set_instructions has been called

vars == <<heap, instructions, payer, message, asked, replaced>>

-----------------------------------------------------------------------------
(* Merging.  An entry of the list is a meta and the object it is.          *)

Entry(obj, m) == [obj |-> obj, meta |-> m]
Meta(key, is_signer, writeable) == [key |-> key, is_signer |-> is_signer, writeable |-> writeable]
ProgramKey(i) == [addr |-> Ix[i].program, kind |-> "pubkey"]

\* Variant preferred_signer(left, right), of one address
PreferredSigner(l, r) ==
  IF l.kind # "keypair" /\ (r.kind = "keypair" \/ (l.kind = "pubkey" /\ r.kind = "wallet")) THEN r ELSE l

\* Mutant: the flags of the first meta win.
MergeKeeps(m, n) == [m EXCEPT !.key = PreferredSigner(m.key, n.key)]

\* void merge_at(account_meta, index)
Merge(m, n) ==
  Meta(PreferredSigner(m.key, n.key), m.is_signer \/ n.is_signer, m.writeable \/ n.writeable)

\* int64_t find(account_meta); 0 for -1
Find(list, key) == SelectInSeq(list, LAMBDA e : e.meta.key.addr = key.addr)

MergeAt(list, i, m) == [list EXCEPT ![i].meta = Merge(@, m)]

\* void add(account_meta)
Add(list, e) ==
  LET i == Find(list, e.meta.key)
  IN IF i = 0 THEN Append(list, e) ELSE MergeAt(list, i, e.meta)

AddAll(list, entries) ==
  LET added[n \in 0 .. Len(entries)] == IF n = 0 THEN list ELSE Add(added[n - 1], entries[n])
  IN added[Len(entries)]

\* The metas of an instruction, its program first.
EntriesOf(i) ==
  <<Entry(Fresh, Meta(ProgramKey(i), FALSE, FALSE))>>
    \o [j \in DOMAIN Ix[i].accounts |-> Entry(Ix[i].accounts[j], heap[Ix[i].accounts[j]])]

\* void from_instructions(instructions)
FromInstructions(list, is) ==
  LET merged[n \in 0 .. Len(is)] == IF n = 0 THEN list ELSE AddAll(merged[n - 1], EntriesOf(is[n]))
  IN merged[Len(is)]

\* The entries at some places of a list, in its order.
Rank(places, k) == Cardinality({j \in places : j <= k})
Nth(places, n) == CHOOSE k \in places : Rank(places, k) = n
At(list, places) == [n \in 1 .. Cardinality(places) |-> list[Nth(places, n)]]

Signers(list) == {n \in DOMAIN list : list[n].meta.is_signer}
Places(list, is_signer, writeable) ==
  {n \in DOMAIN list : list[n].meta.is_signer = is_signer /\ list[n].meta.writeable = writeable}
Group(list, is_signer, writeable) == At(list, Places(list, is_signer, writeable))

\* Mutants: signers first, whatever they may write; what is written first.
SortSigners(list) == At(list, Signers(list)) \o At(list, DOMAIN list \ Signers(list))
SortWritten(list) ==
  Group(list, TRUE, TRUE) \o Group(list, FALSE, TRUE) \o Group(list, TRUE, FALSE) \o Group(list, FALSE, FALSE)

\* void sort()
Sort(list) ==
  Group(list, TRUE, TRUE) \o Group(list, TRUE, FALSE) \o Group(list, FALSE, TRUE) \o Group(list, FALSE, FALSE)

-----------------------------------------------------------------------------
(* The message.                                                            *)

\* void recalculate_headers()
Header(list) ==
  [signatures        |-> Cardinality(Signers(list)),
   readonly_signed   |-> Cardinality(Places(list, TRUE, FALSE)),
   readonly_unsigned |-> Cardinality(Places(list, FALSE, FALSE)),
   keys |-> [n \in DOMAIN list |-> list[n].meta.key.addr]]

\* void compile(instruction, merged_metas)
Compile(i, list) ==
  [program  |-> Find(list, ProgramKey(i)),
   accounts |-> [j \in DOMAIN Ix[i].accounts |-> Find(list, heap[Ix[i].accounts[j]].key)]]

\* create_message and Message::create, up to the sorted list; the payer is added
\* once more after the instructions, which changes nothing.
MetaList(is, p) ==
  LET payer_meta == Entry(Fresh, Meta(p, TRUE, TRUE))
  IN Sort(Add(FromInstructions(<<payer_meta>>, is), payer_meta))

\* The objects of the list are changed with it.
Written(list) ==
  [m \in Metas |-> LET n == SelectInSeq(list, LAMBDA e : e.obj = m)
                   IN IF n = 0 THEN heap[m] ELSE list[n].meta]

\* void create_message()
CreateMessage(is, p) ==
  IF is = <<>> \/ p = NoPayer THEN UNCHANGED <<message, heap>>
  ELSE LET list == MetaList(is, p)
       IN /\ message' = [metas |-> list, header |-> Header(list),
                         compiled |-> [n \in DOMAIN is |-> Compile(is[n], list)]]
          /\ heap' = Written(list)

\* Array get_signers()
GetSigners == LET s == At(message.metas, Signers(message.metas))
              IN [n \in DOMAIN s |-> s[n].meta.key]

\* void supply_signers(signers), of one signer: an array of them is as many calls.
SupplySigner(list, k) ==
  LET i == Find(list, k) IN IF i = 0 THEN list ELSE MergeAt(list, i, Meta(k, TRUE, FALSE))

\* Mutant: the counts are read in the wrong order.
ParseSwapped(h) ==
  [n \in DOMAIN h.keys |->
     Entry(Fresh, Meta([addr |-> h.keys[n], kind |-> "pubkey"], n <= h.signatures,
                       IF n <= h.signatures THEN n <= h.signatures - h.readonly_unsigned
                                            ELSE n <= Len(h.keys) - h.readonly_signed))]

V0_INDICATOR == 128

\* void create(bytes): the metas of a serialized message with header h, which
\* sort() would leave in this order; the counts are bytes.  A first byte of
\* V0_INDICATOR or more is taken for the version: every field and key is then read
\* a byte too late, and what comes of it is no message of these accounts.
Parse(h) ==
  LET writable_signed   == (h.signatures - h.readonly_signed) % 256
      writable_unsigned == (Len(h.keys) - h.signatures - h.readonly_unsigned) % 256
  IN IF h.signatures >= V0_INDICATOR THEN NoMessage
     ELSE [n \in DOMAIN h.keys |->
        Entry(Fresh, Meta([addr |-> h.keys[n], kind |-> "pubkey"], n <= h.signatures,
                          \/ n <= writable_signed
                          \/ h.signatures < n /\ n <= h.signatures + writable_unsigned))]

-----------------------------------------------------------------------------
(* The calls.                                                              *)

Init ==
  /\ heap \in [Metas -> AccountMetas] /\ asked = heap
  /\ \A m \in Plain : heap[m].key.kind = "pubkey"
  /\ instructions = <<>> /\ payer = NoPayer /\ message = NoMessage
  /\ replaced = FALSE

AddInstruction(i) ==
  /\ "add" \in Api /\ Len(instructions) < MaxCalls
  /\ instructions' = Append(instructions, i)
  /\ CreateMessage(instructions', payer) /\ UNCHANGED <<payer, asked, replaced>>

\* set_instructions, of a part of the instructions
SetInstructions(i) ==
  /\ "set" \in Api
  /\ instructions' = <<i>> /\ replaced' = TRUE
  /\ CreateMessage(instructions', payer) /\ UNCHANGED <<payer, asked>>

SetPayer(p) ==
  /\ "payer" \in Api /\ payer' = p
  /\ CreateMessage(instructions, p) /\ UNCHANGED <<instructions, asked, replaced>>

\* set_signers with a signing object, for a signer of the message: a key that is no signer
\* of it would become one behind the header's back.
SetSigners(k) ==
  /\ "supply" \in Api /\ message # NoMessage
  /\ \E n \in DOMAIN GetSigners : GetSigners[n].addr = k.addr
  /\ message' = [message EXCEPT !.metas = SupplySigner(@, k)]
  /\ heap' = Written(message'.metas)
  /\ UNCHANGED <<instructions, payer, asked, replaced>>

Signing == {k \in Key : k.kind # "pubkey"}

Next ==
  \/ \E i \in DOMAIN Ix : AddInstruction(i) \/ SetInstructions(i)
  \/ \E p \in Payers : SetPayer(p)
  \/ \E k \in Signing : SetSigners(k)

Spec == Init /\ [][Next]_vars

-----------------------------------------------------------------------------
(* Properties.  A validator reads the rights of account n off the header.  *)

Built == message # NoMessage /\ instructions # <<>>
RightsAt(h, n) ==
  [is_signer |-> n <= h.signatures,
   writeable |-> IF n <= h.signatures THEN n <= h.signatures - h.readonly_signed
                 ELSE n <= Len(h.keys) - h.readonly_unsigned]

\* The objects of the state; a compiled index is the place of an account.
TypeOK ==
  /\ heap \in [Metas -> AccountMetas] /\ asked \in [Metas -> AccountMetas]
  /\ replaced \in BOOLEAN
  /\ instructions \in Seq(DOMAIN Ix) /\ payer \in Payers \cup {NoPayer}
  /\ Built =>
       LET places == DOMAIN message.metas
       IN /\ message.metas \in Seq([obj : Metas \cup {Fresh}, meta : AccountMetas])
          /\ message.compiled \in Seq([program : places, accounts : Seq(places)])

\* Every index of a compiled instruction names the account the instruction names,
\* and the header grants that account at least the rights its meta asks for.
InstructionsServed ==
  Built => \A n \in DOMAIN instructions :
    LET i == instructions[n] c == message.compiled[n] h == message.header
    IN /\ c.program \in DOMAIN h.keys /\ h.keys[c.program] = Ix[i].program
       /\ \A j \in DOMAIN Ix[i].accounts :
            LET m == asked[Ix[i].accounts[j]] k == c.accounts[j] r == RightsAt(h, k)
            IN /\ k \in DOMAIN h.keys /\ h.keys[k] = m.key.addr
               /\ (m.is_signer => r.is_signer) /\ (m.writeable => r.writeable)

\* And no account more than payer and instructions ask for between them: nobody
\* is made to sign, and no account is locked for writing, for nothing.  (Merging
\* writes the rights into the metas of the instructions, so those that outlive the
\* others in set_instructions keep them.)
RightsNeeded ==
  Built /\ ~replaced => \A k \in 2 .. Len(message.header.keys) :
    LET r == RightsAt(message.header, k)
        of(i) == {asked[m] : m \in ToSet(Ix[i].accounts)}
        here == {m \in UNION {of(i) : i \in ToSet(instructions)} : m.key.addr = message.header.keys[k]}
    IN /\ r.is_signer => \E m \in here : m.is_signer
       /\ r.writeable => \E m \in here : m.writeable

\* The fee payer is the account a validator charges, the first one, whatever else
\* the instructions make writable and signing; and the signers the transaction
\* collects signatures of are, in order, the accounts the header says sign:
\* signature n is that of account n.
SignersAreFirst ==
  Built => /\ message.header.keys[1] = payer.addr
           /\ Len(GetSigners) = message.header.signatures
           /\ \A n \in DOMAIN GetSigners : GetSigners[n].addr = message.header.keys[n]

\* A keypair an instruction or the payer has for a signer is the one that signs.
KeypairSigns ==
  Built =>
    /\ payer.kind = "keypair" => GetSigners[1].kind = "keypair"
    /\ \A n \in DOMAIN instructions : \A j \in DOMAIN Ix[instructions[n]].accounts :
         LET key == asked[Ix[instructions[n]].accounts[j]].key
         IN key.kind = "keypair" =>
              \A s \in DOMAIN GetSigners : GetSigners[s].addr = key.addr => GetSigners[s].kind = "keypair"

\* The objects that will sign are those of the accounts the header says sign, in
\* its order, and can do so.
SignersServed == SignersAreFirst /\ KeypairSigns

\* A message that was serialized and read again has the same rights and header, if it
\* has fewer signers than a version byte may be (V0_INDICATOR).
RoundTrip ==
  Built /\ message.header.signatures < V0_INDICATOR =>
           LET again == Parse(message.header)
           IN /\ Header(again) = message.header
              /\ \A n \in DOMAIN again :
                   [is_signer |-> again[n].meta.is_signer, writeable |-> again[n].meta.writeable]
                     = RightsAt(message.header, n)
=============================================================================
