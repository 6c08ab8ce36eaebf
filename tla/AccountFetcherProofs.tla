------------------------ MODULE AccountFetcherProofs ------------------------
(***************************************************************************)
(* AccountFetcher for all constants: types, the place of every key asked   *)
(* for, the owner of every datum, the meaning of pending_fetch and the     *)
(* intervals of what is queued, from one inductive invariant.              *)
(***************************************************************************)
EXTENDS AccountFetcher, SequenceTheorems, WellFoundedInduction, TLAPS

Dicts == [{1, 2} -> Seq(Entry)]
Wires == [age : -1 .. Timeout, keys : Seq(Keys)]

\* Every entry of the dictionaries d that have a name has a key its Account had,
\* h, and its Account has waited for its minimum interval, s.
Named == {fetch_accounts, fetch_accounts_buffer}
EntriesAreOwn(d, h) ==
  \A j \in Named : \A i \in DOMAIN d[j] : d[j][i].key \in h[d[j][i].account]
EntriesAreDue(d, s) ==
  \A j \in Named : \A i \in DOMAIN d[j] : s[d[j][i].account] >= Min[d[j][i].account]

\* The keys of request w are the first ones of dictionary d.
Placed(w, d) ==
  w # NoRequest => Len(w.keys) <= Len(d) /\ \A i \in DOMAIN w.keys : d[i].key = w.keys[i]

\* The fetcher has stopped after a failure.
StuckIsIdle == failed => wire = NoRequest

-----------------------------------------------------------------------------
(* Dictionaries. *)

\* The entries of a Dictionary.
LEMMA EntryAt ==
  ASSUME NEW d \in Seq(Entry)
  PROVE  /\ Len(d) \in Nat /\ DOMAIN d = 1 .. Len(d)
         /\ \A i \in DOMAIN d : d[i] \in Entry /\ d[i].key \in Keys /\ d[i].account \in Accounts
<1>1. Len(d) \in Nat /\ DOMAIN d = 1 .. Len(d)
  BY LenProperties
<1>2. \A i \in DOMAIN d : d[i] \in Entry
  BY <1>1, ElementOfSeq
<1> QED
  BY <1>1, <1>2 DEF Entry

\* Its keys, in their places.
LEMMA KeysOfType ==
  ASSUME NEW d \in Seq(Entry)
  PROVE  /\ KeysOf(d) \in Seq(Keys) /\ Len(KeysOf(d)) = Len(d)
         /\ \A i \in DOMAIN d : KeysOf(d)[i] = d[i].key
<1>1. KeysOf(d) \in [1 .. Len(d) -> Keys]
  BY EntryAt DEF KeysOf
<1>2. KeysOf(d) \in Seq(Keys) /\ Len(KeysOf(d)) = Len(d)
  BY <1>1, EntryAt, SeqDef, LenProperties
<1> QED
  BY <1>2 DEF KeysOf

\* Putting an account under a key keeps the keys there are at their places, and
\* brings no entry but this one.
LEMMA PutEntry ==
  ASSUME NEW d \in Seq(Entry), NEW k \in Keys, NEW a \in Accounts
  PROVE  /\ Put(d, k, a) \in Seq(Entry)
         /\ Len(d) <= Len(Put(d, k, a))
         /\ \A i \in DOMAIN d : Put(d, k, a)[i].key = d[i].key
         /\ \A i \in DOMAIN Put(d, k, a) :
              Put(d, k, a)[i] = [key |-> k, account |-> a]
              \/ (i \in DOMAIN d /\ Put(d, k, a)[i] = d[i])
<1> DEFINE e == [key |-> k, account |-> a]
           p == Put(d, k, a)
<1>1. e \in Entry
  BY DEF Entry
<1>2. CASE HasKey(d, k)
  <2>1. p = [i \in 1 .. Len(d) |-> IF d[i].key = k THEN e ELSE d[i]]
    BY <1>2, EntryAt DEF Put
  <2>2. p \in [1 .. Len(d) -> Entry]
    BY <2>1, <1>1, EntryAt
  <2>3. p \in Seq(Entry) /\ Len(p) = Len(d)
    BY <2>2, EntryAt, SeqDef, LenProperties
  <2>4. \A i \in 1 .. Len(d) : (p[i] = e \/ p[i] = d[i]) /\ p[i].key = d[i].key
    BY <2>1
  <2> QED
    BY <2>3, <2>4, EntryAt
<1>3. CASE ~HasKey(d, k)
  <2>1. p = Append(d, e)
    BY <1>3 DEF Put
  <2>2. p \in Seq(Entry) /\ Len(p) = Len(d) + 1
    BY <2>1, <1>1, AppendProperties
  <2>3. \A i \in 1 .. Len(d) : p[i] = d[i]
    BY <2>1, <1>1, AppendProperties
  <2>4. p[Len(d) + 1] = e
    BY <2>1, <1>1, AppendProperties
  <2>5. DOMAIN p = 1 .. Len(d) + 1
    BY <2>2, EntryAt, LenProperties
  <2> QED
    BY <2>2, <2>3, <2>4, <2>5, EntryAt
<1> QED
  BY <1>2, <1>3

\* void add_account_to_fetch(account): both dictionaries keep the keys they
\* have in their places, and the only new entry is the account's.
LEMMA AddEntry ==
  ASSUME TypeOK, NEW a \in Accounts
  PROVE  /\ AddAccountToFetch(a) \in Dicts
         /\ \A j \in {1, 2} :
              LET d == dict[j]
                  p == AddAccountToFetch(a)[j]
              IN /\ Len(d) <= Len(p)
                 /\ \A i \in DOMAIN d : p[i].key = d[i].key
                 /\ \A i \in DOMAIN p :
                      p[i] = [key |-> key[a], account |-> a] \/ (i \in DOMAIN d /\ p[i] = d[i])
<1>1. key[a] \in Keys /\ dict \in Dicts /\ Target \in {1, 2}
  BY DEF TypeOK, Dicts, Target
<1>2. \A j \in {1, 2} : dict[j] \in Seq(Entry)
  BY <1>1 DEF Dicts
<1>3. CASE HasAccount(a)
  <2>1. AddAccountToFetch(a) = dict
    BY <1>3 DEF AddAccountToFetch
  <2> QED
    BY <2>1, <1>1, <1>2, EntryAt
<1>4. CASE ~HasAccount(a)
  <2> DEFINE p == Put(dict[Target], key[a], a)
  <2>1. AddAccountToFetch(a) = [dict EXCEPT ![Target] = p]
    BY <1>4 DEF AddAccountToFetch
  <2>2. /\ p \in Seq(Entry)
        /\ Len(dict[Target]) <= Len(p)
        /\ \A i \in DOMAIN dict[Target] : p[i].key = dict[Target][i].key
        /\ \A i \in DOMAIN p : p[i] = [key |-> key[a], account |-> a]
                               \/ (i \in DOMAIN dict[Target] /\ p[i] = dict[Target][i])
    BY <1>1, <1>2, PutEntry
  <2> HIDE DEF p
  <2>3. \A j \in {1, 2} : AddAccountToFetch(a)[j] = IF j = Target THEN p ELSE dict[j]
    BY <2>1, <1>1 DEF Dicts
  <2>4. AddAccountToFetch(a) \in Dicts
    BY <2>1, <2>2, <1>1 DEF Dicts
  <2>5. \A j \in {1, 2} : Len(dict[j]) <= Len(dict[j])
    BY <1>2, EntryAt
  <2> QED
    BY <2>2, <2>3, <2>4, <2>5
<1> QED
  BY <1>3, <1>4

-----------------------------------------------------------------------------
(* The answer. *)

\* A bounded set of positions has a last one.
LEMMA LastOfIn ==
  ASSUME NEW n \in Nat, NEW I \in SUBSET (1 .. n), I # {}
  PROVE  LastOf(I) \in I
<1> DEFINE T == {n - i : i \in I}
           Less == OpToRel(<, Nat)
<1>1. T \subseteq Nat /\ T # {}
  <2>1. \A i \in I : n - i \in Nat
    OBVIOUS
  <2> QED
    BY <2>1
<1>2. \A x, y \in Nat : x < y => <<x, y>> \in Less
  BY DEF OpToRel
<1>3. IsWellFoundedOn(Less, Nat)
  BY NatLessThanWellFounded
<1> HIDE DEF Less, T
<1>4. PICK x \in T : \A y \in T : <<y, x>> \notin Less
  BY <1>1, <1>3, WFMin
<1>5. \A y \in T : x <= y
  <2> SUFFICES ASSUME NEW y \in T
               PROVE  x <= y
    OBVIOUS
  <2>1. x \in Nat /\ y \in Nat
    BY <1>1, <1>4
  <2>2. ~(y < x)
    BY <2>1, <1>2, <1>4
  <2> QED
    BY <2>1, <2>2
<1>6. PICK i \in I : x = n - i
  BY <1>4 DEF T
<1>7. \A j \in I : n - j \in T
  BY DEF T
<1>8. \A j \in I : j <= i
  BY <1>5, <1>6, <1>7
<1> QED
  BY <1>8 DEF LastOf

\* void update_accounts(...): a node keeps its data and its seconds, or it has
\* the data of a key whose place in the answer is that of an entry of the node.
LEMMA UpdateType ==
  ASSUME data \in [Accounts -> Keys \cup {NoData}],
         NEW s \in [Accounts -> Nat], NEW d \in Seq(Entry), NEW keys \in Seq(Keys),
         UpdateAccounts(s, d, keys)
  PROVE  /\ seconds' \in [Accounts -> Nat]
         /\ data' \in [Accounts -> Keys \cup {NoData}]
         /\ \A a \in Accounts :
              \/ data'[a] = data[a]
              \/ \E i \in DOMAIN keys : /\ i \in DOMAIN d /\ d[i].account = a
                                        /\ data'[a] = keys[i]
<1> DEFINE At(a) == {i \in Updated(d, keys) : d[i].account = a}
<1>1. Len(keys) \in Nat /\ DOMAIN keys = 1 .. Len(keys)
  BY LenProperties
<1>2. \A i \in DOMAIN keys : keys[i] \in Keys
  BY <1>1, ElementOfSeq
<1>3. ASSUME NEW a \in Accounts, At(a) # {}
      PROVE  LastOf(At(a)) \in At(a)
  <2>1. At(a) \in SUBSET (1 .. Len(keys))
    BY <1>1 DEF Updated
  <2> QED
    BY <1>1, <1>3, <2>1, LastOfIn
<1>4. /\ seconds' = [a \in Accounts |-> IF At(a) = {} THEN s[a] ELSE 0]
      /\ data' = [a \in Accounts |-> IF At(a) = {} THEN data[a] ELSE keys[LastOf(At(a))]]
  BY DEF UpdateAccounts
<1>5. ASSUME NEW a \in Accounts
      PROVE  \/ data'[a] = data[a]
             \/ \E i \in DOMAIN keys : /\ i \in DOMAIN d /\ d[i].account = a
                                       /\ data'[a] = keys[i]
  <2>1. CASE At(a) = {}
    BY <2>1, <1>4
  <2>2. CASE At(a) # {}
    <3>1. LastOf(At(a)) \in At(a)
      BY <2>2, <1>3
    <3>2. /\ LastOf(At(a)) \in DOMAIN keys /\ LastOf(At(a)) \in DOMAIN d
          /\ d[LastOf(At(a))].account = a
      BY <3>1 DEF Updated
    <3>3. data'[a] = keys[LastOf(At(a))]
      BY <2>2, <1>4
    <3> QED
      BY <3>2, <3>3
  <2> QED
    BY <2>1, <2>2
<1>6. seconds' \in [Accounts -> Nat]
  BY <1>4
<1> HIDE DEF At
<1>7. data' \in [Accounts -> Keys \cup {NoData}]
  <2>1. \A a \in Accounts : data'[a] \in Keys \cup {NoData}
    BY <1>2, <1>5
  <2>2. data' = [a \in Accounts |-> data'[a]]
    BY <1>4
  <2> QED
    BY <2>1, <2>2
<1> QED
  BY <1>5, <1>6, <1>7

\* What the http client may change, well-typed.
FetcherOK ==
  /\ seconds \in [Accounts -> Nat]
  /\ data \in [Accounts -> Keys \cup {NoData}]
  /\ dict \in Dicts
  /\ fetch_accounts \in {1, 2} /\ fetch_accounts_buffer \in {1, 2}
  /\ pending_fetch \in BOOLEAN
  /\ wire \in Wires
  /\ driven \in BOOLEAN
  /\ errors \in 0 .. MaxErrors
  /\ failed \in BOOLEAN

\* void fetch_callback(params): data go to nodes that had the key, and nothing
\* is queued or due any more.
LEMMA CallbackKeeps ==
  ASSUME FetcherOK, DataIsOwn, UNCHANGED <<had, fetch_accounts_buffer>>,
         NEW s \in [Accounts -> Nat], NEW d \in Dicts, NEW keys \in Seq(Keys),
         Len(keys) <= Len(d[fetch_accounts]),
         \A i \in DOMAIN keys : d[fetch_accounts][i].key = keys[i],
         EntriesAreOwn(d, had),
         FetchCallback(s, d, keys)
  PROVE  /\ seconds' \in [Accounts -> Nat]
         /\ data' \in [Accounts -> Keys \cup {NoData}]
         /\ errors' \in 0 .. MaxErrors
         /\ DataIsOwn'
         /\ pending_fetch' = FALSE
         /\ fetch_accounts' = fetch_accounts_buffer
         /\ dict' \in Dicts
         /\ EntriesAreOwn(dict, had)' /\ EntriesAreDue(dict, seconds)'
<1>1. d[fetch_accounts] \in Seq(Entry)
  BY DEF Dicts, FetcherOK
<1>2. /\ seconds' \in [Accounts -> Nat]
      /\ data' \in [Accounts -> Keys \cup {NoData}]
      /\ errors' \in 0 .. MaxErrors
      /\ DataIsOwn'
  <2>1. CASE UpdateAccounts(s, d[fetch_accounts], keys) /\ UNCHANGED errors
    <3>1. /\ seconds' \in [Accounts -> Nat]
          /\ data' \in [Accounts -> Keys \cup {NoData}]
          /\ \A a \in Accounts :
               \/ data'[a] = data[a]
               \/ \E i \in DOMAIN keys : /\ i \in DOMAIN d[fetch_accounts]
                                         /\ d[fetch_accounts][i].account = a
                                         /\ data'[a] = keys[i]
      BY <1>1, <2>1, UpdateType DEF FetcherOK
    <3>2. DataIsOwn'
      <4> SUFFICES ASSUME NEW a \in Accounts
                   PROVE  data'[a] \in had[a] \cup {NoData}
        BY DEF DataIsOwn
      <4>1. CASE data'[a] = data[a]
        BY <4>1 DEF DataIsOwn
      <4>2. ASSUME NEW i \in DOMAIN keys, i \in DOMAIN d[fetch_accounts],
                   d[fetch_accounts][i].account = a, data'[a] = keys[i]
            PROVE  data'[a] \in had[a]
        BY <4>2 DEF EntriesAreOwn, Named
      <4> QED
        BY <3>1, <4>1, <4>2
    <3> QED
      BY <2>1, <3>1, <3>2 DEF FetcherOK
  <2>2. CASE errors < MaxErrors /\ errors' = errors + 1 /\ seconds' = s /\ UNCHANGED data
    BY <2>2, Assumption DEF FetcherOK, DataIsOwn, Assumption
  <2> QED
    BY <2>1, <2>2 DEF FetchCallback
<1>3. /\ pending_fetch' = FALSE /\ fetch_accounts' = fetch_accounts_buffer
      /\ dict' = [d EXCEPT ![fetch_accounts] = <<>>, ![fetch_accounts_buffer] = <<>>]
  BY DEF FetchCallback
<1>4. dict' \in Dicts
  BY <1>3, EmptySeq DEF Dicts
<1>5. \A j \in Named' : dict'[j] = <<>>
  BY <1>3 DEF Dicts, FetcherOK, Named
<1>6. EntriesAreOwn(dict, had)' /\ EntriesAreDue(dict, seconds)'
  BY <1>5 DEF EntriesAreOwn, EntriesAreDue
<1> QED
  BY <1>2, <1>3, <1>4, <1>6

\* The part of the invariant that the http client's work could break.
FetcherInv ==
  /\ FetcherOK
  /\ RequestedIsPrefix
  /\ PendingIsFetching
  /\ StuckIsIdle
  /\ DataIsOwn
  /\ EntriesAreOwn(dict, had)
  /\ EntriesAreDue(dict, seconds)

\* SolanaClient::_process, with the seconds s, the dictionaries d, the flag p
\* and the request w that the handler has made of the state.
LEMMA DriveKeeps ==
  ASSUME FetcherOK, DataIsOwn, had' = had,
         NEW s \in [Accounts -> Nat], NEW d \in Dicts, NEW p \in BOOLEAN, NEW w \in Wires,
         Placed(w, d[fetch_accounts]),
         p <=> (w # NoRequest \/ failed), failed => w = NoRequest,
         EntriesAreOwn(d, had), EntriesAreDue(d, s),
         Drive(s, d, p, w)
  PROVE  FetcherInv'
<1> DEFINE Quiet == /\ seconds' = s /\ dict' = d /\ pending_fetch' = p
                    /\ UNCHANGED <<data, fetch_accounts, errors>>
<1>1. driven' = TRUE /\ fetch_accounts_buffer' = fetch_accounts_buffer
  BY DEF Drive
<1>2. ASSUME Quiet, wire' \in Wires, failed' \in BOOLEAN,
             Placed(wire', d[fetch_accounts]),
             p <=> (wire' # NoRequest \/ failed'), failed' => wire' = NoRequest
      PROVE  FetcherInv'
  <2>1. FetcherOK'
    BY <1>1, <1>2 DEF FetcherOK
  <2>2. RequestedIsPrefix' /\ PendingIsFetching' /\ StuckIsIdle'
    BY <1>2 DEF RequestedIsPrefix, PendingIsFetching, StuckIsIdle, Placed
  <2>3. DataIsOwn' /\ EntriesAreOwn(dict, had)' /\ EntriesAreDue(dict, seconds)'
    BY <1>1, <1>2 DEF DataIsOwn, EntriesAreOwn, EntriesAreDue, Named
  <2> QED
    BY <2>1, <2>2, <2>3 DEF FetcherInv
<1>3. NoRequest \in Wires
  BY Assumption, EmptySeq DEF NoRequest, Wires, Assumption
<1>4. CASE w = NoRequest /\ wire' = w /\ Quiet /\ failed' = failed
  BY <1>4, <1>2, <1>3 DEF FetcherOK
<1>5. CASE MayWait(w) /\ wire' = [w EXCEPT !.age = @ + 1] /\ Quiet /\ failed' = failed
  <2>1. wire' \in Wires /\ wire' # NoRequest /\ wire'.keys = w.keys
    <3>1. w.age \in -1 .. Timeout /\ w.keys \in Seq(Keys) /\ w.age < Timeout
      BY <1>5 DEF MayWait, Wires
    <3>2. wire' = [age |-> w.age + 1, keys |-> w.keys]
      BY <1>5 DEF Wires
    <3>3. w.age + 1 \in 0 .. Timeout
      BY <3>1, Assumption DEF Assumption
    <3> QED
      BY <3>1, <3>2, <3>3 DEF Wires, NoRequest
  <2>2. w # NoRequest
    BY <1>5 DEF MayWait
  <2> HIDE DEF Quiet
  <2>3. Placed(wire', d[fetch_accounts])
    BY <2>1, <2>2 DEF Placed
  <2> QED
    BY <1>5, <1>2, <2>1, <2>2, <2>3 DEF FetcherOK, Quiet
<1>6. CASE w # NoRequest /\ wire' = NoRequest /\ failed' = TRUE /\ Quiet
  <2>1. Placed(wire', d[fetch_accounts])
    BY <1>6 DEF Placed
  <2> QED
    BY <1>6, <1>2, <1>3, <2>1 DEF FetcherOK
<1>7. CASE /\ w.age > 0 /\ wire' = NoRequest
           /\ FetchCallback(s, d, w.keys) /\ failed' = failed
  <2>1. w # NoRequest
    BY <1>7 DEF NoRequest
  <2>2. w.keys \in Seq(Keys)
    BY DEF Wires
  <2>3. /\ seconds' \in [Accounts -> Nat]
        /\ data' \in [Accounts -> Keys \cup {NoData}]
        /\ errors' \in 0 .. MaxErrors
        /\ DataIsOwn'
        /\ pending_fetch' = FALSE
        /\ fetch_accounts' = fetch_accounts_buffer
        /\ dict' \in Dicts
        /\ EntriesAreOwn(dict, had)' /\ EntriesAreDue(dict, seconds)'
    BY <1>1, <1>7, <2>1, <2>2, CallbackKeeps DEF Placed
  <2>4. FetcherOK'
    BY <1>1, <1>3, <1>7, <2>3 DEF FetcherOK
  <2>5. ~failed
    BY <2>1
  <2>6. RequestedIsPrefix' /\ PendingIsFetching' /\ StuckIsIdle'
    BY <1>7, <2>3, <2>5 DEF RequestedIsPrefix, PendingIsFetching, StuckIsIdle
  <2> QED
    BY <2>3, <2>4, <2>6 DEF FetcherInv
<1> QED
  BY <1>4, <1>5, <1>6, <1>7 DEF Drive

-----------------------------------------------------------------------------
(* The invariant and the actions. *)

RestOK ==
  /\ key \in [Accounts -> Keys]
  /\ turn \in 1 .. Len(Order) + 1
  /\ rekeys \in 0 .. MaxRekeys
  /\ had \in [Accounts -> SUBSET Keys]
  /\ \A a \in Accounts : key[a] \in had[a]

Inv == FetcherInv /\ RestOK

\* The invariant has the properties.
LEMMA InvImplies == Inv => TypeOK /\ RequestedIsPrefix /\ PendingIsFetching /\ DataIsOwn /\ QueuedIsDue
BY DEF Inv, FetcherInv, FetcherOK, RestOK, TypeOK, Dicts, Wires, EntriesAreDue, Named, QueuedIsDue

\* At first nobody is queued.
LEMMA InvInit ==
  ASSUME Init PROVE Inv
<1>1. FetcherOK
  <2>1. NoRequest \in Wires
    BY Assumption, EmptySeq DEF NoRequest, Wires, Assumption
  <2>2. dict \in Dicts
    BY EmptySeq DEF Init, Dicts
  <2>3. errors \in 0 .. MaxErrors
    BY Assumption DEF Init, Assumption
  <2> QED
    BY <2>1, <2>2, <2>3 DEF Init, FetcherOK
<1>2. RestOK
  BY Assumption, LenProperties DEF Init, RestOK, Assumption
<1>3. EntriesAreOwn(dict, had) /\ EntriesAreDue(dict, seconds)
  BY DEF Init, EntriesAreOwn, EntriesAreDue, Named
<1>4. RequestedIsPrefix /\ PendingIsFetching /\ StuckIsIdle /\ DataIsOwn
  BY DEF Init, RequestedIsPrefix, PendingIsFetching, StuckIsIdle, DataIsOwn
<1> QED
  BY <1>1, <1>2, <1>3, <1>4 DEF Inv, FetcherInv

\* What a node has added is its own and due, and the keys asked for stay.
LEMMA AddKeeps ==
  ASSUME Inv, NEW a \in Accounts, NEW s \in [Accounts -> Nat],
         \A b \in Accounts : s[b] >= seconds[b], s[a] >= Min[a]
  PROVE  /\ AddAccountToFetch(a) \in Dicts
         /\ EntriesAreOwn(AddAccountToFetch(a), had)
         /\ EntriesAreDue(AddAccountToFetch(a), s)
         /\ Placed(wire, AddAccountToFetch(a)[fetch_accounts])
<1> DEFINE d == AddAccountToFetch(a)
<1>1. /\ d \in Dicts
      /\ \A j \in {1, 2} :
           /\ Len(dict[j]) <= Len(d[j])
           /\ \A i \in DOMAIN dict[j] : d[j][i].key = dict[j][i].key
           /\ \A i \in DOMAIN d[j] :
                d[j][i] = [key |-> key[a], account |-> a]
                \/ (i \in DOMAIN dict[j] /\ d[j][i] = dict[j][i])
  BY InvImplies, AddEntry
<1> HIDE DEF d
<1>2. /\ Named \subseteq {1, 2} /\ fetch_accounts \in {1, 2}
      /\ \A j \in {1, 2} : dict[j] \in Seq(Entry) /\ d[j] \in Seq(Entry)
  BY <1>1 DEF Inv, FetcherInv, FetcherOK, Named, Dicts
<1>3. EntriesAreOwn(d, had)
  <2> SUFFICES ASSUME NEW j \in Named, NEW i \in DOMAIN d[j]
               PROVE  d[j][i].key \in had[d[j][i].account]
    BY DEF EntriesAreOwn
  <2>1. CASE d[j][i] = [key |-> key[a], account |-> a]
    BY <2>1 DEF Inv, RestOK
  <2>2. CASE i \in DOMAIN dict[j] /\ d[j][i] = dict[j][i]
    BY <2>2 DEF Inv, FetcherInv, EntriesAreOwn
  <2> QED
    BY <1>1, <1>2, <2>1, <2>2
<1>4. EntriesAreDue(d, s)
  <2> SUFFICES ASSUME NEW j \in Named, NEW i \in DOMAIN d[j]
               PROVE  s[d[j][i].account] >= Min[d[j][i].account]
    BY DEF EntriesAreDue
  <2>1. CASE d[j][i] = [key |-> key[a], account |-> a]
    BY <2>1
  <2>2. CASE i \in DOMAIN dict[j] /\ d[j][i] = dict[j][i]
    <3>1. dict[j][i].account \in Accounts
      BY <1>2, <2>2, EntryAt
    <3> DEFINE b == dict[j][i].account
    <3>2. seconds[b] >= Min[b]
      BY <2>2 DEF Inv, FetcherInv, EntriesAreDue
    <3>3. s[b] \in Nat /\ seconds[b] \in Nat /\ Min[b] \in Nat /\ s[b] >= seconds[b]
      BY <3>1, Assumption DEF Inv, FetcherInv, FetcherOK, Assumption
    <3> HIDE DEF b
    <3>4. s[b] >= Min[b]
      BY <3>2, <3>3
    <3> QED
      BY <2>2, <3>4 DEF b
  <2> QED
    BY <1>1, <1>2, <2>1, <2>2
<1>5. Placed(wire, d[fetch_accounts])
  <2> SUFFICES ASSUME wire # NoRequest
               PROVE  /\ Len(wire.keys) <= Len(d[fetch_accounts])
                      /\ \A i \in DOMAIN wire.keys : d[fetch_accounts][i].key = wire.keys[i]
    BY DEF Placed
  <2> DEFINE old == dict[fetch_accounts]
  <2>1. /\ Len(wire.keys) <= Len(old)
        /\ \A i \in DOMAIN wire.keys : old[i].key = wire.keys[i]
    BY DEF Inv, FetcherInv, RequestedIsPrefix
  <2>2. /\ Len(wire.keys) \in Nat /\ DOMAIN wire.keys = 1 .. Len(wire.keys)
        /\ Len(old) \in Nat /\ DOMAIN old = 1 .. Len(old)
        /\ Len(d[fetch_accounts]) \in Nat
    BY <1>2, EntryAt, LenProperties DEF Inv, FetcherInv, FetcherOK, Wires
  <2>3. /\ Len(old) <= Len(d[fetch_accounts])
        /\ \A i \in DOMAIN old : d[fetch_accounts][i].key = old[i].key
    BY <1>1, <1>2
  <2> HIDE DEF old
  <2> QED
    BY <2>1, <2>2, <2>3
<1> QED
  BY <1>1, <1>3, <1>4, <1>5 DEF d

\* An action that leaves the fetcher alone but for the seconds of nodes, which
\* grow, and for accounts it queues.
LEMMA PassiveKeeps ==
  ASSUME Inv, NEW s \in [Accounts -> Nat], NEW d \in Dicts,
         EntriesAreOwn(d, had), EntriesAreDue(d, s), Placed(wire, d[fetch_accounts]),
         seconds' = s, dict' = d,
         UNCHANGED <<data, fetch_accounts, fetch_accounts_buffer, pending_fetch,
                     wire, driven, errors, failed, had>>
  PROVE  FetcherInv'
<1>1. FetcherOK'
  BY DEF Inv, FetcherInv, FetcherOK
<1>2. RequestedIsPrefix' /\ PendingIsFetching' /\ StuckIsIdle' /\ DataIsOwn'
  BY DEF Inv, FetcherInv, RequestedIsPrefix, Placed, PendingIsFetching, StuckIsIdle, DataIsOwn
<1>3. EntriesAreOwn(dict, had)' /\ EntriesAreDue(dict, seconds)'
  BY DEF EntriesAreOwn, EntriesAreDue, Named
<1> QED
  BY <1>1, <1>2, <1>3 DEF FetcherInv

\* What the state has, in the terms of the lemmas.
LEMMA StateParts ==
  ASSUME Inv
  PROVE  /\ seconds \in [Accounts -> Nat] /\ dict \in Dicts /\ wire \in Wires
         /\ Placed(wire, dict[fetch_accounts])
         /\ EntriesAreOwn(dict, had) /\ EntriesAreDue(dict, seconds)
         /\ FetcherOK /\ DataIsOwn
BY DEF Inv, FetcherInv, FetcherOK, RequestedIsPrefix, Placed

\* fetch_all and manual_process after an account has been queued in d.
LEMMA ManualProcessKeeps ==
  ASSUME Inv, NEW s \in [Accounts -> Nat], NEW d \in Dicts,
         EntriesAreOwn(d, had), EntriesAreDue(d, s), Placed(wire, d[fetch_accounts]),
         ManualProcess(s, d), had' = had
  PROVE  FetcherInv'
<1> DEFINE w == FetchAll(d)
<1>1. /\ w \in Wires /\ Placed(w, d[fetch_accounts])
      /\ w # NoRequest \/ failed
      /\ failed => w = NoRequest
  <2>1. CASE pending_fetch
    BY <2>1, StateParts DEF FetchAll, Inv, FetcherInv, PendingIsFetching, StuckIsIdle
  <2>2. CASE ~pending_fetch
    <3>1. w = [age |-> 0, keys |-> KeysOf(d[fetch_accounts])]
      BY <2>2 DEF FetchAll
    <3>2. d[fetch_accounts] \in Seq(Entry)
      BY DEF Dicts, Inv, FetcherInv, FetcherOK
    <3>3. /\ KeysOf(d[fetch_accounts]) \in Seq(Keys)
          /\ Len(KeysOf(d[fetch_accounts])) = Len(d[fetch_accounts])
          /\ \A i \in DOMAIN d[fetch_accounts] : KeysOf(d[fetch_accounts])[i] = d[fetch_accounts][i].key
          /\ DOMAIN KeysOf(d[fetch_accounts]) = DOMAIN d[fetch_accounts]
          /\ Len(d[fetch_accounts]) \in Nat
      BY <3>2, KeysOfType, EntryAt DEF KeysOf
    <3>4. w \in Wires /\ w # NoRequest
      BY <3>1, <3>3, Assumption DEF Wires, NoRequest, Assumption
    <3>5. Placed(w, d[fetch_accounts])
      BY <3>1, <3>3 DEF Placed
    <3>6. ~failed
      BY <2>2 DEF Inv, FetcherInv, PendingIsFetching
    <3> QED
      BY <3>4, <3>5, <3>6
  <2> QED
    BY <2>1, <2>2
<1> HIDE DEF w
<1>2. CASE driven
  <2>1. /\ seconds' = s /\ dict' = d /\ wire' = w /\ pending_fetch' = TRUE
        /\ UNCHANGED <<data, fetch_accounts, fetch_accounts_buffer, driven, errors, failed>>
    BY <1>2 DEF ManualProcess, w
  <2>2. FetcherOK'
    BY <1>1, <2>1, StateParts DEF FetcherOK
  <2>3. RequestedIsPrefix' /\ PendingIsFetching' /\ StuckIsIdle' /\ DataIsOwn'
    BY <1>1, <2>1, StateParts DEF RequestedIsPrefix, Placed, PendingIsFetching, StuckIsIdle, DataIsOwn
  <2>4. EntriesAreOwn(dict, had)' /\ EntriesAreDue(dict, seconds)'
    BY <2>1 DEF EntriesAreOwn, EntriesAreDue, Named
  <2> QED
    BY <2>2, <2>3, <2>4 DEF FetcherInv
<1>3. CASE ~driven
  <2>1. Drive(s, d, TRUE, w)
    BY <1>3 DEF ManualProcess, w
  <2> QED
    BY <1>1, <2>1, StateParts, DriveKeeps
<1> QED
  BY <1>2, <1>3

\* A step of the frame's loop: the turn moves on.
LEMMA TurnKeeps ==
  ASSUME Inv, turn \in DOMAIN Order, turn' = turn + 1, UNCHANGED <<key, rekeys, had>>
  PROVE  RestOK'
<1>1. Len(Order) \in Nat /\ DOMAIN Order = 1 .. Len(Order)
  BY Assumption, LenProperties DEF Assumption
<1>2. turn' \in 1 .. Len(Order) + 1
  BY <1>1
<1> QED
  BY <1>2 DEF Inv, RestOK

\* The frame of an Account, which may drive the fetcher.
LEMMA ProcessKeeps ==
  ASSUME Inv, NEW a \in Accounts, Process(a)
  PROVE  Inv'
<1> DEFINE s == [seconds EXCEPT ![a] = IF @ <= Max[a] THEN @ + 1 ELSE @]
           d == AddAccountToFetch(a)
           Passive == UNCHANGED <<data, fetch_accounts, fetch_accounts_buffer, pending_fetch,
                                  wire, driven, errors, failed>>
<1>1. seconds \in [Accounts -> Nat]
  BY StateParts
<1>2. s \in [Accounts -> Nat] /\ \A b \in Accounts : s[b] >= seconds[b]
  <2>1. \A b \in Accounts : s[b] \in Nat /\ s[b] >= seconds[b]
    <3> TAKE b \in Accounts
    <3>1. seconds[b] \in Nat
      BY <1>1
    <3>2. s[b] = seconds[b] \/ s[b] = seconds[b] + 1
      BY <1>1
    <3> HIDE DEF s
    <3> QED
      BY <3>1, <3>2
  <2>2. s = [b \in Accounts |-> s[b]]
    BY <1>1
  <2> HIDE DEF s
  <2> QED
    BY <2>1, <2>2
<1>3. /\ turn \in DOMAIN Order /\ turn' = turn + 1
      /\ UNCHANGED <<key, rekeys, had>>
  BY DEF Process
<1>4. \/ /\ seconds' = s /\ Passive /\ UNCHANGED dict
      \/ /\ s[a] >= Min[a] /\ seconds' = s /\ dict' = d /\ Passive
      \/ /\ s[a] >= Min[a] /\ ManualProcess(s, d)
  BY DEF Process
<1>5. s[a] >= Min[a] =>
        /\ d \in Dicts /\ EntriesAreOwn(d, had) /\ EntriesAreDue(d, s)
        /\ Placed(wire, d[fetch_accounts])
  BY <1>2, AddKeeps
<1>6. EntriesAreDue(dict, s)
  <2> SUFFICES ASSUME NEW j \in Named, NEW i \in DOMAIN dict[j]
               PROVE  s[dict[j][i].account] >= Min[dict[j][i].account]
    BY DEF EntriesAreDue
  <2> DEFINE b == dict[j][i].account
  <2>1. dict[j] \in Seq(Entry)
    BY DEF Inv, FetcherInv, FetcherOK, Dicts, Named
  <2>2. b \in Accounts
    BY <2>1, EntryAt
  <2>3. seconds[b] >= Min[b]
    BY DEF Inv, FetcherInv, EntriesAreDue
  <2> HIDE DEF s
  <2>4. s[b] \in Nat /\ seconds[b] \in Nat /\ Min[b] \in Nat /\ s[b] >= seconds[b]
    BY <1>1, <1>2, <2>2, Assumption DEF Assumption
  <2> HIDE DEF b
  <2>5. s[b] >= Min[b]
    BY <2>3, <2>4
  <2> QED
    BY <2>5 DEF b
<1> HIDE DEF s, d
<1>7. FetcherInv'
  <2>1. CASE seconds' = s /\ Passive /\ UNCHANGED dict
    BY <1>2, <1>3, <1>6, <2>1, StateParts, PassiveKeeps
  <2>2. CASE s[a] >= Min[a] /\ seconds' = s /\ dict' = d /\ Passive
    BY <1>2, <1>3, <1>5, <2>2, PassiveKeeps
  <2>3. CASE s[a] >= Min[a] /\ ManualProcess(s, d)
    BY <1>2, <1>3, <1>5, <2>3, ManualProcessKeeps
  <2> QED
    BY <1>4, <2>1, <2>2, <2>3
<1> QED
  BY <1>3, <1>7, TurnKeeps DEF Inv

\* The frame of the client, which may drive the fetcher.
LEMMA ProcessClientKeeps ==
  ASSUME Inv, ProcessClient
  PROVE  Inv'
<1>1. /\ turn \in DOMAIN Order /\ turn' = turn + 1
      /\ UNCHANGED <<key, rekeys, had>>
  BY DEF ProcessClient
<1>2. CASE driven
  <2>1. UNCHANGED <<seconds, data, dict, fetch_accounts, fetch_accounts_buffer, pending_fetch,
                    wire, driven, errors, failed>>
    BY <1>2 DEF ProcessClient
  <2>2. FetcherInv'
    BY <1>1, <2>1, StateParts, PassiveKeeps
  <2> QED
    BY <1>1, <2>2, TurnKeeps DEF Inv
<1>3. CASE ~driven
  <2>1. Drive(seconds, dict, pending_fetch, wire)
    BY <1>3 DEF ProcessClient
  <2>2. /\ pending_fetch \in BOOLEAN
        /\ pending_fetch <=> (wire # NoRequest \/ failed)
        /\ failed => wire = NoRequest
    BY DEF Inv, FetcherInv, FetcherOK, PendingIsFetching, StuckIsIdle
  <2>3. FetcherInv'
    BY <1>1, <2>1, <2>2, StateParts, DriveKeeps
  <2> QED
    BY <1>1, <2>3, TurnKeeps DEF Inv
<1> QED
  BY <1>2, <1>3

\* The fetcher when it is left alone, and what the nodes had has grown.
LEMMA FetcherRests ==
  ASSUME Inv, NEW h, h = had', \A a \in Accounts : had[a] \subseteq h[a],
         driven' \in BOOLEAN,
         UNCHANGED <<seconds, data, dict, fetch_accounts, fetch_accounts_buffer, pending_fetch,
                     wire, errors, failed>>
  PROVE  FetcherInv'
<1>1. FetcherOK'
  BY DEF Inv, FetcherInv, FetcherOK
<1>2. RequestedIsPrefix' /\ PendingIsFetching' /\ StuckIsIdle' /\ DataIsOwn'
  BY DEF Inv, FetcherInv, RequestedIsPrefix, PendingIsFetching, StuckIsIdle, DataIsOwn
<1>3. EntriesAreOwn(dict, had)'
  <2> SUFFICES ASSUME NEW j \in Named, NEW i \in DOMAIN dict[j]
               PROVE  dict[j][i].key \in h[dict[j][i].account]
    BY DEF EntriesAreOwn, Named
  <2>1. dict[j] \in Seq(Entry)
    BY DEF Inv, FetcherInv, FetcherOK, Dicts, Named
  <2>2. dict[j][i].account \in Accounts
    BY <2>1, EntryAt
  <2>3. dict[j][i].key \in had[dict[j][i].account]
    BY DEF Inv, FetcherInv, EntriesAreOwn
  <2> QED
    BY <2>2, <2>3
<1>4. EntriesAreDue(dict, seconds)'
  BY DEF Inv, FetcherInv, EntriesAreDue, Named
<1> QED
  BY <1>1, <1>2, <1>3, <1>4 DEF FetcherInv

\* The next frame begins with the first node.
LEMMA NextFrameKeeps ==
  ASSUME Inv, NextFrame
  PROVE  Inv'
<1>1. FetcherInv'
  BY FetcherRests DEF NextFrame
<1>2. RestOK'
  <2>1. Len(Order) \in Nat
    BY Assumption, LenProperties DEF Assumption
  <2>2. turn' \in 1 .. Len(Order) + 1
    BY <2>1 DEF NextFrame
  <2> QED
    BY <2>2 DEF NextFrame, Inv, RestOK
<1> QED
  BY <1>1, <1>2 DEF Inv

\* set_key adds to the keys an Account has had.
LEMMA SetKeyKeeps ==
  ASSUME Inv, NEW a \in Accounts, NEW k \in Keys, SetKey(a, k)
  PROVE  Inv'
<1>1. /\ key' = [key EXCEPT ![a] = k] /\ had' = [had EXCEPT ![a] = @ \cup {k}]
      /\ rekeys < MaxRekeys /\ rekeys' = rekeys + 1
      /\ UNCHANGED <<seconds, data, dict, fetch_accounts, fetch_accounts_buffer, pending_fetch,
                     wire, turn, driven, errors, failed>>
  BY DEF SetKey
<1>2. key \in [Accounts -> Keys] /\ had \in [Accounts -> SUBSET Keys]
  BY DEF Inv, RestOK
<1>3. FetcherInv'
  <2>1. \A b \in Accounts : had[b] \subseteq had'[b]
    BY <1>1, <1>2
  <2>2. driven' \in BOOLEAN
    BY <1>1, StateParts DEF FetcherOK
  <2> QED
    BY <1>1, <2>1, <2>2, FetcherRests
<1>4. rekeys' \in 0 .. MaxRekeys
  BY <1>1, Assumption DEF Inv, RestOK, Assumption
<1>5. key' \in [Accounts -> Keys] /\ had' \in [Accounts -> SUBSET Keys]
  BY <1>1, <1>2
<1>6. \A b \in Accounts : key'[b] \in had'[b]
  BY <1>1, <1>2 DEF Inv, RestOK
<1> QED
  BY <1>1, <1>3, <1>4, <1>5, <1>6 DEF Inv, RestOK

-----------------------------------------------------------------------------
(* The theorems. *)

\* Inv holds in every state of every run of the fetcher and its accounts.
LEMMA Invariance == Spec => []Inv
<1>1. Init => Inv
  BY InvInit
<1>2. Inv /\ [Next]_vars => Inv'
  <2> SUFFICES ASSUME Inv, [Next]_vars
               PROVE  Inv'
    OBVIOUS
  <2>1. ASSUME NEW a \in Accounts, Process(a)
        PROVE  Inv'
    BY <2>1, ProcessKeeps
  <2>2. CASE ProcessClient
    BY <2>2, ProcessClientKeeps
  <2>3. CASE NextFrame
    BY <2>3, NextFrameKeeps
  <2>4. ASSUME NEW a \in Accounts, NEW k \in Keys, SetKey(a, k)
        PROVE  Inv'
    BY <2>4, SetKeyKeeps
  <2>5. CASE UNCHANGED vars
    <3>1. FetcherInv'
      <4>1. /\ \A a \in Accounts : had[a] \subseteq had'[a]
            /\ driven' \in BOOLEAN
            /\ UNCHANGED <<seconds, data, dict, fetch_accounts, fetch_accounts_buffer,
                           pending_fetch, wire, errors, failed>>
        BY <2>5, StateParts DEF vars, FetcherOK
      <4> QED
        BY <4>1, FetcherRests
    <3>2. RestOK'
      BY <2>5 DEF vars, Inv, RestOK
    <3> QED
      BY <3>1, <3>2 DEF Inv
  <2> QED
    BY <2>1, <2>2, <2>3, <2>4, <2>5 DEF Next, Frame
<1> QED
  BY <1>1, <1>2, PTL DEF Spec

\* The state of Account::_process, the fetcher and its request is always of the
\* types TypeOK gives, whatever the tree, the keys, the intervals and the node.
THEOREM FetcherTypes == Spec => []TypeOK
BY Invariance, InvImplies, PTL

\* Accounts queued while an answer is due, into a Dictionary that may be the one
\* asked for, never move the keys update_accounts pairs with the answer's data.
THEOREM AnswersHaveTheirPlace == Spec => []RequestedIsPrefix
BY Invariance, InvImplies, PTL

\* update_accounts gives no Account the data of a key it never had.
THEOREM DataReachTheirOwner == Spec => []DataIsOwn
BY Invariance, InvImplies, PTL

\* pending_fetch is set exactly as long as the http client has the request, or
\* for good once it has failed.
THEOREM PendingTellsTheTruth == Spec => []PendingIsFetching
BY Invariance, InvImplies, PTL

\* No Account is asked for before its minimum interval is over.
THEOREM NothingIsFetchedEarly == Spec => []QueuedIsDue
BY Invariance, InvImplies, PTL
=============================================================================
