---------------------------- MODULE MessageProofs ----------------------------
(***************************************************************************)
(* The message of a transaction is right whatever calls have built it.     *)
(*                                                                         *)
(* The argument follows the list of merged metas.  add only lets it grow:  *)
(* an account keeps its place, its rights and its keypair (Grown), and     *)
(* what was added is covered (Covers); and a right that appears in it is   *)
(* one of what was added (Justified, Owned).  Both hold of the two loops   *)
(* by induction on their turns (UpTo).  sort only arranges the list        *)
(* (Arranges), in the order the header counts (Ordered).  So a message is  *)
(* right when it is built.  It stays right because set_signers changes     *)
(* nothing but the object that signs; and the next one is right because    *)
(* the objects that merging has changed still have at least what they were *)
(* made with, and no right nobody asks for (WellKept).                     *)
(***************************************************************************)
EXTENDS Message, FiniteSetTheorems, SequenceTheorems, WellFoundedInduction, TLAPS

Entries == [obj : Metas \cup {Fresh}, meta : AccountMetas]
Lists == Seq(Entries)

\* The meta m stands for the same account as n, with its rights and its keypair at least.
AtLeast(m, n) ==
  /\ m.key.addr = n.key.addr
  /\ n.is_signer => m.is_signer
  /\ n.writeable => m.writeable
  /\ n.key.kind = "keypair" => m.key.kind = "keypair"

\* Every right of m is one that a meta of given asks for, of the same account.
Justified(m, given) ==
  /\ m.is_signer => \E n \in given : n.key.addr = m.key.addr /\ n.is_signer
  /\ m.writeable => \E n \in given : n.key.addr = m.key.addr /\ n.writeable

\* What the program has asked for, in the instructions is.  Here and below ask
\* are the metas as they were made.
Used(is) == UNION {ToSet(Ix[i].accounts) : i \in ToSet(is)}
AskedBy(ask, is) == {ask[m] : m \in Used(is)}

\* No account is twice in the list, and the payer is its first.
Distinct(list) ==
  \A i, j \in DOMAIN list : list[i].meta.key.addr = list[j].meta.key.addr => i = j
PayerFirst(list, p) ==
  /\ list # <<>> /\ list[1].obj = Fresh /\ list[1].meta.key.addr = p.addr
  /\ list[1].meta.is_signer /\ list[1].meta.writeable
  /\ p.kind = "keypair" => list[1].meta.key.kind = "keypair"

\* The header says of a list who signs and who writes.
Ordered(list) ==
  LET h == Header(list)
  IN /\ Signers(list) = 1 .. h.signatures
     /\ Places(list, TRUE, FALSE) = (h.signatures - h.readonly_signed + 1) .. h.signatures
     /\ Places(list, FALSE, FALSE) = (Len(list) - h.readonly_unsigned + 1) .. Len(list)

\* The compiled instruction c has the places of what i names.
Compiled(ask, list, c, i) ==
  /\ c = [program |-> c.program, accounts |-> c.accounts]
  /\ c.program \in DOMAIN list /\ list[c.program].meta.key.addr = Ix[i].program
  /\ c.accounts \in Seq(DOMAIN list) /\ DOMAIN c.accounts = DOMAIN Ix[i].accounts
  /\ \A j \in DOMAIN Ix[i].accounts : AtLeast(list[c.accounts[j]].meta, ask[Ix[i].accounts[j]])

\* The list of a message, of instructions and payer.
WellListed(ask, list, is, p, rep) ==
  /\ list \in Lists /\ Distinct(list) /\ PayerFirst(list, p) /\ Ordered(list)
  /\ \A n \in DOMAIN list :
       /\ ~rep /\ n # 1 => Justified(list[n].meta, AskedBy(ask, is))
       /\ list[n].obj # Fresh => AtLeast(list[n].meta, ask[list[n].obj])

WellBuilt(ask, msg, is, p, rep) ==
  /\ is # <<>> /\ p \in Payers
  /\ msg = [metas |-> msg.metas, header |-> msg.header, compiled |-> msg.compiled]
  /\ WellListed(ask, msg.metas, is, p, rep)
  /\ msg.header = Header(msg.metas)
  /\ msg.compiled = [n \in DOMAIN is |-> msg.compiled[n]]
  /\ \A n \in DOMAIN is : Compiled(ask, msg.metas, msg.compiled[n], is[n])

\* The objects of the program have at least what they were made with, and what
\* was merged into them.
WellKept(ask, h, is, rep) ==
  /\ h \in [Metas -> AccountMetas]
  /\ \A m \in Metas :
       /\ AtLeast(h[m], ask[m])
       /\ ~rep => Justified(h[m], {ask[m]} \cup AskedBy(ask, is))

Typed ==
  /\ asked \in [Metas -> AccountMetas] /\ replaced \in BOOLEAN
  /\ instructions \in Seq(DOMAIN Ix) /\ payer \in Payers \cup {NoPayer}

IInv ==
  /\ Typed
  /\ WellKept(asked, heap, instructions, replaced)
  /\ message # NoMessage => WellBuilt(asked, message, instructions, payer, replaced)

-----------------------------------------------------------------------------
(* Natural numbers.                                                        *)

\* A set of naturals has a least element.
LEMMA Least ==
  ASSUME NEW T \in SUBSET Nat, T # {}
  PROVE  \E x \in T : \A y \in T : x <= y
<1> DEFINE Less == OpToRel(<, Nat)
<1>1. \A x, y \in Nat : x < y => <<x, y>> \in Less
  BY DEF OpToRel
<1>2. IsWellFoundedOn(Less, Nat)
  BY NatLessThanWellFounded
<1> HIDE DEF Less
<1>3. PICK x \in T : \A y \in T : <<y, x>> \notin Less
  BY <1>2, WFMin
<1>4. \A y \in T : x <= y
  <2> SUFFICES ASSUME NEW y \in T
               PROVE  x <= y
    OBVIOUS
  <2>1. x \in Nat /\ y \in Nat
    BY <1>3
  <2>2. ~(y < x)
    BY <2>1, <1>1, <1>3
  <2> QED
    BY <2>1, <2>2
<1> QED
  BY <1>3, <1>4

\* Induction up to N, for a set.
LEMMA UpTo ==
  ASSUME NEW N \in Nat, NEW T \in SUBSET (0 .. N), 0 \in T,
         \A n \in T : n < N => n + 1 \in T
  PROVE  T = 0 .. N
<1> SUFFICES ASSUME (0 .. N) \ T # {}
             PROVE  FALSE
  OBVIOUS
<1>1. (0 .. N) \ T \in SUBSET Nat
  OBVIOUS
<1>2. PICK x \in (0 .. N) \ T : \A y \in (0 .. N) \ T : x <= y
  <2> DEFINE R == (0 .. N) \ T
  <2>1. R \in SUBSET Nat /\ R # {}
    BY <1>1
  <2> HIDE DEF R
  <2>2. \E x \in R : \A y \in R : x <= y
    BY <2>1, Least
  <2> QED
    BY <2>2 DEF R
<1>3. x # 0 /\ x - 1 \in 0 .. N
  BY <1>2
<1>4. x - 1 \in T
  BY <1>2, <1>3
<1> QED
  BY <1>2, <1>3, <1>4

-----------------------------------------------------------------------------
(* Metas.                                                                  *)

\* The fields of a meta.
LEMMA MetaFields ==
  ASSUME NEW m \in AccountMetas
  PROVE  /\ m.key \in Key /\ m.key.addr \in Accounts /\ m.key.kind \in Kinds
         /\ m.is_signer \in BOOLEAN /\ m.writeable \in BOOLEAN
BY DEF AccountMetas, Key

\* At least what it is.
LEMMA AtLeastItself == \A m \in AccountMetas : AtLeast(m, m)
BY DEF AtLeast

\* What is at least m is at least what m is.
LEMMA AtLeastTransitive ==
  ASSUME NEW l, NEW m, NEW n, AtLeast(l, m), AtLeast(m, n)
  PROVE  AtLeast(l, n)
BY DEF AtLeast

\* The key of one of the two: the keypair, if there is one.
LEMMA PreferredIsOne ==
  ASSUME NEW l \in Key, NEW r \in Key
  PROVE  /\ PreferredSigner(l, r) \in {l, r}
         /\ l.kind = "keypair" \/ r.kind = "keypair" => PreferredSigner(l, r).kind = "keypair"
BY DEF PreferredSigner

\* A merged meta has what both have, and nothing else.
LEMMA MergeIsBoth ==
  ASSUME NEW m \in AccountMetas, NEW n \in AccountMetas, m.key.addr = n.key.addr
  PROVE  /\ Merge(m, n) \in AccountMetas
         /\ AtLeast(Merge(m, n), m) /\ AtLeast(Merge(m, n), n)
         /\ \A given : Justified(m, given) /\ Justified(n, given) => Justified(Merge(m, n), given)
<1> DEFINE k == PreferredSigner(m.key, n.key)
<1>1. m.key \in Key /\ n.key \in Key /\ m.is_signer \in BOOLEAN /\ n.is_signer \in BOOLEAN
      /\ m.writeable \in BOOLEAN /\ n.writeable \in BOOLEAN
  BY MetaFields
<1>2. /\ k \in Key /\ k.addr = m.key.addr
      /\ m.key.kind = "keypair" => k.kind = "keypair"
      /\ n.key.kind = "keypair" => k.kind = "keypair"
  BY <1>1, PreferredIsOne
<1> HIDE DEF k
<1>3. Merge(m, n) = [key |-> k, is_signer |-> m.is_signer \/ n.is_signer, writeable |-> m.writeable \/ n.writeable]
  BY DEF Merge, Meta, k
<1>4. /\ Merge(m, n).key = k
      /\ Merge(m, n).is_signer = (m.is_signer \/ n.is_signer)
      /\ Merge(m, n).writeable = (m.writeable \/ n.writeable)
  BY <1>3
<1>5. Merge(m, n) \in AccountMetas
  BY <1>1, <1>2, <1>3 DEF AccountMetas
<1>6. AtLeast(Merge(m, n), m)
  BY <1>2, <1>4 DEF AtLeast
<1>7. AtLeast(Merge(m, n), n)
  BY <1>2, <1>4 DEF AtLeast
<1>8. \A given : Justified(m, given) /\ Justified(n, given) => Justified(Merge(m, n), given)
  BY <1>1, <1>2, <1>4 DEF Justified
<1> QED
  BY <1>5, <1>6, <1>7, <1>8

-----------------------------------------------------------------------------
(* Lists.                                                                  *)

\* A list is a function from its places.
LEMMA ListFields ==
  ASSUME NEW list \in Lists
  PROVE  Len(list) \in Nat /\ DOMAIN list = 1 .. Len(list) /\ list \in [1 .. Len(list) -> Entries]
BY LenProperties DEF Lists

\* What is at a place of a list.
LEMMA EntryFields ==
  ASSUME NEW list \in Lists, NEW i \in DOMAIN list
  PROVE  /\ list[i] \in Entries /\ list[i].meta \in AccountMetas
         /\ list[i].obj \in Metas \cup {Fresh}
         /\ list[i] = [obj |-> list[i].obj, meta |-> list[i].meta]
<1>1. list[i] \in Entries
  BY ListFields
<1> QED
  BY <1>1 DEF Entries

\* find returns a place of the account, and 0 only if there is none.
LEMMA FindsPlace ==
  ASSUME NEW list \in Lists, NEW key
  PROVE  \/ /\ Find(list, key) \in DOMAIN list /\ Find(list, key) # 0
            /\ list[Find(list, key)].meta.key.addr = key.addr
         \/ /\ Find(list, key) = 0
            /\ \A n \in DOMAIN list : list[n].meta.key.addr # key.addr
<1> DEFINE I == {i \in 1 .. Len(list) : list[i].meta.key.addr = key.addr}
<1>1. Len(list) \in Nat /\ DOMAIN list = 1 .. Len(list)
  BY ListFields
<1>2. Find(list, key) = IF I # {} THEN Min(I) ELSE 0
  BY DEF Find, SelectInSeq
<1>3. CASE I = {}
  BY <1>1, <1>2, <1>3
<1>4. CASE I # {}
  <2>1. I \in SUBSET Nat
    OBVIOUS
  <2> HIDE DEF I
  <2>2. \E x \in I : \A y \in I : x <= y
    BY <2>1, <1>4, Least
  <2>3. Find(list, key) \in I
    BY <1>2, <1>4, <2>2 DEF Min
  <2>4. Find(list, key) \in 1 .. Len(list) /\ list[Find(list, key)].meta.key.addr = key.addr
    BY <2>3 DEF I
  <2> QED
    BY <1>1, <2>4
<1> QED
  BY <1>3, <1>4

\* The list next has at least what list has, at its places.
Grown(list, next) ==
  /\ Len(list) <= Len(next)
  /\ \A i \in DOMAIN list : next[i].obj = list[i].obj /\ AtLeast(next[i].meta, list[i].meta)

Covers(list, m) == \E i \in DOMAIN list : AtLeast(list[i].meta, m)

\* What may be added, and a list of it: an object of the program has at least the
\* rights it had, and every right is asked for by given.
Owned(e, given) ==
  /\ Justified(e.meta, given)
  /\ e.obj # Fresh => AtLeast(e.meta, heap[e.obj])
Merging(list, given) ==
  /\ list \in Lists /\ Distinct(list)
  /\ \A i \in DOMAIN list : Owned(list[i], given)

\* A list has grown from itself, if by nothing.
LEMMA GrownItself == \A list \in Lists : Grown(list, list)
BY EntryFields, AtLeastItself, ListFields DEF Grown

\* And from whatever it has grown from.
LEMMA GrownTransitive ==
  ASSUME NEW l \in Lists, NEW m \in Lists, NEW n \in Lists, Grown(l, m), Grown(m, n)
  PROVE  Grown(l, n)
BY AtLeastTransitive, ListFields DEF Grown

\* What is covered stays so.
LEMMA StillCovers ==
  ASSUME NEW l \in Lists, NEW n \in Lists, Grown(l, n), NEW m, Covers(l, m)
  PROVE  Covers(n, m)
BY AtLeastTransitive, ListFields DEF Grown, Covers

\* merge_at: the place of the account has the rights of both.
LEMMA MergesAt ==
  ASSUME NEW list \in Lists, NEW i \in DOMAIN list, NEW m \in AccountMetas,
         list[i].meta.key.addr = m.key.addr
  PROVE  LET next == MergeAt(list, i, m)
         IN /\ next \in Lists /\ Len(next) = Len(list) /\ DOMAIN next = DOMAIN list
            /\ \A j \in DOMAIN list : next[j].obj = list[j].obj
            /\ \A j \in DOMAIN list : j # i => next[j] = list[j]
            /\ next[i].meta = Merge(list[i].meta, m)
<1> DEFINE e == [obj |-> list[i].obj, meta |-> Merge(list[i].meta, m)]
           next == MergeAt(list, i, m)
<1>1. list[i].meta \in AccountMetas /\ list[i].obj \in Metas \cup {Fresh}
      /\ list[i] = [obj |-> list[i].obj, meta |-> list[i].meta]
  BY EntryFields
<1>2. Merge(list[i].meta, m) \in AccountMetas
  BY <1>1, MergeIsBoth
<1>3. e \in Entries
  BY <1>1, <1>2 DEF Entries
<1>4. next = [list EXCEPT ![i] = e]
  <2>1. [list[i] EXCEPT !.meta = Merge(list[i].meta, m)] = e
    BY <1>1
  <2> QED
    BY <2>1 DEF MergeAt
<1>5. i \in 1 .. Len(list) /\ DOMAIN list = 1 .. Len(list) /\ Len(list) \in Nat
  BY ListFields
<1> HIDE DEF e, next
<1>6. next \in Lists /\ Len(next) = Len(list)
      /\ \A j \in 1 .. Len(list) : next[j] = IF j = i THEN e ELSE list[j]
  BY <1>3, <1>4, <1>5, ExceptSeq DEF Lists
<1>7. DOMAIN next = DOMAIN list
  BY <1>5, <1>6, ListFields
<1>8. e.obj = list[i].obj /\ e.meta = Merge(list[i].meta, m)
  BY DEF e
<1> QED
  BY <1>5, <1>6, <1>7, <1>8 DEF next

\* add: the account of e is covered, and nobody else gets anything.
LEMMA AddMerges ==
  ASSUME NEW given, NEW list, Merging(list, given), NEW e \in Entries, Owned(e, given)
  PROVE  LET next == Add(list, e)
         IN Merging(next, given) /\ Grown(list, next) /\ Covers(next, e.meta)
<1> DEFINE i == Find(list, e.meta.key)
           next == Add(list, e)
<1>1. list \in Lists /\ Distinct(list) /\ \A j \in DOMAIN list : Owned(list[j], given)
  BY DEF Merging
<1>2. e.meta \in AccountMetas /\ e.obj \in Metas \cup {Fresh}
  BY DEF Entries
<1>3. Len(list) \in Nat /\ DOMAIN list = 1 .. Len(list)
  BY <1>1, ListFields
<1>4. \A j \in DOMAIN list : list[j].meta \in AccountMetas
  BY <1>1, EntryFields
<1>5. CASE i = 0
  <2>1. next = Append(list, e)
    BY <1>5 DEF Add
  <2>2. \A j \in DOMAIN list : list[j].meta.key.addr # e.meta.key.addr
    <3> HIDE DEF i
    <3>1. \/ i \in DOMAIN list /\ i # 0
          \/ \A n \in DOMAIN list : list[n].meta.key.addr # e.meta.key.addr
      BY <1>1, FindsPlace DEF i
    <3> QED
      BY <3>1, <1>5
  <2> HIDE DEF next, i
  <2>3. next \in Lists /\ Len(next) = Len(list) + 1
        /\ (\A j \in 1 .. Len(list) : next[j] = list[j]) /\ next[Len(list) + 1] = e
    BY <2>1, <1>1, AppendProperties DEF Lists
  <2>4. DOMAIN next = 1 .. Len(list) + 1
    BY <2>3, ListFields
  <2>5. Distinct(next)
    BY <1>1, <1>3, <2>2, <2>3, <2>4 DEF Distinct
  <2>6. \A j \in DOMAIN next : Owned(next[j], given)
    BY <1>1, <1>3, <2>3, <2>4
  <2>7. Grown(list, next)
    BY <1>3, <1>4, <2>3, AtLeastItself DEF Grown
  <2>8. Covers(next, e.meta)
    BY <1>2, <1>3, <2>3, <2>4, AtLeastItself DEF Covers
  <2> QED
    BY <2>3, <2>5, <2>6, <2>7, <2>8 DEF Merging, next
<1>6. CASE i # 0
  <2>1. next = MergeAt(list, i, e.meta)
    BY <1>6 DEF Add
  <2>2. i \in DOMAIN list /\ list[i].meta.key.addr = e.meta.key.addr
    <3>1. \/ i \in DOMAIN list /\ list[i].meta.key.addr = e.meta.key.addr
          \/ i = 0
      BY <1>1, FindsPlace
    <3> QED
      BY <3>1, <1>6
  <2> HIDE DEF next, i
  <2>3. /\ next \in Lists /\ Len(next) = Len(list) /\ DOMAIN next = DOMAIN list
        /\ \A j \in DOMAIN list : next[j].obj = list[j].obj
        /\ \A j \in DOMAIN list : j # i => next[j] = list[j]
        /\ next[i].meta = Merge(list[i].meta, e.meta)
    BY <1>1, <1>2, <2>1, <2>2, MergesAt
  <2>4. /\ AtLeast(next[i].meta, list[i].meta) /\ AtLeast(next[i].meta, e.meta)
        /\ Justified(list[i].meta, given) /\ Justified(e.meta, given) => Justified(next[i].meta, given)
    BY <1>2, <1>4, <2>2, <2>3, MergeIsBoth
  <2>5. \A j \in DOMAIN list : AtLeast(next[j].meta, list[j].meta)
    BY <1>4, <2>3, <2>4, AtLeastItself
  <2>6. Distinct(next)
    <3>1. \A j \in DOMAIN list : next[j].meta.key.addr = list[j].meta.key.addr
      BY <2>5 DEF AtLeast
    <3> QED
      BY <1>1, <2>3, <3>1 DEF Distinct
  <2>7. \A j \in DOMAIN next : Owned(next[j], given)
    <3>1. Owned(next[i], given)
      <4>1. Justified(next[i].meta, given)
        BY <1>1, <2>2, <2>4 DEF Owned
      <4>2. next[i].obj # Fresh => AtLeast(next[i].meta, heap[next[i].obj])
        BY <1>1, <2>2, <2>3, <2>4, AtLeastTransitive DEF Owned
      <4> QED
        BY <4>1, <4>2 DEF Owned
    <3> QED
      BY <1>1, <2>3, <3>1
  <2>8. Grown(list, next)
    BY <1>3, <2>3, <2>5 DEF Grown
  <2>9. Covers(next, e.meta)
    BY <2>2, <2>3, <2>4 DEF Covers
  <2> QED
    BY <2>3, <2>6, <2>7, <2>8, <2>9 DEF Merging, next
<1> QED
  BY <1>5, <1>6

-----------------------------------------------------------------------------
(* from_instructions: its two loops.                                       *)

\* The loops are functions that exist.
LEMMA AddAllIsLoop ==
  ASSUME NEW list, NEW entries \in Seq(Entries)
  PROVE  \E f : /\ f = [n \in 0 .. Len(entries) |-> IF n = 0 THEN list ELSE Add(f[n - 1], entries[n])]
                /\ AddAll(list, entries) = f[Len(entries)]
<1> DEFINE Upto(f, m) == f = [n \in 0 .. m |-> IF n = 0 THEN list ELSE Add(f[n - 1], entries[n])]
           T == {m \in 0 .. Len(entries) : \E f : Upto(f, m)}
<1>1. Len(entries) \in Nat
  BY LenProperties
<1>2. 0 \in T
  <2> DEFINE g == [n \in 0 .. 0 |-> list]
  <2>1. Upto(g, 0)
    OBVIOUS
  <2> HIDE DEF Upto
  <2> QED
    BY <2>1, <1>1
<1>3. ASSUME NEW m \in T, m < Len(entries)
      PROVE  m + 1 \in T
  <2>1. PICK f : Upto(f, m)
    OBVIOUS
  <2> DEFINE g == [n \in 0 .. (m + 1) |-> IF n = m + 1 THEN Add(f[n - 1], entries[n]) ELSE f[n]]
  <2>2. m \in Nat /\ m + 1 \in 0 .. Len(entries)
    BY <1>1, <1>3
  <2>3. ASSUME NEW n \in 0 .. (m + 1)
        PROVE  g[n] = IF n = 0 THEN list ELSE Add(g[n - 1], entries[n])
    <3>1. CASE n = m + 1
      <4>1. n # 0 /\ n - 1 \in 0 .. (m + 1) /\ n - 1 # m + 1
        BY <2>2, <3>1
      <4>2. g[n - 1] = f[n - 1]
        BY <4>1
      <4>3. g[n] = Add(f[n - 1], entries[n])
        BY <3>1
      <4> QED
        BY <4>1, <4>2, <4>3
    <3>2. CASE n # m + 1
      <4>1. n \in 0 .. m /\ g[n] = f[n]
        BY <2>2, <3>2
      <4>2. f[n] = IF n = 0 THEN list ELSE Add(f[n - 1], entries[n])
        BY <2>1, <4>1
      <4>3. n # 0 => n - 1 \in 0 .. (m + 1) /\ n - 1 # m + 1
        BY <2>2, <4>1
      <4>4. n # 0 => g[n - 1] = f[n - 1]
        BY <4>3
      <4> QED
        BY <4>1, <4>2, <4>4
    <3> QED
      BY <3>1, <3>2
  <2>4. Upto(g, m + 1)
    <3> DEFINE h == [n \in 0 .. (m + 1) |-> IF n = 0 THEN list ELSE Add(g[n - 1], entries[n])]
    <3>1. \A n \in 0 .. (m + 1) : g[n] = h[n]
      BY <2>3
    <3>2. g = [n \in 0 .. (m + 1) |-> g[n]] /\ h = [n \in 0 .. (m + 1) |-> h[n]]
      OBVIOUS
    <3>3. g = h
      <4> HIDE DEF g, h
      <4> QED
        BY <3>1, <3>2
    <3> QED
      BY <3>3
  <2> HIDE DEF Upto, g
  <2> QED
    BY <2>2, <2>4
<1>4. T = 0 .. Len(entries)
  <2> HIDE DEF T
  <2>1. T \in SUBSET (0 .. Len(entries))
    BY DEF T
  <2> QED
    BY <1>1, <1>2, <1>3, <2>1, UpTo
<1>5. \E f : Upto(f, Len(entries))
  <2>1. Len(entries) \in T
    BY <1>1, <1>4
  <2> HIDE DEF Upto
  <2> QED
    BY <2>1
<1> DEFINE c == CHOOSE f : Upto(f, Len(entries))
<1>6. Upto(c, Len(entries))
  <2> HIDE DEF Upto
  <2> QED
    BY <1>5
<1>7. AddAll(list, entries) = c[Len(entries)]
  BY DEF AddAll
<1> HIDE DEF c
<1> QED
  BY <1>6, <1>7

\* The outer loop, over the instructions, is there as well.
LEMMA FromInstructionsIsLoop ==
  ASSUME NEW list, NEW is \in Seq(DOMAIN Ix)
  PROVE  \E f : /\ f = [n \in 0 .. Len(is) |-> IF n = 0 THEN list ELSE AddAll(f[n - 1], EntriesOf(is[n]))]
                /\ FromInstructions(list, is) = f[Len(is)]
<1> DEFINE Upto(f, m) == f = [n \in 0 .. m |-> IF n = 0 THEN list ELSE AddAll(f[n - 1], EntriesOf(is[n]))]
           T == {m \in 0 .. Len(is) : \E f : Upto(f, m)}
<1>1. Len(is) \in Nat
  BY LenProperties
<1>2. 0 \in T
  <2> DEFINE g == [n \in 0 .. 0 |-> list]
  <2>1. Upto(g, 0)
    OBVIOUS
  <2> HIDE DEF Upto
  <2> QED
    BY <2>1, <1>1
<1>3. ASSUME NEW m \in T, m < Len(is)
      PROVE  m + 1 \in T
  <2>1. PICK f : Upto(f, m)
    OBVIOUS
  <2> DEFINE g == [n \in 0 .. (m + 1) |-> IF n = m + 1 THEN AddAll(f[n - 1], EntriesOf(is[n])) ELSE f[n]]
  <2>2. m \in Nat /\ m + 1 \in 0 .. Len(is)
    BY <1>1, <1>3
  <2>3. ASSUME NEW n \in 0 .. (m + 1)
        PROVE  g[n] = IF n = 0 THEN list ELSE AddAll(g[n - 1], EntriesOf(is[n]))
    <3>1. CASE n = m + 1
      <4>1. n # 0 /\ n - 1 \in 0 .. (m + 1) /\ n - 1 # m + 1
        BY <2>2, <3>1
      <4>2. g[n - 1] = f[n - 1]
        BY <4>1
      <4>3. g[n] = AddAll(f[n - 1], EntriesOf(is[n]))
        BY <3>1
      <4> QED
        BY <4>1, <4>2, <4>3
    <3>2. CASE n # m + 1
      <4>1. n \in 0 .. m /\ g[n] = f[n]
        BY <2>2, <3>2
      <4>2. f[n] = IF n = 0 THEN list ELSE AddAll(f[n - 1], EntriesOf(is[n]))
        BY <2>1, <4>1
      <4>3. n # 0 => n - 1 \in 0 .. (m + 1) /\ n - 1 # m + 1
        BY <2>2, <4>1
      <4>4. n # 0 => g[n - 1] = f[n - 1]
        BY <4>3
      <4> QED
        BY <4>1, <4>2, <4>4
    <3> QED
      BY <3>1, <3>2
  <2>4. Upto(g, m + 1)
    <3> DEFINE h == [n \in 0 .. (m + 1) |-> IF n = 0 THEN list ELSE AddAll(g[n - 1], EntriesOf(is[n]))]
    <3>1. \A n \in 0 .. (m + 1) : g[n] = h[n]
      BY <2>3
    <3>2. g = [n \in 0 .. (m + 1) |-> g[n]] /\ h = [n \in 0 .. (m + 1) |-> h[n]]
      OBVIOUS
    <3>3. g = h
      <4> HIDE DEF g, h
      <4> QED
        BY <3>1, <3>2
    <3> QED
      BY <3>3
  <2> HIDE DEF Upto, g
  <2> QED
    BY <2>2, <2>4
<1>4. T = 0 .. Len(is)
  <2> HIDE DEF T
  <2>1. T \in SUBSET (0 .. Len(is))
    BY DEF T
  <2> QED
    BY <1>1, <1>2, <1>3, <2>1, UpTo
<1>5. \E f : Upto(f, Len(is))
  <2>1. Len(is) \in T
    BY <1>1, <1>4
  <2> HIDE DEF Upto
  <2> QED
    BY <2>1
<1> DEFINE c == CHOOSE f : Upto(f, Len(is))
<1>6. Upto(c, Len(is))
  <2> HIDE DEF Upto
  <2> QED
    BY <1>5
<1>7. FromInstructions(list, is) = c[Len(is)]
  BY DEF FromInstructions
<1> HIDE DEF c
<1> QED
  BY <1>6, <1>7

\* The inner loop covers every entry.
LEMMA AddAllMerges ==
  ASSUME NEW given, NEW list, Merging(list, given), NEW entries \in Seq(Entries),
         \A n \in DOMAIN entries : Owned(entries[n], given)
  PROVE  LET next == AddAll(list, entries)
         IN /\ Merging(next, given) /\ Grown(list, next)
            /\ \A n \in DOMAIN entries : Covers(next, entries[n].meta)
<1>1. PICK f : /\ f = [n \in 0 .. Len(entries) |-> IF n = 0 THEN list ELSE Add(f[n - 1], entries[n])]
               /\ AddAll(list, entries) = f[Len(entries)]
  BY AddAllIsLoop
<1>2. Len(entries) \in Nat /\ DOMAIN entries = 1 .. Len(entries)
  BY LenProperties
<1>3. f[0] = list /\ \A n \in 1 .. Len(entries) : f[n] = Add(f[n - 1], entries[n])
  BY <1>1, <1>2
<1> DEFINE Done(n) == /\ Merging(f[n], given) /\ Grown(list, f[n])
                      /\ \A k \in 1 .. n : Covers(f[n], entries[k].meta)
           T == {n \in 0 .. Len(entries) : Done(n)}
<1>4. 0 \in T
  BY <1>2, <1>3, GrownItself DEF Merging
<1>5. ASSUME NEW n \in T, n < Len(entries)
      PROVE  n + 1 \in T
  <2>1. n \in Nat /\ n + 1 \in 0 .. Len(entries) /\ n + 1 \in 1 .. Len(entries) /\ (n + 1) - 1 = n
    BY <1>2, <1>5
  <2>2. f[n + 1] = Add(f[n], entries[n + 1])
    BY <1>3, <2>1
  <2>3. entries[n + 1] \in Entries /\ Owned(entries[n + 1], given)
    BY <1>2, <2>1, ElementOfSeq
  <2>4. Merging(f[n], given)
    OBVIOUS
  <2>5. /\ Merging(f[n + 1], given) /\ Grown(f[n], f[n + 1])
        /\ Covers(f[n + 1], entries[n + 1].meta)
    BY <2>2, <2>3, <2>4, AddMerges
  <2>6. f[n] \in Lists /\ f[n + 1] \in Lists /\ list \in Lists
    BY <2>4, <2>5 DEF Merging
  <2>7. Grown(list, f[n + 1])
    BY <2>5, <2>6, GrownTransitive
  <2>8. ASSUME NEW k \in 1 .. n + 1
        PROVE  Covers(f[n + 1], entries[k].meta)
    <3>1. CASE k = n + 1
      BY <2>5, <3>1
    <3>2. CASE k # n + 1
      <4>1. k \in 1 .. n
        BY <2>1, <3>2
      <4>2. Covers(f[n], entries[k].meta)
        BY <4>1
      <4> QED
        BY <2>5, <2>6, <4>2, StillCovers
    <3> QED
      BY <3>1, <3>2
  <2>9. Done(n + 1)
    BY <2>5, <2>7, <2>8
  <2> HIDE DEF Done
  <2> QED
    BY <2>1, <2>9
<1>6. Len(entries) \in T
  <2> HIDE DEF T
  <2>1. T \in SUBSET (0 .. Len(entries))
    BY DEF T
  <2>2. T = 0 .. Len(entries)
    BY <1>2, <1>4, <1>5, <2>1, UpTo
  <2> QED
    BY <1>2, <2>2
<1> QED
  BY <1>1, <1>2, <1>6

\* The outer loop covers every entry of every instruction.
LEMMA FromInstructionsMerges ==
  ASSUME NEW given, NEW list, Merging(list, given), NEW is \in Seq(DOMAIN Ix),
         \A n \in DOMAIN is : /\ EntriesOf(is[n]) \in Seq(Entries)
                              /\ \A k \in DOMAIN EntriesOf(is[n]) : Owned(EntriesOf(is[n])[k], given)
  PROVE  LET next == FromInstructions(list, is)
         IN /\ Merging(next, given) /\ Grown(list, next)
            /\ \A n \in DOMAIN is : \A k \in DOMAIN EntriesOf(is[n]) : Covers(next, EntriesOf(is[n])[k].meta)
<1>1. PICK f : /\ f = [n \in 0 .. Len(is) |-> IF n = 0 THEN list ELSE AddAll(f[n - 1], EntriesOf(is[n]))]
               /\ FromInstructions(list, is) = f[Len(is)]
  BY FromInstructionsIsLoop
<1>2. Len(is) \in Nat /\ DOMAIN is = 1 .. Len(is)
  BY LenProperties
<1>3. f[0] = list /\ \A n \in 1 .. Len(is) : f[n] = AddAll(f[n - 1], EntriesOf(is[n]))
  BY <1>1, <1>2
<1> DEFINE Done(n) == /\ Merging(f[n], given) /\ Grown(list, f[n])
                      /\ \A m \in 1 .. n : \A k \in DOMAIN EntriesOf(is[m]) : Covers(f[n], EntriesOf(is[m])[k].meta)
           T == {n \in 0 .. Len(is) : Done(n)}
<1>4. 0 \in T
  BY <1>2, <1>3, GrownItself DEF Merging
<1>5. ASSUME NEW n \in T, n < Len(is)
      PROVE  n + 1 \in T
  <2>1. n \in Nat /\ n + 1 \in 0 .. Len(is) /\ n + 1 \in 1 .. Len(is) /\ (n + 1) - 1 = n
    BY <1>2, <1>5
  <2> DEFINE entries == EntriesOf(is[n + 1])
  <2>2. f[n + 1] = AddAll(f[n], entries)
    BY <1>3, <2>1
  <2>3. entries \in Seq(Entries) /\ \A k \in DOMAIN entries : Owned(entries[k], given)
    BY <1>2, <2>1
  <2>4. Merging(f[n], given)
    OBVIOUS
  <2> HIDE DEF entries
  <2>5. /\ Merging(f[n + 1], given) /\ Grown(f[n], f[n + 1])
        /\ \A k \in DOMAIN entries : Covers(f[n + 1], entries[k].meta)
    BY <2>2, <2>3, <2>4, AddAllMerges
  <2>6. f[n] \in Lists /\ f[n + 1] \in Lists /\ list \in Lists
    BY <2>4, <2>5 DEF Merging
  <2>7. Grown(list, f[n + 1])
    BY <2>5, <2>6, GrownTransitive
  <2>8. ASSUME NEW m \in 1 .. n + 1, NEW k \in DOMAIN EntriesOf(is[m])
        PROVE  Covers(f[n + 1], EntriesOf(is[m])[k].meta)
    <3>1. CASE m = n + 1
      BY <2>5, <3>1 DEF entries
    <3>2. CASE m # n + 1
      <4>1. m \in 1 .. n
        BY <2>1, <3>2
      <4>2. Covers(f[n], EntriesOf(is[m])[k].meta)
        BY <4>1
      <4> QED
        BY <2>5, <2>6, <4>2, StillCovers
    <3> QED
      BY <3>1, <3>2
  <2>9. Done(n + 1)
    BY <2>5, <2>7, <2>8
  <2> HIDE DEF Done
  <2> QED
    BY <2>1, <2>9
<1>6. Len(is) \in T
  <2> HIDE DEF T
  <2>1. T \in SUBSET (0 .. Len(is))
    BY DEF T
  <2>2. T = 0 .. Len(is)
    BY <1>2, <1>4, <1>5, <2>1, UpTo
  <2> QED
    BY <1>2, <2>2
<1> QED
  BY <1>1, <1>2, <1>6

-----------------------------------------------------------------------------
(* sort.                                                                   *)

\* A place of a set of places has a rank of its own.
LEMMA RanksAreOwn ==
  ASSUME NEW N \in Nat, NEW T \in SUBSET (1 .. N)
  PROVE  /\ IsFiniteSet(T) /\ Cardinality(T) \in Nat
         /\ \A k \in T : Rank(T, k) \in 1 .. Cardinality(T)
         /\ \A j, k \in T : Rank(T, j) = Rank(T, k) => j = k
<1> DEFINE To(k) == {j \in T : j <= k}
<1>1. IsFiniteSet(T) /\ Cardinality(T) \in Nat
  <2>1. IsFiniteSet(1 .. N)
    BY FS_Interval
  <2>2. IsFiniteSet(T)
    BY <2>1, FS_Subset
  <2> QED
    BY <2>2, FS_CardinalityType
<1>2. \A k \in T : /\ To(k) \in SUBSET T /\ k \in To(k)
                   /\ IsFiniteSet(To(k)) /\ Cardinality(To(k)) \in 1 .. Cardinality(T)
  <2> SUFFICES ASSUME NEW k \in T
               PROVE  /\ To(k) \in SUBSET T /\ k \in To(k)
                      /\ IsFiniteSet(To(k)) /\ Cardinality(To(k)) \in 1 .. Cardinality(T)
    OBVIOUS
  <2>1. To(k) \in SUBSET T /\ k \in To(k)
    OBVIOUS
  <2> HIDE DEF To
  <2>2. IsFiniteSet(To(k)) /\ Cardinality(To(k)) <= Cardinality(T)
    BY <1>1, <2>1, FS_Subset
  <2>3. Cardinality(To(k)) \in Nat /\ Cardinality(To(k)) # 0
    BY <2>1, <2>2, FS_CardinalityType, FS_EmptySet
  <2> QED
    BY <1>1, <2>1, <2>2, <2>3
<1>3. \A j, k \in T : j < k => Cardinality(To(j)) # Cardinality(To(k))
  <2> SUFFICES ASSUME NEW j \in T, NEW k \in T, j < k, Cardinality(To(j)) = Cardinality(To(k))
               PROVE  FALSE
    OBVIOUS
  <2>1. To(j) \in SUBSET To(k) /\ k \notin To(j)
    <3>1. \A i \in T : i \in Int
      OBVIOUS
    <3>2. \A i \in T : i <= j => i <= k
      BY <3>1
    <3>3. ~(k <= j)
      BY <3>1
    <3> QED
      BY <3>2, <3>3
  <2>2. IsFiniteSet(To(k)) /\ k \in To(k)
    BY <1>2
  <2> HIDE DEF To
  <2>3. To(j) = To(k)
    BY <2>1, <2>2, FS_Subset
  <2> QED
    BY <2>1, <2>2, <2>3
<1>4. \A k : Rank(T, k) = Cardinality(To(k))
  BY DEF Rank
<1> HIDE DEF To
<1>5. \A j, k \in T : j = k \/ j < k \/ k < j
  OBVIOUS
<1> QED
  BY <1>1, <1>2, <1>3, <1>4, <1>5

\* Every rank is that of a place.
LEMMA NthIsPlace ==
  ASSUME NEW N \in Nat, NEW T \in SUBSET (1 .. N)
  PROVE  /\ \A n \in 1 .. Cardinality(T) : Nth(T, n) \in T /\ Rank(T, Nth(T, n)) = n
         /\ \A k \in T : Nth(T, Rank(T, k)) = k
<1> DEFINE C == Cardinality(T)
           r == [k \in T |-> Rank(T, k)]
<1>1. /\ IsFiniteSet(T) /\ C \in Nat
      /\ \A k \in T : Rank(T, k) \in 1 .. C
      /\ \A j, k \in T : Rank(T, j) = Rank(T, k) => j = k
  BY RanksAreOwn
<1>2. IsFiniteSet(1 .. C) /\ Cardinality(1 .. C) = C
  BY <1>1, FS_Interval
<1>3. r \in Injection(T, 1 .. C)
  BY <1>1 DEF Injection, IsInjective
<1>4. r \in Surjection(T, 1 .. C)
  <2> HIDE DEF r
  <2> QED
    BY <1>2, <1>3, FS_Injection
<1>5. \A n \in 1 .. C : \E k \in T : Rank(T, k) = n
  BY <1>4 DEF Surjection
<1>6. \A n \in 1 .. C : Nth(T, n) \in T /\ Rank(T, Nth(T, n)) = n
  BY <1>5 DEF Nth
<1>7. \A k \in T : Nth(T, Rank(T, k)) = k
  BY <1>1, <1>6
<1> QED
  BY <1>6, <1>7

\* The first place has rank 1; up to n there are n places.
LEMMA NthOfFirst ==
  ASSUME NEW N \in Nat, NEW T \in SUBSET (1 .. N), 1 \in T
  PROVE  Nth(T, 1) = 1 /\ Cardinality(T) >= 1
<1>1. {j \in T : j <= 1} = {1}
  <2>1. \A j \in T : j \in Int /\ 1 <= j
    OBVIOUS
  <2>2. \A j \in T : j <= 1 => j = 1
    BY <2>1
  <2>3. 1 <= 1
    OBVIOUS
  <2> HIDE DEF Rank
  <2> QED
    BY <2>2, <2>3, Zenon
<1>2. Rank(T, 1) = 1
  BY <1>1, FS_Singleton DEF Rank
<1>3. Nth(T, Rank(T, 1)) = 1
  BY NthIsPlace
<1>4. Rank(T, 1) \in 1 .. Cardinality(T) /\ Cardinality(T) \in Nat
  BY RanksAreOwn
<1> QED
  BY <1>2, <1>3, <1>4

\* All places, in order.
LEMMA NthOfAll ==
  ASSUME NEW N \in Nat, NEW n \in 1 .. N
  PROVE  Nth(1 .. N, n) = n
<1>1. {j \in 1 .. N : j <= n} = 1 .. n
  OBVIOUS
<1>2. Rank(1 .. N, n) = n
  <2>1. 1 \in Int /\ n \in Int /\ ~(1 > n)
    OBVIOUS
  <2>2. Cardinality(1 .. n) = n - 1 + 1
    BY <2>1, FS_Interval
  <2>3. Cardinality(1 .. n) = n
    BY <2>1, <2>2
  <2>4. Rank(1 .. N, n) = Cardinality(1 .. n)
    BY <1>1 DEF Rank
  <2> QED
    BY <2>3, <2>4
<1>3. Nth(1 .. N, Rank(1 .. N, n)) = n
  BY NthIsPlace
<1> QED
  BY <1>2, <1>3

\* s has the entries list has at the places T, each once.
Arranges(s, list, T) ==
  /\ s \in Lists
  /\ \E f \in [1 .. Len(s) -> T] :
       /\ \A m, n \in 1 .. Len(s) : f[m] = f[n] => m = n
       /\ \A k \in T : \E n \in 1 .. Len(s) : f[n] = k
       /\ \A n \in 1 .. Len(s) : s[n] = list[f[n]]

\* The entries at some places are those places arranged.
LEMMA AtArranges ==
  ASSUME NEW list \in Lists, NEW T \in SUBSET DOMAIN list
  PROVE  /\ Arranges(At(list, T), list, T)
         /\ Len(At(list, T)) = Cardinality(T) /\ Cardinality(T) \in Nat
         /\ \A n \in 1 .. Cardinality(T) : Nth(T, n) \in T /\ At(list, T)[n] = list[Nth(T, n)]
<1> DEFINE C == Cardinality(T)
           s == At(list, T)
           f == [n \in 1 .. C |-> Nth(T, n)]
<1>1. Len(list) \in Nat /\ DOMAIN list = 1 .. Len(list) /\ list \in [1 .. Len(list) -> Entries]
  BY ListFields
<1>2. C \in Nat /\ \A k \in T : Rank(T, k) \in 1 .. C
  BY <1>1, RanksAreOwn
<1>3. /\ \A n \in 1 .. C : Nth(T, n) \in T /\ Rank(T, Nth(T, n)) = n
      /\ \A k \in T : Nth(T, Rank(T, k)) = k
  BY <1>1, NthIsPlace
<1>4. s = [n \in 1 .. C |-> list[Nth(T, n)]]
  BY DEF At
<1>5. s \in [1 .. C -> Entries]
  BY <1>1, <1>3, <1>4
<1>6. s \in Lists /\ Len(s) = C
  <2> HIDE DEF s, C
  <2>1. s \in Seq(Entries)
    BY <1>2, <1>5
  <2>2. DOMAIN s = 1 .. C
    BY <1>5
  <2> QED
    BY <1>2, <2>1, <2>2, LenProperties DEF Lists
<1>7. f \in [1 .. C -> T]
  BY <1>3
<1>8. \A m, n \in 1 .. C : f[m] = f[n] => m = n
  <2> SUFFICES ASSUME NEW m \in 1 .. C, NEW n \in 1 .. C, Nth(T, m) = Nth(T, n)
               PROVE  m = n
    OBVIOUS
  <2> QED
    BY <1>3
<1>9. \A k \in T : \E n \in 1 .. C : f[n] = k
  BY <1>2, <1>3
<1>10. \A n \in 1 .. C : s[n] = list[f[n]]
  BY <1>4
<1> HIDE DEF f, s, C
<1>11. Arranges(s, list, T)
  BY <1>6, <1>7, <1>8, <1>9, <1>10 DEF Arranges
<1>12. \A n \in 1 .. C : s[n] = list[Nth(T, n)]
  BY <1>4
<1> QED
  BY <1>2, <1>3, <1>6, <1>11, <1>12 DEF s, C

\* Two arrangements of different places, one after the other.
LEMMA ConcatArranges ==
  ASSUME NEW list, NEW s, NEW t, NEW T, NEW U, T \cap U = {},
         Arranges(s, list, T), Arranges(t, list, U)
  PROVE  Arranges(s \o t, list, T \cup U)
<1>1. s \in Lists /\ t \in Lists /\ Len(s) \in Nat /\ Len(t) \in Nat
  BY ListFields DEF Arranges
<1>2. PICK f \in [1 .. Len(s) -> T] :
        /\ \A m, n \in 1 .. Len(s) : f[m] = f[n] => m = n
        /\ \A k \in T : \E n \in 1 .. Len(s) : f[n] = k
        /\ \A n \in 1 .. Len(s) : s[n] = list[f[n]]
  BY DEF Arranges
<1>3. PICK g \in [1 .. Len(t) -> U] :
        /\ \A m, n \in 1 .. Len(t) : g[m] = g[n] => m = n
        /\ \A k \in U : \E n \in 1 .. Len(t) : g[n] = k
        /\ \A n \in 1 .. Len(t) : t[n] = list[g[n]]
  BY DEF Arranges
<1> DEFINE both == s \o t
           h == [n \in 1 .. Len(s) + Len(t) |-> IF n <= Len(s) THEN f[n] ELSE g[n - Len(s)]]
<1>4. /\ both \in Lists /\ Len(both) = Len(s) + Len(t)
      /\ \A n \in 1 .. Len(s) + Len(t) : both[n] = IF n <= Len(s) THEN s[n] ELSE t[n - Len(s)]
  BY <1>1, ConcatProperties DEF Lists
<1> HIDE DEF both
<1>5. \A n \in 1 .. Len(s) + Len(t) : /\ n <= Len(s) => n \in 1 .. Len(s)
                                      /\ ~(n <= Len(s)) => n - Len(s) \in 1 .. Len(t)
  BY <1>1
<1>6. \A n \in 1 .. Len(s) + Len(t) : /\ n <= Len(s) => h[n] = f[n] /\ h[n] \in T
                                      /\ ~(n <= Len(s)) => h[n] = g[n - Len(s)] /\ h[n] \in U
  BY <1>5
<1>7. h \in [1 .. Len(s) + Len(t) -> T \cup U]
  BY <1>6
<1>8. \A m, n \in 1 .. Len(s) + Len(t) : h[m] = h[n] => m = n
  <2> SUFFICES ASSUME NEW m \in 1 .. Len(s) + Len(t), NEW n \in 1 .. Len(s) + Len(t), h[m] = h[n]
               PROVE  m = n
    OBVIOUS
  <2> HIDE DEF h
  <2>1. CASE m <= Len(s) /\ n <= Len(s)
    BY <1>2, <1>5, <1>6, <2>1
  <2>2. CASE ~(m <= Len(s)) /\ ~(n <= Len(s))
    <3>1. g[m - Len(s)] = g[n - Len(s)]
      BY <1>6, <2>2
    <3>2. m - Len(s) = n - Len(s)
      BY <1>3, <1>5, <2>2, <3>1
    <3> QED
      BY <1>1, <3>2
  <2>3. CASE (m <= Len(s)) # (n <= Len(s))
    BY <1>6, <2>3
  <2> QED
    BY <2>1, <2>2, <2>3
<1>9. \A k \in T \cup U : \E n \in 1 .. Len(s) + Len(t) : h[n] = k
  <2>1. ASSUME NEW k \in T
        PROVE  \E n \in 1 .. Len(s) + Len(t) : h[n] = k
    <3>1. PICK n \in 1 .. Len(s) : f[n] = k
      BY <1>2
    <3>2. n \in 1 .. Len(s) + Len(t) /\ n <= Len(s)
      BY <1>1
    <3> HIDE DEF h
    <3>3. h[n] = k
      BY <1>6, <3>1, <3>2
    <3> QED
      BY <3>2, <3>3
  <2>2. ASSUME NEW k \in U
        PROVE  \E n \in 1 .. Len(s) + Len(t) : h[n] = k
    <3>1. PICK n \in 1 .. Len(t) : g[n] = k
      BY <1>3
    <3>2. n + Len(s) \in 1 .. Len(s) + Len(t) /\ ~(n + Len(s) <= Len(s)) /\ (n + Len(s)) - Len(s) = n
      BY <1>1
    <3> HIDE DEF h
    <3>3. h[n + Len(s)] = k
      BY <1>6, <3>1, <3>2
    <3> QED
      BY <3>2, <3>3
  <2> QED
    BY <2>1, <2>2
<1>10. \A n \in 1 .. Len(s) + Len(t) : both[n] = list[h[n]]
  <2> HIDE DEF h
  <2> SUFFICES ASSUME NEW n \in 1 .. Len(s) + Len(t)
               PROVE  both[n] = list[h[n]]
    OBVIOUS
  <2>1. CASE n <= Len(s)
    BY <1>2, <1>4, <1>5, <1>6, <2>1
  <2>2. CASE ~(n <= Len(s))
    <3>1. n - Len(s) \in 1 .. Len(t) /\ h[n] = g[n - Len(s)] /\ both[n] = t[n - Len(s)]
      BY <1>4, <1>5, <1>6, <2>2
    <3> QED
      BY <1>3, <3>1
  <2> QED
    BY <2>1, <2>2
<1> HIDE DEF h
<1>11. Len(both) = Len(s) + Len(t)
  BY <1>4
<1>12. h \in [1 .. Len(both) -> T \cup U]
  BY <1>7, <1>11
<1>13. \A m, n \in 1 .. Len(both) : h[m] = h[n] => m = n
  BY <1>8, <1>11
<1>14. \A k \in T \cup U : \E n \in 1 .. Len(both) : h[n] = k
  BY <1>9, <1>11
<1>15. \A n \in 1 .. Len(both) : both[n] = list[h[n]]
  BY <1>10, <1>11
<1>16. Arranges(both, list, T \cup U)
  <2>1. both \in Lists
    BY <1>4
  <2> QED
    BY <2>1, <1>12, <1>13, <1>14, <1>15 DEF Arranges
<1> QED
  BY <1>16 DEF both

\* How many numbers an interval has.
LEMMA IntervalHas ==
  ASSUME NEW i \in Nat, NEW n \in Nat
  PROVE  IsFiniteSet((i + 1) .. (i + n)) /\ Cardinality((i + 1) .. (i + n)) = n
<1>1. i + 1 \in Int /\ i + n \in Int
  OBVIOUS
<1>2. /\ IsFiniteSet((i + 1) .. (i + n))
      /\ Cardinality((i + 1) .. (i + n)) = IF i + 1 > i + n THEN 0 ELSE (i + n) - (i + 1) + 1
  BY <1>1, FS_Interval
<1>3. (IF i + 1 > i + n THEN 0 ELSE (i + n) - (i + 1) + 1) = n
  OBVIOUS
<1> QED
  BY <1>2, <1>3

\* Of one that begins with 1.
LEMMA UpToHas ==
  ASSUME NEW n \in Nat
  PROVE  IsFiniteSet(1 .. n) /\ Cardinality(1 .. n) = n
<1>1. 0 + 1 = 1 /\ 0 + n = n
  OBVIOUS
<1>2. IsFiniteSet((0 + 1) .. (0 + n)) /\ Cardinality((0 + 1) .. (0 + n)) = n
  BY IntervalHas
<1> QED
  BY <1>1, <1>2

\* Arranging leaves out nothing and repeats nothing.
LEMMA ArrangedHasLength ==
  ASSUME NEW list \in Lists, NEW s, Arranges(s, list, DOMAIN list)
  PROVE  Len(s) = Len(list)
<1>1. Len(s) \in Nat /\ Len(list) \in Nat /\ DOMAIN list = 1 .. Len(list)
  BY ListFields DEF Arranges
<1>2. PICK f \in [1 .. Len(s) -> 1 .. Len(list)] :
        /\ \A m, n \in 1 .. Len(s) : f[m] = f[n] => m = n
        /\ \A k \in 1 .. Len(list) : \E n \in 1 .. Len(s) : f[n] = k
  BY <1>1 DEF Arranges
<1>3. f \in Injection(1 .. Len(s), 1 .. Len(list))
  BY <1>2 DEF Injection, IsInjective
<1>4. f \in Surjection(1 .. Len(s), 1 .. Len(list))
  BY <1>2 DEF Surjection
<1>5. ExistsBijection(1 .. Len(s), 1 .. Len(list))
  BY <1>3, <1>4 DEF ExistsBijection, Bijection
<1>6. IsFiniteSet(1 .. Len(s)) /\ Cardinality(1 .. Len(s)) = Len(s) /\ Cardinality(1 .. Len(list)) = Len(list)
  BY <1>1, UpToHas
<1> QED
  BY <1>5, <1>6, FS_Bijection

\* A list is still what it was when its entries are arranged anew.
LEMMA ArrangedIsMerging ==
  ASSUME NEW given, NEW list, Merging(list, given), NEW s, Arranges(s, list, DOMAIN list)
  PROVE  /\ Merging(s, given)
         /\ \A m : Covers(list, m) => Covers(s, m)
<1>1. list \in Lists /\ s \in Lists
  BY DEF Merging, Arranges
<1>2. DOMAIN s = 1 .. Len(s)
  BY <1>1, ListFields
<1>3. PICK f \in [DOMAIN s -> DOMAIN list] :
        /\ \A m, n \in DOMAIN s : f[m] = f[n] => m = n
        /\ \A k \in DOMAIN list : \E n \in DOMAIN s : f[n] = k
        /\ \A n \in DOMAIN s : s[n] = list[f[n]]
  BY <1>2 DEF Arranges
<1>4. Distinct(s)
  <2>1. \A i, j \in DOMAIN s : s[i].meta.key.addr = s[j].meta.key.addr => f[i] = f[j]
    BY <1>3 DEF Merging, Distinct
  <2> QED
    BY <1>3, <2>1 DEF Distinct
<1>5. \A i \in DOMAIN s : Owned(s[i], given)
  BY <1>3 DEF Merging
<1>6. \A m : Covers(list, m) => Covers(s, m)
  BY <1>3 DEF Covers
<1> QED
  BY <1>1, <1>4, <1>5, <1>6 DEF Merging

Has(e, is_signer, writeable) == e.meta.is_signer = is_signer /\ e.meta.writeable = writeable

\* A group has the metas of its rights.
LEMMA GroupArranges ==
  ASSUME NEW list \in Lists, NEW is_signer, NEW writeable
  PROVE  LET P == Places(list, is_signer, writeable)
             G == Group(list, is_signer, writeable)
         IN /\ Arranges(G, list, P) /\ Len(G) = Cardinality(P) /\ Cardinality(P) \in Nat
            /\ \A n \in 1 .. Cardinality(P) : Has(G[n], is_signer, writeable)
<1> DEFINE P == Places(list, is_signer, writeable)
           G == Group(list, is_signer, writeable)
<1>1. P \in SUBSET DOMAIN list /\ \A k \in P : Has(list[k], is_signer, writeable)
  BY DEF Places, Has
<1>2. G = At(list, P)
  BY DEF Group
<1> HIDE DEF P, G
<1>3. /\ Arranges(G, list, P) /\ Len(G) = Cardinality(P) /\ Cardinality(P) \in Nat
      /\ \A n \in 1 .. Cardinality(P) : Nth(P, n) \in P /\ G[n] = list[Nth(P, n)]
  BY <1>1, <1>2, AtArranges
<1>4. \A n \in 1 .. Cardinality(P) : Has(G[n], is_signer, writeable)
  BY <1>1, <1>3
<1> QED
  BY <1>3, <1>4 DEF P, G

\* The payer, first of the list, is first of its group.
LEMMA GroupKeepsFirst ==
  ASSUME NEW list \in Lists, 1 \in Places(list, TRUE, TRUE)
  PROVE  Cardinality(Places(list, TRUE, TRUE)) >= 1 /\ Group(list, TRUE, TRUE)[1] = list[1]
<1> DEFINE P == Places(list, TRUE, TRUE)
<1>1. P \in SUBSET DOMAIN list
  BY DEF Places
<1>2. Len(list) \in Nat /\ DOMAIN list = 1 .. Len(list)
  BY ListFields
<1> HIDE DEF P
<1>3. Nth(P, 1) = 1 /\ Cardinality(P) >= 1
  <2>1. 1 \in P
    BY DEF P
  <2> QED
    BY <1>1, <1>2, <2>1, NthOfFirst
<1>4. Cardinality(P) \in Nat /\ \A n \in 1 .. Cardinality(P) : At(list, P)[n] = list[Nth(P, n)]
  BY <1>1, AtArranges
<1>5. 1 \in 1 .. Cardinality(P)
  BY <1>3, <1>4
<1>6. At(list, P)[1] = list[1]
  BY <1>3, <1>4, <1>5
<1> QED
  BY <1>3, <1>6 DEF P, Group

\* sort keeps the entries, puts them into the order the header describes, and
\* leaves a writable signer that is first where it is.
LEMMA SortArranges ==
  ASSUME NEW list \in Lists
  PROVE  LET next == Sort(list)
         IN /\ Arranges(next, list, DOMAIN list) /\ Ordered(next)
            /\ list # <<>> /\ Has(list[1], TRUE, TRUE) => next # <<>> /\ next[1] = list[1]
<1> DEFINE PA == Places(list, TRUE, TRUE)
           PB == Places(list, TRUE, FALSE)
           PC == Places(list, FALSE, TRUE)
           PD == Places(list, FALSE, FALSE)
           A == Group(list, TRUE, TRUE)
           B == Group(list, TRUE, FALSE)
           C == Group(list, FALSE, TRUE)
           D == Group(list, FALSE, FALSE)
           a == Cardinality(PA)
           b == Cardinality(PB)
           c == Cardinality(PC)
           d == Cardinality(PD)
           AB == A \o B
           ABC == AB \o C
           next == ABC \o D
<1>1. Sort(list) = next
  BY DEF Sort
<1>2. \A k \in DOMAIN list : list[k].meta.is_signer \in BOOLEAN /\ list[k].meta.writeable \in BOOLEAN
  BY EntryFields, MetaFields
<1>3. /\ PA \cup PB \cup PC \cup PD = DOMAIN list
      /\ PA \cap PB = {} /\ (PA \cup PB) \cap PC = {} /\ (PA \cup PB \cup PC) \cap PD = {}
  BY <1>2 DEF Places
<1>4. list # <<>> /\ Has(list[1], TRUE, TRUE) => 1 \in PA
  BY ListFields, EmptySeq DEF Has, Places, Lists
<1>5. /\ Arranges(A, list, PA) /\ Len(A) = a /\ a \in Nat
      /\ \A n \in 1 .. a : Has(A[n], TRUE, TRUE)
  BY GroupArranges
<1>5a. 1 \in PA => a >= 1 /\ A[1] = list[1]
  <2>1. 1 \in Places(list, TRUE, TRUE) =>
          Cardinality(Places(list, TRUE, TRUE)) >= 1 /\ Group(list, TRUE, TRUE)[1] = list[1]
    BY GroupKeepsFirst
  <2> QED
    BY <2>1 DEF a, A, PA
<1>6. /\ Arranges(B, list, PB) /\ Len(B) = b /\ b \in Nat
      /\ \A n \in 1 .. b : Has(B[n], TRUE, FALSE)
  BY GroupArranges
<1>7. /\ Arranges(C, list, PC) /\ Len(C) = c /\ c \in Nat
      /\ \A n \in 1 .. c : Has(C[n], FALSE, TRUE)
  BY GroupArranges
<1>8. /\ Arranges(D, list, PD) /\ Len(D) = d /\ d \in Nat
      /\ \A n \in 1 .. d : Has(D[n], FALSE, FALSE)
  BY GroupArranges
<1> HIDE DEF PA, PB, PC, PD, A, B, C, D, a, b, c, d, AB, ABC, next
<1>9. /\ Arranges(AB, list, PA \cup PB) /\ AB \in Lists /\ Len(AB) = a + b
      /\ \A n \in 1 .. a + b : AB[n] = IF n <= a THEN A[n] ELSE B[n - a]
  <2>1. A \in Lists /\ B \in Lists
    BY <1>5, <1>6 DEF Arranges
  <2>2. AB \in Lists /\ Len(AB) = Len(A) + Len(B)
        /\ \A n \in 1 .. Len(A) + Len(B) : AB[n] = IF n <= Len(A) THEN A[n] ELSE B[n - Len(A)]
    BY <2>1, ConcatProperties DEF AB, Lists
  <2>3. Arranges(AB, list, PA \cup PB)
    BY <1>3, <1>5, <1>6, ConcatArranges DEF AB
  <2> QED
    BY <1>5, <1>6, <2>2, <2>3
<1>10. /\ Arranges(ABC, list, PA \cup PB \cup PC) /\ ABC \in Lists /\ Len(ABC) = a + b + c
       /\ \A n \in 1 .. a + b + c : ABC[n] = IF n <= a + b THEN AB[n] ELSE C[n - (a + b)]
  <2>1. AB \in Lists /\ C \in Lists
    BY <1>7, <1>9 DEF Arranges
  <2>2. ABC \in Lists /\ Len(ABC) = Len(AB) + Len(C)
        /\ \A n \in 1 .. Len(AB) + Len(C) : ABC[n] = IF n <= Len(AB) THEN AB[n] ELSE C[n - Len(AB)]
    BY <2>1, ConcatProperties DEF ABC, Lists
  <2>3. Arranges(ABC, list, PA \cup PB \cup PC)
    BY <1>3, <1>7, <1>9, ConcatArranges DEF ABC
  <2> QED
    BY <1>7, <1>9, <2>2, <2>3
<1>11. /\ Arranges(next, list, DOMAIN list) /\ next \in Lists /\ Len(next) = a + b + c + d
       /\ \A n \in 1 .. a + b + c + d : next[n] = IF n <= a + b + c THEN ABC[n] ELSE D[n - (a + b + c)]
  <2>1. ABC \in Lists /\ D \in Lists
    BY <1>8, <1>10 DEF Arranges
  <2>2. next \in Lists /\ Len(next) = Len(ABC) + Len(D)
        /\ \A n \in 1 .. Len(ABC) + Len(D) : next[n] = IF n <= Len(ABC) THEN ABC[n] ELSE D[n - Len(ABC)]
    BY <2>1, ConcatProperties DEF next, Lists
  <2>3. Arranges(next, list, PA \cup PB \cup PC \cup PD)
    BY <1>3, <1>8, <1>10, ConcatArranges DEF next
  <2> QED
    BY <1>3, <1>8, <1>10, <2>2, <2>3
<1>12. a \in Nat /\ b \in Nat /\ c \in Nat /\ d \in Nat
  BY <1>5, <1>6, <1>7, <1>8
<1>13. \A n \in 1 .. a + b + c + d :
         /\ n <= a => next[n] = A[n] /\ Has(next[n], TRUE, TRUE)
         /\ a < n /\ n <= a + b => Has(next[n], TRUE, FALSE)
         /\ a + b < n /\ n <= a + b + c => Has(next[n], FALSE, TRUE)
         /\ a + b + c < n => Has(next[n], FALSE, FALSE)
  <2> SUFFICES ASSUME NEW n \in 1 .. a + b + c + d
               PROVE  /\ n <= a => next[n] = A[n] /\ Has(next[n], TRUE, TRUE)
                      /\ a < n /\ n <= a + b => Has(next[n], TRUE, FALSE)
                      /\ a + b < n /\ n <= a + b + c => Has(next[n], FALSE, TRUE)
                      /\ a + b + c < n => Has(next[n], FALSE, FALSE)
    OBVIOUS
  <2>1. CASE n <= a
    <3>1. n \in 1 .. a /\ n \in 1 .. a + b /\ n <= a + b /\ n \in 1 .. a + b + c /\ n <= a + b + c
      BY <1>12, <2>1
    <3>2. next[n] = A[n]
      BY <1>9, <1>10, <1>11, <2>1, <3>1
    <3>3. Has(next[n], TRUE, TRUE)
      BY <1>5, <3>1, <3>2
    <3>4. ~(a < n) /\ ~(a + b < n) /\ ~(a + b + c < n)
      BY <1>12, <2>1
    <3> QED
      BY <2>1, <3>2, <3>3, <3>4
  <2>2. CASE a < n /\ n <= a + b
    <3>1. n - a \in 1 .. b /\ ~(n <= a) /\ n \in 1 .. a + b /\ n \in 1 .. a + b + c /\ n <= a + b + c
      BY <1>12, <2>2
    <3>2. next[n] = B[n - a]
      BY <1>9, <1>10, <1>11, <2>2, <3>1
    <3>3. Has(next[n], TRUE, FALSE)
      BY <1>6, <3>1, <3>2
    <3>4. ~(n <= a) /\ ~(a + b < n) /\ ~(a + b + c < n)
      BY <1>12, <2>2
    <3> QED
      BY <2>2, <3>2, <3>3, <3>4
  <2>3. CASE a + b < n /\ n <= a + b + c
    <3>1. n - (a + b) \in 1 .. c /\ ~(n <= a + b) /\ ~(n <= a) /\ n \in 1 .. a + b + c
      BY <1>12, <2>3
    <3>2. next[n] = C[n - (a + b)]
      BY <1>10, <1>11, <2>3, <3>1
    <3>3. Has(next[n], FALSE, TRUE)
      BY <1>7, <3>1, <3>2
    <3>4. ~(n <= a) /\ ~(n <= a + b) /\ ~(a + b + c < n)
      BY <1>12, <2>3
    <3> QED
      BY <2>3, <3>2, <3>3, <3>4
  <2>4. CASE a + b + c < n
    <3>1. n - (a + b + c) \in 1 .. d /\ ~(n <= a + b + c) /\ ~(n <= a + b) /\ ~(n <= a)
      BY <1>12, <2>4
    <3>2. next[n] = D[n - (a + b + c)]
      BY <1>11, <3>1
    <3>3. Has(next[n], FALSE, FALSE)
      BY <1>8, <3>1, <3>2
    <3> QED
      BY <1>12, <2>4, <3>1, <3>2, <3>3
  <2>5. n \in Int
    OBVIOUS
  <2> QED
    BY <1>12, <2>1, <2>2, <2>3, <2>4, <2>5
<1>14. DOMAIN next = 1 .. a + b + c + d
  BY <1>11, ListFields
<1>15. Signers(next) = 1 .. a + b
  <2>1. \A n \in 1 .. a + b + c + d : next[n].meta.is_signer <=> n <= a + b
    <3> SUFFICES ASSUME NEW n \in 1 .. a + b + c + d
                 PROVE  next[n].meta.is_signer <=> n <= a + b
      OBVIOUS
    <3> QED
      BY <1>12, <1>13 DEF Has
  <2> QED
    BY <1>12, <1>14, <2>1 DEF Signers
<1>16. Places(next, TRUE, FALSE) = (a + 1) .. (a + b)
  <2>1. \A n \in 1 .. a + b + c + d : Has(next[n], TRUE, FALSE) <=> a < n /\ n <= a + b
    <3> SUFFICES ASSUME NEW n \in 1 .. a + b + c + d
                 PROVE  Has(next[n], TRUE, FALSE) <=> a < n /\ n <= a + b
      OBVIOUS
    <3> QED
      BY <1>12, <1>13 DEF Has
  <2>2. Places(next, TRUE, FALSE) = {n \in 1 .. a + b + c + d : Has(next[n], TRUE, FALSE)}
    BY <1>14 DEF Places, Has
  <2>3. \A n : n \in (a + 1) .. (a + b) <=> n \in 1 .. a + b + c + d /\ a < n /\ n <= a + b
    BY <1>12
  <2> QED
    BY <2>1, <2>2, <2>3
<1>17. Places(next, FALSE, FALSE) = (a + b + c + 1) .. (a + b + c + d)
  <2>1. \A n \in 1 .. a + b + c + d : Has(next[n], FALSE, FALSE) <=> a + b + c < n
    <3> SUFFICES ASSUME NEW n \in 1 .. a + b + c + d
                 PROVE  Has(next[n], FALSE, FALSE) <=> a + b + c < n
      OBVIOUS
    <3> QED
      BY <1>12, <1>13 DEF Has
  <2>2. Places(next, FALSE, FALSE) = {n \in 1 .. a + b + c + d : Has(next[n], FALSE, FALSE)}
    BY <1>14 DEF Places, Has
  <2>3. \A n : n \in (a + b + c + 1) .. (a + b + c + d) <=> n \in 1 .. a + b + c + d /\ a + b + c < n
    BY <1>12
  <2> QED
    BY <2>1, <2>2, <2>3
<1>18. /\ Cardinality(Signers(next)) = a + b
       /\ Cardinality(Places(next, TRUE, FALSE)) = b
       /\ Cardinality(Places(next, FALSE, FALSE)) = d
  <2>1. a + b \in Nat /\ a + b + c \in Nat
    BY <1>12
  <2>2. Cardinality(1 .. a + b) = a + b
    BY <2>1, UpToHas
  <2>3. Cardinality((a + 1) .. (a + b)) = b
    BY <1>12, IntervalHas
  <2>4. Cardinality((a + b + c + 1) .. (a + b + c + d)) = d
    BY <1>12, <2>1, IntervalHas
  <2> QED
    BY <1>15, <1>16, <1>17, <2>2, <2>3, <2>4
<1>19. Ordered(next)
  <2>1. /\ Header(next).signatures = a + b /\ Header(next).readonly_signed = b
        /\ Header(next).readonly_unsigned = d
    BY <1>18 DEF Header
  <2>2. (a + b) - b + 1 = a + 1 /\ Len(next) - d + 1 = a + b + c + 1
    BY <1>11, <1>12
  <2> QED
    BY <1>11, <1>15, <1>16, <1>17, <2>1, <2>2 DEF Ordered
<1>20. list # <<>> /\ Has(list[1], TRUE, TRUE) => next # <<>> /\ next[1] = list[1]
  <2> SUFFICES ASSUME list # <<>>, Has(list[1], TRUE, TRUE)
               PROVE  next # <<>> /\ next[1] = list[1]
    OBVIOUS
  <2>1. a >= 1 /\ A[1] = list[1]
    BY <1>4, <1>5a
  <2>2. 1 \in 1 .. a + b + c + d /\ Len(next) # 0
    BY <1>11, <1>12, <2>1
  <2>3. next[1] = A[1]
    BY <1>12, <1>13, <2>1, <2>2
  <2>4. next # <<>>
    BY <2>2
  <2> QED
    BY <2>1, <2>3, <2>4
<1> QED
  BY <1>1, <1>11, <1>19, <1>20

-----------------------------------------------------------------------------
(* The list of a message.                                                  *)

\* Who may ask for a right in the list of a message.
Given(is, p) ==
  {Meta(p, TRUE, TRUE)} \cup {Meta(ProgramKey(i), FALSE, FALSE) : i \in ToSet(is)}
    \cup {heap[m] : m \in Used(is)}

\* What an instruction is.
LEMMA InstructionFields ==
  ASSUME NEW i \in DOMAIN Ix
  PROVE  /\ Ix[i].program \in Accounts /\ Ix[i].accounts \in Seq(Metas)
         /\ Len(Ix[i].accounts) \in Nat /\ DOMAIN Ix[i].accounts = 1 .. Len(Ix[i].accounts)
         /\ \A j \in DOMAIN Ix[i].accounts : Ix[i].accounts[j] \in Metas
<1>1. Ix[i] \in [program : Accounts, accounts : Seq(Metas)]
  BY Assumption
<1>2. Ix[i].program \in Accounts /\ Ix[i].accounts \in Seq(Metas)
  BY <1>1
<1> QED
  BY <1>2, LenProperties

\* The meta made for the payer or a program is one.
LEMMA FreshMeta ==
  ASSUME NEW k \in Key, NEW x \in BOOLEAN, NEW y \in BOOLEAN
  PROVE  /\ Meta(k, x, y) \in AccountMetas /\ Entry(Fresh, Meta(k, x, y)) \in Entries
         /\ Meta(k, x, y).key = k /\ Meta(k, x, y).is_signer = x /\ Meta(k, x, y).writeable = y
         /\ Entry(Fresh, Meta(k, x, y)).obj = Fresh /\ Entry(Fresh, Meta(k, x, y)).meta = Meta(k, x, y)
<1>1. Meta(k, x, y) \in AccountMetas
  BY DEF Meta, AccountMetas
<1>2. Meta(k, x, y).key = k /\ Meta(k, x, y).is_signer = x /\ Meta(k, x, y).writeable = y
  BY DEF Meta
<1>3. Entry(Fresh, Meta(k, x, y)) \in Entries
  BY <1>1 DEF Entry, Entries
<1> QED
  BY <1>1, <1>2, <1>3 DEF Entry

\* And has the program's address.
LEMMA ProgramMeta ==
  ASSUME NEW i \in DOMAIN Ix
  PROVE  ProgramKey(i) \in Key /\ ProgramKey(i).addr = Ix[i].program
BY InstructionFields, Assumption DEF ProgramKey, Key

\* The entries of an instruction: its program and its metas as they are now.
LEMMA EntriesOfInstruction ==
  ASSUME heap \in [Metas -> AccountMetas], NEW i \in DOMAIN Ix
  PROVE  /\ EntriesOf(i) \in Seq(Entries)
         /\ DOMAIN EntriesOf(i) = 1 .. Len(Ix[i].accounts) + 1
         /\ EntriesOf(i)[1] = Entry(Fresh, Meta(ProgramKey(i), FALSE, FALSE))
         /\ \A j \in DOMAIN Ix[i].accounts :
              EntriesOf(i)[j + 1] = Entry(Ix[i].accounts[j], heap[Ix[i].accounts[j]])
<1> DEFINE L == Len(Ix[i].accounts)
           e == Entry(Fresh, Meta(ProgramKey(i), FALSE, FALSE))
           t == [j \in DOMAIN Ix[i].accounts |-> Entry(Ix[i].accounts[j], heap[Ix[i].accounts[j]])]
           s == <<e>>
<1>1. L \in Nat /\ DOMAIN Ix[i].accounts = 1 .. L /\ \A j \in 1 .. L : Ix[i].accounts[j] \in Metas
  BY InstructionFields
<1>2. e \in Entries
  BY ProgramMeta, FreshMeta
<1>3. \A j \in 1 .. L : Entry(Ix[i].accounts[j], heap[Ix[i].accounts[j]]) \in Entries
  BY <1>1 DEF Entry, Entries
<1>4. t \in [1 .. L -> Entries] /\ DOMAIN t = 1 .. L
  BY <1>1, <1>3
<1>5. \A j \in 1 .. L : t[j] = Entry(Ix[i].accounts[j], heap[Ix[i].accounts[j]])
  BY <1>1
<1>6. EntriesOf(i) = s \o t
  BY DEF EntriesOf
<1> HIDE DEF L, e, t
<1>7. t \in Seq(Entries) /\ Len(t) = L
  <2>1. t \in Seq(Entries)
    BY <1>1, <1>4
  <2> QED
    BY <1>1, <1>4, <2>1, LenProperties
<1>8. s \in Seq(Entries) /\ Len(s) = 1 /\ s[1] = e
  BY <1>2
<1> HIDE DEF s
<1>9. /\ s \o t \in Seq(Entries) /\ Len(s \o t) = L + 1
      /\ \A n \in 1 .. L + 1 : (s \o t)[n] = IF n <= 1 THEN s[n] ELSE t[n - 1]
  <2>1. /\ s \o t \in Seq(Entries) /\ Len(s \o t) = Len(s) + Len(t)
        /\ \A n \in 1 .. Len(s) + Len(t) : (s \o t)[n] = IF n <= Len(s) THEN s[n] ELSE t[n - Len(s)]
    BY <1>7, <1>8, ConcatProperties
  <2>2. Len(s) + Len(t) = L + 1
    BY <1>1, <1>7, <1>8
  <2> QED
    BY <1>8, <2>1, <2>2
<1>10. DOMAIN (s \o t) = 1 .. L + 1
  BY <1>9, LenProperties
<1>11. (s \o t)[1] = e
  BY <1>1, <1>8, <1>9
<1>12. \A j \in 1 .. L : (s \o t)[j + 1] = t[j]
  <2> SUFFICES ASSUME NEW j \in 1 .. L
               PROVE  (s \o t)[j + 1] = t[j]
    OBVIOUS
  <2>1. j + 1 \in 1 .. L + 1 /\ ~(j + 1 <= 1) /\ (j + 1) - 1 = j
    BY <1>1
  <2> QED
    BY <1>9, <2>1
<1> QED
  BY <1>1, <1>5, <1>6, <1>9, <1>10, <1>11, <1>12 DEF L, e

\* Every entry of an instruction is of what the list is made of.
LEMMA EntriesAreOwned ==
  ASSUME heap \in [Metas -> AccountMetas], NEW is \in Seq(DOMAIN Ix), NEW p, NEW n \in DOMAIN is
  PROVE  /\ EntriesOf(is[n]) \in Seq(Entries)
         /\ \A k \in DOMAIN EntriesOf(is[n]) : Owned(EntriesOf(is[n])[k], Given(is, p))
<1> DEFINE i == is[n]
<1>1. i \in DOMAIN Ix /\ i \in ToSet(is)
  BY LenProperties DEF ToSet
<1> HIDE DEF i
<1>2. /\ EntriesOf(i) \in Seq(Entries)
      /\ DOMAIN EntriesOf(i) = 1 .. Len(Ix[i].accounts) + 1
      /\ EntriesOf(i)[1] = Entry(Fresh, Meta(ProgramKey(i), FALSE, FALSE))
      /\ \A j \in DOMAIN Ix[i].accounts :
           EntriesOf(i)[j + 1] = Entry(Ix[i].accounts[j], heap[Ix[i].accounts[j]])
  BY <1>1, EntriesOfInstruction
<1>3. Len(Ix[i].accounts) \in Nat /\ DOMAIN Ix[i].accounts = 1 .. Len(Ix[i].accounts)
      /\ \A j \in DOMAIN Ix[i].accounts : Ix[i].accounts[j] \in Metas
  BY <1>1, InstructionFields
<1>4. Owned(Entry(Fresh, Meta(ProgramKey(i), FALSE, FALSE)), Given(is, p))
  <2> DEFINE m == Meta(ProgramKey(i), FALSE, FALSE)
  <2>1. ProgramKey(i) \in Key
    BY <1>1, ProgramMeta
  <2>2. Entry(Fresh, m).obj = Fresh /\ Entry(Fresh, m).meta = m /\ ~m.is_signer /\ ~m.writeable
    BY <2>1, FreshMeta
  <2> HIDE DEF m
  <2>3. Owned(Entry(Fresh, m), Given(is, p))
    BY <2>2 DEF Owned, Justified
  <2> QED
    BY <2>3 DEF m
<1>5. ASSUME NEW j \in DOMAIN Ix[i].accounts
      PROVE  Owned(Entry(Ix[i].accounts[j], heap[Ix[i].accounts[j]]), Given(is, p))
  <2> DEFINE m == Ix[i].accounts[j]
  <2>1. m \in Metas /\ heap[m] \in AccountMetas
    BY <1>3
  <2>2. m \in Used(is)
    BY <1>1 DEF Used, ToSet
  <2> HIDE DEF m
  <2>3. heap[m] \in Given(is, p)
    BY <2>2 DEF Given
  <2>4. Justified(heap[m], Given(is, p))
    BY <2>3 DEF Justified
  <2>5. AtLeast(heap[m], heap[m])
    BY <2>1, AtLeastItself
  <2>6. Entry(m, heap[m]).obj = m /\ Entry(m, heap[m]).meta = heap[m]
    BY DEF Entry
  <2>7. Owned(Entry(m, heap[m]), Given(is, p))
    BY <2>4, <2>5, <2>6 DEF Owned
  <2> QED
    BY <2>7 DEF m
<1>6. ASSUME NEW k \in DOMAIN EntriesOf(i)
      PROVE  Owned(EntriesOf(i)[k], Given(is, p))
  <2>1. CASE k = 1
    BY <1>2, <1>4, <2>1
  <2>2. CASE k # 1
    <3>1. k - 1 \in DOMAIN Ix[i].accounts /\ (k - 1) + 1 = k
      BY <1>2, <1>3, <2>2
    <3> QED
      BY <1>2, <1>5, <3>1
  <2> QED
    BY <2>1, <2>2
<1> QED
  BY <1>2, <1>6 DEF i

\* The list of a message: the payer first, in the header's order, with all that
\* the instructions name, and nothing that nobody has asked for.
LEMMA MetaListServes ==
  ASSUME heap \in [Metas -> AccountMetas], NEW is \in Seq(DOMAIN Ix), NEW p \in Key
  PROVE  LET list == MetaList(is, p)
         IN /\ Merging(list, Given(is, p)) /\ PayerFirst(list, p) /\ Ordered(list)
            /\ \A n \in DOMAIN is :
                 /\ Covers(list, Meta(ProgramKey(is[n]), FALSE, FALSE))
                 /\ \A j \in DOMAIN Ix[is[n]].accounts : Covers(list, heap[Ix[is[n]].accounts[j]])
<1> DEFINE given == Given(is, p)
           e == Entry(Fresh, Meta(p, TRUE, TRUE))
           first == <<e>>
           merged == FromInstructions(first, is)
           added == Add(merged, e)
           list == Sort(added)
<1>1. MetaList(is, p) = list
  BY DEF MetaList
<1>2. e \in Entries /\ e.obj = Fresh /\ e.meta = Meta(p, TRUE, TRUE)
  BY FreshMeta
<1>3. Owned(e, given)
  <2>1. Meta(p, TRUE, TRUE) \in given
    BY DEF Given
  <2> HIDE DEF given, e
  <2> QED
    BY <1>2, <2>1 DEF Owned, Justified
<1>4. first \in Lists /\ DOMAIN first = 1 .. 1 /\ first[1] = e /\ Len(first) = 1
  <2> HIDE DEF e
  <2> QED
    BY <1>2 DEF Lists
<1> HIDE DEF given, e, first, merged, added, list
<1>5. Merging(first, given)
  <2>1. \A k \in DOMAIN first : k = 1
    BY <1>4
  <2>2. Distinct(first)
    BY <2>1 DEF Distinct
  <2>3. \A k \in DOMAIN first : Owned(first[k], given)
    BY <1>3, <1>4, <2>1
  <2> QED
    BY <1>4, <2>2, <2>3 DEF Merging
<1>6. \A n \in DOMAIN is : /\ EntriesOf(is[n]) \in Seq(Entries)
                           /\ \A k \in DOMAIN EntriesOf(is[n]) : Owned(EntriesOf(is[n])[k], given)
  BY EntriesAreOwned DEF given
<1>7. /\ Merging(merged, given) /\ Grown(first, merged)
      /\ \A n \in DOMAIN is : \A k \in DOMAIN EntriesOf(is[n]) : Covers(merged, EntriesOf(is[n])[k].meta)
  BY <1>5, <1>6, FromInstructionsMerges DEF merged
<1>8. Merging(added, given) /\ Grown(merged, added)
  BY <1>2, <1>3, <1>7, AddMerges DEF added
<1>9. merged \in Lists /\ added \in Lists
  BY <1>7, <1>8 DEF Merging
<1>10. Grown(first, added)
  BY <1>4, <1>7, <1>8, <1>9, GrownTransitive
<1>11. added # <<>> /\ added[1].obj = Fresh /\ AtLeast(added[1].meta, Meta(p, TRUE, TRUE))
  <2>1. 1 <= Len(added) /\ added[1].obj = first[1].obj /\ AtLeast(added[1].meta, first[1].meta)
    BY <1>4, <1>10 DEF Grown
  <2>2. added # <<>>
    BY <1>9, <2>1 DEF Lists
  <2> QED
    BY <1>2, <1>4, <2>1, <2>2
<1>12. added[1].meta.key.addr = p.addr /\ Has(added[1], TRUE, TRUE)
  <2>1. 1 \in DOMAIN added
    BY <1>9, <1>11, ListFields, EmptySeq DEF Lists
  <2>2. added[1].meta.is_signer \in BOOLEAN /\ added[1].meta.writeable \in BOOLEAN
    BY <1>9, <2>1, EntryFields, MetaFields
  <2>3. added[1].meta.is_signer /\ added[1].meta.writeable /\ added[1].meta.key.addr = p.addr
    BY <1>11, FreshMeta DEF AtLeast
  <2> QED
    BY <2>2, <2>3 DEF Has
<1>13. /\ Arranges(list, added, DOMAIN added) /\ Ordered(list) /\ list # <<>> /\ list[1] = added[1]
  BY <1>9, <1>11, <1>12, SortArranges DEF list
<1>14. /\ Merging(list, given)
       /\ \A m : Covers(added, m) => Covers(list, m)
  BY <1>8, <1>13, ArrangedIsMerging
<1>15. PayerFirst(list, p)
  <2>1. p.kind = "keypair" => added[1].meta.key.kind = "keypair"
    BY <1>11, FreshMeta DEF AtLeast
  <2> QED
    BY <1>11, <1>12, <1>13, <2>1 DEF PayerFirst, Has
<1>16. \A m : Covers(merged, m) => Covers(list, m)
  BY <1>8, <1>9, <1>14, StillCovers
<1>17. ASSUME NEW n \in DOMAIN is
       PROVE  /\ Covers(list, Meta(ProgramKey(is[n]), FALSE, FALSE))
              /\ \A j \in DOMAIN Ix[is[n]].accounts : Covers(list, heap[Ix[is[n]].accounts[j]])
  <2> DEFINE i == is[n]
  <2>1. i \in DOMAIN Ix
    BY LenProperties
  <2>2. \A k \in DOMAIN EntriesOf(i) : Covers(list, EntriesOf(i)[k].meta)
    BY <1>7, <1>16
  <2> HIDE DEF i
  <2>3. /\ DOMAIN EntriesOf(i) = 1 .. Len(Ix[i].accounts) + 1
        /\ EntriesOf(i)[1] = Entry(Fresh, Meta(ProgramKey(i), FALSE, FALSE))
        /\ \A j \in DOMAIN Ix[i].accounts :
             EntriesOf(i)[j + 1] = Entry(Ix[i].accounts[j], heap[Ix[i].accounts[j]])
    BY <2>1, EntriesOfInstruction
  <2>4. Len(Ix[i].accounts) \in Nat /\ DOMAIN Ix[i].accounts = 1 .. Len(Ix[i].accounts)
    BY <2>1, InstructionFields
  <2>5. Covers(list, Meta(ProgramKey(i), FALSE, FALSE))
    <3>1. 1 \in DOMAIN EntriesOf(i)
      BY <2>3, <2>4
    <3>2. EntriesOf(i)[1].meta = Meta(ProgramKey(i), FALSE, FALSE)
      BY <2>3 DEF Entry
    <3> QED
      BY <2>2, <3>1, <3>2
  <2>6. ASSUME NEW j \in DOMAIN Ix[i].accounts
        PROVE  Covers(list, heap[Ix[i].accounts[j]])
    <3>1. j + 1 \in DOMAIN EntriesOf(i)
      BY <2>3, <2>4
    <3>2. EntriesOf(i)[j + 1] = Entry(Ix[i].accounts[j], heap[Ix[i].accounts[j]])
      BY <2>3
    <3>3. EntriesOf(i)[j + 1].meta = heap[Ix[i].accounts[j]]
      BY <3>2 DEF Entry
    <3> QED
      BY <2>2, <3>1, <3>3
  <2> QED
    BY <2>5, <2>6 DEF i
<1> QED
  BY <1>1, <1>13, <1>14, <1>15, <1>17 DEF given

-----------------------------------------------------------------------------
(* The calls.                                                              *)

\* More metas justify no less.
LEMMA JustifiedByMore ==
  ASSUME NEW m, NEW S, NEW T, S \subseteq T, Justified(m, S)
  PROVE  Justified(m, T)
BY DEF Justified

\* An object is what it was or an entry of the list.
LEMMA WrittenFromList ==
  ASSUME heap \in [Metas -> AccountMetas], NEW list \in Lists
  PROVE  /\ Written(list) \in [Metas -> AccountMetas]
         /\ \A m \in Metas : \/ Written(list)[m] = heap[m]
                             \/ \E n \in DOMAIN list : list[n].obj = m /\ Written(list)[m] = list[n].meta
<1> DEFINE I(m) == {n \in 1 .. Len(list) : list[n].obj = m}
           at(m) == SelectInSeq(list, LAMBDA e : e.obj = m)
<1>1. DOMAIN list = 1 .. Len(list)
  BY ListFields
<1>2. \A m : at(m) = IF I(m) # {} THEN Min(I(m)) ELSE 0
  BY DEF SelectInSeq
<1>3. \A m : I(m) \in SUBSET Nat
  OBVIOUS
<1>4. Written(list) = [m \in Metas |-> IF at(m) = 0 THEN heap[m] ELSE list[at(m)].meta]
  BY DEF Written
<1> HIDE DEF at
<1>5. \A m : at(m) = 0 \/ (at(m) \in DOMAIN list /\ list[at(m)].obj = m)
  <2> SUFFICES ASSUME NEW m, at(m) # 0
               PROVE  at(m) \in DOMAIN list /\ list[at(m)].obj = m
    OBVIOUS
  <2> HIDE DEF I
  <2>1. I(m) # {} /\ at(m) = Min(I(m))
    BY <1>2
  <2>2. \E x \in I(m) : \A y \in I(m) : x <= y
    BY <1>3, <2>1, Least
  <2>3. at(m) \in I(m)
    BY <2>1, <2>2 DEF Min
  <2> QED
    BY <1>1, <2>3 DEF I
<1>6. \A m \in Metas : Written(list)[m] = IF at(m) = 0 THEN heap[m] ELSE list[at(m)].meta
  BY <1>4
<1>7. \A m \in Metas : Written(list)[m] \in AccountMetas
  BY <1>5, <1>6, EntryFields
<1>8. Written(list) \in [Metas -> AccountMetas]
  BY <1>4, <1>7
<1> QED
  BY <1>5, <1>6, <1>8

\* What the list covers is found in it, with its rights.
LEMMA FindsCovered ==
  ASSUME NEW list \in Lists, Distinct(list), NEW m, Covers(list, m), NEW key, key.addr = m.key.addr
  PROVE  Find(list, key) \in DOMAIN list /\ AtLeast(list[Find(list, key)].meta, m)
<1>1. PICK i \in DOMAIN list : AtLeast(list[i].meta, m)
  BY DEF Covers
<1>2. list[i].meta.key.addr = key.addr
  BY <1>1 DEF AtLeast
<1>3. Find(list, key) \in DOMAIN list /\ list[Find(list, key)].meta.key.addr = key.addr
  BY <1>2, FindsPlace
<1>4. Find(list, key) = i
  BY <1>2, <1>3 DEF Distinct
<1> QED
  BY <1>1, <1>4

\* compile finds everything the instruction names.
LEMMA CompilesAll ==
  ASSUME heap \in [Metas -> AccountMetas], NEW ask, \A m \in Metas : AtLeast(heap[m], ask[m]),
         NEW list \in Lists, Distinct(list), NEW i \in DOMAIN Ix,
         Covers(list, Meta(ProgramKey(i), FALSE, FALSE)),
         \A j \in DOMAIN Ix[i].accounts : Covers(list, heap[Ix[i].accounts[j]])
  PROVE  Compiled(ask, list, Compile(i, list), i)
<1> DEFINE c == Compile(i, list)
           k == ProgramKey(i)
<1>1. /\ c.program = Find(list, k)
      /\ c.accounts = [j \in DOMAIN Ix[i].accounts |-> Find(list, heap[Ix[i].accounts[j]].key)]
  BY DEF Compile
<1> HIDE DEF c
<1>2. Meta(k, FALSE, FALSE).key = k
  BY DEF Meta
<1>3. k.addr = Ix[i].program
  BY DEF ProgramKey
<1> HIDE DEF k
<1>4. Find(list, k) \in DOMAIN list /\ AtLeast(list[Find(list, k)].meta, Meta(k, FALSE, FALSE))
  BY <1>2, FindsCovered DEF k
<1>5. c.program \in DOMAIN list /\ list[c.program].meta.key.addr = Ix[i].program
  BY <1>1, <1>2, <1>3, <1>4 DEF AtLeast
<1>6. ASSUME NEW j \in DOMAIN Ix[i].accounts
      PROVE  /\ c.accounts[j] \in DOMAIN list
             /\ AtLeast(list[c.accounts[j]].meta, ask[Ix[i].accounts[j]])
  <2> DEFINE m == Ix[i].accounts[j]
  <2>1. m \in Metas /\ Covers(list, heap[m]) /\ c.accounts[j] = Find(list, heap[m].key)
    BY <1>1, InstructionFields
  <2> HIDE DEF m
  <2>2. c.accounts[j] \in DOMAIN list /\ AtLeast(list[c.accounts[j]].meta, heap[m])
    BY <2>1, FindsCovered
  <2>3. AtLeast(list[c.accounts[j]].meta, ask[m])
    BY <2>1, <2>2, AtLeastTransitive
  <2> QED
    BY <2>2, <2>3 DEF m
<1>7. DOMAIN c.accounts = DOMAIN Ix[i].accounts /\ c = [program |-> c.program, accounts |-> c.accounts]
  BY <1>1 DEF c, Compile
<1>8. c.accounts \in Seq(DOMAIN list)
  <2>1. DOMAIN Ix[i].accounts = 1 .. Len(Ix[i].accounts) /\ Len(Ix[i].accounts) \in Nat
    BY InstructionFields
  <2>2. c.accounts = [j \in DOMAIN Ix[i].accounts |-> c.accounts[j]]
    BY <1>1
  <2>3. c.accounts \in [1 .. Len(Ix[i].accounts) -> DOMAIN list]
    BY <1>6, <2>1, <2>2
  <2> QED
    BY <2>1, <2>3
<1> QED
  BY <1>5, <1>6, <1>7, <1>8 DEF Compiled, c

\* The list of a message is of what its instructions and its payer ask for.
LEMMA ListedWell ==
  ASSUME NEW ask, NEW old, NEW was, WellKept(ask, heap, old, was),
         NEW is \in Seq(DOMAIN Ix), NEW p \in Payers, NEW rep,
         ~rep => ~was /\ AskedBy(ask, old) \subseteq AskedBy(ask, is)
  PROVE  WellListed(ask, MetaList(is, p), is, p, rep)
<1> DEFINE list == MetaList(is, p)
<1>1. heap \in [Metas -> AccountMetas] /\ p \in Key
  BY Assumption DEF WellKept
<1>2. Merging(list, Given(is, p)) /\ PayerFirst(list, p) /\ Ordered(list)
  BY <1>1, MetaListServes
<1> HIDE DEF list
<1>3. list \in Lists /\ Distinct(list) /\ \A n \in DOMAIN list : Owned(list[n], Given(is, p))
  BY <1>2 DEF Merging
<1>4. ASSUME NEW n \in DOMAIN list, ~rep, n # 1
      PROVE  Justified(list[n].meta, AskedBy(ask, is))
  <2> DEFINE m == list[n].meta
  <2>1. Justified(m, Given(is, p))
    BY <1>3 DEF Owned
  <2>2. 1 \in DOMAIN list /\ list[1].meta.key.addr = p.addr
    BY <1>2, <1>3, ListFields, EmptySeq DEF PayerFirst, Lists
  <2>3. m.key.addr # p.addr
    BY <1>3, <1>4, <2>2 DEF Distinct
  <2>4. \A g \in Given(is, p) : g.key.addr = m.key.addr /\ (g.is_signer \/ g.writeable) =>
          \E u \in Used(is) : g = heap[u]
    <3>1. Meta(p, TRUE, TRUE).key = p
      BY DEF Meta
    <3>2. \A i : ~Meta(ProgramKey(i), FALSE, FALSE).is_signer /\ ~Meta(ProgramKey(i), FALSE, FALSE).writeable
      BY DEF Meta
    <3> HIDE DEF m
    <3> QED
      BY <2>3, <3>1, <3>2 DEF Given
  <2>5. \A u \in Used(is) : u \in Metas /\ ask[u] \in AskedBy(ask, is)
    <3>1. \A i \in ToSet(is) : i \in DOMAIN Ix
      BY LenProperties DEF ToSet
    <3>2. \A i \in DOMAIN Ix : ToSet(Ix[i].accounts) \subseteq Metas
      BY InstructionFields DEF ToSet
    <3> QED
      BY <3>1, <3>2 DEF Used, AskedBy
  <2>6. \A u \in Used(is) : Justified(heap[u], AskedBy(ask, is))
    <3> SUFFICES ASSUME NEW u \in Used(is)
                 PROVE  Justified(heap[u], AskedBy(ask, is))
      OBVIOUS
    <3>1. Justified(heap[u], {ask[u]} \cup AskedBy(ask, old))
      BY <1>4, <2>5 DEF WellKept
    <3>2. {ask[u]} \cup AskedBy(ask, old) \subseteq AskedBy(ask, is)
      BY <1>4, <2>5
    <3> QED
      BY <3>1, <3>2, JustifiedByMore
  <2> HIDE DEF m
  <2>7. Justified(m, AskedBy(ask, is))
    <3>1. ASSUME m.is_signer
          PROVE  \E g \in AskedBy(ask, is) : g.key.addr = m.key.addr /\ g.is_signer
      <4>1. PICK g \in Given(is, p) : g.key.addr = m.key.addr /\ g.is_signer
        BY <2>1, <3>1 DEF Justified
      <4>2. PICK u \in Used(is) : g = heap[u]
        BY <2>4, <4>1
      <4> QED
        BY <2>6, <4>1, <4>2 DEF Justified
    <3>2. ASSUME m.writeable
          PROVE  \E g \in AskedBy(ask, is) : g.key.addr = m.key.addr /\ g.writeable
      <4>1. PICK g \in Given(is, p) : g.key.addr = m.key.addr /\ g.writeable
        BY <2>1, <3>2 DEF Justified
      <4>2. PICK u \in Used(is) : g = heap[u]
        BY <2>4, <4>1
      <4> QED
        BY <2>6, <4>1, <4>2 DEF Justified
    <3> QED
      BY <3>1, <3>2 DEF Justified
  <2> QED
    BY <2>7 DEF m
<1>5. ASSUME NEW n \in DOMAIN list, list[n].obj # Fresh
      PROVE  AtLeast(list[n].meta, ask[list[n].obj])
  <2>1. list[n].obj \in Metas
    BY <1>3, <1>5, EntryFields
  <2>2. AtLeast(list[n].meta, heap[list[n].obj])
    BY <1>3, <1>5 DEF Owned
  <2>3. AtLeast(heap[list[n].obj], ask[list[n].obj])
    BY <2>1 DEF WellKept
  <2> QED
    BY <2>2, <2>3, AtLeastTransitive
<1> QED
  BY <1>2, <1>3, <1>4, <1>5 DEF WellListed, list

\* What the list is written back to is kept well.
LEMMA WrittenWell ==
  ASSUME NEW ask, NEW old, NEW was, WellKept(ask, heap, old, was),
         NEW list, NEW is, NEW p, NEW rep, WellListed(ask, list, is, p, rep),
         ~rep => ~was /\ AskedBy(ask, old) \subseteq AskedBy(ask, is)
  PROVE  WellKept(ask, Written(list), is, rep)
<1>1. heap \in [Metas -> AccountMetas] /\ list \in Lists
  BY DEF WellKept, WellListed
<1>2. /\ Written(list) \in [Metas -> AccountMetas]
      /\ \A m \in Metas : \/ Written(list)[m] = heap[m]
                          \/ \E n \in DOMAIN list : list[n].obj = m /\ Written(list)[m] = list[n].meta
  BY <1>1, WrittenFromList
<1>3. ASSUME NEW m \in Metas
      PROVE  /\ AtLeast(Written(list)[m], ask[m])
             /\ ~rep => Justified(Written(list)[m], {ask[m]} \cup AskedBy(ask, is))
  <2>1. CASE Written(list)[m] = heap[m]
    <3>1. AtLeast(heap[m], ask[m]) /\ (~was => Justified(heap[m], {ask[m]} \cup AskedBy(ask, old)))
      BY DEF WellKept
    <3>2. ~rep => {ask[m]} \cup AskedBy(ask, old) \subseteq {ask[m]} \cup AskedBy(ask, is)
      OBVIOUS
    <3>3. ~rep => Justified(heap[m], {ask[m]} \cup AskedBy(ask, is))
      BY <3>1, <3>2, JustifiedByMore
    <3> QED
      BY <2>1, <3>1, <3>3
  <2>2. ASSUME NEW n \in DOMAIN list, list[n].obj = m, Written(list)[m] = list[n].meta
        PROVE  /\ AtLeast(Written(list)[m], ask[m])
               /\ ~rep => Justified(Written(list)[m], {ask[m]} \cup AskedBy(ask, is))
    <3>1. m # Fresh
      BY Assumption
    <3>2. n # 1
      BY <2>2, <3>1 DEF WellListed, PayerFirst
    <3>3. AtLeast(list[n].meta, ask[m]) /\ (~rep => Justified(list[n].meta, AskedBy(ask, is)))
      BY <2>2, <3>1, <3>2 DEF WellListed
    <3>4. ~rep => Justified(list[n].meta, {ask[m]} \cup AskedBy(ask, is))
      <4>1. AskedBy(ask, is) \subseteq {ask[m]} \cup AskedBy(ask, is)
        OBVIOUS
      <4> QED
        BY <3>3, <4>1, JustifiedByMore
    <3> QED
      BY <2>2, <3>3, <3>4
  <2> QED
    BY <1>2, <2>1, <2>2
<1> QED
  BY <1>2, <1>3 DEF WellKept

\* create_message builds the message anew, or there was none.
LEMMA CreatesWell ==
  ASSUME NEW ask, NEW old, NEW was, WellKept(ask, heap, old, was),
         NEW is \in Seq(DOMAIN Ix), NEW p \in Payers \cup {NoPayer}, NEW rep,
         ~rep => ~was /\ AskedBy(ask, old) \subseteq AskedBy(ask, is),
         is = <<>> \/ p = NoPayer => message = NoMessage,
         CreateMessage(is, p)
  PROVE  /\ WellKept(ask, heap', is, rep)
         /\ message' # NoMessage => WellBuilt(ask, message', is, p, rep)
<1>1. CASE is = <<>> \/ p = NoPayer
  <2>1. message' = NoMessage /\ heap' = heap
    BY <1>1 DEF CreateMessage
  <2>2. WellKept(ask, heap, is, rep)
    <3>1. ASSUME NEW m \in Metas, ~rep
          PROVE  Justified(heap[m], {ask[m]} \cup AskedBy(ask, is))
      <4>1. Justified(heap[m], {ask[m]} \cup AskedBy(ask, old))
        BY <3>1 DEF WellKept
      <4>2. {ask[m]} \cup AskedBy(ask, old) \subseteq {ask[m]} \cup AskedBy(ask, is)
        BY <3>1
      <4> QED
        BY <4>1, <4>2, JustifiedByMore
    <3> QED
      BY <3>1 DEF WellKept
  <2> QED
    BY <2>1, <2>2
<1>2. CASE is # <<>> /\ p # NoPayer
  <2> DEFINE list == MetaList(is, p)
             msg == [metas |-> list, header |-> Header(list), compiled |-> [n \in DOMAIN is |-> Compile(is[n], list)]]
  <2>1. message' = msg /\ heap' = Written(list)
    BY <1>2 DEF CreateMessage
  <2>2. p \in Payers /\ p \in Key /\ heap \in [Metas -> AccountMetas]
    BY <1>2, Assumption DEF WellKept
  <2>3. WellListed(ask, list, is, p, rep)
    BY <2>2, ListedWell
  <2>4. \A n \in DOMAIN is :
          /\ Covers(list, Meta(ProgramKey(is[n]), FALSE, FALSE))
          /\ \A j \in DOMAIN Ix[is[n]].accounts : Covers(list, heap[Ix[is[n]].accounts[j]])
    BY <2>2, MetaListServes
  <2> HIDE DEF list
  <2>5. WellKept(ask, Written(list), is, rep)
    BY <2>3, WrittenWell
  <2>6. /\ msg.metas = list /\ msg.header = Header(list)
        /\ msg.compiled = [n \in DOMAIN is |-> Compile(is[n], list)]
        /\ msg = [metas |-> msg.metas, header |-> msg.header, compiled |-> msg.compiled]
    OBVIOUS
  <2>7. ASSUME NEW n \in DOMAIN is
        PROVE  Compiled(ask, list, msg.compiled[n], is[n])
    <3>1. is[n] \in DOMAIN Ix
      BY LenProperties
    <3>2. \A m \in Metas : AtLeast(heap[m], ask[m])
      BY DEF WellKept
    <3>3. list \in Lists /\ Distinct(list)
      BY <2>3 DEF WellListed
    <3>4. Compiled(ask, list, Compile(is[n], list), is[n])
      BY <2>2, <2>4, <3>1, <3>2, <3>3, CompilesAll
    <3> QED
      BY <2>6, <3>4
  <2>8. msg.compiled = [n \in DOMAIN is |-> msg.compiled[n]]
    OBVIOUS
  <2> HIDE DEF msg
  <2>9. WellBuilt(ask, msg, is, p, rep)
    BY <1>2, <2>2, <2>3, <2>6, <2>7, <2>8 DEF WellBuilt
  <2> QED
    BY <2>1, <2>5, <2>9
<1> QED
  BY <1>1, <1>2

\* The header of a list depends on what a merge with a signer leaves alone.
LEMMA SameHeader ==
  ASSUME NEW list, NEW next, DOMAIN next = DOMAIN list, Len(next) = Len(list), Ordered(list),
         \A n \in DOMAIN list : /\ next[n].meta.key.addr = list[n].meta.key.addr
                                /\ next[n].meta.is_signer = list[n].meta.is_signer
                                /\ next[n].meta.writeable = list[n].meta.writeable
  PROVE  Header(next) = Header(list) /\ Ordered(next)
<1>1. Signers(next) = Signers(list)
  BY DEF Signers
<1>2. \A x, y : Places(next, x, y) = Places(list, x, y)
  BY DEF Places
<1>3. [n \in DOMAIN next |-> next[n].meta.key.addr] = [n \in DOMAIN list |-> list[n].meta.key.addr]
  OBVIOUS
<1>4. Header(next) = Header(list)
  BY <1>1, <1>2, <1>3 DEF Header
<1>5. Ordered(next)
  BY <1>1, <1>2, <1>4 DEF Ordered
<1> QED
  BY <1>4, <1>5

\* The signers of a list are its first entries.
LEMMA SignersInFront ==
  ASSUME NEW list \in Lists, Ordered(list)
  PROVE  LET N == Cardinality(Signers(list))
         IN /\ N \in Nat /\ Signers(list) = 1 .. N /\ N <= Len(list)
            /\ At(list, Signers(list)) = [n \in 1 .. N |-> list[n]]
            /\ Len(At(list, Signers(list))) = N
<1> DEFINE N == Cardinality(Signers(list))
<1>1. Signers(list) = 1 .. N
  BY DEF Ordered, Header
<1>2. Signers(list) \in SUBSET DOMAIN list /\ DOMAIN list = 1 .. Len(list) /\ Len(list) \in Nat
  BY ListFields DEF Signers
<1>3. N \in Nat /\ Len(At(list, Signers(list))) = N
  BY <1>2, AtArranges
<1>4. N <= Len(list)
  <2> HIDE DEF N
  <2>1. CASE N = 0
    BY <1>2, <2>1
  <2>2. CASE N # 0
    <3>1. N \in 1 .. N
      BY <1>3, <2>2
    <3> QED
      BY <1>1, <1>2, <3>1
  <2> QED
    BY <2>1, <2>2
<1>5. \A n \in 1 .. N : Nth(1 .. N, n) = n
  BY <1>3, NthOfAll
<1>6. At(list, Signers(list)) = [n \in 1 .. N |-> list[Nth(1 .. N, n)]]
  BY <1>1 DEF At
<1> HIDE DEF N
<1>7. At(list, Signers(list)) = [n \in 1 .. N |-> list[n]]
  BY <1>5, <1>6
<1> QED
  BY <1>1, <1>3, <1>4, <1>7 DEF N

\* A signer that is supplied changes an object of the list, no right and no place.
LEMMA SuppliesWell ==
  ASSUME NEW ask, NEW list, NEW is, NEW p, NEW rep, WellListed(ask, list, is, p, rep),
         NEW k \in Key, NEW n \in DOMAIN list, list[n].meta.is_signer, list[n].meta.key.addr = k.addr
  PROVE  LET next == SupplySigner(list, k)
         IN /\ WellListed(ask, next, is, p, rep) /\ Header(next) = Header(list)
            /\ \A c, i : Compiled(ask, list, c, i) => Compiled(ask, next, c, i)
<1> DEFINE i == Find(list, k)
           m == Meta(k, TRUE, FALSE)
           next == SupplySigner(list, k)
<1>1. /\ list \in Lists /\ Distinct(list) /\ PayerFirst(list, p) /\ Ordered(list)
      /\ \A j \in DOMAIN list :
           /\ ~rep /\ j # 1 => Justified(list[j].meta, AskedBy(ask, is))
           /\ list[j].obj # Fresh => AtLeast(list[j].meta, ask[list[j].obj])
  BY DEF WellListed
<1>2. i \in DOMAIN list /\ i # 0 /\ list[i].meta.key.addr = k.addr
  BY <1>1, FindsPlace
<1>3. i = n
  BY <1>1, <1>2 DEF Distinct
<1>4. m \in AccountMetas /\ m.key = k /\ m.is_signer = TRUE /\ m.writeable = FALSE
  BY FreshMeta
<1>5. next = MergeAt(list, i, m)
  BY <1>2 DEF SupplySigner
<1> HIDE DEF i, m, next
<1>6. /\ next \in Lists /\ Len(next) = Len(list) /\ DOMAIN next = DOMAIN list
      /\ \A j \in DOMAIN list : next[j].obj = list[j].obj
      /\ \A j \in DOMAIN list : j # i => next[j] = list[j]
      /\ next[i].meta = Merge(list[i].meta, m)
  BY <1>1, <1>2, <1>4, <1>5, MergesAt
<1>7. list[i].meta \in AccountMetas
  BY <1>1, <1>2, EntryFields
<1>8. AtLeast(next[i].meta, list[i].meta)
  BY <1>2, <1>4, <1>6, <1>7, MergeIsBoth
<1>9. /\ next[i].meta.is_signer = list[i].meta.is_signer
      /\ next[i].meta.writeable = list[i].meta.writeable
  <2>1. list[i].meta.is_signer \in BOOLEAN /\ list[i].meta.writeable \in BOOLEAN
    BY <1>7, MetaFields
  <2>2. /\ next[i].meta.is_signer = (list[i].meta.is_signer \/ m.is_signer)
        /\ next[i].meta.writeable = (list[i].meta.writeable \/ m.writeable)
    BY <1>6 DEF Merge, Meta
  <2>3. list[i].meta.is_signer = TRUE
    BY <1>3, <2>1
  <2> QED
    BY <1>4, <2>1, <2>2, <2>3
<1>10. \A j \in DOMAIN list : /\ next[j].meta.key.addr = list[j].meta.key.addr
                              /\ next[j].meta.is_signer = list[j].meta.is_signer
                              /\ next[j].meta.writeable = list[j].meta.writeable
  BY <1>6, <1>8, <1>9 DEF AtLeast
<1>11. \A j \in DOMAIN list : AtLeast(next[j].meta, list[j].meta)
  BY <1>1, <1>6, <1>8, EntryFields, AtLeastItself
<1>12. Header(next) = Header(list) /\ Ordered(next)
  BY <1>1, <1>6, <1>10, SameHeader
<1>13. Distinct(next)
  BY <1>1, <1>6, <1>10 DEF Distinct
<1>14. PayerFirst(next, p)
  <2>1. 1 \in DOMAIN list
    BY <1>1, ListFields, EmptySeq DEF PayerFirst, Lists
  <2>2. next # <<>>
    BY <1>6, <2>1, ListFields
  <2>3. p.kind = "keypair" => next[1].meta.key.kind = "keypair"
    BY <1>1, <1>11, <2>1 DEF PayerFirst, AtLeast
  <2> QED
    BY <1>1, <1>6, <1>10, <2>1, <2>2, <2>3 DEF PayerFirst
<1>15. ASSUME NEW j \in DOMAIN next
       PROVE  /\ ~rep /\ j # 1 => Justified(next[j].meta, AskedBy(ask, is))
              /\ next[j].obj # Fresh => AtLeast(next[j].meta, ask[next[j].obj])
  <2>1. ~rep /\ j # 1 => Justified(next[j].meta, AskedBy(ask, is))
    BY <1>1, <1>6, <1>10 DEF Justified
  <2>2. next[j].obj # Fresh => AtLeast(next[j].meta, ask[next[j].obj])
    BY <1>1, <1>6, <1>11, AtLeastTransitive
  <2> QED
    BY <2>1, <2>2
<1>16. WellListed(ask, next, is, p, rep)
  BY <1>6, <1>12, <1>13, <1>14, <1>15 DEF WellListed
<1>17. ASSUME NEW c, NEW x, Compiled(ask, list, c, x)
       PROVE  Compiled(ask, next, c, x)
  <2>1. c.program \in DOMAIN next /\ next[c.program].meta.key.addr = Ix[x].program
    BY <1>6, <1>10, <1>17 DEF Compiled
  <2>2. \A j \in DOMAIN Ix[x].accounts : c.accounts[j] \in DOMAIN list
    BY <1>17, LenProperties DEF Compiled
  <2>3. \A j \in DOMAIN Ix[x].accounts : AtLeast(next[c.accounts[j]].meta, ask[Ix[x].accounts[j]])
    BY <1>11, <1>17, <2>2, AtLeastTransitive DEF Compiled
  <2> QED
    BY <1>6, <1>17, <2>1, <2>3 DEF Compiled
<1> QED
  BY <1>12, <1>16, <1>17 DEF next

-----------------------------------------------------------------------------
(* The specification.                                                      *)

\* Before any call nothing is built.
LEMMA InitWell == Init => IInv
<1> SUFFICES ASSUME Init
             PROVE  IInv
  OBVIOUS
<1>1. Typed
  <2>1. asked \in [Metas -> AccountMetas]
    BY DEF Init
  <2>2. replaced \in BOOLEAN /\ payer \in Payers \cup {NoPayer}
    BY DEF Init
  <2>3. instructions \in Seq(DOMAIN Ix)
    BY EmptySeq DEF Init
  <2> QED
    BY <2>1, <2>2, <2>3 DEF Typed
<1>2. ASSUME NEW m \in Metas
      PROVE  AtLeast(heap[m], asked[m]) /\ Justified(heap[m], {asked[m]} \cup AskedBy(asked, instructions))
  <2>1. heap[m] = asked[m] /\ heap[m] \in AccountMetas
    BY DEF Init
  <2>2. AtLeast(heap[m], asked[m])
    BY <2>1, AtLeastItself
  <2>3. Justified(heap[m], {asked[m]} \cup AskedBy(asked, instructions))
    BY <2>1 DEF Justified
  <2> QED
    BY <2>2, <2>3
<1>3. WellKept(asked, heap, instructions, replaced)
  BY <1>2 DEF Init, WellKept
<1> QED
  BY <1>1, <1>3 DEF Init, IInv

\* While there is a message there are instructions and a payer.
LEMMA NoneWithout ==
  ASSUME IInv, instructions = <<>> \/ payer = NoPayer
  PROVE  message = NoMessage
<1>1. \A p \in Payers : p # NoPayer
  BY Assumption
<1> QED
  BY <1>1 DEF IInv, WellBuilt

\* add_instruction and the message it builds.
LEMMA AddInstructionWell ==
  ASSUME IInv, NEW i \in DOMAIN Ix, AddInstruction(i)
  PROVE  IInv'
<1> DEFINE is == Append(instructions, i)
<1>1. /\ instructions' = is /\ CreateMessage(is, payer)
      /\ payer' = payer /\ asked' = asked /\ replaced' = replaced
  BY DEF AddInstruction
<1>2. Typed /\ WellKept(asked, heap, instructions, replaced)
  BY DEF IInv
<1>3. /\ instructions \in Seq(DOMAIN Ix) /\ payer \in Payers \cup {NoPayer}
  BY <1>2 DEF Typed
<1>4. is \in Seq(DOMAIN Ix) /\ is # <<>> /\ ToSet(instructions) \subseteq ToSet(is)
  <2>1. /\ is \in Seq(DOMAIN Ix) /\ is # <<>> /\ Len(is) = Len(instructions) + 1
        /\ \A n \in 1 .. Len(instructions) : is[n] = instructions[n]
    BY <1>3, AppendProperties
  <2>2. DOMAIN instructions = 1 .. Len(instructions) /\ Len(instructions) \in Nat /\ DOMAIN is = 1 .. Len(is)
    BY <1>3, <2>1, LenProperties
  <2>3. ToSet(instructions) \subseteq ToSet(is)
    <3> HIDE DEF is
    <3>1. \A n \in DOMAIN instructions : n \in DOMAIN is /\ is[n] = instructions[n]
      BY <2>1, <2>2
    <3> QED
      BY <3>1 DEF ToSet
  <2> QED
    BY <2>1, <2>3
<1> HIDE DEF is
<1>5. AskedBy(asked, instructions) \subseteq AskedBy(asked, is)
  BY <1>4 DEF AskedBy, Used
<1>6. /\ WellKept(asked, heap', is, replaced)
      /\ message' # NoMessage => WellBuilt(asked, message', is, payer, replaced)
  <2>1. is = <<>> \/ payer = NoPayer => message = NoMessage
    BY <1>4, NoneWithout
  <2>2. ~replaced => ~replaced /\ AskedBy(asked, instructions) \subseteq AskedBy(asked, is)
    BY <1>5
  <2> QED
    BY <1>1, <1>2, <1>3, <1>4, <2>1, <2>2, CreatesWell
<1>7. Typed'
  BY <1>1, <1>2, <1>4 DEF Typed
<1> QED
  BY <1>1, <1>6, <1>7 DEF IInv

\* set_instructions, after which old rights may be left in the objects.
LEMMA SetInstructionsWell ==
  ASSUME IInv, NEW i \in DOMAIN Ix, SetInstructions(i)
  PROVE  IInv'
<1> DEFINE is == <<i>>
<1>1. /\ instructions' = is /\ CreateMessage(is, payer)
      /\ payer' = payer /\ asked' = asked /\ replaced' = TRUE
  BY DEF SetInstructions
<1>2. Typed /\ WellKept(asked, heap, instructions, replaced)
  BY DEF IInv
<1>3. payer \in Payers \cup {NoPayer}
  BY <1>2 DEF Typed
<1>4. is \in Seq(DOMAIN Ix) /\ is # <<>>
  OBVIOUS
<1> HIDE DEF is
<1>5. /\ WellKept(asked, heap', is, TRUE)
      /\ message' # NoMessage => WellBuilt(asked, message', is, payer, TRUE)
  <2>1. is = <<>> \/ payer = NoPayer => message = NoMessage
    BY <1>4, NoneWithout
  <2>2. ~TRUE => ~replaced /\ AskedBy(asked, instructions) \subseteq AskedBy(asked, is)
    OBVIOUS
  <2> QED
    BY <1>1, <1>2, <1>3, <1>4, <2>1, <2>2, CreatesWell
<1>6. Typed'
  BY <1>1, <1>2, <1>4 DEF Typed
<1> QED
  BY <1>1, <1>5, <1>6 DEF IInv

\* set_payer and the message it builds.
LEMMA SetPayerWell ==
  ASSUME IInv, NEW p \in Payers, SetPayer(p)
  PROVE  IInv'
<1>1. /\ payer' = p /\ CreateMessage(instructions, p)
      /\ instructions' = instructions /\ asked' = asked /\ replaced' = replaced
  BY DEF SetPayer
<1>2. Typed /\ WellKept(asked, heap, instructions, replaced)
  BY DEF IInv
<1>3. instructions \in Seq(DOMAIN Ix) /\ p \in Payers \cup {NoPayer} /\ p # NoPayer
  BY <1>2, Assumption DEF Typed
<1>4. /\ WellKept(asked, heap', instructions, replaced)
      /\ message' # NoMessage => WellBuilt(asked, message', instructions, p, replaced)
  <2>1. instructions = <<>> \/ p = NoPayer => message = NoMessage
    BY <1>3, NoneWithout
  <2>2. ~replaced => ~replaced /\ AskedBy(asked, instructions) \subseteq AskedBy(asked, instructions)
    OBVIOUS
  <2> QED
    BY <1>1, <1>2, <1>3, <2>1, <2>2, CreatesWell
<1>5. Typed'
  BY <1>1, <1>2, <1>3 DEF Typed
<1> QED
  BY <1>1, <1>4, <1>5 DEF IInv

\* set_signers changes the list in place.
LEMMA SetSignersWell ==
  ASSUME IInv, NEW k \in Signing, SetSigners(k)
  PROVE  IInv'
<1> DEFINE list == message.metas
           next == SupplySigner(list, k)
<1>1. /\ message # NoMessage /\ message' = [message EXCEPT !.metas = next] /\ heap' = Written(message'.metas)
      /\ \E n \in DOMAIN GetSigners : GetSigners[n].addr = k.addr
      /\ instructions' = instructions /\ payer' = payer /\ asked' = asked /\ replaced' = replaced
  BY DEF SetSigners
<1>2. /\ Typed /\ WellKept(asked, heap, instructions, replaced)
      /\ WellBuilt(asked, message, instructions, payer, replaced)
  BY <1>1 DEF IInv
<1>3. /\ instructions # <<>> /\ payer \in Payers
      /\ message = [metas |-> list, header |-> message.header, compiled |-> message.compiled]
      /\ WellListed(asked, list, instructions, payer, replaced)
      /\ message.header = Header(list)
      /\ message.compiled = [n \in DOMAIN instructions |-> message.compiled[n]]
      /\ \A n \in DOMAIN instructions : Compiled(asked, list, message.compiled[n], instructions[n])
  BY <1>2 DEF WellBuilt
<1>4. k \in Key
  BY DEF Signing
<1>5. \E n \in DOMAIN list : list[n].meta.is_signer /\ list[n].meta.key.addr = k.addr
  <2> DEFINE N == Cardinality(Signers(list))
  <2>1. list \in Lists /\ Ordered(list)
    BY <1>3 DEF WellListed
  <2>2. /\ N \in Nat /\ Signers(list) = 1 .. N
        /\ At(list, Signers(list)) = [n \in 1 .. N |-> list[n]]
    BY <2>1, SignersInFront
  <2>3. GetSigners = [n \in 1 .. N |-> list[n].meta.key]
    BY <2>2 DEF GetSigners
  <2>4. PICK n \in 1 .. N : list[n].meta.key.addr = k.addr
    BY <1>1, <2>3
  <2>5. n \in Signers(list)
    BY <2>2, <2>4
  <2> QED
    BY <2>4, <2>5 DEF Signers
<1> HIDE DEF list, next
<1>6. /\ WellListed(asked, next, instructions, payer, replaced) /\ Header(next) = Header(list)
      /\ \A c, i : Compiled(asked, list, c, i) => Compiled(asked, next, c, i)
  BY <1>3, <1>4, <1>5, SuppliesWell DEF next
<1>7. message' = [metas |-> next, header |-> message.header, compiled |-> message.compiled]
  BY <1>1, <1>3
<1>8. message'.metas = next /\ message'.header = message.header /\ message'.compiled = message.compiled
  BY <1>7
<1>9. WellBuilt(asked, message', instructions, payer, replaced)
  BY <1>3, <1>6, <1>7, <1>8 DEF WellBuilt
<1>10. WellKept(asked, heap', instructions, replaced)
  BY <1>1, <1>2, <1>6, <1>8, WrittenWell
<1>11. Typed'
  BY <1>1, <1>2 DEF Typed
<1> QED
  BY <1>1, <1>9, <1>10, <1>11 DEF IInv

\* No call breaks the invariant.
LEMMA NextWell == IInv /\ [Next]_vars => IInv'
<1> SUFFICES ASSUME IInv, [Next]_vars
             PROVE  IInv'
  OBVIOUS
<1>1. CASE UNCHANGED vars
  BY <1>1 DEF vars, IInv, Typed
<1>2. ASSUME NEW i \in DOMAIN Ix, AddInstruction(i)
      PROVE  IInv'
  BY <1>2, AddInstructionWell
<1>3. ASSUME NEW i \in DOMAIN Ix, SetInstructions(i)
      PROVE  IInv'
  BY <1>3, SetInstructionsWell
<1>4. ASSUME NEW p \in Payers, SetPayer(p)
      PROVE  IInv'
  BY <1>4, SetPayerWell
<1>5. ASSUME NEW k \in Signing, SetSigners(k)
      PROVE  IInv'
  BY <1>5, SetSignersWell
<1> QED
  BY <1>1, <1>2, <1>3, <1>4, <1>5 DEF Next

\* So it always holds.
LEMMA AlwaysWell == Spec => []IInv
  BY InitWell, NextWell, PTL DEF Spec
-----------------------------------------------------------------------------
(* What the header says of a list.                                         *)

\* The fields of a header.
LEMMA HeaderFields ==
  ASSUME NEW list \in Lists
  PROVE  LET h == Header(list)
         IN /\ h.signatures \in Nat /\ h.readonly_signed \in Nat /\ h.readonly_unsigned \in Nat
            /\ DOMAIN h.keys = DOMAIN list /\ DOMAIN list = 1 .. Len(list) /\ Len(list) \in Nat
            /\ Len(h.keys) = Len(list)
            /\ \A n \in DOMAIN list : h.keys[n] = list[n].meta.key.addr
<1> DEFINE h == Header(list)
<1>1. DOMAIN list = 1 .. Len(list) /\ Len(list) \in Nat
  BY ListFields
<1>2. \A T \in SUBSET (1 .. Len(list)) : Cardinality(T) \in Nat
  BY <1>1, RanksAreOwn
<1>3. /\ Signers(list) \subseteq DOMAIN list
      /\ Places(list, TRUE, FALSE) \subseteq DOMAIN list
      /\ Places(list, FALSE, FALSE) \subseteq DOMAIN list
  BY DEF Signers, Places
<1>4. h.signatures \in Nat /\ h.readonly_signed \in Nat /\ h.readonly_unsigned \in Nat
  BY <1>1, <1>2, <1>3 DEF Header
<1>5. h.keys = [n \in DOMAIN list |-> list[n].meta.key.addr]
  BY DEF Header
<1> HIDE DEF h
<1>6. h.keys = [n \in 1 .. Len(list) |-> list[n].meta.key.addr]
  BY <1>1, <1>5
<1>7. Len(h.keys) = Len(list)
  BY <1>1, <1>6
<1> QED
  BY <1>1, <1>4, <1>5, <1>7 DEF h

\* The counts fit into each other.
LEMMA CountsFit ==
  ASSUME NEW list \in Lists, Ordered(list)
  PROVE  LET h == Header(list)
         IN /\ h.readonly_signed <= h.signatures
            /\ h.signatures + h.readonly_unsigned <= Len(list)
<1> DEFINE s  == Header(list).signatures
           rs == Header(list).readonly_signed
           ru == Header(list).readonly_unsigned
           L  == Len(list)
<1>1. s \in Nat /\ rs \in Nat /\ ru \in Nat /\ L \in Nat /\ DOMAIN list = 1 .. L
  BY HeaderFields
<1>2. /\ Signers(list) = 1 .. s
      /\ Places(list, TRUE, FALSE) = (s - rs + 1) .. s
      /\ Places(list, FALSE, FALSE) = (L - ru + 1) .. L
  BY DEF Ordered
<1>3. /\ Places(list, TRUE, FALSE) \subseteq DOMAIN list
      /\ Places(list, FALSE, FALSE) \subseteq DOMAIN list \ Signers(list)
      /\ Signers(list) \subseteq DOMAIN list
  BY DEF Places, Signers
<1> HIDE DEF s, rs, ru, L
<1>4. (s - rs + 1) .. s \subseteq 1 .. L
  BY <1>1, <1>2, <1>3
<1>5. (L - ru + 1) .. L \subseteq (1 .. L) \ (1 .. s)
  BY <1>1, <1>2, <1>3
<1>6. 1 .. s \subseteq 1 .. L
  BY <1>1, <1>2, <1>3
<1>7. rs <= s
  <2>1. CASE rs = 0
    BY <1>1, <2>1
  <2>2. CASE rs # 0
    <3>1. s - rs + 1 \in (s - rs + 1) .. s
      BY <1>1, <2>2
    <3>2. s - rs + 1 \in 1 .. L
      BY <1>4, <3>1
    <3> QED
      BY <1>1, <3>2
  <2> QED
    BY <2>1, <2>2
<1>8. s + ru <= L
  <2>1. CASE ru = 0
    <3>1. s = 0 \/ s \in 1 .. s
      BY <1>1
    <3>2. s = 0 \/ s \in 1 .. L
      BY <1>6, <3>1
    <3> QED
      BY <1>1, <2>1, <3>2
  <2>2. CASE ru # 0
    <3>1. L - ru + 1 \in (L - ru + 1) .. L
      BY <1>1, <2>2
    <3>2. L - ru + 1 \in 1 .. L /\ L - ru + 1 \notin 1 .. s
      BY <1>5, <3>1
    <3> QED
      BY <1>1, <3>2
  <2> QED
    BY <2>1, <2>2
<1> QED
  BY <1>7, <1>8 DEF s, rs, ru, L

\* The rights a validator reads off the header are those of the meta.
LEMMA RightsAreRead ==
  ASSUME NEW list \in Lists, Ordered(list), NEW n \in DOMAIN list
  PROVE  /\ RightsAt(Header(list), n).is_signer = list[n].meta.is_signer
         /\ RightsAt(Header(list), n).writeable = list[n].meta.writeable
         /\ RightsAt(Header(list), n) =
              [is_signer |-> list[n].meta.is_signer, writeable |-> list[n].meta.writeable]
<1> DEFINE h  == Header(list)
           s  == h.signatures
           rs == h.readonly_signed
           ru == h.readonly_unsigned
           L  == Len(list)
           m  == list[n].meta
<1>1. s \in Nat /\ rs \in Nat /\ ru \in Nat /\ L \in Nat /\ DOMAIN list = 1 .. L /\ Len(h.keys) = L
  BY HeaderFields
<1>2. n \in 1 .. L
  BY <1>1
<1>3. m.is_signer \in BOOLEAN /\ m.writeable \in BOOLEAN
  BY EntryFields, MetaFields
<1>4. /\ n \in 1 .. s <=> m.is_signer = TRUE
      /\ n \in (s - rs + 1) .. s <=> m.is_signer = TRUE /\ m.writeable = FALSE
      /\ n \in (L - ru + 1) .. L <=> m.is_signer = FALSE /\ m.writeable = FALSE
  <2>1. n \in Signers(list) <=> m.is_signer = TRUE
    BY <1>3 DEF Signers
  <2>2. /\ n \in Places(list, TRUE, FALSE) <=> m.is_signer = TRUE /\ m.writeable = FALSE
        /\ n \in Places(list, FALSE, FALSE) <=> m.is_signer = FALSE /\ m.writeable = FALSE
    BY DEF Places
  <2>3. /\ Signers(list) = 1 .. s
        /\ Places(list, TRUE, FALSE) = (s - rs + 1) .. s
        /\ Places(list, FALSE, FALSE) = (L - ru + 1) .. L
    BY DEF Ordered
  <2> QED
    BY <2>1, <2>2, <2>3
<1>5. RightsAt(h, n) =
        [is_signer |-> n <= s, writeable |-> IF n <= s THEN n <= s - rs ELSE n <= L - ru]
  BY <1>1 DEF RightsAt
<1> HIDE DEF h, s, rs, ru, L, m
<1>6. n <= s <=> m.is_signer = TRUE
  BY <1>1, <1>2, <1>4
<1>7. ASSUME n <= s
      PROVE  n <= s - rs <=> m.writeable = TRUE
  <2>1. n \in (s - rs + 1) .. s <=> m.writeable = FALSE
    BY <1>4, <1>6, <1>7
  <2>2. n \in (s - rs + 1) .. s <=> ~(n <= s - rs)
    BY <1>1, <1>2, <1>7
  <2> QED
    BY <1>3, <2>1, <2>2
<1>8. ASSUME ~(n <= s)
      PROVE  n <= L - ru <=> m.writeable = TRUE
  <2>1. n \in (L - ru + 1) .. L <=> m.writeable = FALSE
    BY <1>3, <1>4, <1>6, <1>8
  <2>2. n \in (L - ru + 1) .. L <=> ~(n <= L - ru)
    BY <1>1, <1>2
  <2> QED
    BY <1>3, <2>1, <2>2
<1>9. (n <= s) = m.is_signer
  BY <1>1, <1>2, <1>3, <1>6
<1>10. (IF n <= s THEN n <= s - rs ELSE n <= L - ru) = m.writeable
  <2>1. CASE n <= s
    <3>1. (n <= s - rs) = m.writeable
      <4>1. n <= s - rs <=> m.writeable = TRUE
        BY <1>7, <2>1
      <4> QED
        BY <1>1, <1>2, <1>3, <4>1
    <3> QED
      BY <2>1, <3>1
  <2>2. CASE ~(n <= s)
    <3>1. (n <= L - ru) = m.writeable
      <4>1. n <= L - ru <=> m.writeable = TRUE
        BY <1>8, <2>2
      <4> QED
        BY <1>1, <1>2, <1>3, <4>1
    <3> QED
      BY <2>2, <3>1
  <2> QED
    BY <2>1, <2>2
<1>11. RightsAt(h, n) = [is_signer |-> m.is_signer, writeable |-> m.writeable]
  BY <1>5, <1>9, <1>10
<1> QED
  BY <1>11 DEF h, m

\* What the invariant says of the message.
LEMMA BuiltWell ==
  ASSUME IInv, Built
  PROVE  LET list == message.metas
         IN /\ instructions \in Seq(DOMAIN Ix) /\ payer \in Payers
            /\ WellListed(asked, list, instructions, payer, replaced)
            /\ list \in Lists /\ Distinct(list) /\ PayerFirst(list, payer) /\ Ordered(list)
            /\ message.header = Header(list)
            /\ message.compiled = [n \in DOMAIN instructions |-> message.compiled[n]]
            /\ \A n \in DOMAIN instructions :
                 Compiled(asked, list, message.compiled[n], instructions[n])
  BY DEF IInv, Typed, WellBuilt, WellListed, Built

\* The objects that sign are those of the first accounts.
LEMMA SignersOfMessage ==
  ASSUME IInv, Built
  PROVE  LET list == message.metas
             N == message.header.signatures
         IN /\ N \in Nat /\ 1 .. N \subseteq DOMAIN list
            /\ GetSigners = [n \in 1 .. N |-> list[n].meta.key]
            /\ DOMAIN GetSigners = 1 .. N /\ Len(GetSigners) = N
<1> DEFINE list == message.metas
           N == Cardinality(Signers(list))
<1>1. list \in Lists /\ Ordered(list) /\ message.header = Header(list)
  BY BuiltWell
<1>2. /\ N \in Nat /\ Signers(list) = 1 .. N
      /\ At(list, Signers(list)) = [n \in 1 .. N |-> list[n]]
  BY <1>1, SignersInFront
<1>3. GetSigners = [n \in 1 .. N |-> list[n].meta.key]
  BY <1>2 DEF GetSigners
<1>4. message.header.signatures = N
  BY <1>1 DEF Header
<1>5. 1 .. N \subseteq DOMAIN list
  BY <1>2 DEF Signers
<1> HIDE DEF list, N
<1>6. DOMAIN GetSigners = 1 .. N /\ Len(GetSigners) = N
  BY <1>2, <1>3
<1> QED
  BY <1>2, <1>3, <1>4, <1>5, <1>6 DEF list
-----------------------------------------------------------------------------
(* The theorems.                                                           *)

\* The state has its types, and every index of a compiled instruction is the
\* place of an account (Instruction::compile never writes the -1 of find).
THEOREM TypeCorrect == Spec => []TypeOK
<1>1. ASSUME IInv
      PROVE  TypeOK
  <2>1. /\ heap \in [Metas -> AccountMetas] /\ asked \in [Metas -> AccountMetas]
        /\ replaced \in BOOLEAN
        /\ instructions \in Seq(DOMAIN Ix) /\ payer \in Payers \cup {NoPayer}
    BY <1>1 DEF IInv, Typed, WellKept
  <2>2. ASSUME Built
        PROVE  LET places == DOMAIN message.metas
               IN /\ message.metas \in Seq([obj : Metas \cup {Fresh}, meta : AccountMetas])
                  /\ message.compiled \in Seq([program : places, accounts : Seq(places)])
    <3> DEFINE places == DOMAIN message.metas
               C == [program : places, accounts : Seq(places)]
    <3>1. message.metas \in Seq([obj : Metas \cup {Fresh}, meta : AccountMetas])
      BY <1>1, <2>2, BuiltWell DEF Lists, Entries
    <3>2. /\ message.compiled = [n \in DOMAIN instructions |-> message.compiled[n]]
          /\ \A n \in DOMAIN instructions :
               Compiled(asked, message.metas, message.compiled[n], instructions[n])
      BY <1>1, <2>2, BuiltWell
    <3>3. ASSUME NEW n \in DOMAIN instructions
          PROVE  message.compiled[n] \in C
      <4> DEFINE c == message.compiled[n]
      <4>1. /\ c = [program |-> c.program, accounts |-> c.accounts]
            /\ c.program \in places /\ c.accounts \in Seq(places)
        BY <3>2 DEF Compiled
      <4> HIDE DEF c, places
      <4>2. c \in C
        BY <4>1
      <4> QED
        BY <4>2 DEF c
    <3>4. DOMAIN instructions = 1 .. Len(instructions) /\ Len(instructions) \in Nat
      BY <2>1, LenProperties
    <3> HIDE DEF C
    <3>5. message.compiled \in [1 .. Len(instructions) -> C]
      BY <3>2, <3>3, <3>4
    <3>6. message.compiled \in Seq(C)
      BY <3>4, <3>5, IsASeq
    <3> QED
      BY <3>1, <3>6 DEF C
  <2> QED
    BY <2>1, <2>2 DEF TypeOK
<1> QED
  BY <1>1, AlwaysWell, PTL

\* After any calls of add_instruction, set_instructions, set_payer and set_signers
\* every index of a compiled instruction names the account the instruction names,
\* and the header grants it the rights its meta was made with.
THEOREM InstructionsAreServed == Spec => []InstructionsServed
<1>1. ASSUME IInv, Built, NEW n \in DOMAIN instructions
      PROVE  LET i == instructions[n] c == message.compiled[n] h == message.header
             IN /\ c.program \in DOMAIN h.keys /\ h.keys[c.program] = Ix[i].program
                /\ \A j \in DOMAIN Ix[i].accounts :
                     LET m == asked[Ix[i].accounts[j]] k == c.accounts[j] r == RightsAt(h, k)
                     IN /\ k \in DOMAIN h.keys /\ h.keys[k] = m.key.addr
                        /\ (m.is_signer => r.is_signer) /\ (m.writeable => r.writeable)
  <2> DEFINE list == message.metas
             i == instructions[n]
             c == message.compiled[n]
             h == message.header
  <2>1. /\ list \in Lists /\ Ordered(list) /\ h = Header(list)
        /\ Compiled(asked, list, c, i)
    BY <1>1, BuiltWell
  <2>2. DOMAIN h.keys = DOMAIN list /\ \A k \in DOMAIN list : h.keys[k] = list[k].meta.key.addr
    BY <2>1, HeaderFields
  <2>3. c.program \in DOMAIN h.keys /\ h.keys[c.program] = Ix[i].program
    BY <2>1, <2>2 DEF Compiled
  <2>4. ASSUME NEW j \in DOMAIN Ix[i].accounts
        PROVE  LET m == asked[Ix[i].accounts[j]] k == c.accounts[j] r == RightsAt(h, k)
               IN /\ k \in DOMAIN h.keys /\ h.keys[k] = m.key.addr
                  /\ (m.is_signer => r.is_signer) /\ (m.writeable => r.writeable)
    <3> DEFINE m == asked[Ix[i].accounts[j]]
               k == c.accounts[j]
               r == RightsAt(h, k)
    <3>1. k \in DOMAIN list /\ AtLeast(list[k].meta, m)
      <4>1. c.accounts \in Seq(DOMAIN list) /\ j \in DOMAIN c.accounts
        BY <2>1, <2>4 DEF Compiled
      <4>2. k \in DOMAIN list
        BY <4>1, LenProperties
      <4> QED
        BY <2>1, <2>4, <4>2 DEF Compiled
    <3>2. r.is_signer = list[k].meta.is_signer /\ r.writeable = list[k].meta.writeable
      BY <2>1, <3>1, RightsAreRead
    <3>3. h.keys[k] = m.key.addr
      BY <2>2, <3>1 DEF AtLeast
    <3>4. (m.is_signer => r.is_signer) /\ (m.writeable => r.writeable)
      BY <3>1, <3>2 DEF AtLeast
    <3> QED
      BY <2>2, <3>1, <3>3, <3>4
  <2> QED
    BY <2>3, <2>4
<1>2. IInv => InstructionsServed
  BY <1>1 DEF InstructionsServed
<1> QED
  BY <1>2, AlwaysWell, PTL

\* As long as the instructions are not replaced, merging gives no account but the
\* payer's a right that none of the instructions' metas asks for.
THEOREM RightsAreNeeded == Spec => []RightsNeeded
<1>1. ASSUME IInv, Built, ~replaced, NEW k \in 2 .. Len(message.header.keys)
      PROVE  LET r == RightsAt(message.header, k)
                 of(i) == {asked[m] : m \in ToSet(Ix[i].accounts)}
                 here == {m \in UNION {of(i) : i \in ToSet(instructions)} :
                            m.key.addr = message.header.keys[k]}
             IN /\ r.is_signer => \E m \in here : m.is_signer
                /\ r.writeable => \E m \in here : m.writeable
  <2> DEFINE list == message.metas
             h == message.header
             r == RightsAt(h, k)
             of(i) == {asked[m] : m \in ToSet(Ix[i].accounts)}
             all == UNION {of(i) : i \in ToSet(instructions)}
  <2>1. /\ list \in Lists /\ Ordered(list) /\ h = Header(list)
        /\ WellListed(asked, list, instructions, payer, replaced)
    BY <1>1, BuiltWell
  <2>2. k \in DOMAIN list /\ k # 1 /\ h.keys[k] = list[k].meta.key.addr
    <3>1. Len(h.keys) = Len(list) /\ DOMAIN list = 1 .. Len(list) /\ Len(list) \in Nat
      BY <2>1, HeaderFields
    <3>2. k \in DOMAIN list /\ k # 1
      BY <1>1, <3>1
    <3> QED
      BY <2>1, <3>2, HeaderFields
  <2>3. r.is_signer = list[k].meta.is_signer /\ r.writeable = list[k].meta.writeable
    BY <2>1, <2>2, RightsAreRead
  <2>4. Justified(list[k].meta, AskedBy(asked, instructions))
    BY <1>1, <2>1, <2>2 DEF WellListed
  <2>5. AskedBy(asked, instructions) \subseteq all
    BY DEF AskedBy, Used
  <2> HIDE DEF all
  <2>6. r.is_signer => \E m \in all : m.key.addr = h.keys[k] /\ m.is_signer
    BY <2>2, <2>3, <2>4, <2>5 DEF Justified
  <2>7. r.writeable => \E m \in all : m.key.addr = h.keys[k] /\ m.writeable
    BY <2>2, <2>3, <2>4, <2>5 DEF Justified
  <2> QED
    BY <2>6, <2>7 DEF all
<1>2. IInv => RightsNeeded
  BY <1>1 DEF RightsNeeded
<1> QED
  BY <1>2, AlwaysWell, PTL

\* The payer is the first account, signature n is of account n, and a keypair an
\* instruction or the payer has for a signer is the one that signs, however often
\* set_signers has exchanged the objects since.
THEOREM SignersAreServed == Spec => []SignersServed
<1>1. ASSUME IInv, Built
      PROVE  /\ message.header.keys[1] = payer.addr
             /\ Len(GetSigners) = message.header.signatures
             /\ \A n \in DOMAIN GetSigners : GetSigners[n].addr = message.header.keys[n]
  <2> DEFINE list == message.metas
  <2>1. list \in Lists /\ PayerFirst(list, payer) /\ message.header = Header(list)
    BY <1>1, BuiltWell
  <2>2. DOMAIN list = 1 .. Len(list) /\ Len(list) \in Nat
        /\ \A n \in DOMAIN list : message.header.keys[n] = list[n].meta.key.addr
    BY <2>1, HeaderFields
  <2>3. message.header.keys[1] = payer.addr
    <3>1. 1 \in DOMAIN list
      BY <2>1, <2>2, ListFields, EmptySeq DEF PayerFirst, Lists
    <3> QED
      BY <2>1, <2>2, <3>1 DEF PayerFirst
  <2>4. \A n \in DOMAIN GetSigners : n \in DOMAIN list /\ GetSigners[n] = list[n].meta.key
    BY <1>1, SignersOfMessage
  <2>5. Len(GetSigners) = message.header.signatures
    BY <1>1, SignersOfMessage
  <2> QED
    BY <2>2, <2>3, <2>4, <2>5
<1>2. ASSUME IInv, Built, NEW n \in DOMAIN instructions,
             NEW j \in DOMAIN Ix[instructions[n]].accounts,
             asked[Ix[instructions[n]].accounts[j]].key.kind = "keypair",
             NEW s \in DOMAIN GetSigners,
             GetSigners[s].addr = asked[Ix[instructions[n]].accounts[j]].key.addr
      PROVE  GetSigners[s].kind = "keypair"
  <2> DEFINE list == message.metas
             i == instructions[n]
             c == message.compiled[n]
             k == c.accounts[j]
  <2>1. Distinct(list) /\ Compiled(asked, list, c, i)
    BY <1>2, BuiltWell
  <2>2. k \in DOMAIN list /\ AtLeast(list[k].meta, asked[Ix[i].accounts[j]])
    <3>1. c.accounts \in Seq(DOMAIN list) /\ j \in DOMAIN c.accounts
      BY <1>2, <2>1 DEF Compiled
    <3>2. k \in DOMAIN list
      BY <3>1, LenProperties
    <3> QED
      BY <1>2, <2>1, <3>2 DEF Compiled
  <2>3. s \in DOMAIN list /\ GetSigners[s] = list[s].meta.key
    BY <1>2, SignersOfMessage
  <2>4. s = k
    BY <1>2, <2>1, <2>2, <2>3 DEF Distinct, AtLeast
  <2> QED
    BY <1>2, <2>2, <2>3, <2>4 DEF AtLeast
<1>3. ASSUME IInv, Built, payer.kind = "keypair"
      PROVE  GetSigners[1].kind = "keypair"
  <2> DEFINE list == message.metas
  <2>1. list \in Lists /\ Ordered(list) /\ PayerFirst(list, payer)
    BY <1>3, BuiltWell
  <2>2. 1 \in Signers(list)
    BY <2>1, ListFields, EmptySeq DEF PayerFirst, Lists, Signers
  <2>3. GetSigners[1] = list[1].meta.key
    <3>1. message.header.signatures = Cardinality(Signers(list))
      BY <1>3, BuiltWell DEF Header
    <3>2. 1 \in 1 .. message.header.signatures
      BY <2>1, <2>2, <3>1, SignersInFront
    <3> QED
      BY <1>3, <3>2, SignersOfMessage
  <2> QED
    BY <1>3, <2>1, <2>3 DEF PayerFirst
<1>4. IInv => SignersServed
  <2>1. IInv => SignersAreFirst
    BY <1>1 DEF SignersAreFirst
  <2>2. IInv => KeypairSigns
    BY <1>2, <1>3 DEF KeypairSigns
  <2> QED
    BY <2>1, <2>2 DEF SignersServed
<1> QED
  BY <1>4, AlwaysWell, PTL

\* What Message::create reads has the rights of what serialize wrote, while the
\* places of the accounts are bytes and the first of them is not taken for a version.
LEMMA ParsesOwn ==
  ASSUME NEW list \in Lists, Ordered(list), Len(list) <= 255, Header(list).signatures < V0_INDICATOR
  PROVE  LET again == Parse(Header(list))
         IN /\ DOMAIN again = DOMAIN list
            /\ \A n \in DOMAIN list : again[n].meta.key.addr = list[n].meta.key.addr
            /\ \A n \in DOMAIN list :
                 [is_signer |-> again[n].meta.is_signer, writeable |-> again[n].meta.writeable]
                   = RightsAt(Header(list), n)
<1> DEFINE h  == Header(list)
           s  == h.signatures
           rs == h.readonly_signed
           ru == h.readonly_unsigned
           L  == Len(list)
           again == Parse(h)
           writeable(n) == \/ n <= (s - rs) % 256
                           \/ s < n /\ n <= s + ((L - s - ru) % 256)
<1>1. /\ s \in Nat /\ rs \in Nat /\ ru \in Nat /\ L \in Nat
      /\ DOMAIN h.keys = DOMAIN list /\ DOMAIN list = 1 .. L /\ Len(h.keys) = L
      /\ \A n \in DOMAIN list : h.keys[n] = list[n].meta.key.addr
  BY HeaderFields
<1>2. rs <= s /\ s + ru <= L /\ L <= 255
  BY CountsFit
<1>3. again = [n \in DOMAIN list |->
                 Entry(Fresh, Meta([addr |-> h.keys[n], kind |-> "pubkey"], n <= s, writeable(n)))]
  <2>1. ~(s >= V0_INDICATOR)
    BY <1>1 DEF V0_INDICATOR
  <2> QED
    BY <1>1, <2>1 DEF Parse
<1>4. \A n \in DOMAIN list :
        RightsAt(h, n) = [is_signer |-> n <= s, writeable |-> IF n <= s THEN n <= s - rs ELSE n <= L - ru]
  BY <1>1 DEF RightsAt
<1> HIDE DEF h, s, rs, ru, L, again
<1>5. (s - rs) % 256 = s - rs /\ (L - s - ru) % 256 = L - s - ru
  <2>1. s - rs \in 0 .. 255 /\ L - s - ru \in 0 .. 255
    BY <1>1, <1>2
  <2>2. \A x \in 0 .. 255 : x % 256 = x
    OBVIOUS
  <2> QED
    BY <2>1, <2>2
<1>6. ASSUME NEW n \in DOMAIN list
      PROVE  writeable(n) = IF n <= s THEN n <= s - rs ELSE n <= L - ru
  <2>1. n \in Nat
    BY <1>1
  <2>2. writeable(n) <=> (n <= s - rs \/ (s < n /\ n <= L - ru))
    BY <1>1, <1>2, <1>5, <2>1
  <2>3. writeable(n) \in BOOLEAN
    OBVIOUS
  <2>4. CASE n <= s
    <3>1. writeable(n) <=> n <= s - rs
      BY <1>1, <2>1, <2>2, <2>4
    <3>2. writeable(n) = (n <= s - rs)
      <4> HIDE DEF writeable
      <4> QED
        BY <1>1, <2>1, <2>3, <3>1
    <3> QED
      BY <2>4, <3>2
  <2>5. CASE ~(n <= s)
    <3>1. writeable(n) <=> n <= L - ru
      BY <1>1, <1>2, <2>1, <2>2, <2>5
    <3>2. writeable(n) = (n <= L - ru)
      <4> HIDE DEF writeable
      <4> QED
        BY <1>1, <2>1, <2>3, <3>1
    <3> QED
      BY <2>5, <3>2
  <2> QED
    BY <2>4, <2>5
<1>7. ASSUME NEW n \in DOMAIN list
      PROVE  /\ again[n].meta.key.addr = h.keys[n]
             /\ again[n].meta.is_signer = (n <= s)
             /\ again[n].meta.writeable = writeable(n)
  <2> HIDE DEF writeable
  <2> QED
    BY <1>3 DEF Entry, Meta
<1>8. ASSUME NEW n \in DOMAIN list
      PROVE  [is_signer |-> again[n].meta.is_signer, writeable |-> again[n].meta.writeable] = RightsAt(h, n)
  <2> HIDE DEF writeable
  <2> QED
    BY <1>4, <1>6, <1>7
<1>9. DOMAIN again = DOMAIN list
  BY <1>3
<1> QED
  BY <1>1, <1>7, <1>8, <1>9 DEF h, again

\* So has the header of the message, read again.
LEMMA SmallRoundTrip ==
  ASSUME IInv, Built => Len(message.metas) <= 255
  PROVE  RoundTrip
<1> SUFFICES ASSUME Built, message.header.signatures < V0_INDICATOR
             PROVE  LET again == Parse(message.header)
                    IN /\ Header(again) = message.header
                       /\ \A n \in DOMAIN again :
                            [is_signer |-> again[n].meta.is_signer,
                             writeable |-> again[n].meta.writeable] = RightsAt(message.header, n)
  BY DEF RoundTrip
<1> DEFINE list == message.metas
           again == Parse(message.header)
           R(n) == RightsAt(message.header, n)
<1>1. list \in Lists /\ Ordered(list) /\ message.header = Header(list) /\ Len(list) <= 255
  BY BuiltWell
<1>2. DOMAIN list = 1 .. Len(list) /\ Len(list) \in Nat
  BY <1>1, ListFields
<1>3. /\ DOMAIN again = DOMAIN list
      /\ \A n \in DOMAIN list : again[n].meta.key.addr = list[n].meta.key.addr
      /\ \A n \in DOMAIN list :
           [is_signer |-> again[n].meta.is_signer, writeable |-> again[n].meta.writeable]
             = RightsAt(message.header, n)
  BY <1>1, ParsesOwn
<1>4. Len(again) = Len(list)
  <2>1. again = [n \in DOMAIN message.header.keys |-> again[n]]
    <3>1. ~(message.header.signatures >= V0_INDICATOR)
      BY <1>1, HeaderFields DEF V0_INDICATOR
    <3> QED
      BY <3>1 DEF Parse
  <2>2. again = [n \in 1 .. Len(list) |-> again[n]]
    BY <1>2, <1>3, <2>1
  <2> HIDE DEF again
  <2> QED
    BY <1>2, <2>2
<1>5. ASSUME NEW n \in DOMAIN list
      PROVE  again[n].meta.is_signer = list[n].meta.is_signer /\ again[n].meta.writeable = list[n].meta.writeable
  <2>1. R(n) = [is_signer |-> list[n].meta.is_signer, writeable |-> list[n].meta.writeable]
    BY <1>1, RightsAreRead
  <2>2. R(n) = [is_signer |-> again[n].meta.is_signer, writeable |-> again[n].meta.writeable]
    BY <1>3
  <2> HIDE DEF again, list, R
  <2>3. R(n).is_signer = list[n].meta.is_signer /\ R(n).writeable = list[n].meta.writeable
    BY <2>1
  <2>4. R(n).is_signer = again[n].meta.is_signer /\ R(n).writeable = again[n].meta.writeable
    BY <2>2
  <2> QED
    BY <2>3, <2>4
<1>6. Header(again) = Header(list)
  BY <1>1, <1>3, <1>4, <1>5, SameHeader
<1> QED
  BY <1>1, <1>3, <1>6

\* An account has one place in the list: there are no more places than addresses.
LEMMA NoMoreThanAccounts ==
  ASSUME NEW list \in Lists, Distinct(list), IsFiniteSet(Accounts)
  PROVE  Len(list) <= Cardinality(Accounts)
<1> DEFINE f == [n \in 1 .. Len(list) |-> list[n].meta.key.addr]
<1>1. DOMAIN list = 1 .. Len(list) /\ Len(list) \in Nat
  BY ListFields
<1>2. \A n \in 1 .. Len(list) : list[n].meta.key.addr \in Accounts
  BY <1>1, EntryFields, MetaFields
<1>3. f \in Injection(1 .. Len(list), Accounts)
  <2>1. f \in [1 .. Len(list) -> Accounts]
    BY <1>2
  <2>2. \A i, j \in 1 .. Len(list) : f[i] = f[j] => i = j
    BY <1>1 DEF Distinct
  <2> HIDE DEF f
  <2> QED
    BY <2>1, <2>2 DEF Injection, IsInjective
<1>4. Cardinality(1 .. Len(list)) <= Cardinality(Accounts)
  BY <1>3, FS_Injection
<1> QED
  BY <1>1, <1>4, UpToHas

\* A message of fewer than V0_INDICATOR signers that is serialized and read again has
\* its header and rights, whatever was asked for.  Both bounds are the code's: counts and
\* indices are bytes, and a first byte of 128 or more is taken for a version
\* (Message::serialize, Message::create in src/src/transaction/message.cpp).
THEOREM MessagesAreReadBack ==
  ASSUME IsFiniteSet(Accounts), Cardinality(Accounts) <= 255
  PROVE  Spec => []RoundTrip
<1>1. IInv => RoundTrip
  <2> SUFFICES ASSUME IInv, Built
               PROVE  Len(message.metas) <= 255
    BY SmallRoundTrip
  <2>1. message.metas \in Lists /\ Distinct(message.metas)
    BY BuiltWell
  <2>2. Len(message.metas) <= Cardinality(Accounts) /\ Len(message.metas) \in Nat
    BY <2>1, NoMoreThanAccounts, ListFields
  <2>3. Cardinality(Accounts) \in Nat
    BY FS_CardinalityType
  <2> QED
    BY <2>2, <2>3
<1> QED
  BY <1>1, AlwaysWell, PTL
=============================================================================
