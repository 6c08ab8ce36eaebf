------------------------- MODULE SolanaClientProofs -------------------------
(***************************************************************************)
(* Whatever its setters are called with, and in whichever order, a client  *)
(* asks the node it was told to, in the way the method documents.          *)
(***************************************************************************)
EXTENDS SolanaClient, SequenceTheorems, WellFoundedInduction, TLAPS

Texts == Seq(Tokens)

-----------------------------------------------------------------------------
(* Tokens.                                                                 *)

\* Texts without a delimiter, one after the other, are without it.
LEMMA FreeTogether ==
  ASSUME NEW s \in Texts, NEW t \in Texts, NEW D, Free(s, D), Free(t, D)
  PROVE  Free(s \o t, D)
<1>1. Len(s) \in Nat /\ Len(t) \in Nat /\ DOMAIN s = 1 .. Len(s) /\ DOMAIN t = 1 .. Len(t)
  BY LenProperties DEF Texts
<1>2. s \o t \in Texts /\ Len(s \o t) = Len(s) + Len(t)
  BY ConcatProperties DEF Texts
<1>3. \A i \in 1 .. Len(s) + Len(t) : (s \o t)[i] = IF i <= Len(s) THEN s[i] ELSE t[i - Len(s)]
  BY ConcatProperties DEF Texts
<1>4. ASSUME NEW i \in DOMAIN (s \o t)
      PROVE  (s \o t)[i] \notin D
  <2>1. i \in 1 .. Len(s) + Len(t)
    BY <1>2, LenProperties DEF Texts
  <2>2. CASE i <= Len(s)
    <3>1. i \in 1 .. Len(s)
      BY <2>1, <2>2, <1>1
    <3> QED
      BY <3>1, <2>1, <2>2, <1>1, <1>3 DEF Free
  <2>3. CASE ~(i <= Len(s))
    <3>1. i - Len(s) \in 1 .. Len(t)
      BY <2>1, <2>3, <1>1
    <3> QED
      BY <3>1, <2>1, <2>3, <1>1, <1>3 DEF Free
  <2> QED
    BY <2>2, <2>3
<1> QED
  BY <1>4 DEF Free

\* One token is without what it is not.
LEMMA FreeAlone ==
  ASSUME NEW x, NEW D, x \notin D
  PROVE  Free(<<x>>, D)
<1>1. \A i \in DOMAIN <<x>> : i = 1
  OBVIOUS
<1> QED
  BY <1>1 DEF Free

\* No token is without everything.
LEMMA FreeOfNone ==
  ASSUME NEW D
  PROVE  Free(<<>>, D)
<1>1. DOMAIN <<>> = {}
  OBVIOUS
<1> QED
  BY <1>1 DEF Free

\* A text without a delimiter is not split by it.
LEMMA Unsplit ==
  ASSUME NEW s, NEW d, Free(s, {d})
  PROVE  ~URL!Splits(s, d) /\ URL!Head_(s, d) = s /\ URL!Places(s, d) = {}
<1>1. URL!Places(s, d) = {}
  BY DEF URL!Places, Free
<1> QED
  BY <1>1 DEF URL!Splits, URL!Head_

\* The end of a text.
LEMMA EndOf ==
  ASSUME NEW s \in Texts, NEW m \in 1 .. Len(s) + 1
  PROVE  /\ SubSeq(s, m, Len(s)) \in Texts
         /\ Len(SubSeq(s, m, Len(s))) = Len(s) - m + 1
         /\ \A i \in 1 .. Len(s) - m + 1 : SubSeq(s, m, Len(s))[i] = s[m + i - 1]
<1>1. Len(s) \in Int /\ m \in Int /\ 1 <= m /\ m <= Len(s) + 1
  BY LenProperties DEF Texts
<1>2. \A i \in m .. Len(s) : i \in 1 .. Len(s)
  BY <1>1
<1>3. \A i \in 1 .. Len(s) : s[i] \in Tokens
  BY ElementOfSeq DEF Texts
<1>4. \A i \in m .. Len(s) : s[i] \in Tokens
  BY <1>2, <1>3
<1>5. /\ SubSeq(s, m, Len(s)) \in Seq(Tokens)
      /\ Len(SubSeq(s, m, Len(s))) = IF m <= Len(s) THEN Len(s) - m + 1 ELSE 0
      /\ \A i \in 1 .. Len(s) - m + 1 : SubSeq(s, m, Len(s))[i] = s[m + i - 1]
  BY <1>1, <1>4, SubSeqProperties
<1>6. Len(SubSeq(s, m, Len(s))) = Len(s) - m + 1
  BY <1>1, <1>5
<1> QED
  BY <1>5, <1>6 DEF Texts

\* Two texts with a delimiter between them.
Joined(h, d, t) == h \o (<<d>> \o t)

\* s is split where a delimiter is for the first time, between h and t.
SplitInto(s, d, h, t) ==
  /\ URL!Splits(s, d)
  /\ URL!SmallestOf(URL!Places(s, d)) = Len(h) + 1
  /\ URL!Head_(s, d) = h
  /\ SubSeq(s, Len(h) + 1, Len(s)) = <<d>> \o t
  /\ URL!Second(s, d) = URL!Head_(t, d)

\* A text is split where a delimiter is for the first time.
LEMMA SplitOnce ==
  ASSUME NEW h \in Texts, NEW t \in Texts, NEW d \in Tokens, Free(h, {d})
  PROVE  SplitInto(Joined(h, d, t), d, h, t)
<1> DEFINE r == <<d>> \o t
           s == Joined(h, d, t)
<1>1. Len(h) \in Nat /\ Len(t) \in Nat /\ DOMAIN h = 1 .. Len(h) /\ DOMAIN t = 1 .. Len(t)
  BY LenProperties DEF Texts
<1>2. <<d>> \in Texts /\ Len(<<d>>) = 1 /\ <<d>>[1] = d
  <2>1. <<d>> \in Seq(Tokens)
    OBVIOUS
  <2>2. Len(<<d>>) = 1 /\ <<d>>[1] = d
    OBVIOUS
  <2> QED
    BY <2>1, <2>2 DEF Texts
<1>3. r \in Texts /\ Len(r) = 1 + Len(t) /\ r[1] = d
  <2>1. r \in Texts /\ Len(r) = 1 + Len(t)
    BY <1>2, ConcatProperties DEF Texts
  <2>2. \A i \in 1 .. 1 + Len(t) : r[i] = IF i <= 1 THEN <<d>>[i] ELSE t[i - 1]
    BY <1>2, ConcatProperties DEF Texts
  <2>3. 1 \in 1 .. 1 + Len(t) /\ 1 <= 1
    BY <1>1
  <2>4. r[1] = <<d>>[1]
    <3> HIDE DEF r
    <3> QED
      BY <2>2, <2>3
  <2> QED
    BY <2>1, <2>4, <1>2
<1>4. \A i \in 2 .. Len(r) : r[i] = t[i - 1]
  <2>2. \A i \in 1 .. 1 + Len(t) : r[i] = IF i <= 1 THEN <<d>>[i] ELSE t[i - 1]
    BY <1>2, ConcatProperties DEF Texts
  <2> QED
    BY <2>2, <1>3, <1>1
<1>5. s = h \o r
  BY DEF Joined
<1> HIDE DEF r, s
<1>6. s \in Texts /\ Len(s) = Len(h) + Len(r)
  BY <1>5, <1>3, ConcatProperties DEF Texts
<1>7. \A i \in 1 .. Len(h) + Len(r) : s[i] = IF i <= Len(h) THEN h[i] ELSE r[i - Len(h)]
  BY <1>5, <1>3, ConcatProperties DEF Texts
<1>8. DOMAIN s = 1 .. Len(s)
  BY <1>6, LenProperties DEF Texts
<1>9. Len(h) + 1 \in URL!Places(s, d)
  <2>1. Len(h) + 1 \in 1 .. Len(h) + Len(r) /\ ~(Len(h) + 1 <= Len(h)) /\ (Len(h) + 1) - Len(h) = 1
    BY <1>1, <1>3
  <2>2. s[Len(h) + 1] = d
    BY <2>1, <1>7, <1>3
  <2> QED
    BY <2>1, <2>2, <1>6, <1>8 DEF URL!Places
<1>10. \A i \in URL!Places(s, d) : Len(h) + 1 <= i
  <2> SUFFICES ASSUME NEW i \in URL!Places(s, d), ~(Len(h) + 1 <= i)
               PROVE  FALSE
    OBVIOUS
  <2>1. i \in 1 .. Len(h) + Len(r) /\ s[i] = d
    BY <1>6, <1>8 DEF URL!Places
  <2>2. i \in 1 .. Len(h) /\ i <= Len(h)
    BY <2>1, <1>1, <1>3
  <2>3. h[i] = d
    BY <2>1, <2>2, <1>7
  <2> QED
    BY <2>2, <2>3, <1>1 DEF Free
<1>11. URL!SmallestOf(URL!Places(s, d)) = Len(h) + 1
  <2>1. \A i \in URL!Places(s, d) : i \in Nat
    BY <1>6, <1>8, <1>1, <1>3 DEF URL!Places
  <2>2. \A x \in URL!Places(s, d) : (\A j \in URL!Places(s, d) : x <= j) => x = Len(h) + 1
    <3> SUFFICES ASSUME NEW x \in URL!Places(s, d), \A j \in URL!Places(s, d) : x <= j
                 PROVE  x = Len(h) + 1
      OBVIOUS
    <3>1. x <= Len(h) + 1 /\ Len(h) + 1 <= x /\ x \in Nat
      BY <2>1, <1>9, <1>10
    <3> QED
      BY <3>1, <1>1
  <2> QED
    BY <2>2, <1>9, <1>10 DEF URL!SmallestOf
<1>12. URL!Splits(s, d)
  BY <1>9 DEF URL!Splits
<1>18. \A i \in 1 .. Len(s) : s[i] \in Tokens
  BY <1>6, ElementOfSeq DEF Texts
<1>13. SubSeq(s, 1, Len(h)) = h
  <2>1. \A i \in 1 .. Len(h) : s[i] = h[i] /\ s[i] \in Tokens
    <3> SUFFICES ASSUME NEW i \in 1 .. Len(h)
                 PROVE  s[i] = h[i] /\ s[i] \in Tokens
      OBVIOUS
    <3>1. i \in 1 .. Len(h) + Len(r) /\ i <= Len(h)
      BY <1>1, <1>3
    <3>2. h[i] \in Tokens
      BY ElementOfSeq DEF Texts
    <3> QED
      BY <3>1, <3>2, <1>7
  <2>2. /\ SubSeq(s, 1, Len(h)) \in Seq(Tokens)
        /\ Len(SubSeq(s, 1, Len(h))) = IF 1 <= Len(h) THEN Len(h) - 1 + 1 ELSE 0
        /\ \A i \in 1 .. Len(h) - 1 + 1 : SubSeq(s, 1, Len(h))[i] = s[1 + i - 1]
    BY <2>1, <1>1, SubSeqProperties
  <2>3. Len(SubSeq(s, 1, Len(h))) = Len(h)
    BY <2>2, <1>1
  <2>4. \A i \in 1 .. Len(h) : SubSeq(s, 1, Len(h))[i] = h[i]
    BY <2>1, <2>2, <1>1
  <2> QED
    BY <2>2, <2>3, <2>4, SeqEqual DEF Texts
<1>14. SubSeq(s, Len(h) + 1, Len(s)) = r
  <2>1. \A i \in 1 .. Len(r) : i + Len(h) \in 1 .. Len(h) + Len(r) /\ s[i + Len(h)] = r[i]
    <3> SUFFICES ASSUME NEW i \in 1 .. Len(r)
                 PROVE  i + Len(h) \in 1 .. Len(h) + Len(r) /\ s[i + Len(h)] = r[i]
      OBVIOUS
    <3>1. /\ i + Len(h) \in 1 .. Len(h) + Len(r) /\ ~(i + Len(h) <= Len(h))
          /\ (i + Len(h)) - Len(h) = i
      BY <1>1, <1>3
    <3> QED
      BY <3>1, <1>7
  <2> DEFINE m == Len(h) + 1
  <2>3. m \in Int /\ Len(s) \in Int /\ Len(s) - m + 1 = Len(r) /\ m <= Len(s)
    BY <1>1, <1>6, <1>3
  <2>4. /\ SubSeq(s, m, Len(s)) \in Seq(Tokens)
        /\ Len(SubSeq(s, m, Len(s))) = Len(s) - m + 1
        /\ \A i \in 1 .. Len(s) - m + 1 : SubSeq(s, m, Len(s))[i] = s[m + i - 1]
    <3>1. m \in 1 .. Len(s) + 1
      BY <1>1, <1>6, <1>3
    <3> HIDE DEF m
    <3> QED
      BY <1>6, <3>1, EndOf DEF Texts
  <2>5. Len(SubSeq(s, m, Len(s))) = Len(r)
    BY <2>3, <2>4
  <2>6. \A i \in 1 .. Len(r) : SubSeq(s, m, Len(s))[i] = r[i]
    <3> SUFFICES ASSUME NEW i \in 1 .. Len(r)
                 PROVE  SubSeq(s, m, Len(s))[i] = r[i]
      OBVIOUS
    <3>1. i \in 1 .. Len(s) - m + 1 /\ m + i - 1 = i + Len(h)
      BY <2>3, <1>1
    <3> HIDE DEF m
    <3> QED
      BY <3>1, <2>1, <2>4
  <2> QED
    BY <2>4, <2>5, <2>6, <1>3, SeqEqual DEF Texts
<1>15. SubSeq(s, (Len(h) + 1) + 1, Len(s)) = t
  <2>1. \A i \in 1 .. Len(t) : i + (Len(h) + 1) \in 1 .. Len(h) + Len(r) /\ s[i + (Len(h) + 1)] = t[i]
    <3> SUFFICES ASSUME NEW i \in 1 .. Len(t)
                 PROVE  i + (Len(h) + 1) \in 1 .. Len(h) + Len(r) /\ s[i + (Len(h) + 1)] = t[i]
      OBVIOUS
    <3>1. /\ i + (Len(h) + 1) \in 1 .. Len(h) + Len(r) /\ ~(i + (Len(h) + 1) <= Len(h))
          /\ (i + (Len(h) + 1)) - Len(h) = i + 1 /\ i + 1 \in 2 .. Len(r) /\ (i + 1) - 1 = i
      BY <1>1, <1>3
    <3> QED
      BY <3>1, <1>7, <1>4
  <2> DEFINE m == (Len(h) + 1) + 1
  <2>3. m \in Int /\ Len(s) \in Int /\ Len(s) - m + 1 = Len(t)
    BY <1>1, <1>6, <1>3
  <2>4. /\ SubSeq(s, m, Len(s)) \in Seq(Tokens)
        /\ Len(SubSeq(s, m, Len(s))) = Len(s) - m + 1
        /\ \A i \in 1 .. Len(s) - m + 1 : SubSeq(s, m, Len(s))[i] = s[m + i - 1]
    <3>1. m \in 1 .. Len(s) + 1
      BY <1>1, <1>6, <1>3
    <3> HIDE DEF m
    <3> QED
      BY <1>6, <3>1, EndOf DEF Texts
  <2>5. Len(SubSeq(s, m, Len(s))) = Len(t)
    BY <2>3, <2>4, <1>1, <1>6, <1>3
  <2>6. \A i \in 1 .. Len(t) : SubSeq(s, m, Len(s))[i] = t[i]
    <3> SUFFICES ASSUME NEW i \in 1 .. Len(t)
                 PROVE  SubSeq(s, m, Len(s))[i] = t[i]
      OBVIOUS
    <3>1. i \in 1 .. Len(s) - m + 1 /\ m + i - 1 = i + (Len(h) + 1)
      BY <2>3, <1>1
    <3> HIDE DEF m
    <3> QED
      BY <3>1, <2>1, <2>4
  <2> QED
    BY <2>4, <2>5, <2>6, SeqEqual DEF Texts
<1>16. URL!Head_(s, d) = h
  <2>1. (Len(h) + 1) - 1 = Len(h)
    BY <1>1
  <2> QED
    BY <1>11, <1>12, <1>13, <2>1 DEF URL!Head_
<1>17. URL!Second(s, d) = URL!Head_(t, d)
  BY <1>11, <1>15 DEF URL!Second
<1> QED
  BY <1>11, <1>12, <1>14, <1>16, <1>17 DEF r, s, SplitInto

\* What stands in front of something that may be there, and behind it.
Has(u, name) == DOMAIN u \cap {name}
Behind(d, has, t) == IF has # {} THEN <<d>> \o t ELSE <<>>
Before(has, h, d) == IF has # {} THEN h \o <<d>> ELSE <<>>

\* s is split at d, into h and t if t is there.
SplitFrom(s, d, h, has, t) ==
  URL!Head_(s, d) = h /\ (URL!Splits(s, d) <=> has # {}) /\ (has # {} => URL!Second(s, d) = t)
SplitTo(s, d, h, has, t) ==
  /\ URL!Splits(s, d) <=> has # {}
  /\ has # {} => URL!Head_(s, d) = h /\ URL!Second(s, d) = t
  /\ has = {} => s = t

\* What may be behind is split off.
LEMMA SplitBehind ==
  ASSUME NEW h \in Texts, NEW d \in Tokens, Free(h, {d}), NEW has, NEW t,
         has # {} => t \in Texts /\ Free(t, {d})
  PROVE  SplitFrom(h \o Behind(d, has, t), d, h, has, t)
<1> DEFINE s == h \o Behind(d, has, t)
<1>1. CASE has # {}
  <2>1. t \in Texts /\ s = Joined(h, d, t)
    BY <1>1 DEF Behind, Joined
  <2>2. URL!Splits(s, d) /\ URL!Head_(s, d) = h /\ URL!Second(s, d) = URL!Head_(t, d)
    <3>1. SplitInto(Joined(h, d, t), d, h, t)
      BY <2>1, SplitOnce
    <3> QED
      BY <2>1, <3>1 DEF SplitInto
  <2>3. URL!Head_(t, d) = t
    BY <1>1, Unsplit
  <2> QED
    BY <1>1, <2>2, <2>3 DEF SplitFrom
<1>2. CASE has = {}
  <2>1. s = h
    BY <1>2, ConcatEmptySeq DEF Behind, Texts
  <2> QED
    BY <1>2, <2>1, Unsplit DEF SplitFrom
<1> QED
  BY <1>1, <1>2

\* The same for what may be in front of it.
LEMMA SplitBefore ==
  ASSUME NEW t \in Texts, NEW d \in Tokens, Free(t, {d}), NEW has, NEW h,
         has # {} => h \in Texts /\ Free(h, {d})
  PROVE  SplitTo(Before(has, h, d) \o t, d, h, has, t)
<1> DEFINE s == Before(has, h, d) \o t
<1>1. CASE has # {}
  <2>1. <<d>> \in Texts
    <3>1. <<d>> \in Seq(Tokens)
      OBVIOUS
    <3> QED
      BY <3>1 DEF Texts
  <2>2. s = (h \o <<d>>) \o t
    BY <1>1 DEF Before
  <2>3. s = Joined(h, d, t)
    <3>1. h \in Seq(Tokens) /\ <<d>> \in Seq(Tokens) /\ t \in Seq(Tokens)
      BY <1>1, <2>1 DEF Texts
    <3>2. (h \o <<d>>) \o t = h \o (<<d>> \o t)
      BY <3>1, ConcatAssociative
    <3> QED
      BY <2>2, <3>2 DEF Joined
  <2>4. URL!Splits(s, d) /\ URL!Head_(s, d) = h /\ URL!Second(s, d) = URL!Head_(t, d)
    <3>1. SplitInto(Joined(h, d, t), d, h, t)
      BY <1>1, SplitOnce
    <3> QED
      BY <2>3, <3>1 DEF SplitInto
  <2>5. URL!Head_(t, d) = t
    BY Unsplit
  <2> QED
    BY <1>1, <2>4, <2>5 DEF SplitTo
<1>2. CASE has = {}
  <2>1. s = t
    BY <1>2, ConcatEmptySeq DEF Before, Texts
  <2> QED
    BY <1>2, <2>1, Unsplit DEF SplitTo
<1> QED
  BY <1>1, <1>2

\* The pieces are texts, and without what is not in them.
LEMMA BehindIsText ==
  ASSUME NEW d \in Tokens, NEW has, NEW t, has # {} => t \in Texts
  PROVE  /\ Behind(d, has, t) \in Texts
         /\ \A D : d \notin D /\ (has # {} => Free(t, D)) => Free(Behind(d, has, t), D)
<1>1. <<d>> \in Texts /\ <<>> \in Texts
  <2>1. <<d>> \in Seq(Tokens) /\ <<>> \in Seq(Tokens)
    OBVIOUS
  <2> QED
    BY <2>1 DEF Texts
<1>2. CASE has # {}
  <2>1. <<d>> \o t \in Texts
    BY <1>1, <1>2, ConcatProperties DEF Texts
  <2>2. ASSUME NEW D, d \notin D, Free(t, D)
        PROVE  Free(<<d>> \o t, D)
    BY <1>1, <1>2, <2>2, FreeAlone, FreeTogether
  <2> QED
    BY <1>2, <2>1, <2>2 DEF Behind
<1>3. CASE has = {}
  BY <1>1, <1>3, FreeOfNone DEF Behind
<1> QED
  BY <1>2, <1>3

\* The same for the pieces in front.
LEMMA BeforeIsText ==
  ASSUME NEW d \in Tokens, NEW has, NEW h, has # {} => h \in Texts
  PROVE  /\ Before(has, h, d) \in Texts
         /\ \A D : d \notin D /\ (has # {} => Free(h, D)) => Free(Before(has, h, d), D)
<1>1. <<d>> \in Texts /\ <<>> \in Texts
  <2>1. <<d>> \in Seq(Tokens) /\ <<>> \in Seq(Tokens)
    OBVIOUS
  <2> QED
    BY <2>1 DEF Texts
<1>2. CASE has # {}
  <2>1. h \o <<d>> \in Texts
    BY <1>1, <1>2, ConcatProperties DEF Texts
  <2>2. ASSUME NEW D, d \notin D, Free(h, D)
        PROVE  Free(h \o <<d>>, D)
    BY <1>1, <1>2, <2>2, FreeAlone, FreeTogether
  <2> QED
    BY <1>2, <2>1, <2>2 DEF Before
<1>3. CASE has = {}
  BY <1>1, <1>3, FreeOfNone DEF Before
<1> QED
  BY <1>2, <1>3

-----------------------------------------------------------------------------
(* Components.                                                             *)

\* Some components of a URL.
SomeOf(f, names, url) ==
  /\ DOMAIN f = DOMAIN url \cap names
  /\ \A name \in DOMAIN f : f[name] = url[name]

\* One more of them.
LEMMA OneMore ==
  ASSUME NEW f, NEW names, NEW url, SomeOf(f, names, url), NEW name, name \notin names,
         NEW c, DOMAIN c = Has(url, name), \A n \in DOMAIN c : c[n] = url[n]
  PROVE  SomeOf(URL!Over(f, c), names \cup {name}, url)
<1>1. DOMAIN URL!Over(f, c) = DOMAIN f \cup DOMAIN c
  BY DEF URL!Over
<1>2. \A x \in DOMAIN f \cup DOMAIN c : URL!Over(f, c)[x] = IF x \in DOMAIN f THEN f[x] ELSE c[x]
  BY DEF URL!Over
<1>3. DOMAIN URL!Over(f, c) = DOMAIN url \cap (names \cup {name})
  BY <1>1 DEF SomeOf, Has
<1>4. ASSUME NEW x \in DOMAIN URL!Over(f, c)
      PROVE  URL!Over(f, c)[x] = url[x]
  BY <1>1, <1>2 DEF SomeOf
<1> QED
  BY <1>3, <1>4 DEF SomeOf

Names == {"scheme", "userinfo", "host", "port", "path", "query", "fragment"}

\* What a URL is made of.
LEMMA UrlFields ==
  ASSUME NEW u, IsUrl(u)
  PROVE  /\ u = [name \in DOMAIN u |-> u[name]] /\ DOMAIN u \subseteq Names /\ "host" \in DOMAIN u
         /\ \A name \in DOMAIN u \cap {"scheme", "userinfo", "host"} :
              u[name] \in Texts /\ Free(u[name], URL!Delimiters)
         /\ u.host # <<>>
         /\ "port" \in DOMAIN u => u.port \in URL!Ports
         /\ "path" \in DOMAIN u =>
              /\ u.path \in Texts /\ Len(u.path) > 1 /\ u.path[1] = "/" /\ Free(u.path, {"://", "?", "#"})
         /\ "query" \in DOMAIN u => u.query \in Texts /\ Free(u.query, {"?", "#"})
         /\ "fragment" \in DOMAIN u => u.fragment \in Texts /\ Free(u.fragment, {"#"})
<1>1. \A name \in DOMAIN u \ {"port"} : u[name] \in Texts
  BY DEF IsUrl, Texts
<1>2. u = [name \in DOMAIN u |-> u[name]]
  <2>1. u \in [DOMAIN u -> Seq(Tokens) \cup URL!Ports]
    BY DEF IsUrl
  <2> QED
    BY <2>1
<1> QED
  BY <1>1, <1>2 DEF IsUrl, Names

\* Without more is without less.
LEMMA FreeOfLess ==
  ASSUME NEW s, NEW D, NEW E, Free(s, E), D \subseteq E
  PROVE  Free(s, D)
BY DEF Free

\* The tokens that are written between components.
LEMMA DelimitersAreTokens == URL!Delimiters \subseteq Tokens /\ URL!Ports \subseteq Tokens
BY TokensAssumption

\* The number of a port has no delimiter.
LEMMA PortsAreFree ==
  ASSUME NEW port \in URL!Ports
  PROVE  /\ <<port>> \in Texts
         /\ \A D \in SUBSET URL!Delimiters : Free(<<port>>, D)
         /\ URL!ToInt(<<port>>) = port
<1>1. port \in Tokens
  BY DelimitersAreTokens
<1>2. <<port>> \in Seq(Tokens) /\ Len(<<port>>) = 1 /\ <<port>>[1] = port
  BY <1>1
<1>3. port \notin URL!Delimiters
  BY DEF URL!Delimiters, URL!Ports
<1>4. URL!ToInt(<<port>>) = port
  BY <1>2 DEF URL!ToInt
<1> QED
  BY <1>2, <1>3, <1>4, FreeAlone DEF Texts

-----------------------------------------------------------------------------
(* A URL that is put together is taken apart again.                        *)

\* The pieces of a URL.
SchemePiece(u) == Before(Has(u, "scheme"), u.scheme, "://")
UserPiece(u) == Before(Has(u, "userinfo"), u.userinfo, "@")
PortPiece(u) == Behind(":", Has(u, "port"), <<u.port>>)
PathPiece(u) == IF "path" \in DOMAIN u THEN u.path ELSE <<>>
QueryPiece(u) == Behind("?", Has(u, "query"), u.query)
FragmentPiece(u) == Behind("#", Has(u, "fragment"), u.fragment)

\* What is left of it when the pieces behind or in front are split off.
Login(u) == UserPiece(u) \o u.host
Authority(u) == Login(u) \o PortPiece(u)
Place(u) == Authority(u) \o PathPiece(u)
Unqueried(u) == SchemePiece(u) \o Place(u)
Unanchored(u) == Unqueried(u) \o QueryPiece(u)
Whole(u) == Unanchored(u) \o FragmentPiece(u)

\* The pieces are texts without the delimiters that are split at later.
LEMMA PiecesAreTexts ==
  ASSUME NEW u, IsUrl(u)
  PROVE  /\ SchemePiece(u) \in Texts /\ Free(SchemePiece(u), {"?", "#"})
         /\ UserPiece(u) \in Texts /\ Free(UserPiece(u), {"://", ":", "/", "?", "#"})
         /\ u.host \in Texts /\ Free(u.host, URL!Delimiters)
         /\ PortPiece(u) \in Texts /\ Free(PortPiece(u), {"://", "/", "?", "#"})
         /\ PathPiece(u) \in Texts /\ Free(PathPiece(u), {"://", "?", "#"})
         /\ QueryPiece(u) \in Texts /\ Free(QueryPiece(u), {"#"})
         /\ FragmentPiece(u) \in Texts
<1> DEFINE D == URL!Delimiters
<1>1. /\ "://" \in Tokens /\ "@" \in Tokens /\ ":" \in Tokens /\ "?" \in Tokens /\ "#" \in Tokens
  BY DelimitersAreTokens DEF URL!Delimiters
<1>2. SchemePiece(u) \in Texts /\ Free(SchemePiece(u), {"?", "#"})
  <2>1. Has(u, "scheme") # {} => u.scheme \in Texts /\ Free(u.scheme, D)
    BY UrlFields DEF Has
  <2>2. Has(u, "scheme") # {} => Free(u.scheme, {"?", "#"})
    BY <2>1, FreeOfLess DEF URL!Delimiters
  <2>3. "://" \notin {"?", "#"}
    OBVIOUS
  <2> QED
    BY <2>1, <2>2, <2>3, <1>1, BeforeIsText DEF SchemePiece
<1>3. UserPiece(u) \in Texts /\ Free(UserPiece(u), {"://", ":", "/", "?", "#"})
  <2>1. Has(u, "userinfo") # {} => u.userinfo \in Texts /\ Free(u.userinfo, D)
    BY UrlFields DEF Has
  <2>2. Has(u, "userinfo") # {} => Free(u.userinfo, {"://", ":", "/", "?", "#"})
    BY <2>1, FreeOfLess DEF URL!Delimiters
  <2>3. "@" \notin {"://", ":", "/", "?", "#"}
    OBVIOUS
  <2> QED
    BY <2>1, <2>2, <2>3, <1>1, BeforeIsText DEF UserPiece
<1>4. PortPiece(u) \in Texts /\ Free(PortPiece(u), {"://", "/", "?", "#"})
  <2>1. Has(u, "port") # {} => u.port \in URL!Ports
    BY UrlFields DEF Has
  <2>2. {"://", "/", "?", "#"} \in SUBSET URL!Delimiters
    BY DEF URL!Delimiters
  <2>3. Has(u, "port") # {} => <<u.port>> \in Texts /\ Free(<<u.port>>, {"://", "/", "?", "#"})
    BY <2>1, <2>2, PortsAreFree
  <2>4. ":" \notin {"://", "/", "?", "#"}
    OBVIOUS
  <2> QED
    BY <2>3, <2>4, <1>1, BehindIsText DEF PortPiece
<1>5. PathPiece(u) \in Texts /\ Free(PathPiece(u), {"://", "?", "#"})
  <2>1. <<>> \in Texts
    BY EmptySeq DEF Texts
  <2> QED
    BY <2>1, UrlFields, FreeOfNone DEF PathPiece
<1>6. QueryPiece(u) \in Texts /\ Free(QueryPiece(u), {"#"})
  <2>1. Has(u, "query") # {} => u.query \in Texts /\ Free(u.query, {"?", "#"})
    BY UrlFields DEF Has
  <2>2. Has(u, "query") # {} => Free(u.query, {"#"})
    BY <2>1, FreeOfLess
  <2>3. "?" \notin {"#"}
    OBVIOUS
  <2> QED
    BY <2>1, <2>2, <2>3, <1>1, BehindIsText DEF QueryPiece
<1>9. Has(u, "fragment") # {} => u.fragment \in Texts
  BY UrlFields DEF Has
<1>7. FragmentPiece(u) \in Texts
  BY <1>1, <1>9, BehindIsText DEF FragmentPiece
<1>8. u.host \in Texts /\ Free(u.host, URL!Delimiters)
  BY UrlFields
<1> QED
  BY <1>2, <1>3, <1>4, <1>5, <1>6, <1>7, <1>8

\* What is left is a text without the later delimiters, too.
LEMMA RestsAreTexts ==
  ASSUME NEW u, IsUrl(u)
  PROVE  /\ Login(u) \in Texts /\ Free(Login(u), {"://", ":", "/", "?", "#"})
         /\ Authority(u) \in Texts /\ Free(Authority(u), {"://", "/", "?", "#"}) /\ Authority(u) # <<>>
         /\ Place(u) \in Texts /\ Free(Place(u), {"://", "?", "#"})
         /\ Unqueried(u) \in Texts /\ Free(Unqueried(u), {"?", "#"})
         /\ Unanchored(u) \in Texts /\ Free(Unanchored(u), {"#"})
<1>1. Login(u) \in Texts /\ Free(Login(u), {"://", ":", "/", "?", "#"})
  <2>1. Free(u.host, {"://", ":", "/", "?", "#"})
    BY PiecesAreTexts, FreeOfLess DEF URL!Delimiters
  <2>2. Login(u) \in Texts
    BY PiecesAreTexts, ConcatProperties DEF Login, Texts
  <2> QED
    BY <2>1, <2>2, PiecesAreTexts, FreeTogether DEF Login
<1>2. Authority(u) \in Texts /\ Free(Authority(u), {"://", "/", "?", "#"})
  <2>1. Free(Login(u), {"://", "/", "?", "#"})
    BY <1>1, FreeOfLess
  <2>2. Authority(u) \in Texts
    BY <1>1, PiecesAreTexts, ConcatProperties DEF Authority, Texts
  <2> QED
    BY <1>1, <2>1, <2>2, PiecesAreTexts, FreeTogether DEF Authority
<1>3. Authority(u) # <<>>
  <2>1. u.host # <<>>
    BY UrlFields
  <2>2. Login(u) # <<>>
    BY <2>1, PiecesAreTexts, ConcatEqualIffEmpty DEF Login, Texts
  <2> QED
    BY <2>2, <1>1, PiecesAreTexts, ConcatEqualIffEmpty DEF Authority, Texts
<1>4. Place(u) \in Texts /\ Free(Place(u), {"://", "?", "#"})
  <2>1. Free(Authority(u), {"://", "?", "#"})
    BY <1>2, FreeOfLess
  <2>2. Place(u) \in Texts
    BY <1>2, PiecesAreTexts, ConcatProperties DEF Place, Texts
  <2> QED
    BY <1>2, <2>1, <2>2, PiecesAreTexts, FreeTogether DEF Place
<1>5. Unqueried(u) \in Texts /\ Free(Unqueried(u), {"?", "#"})
  <2>1. Free(Place(u), {"?", "#"})
    BY <1>4, FreeOfLess
  <2>2. Unqueried(u) \in Texts
    BY <1>4, PiecesAreTexts, ConcatProperties DEF Unqueried, Texts
  <2> QED
    BY <1>4, <2>1, <2>2, PiecesAreTexts, FreeTogether DEF Unqueried
<1>6. Unanchored(u) \in Texts /\ Free(Unanchored(u), {"#"})
  <2>1. Free(Unqueried(u), {"#"})
    BY <1>5, FreeOfLess
  <2>2. Unanchored(u) \in Texts
    BY <1>5, PiecesAreTexts, ConcatProperties DEF Unanchored, Texts
  <2> QED
    BY <1>5, <2>1, <2>2, PiecesAreTexts, FreeTogether DEF Unanchored
<1> QED
  BY <1>1, <1>2, <1>3, <1>4, <1>5, <1>6

\* Texts may be put together in any order.
LEMMA Regroup ==
  ASSUME NEW s \in Seq(Tokens), NEW l \in Seq(Tokens), NEW h \in Seq(Tokens)
  PROVE  (s \o l) \o h = s \o (l \o h)
OBVIOUS

\* assemble_url puts them together.
LEMMA AssembledIs ==
  ASSUME NEW u, IsUrl(u)
  PROVE  URL!AssembleUrl(u) = Whole(u)
<1>1. /\ SchemePiece(u) \in Seq(Tokens) /\ UserPiece(u) \in Seq(Tokens) /\ u.host \in Seq(Tokens)
      /\ PortPiece(u) \in Seq(Tokens) /\ PathPiece(u) \in Seq(Tokens)
  BY PiecesAreTexts DEF Texts
<1>2. Login(u) \in Seq(Tokens) /\ Authority(u) \in Seq(Tokens)
  BY RestsAreTexts DEF Texts
<1>3. SchemePiece(u) \o UserPiece(u) \o u.host = SchemePiece(u) \o Login(u)
  BY <1>1, Regroup DEF Login
<1>4. SchemePiece(u) \o Login(u) \o PortPiece(u) = SchemePiece(u) \o Authority(u)
  <2> DEFINE s == SchemePiece(u)
             l == Login(u)
             h == PortPiece(u)
  <2>2. s \in Seq(Tokens) /\ l \in Seq(Tokens) /\ h \in Seq(Tokens)
    BY <1>1, <1>2
  <2>1. (s \o l) \o h = s \o (l \o h)
    <3> HIDE DEF s, l, h
    <3> QED
      BY <2>2, Regroup
  <2> QED
    BY <2>1 DEF Authority
<1>5. SchemePiece(u) \o Authority(u) \o PathPiece(u) = Unqueried(u)
  <2> DEFINE s == SchemePiece(u)
             l == Authority(u)
             h == PathPiece(u)
  <2>2. s \in Seq(Tokens) /\ l \in Seq(Tokens) /\ h \in Seq(Tokens)
    BY <1>1, <1>2
  <2>1. (s \o l) \o h = s \o (l \o h)
    <3> HIDE DEF s, l, h
    <3> QED
      BY <2>2, Regroup
  <2> QED
    BY <2>1 DEF Place, Unqueried
<1>6. URL!AssembleUrl(u) =
        SchemePiece(u) \o UserPiece(u) \o u.host \o PortPiece(u) \o PathPiece(u) \o QueryPiece(u) \o FragmentPiece(u)
  BY DEF URL!AssembleUrl, SchemePiece, UserPiece, PortPiece, PathPiece, QueryPiece, FragmentPiece, Before, Behind, Has
<1> QED
  BY <1>3, <1>4, <1>5, <1>6 DEF Unanchored, Whole

\* parse_url takes them apart.
LEMMA ParsedIs ==
  ASSUME NEW u, IsUrl(u)
  PROVE  /\ (URL!Splits(Whole(u), "#") <=> Has(u, "fragment") # {}) /\ URL!Head_(Whole(u), "#") = Unanchored(u)
         /\ Has(u, "fragment") # {} => URL!Second(Whole(u), "#") = u.fragment
         /\ (URL!Splits(Unanchored(u), "?") <=> Has(u, "query") # {}) /\ URL!Head_(Unanchored(u), "?") = Unqueried(u)
         /\ Has(u, "query") # {} => URL!Second(Unanchored(u), "?") = u.query
         /\ (URL!Splits(Unqueried(u), "://") <=> Has(u, "scheme") # {})
         /\ Has(u, "scheme") # {} =>
              URL!Head_(Unqueried(u), "://") = u.scheme /\ URL!Second(Unqueried(u), "://") = Place(u)
         /\ Has(u, "scheme") = {} => Unqueried(u) = Place(u)
         /\ (URL!Splits(Authority(u), ":") <=> Has(u, "port") # {}) /\ URL!Head_(Authority(u), ":") = Login(u)
         /\ Has(u, "port") # {} => URL!Second(Authority(u), ":") = <<u.port>>
         /\ (URL!Splits(Login(u), "@") <=> Has(u, "userinfo") # {})
         /\ Has(u, "userinfo") # {} =>
              URL!Head_(Login(u), "@") = u.userinfo /\ URL!Second(Login(u), "@") = u.host
         /\ Has(u, "userinfo") = {} => Login(u) = u.host
<1>1. /\ "://" \in Tokens /\ "@" \in Tokens /\ ":" \in Tokens /\ "?" \in Tokens /\ "#" \in Tokens
  BY DelimitersAreTokens DEF URL!Delimiters
<1>2. /\ Has(u, "fragment") # {} => u.fragment \in Texts /\ Free(u.fragment, {"#"})
      /\ Has(u, "query") # {} => u.query \in Texts /\ Free(u.query, {"?"})
      /\ Has(u, "scheme") # {} => u.scheme \in Texts /\ Free(u.scheme, {"://"})
      /\ Has(u, "userinfo") # {} => u.userinfo \in Texts /\ Free(u.userinfo, {"@"})
      /\ u.host \in Texts /\ Free(u.host, {"@"})
  BY UrlFields, FreeOfLess DEF Has, URL!Delimiters
<1>3. Has(u, "port") # {} => <<u.port>> \in Texts /\ Free(<<u.port>>, {":"})
  <2>1. Has(u, "port") # {} => u.port \in URL!Ports
    BY UrlFields DEF Has
  <2>2. {":"} \in SUBSET URL!Delimiters
    BY DEF URL!Delimiters
  <2> QED
    BY <2>1, <2>2, PortsAreFree
<1>4. (URL!Splits(Whole(u), "#") <=> Has(u, "fragment") # {}) /\ URL!Head_(Whole(u), "#") = Unanchored(u)
      /\ (Has(u, "fragment") # {} => URL!Second(Whole(u), "#") = u.fragment)
  <2>1. Unanchored(u) \in Texts /\ Free(Unanchored(u), {"#"})
    BY RestsAreTexts
  <2>2. SplitFrom(Unanchored(u) \o Behind("#", Has(u, "fragment"), u.fragment), "#", Unanchored(u), Has(u, "fragment"), u.fragment)
    BY <1>1, <1>2, <2>1, SplitBehind
  <2> QED
    BY <2>2 DEF FragmentPiece, Whole, SplitFrom
<1>5. (URL!Splits(Unanchored(u), "?") <=> Has(u, "query") # {}) /\ URL!Head_(Unanchored(u), "?") = Unqueried(u)
      /\ (Has(u, "query") # {} => URL!Second(Unanchored(u), "?") = u.query)
  <2>1. Unqueried(u) \in Texts /\ Free(Unqueried(u), {"?"})
    BY RestsAreTexts, FreeOfLess
  <2>2. SplitFrom(Unqueried(u) \o Behind("?", Has(u, "query"), u.query), "?", Unqueried(u), Has(u, "query"), u.query)
    BY <1>1, <1>2, <2>1, SplitBehind
  <2> QED
    BY <2>2 DEF QueryPiece, Unanchored, SplitFrom
<1>6. (URL!Splits(Unqueried(u), "://") <=> Has(u, "scheme") # {})
      /\ (Has(u, "scheme") # {} =>
           URL!Head_(Unqueried(u), "://") = u.scheme /\ URL!Second(Unqueried(u), "://") = Place(u))
      /\ (Has(u, "scheme") = {} => Unqueried(u) = Place(u))
  <2>1. Place(u) \in Texts /\ Free(Place(u), {"://"})
    BY RestsAreTexts, FreeOfLess
  <2>2. SplitTo(Before(Has(u, "scheme"), u.scheme, "://") \o Place(u), "://", u.scheme, Has(u, "scheme"), Place(u))
    BY <1>1, <1>2, <2>1, SplitBefore
  <2> QED
    BY <2>2 DEF SchemePiece, Unqueried, SplitTo
<1>7. (URL!Splits(Authority(u), ":") <=> Has(u, "port") # {}) /\ URL!Head_(Authority(u), ":") = Login(u)
      /\ (Has(u, "port") # {} => URL!Second(Authority(u), ":") = <<u.port>>)
  <2>1. Login(u) \in Texts /\ Free(Login(u), {":"})
    BY RestsAreTexts, FreeOfLess
  <2>2. SplitFrom(Login(u) \o Behind(":", Has(u, "port"), <<u.port>>), ":", Login(u), Has(u, "port"), <<u.port>>)
    BY <1>1, <1>3, <2>1, SplitBehind
  <2> QED
    BY <2>2 DEF PortPiece, Authority, SplitFrom
<1>8. (URL!Splits(Login(u), "@") <=> Has(u, "userinfo") # {})
      /\ (Has(u, "userinfo") # {} =>
           URL!Head_(Login(u), "@") = u.userinfo /\ URL!Second(Login(u), "@") = u.host)
      /\ (Has(u, "userinfo") = {} => Login(u) = u.host)
  <2>1. SplitTo(Before(Has(u, "userinfo"), u.userinfo, "@") \o u.host, "@", u.userinfo, Has(u, "userinfo"), u.host)
    BY <1>1, <1>2, SplitBefore
  <2> QED
    BY <2>1 DEF UserPiece, Login, SplitTo
<1> QED
  BY <1>4, <1>5, <1>6, <1>7, <1>8

\* What is a path behind an authority.
LEMMA PathIs ==
  ASSUME NEW u, IsUrl(u)
  PROVE  /\ Has(u, "path") # {} =>
              /\ URL!Places(Place(u), "/") # {} /\ URL!SmallestOf(URL!Places(Place(u), "/")) > 1
              /\ SubSeq(Place(u), URL!SmallestOf(URL!Places(Place(u), "/")), Len(Place(u))) = u.path
              /\ Len(u.path) > 1 /\ URL!Head_(Place(u), "/") = Authority(u)
         /\ Has(u, "path") = {} => URL!Places(Place(u), "/") = {} /\ Place(u) = Authority(u)
<1>1. Authority(u) \in Texts /\ Free(Authority(u), {"/"}) /\ Authority(u) # <<>>
  BY RestsAreTexts, FreeOfLess
<1>2. CASE Has(u, "path") = {}
  <2>1. PathPiece(u) = <<>>
    BY <1>2 DEF PathPiece, Has
  <2>2. Place(u) = Authority(u)
    BY <1>1, <2>1, ConcatEmptySeq DEF Place, Texts
  <2> QED
    BY <1>1, <1>2, <2>2, Unsplit
<1>3. CASE Has(u, "path") # {}
  <2> DEFINE t == SubSeq(u.path, 2, Len(u.path))
  <2>1. /\ "path" \in DOMAIN u /\ u.path \in Texts /\ Len(u.path) > 1 /\ u.path[1] = "/"
    BY <1>3, UrlFields DEF Has
  <2>2. 2 \in 1 .. Len(u.path) + 1 /\ Len(u.path) \in Nat
    BY <2>1, LenProperties DEF Texts
  <2>3. /\ t \in Texts /\ Len(t) = Len(u.path) - 2 + 1
        /\ \A i \in 1 .. Len(u.path) - 2 + 1 : t[i] = u.path[2 + i - 1]
    <3> DEFINE p == u.path
    <3>1. p \in Texts /\ 2 \in 1 .. Len(p) + 1
      BY <2>1, <2>2
    <3>2. /\ SubSeq(p, 2, Len(p)) \in Texts /\ Len(SubSeq(p, 2, Len(p))) = Len(p) - 2 + 1
          /\ \A i \in 1 .. Len(p) - 2 + 1 : SubSeq(p, 2, Len(p))[i] = p[2 + i - 1]
      <4> HIDE DEF p
      <4> QED
        BY <3>1, EndOf
    <3> QED
      BY <3>2
  <2>4. "/" \in Tokens
    BY DelimitersAreTokens DEF URL!Delimiters
  <2>5. u.path = <<"/">> \o t
    <3> DEFINE p == u.path
    <3>1. p \in Texts /\ p[1] = "/" /\ Len(p) \in Nat
      BY <2>1, <2>2
    <3>2. <<"/">> \in Texts /\ Len(<<"/">>) = 1 /\ <<"/">>[1] = "/"
      <4>1. <<"/">> \in Seq(Tokens)
        BY <2>4
      <4> QED
        BY <4>1 DEF Texts
    <3>3. Len(t) = Len(p) - 2 + 1 /\ \A i \in 1 .. Len(p) - 2 + 1 : t[i] = p[2 + i - 1]
      BY <2>3
    <3>4. Len(p) > 1
      BY <2>1
    <3> HIDE DEF p, t
    <3>5. <<"/">> \o t \in Texts /\ Len(<<"/">> \o t) = Len(p)
      BY <2>3, <3>1, <3>2, <3>3, <3>4, ConcatProperties DEF Texts
    <3>6. \A i \in 1 .. Len(<<"/">>) + Len(t) :
            (<<"/">> \o t)[i] = IF i <= Len(<<"/">>) THEN <<"/">>[i] ELSE t[i - Len(<<"/">>)]
      BY <2>3, <3>2, ConcatProperties DEF Texts
    <3>7. ASSUME NEW i \in 1 .. Len(p)
          PROVE  (<<"/">> \o t)[i] = p[i]
      <4>1. i \in 1 .. Len(<<"/">>) + Len(t) /\ Len(<<"/">>) = 1
        BY <3>1, <3>2, <3>3
      <4>2. CASE i = 1
        BY <4>1, <4>2, <3>6, <3>2, <3>1
      <4>3. CASE i # 1
        <5>1. ~(i <= 1) /\ i - 1 \in 1 .. Len(p) - 2 + 1 /\ 2 + (i - 1) - 1 = i
          BY <4>3, <3>1
        <5> QED
          BY <5>1, <4>1, <3>6, <3>3
      <4> QED
        BY <4>2, <4>3
    <3>8. p = <<"/">> \o t
      BY <3>1, <3>5, <3>7, SeqEqual DEF Texts
    <3> QED
      BY <3>8 DEF p
  <2> HIDE DEF t
  <2>6. Place(u) = Joined(Authority(u), "/", t)
    BY <2>1, <2>5 DEF Place, PathPiece, Joined
  <2>7. SplitInto(Joined(Authority(u), "/", t), "/", Authority(u), t)
    BY <1>1, <2>3, <2>4, SplitOnce
  <2>8. Len(Authority(u)) + 1 > 1
    BY <1>1, EmptySeq, LenProperties DEF Texts
  <2>9. URL!Splits(Place(u), "/") => URL!Places(Place(u), "/") # {}
    BY DEF URL!Splits
  <2> QED
    BY <1>3, <2>1, <2>5, <2>6, <2>7, <2>8, <2>9 DEF SplitInto
<1> QED
  BY <1>2, <1>3

\* A URL that is put together is taken apart into what it was.
THEOREM ParseAssembled ==
  ASSUME NEW u, IsUrl(u)
  PROVE  URL!ParseUrl(URL!AssembleUrl(u)) = u
<1> DEFINE w == Whole(u)
           fragment == URL!Component("fragment", URL!Splits(w, "#"), URL!Second(w, "#"))
           query == URL!Component("query", URL!Splits(Unanchored(u), "?"), URL!Second(Unanchored(u), "?"))
           scheme == URL!Component("scheme", URL!Splits(Unqueried(u), "://"), URL!Head_(Unqueried(u), "://"))
           slashes == URL!Places(Place(u), "/")
           hasPath == slashes # {} /\ URL!SmallestOf(slashes) > 1
           path == SubSeq(Place(u), URL!SmallestOf(slashes), Len(Place(u)))
           rest == URL!Component("path", hasPath /\ Len(path) > 1, path)
           port == URL!Component("port", URL!Splits(Authority(u), ":"), URL!ToInt(URL!Second(Authority(u), ":")))
           userinfo == URL!Component("userinfo", URL!Splits(Login(u), "@"), URL!Head_(Login(u), "@"))
           host == URL!Component("host", TRUE,
                     IF URL!Splits(Login(u), "@") THEN URL!Second(Login(u), "@") ELSE Login(u))
<1>1. URL!ParseUrl(w) =
        URL!Over(URL!Over(URL!Over(URL!Over(URL!Over(URL!Over(fragment, query), scheme), rest), port), userinfo), host)
  <2>1. URL!Head_(w, "#") = Unanchored(u) /\ URL!Head_(Unanchored(u), "?") = Unqueried(u)
    BY ParsedIs
  <2>2. (IF URL!Splits(Unqueried(u), "://") THEN URL!Second(Unqueried(u), "://") ELSE Unqueried(u)) = Place(u)
    BY ParsedIs
  <2>3. (IF hasPath THEN URL!Head_(Place(u), "/") ELSE Place(u)) = Authority(u)
    BY PathIs
  <2>4. URL!Head_(Authority(u), ":") = Login(u)
    BY ParsedIs
  <2> QED
    BY <2>1, <2>2, <2>3, <2>4 DEF URL!ParseUrl
<1>2. DOMAIN fragment = Has(u, "fragment") /\ \A n \in DOMAIN fragment : fragment[n] = u[n]
  BY ParsedIs DEF URL!Component, Has
<1>3. DOMAIN query = Has(u, "query") /\ \A n \in DOMAIN query : query[n] = u[n]
  BY ParsedIs DEF URL!Component, Has
<1>4. DOMAIN scheme = Has(u, "scheme") /\ \A n \in DOMAIN scheme : scheme[n] = u[n]
  BY ParsedIs DEF URL!Component, Has
<1>5. DOMAIN rest = Has(u, "path") /\ \A n \in DOMAIN rest : rest[n] = u[n]
  BY PathIs DEF URL!Component, Has
<1>6. DOMAIN port = Has(u, "port") /\ \A n \in DOMAIN port : port[n] = u[n]
  <2>1. Has(u, "port") # {} => u.port \in URL!Ports
    BY UrlFields DEF Has
  <2>2. Has(u, "port") # {} => URL!ToInt(<<u.port>>) = u.port
    BY <2>1, PortsAreFree
  <2> QED
    BY <2>2, ParsedIs DEF URL!Component, Has
<1>7. DOMAIN userinfo = Has(u, "userinfo") /\ \A n \in DOMAIN userinfo : userinfo[n] = u[n]
  BY ParsedIs DEF URL!Component, Has
<1>8. DOMAIN host = Has(u, "host") /\ \A n \in DOMAIN host : host[n] = u[n]
  BY ParsedIs, UrlFields DEF URL!Component, Has
<1> HIDE DEF fragment, query, scheme, rest, port, userinfo, host
<1> DEFINE f1 == URL!Over(fragment, query)
           f2 == URL!Over(f1, scheme)
           f3 == URL!Over(f2, rest)
           f4 == URL!Over(f3, port)
           f5 == URL!Over(f4, userinfo)
           f6 == URL!Over(f5, host)
<1>10. SomeOf(fragment, {"fragment"}, u)
  BY <1>2 DEF SomeOf, Has
<1>11. SomeOf(f1, {"fragment"} \cup {"query"}, u)
  BY <1>10, <1>3, OneMore
<1>12. SomeOf(f2, ({"fragment"} \cup {"query"}) \cup {"scheme"}, u)
  <2> HIDE DEF f1
  <2> QED
    BY <1>11, <1>4, OneMore
<1>13. SomeOf(f3, {"fragment", "query", "scheme"} \cup {"path"}, u)
  <2>1. SomeOf(f2, {"fragment", "query", "scheme"}, u)
    BY <1>12 DEF SomeOf
  <2> HIDE DEF f2
  <2> QED
    BY <2>1, <1>5, OneMore
<1>14. SomeOf(f4, {"fragment", "query", "scheme", "path"} \cup {"port"}, u)
  <2>1. SomeOf(f3, {"fragment", "query", "scheme", "path"}, u)
    BY <1>13 DEF SomeOf
  <2> HIDE DEF f3
  <2> QED
    BY <2>1, <1>6, OneMore
<1>15. SomeOf(f5, {"fragment", "query", "scheme", "path", "port"} \cup {"userinfo"}, u)
  <2>1. SomeOf(f4, {"fragment", "query", "scheme", "path", "port"}, u)
    BY <1>14 DEF SomeOf
  <2> HIDE DEF f4
  <2> QED
    BY <2>1, <1>7, OneMore
<1>16. SomeOf(f6, {"fragment", "query", "scheme", "path", "port", "userinfo"} \cup {"host"}, u)
  <2>1. SomeOf(f5, {"fragment", "query", "scheme", "path", "port", "userinfo"}, u)
    BY <1>15 DEF SomeOf
  <2> HIDE DEF f5
  <2> QED
    BY <2>1, <1>8, OneMore
<1>17. f6 = u
  <2>1. DOMAIN f6 = DOMAIN u /\ \A n \in DOMAIN u : f6[n] = u[n]
    <3>1. DOMAIN u \subseteq Names
      BY UrlFields
    <3> HIDE DEF f6
    <3> QED
      BY <3>1, <1>16 DEF SomeOf, Names
  <2>2. u = [n \in DOMAIN u |-> u[n]]
    BY UrlFields
  <2>3. f6 = [n \in DOMAIN f5 \cup DOMAIN host |-> IF n \in DOMAIN f5 THEN f5[n] ELSE host[n]]
    BY DEF URL!Over
  <2>4. f6 = [n \in DOMAIN f6 |-> f6[n]]
    <3> HIDE DEF f5
    <3> QED
      BY <2>3
  <2> HIDE DEF f6
  <2> QED
    BY <2>1, <2>2, <2>4
<1> QED
  BY <1>1, <1>17, AssembledIs

\* It is a text, and not empty.
LEMMA AssembledIsText ==
  ASSUME NEW u, IsUrl(u)
  PROVE  URL!AssembleUrl(u) \in Texts /\ URL!AssembleUrl(u) # <<>>
<1>1. /\ Authority(u) \in Seq(Tokens) /\ Authority(u) # <<>> /\ Place(u) \in Seq(Tokens)
      /\ Unqueried(u) \in Seq(Tokens) /\ Unanchored(u) \in Seq(Tokens)
      /\ SchemePiece(u) \in Seq(Tokens) /\ PathPiece(u) \in Seq(Tokens) /\ QueryPiece(u) \in Seq(Tokens)
      /\ FragmentPiece(u) \in Seq(Tokens)
  BY PiecesAreTexts, RestsAreTexts DEF Texts
<1>2. Place(u) # <<>>
  BY <1>1, ConcatEqualIffEmpty DEF Place
<1>3. Unqueried(u) # <<>>
  BY <1>1, <1>2, ConcatEqualIffEmpty DEF Unqueried
<1>4. Unanchored(u) # <<>>
  BY <1>1, <1>3, ConcatEqualIffEmpty DEF Unanchored
<1>5. Whole(u) # <<>> /\ Whole(u) \in Seq(Tokens)
  BY <1>1, <1>4, ConcatEqualIffEmpty, ConcatProperties DEF Whole
<1> QED
  BY <1>5, AssembledIs DEF Texts

-----------------------------------------------------------------------------
(* The client after its setters were called.                               *)

\* The URL for subscriptions that is made of the one for requests.
WsUrlOf(u) ==
  URL!Over([scheme |-> IF "scheme" \in DOMAIN u /\ u.scheme = <<"http">> THEN <<"ws">> ELSE <<"wss">>,
            port |-> WsPort], u)

\* It is a URL.
LEMMA WsUrlIsUrl ==
  ASSUME NEW u, IsUrl(u)
  PROVE  /\ IsUrl(WsUrlOf(u))
         /\ \A tls : tls = URL!UsesTls(u) => URL!AsWsUrl(u, tls, Defaults) = URL!AssembleUrl(WsUrlOf(u))
<1> DEFINE x == IF "scheme" \in DOMAIN u /\ u.scheme = <<"http">> THEN "ws" ELSE "wss"
           scheme == <<x>>
           w == WsUrlOf(u)
<1>1. x \in Tokens /\ x \notin URL!Delimiters
  BY TokensAssumption DEF URL!Delimiters
<1>2. scheme \in Seq(Tokens) /\ Free(scheme, URL!Delimiters)
  <2> HIDE DEF x
  <2> QED
    BY <1>1, FreeAlone
<1>3. w = URL!Over([scheme |-> scheme, port |-> WsPort], u)
  BY DEF WsUrlOf
<1>4. /\ DOMAIN w = DOMAIN u \cup {"scheme", "port"}
      /\ w.scheme = scheme /\ w.port = WsPort
      /\ \A name \in DOMAIN u \ {"scheme", "port"} : w[name] = u[name]
      /\ w = [name \in DOMAIN w |-> w[name]]
  <2> HIDE DEF scheme
  <2>1. w = [name \in {"scheme", "port"} \cup DOMAIN u |->
               IF name \in {"scheme", "port"} THEN [scheme |-> scheme, port |-> WsPort][name] ELSE u[name]]
    BY <1>3 DEF URL!Over
  <2> HIDE DEF w
  <2> QED
    BY <2>1
<1>5. WsPort \in URL!Ports
  BY PortsAssumption
<1> HIDE DEF w, scheme
<1>6. IsUrl(w)
  <2>1. \A name \in DOMAIN w \ {"port"} : w[name] \in Seq(Tokens)
    BY <1>2, <1>4 DEF IsUrl
  <2>2. w \in [DOMAIN w -> Seq(Tokens) \cup URL!Ports]
    BY <2>1, <1>4, <1>5
  <2>3. \A name \in DOMAIN w \cap {"scheme", "userinfo", "host"} : Free(w[name], URL!Delimiters)
    BY <1>2, <1>4 DEF IsUrl
  <2> QED
    BY <2>1, <2>2, <2>3, <1>4, <1>5 DEF IsUrl
<1>7. ASSUME NEW tls, tls = URL!UsesTls(u)
      PROVE  URL!AsWsUrl(u, tls, Defaults) = URL!AssembleUrl(w)
  <2>1. <<IF tls THEN "wss" ELSE "ws">> = scheme
    BY <1>7 DEF URL!UsesTls, scheme
  <2>2. URL!RealWsPort(Defaults) = WsPort
    BY DEF Defaults, URL!RealWsPort
  <2> QED
    BY <2>1, <2>2, <1>3 DEF URL!AsWsUrl
<1> QED
  BY <1>6, <1>7 DEF w

Setters == {"set_url_override", "set_ws_url"}

\* A client is what its setters made of it: the URL that was set last, the port
\* of the last URL that had one, and the URL for subscriptions, by the last call.
ClientType ==
  /\ client \in [url_override : Texts, http_port_override : URL!Ports \cup {"0"}, ws_url : Texts, use_tls : BOOLEAN]
  /\ calls \in Seq([call : Setters, url : Urls])
  /\ Overrides # {} => Latest(Overrides) \in Overrides
  /\ WithPort # {} => Latest(WithPort) \in WithPort
ClientIsOfCalls ==
  /\ client.url_override = IF Overrides = {} THEN <<>> ELSE URL!AssembleUrl(HttpUrl)
  /\ client.http_port_override = IF WithPort = {} THEN "0" ELSE LastPort
  /\ client.ws_url =
       IF calls = <<>> THEN <<>>
       ELSE IF calls[Len(calls)].call = "set_ws_url" THEN URL!AssembleUrl(calls[Len(calls)].url)
       ELSE URL!AssembleUrl(WsUrlOf(HttpUrl))
ClientInv == ClientType /\ ClientIsOfCalls

\* It starts with nothing set.
LEMMA ClientStarts == InitClient => ClientInv
<1> SUFFICES ASSUME InitClient
             PROVE  ClientInv
  OBVIOUS
<1>1. DOMAIN calls = {} /\ calls = <<>>
  BY DEF InitClient
<1>2. Overrides = {} /\ WithPort = {}
  BY <1>1 DEF Overrides, WithPort
<1>3. <<>> \in Texts /\ calls \in Seq([call : Setters, url : Urls])
  BY <1>1 DEF Texts
<1> QED
  BY <1>1, <1>2, <1>3 DEF InitClient, URL!NewClient, ClientInv, ClientType, ClientIsOfCalls

\* The URL of requests is a URL.
LEMMA HttpUrlIsUrl == ClientType => IsUrl(HttpUrl) /\ (WithPort # {} => LastPort \in URL!Ports)
<1> SUFFICES ASSUME ClientType
             PROVE  IsUrl(HttpUrl) /\ (WithPort # {} => LastPort \in URL!Ports)
  OBVIOUS
<1>1. \A i \in DOMAIN calls : calls[i].url \in Urls
  <2> DEFINE C == [call : Setters, url : Urls]
  <2>1. calls \in Seq(C)
    BY DEF ClientType
  <2>2. \A i \in DOMAIN calls : calls[i] \in C
    <3> HIDE DEF C
    <3> QED
      BY <2>1, ElementOfSeq, LenProperties
  <2> QED
    BY <2>2
<1>2. Overrides \subseteq DOMAIN calls /\ WithPort \subseteq Overrides
  BY DEF Overrides, WithPort
<1>3. IsUrl(HttpUrl)
  BY <1>1, <1>2, UrlsAssumption DEF HttpUrl, ClientType
<1>4. ASSUME WithPort # {}
      PROVE  LastPort \in URL!Ports
  <2> DEFINE i == Latest(WithPort)
  <2>1. i \in WithPort
    BY <1>4 DEF ClientType
  <2>2. calls[i].url \in Urls /\ "port" \in DOMAIN calls[i].url
    BY <2>1, <1>1, <1>2 DEF WithPort
  <2> QED
    BY <2>2, <1>4, UrlsAssumption, UrlFields DEF LastPort
<1> QED
  BY <1>3, <1>4

\* One more call.
LEMMA OneMoreCall ==
  ASSUME ClientType, NEW call \in Setters, NEW url \in Urls, Called(call, url)
  PROVE  /\ calls' \in Seq([call : Setters, url : Urls]) /\ calls' # <<>>
         /\ calls'[Len(calls')].call = call /\ calls'[Len(calls')].url = url
         /\ call = "set_url_override" =>
              /\ Overrides' # {} /\ Latest(Overrides)' \in Overrides' /\ HttpUrl' = url
              /\ "port" \in DOMAIN url =>
                   WithPort' # {} /\ Latest(WithPort)' \in WithPort' /\ LastPort' = url.port
         /\ call # "set_url_override" =>
              /\ Overrides' = Overrides /\ HttpUrl' = HttpUrl
         /\ call # "set_url_override" \/ "port" \notin DOMAIN url =>
              WithPort' = WithPort /\ LastPort' = LastPort
<1> DEFINE C == [call : Setters, url : Urls]
           c == [call |-> call, url |-> url]
           n == Len(calls)
<1>1. calls \in Seq(C) /\ c \in C /\ calls' = Append(calls, c) /\ n \in Nat
  BY LenProperties DEF ClientType, Called
<1>2. /\ calls' \in Seq(C) /\ Len(calls') = n + 1 /\ calls'[n + 1] = c
      /\ \A i \in 1 .. n : calls'[i] = calls[i]
      /\ DOMAIN calls = 1 .. n /\ DOMAIN calls' = 1 .. n + 1
  <2> HIDE DEF C, c
  <2> QED
    BY <1>1, AppendProperties, LenProperties
<1>3. calls' # <<>> /\ calls'[Len(calls')] = c
  BY <1>1, <1>2
<1>4. ASSUME NEW S, S \subseteq 1 .. n
      PROVE  Latest(S \cup {n + 1}) = n + 1
  <2>1. \A j \in S \cup {n + 1} : j <= n + 1 /\ j \in Int
    BY <1>1, <1>4
  <2>2. \A x \in S \cup {n + 1} : (\A j \in S \cup {n + 1} : j <= x) => x = n + 1
    <3> SUFFICES ASSUME NEW x \in S \cup {n + 1}, \A j \in S \cup {n + 1} : j <= x
                 PROVE  x = n + 1
      OBVIOUS
    <3>1. n + 1 <= x /\ x <= n + 1 /\ x \in Int
      BY <2>1
    <3> QED
      BY <3>1, <1>1
  <2> QED
    BY <2>1, <2>2 DEF Latest
<1>5. /\ Overrides \subseteq 1 .. n /\ WithPort \subseteq 1 .. n
      /\ Overrides' \subseteq 1 .. n + 1 /\ WithPort' \subseteq 1 .. n + 1
  BY <1>2 DEF Overrides, WithPort
<1>6. \A i \in 1 .. n + 1 : i \in 1 .. n \/ i = n + 1
  BY <1>1
<1>7. n + 1 \in 1 .. n + 1 /\ n + 1 \notin 1 .. n /\ 1 .. n \subseteq 1 .. n + 1
  BY <1>1
<1>8. \A i \in 1 .. n : (i \in Overrides' <=> i \in Overrides) /\ (i \in WithPort' <=> i \in WithPort)
  BY <1>2, <1>7 DEF Overrides, WithPort
<1>9. /\ n + 1 \in Overrides' <=> call = "set_url_override"
      /\ n + 1 \in WithPort' <=> call = "set_url_override" /\ "port" \in DOMAIN url
  BY <1>2, <1>7 DEF Overrides, WithPort
<1>10. ASSUME call = "set_url_override"
       PROVE  Overrides' # {} /\ Latest(Overrides)' \in Overrides' /\ HttpUrl' = url
  <2>1. Overrides' = Overrides \cup {n + 1}
    BY <1>5, <1>6, <1>8, <1>9, <1>10
  <2>2. Latest(Overrides') = n + 1
    BY <2>1, <1>4, <1>5
  <2>3. Latest(Overrides)' = Latest(Overrides')
    BY DEF Latest
  <2> QED
    BY <2>1, <2>2, <2>3, <1>2 DEF HttpUrl
<1>11. ASSUME call = "set_url_override", "port" \in DOMAIN url
       PROVE  WithPort' # {} /\ Latest(WithPort)' \in WithPort' /\ LastPort' = url.port
  <2>1. WithPort' = WithPort \cup {n + 1}
    BY <1>5, <1>6, <1>8, <1>9, <1>11
  <2>2. Latest(WithPort') = n + 1
    BY <2>1, <1>4, <1>5
  <2>3. Latest(WithPort)' = Latest(WithPort')
    BY DEF Latest
  <2> QED
    BY <2>1, <2>2, <2>3, <1>2 DEF LastPort
<1>12. ASSUME call # "set_url_override"
       PROVE  Overrides' = Overrides /\ HttpUrl' = HttpUrl
  <2>1. Overrides' = Overrides
    BY <1>5, <1>6, <1>7, <1>8, <1>9, <1>12
  <2>2. Overrides # {} => calls'[Latest(Overrides)] = calls[Latest(Overrides)]
    BY <1>2, <1>5 DEF ClientType
  <2> QED
    BY <2>1, <2>2 DEF HttpUrl
<1>13. ASSUME call # "set_url_override" \/ "port" \notin DOMAIN url
       PROVE  WithPort' = WithPort /\ LastPort' = LastPort
  <2>1. WithPort' = WithPort
    BY <1>5, <1>6, <1>7, <1>8, <1>9, <1>13
  <2>2. WithPort # {} => calls'[Latest(WithPort)] = calls[Latest(WithPort)]
    BY <1>2, <1>5 DEF ClientType
  <2> QED
    BY <2>1, <2>2 DEF LastPort
<1> QED
  BY <1>2, <1>3, <1>10, <1>11, <1>12, <1>13

\* Every step keeps it.
LEMMA ClientStep == ClientInv /\ [NextClient]_clientVars => ClientInv'
<1> SUFFICES ASSUME ClientInv, [NextClient]_clientVars
             PROVE  ClientInv'
  OBVIOUS
<1> USE DEF ClientInv
<1>1. ASSUME UNCHANGED <<client, calls>>
      PROVE  ClientInv'
  <2>1. /\ Overrides' = Overrides /\ WithPort' = WithPort /\ HttpUrl' = HttpUrl /\ LastPort' = LastPort
        /\ Latest(WithPort)' = Latest(WithPort) /\ Latest(Overrides)' = Latest(Overrides)
    BY <1>1 DEF Overrides, WithPort, HttpUrl, LastPort, Latest
  <2>2. WsUrlOf(HttpUrl)' = WsUrlOf(HttpUrl)
    BY <2>1 DEF WsUrlOf
  <2> QED
    BY <1>1, <2>1, <2>2 DEF ClientType, ClientIsOfCalls
<1>2. ASSUME NEW url \in Urls, SetUrlOverride(url)
      PROVE  ClientInv'
  <2> DEFINE text == URL!AssembleUrl(url)
  <2>1. IsUrl(url)
    BY UrlsAssumption
  <2>2. URL!ParseUrl(text) = url
    BY <2>1, ParseAssembled
  <2>3. Called("set_url_override", url) /\ client' = URL!SetUrlOverride(client, text, Defaults)
    BY <1>2 DEF SetUrlOverride
  <2>4. "set_url_override" \in Setters
    BY DEF Setters
  <2>5. /\ calls' \in Seq([call : Setters, url : Urls]) /\ calls' # <<>>
        /\ calls'[Len(calls')].call = "set_url_override"
        /\ Overrides' # {} /\ Latest(Overrides)' \in Overrides' /\ HttpUrl' = url
        /\ "port" \in DOMAIN url =>
             WithPort' # {} /\ Latest(WithPort)' \in WithPort' /\ LastPort' = url.port
        /\ "port" \notin DOMAIN url => WithPort' = WithPort /\ LastPort' = LastPort
    BY <2>3, <2>4, OneMoreCall
  <2>6. "port" \notin DOMAIN url => Latest(WithPort)' = Latest(WithPort)
    BY <2>5 DEF Latest
  <2>7. /\ client'.url_override = text
        /\ client'.http_port_override = IF "port" \in DOMAIN url THEN url.port ELSE client.http_port_override
        /\ client'.ws_url = URL!AsWsUrl(url, URL!UsesTls(url), Defaults)
        /\ client'.use_tls = URL!UsesTls(url)
        /\ client' = [url_override |-> client'.url_override, http_port_override |-> client'.http_port_override,
                      ws_url |-> client'.ws_url, use_tls |-> client'.use_tls]
    <3> HIDE DEF text
    <3> QED
      BY <2>2, <2>3 DEF URL!SetUrlOverride
  <2>8. IsUrl(WsUrlOf(url)) /\ client'.ws_url = URL!AssembleUrl(WsUrlOf(url))
    BY <2>1, <2>7, WsUrlIsUrl
  <2>9. text \in Texts /\ client'.ws_url \in Texts
    BY <2>1, <2>8, AssembledIsText
  <2>10. client'.http_port_override \in URL!Ports \cup {"0"}
    BY <2>1, <2>7, UrlFields DEF ClientType
  <2>11. client' \in [url_override : Texts, http_port_override : URL!Ports \cup {"0"}, ws_url : Texts, use_tls : BOOLEAN]
    <3>1. client'.use_tls \in BOOLEAN
      BY <2>7 DEF URL!UsesTls
    <3> HIDE DEF text
    <3> QED
      BY <2>7, <2>9, <2>10, <3>1
  <2>12. ClientType'
    BY <2>5, <2>6, <2>11 DEF ClientType
  <2>13. client'.http_port_override = IF WithPort' = {} THEN "0" ELSE LastPort'
    BY <2>5, <2>7 DEF ClientIsOfCalls
  <2>14. client'.ws_url = URL!AssembleUrl(WsUrlOf(HttpUrl'))
    BY <2>5, <2>8
  <2>15. WsUrlOf(HttpUrl)' = WsUrlOf(HttpUrl')
    BY DEF WsUrlOf
  <2>16. client'.url_override = IF Overrides' = {} THEN <<>> ELSE URL!AssembleUrl(HttpUrl')
    BY <2>5, <2>7
  <2>17. ClientIsOfCalls'
    BY <2>5, <2>13, <2>14, <2>15, <2>16 DEF ClientIsOfCalls
  <2> QED
    BY <2>12, <2>17
<1>3. ASSUME NEW url \in Urls, SetWsUrl(url)
      PROVE  ClientInv'
  <2> DEFINE text == URL!AssembleUrl(url)
  <2>1. IsUrl(url)
    BY UrlsAssumption
  <2>2. URL!AssembleUrl(URL!ParseUrl(text)) = text
    BY <2>1, ParseAssembled
  <2>3. Called("set_ws_url", url) /\ client' = URL!SetWsUrl(client, text)
    BY <1>3 DEF SetWsUrl
  <2>4. "set_ws_url" \in Setters /\ "set_ws_url" # "set_url_override"
    BY DEF Setters
  <2>5. /\ calls' \in Seq([call : Setters, url : Urls]) /\ calls' # <<>>
        /\ calls'[Len(calls')].call = "set_ws_url" /\ calls'[Len(calls')].url = url
        /\ Overrides' = Overrides /\ HttpUrl' = HttpUrl
        /\ WithPort' = WithPort /\ LastPort' = LastPort
    BY <2>3, <2>4, OneMoreCall
  <2>6. Latest(WithPort)' = Latest(WithPort) /\ Latest(Overrides)' = Latest(Overrides)
    BY <2>5 DEF Latest
  <2>7. text \in Texts
    BY <2>1, AssembledIsText
  <2>8. client' = [client EXCEPT !.ws_url = text]
    <3> HIDE DEF text
    <3> QED
      BY <2>2, <2>3 DEF URL!SetWsUrl
  <2>9. ClientType' /\ client'.ws_url = text /\ client'.url_override = client.url_override
        /\ client'.http_port_override = client.http_port_override
    <3> HIDE DEF text
    <3> QED
      BY <2>5, <2>6, <2>7, <2>8 DEF ClientType
  <2>10. ClientIsOfCalls'
    BY <2>5, <2>9 DEF ClientIsOfCalls
  <2> QED
    BY <2>9, <2>10
<1>4. ASSUME LookUpWsUrl, UNCHANGED calls
      PROVE  ClientInv'
  <2>1. UNCHANGED calls /\ client' = URL!AfterRealWsUrl(client, Defaults)
    BY <1>4 DEF LookUpWsUrl
  <2>2. /\ client' \in [url_override : Texts, http_port_override : URL!Ports \cup {"0"}, ws_url : Texts, use_tls : BOOLEAN]
        /\ client'.url_override = client.url_override /\ client'.ws_url = client.ws_url
        /\ client'.http_port_override = client.http_port_override
    BY <2>1 DEF URL!AfterRealWsUrl, URL!UsesTls, ClientType
  <2>3. /\ Overrides' = Overrides /\ WithPort' = WithPort /\ HttpUrl' = HttpUrl /\ LastPort' = LastPort
        /\ Latest(WithPort)' = Latest(WithPort) /\ Latest(Overrides)' = Latest(Overrides)
    BY <2>1 DEF Overrides, WithPort, HttpUrl, LastPort, Latest
  <2>4. WsUrlOf(HttpUrl)' = WsUrlOf(HttpUrl)
    BY <2>3 DEF WsUrlOf
  <2> QED
    BY <2>1, <2>2, <2>3, <2>4 DEF ClientType, ClientIsOfCalls
<1>5. ASSUME AskAny
      PROVE  UNCHANGED calls /\ (LookUpWsUrl \/ UNCHANGED client)
  BY <1>5 DEF AskAny, Ask
<1>6. UnsubscribeAll => LookUpWsUrl /\ UNCHANGED calls
  BY DEF UnsubscribeAll
<1> QED
  BY <1>1, <1>2, <1>3, <1>4, <1>5, <1>6 DEF NextClient, Configure, clientVars

\* With it, requests and subscriptions go where they should.
LEMMA ClientEndpoints == ClientInv => EndpointsAreOfLastUrl
<1> SUFFICES ASSUME ClientInv
             PROVE  EndpointsAreOfLastUrl
  OBVIOUS
<1> USE DEF ClientInv
<1>1. IsUrl(HttpUrl) /\ (WithPort # {} => LastPort \in URL!Ports) /\ IsUrl(DefaultUrl)
  BY HttpUrlIsUrl, UrlsAssumption
<1>2. URL!ParseUrl(URL!AssembleUrl(HttpUrl)) = HttpUrl
  BY <1>1, ParseAssembled
<1>3. IsUrl(WsUrlOf(HttpUrl)) /\ URL!ParseUrl(URL!AssembleUrl(WsUrlOf(HttpUrl))) = WsUrlOf(HttpUrl)
  BY <1>1, WsUrlIsUrl, ParseAssembled
<1>4. Overrides = {} => HttpUrl = DefaultUrl
  BY DEF HttpUrl
<1>5. URL!AssembleUrl(HttpUrl) # <<>> /\ URL!AssembleUrl(WsUrlOf(HttpUrl)) # <<>>
  BY <1>1, <1>3, AssembledIsText
<1>6. URL!RealUrl(client, Defaults) = URL!AssembleUrl(HttpUrl)
  BY <1>4, <1>5 DEF URL!RealUrl, Defaults, ClientIsOfCalls
<1>7. URL!RealHttpPort(client, Defaults) = LastPort
  <2>1. "0" \notin URL!Ports
    BY DEF URL!Ports
  <2>2. WithPort = {} => LastPort = HttpPort
    BY DEF LastPort
  <2> QED
    BY <2>1, <2>2, <1>1 DEF URL!RealHttpPort, Defaults, ClientIsOfCalls
<1>8. URL!HttpEndpoint(client, Defaults) = URL!Over(HttpUrl, [port |-> LastPort])
  BY <1>2, <1>6, <1>7 DEF URL!HttpEndpoint
<1>9. WsUrlOf(HttpUrl) = URL!Over([scheme |-> WsScheme, port |-> WsPort], HttpUrl)
  BY DEF WsUrlOf, WsScheme
<1>10. CASE calls = <<>>
  <2>1. URL!WsFromHttp(URL!AssembleUrl(HttpUrl), Defaults) = URL!AssembleUrl(WsUrlOf(HttpUrl))
    BY <1>1, <1>2, WsUrlIsUrl DEF URL!WsFromHttp
  <2>2. URL!RealWsUrl(client, Defaults) = URL!AssembleUrl(WsUrlOf(HttpUrl))
    BY <2>1, <1>6, <1>10 DEF URL!RealWsUrl, ClientIsOfCalls
  <2> QED
    BY <2>2, <1>3, <1>8, <1>9, <1>10 DEF EndpointsAreOfLastUrl, URL!WsEndpoint
<1>11. CASE calls # <<>> /\ calls[Len(calls)].call = "set_ws_url"
  <2> DEFINE u == calls[Len(calls)].url
  <2>1. u \in Urls
    <3> DEFINE C == [call : Setters, url : Urls]
    <3>1. calls \in Seq(C)
      BY DEF ClientType
    <3>2. calls[Len(calls)] \in C
      <4>1. Len(calls) \in 1 .. Len(calls)
        BY <3>1, <1>11, LenProperties, EmptySeq
      <4> HIDE DEF C
      <4> QED
        BY <3>1, <4>1, ElementOfSeq
    <3> QED
      BY <3>2
  <2>2. IsUrl(u)
    BY <2>1, UrlsAssumption
  <2>3. URL!ParseUrl(URL!AssembleUrl(u)) = u /\ URL!AssembleUrl(u) # <<>>
    BY <2>2, ParseAssembled, AssembledIsText
  <2>4. URL!RealWsUrl(client, Defaults) = URL!AssembleUrl(u)
    BY <2>3, <1>11 DEF URL!RealWsUrl, ClientIsOfCalls
  <2> QED
    BY <2>3, <2>4, <1>8, <1>11 DEF EndpointsAreOfLastUrl, URL!WsEndpoint
<1>12. CASE calls # <<>> /\ calls[Len(calls)].call # "set_ws_url"
  <2>1. URL!RealWsUrl(client, Defaults) = URL!AssembleUrl(WsUrlOf(HttpUrl))
    BY <1>5, <1>12 DEF URL!RealWsUrl, ClientIsOfCalls
  <2> QED
    BY <2>1, <1>3, <1>8, <1>9, <1>12 DEF EndpointsAreOfLastUrl, URL!WsEndpoint
<1> QED
  BY <1>10, <1>11, <1>12

\* After any history of its setters, with URLs of any length, a client asks at the
\* URL that was set last.  set_url_override, set_ws_url, get_real_ws_url.
THEOREM AsksTheNodeItWasTold == SpecClient => []EndpointsAreOfLastUrl
<1>1. SpecClient => []ClientInv
  BY ClientStarts, ClientStep, PTL DEF SpecClient
<1> QED
  BY <1>1, ClientEndpoints, PTL

-----------------------------------------------------------------------------
(* Natural numbers.                                                        *)

\* Induction up to N, for a set.
LEMMA UpTo ==
  ASSUME NEW N \in Nat, NEW T \in SUBSET (0 .. N), 0 \in T,
         \A n \in T : n < N => n + 1 \in T
  PROVE  T = 0 .. N
<1> SUFFICES ASSUME (0 .. N) \ T # {}
             PROVE  FALSE
  OBVIOUS
<1> DEFINE R == (0 .. N) \ T
           Less == OpToRel(<, Nat)
<1>1. R \in SUBSET Nat /\ R # {}
  OBVIOUS
<1>2. \A x, y \in Nat : x < y => <<x, y>> \in Less
  BY DEF OpToRel
<1>3. IsWellFoundedOn(Less, Nat)
  BY NatLessThanWellFounded
<1>4. \E x \in R : \A y \in R : <<y, x>> \notin Less
  <2> HIDE DEF R, Less
  <2> QED
    BY <1>1, <1>3, WFMin
<1>5. PICK x \in R : \A y \in R : <<y, x>> \notin Less
  BY <1>4
<1> HIDE DEF Less
<1>6. x # 0 /\ x - 1 \in 0 .. N /\ x \in Nat /\ x - 1 \in Nat /\ x - 1 < x
  BY <1>5
<1>7. x - 1 \in T
  BY <1>2, <1>5, <1>6
<1> QED
  BY <1>5, <1>6, <1>7

-----------------------------------------------------------------------------
(* The loops over the steps of a method.                                   *)

\* The parameters after each step are a function that exists.
LEMMA ParamsIsLoop ==
  ASSUME NEW method, NEW set, NEW given, Len(method.steps) \in Nat
  PROVE  \E f : /\ f = [n \in 0 .. Len(method.steps) |->
                          IF n = 0 THEN <<>> ELSE RPC!After(f[n - 1], method.steps[n], set, given)]
                /\ RPC!Params(method, set, given) = f[Len(method.steps)]
<1> DEFINE N == Len(method.steps)
           Upto(f, m) == f = [n \in 0 .. m |->
                                IF n = 0 THEN <<>> ELSE RPC!After(f[n - 1], method.steps[n], set, given)]
           T == {m \in 0 .. N : \E f : Upto(f, m)}
<1>1. N \in Nat
  OBVIOUS
<1>2. 0 \in T
  <2> DEFINE g == [n \in 0 .. 0 |-> <<>>]
  <2>1. Upto(g, 0)
    OBVIOUS
  <2> HIDE DEF Upto
  <2> QED
    BY <2>1, <1>1
<1>3. ASSUME NEW m \in T, m < N
      PROVE  m + 1 \in T
  <2>1. PICK f : Upto(f, m)
    OBVIOUS
  <2> DEFINE g == [n \in 0 .. (m + 1) |->
                     IF n = m + 1 THEN RPC!After(f[n - 1], method.steps[n], set, given) ELSE f[n]]
  <2>2. m \in Nat /\ m + 1 \in 0 .. N
    BY <1>1, <1>3
  <2>3. ASSUME NEW n \in 0 .. (m + 1)
        PROVE  g[n] = IF n = 0 THEN <<>> ELSE RPC!After(g[n - 1], method.steps[n], set, given)
    <3>1. CASE n = m + 1
      <4>1. n # 0 /\ n - 1 \in 0 .. (m + 1) /\ n - 1 # m + 1
        BY <2>2, <3>1
      <4>2. g[n - 1] = f[n - 1]
        BY <4>1
      <4>3. g[n] = RPC!After(f[n - 1], method.steps[n], set, given)
        BY <3>1
      <4> QED
        BY <4>1, <4>2, <4>3
    <3>2. CASE n # m + 1
      <4>1. n \in 0 .. m /\ g[n] = f[n]
        BY <2>2, <3>2
      <4>2. f[n] = IF n = 0 THEN <<>> ELSE RPC!After(f[n - 1], method.steps[n], set, given)
        BY <2>1, <4>1
      <4>3. n # 0 => n - 1 \in 0 .. (m + 1) /\ n - 1 # m + 1
        BY <2>2, <4>1
      <4>4. n # 0 => g[n - 1] = f[n - 1]
        BY <4>3
      <4> QED
        BY <4>1, <4>2, <4>4
    <3> QED
      BY <3>1, <3>2
  <2>4. Upto(g, m + 1)
    <3> DEFINE h == [n \in 0 .. (m + 1) |->
                       IF n = 0 THEN <<>> ELSE RPC!After(g[n - 1], method.steps[n], set, given)]
    <3>1. \A n \in 0 .. (m + 1) : g[n] = h[n]
      BY <2>3
    <3>2. g = [n \in 0 .. (m + 1) |-> g[n]] /\ h = [n \in 0 .. (m + 1) |-> h[n]]
      OBVIOUS
    <3>3. g = h
      <4> HIDE DEF g, h
      <4> QED
        BY <3>1, <3>2
    <3> QED
      BY <3>3
  <2> HIDE DEF Upto, g
  <2> QED
    BY <2>2, <2>4
<1>4. T = 0 .. N
  <2> HIDE DEF T, N
  <2>1. T \in SUBSET (0 .. N)
    BY DEF T
  <2> QED
    BY <1>1, <1>2, <1>3, <2>1, UpTo
<1>5. \E f : Upto(f, N)
  <2>1. N \in T
    BY <1>1, <1>4
  <2> HIDE DEF Upto
  <2> QED
    BY <2>1
<1> DEFINE c == CHOOSE f : Upto(f, N)
<1>6. Upto(c, N)
  <2> HIDE DEF Upto
  <2> QED
    BY <1>5
<1>7. RPC!Params(method, set, given) = c[N]
  BY DEF RPC!Params
<1> HIDE DEF c
<1> QED
  BY <1>6, <1>7

\* What a step makes of the arguments.
ArgumentsAfter(arguments, method, n, set, given) ==
  IF n \in Taken(method, set, given, "append") THEN Append(arguments, RPC!Argument(method.steps[n].of))
  ELSE arguments

\* The arguments so far are a function that exists, too.
LEMMA ArgumentsIsLoop ==
  ASSUME NEW method, NEW set, NEW given, Len(method.steps) \in Nat
  PROVE  \E f : /\ f = [n \in 0 .. Len(method.steps) |->
                          IF n = 0 THEN <<>> ELSE ArgumentsAfter(f[n - 1], method, n, set, given)]
                /\ Arguments(method, set, given) = f[Len(method.steps)]
<1> DEFINE N == Len(method.steps)
           Upto(f, m) == f = [n \in 0 .. m |->
                                IF n = 0 THEN <<>> ELSE ArgumentsAfter(f[n - 1], method, n, set, given)]
           T == {m \in 0 .. N : \E f : Upto(f, m)}
<1>1. N \in Nat
  OBVIOUS
<1>2. 0 \in T
  <2> DEFINE g == [n \in 0 .. 0 |-> <<>>]
  <2>1. Upto(g, 0)
    OBVIOUS
  <2> HIDE DEF Upto
  <2> QED
    BY <2>1, <1>1
<1>3. ASSUME NEW m \in T, m < N
      PROVE  m + 1 \in T
  <2>1. PICK f : Upto(f, m)
    OBVIOUS
  <2> DEFINE g == [n \in 0 .. (m + 1) |->
                     IF n = m + 1 THEN ArgumentsAfter(f[n - 1], method, n, set, given) ELSE f[n]]
  <2>2. m \in Nat /\ m + 1 \in 0 .. N
    BY <1>1, <1>3
  <2>3. ASSUME NEW n \in 0 .. (m + 1)
        PROVE  g[n] = IF n = 0 THEN <<>> ELSE ArgumentsAfter(g[n - 1], method, n, set, given)
    <3>1. CASE n = m + 1
      <4>1. n # 0 /\ n - 1 \in 0 .. (m + 1) /\ n - 1 # m + 1
        BY <2>2, <3>1
      <4>2. g[n - 1] = f[n - 1]
        BY <4>1
      <4>3. g[n] = ArgumentsAfter(f[n - 1], method, n, set, given)
        BY <3>1
      <4> QED
        BY <4>1, <4>2, <4>3
    <3>2. CASE n # m + 1
      <4>1. n \in 0 .. m /\ g[n] = f[n]
        BY <2>2, <3>2
      <4>2. f[n] = IF n = 0 THEN <<>> ELSE ArgumentsAfter(f[n - 1], method, n, set, given)
        BY <2>1, <4>1
      <4>3. n # 0 => n - 1 \in 0 .. (m + 1) /\ n - 1 # m + 1
        BY <2>2, <4>1
      <4>4. n # 0 => g[n - 1] = f[n - 1]
        BY <4>3
      <4> QED
        BY <4>1, <4>2, <4>4
    <3> QED
      BY <3>1, <3>2
  <2>4. Upto(g, m + 1)
    <3> DEFINE h == [n \in 0 .. (m + 1) |->
                       IF n = 0 THEN <<>> ELSE ArgumentsAfter(g[n - 1], method, n, set, given)]
    <3>1. \A n \in 0 .. (m + 1) : g[n] = h[n]
      BY <2>3
    <3>2. g = [n \in 0 .. (m + 1) |-> g[n]] /\ h = [n \in 0 .. (m + 1) |-> h[n]]
      OBVIOUS
    <3>3. g = h
      <4> HIDE DEF g, h
      <4> QED
        BY <3>1, <3>2
    <3> QED
      BY <3>3
  <2> HIDE DEF Upto, g
  <2> QED
    BY <2>2, <2>4
<1>4. T = 0 .. N
  <2> HIDE DEF T, N
  <2>1. T \in SUBSET (0 .. N)
    BY DEF T
  <2> QED
    BY <1>1, <1>2, <1>3, <2>1, UpTo
<1>5. \E f : Upto(f, N)
  <2>1. N \in T
    BY <1>1, <1>4
  <2> HIDE DEF Upto
  <2> QED
    BY <2>1
<1> DEFINE c == CHOOSE f : Upto(f, N)
<1>6. Upto(c, N)
  <2> HIDE DEF Upto
  <2> QED
    BY <1>5
<1>7. Arguments(method, set, given) = c[N]
  BY DEF Arguments, ArgumentsAfter
<1> HIDE DEF c
<1> QED
  BY <1>6, <1>7

-----------------------------------------------------------------------------
(* Parameters: arguments, and a Dictionary behind them.                    *)

Dictionary(f) == <<RPC!Table(f)>>

\* With one entry, and with one more.
Just(key, value) == [k \in {key} |-> value]
LongerBy(f, key, value) == [k \in DOMAIN f \cup {key} |-> IF k = key THEN value ELSE f[k]]

OnlyArguments(s) == \A i \in DOMAIN s : s[i].kind = "argument"

\* An option is added behind arguments, in a Dictionary of its own.
LEMMA AddsTable ==
  ASSUME NEW X, NEW s \in Seq(X), OnlyArguments(s), NEW key, NEW value
  PROVE  RPC!AddToParamDict(s, key, value) = s \o Dictionary(Just(key, value))
<1> DEFINE t == RPC!Table(Just(key, value))
<1>1. s # <<>> => RPC!Last(s).kind # "table"
  <2> SUFFICES ASSUME s # <<>>
               PROVE  s[Len(s)].kind # "table"
    BY DEF RPC!Last
  <2>1. Len(s) \in DOMAIN s
    BY EmptySeq, LenProperties
  <2> QED
    BY <2>1 DEF OnlyArguments
<1>2. RPC!AddToParamDict(s, key, value) = Append(s, t)
  BY <1>1 DEF RPC!AddToParamDict, Just
<1>3. s \in Seq(X \cup {t}) /\ t \in X \cup {t}
  <2> HIDE DEF t
  <2> QED
    OBVIOUS
<1>4. Append(s, t) = s \o <<t>>
  <2> HIDE DEF t
  <2> QED
    BY <1>3, AppendIsConcat
<1> QED
  BY <1>2, <1>4 DEF Dictionary

\* Another is added to it.
LEMMA AddsEntry ==
  ASSUME NEW X, NEW s \in Seq(X), NEW f, NEW key, NEW value
  PROVE  RPC!AddToParamDict(s \o Dictionary(f), key, value) = s \o Dictionary(LongerBy(f, key, value))
<1> DEFINE t == RPC!Table(f)
           r == RPC!Table(LongerBy(f, key, value))
           Y == X \cup {t, r}
           p == s \o <<t>>
           q == s \o <<r>>
<1>1. t.kind = "table" /\ [t EXCEPT !.entries = LongerBy(f, key, value)] = r /\ t.entries = f
  BY DEF RPC!Table
<1> HIDE DEF t, r
<1>2. s \in Seq(Y) /\ Len(s) \in Nat /\ <<t>> \in Seq(Y) /\ <<r>> \in Seq(Y) /\ Len(<<t>>) = 1 /\ Len(<<r>>) = 1
      /\ <<t>>[1] = t /\ <<r>>[1] = r
  BY LenProperties
<1>3. /\ p \in Seq(Y) /\ Len(p) = Len(s) + 1
      /\ \A i \in 1 .. Len(s) + 1 : p[i] = IF i <= Len(s) THEN s[i] ELSE <<t>>[i - Len(s)]
  <2> HIDE DEF Y
  <2> QED
    BY <1>2, ConcatProperties
<1>4. /\ q \in Seq(Y) /\ Len(q) = Len(s) + 1
      /\ \A i \in 1 .. Len(s) + 1 : q[i] = IF i <= Len(s) THEN s[i] ELSE <<r>>[i - Len(s)]
  <2> HIDE DEF Y
  <2> QED
    BY <1>2, ConcatProperties
<1> HIDE DEF p, q, Y
<1>5. /\ Len(s) + 1 \in 1 .. Len(s) + 1 /\ ~(Len(s) + 1 <= Len(s)) /\ (Len(s) + 1) - Len(s) = 1
      /\ \A i \in 1 .. Len(s) + 1 : i <= Len(s) \/ i = Len(s) + 1
  BY <1>2
<1>6. p[Len(s) + 1] = t /\ q[Len(s) + 1] = r /\ \A i \in 1 .. Len(s) : p[i] = s[i] /\ q[i] = s[i]
  <2>1. p[Len(s) + 1] = <<t>>[1] /\ q[Len(s) + 1] = <<r>>[1]
    BY <1>3, <1>4, <1>5
  <2>2. \A i \in 1 .. Len(s) : i \in 1 .. Len(s) + 1 /\ i <= Len(s)
    BY <1>2
  <2>3. \A i \in 1 .. Len(s) : p[i] = s[i] /\ q[i] = s[i]
    BY <1>3, <1>4, <2>2
  <2> QED
    BY <1>2, <2>1, <2>3
<1>7. p # <<>> /\ DOMAIN p = 1 .. Len(s) + 1 /\ DOMAIN q = 1 .. Len(s) + 1
  BY <1>2, <1>3, <1>4, LenProperties, EmptySeq
<1>8. RPC!Last(p) = t
  BY <1>3, <1>6 DEF RPC!Last
<1>9. RPC!AddToParamDict(p, key, value) = [p EXCEPT ![Len(s) + 1] = r]
  <2>1. RPC!AddToParamDict(p, key, value) =
          [p EXCEPT ![Len(p)].entries = [k \in DOMAIN @ \cup {key} |-> IF k = key THEN value ELSE @[k]]]
    BY <1>1, <1>7, <1>8 DEF RPC!AddToParamDict
  <2>2. [p EXCEPT ![Len(p)].entries = [k \in DOMAIN @ \cup {key} |-> IF k = key THEN value ELSE @[k]]]
          = [p EXCEPT ![Len(p)] = [t EXCEPT !.entries = LongerBy(f, key, value)]]
    BY <1>1, <1>3, <1>6, <1>7 DEF LongerBy
  <2> QED
    BY <2>1, <2>2, <1>1, <1>3
<1>10. [p EXCEPT ![Len(s) + 1] = r] = q
  <2> DEFINE e == [p EXCEPT ![Len(s) + 1] = r]
  <2>1. DOMAIN e = 1 .. Len(s) + 1 /\ \A i \in 1 .. Len(s) + 1 : e[i] = IF i = Len(s) + 1 THEN r ELSE p[i]
    BY <1>7
  <2>2. \A i \in 1 .. Len(s) + 1 : e[i] = q[i]
    <3> HIDE DEF e
    <3> SUFFICES ASSUME NEW i \in 1 .. Len(s) + 1
                 PROVE  e[i] = q[i]
      OBVIOUS
    <3>1. CASE i = Len(s) + 1
      BY <3>1, <2>1, <1>6
    <3>2. CASE i # Len(s) + 1
      <4>1. i \in 1 .. Len(s)
        BY <3>2, <1>2
      <4> QED
        BY <4>1, <3>2, <2>1, <1>6
    <3> QED
      BY <3>1, <3>2
  <2>3. e = [i \in 1 .. Len(s) + 1 |-> e[i]]
    BY <1>7
  <2>4. q = [i \in 1 .. Len(s) + 1 |-> q[i]]
    BY <1>4, <1>7, SeqDef
  <2> HIDE DEF e
  <2>5. e = q
    BY <2>2, <2>3, <2>4
  <2> QED
    BY <2>5 DEF e
<1>11. s \o Dictionary(f) = p /\ s \o Dictionary(LongerBy(f, key, value)) = q
  BY DEF Dictionary, p, q, t, r
<1> QED
  BY <1>9, <1>10, <1>11

\* The filter is inserted between the one argument and what is behind it.
LEMMA InsertsSecond ==
  ASSUME NEW X, NEW s \in Seq(X), Len(s) = 1, NEW o \in Seq(X), NEW t \in X
  PROVE  RPC!InsertAt(s \o o, 2, t) = (s \o <<t>>) \o o
<1> DEFINE p == s \o o
<1>1. Len(o) \in Nat /\ Len(s) = 1 /\ DOMAIN s = 1 .. 1 /\ DOMAIN o = 1 .. Len(o)
  BY LenProperties
<1>2. /\ p \in Seq(X) /\ Len(p) = 1 + Len(o)
      /\ \A i \in 1 .. 1 + Len(o) : p[i] = IF i <= 1 THEN s[i] ELSE o[i - 1]
  BY ConcatProperties
<1> HIDE DEF p
<1>6. \A i \in 1 .. Len(p) : p[i] \in X
  BY <1>2, ElementOfSeq
<1>3. SubSeq(p, 1, 1) = s
  <2>1. \A i \in 1 .. 1 : p[i] \in X /\ i \in 1 .. 1 + Len(o) /\ i <= 1
    BY <1>1, <1>2, <1>6
  <2>2. /\ SubSeq(p, 1, 1) \in Seq(X) /\ Len(SubSeq(p, 1, 1)) = IF 1 <= 1 THEN 1 - 1 + 1 ELSE 0
        /\ \A i \in 1 .. 1 - 1 + 1 : SubSeq(p, 1, 1)[i] = p[1 + i - 1]
    BY <2>1, SubSeqProperties
  <2>3. Len(SubSeq(p, 1, 1)) = Len(s)
    BY <2>2, <1>1
  <2>4. \A i \in 1 .. Len(s) : SubSeq(p, 1, 1)[i] = s[i]
    <3> SUFFICES ASSUME NEW i \in 1 .. Len(s)
                 PROVE  SubSeq(p, 1, 1)[i] = s[i]
      OBVIOUS
    <3>1. i \in 1 .. 1 - 1 + 1 /\ 1 + i - 1 = i /\ i \in 1 .. 1
      BY <1>1
    <3> QED
      BY <3>1, <2>1, <2>2, <1>2
  <2> QED
    BY <2>2, <2>3, <2>4, SeqEqual
<1>4. SubSeq(p, 2, Len(p)) = o
  <2>1. Len(p) \in Int /\ \A i \in 2 .. Len(p) : p[i] \in X
    BY <1>1, <1>2, <1>6
  <2>2. /\ SubSeq(p, 2, Len(p)) \in Seq(X) /\ Len(SubSeq(p, 2, Len(p))) = IF 2 <= Len(p) THEN Len(p) - 2 + 1 ELSE 0
        /\ \A i \in 1 .. Len(p) - 2 + 1 : SubSeq(p, 2, Len(p))[i] = p[2 + i - 1]
    BY <2>1, SubSeqProperties
  <2>3. Len(SubSeq(p, 2, Len(p))) = Len(o)
    BY <2>2, <1>1, <1>2
  <2>4. \A i \in 1 .. Len(o) : SubSeq(p, 2, Len(p))[i] = o[i]
    <3> SUFFICES ASSUME NEW i \in 1 .. Len(o)
                 PROVE  SubSeq(p, 2, Len(p))[i] = o[i]
      OBVIOUS
    <3>1. /\ i \in 1 .. Len(p) - 2 + 1 /\ 2 + i - 1 = i + 1 /\ i + 1 \in 1 .. 1 + Len(o)
          /\ ~(i + 1 <= 1) /\ (i + 1) - 1 = i
      BY <1>1, <1>2
    <3>2. p[i + 1] = o[i]
      BY <3>1, <1>2
    <3> QED
      BY <3>1, <3>2, <2>2
  <2> QED
    BY <2>2, <2>3, <2>4, SeqEqual
<1>5. RPC!InsertAt(p, 2, t) = (SubSeq(p, 1, 1) \o <<t>>) \o SubSeq(p, 2, Len(p))
  <2>1. 2 - 1 = 1
    OBVIOUS
  <2>2. RPC!InsertAt(p, 2, t) = (SubSeq(p, 1, 2 - 1) \o <<t>>) \o SubSeq(p, 2, Len(p))
    BY DEF RPC!InsertAt
  <2> QED
    BY <2>1, <2>2
<1>7. RPC!InsertAt(p, 2, t) = (s \o <<t>>) \o o
  BY <1>3, <1>4, <1>5
<1> QED
  BY <1>7 DEF p

-----------------------------------------------------------------------------
(* Methods whose arguments are in front of their options.                  *)

\* p arguments, options of different names up to q, and the filter of the token
\* account queries, which is then behind the one argument.
WellPlaced(method, p, q) ==
  /\ Len(method.steps) \in Nat /\ DOMAIN method.steps = 1 .. Len(method.steps)
  /\ p \in Nat /\ q \in Nat /\ p <= q /\ q <= Len(method.steps)
  /\ \A i \in 1 .. p : method.steps[i].do = "append"
  /\ \A i \in p + 1 .. q : method.steps[i].do = "option"
  /\ \A i, j \in p + 1 .. q : method.steps[i].key = method.steps[j].key => i = j
  /\ \A i \in q + 1 .. Len(method.steps) :
       /\ i = Len(method.steps) /\ p = 1 /\ method.steps[1].when = "always"
       /\ method.steps[i].do = "insert second" /\ method.steps[i].when = "always"

\* The options of some steps, in the Dictionary they are in.
OptionsIn(method, set, options) ==
  IF options = {} THEN <<>> ELSE Dictionary(OptionTable(method, set, options))

\* Options of different names.
OwnKeys(method, options) ==
  \A i, j \in options : method.steps[i].key = method.steps[j].key => i = j

\* n is one option more.
Added(method, set, options, n) ==
  LET key == method.steps[n].key
      value == RPC!ValueOf(method.steps[n].of, set)
  IN /\ OptionTable(method, set, options \cup {n}) = LongerBy(OptionTable(method, set, options), key, value)
     /\ OptionTable(method, set, {n}) = Just(key, value)

\* One option more.
LEMMA OneMoreOption ==
  ASSUME NEW method, NEW set, NEW options, NEW n, OwnKeys(method, options \cup {n})
  PROVE  Added(method, set, options, n)
<1> DEFINE key == method.steps[n].key
           value == RPC!ValueOf(method.steps[n].of, set)
           KeysOf(S) == {method.steps[i].key : i \in S}
           At(S, k) == CHOOSE i \in S : method.steps[i].key = k
           ValueAt(S, k) == RPC!ValueOf(method.steps[At(S, k)].of, set)
           more == options \cup {n}
<1>1. ASSUME NEW S, S \subseteq more, NEW i \in S
      PROVE  At(S, method.steps[i].key) = i
  <2>1. \A j \in S : method.steps[j].key = method.steps[i].key => j = i
    BY <1>1 DEF OwnKeys
  <2> QED
    BY <1>1, <2>1
<1>2. KeysOf(more) = KeysOf(options) \cup {key} /\ KeysOf({n}) = {key}
  OBVIOUS
<1>3. \A S : OptionTable(method, set, S) = [k \in KeysOf(S) |-> ValueAt(S, k)]
  BY DEF OptionTable
<1>4. ValueAt(more, key) = value /\ ValueAt({n}, key) = value
  <2>1. At(more, key) = n /\ At({n}, key) = n
    <3> HIDE DEF At
    <3> QED
      BY <1>1
  <2> HIDE DEF At
  <2> QED
    BY <2>1
<1>5. ASSUME NEW k \in KeysOf(options)
      PROVE  ValueAt(more, k) = IF k = key THEN value ELSE ValueAt(options, k)
  <2>1. PICK i \in options : k = method.steps[i].key
    OBVIOUS
  <2>2. At(more, k) = i /\ At(options, k) = i
    <3> HIDE DEF At
    <3> QED
      BY <1>1, <2>1
  <2> HIDE DEF At, KeysOf
  <2> QED
    BY <1>4, <2>2
<1>6. OptionTable(method, set, {n}) = Just(key, value)
  <2>1. \A k \in {key} : ValueAt({n}, k) = value
    <3> HIDE DEF ValueAt, value
    <3> QED
      BY <1>4
  <2>2. OptionTable(method, set, {n}) = [k \in {key} |-> ValueAt({n}, k)]
    <3> HIDE DEF ValueAt, KeysOf
    <3> QED
      BY <1>2, <1>3
  <2> HIDE DEF ValueAt, KeysOf, value, key
  <2> QED
    BY <2>1, <2>2 DEF Just
<1>7. OptionTable(method, set, more) = LongerBy(OptionTable(method, set, options), key, value)
  <2> DEFINE f == OptionTable(method, set, options)
  <2>1. DOMAIN f = KeysOf(options) /\ \A k \in KeysOf(options) : f[k] = ValueAt(options, k)
    <3> HIDE DEF ValueAt, KeysOf
    <3> QED
      BY <1>3
  <2>2. \A k \in KeysOf(options) \cup {key} : ValueAt(more, k) = IF k = key THEN value ELSE f[k]
    <3> HIDE DEF ValueAt, KeysOf, f
    <3> QED
      BY <1>4, <1>5, <2>1
  <2>3. OptionTable(method, set, more) = [k \in KeysOf(options) \cup {key} |-> ValueAt(more, k)]
    <3> HIDE DEF ValueAt, KeysOf
    <3> QED
      BY <1>2, <1>3
  <2>4. LongerBy(f, key, value) = [k \in KeysOf(options) \cup {key} |-> IF k = key THEN value ELSE f[k]]
    <3> HIDE DEF KeysOf, f
    <3> QED
      BY <2>1 DEF LongerBy
  <2> HIDE DEF ValueAt, KeysOf, f
  <2> QED
    BY <2>2, <2>3, <2>4 DEF f
<1> QED
  BY <1>6, <1>7 DEF Added

\* What the loops of a method run through.
ParamsLoop(f, method, set, given) ==
  f = [n \in 0 .. Len(method.steps) |->
         IF n = 0 THEN <<>> ELSE RPC!After(f[n - 1], method.steps[n], set, given)]
ArgumentsLoop(g, method, set, given) ==
  g = [n \in 0 .. Len(method.steps) |->
         IF n = 0 THEN <<>> ELSE ArgumentsAfter(g[n - 1], method, n, set, given)]

\* After n steps the parameters are the arguments and the options of them.
SoFar(f, g, method, p, set, given, n) ==
  /\ g[n] \in Seq({RPC!Argument(method.steps[i].of) : i \in 1 .. Len(method.steps)})
  /\ f[n] = g[n] \o OptionsIn(method, set, Taken(method, set, given, "option") \cap (1 .. n))
  /\ p = 1 /\ method.steps[1].when = "always" /\ 1 <= n => Len(g[n]) = 1

\* The parameters after the arguments and the options.
LEMMA ParamsSoFar ==
  ASSUME NEW method, NEW p, NEW q, WellPlaced(method, p, q), NEW set, NEW given,
         NEW f, ParamsLoop(f, method, set, given), NEW g, ArgumentsLoop(g, method, set, given)
  PROVE  \A n \in 0 .. q : SoFar(f, g, method, p, set, given, n)
<1> DEFINE N == Len(method.steps)
           X == {RPC!Argument(method.steps[i].of) : i \in 1 .. N}
           options == Taken(method, set, given, "option")
           O(n) == options \cap (1 .. n)
           Done(n) == /\ g[n] \in Seq(X)
                      /\ f[n] = g[n] \o OptionsIn(method, set, O(n))
                      /\ p = 1 /\ method.steps[1].when = "always" /\ 1 <= n => Len(g[n]) = 1
           T == {n \in 0 .. q : Done(n)}
<1>1. N \in Nat /\ p \in Nat /\ q \in Nat /\ p <= q /\ q <= N /\ DOMAIN method.steps = 1 .. N
  BY DEF WellPlaced
<1>2. f[0] = <<>> /\ g[0] = <<>>
  BY <1>1 DEF ParamsLoop, ArgumentsLoop
<1>3. \A n \in 1 .. N : /\ f[n] = RPC!After(f[n - 1], method.steps[n], set, given)
                        /\ g[n] = ArgumentsAfter(g[n - 1], method, n, set, given)
  <2> SUFFICES ASSUME NEW n \in 1 .. N
               PROVE  /\ f[n] = RPC!After(f[n - 1], method.steps[n], set, given)
                      /\ g[n] = ArgumentsAfter(g[n - 1], method, n, set, given)
    OBVIOUS
  <2>1. n \in 0 .. N /\ n # 0
    BY <1>1
  <2>2. f[n] = RPC!After(f[n - 1], method.steps[n], set, given)
    BY <2>1 DEF ParamsLoop
  <2>3. g[n] = ArgumentsAfter(g[n - 1], method, n, set, given)
    BY <2>1 DEF ArgumentsLoop
  <2> QED
    BY <2>2, <2>3
<1>4. \A x \in X : x.kind = "argument"
  BY DEF RPC!Argument
<1>5. 0 \in T
  <2>1. O(0) = {}
    OBVIOUS
  <2>2. OptionsIn(method, set, O(0)) = <<>>
    BY <2>1 DEF OptionsIn
  <2>3. <<>> \in Seq(X) /\ <<>> \o <<>> = <<>>
    <3> HIDE DEF X
    <3> QED
      BY ConcatEmptySeq
  <2>4. Done(0)
    <3> HIDE DEF X, O
    <3> QED
      BY <1>2, <2>2, <2>3
  <2> HIDE DEF Done
  <2> QED
    BY <1>1, <2>4
<1>6. ASSUME NEW n \in T, n < q
      PROVE  n + 1 \in T
  <2> DEFINE m == n + 1
             step == method.steps[m]
             applies == RPC!Applies(step, set, given)
             s == g[n]
             b == OptionsIn(method, set, O(n))
  <2>1. n \in Nat /\ m \in 1 .. N /\ m - 1 = n /\ m \in 0 .. q /\ m \in 1 .. q /\ m \in DOMAIN method.steps
    BY <1>1, <1>6
  <2>2. f[m] = RPC!After(f[n], step, set, given) /\ g[m] = ArgumentsAfter(g[n], method, m, set, given)
    BY <1>3, <2>1
  <2>3. s \in Seq(X) /\ f[n] = s \o b /\ (p = 1 /\ method.steps[1].when = "always" /\ 1 <= n => Len(s) = 1)
    OBVIOUS
  <2>4. step.do = IF m <= p THEN "append" ELSE "option"
    <3>1. m <= p => m \in 1 .. p
      BY <1>1, <2>1
    <3>2. ~(m <= p) => m \in p + 1 .. q
      BY <1>1, <2>1
    <3> HIDE DEF m
    <3> QED
      BY <3>1, <3>2 DEF WellPlaced
  <2>5. m \in options <=> m > p /\ applies
    BY <1>1, <2>1, <2>4 DEF Taken
  <2>6. m \in Taken(method, set, given, "append") <=> m <= p /\ applies
    BY <1>1, <2>1, <2>4 DEF Taken
  <2>7. O(m) = IF m \in options THEN O(n) \cup {m} ELSE O(n)
    BY <2>1
  <2>8. \A i \in options : i \in 1 .. N /\ method.steps[i].do = "option" /\ i > p
    <3> SUFFICES ASSUME NEW i \in options
                 PROVE  i \in 1 .. N /\ method.steps[i].do = "option" /\ i > p
      OBVIOUS
    <3>1. i \in 1 .. N /\ method.steps[i].do = "option"
      BY <1>1 DEF Taken
    <3>2. i \notin 1 .. p
      BY <3>1 DEF WellPlaced
    <3> QED
      BY <1>1, <3>1, <3>2
  <2>9. OnlyArguments(s)
    <3> HIDE DEF X
    <3> QED
      BY <1>4, <2>3, ElementOfSeq, LenProperties DEF OnlyArguments
  <2>10. Len(g[m]) = 1 \/ ~(p = 1 /\ method.steps[1].when = "always" /\ 1 <= m)
    <3> SUFFICES ASSUME p = 1, method.steps[1].when = "always"
                 PROVE  Len(g[m]) = 1
      OBVIOUS
    <3>1. CASE n = 0
      <4>1. applies /\ m <= p /\ m = 1
        <5>1. m = 1 /\ m <= p
          BY <3>1
        <5>2. step.when = "always"
          BY <5>1
        <5> QED
          BY <5>1, <5>2 DEF RPC!Applies
      <4>2. g[m] = Append(<<>>, RPC!Argument(step.of))
        BY <1>2, <2>2, <2>6, <3>1, <4>1 DEF ArgumentsAfter
      <4> DEFINE a == RPC!Argument(step.of)
      <4>3. Len(Append(<<>>, a)) = 1
        <5> HIDE DEF a
        <5>1. <<>> \in Seq({a}) /\ Len(<<>>) = 0
          BY EmptySeq
        <5> QED
          BY <5>1, AppendProperties
      <4> QED
        BY <4>2, <4>3
    <3>2. CASE n # 0
      <4>1. Len(s) = 1 /\ ~(m <= p)
        BY <2>1, <2>3, <3>2
      <4>2. g[m] = s
        BY <2>2, <2>6, <4>1 DEF ArgumentsAfter
      <4> QED
        BY <4>1, <4>2
    <3> QED
      BY <3>1, <3>2
  <2>11. CASE ~applies
    <3>1. g[m] = s /\ O(m) = O(n)
      BY <2>2, <2>5, <2>6, <2>7, <2>11 DEF ArgumentsAfter
    <3>2. f[m] = f[n]
      BY <2>2, <2>11 DEF RPC!After
    <3>3. Done(m)
      <4> HIDE DEF X, O
      <4> QED
        BY <2>3, <2>10, <3>1, <3>2
    <3> HIDE DEF Done
    <3> QED
      BY <2>1, <3>3
  <2>12. CASE applies /\ m <= p
    <3> DEFINE a == RPC!Argument(step.of)
    <3>1. g[m] = Append(s, a)
      BY <2>2, <2>6, <2>12 DEF ArgumentsAfter
    <3>2. O(n) = {} /\ O(m) = {}
      <4>1. \A i \in 1 .. n : i \notin options
        BY <1>1, <2>1, <2>8, <2>12
      <4>2. m \notin options
        BY <1>1, <2>1, <2>5, <2>12
      <4>3. O(n) = {}
        BY <4>1
      <4> QED
        BY <2>7, <4>2, <4>3
    <3>3. b = <<>> /\ OptionsIn(method, set, O(m)) = <<>>
      BY <3>2 DEF OptionsIn
    <3>4. f[m] = Append(f[n], a)
      BY <2>2, <2>4, <2>12 DEF RPC!After
    <3>5. a \in X
      BY <2>1
    <3>6. s \o <<>> = s /\ Append(s, a) \in Seq(X) /\ Append(s, a) \o <<>> = Append(s, a)
      <4> HIDE DEF X, a
      <4>1. Append(s, a) \in Seq(X)
        BY <2>3, <3>5, AppendProperties
      <4> QED
        BY <2>3, <4>1, ConcatEmptySeq
    <3>7. Done(m)
      <4> HIDE DEF X, O
      <4> QED
        BY <2>3, <2>10, <3>1, <3>3, <3>4, <3>6
    <3> HIDE DEF Done
    <3> QED
      BY <2>1, <3>7
  <2>13. CASE applies /\ m > p
    <3> DEFINE key == step.key
               value == RPC!ValueOf(step.of, set)
               F == OptionTable(method, set, O(n))
    <3>1. g[m] = s
      <4>1. ~(m <= p)
        BY <1>1, <2>1, <2>13
      <4> QED
        BY <2>2, <2>6, <4>1 DEF ArgumentsAfter
    <3>2. O(m) = O(n) \cup {m}
      BY <2>5, <2>7, <2>13
    <3>3. f[m] = RPC!AddToParamDict(s \o b, key, value)
      <4>1. step.do = "option"
        BY <1>1, <2>1, <2>4, <2>13
      <4> QED
        BY <2>2, <2>3, <2>13, <4>1 DEF RPC!After
    <3>4. OwnKeys(method, O(n) \cup {m})
      <4>1. \A i \in O(n) \cup {m} : i \in p + 1 .. q
        BY <1>1, <2>1, <2>8, <2>13
      <4> QED
        BY <4>1 DEF WellPlaced, OwnKeys
    <3>5. /\ OptionTable(method, set, O(n) \cup {m}) = LongerBy(F, key, value)
          /\ OptionTable(method, set, {m}) = Just(key, value)
      <4>1. Added(method, set, O(n), m)
        BY <3>4, OneMoreOption
      <4> HIDE DEF O, m
      <4> QED
        BY <4>1 DEF Added
    <3>6. CASE O(n) = {}
      <4>1. b = <<>> /\ s \o <<>> = s
        <5>1. b = <<>>
          BY <3>6 DEF OptionsIn
        <5>2. s \o <<>> = s
          <6> HIDE DEF X
          <6> QED
            BY <2>3, ConcatEmptySeq
        <5> QED
          BY <5>1, <5>2
      <4>2. f[m] = s \o Dictionary(Just(key, value))
        <5>1. RPC!AddToParamDict(s, key, value) = s \o Dictionary(Just(key, value))
          <6> HIDE DEF X, key, value, s, O
          <6>1. s \in Seq(X)
            BY <2>3
          <6> QED
            BY <6>1, <2>9, AddsTable
        <5> QED
          BY <3>3, <4>1, <5>1
      <4>3. OptionsIn(method, set, O(m)) = Dictionary(Just(key, value))
        <5>1. O(m) = {m}
          BY <3>2, <3>6
        <5> HIDE DEF O
        <5> QED
          BY <5>1, <3>5 DEF OptionsIn
      <4>4. Done(m)
        <5> HIDE DEF X, O
        <5> QED
          BY <2>3, <2>10, <3>1, <4>2, <4>3
      <4> HIDE DEF Done
      <4> QED
        BY <2>1, <4>4
    <3>7. CASE O(n) # {}
      <4>1. b = Dictionary(F)
        BY <3>7 DEF OptionsIn
      <4>2. f[m] = s \o Dictionary(LongerBy(F, key, value))
        <5>1. RPC!AddToParamDict(s \o Dictionary(F), key, value) = s \o Dictionary(LongerBy(F, key, value))
          <6> HIDE DEF X, key, value, s, F
          <6> QED
            BY <2>3, AddsEntry
        <5> QED
          BY <3>3, <4>1, <5>1
      <4>3. OptionsIn(method, set, O(m)) = Dictionary(LongerBy(F, key, value))
        <5>1. O(m) # {}
          BY <3>2
        <5> HIDE DEF O
        <5> QED
          BY <5>1, <3>2, <3>5 DEF OptionsIn
      <4>4. Done(m)
        <5> HIDE DEF X, O
        <5> QED
          BY <2>3, <2>10, <3>1, <4>2, <4>3
      <4> HIDE DEF Done
      <4> QED
        BY <2>1, <4>4
    <3> QED
      BY <3>6, <3>7
  <2>14. m <= p \/ m > p
    BY <1>1, <2>1
  <2> QED
    BY <2>11, <2>12, <2>13, <2>14
<1>7. T = 0 .. q
  <2> HIDE DEF T
  <2>1. T \in SUBSET (0 .. q)
    BY DEF T
  <2> QED
    BY <1>1, <1>5, <1>6, <2>1, UpTo
<1>8. \A n \in 0 .. q : Done(n)
  <2> HIDE DEF Done
  <2> QED
    BY <1>7
<1> QED
  BY <1>8 DEF SoFar

\* A method whose steps are in their places asks what it documents.
LEMMA ParamsAreDocumented ==
  ASSUME NEW method, NEW p, NEW q, WellPlaced(method, p, q), NEW set, NEW given
  PROVE  RPC!Params(method, set, given) = Documented(method, set, given)
<1> DEFINE N == Len(method.steps)
           X == {RPC!Argument(method.steps[i].of) : i \in 1 .. N}
           options == Taken(method, set, given, "option")
           o == OptionsIn(method, set, options)
           t == RPC!Table(Filter(given))
           arguments == Arguments(method, set, given)
           filtered == Filtered(method) /\ given \cap Filters # {}
<1>1. N \in Nat /\ p \in Nat /\ q \in Nat /\ p <= q /\ q <= N /\ DOMAIN method.steps = 1 .. N
  BY DEF WellPlaced
<1>2. PICK f : /\ f = [n \in 0 .. Len(method.steps) |->
                         IF n = 0 THEN <<>> ELSE RPC!After(f[n - 1], method.steps[n], set, given)]
               /\ RPC!Params(method, set, given) = f[N]
  BY <1>1, ParamsIsLoop
<1>3. PICK g : /\ g = [n \in 0 .. Len(method.steps) |->
                         IF n = 0 THEN <<>> ELSE ArgumentsAfter(g[n - 1], method, n, set, given)]
               /\ arguments = g[N]
  BY <1>1, ArgumentsIsLoop
<1>4. /\ g[q] \in Seq(X)
      /\ f[q] = g[q] \o OptionsIn(method, set, options \cap (1 .. q))
      /\ p = 1 /\ method.steps[1].when = "always" /\ 1 <= q => Len(g[q]) = 1
  <2>1. q \in 0 .. q
    BY <1>1
  <2>2. ParamsLoop(f, method, set, given) /\ ArgumentsLoop(g, method, set, given)
    BY <1>2, <1>3 DEF ParamsLoop, ArgumentsLoop
  <2>3. SoFar(f, g, method, p, set, given, q)
    BY <2>1, <2>2, ParamsSoFar
  <2> QED
    BY <2>3 DEF SoFar
<1>5. options \cap (1 .. q) = options
  <2> SUFFICES ASSUME NEW i \in options
               PROVE  i \in 1 .. q
    OBVIOUS
  <2>1. i \in 1 .. N /\ method.steps[i].do = "option"
    BY <1>1 DEF Taken
  <2>2. i \notin q + 1 .. N
    BY <2>1 DEF WellPlaced
  <2> QED
    BY <1>1, <2>1, <2>2
<1>6. f[q] = g[q] \o o
  BY <1>4, <1>5
<1>7. Documented(method, set, given) = (arguments \o (IF filtered THEN <<t>> ELSE <<>>)) \o o
  BY DEF Documented, OptionsIn, Dictionary
<1>8. CASE q = N
  <2>1. ~Filtered(method)
    <3> SUFFICES ASSUME NEW i \in 1 .. N
                 PROVE  method.steps[i].do # "insert second"
      BY <1>1 DEF Filtered, Steps
    <3>1. i \in 1 .. p \/ i \in p + 1 .. q
      BY <1>1, <1>8
    <3> QED
      BY <3>1 DEF WellPlaced
  <2>2. arguments \o <<>> = arguments
    <3>1. arguments \in Seq(X)
      BY <1>3, <1>4, <1>8
    <3> HIDE DEF X, arguments
    <3> QED
      BY <3>1, ConcatEmptySeq
  <2> QED
    BY <1>2, <1>3, <1>6, <1>7, <1>8, <2>1, <2>2
<1>9. CASE q # N
  <2> DEFINE s == g[q]
             Y == X \cup {t, RPC!Table(OptionTable(method, set, options))}
  <2>1. N \in q + 1 .. N /\ q + 1 \in q + 1 .. N
    BY <1>1, <1>9
  <2>2. /\ q + 1 = N /\ p = 1 /\ method.steps[1].when = "always"
        /\ method.steps[N].do = "insert second" /\ method.steps[N].when = "always"
    BY <2>1 DEF WellPlaced
  <2>3. N \in 0 .. N /\ N # 0 /\ N - 1 = q /\ 1 <= q /\ N \in DOMAIN method.steps
    <3>1. q + 1 = N /\ p = 1
      BY <2>2
    <3>2. DOMAIN method.steps = 1 .. N /\ N \in Nat /\ p \in Nat /\ q \in Nat /\ p <= q
      BY <1>1
    <3> HIDE DEF N
    <3> QED
      BY <3>1, <3>2
  <2>4. Filtered(method)
    BY <2>2, <2>3 DEF Filtered, Steps
  <2>5. RPC!Applies(method.steps[N], set, given)
    BY <2>2 DEF RPC!Applies
  <2>6. f[N] = RPC!After(f[q], method.steps[N], set, given)
    BY <1>2, <2>3
  <2>7. f[N] = RPC!InsertFilter(f[q], 2, given)
    BY <2>2, <2>5, <2>6 DEF RPC!After
  <2>8. arguments = s
    <3>1. g[N] = ArgumentsAfter(g[q], method, N, set, given)
      BY <1>3, <2>3
    <3>2. N \notin Taken(method, set, given, "append")
      BY <2>2 DEF Taken
    <3> QED
      BY <1>3, <3>1, <3>2 DEF ArgumentsAfter
  <2>9. s \in Seq(Y) /\ Len(s) = 1 /\ t \in Y
    <3>1. s \in Seq(X) /\ Len(s) = 1
      BY <1>4, <2>2, <2>3
    <3> HIDE DEF X, t, s
    <3> QED
      BY <3>1
  <2>10. o \in Seq(Y)
    <3> DEFINE r == RPC!Table(OptionTable(method, set, options))
    <3>1. <<>> \in Seq(Y) /\ <<r>> \in Seq(Y)
      <4>1. r \in Y
        OBVIOUS
      <4> HIDE DEF r, Y
      <4> QED
        BY <4>1
    <3>2. o = <<>> \/ o = <<r>>
      BY DEF OptionsIn, Dictionary
    <3> HIDE DEF r, Y, o
    <3> QED
      BY <3>1, <3>2
  <2>11. s \o <<>> = s
    <3> HIDE DEF Y, s
    <3> QED
      BY <2>9, ConcatEmptySeq
  <2>12. RPC!InsertAt(s \o o, 2, t) = (s \o <<t>>) \o o
    <3> HIDE DEF Y, s, o, t
    <3> QED
      BY <2>9, <2>10, InsertsSecond
  <2>13. CASE given \cap Filters = {}
    <3>1. f[N] = f[q]
      BY <2>7, <2>13 DEF RPC!InsertFilter, Filters
    <3> QED
      BY <1>2, <1>6, <1>7, <2>8, <2>11, <2>13, <3>1
  <2>14. CASE given \cap Filters # {}
    <3>1. f[N] = RPC!InsertAt(f[q], 2, t)
      BY <2>7, <2>14 DEF RPC!InsertFilter, Filters, Filter
    <3> QED
      BY <1>2, <1>6, <1>7, <2>4, <2>8, <2>12, <2>14, <3>1
  <2> QED
    BY <2>13, <2>14
<1> QED
  BY <1>8, <1>9

\* The methods have their steps in their places.
LEMMA MethodsAreWellPlaced ==
  ASSUME NEW method \in Methods
  PROVE  \E p, q : WellPlaced(method, p, q)
<1> USE DEF WellPlaced, RPC!Method, RPC!ByName, RPC!NoParams, RPC!Step, RPC!Place, RPC!PlaceIf,
            RPC!Option, RPC!OptionIfGiven, RPC!IfSet,
             RPC!Commitment, RPC!MinContextSlot, RPC!Encoding, RPC!AccountFilter, RPC!MaxTransactionVersion,
             RPC!Identity, RPC!SlotRange, RPC!TransactionDetail, RPC!Rewards
<1>1. WellPlaced(RPC!GetLatestBlockhash, 0, 1)
  BY DEF RPC!GetLatestBlockhash
<1>2. WellPlaced(RPC!GetBlockProduction, 0, 3)
  BY DEF RPC!GetBlockProduction
<1>3. WellPlaced(RPC!GetAccountInfo, 1, 5)
  BY DEF RPC!GetAccountInfo
<1>4. WellPlaced(RPC!GetBalance, 1, 5)
  BY DEF RPC!GetBalance
<1>5. WellPlaced(RPC!GetBlock, 1, 6)
  BY DEF RPC!GetBlock
<1>6. WellPlaced(RPC!GetBlockHeight, 0, 2)
  BY DEF RPC!GetBlockHeight
<1>7. WellPlaced(RPC!GetBlockCommitment, 1, 1)
  BY DEF RPC!GetBlockCommitment
<1>8. WellPlaced(RPC!GetBlocks, 2, 3)
  BY DEF RPC!GetBlocks
<1>9. WellPlaced(RPC!GetBlocksWithLimit, 2, 3)
  BY DEF RPC!GetBlocksWithLimit
<1>10. WellPlaced(RPC!GetBlockTime, 1, 1)
  BY DEF RPC!GetBlockTime
<1>11. WellPlaced(RPC!GetClusterNodes, 0, 0)
  BY DEF RPC!GetClusterNodes
<1>12. WellPlaced(RPC!GetEpochInfo, 0, 2)
  BY DEF RPC!GetEpochInfo
<1>13. WellPlaced(RPC!GetEpochSchedule, 0, 0)
  BY DEF RPC!GetEpochSchedule
<1>14. WellPlaced(RPC!GetFeeForMessage, 1, 3)
  BY DEF RPC!GetFeeForMessage
<1>15. WellPlaced(RPC!GetFirstAvailableBlock, 0, 0)
  BY DEF RPC!GetFirstAvailableBlock
<1>16. WellPlaced(RPC!GetGenesisHash, 0, 0)
  BY DEF RPC!GetGenesisHash
<1>17. WellPlaced(RPC!GetHealth, 0, 0)
  BY DEF RPC!GetHealth
<1>18. WellPlaced(RPC!GetHighestSnapshotSlot, 0, 0)
  BY DEF RPC!GetHighestSnapshotSlot
<1>19. WellPlaced(RPC!GetIdentity, 0, 0)
  BY DEF RPC!GetIdentity
<1>20. WellPlaced(RPC!GetInflationGovernor, 0, 1)
  BY DEF RPC!GetInflationGovernor
<1>21. WellPlaced(RPC!GetInflationRate, 0, 0)
  BY DEF RPC!GetInflationRate
<1>22. WellPlaced(RPC!GetInflationReward, 1, 4)
  BY DEF RPC!GetInflationReward
<1>23. WellPlaced(RPC!GetLargestAccounts, 0, 2)
  BY DEF RPC!GetLargestAccounts
<1>24. WellPlaced(RPC!GetLeaderSchedule, 1, 3)
  BY DEF RPC!GetLeaderSchedule
<1>25. WellPlaced(RPC!GetMaxRetransmitSlot, 0, 0)
  BY DEF RPC!GetMaxRetransmitSlot
<1>26. WellPlaced(RPC!GetMaxShredInsertSlot, 0, 0)
  BY DEF RPC!GetMaxShredInsertSlot
<1>27. WellPlaced(RPC!GetMinimumBalanceForRentExtemption, 1, 2)
  BY DEF RPC!GetMinimumBalanceForRentExtemption
<1>28. WellPlaced(RPC!GetMultipleAccounts, 1, 5)
  BY DEF RPC!GetMultipleAccounts
<1>29. WellPlaced(RPC!GetProgramAccounts, 1, 7)
  BY DEF RPC!GetProgramAccounts
<1>30. WellPlaced(RPC!GetRecentPerformanceSamples, 0, 0)
  BY DEF RPC!GetRecentPerformanceSamples
<1>31. WellPlaced(RPC!GetRecentPrioritizationFees, 1, 1)
  BY DEF RPC!GetRecentPrioritizationFees
<1>32. WellPlaced(RPC!GetSignatureForAddress, 1, 5)
  BY DEF RPC!GetSignatureForAddress
<1>33. WellPlaced(RPC!GetSignatureStatuses, 1, 2)
  BY DEF RPC!GetSignatureStatuses
<1>34. WellPlaced(RPC!GetSlot, 0, 2)
  BY DEF RPC!GetSlot
<1>35. WellPlaced(RPC!GetSlotLeader, 0, 2)
  BY DEF RPC!GetSlotLeader
<1>36. WellPlaced(RPC!GetStakeActivation, 1, 3)
  BY DEF RPC!GetStakeActivation
<1>37. WellPlaced(RPC!GetStakeMinimumDelegation, 0, 1)
  BY DEF RPC!GetStakeMinimumDelegation
<1>38. WellPlaced(RPC!GetSupply, 0, 2)
  BY DEF RPC!GetSupply
<1>39. WellPlaced(RPC!GetTokenAccountBalance, 1, 2)
  BY DEF RPC!GetTokenAccountBalance
<1>40. WellPlaced(RPC!GetTokenAccountsByOwner, 1, 5)
  <2> DEFINE s == RPC!GetTokenAccountsByOwner.steps
  <2>1. Len(s) = 6 /\ DOMAIN s = 1 .. 6
    BY DEF RPC!GetTokenAccountsByOwner
  <2>2. /\ s[1].do = "append" /\ s[1].when = "always" /\ s[6].do = "insert second" /\ s[6].when = "always"
        /\ s[2].do = "option" /\ s[3].do = "option" /\ s[4].do = "option" /\ s[5].do = "option"
        /\ s[2].key = "commitment" /\ s[3].key = "minContextSlot" /\ s[4].key = "dataSlice" /\ s[5].key = "encoding"
    BY DEF RPC!GetTokenAccountsByOwner
  <2> HIDE DEF s
  <2>3. /\ \A i \in 1 .. 1 : i = 1
        /\ \A i \in 1 + 1 .. 5 : i = 2 \/ i = 3 \/ i = 4 \/ i = 5
        /\ \A i \in 5 + 1 .. 6 : i = 6
    OBVIOUS
  <2>4. /\ \A i \in 1 .. 1 : s[i].do = "append"
        /\ \A i \in 1 + 1 .. 5 : s[i].do = "option"
        /\ \A i \in 5 + 1 .. 6 : i = 6 /\ s[i].do = "insert second" /\ s[i].when = "always"
    BY <2>2, <2>3
  <2>5. \A i, j \in 1 + 1 .. 5 : s[i].key = s[j].key => i = j
    BY <2>2, <2>3
  <2>6. \A i \in 5 + 1 .. Len(s) :
          i = Len(s) /\ 1 = 1 /\ s[1].when = "always" /\ s[i].do = "insert second" /\ s[i].when = "always"
    BY <2>1, <2>2, <2>4
  <2>7. Len(s) \in Nat /\ DOMAIN s = 1 .. Len(s) /\ 1 \in Nat /\ 5 \in Nat /\ 1 <= 5 /\ 5 <= Len(s)
    BY <2>1
  <2> QED
    BY <2>4, <2>5, <2>6, <2>7 DEF s
<1>41. WellPlaced(RPC!GetTokenLargestAccount, 1, 2)
  BY DEF RPC!GetTokenLargestAccount
<1>42. WellPlaced(RPC!GetTokenSupply, 1, 2)
  BY DEF RPC!GetTokenSupply
<1>43. WellPlaced(RPC!GetTransaction, 1, 4)
  BY DEF RPC!GetTransaction
<1>44. WellPlaced(RPC!GetTransactionCount, 0, 2)
  BY DEF RPC!GetTransactionCount
<1>45. WellPlaced(RPC!GetVersion, 0, 0)
  BY DEF RPC!GetVersion
<1>46. WellPlaced(RPC!GetVoteAccounts, 0, 3)
  BY DEF RPC!GetVoteAccounts
<1>47. WellPlaced(RPC!IsBlockhashValid, 1, 3)
  BY DEF RPC!IsBlockhashValid
<1>48. WellPlaced(RPC!MinimumLedgerSlot, 0, 0)
  BY DEF RPC!MinimumLedgerSlot
<1>49. WellPlaced(RPC!RequestAirdrop, 2, 3)
  BY DEF RPC!RequestAirdrop
<1>50. WellPlaced(RPC!SendTransaction, 1, 6)
  BY DEF RPC!SendTransaction
<1>51. WellPlaced(RPC!SimulateTransaction, 1, 7)
  BY DEF RPC!SimulateTransaction
<1>52. WellPlaced(RPC!GetAsset, 1, 1)
  BY DEF RPC!GetAsset
<1>53. WellPlaced(RPC!GetAssetProof, 1, 1)
  BY DEF RPC!GetAssetProof
<1>54. WellPlaced(RPC!GetAssetsByAuthority, 0, 3)
  BY DEF RPC!GetAssetsByAuthority
<1>55. WellPlaced(RPC!GetAssetsByCreatorAddress, 0, 4)
  BY DEF RPC!GetAssetsByCreatorAddress
<1>56. WellPlaced(RPC!GetAssetsByGroup, 0, 4)
  BY DEF RPC!GetAssetsByGroup
<1>57. WellPlaced(RPC!GetAssetsByOwner, 0, 4)
  BY DEF RPC!GetAssetsByOwner
<1>58. WellPlaced(RPC!AccountSubscribe, 1, 3)
  BY DEF RPC!AccountSubscribe
<1>59. WellPlaced(RPC!SignatureSubscribe, 1, 2)
  BY DEF RPC!SignatureSubscribe
<1>60. WellPlaced(RPC!ProgramSubscribe, 1, 4)
  BY DEF RPC!ProgramSubscribe
<1>61. WellPlaced(RPC!RootSubscribe, 0, 0)
  BY DEF RPC!RootSubscribe
<1>62. WellPlaced(RPC!SlotSubscribe, 0, 0)
  BY DEF RPC!SlotSubscribe
<1> HIDE DEF WellPlaced
<1> QED
  BY <1>1, <1>2, <1>3, <1>4, <1>5, <1>6, <1>7, <1>8, <1>9, <1>10, <1>11, <1>12, <1>13, <1>14, <1>15, <1>16, <1>17, <1>18, <1>19, <1>20, <1>21, <1>22, <1>23, <1>24, <1>25, <1>26, <1>27, <1>28, <1>29, <1>30, <1>31, <1>32, <1>33, <1>34, <1>35, <1>36, <1>37, <1>38, <1>39, <1>40, <1>41, <1>42, <1>43, <1>44, <1>45, <1>46, <1>47, <1>48, <1>49, <1>50, <1>51, <1>52, <1>53, <1>54, <1>55, <1>56, <1>57, <1>58, <1>59, <1>60, <1>61, <1>62
     DEF Methods, RPC!Methods

\* A call of a method makes the request it documents.
LEMMA AskDocumented == AskAny => RequestKeepsItsPlaces'
<1> SUFFICES ASSUME AskAny
             PROVE  RequestKeepsItsPlaces'
  OBVIOUS
<1>1. PICK method \in Methods : \E set \in SUBSET SettingsOf(method), given \in SUBSET OptionalOf(method) :
                                  Ask(method, set, given)
  BY DEF AskAny
<1>2. PICK set \in SUBSET SettingsOf(method), given \in SUBSET OptionalOf(method) : Ask(method, set, given)
  BY <1>1
<1>3. RPC!Params(method, set, given) = Documented(method, set, given)
  <2>1. PICK p, q : WellPlaced(method, p, q)
    BY MethodsAreWellPlaced
  <2> QED
    BY <2>1, ParamsAreDocumented
<1>4. request' = [method |-> method, set |-> set, given |-> given, params |-> Documented(method, set, given)]
  BY <1>2, <1>3 DEF Ask
<1>5. request'.params = Documented(request'.method, request'.set, request'.given)
  <2>1. /\ request'.method = method /\ request'.set = set /\ request'.given = given
        /\ request'.params = Documented(method, set, given)
    BY <1>4
  <2> QED
    BY <2>1
<1> QED
  BY <1>5 DEF RequestKeepsItsPlaces

\* Every request of every method has its arguments, its options and its filter where
\* the method documents them, whatever is set.  SolanaClient::get_*, add_to_param_dict.
THEOREM AsksWhatIsDocumented == SpecClient => []RequestKeepsItsPlaces
<1>1. InitClient => RequestKeepsItsPlaces
  BY DEF InitClient, RequestKeepsItsPlaces
<1>2. RequestKeepsItsPlaces /\ [NextClient]_clientVars => RequestKeepsItsPlaces'
  <2> SUFFICES ASSUME RequestKeepsItsPlaces, [NextClient]_clientVars
               PROVE  RequestKeepsItsPlaces'
    OBVIOUS
  <2>1. CASE AskAny
    BY <2>1, AskDocumented
  <2>2. CASE UNCHANGED request
    BY <2>2 DEF RequestKeepsItsPlaces
  <2>3. AskAny \/ UNCHANGED request
    BY DEF NextClient, Configure, SetUrlOverride, SetWsUrl, UnsubscribeAll, Called, clientVars
  <2> QED
    BY <2>1, <2>2, <2>3
<1> QED
  BY <1>1, <1>2, PTL DEF SpecClient
=============================================================================
