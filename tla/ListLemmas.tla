----------------------------- MODULE ListLemmas -----------------------------
(***************************************************************************)
(* Lists whose elements differ, as the programs keep them for connections  *)
(* (m_clients of SockServer, clients of rtmpServer) and for frames (befor  *)
(* and after of RtspPullHandle): one is added at the end or taken out.     *)
(* Then the deques of MTQueue and condFifo, which grow at the front and    *)
(* are read at the back; two texts joined; the first place of an element;  *)
(* disjoint sets; quotients and multiples.                                 *)
(***************************************************************************)
EXTENDS Integers, Sequences, FiniteSets, SequencesExt, SequenceTheorems, FiniteSetTheorems,
        WellFoundedInduction, NaturalsInduction, TLAPS

\* What erase() leaves of a vector: the entries before it, and those behind it, which
\* move up by one.
LEMMA Erased ==
  ASSUME NEW S, NEW s \in Seq(S), NEW i \in 1 .. Len(s)
  PROVE  /\ RemoveAt(s, i) \in Seq(S) /\ Len(RemoveAt(s, i)) = Len(s) - 1
         /\ \A j \in 1 .. Len(s) - 1 : RemoveAt(s, i)[j] = IF j < i THEN s[j] ELSE s[j + 1]
<1> DEFINE a == SubSeq(s, 1, i - 1)
           b == SubSeq(s, i + 1, Len(s))
<1>1. Len(s) \in Nat
  BY LenProperties
<1>2. \A j \in 1 .. Len(s) : s[j] \in S
  BY ElementOfSeq
<1>3. a \in Seq(S) /\ Len(a) = i - 1 /\ \A j \in 1 .. i - 1 : a[j] = s[j]
  <2> 1 \in Int /\ i - 1 \in Int /\ \A j \in 1 .. i - 1 : s[j] \in S
    BY <1>1, <1>2
  <2> QED BY <1>1, SubSeqProperties
<1>4. b \in Seq(S) /\ Len(b) = Len(s) - i /\ \A j \in 1 .. Len(s) - i : b[j] = s[j + i]
  <2> i + 1 \in Int /\ Len(s) \in Int /\ \A j \in i + 1 .. Len(s) : s[j] \in S
    BY <1>1, <1>2
  <2> QED BY <1>1, SubSeqProperties
<1> HIDE DEF a, b
<1>5. /\ a \o b \in Seq(S) /\ Len(a \o b) = Len(s) - 1
      /\ \A j \in 1 .. Len(s) - 1 : (a \o b)[j] = IF j < i THEN s[j] ELSE s[j + 1]
  <2>1. /\ a \o b \in Seq(S) /\ Len(a \o b) = Len(a) + Len(b)
        /\ \A j \in 1 .. Len(a) + Len(b) : (a \o b)[j] = IF j <= Len(a) THEN a[j] ELSE b[j - Len(a)]
    BY <1>3, <1>4, ConcatProperties
  <2>2. Len(a) + Len(b) = Len(s) - 1
    BY <1>1, <1>3, <1>4
  <2>3. ASSUME NEW j \in 1 .. Len(s) - 1 PROVE (a \o b)[j] = IF j < i THEN s[j] ELSE s[j + 1]
    <3>1. CASE j < i
      BY <1>1, <1>3, <2>1, <2>2, <3>1
    <3>2. CASE ~(j < i)
      <4>1. (a \o b)[j] = b[j - (i - 1)]
        BY <1>1, <1>3, <2>1, <2>2, <3>2
      <4>2. j - (i - 1) \in 1 .. Len(s) - i
        BY <1>1, <3>2
      <4>3. b[j - (i - 1)] = s[(j - (i - 1)) + i]
        BY <1>4, <4>2
      <4>4. (j - (i - 1)) + i = j + 1
        BY <1>1
      <4> QED BY <3>2, <4>1, <4>3, <4>4
    <3> QED BY <3>1, <3>2
  <2> QED BY <2>1, <2>2, <2>3
<1>6. RemoveAt(s, i) = a \o b
  BY DEF RemoveAt, a, b
<1> QED BY <1>5, <1>6

\* An element of a list of different ones is gone when its entry is erased.
LEMMA Erase ==
  ASSUME NEW S, NEW s \in Seq(S), IsInjective(s), NEW i \in 1 .. Len(s)
  PROVE  /\ RemoveAt(s, i) \in Seq(S) /\ IsInjective(RemoveAt(s, i))
         /\ ToSet(RemoveAt(s, i)) = ToSet(s) \ {s[i]}
<1> DEFINE r == RemoveAt(s, i)
<1>1. /\ r \in Seq(S) /\ Len(r) = Len(s) - 1 /\ Len(s) \in Nat
      /\ \A j \in 1 .. Len(s) - 1 : r[j] = IF j < i THEN s[j] ELSE s[j + 1]
  BY Erased, LenProperties
<1> HIDE DEF r
<1>2. DOMAIN s = 1 .. Len(s) /\ DOMAIN r = 1 .. Len(s) - 1
  BY <1>1, LenProperties
<1>3. \A a, b \in 1 .. Len(s) : s[a] = s[b] => a = b
  BY <1>1, <1>2 DEF IsInjective
<1>4. IsInjective(r)
  <2> SUFFICES ASSUME NEW a \in DOMAIN r, NEW b \in DOMAIN r, r[a] = r[b] PROVE a = b
    BY DEF IsInjective
  <2> DEFINE at(j) == IF j < i THEN j ELSE j + 1
  <2>1. \A j \in DOMAIN r : at(j) \in 1 .. Len(s) /\ r[j] = s[at(j)]
    BY <1>1, <1>2
  <2>2. at(a) = at(b)
    BY <1>3, <2>1
  <2> QED BY <1>1, <1>2, <2>2
<1>5. ToSet(r) = ToSet(s) \ {s[i]}
  <2>1. ASSUME NEW j \in DOMAIN r PROVE r[j] \in ToSet(s) \ {s[i]}
    <3>1. \E k \in 1 .. Len(s) : k # i /\ r[j] = s[k]
      BY <1>1, <1>2
    <3> QED BY <1>1, <1>2, <1>3, <3>1 DEF ToSet
  <2>2. ASSUME NEW k \in DOMAIN s, s[k] # s[i] PROVE \E j \in DOMAIN r : r[j] = s[k]
    <3>1. CASE k < i
      BY <1>1, <1>2, <3>1
    <3>2. CASE k > i
      <4> k - 1 \in DOMAIN r /\ r[k - 1] = s[k]
        BY <1>1, <1>2, <3>2
      <4> QED OBVIOUS
    <3> QED BY <1>1, <1>2, <2>2, <3>1, <3>2
  <2> QED BY <2>1, <2>2 DEF ToSet
<1> QED BY <1>1, <1>4, <1>5 DEF r

\* The head of a list of different elements is in no later place.
LEMMA Behead ==
  ASSUME NEW S, NEW s \in Seq(S), IsInjective(s), s # <<>>
  PROVE  /\ Head(s) \in S /\ Head(s) \in ToSet(s)
         /\ Tail(s) \in Seq(S) /\ IsInjective(Tail(s)) /\ ToSet(Tail(s)) = ToSet(s) \ {Head(s)}
<1>1. Len(s) \in Nat \ {0} /\ Head(s) = s[1] /\ DOMAIN s = 1 .. Len(s)
  BY EmptySeq, LenProperties
<1>2. Head(s) \in S /\ Head(s) \in ToSet(s)
  BY <1>1, HeadTailProperties DEF ToSet
<1>3. Tail(s) \in Seq(S) /\ Len(Tail(s)) = Len(s) - 1
      /\ \A j \in 1 .. Len(s) - 1 : Tail(s)[j] = s[j + 1]
  BY <1>1, HeadTailProperties
<1> DEFINE i == 1
           r == RemoveAt(s, i)
<1>4. i \in 1 .. Len(s) /\ \A j \in 1 .. Len(s) - 1 : ~(j < i)
  BY <1>1
<1> HIDE DEF i
<1>5. r \in Seq(S) /\ Len(r) = Len(s) - 1 /\ \A j \in 1 .. Len(s) - 1 : r[j] = s[j + 1]
  BY <1>4, Erased
<1>6. IsInjective(r) /\ ToSet(r) = ToSet(s) \ {s[i]}
  BY <1>4, Erase
<1> HIDE DEF r
<1>7. Tail(s) = r
  BY <1>3, <1>5, SeqEqual
<1> QED BY <1>1, <1>2, <1>3, <1>6, <1>7 DEF i

\* A new element is added at the end.
LEMMA Enlist ==
  ASSUME NEW S, NEW s \in Seq(S), IsInjective(s), NEW x \in S, x \notin ToSet(s)
  PROVE  /\ Append(s, x) \in Seq(S) /\ IsInjective(Append(s, x))
         /\ ToSet(Append(s, x)) = ToSet(s) \cup {x}
<1> DEFINE r == Append(s, x)
<1>1. /\ r \in Seq(S) /\ Len(r) = Len(s) + 1 /\ Len(s) \in Nat
      /\ (\A j \in 1 .. Len(s) : r[j] = s[j]) /\ r[Len(s) + 1] = x
  BY AppendProperties, LenProperties
<1> HIDE DEF r
<1>2. DOMAIN s = 1 .. Len(s) /\ DOMAIN r = 1 .. Len(s) + 1
  BY <1>1, LenProperties
<1>3. \A a, b \in 1 .. Len(s) : s[a] = s[b] => a = b
  BY <1>2 DEF IsInjective
<1>4. \A a \in 1 .. Len(s) : s[a] # x
  BY <1>2 DEF ToSet
<1>5. IsInjective(r)
  <2> SUFFICES ASSUME NEW a \in 1 .. Len(s) + 1, NEW b \in 1 .. Len(s) + 1, r[a] = r[b] PROVE a = b
    BY <1>2 DEF IsInjective
  <2> QED BY <1>1, <1>3, <1>4
<1>6. ToSet(r) = ToSet(s) \cup {x}
  <2>1. ASSUME NEW a \in 1 .. Len(s) + 1 PROVE r[a] \in ToSet(s) \cup {x}
    BY <1>1, <1>2 DEF ToSet
  <2>2. ASSUME NEW a \in 1 .. Len(s) PROVE \E b \in 1 .. Len(s) + 1 : r[b] = s[a]
    BY <1>1
  <2>3. Len(s) + 1 \in 1 .. Len(s) + 1
    BY <1>1
  <2> QED BY <1>1, <1>2, <2>1, <2>2, <2>3 DEF ToSet
<1> QED BY <1>1, <1>5, <1>6 DEF r

\* A list without repetitions has as many elements as entries.
LEMMA ListedOnce ==
  ASSUME NEW S, NEW s \in Seq(S), IsInjective(s)
  PROVE  IsFiniteSet(ToSet(s)) /\ Cardinality(ToSet(s)) = Len(s) /\ Len(s) \in Nat
<1>1. Len(s) \in Nat /\ DOMAIN s = 1 .. Len(s) /\ s = [j \in 1 .. Len(s) |-> s[j]]
  BY LenProperties
<1>2. s \in Bijection(1 .. Len(s), ToSet(s))
  <2>1. s \in [1 .. Len(s) -> ToSet(s)]
    BY <1>1 DEF ToSet
  <2>2. \A a, b \in 1 .. Len(s) : s[a] = s[b] => a = b
    BY <1>1 DEF IsInjective
  <2>3. \A y \in ToSet(s) : \E a \in 1 .. Len(s) : s[a] = y
    BY <1>1 DEF ToSet
  <2> QED BY <2>1, <2>2, <2>3 DEF Bijection, Injection, Surjection
<1>3. ExistsBijection(1 .. Len(s), ToSet(s))
  BY <1>2 DEF ExistsBijection
<1>4. IsFiniteSet(ToSet(s))
  BY <1>1, <1>3, FS_NatBijection
<1>5. Cardinality(ToSet(s)) = Len(s)
  BY <1>1, <1>3, FS_CountingElements
<1> QED BY <1>1, <1>4, <1>5
-----------------------------------------------------------------------------
\* push_front on a sequence.
LEMMA ConsFacts ==
  ASSUME NEW S, NEW s \in Seq(S), NEW e \in S
  PROVE  /\ Cons(e, s) \in Seq(S)
         /\ Len(Cons(e, s)) = Len(s) + 1
         /\ Cons(e, s)[1] = e
         /\ \A i \in 1..Len(s) : Cons(e, s)[i + 1] = s[i]
<1>1. <<e>> \in Seq(S) /\ Len(<<e>>) = 1 /\ <<e>>[1] = e
  OBVIOUS
<1>2. Cons(e, s) = <<e>> \o s
  BY DEF Cons
<1>3. QED
  BY <1>1, <1>2, ConcatProperties

\* pop_back on a sequence.
LEMMA FrontFacts ==
  ASSUME NEW S, NEW s \in Seq(S), s # <<>>
  PROVE  /\ Front(s) \in Seq(S)
         /\ Len(s) \in Nat \ {0}
         /\ Len(Front(s)) = Len(s) - 1
         /\ \A i \in 1..(Len(s) - 1) : Front(s)[i] = s[i]
         /\ Last(s) = s[Len(s)]
         /\ Last(s) \in S
<1>1. Len(s) \in Nat /\ Len(s) # 0
  BY EmptySeq, LenProperties
<1>2. Last(s) = s[Len(s)] /\ Last(s) \in S
  BY <1>1, ElementOfSeq DEF Last
<1>3. Front(s) = SubSeq(s, 1, Len(s) - 1)
  BY DEF Front
<1>4. \A i \in 1..(Len(s) - 1) : s[i] \in S
  BY <1>1, ElementOfSeq
<1>5. /\ SubSeq(s, 1, Len(s) - 1) \in Seq(S)
      /\ Len(SubSeq(s, 1, Len(s) - 1)) = Len(s) - 1
      /\ \A i \in 1..(Len(s) - 1) : SubSeq(s, 1, Len(s) - 1)[i] = s[i]
  <2> DEFINE n == Len(s) - 1
  <2>1. n \in Nat /\ \A i \in 1..n : s[i] \in S
    BY <1>1, <1>4
  <2> HIDE DEF n
  <2>2. /\ SubSeq(s, 1, n) \in Seq(S)
        /\ Len(SubSeq(s, 1, n)) = IF 1 <= n THEN n - 1 + 1 ELSE 0
        /\ \A i \in 1..(n - 1 + 1) : SubSeq(s, 1, n)[i] = s[1 + i - 1]
    BY <2>1, SubSeqProperties
  <2>3. Len(SubSeq(s, 1, n)) = n
    BY <2>1, <2>2
  <2>4. \A i \in 1..n : SubSeq(s, 1, n)[i] = s[i]
    <3> TAKE i \in 1..n
    <3>1. i \in 1..(n - 1 + 1) /\ 1 + i - 1 = i
      BY <2>1
    <3>2. SubSeq(s, 1, n)[i] = s[1 + i - 1]
      BY <2>2, <3>1
    <3>3. QED
      BY <3>1, <3>2
  <2>5. QED
    BY <2>2, <2>3, <2>4 DEF n
<1>6. QED
  BY <1>1, <1>2, <1>3, <1>5

\* push_back adds one element to the set of those listed.
LEMMA ToSetAppend ==
  ASSUME NEW S, NEW s \in Seq(S), NEW e \in S
  PROVE  ToSet(Append(s, e)) = ToSet(s) \cup {e}
<1>1. /\ Len(Append(s, e)) = Len(s) + 1
      /\ Append(s, e)[Len(s) + 1] = e
      /\ \A i \in 1..Len(s) : Append(s, e)[i] = s[i]
      /\ Len(s) \in Nat
  BY AppendProperties, LenProperties
<1>2. DOMAIN s = 1..Len(s) /\ DOMAIN Append(s, e) = 1..(Len(s) + 1)
  BY <1>1, LenProperties, AppendProperties
<1>3. 1..(Len(s) + 1) = (1..Len(s)) \cup {Len(s) + 1}
  BY <1>1
<1>4. QED
  BY <1>1, <1>2, <1>3 DEF ToSet

\* The deque read from its back: what each operation does to that view.
LEMMA ReverseFacts ==
  ASSUME NEW S, NEW s \in Seq(S)
  PROVE  /\ Reverse(s) \in Seq(S)
         /\ Len(Reverse(s)) = Len(s)
         /\ \A i \in 1..Len(s) : Reverse(s)[i] = s[(Len(s) - i) + 1]
<1>1. Len(s) \in Nat
  BY LenProperties
<1>2. Reverse(s) = [i \in 1..Len(s) |-> s[(Len(s) - i) + 1]]
  BY DEF Reverse
<1>3. \A i \in 1..Len(s) : s[(Len(s) - i) + 1] \in S
  BY <1>1, ElementOfSeq
<1>4. Reverse(s) \in Seq(S)
  <2>1. Reverse(s) \in [1..Len(s) -> S]
    BY <1>2, <1>3
  <2>2. QED
    BY <1>1, <2>1, SeqDef
<1>5. DOMAIN Reverse(s) = 1..Len(s)
  BY <1>2
<1>6. Len(Reverse(s)) = Len(s)
  BY <1>1, <1>4, <1>5, LenProperties
<1>7. QED
  BY <1>2, <1>4, <1>6

\* Nothing is in it at the start.
LEMMA ReverseEmpty == Reverse(<<>>) = <<>>
  BY DEF Reverse

\* push_front adds at the end of that view.
LEMMA ReverseCons ==
  ASSUME NEW S, NEW s \in Seq(S), NEW e \in S
  PROVE  Reverse(Cons(e, s)) = Append(Reverse(s), e)
<1>0. Len(s) \in Nat
  BY LenProperties
<1>1. /\ Cons(e, s) \in Seq(S)
      /\ Len(Cons(e, s)) = Len(s) + 1
      /\ Cons(e, s)[1] = e
      /\ \A i \in 1..Len(s) : Cons(e, s)[i + 1] = s[i]
  BY ConsFacts
<1> DEFINE l == Reverse(Cons(e, s))
           r == Append(Reverse(s), e)
<1>2. /\ Reverse(s) \in Seq(S)
      /\ Len(Reverse(s)) = Len(s)
      /\ \A i \in 1..Len(s) : Reverse(s)[i] = s[(Len(s) - i) + 1]
  BY ReverseFacts
<1>3. /\ l \in Seq(S)
      /\ Len(l) = Len(s) + 1
      /\ \A i \in 1..(Len(s) + 1) : l[i] = Cons(e, s)[((Len(s) + 1) - i) + 1]
  <2> DEFINE c == Cons(e, s)
  <2>1. c \in Seq(S) /\ Len(c) = Len(s) + 1
    BY <1>0, <1>1
  <2> HIDE DEF c
  <2>2. /\ Reverse(c) \in Seq(S)
        /\ Len(Reverse(c)) = Len(c)
        /\ \A i \in 1..Len(c) : Reverse(c)[i] = c[(Len(c) - i) + 1]
    BY <2>1, ReverseFacts
  <2>3. QED
    BY <2>1, <2>2 DEF c
<1>4. /\ r \in Seq(S)
      /\ Len(r) = Len(s) + 1
      /\ r[Len(s) + 1] = e
      /\ \A i \in 1..Len(s) : r[i] = Reverse(s)[i]
  <2> DEFINE b == Reverse(s)
  <2>1. b \in Seq(S) /\ Len(b) = Len(s)
    BY <1>2
  <2> HIDE DEF b
  <2>2. /\ Append(b, e) \in Seq(S)
        /\ Len(Append(b, e)) = Len(b) + 1
        /\ Append(b, e)[Len(b) + 1] = e
        /\ \A i \in 1..Len(b) : Append(b, e)[i] = b[i]
    BY <2>1, AppendProperties
  <2>3. QED
    BY <2>1, <2>2 DEF b
<1> HIDE DEF l, r
<1>5. \A i \in 1..(Len(s) + 1) : l[i] = r[i]
  <2> TAKE i \in 1..(Len(s) + 1)
  <2>1. CASE i = Len(s) + 1
    <3>1. ((Len(s) + 1) - i) + 1 = 1
      BY <1>0, <1>1, <2>1
    <3>2. QED
      BY <1>0, <1>1, <1>3, <1>4, <2>1, <3>1
  <2>2. CASE i # Len(s) + 1
    <3>1. i \in 1..Len(s) /\ (Len(s) - i) + 1 \in 1..Len(s)
      BY <1>0, <1>1, <2>2
    <3>2. ((Len(s) + 1) - i) + 1 = ((Len(s) - i) + 1) + 1
      BY <1>0, <1>1
    <3>3. l[i] = s[(Len(s) - i) + 1]
      BY <1>0, <1>1, <1>3, <3>1, <3>2
    <3>4. r[i] = s[(Len(s) - i) + 1]
      BY <1>2, <1>4, <3>1
    <3>5. QED
      BY <3>3, <3>4
  <2>3. QED
    BY <2>1, <2>2
<1>6. l = r
  BY <1>3, <1>4, <1>5, SeqEqual
<1>7. QED
  BY <1>6 DEF l, r

\* pop_back takes its head.
LEMMA ReverseFront ==
  ASSUME NEW S, NEW s \in Seq(S), s # <<>>
  PROVE  /\ Reverse(s) # <<>>
         /\ Reverse(Front(s)) = Tail(Reverse(s))
         /\ Last(s) = Head(Reverse(s))
<1> DEFINE f == Front(s)
           l == Reverse(f)
           b == Reverse(s)
           r == Tail(b)
<1>1. /\ f \in Seq(S)
      /\ Len(s) \in Nat \ {0}
      /\ Len(f) = Len(s) - 1
      /\ \A i \in 1..(Len(s) - 1) : f[i] = s[i]
      /\ Last(s) = s[Len(s)]
  BY FrontFacts
<1>2. /\ b \in Seq(S)
      /\ Len(b) = Len(s)
      /\ \A i \in 1..Len(s) : b[i] = s[(Len(s) - i) + 1]
  BY ReverseFacts
<1>3. /\ l \in Seq(S)
      /\ Len(l) = Len(f)
      /\ \A i \in 1..Len(f) : l[i] = f[(Len(f) - i) + 1]
  BY <1>1, ReverseFacts
<1>4. b # <<>>
  BY <1>1, <1>2, EmptySeq
<1>5. /\ r \in Seq(S)
      /\ Len(r) = Len(b) - 1
      /\ \A i \in 1..Len(r) : r[i] = b[i + 1]
  BY <1>2, <1>4, HeadTailProperties
<1>6. Head(b) = b[1]
  BY <1>2
<1> HIDE DEF f, l, b, r
<1>7. \A i \in 1..Len(f) : l[i] = r[i]
  <2> TAKE i \in 1..Len(f)
  <2>1. /\ i \in 1..Len(r)
        /\ i + 1 \in 1..Len(s)
        /\ (Len(f) - i) + 1 \in 1..(Len(s) - 1)
        /\ (Len(s) - (i + 1)) + 1 = (Len(f) - i) + 1
    BY <1>1, <1>2, <1>5
  <2>2. l[i] = s[(Len(f) - i) + 1]
    BY <1>1, <1>3, <2>1
  <2>3. r[i] = s[(Len(s) - (i + 1)) + 1]
    BY <1>2, <1>5, <2>1
  <2>4. QED
    BY <2>1, <2>2, <2>3
<1>8. l = r
  BY <1>1, <1>2, <1>3, <1>5, <1>7, SeqEqual
<1>9. Last(s) = Head(b)
  <2>1. 1 \in 1..Len(s) /\ (Len(s) - 1) + 1 = Len(s)
    BY <1>1
  <2>2. QED
    BY <1>1, <1>2, <1>6, <2>1
<1>10. QED
  BY <1>4, <1>8, <1>9 DEF f, l, b, r

\* What is put at the end of a queue is put at the end of everything that went in.
LEMMA PutBehind ==
  ASSUME NEW S, NEW s \in Seq(S), NEW t \in Seq(S), NEW e \in S, NEW q, q = s \o t,
         NEW u, u = Append(t, e), NEW r, r = Append(q, e)
  PROVE  r = s \o u
<1>1. <<e>> \in Seq(S) /\ q \in Seq(S)
  BY ConcatProperties
<1>2. r = (s \o t) \o <<e>> /\ u = t \o <<e>>
  BY <1>1, AppendIsConcat
<1> QED BY <1>1, <1>2, ConcatAssociative

\* The head of a queue moves to the end of what came out.
LEMMA TakeNext ==
  ASSUME NEW S, NEW s \in Seq(S), NEW t \in Seq(S), t # <<>>, NEW e, e = Head(t),
         NEW u, u = Append(s, e), NEW r, r = Tail(t)
  PROVE  u \o r = s \o t
<1>1. Head(t) \in S /\ Tail(t) \in Seq(S) /\ <<Head(t)>> \in Seq(S) /\ t = <<Head(t)>> \o Tail(t)
  <2>1. Len(t) \in Nat \ {0} /\ Head(t) = t[1]
    BY EmptySeq, LenProperties
  <2>2. SubSeq(t, 1, Len(t)) = <<t[1]>> \o SubSeq(t, 1 + 1, Len(t))
    <3> 1 \in 1 .. Len(t) /\ Len(t) \in 1 .. Len(t)
      BY <2>1
    <3> QED BY SubSeqRecursiveFirst
  <2>3. t = SubSeq(t, 1, Len(t)) /\ Tail(t) = SubSeq(t, 2, Len(t))
    BY SubSeqFull, TailIsSubSeq
  <2>4. Head(t) \in S /\ Tail(t) \in Seq(S) /\ <<Head(t)>> \in Seq(S)
    BY HeadTailProperties
  <2> QED BY <2>1, <2>2, <2>3, <2>4
<1>2. u = s \o <<e>>
  BY <1>1, AppendIsConcat
<1>3. (s \o <<e>>) \o r = s \o (<<e>> \o r)
  BY <1>1, ConcatAssociative
<1> QED BY <1>1, <1>2, <1>3
-----------------------------------------------------------------------------
\* The least element that Min chooses exists.
LEMMA Least ==
  ASSUME NEW I \in SUBSET Nat, I # {}
  PROVE  Min(I) \in I /\ \A y \in I : Min(I) <= y
<1> DEFINE R == {ss \in Nat \X Nat : ss[1] < ss[2]}
<1>1. IsWellFoundedOn(R, Nat)
  BY NatLessThanWellFounded DEF OpToRel
<1>2. PICK m \in I : \A y \in I : ~(<<y, m>> \in R)
  BY <1>1, WFMin
<1>3. ASSUME NEW y \in I PROVE m <= y
  <2>1. m \in Nat /\ y \in Nat /\ <<y, m>> \in Nat \X Nat
    OBVIOUS
  <2>2. ~(y < m)
    BY <1>2, <2>1
  <2> QED BY <2>1, <2>2
<1> QED BY <1>2, <1>3 DEF Min

\* Numbers in a finite table have a largest one.
LEMMA TableBounded ==
  ASSUME NEW n \in Nat, NEW f \in [1 .. n -> Nat]
  PROVE  \E b \in Nat : \A k \in 1 .. n : f[k] <= b
<1> DEFINE Has(m) == \E b \in Nat : \A k \in 1 .. m : f[k] <= b
           I == {m \in 0 .. n : ~Has(m)}
<1>1. Has(0)
  OBVIOUS
<1>2. ASSUME NEW m \in 1 .. n, Has(m - 1) PROVE Has(m)
  <2> PICK b \in Nat : \A k \in 1 .. m - 1 : f[k] <= b
    BY <1>2
  <2> PICK c \in Nat : c = f[m]
    OBVIOUS
  <2>1. ASSUME NEW k \in 1 .. m PROVE f[k] <= b + c
    <3>1. CASE k = m
      BY <3>1
    <3>2. CASE k # m
      <4> k \in 1 .. m - 1 /\ f[k] \in Nat
        BY <3>2
      <4> QED OBVIOUS
    <3> QED BY <3>1, <3>2
  <2> b + c \in Nat
    OBVIOUS
  <2> QED BY <2>1
<1> HIDE DEF Has
<1>3. ASSUME I # {} PROVE FALSE
  <2>0. I \in SUBSET Nat
    OBVIOUS
  <2>1. Min(I) \in I /\ \A y \in I : Min(I) <= y
    <3> HIDE DEF I
    <3> QED BY <1>3, <2>0, Least
  <2> PICK m \in I : \A y \in I : m <= y
    BY <2>1
  <2>2. m # 0 /\ m \in 1 .. n
    BY <1>1
  <2>3. Has(m - 1)
    <3> m - 1 \in 0 .. n /\ ~(m <= m - 1)
      BY <2>2
    <3> QED OBVIOUS
  <2> QED BY <1>2, <2>2, <2>3
<1>4. Has(n)
  BY <1>3
<1> QED BY <1>4 DEF Has

\* The first of the largest numbers of a table.
LEMMA FirstLargest ==
  ASSUME NEW n \in Nat \ {0}, NEW f \in [1 .. n -> Nat]
  PROVE  \E k \in 1 .. n : \A l \in 1 .. n : f[l] < f[k] \/ (f[l] = f[k] /\ k <= l)
<1>1. PICK b \in Nat : \A k \in 1 .. n : f[k] <= b
  BY TableBounded
<1> DEFINE I == {b - f[k] : k \in 1 .. n}
<1>2. I \in SUBSET Nat /\ I # {}
  <2>1. \A k \in 1 .. n : b - f[k] \in Nat
    BY <1>1
  <2>2. b - f[1] \in I
    OBVIOUS
  <2> QED BY <2>1, <2>2
<1>3. PICK v \in I : \A y \in I : v <= y
  BY <1>2, Least
<1>4. PICK m \in 1 .. n : v = b - f[m]
  BY <1>3
<1>5. \A l \in 1 .. n : f[l] <= f[m]
  <2> SUFFICES ASSUME NEW l \in 1 .. n PROVE f[l] <= f[m]
    OBVIOUS
  <2> v <= b - f[l]
    BY <1>3
  <2> f[l] \in Nat /\ f[m] \in Nat
    OBVIOUS
  <2> QED BY <1>4
<1> HIDE DEF I
<1> DEFINE J == {k \in 1 .. n : f[k] = f[m]}
<1>6. J \in SUBSET Nat /\ J # {}
  OBVIOUS
<1>7. PICK k \in J : \A y \in J : k <= y
  BY <1>6, Least
<1>8. ASSUME NEW l \in 1 .. n PROVE f[l] < f[k] \/ (f[l] = f[k] /\ k <= l)
  <2> f[l] \in Nat /\ f[m] \in Nat /\ f[k] = f[m] /\ f[l] <= f[m]
    BY <1>5
  <2>1. CASE f[l] = f[m]
    BY <1>7, <2>1
  <2>2. CASE f[l] # f[m]
    BY <2>2
  <2> QED BY <2>1, <2>2
<1> QED BY <1>8

\* The first place of an element, and 0 if it is nowhere: what SelectInSeq returns.
LEMMA FirstPlace ==
  ASSUME NEW S, NEW s \in Seq(S), NEW c
  PROVE  LET I == {i \in 1 .. Len(s) : s[i] = c}
             n == IF I # {} THEN Min(I) ELSE 0
         IN  /\ n \in 0 .. Len(s)
             /\ n # 0 => s[n] = c /\ \A i \in 1 .. n - 1 : s[i] # c
             /\ n = 0 => \A i \in 1 .. Len(s) : s[i] # c
<1> DEFINE I == {i \in 1 .. Len(s) : s[i] = c}
           n == IF I # {} THEN Min(I) ELSE 0
<1>1. Len(s) \in Nat /\ I \in SUBSET Nat
  BY LenProperties
<1>2. /\ n \in 0 .. Len(s)
      /\ n # 0 => s[n] = c /\ \A i \in 1 .. n - 1 : s[i] # c
      /\ n = 0 => \A i \in 1 .. Len(s) : s[i] # c
  <2>1. CASE I = {}
    BY <1>1, <2>1
  <2>2. CASE I # {}
    <3>1. Min(I) \in I /\ \A y \in I : Min(I) <= y
      BY <1>1, <2>2, Least
    <3> DEFINE m == Min(I)
    <3>2. n = m /\ m \in 1 .. Len(s) /\ s[m] = c
      BY <2>2, <3>1
    <3>3. \A i \in 1 .. Len(s) : s[i] = c => m <= i
      BY <3>1
    <3> HIDE DEF m, n
    <3> QED BY <1>1, <3>2, <3>3
  <2> QED BY <2>1, <2>2
<1> QED BY <1>2

\* Disjoint sets: the sizes add up.
LEMMA Disjoint ==
  ASSUME NEW A, NEW B, IsFiniteSet(A), IsFiniteSet(B), A \cap B = {}
  PROVE  IsFiniteSet(A \cup B) /\ Cardinality(A \cup B) = Cardinality(A) + Cardinality(B)
<1>1. /\ IsFiniteSet(A \cup B)
      /\ Cardinality(A \cup B) = Cardinality(A) + Cardinality(B) - Cardinality(A \cap B)
  BY FS_Union
<1>2. Cardinality(A) \in Nat /\ Cardinality(B) \in Nat
  BY FS_CardinalityType
<1>3. Cardinality(A \cap B) = 0
  BY FS_EmptySet
<1> QED BY <1>1, <1>2, <1>3

\* substr: a part of a string.
LEMMA Part ==
  ASSUME NEW S, NEW s \in Seq(S), NEW m \in 1 .. Len(s) + 1, NEW n \in m - 1 .. Len(s)
  PROVE  /\ SubSeq(s, m, n) \in Seq(S) /\ Len(SubSeq(s, m, n)) = n - m + 1
         /\ \A i \in 1 .. n - m + 1 : SubSeq(s, m, n)[i] = s[m + i - 1]
<1>1. Len(s) \in Nat /\ \A i \in 1 .. Len(s) : s[i] \in S
  BY LenProperties, ElementOfSeq
<1>2. m \in Int /\ n \in Int /\ \A i \in m .. n : s[i] \in S
  BY <1>1
<1>3. /\ SubSeq(s, m, n) \in Seq(S)
      /\ Len(SubSeq(s, m, n)) = IF m <= n THEN n - m + 1 ELSE 0
      /\ \A i \in 1 .. n - m + 1 : SubSeq(s, m, n)[i] = s[m + i - 1]
  BY <1>2, SubSeqProperties
<1> QED BY <1>1, <1>3

\* A list is put behind another one.
LEMMA Joined ==
  ASSUME NEW T, NEW s \in Seq(T), NEW t \in Seq(T), NEW r, r = s \o t
  PROVE  /\ r \in Seq(T) /\ Len(s) \in Nat /\ Len(t) \in Nat /\ Len(r) = Len(s) + Len(t)
         /\ \A i \in 1 .. Len(s) : r[i] = s[i]
         /\ \A i \in 1 .. Len(t) : r[Len(s) + i] = t[i]
<1>1. Len(s) \in Nat /\ Len(t) \in Nat
  BY LenProperties
<1>2. /\ s \o t \in Seq(T) /\ Len(s \o t) = Len(s) + Len(t)
      /\ \A i \in 1 .. Len(s) + Len(t) : (s \o t)[i] = IF i <= Len(s) THEN s[i] ELSE t[i - Len(s)]
  BY ConcatProperties
<1>3. \A i \in 1 .. Len(t) : Len(s) + i \in 1 .. Len(s) + Len(t) /\ ~(Len(s) + i <= Len(s))
                               /\ (Len(s) + i) - Len(s) = i
  BY <1>1
<1>4. \A i \in 1 .. Len(s) : i \in 1 .. Len(s) + Len(t) /\ i <= Len(s)
  BY <1>1
<1> QED BY <1>1, <1>2, <1>3, <1>4

\* Division of a natural number.
LEMMA Divided ==
  ASSUME NEW k \in Nat \ {0}, NEW x \in Nat
  PROVE  /\ x \div k \in Nat /\ x % k \in 0 .. k - 1 /\ x = ((x \div k) * k) + (x % k)
<1> DEFINE q == x \div k
           s == x % k
<1>1. q \in Int /\ s \in 0 .. k - 1 /\ x = k * q + s
  OBVIOUS
<1> HIDE DEF q, s
<1>2. q >= 0
  <2> SUFFICES ASSUME q <= -1 PROVE FALSE
    BY <1>1
  <2> k * q <= 0 - k
    BY <1>1
  <2> QED BY <1>1
<1>3. k * q = q * k
  BY <1>1
<1>4. q \in Nat /\ s \in 0 .. k - 1 /\ x = (q * k) + s
  BY <1>1, <1>2, <1>3
<1> QED BY <1>4 DEF q, s

\* A quotient and its remainder are the only ones.
LEMMA Quotient ==
  ASSUME NEW k \in Nat \ {0}, NEW a \in Nat, NEW r \in Nat, r < k
  PROVE  ((a * k) + r) \div k = a /\ ((a * k) + r) % k = r
<1> DEFINE x == (a * k) + r
           q == x \div k
           s == x % k
<1>1. x \in Nat /\ q \in Int /\ s \in 0 .. k - 1 /\ x = k * q + s
  <2> a * k \in Nat
    OBVIOUS
  <2> QED OBVIOUS
<1> HIDE DEF x, q, s
<1>2. x = (k * a) + r
  BY DEF x
<1>3. k * (q - a) = r - s
  <2> k * (q - a) = (k * q) - (k * a)
    BY <1>1
  <2> k * q \in Int /\ k * a \in Int
    BY <1>1
  <2> QED BY <1>1, <1>2
<1>4. PICK d \in Int : d = q - a
  BY <1>1
<1>5. r - s < k /\ r - s > 0 - k
  BY <1>1
<1>6. ~(d >= 1)
  <2> SUFFICES ASSUME d >= 1 PROVE FALSE
    OBVIOUS
  <2> k * d >= k
    OBVIOUS
  <2> QED BY <1>1, <1>3, <1>4, <1>5
<1>7. ~(d <= -1)
  <2> SUFFICES ASSUME d <= -1 PROVE FALSE
    OBVIOUS
  <2> k * d <= 0 - k
    OBVIOUS
  <2> QED BY <1>1, <1>3, <1>4, <1>5
<1>8. d = 0
  BY <1>6, <1>7
<1>9. q = a /\ s = r
  <2> k * d = 0
    BY <1>8
  <2> QED BY <1>1, <1>3, <1>4, <1>8
<1> QED BY <1>9 DEF q, s, x

\* A multiple grows by its unit.
LEMMA Multiples ==
  ASSUME NEW w \in Nat
  PROVE  /\ 0 * w = 0
         /\ \A m \in Nat : m * w \in Nat /\ (m + 1) * w = (m * w) + w
         /\ \A m, n \in Nat : m <= n => m * w <= n * w
<1>1. ASSUME NEW m \in Nat, NEW n \in Nat, m <= n PROVE m * w <= n * w
  <2> PICK d \in Nat : d = n - m
    BY <1>1
  <2>1. n = m + d
    OBVIOUS
  <2>2. (m + d) * w = (m * w) + (d * w) /\ d * w \in Nat /\ m * w \in Nat
    OBVIOUS
  <2> QED BY <2>1, <2>2
<1> QED BY <1>1
=============================================================================
