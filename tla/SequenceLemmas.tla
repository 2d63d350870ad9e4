---------------------------- MODULE SequenceLemmas ----------------------------
(***************************************************************************)
(* Facts about numbers and sequences that several of the proofs need: the  *)
(* least element of a set of numbers, induction as a set of numbers, what  *)
(* sequences consist of that are one longer or one shorter, and what       *)
(* FlattenSeq makes.                                                       *)
(***************************************************************************)
EXTENDS Integers, SequencesExt, SequenceTheorems, WellFoundedInduction, TLAPS

LEMMA LeastExists ==
  ASSUME NEW T \in SUBSET Nat, T # {}
  PROVE  \E q \in T : \A l \in T : q <= l
<1> DEFINE R == OpToRel(<, Nat)
<1>1. PICK q \in T : \A l \in T : <<l, q>> \notin R
  <2>1. IsWellFoundedOn(R, Nat)
    BY NatLessThanWellFounded
  <2> HIDE DEF R
  <2> QED
    BY <2>1, WFMin
<1>2. ASSUME NEW l \in T PROVE q <= l
  <2>1. ~(l < q)
    BY <1>1 DEF OpToRel
  <2> QED
    BY <2>1
<1> QED
  BY <1>2

LEMMA FirstExists ==
  ASSUME NEW s, NEW C, NEW p \in Nat, NEW e \in Int,
         NEW q \in p..e, s[q] \in C
  PROVE  \E k \in p..e : s[k] \in C /\ \A l \in p..(k - 1) : s[l] \notin C
<1> DEFINE T == {k \in p..e : s[k] \in C}
<1>1. T \in SUBSET Nat /\ T # {}
  OBVIOUS
<1>2. PICK k \in T : \A l \in T : k <= l
  <2> HIDE DEF T
  <2> QED
    BY <1>1, LeastExists
<1>3. k \in p..e /\ s[k] \in C
  OBVIOUS
<1>4. ASSUME NEW l \in p..(k - 1) PROVE s[l] \notin C
  <2>1. l \in p..e /\ ~(k <= l)
    BY <1>3
  <2> QED
    BY <1>2, <2>1
<1> QED
  BY <1>3, <1>4

\* A set with a number's successor for each of its numbers, up to n.
LEMMA UpTo ==
  ASSUME NEW n \in Nat, NEW G, 1 \in G,
         \A i \in 1..(n - 1) : i \in G => i + 1 \in G
  PROVE  1..n \subseteq G
<1> DEFINE T == (1..n) \ G
<1>1. SUFFICES ASSUME T # {} PROVE FALSE
  OBVIOUS
<1>2. T \in SUBSET Nat
  OBVIOUS
<1>3. PICK q \in T : \A l \in T : q <= l
  <2> HIDE DEF T
  <2> QED
    BY <1>1, <1>2, LeastExists
<1>4. q \in 1..n /\ q \notin G /\ q # 1
  OBVIOUS
<1>5. q - 1 \in 1..(n - 1) /\ q - 1 \notin T
  BY <1>3, <1>4
<1>6. q - 1 \in G
  BY <1>5
<1>7. (q - 1) + 1 \in G
  BY <1>5, <1>6
<1> QED
  BY <1>4, <1>7
-----------------------------------------------------------------------------
IsSequence(s) == \E S : s \in Seq(S)

\* t is s with one more element.
Longer(s, e, t) ==
  /\ IsSequence(t)
  /\ Len(s) \in Nat /\ Len(t) = Len(s) + 1
  /\ DOMAIN s = 1..Len(s) /\ DOMAIN t = 1..(Len(s) + 1)
  /\ \A k \in 1..Len(s) : t[k] = s[k]
  /\ t[Len(s) + 1] = e

LEMMA OneMore ==
  ASSUME NEW s, IsSequence(s), NEW e
  PROVE  Longer(s, e, Append(s, e)) /\ Longer(s, e, s \o <<e>>)
<1>1. PICK S : s \in Seq(S)
  BY DEF IsSequence
<1> DEFINE T == S \cup {e}
<1>2. s \in Seq(T) /\ e \in T
  BY <1>1
<1> HIDE DEF T
<1>3. Append(s, e) \in Seq(T) /\ s \o <<e>> \in Seq(T)
  BY <1>2
<1>4. IsSequence(Append(s, e)) /\ IsSequence(s \o <<e>>)
  BY <1>3 DEF IsSequence
<1>5. Longer(s, e, Append(s, e))
  BY <1>2, <1>4 DEF Longer
<1>6. Longer(s, e, s \o <<e>>)
  BY <1>2, <1>4 DEF Longer
<1> QED
  BY <1>5, <1>6

LEMMA AppendElements ==
  ASSUME NEW s, IsSequence(s), NEW x
  PROVE  /\ IsSequence(Append(s, x))
         /\ \A j \in DOMAIN Append(s, x) :
              (j \in DOMAIN s /\ Append(s, x)[j] = s[j]) \/ Append(s, x)[j] = x
<1>1. Longer(s, x, Append(s, x))
  BY OneMore
<1> QED
  BY <1>1 DEF Longer

LEMMA TailElements ==
  ASSUME NEW s, IsSequence(s), s # <<>>
  PROVE  /\ IsSequence(Tail(s))
         /\ Len(s) \in Nat /\ Len(Tail(s)) = Len(s) - 1
         /\ 1 \in DOMAIN s /\ Head(s) = s[1]
         /\ \A j \in DOMAIN Tail(s) : j + 1 \in DOMAIN s /\ Tail(s)[j] = s[j + 1]
<1> PICK S : s \in Seq(S)
  BY DEF IsSequence
<1>1. Len(s) \in Nat /\ Len(s) # 0
  BY EmptySeq
<1>2. Tail(s) \in Seq(S) /\ Len(Tail(s)) = Len(s) - 1
  BY <1>1
<1>3. \A j \in 1..(Len(s) - 1) : Tail(s)[j] = s[j + 1]
  BY <1>1
<1> QED
  BY <1>1, <1>2, <1>3 DEF IsSequence
LEMMA CommonSet ==
  ASSUME NEW s, IsSequence(s), NEW t, IsSequence(t)
  PROVE  \E S : s \in Seq(S) /\ t \in Seq(S)
<1>1. PICK S, T : s \in Seq(S) /\ t \in Seq(T)
  BY DEF IsSequence
<1>2. s \in Seq(S \cup T) /\ t \in Seq(S \cup T)
  BY <1>1
<1> QED
  BY <1>2

LEMMA ConcatElements ==
  ASSUME NEW s, IsSequence(s), NEW t, IsSequence(t)
  PROVE  /\ IsSequence(s \o t)
         /\ Len(s) \in Nat /\ Len(t) \in Nat
         /\ Len(s \o t) = Len(s) + Len(t)
         /\ DOMAIN (s \o t) = 1..(Len(s) + Len(t))
         /\ \A j \in 1..Len(s) : (s \o t)[j] = s[j]
         /\ \A j \in 1..Len(t) : (s \o t)[Len(s) + j] = t[j]
<1> PICK S : s \in Seq(S) /\ t \in Seq(S)
  BY CommonSet
<1>1. s \o t \in Seq(S)
  OBVIOUS
<1> QED
  BY <1>1 DEF IsSequence

\* A sequence with two more elements.
LEMMA TwoMore ==
  ASSUME NEW S, NEW s \in Seq(S), NEW b \in S, NEW c \in S
  PROVE  /\ s \o <<b, c>> \in Seq(S) /\ Len(s \o <<b, c>>) = Len(s) + 2
         /\ \A j \in 1..Len(s) : (s \o <<b, c>>)[j] = s[j]
         /\ (s \o <<b, c>>)[Len(s) + 1] = b /\ (s \o <<b, c>>)[Len(s) + 2] = c
<1> DEFINE t == <<b, c>>
<1>1. t \in Seq(S) /\ Len(t) = 2 /\ t[1] = b /\ t[2] = c
  OBVIOUS
<1> HIDE DEF t
<1>2. s \o t \in Seq(S) /\ IsSequence(s) /\ IsSequence(t)
  BY <1>1 DEF IsSequence
<1>3. /\ Len(s \o t) = Len(s) + 2
      /\ \A j \in 1..Len(s) : (s \o t)[j] = s[j]
      /\ \A j \in 1..2 : (s \o t)[Len(s) + j] = t[j]
  <2>1. /\ Len(s \o t) = Len(s) + Len(t)
        /\ \A j \in 1..Len(s) : (s \o t)[j] = s[j]
        /\ \A j \in 1..Len(t) : (s \o t)[Len(s) + j] = t[j]
    BY <1>2, ConcatElements
  <2> QED
    BY <1>1, <2>1, Zenon
<1>4. (s \o t)[Len(s) + 1] = b /\ (s \o t)[Len(s) + 2] = c
  BY <1>1, <1>3
<1> QED
  BY <1>2, <1>3, <1>4 DEF t

LEMMA SubSeqElements ==
  ASSUME NEW s, IsSequence(s), NEW m \in Nat \ {0}, NEW n \in Nat,
         n <= Len(s), m <= n + 1
  PROVE  /\ IsSequence(SubSeq(s, m, n))
         /\ Len(SubSeq(s, m, n)) = n + 1 - m
         /\ DOMAIN SubSeq(s, m, n) = 1..(n + 1 - m)
         /\ \A j \in 1..(n + 1 - m) : SubSeq(s, m, n)[j] = s[m - 1 + j]
<1> PICK S : s \in Seq(S)
  BY DEF IsSequence
<1>1. \A i \in m..n : s[i] \in S
  OBVIOUS
<1>2. /\ SubSeq(s, m, n) \in Seq(S)
      /\ Len(SubSeq(s, m, n)) = IF m <= n THEN n - m + 1 ELSE 0
      /\ \A i \in 1..(n - m + 1) : SubSeq(s, m, n)[i] = s[m + i - 1]
  BY <1>1, SubSeqProperties
<1>3. Len(SubSeq(s, m, n)) = n + 1 - m
  BY <1>2
<1>4. \A j \in 1..(n + 1 - m) : SubSeq(s, m, n)[j] = s[m - 1 + j]
  <2> SUFFICES ASSUME NEW j \in 1..(n + 1 - m)
               PROVE  SubSeq(s, m, n)[j] = s[m - 1 + j]
    OBVIOUS
  <2>1. j \in 1..(n - m + 1) /\ m + j - 1 = m - 1 + j
    OBVIOUS
  <2> QED
    BY <1>2, <2>1
<1> QED
  BY <1>2, <1>3, <1>4 DEF IsSequence

\* What is behind the first k elements.
LEMMA SuffixElements ==
  ASSUME NEW s, IsSequence(s), NEW k \in 0..Len(s)
  PROVE  /\ IsSequence(SubSeq(s, k + 1, Len(s)))
         /\ Len(SubSeq(s, k + 1, Len(s))) = Len(s) - k
         /\ \A j \in 1..(Len(s) - k) : SubSeq(s, k + 1, Len(s))[j] = s[k + j]
<1> PICK n : n = Len(s)
  OBVIOUS
<1>1. n \in Nat /\ n = Len(s) /\ k \in 0..n
  BY DEF IsSequence
<1>2. k + 1 \in Nat \ {0} /\ n <= n /\ k + 1 <= n + 1 /\ n + 1 - (k + 1) = n - k
  BY ONLY <1>1
<1>3. /\ IsSequence(SubSeq(s, k + 1, n))
      /\ Len(SubSeq(s, k + 1, n)) = n - k
      /\ \A j \in 1..(n - k) : SubSeq(s, k + 1, n)[j] = s[(k + 1) - 1 + j]
  <2>1. n <= Len(s)
    BY ONLY <1>1
  <2>2. /\ IsSequence(SubSeq(s, k + 1, n))
        /\ Len(SubSeq(s, k + 1, n)) = n + 1 - (k + 1)
        /\ \A j \in 1..(n + 1 - (k + 1)) : SubSeq(s, k + 1, n)[j] = s[(k + 1) - 1 + j]
    BY <1>1, <1>2, <2>1, SubSeqElements
  <2> QED
    BY <1>2, <2>2, Zenon
<1>4. \A j \in 1..(n - k) : (k + 1) - 1 + j = k + j
  BY ONLY <1>1
<1> QED
  BY <1>1, <1>3, <1>4, Zenon

LEMMA EqualElements ==
  ASSUME NEW s, IsSequence(s), NEW t, IsSequence(t), Len(s) = Len(t),
         \A j \in 1..Len(s) : s[j] = t[j]
  PROVE  s = t
<1> PICK S : s \in Seq(S) /\ t \in Seq(S)
  BY CommonSet
<1> QED
  BY SeqEqual

LEMMA PrefixElements ==
  ASSUME NEW s, IsSequence(s), NEW t, IsSequence(t)
  PROVE  IsPrefix(s, t) <=>
           Len(s) <= Len(t) /\ \A j \in 1..Len(s) : s[j] = t[j]
<1> DEFINE n == Len(s)
           a == SubSeq(s, 1, n)
           b == SubSeq(t, 1, n)
<1>1. n \in Nat
  BY DEF IsSequence
<1>2. /\ IsSequence(a) /\ Len(a) = n
      /\ \A j \in 1..n : a[j] = s[j]
  <2>1. \A j \in 1..n : 1 - 1 + j = j
    BY <1>1
  <2> QED
    BY <1>1, <2>1, SubSeqElements
<1>3. CASE n <= Len(t)
  <2>1. /\ IsSequence(b) /\ Len(b) = n
        /\ \A j \in 1..n : b[j] = t[j]
    <3>1. \A j \in 1..n : 1 - 1 + j = j
      BY <1>1
    <3> QED
      BY <1>1, <1>3, <3>1, SubSeqElements
  <2>2. a = b <=> \A j \in 1..n : s[j] = t[j]
    <3> HIDE DEF a, b, n
    <3> QED
      BY <1>2, <2>1, EqualElements
  <2> QED
    BY <1>3, <2>2 DEF IsPrefix
<1>4. CASE ~(n <= Len(t))
  BY <1>4 DEF IsPrefix
<1> QED
  BY <1>3, <1>4
-----------------------------------------------------------------------------
(* FlattenSeq.                                                             *)

\* What FlattenSeq computes for the first i of ss.
Flattens(ss, n, f) ==
  f = [i \in 1..n |-> IF i = 1 THEN ss[i] ELSE f[i - 1] \o ss[i]]

LEMMA FlattensExists ==
  ASSUME NEW ss, NEW n \in Nat \ {0}
  PROVE  \E f : Flattens(ss, n, f)
<1> DEFINE G == {m \in 1..n : \E f : Flattens(ss, m, f)}
<1>1. 1 \in G
  <2> DEFINE f == [i \in 1..1 |-> ss[1]]
  <2>1. f = [i \in 1..1 |-> IF i = 1 THEN ss[i] ELSE f[i - 1] \o ss[i]]
    OBVIOUS
  <2>2. Flattens(ss, 1, f)
    BY <2>1 DEF Flattens
  <2> QED
    BY <2>2
<1>2. ASSUME NEW m \in 1..(n - 1), m \in G PROVE m + 1 \in G
  <2>1. PICK f : Flattens(ss, m, f)
    BY <1>2
  <2> DEFINE g == [i \in 1..(m + 1) |-> IF i = m + 1 THEN f[m] \o ss[m + 1] ELSE f[i]]
  <2>2. \A i \in 1..m : f[i] = IF i = 1 THEN ss[i] ELSE f[i - 1] \o ss[i]
    BY <2>1 DEF Flattens
  <2>3. \A i \in 1..(m + 1) : g[i] = IF i = 1 THEN ss[i] ELSE g[i - 1] \o ss[i]
    <3> SUFFICES ASSUME NEW i \in 1..(m + 1)
                 PROVE  g[i] = IF i = 1 THEN ss[i] ELSE g[i - 1] \o ss[i]
      OBVIOUS
    <3>1. CASE i = m + 1
      <4>1. i - 1 = m /\ i # 1 /\ m \in 1..(m + 1) /\ m # m + 1
        BY <3>1
      <4>2. g[m] = f[m]
        BY <4>1
      <4>3. g[i] = f[m] \o ss[i] /\ g[i - 1] = f[m]
        BY <3>1, <4>1, <4>2
      <4> QED
        BY <4>1, <4>3
    <3>2. CASE i # m + 1 /\ i # 1
      <4>1. g[i] = f[i] /\ g[i - 1] = f[i - 1] /\ i \in 1..m
        BY <3>2
      <4> QED
        BY <2>2, <3>2, <4>1
    <3>3. CASE i # m + 1 /\ i = 1
      <4>1. g[i] = f[i] /\ i \in 1..m
        BY <3>3
      <4> QED
        BY <2>2, <3>3, <4>1
    <3> QED
      BY <3>1, <3>2, <3>3
  <2>4. g = [i \in 1..(m + 1) |-> g[i]]
    OBVIOUS
  <2> HIDE DEF g
  <2>5. g = [i \in 1..(m + 1) |-> IF i = 1 THEN ss[i] ELSE g[i - 1] \o ss[i]]
    BY <2>3, <2>4
  <2>6. Flattens(ss, m + 1, g)
    BY <2>5 DEF Flattens
  <2> QED
    BY <2>6
<1> HIDE DEF G
<1>3. 1..n \subseteq G
  BY <1>1, <1>2, UpTo
<1> QED
  BY <1>3 DEF G

\* FlattenSeq puts one sequence after the other.
LEMMA FlattenSteps ==
  ASSUME NEW ss, IsSequence(ss), ss # <<>>
  PROVE  \E f : /\ f[1] = ss[1]
                /\ \A i \in 2..Len(ss) : f[i] = f[i - 1] \o ss[i]
                /\ FlattenSeq(ss) = f[Len(ss)]
<1> PICK S : ss \in Seq(S)
  BY DEF IsSequence
<1> DEFINE n == Len(ss)
           f == CHOOSE f : f = [i \in 1..n |-> IF i = 1 THEN ss[i] ELSE f[i - 1] \o ss[i]]
<1>1. n \in Nat \ {0}
  BY EmptySeq
<1>2. FlattenSeq(ss) = f[n]
  BY <1>1 DEF FlattenSeq
<1>3. Flattens(ss, n, f)
  BY <1>1, FlattensExists, Zenon DEF Flattens
<1> HIDE DEF f
<1>4. \A i \in 1..n : f[i] = IF i = 1 THEN ss[i] ELSE f[i - 1] \o ss[i]
  BY <1>3, Zenon DEF Flattens
<1>5. 1 \in 1..n /\ \A i \in 2..n : i \in 1..n /\ i # 1
  BY <1>1
<1>6. /\ f[1] = ss[1]
      /\ \A i \in 2..n : f[i] = f[i - 1] \o ss[i]
  BY <1>4, <1>5, Zenon
<1> QED
  BY <1>2, <1>6

LEMMA FlattenOfSeq ==
  ASSUME NEW S, NEW ss \in Seq(Seq(S))
  PROVE  FlattenSeq(ss) \in Seq(S)
<1>1. CASE ss = <<>>
  BY <1>1 DEF FlattenSeq
<1>2. CASE ss # <<>>
  <2>1. IsSequence(ss)
    BY DEF IsSequence
  <2>2. PICK f : /\ f[1] = ss[1]
                 /\ \A i \in 2..Len(ss) : f[i] = f[i - 1] \o ss[i]
                 /\ FlattenSeq(ss) = f[Len(ss)]
    BY <1>2, <2>1, FlattenSteps
  <2> DEFINE G == {i \in 1..Len(ss) : f[i] \in Seq(S)}
  <2>3. Len(ss) \in Nat /\ Len(ss) # 0 /\ \A i \in 1..Len(ss) : ss[i] \in Seq(S)
    BY <1>2, EmptySeq
  <2>4. 1 \in G
    <3>1. 1 \in 1..Len(ss) /\ f[1] \in Seq(S)
      BY <2>2, <2>3
    <3> QED
      BY <3>1
  <2>5. ASSUME NEW i \in 1..(Len(ss) - 1), i \in G PROVE i + 1 \in G
    <3>1. i + 1 \in 2..Len(ss) /\ (i + 1) - 1 = i /\ i + 1 \in 1..Len(ss)
      BY <2>3
    <3>2. f[i + 1] = f[i] \o ss[i + 1]
      BY <2>2, <3>1
    <3>3. f[i + 1] \in Seq(S)
      BY <2>3, <2>5, <3>1, <3>2
    <3> QED
      BY <3>1, <3>3
  <2> HIDE DEF G
  <2>6. 1..Len(ss) \subseteq G
    BY <2>3, <2>4, <2>5, UpTo
  <2>7. Len(ss) \in G
    <3>1. Len(ss) \in 1..Len(ss)
      BY <2>3
    <3> QED
      BY <2>6, <3>1
  <2> QED
    BY <2>2, <2>7 DEF G
<1> QED
  BY <1>1, <1>2

\* The same, counting from nothing.
LEMMA FlattenParts ==
  ASSUME NEW S, NEW ss \in Seq(Seq(S))
  PROVE  \E f : /\ f[0] = <<>>
                /\ \A i \in 1..Len(ss) : f[i] = f[i - 1] \o ss[i]
                /\ FlattenSeq(ss) = f[Len(ss)]
<1>1. CASE ss = <<>>
  <2> DEFINE f == [i \in {0} |-> <<>>]
  <2>1. f[0] = <<>> /\ Len(ss) = 0 /\ FlattenSeq(ss) = <<>>
    BY <1>1 DEF FlattenSeq
  <2> HIDE DEF f
  <2>2. \A i \in 1..Len(ss) : f[i] = f[i - 1] \o ss[i]
    BY <2>1
  <2> QED
    BY <2>1, <2>2
<1>2. CASE ss # <<>>
  <2>0. IsSequence(ss)
    BY DEF IsSequence
  <2>1. PICK g : /\ g[1] = ss[1]
                 /\ \A i \in 2..Len(ss) : g[i] = g[i - 1] \o ss[i]
                 /\ FlattenSeq(ss) = g[Len(ss)]
    BY <1>2, <2>0, FlattenSteps
  <2> DEFINE f == [i \in 0..Len(ss) |-> IF i = 0 THEN <<>> ELSE g[i]]
  <2>2. Len(ss) \in Nat \ {0}
    BY <1>2, EmptySeq
  <2>3. f[0] = <<>> /\ \A i \in 1..Len(ss) : f[i] = g[i]
    BY <2>2
  <2> HIDE DEF f
  <2>4. ASSUME NEW i \in 1..Len(ss) PROVE f[i] = f[i - 1] \o ss[i]
    <3>1. CASE i = 1
      <4>1. f[i] = ss[i] /\ f[i - 1] = <<>>
        BY <2>1, <2>3, <3>1
      <4>2. ss[i] \in Seq(S)
        OBVIOUS
      <4>3. ss[i] = <<>> \o ss[i]
        BY ONLY <4>2
      <4> QED
        BY <4>1, <4>3, Zenon
    <3>2. CASE i # 1
      <4>1. i \in 2..Len(ss) /\ i - 1 \in 1..Len(ss)
        BY <2>2, <3>2
      <4>2. f[i] = g[i] /\ f[i - 1] = g[i - 1]
        BY <2>3, <4>1
      <4>3. g[i] = g[i - 1] \o ss[i]
        BY <2>1, <4>1
      <4> QED
        BY <4>2, <4>3
    <3> QED
      BY <3>1, <3>2
  <2>5. f[Len(ss)] = g[Len(ss)]
    BY <2>2, <2>3
  <2> QED
    BY <2>1, <2>3, <2>4, <2>5
<1> QED
  BY <1>1, <1>2
=============================================================================
