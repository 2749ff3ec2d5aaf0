--------------------------- MODULE StringLemmas ----------------------------
(***************************************************************************)
(* Facts about words: beginnings and ends of a word, the longest end of a   *)
(* text that a set of words knows, least and greatest elements of a set of *)
(* numbers, and a finite set listed in the order of its numbers.  They are *)
(* what the proofs about the Aho-Corasick automaton and the machines made  *)
(* from it keep using; no definition here models code.                     *)
(***************************************************************************)
EXTENDS Integers, Sequences, FiniteSets, FiniteSetTheorems, TLAPS, WellFoundedInduction

\* u is the beginning, the end of w.
Begins(u, w) == Len(u) <= Len(w) /\ \A i \in 1 .. Len(u) : u[i] = w[i]
Ends(u, w)   == Len(u) <= Len(w) /\ \A i \in 1 .. Len(u) : u[i] = w[Len(w) - Len(u) + i]

\* The sets module Matcher has.
SuffixSet(w) == {SubSeq(w, k, Len(w)) : k \in 1 .. Len(w) + 1}
PrefixSet(w) == {SubSeq(w, 1, k) : k \in 0 .. Len(w)}

PrefixClosed(T, C) ==
    /\ <<>> \in T
    /\ \A u \in Seq(C), c \in C : Append(u, c) \in T => u \in T

Longest(T, text) ==
    CHOOSE w \in SuffixSet(text) \cap T : \A v \in SuffixSet(text) \cap T : Len(v) <= Len(w)

-----------------------------------------------------------------------------
(* Induction.                                                              *)

\* A set of natural numbers that is not empty has a smallest element.
LEMMA LeastElement ==
    ASSUME NEW T, T \subseteq Nat, T # {}
    PROVE  \E m \in T : \A k \in T : m <= k
<1>1. OpToRel(<, Nat) = {ss \in Nat \X Nat : ss[1] < ss[2]}
  BY DEF OpToRel
<1>2. PICK m \in T : \A k \in T : ~ (<<k, m>> \in OpToRel(<, Nat))
  BY NatLessThanWellFounded, WFMin
<1>3. \A k \in T : ~ (k < m)
  BY <1>1, <1>2
<1> QED
  BY <1>3

\* One that is bounded has a largest.
LEMMA GreatestElement ==
    ASSUME NEW T, NEW b \in Nat, T \subseteq 0 .. b, T # {}
    PROVE  \E m \in T : \A k \in T : k <= m
<1> DEFINE U == {b - x : x \in T}
<1>1. U \subseteq Nat /\ U # {}
  OBVIOUS
<1>2. PICK m \in U : \A k \in U : m <= k
  BY <1>1, LeastElement
<1>3. PICK x \in T : m = b - x
  BY <1>2
<1>4. \A k \in T : k <= x
  BY <1>2, <1>3
<1> QED
  BY <1>4

\* The elements of a finite set can be listed in the order of a key.
LEMMA Enumeration ==
    ASSUME NEW C, IsFiniteSet(C), NEW b \in Nat, NEW g \in [C -> 0 .. b],
           \A c, d \in C : g[c] = g[d] => c = d
    PROVE  \E s \in [1 .. Cardinality(C) -> C] :
              /\ {s[i] : i \in DOMAIN s} = C
              /\ \A i, j \in DOMAIN s : i < j => g[s[i]] < g[s[j]]
<1> DEFINE Lists(S, k, s) == /\ s \in [1 .. k -> S]
                             /\ {s[i] : i \in 1 .. k} = S
                             /\ \A i, j \in 1 .. k : i < j => g[s[i]] < g[s[j]]
           Good(k) == \A S \in SUBSET C : Cardinality(S) = k => \E s : Lists(S, k, s)
           Bad == {k \in Nat : ~ Good(k)}
<1>1. Bad = {}
  <2> SUFFICES ASSUME Bad # {} PROVE FALSE
    OBVIOUS
  <2>1. PICK k \in Bad : \A l \in Bad : k <= l
    BY LeastElement, Bad \subseteq Nat
  <2>2. PICK S \in SUBSET C : Cardinality(S) = k /\ ~ \E s : Lists(S, k, s)
    BY <2>1
  <2>3. IsFiniteSet(S) /\ k \in Nat
    BY <2>1, FS_Subset
  <2>4. CASE S = {}
    <3>1. k = 0
      BY <2>2, <2>4, FS_EmptySet
    <3>2. Lists(S, k, [i \in 1 .. 0 |-> i])
      BY <2>4, <3>1
    <3> QED
      BY <2>2, <3>2
  <2>5. CASE S # {}
    <3> DEFINE G == {g[c] : c \in S}
    <3>1. G \subseteq 0 .. b /\ G # {}
      BY <2>5
    <3>2. PICK x \in G : \A y \in G : y <= x
      BY <3>1, GreatestElement
    <3>3. PICK m \in S : x = g[m]
      BY <3>2
    <3> DEFINE R == S \ {m}
    <3>4. IsFiniteSet(R) /\ Cardinality(R) = k - 1
      BY <2>2, <2>3, <3>3, FS_RemoveElement
    <3>5. k - 1 \in Nat
      BY <3>4, FS_CardinalityType
    <3>6. Good(k - 1)
      <4> HIDE DEF Good
      <4>1. ASSUME k - 1 \in Bad PROVE FALSE
        <5> HIDE DEF Bad
        <5> QED
          BY <2>1, <2>3, <4>1
      <4> QED
        BY <3>5, <4>1
    <3>7. PICK s : Lists(R, k - 1, s)
      BY <3>4, <3>6, R \in SUBSET C
    <3> DEFINE t == [i \in 1 .. k |-> IF i = k THEN m ELSE s[i]]
    <3>8. t \in [1 .. k -> S]
      BY <2>3, <3>3, <3>7
    <3>9. {t[i] : i \in 1 .. k} = S
      <4>1. ASSUME NEW c \in S PROVE \E i \in 1 .. k : t[i] = c
        <5>1. CASE c = m
          BY <3>5, <5>1, k \in 1 .. k
        <5>2. CASE c # m
          <6>1. PICK i \in 1 .. k - 1 : s[i] = c
            BY <3>7, <5>2
          <6> QED
            BY <2>3, <6>1
        <5> QED
          BY <5>1, <5>2
      <4> QED
        BY <3>8, <4>1
    <3>10. ASSUME NEW i \in 1 .. k, NEW j \in 1 .. k, i < j
           PROVE  g[t[i]] < g[t[j]]
      <4>1. i \in 1 .. k - 1 /\ i # k
        BY <2>3, <3>10
      <4>2. t[i] = s[i] /\ s[i] \in R
        BY <3>7, <4>1
      <4>3. CASE j = k
        <5>1. t[j] = m
          BY <4>3
        <5>2. g[s[i]] <= g[m] /\ g[s[i]] # g[m]
          BY <3>2, <3>3, <4>2
        <5>3. g[s[i]] \in 0 .. b /\ g[m] \in 0 .. b
          BY <4>2
        <5> QED
          BY <4>2, <5>1, <5>2, <5>3
      <4>4. CASE j # k
        <5>1. j \in 1 .. k - 1 /\ t[j] = s[j]
          BY <2>3, <4>4
        <5> QED
          BY <3>7, <3>10, <4>1, <4>2, <5>1
      <4> QED
        BY <4>3, <4>4
    <3>11. Lists(S, k, t)
      BY <3>8, <3>9, <3>10
    <3> HIDE DEF t
    <3> QED
      BY <2>2, <3>11
  <2> QED
    BY <2>4, <2>5
<1>2. Cardinality(C) \in Nat
  BY FS_CardinalityType
<1>3. PICK s : Lists(C, Cardinality(C), s)
  BY <1>1, <1>2
<1> QED
  BY <1>3

-----------------------------------------------------------------------------
(* Beginnings and ends.                                                    *)

\* The sequences SubSeq(w, k, Len(w)) are exactly the ends of w.
LEMMA SuffixIs ==
    ASSUME NEW C, NEW w \in Seq(C), NEW u \in Seq(C)
    PROVE  u \in SuffixSet(w) <=> Ends(u, w)
<1>1. ASSUME NEW k \in 1 .. Len(w) + 1
      PROVE  Ends(SubSeq(w, k, Len(w)), w)
  <2>1. Len(SubSeq(w, k, Len(w))) = Len(w) + 1 - k
    OBVIOUS
  <2>2. \A i \in 1 .. Len(w) + 1 - k : SubSeq(w, k, Len(w))[i] = w[k + i - 1]
    OBVIOUS
  <2>3. \A i \in 1 .. Len(w) + 1 - k : k + i - 1 = Len(w) - (Len(w) + 1 - k) + i
    OBVIOUS
  <2>4. \A i \in 1 .. Len(w) + 1 - k :
          SubSeq(w, k, Len(w))[i] = w[Len(w) - (Len(w) + 1 - k) + i]
    BY <2>2, <2>3
  <2>5. Len(w) + 1 - k <= Len(w)
    OBVIOUS
  <2> QED
    BY <2>1, <2>4, <2>5 DEF Ends
<1>2. ASSUME Ends(u, w)
      PROVE  u = SubSeq(w, Len(w) - Len(u) + 1, Len(w)) /\ Len(w) - Len(u) + 1 \in 1 .. Len(w) + 1
  BY <1>2 DEF Ends
<1> QED
  BY <1>1, <1>2 DEF SuffixSet

\* The sequences SubSeq(w, 1, k) are exactly the beginnings of w.
LEMMA PrefixIs ==
    ASSUME NEW C, NEW w \in Seq(C), NEW u \in Seq(C)
    PROVE  u \in PrefixSet(w) <=> Begins(u, w)
<1>1. ASSUME NEW k \in 0 .. Len(w)
      PROVE  Begins(SubSeq(w, 1, k), w)
  BY DEF Begins
<1>2. ASSUME Begins(u, w)
      PROVE  u = SubSeq(w, 1, Len(u)) /\ Len(u) \in 0 .. Len(w)
  BY <1>2 DEF Begins
<1> QED
  BY <1>1, <1>2 DEF PrefixSet

\* The beginnings of a string, one after the other.
LEMMA Beginnings ==
    ASSUME NEW C, NEW w \in Seq(C)
    PROVE  /\ SubSeq(w, 1, 0) = <<>> /\ SubSeq(w, 1, Len(w)) = w
           /\ \A k \in 0 .. Len(w) :
                 SubSeq(w, 1, k) \in Seq(C) /\ Len(SubSeq(w, 1, k)) = k /\ Begins(SubSeq(w, 1, k), w)
           /\ \A k \in 0 .. Len(w) - 1 :
                 w[k + 1] \in C /\ SubSeq(w, 1, k + 1) = Append(SubSeq(w, 1, k), w[k + 1])
<1>1. SubSeq(w, 1, 0) = <<>> /\ SubSeq(w, 1, Len(w)) = w
  OBVIOUS
<1>2. ASSUME NEW k \in 0 .. Len(w)
      PROVE  SubSeq(w, 1, k) \in Seq(C) /\ Len(SubSeq(w, 1, k)) = k /\ Begins(SubSeq(w, 1, k), w)
  BY DEF Begins
<1>3. ASSUME NEW k \in 0 .. Len(w) - 1
      PROVE  w[k + 1] \in C /\ SubSeq(w, 1, k + 1) = Append(SubSeq(w, 1, k), w[k + 1])
  OBVIOUS
<1> QED
  BY <1>1, <1>2, <1>3

\* Ends and beginnings of a word are words over the same characters.
LEMMA SuffixesAreWords ==
    ASSUME NEW C, NEW w \in Seq(C)
    PROVE  SuffixSet(w) \subseteq Seq(C) /\ PrefixSet(w) \subseteq Seq(C)
<1>1. \A k \in 1 .. Len(w) + 1 : SubSeq(w, k, Len(w)) \in Seq(C)
  OBVIOUS
<1>2. \A k \in 0 .. Len(w) : SubSeq(w, 1, k) \in Seq(C)
  OBVIOUS
<1> QED
  BY <1>1, <1>2 DEF SuffixSet, PrefixSet

\* Ends is an order, and the ends of one word are ordered by their lengths.
LEMMA EndsOrder ==
    ASSUME NEW C, NEW u \in Seq(C), NEW v \in Seq(C), NEW w \in Seq(C)
    PROVE  /\ Ends(w, w) /\ Ends(<<>>, w)
           /\ Ends(u, v) /\ Ends(v, w) => Ends(u, w)
           /\ Ends(u, w) /\ Ends(v, w) /\ Len(u) <= Len(v) => Ends(u, v)
           /\ Ends(u, w) /\ Ends(v, w) /\ Len(u) = Len(v) => u = v
<1>1. Ends(w, w) /\ Ends(<<>>, w)
  BY DEF Ends
<1>2. ASSUME Ends(u, v), Ends(v, w)
      PROVE  Ends(u, w)
  BY <1>2 DEF Ends
<1>3. ASSUME Ends(u, w), Ends(v, w), Len(u) <= Len(v)
      PROVE  Ends(u, v)
  BY <1>3 DEF Ends
<1>4. ASSUME Ends(u, w), Ends(v, w), Len(u) = Len(v)
      PROVE  u = v
  BY <1>4 DEF Ends
<1> QED
  BY <1>1, <1>2, <1>3, <1>4

\* An end of w and a character is an end of w and that character.
LEMMA EndsAppend ==
    ASSUME NEW C, NEW u \in Seq(C), NEW w \in Seq(C), NEW c \in C, NEW d \in C
    PROVE  /\ Ends(Append(u, d), Append(w, c)) <=> d = c /\ Ends(u, w)
           /\ Append(u, d) = Append(w, c) => u = w /\ d = c
<1>1. ASSUME Ends(u, w) PROVE Ends(Append(u, c), Append(w, c))
  BY <1>1 DEF Ends
<1>2. ASSUME Ends(Append(u, d), Append(w, c)) PROVE d = c /\ Ends(u, w)
  <2>1. Len(Append(u, d)) = Len(u) + 1 /\ Len(Append(w, c)) = Len(w) + 1 /\ Len(u) \in Nat /\ Len(w) \in Nat
    OBVIOUS
  <2>2. Append(u, d)[Len(u) + 1] = d /\ Append(w, c)[Len(w) + 1] = c
    OBVIOUS
  <2>3. \A i \in 1 .. Len(u) + 1 : Append(u, d)[i] = Append(w, c)[Len(w) - Len(u) + i]
    <3>1. \A i \in 1 .. Len(u) + 1 :
            Append(u, d)[i] = Append(w, c)[(Len(w) + 1) - (Len(u) + 1) + i]
      BY <1>2, <2>1 DEF Ends
    <3>2. (Len(w) + 1) - (Len(u) + 1) = Len(w) - Len(u)
      BY <2>1
    <3> QED
      BY <3>1, <3>2
  <2>4. Len(u) <= Len(w)
    BY <1>2, <2>1 DEF Ends
  <2>5. d = c
    BY <2>1, <2>2, <2>3
  <2>6. \A i \in 1 .. Len(u) : u[i] = w[Len(w) - Len(u) + i]
    BY <2>1, <2>3, <2>4
  <2> QED
    BY <2>4, <2>5, <2>6 DEF Ends
<1>3. ASSUME Append(u, d) = Append(w, c) PROVE u = w /\ d = c
  <2>1. Ends(Append(u, d), Append(w, c))
    BY <1>3, Append(u, d) \in Seq(C) DEF Ends
  <2>2. Len(u) = Len(w)
    <3>1. Len(Append(u, d)) = Len(u) + 1 /\ Len(Append(w, c)) = Len(w) + 1 /\ Len(u) \in Nat /\ Len(w) \in Nat
      OBVIOUS
    <3> QED
      BY <1>3, <3>1
  <2>3. d = c /\ Ends(u, w)
    BY <1>2, <2>1
  <2>4. \A i \in 1 .. Len(u) : u[i] = w[i]
    BY <2>2, <2>3 DEF Ends
  <2> QED
    BY <2>2, <2>3, <2>4
<1> QED
  BY <1>1, <1>2, <1>3

\* What the provers need to know of a word and its characters.
LEMMA WordFacts ==
    ASSUME NEW C, NEW w \in Seq(C)
    PROVE  /\ DOMAIN w = 1 .. Len(w) /\ Len(w) \in Nat
           /\ \A i \in 1 .. Len(w) : w[i] \in C
           /\ \A D : C \subseteq D => w \in Seq(D)
           /\ w # <<>> => 1 \in DOMAIN w /\ Head(w) = w[1] /\ Tail(w) \in Seq(C)
OBVIOUS

\* A list by its elements.
LEMMA ListIs ==
    ASSUME NEW S, NEW l \in Nat, NEW f \in [1 .. l -> S]
    PROVE  f \in Seq(S) /\ Len(f) = l
OBVIOUS

\* A word has one front and one last character.
LEMMA AppendIsInjective ==
    ASSUME NEW C, NEW u \in Seq(C), NEW w \in Seq(C), NEW c \in C, NEW d \in C,
           Append(u, d) = Append(w, c)
    PROVE  u = w /\ d = c
BY EndsAppend

\* A string that is not empty is what comes before its last character, and that.
LEMMA FrontAndLast ==
    ASSUME NEW C, NEW w \in Seq(C), w # <<>>
    PROVE  \E u \in Seq(C), c \in C : w = Append(u, c)
<1>1. SubSeq(w, 1, Len(w) - 1) \in Seq(C) /\ w[Len(w)] \in C
  OBVIOUS
<1>2. w = Append(SubSeq(w, 1, Len(w) - 1), w[Len(w)])
  OBVIOUS
<1> QED
  BY <1>1, <1>2

-----------------------------------------------------------------------------
(* The longest end of a text in a set of strings.                          *)

\* There is a longest end of a text in a set with the empty word, and it has
\* every other end of the text as its end.
LEMMA LongestIs ==
    ASSUME NEW C, NEW text \in Seq(C), NEW T, T \subseteq Seq(C), <<>> \in T
    PROVE  /\ Longest(T, text) \in T /\ Ends(Longest(T, text), text)
           /\ \A v \in T : Ends(v, text) => Ends(v, Longest(T, text))
<1> DEFINE S == SuffixSet(text) \cap T
           L == {Len(v) : v \in S}
<1>1. S \subseteq Seq(C) /\ \A v \in T : v \in S <=> Ends(v, text)
  BY SuffixIs
<1>2. <<>> \in S
  BY <1>1, EndsOrder
<1>3. L \subseteq 0 .. Len(text) /\ L # {}
  <2>1. ASSUME NEW v \in S PROVE Len(v) \in 0 .. Len(text)
    BY <1>1, Len(v) \in Nat DEF Ends
  <2> QED
    BY <1>2, <2>1
<1>4. PICK m \in L : \A k \in L : k <= m
  BY <1>3, GreatestElement, Len(text) \in Nat
<1>5. \E w \in S : \A v \in S : Len(v) <= Len(w)
  BY <1>4
<1>6. Longest(T, text) \in S /\ \A v \in S : Len(v) <= Len(Longest(T, text))
  BY <1>5 DEF Longest
<1>7. ASSUME NEW v \in T, Ends(v, text)
      PROVE  Ends(v, Longest(T, text))
  <2>1. v \in S /\ v \in Seq(C) /\ Longest(T, text) \in Seq(C) /\ Ends(Longest(T, text), text)
    BY <1>1, <1>6, <1>7
  <2>2. Len(v) <= Len(Longest(T, text))
    BY <1>6, <2>1
  <2> QED
    BY <1>7, <2>1, <2>2, EndsOrder
<1> QED
  BY <1>1, <1>6, <1>7

\* It is the only one.
LEMMA LongestUnique ==
    ASSUME NEW C, NEW text \in Seq(C), NEW T, T \subseteq Seq(C), <<>> \in T,
           NEW w \in T, Ends(w, text),
           \A v \in T : Ends(v, text) => Len(v) <= Len(w)
    PROVE  w = Longest(T, text)
<1>1. /\ Longest(T, text) \in T /\ Ends(Longest(T, text), text)
      /\ Ends(w, Longest(T, text))
  BY LongestIs
<1>2. w \in Seq(C) /\ Longest(T, text) \in Seq(C) /\ Len(Longest(T, text)) <= Len(w)
  BY <1>1
<1>3. Len(w) = Len(Longest(T, text))
  BY <1>1, <1>2, Len(w) \in Nat, Len(Longest(T, text)) \in Nat DEF Ends
<1> QED
  BY <1>1, <1>2, <1>3, EndsOrder

\* To know the longest end after a character it is enough to know the longest
\* end before it: what a scan that keeps one state relies on.
LEMMA LongestStep ==
    ASSUME NEW C, NEW text \in Seq(C), NEW c \in C,
           NEW T, T \subseteq Seq(C), PrefixClosed(T, C)
    PROVE  Longest(T, Append(text, c)) = Longest(T, Append(Longest(T, text), c))
<1> DEFINE l == Longest(T, text)
           w == Longest(T, Append(l, c))
<1>0. <<>> \in T
  BY DEF PrefixClosed
<1>1. l \in T /\ l \in Seq(C) /\ Ends(l, text) /\ \A v \in T : Ends(v, text) => Ends(v, l)
  BY <1>0, LongestIs
<1>2. Append(text, c) \in Seq(C) /\ Append(l, c) \in Seq(C)
  BY <1>1
<1>3. w \in T /\ w \in Seq(C) /\ Ends(w, Append(l, c)) /\ \A v \in T : Ends(v, Append(l, c)) => Ends(v, w)
  BY <1>0, <1>2, LongestIs
<1> HIDE DEF l, w
<1>4. Ends(Append(l, c), Append(text, c))
  BY <1>1, EndsAppend
<1>5. Ends(w, Append(text, c))
  BY <1>2, <1>3, <1>4, EndsOrder
<1>6. ASSUME NEW v \in T, Ends(v, Append(text, c))
      PROVE  Ends(v, Append(l, c))
  <2>1. CASE v = <<>>
    BY <1>2, <2>1, EndsOrder
  <2>2. CASE v # <<>>
    <3>1. PICK u \in Seq(C), d \in C : v = Append(u, d)
      BY <2>2, v \in Seq(C), FrontAndLast
    <3>2. u \in T
      BY <3>1 DEF PrefixClosed
    <3>3. d = c /\ Ends(u, text)
      BY <1>6, <3>1, EndsAppend
    <3>4. Ends(u, l)
      BY <1>1, <3>2, <3>3
    <3> QED
      BY <1>1, <3>1, <3>3, <3>4, EndsAppend
  <2> QED
    BY <2>1, <2>2
<1>7. \A v \in T : Ends(v, Append(text, c)) => Len(v) <= Len(w)
  BY <1>3, <1>6 DEF Ends
<1> QED
  BY <1>0, <1>2, <1>3, <1>5, <1>7, LongestUnique DEF l, w

\* A set that is closed under leaving out the last character has every beginning.
LEMMA BeginningsKnown ==
    ASSUME NEW C, NEW T, T \subseteq Seq(C), PrefixClosed(T, C), NEW v \in T, NEW k \in 0 .. Len(v)
    PROVE  SubSeq(v, 1, k) \in T
<1> DEFINE Bad == {i \in 0 .. Len(v) : SubSeq(v, 1, i) \notin T}
<1>0. v \in Seq(C) /\ Len(v) \in Nat
  BY WordFacts
<1> SUFFICES ASSUME Bad # {} PROVE FALSE
  OBVIOUS
<1>1. PICK i \in Bad : \A l \in Bad : l <= i
  BY <1>0, GreatestElement, Bad \subseteq 0 .. Len(v)
<1>2. i # Len(v)
  BY <1>0, Beginnings
<1>3. i \in 0 .. Len(v) - 1 /\ i + 1 \in 0 .. Len(v)
  BY <1>0, <1>2
<1>4. SubSeq(v, 1, i + 1) \in T
  BY <1>0, <1>1, <1>3
<1>5. /\ SubSeq(v, 1, i) \in Seq(C) /\ v[i + 1] \in C
      /\ SubSeq(v, 1, i + 1) = Append(SubSeq(v, 1, i), v[i + 1])
  BY <1>0, <1>3, Beginnings
<1>6. SubSeq(v, 1, i) \in T
  BY <1>4, <1>5 DEF PrefixClosed
<1> QED
  BY <1>6

\* Once the longest end is no longer than what was read behind position a, what
\* When b characters are read, no more than those behind a matter.
Forgets(T, text, a, b) ==
    a <= b /\ b <= Len(text) /\ Len(Longest(T, SubSeq(text, 1, b))) <= b - a

\* precedes a plays no part any more.
LEMMA BorderForgets ==
    ASSUME NEW C, NEW T, T \subseteq Seq(C), PrefixClosed(T, C), NEW text \in Seq(C),
           NEW a \in Nat, NEW b \in Nat, Forgets(T, text, a, b),
           NEW p \in Nat, b <= p, p <= Len(text),
           NEW v \in T, Ends(v, SubSeq(text, 1, p))
    PROVE  Len(v) <= p - a
<1> USE DEF Forgets
<1> DEFINE tb == SubSeq(text, 1, b)
           tp == SubSeq(text, 1, p)
           n == Len(v)
           k == n - (p - b)
           u == SubSeq(v, 1, k)
<1>0. /\ v \in Seq(C) /\ n \in Nat /\ Len(text) \in Nat
      /\ tb \in Seq(C) /\ Len(tb) = b /\ tp \in Seq(C) /\ Len(tp) = p /\ <<>> \in T
  BY WordFacts, Beginnings DEF PrefixClosed
<1> SUFFICES ASSUME n > p - a PROVE FALSE
  BY <1>0
<1>1. n <= p /\ \A i \in 1 .. n : v[i] = tp[p - n + i]
  BY <1>0 DEF Ends
<1>2. k \in 0 .. n /\ k > b - a /\ k <= b
  BY <1>0, <1>1
<1>3. u \in T
  BY <1>2, BeginningsKnown
<1>4. Len(u) = k /\ \A i \in 1 .. k : u[i] = v[i]
  BY <1>0, <1>2
<1>5. \A i \in 1 .. k : i \in 1 .. n /\ tb[b - k + i] = tp[p - n + i]
  <2>1. \A i \in 1 .. b : tb[i] = text[i]
    BY <1>0
  <2>2. \A i \in 1 .. p : tp[i] = text[i]
    BY <1>0
  <2>3. \A i \in 1 .. k : b - k + i \in 1 .. b /\ p - n + i \in 1 .. p /\ b - k + i = p - n + i /\ i \in 1 .. n
    BY <1>0, <1>1, <1>2
  <2> HIDE DEF tb, tp, k
  <2> QED
    BY <2>1, <2>2, <2>3
<1>6. Ends(u, tb)
  <2> HIDE DEF tb, tp, u, k, n
  <2> QED
    BY <1>0, <1>1, <1>2, <1>4, <1>5 DEF Ends
<1>7. Ends(u, Longest(T, tb)) /\ Longest(T, tb) \in Seq(C)
  <2> HIDE DEF tb, u
  <2> QED
    BY <1>0, <1>3, <1>6, LongestIs
<1>8. Len(u) <= Len(Longest(T, tb)) /\ Len(Longest(T, tb)) \in Nat
  <2> HIDE DEF tb, u
  <2> QED
    BY <1>7, WordFacts DEF Ends
<1> HIDE DEF tb, u, k
<1> QED
  BY <1>0, <1>2, <1>4, <1>8 DEF tb

\* The longest end is then that of the part behind a.
LEMMA LongestOfWindow ==
    ASSUME NEW C, NEW T, T \subseteq Seq(C), PrefixClosed(T, C), NEW text \in Seq(C),
           NEW a \in Nat, NEW b \in Nat, Forgets(T, text, a, b),
           NEW p \in Nat, b <= p, p <= Len(text)
    PROVE  Longest(T, SubSeq(text, 1, p)) = Longest(T, SubSeq(text, a + 1, p))
<1> USE DEF Forgets
<1> DEFINE tp == SubSeq(text, 1, p)
           win == SubSeq(text, a + 1, p)
           w == Longest(T, tp)
<1>0. /\ tp \in Seq(C) /\ Len(tp) = p /\ <<>> \in T
      /\ win \in Seq(C) /\ Len(win) = p - a
  <2>1. tp \in Seq(C) /\ Len(tp) = p /\ <<>> \in T
    BY Beginnings DEF PrefixClosed
  <2>2. win \in Seq(C)
    BY a + 1 \in Nat, Len(text) \in Nat
  <2>3. Len(win) = p - a
    BY a + 1 \in Nat, Len(text) \in Nat
  <2> QED
    BY <2>1, <2>2, <2>3
<1>1. \A i \in 1 .. p - a : win[i] = tp[a + i]
  <2>1. \A i \in 1 .. p - a : win[i] = text[a + i] /\ a + i \in 1 .. p
    BY Len(text) \in Nat
  <2>2. \A i \in 1 .. p : tp[i] = text[i]
    BY Len(text) \in Nat
  <2> HIDE DEF win, tp
  <2> QED
    BY <2>1, <2>2
<1>a. tp = SubSeq(text, 1, p)
  OBVIOUS
<1> HIDE DEF win, tp
<1>2. Ends(win, tp)
  <2>1. \A i \in 1 .. p - a : p - (p - a) + i = a + i
    OBVIOUS
  <2> QED
    BY <1>0, <1>1, <2>1 DEF Ends
<1>3. w \in T /\ w \in Seq(C) /\ Ends(w, tp) /\ \A v \in T : Ends(v, tp) => Ends(v, w)
  BY <1>0, LongestIs
<1> HIDE DEF w
<1>4. Len(w) <= p - a
  BY <1>3, <1>a, BorderForgets
<1>5. Ends(w, win)
  BY <1>0, <1>2, <1>3, <1>4, EndsOrder
<1>6. \A v \in T : Ends(v, win) => Len(v) <= Len(w)
  <2> SUFFICES ASSUME NEW v \in T, Ends(v, win) PROVE Len(v) <= Len(w)
    OBVIOUS
  <2>1. Ends(v, tp)
    BY <1>0, <1>2, v \in Seq(C), EndsOrder
  <2> QED
    BY <1>3, <2>1 DEF Ends
<1> QED
  BY <1>0, <1>3, <1>5, <1>6, LongestUnique DEF w, tp, win
=============================================================================
