------------------------ MODULE DataStructureProofs -------------------------
(***************************************************************************)
(* Proofs about the data structures of the program: the linked list, the   *)
(* bit packer, and the dictionary with the scan that jumps over its words. *)
(*                                                                         *)
(* The list: its types, that the cells stay doubly linked in whatever      *)
(* order the calls come, and that the calls implement a sequence.  Chain   *)
(* follows next; what it meets is known only if the list has no cycle and  *)
(* no branch.  LinkInv therefore says that some sequence of distinct cells *)
(* is the list, forwards and backwards.  Chain is then that sequence, an   *)
(* insertion appends to it and a deletion takes its head.                  *)
(*                                                                         *)
(* The packer, for all codes and rows of all lengths: its types, that the  *)
(* row holds the bits of the codes and nothing else, and that it           *)
(* implements BitStream.                                                   *)
(*                                                                         *)
(* The dictionary: its types and those of the scan, that a look-up finds   *)
(* every word that was not stored beyond the size of the table, and that   *)
(* the scan is behind every jump in the state a scan of every character    *)
(* would be in.  WordsAreFound speaks of a loaded dictionary.  What the    *)
(* insertions keep is Chains: from the home slot of a word that is in the  *)
(* table, the slots its probe visits before its first copy all hold other  *)
(* words.  A table that was only ever added to keeps that, and the look-up *)
(* walks the same slots.                                                   *)
(*                                                                         *)
(* JumpsKeepTheScan needs two facts more.  What a look-up returns has the  *)
(* word that was looked up (LookupIsSound), which needs a bound on the     *)
(* size of the table (SizeInv): a look-up must stop within the values of   *)
(* probe.  And once the depth of the state is no more than the characters  *)
(* read of a word, nothing before the word matters (BorderForgets of       *)
(* StringLemmas): the state behind the word is the one of the word alone.  *)
(***************************************************************************)
EXTENDS LinkedList, BitPacker, DictionaryScan, StringLemmas, SequenceTheorems

-----------------------------------------------------------------------------
(* The linked list.                                                        *)

\* The list consists of the cells of s.
Links(s) ==
    /\ s \in Seq(Cell)
    /\ \A i, h \in 1 .. Len(s) : s[i] = s[h] => i = h
    /\ live = {s[i] : i \in 1 .. Len(s)}
    /\ first = IF s = <<>> THEN Null ELSE s[1]
    /\ last = IF s = <<>> THEN Null ELSE s[Len(s)]
    /\ \A k \in 1 .. Len(s) : prev[s[k]] = IF k = 1 THEN Null ELSE s[k - 1]
    /\ \A k \in 1 .. Len(s) : next[s[k]] = IF k = Len(s) THEN Null ELSE s[k + 1]

LinkInv == \E s \in Seq(Cell) : Links(s)

LLInv == LLTypeOK /\ LinkInv

-----------------------------------------------------------------------------
(* Following next.                                                         *)

\* A list has no more cells than the heap.
LEMMA LinksFit ==
    ASSUME NEW s \in Seq(Cell), Links(s)
    PROVE  /\ Len(s) \in Nat /\ Cardinality(Cell) \in Nat /\ Len(s) <= Cardinality(Cell)
           /\ Cardinality(live) = Len(s) /\ Cardinality(1 .. Len(s)) = Len(s)
<1>1. IsFiniteSet(Cell) /\ Len(s) \in Nat
  BY LLAssumption
<1>2. IsFiniteSet(1 .. Len(s)) /\ Cardinality(1 .. Len(s)) = Len(s)
  BY <1>1, FS_Interval
<1>3. s \in [1 .. Len(s) -> Cell]
  OBVIOUS
<1>4. s \in Injection(1 .. Len(s), Cell)
  BY <1>3 DEF Links, Injection, IsInjective
<1>5. Len(s) <= Cardinality(Cell)
  BY <1>1, <1>2, <1>4, FS_Injection
<1>6. s \in Bijection(1 .. Len(s), live)
  <2>1. s \in [1 .. Len(s) -> live]
    BY <1>3 DEF Links
  <2>2. \A c \in live : \E i \in 1 .. Len(s) : s[i] = c
    BY DEF Links
  <2> QED
    BY <1>4, <2>1, <2>2 DEF Bijection, Injection, Surjection, IsInjective
<1>7. Cardinality(live) = Len(s)
  BY <1>2, <1>6, FS_Bijection DEF ExistsBijection
<1> QED
  BY <1>1, <1>2, <1>5, <1>7, FS_CardinalityType

\* The first and the last cell.
LEMMA LinksEnds ==
    ASSUME NEW s \in Seq(Cell), s # <<>>, Links(s)
    PROVE  /\ first = s[1] /\ first \in Cell /\ first # Null /\ last = s[Len(s)]
           /\ prev[first] = Null /\ next[first] = IF Len(s) = 1 THEN Null ELSE s[2]
           /\ last = first <=> Len(s) = 1
<1>1. Len(s) \in Nat /\ 1 \in 1 .. Len(s) /\ Len(s) \in 1 .. Len(s) /\ s[1] \in Cell
  OBVIOUS
<1>2. first = s[1] /\ last = s[Len(s)]
  BY DEF Links
<1>3. prev[s[1]] = Null
  BY <1>1 DEF Links
<1>4. next[s[1]] = IF 1 = Len(s) THEN Null ELSE s[1 + 1]
  BY <1>1 DEF Links
<1>5. s[Len(s)] = s[1] <=> Len(s) = 1
  BY <1>1 DEF Links
<1> QED
  BY <1>1, <1>2, <1>3, <1>4, <1>5, LLAssumption

\* Following next from first meets the cells of the list, in their order.
LEMMA ChainIs ==
    ASSUME NEW s \in Seq(Cell), Links(s)
    PROVE  Chain = s
<1> DEFINE K == 1 .. Cardinality(Cell) + 1
           Rule(h) == h = [k \in K |-> IF k = 1 THEN first
                                       ELSE IF h[k - 1] = Null THEN Null ELSE next[h[k - 1]]]
           g == [k \in K |-> IF k <= Len(s) THEN s[k] ELSE Null]
<1>0. Len(s) \in Nat /\ Cardinality(Cell) \in Nat /\ Len(s) <= Cardinality(Cell)
  BY LinksFit
<1>1. \A k \in 1 .. Len(s) : s[k] \in Cell /\ s[k] # Null
  BY LLAssumption
<1>2. Rule(g)
  <2>1. ASSUME NEW k \in K
        PROVE  g[k] = IF k = 1 THEN first ELSE IF g[k - 1] = Null THEN Null ELSE next[g[k - 1]]
    <3>1. CASE k = 1
      BY <1>0, <3>1 DEF Links
    <3>2. CASE k # 1 /\ k - 1 <= Len(s)
      <4>1. k - 1 \in K /\ k - 1 \in 1 .. Len(s)
        BY <1>0, <3>2
      <4>2. g[k - 1] = s[k - 1] /\ g[k - 1] # Null
        BY <1>1, <4>1
      <4>3. next[s[k - 1]] = IF k - 1 = Len(s) THEN Null ELSE s[(k - 1) + 1]
        BY <4>1 DEF Links
      <4>4. g[k] = next[s[k - 1]]
        BY <1>0, <4>1, <4>3
      <4> QED
        BY <3>2, <4>2, <4>4
    <3>3. CASE k # 1 /\ k - 1 > Len(s)
      <4>1. g[k] = Null /\ g[k - 1] = Null
        BY <1>0, <3>3
      <4> QED
        BY <3>3, <4>1
    <3> QED
      BY <1>0, <3>1, <3>2, <3>3
  <2> QED
    BY <2>1
<1>3. ASSUME NEW h, Rule(h) PROVE h = g
  <2> DEFINE Bad == {k \in K : h[k] # g[k]}
  <2>1. SUFFICES ASSUME Bad # {} PROVE FALSE
    BY <1>3
  <2>2. PICK k \in Bad : \A e \in Bad : k <= e
    <3>1. Bad \subseteq Nat
      BY <1>0
    <3> QED
      BY <2>1, <3>1, LeastElement
  <2>3. /\ h[k] = IF k = 1 THEN first ELSE IF h[k - 1] = Null THEN Null ELSE next[h[k - 1]]
        /\ g[k] = IF k = 1 THEN first ELSE IF g[k - 1] = Null THEN Null ELSE next[g[k - 1]]
    <3>1. k \in K
      OBVIOUS
    <3> QED
      BY <1>2, <1>3, <3>1
  <2>4. k # 1 /\ h[k - 1] # g[k - 1]
    BY <2>2, <2>3
  <2>5. k - 1 \in Bad
    BY <1>0, <2>4
  <2> QED
    BY <1>0, <2>2, <2>5
<1> DEFINE nth == CHOOSE h : Rule(h)
           T == {k \in DOMAIN nth : nth[k] # Null}
<1>4. nth = g
  <2>1. Rule(nth)
    BY <1>2
  <2> HIDE DEF nth
  <2> QED
    BY <1>3, <2>1
<1>5. Chain = [k \in 1 .. Cardinality(T) |-> nth[k]]
  BY DEF Chain
<1> HIDE DEF nth
<1>6. T = 1 .. Len(s)
  <2>1. DOMAIN nth = K /\ \A k \in K : nth[k] = IF k <= Len(s) THEN s[k] ELSE Null
    BY <1>4
  <2>2. ASSUME NEW k \in K PROVE nth[k] # Null <=> k <= Len(s)
    BY <1>0, <1>1, <2>1
  <2> QED
    BY <1>0, <2>1, <2>2
<1>7. Cardinality(1 .. Len(s)) = Len(s)
  BY LinksFit
<1>8. Cardinality(T) = Len(s)
  BY <1>6, <1>7
<1> HIDE DEF T
<1> QED
  BY <1>0, <1>4, <1>5, <1>8

-----------------------------------------------------------------------------
(* The invariant.                                                          *)

\* The empty list is a list.
LEMMA LLInvInit ==
    ASSUME LLInit PROVE LLInv
<1>1. LLTypeOK
  BY DEF LLInit, LLTypeOK, Pointer
<1>2. Links(<<>>)
  BY DEF LLInit, Links
<1> QED
  BY <1>1, <1>2, <<>> \in Seq(Cell) DEF LLInv, LinkInv

\* An insertion appends the new cell.
LEMMA InsertLinks ==
    ASSUME LLTypeOK, NEW s \in Seq(Cell), Links(s), NEW d \in Data, list_insert_last(d)
    PROVE  /\ LLTypeOK'
           /\ \E item \in Cell \ live : /\ Append(s, item) \in Seq(Cell)
                                        /\ Links(Append(s, item))'
                                        /\ data' = [data EXCEPT ![item] = d]
<1>0. Len(s) \in Nat /\ \A k \in 1 .. Len(s) : s[k] \in Cell
  OBVIOUS
<1>1. PICK item \in Cell \ live :
          /\ live' = live \cup {item}
          /\ data' = [data EXCEPT ![item] = d]
          /\ last' = item
          /\ first' = NewFirst(item)
          /\ prev' = [prev EXCEPT ![item] = last]
          /\ next' = [c \in Cell |-> IF c = item THEN Null
                                     ELSE IF c = last THEN item ELSE next[c]]
  BY DEF list_insert_last
<1>2. Null \notin Cell /\ item \in Cell /\ item # Null
  BY LLAssumption
<1>3. UNCHANGED <<done, result, status, phase>>
  BY DEF list_insert_last
<1>4. LLTypeOK'
  BY <1>1, <1>2, <1>3 DEF LLTypeOK, Pointer, NewFirst
<1> DEFINE t == Append(s, item)
<1>5. /\ t \in Seq(Cell) /\ Len(t) = Len(s) + 1 /\ t # <<>>
      /\ t[Len(s) + 1] = item /\ \A k \in 1 .. Len(s) : t[k] = s[k]
  BY <1>2
<1>6. \A k \in 1 .. Len(s) : s[k] # item
  BY <1>1 DEF Links
<1> HIDE DEF t
<1>7. \A i, h \in 1 .. Len(t) : t[i] = t[h] => i = h
  <2>1. \A i \in 1 .. Len(t) : i \in 1 .. Len(s) \/ i = Len(s) + 1
    BY <1>0, <1>5
  <2>2. \A i, h \in 1 .. Len(s) : s[i] = s[h] => i = h
    BY DEF Links
  <2> QED
    BY <2>1, <2>2, <1>5, <1>6
<1>8. live' = {t[i] : i \in 1 .. Len(t)}
  <2>1. {t[i] : i \in 1 .. Len(t)} = {s[i] : i \in 1 .. Len(s)} \cup {item}
    BY <1>0, <1>5
  <2> QED
    BY <1>1, <2>1 DEF Links
<1>9. first' = t[1] /\ last' = t[Len(t)]
  <2>1. CASE s = <<>>
    BY <1>1, <1>5, <2>1 DEF Links, NewFirst
  <2>2. CASE s # <<>>
    <3>1. 1 \in 1 .. Len(s) /\ s[1] # Null
      BY <1>0, <1>2, <2>2
    <3> QED
      BY <1>1, <1>5, <2>2, <3>1 DEF Links, NewFirst
  <2> QED
    BY <2>1, <2>2
<1>10. ASSUME NEW k \in 1 .. Len(t)
       PROVE  /\ prev'[t[k]] = IF k = 1 THEN Null ELSE t[k - 1]
              /\ next'[t[k]] = IF k = Len(t) THEN Null ELSE t[k + 1]
  <2>1. CASE k = Len(t)
    <3>1. t[k] = item /\ prev'[item] = last /\ next'[item] = Null
      BY <1>0, <1>1, <1>5, <2>1 DEF LLTypeOK
    <3>2. last = IF k = 1 THEN Null ELSE t[k - 1]
      <4>1. CASE s = <<>>
        BY <1>5, <2>1, <4>1 DEF Links
      <4>2. CASE s # <<>>
        <5>1. Len(s) \in 1 .. Len(s) /\ k - 1 = Len(s)
          BY <1>0, <1>5, <2>1, <4>2
        <5>2. t[k - 1] = s[Len(s)] /\ k # 1
          BY <1>5, <5>1
        <5> QED
          BY <4>2, <5>2, LinksEnds
      <4> QED
        BY <4>1, <4>2
    <3> QED
      BY <2>1, <3>1, <3>2
  <2>2. CASE k # Len(t)
    <3>1. k \in 1 .. Len(s) /\ t[k] = s[k] /\ s[k] \in Cell /\ s[k] # item
      BY <1>0, <1>5, <1>6, <2>2
    <3>2. s # <<>> /\ last = s[Len(s)] /\ Len(s) \in 1 .. Len(s)
      BY <1>0, <3>1 DEF Links
    <3>3. prev'[s[k]] = prev[s[k]] /\ prev[s[k]] = IF k = 1 THEN Null ELSE s[k - 1]
      BY <1>1, <3>1 DEF LLTypeOK, Links
    <3>4. s[k] = last <=> k = Len(s)
      BY <3>1, <3>2 DEF Links
    <3>5. next'[s[k]] = IF k = Len(s) THEN item ELSE s[k + 1]
      BY <1>1, <3>1, <3>4 DEF Links
    <3>6. k # 1 => k - 1 \in 1 .. Len(s) /\ t[k - 1] = s[k - 1]
      BY <1>0, <1>5, <3>1
    <3>7. k # Len(s) => k + 1 \in 1 .. Len(s) /\ t[k + 1] = s[k + 1]
      BY <1>0, <1>5, <3>1
    <3>8. k = Len(s) => t[k + 1] = item
      BY <1>5
    <3> QED
      BY <2>2, <3>1, <3>3, <3>5, <3>6, <3>7, <3>8
  <2> QED
    BY <2>1, <2>2
<1>11. Links(t)'
  BY <1>5, <1>7, <1>8, <1>9, <1>10 DEF Links
<1> QED
  BY <1>1, <1>4, <1>5, <1>11 DEF t

\* A deletion takes the head.
LEMMA UnlinkLinks ==
    ASSUME LLTypeOK, NEW s \in Seq(Cell), Links(s), s # <<>>, Unlink(first)
    PROVE  /\ Tail(s) \in Seq(Cell) /\ Links(Tail(s))'
           /\ result' = data[s[1]] /\ data' = data
           /\ result' \in Data \cup {NoData}
           /\ first' \in Pointer /\ last' \in Pointer /\ (first' = Null <=> last' = Null)
           /\ prev' \in [Cell -> Pointer] /\ next' \in [Cell -> Pointer]
           /\ live' \subseteq Cell
<1> DEFINE t == Tail(s)
<1>0. Len(s) \in Nat /\ 1 \in 1 .. Len(s) /\ \A k \in 1 .. Len(s) : s[k] \in Cell /\ s[k] # Null
  BY LLAssumption
<1>1. /\ t \in Seq(Cell) /\ Len(t) = Len(s) - 1
      /\ \A k \in 1 .. Len(t) : t[k] = s[k + 1] /\ k + 1 \in 1 .. Len(s)
  <2>1. Len(t) = Len(s) - 1 /\ t \in Seq(Cell)
    OBVIOUS
  <2>2. \A k \in 1 .. Len(t) : t[k] = s[k + 1]
    OBVIOUS
  <2>3. \A k \in 1 .. Len(s) - 1 : k + 1 \in 1 .. Len(s)
    BY <1>0
  <2> QED
    BY <2>1, <2>2, <2>3
<1>2. /\ first = s[1] /\ first \in Cell /\ first # Null /\ Null \notin Cell
      /\ prev[first] = Null /\ next[first] = IF Len(s) = 1 THEN Null ELSE s[2]
  BY LLAssumption, LinksEnds
<1>3. /\ next' = [c \in Cell |-> IF c = prev[first] THEN next[first] ELSE next[c]]
      /\ prev' = [c \in Cell |-> IF c = next[first] THEN prev[first] ELSE prev[c]]
      /\ first' = next[first]
      /\ last' = IF last = first THEN prev[first] ELSE last
      /\ live' = live \ {first}
      /\ result' = data[first] /\ data' = data
  BY <1>2 DEF Unlink, NewPrev, NewLast
<1>4. result' = data[s[1]] /\ data' = data /\ result' \in Data \cup {NoData}
  BY <1>2, <1>3 DEF LLTypeOK
<1>5. prev' \in [Cell -> Pointer] /\ next' \in [Cell -> Pointer] /\ live' \subseteq Cell
  BY <1>2, <1>3 DEF LLTypeOK, Pointer
<1> HIDE DEF t
<1>6. \A i, h \in 1 .. Len(t) : t[i] = t[h] => i = h
  BY <1>0, <1>1 DEF Links
<1>7. live' = {t[i] : i \in 1 .. Len(t)}
  <2>1. ASSUME NEW i \in 2 .. Len(s)
        PROVE  i - 1 \in 1 .. Len(t) /\ t[i - 1] = s[i]
    <3>1. i - 1 \in 1 .. Len(t)
      BY <1>0, <1>1
    <3>2. (i - 1) + 1 = i
      OBVIOUS
    <3> QED
      BY <1>1, <3>1, <3>2
  <2>2. {t[i] : i \in 1 .. Len(t)} \subseteq {s[i] : i \in 2 .. Len(s)}
    <3>1. \A i \in 1 .. Len(t) : i + 1 \in 2 .. Len(s) /\ t[i] = s[i + 1]
      BY <1>0, <1>1
    <3> QED
      BY <3>1
  <2>3. {s[i] : i \in 2 .. Len(s)} \subseteq {t[i] : i \in 1 .. Len(t)}
    BY <2>1
  <2>4. {s[i] : i \in 1 .. Len(s)} \ {s[1]} = {s[i] : i \in 2 .. Len(s)}
    <3>1. \A i \in 1 .. Len(s) : s[i] = s[1] <=> i = 1
      BY <1>0 DEF Links
    <3>2. \A i \in 1 .. Len(s) : i # 1 <=> i \in 2 .. Len(s)
      BY <1>0
    <3>3. \A i \in 2 .. Len(s) : i \in 1 .. Len(s)
      BY <1>0
    <3> QED
      BY <3>1, <3>2, <3>3
  <2> QED
    BY <1>2, <1>3, <2>2, <2>3, <2>4 DEF Links
<1>8. first' = IF t = <<>> THEN Null ELSE t[1]
  <2>1. CASE Len(s) = 1
    <3>1. t = <<>>
      BY <1>1, <2>1
    <3> QED
      BY <1>2, <1>3, <2>1, <3>1
  <2>2. CASE Len(s) # 1
    <3>1. t # <<>> /\ 1 \in 1 .. Len(t)
      BY <1>0, <1>1, <2>2
    <3>2. t[1] = s[2]
      BY <1>1, <3>1
    <3> QED
      BY <1>2, <1>3, <2>2, <3>1, <3>2
  <2> QED
    BY <2>1, <2>2
<1>9. last' = IF t = <<>> THEN Null ELSE t[Len(t)]
  <2>0. last = s[Len(s)] /\ (last = first <=> Len(s) = 1)
    BY LinksEnds
  <2>1. CASE Len(s) = 1
    <3>1. t = <<>>
      BY <1>1, <2>1
    <3> QED
      BY <1>2, <1>3, <2>0, <2>1, <3>1
  <2>2. CASE Len(s) # 1
    <3>1. t # <<>> /\ Len(t) \in 1 .. Len(t) /\ Len(t) + 1 = Len(s)
      BY <1>0, <1>1, <2>2
    <3>2. t[Len(t)] = s[Len(s)]
      BY <1>1, <3>1
    <3> QED
      BY <1>3, <2>0, <2>2, <3>1, <3>2
  <2> QED
    BY <2>1, <2>2
<1>10. ASSUME NEW k \in 1 .. Len(t)
       PROVE  /\ prev'[t[k]] = IF k = 1 THEN Null ELSE t[k - 1]
              /\ next'[t[k]] = IF k = Len(t) THEN Null ELSE t[k + 1]
  <2>1. t[k] = s[k + 1] /\ k + 1 \in 1 .. Len(s) /\ s[k + 1] \in Cell /\ k + 1 # 1 /\ Len(s) # 1
    BY <1>0, <1>1
  <2>2. next'[s[k + 1]] = next[s[k + 1]]
    BY <1>2, <1>3, <2>1
  <2>3. next[s[k + 1]] = IF k + 1 = Len(s) THEN Null ELSE s[(k + 1) + 1]
    BY <2>1 DEF Links
  <2>4. k + 1 = Len(s) <=> k = Len(t)
    BY <1>0, <1>1
  <2>5. k # Len(t) => k + 1 \in 1 .. Len(t) /\ t[k + 1] = s[(k + 1) + 1]
    <3>1. k # Len(t) => k + 1 \in 1 .. Len(t)
      BY <1>0, <1>1
    <3> QED
      BY <1>1, <3>1
  <2>6. next'[t[k]] = IF k = Len(t) THEN Null ELSE t[k + 1]
    BY <2>1, <2>2, <2>3, <2>4, <2>5
  <2>7. s[k + 1] = next[first] <=> k = 1
    <3>1. 2 \in 1 .. Len(s) /\ next[first] = s[2]
      BY <1>0, <1>2, <2>1
    <3>2. s[k + 1] = s[2] <=> k + 1 = 2
      BY <2>1, <3>1 DEF Links
    <3> QED
      BY <3>1, <3>2
  <2>8. prev[s[k + 1]] = s[(k + 1) - 1]
    BY <2>1 DEF Links
  <2>9. k # 1 => k - 1 \in 1 .. Len(t) /\ t[k - 1] = s[k]
    <3>1. k # 1 => k - 1 \in 1 .. Len(t)
      BY <1>0, <1>1
    <3>2. (k - 1) + 1 = k
      OBVIOUS
    <3> QED
      BY <1>1, <3>1, <3>2
  <2>10. prev'[t[k]] = IF k = 1 THEN Null ELSE t[k - 1]
    <3>1. (k + 1) - 1 = k
      OBVIOUS
    <3> QED
      BY <1>2, <1>3, <2>1, <2>7, <2>8, <2>9, <3>1
  <2> QED
    BY <2>6, <2>10
<1>11. Links(t)'
  BY <1>1, <1>6, <1>7, <1>8, <1>9, <1>10 DEF Links
<1>12. first' \in Pointer /\ last' \in Pointer /\ (first' = Null <=> last' = Null)
  <2>1. CASE t = <<>>
    BY <1>8, <1>9, <2>1 DEF Pointer
  <2>2. CASE t # <<>>
    <3>1. 1 \in 1 .. Len(t) /\ Len(t) \in 1 .. Len(t)
      BY <1>1, <2>2
    <3>2. t[1] \in Cell /\ t[Len(t)] \in Cell
      BY <1>0, <1>1, <3>1
    <3> QED
      BY <1>2, <1>8, <1>9, <2>2, <3>2 DEF Pointer
  <2> QED
    BY <2>1, <2>2
<1> QED
  BY <1>1, <1>4, <1>5, <1>11, <1>12 DEF t

\* A deletion by index takes the head or nothing.
LEMMA DeleteLinks ==
    ASSUME LLTypeOK, NEW s \in Seq(Cell), Links(s), NEW k \in Nat, list_delete_item_lock(k)
    PROVE  /\ \E t \in Seq(Cell) :
                /\ Links(t)' /\ data' = data
                /\ IF s # <<>> /\ k = 0 THEN t = Tail(s) /\ result' = data[s[1]]
                                        ELSE t = s /\ result' = NoData
           /\ result' \in Data \cup {NoData}
           /\ first' \in Pointer /\ last' \in Pointer /\ (first' = Null <=> last' = Null)
           /\ prev' \in [Cell -> Pointer] /\ next' \in [Cell -> Pointer]
           /\ live' \subseteq Cell
<1>1. CASE s # <<>> /\ k = 0
  <2>1. first # Null
    BY <1>1, LinksEnds
  <2>2. Unlink(first)
    BY <1>1, <2>1 DEF list_delete_item_lock, find_inner
  <2> QED
    BY <1>1, <2>2, UnlinkLinks
<1>2. CASE ~ (s # <<>> /\ k = 0)
  <2>1. find_inner(k) = Null
    BY <1>2 DEF find_inner, Links
  <2>2. result' = NoData /\ UNCHANGED <<first, last, prev, next, data, live>>
    BY <2>1 DEF list_delete_item_lock, itemVars
  <2>3. Links(s)'
    BY <2>2 DEF Links
  <2> QED
    BY <1>2, <2>2, <2>3 DEF LLTypeOK
<1> QED
  BY <1>1, <1>2

\* The calls that read leave the list alone.
LEMMA ReadsKeep ==
    ASSUME LLInv, UNCHANGED <<first, last, itemVars>>,
           done' \in BOOLEAN, result' \in Data \cup {NoData},
           status' \in {"none", "success", "fail"},
           phase' \in {"used", "destroying", "destroyed"}
    PROVE  LLInv'
<1>1. UNCHANGED <<first, last, prev, next, data, live>>
  BY DEF itemVars
<1>2. LLTypeOK'
  BY <1>1 DEF LLInv, LLTypeOK
<1>3. PICK s \in Seq(Cell) : Links(s)
  BY DEF LLInv, LinkInv
<1>4. Links(s)'
  BY <1>1, <1>3 DEF Links
<1> QED
  BY <1>2, <1>4 DEF LLInv, LinkInv

\* A deletion keeps the invariant.
LEMMA DeleteKeeps ==
    ASSUME LLInv, NEW k \in Nat, list_delete_item_lock(k), UNCHANGED <<done, phase>>,
           status' \in {"none", "success", "fail"}
    PROVE  LLInv'
<1>1. PICK s \in Seq(Cell) : Links(s)
  BY DEF LLInv, LinkInv
<1>2. LLTypeOK
  BY DEF LLInv
<1>3. /\ \E t \in Seq(Cell) : Links(t)' /\ data' = data
      /\ result' \in Data \cup {NoData}
      /\ first' \in Pointer /\ last' \in Pointer /\ (first' = Null <=> last' = Null)
      /\ prev' \in [Cell -> Pointer] /\ next' \in [Cell -> Pointer]
      /\ live' \subseteq Cell
  BY <1>1, <1>2, DeleteLinks
<1>4. LLTypeOK'
  BY <1>2, <1>3 DEF LLTypeOK
<1> QED
  BY <1>3, <1>4 DEF LLInv, LinkInv

\* Every call keeps the invariant.
LEMMA LLInvStep ==
    ASSUME LLInv, LLNext PROVE LLInv'
<1>0. /\ LLTypeOK /\ Indices \subseteq Nat /\ 0 \in Nat
      /\ done \in BOOLEAN /\ result \in Data \cup {NoData}
      /\ status \in {"none", "success", "fail"}
      /\ phase \in {"used", "destroying", "destroyed"}
  BY LLAssumption DEF LLInv, LLTypeOK
<1>1. ASSUME NEW d \in Data, list_insert_last(d) PROVE LLInv'
  <2>1. PICK s \in Seq(Cell) : Links(s)
    BY DEF LLInv, LinkInv
  <2> QED
    BY <1>0, <1>1, <2>1, InsertLinks DEF LLInv, LinkInv
<1>2. ASSUME NEW d \in Data, list_contains_str(d) PROVE LLInv'
  <2>1. /\ UNCHANGED <<first, last, itemVars, done, status, phase>>
        /\ result' \in Data \cup {NoData}
    BY <1>2 DEF list_contains_str
  <2> QED
    BY <1>0, <2>1, ReadsKeep
<1>3. ASSUME NEW k \in Indices, list_get(k) PROVE LLInv'
  <2>1. UNCHANGED <<first, last, itemVars, done, status, phase>>
    BY <1>3 DEF list_get
  <2>2. result' = IF find_inner(k) = Null THEN NoData ELSE data[find_inner(k)]
    BY <1>3 DEF list_get
  <2>3. result' \in Data \cup {NoData}
    BY <1>0, <2>2 DEF LLTypeOK, Pointer, find_inner
  <2> QED
    BY <1>0, <2>1, <2>3, ReadsKeep
<1>4. ASSUME NEW k \in Indices, list_delete_item(k) PROVE LLInv'
  <2>1. list_delete_item_lock(k) /\ UNCHANGED <<done, phase>> /\ status' = status
    BY <1>4 DEF list_delete_item
  <2> QED
    BY <1>0, <2>1, DeleteKeeps
<1>5. CASE list_dequeue
  <2>1. CASE first # Null
    <3>1. list_delete_item_lock(0) /\ UNCHANGED <<done, phase>> /\ status' = "success"
      BY <1>5, <2>1 DEF list_dequeue
    <3> QED
      BY <1>0, <3>1, DeleteKeeps
  <2>2. CASE first = Null
    <3>1. /\ status' = "fail" /\ result' = NoData
          /\ UNCHANGED <<first, last, itemVars, done, phase>>
      BY <1>5, <2>2 DEF list_dequeue
    <3> QED
      BY <1>0, <3>1, ReadsKeep
  <2> QED
    BY <2>1, <2>2
<1>6. CASE list_set_done
  <2>1. done' = TRUE /\ UNCHANGED <<first, last, itemVars, result, status, phase>>
    BY <1>6 DEF list_set_done
  <2> QED
    BY <1>0, <2>1, ReadsKeep
<1>7. CASE list_destroy
  <2>1. CASE BeginDestroy
    <3>1. /\ phase' = "destroying" /\ result' = NoData /\ status' = "none"
          /\ UNCHANGED <<first, last, itemVars, done>>
      BY <2>1 DEF BeginDestroy
    <3> QED
      BY <1>0, <3>1, ReadsKeep
  <2>2. CASE DestroyItem
    <3>1. list_delete_item_lock(0) /\ UNCHANGED <<done, phase>> /\ status' = status
      BY <2>2 DEF DestroyItem
    <3> QED
      BY <1>0, <3>1, DeleteKeeps
  <2>3. CASE EndDestroy
    <3>1. phase' = "destroyed" /\ UNCHANGED <<first, last, itemVars, done, result, status>>
      BY <2>3 DEF EndDestroy
    <3> QED
      BY <1>0, <3>1, ReadsKeep
  <2> QED
    BY <1>7, <2>1, <2>2, <2>3 DEF list_destroy
<1>8. CASE UNCHANGED llVars
  <2>1. UNCHANGED <<first, last, itemVars, done, result, status, phase>>
    BY <1>8 DEF llVars
  <2> QED
    BY <1>0, <2>1, ReadsKeep
<1> QED
  BY <1>1, <1>2, <1>3, <1>4, <1>5, <1>6, <1>7, <1>8 DEF LLNext

\* In whatever order the calls come, the cells form one list.
THEOREM LLInvAlways == LLSpec => []LLInv
<1>1. LLInv /\ UNCHANGED llVars => LLInv'
  <2> SUFFICES ASSUME LLInv, UNCHANGED llVars PROVE LLInv'
    OBVIOUS
  <2>1. UNCHANGED <<first, last, itemVars, done, result, status, phase>>
    BY DEF llVars
  <2> QED
    BY <2>1, ReadsKeep DEF LLInv, LLTypeOK
<1> QED
  BY <1>1, LLInvInit, LLInvStep, PTL DEF LLSpec

\* Every call leaves pointers to cells or NULL, and a first item exactly when
\* there is a last.
THEOREM ListTypesHold == LLSpec => []LLTypeOK
<1>1. LLInv => LLTypeOK
  BY DEF LLInv
<1> QED
  BY <1>1, LLInvAlways, PTL

\* Whatever the calls and the cells malloc hands out, following next meets
\* every live cell once and no freed one, and prev leads the same way back.
THEOREM CellsAreLinked == LLSpec => []WellLinked
<1>1. LLInv => WellLinked
  <2> SUFFICES ASSUME LLInv PROVE WellLinked
    OBVIOUS
  <2>1. PICK s \in Seq(Cell) : Links(s)
    BY DEF LLInv, LinkInv
  <2>2. Chain = s /\ Len(s) \in Nat /\ Cardinality(live) = Len(s)
    BY <2>1, ChainIs, LinksFit
  <2>3. DOMAIN s = 1 .. Len(s)
    OBVIOUS
  <2>4. {s[k] : k \in DOMAIN s} = live
    BY <2>1, <2>3 DEF Links

  <2>5. /\ last = IF s = <<>> THEN Null ELSE s[Len(s)]
        /\ \A k \in DOMAIN s : prev[s[k]] = IF k = 1 THEN Null ELSE s[k - 1]
    BY <2>1, <2>3 DEF Links
  <2> QED
    BY <2>2, <2>4, <2>5 DEF WellLinked
<1> QED
  BY <1>1, LLInvAlways, PTL

-----------------------------------------------------------------------------
(* The sequence.                                                           *)

\* The data of the cells, in the order of the list.
DataOf(s) == [k \in 1 .. Len(s) |-> data[s[k]]]

\* They are the elements.
LEMMA ElementsAre ==
    \A s \in Seq(Cell) : LLTypeOK /\ Links(s) => Elements = DataOf(s)
<1> SUFFICES ASSUME NEW s \in Seq(Cell), Links(s) PROVE Elements = DataOf(s)
  OBVIOUS
<1>1. Chain = s
  BY ChainIs
<1>2. DOMAIN s = 1 .. Len(s)
  OBVIOUS
<1> QED
  BY <1>1, <1>2 DEF Elements, DataOf

\* ... also after a step.
LEMMA ElementsAreNext ==
    (\A s \in Seq(Cell) : LLTypeOK /\ Links(s) => Elements = DataOf(s))'
  BY ElementsAre, PTL

\* What the provers need to know of the data of a list.
LEMMA DataFacts ==
    ASSUME LLTypeOK, NEW s \in Seq(Cell)
    PROVE  /\ DataOf(s) \in Seq(Data \cup {NoData}) /\ Len(DataOf(s)) = Len(s)
           /\ Len(s) \in Nat /\ \A k \in 1 .. Len(s) : s[k] \in Cell
           /\ DataOf(s) = <<>> <=> s = <<>>
           /\ \A k \in 1 .. Len(s) : DataOf(s)[k] = data[s[k]]
<1>1. \A k \in 1 .. Len(s) : s[k] \in Cell
  OBVIOUS
<1>2. Len(s) \in Nat
  OBVIOUS
<1>3. DataOf(s) \in [1 .. Len(s) -> Data \cup {NoData}]
  BY <1>1 DEF LLTypeOK, DataOf
<1>4. DataOf(s) \in Seq(Data \cup {NoData}) /\ Len(DataOf(s)) = Len(s)
  BY <1>2, <1>3
<1>5. DataOf(s) = <<>> <=> s = <<>>
  BY <1>2, <1>4
<1> QED
  BY <1>1, <1>2, <1>4, <1>5 DEF DataOf

\* The elements of a sequence with one more ...
LEMMA AppendIs ==
    ASSUME NEW S, NEW e \in Seq(S), NEW d \in S
    PROVE  Append(e, d) = [k \in 1 .. Len(e) + 1 |-> IF k = Len(e) + 1 THEN d ELSE e[k]]
<1> DEFINE f == [k \in 1 .. Len(e) + 1 |-> IF k = Len(e) + 1 THEN d ELSE e[k]]
<1>0. Len(e) \in Nat
  OBVIOUS
<1>1. f \in Seq(S) /\ Len(f) = Len(e) + 1 /\ \A k \in 1 .. Len(e) + 1 : f[k] = IF k = Len(e) + 1 THEN d ELSE e[k]
  <2>1. f \in [1 .. Len(e) + 1 -> S]
    <3>1. \A k \in 1 .. Len(e) + 1 : k # Len(e) + 1 => k \in 1 .. Len(e)
      BY <1>0
    <3> QED
      BY <1>0, <3>1
  <2> QED
    BY <1>0, <2>1
<1>2. Append(e, d) \in Seq(S) /\ Len(Append(e, d)) = Len(e) + 1
      /\ \A k \in 1 .. Len(e) + 1 : Append(e, d)[k] = IF k = Len(e) + 1 THEN d ELSE e[k]
  <2>1. \A k \in 1 .. Len(e) + 1 : k # Len(e) + 1 => k \in 1 .. Len(e)
    BY <1>0
  <2> QED
    BY <1>0, <2>1
<1> HIDE DEF f
<1>3. Append(e, d) = f
  BY <1>0, <1>1, <1>2
<1> QED
  BY <1>3 DEF f

\* ... and of a tail.
LEMMA TailIs ==
    ASSUME NEW S, NEW e \in Seq(S), e # <<>>
    PROVE  Tail(e) = [k \in 1 .. Len(e) - 1 |-> e[k + 1]]
<1> DEFINE f == [k \in 1 .. Len(e) - 1 |-> e[k + 1]]
<1>0. Len(e) \in Nat /\ Len(e) - 1 \in Nat
  OBVIOUS
<1>1. f \in Seq(S) /\ Len(f) = Len(e) - 1 /\ \A k \in 1 .. Len(e) - 1 : f[k] = e[k + 1]
  <2>1. f \in [1 .. Len(e) - 1 -> S]
    <3>1. \A k \in 1 .. Len(e) - 1 : k + 1 \in 1 .. Len(e)
      BY <1>0
    <3> QED
      BY <1>0, <3>1
  <2> QED
    BY <1>0, <2>1
<1>2. Tail(e) \in Seq(S) /\ Len(Tail(e)) = Len(e) - 1
      /\ \A k \in 1 .. Len(e) - 1 : Tail(e)[k] = e[k + 1]
  BY <1>0
<1> HIDE DEF f
<1>3. Tail(e) = f
  BY <1>0, <1>1, <1>2
<1> QED
  BY <1>3 DEF f

\* An insertion appends the element.
LEMMA InsertIsAppend ==
    ASSUME LLInv, LLInv', NEW d \in Data, list_insert_last(d)
    PROVE  Queue!Insert(d)
<1>1. PICK s \in Seq(Cell) : Links(s)
  BY DEF LLInv, LinkInv
<1>2. LLTypeOK /\ LLTypeOK'
  BY DEF LLInv
<1>3. PICK item \in Cell \ live : /\ Append(s, item) \in Seq(Cell)
                                  /\ Links(Append(s, item))'
                                  /\ data' = [data EXCEPT ![item] = d]
  BY <1>1, <1>2, InsertLinks
<1>4. Elements = DataOf(s)
  BY <1>1, <1>2, ElementsAre
<1> DEFINE t == Append(s, item)
<1>5. \A u \in Seq(Cell) : LLTypeOK' /\ Links(u)' => Elements' = [k \in 1 .. Len(u) |-> data'[u[k]]]
  <2>1. (\A u \in Seq(Cell) : LLTypeOK /\ Links(u) => Elements = DataOf(u))'
    BY ElementsAreNext
  <2> QED
    BY <2>1 DEF DataOf
<1>6. Elements' = [k \in 1 .. Len(t) |-> data'[t[k]]]
  BY <1>2, <1>3, <1>5
<1>7. /\ Len(t) = Len(s) + 1 /\ t[Len(s) + 1] = item
      /\ \A k \in 1 .. Len(s) : t[k] = s[k] /\ s[k] # item /\ s[k] \in Cell
  BY <1>1, <1>3 DEF Links
<1> HIDE DEF t
<1>8. Elements' = Append(DataOf(s), d)
  <2>1. Len(s) \in Nat /\ DataOf(s) \in Seq(Data \cup {NoData}) /\ Len(DataOf(s)) = Len(s)
    BY <1>2, DataFacts
  <2>2. Append(DataOf(s), d) = [k \in 1 .. Len(s) + 1 |->
                                  IF k = Len(s) + 1 THEN d ELSE DataOf(s)[k]]
    BY <2>1, d \in Data \cup {NoData}, AppendIs
  <2>3. \A k \in 1 .. Len(s) + 1 :
          data'[t[k]] = IF k = Len(s) + 1 THEN d ELSE DataOf(s)[k]
    <3>1. data'[item] = d
      BY <1>2, <1>3 DEF LLTypeOK
    <3>2. \A k \in 1 .. Len(s) : data'[t[k]] = DataOf(s)[k]
      BY <1>2, <1>3, <1>7, DataFacts DEF LLTypeOK
    <3>3. \A k \in 1 .. Len(s) + 1 : k # Len(s) + 1 => k \in 1 .. Len(s)
      BY <2>1
    <3> QED
      BY <1>7, <2>1, <3>1, <3>2, <3>3
  <2> QED
    BY <1>6, <1>7, <2>2, <2>3
<1> QED
  BY <1>4, <1>8 DEF Queue!Insert, list_insert_last, Called

\* A deletion of index 0 removes the head.
LEMMA DeleteIsTail ==
    ASSUME LLInv, LLInv', list_delete_item_lock(0)
    PROVE  /\ Elements = <<>> => Elements' = <<>> /\ result' = NoData
           /\ Elements # <<>> => /\ Elements' = Tail(Elements) /\ result' = Head(Elements)
                                 /\ result' = Elements[1]
           /\ Elements \in Seq(Data \cup {NoData})
           /\ Elements = <<>> <=> first = Null
<1>1. PICK s \in Seq(Cell) : Links(s)
  BY DEF LLInv, LinkInv
<1>2. LLTypeOK /\ LLTypeOK'
  BY DEF LLInv
<1>3. PICK t \in Seq(Cell) :
          /\ Links(t)' /\ data' = data
          /\ IF s # <<>> THEN t = Tail(s) /\ result' = data[s[1]]
                         ELSE t = s /\ result' = NoData
  BY <1>1, <1>2, 0 \in Nat, DeleteLinks
<1>4. Elements = DataOf(s)
  BY <1>1, <1>2, ElementsAre
<1>5. Elements' = DataOf(t)
  <2>1. (\A u \in Seq(Cell) : LLTypeOK /\ Links(u) => Elements = DataOf(u))'
    BY ElementsAreNext
  <2>2. LLTypeOK' /\ Links(t)' => Elements' = [k \in 1 .. Len(t) |-> data'[t[k]]]
    BY <2>1 DEF DataOf
  <2> QED
    BY <1>2, <1>3, <2>2 DEF DataOf
<1>6. /\ DataOf(s) \in Seq(Data \cup {NoData}) /\ Len(DataOf(s)) = Len(s) /\ Len(s) \in Nat
      /\ DataOf(s) = <<>> <=> s = <<>>
      /\ \A k \in 1 .. Len(s) : DataOf(s)[k] = data[s[k]]
  BY <1>2, DataFacts
<1>7. s = <<>> <=> first = Null
  BY <1>1, LinksEnds DEF Links
<1>8. CASE s = <<>>
  BY <1>3, <1>4, <1>5, <1>6, <1>7, <1>8
<1>9. CASE s # <<>>
  <2>1. 1 \in 1 .. Len(s) /\ t = Tail(s) /\ Len(t) = Len(s) - 1
    BY <1>3, <1>9
  <2>2. \A k \in 1 .. Len(s) - 1 : t[k] = s[k + 1] /\ k + 1 \in 1 .. Len(s)
    BY <1>6, <2>1
  <2>3. DataOf(t) = [k \in 1 .. Len(s) - 1 |-> DataOf(s)[k + 1]]
    BY <1>6, <2>1, <2>2 DEF DataOf
  <2>4. DataOf(s) # <<>> /\ Head(DataOf(s)) = DataOf(s)[1]
    BY <1>6, <1>9
  <2>5. Tail(DataOf(s)) = [k \in 1 .. Len(s) - 1 |-> DataOf(s)[k + 1]]
    BY <1>6, <2>4, TailIs
  <2> QED
    BY <1>3, <1>4, <1>5, <1>6, <1>7, <1>9, <2>1, <2>3, <2>4, <2>5
<1> QED
  BY <1>8, <1>9

\* The head of a sequence, removed by its index.
LEMMA WithoutFirst ==
    ASSUME NEW S, NEW e \in Seq(S), e # <<>>
    PROVE  SubSeq(e, 1, 0) \o SubSeq(e, 0 + 2, Len(e)) = Tail(e) /\ 0 < Len(e)
<1>1. Len(e) \in Nat /\ Len(e) > 0
  OBVIOUS
<1>2. SubSeq(e, 1, 0) = <<>>
  OBVIOUS
<1>3. SubSeq(e, 2, Len(e)) = Tail(e)
  OBVIOUS
<1>4. Tail(e) \in Seq(S)
  OBVIOUS
<1>5. <<>> \o Tail(e) = Tail(e)
  BY <1>4
<1> QED
  BY <1>1, <1>2, <1>3, <1>5

\* With index 0 every call is one of the sequence, or a dequeue that gives up.
LEMMA QueueStep ==
    ASSUME LLInv, LLInv', LLNext, phase = "used", phase' = "used", Indices \subseteq {0}
    PROVE  Queue!Next \/ DequeueGivesUp \/ UNCHANGED llVars
<1>0. LLTypeOK /\ LLTypeOK' /\ \A k \in Indices : k = 0
  BY DEF LLInv
<1>1. PICK s \in Seq(Cell) : Links(s)
  BY DEF LLInv, LinkInv
<1>2. Elements = DataOf(s)
  BY <1>0, <1>1, ElementsAre
<1>3. /\ DataOf(s) \in Seq(Data \cup {NoData}) /\ Len(DataOf(s)) = Len(s) /\ Len(s) \in Nat
      /\ \A k \in 1 .. Len(s) : DataOf(s)[k] = data[s[k]]
  BY <1>0, DataFacts
<1>4. ASSUME UNCHANGED <<first, itemVars>>
      PROVE  Elements' = Elements
  <2>1. UNCHANGED <<first, next, data>>
    BY <1>4 DEF itemVars
  <2> QED
    BY <2>1 DEF Elements, Chain
<1>5. ASSUME NEW d \in Data, list_insert_last(d) PROVE Queue!Next
  BY <1>5, InsertIsAppend DEF Queue!Next
<1>6. ASSUME NEW d \in Data, list_contains_str(d) PROVE Queue!Next
  <2>1. /\ call' = <<"list_contains_str", d>> /\ UNCHANGED <<first, itemVars, status, done>>
        /\ result' = IF \E k \in DOMAIN Chain : data[Chain[k]] = d THEN d ELSE NoData
    BY <1>6 DEF list_contains_str, Called
  <2>2. Chain = s
    BY <1>1, ChainIs
  <2>3. (\E k \in DOMAIN Chain : data[Chain[k]] = d)
          <=> \E k \in 1 .. Len(Elements) : Elements[k] = d
    BY <1>2, <1>3, <2>2
  <2>4. Queue!Contains(d)
    BY <1>4, <2>1, <2>3 DEF Queue!Contains
  <2> QED
    BY <2>4 DEF Queue!Next
<1>7. ASSUME NEW k \in Indices, list_get(k) PROVE Queue!Next
  <2>1. /\ call' = <<"list_get", k>> /\ UNCHANGED <<first, itemVars, status, done>> /\ k = 0
        /\ result' = IF first = Null THEN NoData ELSE data[first]
    BY <1>0, <1>7 DEF list_get, Called, find_inner
  <2>2. result' = Queue!ElementAt(0)
    <3>1. CASE s = <<>>
      <4>1. first = Null /\ Len(Elements) = 0
        BY <1>1, <1>2, <1>3, <3>1 DEF Links
      <4> QED
        BY <2>1, <4>1 DEF Queue!ElementAt
    <3>2. CASE s # <<>>
      <4>1. first = s[1] /\ first # Null
        BY <1>1, <3>2, LinksEnds
      <4>2. 0 < Len(Elements) /\ Elements[0 + 1] = data[s[1]]
        BY <1>2, <1>3, <3>2
      <4> QED
        BY <2>1, <4>1, <4>2 DEF Queue!ElementAt
    <3> QED
      BY <3>1, <3>2
  <2>3. Queue!Get(k)
    BY <1>4, <2>1, <2>2 DEF Queue!Get
  <2> QED
    BY <2>3 DEF Queue!Next
<1>8. ASSUME NEW k \in Indices, list_delete_item(k) PROVE Queue!Next
  <2>1. call' = <<"list_delete_item", k>> /\ UNCHANGED <<status, done>> /\ k = 0 /\ list_delete_item_lock(0)
    BY <1>0, <1>8 DEF list_delete_item, Called
  <2>2. /\ Elements = <<>> => Elements' = <<>> /\ result' = NoData
        /\ Elements # <<>> => Elements' = Tail(Elements) /\ result' = Elements[1]
        /\ Elements \in Seq(Data \cup {NoData})
    BY <2>1, DeleteIsTail
  <2>3. result' = Queue!ElementAt(0)
    BY <2>2 DEF Queue!ElementAt
  <2>4. Elements' = IF 0 < Len(Elements) THEN Queue!Without(0) ELSE Elements
    <3>1. CASE Elements = <<>>
      <4>1. ~ (0 < Len(Elements))
        BY <3>1
      <4> QED
        BY <2>2, <3>1, <4>1
    <3>2. CASE Elements # <<>>
      <4>1. Queue!Without(0) = Tail(Elements) /\ 0 < Len(Elements)
        BY <2>2, <3>2, WithoutFirst DEF Queue!Without
      <4> QED
        BY <2>2, <3>2, <4>1
    <3> QED
      BY <3>1, <3>2
  <2>5. Queue!Delete(k)
    BY <2>1, <2>3, <2>4 DEF Queue!Delete
  <2> QED
    BY <2>5 DEF Queue!Next
<1>9. CASE list_dequeue
  <2>1. call' = <<"list_dequeue", NoData>> /\ UNCHANGED done
    BY <1>9 DEF list_dequeue, Called
  <2>2. Elements = <<>> <=> first = Null
    <3>1. s = <<>> <=> first = Null
      BY <1>1, LinksEnds DEF Links
    <3> QED
      BY <1>0, <1>2, <3>1, DataFacts
  <2>3. CASE first # Null
    <3>1. list_delete_item_lock(0) /\ status' = "success"
      BY <1>9, <2>3 DEF list_dequeue
    <3>2. Elements' = Tail(Elements) /\ result' = Head(Elements) /\ Elements # <<>>
      BY <2>2, <2>3, <3>1, DeleteIsTail
    <3>3. Queue!Dequeue
      BY <2>1, <3>1, <3>2 DEF Queue!Dequeue
    <3> QED
      BY <3>3 DEF Queue!Next
  <2>4. CASE first = Null
    <3>1. status' = "fail" /\ result' = NoData /\ UNCHANGED <<first, itemVars>>
      BY <1>9, <2>4 DEF list_dequeue
    <3>2. Elements' = Elements /\ Elements = <<>>
      BY <1>4, <2>2, <2>4, <3>1
    <3>3. CASE done
      <4>1. Queue!Dequeue
        BY <2>1, <3>1, <3>2, <3>3 DEF Queue!Dequeue
      <4> QED
        BY <4>1 DEF Queue!Next
    <3>4. CASE ~ done
      BY <2>1, <3>1, <3>2, <3>4 DEF DequeueGivesUp
    <3> QED
      BY <3>3, <3>4
  <2> QED
    BY <2>3, <2>4
<1>10. CASE list_set_done
  <2>1. /\ call' = <<"list_set_done", NoData>> /\ done' = TRUE
        /\ UNCHANGED <<first, itemVars, result, status>>
    BY <1>10 DEF list_set_done, Called
  <2>2. Queue!SetDone
    BY <1>4, <2>1 DEF Queue!SetDone
  <2> QED
    BY <2>2 DEF Queue!Next
<1>11. ~ list_destroy
  BY DEF list_destroy, BeginDestroy, DestroyItem, EndDestroy
<1> QED
  BY <1>5, <1>6, <1>7, <1>8, <1>9, <1>10, <1>11 DEF LLNext

\* With index 0, the only one the program passes, every sequence of calls is one
\* of the sequence of elements that LinkedList.h describes, but for dequeues that
\* fail at once on an empty list that is not done.
THEOREM ListImplementsQueue ==
    ASSUME Indices \subseteq {0}
    PROVE  LLSpec => CallsImplementQueue
<1>1. LLInit => Queue!Init
  <2> SUFFICES ASSUME LLInit PROVE Queue!Init
    OBVIOUS
  <2>1. LLTypeOK /\ <<>> \in Seq(Cell)
    BY LLInvInit DEF LLInv
  <2>2. Links(<<>>)
    BY DEF LLInit, Links
  <2>3. Elements = DataOf(<<>>)
    BY <2>1, <2>2, ElementsAre
  <2>4. DataOf(<<>>) = <<>>
    BY DEF DataOf
  <2> QED
    BY <2>3, <2>4 DEF LLInit, Queue!Init
<1>2. LLInv /\ LLInv' /\ [LLNext]_llVars =>
          [phase = "used" /\ phase' = "used" => Queue!Next \/ DequeueGivesUp]_llVars
  BY QueueStep
<1> QED
  BY <1>1, <1>2, LLInvAlways, PTL DEF LLSpec, CallsImplementQueue

-----------------------------------------------------------------------------
(* Bytes and bit positions.                                                *)

\* The quotient and the remainder of a position determine it.
LEMMA DivMod ==
    ASSUME NEW p \in Nat
    PROVE  /\ p \div 8 \in Nat /\ p % 8 \in 0 .. 7
           /\ p = 8 * (p \div 8) + (p % 8)
  OBVIOUS

\* A byte and a bit determine a position: the only one with that quotient and
\* remainder.
LEMMA DivModUnique ==
    ASSUME NEW k \in Nat, NEW b \in 0 .. 7, NEW p \in Nat, p = 8 * k + b
    PROVE  p \div 8 = k /\ p % 8 = b
  OBVIOUS

\* Shifting a byte to the left moves its bits.
LEMMA ShiftLeftBits ==
    ASSUME NEW x \in Byte, NEW n \in 0 .. 8
    PROVE  /\ ShiftLeft(x, n) \in Byte
           /\ \A b \in 0 .. 7 : b + n <= 7 => ShiftLeft(x, n)[b] = x[b + n]
  BY DEF ShiftLeft, Byte, Bit

\* A call of ConcutBitsToSingleByte keeps the first bits of the destination,
\* puts the bits of the source behind them and clears the rest.
LEMMA ConcutBits ==
    ASSUME NEW d \in Byte, NEW s \in Byte, NEW u \in 0 .. 7, NEW n \in 1 .. 8 - u,
           \A b \in u .. 7 : d[b] = 0
    PROVE  /\ ConcutBitsToSingleByte(d, u, s, n) \in Byte
           /\ \A b \in 0 .. 7 :
                ConcutBitsToSingleByte(d, u, s, n)[b] =
                    IF b < u THEN d[b] ELSE IF b < u + n THEN s[b - u] ELSE 0
<1> DEFINE free == 8 - (u + n)
           x    == ShiftRight(d, free)
           y    == ShiftRight(s, 8 - n)
<1>1. free \in 0 .. 7 /\ 8 - n \in 0 .. 7
  OBVIOUS
<1>2. \A b \in 0 .. 7 : /\ d[b] \in Bit /\ s[b] \in Bit
  BY DEF Byte
<1>3. /\ x \in [0 .. 7 -> Bit] /\ y \in [0 .. 7 -> Bit]
      /\ \A b \in 0 .. 7 : x[b] = IF b - free >= 0 THEN d[b - free] ELSE 0
      /\ \A b \in 0 .. 7 : y[b] = IF b - (8 - n) >= 0 THEN s[b - (8 - n)] ELSE 0
  BY <1>1, <1>2 DEF ShiftRight, Bit
<1> HIDE DEF x, y
<1> DEFINE z == BitOr(x, y)
<1>4. /\ z \in [0 .. 7 -> Bit]
      /\ \A b \in 0 .. 7 : z[b] = IF x[b] = 1 \/ y[b] = 1 THEN 1 ELSE 0
  BY DEF BitOr, Bit
<1> HIDE DEF z
<1>5. ConcutBitsToSingleByte(d, u, s, n) = ShiftLeft(z, free)
  BY DEF ConcutBitsToSingleByte, x, y, z
<1>6. /\ ShiftLeft(z, free) \in Byte
      /\ \A b \in 0 .. 7 : ShiftLeft(z, free)[b] = IF b + free <= 7 THEN z[b + free] ELSE 0
  BY <1>1, <1>4 DEF ShiftLeft, Byte, Bit
<1>7. ASSUME NEW b \in 0 .. 7
      PROVE  ShiftLeft(z, free)[b] =
               IF b < u THEN d[b] ELSE IF b < u + n THEN s[b - u] ELSE 0
  <2>1. CASE b >= u + n
    BY <2>1, <1>6
  <2>2. CASE b < u + n
    <3>1. b + free \in 0 .. 7 /\ (b + free) - free = b
      BY <2>2
    <3>2. ShiftLeft(z, free)[b] = z[b + free]
      BY <3>1, <1>6
    <3>3. x[b + free] = d[b]
      BY <3>1, <1>3
    <3>4. y[b + free] = IF b >= u THEN s[b - u] ELSE 0
      <4>1. (b + free) - (8 - n) = b - u
        OBVIOUS
      <4>2. QED BY <3>1, <4>1, <1>3
    <3>5. z[b + free] = IF x[b + free] = 1 \/ y[b + free] = 1 THEN 1 ELSE 0
      BY <3>1, <1>4
    <3>6. CASE b < u
      BY <3>2, <3>3, <3>4, <3>5, <3>6, <1>2 DEF Bit
    <3>7. CASE b >= u
      <4>1. d[b] = 0 /\ b - u \in 0 .. 7
        BY <3>7
      <4>2. s[b - u] \in Bit
        BY <4>1, <1>2
      <4>3. QED BY <2>2, <3>2, <3>3, <3>4, <3>5, <3>7, <4>1, <4>2 DEF Bit
    <3>8. QED BY <3>6, <3>7
  <2>3. QED BY <2>1, <2>2
<1>8. QED BY <1>5, <1>6, <1>7

-----------------------------------------------------------------------------
(* The inductive invariant.                                                *)

\* Where the loop is in the code: the current byte has been shifted by the
\* bits already taken from it, the bytes behind it are untouched.
Taken == Copied - 8 * sourceIndex

SourceInv ==
    pc = "copy" /\ left > 0 =>
        /\ Taken \in 0 .. 7
        /\ inByte = Least(8, code.size - 8 * sourceIndex) - Taken
        /\ inByte > 0
        /\ \A b \in 0 .. 7 - Taken :
              tempSource[sourceIndex][b] = code.bytes[sourceIndex][b + Taken]
        /\ \A k \in sourceIndex + 1 .. code.size \div 8 :
              tempSource[k] = code.bytes[k]

\* The row never has more bits than it has room for, and when no call is under
\* way all of them belong to finished calls.
RoomInv ==
    /\ indexFrom = MaxBytes => used = 0
    /\ pc = "idle" => committed = Filled
    /\ committed <= Filled

\* The inductive invariant.  BPTypeOK and RowHoldsStream alone are not: they do not
\* say which bits of the code are still in the shifted copy.
PackInv == BPTypeOK /\ RoomInv /\ SourceInv /\ RowHoldsStream /\ ZeroBehind

-----------------------------------------------------------------------------
(* One iteration of the loop.                                              *)

\* What the state before an iteration says about its numbers.
LEMMA IterationNumbers ==
    ASSUME PackInv, CopyBits
    PROVE  /\ bitsToCopy \in 1 .. 8 - used
           /\ bitsToCopy <= inByte /\ bitsToCopy <= left
           /\ bitsToCopy + Taken <= 8
           /\ sourceIndex \in 0 .. code.size \div 8
           /\ code.size \in Nat /\ code.bytes \in [0 .. code.size \div 8 -> Byte]
           /\ Filled' = Filled + bitsToCopy
           /\ Copied' = Copied + bitsToCopy
<1>1. code.size \in Nat /\ code.bytes \in [0 .. code.size \div 8 -> Byte]
  BY BPAssumption DEF PackInv, BPTypeOK
<1>2. /\ left \in 1 .. code.size /\ used \in 0 .. 7 /\ inByte \in 1 .. 8
      /\ indexFrom \in Nat /\ sourceIndex \in Nat
      /\ Taken \in 0 .. 7
      /\ inByte = Least(8, code.size - 8 * sourceIndex) - Taken
  BY <1>1 DEF PackInv, BPTypeOK, SourceInv, CopyBits
<1>3. inByte <= 8 - Taken /\ inByte <= left
  <2>1. left = code.size - 8 * sourceIndex - Taken
    BY <1>1, <1>2 DEF Taken, Copied
  <2>2. /\ Least(8, code.size - 8 * sourceIndex) <= 8
        /\ Least(8, code.size - 8 * sourceIndex) <= code.size - 8 * sourceIndex
    BY <1>1, <1>2 DEF Least
  <2> DEFINE m == Least(8, code.size - 8 * sourceIndex)
  <2>3. m \in Int
    BY <1>1, <1>2 DEF Least
  <2> HIDE DEF m
  <2>4. inByte = m - Taken /\ m <= 8 /\ m <= code.size - 8 * sourceIndex
    BY <1>2, <2>2 DEF m
  <2>5. code.size \in Int /\ sourceIndex \in Int /\ Taken \in Int /\ left \in Int /\ inByte \in Int
    BY <1>1, <1>2
  <2>6. QED BY <2>1, <2>3, <2>4, <2>5
<1>4. /\ bitsToCopy \in 1 .. 8 - used
      /\ bitsToCopy <= inByte /\ bitsToCopy <= left
      /\ bitsToCopy + Taken <= 8
  BY <1>2, <1>3 DEF bitsToCopy, Least
<1>5. sourceIndex <= code.size \div 8
  BY <1>1, <1>2, SMTT(60) DEF Taken, Copied
<1>6. Filled' = Filled + bitsToCopy
  BY <1>2, <1>4 DEF CopyBits, Filled
<1>7. Copied' = Copied + bitsToCopy
  BY <1>1, <1>2, <1>4 DEF CopyBits, Copied
<1>8. QED BY <1>1, <1>2, <1>4, <1>5, <1>6, <1>7

\* What the iteration does to the row, bit by bit.
LEMMA IterationBits ==
    ASSUME PackInv, CopyBits
    PROVE  /\ dest' \in [0 .. MaxBytes - 1 -> Byte]
           /\ \A p \in 0 .. 8 * MaxBytes - 1 :
                BitAt(dest', p) =
                    IF p < Filled THEN BitAt(dest, p)
                    ELSE IF p < Filled + bitsToCopy
                         THEN BitAt(code.bytes, Copied + (p - Filled))
                         ELSE 0
<1> DEFINE n == bitsToCopy
           new == ConcutBitsToSingleByte(dest[indexFrom], used,
                                         tempSource[sourceIndex], n)
<1>1. /\ n \in 1 .. 8 - used /\ n + Taken <= 8
      /\ sourceIndex \in 0 .. code.size \div 8
      /\ code.size \in Nat
  BY IterationNumbers
<1>2. /\ dest \in [0 .. MaxBytes - 1 -> Byte] /\ indexFrom \in 0 .. MaxBytes - 1
      /\ used \in 0 .. 7 /\ MaxBytes \in Nat /\ left \in 0 .. code.size
      /\ tempSource[sourceIndex] \in Byte
      /\ dest' = [dest EXCEPT ![indexFrom] = new]
  <2>1. /\ dest \in [0 .. MaxBytes - 1 -> Byte] /\ indexFrom \in 0 .. MaxBytes
        /\ used \in 0 .. 7 /\ left \in 0 .. code.size
        /\ tempSource \in [0 .. code.size \div 8 -> Byte]
    BY DEF PackInv, BPTypeOK
  <2>2. indexFrom < MaxBytes /\ dest' = [dest EXCEPT ![indexFrom] = new]
    BY DEF CopyBits
  <2>3. tempSource[sourceIndex] \in Byte
    BY <2>1, <1>1
  <2>4. MaxBytes \in Nat
    BY BPAssumption
  <2> HIDE DEF new
  <2>5. QED BY <2>1, <2>2, <2>3, <2>4
<1>3. \A p \in 0 .. 8 * MaxBytes - 1 : p >= Filled => BitAt(dest, p) = 0
  BY <1>2 DEF PackInv, ZeroBehind, Filled
<1>4. \A b \in used .. 7 : dest[indexFrom][b] = 0
  <2> SUFFICES ASSUME NEW b \in used .. 7
               PROVE  dest[indexFrom][b] = 0
    OBVIOUS
  <2>1. 8 * indexFrom + b \in 0 .. 8 * MaxBytes - 1 /\ 8 * indexFrom + b >= Filled
    BY <1>2 DEF Filled
  <2>2. BitAt(dest, 8 * indexFrom + b) = dest[indexFrom][b]
    <3>1. (8 * indexFrom + b) \div 8 = indexFrom /\ (8 * indexFrom + b) % 8 = b
      BY <1>2, DivModUnique
    <3>2. QED BY <3>1 DEF BitAt
  <2>3. QED BY <2>1, <2>2, <1>3
<1>5. /\ new \in Byte
      /\ \A b \in 0 .. 7 :
           new[b] = IF b < used THEN dest[indexFrom][b]
                    ELSE IF b < used + n THEN tempSource[sourceIndex][b - used] ELSE 0
  <2>1. dest[indexFrom] \in Byte
    BY <1>2
  <2>2. QED BY <2>1, <1>1, <1>2, <1>4, ConcutBits
<1> HIDE DEF new, n
<1>6. dest' \in [0 .. MaxBytes - 1 -> Byte]
  BY <1>2, <1>5
<1>7. ASSUME NEW p \in 0 .. 8 * MaxBytes - 1
      PROVE  BitAt(dest', p) =
                    IF p < Filled THEN BitAt(dest, p)
                    ELSE IF p < Filled + n
                         THEN BitAt(code.bytes, Copied + (p - Filled))
                         ELSE 0
  <2> DEFINE k == p \div 8
             b == p % 8
  <2>1. k \in 0 .. MaxBytes - 1 /\ b \in 0 .. 7 /\ p = 8 * k + b
    BY <1>2, DivMod
  <2>2. BitAt(dest', p) = dest'[k][b] /\ BitAt(dest, p) = dest[k][b]
    BY DEF BitAt
  <2> HIDE DEF k, b
  <2>3. CASE k < indexFrom
    BY <2>1, <2>2, <2>3, <1>2 DEF Filled
  <2>4. CASE k > indexFrom
    <3>1. p >= Filled + n
      BY <2>1, <2>4, <1>1, <1>2 DEF Filled
    <3>2. dest'[k] = dest[k]
      BY <2>1, <2>4, <1>2
    <3>3. QED BY <3>1, <3>2, <2>2, <1>1, <1>2, <1>3 DEF Filled
  <2>5. CASE k = indexFrom
    <3>1. dest'[k] = new
      BY <2>1, <2>5, <1>2
    <3>2. CASE b < used
      <4>1. p < Filled
        BY <3>2, <2>1, <2>5, <1>2 DEF Filled
      <4>2. dest'[k][b] = dest[k][b]
        BY <3>1, <3>2, <2>1, <2>5, <1>5
      <4>3. QED BY <4>1, <4>2, <2>2
    <3>3. CASE b >= used /\ b < used + n
      <4>1. /\ p - Filled = b - used /\ b - used \in 0 .. 7 - Taken
            /\ p >= Filled /\ p < Filled + n
        BY <3>3, <2>1, <2>5, <1>1, <1>2, SMTT(60) DEF Filled, Taken, Copied
      <4>2. BitAt(dest', p) = tempSource[sourceIndex][b - used]
        <5>1. ~ (b < used) /\ b < used + n
          BY <3>3, <2>1, <1>1, <1>2
        <5>2. new[b] = tempSource[sourceIndex][b - used]
          BY <5>1, <2>1, <1>5
        <5>3. QED BY <5>2, <3>1, <2>2
      <4>3. tempSource[sourceIndex][b - used] = code.bytes[sourceIndex][(b - used) + Taken]
        BY <4>1 DEF PackInv, SourceInv, CopyBits
      <4>4. BitAt(code.bytes, Copied + (p - Filled)) =
              code.bytes[sourceIndex][(b - used) + Taken]
        <5>1. /\ Copied + (p - Filled) = 8 * sourceIndex + ((b - used) + Taken)
              /\ (b - used) + Taken \in 0 .. 7
              /\ sourceIndex \in Nat /\ Copied + (p - Filled) \in Nat
          <6>1. Taken \in 0 .. 7
            BY DEF PackInv, SourceInv, CopyBits
          <6>2. Copied = 8 * sourceIndex + Taken
            BY <1>1, <1>2 DEF Taken, Copied
          <6>3. QED BY <6>1, <6>2, <4>1, <3>3, <2>1, <1>1, <1>2, SMTT(60)
        <5>2. QED BY <5>1, DivModUnique DEF BitAt
      <4>5. ~ (p < Filled) /\ p < Filled + n
        BY <4>1, <2>1, <1>1, <1>2 DEF Filled
      <4>6. QED BY <4>2, <4>3, <4>4, <4>5
    <3>4. CASE b >= used + n
      <4>1. p >= Filled + n
        BY <3>4, <2>1, <2>5, <1>1, <1>2 DEF Filled
      <4>2. BitAt(dest', p) = 0
        <5>1. ~ (b < used) /\ ~ (b < used + n)
          BY <3>4, <2>1, <1>1, <1>2
        <5>2. new[b] = 0
          BY <5>1, <2>1, <1>5
        <5>3. QED BY <5>2, <3>1, <2>2
      <4>3. ~ (p < Filled) /\ ~ (p < Filled + n)
        BY <4>1, <2>1, <1>1, <1>2 DEF Filled
      <4>4. QED BY <4>2, <4>3
    <3>5. QED BY <3>2, <3>3, <3>4, <2>1, <1>1, <1>2
  <2>6. QED BY <2>1, <2>3, <2>4, <2>5, <1>2
<1>8. QED BY <1>6, <1>7 DEF n

-----------------------------------------------------------------------------
(* The invariant is inductive.                                             *)

\* The invariant holds for the cleared row (memset in CompressURLsMachine).
LEMMA InitInv == BPInit => PackInv
<1> SUFFICES ASSUME BPInit PROVE PackInv
  OBVIOUS
<1>1. code.size \in Nat /\ code.bytes \in [0 .. code.size \div 8 -> Byte] /\ MaxBytes \in Nat
  BY BPAssumption DEF BPInit
<1>2. ZeroByte \in Byte /\ \A b \in 0 .. 7 : ZeroByte[b] = 0
  BY DEF ZeroByte, Byte, Bit
<1>3. BPTypeOK
  BY <1>1, <1>2 DEF BPTypeOK, BPInit
<1>4. RoomInv /\ SourceInv /\ RowHoldsStream
  BY DEF BPInit, RoomInv, SourceInv, RowHoldsStream, Filled
<1>5. ZeroBehind
  <2> SUFFICES ASSUME NEW p \in 0 .. 8 * MaxBytes - 1
               PROVE  BitAt(dest, p) = 0
    <3>1. Filled = 0
      BY DEF BPInit, Filled
    <3>2. QED BY <3>1 DEF ZeroBehind
  <2>1. p \div 8 \in 0 .. MaxBytes - 1 /\ p % 8 \in 0 .. 7
    BY <1>1, DivMod
  <2>2. dest[p \div 8] = ZeroByte
    BY <2>1 DEF BPInit
  <2>3. QED BY <2>1, <2>2, <1>2 DEF BitAt
<1>6. QED BY <1>3, <1>4, <1>5 DEF PackInv

\* It holds when ConcutByteArrayToByteArray has set its local variables.
LEMMA CallInv ==
    ASSUME PackInv, NEW c \in Codes, Call(c)
    PROVE  PackInv'
<1>1. c.size \in Nat /\ c.bytes \in [0 .. c.size \div 8 -> Byte]
  BY BPAssumption
<1>2. BPTypeOK'
  <2>1. Least(8, c.size) \in 0 .. 8
    BY <1>1 DEF Least
  <2>2. /\ code' = c /\ tempSource' = c.bytes /\ sourceIndex' = 0 /\ left' = c.size
        /\ inByte' = Least(8, c.size) /\ pc' = "copy" /\ UNCHANGED <<dest, indexFrom, used, committed>>
    BY DEF Call, outVars
  <2>3. 0 \in Nat /\ c.size \in 0 .. c.size
    BY <1>1
  <2> QED
    BY <1>1, <2>1, <2>2, <2>3 DEF PackInv, BPTypeOK
<1>3. RoomInv'
  BY DEF PackInv, BPTypeOK, RoomInv, Call, outVars, Filled
<1>4. SourceInv'
  <2>1. code' = c /\ tempSource' = c.bytes /\ sourceIndex' = 0 /\ left' = c.size /\ inByte' = Least(8, c.size)
    BY DEF Call
  <2>2. Taken' = 0
    BY <1>1, <2>1 DEF Taken, Copied
  <2>3. /\ inByte' = Least(8, code'.size - 8 * sourceIndex') - Taken'
        /\ left' > 0 => inByte' > 0
    BY <1>1, <2>1, <2>2 DEF Least
  <2>4. \A b \in 0 .. 7 - Taken' : tempSource'[sourceIndex'][b] = code'.bytes[sourceIndex'][b + Taken']
    BY <2>1, <2>2
  <2> QED
    BY <2>1, <2>2, <2>3, <2>4 DEF SourceInv
<1>5. RowHoldsStream'
  <2>1. Filled \in Nat /\ Filled = committed
    BY DEF PackInv, BPTypeOK, RoomInv, Call, Filled
  <2>2. Filled' = Filled /\ committed' = committed /\ Copied' = 0
    BY <1>1 DEF Call, outVars, Filled, Copied
  <2>3. QED BY <2>1, <2>2 DEF RowHoldsStream
<1>6. ZeroBehind'
  BY DEF PackInv, ZeroBehind, Call, outVars, Filled, BitAt
<1>7. QED BY <1>2, <1>3, <1>4, <1>5, <1>6 DEF PackInv

\* An iteration of the loop of ConcutByteArrayToByteArray keeps it.
LEMMA CopyInv ==
    ASSUME PackInv, CopyBits
    PROVE  PackInv'
<1> DEFINE n == bitsToCopy
<1>1. /\ n \in 1 .. 8 - used /\ n <= inByte /\ n <= left
      /\ n + Taken <= 8
      /\ sourceIndex \in 0 .. code.size \div 8
      /\ code.size \in Nat /\ code.bytes \in [0 .. code.size \div 8 -> Byte]
  BY IterationNumbers
<1>2. Filled' = Filled + n /\ Copied' = Copied + n
  BY IterationNumbers
<1>3. /\ indexFrom \in 0 .. MaxBytes - 1 /\ used \in 0 .. 7 /\ MaxBytes \in Nat
      /\ left \in 1 .. code.size /\ inByte \in 1 .. 8
      /\ committed \in Nat /\ committed <= Filled
      /\ tempSource \in [0 .. code.size \div 8 -> Byte]
      /\ Taken \in 0 .. 7
      /\ inByte = Least(8, code.size - 8 * sourceIndex) - Taken
  BY <1>1, BPAssumption DEF PackInv, BPTypeOK, RoomInv, SourceInv, CopyBits
\* The same facts, numbers only.
<1>4. /\ n \in Nat /\ n > 0 /\ n <= inByte /\ n <= left /\ used + n <= 8 /\ n + Taken <= 8
      /\ used \in Nat /\ used <= 7 /\ Taken \in Nat /\ Taken <= 7
      /\ indexFrom \in Nat /\ indexFrom < MaxBytes /\ MaxBytes \in Nat
      /\ left \in Nat /\ left <= code.size /\ inByte \in Nat /\ inByte <= 8
      /\ sourceIndex \in Nat /\ code.size \in Nat
      /\ committed \in Nat /\ committed <= Filled
  <2>1. n \in Nat /\ n > 0 /\ used + n <= 8 /\ used \in Nat /\ used <= 7
    BY <1>1, <1>3, SMTT(60)
  <2>2. indexFrom \in Nat /\ indexFrom < MaxBytes
    BY <1>3
  <2>3. left \in Nat /\ left <= code.size
    BY <1>1, <1>3
  <2>4. inByte \in Nat /\ inByte <= 8 /\ Taken \in Nat /\ Taken <= 7
    BY <1>3
  <2>5. sourceIndex \in Nat
    BY <1>1
  <2>6. QED BY <2>1, <2>2, <2>3, <2>4, <2>5, <1>1, <1>3
<1>5. code' = code /\ pc = "copy" /\ pc' = pc /\ committed' = committed
  BY DEF CopyBits
<1>6. /\ left' = left - n
      /\ indexFrom' = IF used + n = 8 THEN indexFrom + 1 ELSE indexFrom
      /\ used' = IF used + n = 8 THEN 0 ELSE used + n
      /\ sourceIndex' = IF inByte = n THEN sourceIndex + 1 ELSE sourceIndex
      /\ inByte' = IF inByte = n THEN Least(8, left - n) ELSE inByte - n
  BY DEF CopyBits
<1>7. /\ tempSource' \in [0 .. code.size \div 8 -> Byte]
      /\ \A k \in 0 .. code.size \div 8 : k # sourceIndex => tempSource'[k] = tempSource[k]
      /\ \A b \in 0 .. 7 : b + n <= 7 =>
            tempSource'[sourceIndex][b] = tempSource[sourceIndex][b + n]
  <2>1. tempSource[sourceIndex] \in Byte
    BY <1>1, <1>3
  <2>2. n \in 0 .. 8
    BY <1>4
  <2>3. /\ ShiftLeft(tempSource[sourceIndex], n) \in Byte
        /\ \A b \in 0 .. 7 : b + n <= 7 =>
             ShiftLeft(tempSource[sourceIndex], n)[b] = tempSource[sourceIndex][b + n]
    BY <2>1, <2>2, ShiftLeftBits
  <2>4. tempSource' = [tempSource EXCEPT ![sourceIndex] =
                         ShiftLeft(tempSource[sourceIndex], n)]
    BY DEF CopyBits
  <2> HIDE DEF n
  <2>5. QED BY <2>3, <2>4, <1>1, <1>3
<1>8. /\ dest' \in [0 .. MaxBytes - 1 -> Byte]
      /\ \A p \in 0 .. 8 * MaxBytes - 1 :
           BitAt(dest', p) =
              IF p < Filled THEN BitAt(dest, p)
              ELSE IF p < Filled + n
                   THEN BitAt(code.bytes, Copied + (p - Filled))
                   ELSE 0
  BY IterationBits
<1> HIDE DEF n
<1>9. BPTypeOK'
  <2>1. left' \in 0 .. code.size
    BY <1>4, <1>6
  <2>2. inByte' \in 0 .. 8
    BY <1>4, <1>6 DEF Least
  <2>3. sourceIndex' \in Nat /\ indexFrom' \in 0 .. MaxBytes /\ used' \in 0 .. 7
    BY <1>4, <1>6
  <2>4. code \in Codes
    BY DEF PackInv, BPTypeOK
  <2>5. QED BY <1>4, <1>5, <1>7, <1>8, <2>1, <2>2, <2>3, <2>4 DEF BPTypeOK
<1>10. RoomInv'
  <2>1. indexFrom' = MaxBytes => used' = 0
    BY <1>4, <1>6
  <2>2. pc' # "idle"
    BY <1>5
  <2>3. Filled \in Nat
    BY <1>4 DEF Filled
  <2>4. committed' <= Filled'
    BY <1>2, <1>4, <1>5, <2>3
  <2>5. QED BY <2>1, <2>2, <2>4 DEF RoomInv
<1>11. SourceInv'
  <2> SUFFICES ASSUME left' > 0
               PROVE  /\ Taken' \in 0 .. 7
                      /\ inByte' = Least(8, code.size - 8 * sourceIndex') - Taken'
                      /\ inByte' > 0
                      /\ \A b \in 0 .. 7 - Taken' :
                           tempSource'[sourceIndex'][b] = code.bytes[sourceIndex'][b + Taken']
                      /\ \A k \in sourceIndex' + 1 .. code.size \div 8 :
                           tempSource'[k] = code.bytes[k]
    BY <1>5 DEF SourceInv
  <2>1. /\ \A b \in 0 .. 7 - Taken :
              tempSource[sourceIndex][b] = code.bytes[sourceIndex][b + Taken]
        /\ \A k \in sourceIndex + 1 .. code.size \div 8 : tempSource[k] = code.bytes[k]
    BY <1>4, <1>5 DEF PackInv, SourceInv
  <2>2. /\ Copied \in Nat /\ Copied = 8 * sourceIndex + Taken
        /\ Copied = code.size - left
        /\ Taken' = Copied + n - 8 * sourceIndex'
    <3>1. Copied \in Nat /\ Copied = 8 * sourceIndex + Taken /\ Copied = code.size - left
      BY <1>4 DEF Taken, Copied
    <3>2. Taken' = Copied' - 8 * sourceIndex'
      BY DEF Taken
    <3>3. sourceIndex' \in Nat
      BY <1>4, <1>6
    <3>4. QED BY <3>1, <3>2, <3>3, <1>2, <1>4
  <2>3. inByte = IF 8 < code.size - 8 * sourceIndex
                 THEN 8 - Taken ELSE code.size - 8 * sourceIndex - Taken
    BY <1>3, <1>4 DEF Least
  <2>4. left > n
    BY <1>4, <1>6
  <2>5. CASE inByte = n
    <3>1. Taken + n = 8
      BY <2>2, <2>3, <2>4, <2>5, <1>4
    <3>2. sourceIndex' = sourceIndex + 1 /\ Taken' = 0
      BY <3>1, <2>2, <2>5, <1>4, <1>6
    <3>3. inByte' = Least(8, code.size - 8 * sourceIndex') /\ inByte' > 0
      <4>1. code.size - 8 * sourceIndex' = left - n
        BY <3>1, <3>2, <2>2, <1>4
      <4>2. inByte' = Least(8, left - n)
        BY <2>5, <1>6
      <4>3. QED BY <4>1, <4>2, <2>4, <1>4 DEF Least
    <3>4. sourceIndex' \in sourceIndex + 1 .. code.size \div 8
      <4>1. 8 * (sourceIndex + 1) <= code.size
        BY <3>1, <2>2, <2>4, <1>4
      <4>2. QED BY <4>1, <3>2, <1>4
    <3>5. \A k \in sourceIndex' .. code.size \div 8 : tempSource'[k] = code.bytes[k]
      <4> TAKE k \in sourceIndex' .. code.size \div 8
      <4>1. k \in sourceIndex + 1 .. code.size \div 8
        BY <3>2
      <4>2. k \in 0 .. code.size \div 8 /\ k # sourceIndex
        BY <4>1, <1>4
      <4>3. QED BY <4>1, <4>2, <2>1, <1>7
    <3>6. tempSource'[sourceIndex'] = code.bytes[sourceIndex']
      BY <3>4, <3>5, <1>4
    <3>7. \A b \in 0 .. 7 : b + Taken' = b
      BY <3>2
    <3>8. \A b \in 0 .. 7 - Taken' :
            tempSource'[sourceIndex'][b] = code.bytes[sourceIndex'][b + Taken']
      BY <3>2, <3>6, <3>7
    <3>9. \A k \in sourceIndex' + 1 .. code.size \div 8 : tempSource'[k] = code.bytes[k]
      BY <3>2, <3>5, <1>4
    <3>10. inByte' = Least(8, code.size - 8 * sourceIndex') - Taken'
      <4>1. inByte' \in Nat
        BY <1>4, <1>6, <2>4 DEF Least
      <4>2. QED BY <4>1, <3>2, <3>3
    <3>11. QED BY <3>2, <3>3, <3>8, <3>9, <3>10
  <2>6. CASE inByte # n
    <3>1. sourceIndex' = sourceIndex /\ inByte' = inByte - n
      BY <2>6, <1>6
    <3>2. Taken' = Taken + n /\ Taken + n <= 7
      BY <3>1, <2>2, <2>3, <2>6, <1>4
    <3>3. inByte' = Least(8, code.size - 8 * sourceIndex) - Taken' /\ inByte' > 0
      BY <3>1, <3>2, <2>3, <2>6, <1>4 DEF Least
    <3>4. \A b \in 0 .. 7 - Taken' :
            tempSource'[sourceIndex][b] = code.bytes[sourceIndex][b + Taken']
      <4> TAKE b \in 0 .. 7 - Taken'
      <4>1. b \in 0 .. 7 /\ b + n <= 7 /\ b + n \in 0 .. 7 - Taken
        BY <3>2, <1>4
      <4>2. tempSource'[sourceIndex][b] = tempSource[sourceIndex][b + n]
        BY <4>1, <1>7
      <4>3. tempSource[sourceIndex][b + n] = code.bytes[sourceIndex][(b + n) + Taken]
        BY <4>1, <2>1
      <4>4. (b + n) + Taken = b + Taken'
        BY <4>1, <3>2, <1>4
      <4>5. QED BY <4>2, <4>3, <4>4
    <3>5. \A k \in sourceIndex + 1 .. code.size \div 8 : tempSource'[k] = code.bytes[k]
      BY <2>1, <1>4, <1>7
    <3>6. Taken' \in 0 .. 7
      BY <3>2, <1>4
    <3>7. QED BY <3>1, <3>3, <3>4, <3>5, <3>6
  <2>7. QED BY <2>5, <2>6
<1>12. Filled \in Nat /\ Filled + n <= 8 * MaxBytes
  BY <1>4 DEF Filled
<1>13. RowHoldsStream'
  <2>1. /\ Filled = committed + Copied /\ Copied \in Nat
        /\ \A p \in committed .. Filled - 1 : BitAt(dest, p) = BitAt(code.bytes, p - committed)
    BY <1>4, <1>5 DEF PackInv, RowHoldsStream, Copied
  <2>2. Filled' = committed' + Copied'
    BY <2>1, <1>2, <1>4, <1>5
  <2>3. ASSUME NEW p \in committed .. Filled + n - 1
        PROVE  BitAt(dest', p) = BitAt(code.bytes, p - committed)
    <3>1. p \in 0 .. 8 * MaxBytes - 1
      BY <1>4, <1>12
    <3>2. CASE p < Filled
      <4>1. BitAt(dest', p) = BitAt(dest, p)
        BY <3>1, <3>2, <1>8
      <4>2. p \in committed .. Filled - 1
        BY <3>2, <1>4, <1>12
      <4>3. QED BY <4>1, <4>2, <2>1
    <3>3. CASE ~ (p < Filled)
      <4>1. Copied + (p - Filled) = p - committed
        BY <2>1, <1>4, <1>12
      <4>2. p < Filled + n
        BY <1>4, <1>12
      <4>3. BitAt(dest', p) = BitAt(code.bytes, Copied + (p - Filled))
        BY <3>1, <3>3, <4>2, <1>8
      <4>4. QED BY <4>1, <4>3
    <3>4. QED BY <3>2, <3>3
  <2>4. \A p \in committed' .. Filled' - 1 :
          BitAt(dest', p) = BitAt(code'.bytes, p - committed')
    BY <2>3, <1>2, <1>4, <1>5, <1>12
  <2>5. QED BY <2>2, <2>4 DEF RowHoldsStream
<1>14. ZeroBehind'
  <2> SUFFICES ASSUME NEW p \in Filled + n .. 8 * MaxBytes - 1
               PROVE  BitAt(dest', p) = 0
    BY <1>2 DEF ZeroBehind
  <2>1. p \in 0 .. 8 * MaxBytes - 1 /\ ~ (p < Filled) /\ ~ (p < Filled + n)
    BY <1>4, <1>12
  <2>2. QED BY <2>1, <1>8
<1>15. QED BY <1>9, <1>10, <1>11, <1>13, <1>14 DEF PackInv

\* Every step keeps it: the two above, and those that change no bits.
LEMMA StepInv == PackInv /\ [BPNext]_bpVars => PackInv'
<1> SUFFICES ASSUME PackInv, [BPNext]_bpVars PROVE PackInv'
  OBVIOUS
<1>1. CASE \E c \in Codes : Call(c)
  BY <1>1, CallInv
<1>2. CASE CopyBits
  BY <1>2, CopyInv
<1>3. ASSUME outVars' = outVars, callVars' = callVars
      PROVE  /\ Filled' = Filled /\ Copied' = Copied /\ Taken' = Taken
             /\ ZeroBehind'
             /\ \A p : BitAt(dest', p) = BitAt(dest, p)
  BY <1>3 DEF outVars, callVars, Filled, Copied, Taken, ZeroBehind, PackInv, BitAt
<1>4. CASE Overflow
  <2>1. /\ outVars' = outVars /\ callVars' = callVars /\ committed' = committed
        /\ pc = "copy" /\ pc' = "overflow"
    BY <1>4 DEF Overflow
  <2>2. BPTypeOK' /\ RoomInv' /\ SourceInv'
    BY <2>1, <1>3 DEF PackInv, BPTypeOK, RoomInv, SourceInv, outVars, callVars
  <2>3. RowHoldsStream'
    BY <2>1, <1>3 DEF PackInv, RowHoldsStream, callVars
  <2>4. QED BY <2>1, <2>2, <2>3, <1>3 DEF PackInv
<1>5. CASE Return
  <2>1. /\ outVars' = outVars /\ callVars' = callVars /\ committed' = Filled
        /\ pc' = "idle"
    BY <1>5 DEF Return, Filled
  <2>2. Filled \in Nat
    BY DEF PackInv, BPTypeOK, Filled
  <2>3. BPTypeOK'
    BY <2>1, <2>2 DEF PackInv, BPTypeOK, outVars, callVars
  <2>4. RoomInv'
    BY <2>1, <2>2, <1>3 DEF PackInv, RoomInv, outVars
  <2>5. SourceInv' /\ RowHoldsStream'
    BY <2>1 DEF SourceInv, RowHoldsStream
  <2>6. QED BY <2>1, <2>3, <2>4, <2>5, <1>3 DEF PackInv
<1>6. CASE BPStopped \/ UNCHANGED bpVars
  <2>1. outVars' = outVars /\ callVars' = callVars /\ committed' = committed /\ pc' = pc
    BY <1>6 DEF BPStopped, bpVars
  <2>2. BPTypeOK' /\ RoomInv' /\ SourceInv'
    BY <2>1, <1>3 DEF PackInv, BPTypeOK, RoomInv, SourceInv, outVars, callVars
  <2>3. RowHoldsStream'
    BY <2>1, <1>3 DEF PackInv, RowHoldsStream, callVars
  <2>4. QED BY <2>1, <2>2, <2>3, <1>3 DEF PackInv
<1>7. QED BY <1>1, <1>2, <1>4, <1>5, <1>6 DEF BPNext, ConcutByteArrayToByteArray

-----------------------------------------------------------------------------
(* Theorems.                                                               *)

\* The inductive invariant holds in every state of ConcutByteArrayToByteArray.
THEOREM Invariance == BPSpec => []PackInv
  BY InitInv, StepInv, PTL DEF BPSpec

\* The packer keeps its types; in particular it never fills a byte beyond its
\* eight bits and never leaves the row unnoticed.
THEOREM TypeCorrect == BPSpec => []BPTypeOK
<1>1. PackInv => BPTypeOK
  BY DEF PackInv
<1>2. QED BY <1>1, Invariance, PTL

\* While ConcutByteArrayToByteArray copies, the row holds the earlier bits and
\* the copied part of the code, and only zeros behind: for every code, of
\* every size, and whatever follows its last bit in memory.
THEOREM RowCorrect == BPSpec => [](RowHoldsStream /\ ZeroBehind)
<1>1. PackInv => RowHoldsStream /\ ZeroBehind
  BY DEF PackInv
<1>2. QED BY <1>1, Invariance, PTL

\* The bits of finished calls are never disturbed, and a call that returns has
\* appended its code.
LEMMA StepRefines ==
    PackInv /\ PackInv' /\ [BPNext]_bpVars => [Stream!Next]_Output
<1> SUFFICES ASSUME PackInv, PackInv', [BPNext]_bpVars
             PROVE  [Stream!Next]_Output
  OBVIOUS
<1>1. /\ committed \in Nat /\ committed <= Filled /\ Filled \in Nat
      /\ MaxBytes \in Nat
      /\ code.size \in Nat /\ code \in Codes
      /\ Filled <= 8 * MaxBytes
  BY BPAssumption, SMTT(60) DEF PackInv, BPTypeOK, RoomInv, Filled
<1>2. CASE /\ committed' = committed
           /\ \A p \in 0 .. committed - 1 : BitAt(dest', p) = BitAt(dest, p)
  <2>1. \A p \in 1 .. committed : p - 1 \in 0 .. committed - 1
    BY <1>1
  <2>2. \A p \in 1 .. committed : BitAt(dest', p - 1) = BitAt(dest, p - 1)
    BY <2>1, <1>2
  <2>3. Output' = [p \in 1 .. committed |-> BitAt(dest', p - 1)]
    BY <1>2 DEF Output
  <2>4. Output' = Output
    BY <2>2, <2>3 DEF Output
  <2>5. QED BY <2>4
<1>3. CASE CopyBits
  <2>1. \A p \in 0 .. committed - 1 : p \in 0 .. 8 * MaxBytes - 1 /\ p < Filled
    BY <1>1
  <2>2. \A p \in 0 .. committed - 1 : BitAt(dest', p) = BitAt(dest, p)
    BY <2>1, <1>3, IterationBits
  <2>3. committed' = committed
    BY <1>3 DEF CopyBits
  <2>4. QED BY <2>2, <2>3, <1>2
<1>4. CASE Return
  <2>1. /\ dest' = dest /\ code' = code /\ left = 0 /\ pc = "copy"
        /\ committed' = Filled
    BY <1>4 DEF Return, outVars, callVars, Filled
  <2>2. /\ Filled = committed + code.size
        /\ \A p \in committed .. Filled - 1 :
              BitAt(dest, p) = BitAt(code.bytes, p - committed)
    BY <2>1, <1>1 DEF PackInv, RowHoldsStream, Copied
  <2>3. \A p \in 0 .. Filled - 1 : BitAt(dest, p) \in Bit
    <3> TAKE p \in 0 .. Filled - 1
    <3>1. p \div 8 \in 0 .. MaxBytes - 1 /\ p % 8 \in 0 .. 7
      BY <1>1, DivMod
    <3>2. QED BY <3>1 DEF PackInv, BPTypeOK, Byte, BitAt
  <2>4. Output \in Seq(Bit) /\ Len(Output) = committed
    <3>1. \A p \in 1 .. committed : BitAt(dest, p - 1) \in Bit
      <4> TAKE p \in 1 .. committed
      <4>1. p - 1 \in 0 .. Filled - 1
        BY <1>1
      <4>2. QED BY <4>1, <2>3
    <3>2. QED BY <3>1, <1>1 DEF Output
  <2>5. Output' \in Seq(Bit) /\ Len(Output') = Filled
    <3>1. \A p \in 1 .. Filled : BitAt(dest, p - 1) \in Bit
      <4> TAKE p \in 1 .. Filled
      <4>1. p - 1 \in 0 .. Filled - 1
        BY <1>1
      <4>2. QED BY <4>1, <2>3
    <3>2. Output' = [p \in 1 .. Filled |-> BitAt(dest, p - 1)]
      BY <2>1 DEF Output
    <3>3. QED BY <3>1, <3>2, <1>1
  <2>6. BitsOf(code) \in Seq(Bit) /\ Len(BitsOf(code)) = code.size
    <3>1. \A p \in 1 .. code.size : BitAt(code.bytes, p - 1) \in Bit
      <4> TAKE p \in 1 .. code.size
      <4>1. /\ committed + (p - 1) \in committed .. Filled - 1
            /\ (committed + (p - 1)) - committed = p - 1
            /\ committed + (p - 1) \in 0 .. Filled - 1
        BY <2>2, <1>1
      <4>2. QED BY <4>1, <2>2, <2>3
    <3>2. QED BY <3>1, <1>1 DEF BitsOf
  <2>7. /\ Output \o BitsOf(code) \in Seq(Bit)
        /\ Len(Output \o BitsOf(code)) = committed + code.size
        /\ \A q \in 1 .. committed + code.size :
             (Output \o BitsOf(code))[q] =
                IF q <= committed THEN Output[q] ELSE BitsOf(code)[q - committed]
    <3> DEFINE o == Output
               c == BitsOf(code)
    <3>1. o \in Seq(Bit) /\ c \in Seq(Bit)
      BY <2>4, <2>6
    <3>2. Len(o) = committed /\ Len(c) = code.size
      BY <2>4, <2>6
    <3> HIDE DEF o, c
    <3>3. /\ o \o c \in Seq(Bit)
          /\ Len(o \o c) = Len(o) + Len(c)
          /\ \A q \in 1 .. Len(o) + Len(c) :
               (o \o c)[q] = IF q <= Len(o) THEN o[q] ELSE c[q - Len(o)]
      BY <3>1, ConcatProperties
    <3>4. /\ o \o c \in Seq(Bit)
          /\ Len(o \o c) = committed + code.size
          /\ \A q \in 1 .. committed + code.size :
               (o \o c)[q] = IF q <= committed THEN o[q] ELSE c[q - committed]
      BY <3>2, <3>3
    <3>5. QED BY <3>4 DEF o, c
  <2>8. ASSUME NEW q \in 1 .. Filled
        PROVE  Output'[q] = (Output \o BitsOf(code))[q]
    <3>1. Output'[q] = BitAt(dest, q - 1)
      BY <2>1 DEF Output
    <3>2. CASE q <= committed
      BY <3>1, <3>2, <2>2, <2>7, <1>1 DEF Output
    <3>3. CASE ~ (q <= committed)
      <4>1. /\ q - 1 \in committed .. Filled - 1 /\ q - committed \in 1 .. code.size
            /\ (q - 1) - committed = (q - committed) - 1
        BY <3>3, <2>2, <1>1
      <4>2. BitAt(dest, q - 1) = BitsOf(code)[q - committed]
        BY <4>1, <2>2 DEF BitsOf
      <4>3. QED BY <3>1, <3>3, <4>2, <2>2, <2>7
    <3>4. QED BY <3>2, <3>3
  <2>9. Output' = Output \o BitsOf(code)
    BY <2>2, <2>5, <2>7, <2>8, SeqEqual
  <2>10. QED BY <2>9, <1>1 DEF Stream!Next
<1>5. CASE (\E c \in Codes : Call(c)) \/ Overflow \/ BPStopped \/ UNCHANGED bpVars
  <2>1. dest' = dest /\ committed' = committed
    BY <1>5 DEF Call, Overflow, BPStopped, bpVars, outVars
  <2>2. QED BY <2>1, <1>2
<1>6. QED BY <1>3, <1>4, <1>5 DEF BPNext, ConcutByteArrayToByteArray

\* The packer implements BitStream: the row is the stream of the codes, for
\* all codes and any sequence of calls.
THEOREM Refinement == BPSpec => AppendsCodes
<1>1. BPInit => Stream!Init
  <2> SUFFICES ASSUME BPInit PROVE Output = <<>>
    BY DEF Stream!Init
  <2>1. committed = 0
    BY DEF BPInit
  <2>2. Output \in Seq(Bit) /\ Len(Output) = 0
    <3>1. committed \in Nat /\ \A p \in 1 .. committed : BitAt(dest, p - 1) \in Bit
      BY <2>1
    <3>2. Output \in Seq(Bit) /\ Len(Output) = committed
      BY <3>1 DEF Output
    <3>3. QED BY <2>1, <3>2
  <2>3. Output = <<>>
    BY <2>2, EmptySeq
  <2>4. QED BY <2>3
<1>2. QED BY <1>1, StepRefines, Invariance, PTL DEF BPSpec, AppendsCodes, Stream!Spec

-----------------------------------------------------------------------------
(* The dictionary: what look-ups rely on.                                  *)

\* The word is in its home slot, or behind other words on its probes.
Chained(w) ==
    \/ Holds(Home(w), w)
    \/ \E p \in Powers : Holds(Slot(w, p), w) /\ OthersBefore(w, p)

\* Every word inserted so far can be reached by probing.
Chains ==
    dpc \in {"insert", "ready"} => \A i \in 1 .. at : Chained(entries[i].word)

\* A loaded dictionary has every entry in the table and in the Bloom filter.
BloomFull ==
    dpc = "ready" => /\ at = Len(entries)
                     /\ \A i \in 1 .. Len(entries) : Bits(entries[i].word) \subseteq bloom

TableInv == DictTypeOK /\ Chains /\ BloomFull

-----------------------------------------------------------------------------
\* strncpy makes a word of a word.
LEMMA KeptType == \A w \in Word : Kept(w) \in Word
BY DictionaryAssumption DEF Kept, Word

\* The slots a word visits are slots of the table.
LEMMA SlotType ==
    ASSUME DictTypeOK, size > 0, NEW w \in Word
    PROVE  /\ Home(w) \in Slots
           /\ \A p \in Powers : p \in Nat /\ Slot(w, p) \in Slots
<1>1. hasher.one[w] \in Nat /\ size \in Nat \ {0}
  BY DEF DictTypeOK
<1>2. \A p \in Powers : p \in Nat
  BY DEF Powers
<1>3. \A h \in Nat, n \in Nat \ {0} : h % n \in 0 .. n - 1
  OBVIOUS
<1>4. \A p \in Powers : hasher.one[w] + p \in Nat
  BY <1>1, <1>2
<1> QED
  BY <1>1, <1>2, <1>3, <1>4 DEF Home, Slot, Slots

\* The bits of a word are bits of the filter.
LEMMA BitsType ==
    ASSUME DictTypeOK, NEW w \in Word
    PROVE  Bits(w) \subseteq 0 .. BloomSize - 1
<1>1. hasher.one[w] \in Nat /\ hasher.two[w] \in Nat
  BY DEF DictTypeOK
<1>2. \A h \in Nat, n \in Nat \ {0} : h % n \in 0 .. n - 1
  OBVIOUS
<1> QED
  BY <1>1, <1>2, DictionaryAssumption DEF Bits

\* Among the values of probe beyond n, one is the least.
LEMMA LeastPower ==
    ASSUME NEW n \in Nat, NEW p \in Powers, p > n
    PROVE  \E m \in Powers : m > n /\ \A q \in Powers : q < m => q <= n
<1>1. CASE n < 1
  BY <1>1 DEF Powers
<1>2. CASE n >= 1 /\ n < 4
  BY <1>2 DEF Powers
<1>3. CASE n >= 4 /\ n < 16
  BY <1>3 DEF Powers
<1>4. CASE n >= 16 /\ n < 64
  BY <1>4 DEF Powers
<1>5. CASE n >= 64 /\ n < 256
  BY <1>5 DEF Powers
<1>6. CASE n >= 256 /\ n < 1024
  BY <1>6 DEF Powers
<1>7. CASE n >= 1024 /\ n < 4096
  BY <1>7 DEF Powers
<1>8. CASE n >= 4096 /\ n < 16384
  BY <1>8 DEF Powers
<1>9. CASE n >= 16384 /\ n < 65536
  BY <1>9 DEF Powers
<1>10. CASE n >= 65536 /\ n < 262144
  BY <1>10 DEF Powers
<1>11. CASE n >= 262144 /\ n < 1048576
  BY <1>11 DEF Powers
<1>12. CASE n >= 1048576 /\ n < 4194304
  BY <1>12 DEF Powers
<1>13. CASE n >= 4194304 /\ n < 16777216
  BY <1>13 DEF Powers
<1>14. CASE n >= 16777216
  BY <1>14 DEF Powers
<1> QED
  BY <1>1, <1>2, <1>3, <1>4, <1>5, <1>6, <1>7, <1>8, <1>9, <1>10, <1>11, <1>12, <1>13, <1>14

-----------------------------------------------------------------------------
(* The look-up of a chained word.                                          *)

\* Where a chain leads within the table, the look-up returns the word; where it
\* leads beyond the size, it returns nothing.
LEMMA LookupOfChained ==
    ASSUME DictTypeOK, dpc = "ready", size > 0, NEW w \in Word, Chained(w), InBloom(w)
    PROVE  LET e == DICTIONARY_GET(w) IN
           \/ e \in 1 .. Len(entries) /\ entries[e].word = w
           \/ e = NoEntry /\ StoredBeyond(w)
<1> USE SlotType
<1>0. DICTIONARY_GET(w) = DICTIONARY_GET_INNER(w)
  BY DEF DICTIONARY_GET
<1>1. \A s \in Slots : Holds(s, w) => /\ table[s] \in 1 .. Len(entries)
                                      /\ entries[table[s]].word = w
                                      /\ ~ Other(s, w)
  BY DEF DictTypeOK, Holds, Other, Free, NoEntry
<1>2. CASE Holds(Home(w), w)
  BY <1>0, <1>1, <1>2 DEF DICTIONARY_GET_INNER
<1>3. ASSUME NEW p \in Powers, Holds(Slot(w, p), w), OthersBefore(w, p)
      PROVE  \/ /\ DICTIONARY_GET(w) \in 1 .. Len(entries)
                /\ entries[DICTIONARY_GET(w)].word = w
             \/ DICTIONARY_GET(w) = NoEntry /\ StoredBeyond(w)
  <2> DEFINE l == LookupProbe(w)
  <2>1. Other(Home(w), w) /\ \A q \in Powers : q < p => Other(Slot(w, q), w)
    BY <1>3 DEF OthersBefore
  <2>2. ~ Other(Slot(w, p), w)
    BY <1>1, <1>3
  <2>3. size \in Nat /\ p \in Nat /\ \A q \in Powers : q \in Nat
    BY DEF DictTypeOK
  <2>4. \E m \in Powers : LookupEnds(w, m)
    <3>1. CASE p <= 2 * size
      <4>1. \A q \in Powers : q < p => q <= 2 * size
        BY <2>3, <3>1
      <4> QED
        BY <2>1, <2>2, <4>1 DEF LookupEnds
    <3>2. CASE p > 2 * size
      <4> DEFINE n == 2 * size
      <4>0. n \in Nat /\ p > n
        BY <2>3, <3>2
      <4> HIDE DEF n
      <4>a. \E m \in Powers : m > n /\ \A q \in Powers : q < m => q <= n
        BY <4>0, LeastPower
      <4>1. PICK m \in Powers : m > 2 * size /\ \A q \in Powers : q < m => q <= 2 * size
        BY <4>a DEF n
      <4>2. \A q \in Powers : q < m => q < p
        BY <2>3, <3>2, <4>1
      <4> QED
        BY <2>1, <4>1, <4>2 DEF LookupEnds
    <3> QED
      BY <2>3, <3>1, <3>2
  <2>5. l \in Powers /\ LookupEnds(w, l)
    BY <2>4 DEF LookupProbe
  <2>6. DICTIONARY_GET(w) = IF l > size THEN NoEntry ELSE table[Slot(w, l)]
    BY <1>0, <2>1 DEF DICTIONARY_GET_INNER
  <2> HIDE DEF l
  <2>7. \/ ~ Other(Slot(w, l), w)
        \/ l > 2 * size
    BY <2>5 DEF LookupEnds
  <2>8. ~ (p < l /\ p <= 2 * size) /\ (p < l => p <= 2 * size)
    BY <2>2, <2>5 DEF LookupEnds
  <2>9. CASE p <= size
    <3>1. l = p
      BY <2>1, <2>3, <2>5, <2>7, <2>8, <2>9
    <3> QED
      BY <1>1, <1>3, <2>3, <2>6, <2>9, <3>1
  <2>10. CASE p > size
    <3>1. l > size
      BY <2>1, <2>3, <2>5, <2>7, <2>8, <2>10
    <3>2. StoredBeyond(w)
      BY <1>3, <2>10 DEF StoredBeyond
    <3> QED
      BY <2>6, <3>1, <3>2
  <2> QED
    BY <2>3, <2>9, <2>10
<1> QED
  BY <1>2, <1>3 DEF Chained

-----------------------------------------------------------------------------
(* An insertion.                                                           *)

\* Storing an entry in a free slot leaves every occupied slot as it is.
LEMMA StoreKeeps ==
    ASSUME DictTypeOK, dpc = "insert", at < Len(entries),
           NEW s \in Slots, Free(s), Store(s), NEW w \in Word, NEW t \in Slots
    PROVE  /\ Holds(t, w) => Holds(t, w)'
           /\ Other(t, w) => Other(t, w)'
<1>1. /\ table \in [Slots -> {NoEntry} \cup 1 .. at]
      /\ table' = [table EXCEPT ![s] = at + 1]
      /\ entries' = entries
  BY DEF DictTypeOK, Store
<1>2. t # s => table'[t] = table[t]
  BY <1>1
<1>3. CASE t = s
  BY <1>3 DEF Holds, Other
<1>4. CASE t # s
  BY <1>1, <1>2, <1>4 DEF Holds, Other, Free, NoEntry
<1> QED
  BY <1>3, <1>4

\* A chain stays a chain.
LEMMA StoreKeepsChains ==
    ASSUME DictTypeOK, dpc = "insert", at < Len(entries),
           NEW s \in Slots, Free(s), Store(s), NEW w \in Word, Chained(w)
    PROVE  Chained(w)'
<1>1. size \in Nat /\ size > 0 /\ size' = size /\ hasher' = hasher
  BY DEF DictTypeOK, Store
<1>2. Home(w)' = Home(w) /\ \A p \in Powers : Slot(w, p)' = Slot(w, p)
  BY <1>1 DEF Home, Slot
<1>3. Home(w) \in Slots /\ \A p \in Powers : Slot(w, p) \in Slots
  BY <1>1, SlotType
<1>4. \A t \in Slots : /\ Holds(t, w) => Holds(t, w)'
                       /\ Other(t, w) => Other(t, w)'
  BY StoreKeeps
<1>5. CASE Holds(Home(w), w)
  BY <1>2, <1>3, <1>4, <1>5 DEF Chained, Holds, Free
<1>6. ASSUME NEW p \in Powers, Holds(Slot(w, p), w), OthersBefore(w, p)
      PROVE  Chained(w)'
  <2>1. Holds(Slot(w, p), w)'
    BY <1>2, <1>3, <1>4, <1>6 DEF Holds, Free
  <2>2. OthersBefore(w, p)'
    BY <1>2, <1>3, <1>4, <1>6 DEF OthersBefore, Other, Free
  <2> QED
    BY <2>1, <2>2 DEF Chained
<1> QED
  BY <1>5, <1>6 DEF Chained

\* The new word is chained too: behind other words, or by an earlier copy of it.
LEMMA StoreChainsTheWord ==
    ASSUME DictTypeOK, Chains, dpc = "insert", at < Len(entries),
           InsertHome \/ InsertProbed, NEW w \in Word, w = Word0
    PROVE  Chained(w)'
<1>1. size \in Nat /\ size > 0
  BY DEF DictTypeOK
<1>2. Home(w) \in Slots /\ \A p \in Powers : p \in Nat /\ Slot(w, p) \in Slots
  BY <1>1, SlotType
<1>3. /\ at \in Nat /\ table \in [Slots -> {NoEntry} \cup 1 .. at]
      /\ entries \in Seq(Entry)
  BY DEF DictTypeOK
<1>4. ASSUME NEW s \in Slots, Store(s)
      PROVE  /\ Holds(s, w)'
             /\ Home(w)' = Home(w)
             /\ \A p \in Powers : Slot(w, p)' = Slot(w, p)
  <2>1. table'[s] = at + 1 /\ entries' = entries /\ size' = size /\ hasher' = hasher
    BY <1>3, <1>4 DEF Store
  <2>2. at + 1 # NoEntry
    BY <1>3 DEF NoEntry
  <2> QED
    BY <2>1, <2>2 DEF Holds, Free, Home, Slot, Word0
<1>5. CASE InsertHome
  <2>1. Store(Home(w))
    BY <1>5 DEF InsertHome
  <2>2. Holds(Home(w), w)'
    BY <1>2, <1>4, <2>1 DEF Holds, Free
  <2> QED
    BY <2>2 DEF Chained
<1>6. CASE InsertProbed
  <2>1. PICK p \in Powers : /\ ~ Free(Home(w))
                           /\ ProbeEnds(w, p)
                           /\ Free(Slot(w, p))
                           /\ Store(Slot(w, p))
    BY <1>6 DEF InsertProbed
  <2>2. \A q \in Powers : q < p => ~ Free(Slot(w, q))
    BY <2>1 DEF ProbeEnds
  <2>3. ASSUME NEW t \in Slots, Holds(t, w)
        PROVE  Chained(w)'
    <3>1. table[t] \in 1 .. at /\ entries[table[t]].word = w
      BY <1>3, <2>3 DEF Holds, Free
    <3>2. Chained(w)
      BY <3>1 DEF Chains
    <3> QED
      BY <1>2, <2>1, <3>2, StoreKeepsChains
  <2>4. CASE OthersBefore(w, p)
    <3>1. \A t \in Slots : Other(t, w) => Other(t, w)'
      BY <1>2, <2>1, StoreKeeps
    <3>2. OthersBefore(w, p)'
      BY <1>2, <1>4, <2>1, <2>4, <3>1 DEF OthersBefore, Other, Free
    <3>3. Holds(Slot(w, p), w)'
      BY <1>2, <1>4, <2>1 DEF Holds, Free
    <3> QED
      BY <3>2, <3>3 DEF Chained
  <2>5. CASE ~ OthersBefore(w, p)
    <3>1. \E t \in Slots : Holds(t, w)
      BY <1>2, <2>1, <2>2, <2>5 DEF OthersBefore, Other, Holds
    <3> QED
      BY <2>3, <3>1
  <2> QED
    BY <2>4, <2>5
<1> QED
  BY <1>5, <1>6

-----------------------------------------------------------------------------
(* The inductive invariant.                                                *)

\* The word of an entry is a word.
LEMMA WordsType ==
    DictTypeOK => \A i \in 1 .. Len(entries) : entries[i].word \in Word
<1> SUFFICES ASSUME entries \in Seq(Entry), NEW i \in 1 .. Len(entries)
             PROVE  entries[i].word \in Word
  BY DEF DictTypeOK
<1>1. entries[i] \in Entry
  OBVIOUS
<1> QED
  BY <1>1 DEF Entry

\* A dictionary starts with the invariant: nothing is in its table.
LEMMA InitIInv == DictInit => TableInv
BY DictionaryAssumption DEF DictInit, TableInv, DictTypeOK, Chains, BloomFull, Entry

\* An empty table of n slots.
LEMMA EmptyTableType ==
    \A n \in Nat : EmptyTable(n) \in [0 .. n - 1 -> {NoEntry} \cup 1 .. 0]
BY DEF EmptyTable

\* Every step preserves the types.
LEMMA TypeStep == DictTypeOK /\ [DictNext]_dictVars => DictTypeOK'
<1> SUFFICES ASSUME DictTypeOK, [DictNext]_dictVars
             PROVE  DictTypeOK'
  OBVIOUS
<1>1. CASE ReadLine
  <2>1. Head(lines) \in Word /\ Tail(lines) \in Seq(Word)
    BY <1>1 DEF DictTypeOK, ReadLine
  <2>2. [word |-> Kept(Head(lines)), scanned |-> Head(lines)] \in Entry
    BY <2>1, KeptType DEF Entry
  <2> QED
    BY <1>1, <2>1, <2>2 DEF DictTypeOK, ReadLine
<1>2. CASE StartInsert
  <2>1. Len(entries) \in Nat
    BY DEF DictTypeOK
  <2>2. EmptyTable(2 * Len(entries)) \in [0 .. 2 * Len(entries) - 1 -> {NoEntry} \cup 1 .. 0]
    BY <2>1, EmptyTableType
  <2> QED
    BY <1>2, <2>1, <2>2 DEF DictTypeOK, StartInsert, Slots
<1>3. ASSUME NEW s \in Slots, Store(s), dpc = "insert", at < Len(entries)
      PROVE  DictTypeOK'
  BY <1>3 DEF DictTypeOK, Store, Slots
<1>4. CASE InsertHome \/ InsertProbed
  <2>1. dpc = "insert" /\ at < Len(entries)
    BY <1>4 DEF InsertHome, InsertProbed
  <2>2. size > 0 /\ Word0 \in Word
    <3>1. at \in Nat /\ Len(entries) \in Nat /\ size \in Nat /\ size >= 2 * Len(entries)
      BY <2>1 DEF DictTypeOK
    <3>2. at + 1 \in 1 .. Len(entries)
      BY <2>1, <3>1
    <3> QED
      BY <2>1, <3>1, <3>2, WordsType DEF Word0
  <2>3. \E s \in Slots : Store(s)
    BY <1>4, <2>2, SlotType DEF InsertHome, InsertProbed
  <2> QED
    BY <1>3, <2>1, <2>3
<1>5. CASE Grow
  <2>1. size' = size + Len(entries) /\ Len(entries) \in Nat /\ size' \in Nat
    BY <1>5 DEF DictTypeOK, Grow
  <2>2. EmptyTable(size') \in [0 .. size' - 1 -> {NoEntry} \cup 1 .. 0]
    BY <2>1, EmptyTableType
  <2>3. CASE dpc' = "exit"
    BY <1>5, <2>1, <2>3 DEF DictTypeOK, Grow
  <2>4. CASE dpc' = "insert" /\ table' = EmptyTable(size') /\ at' = 0
    BY <1>5, <2>1, <2>2, <2>4 DEF DictTypeOK, Grow, Slots
  <2> QED
    BY <1>5, <2>3, <2>4 DEF Grow
<1>6. CASE FillBloom
  <2>1. \A i \in DOMAIN entries : Bits(entries[i].word) \subseteq 0 .. BloomSize - 1
    <3>1. DOMAIN entries = 1 .. Len(entries)
      BY DEF DictTypeOK
    <3> QED
      BY <3>1, BitsType, WordsType
  <2>2. bloom' \subseteq 0 .. BloomSize - 1
    BY <1>6, <2>1 DEF DictTypeOK, FillBloom, BitsAdded
  <2> QED
    BY <1>6, <2>2 DEF DictTypeOK, FillBloom, Slots
<1>7. CASE dictionary_destroy
  BY <1>7 DEF DictTypeOK, dictionary_destroy
<1>8. CASE UNCHANGED dictVars
  BY <1>8 DEF DictTypeOK, dictVars, Slots
<1> QED
  BY <1>1, <1>2, <1>4, <1>5, <1>6, <1>7, <1>8 DEF DictNext, DictLoad

\* Chains, Bits and BloomFull read these variables only.
LEMMA StutterIInv == TableInv /\ UNCHANGED dictVars => Chains' /\ BloomFull'
<1> SUFFICES ASSUME Chains, BloomFull, UNCHANGED dictVars
             PROVE  Chains' /\ BloomFull'
  BY DEF TableInv
<1> USE DEF dictVars
<1>1. ASSUME NEW i \in 1 .. at, Chained(entries[i].word)
      PROVE  Chained(entries[i].word)'
  BY <1>1 DEF Chained, Holds, Other, Free, Home, Slot, OthersBefore
<1>2. Chains'
  BY <1>1 DEF Chains
<1>3. BloomFull'
  BY DEF BloomFull, Bits
<1> QED
  BY <1>2, <1>3

\* Every step preserves the chains.
LEMMA ChainsStep == TableInv /\ DictNext => Chains'
<1> SUFFICES ASSUME TableInv, DictNext
             PROVE  Chains'
  OBVIOUS
<1> USE DEF TableInv
<1>1. CASE ReadLine
  BY <1>1 DEF ReadLine, Chains
<1>2. CASE StartInsert
  BY <1>2 DEF StartInsert, Chains
<1>3. CASE InsertHome \/ InsertProbed
  <2>1. dpc = "insert" /\ at < Len(entries)
    BY <1>3 DEF InsertHome, InsertProbed
  <2>2. /\ at \in Nat /\ Len(entries) \in Nat
        /\ size \in Nat /\ size > 0
    BY <2>1 DEF DictTypeOK
  <2>3. at + 1 \in 1 .. Len(entries) /\ 1 .. at \subseteq 1 .. Len(entries)
    BY <2>1, <2>2
  <2>4. Word0 \in Word
    BY <2>3, WordsType DEF Word0
  <2>5. PICK s \in Slots : Free(s) /\ Store(s)
    BY <1>3, <2>2, <2>4, SlotType DEF InsertHome, InsertProbed
  <2>6. at' = at + 1 /\ entries' = entries
    BY <2>5 DEF Store
  <2>7. ASSUME NEW i \in 1 .. at'
        PROVE  \A v \in Word : v = entries[i].word => Chained(v)'
    <3>1. CASE i \in 1 .. at
      <4>1. Chained(entries[i].word)
        BY <2>1, <3>1 DEF Chains
      <4> QED
        BY <2>1, <2>5, <4>1, StoreKeepsChains
    <3>2. CASE i = at + 1
      BY <1>3, <2>1, <3>2, StoreChainsTheWord DEF Word0
    <3> QED
      BY <2>2, <2>6, <2>7, <3>1, <3>2
  <2>8. \A i \in 1 .. at' : \E v \in Word : v = entries'[i].word /\ Chained(v)'
    BY <2>2, <2>3, <2>6, <2>7, WordsType
  <2>9. ASSUME NEW i \in 1 .. at'
        PROVE  Chained(entries[i].word)'
    <3>1. PICK v \in Word : v = entries'[i].word /\ Chained(v)'
      BY <2>8
    <3> QED
      BY <3>1 DEF Chained, Holds, Other, Free, Home, Slot, OthersBefore
  <2> QED
    BY <2>9 DEF Chains
<1>4. CASE Grow
  BY <1>4 DEF Grow, Chains
<1>5. CASE FillBloom
  <2>1. UNCHANGED <<entries, hasher, size, table, at>> /\ dpc = "insert"
    BY <1>5 DEF FillBloom
  <2>2. ASSUME NEW i \in 1 .. at, Chained(entries[i].word)
        PROVE  Chained(entries[i].word)'
    BY <2>1, <2>2 DEF Chained, Holds, Other, Free, Home, Slot, OthersBefore
  <2> QED
    BY <2>1, <2>2 DEF Chains
<1>6. CASE dictionary_destroy
  BY <1>6 DEF dictionary_destroy, Chains
<1> QED
  BY <1>1, <1>2, <1>3, <1>4, <1>5, <1>6 DEF DictNext, DictLoad

\* Only FillBloom makes the dictionary ready.
LEMMA BloomFilled == TableInv /\ DictNext => BloomFull'
<1> SUFFICES ASSUME TableInv, DictNext
             PROVE  BloomFull'
  OBVIOUS
<1>1. CASE FillBloom
  <2>1. DOMAIN entries = 1 .. Len(entries)
    BY DEF TableInv, DictTypeOK
  <2>2. \A i \in 1 .. Len(entries) : Bits(entries[i].word) \subseteq bloom'
    BY <1>1, <2>1 DEF FillBloom, BitsAdded
  <2>3. \A w : Bits(w)' = Bits(w)
    BY <1>1 DEF FillBloom, Bits
  <2>4. \A i \in 1 .. Len(entries) : Bits(entries[i].word)' = Bits(entries[i].word)
    BY <1>1 DEF FillBloom, Bits
  <2> QED
    BY <1>1, <2>2, <2>4 DEF BloomFull, FillBloom
<1>2. CASE ReadLine
  BY <1>2 DEF ReadLine, BloomFull
<1>3. CASE StartInsert
  BY <1>3 DEF StartInsert, BloomFull
<1>4. CASE InsertHome
  BY <1>4 DEF InsertHome, Store, BloomFull
<1>5. CASE InsertProbed
  BY <1>5 DEF InsertProbed, Store, BloomFull
<1>6. CASE Grow
  BY <1>6 DEF Grow, BloomFull
<1>7. CASE dictionary_destroy
  BY <1>7 DEF dictionary_destroy, BloomFull
<1> QED
  BY <1>1, <1>2, <1>3, <1>4, <1>5, <1>6, <1>7 DEF DictNext, DictLoad

-----------------------------------------------------------------------------
(* The theorems.                                                           *)

\* The invariant is inductive.
LEMMA StepIInv == TableInv /\ [DictNext]_dictVars => TableInv'
<1> SUFFICES ASSUME TableInv, [DictNext]_dictVars
             PROVE  TableInv'
  OBVIOUS
<1>1. DictTypeOK'
  BY TypeStep DEF TableInv
<1>2. Chains' /\ BloomFull'
  BY ChainsStep, BloomFilled, StutterIInv
<1> QED
  BY <1>1, <1>2 DEF TableInv

\* The invariant gives the property: what is chained is looked up.
LEMMA IInvWordsAreFound == TableInv => WordsAreFound
<1> SUFFICES ASSUME TableInv, dpc = "ready", NEW i \in 1 .. Len(entries)
             PROVE  LET w == entries[i].word
                        e == DICTIONARY_GET(w) IN
                    \/ e \in 1 .. Len(entries) /\ entries[e].word = w
                    \/ e = NoEntry /\ StoredBeyond(w)
  BY DEF WordsAreFound
<1>1. DictTypeOK /\ Chains /\ BloomFull
  BY DEF TableInv
<1>2. Len(entries) \in Nat /\ size \in Nat /\ size >= 2 * Len(entries)
  BY <1>1 DEF DictTypeOK
<1>3. size > 0
  BY <1>2
<1>4. entries[i].word \in Word
  BY <1>1, WordsType
<1>5. Chained(entries[i].word) /\ InBloom(entries[i].word)
  BY <1>1 DEF Chains, BloomFull, InBloom
<1> QED
  BY <1>1, <1>3, <1>4, <1>5, LookupOfChained

\* The variables keep their types, whatever the file, the hash functions and the
\* limits are.
THEOREM DictTypeCorrect == DictSpec => []DictTypeOK
<1>1. TableInv => DictTypeOK
  BY DEF TableInv
<1> QED
  BY <1>1, InitIInv, StepIInv, PTL DEF DictSpec

\* A word of the file is found unless its first copy was stored beyond the size,
\* for every file, width and pair of hash functions.
THEOREM WordsFound == DictSpec => []WordsAreFound
BY InitIInv, StepIInv, IInvWordsAreFound, PTL DEF DictSpec
-----------------------------------------------------------------------------
(* What a look-up may return.                                              *)

\* A table never grows beyond its limit, and a dictionary without entries has an
\* empty Bloom filter: no look-up reaches its empty table.
SizeInv ==
    /\ Len(entries) <= MaxEntries
    /\ dpc \in {"insert", "ready"} => size <= Larger(10 * Len(entries), MaxTable)
    /\ dpc \in {"read", "insert"} => bloom = {}
    /\ dpc = "ready" /\ entries = <<>> => bloom = {}

\* The larger of two numbers is one of them and not below either.
LEMMA LargerIs ==
    \A a, b \in Nat : /\ Larger(a, b) \in {a, b}
                      /\ a <= Larger(a, b) /\ b <= Larger(a, b)
BY DEF Larger

\* At the start there are no entries and no bits.
LEMMA InitSizeInv == DictInit => SizeInv
BY DictionaryAssumption DEF DictInit, SizeInv

\* Every step keeps the sizes within their limits.
LEMMA SizeStep == DictTypeOK /\ SizeInv /\ [DictNext]_dictVars => SizeInv'
<1> SUFFICES ASSUME DictTypeOK, SizeInv, [DictNext]_dictVars
             PROVE  SizeInv'
  OBVIOUS
<1>0. Len(entries) \in Nat /\ size \in Nat /\ MaxTable \in Nat /\ MaxEntries \in Nat /\ entries \in Seq(Entry)
  BY DictionaryAssumption DEF DictTypeOK
<1>1. CASE ReadLine
  <2>1. dpc = "read" /\ Len(entries) < MaxEntries /\ UNCHANGED <<dpc, bloom>>
        /\ \E e : entries' = Append(entries, e)
    BY <1>1 DEF ReadLine
  <2>2. Len(entries') = Len(entries) + 1
    BY <1>0, <2>1
  <2> QED
    BY <1>0, <2>1, <2>2 DEF SizeInv
<1>2. CASE StartInsert
  <2>1. dpc = "read" /\ size' = 2 * Len(entries) /\ dpc' = "insert" /\ entries' = entries /\ bloom' = bloom
    BY <1>2 DEF StartInsert
  <2>2. size' <= Larger(10 * Len(entries), MaxTable)
    <3>1. 10 * Len(entries) \in Nat /\ size' <= 10 * Len(entries)
      BY <1>0, <2>1
    <3> QED
      BY <1>0, <2>1, <3>1 DEF Larger
  <2> QED
    BY <2>1, <2>2 DEF SizeInv
<1>3. CASE InsertHome \/ InsertProbed
  <2>1. UNCHANGED <<dpc, entries, size, bloom>>
    BY <1>3 DEF InsertHome, InsertProbed, Store
  <2> QED
    BY <2>1 DEF SizeInv
<1>4. CASE Grow
  <2>1. dpc = "insert" /\ entries' = entries /\ bloom' = bloom /\ size' = size + Len(entries)
    BY <1>4 DEF Grow
  <2>2. \/ dpc' = "exit"
        \/ dpc' = "insert" /\ ~ (size' > Larger(10 * Len(entries), MaxTable))
    BY <1>4, <2>1 DEF Grow
  <2>3. size' \in Int /\ Larger(10 * Len(entries), MaxTable) \in Int
    BY <1>0, <2>1 DEF Larger
  <2> QED
    BY <2>1, <2>2, <2>3 DEF SizeInv
<1>5. CASE FillBloom
  <2>1. /\ dpc = "insert" /\ dpc' = "ready" /\ entries' = entries /\ size' = size
        /\ bloom' = bloom \cup UNION {BitsAdded(entries[i].word) : i \in DOMAIN entries}
    BY <1>5 DEF FillBloom
  <2>2. entries = <<>> => DOMAIN entries = {}
    OBVIOUS
  <2> QED
    BY <2>1, <2>2 DEF SizeInv
<1>6. CASE dictionary_destroy
  <2>1. dpc' = "destroyed" /\ entries' = <<>>
    BY <1>6 DEF dictionary_destroy
  <2>2. Len(<<>>) = 0
    OBVIOUS
  <2> QED
    BY <1>0, <2>1, <2>2 DEF SizeInv
<1>7. CASE UNCHANGED dictVars
  BY <1>7 DEF SizeInv, dictVars
<1> QED
  BY <1>1, <1>2, <1>3, <1>4, <1>5, <1>6, <1>7 DEF DictNext, DictLoad

\* The loop of a look-up ends at a value of probe.
LEMMA LookupStops ==
    ASSUME DictTypeOK, SizeInv, dpc = "ready", size > 0, NEW w \in Word, Other(Home(w), w)
    PROVE  LookupProbe(w) \in Powers /\ LookupEnds(w, LookupProbe(w))
<1> DEFINE T == {p \in Powers : ~ Other(Slot(w, p), w) \/ p > 2 * size}
<1>1. size \in Nat /\ \A q \in Powers : q \in Nat
  BY DEF DictTypeOK, Powers
<1>2. 67108864 > 2 * size
  <2>1. /\ Len(entries) \in Nat /\ Len(entries) <= MaxEntries /\ MaxTable \in Nat /\ MaxEntries \in Nat
        /\ size <= Larger(10 * Len(entries), MaxTable)
    BY DictionaryAssumption DEF DictTypeOK, SizeInv
  <2>2. 10 * Len(entries) \in Nat /\ 20 * Len(entries) < 67108864
    BY <2>1, ProbeAssumption
  <2>3. 2 * Larger(10 * Len(entries), MaxTable) < 67108864 /\ Larger(10 * Len(entries), MaxTable) \in Nat
    BY <2>1, <2>2, ProbeAssumption DEF Larger
  <2> QED
    BY <1>1, <2>1, <2>3
<1>3. 67108864 \in T
  BY <1>2 DEF Powers
<1>4. T \subseteq Nat /\ T \subseteq Powers /\ T # {}
  BY <1>1, <1>3
<1>5. PICK p \in T : \A q \in T : p <= q
  BY <1>4, LeastElement
<1>6. p \in Powers /\ (~ Other(Slot(w, p), w) \/ p > 2 * size)
  BY <1>5
<1>7. ASSUME NEW q \in Powers, q < p PROVE Other(Slot(w, q), w) /\ q <= 2 * size
  <2>1. q \notin T
    BY <1>1, <1>5, <1>6, <1>7
  <2> QED
    BY <1>1, <2>1
<1>8. LookupEnds(w, p)
  BY <1>6, <1>7 DEF LookupEnds
<1> QED
  BY <1>6, <1>8 DEF LookupProbe

\* What a look-up returns is an entry with that word, never another one.
LEMMA LookupIsSound ==
    ASSUME DictTypeOK, SizeInv, dpc = "ready", NEW w \in Word, DICTIONARY_GET(w) # NoEntry
    PROVE  /\ DICTIONARY_GET(w) \in 1 .. Len(entries)
           /\ entries[DICTIONARY_GET(w)].word = w
<1>1. InBloom(w) /\ DICTIONARY_GET(w) = DICTIONARY_GET_INNER(w)
  BY DEF DICTIONARY_GET
<1>2. bloom # {}
  BY <1>1 DEF InBloom, Bits
<1>3. /\ Len(entries) \in Nat /\ entries # <<>> /\ size \in Nat /\ size >= 2 * Len(entries)
      /\ table \in [Slots -> {NoEntry} \cup 1 .. at] /\ at \in Nat /\ at <= Len(entries)
  <2>1. entries # <<>>
    BY <1>2 DEF SizeInv
  <2> QED
    BY <2>1 DEF DictTypeOK
<1>4. size > 0
  <2>1. Len(entries) # 0
    BY <1>3 DEF DictTypeOK
  <2> QED
    BY <1>3, <2>1
<1>5. \A s \in Slots : 
              ~ Other(s, w) /\ table[s] # NoEntry => /\ table[s] \in 1 .. Len(entries)
                                                   /\ entries[table[s]].word = w
  BY <1>3 DEF Other, Free
<1>6. Home(w) \in Slots /\ \A p \in Powers : p \in Nat /\ Slot(w, p) \in Slots
  BY <1>4, SlotType
<1>7. CASE ~ Other(Home(w), w)
  BY <1>1, <1>5, <1>6, <1>7 DEF DICTIONARY_GET_INNER
<1>8. CASE Other(Home(w), w)
  <2> DEFINE l == LookupProbe(w)
  <2>1. l \in Powers /\ LookupEnds(w, l)
    BY <1>4, <1>8, LookupStops
  <2>2. DICTIONARY_GET(w) = IF l > size THEN NoEntry ELSE table[Slot(w, l)]
    BY <1>1, <1>8 DEF DICTIONARY_GET_INNER
  <2> HIDE DEF l
  <2>3. ~ (l > size)
    BY <2>2
  <2>4. ~ (l > 2 * size)
    BY <1>3, <1>6, <2>1, <2>3
  <2>5. ~ Other(Slot(w, l), w)
    BY <2>1, <2>4 DEF LookupEnds
  <2> QED
    BY <1>5, <1>6, <2>1, <2>2, <2>3, <2>5
<1> QED
  BY <1>7, <1>8

-----------------------------------------------------------------------------
(* The scan: what the machine knows.                                       *)

\* The beginnings of the anchors are a set of words with every beginning, and the
\* machine's state is the longest of them at the end of a text.
LEMMA KnowledgeFacts ==
    ASSUME anchors \in AnchorSets
    PROVE  /\ M!Prefixes \subseteq Seq(Char) /\ PrefixClosed(M!Prefixes, Char) /\ <<>> \in M!Prefixes
           /\ anchors \subseteq M!Prefixes /\ <<>> \notin anchors
           /\ \A t : M!LongestKnownSuffix(t) = Longest(M!Prefixes, t)
           /\ \A t : M!AnchorEnds(t) <=> SuffixSet(t) \cap anchors # {}
<1>1. anchors \subseteq Seq(Char) /\ <<>> \notin anchors
  BY ScanAssumption
<1>2. \A w : M!PrefixesOf(w) = PrefixSet(w) /\ M!SuffixesOf(w) = SuffixSet(w)
  BY DEF M!PrefixesOf, M!SuffixesOf, PrefixSet, SuffixSet
<1>3. M!Prefixes = {<<>>} \cup UNION {PrefixSet(w) : w \in anchors}
  BY <1>2 DEF M!Prefixes
<1>4. M!Prefixes \subseteq Seq(Char) /\ <<>> \in M!Prefixes
  <2>1. \A w \in anchors : PrefixSet(w) \subseteq Seq(Char)
    BY <1>1, SuffixesAreWords
  <2>2. <<>> \in Seq(Char)
    OBVIOUS
  <2> QED
    BY <1>3, <2>1, <2>2
<1>5. anchors \subseteq M!Prefixes
  <2>1. ASSUME NEW w \in anchors PROVE w \in PrefixSet(w)
    <3>1. w \in Seq(Char) /\ Len(w) \in 0 .. Len(w) /\ SubSeq(w, 1, Len(w)) = w
      BY <1>1
    <3> QED
      BY <3>1 DEF PrefixSet
  <2> QED
    BY <1>3, <2>1
<1>6. ASSUME NEW u \in Seq(Char), NEW c \in Char, Append(u, c) \in M!Prefixes
      PROVE  u \in M!Prefixes
  <2>0. Append(u, c) \in Seq(Char) /\ Len(Append(u, c)) = Len(u) + 1 /\ Len(u) \in Nat
    OBVIOUS
  <2>1. Append(u, c) # <<>> /\ Append(u, c) \in Seq(Char)
    BY <2>0
  <2>2. PICK w \in anchors : Append(u, c) \in PrefixSet(w)
    BY <1>3, <1>6, <2>1
  <2>3. w \in Seq(Char)
    BY <1>1
  <2>4. Begins(Append(u, c), w)
    BY <2>1, <2>2, <2>3, PrefixIs
  <2>5. Begins(u, w)
    <3>1. Len(Append(u, c)) = Len(u) + 1 /\ Len(u) \in Nat /\ Len(w) \in Nat
          /\ \A i \in 1 .. Len(u) : Append(u, c)[i] = u[i]
      BY <2>3
    <3> QED
      BY <2>4, <3>1 DEF Begins
  <2>6. u \in PrefixSet(w)
    BY <2>3, <2>5, PrefixIs
  <2> QED
    BY <1>3, <2>6
<1>7. PrefixClosed(M!Prefixes, Char)
  BY <1>4, <1>6 DEF PrefixClosed
<1>8. \A t : M!LongestKnownSuffix(t) = Longest(M!Prefixes, t)
  BY <1>2 DEF M!LongestKnownSuffix, Longest
<1>9. \A t : M!AnchorEnds(t) <=> SuffixSet(t) \cap anchors # {}
  BY <1>2 DEF M!AnchorEnds
<1> QED
  BY <1>1, <1>4, <1>5, <1>7, <1>8, <1>9

\* The state behind a text is known, it is an end of the text and the longest one.
LEMMA StateFacts ==
    ASSUME anchors \in AnchorSets, NEW t \in Seq(Char)
    PROVE  /\ M!LongestKnownSuffix(t) \in M!Prefixes
           /\ M!LongestKnownSuffix(t) \in Seq(Char)
           /\ Ends(M!LongestKnownSuffix(t), t)
           /\ M!LongestKnownSuffix(<<>>) = <<>>
           /\ \A c \in Char : M!LongestKnownSuffix(Append(t, c))
                                = M!LongestKnownSuffix(Append(M!LongestKnownSuffix(t), c))
<1>1. /\ M!Prefixes \subseteq Seq(Char) /\ PrefixClosed(M!Prefixes, Char) /\ <<>> \in M!Prefixes
      /\ \A v : M!LongestKnownSuffix(v) = Longest(M!Prefixes, v)
  BY KnowledgeFacts
<1> DEFINE P == M!Prefixes
<1> HIDE DEF P
<1>a. P = M!Prefixes
  BY DEF P
<1>2. Longest(P, t) \in P /\ Ends(Longest(P, t), t)
  BY <1>1, <1>a, LongestIs
<1>3. \A c \in Char : Longest(P, Append(t, c)) = Longest(P, Append(Longest(P, t), c))
  BY <1>1, <1>a, LongestStep
<1>4. Longest(P, <<>>) = <<>>
  <2>1. <<>> \in Seq(Char)
    OBVIOUS
  <2>2. Longest(P, <<>>) \in P /\ Ends(Longest(P, <<>>), <<>>)
    BY <1>1, <1>a, <2>1, LongestIs
  <2>3. Longest(P, <<>>) \in Seq(Char) /\ Len(Longest(P, <<>>)) <= 0
    BY <1>1, <1>a, <2>2 DEF Ends
  <2> QED
    BY <2>3
<1> QED
  BY <1>1, <1>2, <1>3, <1>4, <1>a

\* A flagged state that a text ends with means that an anchor ends there.
LEMMA FlaggedEnds ==
    ASSUME anchors \in AnchorSets, NEW t \in Seq(Char), NEW s \in Seq(Char), Ends(s, t), M!AnchorEnds(s)
    PROVE  M!AnchorEnds(t)
<1>1. PICK a \in anchors : a \in SuffixSet(s)
  BY KnowledgeFacts
<1>2. a \in Seq(Char)
  BY KnowledgeFacts
<1>3. Ends(a, t)
  BY <1>1, <1>2, SuffixIs, EndsOrder
<1>4. a \in SuffixSet(t)
  BY <1>2, <1>3, SuffixIs
<1> QED
  BY <1>4, KnowledgeFacts

-----------------------------------------------------------------------------
(* The inductive invariant of the scan.                                    *)

\* An anchor ends with every flagged state.
MatchesEnd == \A s \in matches : M!AnchorEnds(s)

\* The scan starts when the dictionary is ready, from the root.
ScanPhases ==
    /\ spc = "idle" => input = <<>> /\ idx = 0 /\ current = <<>> /\ reported = {} /\ jumped = {}
    /\ spc \in {"loop", "border"} => dpc = "ready"
    /\ spc # "idle" => dpc \in {"ready", "destroyed"}

\* At the border of a word: the word of the entry stands behind position idx.
AtBorder ==
    spc = "border" =>
        /\ ~ testBloomOnly
        /\ idx + Width < Len(input)
        /\ idx <= j /\ j <= idx + Width
        /\ entry \in 1 .. Len(entries)
        /\ entries[entry].word = Window

SInv ==
    /\ SizeInv
    /\ ScanTypeOK
    /\ MatchesEnd
    /\ ScanPhases
    /\ AtBorder
    /\ JumpsKeepTheScan

\* What the types say of the text.
LEMMA TextFacts ==
    ASSUME ScanTypeOK
    PROVE  /\ anchors \in AnchorSets /\ input \in Seq(Char) /\ Len(input) \in Nat /\ Width \in Nat \ {0}
           /\ idx \in Nat /\ j \in Nat /\ j <= Len(input)
           /\ \A i \in 1 .. Len(input) : input[i] \in Char
           /\ ~ testBloomOnly => idx <= Len(input)
<1>1. input \in Seq(Char)
  <2>1. <<>> \in Seq(Char)
    OBVIOUS
  <2> QED
    BY <2>1, ScanAssumption DEF ScanTypeOK
<1>2. Width \in Nat \ {0} /\ Len(input) \in Nat
  BY <1>1, DictionaryAssumption
<1> QED
  BY <1>1, <1>2 DEF ScanTypeOK

\* The word behind position idx is a part of the text.
LEMMA WindowFacts ==
    ASSUME ScanTypeOK, idx + Width <= Len(input)
    PROVE  Window \in Word /\ Window \in Seq(Char) /\ Window = SubSeq(input, idx + 1, idx + Width)
<1>1. input \in Seq(Char) /\ Len(input) \in Nat /\ Width \in Nat \ {0} /\ idx \in Nat
      /\ \A i \in 1 .. Len(input) : input[i] \in Char
  BY TextFacts
<1>2. \A k \in 1 .. Width : idx + k \in 1 .. Len(input)
  BY <1>1
<1>3. \A k \in 1 .. Width : input[idx + k] \in Char
  BY <1>1, <1>2
<1>4. Window \in [1 .. Width -> Char]
  BY <1>3 DEF Window
<1>5. Window = SubSeq(input, idx + 1, idx + Width)
  <2> DEFINE part == SubSeq(input, idx + 1, idx + Width)
  <2>1. part \in Seq(Char) /\ Len(part) = Width
    BY <1>1
  <2>2. \A k \in 1 .. Width : part[k] = input[idx + k]
    BY <1>1
  <2>3. Window \in Seq(Char) /\ Len(Window) = Width
    BY <1>1, <1>4
  <2>4. \A k \in 1 .. Width : Window[k] = input[idx + k]
    BY DEF Window
  <2> HIDE DEF Window, part
  <2>5. \A k \in 1 .. Width : Window[k] = part[k]
    BY <2>2, <2>4
  <2>6. Window = part
    BY <2>1, <2>3, <2>5, <1>1
  <2> QED
    BY <2>6 DEF part
<1> QED
  BY <1>1, <1>4, <1>5 DEF Word

-----------------------------------------------------------------------------
(* The steps of the scan.                                                  *)

\* The scan has read n characters as a scan of every character would, is in state
\* s, has reported R and jumped over J.
KeptUpTo(n, s, R, J) ==
    /\ s = M!LongestKnownSuffix(SubSeq(input, 1, n))
    /\ \A p \in R : M!AnchorEnds(SubSeq(input, 1, p))
    /\ \A p \in 1 .. n :
          M!LongestKnownSuffix(SubSeq(input, 1, p)) \in anchors =>
              \/ p \in R
              \/ \E w \in J : \E k \in w[1] .. p : p < w[1] + Width /\ SubSeq(input, k, p) \in anchors

\* The property of the scan in these terms.
LEMMA KeptIs ==
    JumpsKeepTheScan <=>
        (dpc = "ready" /\ ~ testBloomOnly /\ JumpsWholeWords => KeptUpTo(Reached, current, reported, jumped))
BY DEF JumpsKeepTheScan, KeptUpTo, AnchorInsideJump

\* What the machine knows depends on the anchors only.
LEMMA KnowledgeFrame ==
    ASSUME anchors' = anchors
    PROVE  /\ M!Prefixes' = M!Prefixes
           /\ \A t : M!LongestKnownSuffix(t)' = M!LongestKnownSuffix(t)
           /\ \A t : M!AnchorEnds(t)' = M!AnchorEnds(t)
<1>1. M!Prefixes' = M!Prefixes
  BY DEF M!Prefixes, M!PrefixesOf
<1>2. \A t : M!LongestKnownSuffix(t)' = M!LongestKnownSuffix(t)
  BY DEF M!LongestKnownSuffix, M!Prefixes, M!PrefixesOf, M!SuffixesOf
<1>3. \A t : M!AnchorEnds(t)' = M!AnchorEnds(t)
  BY DEF M!AnchorEnds, M!SuffixesOf
<1> QED
  BY <1>1, <1>2, <1>3

\* How the property is shown for the next state.
LEMMA KeptNext ==
    ASSUME anchors' = anchors, input' = input,
           dpc' = "ready" /\ ~ testBloomOnly' /\ JumpsWholeWords' =>
               KeptUpTo(Reached', current', reported', jumped')
    PROVE  JumpsKeepTheScan'
<1>1. /\ \A t : M!LongestKnownSuffix(t)' = M!LongestKnownSuffix(t)
      /\ \A t : M!AnchorEnds(t)' = M!AnchorEnds(t)
  BY KnowledgeFrame
<1> QED
  BY <1>1 DEF JumpsKeepTheScan, KeptUpTo, AnchorInsideJump

\* One character more, read by the machine.
LEMMA ScanReadsOn ==
    ASSUME ScanTypeOK, MatchesEnd, NEW i \in Nat, i < Len(input), ScanSingleChar(i),
           KeptUpTo(i, current, reported, jumped)
    PROVE  KeptUpTo(i + 1, current', reported', jumped)
<1> DEFINE t == SubSeq(input, 1, i)
           t1 == SubSeq(input, 1, i + 1)
           c == input[i + 1]
           reached == M!LongestKnownSuffix(Append(current, c))
<1>1. anchors \in AnchorSets /\ input \in Seq(Char) /\ Len(input) \in Nat
  BY TextFacts
<1>2. t \in Seq(Char) /\ c \in Char /\ t1 = Append(t, c)
  <2>1. i \in 0 .. Len(input) - 1 /\ i \in 0 .. Len(input)
    BY <1>1
  <2> QED
    BY <1>1, <2>1, Beginnings
<1>3. current = M!LongestKnownSuffix(t)
  BY DEF KeptUpTo
<1>4. current' = reached /\ reported' = IF reached \in matches THEN reported \cup {i + 1} ELSE reported
  BY DEF ScanSingleChar, GET_NEXT_STATE
<1> HIDE DEF t, t1, c
<1>5. reached = M!LongestKnownSuffix(t1) /\ reached \in Seq(Char) /\ Ends(reached, t1) /\ t1 \in Seq(Char)
  <2>1. t1 \in Seq(Char)
    BY <1>2
  <2>2. reached = M!LongestKnownSuffix(t1)
    BY <1>1, <1>2, <1>3, StateFacts
  <2> QED
    BY <1>1, <2>1, <2>2, StateFacts
<1> HIDE DEF reached
<1>6. reached \in matches => M!AnchorEnds(t1)
  BY <1>1, <1>5, FlaggedEnds DEF MatchesEnd
<1>7. reached \in anchors => reached \in matches
  BY DEF ScanTypeOK
<1>8. \A p \in reported' : M!AnchorEnds(SubSeq(input, 1, p))
  BY <1>4, <1>6 DEF KeptUpTo, t1
<1>9. ASSUME NEW p \in 1 .. i + 1, M!LongestKnownSuffix(SubSeq(input, 1, p)) \in anchors
      PROVE  \/ p \in reported'
             \/ \E w \in jumped : \E k \in w[1] .. p : p < w[1] + Width /\ SubSeq(input, k, p) \in anchors
  <2>1. CASE p = i + 1
    BY <1>4, <1>5, <1>7, <1>9, <2>1 DEF t1
  <2>2. CASE p # i + 1
    <3>1. p \in 1 .. i
      BY <2>2
    <3> QED
      BY <1>4, <1>9, <3>1 DEF KeptUpTo
  <2> QED
    BY <2>1, <2>2
<1> QED
  BY <1>4, <1>5, <1>8, <1>9 DEF KeptUpTo, t1

\* A jump: what precedes the word plays no part any more, and an anchor that ends
\* in the word begins there.
LEMMA JumpReadsOn ==
    ASSUME ScanTypeOK, spc = "border", AtBorder, Jump,
           entries[entry].scanned = Window, KeptUpTo(j, current, reported, jumped)
    PROVE  KeptUpTo(idx + Width, current', reported, jumped')
<1> DEFINE P == M!Prefixes
           end == idx + Width
<1>1. /\ anchors \in AnchorSets /\ input \in Seq(Char) /\ Len(input) \in Nat /\ Width \in Nat \ {0}
      /\ idx \in Nat /\ j \in Nat
  BY TextFacts
<1>2. end < Len(input) /\ idx <= j /\ j <= end
  BY DEF AtBorder
<1>3. Window = SubSeq(input, idx + 1, end)
  BY <1>1, <1>2, WindowFacts
<1>4. /\ current' = M!LongestKnownSuffix(Window)
      /\ jumped' = jumped \cup {<<idx + 1, entry>>}
      /\ Len(current) <= j - idx
  BY DEF Jump, StateOf, BorderEnds, depthMap
<1>5. /\ P \subseteq Seq(Char) /\ PrefixClosed(P, Char) /\ <<>> \in P
      /\ anchors \subseteq P /\ <<>> \notin anchors
      /\ \A t : M!LongestKnownSuffix(t) = Longest(P, t)
  BY <1>1, KnowledgeFacts
<1> HIDE DEF P
<1>6. Len(Longest(P, SubSeq(input, 1, j))) <= j - idx
  BY <1>4, <1>5 DEF KeptUpTo
<1>7. end \in Nat /\ end <= Len(input) /\ j <= Len(input)
  BY <1>1, <1>2
<1>f. Forgets(P, input, idx, j)
  BY <1>2, <1>6, <1>7 DEF Forgets
<1>8. Longest(P, SubSeq(input, 1, end)) = Longest(P, SubSeq(input, idx + 1, end))
  <2> HIDE DEF end
  <2>1. end \in Nat /\ j <= end /\ end <= Len(input)
    BY <1>2, <1>7
  <2> QED
    BY <1>1, <1>5, <1>f, <2>1, LongestOfWindow
<1>9. ASSUME NEW p \in 1 .. end, M!LongestKnownSuffix(SubSeq(input, 1, p)) \in anchors, p > j
      PROVE  \E k \in idx + 1 .. p : SubSeq(input, k, p) \in anchors
  <2> DEFINE t == SubSeq(input, 1, p)
             v == Longest(P, t)
             k == p - Len(v) + 1
  <2>1. p \in Nat /\ j <= p /\ p <= Len(input)
    BY <1>1, <1>7, <1>9
  <2>2. t \in Seq(Char) /\ Len(t) = p
    BY <1>1, <2>1, Beginnings
  <2>a. t = SubSeq(input, 1, p)
    OBVIOUS
  <2> HIDE DEF t
  <2>3. v \in P /\ v \in Seq(Char) /\ Ends(v, t) /\ v \in anchors /\ v # <<>>
    BY <1>5, <1>9, <2>2, <2>a, LongestIs
  <2> HIDE DEF v
  <2>4. Len(v) <= p - idx
    BY <1>1, <1>5, <1>f, <2>1, <2>3, <2>a, BorderForgets
  <2>5. Len(v) \in Nat /\ Len(v) > 0 /\ Len(v) <= p
    BY <2>2, <2>3 DEF Ends
  <2>6. k \in idx + 1 .. p
    BY <1>1, <2>1, <2>4, <2>5
  <2>7. v = SubSeq(input, k, p)
    <3> DEFINE part == SubSeq(input, k, p)
    <3>a. k \in 1 .. p /\ p \in Nat /\ p <= Len(input) /\ p - k + 1 = Len(v)
      BY <1>1, <2>1, <2>5, <2>6
    <3>b. part \in Seq(Char) /\ Len(part) = p - k + 1
      <4> HIDE DEF k
      <4> QED
        BY <1>1, <3>a
    <3>1. part \in Seq(Char) /\ Len(part) = Len(v)
      BY <3>a, <3>b
    <3>2. \A m \in 1 .. Len(v) : part[m] = input[k + m - 1]
      BY <1>1, <2>1, <2>5, <2>6
    <3>3. \A m \in 1 .. p : t[m] = input[m]
      BY <1>1, <2>1, <2>a
    <3>4. \A m \in 1 .. Len(v) : v[m] = t[p - Len(v) + m] /\ p - Len(v) + m \in 1 .. p /\ k + m - 1 = p - Len(v) + m
      BY <2>1, <2>2, <2>3, <2>5 DEF Ends
    <3> HIDE DEF part, k
    <3>5. \A m \in 1 .. Len(v) : v[m] = part[m]
      BY <3>2, <3>3, <3>4
    <3>6. v = part
      BY <2>3, <2>5, <3>1, <3>5
    <3> QED
      BY <3>6 DEF part
  <2> QED
    BY <2>3, <2>6, <2>7
<1>10. ASSUME NEW p \in 1 .. end, M!LongestKnownSuffix(SubSeq(input, 1, p)) \in anchors
       PROVE  \/ p \in reported
              \/ \E w \in jumped' : \E k \in w[1] .. p : p < w[1] + Width /\ SubSeq(input, k, p) \in anchors
  <2>1. CASE p \in 1 .. j
    BY <1>4, <1>10, <2>1 DEF KeptUpTo
  <2>2. CASE p \notin 1 .. j
    <3>1. p > j /\ p < idx + 1 + Width
      BY <1>1, <2>2
    <3>2. PICK k \in idx + 1 .. p : SubSeq(input, k, p) \in anchors
      BY <1>9, <1>10, <3>1
    <3>3. <<idx + 1, entry>> \in jumped' /\ <<idx + 1, entry>>[1] = idx + 1
      BY <1>4
    <3> QED
      BY <3>1, <3>2, <3>3
  <2> QED
    BY <2>1, <2>2
<1>11. current' = M!LongestKnownSuffix(SubSeq(input, 1, end))
  BY <1>3, <1>4, <1>5, <1>8
<1>12. \A p \in reported : M!AnchorEnds(SubSeq(input, 1, p))
  BY DEF KeptUpTo
<1> QED
  BY <1>10, <1>11, <1>12 DEF KeptUpTo

\* The dictionary keeps its invariant in every step.
LEMMA DictStepOfScan == [ScanNext]_<<dictVars, scanVars>> => [DictNext]_dictVars
<1> SUFFICES ASSUME [ScanNext]_<<dictVars, scanVars>> PROVE [DictNext]_dictVars
  OBVIOUS
<1>1. CASE Load
  BY <1>1 DEF Load, DictNext
<1>2. CASE matchDictionaryTableMachine
  <2>1. UNCHANGED dictVars
    BY <1>2 DEF matchDictionaryTableMachine, StartScan, BloomStep, FindWord, BorderChar, Jump,
         NoJump, ScanChar, EndScan
  <2> QED
    BY <2>1
<1>3. CASE Destroy
  BY <1>3 DEF Destroy, DictNext
<1> QED
  BY <1>1, <1>2, <1>3 DEF ScanNext

\* A scan starts at the root, with an empty dictionary.
LEMMA InitSInv == ScanInit => SInv
<1> SUFFICES ASSUME ScanInit PROVE SInv
  OBVIOUS
<1>1. DictTypeOK /\ SizeInv
  BY InitIInv, InitSizeInv DEF ScanInit, TableInv
<1>2. /\ testBloomOnly \in BOOLEAN /\ anchors \in AnchorSets /\ spc = "idle"
      /\ input = <<>> /\ idx = 0 /\ current = <<>> /\ entry = NoEntry /\ j = 0
      /\ reported = {} /\ jumped = {} /\ dpc = "read"
  BY DEF ScanInit, DictInit
<1>3. PICK inherited \in SUBSET {s \in M!Prefixes : M!AnchorEnds(s)} : matches = anchors \cup inherited
  BY DEF ScanInit
<1>4. anchors \subseteq Seq(Char) /\ anchors \subseteq M!Prefixes /\ <<>> \in M!Prefixes
  BY <1>2, KnowledgeFacts
<1>5. \A s \in anchors : M!AnchorEnds(s)
  <2>1. ASSUME NEW s \in anchors PROVE s \in SuffixSet(s)
    <3>1. s \in Seq(Char)
      BY <1>4
    <3>2. Ends(s, s)
      BY <3>1, EndsOrder
    <3> QED
      BY <3>1, <3>2, SuffixIs
  <2> QED
    BY <1>2, <2>1, KnowledgeFacts
<1>6. MatchesEnd
  BY <1>3, <1>5 DEF MatchesEnd
<1>7. Len(<<>>) = 0 /\ Width \in Nat \ {0}
  BY DictionaryAssumption
<1>8. ScanTypeOK
  BY <1>1, <1>2, <1>3, <1>4, <1>7 DEF ScanTypeOK, NoEntry
<1>9. ScanPhases /\ AtBorder /\ JumpsKeepTheScan
  BY <1>2 DEF ScanPhases, AtBorder, JumpsKeepTheScan
<1> QED
  BY <1>1, <1>6, <1>8, <1>9 DEF SInv

\* Every step keeps the types.
LEMMA ScanTypeStep ==
    ASSUME SInv, [ScanNext]_<<dictVars, scanVars>>
    PROVE  ScanTypeOK'
<1>0. ScanTypeOK /\ AtBorder /\ ScanPhases /\ SizeInv
  BY DEF SInv
<1>1. DictTypeOK'
  BY <1>0, DictStepOfScan, TypeStep DEF ScanTypeOK
<1>2. UNCHANGED machineVars
  BY DEF ScanNext, Load, Destroy, matchDictionaryTableMachine, StartScan, BloomStep, FindWord,
     BorderChar, Jump, NoJump, ScanChar, EndScan, scanVars
<1>3. UNCHANGED <<testBloomOnly, anchors, matches>> /\ M!Prefixes' = M!Prefixes
  BY <1>2, KnowledgeFrame DEF machineVars
<1>4. /\ anchors \in AnchorSets /\ input \in Seq(Char) /\ Len(input) \in Nat /\ Width \in Nat \ {0}
      /\ idx \in Nat /\ j \in Nat /\ j <= Len(input)
      /\ \A i \in 1 .. Len(input) : input[i] \in Char
      /\ (~ testBloomOnly => idx <= Len(input))
  BY <1>0, TextFacts
<1> DEFINE Loop == /\ spc' \in {"idle", "loop", "border", "ended"}
                   /\ input' \in Texts \cup {<<>>}
                   /\ idx' \in 0 .. Len(input') + (IF testBloomOnly THEN Width - 1 ELSE 0)
                   /\ current' \in M!Prefixes
                   /\ j' \in 0 .. Len(input')
                   /\ reported' \subseteq 1 .. Len(input')
                   /\ entry' \in Nat
                   /\ jumped' \subseteq (1 .. Len(input')) \X Nat
<1>5. Loop => ScanTypeOK'
  BY <1>0, <1>1, <1>3 DEF ScanTypeOK
<1>6. /\ spc \in {"idle", "loop", "border", "ended"}
      /\ input \in Texts \cup {<<>>}
      /\ idx \in 0 .. Len(input) + (IF testBloomOnly THEN Width - 1 ELSE 0)
      /\ current \in M!Prefixes
      /\ j \in 0 .. Len(input)
      /\ reported \subseteq 1 .. Len(input)
      /\ entry \in Nat
      /\ jumped \subseteq (1 .. Len(input)) \X Nat
      /\ testBloomOnly \in BOOLEAN
  BY <1>0 DEF ScanTypeOK
<1>7. ASSUME NEW t \in Seq(Char) PROVE M!LongestKnownSuffix(t) \in M!Prefixes
  BY <1>4, StateFacts
<1>8. ASSUME NEW i \in Nat, i < Len(input), ScanSingleChar(i)
      PROVE  current' \in M!Prefixes /\ reported' \subseteq 1 .. Len(input)
  <2>1. input[i + 1] \in Char /\ i + 1 \in 1 .. Len(input)
    BY <1>4, <1>8
  <2>2. current \in Seq(Char)
    BY <1>4, <1>6, KnowledgeFacts
  <2>3. Append(current, input[i + 1]) \in Seq(Char)
    BY <2>1, <2>2
  <2> QED
    BY <1>6, <1>7, <1>8, <2>1, <2>3 DEF ScanSingleChar, GET_NEXT_STATE
<1>9. CASE Load \/ Destroy \/ UNCHANGED <<dictVars, scanVars>>
  <2>1. UNCHANGED <<spc, input, idx, current, entry, j, reported, jumped>>
    BY <1>9 DEF Load, Destroy, scanVars, loopVars
  <2> QED
    BY <1>5, <1>6, <2>1
<1>10. CASE StartScan
  <2>1. /\ input' \in Texts /\ idx' = 0 /\ current' = <<>> /\ entry' = NoEntry /\ j' = 0
        /\ reported' = {} /\ jumped' = {} /\ spc' = "loop"
    BY <1>10 DEF StartScan
  <2>2. Len(input') \in Nat /\ <<>> \in M!Prefixes
    BY <1>4, <2>1, ScanAssumption, KnowledgeFacts
  <2>3. idx' \in 0 .. Len(input') + (IF testBloomOnly THEN Width - 1 ELSE 0) /\ j' \in 0 .. Len(input')
    BY <1>4, <1>6, <2>1, <2>2
  <2> QED
    BY <1>5, <2>1, <2>2, <2>3 DEF NoEntry
<1>11. CASE BloomStep
  <2>1. /\ testBloomOnly /\ idx < Len(input) /\ idx' \in {idx + Width, idx + 1}
        /\ UNCHANGED <<spc, input, current, entry, j, reported, jumped>>
    BY <1>11 DEF BloomStep
  <2>2. idx' \in 0 .. Len(input) + (Width - 1)
    BY <1>4, <2>1
  <2> QED
    BY <1>5, <1>6, <2>1, <2>2
<1>12. CASE FindWord
  <2>1. /\ spc' = "border" /\ entry' = DICTIONARY_GET(Window) /\ j' = idx /\ ~ testBloomOnly /\ spc = "loop"
        /\ DICTIONARY_GET(Window) # NoEntry /\ idx + Width < Len(input)
        /\ UNCHANGED <<input, idx, current, reported, jumped>>
    BY <1>12 DEF FindWord, LooksUp
  <2>2. Window \in Word
    BY <1>0, <1>4, <2>1, WindowFacts
  <2>3. entry' \in 1 .. Len(entries)
    BY <1>0, <2>1, <2>2, LookupIsSound DEF ScanTypeOK, ScanPhases
  <2>4. entry' \in Nat /\ j' \in 0 .. Len(input')
    BY <1>4, <2>1, <2>3
  <2> QED
    BY <1>5, <1>6, <2>1, <2>4
<1>13. CASE BorderChar
  <2>1. /\ spc = "border" /\ j < idx + Width /\ ScanSingleChar(j) /\ j' = j + 1
        /\ UNCHANGED <<spc, input, idx, entry, jumped>>
    BY <1>13 DEF BorderChar
  <2>2. j < Len(input) /\ j' \in 0 .. Len(input)
    BY <1>0, <1>4, <2>1 DEF AtBorder
  <2> QED
    BY <1>4, <1>5, <1>6, <1>8, <2>1, <2>2
<1>14. CASE Jump
  <2>1. /\ spc = "border" /\ spc' = "loop" /\ current' = StateOf(entry) /\ idx' = idx + Width
        /\ jumped' = jumped \cup {<<idx + 1, entry>>} /\ UNCHANGED <<input, entry, j, reported>>
    BY <1>14 DEF Jump
  <2>2. ~ testBloomOnly /\ idx + Width < Len(input) /\ entry \in 1 .. Len(entries)
    BY <1>0, <2>1 DEF AtBorder
  <2>3. entries[entry].scanned \in Seq(Char)
    <3>1. entries \in Seq(Entry)
      BY <1>0 DEF ScanTypeOK, DictTypeOK
    <3>2. entries[entry] \in Entry
      BY <2>2, <3>1
    <3>3. entries[entry].scanned \in [1 .. Width -> Char]
      BY <3>2 DEF Entry, Word
    <3> QED
      BY <1>4, <3>3
  <2>4. current' \in M!Prefixes
    BY <1>7, <2>1, <2>3 DEF StateOf
  <2>5. idx + 1 \in 1 .. Len(input) /\ idx' \in 0 .. Len(input)
    BY <1>4, <2>1, <2>2
  <2>6. jumped' \subseteq (1 .. Len(input)) \X Nat
    BY <1>6, <2>1, <2>5
  <2> QED
    BY <1>4, <1>5, <1>6, <2>1, <2>2, <2>4, <2>5, <2>6
<1>15. CASE NoJump
  <2>1. /\ spc = "border" /\ spc' = "loop" /\ idx' = j
        /\ UNCHANGED <<input, current, entry, j, reported, jumped>>
    BY <1>15 DEF NoJump
  <2>2. idx' \in 0 .. Len(input)
    BY <1>4, <2>1
  <2>3. ~ testBloomOnly
    BY <1>0, <2>1 DEF AtBorder
  <2> QED
    BY <1>5, <1>6, <2>1, <2>2, <2>3
<1>16. CASE ScanChar
  <2>1. /\ ~ testBloomOnly /\ idx < Len(input) /\ ScanSingleChar(idx) /\ idx' = idx + 1
        /\ UNCHANGED <<spc, input, entry, j, jumped>>
    BY <1>16 DEF ScanChar
  <2>2. idx' \in 0 .. Len(input)
    BY <1>4, <2>1
  <2> QED
    BY <1>4, <1>5, <1>6, <1>8, <2>1, <2>2
<1>17. CASE EndScan
  <2>1. spc' = "ended" /\ UNCHANGED <<input, idx, current, entry, j, reported, jumped>>
    BY <1>17 DEF EndScan, loopVars
  <2> QED
    BY <1>5, <1>6, <2>1
<1> QED
  BY <1>9, <1>10, <1>11, <1>12, <1>13, <1>14, <1>15, <1>16, <1>17 DEF ScanNext, matchDictionaryTableMachine

\* Every step keeps what holds of the phases and at the border of a word.
LEMMA PhaseStep ==
    ASSUME SInv, [ScanNext]_<<dictVars, scanVars>>
    PROVE  MatchesEnd' /\ ScanPhases' /\ AtBorder'
<1>0. ScanTypeOK /\ MatchesEnd /\ AtBorder /\ ScanPhases /\ SizeInv /\ DictTypeOK
  BY DEF SInv, ScanTypeOK
<1>1. /\ anchors \in AnchorSets /\ input \in Seq(Char) /\ Len(input) \in Nat /\ Width \in Nat \ {0}
      /\ idx \in Nat /\ j \in Nat
      /\ spc \in {"idle", "loop", "border", "ended"}
  BY <1>0, TextFacts DEF ScanTypeOK
<1>2. UNCHANGED machineVars
  BY DEF ScanNext, Load, Destroy, matchDictionaryTableMachine, StartScan, BloomStep, FindWord,
     BorderChar, Jump, NoJump, ScanChar, EndScan, scanVars
<1>3. UNCHANGED <<testBloomOnly, anchors, matches>>
  BY <1>2 DEF machineVars
<1>4. MatchesEnd'
  BY <1>0, <1>3, KnowledgeFrame DEF MatchesEnd
<1>5. CASE Load
  <2>1. dpc \in {"read", "insert"} /\ UNCHANGED <<spc, input, idx, current, reported, jumped>>
    BY <1>5 DEF Load, DictLoad, ReadLine, StartInsert, InsertHome, InsertProbed, Grow, FillBloom,
       scanVars, loopVars
  <2>2. spc = "idle"
    BY <1>0, <1>1, <2>1 DEF ScanPhases
  <2> QED
    BY <1>0, <1>4, <2>1, <2>2 DEF ScanPhases, AtBorder
<1>6. CASE Destroy
  <2>1. spc = "ended" /\ spc' = "ended" /\ dpc' = "destroyed"
    BY <1>6 DEF Destroy, dictionary_destroy, scanVars
  <2> QED
    BY <1>4, <2>1 DEF ScanPhases, AtBorder
<1>7. CASE UNCHANGED <<dictVars, scanVars>>
  <2>1. UNCHANGED <<dpc, entries, spc, testBloomOnly, input, idx, current, entry, j, reported, jumped>>
    BY <1>7 DEF dictVars, scanVars, loopVars, machineVars
  <2> QED
    BY <1>0, <1>4, <2>1 DEF ScanPhases, AtBorder, Window
<1>8. CASE FindWord
  <2>1. /\ spc = "loop" /\ spc' = "border" /\ entry' = DICTIONARY_GET(Window) /\ j' = idx
        /\ ~ testBloomOnly /\ DICTIONARY_GET(Window) # NoEntry /\ idx + Width < Len(input)
        /\ UNCHANGED <<dpc, entries, input, idx>>
    BY <1>8 DEF FindWord, LooksUp, dictVars
  <2>2. dpc = "ready"
    BY <1>0, <2>1 DEF ScanPhases
  <2>3. Window \in Word
    BY <1>0, <1>1, <2>1, WindowFacts
  <2>4. entry' \in 1 .. Len(entries) /\ entries[entry'].word = Window
    BY <1>0, <2>1, <2>2, <2>3, LookupIsSound
  <2>5. Window' = Window
    BY <2>1 DEF Window
  <2>6. AtBorder'
    BY <1>1, <1>3, <2>1, <2>4, <2>5 DEF AtBorder
  <2>7. ScanPhases'
    BY <2>1, <2>2 DEF ScanPhases
  <2> QED
    BY <1>4, <2>6, <2>7
<1>9. CASE BorderChar
  <2>1. /\ spc = "border" /\ j < idx + Width /\ j' = j + 1
        /\ UNCHANGED <<dpc, entries, spc, input, idx, entry>>
    BY <1>9 DEF BorderChar, dictVars
  <2>2. Window' = Window
    BY <2>1 DEF Window
  <2>3. AtBorder'
    BY <1>0, <1>1, <1>3, <2>1, <2>2 DEF AtBorder
  <2>4. ScanPhases'
    BY <1>0, <2>1 DEF ScanPhases
  <2> QED
    BY <1>4, <2>3, <2>4
<1>10. CASE StartScan \/ BloomStep \/ Jump \/ NoJump \/ ScanChar \/ EndScan
  <2>1. spc' \in {"loop", "ended"} /\ dpc' = dpc
    BY <1>10 DEF StartScan, BloomStep, Jump, NoJump, ScanChar, EndScan, dictVars
  <2>2. dpc = "ready"
    <3>1. dpc = "ready" \/ spc \in {"loop", "border"}
      BY <1>10 DEF StartScan, BloomStep, Jump, NoJump, ScanChar, EndScan
    <3> QED
      BY <1>0, <3>1 DEF ScanPhases
  <2> QED
    BY <1>4, <2>1, <2>2 DEF ScanPhases, AtBorder
<1> QED
  BY <1>5, <1>6, <1>7, <1>8, <1>9, <1>10 DEF ScanNext, matchDictionaryTableMachine

\* Every step keeps the state of a scan of every character.
LEMMA KeptStep ==
    ASSUME SInv, [ScanNext]_<<dictVars, scanVars>>
    PROVE  JumpsKeepTheScan'
<1>0. ScanTypeOK /\ MatchesEnd /\ AtBorder /\ ScanPhases /\ SizeInv /\ DictTypeOK /\ JumpsKeepTheScan
  BY DEF SInv, ScanTypeOK
<1>1. /\ anchors \in AnchorSets /\ input \in Seq(Char) /\ Len(input) \in Nat /\ Width \in Nat \ {0}
      /\ idx \in Nat /\ j \in Nat
      /\ (~ testBloomOnly => idx <= Len(input))
      /\ spc \in {"idle", "loop", "border", "ended"}
  BY <1>0, TextFacts DEF ScanTypeOK
<1>2. UNCHANGED machineVars
  BY DEF ScanNext, Load, Destroy, matchDictionaryTableMachine, StartScan, BloomStep, FindWord,
     BorderChar, Jump, NoJump, ScanChar, EndScan, scanVars
<1>3. UNCHANGED <<testBloomOnly, anchors, matches>>
  BY <1>2 DEF machineVars
<1>4. ASSUME input' = input, dpc' = dpc, entries' = entries, jumped' = jumped, current' = current,
             reported' = reported, Reached' = Reached
      PROVE  JumpsKeepTheScan'
  <2>1. JumpsWholeWords' = JumpsWholeWords
    BY <1>4 DEF JumpsWholeWords
  <2>2. dpc' = "ready" /\ ~ testBloomOnly' /\ JumpsWholeWords' =>
             KeptUpTo(Reached', current', reported', jumped')
    BY <1>0, <1>3, <1>4, <2>1, KeptIs
  <2> QED
    BY <1>3, <1>4, <2>2, KeptNext
<1>5. ASSUME NEW i \in Nat, i = Reached, Reached' = i + 1, i < Len(input), ScanSingleChar(i),
             input' = input, dpc' = dpc, entries' = entries, jumped' = jumped
      PROVE  JumpsKeepTheScan'
  <2>1. JumpsWholeWords' = JumpsWholeWords
    BY <1>5 DEF JumpsWholeWords
  <2>2. dpc' = "ready" /\ ~ testBloomOnly' /\ JumpsWholeWords' => KeptUpTo(i, current, reported, jumped)
    BY <1>0, <1>3, <1>5, <2>1, KeptIs
  <2>3. KeptUpTo(i, current, reported, jumped) => KeptUpTo(i + 1, current', reported', jumped)
    BY <1>0, <1>5, ScanReadsOn
  <2> QED
    BY <1>3, <1>5, <2>2, <2>3, KeptNext
<1>6. CASE Load
  <2>1. dpc \in {"read", "insert"} /\ UNCHANGED <<spc, input, idx, current, reported, jumped>>
    BY <1>6 DEF Load, DictLoad, ReadLine, StartInsert, InsertHome, InsertProbed, Grow, FillBloom,
       scanVars, loopVars
  <2>2. spc = "idle"
    BY <1>0, <1>1, <2>1 DEF ScanPhases
  <2>3. input = <<>> /\ Reached' = 0 /\ current = <<>> /\ reported = {} /\ jumped = {}
    BY <1>0, <2>1, <2>2 DEF ScanPhases, Reached
  <2>4. SubSeq(input, 1, 0) = <<>> /\ M!LongestKnownSuffix(<<>>) = <<>>
    BY <1>1, Beginnings, StateFacts
  <2>5. KeptUpTo(0, <<>>, {}, {})
    <3>1. 1 .. 0 = {}
      OBVIOUS
    <3>2. <<>> = M!LongestKnownSuffix(SubSeq(input, 1, 0))
      BY <2>4
    <3> QED
      BY <3>1, <3>2 DEF KeptUpTo
  <2>6. input' = input /\ anchors' = anchors /\ Reached' = 0 /\ current' = <<>> /\ reported' = {} /\ jumped' = {}
    BY <1>3, <2>1, <2>3
  <2>7. KeptUpTo(Reached', current', reported', jumped')
    BY <2>5, <2>6
  <2> QED
    BY <2>6, <2>7, KeptNext
<1>7. CASE Destroy
  <2>1. dpc' # "ready"
    BY <1>7 DEF Destroy, dictionary_destroy
  <2> QED
    BY <2>1 DEF JumpsKeepTheScan
<1>8. CASE UNCHANGED <<dictVars, scanVars>>
  <2>1. UNCHANGED <<dpc, entries, spc, input, idx, current, j, reported, jumped>>
    BY <1>8 DEF dictVars, scanVars, loopVars
  <2> QED
    BY <1>4, <2>1 DEF Reached
<1>9. CASE StartScan
  <2>1. input' \in Texts /\ idx' = 0 /\ current' = <<>> /\ reported' = {} /\ jumped' = {} /\ spc' = "loop"
    BY <1>9 DEF StartScan
  <2>2. input' \in Seq(Char)
    BY <2>1, ScanAssumption
  <2>3. SubSeq(input', 1, 0) = <<>> /\ M!LongestKnownSuffix(<<>>) = <<>>
    BY <1>1, <2>2, Beginnings, StateFacts
  <2>4. \A t : M!LongestKnownSuffix(t)' = M!LongestKnownSuffix(t)
    BY <1>3, KnowledgeFrame
  <2>5. Reached' = 0 /\ 1 .. 0 = {}
    BY <2>1 DEF Reached
  <2>6. SubSeq(input', 1, Reached') = <<>> /\ 1 .. Reached' = {}
    BY <2>3, <2>5
  <2>7. M!LongestKnownSuffix(SubSeq(input, 1, Reached))' = <<>>
    BY <2>3, <2>4, <2>6
  <2> QED
    BY <2>1, <2>6, <2>7 DEF JumpsKeepTheScan
<1>10. CASE BloomStep
  <2>1. testBloomOnly'
    BY <1>3, <1>10 DEF BloomStep
  <2> QED
    BY <2>1 DEF JumpsKeepTheScan
<1>11. CASE FindWord
  <2>1. /\ spc = "loop" /\ spc' = "border" /\ j' = idx
        /\ UNCHANGED <<dpc, entries, input, idx, current, reported, jumped>>
    BY <1>11 DEF FindWord, dictVars
  <2> QED
    BY <1>4, <2>1 DEF Reached
<1>12. CASE BorderChar
  <2>1. /\ spc = "border" /\ spc' = "border" /\ j < idx + Width /\ ScanSingleChar(j) /\ j' = j + 1
        /\ UNCHANGED <<dpc, entries, input, idx, jumped>>
    BY <1>12 DEF BorderChar, dictVars
  <2>2. j < Len(input)
    BY <1>0, <1>1, <2>1 DEF AtBorder
  <2>3. Reached = j /\ Reached' = j + 1
    BY <2>1 DEF Reached
  <2> QED
    BY <1>1, <1>5, <2>1, <2>2, <2>3
<1>13. CASE Jump
  <2>1. /\ spc = "border" /\ spc' = "loop" /\ idx' = idx + Width
        /\ jumped' = jumped \cup {<<idx + 1, entry>>} /\ UNCHANGED <<dpc, entries, input, reported>>
    BY <1>13 DEF Jump, dictVars
  <2>2. entries[entry].word = Window /\ Reached = j /\ Reached' = idx + Width
    BY <1>0, <2>1 DEF AtBorder, Reached
  <2>3. JumpsWholeWords' => JumpsWholeWords /\ entries[entry].word = entries[entry].scanned
    <3>1. <<idx + 1, entry>> \in jumped' /\ <<idx + 1, entry>>[2] = entry /\ jumped \subseteq jumped'
      BY <2>1
    <3> QED
      BY <2>1, <3>1 DEF JumpsWholeWords
  <2>4. dpc' = "ready" /\ ~ testBloomOnly' /\ JumpsWholeWords' => KeptUpTo(j, current, reported, jumped)
    BY <1>0, <1>3, <2>1, <2>2, <2>3, KeptIs
  <2>5. KeptUpTo(j, current, reported, jumped) /\ entries[entry].scanned = Window =>
            KeptUpTo(idx + Width, current', reported, jumped')
    BY <1>0, <1>13, <2>1, JumpReadsOn
  <2>6. dpc' = "ready" /\ ~ testBloomOnly' /\ JumpsWholeWords' =>
            KeptUpTo(Reached', current', reported', jumped')
    BY <2>1, <2>2, <2>3, <2>4, <2>5
  <2> QED
    BY <1>3, <2>1, <2>6, KeptNext
<1>14. CASE NoJump
  <2>1. /\ spc = "border" /\ spc' = "loop" /\ idx' = j
        /\ UNCHANGED <<dpc, entries, input, current, reported, jumped>>
    BY <1>14 DEF NoJump, dictVars
  <2> QED
    BY <1>4, <2>1 DEF Reached
<1>15. CASE ScanChar
  <2>1. /\ spc = "loop" /\ spc' = "loop" /\ idx < Len(input) /\ ScanSingleChar(idx) /\ idx' = idx + 1
        /\ UNCHANGED <<dpc, entries, input, jumped>>
    BY <1>15 DEF ScanChar, dictVars
  <2>2. Reached = idx /\ Reached' = idx + 1
    BY <2>1 DEF Reached
  <2> QED
    BY <1>1, <1>5, <2>1, <2>2
<1>16. CASE EndScan
  <2>1. spc = "loop" /\ spc' = "ended" /\ UNCHANGED <<dpc, entries, input, idx, current, j, reported, jumped>>
    BY <1>16 DEF EndScan, loopVars, dictVars
  <2> QED
    BY <1>4, <2>1 DEF Reached
<1> QED
  BY <1>6, <1>7, <1>8, <1>9, <1>10, <1>11, <1>12, <1>13, <1>14, <1>15, <1>16
     DEF ScanNext, matchDictionaryTableMachine

\* The invariant is inductive.
LEMMA StepSInv == SInv /\ [ScanNext]_<<dictVars, scanVars>> => SInv'
<1> SUFFICES ASSUME SInv, [ScanNext]_<<dictVars, scanVars>> PROVE SInv'
  OBVIOUS
<1>1. DictTypeOK /\ SizeInv
  BY DEF SInv, ScanTypeOK
<1>2. SizeInv'
  BY <1>1, DictStepOfScan, SizeStep
<1> QED
  BY <1>2, ScanTypeStep, PhaseStep, KeptStep DEF SInv

\* The variables of a scan keep their types: the consumed characters stay within
\* the text, or less than a word behind it where only the Bloom filter is asked.
THEOREM ScanTypesHold == ScanSpec => []ScanTypeOK
<1>1. SInv => ScanTypeOK
  BY DEF SInv
<1> QED
  BY <1>1, InitSInv, StepSInv, PTL DEF ScanSpec

\* A scan that jumps over words of the dictionary is behind every character where a
\* scan of every character would be, and misses no anchor but one that lies in a
\* word it jumped over: for every set of anchors, dictionary, width, text and pair
\* of hash functions.
THEOREM JumpsAreSafe == ScanSpec => []JumpsKeepTheScan
<1>1. SInv => JumpsKeepTheScan
  BY DEF SInv
<1> QED
  BY <1>1, InitSInv, StepSInv, PTL DEF ScanSpec

\* The dictionary of a scan finds its words, as a dictionary alone does.
THEOREM WordsFoundInScan == ScanSpec => []WordsAreFound
<1>1. ScanInit => TableInv
  BY InitIInv DEF ScanInit
<1>2. TableInv /\ [ScanNext]_<<dictVars, scanVars>> => TableInv'
  BY DictStepOfScan, StepIInv
<1> QED
  BY <1>1, <1>2, IInvWordsAreFound, PTL DEF ScanSpec
=============================================================================
