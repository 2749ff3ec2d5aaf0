-------------------------- MODULE ACBuilderProofs --------------------------
(***************************************************************************)
(* Proofs about module ACBuilder.  Proved of every step of the builder:    *)
(* its types; that every failure pointer leads to the longest proper       *)
(* suffix but for the matching leaves it skips; that an anchor stays in    *)
(* the first slot of its node; that the anchor of the longest suffix is    *)
(* reported; that what a node reports ends there, if malloc returns zeros; *)
(* and that hasFailInto tells in the end whether a node is failed into.    *)
(*                                                                         *)
(* A failure pointer is right only because the search for it starts from   *)
(* a right one, and that one is there because the search is breadth first. *)
(* ACInv therefore follows the whole construction: the tree (TreeInv) and  *)
(* what is entered of the anchors (EnterInv, MatchInv), the pointers set   *)
(* so far (FailInv), the nodes the queue still has to reach (QueueInv,     *)
(* ParentInv), and what the search for one pointer has excluded            *)
(* (ClimbInv).  The other invariants build on it, each stated where it is  *)
(* needed: SlotInv, ReportInv, AnchorInv, SuffixInv, OnceInv, CountInv.    *)
(***************************************************************************)
EXTENDS ACBuilder, StringLemmas

-----------------------------------------------------------------------------
(* The inductive invariant.                                                *)

Late    == pc \in {"avoid", "descend", "built", "fault"}
Linking == pc \in {"dequeue", "child", "climb"}

\* The nodes are a tree of their words.
TreeInv ==
    /\ word[Root] = <<>>
    /\ \A n \in Nodes : depth[n] = Len(word[n])
    /\ \A n \in Nodes, c \in Char : gotos[n][c] # NoNode =>
          gotos[n][c] # Root /\ word[gotos[n][c]] = Append(word[n], c)
    /\ \A m, n \in Nodes : word[m] = word[n] => m = n
    /\ \A m \in Nodes \ {Root} : \E n \in Nodes, c \in Char : gotos[n][c] = m

\* It holds the anchors entered so far and what is entered of the next one.
EnterInv ==
    /\ \A e \in 1 .. entry - 1 : e <= Len(anchors) /\ anchors[e] # <<>>
    /\ Entering => /\ pos <= Len(anchors[entry])
                   /\ word[cur] = SubSeq(anchors[entry], 1, pos)
    /\ pc # "enter" => ~ (entry <= Len(anchors) /\ anchors[entry] # <<>>)
    /\ \A n \in Nodes \ {Root} : \E e \in 1 .. entry :
          e <= Len(anchors) /\ anchors[e] # <<>> /\ Begins(word[n], anchors[e])
    /\ \A e \in 1 .. entry - 1 : \E n \in Nodes : word[n] = anchors[e] /\ match[n]

\* Where a node matches an anchor ends.
MatchInv ==
    \A n \in Nodes : match[n] => \E e \in 1 .. entry - 1 : Ends(anchors[e], word[n])

\* The failure pointer of n, once it is set, leads to the longest proper suffix
\* there is; the ones it skips later are matching leaves.
LinkOK(n) ==
    failure[n] # NoNode =>
        /\ Ends(word[failure[n]], word[n]) /\ depth[failure[n]] < depth[n]
        /\ \A m \in Nodes :
              Ends(word[m], word[n]) /\ depth[failure[n]] < depth[m] /\ depth[m] < depth[n]
              => Late /\ IsLeaf(m) /\ match[m]

FailInv ==
    /\ pc = "enter" => \A n \in Nodes : failure[n] = NoNode
    /\ pc # "enter" => failure[Root] = Root
    /\ Late => \A n \in Nodes : failure[n] # NoNode
    /\ \A n \in Nodes \ {Root} : LinkOK(n)

\* The breadth first search still reaches n.
Ahead(n) ==
    \/ \E i \in DOMAIN queue : queue[i] # n /\ Begins(word[queue[i]], word[n])
    \/ /\ pc \in {"child", "climb"}
       /\ \E i \in DOMAIN todo : Begins(Append(word[parent], todo[i]), word[n])
    \/ pc = "climb" /\ n = gotos[parent][char]

\* The queue is sorted by depth and spans at most two levels; a node without a
\* failure pointer is ahead.
QueueInv ==
    Linking =>
        /\ \A i \in DOMAIN queue : queue[i] # Root
        /\ \A i, j \in DOMAIN queue : i <= j =>
              depth[queue[i]] <= depth[queue[j]] /\ depth[queue[j]] <= depth[queue[i]] + 1
        /\ \A i \in DOMAIN queue :
              failure[queue[i]] # NoNode \/ (pc = "climb" /\ queue[i] = gotos[parent][char])
        /\ \A n \in Nodes : failure[n] = NoNode => Ahead(n)

ParentInv ==
    pc \in {"child", "climb"} =>
        /\ parent # Root /\ failure[parent] # NoNode
        /\ todo \in Seq(Chars(parent))
        /\ \A i \in DOMAIN queue :
              depth[parent] <= depth[queue[i]] /\ depth[queue[i]] <= depth[parent] + 1

\* The search for a failure node has not passed one.
ClimbInv ==
    pc = "climb" =>
        /\ char \in Chars(parent)
        /\ Ends(word[cur], word[parent]) /\ depth[cur] < depth[parent]
        /\ \A m \in Nodes :
              Ends(word[m], word[parent]) /\ depth[cur] < depth[m] /\ depth[m] < depth[parent]
              => gotos[m][char] = NoNode

ACInv ==
    /\ ACTypeOK /\ TreeInv /\ EnterInv /\ MatchInv
    /\ FailInv /\ QueueInv /\ ParentInv /\ ClimbInv

-----------------------------------------------------------------------------
(* The tree.                                                               *)

\* What the other proofs use of the type invariant.
LEMMA TypeFacts ==
    ASSUME ACTypeOK
    PROVE  /\ size \in Nat \ {0} /\ Root \in Nodes /\ Nodes \subseteq Nat /\ NoNode \notin Nodes
           /\ \A n \in Nodes : word[n] \in Seq(Char) /\ depth[n] \in Nat
           /\ \A n \in Nodes, c \in Char : gotos[n][c] # NoNode => gotos[n][c] \in Nodes
           /\ \A n \in Nodes : failure[n] # NoNode => failure[n] \in Nodes
           /\ \A n \in Nodes : match[n] \in BOOLEAN
BY DEF ACTypeOK, Nodes, Root, NoNode

\* The node a goto leads to, from the words alone.
LEMMA GotoOfWord ==
    ASSUME ACTypeOK, TreeInv, NEW m \in Nodes, NEW u \in Seq(Char), NEW c \in Char,
           word[m] = Append(u, c)
    PROVE  /\ \E p \in Nodes : word[p] = u /\ gotos[p][c] = m /\ depth[m] = depth[p] + 1
           /\ \A p \in Nodes : word[p] = u => gotos[p][c] = m
<1>1. m # Root
  BY TypeFacts DEF TreeInv
<1>2. PICK p \in Nodes, d \in Char : gotos[p][d] = m
  BY <1>1 DEF TreeInv
<1>3. word[p] \in Seq(Char) /\ word[m] = Append(word[p], d)
  BY <1>2, TypeFacts DEF TreeInv
<1>4. word[p] = u /\ d = c
  <2> DEFINE v == word[p]
  <2>1. v \in Seq(Char) /\ Append(v, d) = Append(u, c)
    BY <1>3
  <2> HIDE DEF v
  <2>2. v = u /\ d = c
    BY <2>1, AppendIsInjective
  <2> QED
    BY <2>2 DEF v
<1>5. depth[m] = depth[p] + 1
  BY <1>3 DEF TreeInv
<1> QED
  BY <1>2, <1>4, <1>5 DEF TreeInv

\* Every beginning of the word of a node is the word of a node.
LEMMA PrefixNodes ==
    ASSUME ACTypeOK, TreeInv, NEW n \in Nodes, NEW k \in 0 .. Len(word[n])
    PROVE  \E m \in Nodes : word[m] = SubSeq(word[n], 1, k)
<1> DEFINE w == word[n]
           Bad == {j \in 0 .. Len(w) : ~ \E m \in Nodes : word[m] = SubSeq(w, 1, j)}
<1>0. w \in Seq(Char) /\ Len(w) \in Nat
  BY TypeFacts
<1> HIDE DEF w
<1> SUFFICES ASSUME Bad # {} PROVE FALSE
  BY DEF w
<1>1. PICK j \in Bad : \A i \in Bad : i <= j
  BY <1>0, GreatestElement, Bad \subseteq 0 .. Len(w)
<1>2. j # Len(w)
  BY <1>0, SubSeq(w, 1, Len(w)) = w DEF w
<1>3. j + 1 \in 0 .. Len(w) /\ j + 1 \notin Bad
  BY <1>0, <1>1, <1>2
<1>4. PICK m \in Nodes : word[m] = SubSeq(w, 1, j + 1)
  BY <1>3
<1>5. SubSeq(w, 1, j + 1) = Append(SubSeq(w, 1, j), w[j + 1])
  BY <1>0, <1>3
<1>6. SubSeq(w, 1, j) \in Seq(Char) /\ w[j + 1] \in Char
  BY <1>0, <1>3
<1>7. \E p \in Nodes : word[p] = SubSeq(w, 1, j)
  <2> DEFINE v == SubSeq(w, 1, j)
             d == w[j + 1]
  <2>1. v \in Seq(Char) /\ d \in Char /\ word[m] = Append(v, d)
    BY <1>4, <1>5, <1>6
  <2> HIDE DEF v, d
  <2>2. \E p \in Nodes : word[p] = v
    BY <2>1, GotoOfWord
  <2> QED
    BY <2>2 DEF v
<1> QED
  BY <1>7

\* Nodes whose words begin with that of p are p and those behind its gotos.
LEMMA BelowNode ==
    ASSUME ACTypeOK, TreeInv, NEW p \in Nodes, NEW n \in Nodes,
           Begins(word[p], word[n]), n # p
    PROVE  \E c \in Chars(p) : Begins(Append(word[p], c), word[n])
<1> DEFINE u == word[p]
           w == word[n]
<1>0. u \in Seq(Char) /\ w \in Seq(Char)
  BY TypeFacts
<1>1. Len(u) < Len(w)
  <2> SUFFICES ASSUME Len(u) = Len(w) PROVE FALSE
    BY <1>0 DEF Begins
  <2>1. u = w
    BY <1>0 DEF Begins
  <2> QED
    BY <2>1 DEF TreeInv
<1> DEFINE c == w[Len(u) + 1]
<1>2. c \in Char
  BY <1>0, <1>1
<1>3. SubSeq(w, 1, Len(u) + 1) = Append(u, c)
  <2>1. Len(SubSeq(w, 1, Len(u) + 1)) = Len(u) + 1
    BY <1>0, <1>1
  <2>2. \A i \in 1 .. Len(u) + 1 : SubSeq(w, 1, Len(u) + 1)[i] = w[i]
    BY <1>0, <1>1
  <2>3. \A i \in 1 .. Len(u) + 1 : Append(u, c)[i] = w[i]
    BY <1>0, <1>1 DEF Begins
  <2>4. SubSeq(w, 1, Len(u) + 1) \in Seq(Char) /\ Append(u, c) \in Seq(Char)
    BY <1>0, <1>1, <1>2
  <2>5. Len(Append(u, c)) = Len(u) + 1
    BY <1>0
  <2> HIDE DEF u, w, c
  <2> QED
    BY <2>1, <2>2, <2>3, <2>4, <2>5
<1>4. PICK m \in Nodes : word[m] = Append(u, c)
  BY <1>0, <1>1, <1>3, PrefixNodes, Len(u) + 1 \in 0 .. Len(w)
<1>5. gotos[p][c] = m
  BY <1>0, <1>2, <1>4, GotoOfWord
<1>6. c \in Chars(p)
  BY <1>2, <1>5, TypeFacts DEF Chars
<1>7. Begins(Append(u, c), w)
  BY <1>0, <1>1, <1>2 DEF Begins
<1> QED
  BY <1>6, <1>7

\* The gotos of a node are iterated each once.
LEMMA CharsOrder ==
    ASSUME ACTypeOK, TreeInv, NEW n \in Nodes
    PROVE  /\ CharsInOrder(n) \in Seq(Chars(n)) /\ Len(CharsInOrder(n)) = numGotos(n)
           /\ numGotos(n) \in Nat
           /\ \A c \in Chars(n) : \E i \in DOMAIN CharsInOrder(n) : CharsInOrder(n)[i] = c
           /\ \A i, j \in DOMAIN CharsInOrder(n) :
                 CharsInOrder(n)[i] = CharsInOrder(n)[j] => i = j
<1> DEFINE g == [c \in Chars(n) |-> gotos[n][c]]
<1>1. IsFiniteSet(Chars(n))
  <2>1. Chars(n) \subseteq Char
    BY DEF Chars
  <2> QED
    BY <2>1, ACAssumption, FS_Subset
<1>2. g \in [Chars(n) -> 0 .. size - 1]
  BY TypeFacts DEF Chars, Nodes
<1>3. ASSUME NEW c \in Chars(n), NEW d \in Chars(n), g[c] = g[d]
      PROVE  c = d
  <2>1. c \in Char /\ d \in Char /\ gotos[n][c] = gotos[n][d] /\ gotos[n][c] # NoNode
    BY <1>3 DEF Chars
  <2>2. Append(word[n], c) = Append(word[n], d)
    BY <2>1 DEF TreeInv
  <2> QED
    BY <2>1, <2>2, TypeFacts, EndsAppend
<1>4. size - 1 \in Nat
  BY TypeFacts
<1> HIDE DEF g
<1>5. PICK s \in [1 .. Cardinality(Chars(n)) -> Chars(n)] :
              /\ {s[i] : i \in DOMAIN s} = Chars(n)
              /\ \A i, j \in DOMAIN s : i < j => g[s[i]] < g[s[j]]
  BY <1>1, <1>2, <1>3, <1>4, Enumeration
<1>6. /\ Range(s) = Chars(n)
      /\ \A i, j \in DOMAIN s : i < j => gotos[n][s[i]] < gotos[n][s[j]]
  BY <1>5 DEF Range, g
<1>7. /\ CharsInOrder(n) \in [1 .. numGotos(n) -> Chars(n)]
      /\ Range(CharsInOrder(n)) = Chars(n)
      /\ \A i, j \in DOMAIN CharsInOrder(n) :
            i < j => gotos[n][CharsInOrder(n)[i]] < gotos[n][CharsInOrder(n)[j]]
  BY <1>5, <1>6 DEF CharsInOrder, numGotos
<1>8. numGotos(n) \in Nat
  BY <1>1, FS_CardinalityType DEF numGotos
<1>9. ASSUME NEW i \in DOMAIN CharsInOrder(n), NEW j \in DOMAIN CharsInOrder(n), i # j
      PROVE  CharsInOrder(n)[i] # CharsInOrder(n)[j]
  <2> DEFINE t == CharsInOrder(n)
  <2>1. i \in Nat /\ j \in Nat /\ t[i] \in Chars(n) /\ t[j] \in Chars(n)
    BY <1>7, <1>8
  <2>2. gotos[n][t[i]] \in Nat
    BY <2>1, TypeFacts DEF Chars
  <2>3. gotos[n][t[i]] < gotos[n][t[j]] \/ gotos[n][t[j]] < gotos[n][t[i]]
    BY <1>7, <1>9, <2>1
  <2> HIDE DEF t
  <2>4. t[i] # t[j]
    BY <2>2, <2>3
  <2> QED
    BY <2>4 DEF t
<1> QED
  BY <1>7, <1>8, <1>9 DEF Range

\* The children of a node in the order of the hash map are nodes, all of them.
LEMMA ChildrenOrder ==
    ASSUME ACTypeOK, TreeInv, NEW n \in Nodes
    PROVE  /\ ChildrenInOrder(n) \in Seq(Nodes \ {Root})
           /\ \A i \in DOMAIN ChildrenInOrder(n) : \E c \in Char : gotos[n][c] = ChildrenInOrder(n)[i]
           /\ \A c \in Chars(n) : \E i \in DOMAIN ChildrenInOrder(n) : ChildrenInOrder(n)[i] = gotos[n][c]
           /\ \A i, j \in DOMAIN ChildrenInOrder(n) :
                 ChildrenInOrder(n)[i] = ChildrenInOrder(n)[j] => i = j
<1> DEFINE s == CharsInOrder(n)
<1>1. /\ s \in Seq(Chars(n)) /\ Len(s) = numGotos(n) /\ numGotos(n) \in Nat
      /\ \A c \in Chars(n) : \E i \in DOMAIN s : s[i] = c
      /\ \A i, j \in DOMAIN s : s[i] = s[j] => i = j
  BY CharsOrder
<1> HIDE DEF s
<1>2. ChildrenInOrder(n) = [k \in 1 .. numGotos(n) |-> gotos[n][s[k]]]
  BY DEF ChildrenInOrder, s
<1>3. \A k \in 1 .. numGotos(n) : s[k] \in Chars(n)
  BY <1>1
<1>4. \A c \in Chars(n) : c \in Char /\ gotos[n][c] \in Nodes \ {Root}
  BY TypeFacts DEF Chars, TreeInv
<1>5. DOMAIN ChildrenInOrder(n) = 1 .. numGotos(n) /\ DOMAIN s = 1 .. numGotos(n)
  BY <1>1, <1>2
<1>6. ChildrenInOrder(n) \in Seq(Nodes \ {Root})
  <2>1. \A k \in 1 .. numGotos(n) : gotos[n][s[k]] \in Nodes \ {Root}
    BY <1>3, <1>4
  <2> QED
    BY <1>1, <1>2, <2>1
<1>7. ASSUME NEW i \in 1 .. numGotos(n), NEW j \in 1 .. numGotos(n), gotos[n][s[i]] = gotos[n][s[j]]
      PROVE  i = j
  <2>1. s[i] \in Chars(n) /\ s[j] \in Chars(n)
    BY <1>3
  <2>2. s[i] \in Char /\ s[j] \in Char /\ Append(word[n], s[i]) = Append(word[n], s[j])
    BY <1>7, <2>1 DEF Chars, TreeInv
  <2>3. s[i] = s[j]
    BY <2>2, TypeFacts, EndsAppend
  <2> QED
    BY <1>1, <1>5, <2>3
<1> QED
  BY <1>1, <1>2, <1>3, <1>4, <1>5, <1>6, <1>7

-----------------------------------------------------------------------------
(* Types.                                                                  *)

\* An entry of anchorsArr is a word.
LEMMA AnchorsAreWords ==
    ASSUME ACTypeOK, NEW e \in Nat \ {0}, e <= Len(anchors)
    PROVE  anchors[e] \in Seq(Char)
<1>1. anchors \in Seq(Strings) /\ Strings \subseteq Seq(Char)
  BY ACAssumption DEF ACTypeOK
<1>2. Len(anchors) \in Nat /\ e \in 1 .. Len(anchors)
  BY <1>1
<1>3. anchors[e] \in Strings
  BY <1>1, <1>2, WordFacts
<1> QED
  BY <1>1, <1>3

\* What Extended makes of a field of the nodes.
LEMMA ExtendedIs ==
    ASSUME size \in Nat, NEW S, NEW f \in [Nodes -> S], NEW v \in S
    PROVE  /\ Extended(f, v) \in [0 .. size -> S]
           /\ Extended(f, v)[size] = v
           /\ \A n \in Nodes : n # size /\ Extended(f, v)[n] = f[n]
BY DEF Extended, Nodes

\* The types hold of a builder that has not begun.
LEMMA ACTypeInit ==
    ACInit => ACTypeOK
<1> SUFFICES ASSUME ACInit PROVE ACTypeOK
  OBVIOUS
<1>1. size = 1 /\ Nodes = {Root} /\ Root = 0
  BY DEF ACInit, Nodes, Root
<1>2. anchors \in Seq(Strings)
  <2>1. anchors \in UNION {[1 .. m -> Strings] : m \in 0 .. MaxAnchors}
    BY DEF ACInit, BoundedSeq, SeqOf
  <2>2. PICK m \in 0 .. MaxAnchors : anchors \in [1 .. m -> Strings]
    BY <2>1
  <2>3. m \in Nat
    BY <2>2, ACAssumption
  <2> QED
    BY <2>2, <2>3, ListIs
<1>3. char \in Char
  BY ACAssumption DEF ACInit
<1>4. EmptySlots \in [0 .. MaxSlots - 1 -> Nat]
  BY DEF EmptySlots, NoSlot
<1>5. numMatches \in [Nodes -> Int]
  BY <1>1, ACAssumption DEF ACInit
<1>6. /\ gotos \in [Nodes -> [Char -> Nodes \cup {NoNode}]]
      /\ slots \in [Nodes -> [0 .. MaxSlots - 1 -> Nat]]
      /\ word \in [Nodes -> Seq(Char)]
  BY <1>1, <1>4 DEF ACInit
<1>7. /\ depth \in [Nodes -> Nat] /\ match \in [Nodes -> BOOLEAN] /\ message \in [Nodes -> Nat]
      /\ failure \in [Nodes -> Nodes \cup {NoNode}] /\ hasFailInto \in [Nodes -> Nat]
  BY <1>1 DEF ACInit, NoSlot
<1>8. /\ cur \in Nodes /\ parent \in Nodes /\ queue \in Seq(Nodes) /\ stack \in Seq(Nodes)
      /\ todo \in Seq(Char) /\ entry \in Nat \ {0} /\ pos \in Nat /\ size \in Nat \ {0}
      /\ pc \in {"enter", "dequeue", "child", "climb", "avoid", "descend", "built", "fault"}
  BY <1>1 DEF ACInit
<1> QED
  BY <1>2, <1>3, <1>5, <1>6, <1>7, <1>8 DEF ACTypeOK

\* enter keeps the types.
LEMMA EnterType ==
    ASSUME ACInv, enter
    PROVE  ACTypeOK'
<1>0. ACTypeOK
  BY DEF ACInv
<1>1. Entering => anchors[entry] \in Seq(Char)
  BY <1>0, AnchorsAreWords DEF Entering, ACTypeOK
<1>a. pos \in Nat /\ entry \in Nat \ {0}
  BY <1>0 DEF ACTypeOK
<1>2. ASSUME Entering, pos < Len(anchors[entry])
      PROVE  anchors[entry][pos + 1] \in Char
  <2>1. pos + 1 \in 1 .. Len(anchors[entry])
    BY <1>1, <1>2, <1>a
  <2> QED
    BY <1>1, <1>2, <2>1, WordFacts
<1>3. CASE Walk
  <2>1. cur \in Nodes
    BY <1>0 DEF ACTypeOK
  <2>2. cur' \in Nodes
    BY <1>0, <1>2, <1>3, <2>1, TypeFacts DEF Walk, acGetNextNode
  <2>3. Nodes' = Nodes
    BY <1>3 DEF Walk, Nodes, treeVars
  <2>4. UNCHANGED <<anchors, pc, entry, size, gotos, depth, word, match, message,
                    numMatches, slots, failure, hasFailInto, queue, parent, todo,
                    char, stack>>
    BY <1>3 DEF Walk, treeVars, matchVars, failVars, bfsVars
  <2>5. pos' \in Nat
    BY <1>a, <1>3 DEF Walk
  <2> QED
    BY <1>0, <2>2, <2>3, <2>4, <2>5 DEF ACTypeOK
<1>4. CASE createNewNode
  <2> DEFINE c == anchors[entry][pos + 1]
  <2>1. c \in Char /\ size \in Nat \ {0} /\ cur \in Nodes /\ size' = size + 1
    BY <1>0, <1>2, <1>4 DEF createNewNode, ACTypeOK
  <2>2. Nodes' = 0 .. size /\ Nodes \subseteq Nodes' /\ size \in Nodes'
    BY <2>1 DEF Nodes
  <2>3. gotos' \in [Nodes' -> [Char -> Nodes' \cup {NoNode}]]
    <3>1. [gotos EXCEPT ![cur][c] = size] \in [Nodes -> [Char -> Nodes' \cup {NoNode}]]
      <4>1. gotos \in [Nodes -> [Char -> Nodes \cup {NoNode}]]
        BY <1>0 DEF ACTypeOK
      <4>2. gotos \in [Nodes -> [Char -> Nodes' \cup {NoNode}]]
        BY <2>2, <4>1
      <4> HIDE DEF c
      <4> QED
        BY <2>1, <2>2, <4>2
    <3>2. [d \in Char |-> NoNode] \in [Char -> Nodes' \cup {NoNode}]
      OBVIOUS
    <3> QED
      BY <1>4, <2>1, <2>2, <3>1, <3>2, ExtendedIs DEF createNewNode
  <2>4. depth' \in [Nodes' -> Nat]
    <3>1. depth[cur] + 1 \in Nat
      BY <1>0, <2>1 DEF ACTypeOK
    <3> QED
      BY <1>0, <1>4, <2>1, <2>2, <3>1, ExtendedIs DEF createNewNode, ACTypeOK
  <2>5. word' \in [Nodes' -> Seq(Char)]
    <3>1. Append(word[cur], c) \in Seq(Char)
      BY <1>0, <2>1 DEF ACTypeOK
    <3> QED
      BY <1>0, <1>4, <2>1, <2>2, <3>1, ExtendedIs DEF createNewNode, ACTypeOK
  <2>6. match' \in [Nodes' -> BOOLEAN] /\ message' \in [Nodes' -> Nat]
    BY <1>0, <1>4, <2>1, <2>2, ExtendedIs DEF createNewNode, ACTypeOK, NoSlot
  <2>7. numMatches' \in [Nodes' -> Int]
    <3>1. PICK garbage \in FreshCounts : numMatches' = Extended(numMatches, garbage)
      BY <1>4 DEF createNewNode
    <3>2. garbage \in Int /\ numMatches \in [Nodes -> Int]
      BY <1>0, ACAssumption DEF ACTypeOK
    <3> QED
      BY <2>1, <2>2, <3>1, <3>2, ExtendedIs
  <2>8. slots' \in [Nodes' -> [0 .. MaxSlots - 1 -> Nat]]
    <3>1. EmptySlots \in [0 .. MaxSlots - 1 -> Nat]
      BY DEF EmptySlots, NoSlot
    <3> QED
      BY <1>0, <1>4, <2>1, <2>2, <3>1, ExtendedIs DEF createNewNode, ACTypeOK
  <2>9. failure' \in [Nodes' -> Nodes' \cup {NoNode}] /\ hasFailInto' \in [Nodes' -> Nat]
    <3>1. failure \in [Nodes -> Nodes' \cup {NoNode}] /\ hasFailInto \in [Nodes -> Nat]
      BY <1>0, <2>2 DEF ACTypeOK
    <3> QED
      BY <1>4, <2>1, <2>2, <3>1, ExtendedIs DEF createNewNode
  <2>10. /\ queue' \in Seq(Nodes') /\ stack' \in Seq(Nodes') /\ parent' \in Nodes' /\ cur' \in Nodes'
         /\ pos' \in Nat /\ size' \in Nat \ {0}
    <3>1. queue \in Seq(Nodes) /\ stack \in Seq(Nodes) /\ parent \in Nodes /\ pos \in Nat
      BY <1>0 DEF ACTypeOK
    <3>2. queue \in Seq(Nodes') /\ stack \in Seq(Nodes')
      BY <2>2, <3>1, WordFacts
    <3> QED
      BY <1>4, <2>1, <2>2, <3>1, <3>2 DEF createNewNode, bfsVars
  <2> QED
    BY <1>0, <1>4, <2>3, <2>4, <2>5, <2>6, <2>7, <2>8, <2>9, <2>10
    DEF createNewNode, ACTypeOK, bfsVars
<1>5. CASE SetMatch
  <2>1. /\ match' \in [Nodes -> BOOLEAN] /\ message' \in [Nodes -> Nat]
        /\ numMatches' \in [Nodes -> Int]
    BY <1>0, <1>5 DEF SetMatch, ACTypeOK
  <2>2. slots' \in [Nodes -> [0 .. MaxSlots - 1 -> Nat]]
    <3>1. slots \in [Nodes -> [0 .. MaxSlots - 1 -> Nat]] /\ cur \in Nodes /\ entry \in Nat
      BY <1>0 DEF ACTypeOK
    <3>2. slots' = [slots EXCEPT ![cur][0] = entry]
      BY <1>5 DEF SetMatch, OwnSlot
    <3> QED
      BY <3>1, <3>2
  <2>3. Nodes' = Nodes
    BY <1>5 DEF SetMatch, Nodes, treeVars
  <2>4. UNCHANGED <<anchors, pc, size, gotos, depth, word, failure, hasFailInto,
                    queue, parent, todo, char, stack>>
    BY <1>5 DEF SetMatch, treeVars, failVars, bfsVars
  <2>5. cur' \in Nodes /\ entry' \in Nat \ {0} /\ pos' \in Nat
    BY <1>0, <1>a, <1>5, TypeFacts DEF SetMatch
  <2> QED
    BY <1>0, <2>1, <2>2, <2>3, <2>4, <2>5 DEF ACTypeOK
<1> QED
  BY <1>3, <1>4, <1>5 DEF enter

\* The nodes the search for a failure node passes have a failure pointer: those
\* without are deeper than the parent.
LEMMA LinkedAbove ==
    ASSUME ACInv, pc \in {"child", "climb"}, NEW n \in Nodes, depth[n] <= depth[parent]
    PROVE  failure[n] # NoNode
<1> SUFFICES ASSUME failure[n] = NoNode PROVE FALSE
  OBVIOUS
<1>0. ACTypeOK /\ TreeInv /\ QueueInv /\ ParentInv /\ ClimbInv
  BY DEF ACInv
<1>1. Ahead(n)
  BY <1>0 DEF QueueInv, Linking
<1>2. parent \in Nodes /\ word[parent] \in Seq(Char) /\ word[n] \in Seq(Char)
  BY <1>0, TypeFacts DEF ACTypeOK
<1>3. depth[n] = Len(word[n]) /\ depth[parent] = Len(word[parent])
  BY <1>0, <1>2 DEF TreeInv
<1>4. ASSUME NEW i \in DOMAIN queue, queue[i] # n, Begins(word[queue[i]], word[n])
      PROVE  FALSE
  <2>1. queue[i] \in Nodes
    <3>1. queue \in Seq(Nodes)
      BY <1>0 DEF ACTypeOK
    <3> QED
      BY <3>1, WordFacts
  <2>2. PICK c \in Chars(queue[i]) : Begins(Append(word[queue[i]], c), word[n])
    BY <1>0, <1>4, <2>1, BelowNode
  <2>3. Len(Append(word[queue[i]], c)) = depth[queue[i]] + 1
    BY <1>0, <2>1, TypeFacts DEF TreeInv
  <2>4. depth[parent] <= depth[queue[i]]
    BY <1>0 DEF ParentInv
  <2> QED
    BY <1>2, <1>3, <2>1, <2>2, <2>3, <2>4, <1>0, TypeFacts DEF Begins
<1>5. ASSUME NEW i \in DOMAIN todo, Begins(Append(word[parent], todo[i]), word[n])
      PROVE  FALSE
  <2>1. Len(Append(word[parent], todo[i])) = Len(word[parent]) + 1
    BY <1>2
  <2> QED
    BY <1>2, <1>3, <1>5, <2>1 DEF Begins
<1>6. ASSUME pc = "climb", n = gotos[parent][char]
      PROVE  FALSE
  <2>1. word[n] = Append(word[parent], char)
    BY <1>0, <1>2, <1>6, TypeFacts DEF ClimbInv, Chars, TreeInv
  <2> QED
    BY <1>2, <1>3, <2>1
<1> QED
  BY <1>1, <1>4, <1>5, <1>6 DEF Ahead

\* constructFailures keeps the types: the failure pointers it follows are set.
LEMMA FailuresType ==
    ASSUME ACInv, constructFailures
    PROVE  ACTypeOK'
<1>0. ACTypeOK /\ TreeInv /\ FailInv /\ QueueInv /\ ParentInv /\ ClimbInv
  BY DEF ACInv
<1>1. UNCHANGED <<anchors, entry, pos, size, gotos, depth, word, match, message,
                  numMatches, slots>>
  BY DEF constructFailures, StartFailures, Dequeue, NextChild, Climb, SetFailure,
         EndChildren, EndFailures, treeVars, matchVars
<1>2. Nodes' = Nodes
  BY <1>1 DEF Nodes
<1>3. /\ cur \in Nodes /\ parent \in Nodes /\ char \in Char
      /\ failure \in [Nodes -> Nodes \cup {NoNode}] /\ hasFailInto \in [Nodes -> Nat]
      /\ queue \in Seq(Nodes) /\ stack \in Seq(Nodes) /\ todo \in Seq(Char)
      /\ pc \in {"enter", "dequeue", "child", "climb", "avoid", "descend", "built", "fault"}
  BY <1>0 DEF ACTypeOK
<1>4. SUFFICES /\ cur' \in Nodes /\ parent' \in Nodes /\ char' \in Char
               /\ failure' \in [Nodes -> Nodes \cup {NoNode}] /\ hasFailInto' \in [Nodes -> Nat]
               /\ queue' \in Seq(Nodes) /\ stack' \in Seq(Nodes) /\ todo' \in Seq(Char)
               /\ pc' \in {"enter", "dequeue", "child", "climb", "avoid", "descend", "built", "fault"}
  BY <1>0, <1>1, <1>2 DEF ACTypeOK
<1>5. CASE StartFailures
  <2>1. failure' \in [Nodes -> Nodes \cup {NoNode}]
    BY <1>3, <1>5, <1>0, TypeFacts DEF StartFailures
  <2>2. queue' \in Seq(Nodes)
    <3>1. ChildrenInOrder(Root) \in Seq(Nodes \ {Root})
      BY <1>0, TypeFacts, ChildrenOrder
    <3> QED
      BY <1>5, <3>1, WordFacts DEF StartFailures
  <2> QED
    BY <1>3, <1>5, <2>1, <2>2 DEF StartFailures
<1>6. CASE Dequeue
  <2>1. Head(queue) \in Nodes /\ Tail(queue) \in Seq(Nodes)
    BY <1>3, <1>6, WordFacts DEF Dequeue
  <2>2. CharsInOrder(Head(queue)) \in Seq(Char)
    <3>1. CharsInOrder(Head(queue)) \in Seq(Chars(Head(queue)))
      BY <1>0, <2>1, CharsOrder
    <3>2. Chars(Head(queue)) \subseteq Char
      BY DEF Chars
    <3> QED
      BY <3>1, <3>2, WordFacts
  <2> QED
    BY <1>3, <1>6, <2>1, <2>2 DEF Dequeue, failVars
<1>7. CASE NextChild
  <2>0. pc = "child" /\ todo # <<>> /\ parent # Root /\ failure[parent] # NoNode
    BY <1>0, <1>7 DEF NextChild, ParentInv
  <2>1. todo \in Seq(Chars(parent))
    BY <1>0, <2>0 DEF ParentInv
  <2>2. Head(todo) \in Chars(parent) /\ Head(todo) \in Char /\ Tail(todo) \in Seq(Char)
    BY <1>3, <2>0, <2>1, WordFacts
  <2>3. gotos[parent][Head(todo)] \in Nodes
    BY <1>0, <1>3, <2>2, TypeFacts DEF Chars
  <2>4. queue' \in Seq(Nodes)
    BY <1>3, <1>7, <2>3 DEF NextChild, acGetNextNode
  <2>5. cur' \in Nodes
    BY <1>0, <1>3, <1>7, <2>0, TypeFacts DEF NextChild, SearchStart
  <2> QED
    BY <1>3, <1>7, <2>2, <2>4, <2>5 DEF NextChild, failVars
<1>8. CASE Climb
  <2>1. pc = "climb" /\ depth[cur] < depth[parent]
    BY <1>0, <1>8 DEF Climb, ClimbInv
  <2>2. failure[cur] # NoNode
    BY <1>0, <1>3, <2>1, LinkedAbove, TypeFacts
  <2>3. failure[cur] \in Nodes
    BY <1>0, <1>3, <2>2, TypeFacts
  <2> QED
    BY <1>3, <1>8, <2>3 DEF Climb, failVars, bfsVars
<1>9. CASE SetFailure
  <2>1. FailureFound \in Nodes
    BY <1>0, <1>3, TypeFacts DEF FailureFound, acGetNextNode
  <2>2. failure' \in [Nodes -> Nodes \cup {NoNode}]
    BY <1>3, <1>9, <2>1 DEF SetFailure
  <2>3. hasFailInto' \in [Nodes -> Nat]
    <3>1. hasFailInto[FailureFound] + 1 \in Nat
      BY <1>3, <2>1
    <3> QED
      BY <1>3, <1>9, <2>1, <3>1 DEF SetFailure
  <2> QED
    BY <1>3, <1>9, <2>2, <2>3 DEF SetFailure, bfsVars
<1>10. CASE EndChildren
  BY <1>3, <1>10 DEF EndChildren, failVars, bfsVars
<1>11. CASE EndFailures
  <2>1. <<Root>> \in Seq(Nodes)
    BY <1>0, TypeFacts
  <2> QED
    BY <1>3, <1>11, <2>1 DEF EndFailures, failVars, bfsVars
<1> QED
  BY <1>5, <1>6, <1>7, <1>8, <1>9, <1>10, <1>11 DEF constructFailures

\* avoidFailToAcceptingStates keeps the types.
LEMMA AvoidType ==
    ASSUME ACInv, avoidFailToAcceptingStates
    PROVE  ACTypeOK'
<1>0. ACTypeOK /\ TreeInv /\ FailInv
  BY DEF ACInv
<1>1. UNCHANGED <<anchors, entry, pos, cur, size, gotos, depth, word, message,
                  queue, parent, todo, char>>
  BY DEF avoidFailToAcceptingStates, Inherit, Fault, Descend, EndBuild, treeVars,
         matchVars, bfsVars
<1>2. Nodes' = Nodes
  BY <1>1 DEF Nodes
<1>3. /\ match \in [Nodes -> BOOLEAN] /\ numMatches \in [Nodes -> Int]
      /\ slots \in [Nodes -> [0 .. MaxSlots - 1 -> Nat]]
      /\ failure \in [Nodes -> Nodes \cup {NoNode}] /\ hasFailInto \in [Nodes -> Nat]
      /\ stack \in Seq(Nodes)
      /\ pc \in {"enter", "dequeue", "child", "climb", "avoid", "descend", "built", "fault"}
  BY <1>0 DEF ACTypeOK
<1>4. SUFFICES /\ match' \in [Nodes -> BOOLEAN] /\ numMatches' \in [Nodes -> Int]
               /\ slots' \in [Nodes -> [0 .. MaxSlots - 1 -> Nat]]
               /\ failure' \in [Nodes -> Nodes \cup {NoNode}] /\ hasFailInto' \in [Nodes -> Nat]
               /\ stack' \in Seq(Nodes)
               /\ pc' \in {"enter", "dequeue", "child", "climb", "avoid", "descend", "built", "fault"}
  BY <1>0, <1>1, <1>2 DEF ACTypeOK
<1>5. CASE Inherit
  <2> DEFINE n == Head(stack)
             f == failure[n]
  <2>1. pc = "avoid" /\ stack # <<>> /\ match[f] /\ CanCopy(n, f)
    BY <1>5 DEF Inherit
  <2>2. n \in Nodes
    BY <1>3, <2>1, WordFacts
  <2>3. f \in Nodes /\ failure[f] \in Nodes
    BY <1>0, <2>1, <2>2, TypeFacts DEF FailInv, Late
  <2> HIDE DEF n, f
  <2>4. match' \in [Nodes -> BOOLEAN]
    BY <1>3, <1>5, <2>2 DEF Inherit, n
  <2>5. numMatches' \in [Nodes -> Int]
    <3>1. numMatches[n] \in Int /\ numMatches[f] \in Int
      BY <1>3, <2>2, <2>3
    <3> QED
      BY <1>3, <1>5, <2>2, <3>1 DEF Inherit, n, f
  <2>6. slots' \in [Nodes -> [0 .. MaxSlots - 1 -> Nat]]
    <3>1. slots[n] \in [0 .. MaxSlots - 1 -> Nat] /\ slots[f] \in [0 .. MaxSlots - 1 -> Nat]
          /\ numMatches[n] \in Int /\ numMatches[f] \in Int
      BY <1>3, <2>2, <2>3
    <3>2. ASSUME NEW k \in 0 .. MaxSlots - 1, k \in numMatches[n] .. numMatches[n] + numMatches[f] - 1
          PROVE  slots[f][k - numMatches[n]] \in Nat
      <4>1. k - numMatches[n] \in 0 .. numMatches[f] - 1
        BY <3>1, <3>2
      <4>2. k - numMatches[n] < MaxSlots
        BY <2>1, <4>1 DEF CanCopy
      <4>3. k - numMatches[n] \in 0 .. MaxSlots - 1
        BY <4>1, <4>2, ACAssumption, <3>1
      <4> QED
        BY <3>1, <4>3
    <3>3. SlotsAppended(n, f) \in [0 .. MaxSlots - 1 -> Nat]
      BY <3>1, <3>2 DEF SlotsAppended
    <3> QED
      BY <1>3, <1>5, <2>2, <3>3 DEF Inherit, n, f
  <2>7. failure' \in [Nodes -> Nodes \cup {NoNode}] /\ hasFailInto' \in [Nodes -> Nat]
    <3>1. ReleasedCount(hasFailInto[f]) \in Nat
      BY <1>3, <2>3 DEF ReleasedCount
    <3>2. \/ UNCHANGED failVars
          \/ /\ failure' = [failure EXCEPT ![n] = failure[f]]
             /\ hasFailInto' = [hasFailInto EXCEPT ![f] = ReleasedCount(hasFailInto[f])]
      BY <1>5 DEF Inherit, n, f
    <3> QED
      BY <1>3, <2>2, <2>3, <3>1, <3>2 DEF failVars
  <2>8. pc' \in {"avoid", "descend"} /\ stack' = stack
    BY <1>5 DEF Inherit
  <2> QED
    BY <1>3, <2>4, <2>5, <2>6, <2>7, <2>8
<1>6. CASE Fault
  BY <1>3, <1>6 DEF Fault, matchVars, failVars
<1>7. CASE Descend
  <2>1. Head(stack) \in Nodes /\ Tail(stack) \in Seq(Nodes)
    BY <1>3, <1>7, WordFacts DEF Descend
  <2>2. ChildrenInOrder(Head(stack)) \in Seq(Nodes)
    BY <1>0, <2>1, ChildrenOrder, WordFacts
  <2>3. stack' \in Seq(Nodes)
    BY <1>7, <2>1, <2>2 DEF Descend
  <2> QED
    BY <1>3, <1>7, <2>3 DEF Descend, matchVars, failVars
<1>8. CASE EndBuild
  BY <1>3, <1>8 DEF EndBuild, matchVars, failVars
<1> QED
  BY <1>5, <1>6, <1>7, <1>8 DEF avoidFailToAcceptingStates

-----------------------------------------------------------------------------
(* Entering the anchors.                                                   *)

\* enter is at the node of what it has entered of an anchor.
LEMMA EnterFacts ==
    ASSUME ACInv, Entering
    PROVE  /\ anchors[entry] \in Seq(Char) /\ anchors[entry] # <<>>
           /\ entry \in Nat \ {0} /\ entry <= Len(anchors) /\ Len(anchors) \in Nat
           /\ pos \in Nat /\ pos <= Len(anchors[entry]) /\ Len(anchors[entry]) \in Nat
           /\ word[cur] = SubSeq(anchors[entry], 1, pos)
           /\ cur \in Nodes /\ word[cur] \in Seq(Char)
           /\ Begins(word[cur], anchors[entry])
           /\ pos < Len(anchors[entry]) =>
                 /\ anchors[entry][pos + 1] \in Char
                 /\ Append(word[cur], anchors[entry][pos + 1]) = SubSeq(anchors[entry], 1, pos + 1)
           /\ pos = Len(anchors[entry]) => word[cur] = anchors[entry]
<1>0. ACTypeOK /\ EnterInv
  BY DEF ACInv
<1>1. entry \in Nat \ {0} /\ pos \in Nat /\ cur \in Nodes /\ anchors \in Seq(Strings)
  BY <1>0 DEF ACTypeOK
<1>2. entry <= Len(anchors) /\ anchors[entry] # <<>> /\ Len(anchors) \in Nat
  BY <1>1, WordFacts DEF Entering
<1>3. anchors[entry] \in Seq(Char)
  BY <1>0, <1>1, <1>2, AnchorsAreWords
<1> DEFINE w == anchors[entry]
<1>4. pos <= Len(w) /\ word[cur] = SubSeq(w, 1, pos)
  BY <1>0 DEF EnterInv
<1> HIDE DEF w
<1>5. Len(w) \in Nat /\ w \in Seq(Char)
  BY <1>3, WordFacts DEF w
<1>6. word[cur] \in Seq(Char) /\ Begins(word[cur], w)
  BY <1>1, <1>4, <1>5, Beginnings
<1>7. ASSUME pos < Len(w)
      PROVE  w[pos + 1] \in Char /\ Append(word[cur], w[pos + 1]) = SubSeq(w, 1, pos + 1)
  BY <1>1, <1>4, <1>5, <1>7, Beginnings
<1>8. ASSUME pos = Len(w) PROVE word[cur] = w
  BY <1>4, <1>5, <1>8, Beginnings
<1> QED
  BY <1>1, <1>2, <1>3, <1>4, <1>5, <1>6, <1>7, <1>8 DEF w

\* What a new node changes.
LEMMA NewNode ==
    ASSUME ACInv, createNewNode
    PROVE  LET c == anchors[entry][pos + 1] IN
           /\ c \in Char /\ cur \in Nodes /\ size \in Nat \ {0} /\ gotos[cur][c] = NoNode
           /\ Nodes' = Nodes \cup {size} /\ size \notin Nodes /\ Root \in Nodes
           /\ \A n \in Nodes : /\ word'[n] = word[n] /\ depth'[n] = depth[n]
                               /\ match'[n] = match[n] /\ failure'[n] = failure[n]
                               /\ message'[n] = message[n] /\ numMatches'[n] = numMatches[n]
                               /\ slots'[n] = slots[n]
           /\ word'[size] = Append(word[cur], c) /\ depth'[size] = depth[cur] + 1
           /\ match'[size] = FALSE /\ failure'[size] = NoNode /\ message'[size] = NoSlot
           /\ gotos'[cur][c] = size
           /\ \A d \in Char : gotos'[size][d] = NoNode
           /\ \A n \in Nodes, d \in Char : <<n, d>> # <<cur, c>> => gotos'[n][d] = gotos[n][d]
<1> DEFINE c == anchors[entry][pos + 1]
<1>0. ACTypeOK /\ Entering /\ pos < Len(anchors[entry])
  BY DEF ACInv, createNewNode
<1>1. c \in Char /\ cur \in Nodes
  BY <1>0, EnterFacts
<1>2. size \in Nat \ {0} /\ Root \in Nodes
  BY <1>0, TypeFacts
<1> HIDE DEF c
<1>3. /\ gotos[cur][c] = NoNode /\ size' = size + 1
      /\ gotos' = Extended([gotos EXCEPT ![cur][c] = size], [d \in Char |-> NoNode])
      /\ depth' = Extended(depth, depth[cur] + 1)
      /\ word' = Extended(word, Append(word[cur], c))
      /\ match' = Extended(match, FALSE) /\ failure' = Extended(failure, NoNode)
      /\ message' = Extended(message, NoSlot) /\ slots' = Extended(slots, EmptySlots)
      /\ \E garbage \in FreshCounts : numMatches' = Extended(numMatches, garbage)
  BY DEF createNewNode, acGetNextNode, c
<1>4. Nodes' = Nodes \cup {size} /\ size \notin Nodes
  BY <1>2, <1>3 DEF Nodes
<1>5. \A n \in Nodes : n \in 0 .. size /\ n # size
  BY <1>2 DEF Nodes
<1>6. \A f, v : Extended(f, v)[size] = v /\ \A n \in Nodes : Extended(f, v)[n] = f[n]
  BY <1>2, <1>5 DEF Extended
<1>7. /\ \A n \in Nodes : /\ word'[n] = word[n] /\ depth'[n] = depth[n]
                          /\ match'[n] = match[n] /\ failure'[n] = failure[n]
                          /\ message'[n] = message[n] /\ slots'[n] = slots[n]
      /\ word'[size] = Append(word[cur], c) /\ depth'[size] = depth[cur] + 1
      /\ match'[size] = FALSE /\ failure'[size] = NoNode /\ message'[size] = NoSlot
  BY <1>3, <1>6
<1>8. \A n \in Nodes : numMatches'[n] = numMatches[n]
  BY <1>3, <1>6
<1> DEFINE h == [gotos EXCEPT ![cur][c] = size]
<1>9. gotos \in [Nodes -> [Char -> Nodes \cup {NoNode}]]
  BY <1>0 DEF ACTypeOK
<1>10. /\ h[cur][c] = size
       /\ \A n \in Nodes, d \in Char : <<n, d>> # <<cur, c>> => h[n][d] = gotos[n][d]
  BY <1>1, <1>9
<1> HIDE DEF h
<1>11. /\ \A n \in Nodes : gotos'[n] = h[n]
       /\ gotos'[size] = [d \in Char |-> NoNode]
  BY <1>3, <1>6 DEF h
<1>12. /\ gotos'[cur][c] = size /\ \A d \in Char : gotos'[size][d] = NoNode
       /\ \A n \in Nodes, d \in Char : <<n, d>> # <<cur, c>> => gotos'[n][d] = gotos[n][d]
  BY <1>1, <1>10, <1>11
<1> QED
  BY <1>1, <1>2, <1>3, <1>4, <1>7, <1>8, <1>12 DEF c

\* A new node keeps the tree a tree.
LEMMA CreateTree ==
    ASSUME ACInv, createNewNode
    PROVE  TreeInv'
<1> DEFINE c == anchors[entry][pos + 1]
<1>0. ACTypeOK /\ TreeInv
  BY DEF ACInv
<1>1. /\ c \in Char /\ cur \in Nodes /\ size \in Nat \ {0} /\ gotos[cur][c] = NoNode
      /\ Nodes' = Nodes \cup {size} /\ size \notin Nodes /\ Root \in Nodes
      /\ \A n \in Nodes : word'[n] = word[n] /\ depth'[n] = depth[n]
      /\ word'[size] = Append(word[cur], c) /\ depth'[size] = depth[cur] + 1
      /\ gotos'[cur][c] = size
      /\ \A d \in Char : gotos'[size][d] = NoNode
      /\ \A n \in Nodes, d \in Char : <<n, d>> # <<cur, c>> => gotos'[n][d] = gotos[n][d]
  BY NewNode
<1> HIDE DEF c
<1>2. \A n \in Nodes : word[n] \in Seq(Char) /\ depth[n] \in Nat
  BY <1>0, TypeFacts
<1>3. word'[Root] = <<>>
  BY <1>0, <1>1 DEF TreeInv
<1>4. \A n \in Nodes' : depth'[n] = Len(word'[n])
  <2>1. depth[cur] + 1 = Len(Append(word[cur], c))
    BY <1>0, <1>1, <1>2 DEF TreeInv
  <2> QED
    BY <1>0, <1>1, <2>1 DEF TreeInv
<1>5. ASSUME NEW n \in Nodes', NEW d \in Char, gotos'[n][d] # NoNode
      PROVE  gotos'[n][d] # Root /\ word'[gotos'[n][d]] = Append(word'[n], d)
  <2>1. CASE <<n, d>> = <<cur, c>>
    BY <1>1, <2>1
  <2>2. CASE <<n, d>> # <<cur, c>>
    <3>1. n \in Nodes /\ gotos[n][d] = gotos'[n][d]
      BY <1>1, <1>5, <2>2
    <3>2. gotos[n][d] \in Nodes
      BY <1>0, <1>5, <3>1, TypeFacts
    <3> DEFINE k == gotos[n][d]
    <3>3. k # NoNode /\ k \in Nodes /\ k # Root /\ word[k] = Append(word[n], d)
      BY <1>0, <1>5, <3>1, <3>2 DEF TreeInv
    <3>4. word'[k] = word[k] /\ word'[n] = word[n]
      BY <1>1, <3>1, <3>3
    <3> QED
      BY <3>1, <3>3, <3>4
  <2> QED
    BY <2>1, <2>2
<1>6. ASSUME NEW n \in Nodes, word[n] = Append(word[cur], c) PROVE FALSE
  <2> DEFINE u == word[cur]
  <2>1. u \in Seq(Char) /\ word[n] = Append(u, c)
    BY <1>1, <1>2, <1>6
  <2> HIDE DEF u
  <2>2. \A p \in Nodes : word[p] = u => gotos[p][c] = n
    BY <1>0, <1>1, <2>1, GotoOfWord
  <2>3. gotos[cur][c] = n
    BY <1>1, <2>2 DEF u
  <2> QED
    BY <1>0, <1>1, <2>3, TypeFacts
<1>7. ASSUME NEW m \in Nodes', NEW n \in Nodes', word'[m] = word'[n]
      PROVE  m = n
  BY <1>0, <1>1, <1>6, <1>7 DEF TreeInv
<1>8. ASSUME NEW m \in Nodes' \ {Root}
      PROVE  \E n \in Nodes', d \in Char : gotos'[n][d] = m
  <2>1. CASE m = size
    BY <1>1, <2>1
  <2>2. CASE m # size
    <3>1. m \in Nodes \ {Root}
      BY <1>1, <1>8, <2>2
    <3>2. PICK n \in Nodes, d \in Char : gotos[n][d] = m
      BY <1>0, <3>1 DEF TreeInv
    <3>3. gotos[n][d] # NoNode
      BY <1>0, <3>1, <3>2, TypeFacts
    <3>4. gotos'[n][d] = m
      BY <1>1, <3>2, <3>3
    <3> QED
      BY <1>1, <3>4
  <2> QED
    BY <2>1, <2>2
<1> QED
  BY <1>3, <1>4, <1>5, <1>7, <1>8, Root = Root' DEF TreeInv

\* What the other steps of enter change.
LEMMA WalkFacts ==
    ASSUME ACInv, Walk
    PROVE  /\ UNCHANGED <<anchors, pc, entry, size, gotos, depth, word, match, failure, message,
                          numMatches, slots>>
           /\ Nodes' = Nodes /\ pos' = pos + 1 /\ pos < Len(anchors[entry]) /\ Entering
           /\ cur' = gotos[cur][anchors[entry][pos + 1]] /\ cur' # NoNode
BY DEF Walk, Nodes, treeVars, matchVars, failVars, acGetNextNode

\* What SetMatch changes of the tree: the match of the node of the anchor.
LEMMA SetMatchFacts ==
    ASSUME ACInv, SetMatch
    PROVE  /\ UNCHANGED <<anchors, pc, size, gotos, depth, word, failure>>
           /\ Nodes' = Nodes /\ pos = Len(anchors[entry]) /\ Entering
           /\ entry' = entry + 1 /\ pos' = 0 /\ cur' = Root
           /\ match'[cur] /\ \A n \in Nodes : n # cur => match'[n] = match[n]
<1>1. match \in [Nodes -> BOOLEAN] /\ cur \in Nodes
  BY DEF ACInv, ACTypeOK
<1>2. match' = [match EXCEPT ![cur] = TRUE]
  BY DEF SetMatch
<1>3. match'[cur] /\ \A n \in Nodes : n # cur => match'[n] = match[n]
  BY <1>1, <1>2
<1> QED
  BY <1>3 DEF SetMatch, Nodes, treeVars, failVars

\* enter keeps the tree a tree.
LEMMA EnterTree ==
    ASSUME ACInv, enter
    PROVE  TreeInv'
<1>1. CASE createNewNode
  BY <1>1, CreateTree
<1>2. CASE Walk \/ SetMatch
  <2>1. UNCHANGED <<size, gotos, depth, word>> /\ Nodes' = Nodes
    BY <1>2, WalkFacts, SetMatchFacts
  <2> QED
    BY <2>1 DEF ACInv, TreeInv
<1> QED
  BY <1>1, <1>2 DEF enter

\* enter has entered the anchors before entry.
LEMMA EnterEnter ==
    ASSUME ACInv, enter
    PROVE  EnterInv'
<1>0. ACTypeOK /\ TreeInv /\ EnterInv
  BY DEF ACInv
<1>1. Entering /\ pc = "enter"
  BY DEF enter, Walk, createNewNode, SetMatch, Entering
<1> DEFINE w == anchors[entry]
<1>2. /\ w \in Seq(Char) /\ w # <<>> /\ entry \in Nat \ {0} /\ entry <= Len(anchors)
      /\ pos \in Nat /\ pos <= Len(w) /\ Len(w) \in Nat
      /\ word[cur] = SubSeq(w, 1, pos) /\ cur \in Nodes /\ word[cur] \in Seq(Char)
      /\ pos < Len(w) => w[pos + 1] \in Char /\ Append(word[cur], w[pos + 1]) = SubSeq(w, 1, pos + 1)
      /\ pos = Len(w) => word[cur] = w
  BY <1>1, EnterFacts
<1>3. CASE Walk
  <2>1. /\ UNCHANGED <<anchors, pc, entry, size, gotos, depth, word, match, failure>>
        /\ Nodes' = Nodes /\ pos' = pos + 1 /\ pos < Len(w)
        /\ cur' = gotos[cur][w[pos + 1]] /\ cur' # NoNode
    BY <1>3, WalkFacts
  <2>2. word[cur'] = Append(word[cur], w[pos + 1])
    BY <1>0, <1>2, <2>1 DEF TreeInv
  <2>3. Entering' => pos' <= Len(anchors'[entry']) /\ word'[cur'] = SubSeq(anchors'[entry'], 1, pos')
    BY <1>2, <2>1, <2>2
  <2> HIDE DEF w
  <2> QED
    BY <1>0, <1>1, <2>1, <2>3 DEF EnterInv
<1>4. CASE createNewNode
  <2>1. /\ UNCHANGED <<anchors, pc, entry>> /\ pos' = pos + 1 /\ pos < Len(w) /\ cur' = size
    BY <1>4 DEF createNewNode
  <2>2. /\ Nodes' = Nodes \cup {size} /\ size \notin Nodes
        /\ \A n \in Nodes : word'[n] = word[n] /\ match'[n] = match[n]
        /\ word'[size] = Append(word[cur], w[pos + 1])
    BY <1>4, NewNode
  <2>3. word'[cur'] = SubSeq(w, 1, pos') /\ pos' <= Len(w) /\ pos' \in 0 .. Len(w)
    BY <1>2, <2>1, <2>2
  <2>4. Begins(word'[size], w)
    BY <1>2, <2>1, <2>3, Beginnings
  <2> HIDE DEF w
  <2>5. ASSUME NEW n \in Nodes' \ {Root}
        PROVE  \E e \in 1 .. entry : e <= Len(anchors) /\ anchors[e] # <<>> /\ Begins(word'[n], anchors[e])
    <3>1. CASE n = size
      <4>1. entry \in 1 .. entry
        BY <1>2
      <4> QED
        BY <1>2, <2>4, <3>1, <4>1 DEF w
    <3>2. CASE n # size
      BY <1>0, <2>2, <3>2 DEF EnterInv
    <3> QED
      BY <3>1, <3>2
  <2>6. \A e \in 1 .. entry - 1 : \E n \in Nodes' : word'[n] = anchors[e] /\ match'[n]
    BY <1>0, <2>2 DEF EnterInv
  <2>7. \A e \in 1 .. entry - 1 : e <= Len(anchors) /\ anchors[e] # <<>>
    BY <1>0 DEF EnterInv
  <2>8. Entering' => pos' <= Len(anchors'[entry']) /\ word'[cur'] = SubSeq(anchors'[entry'], 1, pos')
    BY <2>1, <2>3 DEF w
  <2> QED
    BY <1>1, <2>1, <2>5, <2>6, <2>7, <2>8, Root' = Root DEF EnterInv
<1>5. CASE SetMatch
  <2>1. /\ UNCHANGED <<anchors, pc, size, gotos, depth, word, failure>>
        /\ Nodes' = Nodes /\ pos = Len(w)
        /\ entry' = entry + 1 /\ pos' = 0 /\ cur' = Root
        /\ match'[cur] /\ \A n \in Nodes : n # cur => match'[n] = match[n]
    BY <1>5, SetMatchFacts
  <2>2. word[cur] = w
    BY <1>2, <2>1
  <2>3. Entering' => pos' <= Len(anchors'[entry']) /\ word'[cur'] = SubSeq(anchors'[entry'], 1, pos')
    <3> SUFFICES ASSUME Entering' PROVE 0 <= Len(anchors[entry + 1]) /\ <<>> = SubSeq(anchors[entry + 1], 1, 0)
      BY <1>0, <2>1 DEF TreeInv
    <3>1. entry + 1 \in Nat \ {0} /\ entry + 1 <= Len(anchors)
      BY <1>2, <2>1 DEF Entering
    <3>2. anchors[entry + 1] \in Seq(Char)
      BY <1>0, <3>1, AnchorsAreWords
    <3> QED
      BY <3>2, Beginnings, WordFacts
  <2> HIDE DEF w
  <2>4. \A e \in 1 .. entry : e \in 1 .. entry - 1 \/ e = entry
    BY <1>2
  <2>5. entry' - 1 = entry
    BY <1>2, <2>1
  <2>6. \A e \in 1 .. entry : e <= Len(anchors) /\ anchors[e] # <<>>
    BY <1>0, <1>2, <2>4 DEF EnterInv, w
  <2>7. ASSUME NEW e \in 1 .. entry PROVE \E n \in Nodes : word[n] = anchors[e] /\ match'[n]
    <3>1. CASE e = entry
      BY <1>2, <2>1, <2>2, <3>1 DEF w
    <3>2. CASE e # entry
      BY <1>0, <2>1, <2>4, <3>2 DEF EnterInv
    <3> QED
      BY <3>1, <3>2
  <2>8. \A e \in 1 .. entry : e \in 1 .. entry'
    BY <1>2, <2>1
  <2>9. \A n \in Nodes \ {Root} : \E e \in 1 .. entry' :
          e <= Len(anchors) /\ anchors[e] # <<>> /\ Begins(word[n], anchors[e])
    BY <1>0, <2>8 DEF EnterInv
  <2> QED
    BY <1>1, <2>1, <2>3, <2>5, <2>6, <2>7, <2>9 DEF EnterInv
<1> QED
  BY <1>3, <1>4, <1>5 DEF enter

\* Where a node matches after enter an anchor ends.
LEMMA EnterMatch ==
    ASSUME ACInv, enter
    PROVE  MatchInv'
<1>0. ACTypeOK /\ MatchInv
  BY DEF ACInv
<1>1. Entering /\ entry \in Nat \ {0}
  BY <1>0 DEF enter, Walk, createNewNode, SetMatch, ACTypeOK
<1>2. CASE Walk
  BY <1>0, <1>2, WalkFacts DEF MatchInv
<1>3. CASE createNewNode
  <2>1. UNCHANGED <<anchors, entry>>
    BY <1>3 DEF createNewNode
  <2>2. /\ Nodes' = Nodes \cup {size}
        /\ \A n \in Nodes : word'[n] = word[n] /\ match'[n] = match[n]
        /\ match'[size] = FALSE
    BY <1>3, NewNode
  <2> QED
    BY <1>0, <2>1, <2>2 DEF MatchInv
<1>4. CASE SetMatch
  <2>1. /\ UNCHANGED <<anchors, word>> /\ Nodes' = Nodes /\ pos = Len(anchors[entry])
        /\ entry' = entry + 1
        /\ \A n \in Nodes : n # cur => match'[n] = match[n]
    BY <1>4, SetMatchFacts
  <2>2. word[cur] = anchors[entry] /\ word[cur] \in Seq(Char)
    BY <1>1, <2>1, EnterFacts
  <2>3. Ends(anchors[entry], word[cur])
    BY <2>2, EndsOrder
  <2>4. entry \in 1 .. entry' - 1 /\ \A e \in 1 .. entry - 1 : e \in 1 .. entry' - 1
    BY <1>1, <2>1
  <2> QED
    BY <1>0, <2>1, <2>3, <2>4 DEF MatchInv
<1> QED
  BY <1>2, <1>3, <1>4 DEF enter

\* enter keeps the invariant.
LEMMA EnterInvariant ==
    ASSUME ACInv, enter
    PROVE  ACInv'
<1>1. pc = "enter" /\ pc' = "enter"
  BY DEF enter, Walk, createNewNode, SetMatch, Entering
<1>2. \A n \in Nodes : failure[n] = NoNode
  BY <1>1 DEF ACInv, FailInv
<1>3. \A n \in Nodes' : failure'[n] = NoNode
  <2>1. CASE createNewNode
    BY <1>2, <2>1, NewNode
  <2>2. CASE Walk \/ SetMatch
    BY <1>2, <2>2, WalkFacts, SetMatchFacts
  <2> QED
    BY <2>1, <2>2 DEF enter
<1>4. FailInv'
  BY <1>1, <1>3 DEF FailInv, LinkOK, Late, NoNode
<1>5. QueueInv' /\ ParentInv' /\ ClimbInv'
  BY <1>1 DEF QueueInv, ParentInv, ClimbInv, Linking
<1> QED
  BY <1>4, <1>5, EnterType, EnterTree, EnterEnter, EnterMatch DEF ACInv

-----------------------------------------------------------------------------
(* Constructing the failure pointers.                                      *)

\* constructFailures leaves the tree and the anchors alone.
LEMMA FailuresFrame ==
    ASSUME ACInv, constructFailures
    PROVE  /\ UNCHANGED <<anchors, entry, size, gotos, depth, word, match>> /\ Nodes' = Nodes
           /\ \A n : Chars(n)' = Chars(n)
           /\ ACTypeOK' /\ TreeInv' /\ EnterInv' /\ MatchInv' /\ pc' # "enter"
<1>1. UNCHANGED <<anchors, entry, size, gotos, depth, word, match>>
  BY DEF constructFailures, StartFailures, Dequeue, NextChild, Climb, SetFailure,
         EndChildren, EndFailures, treeVars, matchVars
<1>2. Nodes' = Nodes /\ \A n : Chars(n)' = Chars(n)
  BY <1>1 DEF Nodes, Chars
<1>3. pc' # "enter" /\ (pc = "enter" => ~ Entering)
  BY DEF constructFailures, StartFailures, Dequeue, NextChild, Climb, SetFailure,
         EndChildren, EndFailures
<1>4. TreeInv' /\ MatchInv'
  BY <1>1, <1>2 DEF ACInv, TreeInv, MatchInv
<1>5. EnterInv'
  <2>1. EnterInv /\ pc \in {"enter", "dequeue", "child", "climb", "avoid", "descend", "built", "fault"}
    BY DEF ACInv, ACTypeOK
  <2>2. ~ (entry <= Len(anchors) /\ anchors[entry] # <<>>)
    BY <1>3, <2>1 DEF EnterInv, Entering
  <2>3. ~ Entering'
    BY <1>3 DEF Entering
  <2> QED
    BY <1>1, <1>2, <2>1, <2>2, <2>3 DEF EnterInv
<1> QED
  BY <1>1, <1>2, <1>3, <1>4, <1>5, FailuresType

\* The words of two nodes one of which is the child of the other.
LEMMA ChildFacts ==
    ASSUME ACTypeOK, TreeInv, NEW n \in Nodes, NEW c \in Chars(n)
    PROVE  /\ c \in Char /\ gotos[n][c] \in Nodes /\ gotos[n][c] # Root /\ gotos[n][c] # NoNode
           /\ word[gotos[n][c]] = Append(word[n], c)
           /\ depth[gotos[n][c]] = depth[n] + 1
<1>1. c \in Char /\ gotos[n][c] # NoNode /\ gotos[n][c] \in Nodes
  BY TypeFacts DEF Chars
<1>2. word[gotos[n][c]] = Append(word[n], c) /\ gotos[n][c] # Root
  BY <1>1 DEF TreeInv
<1>3. depth[gotos[n][c]] = Len(Append(word[n], c)) /\ depth[n] = Len(word[n]) /\ word[n] \in Seq(Char)
  BY <1>1, <1>2, TypeFacts DEF TreeInv
<1> QED
  BY <1>1, <1>2, <1>3

\* The root is the node of the empty word.
LEMMA RootFacts ==
    ASSUME ACTypeOK, TreeInv
    PROVE  /\ Root \in Nodes /\ word[Root] = <<>> /\ depth[Root] = 0
           /\ \A n \in Nodes : depth[n] = 0 => n = Root
           /\ \A n \in Nodes : Begins(word[Root], word[n]) /\ Ends(word[Root], word[n])
<1>1. Root \in Nodes /\ word[Root] = <<>>
  BY TypeFacts DEF TreeInv
<1>2. depth[Root] = 0
  BY <1>1 DEF TreeInv
<1>3. ASSUME NEW n \in Nodes, depth[n] = 0 PROVE n = Root
  <2>1. word[n] \in Seq(Char) /\ Len(word[n]) = 0
    BY <1>3, TypeFacts DEF TreeInv
  <2>2. word[n] = <<>>
    BY <2>1
  <2> QED
    BY <1>1, <2>2 DEF TreeInv
<1>4. ASSUME NEW n \in Nodes PROVE Begins(word[Root], word[n]) /\ Ends(word[Root], word[n])
  <2>1. word[n] \in Seq(Char)
    BY TypeFacts
  <2> QED
    BY <1>1, <2>1, EndsOrder, Len(word[n]) \in Nat DEF Begins
<1> QED
  BY <1>1, <1>2, <1>3, <1>4

\* The failure pointers of the first level are right, and every deeper node is
\* ahead of the queue with that level.
LEMMA StartFailuresInvariant ==
    ASSUME ACInv, StartFailures
    PROVE  ACInv'
<1>0. ACTypeOK /\ TreeInv /\ FailInv
  BY DEF ACInv
<1>1. /\ UNCHANGED <<anchors, entry, size, gotos, depth, word, match>> /\ Nodes' = Nodes
      /\ \A n : Chars(n)' = Chars(n)
      /\ ACTypeOK' /\ TreeInv' /\ EnterInv' /\ MatchInv'
  BY FailuresFrame DEF constructFailures
<1>2. /\ pc = "enter" /\ pc' = "dequeue" /\ queue' = ChildrenInOrder(Root)
      /\ failure' = [n \in Nodes |-> IF n = Root \/ \E c \in Char : gotos[Root][c] = n
                                     THEN Root ELSE failure[n]]
  BY DEF StartFailures
<1>3. /\ Root \in Nodes /\ Root # NoNode /\ word[Root] = <<>> /\ depth[Root] = 0
      /\ \A n \in Nodes : Begins(word[Root], word[n]) /\ Ends(word[Root], word[n])
  BY <1>0, RootFacts, TypeFacts
<1>4. \A n \in Nodes : failure'[n] = IF n = Root \/ \E c \in Chars(Root) : gotos[Root][c] = n
                                     THEN Root ELSE NoNode
  <2>1. ASSUME NEW n \in Nodes
        PROVE  (\E c \in Char : gotos[Root][c] = n) <=> \E c \in Chars(Root) : gotos[Root][c] = n
    BY <1>0, TypeFacts DEF Chars
  <2> QED
    BY <1>0, <1>2, <2>1 DEF FailInv
<1>5. \A c \in Chars(Root) : gotos[Root][c] \in Nodes \ {Root} /\ depth[gotos[Root][c]] = 1
                             /\ word[gotos[Root][c]] = Append(word[Root], c)
  BY <1>0, <1>3, ChildFacts
<1>6. FailInv'
  <2>1. ASSUME NEW n \in Nodes \ {Root}, failure'[n] # NoNode
        PROVE  /\ Ends(word[failure'[n]], word[n]) /\ depth[failure'[n]] < depth[n]
               /\ \A m \in Nodes : ~ (depth[failure'[n]] < depth[m] /\ depth[m] < depth[n])
    <3>1. failure'[n] = Root /\ depth[n] = 1
      BY <1>4, <1>5, <2>1
    <3> QED
      BY <1>0, <1>3, <3>1, TypeFacts
  <2> QED
    BY <1>1, <1>2, <1>3, <1>4, <2>1 DEF FailInv, LinkOK, Late
<1>7. /\ queue' \in Seq(Nodes \ {Root})
      /\ \A i \in DOMAIN queue' : \E c \in Chars(Root) : gotos[Root][c] = queue'[i]
      /\ \A c \in Chars(Root) : \E i \in DOMAIN queue' : queue'[i] = gotos[Root][c]
  <2>1. /\ queue' \in Seq(Nodes \ {Root})
        /\ \A i \in DOMAIN queue' : \E c \in Char : gotos[Root][c] = queue'[i]
        /\ \A c \in Chars(Root) : \E i \in DOMAIN queue' : queue'[i] = gotos[Root][c]
    <3> DEFINE q == ChildrenInOrder(Root)
    <3>1. /\ q \in Seq(Nodes \ {Root})
          /\ \A i \in DOMAIN q : \E c \in Char : gotos[Root][c] = q[i]
          /\ \A c \in Chars(Root) : \E i \in DOMAIN q : q[i] = gotos[Root][c]
      BY <1>0, <1>3, ChildrenOrder
    <3>2. queue' = q
      BY <1>2
    <3> HIDE DEF q
    <3> QED
      BY <3>1, <3>2
  <2>2. \A i \in DOMAIN queue' : queue'[i] \in Nodes
    BY <2>1, WordFacts
  <2>3. \A i \in DOMAIN queue' : \E c \in Chars(Root) : gotos[Root][c] = queue'[i]
    BY <1>0, <2>1, <2>2, TypeFacts DEF Chars
  <2> QED
    BY <2>1, <2>3
<1>8. \A i \in DOMAIN queue' : queue'[i] \in Nodes \ {Root} /\ depth[queue'[i]] = 1 /\ failure'[queue'[i]] # NoNode
  BY <1>3, <1>4, <1>5, <1>7
<1>9. ASSUME NEW n \in Nodes, failure'[n] = NoNode
      PROVE  \E i \in DOMAIN queue' : queue'[i] # n /\ Begins(word[queue'[i]], word[n])
  <2>1. n # Root
    BY <1>3, <1>4, <1>9
  <2>2. PICK c \in Chars(Root) : Begins(Append(word[Root], c), word[n])
    BY <1>0, <1>3, <2>1, BelowNode
  <2>3. PICK i \in DOMAIN queue' : queue'[i] = gotos[Root][c]
    BY <1>7
  <2> QED
    BY <1>5, <1>8, <1>9, <2>2, <2>3
<1>10. QueueInv'
  <2>1. \A i, j \in DOMAIN queue' :
          depth[queue'[i]] <= depth[queue'[j]] /\ depth[queue'[j]] <= depth[queue'[i]] + 1
    BY <1>8
  <2>2. \A i \in DOMAIN queue' : queue'[i] # Root /\ failure'[queue'[i]] # NoNode
    BY <1>8
  <2> QED
    BY <1>1, <1>2, <1>9, <2>1, <2>2 DEF QueueInv, Ahead
<1>11. ParentInv' /\ ClimbInv'
  BY <1>2 DEF ParentInv, ClimbInv
<1> QED
  BY <1>1, <1>6, <1>10, <1>11 DEF ACInv

\* What was ahead of the queue is ahead of the characters of the node taken off.
LEMMA DequeueInvariant ==
    ASSUME ACInv, Dequeue
    PROVE  ACInv'
<1>0. ACTypeOK /\ TreeInv /\ FailInv /\ QueueInv
  BY DEF ACInv
<1>1. /\ UNCHANGED <<anchors, entry, size, gotos, depth, word, match>> /\ Nodes' = Nodes
      /\ \A n : Chars(n)' = Chars(n)
      /\ ACTypeOK' /\ TreeInv' /\ EnterInv' /\ MatchInv'
  BY FailuresFrame DEF constructFailures
<1>2. /\ pc = "dequeue" /\ pc' = "child" /\ queue # <<>> /\ failure' = failure
      /\ parent' = Head(queue) /\ queue' = Tail(queue) /\ todo' = CharsInOrder(Head(queue))
  BY DEF Dequeue, failVars
<1>3. queue \in Seq(Nodes)
  BY <1>0 DEF ACTypeOK
<1>4. /\ Len(queue) \in Nat \ {0} /\ parent' = queue[1] /\ DOMAIN queue = 1 .. Len(queue)
      /\ 1 \in DOMAIN queue /\ DOMAIN queue' = 1 .. Len(queue) - 1
      /\ \A i \in DOMAIN queue' : i + 1 \in DOMAIN queue /\ queue'[i] = queue[i + 1]
      /\ \A i \in DOMAIN queue : i # 1 => i - 1 \in DOMAIN queue' /\ queue'[i - 1] = queue[i]
      /\ \A i \in DOMAIN queue : queue[i] \in Nodes
  BY <1>2, <1>3
<1>5. /\ \A i \in DOMAIN queue : queue[i] # Root /\ failure[queue[i]] # NoNode
      /\ \A i, j \in DOMAIN queue : i <= j =>
            depth[queue[i]] <= depth[queue[j]] /\ depth[queue[j]] <= depth[queue[i]] + 1
      /\ \A n \in Nodes : failure[n] = NoNode =>
            \E i \in DOMAIN queue : queue[i] # n /\ Begins(word[queue[i]], word[n])
  BY <1>0, <1>2 DEF QueueInv, Ahead, Linking
<1>6. /\ todo' \in Seq(Chars(parent'))
      /\ \A c \in Chars(parent') : \E i \in DOMAIN todo' : todo'[i] = c
  BY <1>0, <1>2, <1>4, CharsOrder
<1>7. FailInv'
  BY <1>0, <1>1, <1>2 DEF FailInv, LinkOK, Late
<1>8. /\ \A i \in DOMAIN queue' : queue'[i] # Root /\ failure[queue'[i]] # NoNode
      /\ \A i \in DOMAIN queue' : depth[parent'] <= depth[queue'[i]] /\ depth[queue'[i]] <= depth[parent'] + 1
  <2>1. \A i \in DOMAIN queue' : i + 1 \in DOMAIN queue /\ 1 <= i + 1
    BY <1>4
  <2> QED
    BY <1>4, <1>5, <2>1
<1>9. ASSUME NEW i \in DOMAIN queue', NEW j \in DOMAIN queue', i <= j
      PROVE  depth[queue'[i]] <= depth[queue'[j]] /\ depth[queue'[j]] <= depth[queue'[i]] + 1
  <2>1. i + 1 \in DOMAIN queue /\ j + 1 \in DOMAIN queue /\ i + 1 <= j + 1
    BY <1>4, <1>9
  <2> QED
    BY <1>4, <1>5, <2>1
<1>10. ASSUME NEW n \in Nodes, failure[n] = NoNode
       PROVE  \/ \E i \in DOMAIN queue' : queue'[i] # n /\ Begins(word[queue'[i]], word[n])
              \/ \E i \in DOMAIN todo' : Begins(Append(word[parent'], todo'[i]), word[n])
  <2>1. PICK i \in DOMAIN queue : queue[i] # n /\ Begins(word[queue[i]], word[n])
    BY <1>5, <1>10
  <2>2. CASE i = 1
    <3>1. PICK c \in Chars(parent') : Begins(Append(word[parent'], c), word[n])
      BY <1>0, <1>4, <2>1, <2>2, BelowNode
    <3> QED
      BY <1>6, <3>1
  <2>3. CASE i # 1
    BY <1>4, <2>1, <2>3
  <2> QED
    BY <2>2, <2>3
<1>11. QueueInv'
  BY <1>1, <1>2, <1>8, <1>9, <1>10 DEF QueueInv, Ahead
<1>12. parent' # Root /\ failure[parent'] # NoNode
  BY <1>4, <1>5
<1>13. todo' \in Seq(Chars(parent)')
  BY <1>1, <1>6 DEF Chars
<1>14. ParentInv'
  BY <1>1, <1>2, <1>8, <1>12, <1>13 DEF ParentInv
<1>15. ClimbInv'
  BY <1>2 DEF ClimbInv
<1> QED
  BY <1>1, <1>7, <1>11, <1>14, <1>15 DEF ACInv

\* The search for the failure node of a child begins above every candidate.
LEMMA NextChildInvariant ==
    ASSUME ACInv, NextChild
    PROVE  ACInv'
<1>0. ACTypeOK /\ TreeInv /\ FailInv /\ QueueInv /\ ParentInv
  BY DEF ACInv
<1>1. /\ UNCHANGED <<anchors, entry, size, gotos, depth, word, match>> /\ Nodes' = Nodes
      /\ \A n : Chars(n)' = Chars(n)
      /\ ACTypeOK' /\ TreeInv' /\ EnterInv' /\ MatchInv'
  BY FailuresFrame DEF constructFailures
<1> DEFINE c == Head(todo)
           k == gotos[parent][c]
<1>2. /\ pc = "child" /\ pc' = "climb" /\ todo # <<>> /\ failure' = failure /\ parent' = parent
      /\ char' = c /\ todo' = Tail(todo) /\ queue' = Append(queue, k) /\ cur' = failure[parent]
  BY DEF NextChild, failVars, acGetNextNode, SearchStart
<1>3. /\ parent \in Nodes /\ parent # Root /\ failure[parent] # NoNode /\ todo \in Seq(Chars(parent))
      /\ queue \in Seq(Nodes)
      /\ \A i \in DOMAIN queue : depth[parent] <= depth[queue[i]] /\ depth[queue[i]] <= depth[parent] + 1
  BY <1>0, <1>2 DEF ParentInv, ACTypeOK
<1>4. /\ 1 \in DOMAIN todo /\ c = todo[1] /\ c \in Chars(parent)
      /\ todo' \in Seq(Chars(parent))
      /\ \A i \in DOMAIN todo : i # 1 => i - 1 \in DOMAIN todo' /\ todo'[i - 1] = todo[i]
  BY <1>2, <1>3
<1>5. /\ c \in Char /\ k \in Nodes /\ k # Root
      /\ word[k] = Append(word[parent], c) /\ depth[k] = depth[parent] + 1
  BY <1>0, <1>3, <1>4, ChildFacts
<1> HIDE DEF c, k
<1> DEFINE l == Len(queue) + 1
<1>6. /\ DOMAIN queue = 1 .. Len(queue) /\ Len(queue) \in Nat /\ DOMAIN queue' = 1 .. l
      /\ l \in DOMAIN queue' /\ queue'[l] = k
      /\ \A i \in DOMAIN queue' : i # l => i \in DOMAIN queue
      /\ \A i \in DOMAIN queue : i \in DOMAIN queue' /\ i < l /\ queue'[i] = queue[i] /\ queue[i] \in Nodes
  BY <1>2, <1>3, <1>5
<1>7. /\ \A i \in DOMAIN queue : queue[i] # Root /\ failure[queue[i]] # NoNode
      /\ \A i, j \in DOMAIN queue : i <= j =>
            depth[queue[i]] <= depth[queue[j]] /\ depth[queue[j]] <= depth[queue[i]] + 1
      /\ \A n \in Nodes : failure[n] = NoNode =>
            \/ \E i \in DOMAIN queue : queue[i] # n /\ Begins(word[queue[i]], word[n])
            \/ \E i \in DOMAIN todo : Begins(Append(word[parent], todo[i]), word[n])
  BY <1>0, <1>2 DEF QueueInv, Ahead, Linking
<1> HIDE DEF l
<1>8. FailInv'
  BY <1>0, <1>1, <1>2 DEF FailInv, LinkOK, Late
<1>9. \A i \in DOMAIN queue' : queue'[i] # Root /\ (failure[queue'[i]] # NoNode \/ queue'[i] = k)
  BY <1>5, <1>6, <1>7
<1>10. depth[parent] \in Nat /\ \A i \in DOMAIN queue : depth[queue[i]] \in Nat
  BY <1>0, <1>3, <1>6, TypeFacts
<1>11. \A i \in DOMAIN queue' : depth[parent] <= depth[queue'[i]] /\ depth[queue'[i]] <= depth[parent] + 1
  BY <1>3, <1>5, <1>6, <1>10
<1>12. ASSUME NEW i \in DOMAIN queue', NEW j \in DOMAIN queue', i <= j
       PROVE  depth[queue'[i]] <= depth[queue'[j]] /\ depth[queue'[j]] <= depth[queue'[i]] + 1
  <2>1. CASE j = l
    <3>1. depth[queue'[j]] = depth[parent] + 1
      BY <1>5, <1>6, <2>1
    <3>2. depth[queue'[i]] \in Nat
      BY <1>5, <1>6, <1>10
    <3> QED
      BY <1>10, <1>11, <3>1, <3>2
  <2>2. CASE j # l
    <3>1. j \in DOMAIN queue /\ j < l /\ l \in Nat /\ i \in Nat /\ j \in Nat
      BY <1>6, <2>2 DEF l
    <3>2. i # l
      BY <1>12, <3>1
    <3>3. i \in DOMAIN queue
      BY <1>6, <3>2
    <3> QED
      BY <1>6, <1>7, <1>12, <3>1, <3>3
  <2> QED
    BY <2>1, <2>2
<1>13. ASSUME NEW n \in Nodes, failure[n] = NoNode
       PROVE  \/ \E i \in DOMAIN queue' : queue'[i] # n /\ Begins(word[queue'[i]], word[n])
              \/ \E i \in DOMAIN todo' : Begins(Append(word[parent], todo'[i]), word[n])
              \/ n = k
  <2>1. ASSUME NEW i \in DOMAIN queue, queue[i] # n /\ Begins(word[queue[i]], word[n])
        PROVE  \E j \in DOMAIN queue' : queue'[j] # n /\ Begins(word[queue'[j]], word[n])
    BY <1>6, <2>1
  <2>2. ASSUME NEW i \in DOMAIN todo, Begins(Append(word[parent], todo[i]), word[n]), n # k
        PROVE  \/ \E j \in DOMAIN queue' : queue'[j] # n /\ Begins(word[queue'[j]], word[n])
               \/ \E j \in DOMAIN todo' : Begins(Append(word[parent], todo'[j]), word[n])
    <3>1. CASE i = 1
      BY <1>4, <1>5, <1>6, <2>2, <3>1
    <3>2. CASE i # 1
      BY <1>4, <2>2, <3>2
    <3> QED
      BY <3>1, <3>2
  <2> QED
    BY <1>7, <1>13, <2>1, <2>2
<1>14. QueueInv'
  BY <1>1, <1>2, <1>9, <1>12, <1>13 DEF QueueInv, Ahead, k
<1>15. ParentInv'
  <2>1. todo' \in Seq(Chars(parent)')
    BY <1>1, <1>2, <1>4 DEF Chars
  <2> QED
    BY <1>1, <1>2, <1>3, <1>11, <2>1 DEF ParentInv
<1>16. ClimbInv'
  <2>1. char' \in Chars(parent)'
    BY <1>1, <1>2, <1>4 DEF Chars
  <2>2. /\ Ends(word[failure[parent]], word[parent]) /\ depth[failure[parent]] < depth[parent]
        /\ \A m \in Nodes : ~ (/\ Ends(word[m], word[parent])
                               /\ depth[failure[parent]] < depth[m] /\ depth[m] < depth[parent])
    BY <1>0, <1>2, <1>3 DEF FailInv, LinkOK, Late
  <2> QED
    BY <1>1, <1>2, <2>1, <2>2 DEF ClimbInv
<1> QED
  BY <1>1, <1>8, <1>14, <1>15, <1>16 DEF ACInv

\* The search passes a node that has no goto, and the longest suffix behind it
\* is its failure node.
LEMMA ClimbInvariant ==
    ASSUME ACInv, Climb
    PROVE  ACInv'
<1>0. ACTypeOK /\ TreeInv /\ FailInv /\ QueueInv /\ ParentInv /\ ClimbInv
  BY DEF ACInv
<1>1. /\ UNCHANGED <<anchors, entry, size, gotos, depth, word, match>> /\ Nodes' = Nodes
      /\ \A n : Chars(n)' = Chars(n)
      /\ ACTypeOK' /\ TreeInv' /\ EnterInv' /\ MatchInv'
  BY FailuresFrame DEF constructFailures
<1>2. /\ pc = "climb" /\ cur # Root /\ gotos[cur][char] = NoNode /\ cur' = failure[cur]
      /\ UNCHANGED <<pc, failure, queue, parent, todo, char>>
  BY DEF Climb, SearchOver, acGetNextNode, failVars, bfsVars
<1>3. /\ cur \in Nodes /\ parent \in Nodes /\ char \in Chars(parent)
      /\ Ends(word[cur], word[parent]) /\ depth[cur] < depth[parent]
      /\ \A m \in Nodes :
            Ends(word[m], word[parent]) /\ depth[cur] < depth[m] /\ depth[m] < depth[parent]
            => gotos[m][char] = NoNode
  BY <1>0, <1>2 DEF ClimbInv, ACTypeOK
<1>4. failure[cur] # NoNode /\ failure[cur] \in Nodes
  BY <1>0, <1>2, <1>3, LinkedAbove, TypeFacts
<1>5. /\ Ends(word[failure[cur]], word[cur]) /\ depth[failure[cur]] < depth[cur]
      /\ \A m \in Nodes : ~ (/\ Ends(word[m], word[cur])
                             /\ depth[failure[cur]] < depth[m] /\ depth[m] < depth[cur])
  BY <1>0, <1>2, <1>3, <1>4 DEF FailInv, LinkOK, Late
<1>6. /\ \A m \in Nodes : word[m] \in Seq(Char) /\ depth[m] \in Nat /\ depth[m] = Len(word[m])
      /\ \A m, n \in Nodes : word[m] = word[n] => m = n
  BY <1>0, TypeFacts DEF TreeInv
<1>7. Ends(word[failure[cur]], word[parent]) /\ depth[failure[cur]] < depth[parent]
  BY <1>3, <1>4, <1>5, <1>6, EndsOrder
<1>8. ASSUME NEW m \in Nodes, Ends(word[m], word[parent]),
             depth[failure[cur]] < depth[m], depth[m] < depth[parent]
      PROVE  gotos[m][char] = NoNode
  <2>1. CASE depth[m] > depth[cur]
    BY <1>3, <1>6, <1>8, <2>1
  <2>2. CASE depth[m] <= depth[cur]
    <3>1. Ends(word[m], word[cur])
      BY <1>3, <1>6, <1>8, <2>2, EndsOrder
    <3>2. depth[m] = depth[cur]
      BY <1>3, <1>5, <1>6, <1>8, <2>2, <3>1
    <3>3. m = cur
      BY <1>3, <1>6, <1>8, <3>2, EndsOrder
    <3> QED
      BY <1>2, <3>3
  <2> QED
    BY <1>3, <1>6, <2>1, <2>2
<1>9. FailInv' /\ QueueInv'
  BY <1>0, <1>1, <1>2 DEF FailInv, LinkOK, Late, QueueInv, Ahead, Linking
<1>10. ParentInv' /\ ClimbInv'
  BY <1>0, <1>1, <1>2, <1>3, <1>7, <1>8 DEF ParentInv, ClimbInv
<1> QED
  BY <1>1, <1>9, <1>10 DEF ACInv

\* The node where the search ends is the longest proper suffix of the child.
LEMMA SetFailureInvariant ==
    ASSUME ACInv, SetFailure
    PROVE  ACInv'
<1>0. ACTypeOK /\ TreeInv /\ FailInv /\ QueueInv /\ ParentInv /\ ClimbInv
  BY DEF ACInv
<1>1. /\ UNCHANGED <<anchors, entry, size, gotos, depth, word, match>> /\ Nodes' = Nodes
      /\ \A n : Chars(n)' = Chars(n)
      /\ ACTypeOK' /\ TreeInv' /\ EnterInv' /\ MatchInv'
  BY FailuresFrame DEF constructFailures
<1> DEFINE s == gotos[parent][char]
           f == FailureFound
<1>2. /\ pc = "climb" /\ pc' = "child" /\ (cur = Root \/ gotos[cur][char] # NoNode)
      /\ failure' = [failure EXCEPT ![s] = f]
      /\ UNCHANGED <<cur, queue, parent, todo, char>>
  BY DEF SetFailure, SearchOver, acGetNextNode, bfsVars
<1>3. /\ cur \in Nodes /\ parent \in Nodes /\ char \in Chars(parent)
      /\ failure \in [Nodes -> Nodes \cup {NoNode}]
  BY <1>0, <1>2 DEF ClimbInv, ACTypeOK
<1>4. /\ Ends(word[cur], word[parent]) /\ depth[cur] < depth[parent]
      /\ \A m \in Nodes :
            Ends(word[m], word[parent]) /\ depth[cur] < depth[m] /\ depth[m] < depth[parent]
            => gotos[m][char] = NoNode
  BY <1>0, <1>2 DEF ClimbInv
<1>5. /\ char \in Char /\ s \in Nodes /\ s # Root
      /\ word[s] = Append(word[parent], char) /\ depth[s] = depth[parent] + 1
  BY <1>0, <1>3, ChildFacts
<1>6. /\ \A m \in Nodes : word[m] \in Seq(Char) /\ depth[m] \in Nat /\ depth[m] = Len(word[m])
      /\ \A m, n \in Nodes : word[m] = word[n] => m = n
      /\ Root \in Nodes /\ depth[Root] = 0 /\ word[Root] = <<>>
      /\ \A n \in Nodes : Ends(word[Root], word[n])
      /\ \A n \in Nodes : depth[n] = 0 => n = Root
  BY <1>0, TypeFacts, RootFacts DEF TreeInv
<1> HIDE DEF s, f
\* A node at the end of s comes from a node at the end of the parent.
<1>7. ASSUME NEW m \in Nodes, m # Root, Ends(word[m], word[s])
      PROVE  \E p \in Nodes : /\ Ends(word[p], word[parent]) /\ gotos[p][char] = m
                              /\ depth[m] = depth[p] + 1
  <2>1. word[m] # <<>>
    BY <1>6, <1>7
  <2>2. PICK u \in Seq(Char), d \in Char : word[m] = Append(u, d)
    <3> DEFINE w == word[m]
    <3>1. w \in Seq(Char) /\ w # <<>>
      BY <1>6, <2>1
    <3> HIDE DEF w
    <3>2. \E u \in Seq(Char), d \in Char : w = Append(u, d)
      BY <3>1, FrontAndLast
    <3> QED
      BY <3>2 DEF w
  <2>3. d = char /\ Ends(u, word[parent])
    <3> DEFINE v == word[parent]
    <3>1. v \in Seq(Char) /\ Ends(Append(u, d), Append(v, char))
      BY <1>3, <1>5, <1>6, <1>7, <2>2
    <3> HIDE DEF v
    <3>2. d = char /\ Ends(u, v)
      BY <1>5, <3>1, EndsAppend
    <3> QED
      BY <3>2 DEF v
  <2> QED
    BY <1>0, <2>2, <2>3, GotoOfWord
<1>8. /\ f \in Nodes /\ Ends(word[f], word[s]) /\ depth[f] < depth[s]
      /\ \A m \in Nodes : ~ (Ends(word[m], word[s]) /\ depth[f] < depth[m] /\ depth[m] < depth[s])
  <2>1. CASE gotos[cur][char] # NoNode
    <3>1. f = gotos[cur][char]
      BY <2>1 DEF f, FailureFound, acGetNextNode
    <3>2. char \in Chars(cur)
      BY <1>5, <2>1 DEF Chars
    <3>3. f \in Nodes /\ word[f] = Append(word[cur], char) /\ depth[f] = depth[cur] + 1
      BY <1>0, <1>3, <3>1, <3>2, ChildFacts
    <3>4. Ends(word[f], word[s])
      <4> DEFINE u == word[cur]
                 v == word[parent]
      <4>1. u \in Seq(Char) /\ v \in Seq(Char) /\ Ends(u, v)
        BY <1>3, <1>4, <1>6
      <4> HIDE DEF u, v
      <4>2. Ends(Append(u, char), Append(v, char))
        BY <1>5, <4>1, EndsAppend
      <4> QED
        BY <1>5, <3>3, <4>2 DEF u, v
    <3>5. ASSUME NEW m \in Nodes, Ends(word[m], word[s]), depth[f] < depth[m], depth[m] < depth[s]
          PROVE  FALSE
      <4>1. m # Root
        BY <1>6, <3>3, <3>5
      <4>2. PICK p \in Nodes : /\ Ends(word[p], word[parent]) /\ gotos[p][char] = m
                               /\ depth[m] = depth[p] + 1
        BY <1>7, <3>5, <4>1
      <4>3. depth[cur] < depth[p] /\ depth[p] < depth[parent]
        <5>1. depth[cur] \in Nat /\ depth[p] \in Nat /\ depth[parent] \in Nat
          BY <1>3, <1>6, <4>2
        <5> QED
          BY <1>5, <3>3, <3>5, <4>2, <5>1
      <4>4. gotos[p][char] = NoNode
        BY <1>4, <4>2, <4>3
      <4> QED
        BY <1>0, <4>2, <4>4, TypeFacts
    <3> QED
      BY <1>3, <1>4, <1>5, <1>6, <3>3, <3>4, <3>5
  <2>2. CASE gotos[cur][char] = NoNode
    <3>1. cur = Root /\ f = Root
      BY <1>2, <2>2 DEF f, FailureFound, acGetNextNode
    <3>2. ASSUME NEW m \in Nodes, Ends(word[m], word[s]), depth[f] < depth[m], depth[m] < depth[s]
          PROVE  FALSE
      <4>1. m # Root
        BY <1>6, <3>1, <3>2
      <4>2. PICK p \in Nodes : /\ Ends(word[p], word[parent]) /\ gotos[p][char] = m
                               /\ depth[m] = depth[p] + 1
        BY <1>7, <3>2, <4>1
      <4>3. p = Root \/ depth[p] > 0
        BY <1>6
      <4>4. depth[p] < depth[parent]
        BY <1>3, <1>5, <1>6, <3>2, <4>2
      <4>5. gotos[p][char] = NoNode
        BY <1>4, <1>6, <2>2, <3>1, <4>2, <4>3, <4>4
      <4> QED
        BY <1>0, <4>2, <4>5, TypeFacts
    <3>3. depth[parent] \in Nat /\ Ends(word[Root], word[s]) /\ depth[Root] = 0 /\ Root \in Nodes
      BY <1>3, <1>5, <1>6
    <3>4. depth[f] < depth[s]
      BY <1>5, <3>1, <3>3
    <3> QED
      BY <3>1, <3>2, <3>3, <3>4
  <2> QED
    BY <2>1, <2>2
<1>9. failure'[s] = f /\ f # NoNode /\ \A n \in Nodes : n # s => failure'[n] = failure[n]
  BY <1>0, <1>2, <1>3, <1>5, <1>8, TypeFacts
<1>10. FailInv'
  <2>1. ASSUME NEW n \in Nodes \ {Root}
        PROVE  LinkOK(n)'
    <3>1. CASE n = s
      BY <1>1, <1>8, <1>9, <3>1 DEF LinkOK
    <3>2. CASE n # s
      BY <1>0, <1>1, <1>2, <1>9, <3>2 DEF FailInv, LinkOK, Late
    <3> QED
      BY <3>1, <3>2
  <2>2. failure'[Root] = Root
    BY <1>0, <1>2, <1>5, <1>6, <1>9 DEF FailInv
  <2> QED
    BY <1>1, <1>2, <2>1, <2>2 DEF FailInv, Late
<1>11. QueueInv'
  <2>1. \A i \in DOMAIN queue : failure'[queue[i]] # NoNode
    <3>1. \A i \in DOMAIN queue : queue[i] \in Nodes /\ (failure[queue[i]] # NoNode \/ queue[i] = s)
      BY <1>0, <1>2, WordFacts DEF QueueInv, Linking, ACTypeOK, s
    <3> QED
      BY <1>9, <3>1
  <2>2. ASSUME NEW n \in Nodes, failure'[n] = NoNode
        PROVE  \/ \E i \in DOMAIN queue : queue[i] # n /\ Begins(word[queue[i]], word[n])
               \/ \E i \in DOMAIN todo : Begins(Append(word[parent], todo[i]), word[n])
    <3>1. n # s /\ failure[n] = NoNode
      BY <1>9, <2>2
    <3> QED
      BY <1>0, <1>2, <3>1 DEF QueueInv, Linking, Ahead, s
  <2>3. /\ \A i \in DOMAIN queue : queue[i] # Root
        /\ \A i, j \in DOMAIN queue : i <= j =>
              depth[queue[i]] <= depth[queue[j]] /\ depth[queue[j]] <= depth[queue[i]] + 1
    BY <1>0, <1>2 DEF QueueInv, Linking
  <2> QED
    BY <1>1, <1>2, <2>1, <2>2, <2>3 DEF QueueInv, Ahead
<1>12. ParentInv'
  <2>1. failure'[parent] # NoNode
    BY <1>0, <1>2, <1>3, <1>9 DEF ParentInv
  <2> QED
    BY <1>0, <1>1, <1>2, <2>1 DEF ParentInv
<1>13. ClimbInv'
  BY <1>2 DEF ClimbInv
<1> QED
  BY <1>1, <1>10, <1>11, <1>12, <1>13 DEF ACInv

\* A node without characters left has nothing ahead of it.
LEMMA EndChildrenInvariant ==
    ASSUME ACInv, EndChildren
    PROVE  ACInv'
<1>0. ACTypeOK /\ FailInv /\ QueueInv /\ ParentInv
  BY DEF ACInv
<1>1. /\ UNCHANGED <<anchors, entry, size, gotos, depth, word, match>> /\ Nodes' = Nodes
      /\ ACTypeOK' /\ TreeInv' /\ EnterInv' /\ MatchInv'
  BY FailuresFrame DEF constructFailures
<1>2. /\ pc = "child" /\ pc' = "dequeue" /\ todo = <<>>
      /\ UNCHANGED <<failure, queue, parent, todo, char>>
  BY DEF EndChildren, failVars, bfsVars
<1>3. DOMAIN todo = {}
  BY <1>2
<1>4. FailInv' /\ QueueInv'
  BY <1>0, <1>1, <1>2, <1>3 DEF FailInv, LinkOK, Late, QueueInv, Ahead, Linking
<1>5. ParentInv' /\ ClimbInv'
  BY <1>2 DEF ParentInv, ClimbInv
<1> QED
  BY <1>1, <1>4, <1>5 DEF ACInv

\* An empty queue has nothing ahead of it: every node has its failure pointer.
LEMMA EndFailuresInvariant ==
    ASSUME ACInv, EndFailures
    PROVE  ACInv'
<1>0. ACTypeOK /\ FailInv /\ QueueInv
  BY DEF ACInv
<1>1. /\ UNCHANGED <<anchors, entry, size, gotos, depth, word, match>> /\ Nodes' = Nodes
      /\ ACTypeOK' /\ TreeInv' /\ EnterInv' /\ MatchInv'
  BY FailuresFrame DEF constructFailures
<1>2. /\ pc = "dequeue" /\ pc' = "avoid" /\ queue = <<>> /\ UNCHANGED failure
  BY DEF EndFailures, failVars, bfsVars
<1>3. DOMAIN queue = {}
  BY <1>2
<1>4. \A n \in Nodes : failure[n] # NoNode
  BY <1>0, <1>2, <1>3 DEF QueueInv, Ahead, Linking
<1>5. FailInv'
  BY <1>0, <1>1, <1>2, <1>4 DEF FailInv, LinkOK, Late
<1>6. QueueInv' /\ ParentInv' /\ ClimbInv'
  BY <1>2 DEF QueueInv, ParentInv, ClimbInv, Linking
<1> QED
  BY <1>1, <1>5, <1>6 DEF ACInv

-----------------------------------------------------------------------------
(* Inheriting the matches of the failure nodes.                            *)

\* No anchor ends at the root: the entries entered are not empty.
LEMMA RootNoMatch ==
    ASSUME ACInv
    PROVE  ~ match[Root]
<1> SUFFICES ASSUME match[Root] PROVE FALSE
  OBVIOUS
<1>0. ACTypeOK /\ TreeInv /\ EnterInv /\ MatchInv
  BY DEF ACInv
<1>1. PICK e \in 1 .. entry - 1 : Ends(anchors[e], word[Root])
  BY <1>0, TypeFacts DEF MatchInv
<1>2. e <= Len(anchors) /\ anchors[e] # <<>> /\ e \in Nat \ {0}
  <2>1. entry \in Nat
    BY <1>0 DEF ACTypeOK
  <2> QED
    BY <1>0, <1>1, <2>1 DEF EnterInv
<1>3. anchors[e] \in Seq(Char)
  BY <1>0, <1>2, AnchorsAreWords
<1>4. Len(anchors[e]) <= 0
  BY <1>0, <1>1 DEF TreeInv, Ends
<1> QED
  BY <1>2, <1>3, <1>4

\* avoidFailToAcceptingStates leaves the tree and the anchors alone.
LEMMA AvoidFrame ==
    ASSUME ACInv, avoidFailToAcceptingStates
    PROVE  /\ UNCHANGED <<anchors, entry, size, gotos, depth, word>> /\ Nodes' = Nodes
           /\ \A n : Chars(n)' = Chars(n)
           /\ pc # "enter" /\ Late' /\ ~ Linking' /\ Late
           /\ TreeInv' /\ QueueInv' /\ ParentInv' /\ ClimbInv'
<1>1. UNCHANGED <<anchors, entry, size, gotos, depth, word>>
  BY DEF avoidFailToAcceptingStates, Inherit, Fault, Descend, EndBuild, treeVars
<1>2. Nodes' = Nodes /\ \A n : Chars(n)' = Chars(n)
  BY <1>1 DEF Nodes, Chars
<1>3. pc \in {"avoid", "descend"} /\ pc' \in {"avoid", "descend", "built", "fault"}
  BY DEF avoidFailToAcceptingStates, Inherit, Fault, Descend, EndBuild
<1>4. TreeInv'
  BY <1>1, <1>2 DEF ACInv, TreeInv
<1>5. QueueInv' /\ ParentInv' /\ ClimbInv'
  BY <1>3 DEF QueueInv, ParentInv, ClimbInv, Linking
<1> QED
  BY <1>1, <1>2, <1>3, <1>4, <1>5 DEF Late, Linking

\* What a node inherits from its failure node.
LEMMA InheritFacts ==
    ASSUME ACInv, Inherit
    PROVE  \E n \in Nodes : LET f == failure[n] IN
              /\ n = Head(stack) /\ n # Root /\ f \in Nodes /\ f # Root /\ match[f]
              /\ failure[f] \in Nodes
              /\ Ends(word[f], word[n]) /\ depth[f] < depth[n]
              /\ match'[n] /\ \A m \in Nodes : m # n => match'[m] = match[m]
              /\ \A m \in Nodes : m # n => failure'[m] = failure[m]
              /\ \/ failure'[n] = f
                 \/ failure'[n] = failure[f] /\ IsLeaf(f)
<1>0. ACTypeOK /\ TreeInv /\ FailInv
  BY DEF ACInv
<1> DEFINE n == Head(stack)
           f == failure[n]
<1>1. /\ pc = "avoid" /\ stack # <<>> /\ match[f] /\ match' = [match EXCEPT ![n] = TRUE]
      /\ \/ failure' = failure
         \/ failure' = [failure EXCEPT ![n] = failure[f]] /\ IsLeaf(f)
  BY DEF Inherit, failVars, Skipped
<1>2. /\ stack \in Seq(Nodes) /\ match \in [Nodes -> BOOLEAN]
      /\ failure \in [Nodes -> Nodes \cup {NoNode}]
  BY <1>0 DEF ACTypeOK
<1>3. n \in Nodes
  BY <1>1, <1>2, WordFacts
<1> HIDE DEF n
<1>4. \A m \in Nodes : failure[m] # NoNode /\ failure[m] \in Nodes
  BY <1>0, <1>1, TypeFacts DEF FailInv, Late
<1>5. f # Root
  BY <1>1, RootNoMatch
<1>6. n # Root
  BY <1>0, <1>1, <1>5 DEF FailInv
<1>7. Ends(word[f], word[n]) /\ depth[f] < depth[n]
  BY <1>0, <1>3, <1>4, <1>6 DEF FailInv, LinkOK
<1>8. /\ match'[n] /\ \A m \in Nodes : m # n => match'[m] = match[m]
      /\ \A m \in Nodes : m # n => failure'[m] = failure[m]
      /\ \/ failure'[n] = f
         \/ failure'[n] = failure[f] /\ IsLeaf(f)
  BY <1>1, <1>2, <1>3
<1> QED
  BY <1>1, <1>3, <1>4, <1>5, <1>6, <1>7, <1>8 DEF n

\* A failure pointer that skips a matching leaf passes no other node.
LEMMA InheritInvariant ==
    ASSUME ACInv, Inherit
    PROVE  ACInv'
<1>0. ACTypeOK /\ TreeInv /\ EnterInv /\ MatchInv /\ FailInv
  BY DEF ACInv
<1>1. /\ UNCHANGED <<anchors, entry, size, gotos, depth, word>> /\ Nodes' = Nodes
      /\ \A n : Chars(n)' = Chars(n)
      /\ pc # "enter" /\ Late' /\ Late
      /\ TreeInv' /\ QueueInv' /\ ParentInv' /\ ClimbInv'
  BY AvoidFrame DEF avoidFailToAcceptingStates
<1>2. PICK n \in Nodes : LET f == failure[n] IN
      /\ n = Head(stack) /\ n # Root /\ f \in Nodes /\ f # Root /\ match[f]
      /\ failure[f] \in Nodes
      /\ Ends(word[f], word[n]) /\ depth[f] < depth[n]
      /\ match'[n] /\ \A m \in Nodes : m # n => match'[m] = match[m]
      /\ \A m \in Nodes : m # n => failure'[m] = failure[m]
      /\ \/ failure'[n] = f
         \/ failure'[n] = failure[f] /\ IsLeaf(f)
  BY InheritFacts
<1> DEFINE f == failure[n]
<1>3. pc' # "enter"
  BY <1>1 DEF Late
<1>4. EnterInv'
  <2>1. ASSUME NEW e \in 1 .. entry - 1 PROVE \E m \in Nodes : word[m] = anchors[e] /\ match'[m]
    BY <1>0, <1>2 DEF EnterInv
  <2>2. ~ Entering'
    BY <1>3 DEF Entering
  <2> QED
    BY <1>0, <1>1, <2>1, <2>2 DEF EnterInv
<1>5. \A m \in Nodes : word[m] \in Seq(Char) /\ depth[m] \in Nat /\ depth[m] = Len(word[m])
  BY <1>0, TypeFacts DEF TreeInv
<1>6. MatchInv'
  <2>1. PICK e \in 1 .. entry - 1 : Ends(anchors[e], word[f])
    BY <1>0, <1>2 DEF MatchInv
  <2>2. anchors[e] \in Seq(Char)
    <3>1. entry \in Nat
      BY <1>0 DEF ACTypeOK
    <3>2. e \in Nat \ {0} /\ e <= Len(anchors)
      BY <1>0, <2>1, <3>1 DEF EnterInv
    <3> QED
      BY <1>0, <3>2, AnchorsAreWords
  <2>3. Ends(anchors[e], word[n])
    BY <1>2, <1>5, <2>1, <2>2, EndsOrder
  <2> QED
    BY <1>0, <1>1, <1>2, <2>1, <2>3 DEF MatchInv
<1>7. LinkOK(n)'
  <2>1. LinkOK(n) /\ LinkOK(f) /\ failure[n] # NoNode /\ failure[f] # NoNode
    BY <1>0, <1>1, <1>2 DEF FailInv
  <2>2. CASE failure'[n] = f
    BY <1>1, <1>2, <2>1, <2>2 DEF LinkOK, IsLeaf
  <2>3. CASE failure'[n] = failure[f] /\ IsLeaf(f)
    <3> DEFINE g == failure[f]
    <3>1. g \in Nodes /\ Ends(word[g], word[f]) /\ depth[g] < depth[f]
      BY <1>2, <2>1 DEF LinkOK
    <3>2. Ends(word[g], word[n]) /\ depth[g] < depth[n]
      BY <1>2, <1>5, <3>1, EndsOrder
    <3>3. ASSUME NEW m \in Nodes, Ends(word[m], word[n]), depth[g] < depth[m], depth[m] < depth[n]
          PROVE  IsLeaf(m) /\ match[m]
      <4>1. CASE depth[m] > depth[f]
        BY <1>2, <1>5, <2>1, <3>3, <4>1 DEF LinkOK
      <4>2. CASE depth[m] = depth[f]
        <5>1. word[m] = word[f]
          BY <1>2, <1>5, <3>3, <4>2, EndsOrder
        <5>2. m = f
          BY <1>0, <1>2, <5>1 DEF TreeInv
        <5> QED
          BY <1>2, <2>3, <5>2
      <4>3. CASE depth[m] < depth[f]
        <5>1. Ends(word[m], word[f])
          BY <1>2, <1>5, <3>3, <4>3, EndsOrder
        <5> QED
          BY <2>1, <3>3, <4>3, <5>1 DEF LinkOK
      <4> QED
        BY <1>2, <1>5, <4>1, <4>2, <4>3
    <3> HIDE DEF g
    <3>4. failure'[n] = g
      BY <2>3 DEF g
    <3> QED
      BY <1>1, <1>2, <3>1, <3>2, <3>3, <3>4 DEF LinkOK, IsLeaf
  <2> QED
    BY <1>2, <2>2, <2>3
<1>8. ASSUME NEW m \in Nodes \ {Root}, m # n
      PROVE  LinkOK(m)'
  <2>1. LinkOK(m)
    BY <1>0 DEF FailInv
  <2> QED
    BY <1>1, <1>2, <1>8, <2>1 DEF LinkOK, IsLeaf
<1>9. \A m \in Nodes : failure'[m] # NoNode
  BY <1>0, <1>1, <1>2, TypeFacts DEF FailInv
<1>10. failure'[Root] = Root
  BY <1>0, <1>1, <1>2, TypeFacts DEF FailInv
<1>11. FailInv'
  BY <1>1, <1>3, <1>7, <1>8, <1>9, <1>10 DEF FailInv
<1>12. ACTypeOK'
  BY AvoidType DEF avoidFailToAcceptingStates
<1> QED
  BY <1>1, <1>4, <1>6, <1>11, <1>12 DEF ACInv

\* avoidFailToAcceptingStates keeps the invariant.
LEMMA AvoidInvariant ==
    ASSUME ACInv, avoidFailToAcceptingStates
    PROVE  ACInv'
<1>1. CASE Inherit
  BY <1>1, InheritInvariant
<1>2. CASE Fault \/ Descend \/ EndBuild
  <2>1. /\ UNCHANGED <<anchors, entry, size, gotos, depth, word>> /\ Nodes' = Nodes
        /\ \A n : Chars(n)' = Chars(n)
        /\ pc # "enter" /\ Late' /\ Late
        /\ TreeInv' /\ QueueInv' /\ ParentInv' /\ ClimbInv'
    BY AvoidFrame
  <2>2. UNCHANGED <<match, failure>>
    BY <1>2 DEF Fault, Descend, EndBuild, matchVars, failVars
  <2>3. EnterInv' /\ MatchInv'
    <3>1. ~ Entering' /\ pc' # "enter"
      BY <2>1 DEF Entering, Late
    <3> QED
      BY <2>1, <2>2, <3>1 DEF ACInv, EnterInv, MatchInv
  <2>4. FailInv'
    <3>1. pc' # "enter"
      BY <2>1 DEF Late
    <3> QED
      BY <2>1, <2>2, <3>1 DEF ACInv, FailInv, LinkOK, IsLeaf
  <2> QED
    BY <2>1, <2>3, <2>4, AvoidType DEF ACInv
<1> QED
  BY <1>1, <1>2 DEF avoidFailToAcceptingStates

-----------------------------------------------------------------------------
(* The theorems.                                                           *)

\* The invariant holds of a builder that has not begun,
LEMMA ACInvInit ==
    ASSUME ACInit PROVE ACInv
<1>1. ACTypeOK
  BY ACTypeInit
<1>2. /\ Nodes = {Root} /\ word[Root] = <<>> /\ depth[Root] = 0 /\ ~ match[Root]
      /\ failure[Root] = NoNode /\ \A c \in Char : gotos[Root][c] = NoNode
      /\ pc = "enter" /\ entry = 1 /\ pos = 0 /\ cur = Root
  BY DEF ACInit, Nodes, Root
<1>3. TreeInv
  BY <1>2 DEF TreeInv
<1>4. EnterInv
  <2>1. Entering => 0 <= Len(anchors[entry]) /\ <<>> = SubSeq(anchors[entry], 1, 0)
    <3> SUFFICES ASSUME Entering PROVE 0 <= Len(anchors[entry]) /\ <<>> = SubSeq(anchors[entry], 1, 0)
      OBVIOUS
    <3>1. anchors[entry] \in Seq(Char)
      BY <1>1, <1>2, AnchorsAreWords DEF Entering
    <3> QED
      BY <3>1, Beginnings, WordFacts
  <2>2. 1 .. entry - 1 = {} /\ Nodes \ {Root} = {}
    BY <1>2
  <2> QED
    BY <1>2, <2>1, <2>2 DEF EnterInv
<1>5. MatchInv /\ FailInv /\ QueueInv /\ ParentInv /\ ClimbInv
  BY <1>2 DEF MatchInv, FailInv, LinkOK, QueueInv, ParentInv, ClimbInv, Linking, Late
<1> QED
  BY <1>1, <1>3, <1>4, <1>5 DEF ACInv

\* every step of the builder keeps it,
LEMMA ACInvStep ==
    ASSUME ACInv, BuildStep PROVE ACInv'
<1>1. CASE enter
  BY <1>1, EnterInvariant
<1>2. CASE constructFailures
  BY <1>2, StartFailuresInvariant, DequeueInvariant, NextChildInvariant, ClimbInvariant,
     SetFailureInvariant, EndChildrenInvariant, EndFailuresInvariant DEF constructFailures
<1>3. CASE avoidFailToAcceptingStates
  BY <1>3, AvoidInvariant
<1> QED
  BY <1>1, <1>2, <1>3 DEF BuildStep

\* and so does a step that changes nothing.
LEMMA ACInvUnchanged ==
    ASSUME ACInv, UNCHANGED acVars PROVE ACInv'
<1>1. UNCHANGED <<anchors, pc, entry, pos, cur, size, gotos, depth, word, match, message,
                  numMatches, slots, failure, hasFailInto, queue, parent, todo, char, stack>>
  BY DEF acVars, treeVars, matchVars, failVars, bfsVars
<1>2. Nodes' = Nodes /\ (\A n : Chars(n)' = Chars(n)) /\ Entering' = Entering
  BY <1>1 DEF Nodes, Chars, Entering
<1>3. ACTypeOK'
  BY <1>1, <1>2 DEF ACInv, ACTypeOK
<1>4. TreeInv' /\ EnterInv' /\ MatchInv'
  BY <1>1, <1>2 DEF ACInv, TreeInv, EnterInv, MatchInv
<1>5. FailInv' /\ QueueInv'
  BY <1>1, <1>2 DEF ACInv, FailInv, LinkOK, IsLeaf, Late, QueueInv, Ahead, Linking
<1>6. ParentInv' /\ ClimbInv'
  BY <1>1, <1>2 DEF ACInv, ParentInv, ClimbInv
<1> QED
  BY <1>3, <1>4, <1>5, <1>6 DEF ACInv

\* Whatever the anchors, whatever malloc leaves in numMatches, the invariant holds
\* at every step of acBuildTreeASCII.
THEOREM ACInvAlways == ACSpec => []ACInv
<1>1. ACInv /\ [ACNext]_acVars => ACInv'
  BY ACInvStep, ACInvUnchanged DEF ACNext, Stopped
<1> QED
  BY <1>1, ACInvInit, PTL DEF ACSpec

\* No step of the builder leads to a node that is not there or follows a pointer
\* that is not set: the types always hold.
THEOREM ACTypesHold == ACSpec => []ACTypeOK
<1>1. ACInv => ACTypeOK
  BY DEF ACInv
<1> QED
  BY <1>1, ACInvAlways, PTL

\* The words of proper suffix nodes.
LEMMA ProperSuffixIs ==
    ASSUME NEW w \in Seq(Char), NEW u \in Seq(Char)
    PROVE  u \in ProperSuffixes(w) <=> Ends(u, w) /\ Len(u) < Len(w)
<1>0. Len(u) \in Nat /\ Len(w) \in Nat
  OBVIOUS
<1>1. ASSUME NEW k \in 2 .. Len(w) + 1, u = SubSeq(w, k, Len(w))
      PROVE  Ends(u, w) /\ Len(u) < Len(w)
  <2>1. u \in SuffixSet(w)
    BY <1>0, <1>1, k \in 1 .. Len(w) + 1 DEF SuffixSet
  <2>2. Ends(u, w)
    BY <2>1, SuffixIs
  <2>3. Len(u) = Len(w) + 1 - k
    BY <1>1
  <2> QED
    BY <1>0, <2>2, <2>3
<1>2. ASSUME Ends(u, w), Len(u) < Len(w)
      PROVE  \E k \in 2 .. Len(w) + 1 : u = SubSeq(w, k, Len(w))
  <2>1. PICK k \in 1 .. Len(w) + 1 : u = SubSeq(w, k, Len(w))
    BY <1>2, SuffixIs DEF SuffixSet
  <2>2. Len(u) = Len(w) + 1 - k
    BY <2>1
  <2>3. k \in 2 .. Len(w) + 1
    BY <1>0, <1>2, <2>2
  <2> QED
    BY <2>1, <2>3
<1> QED
  BY <1>1, <1>2 DEF ProperSuffixes

\* The suffix nodes of a node, by their words.
LEMMA SuffixNodeIs ==
    ASSUME ACTypeOK, TreeInv, NEW n \in Nodes, NEW m \in Nodes
    PROVE  m \in SuffixNodes(n) <=> Ends(word[m], word[n]) /\ depth[m] < depth[n]
<1>1. word[m] \in Seq(Char) /\ word[n] \in Seq(Char)
  BY TypeFacts
<1>2. word[m] \in ProperSuffixes(word[n]) <=> Ends(word[m], word[n]) /\ Len(word[m]) < Len(word[n])
  BY <1>1, ProperSuffixIs
<1> QED
  BY <1>2 DEF SuffixNodes, TreeInv

\* constructFailures links every node to its longest proper suffix in the tree,
\* and avoidFailToAcceptingStates moves the pointer past matching leaves only.
THEOREM FailurePointersAreRight == ACSpec => []FailureIsLongestSuffix
<1>1. ASSUME ACInv PROVE FailureIsLongestSuffix
  <2> SUFFICES ASSUME NEW n \in Nodes \ {Root}, failure[n] # NoNode
               PROVE  /\ failure[n] \in SuffixNodes(n)
                      /\ \A m \in SuffixNodes(n) : depth[m] > depth[failure[n]] =>
                            Late /\ IsLeaf(m) /\ match[m]
    BY DEF FailureIsLongestSuffix, Late
  <2>1. ACTypeOK /\ TreeInv /\ LinkOK(n)
    BY <1>1 DEF ACInv, FailInv
  <2>2. failure[n] \in Nodes
    BY <2>1, TypeFacts
  <2>3. failure[n] \in SuffixNodes(n)
    BY <2>1, <2>2, SuffixNodeIs DEF LinkOK
  <2>4. ASSUME NEW m \in SuffixNodes(n), depth[m] > depth[failure[n]]
        PROVE  Late /\ IsLeaf(m) /\ match[m]
    <3>1. m \in Nodes
      BY DEF SuffixNodes
    <3>2. Ends(word[m], word[n]) /\ depth[m] < depth[n]
      BY <2>1, <2>4, <3>1, SuffixNodeIs
    <3> QED
      BY <2>1, <2>2, <2>4, <3>1, <3>2, TypeFacts DEF LinkOK
  <2> QED
    BY <2>3, <2>4
<1> QED
  BY <1>1, ACInvAlways, PTL

-----------------------------------------------------------------------------
(* What the nodes report.                                                  *)

\* A node where an anchor ends has it in its first slot, and the slots are
\* behind it: what is appended does not replace it.
SlotInv ==
    \A n \in Nodes : message[n] # NoSlot =>
        /\ match[n] /\ numMatches[n] >= 1 /\ slots[n][0] = message[n]
        /\ message[n] \in 1 .. entry - 1 /\ word[n] = anchors[message[n]]

\* The steps that leave the fields of the nodes alone.
LEMMA FieldsFrame ==
    ASSUME ACInv, BuildStep, ~ createNewNode, ~ SetMatch, ~ Inherit
    PROVE  /\ UNCHANGED <<anchors, entry, size, gotos, depth, word, match, message, numMatches,
                          slots>>
           /\ Nodes' = Nodes
<1>1. UNCHANGED <<anchors, entry, size, gotos, depth, word, match, message, numMatches, slots>>
  BY DEF BuildStep, enter, Walk, constructFailures, avoidFailToAcceptingStates,
         StartFailures, Dequeue, NextChild, Climb, SetFailure, EndChildren, EndFailures,
         Fault, Descend, EndBuild, treeVars, matchVars
<1> QED
  BY <1>1 DEF Nodes

\* What SetMatch does to a node.
LEMMA SetMatchSlots ==
    ASSUME ACInv, SetMatch
    PROVE  /\ message'[cur] = entry /\ numMatches'[cur] = 1 /\ slots'[cur][0] = entry
           /\ \A n \in Nodes : n # cur => /\ message'[n] = message[n] /\ slots'[n] = slots[n]
                                          /\ numMatches'[n] = numMatches[n]
<1>1. /\ cur \in Nodes /\ message \in [Nodes -> Nat] /\ numMatches \in [Nodes -> Int]
      /\ slots \in [Nodes -> [0 .. MaxSlots - 1 -> Nat]]
  BY DEF ACInv, ACTypeOK
<1>2. /\ message' = [message EXCEPT ![cur] = entry]
      /\ numMatches' = [numMatches EXCEPT ![cur] = 1]
      /\ slots' = [slots EXCEPT ![cur][0] = entry]
  BY DEF SetMatch, OwnSlot
<1>3. 0 \in 0 .. MaxSlots - 1
  BY ACAssumption
<1> QED
  BY <1>1, <1>2, <1>3

\* What Inherit does to a node: its slots and its counter grow.
LEMMA InheritSlots ==
    ASSUME ACInv, Inherit
    PROVE  \E n \in Nodes : LET f == failure[n] IN
              /\ n = Head(stack) /\ f \in Nodes /\ match[f] /\ CanCopy(n, f)
              /\ message' = message
              /\ \A m \in Nodes : m # n => slots'[m] = slots[m] /\ numMatches'[m] = numMatches[m]
              /\ slots'[n] = SlotsAppended(n, f)
              /\ numMatches'[n] = numMatches[n] + (IF numMatches[f] > 0 THEN numMatches[f] ELSE 0)
              /\ numMatches[n] \in Int /\ numMatches[f] \in Int
<1>1. PICK n \in Nodes : n = Head(stack) /\ failure[n] \in Nodes /\ match[failure[n]]
  BY InheritFacts
<1>2. /\ numMatches \in [Nodes -> Int] /\ slots \in [Nodes -> [0 .. MaxSlots - 1 -> Nat]]
  BY DEF ACInv, ACTypeOK
<1> DEFINE f == failure[n]
<1>3. /\ message' = message /\ CanCopy(n, f)
      /\ slots' = [slots EXCEPT ![n] = SlotsAppended(n, f)]
      /\ numMatches' = [numMatches EXCEPT ![n] = @ + IF numMatches[f] > 0 THEN numMatches[f] ELSE 0]
  BY <1>1 DEF Inherit
<1>4. numMatches[n] \in Int /\ numMatches[f] \in Int
  BY <1>1, <1>2
<1> QED
  BY <1>1, <1>2, <1>3, <1>4

\* No step takes a node's own anchor out of its first slot,
LEMMA SlotInvStep ==
    ASSUME ACInv, SlotInv, BuildStep
    PROVE  SlotInv'
<1>0. ACTypeOK /\ entry \in Nat \ {0}
  BY DEF ACInv, ACTypeOK
<1>1. CASE createNewNode
  <2>1. /\ Nodes' = Nodes \cup {size} /\ UNCHANGED <<anchors, entry>>
        /\ \A n \in Nodes : /\ word'[n] = word[n] /\ match'[n] = match[n]
                            /\ message'[n] = message[n] /\ numMatches'[n] = numMatches[n]
                            /\ slots'[n] = slots[n]
        /\ message'[size] = NoSlot
    BY <1>1, NewNode DEF createNewNode
  <2> QED
    BY <2>1 DEF SlotInv
<1>2. CASE SetMatch
  <2>1. /\ message'[cur] = entry /\ numMatches'[cur] = 1 /\ slots'[cur][0] = entry
        /\ \A n \in Nodes : n # cur => /\ message'[n] = message[n] /\ slots'[n] = slots[n]
                                       /\ numMatches'[n] = numMatches[n]
    BY <1>2, SetMatchSlots
  <2>2. /\ UNCHANGED <<anchors, word>> /\ Nodes' = Nodes /\ entry' = entry + 1
        /\ match'[cur] /\ \A n \in Nodes : n # cur => match'[n] = match[n]
    BY <1>2, SetMatchFacts
  <2>3. word[cur] = anchors[entry]
    BY <1>2, SetMatchFacts, EnterFacts
  <2>4. entry \in 1 .. entry' - 1 /\ \A e \in 1 .. entry - 1 : e \in 1 .. entry' - 1
    BY <1>0, <2>2
  <2>5. ASSUME NEW n \in Nodes, message'[n] # NoSlot
        PROVE  /\ match'[n] /\ numMatches'[n] >= 1 /\ slots'[n][0] = message'[n]
               /\ message'[n] \in 1 .. entry' - 1 /\ word[n] = anchors[message'[n]]
    <3>1. CASE n = cur
      BY <2>1, <2>2, <2>3, <2>4, <3>1
    <3>2. CASE n # cur
      BY <2>1, <2>2, <2>4, <2>5, <3>2 DEF SlotInv
    <3> QED
      BY <3>1, <3>2
  <2> QED
    BY <2>2, <2>5 DEF SlotInv
<1>3. CASE Inherit
  <2>1. PICK n \in Nodes : LET f == failure[n] IN
              /\ n = Head(stack) /\ f \in Nodes /\ match[f] /\ CanCopy(n, f)
              /\ message' = message
              /\ \A m \in Nodes : m # n => slots'[m] = slots[m] /\ numMatches'[m] = numMatches[m]
              /\ slots'[n] = SlotsAppended(n, f)
              /\ numMatches'[n] = numMatches[n] + (IF numMatches[f] > 0 THEN numMatches[f] ELSE 0)
              /\ numMatches[n] \in Int /\ numMatches[f] \in Int
    BY <1>3, InheritSlots
  <2>2. /\ UNCHANGED <<anchors, entry, word>> /\ Nodes' = Nodes
    BY <1>3, AvoidFrame DEF avoidFailToAcceptingStates
  <2>3. match'[n] /\ \A m \in Nodes : m # n => match'[m] = match[m]
    BY <1>3, <2>1, InheritFacts
  <2>4. ASSUME message[n] # NoSlot
        PROVE  numMatches'[n] >= 1 /\ slots'[n][0] = message[n]
    <3>1. numMatches[n] >= 1 /\ slots[n][0] = message[n]
      BY <2>4 DEF SlotInv
    <3>2. SlotsAppended(n, failure[n])[0] = slots[n][0]
      BY <2>1, <3>1, ACAssumption DEF SlotsAppended
    <3> QED
      BY <2>1, <3>1, <3>2
  <2>5. ASSUME NEW m \in Nodes, message'[m] # NoSlot
        PROVE  /\ match'[m] /\ numMatches'[m] >= 1 /\ slots'[m][0] = message'[m]
               /\ message'[m] \in 1 .. entry' - 1 /\ word'[m] = anchors'[message'[m]]
    <3>1. message[m] = message'[m] /\ message[m] \in 1 .. entry - 1 /\ word[m] = anchors[message[m]]
      BY <2>1, <2>5 DEF SlotInv
    <3>2. CASE m = n
      BY <2>2, <2>3, <2>4, <2>5, <3>1, <3>2
    <3>3. CASE m # n
      BY <2>1, <2>2, <2>3, <2>5, <3>1, <3>3 DEF SlotInv
    <3> QED
      BY <3>2, <3>3
  <2> QED
    BY <2>2, <2>5 DEF SlotInv
<1>4. CASE ~ createNewNode /\ ~ SetMatch /\ ~ Inherit
  BY <1>4, FieldsFrame DEF SlotInv
<1> QED
  BY <1>1, <1>2, <1>3, <1>4

\* so that it is there at every step.
LEMMA SlotInvAlways == ACSpec => []SlotInv
<1>1. ACInit => SlotInv
  BY DEF ACInit, SlotInv, Nodes, Root
<1>2. ACInv /\ SlotInv /\ [ACNext]_acVars => SlotInv'
  <2>1. ASSUME SlotInv, UNCHANGED acVars PROVE SlotInv'
    <3>1. UNCHANGED <<anchors, entry, size, word, match, message, numMatches, slots>>
      BY <2>1 DEF acVars, treeVars, matchVars
    <3> QED
      BY <2>1, <3>1 DEF SlotInv, Nodes
  <2> QED
    BY <2>1, SlotInvStep DEF ACNext, Stopped
<1> QED
  BY <1>1, <1>2, ACInvAlways, PTL DEF ACSpec

\* Whatever malloc leaves in numMatches, a node where an anchor ends keeps that
\* anchor in its first slot, the one the table machine reports.
THEOREM OwnAnchorsAreKept == ACSpec => []OwnAnchorComesFirst
<1>1. SlotInv => OwnAnchorComesFirst
  BY DEF SlotInv, OwnAnchorComesFirst
<1> QED
  BY <1>1, SlotInvAlways, PTL

-----------------------------------------------------------------------------
(* The anchor of the longest suffix.                                       *)

\* m is a longest proper suffix of n in the tree.
Longer(m, n) == Ends(word[m], word[n]) /\ depth[m] < depth[n]
IsLongest(m, n) == Longer(m, n) /\ \A k \in Nodes : Longer(k, n) => depth[k] <= depth[m]

\* n reports the anchor of its longest suffix.
Reported(n) ==
    \A m \in Nodes : IsLongest(m, n) /\ message[m] # NoSlot => match[n] /\ message[m] \in Slots(n)

\* avoidFailToAcceptingStates has yet to visit n, and has not moved its pointer.
Unvisited(n) ==
    /\ \E i \in DOMAIN stack : Begins(word[stack[i]], word[n])
    /\ \A m \in Nodes : Longer(m, n) => depth[m] <= depth[failure[n]]

ReportInv ==
    /\ Late => \A n \in Nodes \ {Root} : Reported(n) \/ Unvisited(n)
    /\ pc = "descend" => stack # <<>> /\ (Head(stack) = Root \/ Reported(Head(stack)))
    /\ pc = "built" => stack = <<>>

\* There is one longest suffix of a node, LongestSuffix.
LEMMA LongestSuffixIs ==
    ASSUME ACTypeOK, TreeInv, NEW n \in Nodes \ {Root}
    PROVE  /\ LongestSuffix(n) \in Nodes /\ IsLongest(LongestSuffix(n), n)
           /\ \A m, k \in Nodes : IsLongest(m, n) /\ IsLongest(k, n) => m = k
<1>1. \A m \in Nodes : word[m] \in Seq(Char) /\ depth[m] \in Nat /\ depth[m] = Len(word[m])
  BY TypeFacts DEF TreeInv
<1>2. ASSUME NEW m \in Nodes, NEW k \in Nodes, IsLongest(m, n), IsLongest(k, n)
      PROVE  m = k
  <2>1. Ends(word[m], word[n]) /\ Ends(word[k], word[n]) /\ depth[m] = depth[k]
    BY <1>1, <1>2 DEF IsLongest, Longer
  <2>2. word[m] = word[k]
    BY <1>1, <2>1, EndsOrder
  <2> QED
    BY <2>2 DEF TreeInv
<1> DEFINE D == {depth[m] : m \in SuffixNodes(n)}
<1>3. Root \in SuffixNodes(n)
  BY <1>1, RootFacts, SuffixNodeIs
<1>4. \A m \in SuffixNodes(n) : m \in Nodes /\ Longer(m, n)
  BY SuffixNodeIs DEF SuffixNodes, Longer
<1>5. D \subseteq 0 .. depth[n] /\ D # {}
  <2>1. \A m \in SuffixNodes(n) : depth[m] \in 0 .. depth[n]
    BY <1>1, <1>4 DEF Longer
  <2> QED
    BY <1>3, <2>1
<1>6. PICK x \in D : \A k \in D : k <= x
  <2>1. depth[n] \in Nat
    BY <1>1
  <2> QED
    BY <1>5, <2>1, GreatestElement
<1>7. \E m \in SuffixNodes(n) : \A k \in SuffixNodes(n) : depth[k] <= depth[m]
  <2>1. PICK m \in SuffixNodes(n) : x = depth[m]
    BY <1>6
  <2> QED
    BY <1>6, <2>1
<1>8. /\ LongestSuffix(n) \in SuffixNodes(n)
      /\ \A k \in SuffixNodes(n) : depth[k] <= depth[LongestSuffix(n)]
  BY <1>7 DEF LongestSuffix
<1>9. \A k \in Nodes : Longer(k, n) => k \in SuffixNodes(n)
  BY SuffixNodeIs DEF Longer
<1> QED
  BY <1>2, <1>4, <1>8, <1>9 DEF IsLongest

\* The slots of a node that inherits grow by those of its failure node.
LEMMA InheritReports ==
    ASSUME ACInv, SlotInv, Inherit
    PROVE  \E n \in Nodes : LET f == failure[n] IN
              /\ n = Head(stack) /\ n # Root /\ f \in Nodes
              /\ match'[n] /\ message' = message
              /\ \A m \in Nodes : m # n => /\ match'[m] = match[m] /\ Slots(m)' = Slots(m)
                                           /\ failure'[m] = failure[m]
              /\ Slots(n) \subseteq Slots(n)'
              /\ message[f] # NoSlot => message[f] \in Slots(n)'
<1>1. PICK n \in Nodes : LET f == failure[n] IN
              /\ n = Head(stack) /\ f \in Nodes /\ match[f] /\ CanCopy(n, f)
              /\ message' = message
              /\ \A m \in Nodes : m # n => slots'[m] = slots[m] /\ numMatches'[m] = numMatches[m]
              /\ slots'[n] = SlotsAppended(n, f)
              /\ numMatches'[n] = numMatches[n] + (IF numMatches[f] > 0 THEN numMatches[f] ELSE 0)
              /\ numMatches[n] \in Int /\ numMatches[f] \in Int
  BY InheritSlots
<1> DEFINE f == failure[n]
<1>2. /\ n # Root /\ match'[n]
      /\ \A m \in Nodes : m # n => match'[m] = match[m] /\ failure'[m] = failure[m]
  BY <1>1, InheritFacts
<1>3. \A m \in Nodes : m # n => Slots(m)' = Slots(m)
  BY <1>1 DEF Slots
<1>4. MaxSlots \in Nat
  BY ACAssumption
<1>5. numMatches[f] > 0 => numMatches[n] \in 0 .. MaxSlots - 1
  <2>1. numMatches[f] > 0 => 0 \in 0 .. numMatches[f] - 1
    BY <1>1
  <2> QED
    BY <1>1, <2>1 DEF CanCopy
<1>6. ASSUME NEW k \in 0 .. numMatches[n] - 1
      PROVE  slots[n][k] \in Slots(n)'
  <2>1. CASE numMatches[f] > 0
    <3>1. k \in 0 .. MaxSlots - 1 /\ k \notin numMatches[n] .. numMatches[n] + numMatches[f] - 1
      BY <1>1, <1>4, <1>5, <2>1
    <3>2. slots'[n][k] = slots[n][k]
      BY <1>1, <3>1 DEF SlotsAppended
    <3>3. k \in 0 .. numMatches'[n] - 1
      BY <1>1, <2>1
    <3> QED
      BY <3>2, <3>3 DEF Slots
  <2>2. CASE ~ (numMatches[f] > 0)
    <3>1. numMatches'[n] = numMatches[n]
      BY <1>1, <2>2
    <3>2. slots'[n] = slots[n]
      <4>1. slots[n] \in [0 .. MaxSlots - 1 -> Nat]
        BY DEF ACInv, ACTypeOK
      <4>2. numMatches[n] .. numMatches[n] + numMatches[f] - 1 = {}
        BY <1>1, <2>2
      <4>3. slots'[n] = [j \in 0 .. MaxSlots - 1 |-> slots[n][j]]
        BY <1>1, <4>2 DEF SlotsAppended
      <4> QED
        BY <4>1, <4>3
    <3> QED
      BY <3>1, <3>2 DEF Slots
  <2> QED
    BY <2>1, <2>2
<1>7. Slots(n) \subseteq Slots(n)'
  BY <1>6 DEF Slots
<1>8. ASSUME message[f] # NoSlot
      PROVE  message[f] \in Slots(n)'
  <2>1. numMatches[f] >= 1 /\ slots[f][0] = message[f]
    BY <1>1, <1>8 DEF SlotInv
  <2> DEFINE k == numMatches[n]
  <2>2. /\ k \in 0 .. MaxSlots - 1 /\ k \in numMatches[n] .. numMatches[n] + numMatches[f] - 1
        /\ k - numMatches[n] = 0
    BY <1>1, <1>5, <2>1
  <2>3. slots'[n][k] = slots[f][0]
    BY <1>1, <2>2 DEF SlotsAppended
  <2>4. k \in 0 .. numMatches'[n] - 1
    BY <1>1, <1>5, <2>1
  <2> HIDE DEF k
  <2> QED
    BY <2>1, <2>3, <2>4 DEF Slots
<1> QED
  BY <1>1, <1>2, <1>3, <1>7, <1>8

\* A node on the way below a node of the stack stays there when the head gives
\* way to its children.
LEMMA DescendCovers ==
    ASSUME ACInv, Descend, NEW n \in Nodes, n # Head(stack),
           \E i \in DOMAIN stack : Begins(word[stack[i]], word[n])
    PROVE  \E i \in DOMAIN stack' : Begins(word[stack'[i]], word[n])
<1> DEFINE h == Head(stack)
<1>0. ACTypeOK /\ TreeInv
  BY DEF ACInv
<1>1. stack # <<>> /\ stack' = ChildrenInOrder(h) \o Tail(stack)
  BY DEF Descend
<1>2. stack \in Seq(Nodes) /\ h \in Nodes /\ h = stack[1] /\ Tail(stack) \in Seq(Nodes)
  BY <1>0, <1>1, WordFacts DEF ACTypeOK
<1>3. /\ ChildrenInOrder(h) \in Seq(Nodes \ {Root})
      /\ \A c \in Chars(h) : \E i \in DOMAIN ChildrenInOrder(h) : ChildrenInOrder(h)[i] = gotos[h][c]
  <2> HIDE DEF h
  <2> QED
    BY <1>0, <1>2, ChildrenOrder
<1>4. ChildrenInOrder(h) \in Seq(Nodes)
  <2> HIDE DEF h
  <2> QED
    BY <1>3, WordFacts
<1> HIDE DEF h
<1>5. PICK i \in DOMAIN stack : Begins(word[stack[i]], word[n])
  OBVIOUS
<1>6. CASE i = 1
  <2>1. PICK c \in Chars(h) : Begins(Append(word[h], c), word[n])
    BY <1>0, <1>2, <1>5, <1>6, BelowNode DEF h
  <2>2. word[gotos[h][c]] = Append(word[h], c)
    BY <1>0, <1>2, ChildFacts
  <2>3. PICK j \in DOMAIN ChildrenInOrder(h) : ChildrenInOrder(h)[j] = gotos[h][c]
    BY <1>3
  <2> DEFINE hs == ChildrenInOrder(h)
  <2>4. j \in DOMAIN stack' /\ stack'[j] = ChildrenInOrder(h)[j]
    <3>1. hs \in Seq(Nodes) /\ j \in DOMAIN hs
      BY <1>4, <2>3
    <3>2. Tail(stack) \in Seq(Nodes) /\ stack' = hs \o Tail(stack)
      BY <1>1, <1>2
    <3> HIDE DEF hs
    <3>3. j \in DOMAIN stack' /\ stack'[j] = hs[j]
      BY <3>1, <3>2
    <3> QED
      BY <3>3 DEF hs
  <2> QED
    BY <2>1, <2>2, <2>3, <2>4
<1>7. CASE i # 1
  <2> DEFINE j == Len(ChildrenInOrder(h)) + (i - 1)
  <2>1. i - 1 \in DOMAIN Tail(stack) /\ Tail(stack)[i - 1] = stack[i]
    BY <1>1, <1>2, <1>5, <1>7
  <2>2. j \in DOMAIN stack' /\ stack'[j] = stack[i]
    <3> DEFINE hs == ChildrenInOrder(h)
               tl == Tail(stack)
               x == i - 1
    <3>1. hs \in Seq(Nodes) /\ tl \in Seq(Nodes) /\ stack' = hs \o tl /\ x \in DOMAIN tl /\ tl[x] = stack[i]
      BY <1>1, <1>2, <1>4, <2>1
    <3> HIDE DEF hs, tl, x
    <3>2. Len(hs) + x \in DOMAIN stack' /\ stack'[Len(hs) + x] = tl[x]
      BY <3>1
    <3> QED
      BY <3>1, <3>2 DEF hs, x
  <2> QED
    BY <1>5, <2>2
<1> QED
  BY <1>6, <1>7

\* A node that is visited while its failure pointer is the one of
\* constructFailures reports the anchor of its longest suffix.
LEMMA UnvisitedLongest ==
    ASSUME ACInv, Late, NEW n \in Nodes \ {Root}, Unvisited(n), NEW m \in Nodes, IsLongest(m, n)
    PROVE  m = failure[n]
<1>0. ACTypeOK /\ TreeInv /\ LinkOK(n) /\ failure[n] # NoNode
  BY DEF ACInv, FailInv
<1>1. failure[n] \in Nodes
  BY <1>0, TypeFacts
<1>2. IsLongest(failure[n], n)
  BY <1>0, <1>1 DEF LinkOK, Unvisited, IsLongest, Longer
<1> QED
  BY <1>0, <1>1, <1>2, LongestSuffixIs


\* A node that reports goes on to.
LEMMA ReportedFrame ==
    ASSUME NEW n \in Nodes, Reported(n), UNCHANGED <<word, depth, message>>, Nodes' = Nodes,
           match[n] => match'[n], Slots(n) \subseteq Slots(n)'
    PROVE  Reported(n)'
<1> SUFFICES ASSUME NEW m \in Nodes, IsLongest(m, n)', message'[m] # NoSlot
             PROVE  match'[n] /\ message'[m] \in Slots(n)'
  BY DEF Reported
<1>1. IsLongest(m, n)
  BY DEF IsLongest, Longer
<1> QED
  BY <1>1 DEF Reported

\* Every step keeps ReportInv.
LEMMA ReportInvStep ==
    ASSUME ACInv, SlotInv, ReportInv, BuildStep
    PROVE  ReportInv'
<1>0. ACTypeOK /\ TreeInv /\ FailInv
  BY DEF ACInv
<1>1. CASE enter
  <2>1. pc' = "enter"
    BY <1>1 DEF enter, Walk, createNewNode, SetMatch, Entering
  <2> QED
    BY <2>1 DEF ReportInv, Late
<1>2. CASE constructFailures /\ ~ EndFailures
  <2>1. pc' \in {"dequeue", "child", "climb"}
    BY <1>2 DEF constructFailures, StartFailures, Dequeue, NextChild, Climb, SetFailure, EndChildren
  <2> QED
    BY <2>1 DEF ReportInv, Late
<1>3. CASE EndFailures
  <2>1. /\ pc = "dequeue" /\ pc' = "avoid" /\ stack' = <<Root>>
        /\ UNCHANGED <<word, depth, failure>> /\ Nodes' = Nodes
    BY <1>3 DEF EndFailures, treeVars, failVars, Nodes
  <2>2. DOMAIN stack' = {1} /\ stack'[1] = Root
    BY <2>1
  <2>3. ACInv'
    BY ACInvStep
  <2>4. ASSUME NEW n \in Nodes \ {Root} PROVE Unvisited(n)'
    <3>1. Begins(word[Root], word[n])
      BY <1>0, RootFacts
    <3>2. LinkOK(n) /\ failure[n] # NoNode
      <4>1. Late'
        BY <2>1 DEF Late
      <4> QED
        BY <1>0, <2>1, <2>3, <4>1 DEF FailInv, ACInv
    <3>3. failure[n] \in Nodes
      BY <1>0, <3>2, TypeFacts
    <3>4. \A m \in Nodes : depth[m] \in Nat
      BY <1>0, TypeFacts
    <3>5. \A m \in Nodes : Longer(m, n) => depth[m] <= depth[failure[n]]
      BY <2>1, <3>2, <3>3, <3>4 DEF LinkOK, Longer, Late
    <3> QED
      BY <2>1, <2>2, <3>1, <3>5 DEF Unvisited, Longer
  <2> QED
    BY <2>1, <2>4 DEF ReportInv
<1>4. CASE avoidFailToAcceptingStates
  <2>0. /\ UNCHANGED <<word, depth>> /\ Nodes' = Nodes /\ Late /\ Late'
        /\ pc \in {"avoid", "descend"}
    <3>1. pc \in {"avoid", "descend"}
      BY <1>4 DEF avoidFailToAcceptingStates, Inherit, Fault, Descend, EndBuild
    <3> QED
      BY <1>4, <3>1, AvoidFrame
  <2>1. CASE Inherit
    <3>1. PICK n \in Nodes : LET f == failure[n] IN
              /\ n = Head(stack) /\ n # Root /\ f \in Nodes
              /\ match'[n] /\ message' = message
              /\ \A m \in Nodes : m # n => /\ match'[m] = match[m] /\ Slots(m)' = Slots(m)
                                           /\ failure'[m] = failure[m]
              /\ Slots(n) \subseteq Slots(n)'
              /\ message[f] # NoSlot => message[f] \in Slots(n)'
      BY <2>1, InheritReports
    <3>2. stack' = stack /\ stack # <<>> /\ pc' \in {"avoid", "descend"}
      BY <2>1 DEF Inherit
    <3>3. Reported(n)'
      <4>1. CASE Reported(n)
        BY <2>0, <3>1, <4>1, ReportedFrame
      <4>2. CASE ~ Reported(n)
        <5>1. Unvisited(n)
          BY <2>0, <3>1, <4>2 DEF ReportInv
        <5>2. ASSUME NEW m \in Nodes, IsLongest(m, n)', message'[m] # NoSlot
              PROVE  message'[m] \in Slots(n)'
          <6>1. IsLongest(m, n)
            BY <2>0, <5>2 DEF IsLongest, Longer
          <6>2. m = failure[n]
            BY <2>0, <3>1, <5>1, <6>1, UnvisitedLongest
          <6> QED
            BY <3>1, <5>2, <6>2
        <5> QED
          BY <2>0, <3>1, <5>2 DEF Reported
      <4> QED
        BY <4>1, <4>2
    <3>4. ASSUME NEW m \in Nodes \ {Root}, m # n PROVE Reported(m)' \/ Unvisited(m)'
      <4>1. CASE Reported(m)
        BY <2>0, <3>1, <3>4, <4>1, ReportedFrame
      <4>2. CASE Unvisited(m)
        <5>1. failure'[m] = failure[m]
          BY <3>1, <3>4
        <5> QED
          BY <2>0, <3>2, <4>2, <5>1 DEF Unvisited, Longer
      <4> QED
        BY <2>0, <4>1, <4>2 DEF ReportInv
    <3> QED
      BY <2>0, <3>1, <3>2, <3>3, <3>4 DEF ReportInv
  <2>2. CASE Fault \/ EndBuild
    <3>1. /\ UNCHANGED <<stack, match, message, numMatches, slots, failure>>
          /\ pc' = "fault" \/ (pc' = "built" /\ stack = <<>>)
      BY <2>2 DEF Fault, EndBuild, matchVars, failVars
    <3>2. \A n \in Nodes : Slots(n)' = Slots(n)
      BY <3>1 DEF Slots
    <3>3. \A n \in Nodes : Reported(n) => Reported(n)'
      BY <2>0, <3>1, <3>2, ReportedFrame
    <3>4. \A n \in Nodes : Unvisited(n) => Unvisited(n)'
      BY <2>0, <3>1 DEF Unvisited, Longer
    <3> QED
      BY <2>0, <3>1, <3>3, <3>4 DEF ReportInv
  <2>3. CASE Descend
    <3> DEFINE h == Head(stack)
    <3>1. /\ UNCHANGED <<match, message, numMatches, slots, failure>> /\ stack # <<>>
          /\ pc' = "avoid" /\ (pc = "descend" \/ (pc = "avoid" /\ ~ match[failure[h]]))
      BY <2>3 DEF Descend, matchVars, failVars
    <3>2. \A n \in Nodes : Slots(n)' = Slots(n)
      BY <3>1 DEF Slots
    <3>3. \A n \in Nodes : Reported(n) => Reported(n)'
      BY <2>0, <3>1, <3>2, ReportedFrame
    <3>4. h \in Nodes
      BY <1>0, <3>1, WordFacts DEF ACTypeOK
    <3> HIDE DEF h
    <3>5. h = Root \/ Reported(h)
      <4>1. CASE pc = "descend"
        BY <4>1 DEF ReportInv, h
      <4>2. CASE pc = "avoid"
        <5> SUFFICES ASSUME h # Root, Unvisited(h) PROVE Reported(h)
          BY <2>0, <3>4 DEF ReportInv
        <5>1. ~ match[failure[h]]
          BY <3>1, <4>2
        <5>2. ASSUME NEW m \in Nodes, IsLongest(m, h) PROVE message[m] = NoSlot
          <6>1. m = failure[h]
            BY <2>0, <3>4, <5>2, UnvisitedLongest
          <6> QED
            BY <5>1, <6>1 DEF SlotInv
        <5> QED
          BY <5>2 DEF Reported
      <4> QED
        BY <2>0, <4>1, <4>2
    <3>6. ASSUME NEW n \in Nodes \ {Root} PROVE Reported(n)' \/ Unvisited(n)'
      <4>1. CASE Reported(n)
        BY <3>3, <4>1
      <4>2. CASE ~ Reported(n)
        <5>1. Unvisited(n) /\ n # h
          BY <2>0, <3>5, <4>2 DEF ReportInv
        <5>2. \E i \in DOMAIN stack' : Begins(word[stack'[i]], word[n])
          BY <2>3, <5>1, DescendCovers DEF Unvisited, h
        <5> QED
          BY <2>0, <3>1, <5>1, <5>2 DEF Unvisited, Longer
      <4> QED
        BY <4>1, <4>2
    <3> QED
      BY <2>0, <3>1, <3>6 DEF ReportInv
  <2> QED
    BY <1>4, <2>1, <2>2, <2>3 DEF avoidFailToAcceptingStates
<1> QED
  BY <1>1, <1>2, <1>3, <1>4 DEF BuildStep

\* The longest anchor is not missed where it ends at the node itself or at its
\* longest proper suffix, whatever malloc leaves in the nodes: the finished node
\* reports it.
THEOREM LongestAnchorsAreReported == ACSpec => []LongestAnchorIsReported
<1>1. ACInit => ReportInv
  BY DEF ACInit, ReportInv, Late
<1>2. ACInv /\ SlotInv /\ ReportInv /\ [ACNext]_acVars => ReportInv'
  <2>1. ASSUME ReportInv, UNCHANGED acVars PROVE ReportInv'
    <3>1. UNCHANGED <<pc, size, depth, word, match, message, numMatches, slots, failure, stack>>
      BY <2>1 DEF acVars, treeVars, matchVars, failVars
    <3> QED
      BY <2>1, <3>1 DEF ReportInv, Reported, Unvisited, IsLongest, Longer, Slots, Nodes, Late
  <2> QED
    BY <2>1, ReportInvStep DEF ACNext, Stopped
<1>3. ACInv /\ SlotInv /\ ReportInv => LongestAnchorIsReported
  <2> SUFFICES ASSUME ACInv, SlotInv, ReportInv, pc = "built", NEW n \in Nodes \ {Root},
                      NEW m \in {n, LongestSuffix(n)}, message[m] # NoSlot
               PROVE  match[n] /\ message[m] \in Slots(n)
    BY DEF LongestAnchorIsReported
  <2>1. CASE m = n
    <3>1. match[n] /\ numMatches[n] >= 1 /\ slots[n][0] = message[n]
      BY <2>1 DEF SlotInv
    <3>2. numMatches[n] \in Int
      BY DEF ACInv, ACTypeOK
    <3>3. 0 \in 0 .. numMatches[n] - 1
      BY <3>1, <3>2
    <3> QED
      BY <2>1, <3>1, <3>3 DEF Slots
  <2>2. CASE m = LongestSuffix(n)
    <3>1. m \in Nodes /\ IsLongest(m, n)
      BY <2>2, LongestSuffixIs DEF ACInv
    <3>2. Late /\ DOMAIN stack = {}
      BY DEF ReportInv, Late
    <3>3. Reported(n)
      BY <3>2 DEF ReportInv, Unvisited
    <3> QED
      BY <3>1, <3>3 DEF Reported
  <2> QED
    BY <2>1, <2>2
<1> QED
  BY <1>1, <1>2, <1>3, ACInvAlways, SlotInvAlways, PTL DEF ACSpec


-----------------------------------------------------------------------------
(* The slots of a node hold anchors that end there.                        *)

\* Where an anchor ends at a node there is its message, and a leaf has one.
AnchorInv ==
    /\ \A e \in 1 .. entry - 1 : \E n \in Nodes : word[n] = anchors[e] /\ message[n] # NoSlot
    /\ ~ Late => \A n \in Nodes : match[n] => message[n] # NoSlot

\* The slot k of n holds an anchor that ends there, no longer than the first.
SlotEnds(n, k) ==
    /\ slots[n][k] \in 1 .. entry - 1
    /\ Ends(anchors[slots[n][k]], word[n])
    /\ Len(anchors[slots[n][k]]) <= Len(anchors[slots[n][0]])

\* The first anchor of a matching node is as long as any its failure node has.
FirstIsLongest(n) ==
    \/ depth[failure[n]] <= Len(anchors[slots[n][0]])
    \/ /\ match[failure[n]]
       /\ Len(anchors[slots[failure[n]][0]]) <= Len(anchors[slots[n][0]])

SuffixInv ==
    /\ \A n \in Nodes : /\ numMatches[n] \in 0 .. MaxSlots
                        /\ match[n] <=> numMatches[n] > 0
                        /\ \A k \in 0 .. numMatches[n] - 1 : SlotEnds(n, k)
    /\ \A n \in Nodes \ {Root} : match[n] /\ failure[n] # NoNode => FirstIsLongest(n)

\* The builder does not go back to linking.
LEMMA LateStays ==
    ASSUME ACInv, BuildStep, Late
    PROVE  Late' /\ avoidFailToAcceptingStates
<1>1. ~ enter /\ ~ constructFailures
  BY DEF Late, enter, Walk, createNewNode, SetMatch, Entering, constructFailures, StartFailures,
         Dequeue, NextChild, Climb, SetFailure, EndChildren, EndFailures
<1> QED
  BY <1>1, AvoidFrame DEF BuildStep

\* Every step keeps AnchorInv.
LEMMA AnchorInvStep ==
    ASSUME ACInv, AnchorInv, BuildStep
    PROVE  AnchorInv'
<1>0. ACTypeOK /\ entry \in Nat \ {0}
  BY DEF ACInv, ACTypeOK
<1>1. CASE createNewNode
  <2>1. /\ Nodes' = Nodes \cup {size} /\ UNCHANGED <<anchors, entry, pc>>
        /\ \A n \in Nodes : /\ word'[n] = word[n] /\ match'[n] = match[n]
                            /\ message'[n] = message[n]
        /\ match'[size] = FALSE
    BY <1>1, NewNode DEF createNewNode
  <2> QED
    BY <2>1 DEF AnchorInv, Late
<1>2. CASE SetMatch
  <2>1. /\ message'[cur] = entry
        /\ \A n \in Nodes : n # cur => message'[n] = message[n]
    BY <1>2, SetMatchSlots
  <2>2. /\ UNCHANGED <<anchors, word>> /\ Nodes' = Nodes /\ entry' = entry + 1
        /\ \A n \in Nodes : n # cur => match'[n] = match[n]
    BY <1>2, SetMatchFacts
  <2>3. word[cur] = anchors[entry] /\ cur \in Nodes
    BY <1>2, SetMatchFacts, EnterFacts
  <2>4. ~ Late
    BY <1>2 DEF SetMatch, Entering, Late
  <2>5. \A n \in Nodes : message[n] # NoSlot => message'[n] # NoSlot
    BY <1>0, <2>1 DEF NoSlot
  <2>6. message'[cur] # NoSlot
    BY <1>0, <2>1 DEF NoSlot
  <2>7. \A e \in 1 .. entry' - 1 : e \in 1 .. entry - 1 \/ e = entry
    BY <1>0, <2>2
  <2>8. ASSUME NEW e \in 1 .. entry' - 1
        PROVE  \E n \in Nodes : word[n] = anchors[e] /\ message'[n] # NoSlot
    BY <2>3, <2>5, <2>6, <2>7 DEF AnchorInv
  <2>9. \A n \in Nodes : match'[n] => message'[n] # NoSlot
    BY <2>1, <2>2, <2>4, <2>6 DEF AnchorInv
  <2> QED
    BY <2>2, <2>8, <2>9 DEF AnchorInv
<1>3. CASE Inherit
  <2>1. UNCHANGED <<anchors, entry, word, message>> /\ Nodes' = Nodes /\ Late'
    BY <1>3, AvoidFrame DEF avoidFailToAcceptingStates, Inherit
  <2> QED
    BY <2>1 DEF AnchorInv
<1>4. CASE ~ createNewNode /\ ~ SetMatch /\ ~ Inherit
  <2>1. UNCHANGED <<anchors, entry, word, match, message>> /\ Nodes' = Nodes
    BY <1>4, FieldsFrame
  <2> QED
    BY <2>1, LateStays DEF AnchorInv
<1> QED
  BY <1>1, <1>2, <1>3, <1>4

\* so that no node loses its anchor.
LEMMA AnchorInvAlways == ACSpec => []AnchorInv
<1>1. ACInit => AnchorInv
  <2> SUFFICES ASSUME ACInit PROVE AnchorInv
    OBVIOUS
  <2>1. 1 .. entry - 1 = {} /\ \A n \in Nodes : match[n] = FALSE
    BY DEF ACInit, Nodes, Root
  <2> QED
    BY <2>1 DEF AnchorInv
<1>2. ACInv /\ AnchorInv /\ [ACNext]_acVars => AnchorInv'
  <2>1. ASSUME AnchorInv, UNCHANGED acVars PROVE AnchorInv'
    <3>1. UNCHANGED <<anchors, pc, entry, size, word, match, message>>
      BY <2>1 DEF acVars, treeVars, matchVars
    <3> QED
      BY <2>1, <3>1 DEF AnchorInv, Nodes, Late
  <2> QED
    BY <2>1, AnchorInvStep DEF ACNext, Stopped
<1> QED
  BY <1>1, <1>2, ACInvAlways, PTL DEF ACSpec

\* An anchor ends at every leaf.
LEMMA LeafHasAnchor ==
    ASSUME ACInv, AnchorInv, pc # "enter", NEW n \in Nodes \ {Root}, IsLeaf(n)
    PROVE  message[n] # NoSlot
<1>0. ACTypeOK /\ TreeInv /\ EnterInv /\ entry \in Nat
  BY DEF ACInv, ACTypeOK
<1>1. PICK e \in 1 .. entry : e <= Len(anchors) /\ anchors[e] # <<>> /\ Begins(word[n], anchors[e])
  BY <1>0 DEF EnterInv
<1>2. e \in 1 .. entry - 1
  BY <1>0, <1>1 DEF EnterInv
<1>3. PICK m \in Nodes : word[m] = anchors[e] /\ message[m] # NoSlot
  BY <1>2 DEF AnchorInv
<1>4. m = n
  BY <1>0, <1>1, <1>3, BelowNode DEF IsLeaf
<1> QED
  BY <1>3, <1>4

\* The anchor in a slot of n.
LEMMA SlotFacts ==
    ASSUME ACInv, SuffixInv, NEW n \in Nodes, NEW k \in 0 .. numMatches[n] - 1
    PROVE  /\ SlotEnds(n, k) /\ slots[n][k] \in Nat \ {0}
           /\ anchors[slots[n][k]] \in Seq(Char) /\ Len(anchors[slots[n][k]]) \in Nat
           /\ Len(anchors[slots[n][k]]) <= depth[n]
<1>0. ACTypeOK /\ TreeInv /\ EnterInv /\ entry \in Nat
  BY DEF ACInv, ACTypeOK
<1>1. SlotEnds(n, k)
  BY DEF SuffixInv
<1>2. slots[n][k] \in Nat \ {0} /\ slots[n][k] <= Len(anchors)
  BY <1>0, <1>1 DEF SlotEnds, EnterInv
<1>3. anchors[slots[n][k]] \in Seq(Char)
  BY <1>0, <1>2, AnchorsAreWords
<1>4. Len(anchors[slots[n][k]]) \in Nat
  BY <1>3
<1>5. Len(anchors[slots[n][k]]) <= depth[n]
  BY <1>0, <1>1 DEF SlotEnds, Ends, TreeInv
<1> QED
  BY <1>1, <1>2, <1>3, <1>4, <1>5

\* The slots of a node that inherits: its own, then those of its failure node.
LEMMA InheritedSlots ==
    ASSUME ACInv, SuffixInv, Inherit
    PROVE  \E n \in Nodes : LET f == failure[n] IN
              /\ n = Head(stack) /\ n # Root /\ f \in Nodes \ {Root} /\ f # n /\ match[f]
              /\ failure[f] \in Nodes
              /\ Ends(word[f], word[n]) /\ depth[f] < depth[n]
              /\ match'[n] /\ \A m \in Nodes : m # n => /\ match'[m] = match[m]
                                                        /\ failure'[m] = failure[m]
                                                        /\ slots'[m] = slots[m]
                                                        /\ numMatches'[m] = numMatches[m]
              /\ \/ failure'[n] = f
                 \/ failure'[n] = failure[f] /\ IsLeaf(f)
              /\ numMatches[n] \in Nat /\ numMatches[f] \in Nat \ {0}
              /\ numMatches'[n] = numMatches[n] + numMatches[f]
              /\ numMatches'[n] \in 0 .. MaxSlots
              /\ \A k \in 0 .. numMatches[n] - 1 : slots'[n][k] = slots[n][k]
              /\ \A k \in numMatches[n] .. numMatches'[n] - 1 :
                    slots'[n][k] = slots[f][k - numMatches[n]]
<1>1. PICK n \in Nodes : LET f == failure[n] IN
              /\ n = Head(stack) /\ n # Root /\ f \in Nodes /\ f # Root /\ match[f]
              /\ failure[f] \in Nodes
              /\ Ends(word[f], word[n]) /\ depth[f] < depth[n]
              /\ match'[n] /\ \A m \in Nodes : m # n => match'[m] = match[m]
              /\ \A m \in Nodes : m # n => failure'[m] = failure[m]
              /\ \/ failure'[n] = f
                 \/ failure'[n] = failure[f] /\ IsLeaf(f)
  BY InheritFacts
<1> DEFINE f == failure[n]
           a == numMatches[n]
           b == numMatches[f]
<1>2. /\ CanCopy(n, f) /\ slots'[n] = SlotsAppended(n, f)
      /\ \A m \in Nodes : m # n => slots'[m] = slots[m] /\ numMatches'[m] = numMatches[m]
      /\ numMatches'[n] = a + (IF b > 0 THEN b ELSE 0)
  BY <1>1, InheritSlots
<1>3. a \in 0 .. MaxSlots /\ b \in 0 .. MaxSlots /\ b > 0 /\ MaxSlots \in Nat
  BY <1>1, ACAssumption DEF SuffixInv
<1>4. f # n
  <2>1. depth[n] \in Nat
    BY TypeFacts DEF ACInv
  <2> QED
    BY <1>1, <2>1
<1>5. a + (b - 1) \in 0 .. MaxSlots - 1
  BY <1>2, <1>3, b - 1 \in 0 .. b - 1 DEF CanCopy
<1>6. numMatches'[n] = a + b /\ a + b \in 0 .. MaxSlots
  BY <1>2, <1>3, <1>5
<1>7. ASSUME NEW k \in 0 .. a - 1 PROVE slots'[n][k] = slots[n][k]
  <2>1. k \in 0 .. MaxSlots - 1 /\ k \notin a .. a + b - 1
    BY <1>3
  <2> QED
    BY <1>2, <2>1 DEF SlotsAppended
<1>8. ASSUME NEW k \in a .. a + b - 1 PROVE slots'[n][k] = slots[f][k - a]
  <2>1. k \in 0 .. MaxSlots - 1
    BY <1>3, <1>6
  <2> QED
    BY <1>2, <2>1 DEF SlotsAppended
<1>9. a \in Nat /\ b \in Nat \ {0}
  BY <1>3
<1> HIDE DEF f, a, b
<1>10. numMatches'[n] = a + b /\ numMatches'[n] \in 0 .. MaxSlots
  BY <1>6
<1>11. numMatches'[n] - 1 = a + b - 1
  BY <1>9, <1>10
<1>12. \A k \in a .. numMatches'[n] - 1 : slots'[n][k] = slots[f][k - a]
  BY <1>8, <1>11
<1>13. \A k \in 0 .. a - 1 : slots'[n][k] = slots[n][k]
  BY <1>7
<1> QED
  BY <1>1, <1>2, <1>4, <1>9, <1>10, <1>12, <1>13 DEF f, a, b

\* A node that inherits has the slots SuffixInv asks for.
LEMMA InheritSuffixes ==
    ASSUME ACInv, SlotInv, AnchorInv, SuffixInv, Inherit
    PROVE  SuffixInv'
<1>0. ACTypeOK /\ TreeInv /\ FailInv
  BY DEF ACInv
<1>1. PICK n \in Nodes : LET f == failure[n] IN
              /\ n = Head(stack) /\ n # Root /\ f \in Nodes \ {Root} /\ f # n /\ match[f]
              /\ failure[f] \in Nodes
              /\ Ends(word[f], word[n]) /\ depth[f] < depth[n]
              /\ match'[n] /\ \A m \in Nodes : m # n => /\ match'[m] = match[m]
                                                        /\ failure'[m] = failure[m]
                                                        /\ slots'[m] = slots[m]
                                                        /\ numMatches'[m] = numMatches[m]
              /\ \/ failure'[n] = f
                 \/ failure'[n] = failure[f] /\ IsLeaf(f)
              /\ numMatches[n] \in Nat /\ numMatches[f] \in Nat \ {0}
              /\ numMatches'[n] = numMatches[n] + numMatches[f]
              /\ numMatches'[n] \in 0 .. MaxSlots
              /\ \A k \in 0 .. numMatches[n] - 1 : slots'[n][k] = slots[n][k]
              /\ \A k \in numMatches[n] .. numMatches'[n] - 1 :
                    slots'[n][k] = slots[f][k - numMatches[n]]
  BY InheritedSlots
<1> DEFINE f == failure[n]
           a == numMatches[n]
           b == numMatches[f]
           Length(k) == Len(anchors[k])
<1>2. /\ UNCHANGED <<anchors, entry, word, depth>> /\ Nodes' = Nodes /\ pc # "enter" /\ Late
  BY AvoidFrame DEF avoidFailToAcceptingStates
<1>3. \A m \in Nodes : word[m] \in Seq(Char) /\ depth[m] \in Nat /\ depth[m] = Len(word[m])
  BY <1>0, TypeFacts DEF TreeInv
<1>4. /\ \A k \in 0 .. a - 1 : /\ SlotEnds(n, k) /\ Length(slots[n][k]) \in Nat
      /\ \A k \in 0 .. b - 1 : /\ SlotEnds(f, k) /\ Length(slots[f][k]) \in Nat
                               /\ anchors[slots[f][k]] \in Seq(Char)
                               /\ Length(slots[f][k]) <= depth[f]
  BY <1>1, SlotFacts
<1>5. 0 \in 0 .. b - 1 /\ (a > 0 => 0 \in 0 .. a - 1) /\ (a > 0 <=> match[n]) /\ a \in Nat
  BY <1>1 DEF SuffixInv
<1>6. a = 0 => slots'[n][0] = slots[f][0]
  BY <1>1
<1>7. a > 0 => slots'[n][0] = slots[n][0]
  BY <1>1, <1>5
<1>a. Length(slots'[n][0]) \in Nat /\ Length(slots[f][0]) \in Nat /\ Length(slots[f][0]) <= depth[f]
  BY <1>4, <1>5, <1>6, <1>7
\* The first anchor of n is as long as the first of f.
<1>8. Length(slots[f][0]) <= Length(slots'[n][0])
  <2>1. CASE a = 0
    BY <1>4, <1>5, <1>6, <2>1
  <2>2. CASE a > 0
    <3>1. failure[n] # NoNode
      BY <1>1, NoNode \notin Nodes DEF NoNode, Nodes
    <3>2. FirstIsLongest(n)
      BY <1>1, <1>5, <2>2, <3>1 DEF SuffixInv
    <3>3. depth[f] <= Length(slots'[n][0]) \/ Length(slots[f][0]) <= Length(slots'[n][0])
      BY <1>7, <2>2, <3>2 DEF FirstIsLongest
    <3>4. depth[f] \in Nat
      BY <1>1, <1>3
    <3> HIDE DEF f
    <3> QED
      BY <1>a, <3>3, <3>4
  <2> QED
    BY <1>5, <2>1, <2>2
<1>9. ASSUME NEW k \in 0 .. numMatches'[n] - 1 PROVE SlotEnds(n, k)'
  <2>1. CASE k < a
    <3>1. k \in 0 .. a - 1 /\ slots'[n][k] = slots[n][k] /\ slots'[n][0] = slots[n][0]
      BY <1>1, <1>5, <1>7, <2>1
    <3> QED
      BY <1>2, <1>4, <3>1 DEF SlotEnds
  <2>2. CASE k >= a
    <3> DEFINE j == k - a
    <3>1. k \in a .. numMatches'[n] - 1 /\ j \in 0 .. b - 1
      BY <1>1, <1>5, <2>2
    <3>2. slots'[n][k] = slots[f][j]
      BY <1>1, <3>1
    <3> HIDE DEF j
    <3>3. SlotEnds(f, j) /\ Length(slots[f][j]) \in Nat /\ anchors[slots[f][j]] \in Seq(Char)
      BY <1>4, <3>1
    <3>4. Ends(anchors[slots[f][j]], word[n])
      BY <1>1, <1>3, <3>3, EndsOrder DEF SlotEnds
    <3>5. Length(slots[f][j]) <= Length(slots'[n][0])
      <4>1. Length(slots[f][j]) <= Length(slots[f][0])
        BY <3>3 DEF SlotEnds
      <4> HIDE DEF f, Length
      <4> QED
        BY <1>8, <1>a, <3>3, <4>1
    <3> QED
      BY <1>2, <3>2, <3>3, <3>4, <3>5 DEF SlotEnds
  <2> QED
    BY <1>1, <2>1, <2>2
<1>10. ASSUME NEW m \in Nodes
       PROVE  /\ numMatches'[m] \in 0 .. MaxSlots
              /\ match'[m] <=> numMatches'[m] > 0
              /\ \A k \in 0 .. numMatches'[m] - 1 : SlotEnds(m, k)'
  <2>1. CASE m = n
    BY <1>1, <1>9, <2>1
  <2>2. CASE m # n
    BY <1>1, <1>2, <2>2 DEF SuffixInv, SlotEnds
  <2> QED
    BY <2>1, <2>2
<1>11. FirstIsLongest(n)'
  <2>1. CASE failure'[n] = f
    BY <1>1, <1>2, <1>8, <2>1 DEF FirstIsLongest
  <2>2. CASE failure'[n] = failure[f] /\ IsLeaf(f)
    <3>1. slots[f][0] = message[f] /\ word[f] = anchors[message[f]]
      BY <1>1, <1>2, <2>2, LeafHasAnchor DEF SlotInv
    <3>2. depth[f] <= Length(slots'[n][0])
      BY <1>1, <1>3, <1>8, <3>1
    <3>3. depth[failure[f]] < depth[f]
      BY <1>0, <1>1, TypeFacts DEF FailInv, LinkOK
    <3>4. depth[failure[f]] <= Length(slots'[n][0])
      <4>1. depth[failure[f]] \in Nat /\ depth[f] \in Nat
        BY <1>1, <1>3
      <4> HIDE DEF f, Length
      <4> QED
        BY <1>a, <3>2, <3>3, <4>1
    <3> QED
      BY <1>2, <2>2, <3>4 DEF FirstIsLongest
  <2> QED
    BY <1>1, <2>1, <2>2
<1>12. ASSUME NEW m \in Nodes \ {Root}, m # n, match'[m], failure'[m] # NoNode
       PROVE  FirstIsLongest(m)'
  <2>1. FirstIsLongest(m) /\ failure'[m] = failure[m] /\ slots'[m] = slots[m]
    BY <1>1, <1>12 DEF SuffixInv
  <2>2. CASE failure[m] = n
    BY <1>1, <1>2, <1>5, <1>7, <2>1, <2>2 DEF FirstIsLongest
  <2>3. CASE failure[m] # n
    <3>1. failure[m] \in Nodes
      BY <1>0, <1>12, <2>1, TypeFacts
    <3> QED
      BY <1>1, <1>2, <2>1, <2>3, <3>1 DEF FirstIsLongest
  <2> QED
    BY <2>2, <2>3
<1> QED
  BY <1>2, <1>10, <1>11, <1>12, Root' = Root, NoNode' = NoNode DEF SuffixInv

\* Every step keeps SuffixInv when the counters of new nodes are zero.
LEMMA SuffixInvStep ==
    ASSUME FreshCounts = {0}, ACInv, SlotInv, AnchorInv, SuffixInv, BuildStep
    PROVE  SuffixInv'
<1>0. ACTypeOK /\ TreeInv /\ FailInv /\ ACInv' /\ entry \in Nat \ {0}
  BY ACInvStep DEF ACInv, ACTypeOK
<1>1. pc' = "enter" => \A n \in Nodes' : failure'[n] = NoNode
  BY <1>0 DEF ACInv, FailInv
<1>2. CASE createNewNode
  <2>1. /\ Nodes' = Nodes \cup {size} /\ size \notin Nodes /\ UNCHANGED <<anchors, entry>>
        /\ \A n \in Nodes : /\ word'[n] = word[n] /\ match'[n] = match[n]
                            /\ numMatches'[n] = numMatches[n] /\ slots'[n] = slots[n]
        /\ match'[size] = FALSE /\ size \in Nat /\ pc' = "enter"
    BY <1>2, NewNode DEF createNewNode, Entering
  <2>2. numMatches'[size] = 0
    <3>1. numMatches' = Extended(numMatches, 0)
      BY <1>2 DEF createNewNode
    <3> QED
      BY <2>1, <3>1 DEF Extended
  <2>3. \A n \in Nodes : \A k : SlotEnds(n, k) => SlotEnds(n, k)'
    BY <2>1 DEF SlotEnds
  <2>4. MaxSlots \in Nat /\ 0 \in 0 .. MaxSlots /\ 0 .. 0 - 1 = {}
    BY ACAssumption
  <2>5. ASSUME NEW n \in Nodes'
        PROVE  /\ numMatches'[n] \in 0 .. MaxSlots
               /\ match'[n] <=> numMatches'[n] > 0
               /\ \A k \in 0 .. numMatches'[n] - 1 : SlotEnds(n, k)'
    <3>1. CASE n \in Nodes
      BY <2>1, <2>3, <3>1 DEF SuffixInv
    <3>2. CASE n = size
      BY <2>1, <2>2, <2>4, <3>2
    <3> QED
      BY <2>1, <3>1, <3>2
  <2> QED
    BY <1>1, <2>1, <2>5, NoNode' = NoNode DEF SuffixInv
<1>3. CASE SetMatch
  <2>1. /\ numMatches'[cur] = 1 /\ slots'[cur][0] = entry
        /\ \A n \in Nodes : n # cur => /\ slots'[n] = slots[n]
                                       /\ numMatches'[n] = numMatches[n]
    BY <1>3, SetMatchSlots
  <2>2. /\ UNCHANGED <<anchors, word>> /\ Nodes' = Nodes /\ entry' = entry + 1
        /\ match'[cur] /\ \A n \in Nodes : n # cur => match'[n] = match[n]
    BY <1>3, SetMatchFacts
  <2>3. /\ word[cur] = anchors[entry] /\ cur \in Nodes /\ word[cur] \in Seq(Char)
        /\ Len(anchors[entry]) \in Nat
    BY <1>3, SetMatchFacts, EnterFacts
  <2>4. entry \in 1 .. entry' - 1 /\ \A e \in 1 .. entry - 1 : e \in 1 .. entry' - 1
    BY <1>0, <2>2
  <2>5. pc' = "enter"
    BY <1>3 DEF SetMatch, Entering
  <2>a. PICK q \in Nodes : q = cur
    BY <2>3
  <2>6. SlotEnds(q, 0)'
    <3>1. Ends(word[cur], word[cur])
      BY <2>3, EndsOrder
    <3> QED
      BY <2>1, <2>2, <2>3, <2>4, <2>a, <3>1 DEF SlotEnds
  <2>7. ASSUME NEW n \in Nodes
        PROVE  /\ numMatches'[n] \in 0 .. MaxSlots
               /\ match'[n] <=> numMatches'[n] > 0
               /\ \A k \in 0 .. numMatches'[n] - 1 : SlotEnds(n, k)'
    <3>1. CASE n = cur
      <4>1. 1 \in 0 .. MaxSlots /\ 0 .. 1 - 1 = {0}
        BY ACAssumption
      <4> QED
        BY <2>1, <2>2, <2>6, <2>a, <3>1, <4>1, \A k \in 0 .. 1 - 1 : k = 0
    <3>2. CASE n # cur
      <4>1. \A k : SlotEnds(n, k) => SlotEnds(n, k)'
        BY <2>1, <2>2, <2>4, <3>2 DEF SlotEnds
      <4> QED
        BY <2>1, <2>2, <3>2, <4>1 DEF SuffixInv
    <3> QED
      BY <3>1, <3>2
  <2> QED
    BY <1>1, <2>2, <2>5, <2>7, NoNode' = NoNode DEF SuffixInv
<1>4. CASE Inherit
  BY <1>4, InheritSuffixes
<1>5. CASE ~ createNewNode /\ ~ SetMatch /\ ~ Inherit
  <2>1. /\ UNCHANGED <<anchors, entry, depth, word, match, message, numMatches, slots>>
        /\ Nodes' = Nodes
    BY <1>5, FieldsFrame
  <2>2. \A n, k : SlotEnds(n, k)' = SlotEnds(n, k)
    BY <2>1 DEF SlotEnds
  <2>3. ASSUME NEW n \in Nodes \ {Root}, match[n], failure'[n] # NoNode
        PROVE  FirstIsLongest(n)'
    <3>1. CASE Late
      <4>1. failure' = failure
        BY <1>5, <3>1, LateStays DEF avoidFailToAcceptingStates, Fault, Descend, EndBuild, failVars
      <4> QED
        BY <2>1, <2>3, <4>1 DEF SuffixInv, FirstIsLongest
    <3>2. CASE ~ Late
      <4>1. slots[n][0] = message[n] /\ word[n] = anchors[message[n]]
        BY <2>3, <3>2 DEF AnchorInv, SlotInv
      <4>2. Len(anchors[slots[n][0]]) = depth[n]
        BY <1>0, <4>1 DEF TreeInv
      <4>3. LinkOK(n)' /\ failure'[n] \in Nodes
        <5>1. ACTypeOK' /\ FailInv'
          BY <1>0 DEF ACInv
        <5>2. n \in Nodes' \ {Root}
          BY <2>1
        <5> QED
          BY <2>1, <2>3, <5>1, <5>2 DEF FailInv, ACTypeOK
      <4>4. depth[failure'[n]] < depth[n]
        BY <2>1, <2>3, <4>3 DEF LinkOK
      <4>5. depth[failure'[n]] <= depth[n]
        BY <1>0, <4>3, <4>4, TypeFacts
      <4> QED
        BY <2>1, <4>2, <4>5 DEF FirstIsLongest
    <3> QED
      BY <3>1, <3>2
  <2> QED
    BY <2>1, <2>2, <2>3, NoNode' = NoNode, Root' = Root DEF SuffixInv
<1> QED
  BY <1>2, <1>3, <1>4, <1>5

\* With zeroed counters the slots of the nodes are always right.
LEMMA SuffixInvAlways ==
    ASSUME FreshCounts = {0}
    PROVE  ACSpec => []SuffixInv
<1>1. ACInit => SuffixInv
  <2> SUFFICES ASSUME ACInit PROVE SuffixInv
    OBVIOUS
  <2>1. /\ Nodes = {Root} /\ numMatches[Root] = 0 /\ match[Root] = FALSE
        /\ 0 \in 0 .. MaxSlots /\ 0 .. 0 - 1 = {}
    BY ACAssumption DEF ACInit, Nodes, Root
  <2> QED
    BY <2>1 DEF SuffixInv
<1>2. ACInv /\ SlotInv /\ AnchorInv /\ SuffixInv /\ [ACNext]_acVars => SuffixInv'
  <2>1. ASSUME SuffixInv, UNCHANGED acVars PROVE SuffixInv'
    <3>1. UNCHANGED <<anchors, entry, size, depth, word, match, numMatches, slots, failure>>
      BY <2>1 DEF acVars, treeVars, matchVars, failVars
    <3>2. Nodes' = Nodes
      BY <3>1 DEF Nodes
    <3> QED
      BY <2>1, <3>1, <3>2 DEF SuffixInv, SlotEnds, FirstIsLongest
  <2> QED
    BY <2>1, SuffixInvStep DEF ACNext, Stopped
<1> QED
  BY <1>1, <1>2, ACInvAlways, SlotInvAlways, AnchorInvAlways, PTL DEF ACSpec

\* What a matching node reports ends there, and nothing it reports is longer than
\* the anchor in its first slot, provided malloc returns zeroed memory.
THEOREM ReportsEndAtTheNode ==
    ASSUME FreshCounts = {0}
    PROVE  ACSpec => []ReportsAreSuffixes
<1>1. ASSUME ACInv, SuffixInv PROVE ReportsAreSuffixes
  <2>1. ASSUME NEW n \in Nodes, match[n], NEW k \in 0 .. numMatches[n] - 1
        PROVE  /\ slots[n][k] # NoSlot
               /\ anchors[slots[n][k]] \in ProperSuffixes(word[n]) \cup {word[n]}
               /\ Len(anchors[slots[n][k]]) <= Len(anchors[slots[n][0]])
    <3> DEFINE u == anchors[slots[n][k]]
               w == word[n]
    <3>1. SlotEnds(n, k) /\ slots[n][k] \in Nat \ {0} /\ u \in Seq(Char)
      BY <1>1, SlotFacts
    <3>2. w \in Seq(Char)
      BY <1>1, TypeFacts DEF ACInv
    <3>3. Ends(u, w)
      BY <3>1 DEF SlotEnds
    <3> HIDE DEF u, w
    <3>4. u \in ProperSuffixes(w) \/ u = w
      <4>1. CASE Len(u) < Len(w)
        BY <3>1, <3>2, <3>3, <4>1, ProperSuffixIs
      <4>2. CASE Len(u) = Len(w)
        BY <3>1, <3>2, <3>3, <4>2, EndsOrder
      <4> QED
        BY <3>1, <3>2, <3>3, <4>1, <4>2, WordFacts DEF Ends
    <3> QED
      BY <3>1, <3>4 DEF SlotEnds, NoSlot, u, w
  <2> QED
    BY <1>1, <2>1 DEF ReportsAreSuffixes, Slots, SuffixInv
<1> QED
  BY <1>1, ACInvAlways, SuffixInvAlways, PTL

-----------------------------------------------------------------------------
(* The search links every node once.                                       *)

\* What is ahead of the search is not linked yet, and is ahead only once.
OnceInv ==
    Linking =>
        /\ \A n \in Nodes : \A c \in Chars(n) : failure[n] = NoNode => failure[gotos[n][c]] = NoNode
        /\ \A i, j \in DOMAIN queue : queue[i] = queue[j] => i = j
        /\ \A i \in DOMAIN queue : \A c \in Chars(queue[i]) : failure[gotos[queue[i]][c]] = NoNode
        /\ pc \in {"child", "climb"} =>
              /\ \A i \in DOMAIN queue : queue[i] # parent
              /\ \A i, j \in DOMAIN todo : todo[i] = todo[j] => i = j
              /\ \A i \in DOMAIN todo : failure[gotos[parent][todo[i]]] = NoNode
        /\ pc = "climb" =>
              /\ failure[gotos[parent][char]] = NoNode
              /\ \A i \in DOMAIN todo : todo[i] # char

\* A node is the child of one node for one character.
LEMMA OneParent ==
    ASSUME ACTypeOK, TreeInv, NEW n \in Nodes, NEW m \in Nodes,
           NEW c \in Chars(n), NEW d \in Chars(m), gotos[n][c] = gotos[m][d]
    PROVE  n = m /\ c = d
<1>1. c \in Char /\ d \in Char /\ Append(word[n], c) = Append(word[m], d)
  BY ChildFacts
<1>2. word[n] \in Seq(Char) /\ word[m] \in Seq(Char)
  BY TypeFacts
<1>3. word[n] = word[m] /\ c = d
  <2> DEFINE u == word[n]
             w == word[m]
  <2>1. u \in Seq(Char) /\ w \in Seq(Char) /\ Append(u, c) = Append(w, d)
    BY <1>1, <1>2
  <2> HIDE DEF u, w
  <2>2. u = w /\ c = d
    BY <1>1, <2>1, AppendIsInjective
  <2> QED
    BY <2>2 DEF u, w
<1> QED
  BY <1>3 DEF TreeInv

\* constructFailures keeps OnceInv.
LEMMA OnceInvStep ==
    ASSUME ACInv, OnceInv, constructFailures
    PROVE  OnceInv'
<1>0. ACTypeOK /\ TreeInv /\ FailInv /\ QueueInv /\ ParentInv /\ ClimbInv
  BY DEF ACInv
<1>1. /\ UNCHANGED <<gotos, word, depth>> /\ Nodes' = Nodes /\ Root \in Nodes
      /\ \A n : Chars(n)' = Chars(n)
  BY <1>0, FailuresFrame, TypeFacts
<1>2. /\ queue \in Seq(Nodes) /\ todo \in Seq(Char) /\ parent \in Nodes
      /\ failure \in [Nodes -> Nodes \cup {NoNode}]
  BY <1>0 DEF ACTypeOK
<1>3. CASE StartFailures
  <2>1. /\ pc = "enter" /\ pc' = "dequeue" /\ queue' = ChildrenInOrder(Root)
        /\ failure' = [n \in Nodes |->
                         IF n = Root \/ \E c \in Char : gotos[Root][c] = n
                         THEN Root ELSE failure[n]]
    BY <1>3 DEF StartFailures
  <2>2. \A n \in Nodes : failure[n] = NoNode
    BY <1>0, <2>1 DEF FailInv
  <2>3. ASSUME NEW n \in Nodes, NEW c \in Chars(n), n # Root
        PROVE  failure'[gotos[n][c]] = NoNode
    <3>1. gotos[n][c] \in Nodes /\ gotos[n][c] # Root /\ gotos[n][c] # NoNode
      BY <1>0, ChildFacts
    <3>2. ~ \E d \in Char : gotos[Root][d] = gotos[n][c]
      <4> SUFFICES ASSUME NEW d \in Char, gotos[Root][d] = gotos[n][c] PROVE FALSE
        OBVIOUS
      <4>1. d \in Chars(Root)
        BY <3>1 DEF Chars
      <4> QED
        BY <1>0, <1>1, <2>3, <4>1, OneParent
    <3> QED
      BY <2>1, <2>2, <3>1, <3>2
  <2>4. failure'[Root] # NoNode
    BY <1>1, <2>1 DEF Root, NoNode
  <2>5. /\ \A i, j \in DOMAIN queue' : queue'[i] = queue'[j] => i = j
        /\ \A i \in DOMAIN queue' : queue'[i] \in Nodes \ {Root}
    <3>1. queue' \in Seq(Nodes \ {Root})
      BY <1>0, <1>1, <2>1, ChildrenOrder
    <3> QED
      BY <1>0, <1>1, <2>1, <3>1, ChildrenOrder, WordFacts
  <2> QED
    BY <1>1, <2>1, <2>3, <2>4, <2>5 DEF OnceInv
<1>4. CASE Dequeue
  <2>1. /\ pc = "dequeue" /\ pc' = "child" /\ queue # <<>>
        /\ parent' = Head(queue) /\ queue' = Tail(queue)
        /\ todo' = CharsInOrder(Head(queue)) /\ failure' = failure
    BY <1>4 DEF Dequeue, failVars
  <2>2. PICK n \in Nodes : n = Head(queue) /\ n = queue[1] /\ 1 \in DOMAIN queue
    BY <1>2, <2>1, WordFacts
  <2>3. /\ todo' \in Seq(Chars(n))
        /\ \A i, j \in DOMAIN todo' : todo'[i] = todo'[j] => i = j
    BY <1>0, <2>1, <2>2, CharsOrder
  <2>4. \A i \in DOMAIN todo' : failure[gotos[n][todo'[i]]] = NoNode
    <3>1. \A i \in DOMAIN todo' : todo'[i] \in Chars(n)
      BY <2>3, WordFacts
    <3> QED
      BY <2>1, <2>2, <3>1 DEF OnceInv, Linking
  <2>5. \A i \in DOMAIN queue' : i + 1 \in DOMAIN queue /\ queue'[i] = queue[i + 1] /\ i \in Nat \ {0}
    BY <1>2, <2>1
  <2>6. /\ \A i, j \in DOMAIN queue' : queue'[i] = queue'[j] => i = j
        /\ \A i \in DOMAIN queue' : queue'[i] # n
    BY <2>1, <2>2, <2>5 DEF OnceInv, Linking
  <2>7. \A i \in DOMAIN queue' : \A c \in Chars(queue'[i]) : failure[gotos[queue'[i]][c]] = NoNode
    BY <2>1, <2>5 DEF OnceInv, Linking
  <2> QED
    BY <1>1, <2>1, <2>2, <2>3, <2>4, <2>6, <2>7 DEF OnceInv, Linking
<1>5. CASE NextChild
  <2>1. /\ pc = "child" /\ pc' = "climb" /\ todo # <<>>
        /\ char' = Head(todo) /\ todo' = Tail(todo)
        /\ queue' = Append(queue, gotos[parent][Head(todo)])
        /\ UNCHANGED <<failure, parent>>
    BY <1>5 DEF NextChild, failVars, acGetNextNode
  <2>2. PICK c \in Chars(parent) : c = Head(todo) /\ c = todo[1] /\ 1 \in DOMAIN todo
    <3>1. todo \in Seq(Chars(parent))
      BY <1>0, <2>1 DEF ParentInv
    <3> QED
      BY <2>1, <3>1, WordFacts
  <2> DEFINE s == gotos[parent][c]
  <2>3. s \in Nodes /\ failure[s] = NoNode
    BY <1>0, <1>2, <2>1, <2>2, ChildFacts DEF OnceInv, Linking
  <2>4. \A i \in DOMAIN todo' : i + 1 \in DOMAIN todo /\ todo'[i] = todo[i + 1] /\ i \in Nat \ {0}
    BY <1>2, <2>1
  <2>5. /\ \A i, j \in DOMAIN todo' : todo'[i] = todo'[j] => i = j
        /\ \A i \in DOMAIN todo' : todo'[i] # c
    BY <2>1, <2>2, <2>4 DEF OnceInv, Linking
  <2>6. \A i \in DOMAIN todo' : failure[gotos[parent][todo'[i]]] = NoNode
    BY <2>1, <2>4 DEF OnceInv, Linking
  <2>7. failure[parent] # NoNode /\ \A i \in DOMAIN queue : failure[queue[i]] # NoNode
    BY <1>0, <2>1 DEF ParentInv, QueueInv, Linking
  <2> HIDE DEF s
  <2>8. /\ DOMAIN queue' = 1 .. Len(queue) + 1 /\ DOMAIN queue = 1 .. Len(queue) /\ Len(queue) \in Nat
        /\ queue'[Len(queue) + 1] = s
        /\ \A i \in DOMAIN queue : queue'[i] = queue[i]
    BY <1>2, <2>1, <2>2 DEF s
  <2>9. \A i, j \in DOMAIN queue' : queue'[i] = queue'[j] => i = j
    <3>1. \A i \in DOMAIN queue : queue[i] # s
      BY <2>3, <2>7
    <3>2. \A i \in DOMAIN queue' : i \in DOMAIN queue \/ i = Len(queue) + 1
      BY <2>8
    <3>3. \A i, j \in DOMAIN queue : queue[i] = queue[j] => i = j
      BY <2>1 DEF OnceInv, Linking
    <3> QED
      BY <2>8, <3>1, <3>2, <3>3
  <2>10. \A i \in DOMAIN queue' : \A d \in Chars(queue'[i]) : failure[gotos[queue'[i]][d]] = NoNode
    <3>1. \A i \in DOMAIN queue' : i \in DOMAIN queue \/ i = Len(queue) + 1
      BY <2>8
    <3>2. \A d \in Chars(s) : failure[gotos[s][d]] = NoNode
      BY <2>1, <2>3 DEF OnceInv, Linking
    <3>3. \A i \in DOMAIN queue : \A d \in Chars(queue[i]) : failure[gotos[queue[i]][d]] = NoNode
      BY <2>1 DEF OnceInv, Linking
    <3> QED
      BY <2>8, <3>1, <3>2, <3>3
  <2>11. \A i \in DOMAIN queue' : queue'[i] # parent
    <3>1. \A i \in DOMAIN queue' : i \in DOMAIN queue \/ i = Len(queue) + 1
      BY <2>8
    <3>2. s # parent /\ \A i \in DOMAIN queue : queue[i] # parent
      BY <2>1, <2>3, <2>7 DEF OnceInv, Linking
    <3> QED
      BY <2>8, <3>1, <3>2
  <2>12. \A n \in Nodes : \A d \in Chars(n) : failure[n] = NoNode => failure[gotos[n][d]] = NoNode
    BY <2>1 DEF OnceInv, Linking
  <2> QED
    BY <1>1, <2>1, <2>2, <2>3, <2>5, <2>6, <2>9, <2>10, <2>11, <2>12 DEF OnceInv, Linking, s
<1>6. CASE SetFailure
  <2> DEFINE s == gotos[parent][char]
             f == FailureFound
  <2>1. /\ pc = "climb" /\ pc' = "child" /\ failure' = [failure EXCEPT ![s] = f]
        /\ UNCHANGED <<queue, parent, todo, char>>
    BY <1>6 DEF SetFailure, acGetNextNode, bfsVars
  <2>2. char \in Chars(parent) /\ todo \in Seq(Chars(parent)) /\ failure[parent] # NoNode
    BY <1>0, <2>1 DEF ClimbInv, ParentInv
  <2>3. s \in Nodes /\ failure[s] = NoNode
    BY <1>0, <1>2, <2>1, <2>2, ChildFacts DEF OnceInv, Linking
  <2> HIDE DEF f
  <2>4. \A n \in Nodes : n # s => failure'[n] = failure[n]
    BY <1>2, <2>1, <2>3
  <2>5. \A n \in Nodes : \A c \in Chars(n) : gotos[n][c] \in Nodes /\ (gotos[n][c] = s => n = parent /\ c = char)
    BY <1>0, <1>2, <2>2, ChildFacts, OneParent
  <2>6. failure'[s] # NoNode
    <3>1. f \in Nodes
      <4>1. cur \in Nodes /\ gotos \in [Nodes -> [Char -> Nodes \cup {NoNode}]] /\ char \in Char
        BY <1>0 DEF ACTypeOK
      <4> QED
        BY <1>1, <4>1 DEF f, FailureFound, acGetNextNode
    <3> QED
      BY <1>0, <1>2, <2>1, <2>3, <3>1, TypeFacts
  <2> HIDE DEF s
  <2>7. ASSUME NEW n \in Nodes, NEW c \in Chars(n), failure'[n] = NoNode
        PROVE  failure'[gotos[n][c]] = NoNode
    <3>1. n # s /\ failure[n] = NoNode
      BY <2>4, <2>6, <2>7
    <3>2. gotos[n][c] # s
      BY <2>2, <2>5, <3>1
    <3> QED
      BY <2>1, <2>4, <2>5, <3>1, <3>2 DEF OnceInv, Linking
  <2>8. ASSUME NEW i \in DOMAIN queue, NEW c \in Chars(queue[i])
        PROVE  failure'[gotos[queue[i]][c]] = NoNode
    <3>1. queue[i] \in Nodes /\ queue[i] # parent
      BY <1>2, <2>1, WordFacts DEF OnceInv, Linking
    <3> QED
      BY <2>1, <2>4, <2>5, <3>1 DEF OnceInv, Linking
  <2>9. ASSUME NEW i \in DOMAIN todo
        PROVE  failure'[gotos[parent][todo[i]]] = NoNode
    <3>1. todo[i] \in Chars(parent) /\ todo[i] # char
      BY <2>1, <2>2, WordFacts DEF OnceInv, Linking
    <3> QED
      BY <1>2, <2>1, <2>4, <2>5, <3>1 DEF OnceInv, Linking
  <2>10. /\ \A i, j \in DOMAIN queue : queue[i] = queue[j] => i = j
         /\ \A i \in DOMAIN queue : queue[i] # parent
         /\ \A i, j \in DOMAIN todo : todo[i] = todo[j] => i = j
    BY <2>1 DEF OnceInv, Linking
  <2> QED
    BY <1>1, <2>1, <2>7, <2>8, <2>9, <2>10 DEF OnceInv
<1>7. CASE Climb \/ EndChildren \/ EndFailures
  <2>1. /\ UNCHANGED <<failure, queue, parent, todo, char>>
        /\ \/ pc = "climb" /\ pc' = "climb"
           \/ pc = "child" /\ pc' = "dequeue"
           \/ pc' = "avoid"
    BY <1>7 DEF Climb, EndChildren, EndFailures, failVars, bfsVars
  <2> QED
    BY <1>1, <2>1 DEF OnceInv, Linking
<1> QED
  BY <1>3, <1>4, <1>5, <1>6, <1>7 DEF constructFailures

\* No node is linked twice.
LEMMA OnceInvAlways == ACSpec => []OnceInv
<1>1. ACInit => OnceInv
  BY DEF ACInit, OnceInv, Linking
<1>2. ACInv /\ OnceInv /\ [ACNext]_acVars => OnceInv'
  <2>1. ASSUME OnceInv, UNCHANGED acVars PROVE OnceInv'
    <3>1. UNCHANGED <<pc, size, gotos, failure, queue, parent, todo, char>>
      BY <2>1 DEF acVars, treeVars, failVars, bfsVars
    <3> QED
      BY <2>1, <3>1 DEF OnceInv, Linking, Nodes, Chars
  <2>2. ASSUME enter \/ avoidFailToAcceptingStates PROVE OnceInv'
    <3>1. pc' \notin {"dequeue", "child", "climb"}
      BY <2>2 DEF enter, Walk, createNewNode, SetMatch, Entering, avoidFailToAcceptingStates,
                  Inherit, Fault, Descend, EndBuild
    <3> QED
      BY <3>1 DEF OnceInv, Linking
  <2> QED
    BY <2>1, <2>2, OnceInvStep DEF ACNext, Stopped, BuildStep
<1> QED
  BY <1>1, <1>2, ACInvAlways, PTL DEF ACSpec

-----------------------------------------------------------------------------
(* The counters of the nodes that fail into a node.                        *)

\* The nodes that fail into n.
FailSet(n) == {m \in Nodes : failure[m] = n}

\* m fails into no leaf that avoidFailToAcceptingStates would skip.
Settled(m) == failure[m] = Root \/ ~ IsLeaf(failure[m])

\* A counter is at most what it counts, the counter of a node that is not a leaf
\* is not zero when it should not be, and in the end nobody fails into a leaf.
CountInv ==
    /\ pc = "enter" => \A n \in Nodes : hasFailInto[n] = 0
    /\ \A n \in Nodes \ {Root} : hasFailInto[n] <= Cardinality(FailSet(n))
    /\ \A m \in Nodes : failure[m] \notin {NoNode, Root} /\ ~ IsLeaf(failure[m]) =>
          hasFailInto[failure[m]] > 0
    /\ Late => \A m \in Nodes \ {Root} :
          Settled(m) \/ \E i \in DOMAIN stack : Begins(word[stack[i]], word[m])
    /\ pc = "descend" => stack # <<>> /\ (Head(stack) = Root \/ Settled(Head(stack)))
    /\ pc = "built" => stack = <<>>

\* The nodes are finitely many.
LEMMA FailSetsAreFinite ==
    ASSUME ACTypeOK, NEW n
    PROVE  IsFiniteSet(FailSet(n)) /\ Cardinality(FailSet(n)) \in Nat
<1>1. IsFiniteSet(Nodes)
  BY TypeFacts, FS_Interval, 0 \in Int, size - 1 \in Int DEF Nodes
<1>2. IsFiniteSet(FailSet(n))
  BY <1>1, FS_Subset, FailSet(n) \subseteq Nodes DEF FailSet
<1> QED
  BY <1>2, FS_CardinalityType

\* The same of the nodes after a step.
LEMMA CountsPrimed ==
    ACTypeOK' => \A n : Cardinality(FailSet(n)') \in Nat
<1>1. ACTypeOK => \A n : Cardinality(FailSet(n)) \in Nat
  BY FailSetsAreFinite
<1>2. (ACTypeOK => \A n : Cardinality(FailSet(n)) \in Nat)'
  BY <1>1, PTL
<1> QED
  BY <1>2

\* enter counts nothing.
LEMMA EnterCounts ==
    ASSUME ACInv, CountInv, enter
    PROVE  CountInv'
<1>0. ACInv' /\ ACTypeOK' /\ FailInv'
  BY ACInvStep DEF BuildStep, ACInv
<1>1. pc = "enter" /\ pc' = "enter"
  BY DEF enter, Walk, createNewNode, SetMatch, Entering
<1>2. \A n \in Nodes' : failure'[n] = NoNode
  BY <1>0, <1>1 DEF FailInv
<1>3. \A n \in Nodes' : hasFailInto'[n] = 0
  <2>1. CASE createNewNode
    <3>1. /\ Nodes' = Nodes \cup {size} /\ hasFailInto' = Extended(hasFailInto, 0)
          /\ size \in Nat /\ size \notin Nodes
      BY <2>1, NewNode DEF createNewNode
    <3>2. \A n \in Nodes' : n \in 0 .. size
      BY <3>1 DEF Nodes
    <3> QED
      BY <1>1, <3>1, <3>2 DEF CountInv, Extended
  <2>2. CASE Walk \/ SetMatch
    <3>1. Nodes' = Nodes /\ hasFailInto' = hasFailInto
      BY <2>2 DEF Walk, SetMatch, treeVars, failVars, Nodes
    <3> QED
      BY <1>1, <3>1 DEF CountInv
  <2> QED
    BY <2>1, <2>2 DEF enter
<1>4. \A n : Cardinality(FailSet(n)') \in Nat
  BY <1>0, CountsPrimed
<1>5. \A n \in Nodes' \ {Root} : hasFailInto'[n] <= Cardinality(FailSet(n)')
  BY <1>3, <1>4
<1> QED
  BY <1>1, <1>2, <1>3, <1>5, NoNode' = NoNode, Root' = Root DEF CountInv, Late

\* constructFailures counts the nodes it links.
LEMMA FailuresCounts ==
    ASSUME ACInv, OnceInv, CountInv, constructFailures
    PROVE  CountInv'
<1>0. ACTypeOK /\ TreeInv /\ FailInv /\ ClimbInv /\ hasFailInto \in [Nodes -> Nat]
      /\ failure \in [Nodes -> Nodes \cup {NoNode}]
  BY DEF ACInv, ACTypeOK
<1>1. /\ UNCHANGED <<gotos, word, depth>> /\ Nodes' = Nodes /\ Root \in Nodes
      /\ \A n : Chars(n)' = Chars(n)
      /\ pc' # "enter"
  BY <1>0, FailuresFrame, TypeFacts
<1>a. \A n : IsLeaf(n)' = IsLeaf(n)
  BY <1>1 DEF IsLeaf
<1>2. CASE StartFailures
  <2>1. /\ pc = "enter" /\ pc' = "dequeue" /\ hasFailInto' = hasFailInto
        /\ \A n \in Nodes : failure'[n] \in {failure[n], Root}
    BY <1>2 DEF StartFailures
  <2>2. \A n \in Nodes : failure'[n] \in {NoNode, Root} /\ hasFailInto'[n] = 0
    BY <1>0, <2>1 DEF FailInv, CountInv
  <2>3. \A n \in Nodes \ {Root} : Cardinality(FailSet(n)') \in Nat
    <3>1. ACTypeOK'
      BY FailuresFrame
    <3> QED
      BY <3>1, CountsPrimed
  <2> QED
    BY <1>1, <2>1, <2>2, <2>3, NoNode' = NoNode, Root' = Root DEF CountInv, Late
<1>3. CASE SetFailure
  <2> DEFINE s == gotos[parent][char]
             f == FailureFound
  <2>1. /\ pc = "climb" /\ pc' = "child" /\ failure' = [failure EXCEPT ![s] = f]
        /\ hasFailInto' = [hasFailInto EXCEPT ![f] = @ + 1]
    BY <1>3 DEF SetFailure, acGetNextNode
  <2>2. s \in Nodes /\ failure[s] = NoNode
    <3>1. char \in Chars(parent) /\ parent \in Nodes
      BY <1>0, <2>1 DEF ClimbInv, ACTypeOK
    <3> QED
      BY <1>0, <2>1, <3>1, ChildFacts DEF OnceInv, Linking
  <2>3. f \in Nodes
    <3>1. cur \in Nodes /\ gotos \in [Nodes -> [Char -> Nodes \cup {NoNode}]] /\ char \in Char
      BY <1>0 DEF ACTypeOK
    <3> QED
      BY <1>1, <3>1 DEF FailureFound, acGetNextNode
  <2> HIDE DEF s, f
  <2>4. /\ failure'[s] = f /\ \A n \in Nodes : n # s => failure'[n] = failure[n]
        /\ hasFailInto'[f] = hasFailInto[f] + 1
        /\ \A n \in Nodes : n # f => hasFailInto'[n] = hasFailInto[n]
    BY <1>0, <2>1, <2>2, <2>3
  <2>5. \A n \in Nodes : hasFailInto[n] \in Nat /\ n # NoNode
    BY <1>0 DEF NoNode, Nodes
  <2>6. ASSUME NEW n \in Nodes \ {Root}
        PROVE  hasFailInto'[n] <= Cardinality(FailSet(n)')
    <3>1. hasFailInto[n] <= Cardinality(FailSet(n)) /\ IsFiniteSet(FailSet(n))
          /\ Cardinality(FailSet(n)) \in Nat
      BY <1>0, FailSetsAreFinite DEF CountInv
    <3>2. CASE n = f
      <4>1. FailSet(n)' = FailSet(n) \cup {s} /\ s \notin FailSet(n)
        BY <1>1, <2>2, <2>4, <2>5, <3>2 DEF FailSet
      <4>2. Cardinality(FailSet(n)') = Cardinality(FailSet(n)) + 1
        BY <3>1, <4>1, FS_AddElement
      <4> QED
        BY <2>4, <2>5, <3>1, <3>2, <4>2
    <3>3. CASE n # f
      <4>1. FailSet(n)' = FailSet(n)
        BY <1>1, <2>2, <2>4, <2>5, <3>3 DEF FailSet
      <4> QED
        BY <2>4, <3>1, <3>3, <4>1
    <3> QED
      BY <3>2, <3>3
  <2>7. ASSUME NEW m \in Nodes, failure'[m] \notin {NoNode, Root}, ~ IsLeaf(failure'[m])
        PROVE  hasFailInto'[failure'[m]] > 0
    <3>1. CASE m = s
      BY <2>3, <2>4, <2>5, <3>1
    <3>2. CASE m # s
      <4>1. failure'[m] = failure[m] /\ hasFailInto[failure[m]] > 0 /\ failure[m] \in Nodes
        BY <1>0, <2>4, <2>7, <3>2 DEF CountInv
      <4> QED
        BY <2>4, <2>5, <4>1
    <3> QED
      BY <3>1, <3>2
  <2>8. ~ Late' /\ pc' \notin {"enter", "descend", "built"}
    BY <2>1 DEF Late
  <2>9. \A m \in Nodes' : failure'[m] \notin {NoNode, Root} /\ ~ IsLeaf(failure[m])' =>
          hasFailInto'[failure'[m]] > 0
    BY <1>1, <1>a, <2>7 DEF IsLeaf
  <2> QED
    BY <1>1, <2>6, <2>8, <2>9, NoNode' = NoNode, Root' = Root DEF CountInv
<1>4. CASE ~ StartFailures /\ ~ SetFailure
  <2>1. UNCHANGED <<failure, hasFailInto>>
    BY <1>4 DEF constructFailures, Dequeue, NextChild, Climb, EndChildren, EndFailures, failVars
  <2>2. \A n : FailSet(n)' = FailSet(n)
    BY <1>1, <2>1 DEF FailSet
  <2>3. CASE EndFailures
    <3>1. stack' = <<Root>> /\ pc' = "avoid"
      BY <2>3 DEF EndFailures
    <3>2. \A m \in Nodes : Begins(word[stack'[1]], word[m]) /\ 1 \in DOMAIN stack'
      BY <1>0, <3>1, RootFacts
    <3> QED
      BY <1>1, <2>1, <2>2, <3>1, <3>2, NoNode' = NoNode, Root' = Root DEF CountInv, IsLeaf
  <2>4. CASE ~ EndFailures
    <3>1. pc' \in {"child", "climb", "dequeue"}
      BY <1>4, <2>4 DEF constructFailures, Dequeue, NextChild, Climb, EndChildren
    <3> QED
      BY <1>1, <2>1, <2>2, <3>1, NoNode' = NoNode, Root' = Root DEF CountInv, IsLeaf, Late
  <2> QED
    BY <2>3, <2>4
<1> QED
  BY <1>2, <1>3, <1>4

\* A node that skips a matching leaf is counted off there.  It is not counted
\* where it goes, but the leaf is, if that node is not a leaf itself.
LEMMA InheritCounts ==
    ASSUME ACInv, CountInv, Inherit
    PROVE  CountInv'
<1>0. /\ ACTypeOK /\ TreeInv /\ hasFailInto \in [Nodes -> Nat]
      /\ failure \in [Nodes -> Nodes \cup {NoNode}]
  BY DEF ACInv, ACTypeOK
<1>1. PICK n \in Nodes : LET f == failure[n] IN
      /\ n = Head(stack) /\ n # Root /\ f \in Nodes /\ f # Root /\ match[f]
      /\ failure[f] \in Nodes
      /\ Ends(word[f], word[n]) /\ depth[f] < depth[n]
      /\ match'[n] /\ \A m \in Nodes : m # n => match'[m] = match[m]
      /\ \A m \in Nodes : m # n => failure'[m] = failure[m]
      /\ \/ failure'[n] = f
         \/ failure'[n] = failure[f] /\ IsLeaf(f)
  BY InheritFacts
<1> DEFINE f == failure[n]
           g == failure[f]
<1>2. /\ UNCHANGED <<word, depth, gotos>> /\ Nodes' = Nodes /\ Late /\ Late'
      /\ \A m : Chars(m)' = Chars(m)
  BY AvoidFrame DEF avoidFailToAcceptingStates
<1>3. \A m : IsLeaf(m)' = IsLeaf(m)
  BY <1>2 DEF IsLeaf
<1>4. /\ pc = "avoid" /\ stack' = stack /\ stack # <<>>
      /\ IF IsLeaf(f)
         THEN /\ hasFailInto' = [hasFailInto EXCEPT ![f] = ReleasedCount(@)]
              /\ failure' = [failure EXCEPT ![n] = g]
              /\ UNCHANGED pc
         ELSE pc' = "descend" /\ UNCHANGED <<failure, hasFailInto>>
  BY <1>1 DEF Inherit, Skipped, failVars
<1>5. stack \in Seq(Nodes) /\ 1 \in DOMAIN stack /\ stack[1] = n
  BY <1>0, <1>1, <1>4, WordFacts DEF ACTypeOK
<1>6. ASSUME NEW m \in Nodes \ {Root}
      PROVE  Settled(m)' \/ \E i \in DOMAIN stack : Begins(word[stack[i]], word[m])
  <2>1. CASE m = n
    <3>1. Begins(word[n], word[n])
      BY <1>0, TypeFacts, Len(word[n]) \in Nat DEF Begins
    <3> QED
      BY <1>5, <2>1, <3>1
  <2>2. CASE m # n
    BY <1>1, <1>2, <1>3, <2>2, Root' = Root DEF CountInv, Settled
  <2> QED
    BY <2>1, <2>2
<1>7. CASE ~ IsLeaf(f)
  <2>1. UNCHANGED <<failure, hasFailInto>> /\ pc' = "descend"
    BY <1>4, <1>7
  <2>2. \A p : FailSet(p)' = FailSet(p)
    BY <1>2, <2>1 DEF FailSet
  <2>3. Settled(n)'
    BY <1>3, <1>7, <2>1 DEF Settled
  <2>4. \A m \in Nodes : failure'[m] \notin {NoNode, Root} /\ ~ IsLeaf(failure[m])' =>
          hasFailInto'[failure'[m]] > 0
    BY <1>2, <2>1 DEF CountInv, IsLeaf
  <2>5. Head(stack') = n /\ stack' # <<>>
    BY <1>1, <1>4
  <2>6. Settled(Head(stack))'
    BY <2>3, <2>5 DEF Settled
  <2> QED
    BY <1>2, <1>4, <1>6, <2>1, <2>2, <2>4, <2>5, <2>6, NoNode' = NoNode, Root' = Root DEF CountInv
<1>8. CASE IsLeaf(f)
  <2>1. /\ failure'[n] = g /\ \A m \in Nodes : m # n => failure'[m] = failure[m]
        /\ hasFailInto'[f] = ReleasedCount(hasFailInto[f])
        /\ \A p \in Nodes : p # f => hasFailInto'[p] = hasFailInto[p]
        /\ pc' = "avoid"
    BY <1>0, <1>1, <1>4, <1>8
  <2>2. g # f
    <3>1. LinkOK(f) /\ failure[f] # NoNode
      <4>1. f \in Nodes \ {Root} /\ NoNode \notin Nodes
        BY <1>0, <1>1, TypeFacts
      <4> QED
        BY <1>1, <4>1 DEF ACInv, FailInv
    <3>2. depth[g] < depth[f] /\ depth[f] \in Nat
      BY <1>0, <1>1, <3>1, TypeFacts DEF LinkOK
    <3> QED
      BY <3>2
  <2>3. f \in Nodes \ {Root} /\ g \in Nodes
    BY <1>1
  <2>a. f = failure[n]
    OBVIOUS
  <2>b. g = failure[f]
    OBVIOUS
  <2> HIDE DEF f, g
  <2>4. ASSUME NEW p \in Nodes \ {Root}
        PROVE  hasFailInto'[p] <= Cardinality(FailSet(p)')
    <3>1. /\ hasFailInto[p] <= Cardinality(FailSet(p)) /\ IsFiniteSet(FailSet(p))
          /\ Cardinality(FailSet(p)) \in Nat /\ hasFailInto[p] \in Nat
      BY <1>0, FailSetsAreFinite DEF CountInv
    <3>2. CASE p = f
      <4>1. FailSet(p)' = FailSet(p) \ {n} /\ n \in FailSet(p)
        BY <1>2, <2>1, <2>2, <2>a, <3>2 DEF FailSet
      <4>2. IsFiniteSet(FailSet(p)') /\ Cardinality(FailSet(p)') = Cardinality(FailSet(p)) - 1
        BY <3>1, <4>1, FS_RemoveElement
      <4>3. Cardinality(FailSet(p)') \in Nat
        BY <4>2, FS_CardinalityType
      <4> QED
        BY <2>1, <3>1, <3>2, <4>2, <4>3 DEF ReleasedCount
    <3>3. CASE p = g
      <4>1. FailSet(p)' = FailSet(p) \cup {n} /\ n \notin FailSet(p)
        BY <1>2, <2>1, <2>2, <2>a, <3>3 DEF FailSet
      <4>2. Cardinality(FailSet(p)') = Cardinality(FailSet(p)) + 1
        BY <3>1, <4>1, FS_AddElement
      <4> QED
        BY <2>1, <2>2, <3>1, <3>3, <4>2
    <3>4. CASE p # f /\ p # g
      <4>1. FailSet(p)' = FailSet(p)
        BY <1>2, <2>1, <2>a, <3>4 DEF FailSet
      <4> QED
        BY <2>1, <3>1, <3>4, <4>1
    <3> QED
      BY <3>2, <3>3, <3>4
  <2>5. ASSUME NEW m \in Nodes, failure'[m] \notin {NoNode, Root}, ~ IsLeaf(failure'[m])
        PROVE  hasFailInto'[failure'[m]] > 0
    <3>1. failure'[m] \in Nodes /\ failure'[m] # f
      BY <1>0, <1>8, <2>1, <2>3, <2>5 DEF f
    <3>2. hasFailInto[failure'[m]] > 0
      <4>1. CASE m = n
        BY <2>1, <2>3, <2>5, <2>b, <4>1 DEF CountInv
      <4>2. CASE m # n
        BY <2>1, <2>5, <4>2 DEF CountInv
      <4> QED
        BY <4>1, <4>2
    <3> QED
      BY <2>1, <3>1, <3>2
  <2>6. \A m \in Nodes : failure'[m] \notin {NoNode, Root} /\ ~ IsLeaf(failure[m])' =>
          hasFailInto'[failure'[m]] > 0
    BY <1>2, <2>5 DEF IsLeaf
  <2> QED
    BY <1>2, <1>4, <1>6, <2>1, <2>4, <2>6, NoNode' = NoNode, Root' = Root DEF CountInv
<1> QED
  BY <1>7, <1>8

\* A node is left only when it is settled.
LEMMA AvoidCounts ==
    ASSUME ACInv, SlotInv, AnchorInv, CountInv, avoidFailToAcceptingStates, ~ Inherit
    PROVE  CountInv'
<1>0. ACTypeOK /\ TreeInv
  BY DEF ACInv
<1>1. /\ UNCHANGED <<word, depth, gotos>> /\ Nodes' = Nodes /\ Late /\ Late' /\ pc # "enter"
      /\ \A m : Chars(m)' = Chars(m)
  BY AvoidFrame
<1>2. UNCHANGED <<failure, hasFailInto>>
  BY DEF avoidFailToAcceptingStates, Fault, Descend, EndBuild, failVars
<1>3. /\ \A m : IsLeaf(m)' = IsLeaf(m)
      /\ \A m : FailSet(m)' = FailSet(m)
  BY <1>1, <1>2 DEF IsLeaf, FailSet
<1>4. \A m : Settled(m)' = Settled(m)
  BY <1>1, <1>2, Root' = Root DEF Settled, IsLeaf
<1>5. \A m \in Nodes : failure'[m] \notin {NoNode, Root} /\ ~ IsLeaf(failure[m])' =>
        hasFailInto'[failure'[m]] > 0
  BY <1>1, <1>2 DEF CountInv, IsLeaf
<1>6. CASE Fault \/ EndBuild
  <2>1. stack' = stack /\ (pc' = "fault" \/ (pc' = "built" /\ stack = <<>>))
    BY <1>6 DEF Fault, EndBuild
  <2> QED
    BY <1>1, <1>2, <1>3, <1>4, <1>5, <2>1, NoNode' = NoNode, Root' = Root DEF CountInv
<1>7. CASE Descend
  <2>1. /\ stack # <<>> /\ pc' = "avoid"
        /\ pc = "descend" \/ (pc = "avoid" /\ ~ match[failure[Head(stack)]])
    BY <1>7 DEF Descend
  <2>a. stack \in Seq(Nodes)
    BY <1>0 DEF ACTypeOK
  <2>b. Head(stack) \in Nodes
    BY <2>1, <2>a, WordFacts
  <2>2. PICK h \in Nodes : h = Head(stack)
    BY <2>b
  <2>3. h = Root \/ Settled(h)
    <3>1. CASE pc = "descend"
      BY <2>2, <3>1 DEF CountInv
    <3>2. CASE ~ match[failure[h]]
      <4> SUFFICES ASSUME failure[h] # Root, IsLeaf(failure[h]) PROVE FALSE
        BY DEF Settled
      <4>1. failure[h] \in Nodes \ {Root}
        BY <1>0, <1>1, TypeFacts DEF ACInv, FailInv
      <4>2. message[failure[h]] # NoSlot
        BY <1>1, <4>1, LeafHasAnchor
      <4> QED
        BY <3>2, <4>1, <4>2 DEF SlotInv
    <3> QED
      BY <2>1, <2>2, <3>1, <3>2
  <2>4. ASSUME NEW m \in Nodes \ {Root}
        PROVE  Settled(m) \/ \E i \in DOMAIN stack' : Begins(word[stack'[i]], word[m])
    BY <1>1, <1>7, <2>2, <2>3, DescendCovers DEF CountInv
  <2> QED
    BY <1>1, <1>2, <1>3, <1>4, <1>5, <2>1, <2>4, NoNode' = NoNode, Root' = Root DEF CountInv
<1> QED
  BY <1>6, <1>7 DEF avoidFailToAcceptingStates

\* The counters at every step.
LEMMA CountInvAlways == ACSpec => []CountInv
<1>1. ACInit => CountInv
  <2> SUFFICES ASSUME ACInit PROVE CountInv
    OBVIOUS
  <2>1. Nodes = {Root} /\ hasFailInto[Root] = 0 /\ failure[Root] = NoNode /\ pc = "enter"
    BY DEF ACInit, Nodes, Root
  <2> QED
    BY <2>1 DEF CountInv, Late
<1>2. ACInv /\ OnceInv /\ SlotInv /\ AnchorInv /\ CountInv /\ [ACNext]_acVars => CountInv'
  <2>1. ASSUME CountInv, UNCHANGED acVars PROVE CountInv'
    <3>1. UNCHANGED <<pc, size, gotos, word, failure, hasFailInto, stack>>
      BY <2>1 DEF acVars, treeVars, failVars
    <3>2. Nodes' = Nodes
      BY <3>1 DEF Nodes
    <3> QED
      BY <2>1, <3>1, <3>2 DEF CountInv, Settled, FailSet, IsLeaf, Chars, Late
  <2> QED
    BY <2>1, EnterCounts, FailuresCounts, InheritCounts, AvoidCounts
    DEF ACNext, Stopped, BuildStep
<1> QED
  BY <1>1, <1>2, ACInvAlways, OnceInvAlways, SlotInvAlways, AnchorInvAlways, PTL DEF ACSpec

\* "TRUE if some other node fails into this node" (ACTypes.h): in the finished
\* tree a node's hasFailInto is zero just when nobody fails into it, although
\* the counter does not follow every move of a failure pointer.
THEOREM HasFailIntoIsKept == ACSpec => []HasFailIntoIsRight
<1>1. ASSUME ACInv, CountInv PROVE HasFailIntoIsRight
  <2> SUFFICES ASSUME pc = "built", NEW n \in Nodes \ {Root}
               PROVE  hasFailInto[n] > 0 <=> \E m \in Nodes : failure[m] = n
    BY DEF HasFailIntoIsRight
  <2>0. ACTypeOK
    BY <1>1 DEF ACInv
  <2>1. ASSUME hasFailInto[n] > 0 PROVE \E m \in Nodes : failure[m] = n
    <3>1. Cardinality(FailSet(n)) # 0
      BY <1>1, <2>0, <2>1 DEF CountInv, ACTypeOK
    <3>2. FailSet(n) # {}
      BY <3>1, FS_EmptySet
    <3> QED
      BY <3>2 DEF FailSet
  <2>2. ASSUME NEW m \in Nodes, failure[m] = n PROVE hasFailInto[n] > 0
    <3>1. m # Root
      BY <1>1, <2>2 DEF ACInv, FailInv
    <3>2. Settled(m)
      <4>1. stack = <<>> /\ Late
        BY <1>1 DEF CountInv, Late
      <4>2. DOMAIN stack = {}
        BY <4>1
      <4> QED
        BY <1>1, <3>1, <4>1, <4>2 DEF CountInv
    <3>3. n # NoNode
      BY <2>0, TypeFacts
    <3> QED
      BY <1>1, <2>2, <3>2, <3>3 DEF CountInv, Settled
  <2> QED
    BY <2>1, <2>2
<1> QED
  BY <1>1, ACInvAlways, CountInvAlways, PTL

-----------------------------------------------------------------------------
(* The counter of the root.                                                *)

\* Nodes that fail into the root, but for its children, are counted there.
RootInv == \A n \in Nodes : failure[n] = Root /\ depth[n] > 1 => hasFailInto[Root] > 0

\* A step of constructFailures keeps that.
LEMMA FailuresRoot ==
    ASSUME ACInv, RootInv, constructFailures
    PROVE  RootInv'
<1>1. /\ UNCHANGED <<size, gotos, depth>> /\ Nodes' = Nodes /\ ACTypeOK /\ TreeInv
  BY FailuresFrame DEF ACInv
<1>2. SUFFICES ASSUME NEW n \in Nodes, failure'[n] = Root, depth[n] > 1
               PROVE  hasFailInto'[Root] > 0
  BY <1>1 DEF RootInv
<1>3. Root # NoNode /\ Root \in Nodes
  BY <1>1, TypeFacts
<1>4. CASE StartFailures
  <2>1. failure[n] = NoNode
    BY <1>4 DEF StartFailures, ACInv, FailInv
  <2>2. n # Root
    BY <1>1, <1>2, RootFacts
  <2>3. failure' = [m \in Nodes |-> IF m = Root \/ \E c \in Char : gotos[Root][c] = m THEN Root ELSE failure[m]]
    BY <1>4 DEF StartFailures
  <2>4. PICK c \in Char : gotos[Root][c] = n
    BY <1>2, <1>3, <2>1, <2>2, <2>3
  <2>5. c \in Chars(Root)
    BY <1>1, <2>4, TypeFacts DEF Chars
  <2>6. depth[n] = 0 + 1
    BY <1>1, <1>3, <2>4, <2>5, ChildFacts, RootFacts
  <2> QED
    BY <1>2, <2>6
<1>5. CASE SetFailure
  <2>1. /\ failure' = [failure EXCEPT ![acGetNextNode(parent, char)] = FailureFound]
        /\ hasFailInto' = [hasFailInto EXCEPT ![FailureFound] = @ + 1]
    BY <1>5 DEF SetFailure
  <2>2. hasFailInto \in [Nodes -> Nat] /\ failure \in [Nodes -> Nodes \cup {NoNode}]
    BY <1>1 DEF ACTypeOK
  <2>3. CASE n = acGetNextNode(parent, char)
    <3>1. FailureFound = Root
      BY <1>2, <2>1, <2>2, <2>3
    <3> QED
      BY <1>3, <2>1, <2>2, <3>1
  <2>4. CASE n # acGetNextNode(parent, char)
    <3>1. hasFailInto[Root] > 0
      BY <1>2, <2>1, <2>2, <2>4 DEF RootInv
    <3> QED
      BY <1>3, <2>1, <2>2, <3>1
  <2> QED
    BY <2>3, <2>4
<1>6. CASE UNCHANGED failVars
  BY <1>2, <1>6 DEF RootInv, failVars
<1> QED
  BY <1>4, <1>5, <1>6 DEF constructFailures, Dequeue, NextChild, Climb, EndChildren, EndFailures

\* Nor does a leaf that is skipped change it: one that fails into the root is
\* no child of the root.
LEMMA InheritRoot ==
    ASSUME \A w \in Strings : Len(w) # 1, ACInv, SlotInv, AnchorInv, RootInv, Inherit
    PROVE  RootInv'
<1>1. ACTypeOK /\ TreeInv /\ UNCHANGED <<size, depth>> /\ Nodes' = Nodes /\ pc # "enter"
  BY AvoidFrame DEF ACInv, avoidFailToAcceptingStates
<1>2. PICK h \in Nodes :
          /\ h = Head(stack) /\ failure[h] \in Nodes /\ failure[h] # Root
          /\ depth[failure[h]] < depth[h]
          /\ \A m \in Nodes : m # h => failure'[m] = failure[m]
          /\ failure'[h] = failure[h] \/ (failure'[h] = failure[failure[h]] /\ IsLeaf(failure[h]))
  BY InheritFacts
<1>3. hasFailInto'[Root] = hasFailInto[Root]
  <2>1. hasFailInto' = hasFailInto \/ hasFailInto' = [hasFailInto EXCEPT ![failure[h]] = ReleasedCount(@)]
    BY <1>2 DEF Inherit, failVars
  <2> QED
    BY <1>1, <1>2, <2>1, TypeFacts DEF ACTypeOK
<1>4. SUFFICES ASSUME NEW n \in Nodes, failure'[n] = Root, depth[n] > 1
               PROVE  hasFailInto[Root] > 0
  BY <1>1, <1>3 DEF RootInv
<1>5. CASE failure[n] = Root
  BY <1>4, <1>5 DEF RootInv
<1>6. CASE failure[n] # Root
  <2> DEFINE f == failure[h]
  <2>1. n = h /\ failure[f] = Root /\ IsLeaf(f) /\ f \in Nodes \ {Root}
    BY <1>2, <1>4, <1>6
  <2>2. message[f] # NoSlot
    BY <1>1, <2>1, LeafHasAnchor
  <2>3. word[f] = anchors[message[f]] /\ message[f] \in 1 .. entry - 1
    BY <2>1, <2>2 DEF SlotInv
  <2>4. word[f] \in Strings
    <3>1. \A e \in 1 .. entry - 1 : e <= Len(anchors)
      BY DEF ACInv, EnterInv
    <3>2. anchors \in Seq(Strings) /\ entry \in Nat
      BY <1>1 DEF ACTypeOK
    <3>3. message[f] \in 1 .. Len(anchors)
      BY <2>3, <3>1, <3>2
    <3> QED
      BY <2>3, <3>2, <3>3
  <2>5. depth[f] # 1
    BY <2>1, <2>4 DEF ACInv, TreeInv
  <2>6. depth[f] # 0 /\ depth[f] \in Nat
    BY <1>1, <2>1, RootFacts, TypeFacts
  <2> HIDE DEF f
  <2> QED
    BY <2>1, <2>5, <2>6 DEF RootInv
<1> QED
  BY <1>5, <1>6

\* Without strings of one character RootInv always holds.
LEMMA RootInvAlways ==
    ASSUME \A w \in Strings : Len(w) # 1
    PROVE  ACSpec => []RootInv
<1>1. ACInit => RootInv
  BY DEF ACInit, RootInv, Nodes, Root, NoNode
<1>2. ACInv /\ SlotInv /\ AnchorInv /\ RootInv /\ [ACNext]_acVars => RootInv'
  <2> SUFFICES ASSUME ACInv, SlotInv, AnchorInv, RootInv, [ACNext]_acVars PROVE RootInv'
    OBVIOUS
  <2>1. CASE UNCHANGED <<size, depth, failVars>>
    BY <2>1 DEF RootInv, failVars, Nodes
  <2>2. CASE enter
    <3>1. pc = "enter"
      BY <2>2 DEF enter, Walk, createNewNode, SetMatch, Entering
    <3>2. \A n \in Nodes : failure[n] = NoNode
      BY <3>1 DEF ACInv, FailInv
    <3>3. CASE createNewNode
      <4>1. \A n \in Nodes' : failure'[n] = NoNode
        BY <3>2, <3>3, NewNode
      <4> QED
        BY <4>1 DEF RootInv, NoNode, Root
    <3>4. CASE Walk \/ SetMatch
      BY <2>1, <3>4 DEF Walk, SetMatch, treeVars
    <3> QED
      BY <2>2, <3>3, <3>4 DEF enter
  <2>3. CASE constructFailures
    BY <2>3, FailuresRoot
  <2>4. CASE Inherit
    BY <2>4, InheritRoot
  <2>5. CASE Fault \/ Descend \/ EndBuild
    BY <2>1, <2>5 DEF Fault, Descend, EndBuild, treeVars
  <2>6. CASE UNCHANGED acVars
    BY <2>1, <2>6 DEF acVars, treeVars
  <2> QED
    BY <2>2, <2>3, <2>4, <2>5, <2>6 DEF ACNext, Stopped, BuildStep, avoidFailToAcceptingStates
<1> QED
  BY <1>1, <1>2, ACInvAlways, SlotInvAlways, AnchorInvAlways, PTL DEF ACSpec
=============================================================================
