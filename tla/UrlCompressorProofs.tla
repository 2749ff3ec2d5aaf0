------------------------- MODULE UrlCompressorProofs -------------------------
(***************************************************************************)
(* Proofs about the modules TableMachine and UrlCompressor.                *)
(*                                                                         *)
(* Of the table machine: its type invariant, and that it implements the    *)
(* specification of a matcher.  The table has an entry for every state and *)
(* character.  GotoIs says what the recursion along the failure pointers   *)
(* finds for it, the node of the longest end of the text the tree knows.   *)
(* TMInv says that the states written so far are those, that putStates     *)
(* still reaches the others, and that the scan is at the node of the       *)
(* longest known end of its input.                                         *)
(*                                                                         *)
(* Of the compressor, which reads that table: its type invariant, that the *)
(* anchors it finds fit in the prefix read, that the walk back emits as    *)
(* many bits as P promised, and that without inner anchors it emits the    *)
(* URL.  The walk back follows what the loop wrote, so UCInv keeps for     *)
(* every position read where its anchors came from (Fitting) and that P is *)
(* the sum of the code chosen there and of P where that code begins        *)
(* (SizeRight).  What FoundAt finds is traced through GetLongestAnchor and *)
(* the states of the table to the words of the tree (FoundFits, FoundEnds).*)
(***************************************************************************)
EXTENDS UrlCompressor, ACBuilderProofs, SequenceTheorems

-----------------------------------------------------------------------------
(* The goto found along the failure chain.                                 *)

Known == {word[n] : n \in Nodes}

\* The words of the tree are closed under prefixes.
LEMMA KnownFacts ==
    ASSUME ACTypeOK, TreeInv
    PROVE  Known \subseteq Seq(Char) /\ PrefixClosed(Known, Char) /\ <<>> \in Known
<1>1. Known \subseteq Seq(Char)
  BY TypeFacts DEF Known
<1>2. <<>> \in Known
  BY TypeFacts DEF Known, TreeInv
<1>3. ASSUME NEW u \in Seq(Char), NEW c \in Char, Append(u, c) \in Known
      PROVE  u \in Known
  <2>1. PICK m \in Nodes : word[m] = Append(u, c)
    BY <1>3 DEF Known
  <2> QED
    BY <2>1, GotoOfWord DEF Known
<1> QED
  BY <1>1, <1>2, <1>3 DEF PrefixClosed

\* The node of the longest end of a text that the tree knows.
NodeOf(text) == CHOOSE k \in Nodes : word[k] = Longest(Known, text)

\* There is exactly one node for the longest end of a text.
LEMMA NodeOfIs ==
    ASSUME ACTypeOK, TreeInv, NEW text \in Seq(Char)
    PROVE  /\ NodeOf(text) \in Nodes /\ word[NodeOf(text)] = Longest(Known, text)
           /\ \A k \in Nodes : word[k] = Longest(Known, text) => k = NodeOf(text)
<1>1. Longest(Known, text) \in Known
  BY KnownFacts, LongestIs
<1>2. \E k \in Nodes : word[k] = Longest(Known, text)
  BY <1>1 DEF Known
<1>3. NodeOf(text) \in Nodes /\ word[NodeOf(text)] = Longest(Known, text)
  BY <1>2 DEF NodeOf
<1> QED
  BY <1>3 DEF TreeInv

\* A failure node knows all the ends a node has no goto for.
LEMMA EndsOfFailure ==
    ASSUME ACInv, Late, NEW n \in Nodes, n # Root, NEW c \in Char, gotos[n][c] = NoNode
    PROVE  /\ failure[n] \in Nodes /\ depth[failure[n]] < depth[n]
           /\ Longest(Known, Append(word[n], c)) = Longest(Known, Append(word[failure[n]], c))
<1> DEFINE f == failure[n]
           u == word[n]
           v == word[f]
<1>0. ACTypeOK /\ TreeInv /\ LinkOK(n) /\ f # NoNode
  BY DEF ACInv, FailInv
<1>1. f \in Nodes /\ Ends(v, u) /\ depth[f] < depth[n]
  BY <1>0, TypeFacts DEF LinkOK
<1>2. /\ \A m \in Nodes : word[m] \in Seq(Char) /\ depth[m] \in Nat /\ depth[m] = Len(word[m])
      /\ \A m \in Nodes, k \in Nodes : word[m] = word[k] => m = k
  BY <1>0, TypeFacts DEF TreeInv
<1>3. u \in Seq(Char) /\ v \in Seq(Char)
  BY <1>1, <1>2
<1> HIDE DEF u, v
<1> DEFINE x == Append(u, c)
           y == Append(v, c)
<1>4. x \in Seq(Char) /\ y \in Seq(Char) /\ Ends(y, x)
  BY <1>1, <1>3, EndsAppend
<1>5. ASSUME NEW t \in Known, Ends(t, x)
      PROVE  Ends(t, y)
  <2>0. t \in Seq(Char)
    BY <1>0, KnownFacts
  <2>1. CASE t = <<>>
    BY <1>4, <2>1, EndsOrder
  <2>2. CASE t # <<>>
    <3>1. PICK a \in Seq(Char), d \in Char : t = Append(a, d)
      BY <2>0, <2>2, FrontAndLast
    <3>2. d = c /\ Ends(a, u)
      BY <1>3, <1>5, <3>1, EndsAppend
    <3>3. PICK m \in Nodes : word[m] = t
      BY DEF Known
    <3>4. PICK p \in Nodes : word[p] = a /\ gotos[p][c] = m
      BY <1>0, <3>1, <3>2, <3>3, GotoOfWord
    <3>5. gotos[p][c] # NoNode
      BY <1>0, <3>3, <3>4, TypeFacts
    <3>6. p # n /\ ~ IsLeaf(p)
      BY <3>5 DEF IsLeaf, Chars
    <3>7. Len(a) <= Len(u)
      BY <3>2 DEF Ends
    <3>8. depth[p] < depth[n]
      <4>1. depth[p] = Len(a) /\ depth[n] = Len(u) /\ depth[p] \in Nat /\ depth[n] \in Nat
        BY <1>2, <3>4 DEF u
      <4>2. Len(a) # Len(u)
        BY <1>2, <1>3, <3>1, <3>2, <3>4, <3>6, EndsOrder DEF u
      <4> QED
        BY <3>7, <4>1, <4>2
    <3>9. depth[p] <= depth[f]
      BY <1>0, <1>1, <1>2, <3>2, <3>4, <3>6, <3>8 DEF LinkOK, u
    <3>10. Len(a) <= Len(v)
      BY <1>1, <1>2, <3>4, <3>9 DEF v
    <3>11. Ends(a, v)
      BY <1>1, <1>3, <3>1, <3>2, <3>10, EndsOrder
    <3> QED
      BY <1>3, <3>1, <3>2, <3>11, EndsAppend
  <2> QED
    BY <2>1, <2>2
<1> DEFINE w == Longest(Known, y)
<1> HIDE DEF x, y
<1>6. w \in Known /\ Ends(w, y) /\ \A t \in Known : Ends(t, y) => Ends(t, w)
  BY <1>0, <1>4, KnownFacts, LongestIs
<1>7. w \in Seq(Char)
  BY <1>0, <1>6, KnownFacts
<1> HIDE DEF w
<1>8. Ends(w, x)
  BY <1>4, <1>6, <1>7, EndsOrder
<1>9. \A t \in Known : Ends(t, x) => Len(t) <= Len(w)
  BY <1>5, <1>6 DEF Ends
<1>10. w = Longest(Known, x)
  BY <1>0, <1>4, <1>6, <1>8, <1>9, KnownFacts, LongestUnique
<1> QED
  BY <1>1, <1>10 DEF x, y, u, v, w

\* What the recursion along the failure pointers has to satisfy ...
LEMMA GotoEquation ==
    ASSUME ACInv, Late, NEW n \in Nodes, NEW c \in Char
    PROVE  NodeOf(Append(word[n], c)) =
             IF gotos[n][c] # NoNode THEN gotos[n][c]
             ELSE IF n = Root THEN Root ELSE NodeOf(Append(word[failure[n]], c))
<1>0. ACTypeOK /\ TreeInv
  BY DEF ACInv
<1> DEFINE u == word[n]
           x == Append(u, c)
<1>1. u \in Seq(Char) /\ x \in Seq(Char)
  BY <1>0, TypeFacts
<1>2. CASE gotos[n][c] # NoNode
  <2> DEFINE k == gotos[n][c]
  <2>1. k \in Nodes /\ word[k] = x
    BY <1>0, <1>2, TypeFacts DEF TreeInv
  <2> HIDE DEF k, u, x
  <2>2. x \in Known
    BY <2>1 DEF Known
  <2>3. Ends(x, x) /\ \A t \in Known : Ends(t, x) => Len(t) <= Len(x)
    BY <1>1, EndsOrder DEF Ends
  <2>4. x = Longest(Known, x)
    BY <1>0, <1>1, <2>2, <2>3, KnownFacts, LongestUnique
  <2>5. k = NodeOf(x)
    BY <1>0, <1>1, <2>1, <2>4, NodeOfIs
  <2> QED
    BY <1>2, <2>5 DEF k, x, u
<1>3. CASE gotos[n][c] = NoNode /\ n = Root
  <2>1. u = <<>>
    BY <1>0, <1>3 DEF TreeInv
  <2> HIDE DEF u
  <2>2. ASSUME NEW t \in Known, Ends(t, x)
        PROVE  t = <<>>
    <3> SUFFICES ASSUME t # <<>> PROVE FALSE
      OBVIOUS
    <3>1. t \in Seq(Char)
      BY <1>0, KnownFacts
    <3>2. PICK a \in Seq(Char), d \in Char : t = Append(a, d)
      BY <3>1, FrontAndLast
    <3>3. d = c /\ Ends(a, u)
      BY <1>1, <2>2, <3>2, EndsAppend
    <3>4. a = u
      BY <1>1, <2>1, <3>2, <3>3 DEF Ends
    <3>5. PICK m \in Nodes : word[m] = t
      BY DEF Known
    <3>6. gotos[n][c] = m
      BY <1>0, <3>2, <3>3, <3>4, <3>5, GotoOfWord DEF u
    <3> QED
      BY <1>0, <1>3, <3>6, TypeFacts
  <2> HIDE DEF x
  <2>3. Longest(Known, x) = <<>>
    BY <1>0, <1>1, <2>2, KnownFacts, LongestIs
  <2>4. Root = NodeOf(x)
    BY <1>0, <1>1, <2>3, NodeOfIs, TypeFacts DEF TreeInv
  <2> QED
    BY <1>3, <2>4 DEF x, u
<1>4. CASE gotos[n][c] = NoNode /\ n # Root
  BY <1>4, EndsOfFailure DEF NodeOf
<1> QED
  BY <1>2, <1>3, <1>4

\* ... and what it therefore finds: the node of the longest end of the word
\* and the character.
LEMMA GotoIs ==
    ASSUME ACInv, Late, NEW n \in Nodes, NEW c \in Char
    PROVE  GotoAlongFailures(n, c) = NodeOf(Append(word[n], c))
<1>0. ACTypeOK /\ TreeInv
  BY DEF ACInv
<1> DEFINE Chain(h) ==
             h = [m \in Nodes |-> IF gotos[m][c] # NoNode THEN gotos[m][c]
                                  ELSE IF m = Root THEN Root ELSE h[failure[m]]]
           g == [m \in Nodes |-> NodeOf(Append(word[m], c))]
<1>1. \A m \in Nodes : gotos[m][c] = NoNode /\ m # Root => failure[m] \in Nodes /\ depth[failure[m]] < depth[m]
  BY EndsOfFailure
<1>2. Chain(g)
  <2>1. ASSUME NEW m \in Nodes
        PROVE  g[m] = IF gotos[m][c] # NoNode THEN gotos[m][c]
                      ELSE IF m = Root THEN Root ELSE g[failure[m]]
    BY <1>1, GotoEquation
  <2> QED
    BY <2>1
<1> HIDE DEF g
<1>3. ASSUME NEW h, Chain(h)
      PROVE  h[n] = g[n]
  <2> DEFINE Bad == {m \in Nodes : h[m] # g[m]}
             D == {depth[m] : m \in Bad}
  <2> SUFFICES ASSUME Bad # {} PROVE FALSE
    OBVIOUS
  <2>1. D \subseteq Nat /\ D # {}
    BY <1>0, TypeFacts
  <2>2. PICK k \in D : \A l \in D : k <= l
    BY <2>1, LeastElement
  <2>3. PICK m \in Bad : k = depth[m]
    BY <2>2
  <2>4. h[m] = IF gotos[m][c] # NoNode THEN gotos[m][c]
               ELSE IF m = Root THEN Root ELSE h[failure[m]]
    BY <1>3, <2>3
  <2>5. g[m] = IF gotos[m][c] # NoNode THEN gotos[m][c]
               ELSE IF m = Root THEN Root ELSE g[failure[m]]
    BY <1>2, <2>3
  <2>6. gotos[m][c] = NoNode /\ m # Root /\ h[failure[m]] # g[failure[m]]
    BY <2>3, <2>4, <2>5
  <2>7. failure[m] \in Bad /\ depth[failure[m]] < depth[m]
    BY <1>1, <2>3, <2>6
  <2>8. depth[m] <= depth[failure[m]]
    BY <2>2, <2>3, <2>7
  <2> QED
    BY <1>0, <2>3, <2>7, <2>8, TypeFacts
<1>4. GotoAlongFailures(n, c) = (CHOOSE h : Chain(h))[n]
  BY DEF GotoAlongFailures, acGetNextNode
<1>5. Chain(CHOOSE h : Chain(h))
  BY <1>2
<1> DEFINE first == CHOOSE h : Chain(h)
<1>6. first[n] = g[n]
  <2>1. Chain(first)
    BY <1>5
  <2> HIDE DEF first
  <2> QED
    BY <1>3, <2>1
<1> QED
  BY <1>4, <1>6 DEF g

-----------------------------------------------------------------------------
(* The inductive invariant.                                                *)

\* putStates has written the state of node n.
StateRight(n) ==
    /\ table[n] = [c \in Char |-> GotoAlongFailures(n, c)]
    /\ match[n] => matches[n] /\ patterns[n] # NullPattern

\* putStates still reaches n.
Waiting(n) == \E i \in DOMAIN pending : Begins(word[pending[i]], word[n])

TMInv ==
    /\ ACInv /\ TMTypeOK
    /\ tpc # "tree" => pc = "built" /\ \A n \in Nodes : matches[n] => match[n]
    /\ tpc \in {"tree", "put", "ready"} =>
          input = <<>> /\ idx = 0 /\ current = Root /\ returnIndex = 0
    /\ tpc = "put" => \A n \in Nodes : StateRight(n) \/ Waiting(n)
    /\ tpc \in {"ready", "scan", "scanned"} => \A n \in Nodes : StateRight(n)
    /\ tpc \in {"scan", "scanned"} => word[current] = Longest(Known, SubSeq(input, 1, idx))

\* What the other proofs use of the invariant.
LEMMA TMFacts ==
    ASSUME TMInv
    PROVE  /\ ACInv /\ ACTypeOK /\ TreeInv
           /\ tpc \in {"tree", "put", "ready", "scan", "scanned"}
           /\ tpc # "tree" => Late /\ pc = "built"
           /\ pending \in Seq(Nodes) /\ input \in Seq(Char)
           /\ idx \in Nat /\ idx <= Len(input) /\ Len(input) \in Nat
           /\ current \in Nodes /\ returnIndex \in Nat /\ returnIndex <= idx
<1>1. ACInv /\ TMTypeOK /\ (tpc # "tree" => pc = "built")
  BY DEF TMInv
<1>2. input \in Seq(Char)
  <2>1. input \in Texts \cup {<<>>}
    BY <1>1 DEF TMTypeOK
  <2>2. Texts \subseteq Seq(Char) /\ <<>> \in Seq(Char)
    BY TMAssumption
  <2> QED
    BY <2>1, <2>2
<1>3. Len(input) \in Nat
  BY <1>2
<1> QED
  BY <1>1, <1>2, <1>3 DEF TMTypeOK, ACInv, Late

\* The invariant holds before the construction,
LEMMA TMInvInit ==
    ASSUME TMInit PROVE TMInv
<1>1. ACInv
  BY ACInvInit DEF TMInit
<1>2. /\ tpc = "tree" /\ pending = <<>> /\ input = <<>> /\ idx = 0 /\ current = Root
      /\ returnIndex = 0
  BY DEF TMInit
<1>3. TMTypeOK
  BY <1>1, <1>2, TypeFacts DEF TMTypeOK, ACInv
<1> QED
  BY <1>1, <1>2, <1>3 DEF TMInv

\* the steps of the builder keep it,
LEMMA BuildTreeStep ==
    ASSUME TMInv, BuildTree PROVE TMInv'
<1>1. /\ tpc = "tree" /\ UNCHANGED <<tpc, pending, input, idx, current, returnIndex>>
      /\ BuildStep
  BY DEF BuildTree, tmVars, tableVars, scanVars
<1>2. ACInv' /\ ACTypeOK'
  BY <1>1, ACInvStep DEF TMInv, ACInv
<1>3. /\ input = <<>> /\ idx = 0 /\ current = Root /\ returnIndex = 0
  BY <1>1 DEF TMInv
<1>4. Root \in Nodes'
  <2>1. size' \in Nat \ {0}
    BY <1>2 DEF ACTypeOK
  <2>2. \A s \in Nat \ {0} : 0 \in 0 .. s - 1
    OBVIOUS
  <2>3. 0 \in 0 .. size' - 1
    BY <2>1, <2>2
  <2> QED
    BY <2>3 DEF Nodes, Root
<1>5. pending' \in Seq(Nodes')
  <2>1. pending \in Seq(Nodes)
    BY DEF TMInv, TMTypeOK
  <2>2. Nodes \subseteq Nodes'
    <3>1. size' = size \/ size' = size + 1
      BY <1>1 DEF BuildStep, enter, constructFailures, avoidFailToAcceptingStates, Walk,
         createNewNode, SetMatch, StartFailures, Dequeue, NextChild, Climb, SetFailure,
         EndChildren, EndFailures, Inherit, Fault, Descend, EndBuild, treeVars
    <3>2. size \in Nat
      BY DEF TMInv, ACInv, ACTypeOK
    <3> QED
      BY <3>1, <3>2 DEF Nodes
  <2> QED
    BY <1>1, <2>1, <2>2, WordFacts
<1>6. TMTypeOK'
  BY <1>1, <1>2, <1>3, <1>4, <1>5 DEF TMTypeOK
<1> QED
  BY <1>1, <1>2, <1>3, <1>6 DEF TMInv

\* The steps behind the construction leave the tree alone.
LEMMA TreeFrame ==
    ASSUME TMInv, UNCHANGED acVars
    PROVE  /\ ACInv' /\ Nodes' = Nodes /\ Known' = Known /\ UNCHANGED <<anchors, pc, match, word>>
           /\ UNCHANGED <<entry, gotos, message, failure>>
           /\ \A n, c : GotoAlongFailures(n, c)' = GotoAlongFailures(n, c)
           /\ ACTypeOK'
<1>1. UNCHANGED <<anchors, pc, size, gotos, failure, word, match, entry, message>>
  BY DEF acVars, treeVars, matchVars, failVars
<1>2. Nodes' = Nodes /\ Known' = Known
  BY <1>1 DEF Nodes, Known
<1>3. \A n, c : GotoAlongFailures(n, c)' = GotoAlongFailures(n, c)
  BY <1>1, <1>2 DEF GotoAlongFailures, acGetNextNode
<1>4. ACInv'
  BY ACInvUnchanged DEF TMInv
<1> QED
  BY <1>1, <1>2, <1>3, <1>4 DEF ACInv

\* the empty table with only the root to put keeps it,
LEMMA CreateTableStep ==
    ASSUME TMInv, createTableStateMachine PROVE TMInv'
<1>1. /\ tpc = "tree" /\ pc = "built" /\ tpc' = "put" /\ pending' = <<Root>>
      /\ table' = [n \in Nodes |-> [c \in Char |-> Root]]
      /\ matches' = [n \in Nodes |-> FALSE] /\ patterns' = [n \in Nodes |-> NullPattern]
      /\ UNCHANGED acVars /\ UNCHANGED <<input, idx, current, returnIndex>>
  BY DEF createTableStateMachine, scanVars
<1>2. ACInv' /\ ACTypeOK' /\ Nodes' = Nodes /\ UNCHANGED <<pc, match, word>>
  BY <1>1, TreeFrame
<1>3. ACTypeOK /\ TreeInv /\ Root \in Nodes /\ \A n \in Nodes : Begins(word[Root], word[n])
  BY TMFacts, RootFacts
<1>4. \A n \in Nodes : Begins(word[pending'[1]], word[n])
  BY <1>1, <1>3
<1>5. \A n \in Nodes : Waiting(n)'
  BY <1>1, <1>2, <1>4, 1 \in DOMAIN pending' DEF Waiting
<1>6. /\ input = <<>> /\ idx = 0 /\ current = Root /\ returnIndex = 0
  BY <1>1 DEF TMInv
<1>7. TMTypeOK'
  BY <1>1, <1>2, <1>3, <1>6 DEF TMTypeOK
<1> QED
  BY <1>1, <1>2, <1>5, <1>6, <1>7 DEF TMInv

\* a state that is put has its gotos from GotoIs and its children pending,
LEMMA PutStateStep ==
    ASSUME TMInv, PutState PROVE TMInv'
<1> DEFINE n == Head(pending)
<1>1. /\ tpc = "put" /\ tpc' = "put" /\ pending # <<>>
      /\ pending' = Tail(pending) \o ChildrenInOrder(n)
      /\ table' = [table EXCEPT ![n] = [c \in Char |-> GotoAlongFailures(n, c)]]
      /\ matches' = [matches EXCEPT ![n] = @ \/ match[n]]
      /\ patterns' = [patterns EXCEPT ![n] = IF ~ match[n] THEN @
                                             ELSE IF message[n] = NoSlot THEN EmptyPattern
                                             ELSE message[n]]
      /\ UNCHANGED acVars /\ UNCHANGED <<input, idx, current, returnIndex>>
  BY DEF PutState, scanVars
<1>2. /\ ACInv' /\ ACTypeOK' /\ Nodes' = Nodes /\ UNCHANGED <<pc, match, word>>
      /\ \A m, c : GotoAlongFailures(m, c)' = GotoAlongFailures(m, c)
  BY <1>1, TreeFrame
<1>3. /\ ACInv /\ ACTypeOK /\ TreeInv /\ Late /\ pc = "built" /\ pending \in Seq(Nodes)
  BY <1>1, TMFacts
<1>4. /\ n \in Nodes /\ n = pending[1] /\ Tail(pending) \in Seq(Nodes)
  BY <1>1, <1>3, WordFacts
<1>5. /\ table \in [Nodes -> [Char -> Nodes]] /\ matches \in [Nodes -> BOOLEAN]
      /\ patterns \in [Nodes -> {NullPattern} \cup Nat] /\ message \in [Nodes -> Nat]
      /\ match \in [Nodes -> BOOLEAN]
  BY <1>1, <1>3 DEF TMInv, TMTypeOK, ACTypeOK
<1>6. /\ ChildrenInOrder(n) \in Seq(Nodes)
      /\ \A c \in Chars(n) : \E i \in DOMAIN ChildrenInOrder(n) : ChildrenInOrder(n)[i] = gotos[n][c]
  <2> HIDE DEF n
  <2>1. ChildrenInOrder(n) \in Seq(Nodes \ {Root})
    BY <1>3, <1>4, ChildrenOrder
  <2>2. ChildrenInOrder(n) \in Seq(Nodes)
    BY <2>1, WordFacts
  <2>3. \A c \in Chars(n) : \E i \in DOMAIN ChildrenInOrder(n) : ChildrenInOrder(n)[i] = gotos[n][c]
    BY <1>3, <1>4, ChildrenOrder
  <2> QED
    BY <2>2, <2>3
<1> HIDE DEF n
<1>7. pending' \in Seq(Nodes)
  BY <1>1, <1>4, <1>6
<1>8. \A c \in Char : GotoAlongFailures(n, c) \in Nodes
  <2>1. \A c \in Char : Append(word[n], c) \in Seq(Char)
    BY <1>3, <1>4, TypeFacts
  <2> QED
    BY <1>3, <1>4, <2>1, GotoIs, NodeOfIs
<1>9. table' \in [Nodes -> [Char -> Nodes]]
  BY <1>1, <1>4, <1>5, <1>8
<1>10. /\ matches' \in [Nodes -> BOOLEAN] /\ patterns' \in [Nodes -> {NullPattern} \cup Nat]
  BY <1>1, <1>4, <1>5 DEF EmptyPattern
<1>11. TMTypeOK'
  BY <1>1, <1>2, <1>7, <1>9, <1>10 DEF TMInv, TMTypeOK
<1>12. ASSUME NEW m \in Nodes, m # n
       PROVE  /\ table'[m] = table[m] /\ matches'[m] = matches[m] /\ patterns'[m] = patterns[m]
  BY <1>1, <1>5, <1>12
<1>13. /\ table'[n] = [c \in Char |-> GotoAlongFailures(n, c)]
       /\ matches'[n] = (matches[n] \/ match[n])
       /\ match[n] => patterns'[n] # NullPattern
  <2>1. message[n] \in Nat
    BY <1>4, <1>5
  <2> QED
    BY <1>1, <1>4, <1>5, <2>1 DEF NullPattern, EmptyPattern
<1>14. \A m \in Nodes : matches'[m] => match[m]
  BY <1>1, <1>12, <1>13 DEF TMInv
<1>15. ASSUME NEW m \in Nodes
       PROVE  StateRight(m)' \/ Waiting(m)'
  <2>1. CASE m = n
    BY <1>2, <1>13, <2>1 DEF StateRight
  <2>2. CASE m # n /\ StateRight(m)
    BY <1>2, <1>12, <2>2 DEF StateRight
  <2>3. CASE m # n /\ ~ StateRight(m)
    <3>1. PICK i \in DOMAIN pending : Begins(word[pending[i]], word[m])
      BY <1>1, <2>3 DEF TMInv, Waiting
    <3>2. CASE i = 1
      <4>1. PICK c \in Chars(n) : Begins(Append(word[n], c), word[m])
        BY <1>3, <1>4, <2>3, <3>1, <3>2, BelowNode
      <4>2. word[gotos[n][c]] = Append(word[n], c)
        BY <1>3, <1>4, ChildFacts
      <4>3. PICK j \in DOMAIN ChildrenInOrder(n) : ChildrenInOrder(n)[j] = gotos[n][c]
        BY <1>6
      <4>4. /\ Len(Tail(pending)) + j \in DOMAIN pending'
            /\ pending'[Len(Tail(pending)) + j] = ChildrenInOrder(n)[j]
        BY <1>1, <1>4, <1>6, <4>3
      <4> QED
        BY <1>2, <4>1, <4>2, <4>3, <4>4 DEF Waiting
    <3>3. CASE i # 1
      <4>1. i - 1 \in DOMAIN Tail(pending) /\ Tail(pending)[i - 1] = pending[i]
        BY <1>1, <1>3, <3>1, <3>3
      <4>2. i - 1 \in DOMAIN pending' /\ pending'[i - 1] = pending[i]
        BY <1>1, <1>4, <1>6, <4>1
      <4> QED
        BY <1>2, <3>1, <4>2 DEF Waiting
    <3> QED
      BY <3>2, <3>3
  <2> QED
    BY <2>1, <2>2, <2>3
<1> QED
  BY <1>1, <1>2, <1>3, <1>11, <1>14, <1>15 DEF TMInv

\* A step of the scan goes to the node of the longest end of the text and the
\* character, and counts a match.
LEMMA ScanCharFacts ==
    ASSUME TMInv, ScanChar
    PROVE  LET c == input[idx + 1]
               text == SubSeq(input, 1, idx)
           IN /\ c \in Char /\ text \in Seq(Char) /\ Append(text, c) \in Seq(Char)
              /\ SubSeq(input, 1, idx + 1) = Append(text, c)
              /\ current' \in Nodes /\ word[current'] = Longest(Known, Append(text, c))
              /\ returnIndex' = returnIndex + (IF match[current'] THEN 1 ELSE 0)
<1> DEFINE c == input[idx + 1]
           text == SubSeq(input, 1, idx)
           s == table[current][c]
<1>1. /\ tpc = "scan" /\ idx < Len(input) /\ current' = s
      /\ returnIndex' = returnIndex + (IF matches[s] /\ patterns[s] # NullPattern THEN 1 ELSE 0)
  BY DEF ScanChar, GetNextState
<1>2. /\ ACInv /\ ACTypeOK /\ TreeInv /\ Late /\ input \in Seq(Char)
      /\ idx \in Nat /\ Len(input) \in Nat /\ current \in Nodes
  BY <1>1, TMFacts
<1>3. idx \in 0 .. Len(input) - 1
  BY <1>1, <1>2
<1>4. /\ c \in Char /\ text \in Seq(Char) /\ SubSeq(input, 1, idx + 1) = Append(text, c)
  BY <1>2, <1>3, Beginnings
<1>5. /\ word[current] = Longest(Known, text) /\ \A n \in Nodes : StateRight(n)
      /\ \A n \in Nodes : matches[n] => match[n]
  BY <1>1 DEF TMInv
<1> HIDE DEF c, text
<1> DEFINE u == word[current]
<1>6. u \in Seq(Char) /\ Append(u, c) \in Seq(Char)
  BY <1>2, <1>4, TypeFacts
<1>7. s = NodeOf(Append(u, c))
  BY <1>2, <1>4, <1>5, GotoIs DEF StateRight
<1> HIDE DEF s, u
<1>8. s \in Nodes /\ word[s] = Longest(Known, Append(u, c))
  BY <1>2, <1>6, <1>7, NodeOfIs
<1>9. Longest(Known, Append(text, c)) = Longest(Known, Append(u, c))
  BY <1>2, <1>4, <1>5, KnownFacts, LongestStep DEF u
<1>10. matches[s] /\ patterns[s] # NullPattern <=> match[s]
  BY <1>5, <1>8 DEF StateRight
<1> QED
  BY <1>1, <1>4, <1>8, <1>9, <1>10 DEF c, text

\* the scan keeps it,
LEMMA ScanStep ==
    ASSUME TMInv, EndPut \/ match1TableMachine PROVE TMInv'
<1>0. UNCHANGED acVars /\ UNCHANGED <<table, matches, patterns, pending>>
  BY DEF EndPut, match1TableMachine, StartScan, ScanChar, EndScan, tableVars
<1>1. /\ ACInv' /\ ACTypeOK' /\ Nodes' = Nodes /\ Known' = Known /\ UNCHANGED <<pc, match, word>>
      /\ \A m, c : GotoAlongFailures(m, c)' = GotoAlongFailures(m, c)
  BY <1>0, TreeFrame
<1>2. \A n : StateRight(n)' = StateRight(n)
  BY <1>0, <1>1 DEF StateRight
<1>3. /\ ACTypeOK /\ TreeInv /\ input \in Seq(Char) /\ Root \in Nodes /\ word[Root] = <<>>
      /\ idx \in Nat /\ idx <= Len(input) /\ Len(input) \in Nat
      /\ current \in Nodes /\ returnIndex \in Nat /\ returnIndex <= idx
  BY TMFacts, RootFacts
<1>4. /\ input \in Texts \cup {<<>>} /\ pending \in Seq(Nodes)
      /\ tpc # "tree" => /\ table \in [Nodes -> [Char -> Nodes]]
                         /\ matches \in [Nodes -> BOOLEAN]
                         /\ patterns \in [Nodes -> {NullPattern} \cup Nat]
  BY DEF TMInv, TMTypeOK
<1>5. CASE EndPut
  <2>1. tpc = "put" /\ tpc' = "ready" /\ pending = <<>> /\ UNCHANGED <<input, idx, current, returnIndex>>
    BY <1>5 DEF EndPut, scanVars
  <2>2. DOMAIN pending = {}
    BY <2>1
  <2>3. \A n \in Nodes : StateRight(n)
    BY <2>1, <2>2 DEF TMInv, Waiting
  <2>4. TMTypeOK'
    BY <1>0, <1>1, <1>4, <2>1 DEF TMInv, TMTypeOK
  <2> QED
    BY <1>0, <1>1, <1>2, <2>1, <2>3, <2>4 DEF TMInv
<1>6. CASE StartScan
  <2>1. /\ tpc = "ready" /\ tpc' = "scan" /\ input' \in Texts /\ idx' = 0 /\ current' = Root
        /\ returnIndex' = 0
    BY <1>6 DEF StartScan
  <2>2. input' \in Seq(Char) /\ Len(input') \in Nat /\ SubSeq(input', 1, 0) = <<>>
    BY <2>1, TMAssumption, Beginnings
  <2>3. TMTypeOK'
    BY <1>0, <1>1, <1>3, <1>4, <2>1, <2>2 DEF TMTypeOK
  <2>4. Longest(Known, <<>>) = <<>>
    <3>1. <<>> \in Seq(Char)
      BY <1>3, TypeFacts
    <3>2. Longest(Known, <<>>) \in Seq(Char) /\ Ends(Longest(Known, <<>>), <<>>)
      BY <1>3, <3>1, KnownFacts, LongestIs
    <3> QED
      BY <3>2 DEF Ends
  <2>5. word'[current'] = Longest(Known', SubSeq(input', 1, idx'))
    BY <1>1, <1>3, <2>1, <2>2, <2>4
  <2> QED
    BY <1>0, <1>1, <1>2, <2>1, <2>3, <2>5 DEF TMInv
<1>7. CASE ScanChar
  <2>1. /\ tpc = "scan" /\ tpc' = "scan" /\ idx < Len(input) /\ idx' = idx + 1 /\ input' = input
    BY <1>7 DEF ScanChar
  <2>2. /\ SubSeq(input, 1, idx + 1) = Append(SubSeq(input, 1, idx), input[idx + 1])
        /\ current' \in Nodes
        /\ word[current'] = Longest(Known, Append(SubSeq(input, 1, idx), input[idx + 1]))
        /\ returnIndex' = returnIndex + (IF match[current'] THEN 1 ELSE 0)
    BY <1>7, ScanCharFacts
  <2>3. idx' \in 0 .. Len(input) /\ returnIndex' \in 0 .. idx'
    BY <1>3, <2>1, <2>2
  <2>4. TMTypeOK'
    BY <1>0, <1>1, <1>4, <2>1, <2>2, <2>3 DEF TMTypeOK
  <2>5. word'[current'] = Longest(Known', SubSeq(input', 1, idx'))
    BY <1>1, <2>1, <2>2
  <2> QED
    BY <1>0, <1>1, <1>2, <2>1, <2>4, <2>5 DEF TMInv
<1>8. CASE EndScan
  <2>1. tpc = "scan" /\ tpc' = "scanned" /\ UNCHANGED <<input, idx, current, returnIndex>>
    BY <1>8 DEF EndScan, scanVars
  <2>2. TMTypeOK'
    BY <1>0, <1>1, <1>4, <2>1 DEF TMInv, TMTypeOK
  <2> QED
    BY <1>0, <1>1, <1>2, <2>1, <2>2 DEF TMInv
<1> QED
  BY <1>5, <1>6, <1>7, <1>8 DEF match1TableMachine

\* and so does a step that changes nothing.
LEMMA TMUnchanged ==
    ASSUME TMInv, UNCHANGED <<acVars, tmVars>> PROVE TMInv'
<1>0. /\ UNCHANGED acVars
      /\ UNCHANGED <<tpc, table, matches, patterns, pending, input, idx, current, returnIndex>>
  BY DEF tmVars, tableVars, scanVars
<1>1. /\ ACInv' /\ ACTypeOK' /\ Nodes' = Nodes /\ Known' = Known /\ UNCHANGED <<pc, match, word>>
      /\ \A m, c : GotoAlongFailures(m, c)' = GotoAlongFailures(m, c)
  BY <1>0, TreeFrame
<1>2. \A n : StateRight(n)' = StateRight(n) /\ Waiting(n)' = Waiting(n)
  BY <1>0, <1>1 DEF StateRight, Waiting
<1>3. TMTypeOK'
  BY <1>0, <1>1 DEF TMInv, TMTypeOK
<1> QED
  BY <1>0, <1>1, <1>2, <1>3 DEF TMInv

\* Every step keeps the invariant.
LEMMA TMInvStep ==
    ASSUME TMInv, [TMNext]_<<acVars, tmVars>> PROVE TMInv'
BY BuildTreeStep, CreateTableStep, PutStateStep, ScanStep, TMUnchanged
   DEF TMNext, generateTableStateMachine, putStates, TMDone

\* Whatever the anchors and the input, the invariant holds at every step: every
\* state written has the gotos of the automaton.
THEOREM TMInvAlways == TMSpec => []TMInv
BY TMInvInit, TMInvStep, PTL DEF TMSpec

\* The table that putStates fills is total and leads to states only, and the scan
\* never reports more than one match for a character.
THEOREM TableTypesHold == TMSpec => []TMTypeOK
<1>1. TMInv => TMTypeOK
  BY DEF TMInv
<1> QED
  BY <1>1, TMInvAlways, PTL

-----------------------------------------------------------------------------
(* The scan implements the matcher.                                        *)

\* The anchors entered are the ones before the first empty entry.
LEMMA EnteredIs ==
    ASSUME ACInv, pc # "enter"
    PROVE  Entered = {anchors[e] : e \in 1 .. entry - 1} /\ Entered \subseteq Seq(Char)
<1>0. ACTypeOK /\ EnterInv
  BY DEF ACInv
<1>1. entry \in Nat \ {0} /\ Len(anchors) \in Nat
  <2>1. anchors \in Seq(Strings)
    BY <1>0 DEF ACTypeOK
  <2> QED
    BY <1>0, <2>1, WordFacts DEF ACTypeOK
<1>2. /\ \A e \in 1 .. entry - 1 : e <= Len(anchors) /\ anchors[e] # <<>>
      /\ ~ (entry <= Len(anchors) /\ anchors[entry] # <<>>)
  BY <1>0 DEF EnterInv
<1> DEFINE K == {m \in 1 .. Len(anchors) : \A l \in 1 .. m : anchors[l] # <<>>}
<1>3. ASSUME NEW k \in K PROVE k \in 1 .. entry - 1
  <2>1. k < entry
    <3> SUFFICES ASSUME entry <= k PROVE FALSE
      BY <1>1
    <3>1. entry \in 1 .. k /\ entry <= Len(anchors)
      BY <1>1
    <3> QED
      BY <1>2, <3>1
  <2> QED
    BY <1>1, <2>1
<1>4. ASSUME NEW e \in 1 .. entry - 1 PROVE e \in K
  <2>1. \A l \in 1 .. e : l \in 1 .. entry - 1
    BY <1>1
  <2>2. e \in 1 .. Len(anchors)
    BY <1>1, <1>2
  <2> QED
    BY <1>2, <2>1, <2>2
<1>5. K = 1 .. entry - 1
  BY <1>3, <1>4
<1>6. ASSUME NEW e \in 1 .. entry - 1 PROVE anchors[e] \in Seq(Char)
  BY <1>0, <1>1, <1>2, AnchorsAreWords
<1> QED
  BY <1>5, <1>6 DEF Entered

\* The words of the tree are the beginnings of the anchors.
LEMMA KnownIsPrefixes ==
    ASSUME ACInv, pc # "enter"
    PROVE  Known = M!Prefixes
<1>0. ACTypeOK /\ TreeInv /\ EnterInv /\ Entered = {anchors[e] : e \in 1 .. entry - 1}
      /\ Entered \subseteq Seq(Char)
  BY EnteredIs DEF ACInv
<1>1. entry \in Nat \ {0}
  BY <1>0 DEF ACTypeOK
<1>2. ASSUME NEW n \in Nodes PROVE word[n] \in M!Prefixes
  <2>1. CASE n = Root
    BY <1>0, <2>1 DEF TreeInv, M!Prefixes
  <2>2. CASE n # Root
    <3>1. PICK e \in 1 .. entry : e <= Len(anchors) /\ anchors[e] # <<>> /\ Begins(word[n], anchors[e])
      BY <1>0, <2>2 DEF EnterInv
    <3>2. e \in 1 .. entry - 1
      <4>1. e # entry
        BY <1>0, <3>1 DEF EnterInv
      <4> QED
        BY <1>1, <4>1
    <3>3. anchors[e] \in Entered /\ anchors[e] \in Seq(Char) /\ word[n] \in Seq(Char)
      BY <1>0, <3>2, TypeFacts
    <3>4. word[n] \in M!PrefixesOf(anchors[e])
      BY <3>1, <3>3, PrefixIs DEF PrefixSet, M!PrefixesOf
    <3> QED
      BY <3>3, <3>4 DEF M!Prefixes
  <2> QED
    BY <2>1, <2>2
<1>3. ASSUME NEW w \in Entered, NEW k \in 0 .. Len(w) PROVE SubSeq(w, 1, k) \in Known
  <2>1. PICK n \in Nodes : word[n] = w
    BY <1>0 DEF EnterInv
  <2>2. \E m \in Nodes : word[m] = SubSeq(word[n], 1, k)
    BY <1>0, <2>1, PrefixNodes
  <2> QED
    BY <2>1, <2>2 DEF Known
<1>4. <<>> \in Known
  BY <1>0, KnownFacts
<1>5. M!Prefixes \subseteq Known
  <2>1. ASSUME NEW w \in Entered PROVE M!PrefixesOf(w) \subseteq Known
    BY <1>3 DEF M!PrefixesOf
  <2> QED
    BY <1>4, <2>1 DEF M!Prefixes
<1> QED
  BY <1>2, <1>5 DEF Known

\* Every anchor entered is the own anchor of a node: message tells where anchors end.
MessageInv ==
    \A e \in 1 .. entry - 1 : \E n \in Nodes : word[n] = anchors[e] /\ message[n] # NoSlot

\* No step takes it away; a second anchor with the same string takes its place.
LEMMA MessageInvStep ==
    ASSUME ACInv, MessageInv, BuildStep
    PROVE  MessageInv'
<1>0. entry \in Nat \ {0}
  BY DEF ACInv, ACTypeOK
<1>1. CASE createNewNode
  <2>1. /\ Nodes' = Nodes \cup {size} /\ UNCHANGED <<anchors, entry>>
        /\ \A n \in Nodes : word'[n] = word[n] /\ message'[n] = message[n]
    BY <1>1, NewNode DEF createNewNode
  <2> QED
    BY <2>1 DEF MessageInv
<1>2. CASE SetMatch
  <2>1. message'[cur] = entry /\ \A n \in Nodes : n # cur => message'[n] = message[n]
    BY <1>2, SetMatchSlots
  <2>2. UNCHANGED <<anchors, word>> /\ Nodes' = Nodes /\ entry' = entry + 1
    BY <1>2, SetMatchFacts
  <2>3. word[cur] = anchors[entry] /\ cur \in Nodes
    BY <1>2, SetMatchFacts, EnterFacts DEF ACInv, ACTypeOK
  <2>4. message'[cur] # NoSlot
    BY <1>0, <2>1 DEF NoSlot
  <2>5. ASSUME NEW e \in 1 .. entry' - 1
        PROVE  \E n \in Nodes : word[n] = anchors[e] /\ message'[n] # NoSlot
    <3>1. e \in 1 .. entry - 1 \/ e = entry
      BY <1>0, <2>2
    <3>2. CASE e = entry
      BY <2>3, <2>4, <3>2
    <3>3. CASE e \in 1 .. entry - 1
      <4>1. PICK n \in Nodes : word[n] = anchors[e] /\ message[n] # NoSlot
        BY <3>3 DEF MessageInv
      <4> QED
        BY <2>1, <2>4, <4>1
    <3> QED
      BY <3>1, <3>2, <3>3
  <2> QED
    BY <2>2, <2>5 DEF MessageInv
<1>3. CASE Inherit
  <2>1. message' = message
    BY <1>3, InheritSlots
  <2>2. /\ UNCHANGED <<anchors, entry, word>> /\ Nodes' = Nodes
    BY <1>3, AvoidFrame DEF avoidFailToAcceptingStates
  <2> QED
    BY <2>1, <2>2 DEF MessageInv
<1>4. CASE ~ createNewNode /\ ~ SetMatch /\ ~ Inherit
  BY <1>4, FieldsFrame DEF MessageInv
<1> QED
  BY <1>1, <1>2, <1>3, <1>4

LEMMA MessageInvAlways == ACSpec => []MessageInv
<1>1. ACInit => MessageInv
  BY DEF ACInit, MessageInv
<1>2. ACInv /\ MessageInv /\ [ACNext]_acVars => MessageInv'
  <2>1. ASSUME MessageInv, UNCHANGED acVars PROVE MessageInv'
    <3>1. UNCHANGED <<anchors, entry, size, word, message>>
      BY <2>1 DEF acVars, treeVars, matchVars
    <3> QED
      BY <2>1, <3>1 DEF MessageInv, Nodes
  <2> QED
    BY <2>1, MessageInvStep DEF ACNext, Stopped
<1> QED
  BY <1>1, <1>2, ACInvAlways, PTL DEF ACSpec

\* The ends of a word without its first character are its shorter ends.
LEMMA TailEnds ==
    ASSUME NEW C, NEW w \in Seq(C), w # <<>>, NEW v \in Seq(C)
    PROVE  /\ Tail(w) \in Seq(C)
           /\ Ends(v, Tail(w)) <=> Ends(v, w) /\ Len(v) < Len(w)
<1>1. /\ Tail(w) \in Seq(C) /\ Len(w) \in Nat \ {0} /\ Len(Tail(w)) = Len(w) - 1
      /\ \A i \in 1 .. Len(w) - 1 : Tail(w)[i] = w[i + 1]
  OBVIOUS
<1>2. Len(v) \in Nat
  OBVIOUS
<1>3. ASSUME Len(v) <= Len(w) - 1, NEW i \in 1 .. Len(v)
      PROVE  Tail(w)[Len(w) - 1 - Len(v) + i] = w[Len(w) - Len(v) + i]
  <2>1. Len(w) - 1 - Len(v) + i \in 1 .. Len(w) - 1
    BY <1>1, <1>2, <1>3
  <2>2. Tail(w)[Len(w) - 1 - Len(v) + i] = w[Len(w) - 1 - Len(v) + i + 1]
    BY <1>1, <2>1
  <2>3. Len(w) - 1 - Len(v) + i + 1 = Len(w) - Len(v) + i
    BY <1>1, <1>2
  <2> QED
    BY <2>2, <2>3
<1> QED
  BY <1>1, <1>2, <1>3 DEF Ends

\* In the finished tree a node whose report is certain matches.
LEMMA CertainMatches ==
    ASSUME ACInv, MessageInv, LongestAnchorIsReported, pc = "built",
           NEW n \in Nodes, M!Certain(word[n])
    PROVE  match[n]
<1> DEFINE w == word[n]
           v == M!LongestKnownSuffix(Tail(w))
<1>1. /\ ACTypeOK /\ TreeInv /\ pc # "enter" /\ Known = M!Prefixes
      /\ Known \subseteq Seq(Char) /\ <<>> \in Known
      /\ Entered = {anchors[e] : e \in 1 .. entry - 1}
  BY KnownIsPrefixes, KnownFacts, EnteredIs DEF ACInv
<1>2. /\ w \in Seq(Char) /\ w # <<>> /\ Tail(w) \in Seq(Char)
      /\ w \in Entered \/ v \in Entered
  <2>1. w \in Seq(Char)
    BY <1>1, TypeFacts
  <2> QED
    BY <2>1, TailEnds DEF M!Certain
<1>3. n \in Nodes \ {Root}
  BY <1>1, <1>2 DEF TreeInv
<1>4. CASE w \in Entered
  <2>1. PICK e \in 1 .. entry - 1 : anchors[e] = w
    BY <1>1, <1>4
  <2>2. PICK m \in Nodes : word[m] = anchors[e] /\ message[m] # NoSlot
    BY <2>1 DEF MessageInv
  <2>3. m = n
    BY <1>1, <2>1, <2>2 DEF TreeInv
  <2> QED
    BY <1>3, <2>2, <2>3 DEF LongestAnchorIsReported
<1>5. CASE v \in Entered
  <2>1. v = Longest(Known, Tail(w))
    <3>1. M!SuffixesOf(Tail(w)) = SuffixSet(Tail(w))
      BY DEF M!SuffixesOf, SuffixSet
    <3> QED
      BY <1>1, <3>1 DEF M!LongestKnownSuffix, Longest
  <2>2. PICK e \in 1 .. entry - 1 : anchors[e] = v
    BY <1>1, <1>5
  <2>3. PICK m \in Nodes : word[m] = anchors[e] /\ message[m] # NoSlot
    BY <2>2 DEF MessageInv
  <2>4. /\ Ends(word[m], Tail(w))
        /\ \A u \in Known : Ends(u, Tail(w)) => Ends(u, word[m])
    BY <1>1, <1>2, <2>1, <2>2, <2>3, LongestIs
  <2>5. \A k \in Nodes : /\ word[k] \in Seq(Char) /\ word[k] \in Known
                         /\ depth[k] = Len(word[k]) /\ depth[k] \in Nat
    BY <1>1, TypeFacts DEF TreeInv, Known
  <2>6. \A k \in Nodes : Longer(k, n) <=> Ends(word[k], Tail(w))
    BY <1>2, <2>5, TailEnds DEF Longer
  <2>7. IsLongest(m, n)
    <3>1. ASSUME NEW k \in Nodes, Longer(k, n) PROVE depth[k] <= depth[m]
      <4>1. Ends(word[k], word[m])
        BY <2>4, <2>5, <2>6, <3>1
      <4> QED
        BY <2>5, <4>1 DEF Ends
    <3> QED
      BY <2>4, <2>6, <3>1 DEF IsLongest
  <2>8. m = LongestSuffix(n)
    BY <1>1, <1>3, <2>7, LongestSuffixIs
  <2> QED
    BY <1>3, <2>3, <2>8 DEF LongestAnchorIsReported
<1> QED
  BY <1>2, <1>4, <1>5

\* A character that the scan reads is a step of the matcher.
LEMMA ScanReads ==
    ASSUME TMInv, MessageInv, LongestAnchorIsReported, ScanChar
    PROVE  M!Next
<1> DEFINE c == input[idx + 1]
           text == Append(SubSeq(input, 1, idx), c)
<1>1. /\ c \in Char /\ text \in Seq(Char) /\ SubSeq(input, 1, idx + 1) = text
      /\ current' \in Nodes /\ word[current'] = Longest(Known, text)
      /\ returnIndex' = returnIndex + (IF match[current'] THEN 1 ELSE 0)
  BY ScanCharFacts
<1>2. /\ tpc = "scan" /\ UNCHANGED acVars /\ idx' = idx + 1 /\ input' = input
  BY DEF ScanChar
<1>3. UNCHANGED <<anchors, word>> /\ Entered' = Entered
  BY <1>2, TreeFrame DEF Entered
<1>4. /\ ACInv /\ ACTypeOK /\ TreeInv /\ pc # "enter"
      /\ returnIndex \in Nat
  BY <1>2, TMFacts
<1>5. /\ Entered = {anchors[e] : e \in 1 .. entry - 1} /\ Entered \subseteq Seq(Char)
      /\ Known = M!Prefixes
  BY <1>4, EnteredIs, KnownIsPrefixes
<1> HIDE DEF c, text
<1>6. M!SuffixesOf(text) = SuffixSet(text)
  BY DEF M!SuffixesOf, SuffixSet
<1>7. M!LongestKnownSuffix(text) = word[current']
  BY <1>1, <1>5, <1>6 DEF M!LongestKnownSuffix, Longest
<1>8. \/ M!AnchorEnds(text) /\ returnIndex' = returnIndex + 1
      \/ ~ M!Certain(word[current']) /\ returnIndex' = returnIndex
  <2>1. CASE match[current']
    <3>1. PICK e \in 1 .. entry - 1 : Ends(anchors[e], word[current'])
      BY <1>1, <1>4, <2>1 DEF ACInv, MatchInv
    <3>2. anchors[e] \in Entered /\ anchors[e] \in Seq(Char)
      BY <1>5, <3>1
    <3>3. word[current'] \in Seq(Char) /\ Ends(word[current'], text)
      BY <1>1, <1>4, KnownFacts, LongestIs, TypeFacts
    <3>4. Ends(anchors[e], text)
      BY <1>1, <3>1, <3>2, <3>3, EndsOrder
    <3>5. anchors[e] \in SuffixSet(text)
      BY <1>1, <3>2, <3>4, SuffixIs
    <3> QED
      BY <1>1, <1>6, <2>1, <3>2, <3>5 DEF M!AnchorEnds
  <2>2. CASE ~ match[current']
    <3>1. ~ M!Certain(word[current'])
      BY <1>1, <1>2, <1>4, <2>2, TMFacts, CertainMatches
    <3> QED
      BY <1>1, <1>4, <2>2, <3>1
  <2> QED
    BY <2>1, <2>2
<1>9. M!Read(c)
  BY <1>1, <1>2, <1>3, <1>7, <1>8 DEF M!Read, text
<1> QED
  BY <1>1, <1>9 DEF M!Next

\* To the builder a step of the table machine is a step of its own or none.
LEMMA TMIsAC == TMSpec => ACSpec
<1>1. TMInit => ACInit
  BY DEF TMInit
<1>2. [TMNext]_<<acVars, tmVars>> => [ACNext]_acVars
  BY DEF TMNext, generateTableStateMachine, BuildTree, createTableStateMachine, putStates,
         PutState, EndPut, match1TableMachine, StartScan, ScanChar, EndScan, TMDone, ACNext
<1> QED
  BY <1>1, <1>2, PTL DEF TMSpec, ACSpec

\* For every list of anchors and every input, match1TableMachine is after every
\* character in the state of the longest end of the text that begins an anchor.  It
\* reports where that state or its longest suffix is an anchor's, and only where some
\* anchor ends: it implements the abstract matcher.
THEOREM TableMachineImplementsMatcher == TMSpec => MatcherSpec
<1>1. TMInit => M!Init
  <2> SUFFICES ASSUME TMInit PROVE M!Init
    OBVIOUS
  <2>1. input = <<>> /\ idx = 0 /\ word[current] = <<>> /\ returnIndex = 0
    BY DEF TMInit, ACInit
  <2>2. SubSeq(<<>>, 1, 0) = <<>>
    OBVIOUS
  <2> QED
    BY <2>1, <2>2 DEF M!Init
<1>2. ASSUME TMInv, TMInv', MessageInv, LongestAnchorIsReported, [TMNext]_<<acVars, tmVars>>
      PROVE  [M!Next]_M!vars
  <2>1. CASE ScanChar
    BY <1>2, <2>1, ScanReads
  <2>2. CASE BuildTree
    <3>1. /\ tpc = "tree" /\ UNCHANGED <<input, idx, current, returnIndex>> /\ BuildStep
      BY <2>2 DEF BuildTree, tmVars, scanVars
    <3>2. anchors' = anchors
      BY <3>1 DEF BuildStep, enter, constructFailures, avoidFailToAcceptingStates, Walk,
         createNewNode, SetMatch, StartFailures, Dequeue, NextChild, Climb, SetFailure,
         EndChildren, EndFailures, Inherit, Fault, Descend, EndBuild
    <3>3. current = Root /\ word[Root] = <<>> /\ word'[Root] = <<>>
      BY <1>2, <3>1 DEF TMInv, ACInv, TreeInv
    <3> QED
      BY <3>1, <3>2, <3>3 DEF M!vars, Entered
  <2>3. CASE StartScan
    <3>1. /\ tpc = "ready" /\ input' \in Texts /\ idx' = 0 /\ current' = Root /\ returnIndex' = 0
          /\ UNCHANGED acVars
      BY <2>3 DEF StartScan
    <3>2. input = <<>> /\ idx = 0 /\ current = Root /\ returnIndex = 0
      BY <1>2, <3>1 DEF TMInv
    <3>3. input' \in Seq(Char) /\ input \in Seq(Char)
      BY <1>2, <3>1, TMAssumption, TMFacts
    <3>4. SubSeq(input', 1, 0) = <<>> /\ SubSeq(input, 1, 0) = <<>>
      BY <3>3, Beginnings
    <3>5. UNCHANGED <<anchors, word>>
      BY <1>2, <3>1, TreeFrame
    <3> QED
      BY <3>1, <3>2, <3>4, <3>5 DEF M!vars, Entered
  <2>4. CASE \/ createTableStateMachine \/ putStates \/ EndScan \/ TMDone
             \/ UNCHANGED <<acVars, tmVars>>
    <3>1. UNCHANGED acVars /\ UNCHANGED <<input, idx, current, returnIndex>>
      BY <2>4 DEF createTableStateMachine, putStates, PutState, EndPut, EndScan, TMDone,
         tmVars, scanVars
    <3>2. UNCHANGED <<anchors, word>>
      BY <1>2, <3>1, TreeFrame
    <3> QED
      BY <3>1, <3>2 DEF M!vars, Entered
  <2> QED
    BY <1>2, <2>1, <2>2, <2>3, <2>4
    DEF TMNext, generateTableStateMachine, match1TableMachine
<1> QED
  BY <1>1, <1>2, TMInvAlways, TMIsAC, MessageInvAlways, LongestAnchorsAreReported, PTL
     DEF TMSpec, MatcherSpec, M!Spec


-----------------------------------------------------------------------------
(* Sequences of strings, one behind the other.                             *)

\* f has the values that t reaches from r along w.
Along(f, S, t, r, w) ==
    /\ f \in [0 .. Len(w) -> S]
    /\ \A k \in 0 .. Len(w) : f[k] = IF k = 0 THEN r ELSE t[f[k - 1]][w[k]]

\* A function of a state and an element goes along a sequence.
LEMMA AlongExists ==
    ASSUME NEW S, NEW C, NEW t \in [S -> [C -> S]], NEW r \in S, NEW w \in Seq(C)
    PROVE  \E f : Along(f, S, t, r, w)
<1> DEFINE Part(n) == \E f \in [0 .. n -> S] :
                         \A k \in 0 .. n : f[k] = IF k = 0 THEN r ELSE t[f[k - 1]][w[k]]
           Bad == {n \in 0 .. Len(w) : ~ Part(n)}
<1>0. Len(w) \in Nat /\ \A k \in 1 .. Len(w) : w[k] \in C
  BY WordFacts
<1>1. Part(0)
  <2> DEFINE f == [k \in 0 .. 0 |-> r]
  <2>1. f \in [0 .. 0 -> S] /\ \A k \in 0 .. 0 : k = 0 /\ f[k] = r
    OBVIOUS
  <2> QED
    BY <2>1
<1>2. ASSUME NEW n \in 0 .. Len(w) - 1, Part(n)
      PROVE  Part(n + 1)
  <2>1. PICK f \in [0 .. n -> S] : \A k \in 0 .. n : f[k] = IF k = 0 THEN r ELSE t[f[k - 1]][w[k]]
    BY <1>2
  <2> DEFINE g == [k \in 0 .. n + 1 |-> IF k = n + 1 THEN t[f[n]][w[n + 1]] ELSE f[k]]
  <2>2. n \in 0 .. n /\ f[n] \in S /\ w[n + 1] \in C /\ t[f[n]][w[n + 1]] \in S
    BY <1>0
  <2>3. g \in [0 .. n + 1 -> S]
    BY <2>2
  <2>4. \A k \in 0 .. n : g[k] = f[k] /\ (k # 0 => k - 1 \in 0 .. n /\ g[k - 1] = f[k - 1])
    OBVIOUS
  <2>5. g[n + 1] = t[g[n]][w[n + 1]]
    BY <2>2, <2>4
  <2> HIDE DEF g
  <2>6. ASSUME NEW k \in 0 .. n + 1
        PROVE  g[k] = IF k = 0 THEN r ELSE t[g[k - 1]][w[k]]
    <3>1. CASE k = n + 1
      BY <2>5, <3>1
    <3>2. CASE k \in 0 .. n
      BY <2>1, <2>4, <3>2
    <3> QED
      BY <3>1, <3>2
  <2> QED
    BY <2>3, <2>6
<1>3. ASSUME Bad # {} PROVE FALSE
  <2>1. Bad \subseteq Nat
    BY <1>0
  <2>2. PICK n \in Bad : \A k \in Bad : n <= k
    BY <1>3, <2>1, LeastElement
  <2> HIDE DEF Part
  <2>3. n # 0
    BY <1>1
  <2>4. n - 1 \in 0 .. Len(w) - 1 /\ n - 1 \in 0 .. Len(w) /\ n - 1 + 1 = n
    BY <1>0, <2>3
  <2>5. Part(n - 1)
    BY <1>0, <2>2, <2>4
  <2> QED
    BY <1>2, <2>4, <2>5
<1> HIDE DEF Part
<1>4. Part(Len(w))
  BY <1>0, <1>3
<1> QED
  BY <1>4 DEF Part, Along

\* The strings over C, and concatenation as a function.
Str(C) == Seq(C)
Cat(C) == [x \in Str(C) |-> [y \in Str(C) |-> x \o y]]

\* The laws of concatenation.
LEMMA CatFacts ==
    ASSUME NEW C
    PROVE  /\ Cat(C) \in [Str(C) -> [Str(C) -> Str(C)]]
           /\ <<>> \in Str(C)
           /\ \A x, y \in Str(C) : Cat(C)[x][y] = x \o y
           /\ \A x \in Str(C) : Cat(C)[<<>>][x] = x /\ Cat(C)[x][<<>>] = x
           /\ \A x, y, v \in Str(C) : Cat(C)[Cat(C)[x][y]][v] = Cat(C)[x][Cat(C)[y][v]]
<1>1. \A x, y \in Str(C) : x \o y \in Str(C)
  BY DEF Str
<1>2. \A x \in Str(C) : <<>> \o x = x /\ x \o <<>> = x
  BY ConcatEmptySeq DEF Str
<1>3. ASSUME NEW x \in Str(C), NEW y \in Str(C), NEW v \in Str(C)
      PROVE  (x \o y) \o v = x \o (y \o v)
  BY ConcatAssociative DEF Str
<1>4. <<>> \in Str(C)
  BY DEF Str
<1>5. Cat(C) = [x \in Str(C) |-> [y \in Str(C) |-> x \o y]]
  BY DEF Cat
<1>7. Cat(C) \in [Str(C) -> [Str(C) -> Str(C)]] /\ \A x, y \in Str(C) : Cat(C)[x][y] = x \o y
  BY <1>1, <1>5
<1>8. \A x \in Str(C) : Cat(C)[<<>>][x] = x /\ Cat(C)[x][<<>>] = x
  BY <1>2, <1>4, <1>7
<1>9. ASSUME NEW x \in Str(C), NEW y \in Str(C), NEW v \in Str(C)
      PROVE  Cat(C)[Cat(C)[x][y]][v] = Cat(C)[x][Cat(C)[y][v]]
  <2>1. Cat(C)[x][y] = x \o y /\ Cat(C)[y][v] = y \o v /\ x \o y \in Str(C) /\ y \o v \in Str(C)
    BY <1>1, <1>7
  <2>2. Cat(C)[x \o y][v] = (x \o y) \o v /\ Cat(C)[x][y \o v] = x \o (y \o v)
    BY <1>7, <2>1
  <2> QED
    BY <1>3, <2>1, <2>2
<1> QED
  BY <1>4, <1>7, <1>8, <1>9

\* FlattenSeq concatenates along its argument.
LEMMA FlattenIs ==
    ASSUME NEW C, NEW s \in Seq(Str(C))
    PROVE  \E f : Along(f, Str(C), Cat(C), <<>>, s) /\ FlattenSeq(s) = f[Len(s)]
<1> DEFINE n == Len(s)
           t == Cat(C)
<1>0. n \in Nat /\ \A i \in 1 .. n : s[i] \in Str(C)
  OBVIOUS
<1>1. /\ t \in [Str(C) -> [Str(C) -> Str(C)]] /\ <<>> \in Str(C)
      /\ \A x, y \in Str(C) : t[x][y] = x \o y
  BY CatFacts
<1>2. \A x \in Str(C) : t[<<>>][x] = x
  BY CatFacts
<1>b. FlattenSeq(s) = IF s = <<>> THEN s
        ELSE (CHOOSE g : g = [i \in 1 .. n |-> IF i = 1 THEN s[i] ELSE g[i - 1] \o s[i]])[n]
  BY DEF FlattenSeq
<1>c. s = <<>> <=> n = 0
  OBVIOUS
<1> HIDE DEF t
<1>g. t \in [Str(C) -> [Str(C) -> Str(C)]] /\ <<>> \in Str(C)
  BY <1>1
<1> HIDE DEF n
<1>h. \E f : Along(f, Str(C), t, <<>>, s)
  BY <1>g, AlongExists
<1>d. PICK f \in [0 .. n -> Str(C)] :
         \A k \in 0 .. n : f[k] = IF k = 0 THEN <<>> ELSE t[f[k - 1]][s[k]]
  BY <1>h DEF n, Along
<1> HIDE DEF n
<1>e. \A k \in 0 .. n : f[k] \in Str(C)
  OBVIOUS
<1>f. \A i \in 1 .. n : f[i] = IF i = 1 THEN s[i] ELSE f[i - 1] \o s[i]
  <2> SUFFICES ASSUME NEW i \in 1 .. n PROVE f[i] = IF i = 1 THEN s[i] ELSE f[i - 1] \o s[i]
    OBVIOUS
  <2>1. i \in 0 .. n /\ i # 0 /\ i - 1 \in 0 .. n /\ 0 \in 0 .. n
    BY <1>0
  <2>2. f[i] = t[f[i - 1]][s[i]] /\ f[i - 1] \in Str(C) /\ s[i] \in Str(C)
    BY <1>0, <1>d, <1>e, <2>1
  <2>3. f[0] = <<>>
    BY <1>d, <2>1
  <2>4. CASE i = 1
    BY <1>2, <2>2, <2>3, <2>4
  <2>5. CASE i # 1
    BY <1>1, <2>2, <2>5
  <2> QED
    BY <2>4, <2>5
<1> DEFINE Rec(g) == g = [i \in 1 .. n |-> IF i = 1 THEN s[i] ELSE g[i - 1] \o s[i]]
           p == [i \in 1 .. n |-> f[i]]
           h == CHOOSE g : Rec(g)
<1>3. Rec(p)
  <2>1. \A i \in 1 .. n : p[i] = f[i] /\ (i # 1 => p[i - 1] = f[i - 1])
    BY <1>0
  <2>2. \A i \in 1 .. n : f[i] = IF i = 1 THEN s[i] ELSE p[i - 1] \o s[i]
    BY <1>f, <2>1
  <2> QED
    BY <2>2
<1>4. Rec(h)
  BY <1>3
<1>5. n # 0 => FlattenSeq(s) = h[n]
  BY <1>b, <1>c
<1> HIDE DEF h, p
<1>6. \A i \in 1 .. n : h[i] = IF i = 1 THEN s[i] ELSE h[i - 1] \o s[i]
  BY <1>4
<1> HIDE DEF Rec
<1>7. \A i \in 1 .. n : h[i] = f[i]
  <2> DEFINE Off == {i \in 1 .. n : h[i] # f[i]}
  <2>1. ASSUME Off # {} PROVE FALSE
    <3>1. PICK i \in Off : \A k \in Off : i <= k
      BY <1>0, <2>1, LeastElement, Off \subseteq Nat
    <3>2. i # 1
      BY <1>f, <1>6, <3>1
    <3>3. i - 1 \in 1 .. n /\ i - 1 \notin Off
      BY <1>0, <3>1, <3>2
    <3>4. h[i] = h[i - 1] \o s[i] /\ f[i] = f[i - 1] \o s[i] /\ h[i - 1] = f[i - 1]
      BY <1>f, <1>6, <3>1, <3>2, <3>3
    <3> QED
      BY <3>1, <3>4
  <2> QED
    BY <2>1
<1>8. FlattenSeq(s) = f[n]
  <2>1. CASE n = 0
    <3>1. 0 \in 0 .. n
      BY <2>1
    <3>2. f[0] = <<>>
      BY <1>d, <3>1
    <3> QED
      BY <1>b, <1>c, <2>1, <3>2
  <2>2. CASE n # 0
    <3>1. n \in 1 .. n
      BY <1>0, <2>2
    <3> QED
      BY <1>5, <1>7, <2>2, <3>1
  <2> QED
    BY <2>1, <2>2
<1> QED
  BY <1>8, <1>d DEF n, t, Along

\* Its elements are elements of theirs, and the first sequence can be taken out.
LEMMA FlattenFacts ==
    ASSUME NEW C, NEW s \in Seq(Str(C))
    PROVE  /\ FlattenSeq(s) \in Str(C) /\ FlattenSeq(<<>>) = <<>>
           /\ \A u \in Str(C) : FlattenSeq(<<u>> \o s) = u \o FlattenSeq(s)
<1> DEFINE n == Len(s)
           cat == Cat(C)
<1>0. n \in Nat /\ \A i \in 1 .. n : s[i] \in Str(C)
  OBVIOUS
<1>a. FlattenSeq(<<>>) = <<>>
  BY DEF FlattenSeq
<1>b. cat \in [Str(C) -> [Str(C) -> Str(C)]] /\ \A x, y \in Str(C) : cat[x][y] = x \o y
  BY CatFacts
<1>c. \A x \in Str(C) : cat[<<>>][x] = x /\ cat[x][<<>>] = x
  BY CatFacts
<1>d. \A x, y, v \in Str(C) : cat[cat[x][y]][v] = cat[x][cat[y][v]]
  BY CatFacts
<1>f. PICK f : Along(f, Str(C), Cat(C), <<>>, s) /\ FlattenSeq(s) = f[Len(s)]
  BY FlattenIs
<1>1. /\ f \in [0 .. n -> Str(C)] /\ FlattenSeq(s) = f[n]
      /\ \A k \in 0 .. n : f[k] = IF k = 0 THEN <<>> ELSE cat[f[k - 1]][s[k]]
  BY <1>f DEF Along
<1>e. FlattenSeq(s) \in Str(C)
  BY <1>0, <1>1
<1>2. ASSUME NEW u \in Str(C) PROVE FlattenSeq(<<u>> \o s) = u \o FlattenSeq(s)
  <2> DEFINE t == <<u>> \o s
  <2>1. /\ t \in Seq(Str(C)) /\ Len(t) = n + 1 /\ t[1] = u
        /\ \A i \in 1 .. n : t[i + 1] = s[i]
    OBVIOUS
  <2> HIDE DEF t
  <2>a. PICK g : Along(g, Str(C), Cat(C), <<>>, t) /\ FlattenSeq(t) = g[Len(t)]
    BY <2>1, FlattenIs
  <2>2. /\ g \in [0 .. n + 1 -> Str(C)] /\ FlattenSeq(t) = g[n + 1]
        /\ \A k \in 0 .. n + 1 : g[k] = IF k = 0 THEN <<>> ELSE cat[g[k - 1]][t[k]]
    BY <2>1, <2>a DEF Along
  <2> HIDE DEF n, cat
  <2>3. \A k \in 0 .. n : g[k + 1] = cat[g[k]][t[k + 1]]
    <3> SUFFICES ASSUME NEW k \in 0 .. n PROVE g[k + 1] = cat[g[k]][t[k + 1]]
      OBVIOUS
    <3>1. k + 1 \in 0 .. n + 1 /\ k + 1 # 0 /\ k + 1 - 1 = k
      BY <1>0
    <3> QED
      BY <2>2, <3>1
  <2>4. g[1] = u
    <3>1. 0 \in 0 .. n /\ 0 \in 0 .. n + 1 /\ 0 + 1 = 1
      BY <1>0
    <3>2. g[0] = <<>> /\ g[1] = cat[g[0]][t[1]]
      BY <2>2, <2>3, <3>1
    <3> QED
      BY <1>c, <2>1, <3>2
  <2>b. f[0] = <<>> /\ \A k \in 0 .. n : f[k] \in Str(C)
    <3>1. 0 \in 0 .. n
      BY <1>0
    <3> QED
      BY <1>1, <3>1
  <2> DEFINE Off == {k \in 0 .. n : g[k + 1] # cat[u][f[k]]}
  <2>5. ASSUME Off # {} PROVE FALSE
    <3>1. PICK k \in Off : \A l \in Off : k <= l
      BY <1>0, <2>5, LeastElement, Off \subseteq Nat
    <3>2. k # 0
      <4>1. cat[u][f[0]] = u
        BY <1>c, <2>b
      <4>2. k = 0 => k + 1 = 1
        OBVIOUS
      <4> QED
        BY <2>4, <3>1, <4>1, <4>2
    <3>3. k - 1 \in 0 .. n /\ k - 1 \notin Off /\ k - 1 + 1 = k /\ k \in 1 .. n /\ k \in 0 .. n
      BY <1>0, <3>1, <3>2
    <3>4. g[k] = cat[u][f[k - 1]]
      BY <3>3
    <3>5. g[k + 1] = cat[g[k]][s[k]] /\ f[k] = cat[f[k - 1]][s[k]]
      BY <1>1, <2>1, <2>3, <3>2, <3>3
    <3>6. f[k - 1] \in Str(C) /\ s[k] \in Str(C)
      BY <1>0, <2>b, <3>3
    <3> DEFINE x == f[k - 1]
               y == s[k]
    <3>7. cat[cat[u][x]][y] = cat[u][cat[x][y]]
      BY <1>d, <3>6
    <3>8. g[k + 1] = cat[u][f[k]]
      BY <3>4, <3>5, <3>7
    <3> QED
      BY <3>1, <3>8
  <2>6. n \in 0 .. n /\ f[n] \in Str(C)
    BY <1>0, <1>1
  <2>7. g[n + 1] = cat[u][f[n]]
    BY <2>5, <2>6
  <2>8. cat[u][f[n]] = u \o f[n]
    BY <1>b, <2>6
  <2> QED
    BY <1>1, <2>2, <2>7, <2>8 DEF t
<1> QED
  BY <1>2, <1>e, <1>a

-----------------------------------------------------------------------------
(* What the machine finds.                                                 *)

\* The tables are filled, and a string of patterns is the anchor that ends at
\* its node.
Filled ==
    /\ pc = "built"
    /\ table \in [Nodes -> [Char -> Nodes]] /\ matches \in [Nodes -> BOOLEAN]
    /\ \A n \in Nodes : StateRight(n) /\ (matches[n] => match[n])

PatternsRight ==
    \A n \in Nodes : patterns[n] \notin {NullPattern, EmptyPattern} =>
        message[n] # NoSlot /\ patterns[n] = message[n]

Machine == ACInv /\ SlotInv /\ SuffixInv /\ Filled /\ PatternsRight

\* The basic facts about the machine.
LEMMA MachineFacts ==
    ASSUME Machine
    PROVE  /\ ACInv /\ ACTypeOK /\ TreeInv /\ Late
           /\ Root \in Nodes /\ word[Root] = <<>>
           /\ \A n \in Nodes : word[n] \in Seq(Char)
           /\ Len(anchors) \in Nat
           /\ \A e \in 1 .. entry - 1 : e \in 1 .. Len(anchors) /\ anchors[e] # <<>>
           /\ \A e \in 1 .. Len(anchors) : anchors[e] \in Seq(Char)
<1>1. ACTypeOK /\ TreeInv /\ EnterInv /\ pc = "built"
  BY DEF Machine, ACInv, Filled
<1>2. Len(anchors) \in Nat
  BY <1>1 DEF ACTypeOK
<1>3. entry \in Nat \ {0}
  BY <1>1 DEF ACTypeOK
<1>4. \A e \in 1 .. entry - 1 : e \in 1 .. Len(anchors) /\ anchors[e] # <<>>
  BY <1>1, <1>2, <1>3 DEF EnterInv
<1>5. \A e \in 1 .. Len(anchors) : anchors[e] \in Seq(Char)
  BY <1>1, <1>2, AnchorsAreWords
<1>6. \A n \in Nodes : word[n] \in Seq(Char)
  BY <1>1, TypeFacts
<1>7. Root \in Nodes /\ word[Root] = <<>>
  BY <1>1, RootFacts
<1> QED
  BY <1>1, <1>2, <1>4, <1>5, <1>6, <1>7 DEF Machine, Late

\* A step leads to a node whose word ends the text read.
LEMMA ReadsOn ==
    ASSUME Machine, NEW s \in Nodes, NEW c \in Char, NEW text \in Seq(Char), Ends(word[s], text)
    PROVE  /\ table[s][c] \in Nodes
           /\ Ends(word[table[s][c]], Append(text, c))
<1>0. ACInv /\ ACTypeOK /\ TreeInv /\ Late /\ StateRight(s)
  BY MachineFacts DEF Machine, Filled
<1> DEFINE u == word[s]
           q == table[s][c]
           x == Append(u, c)
           y == Append(text, c)
<1>1. u \in Seq(Char) /\ x \in Seq(Char) /\ y \in Seq(Char)
  BY <1>0, TypeFacts
<1>2. q = NodeOf(x)
  BY <1>0, GotoIs DEF StateRight
<1>3. Ends(x, y)
  BY <1>1, EndsAppend
<1> HIDE DEF u, q, x, y
<1>4. q \in Nodes /\ word[q] = Longest(Known, x)
  BY <1>0, <1>1, <1>2, NodeOfIs
<1>5. Ends(word[q], x)
  BY <1>0, <1>1, <1>4, KnownFacts, LongestIs
<1>6. word[q] \in Seq(Char)
  BY <1>0, <1>4, TypeFacts
<1>7. Ends(word[q], y)
  BY <1>1, <1>3, <1>5, <1>6, EndsOrder
<1> QED
  BY <1>4, <1>7 DEF q, y

\* So do all the states on the way through a text.
LEMMA StatesAre ==
    ASSUME Machine, NEW text \in Seq(Char), NEW k \in 0 .. Len(text)
    PROVE  /\ StatesOf(text)[k] \in Nodes
           /\ Ends(word[StatesOf(text)[k]], SubSeq(text, 1, k))
<1> DEFINE n == Len(text)
           Rec(f) == f = [i \in 0 .. n |-> IF i = 0 THEN Root ELSE table[f[i - 1]][text[i]]]
           h == CHOOSE f : Rec(f)
<1>0. n \in Nat /\ Root \in Nodes /\ word[Root] = <<>> /\ table \in [Nodes -> [Char -> Nodes]]
  BY MachineFacts DEF Machine, Filled
<1>1. StatesOf(text) = h
  BY DEF StatesOf, GetNextState
<1>2. \E f : Rec(f)
  <2>1. PICK f : Along(f, Nodes, table, Root, text)
    BY <1>0, AlongExists
  <2>2. /\ f \in [0 .. n -> Nodes]
        /\ \A i \in 0 .. n : f[i] = IF i = 0 THEN Root ELSE table[f[i - 1]][text[i]]
    BY <2>1 DEF Along
  <2>3. f = [i \in 0 .. n |-> f[i]]
    BY <2>2
  <2> QED
    BY <2>2, <2>3
<1>3. Rec(h)
  BY <1>2
<1> HIDE DEF h
<1>4. \A i \in 0 .. n : h[i] = IF i = 0 THEN Root ELSE table[h[i - 1]][text[i]]
  BY <1>3
<1> DEFINE Good(i) == h[i] \in Nodes /\ Ends(word[h[i]], SubSeq(text, 1, i))
           Bad == {i \in 0 .. n : ~ Good(i)}
<1> HIDE DEF Rec
<1>5. Good(0)
  <2>1. 0 \in 0 .. n
    BY <1>0
  <2>2. h[0] = Root
    BY <1>4, <2>1
  <2>3. SubSeq(text, 1, 0) = <<>> /\ Ends(<<>>, <<>>)
    BY Beginnings DEF Ends
  <2> QED
    BY <1>0, <2>2, <2>3
<1>6. ASSUME NEW i \in 0 .. n - 1, Good(i)
      PROVE  Good(i + 1)
  <2> DEFINE t == SubSeq(text, 1, i)
             c == text[i + 1]
  <2>1. c \in Char /\ SubSeq(text, 1, i + 1) = Append(t, c)
    BY Beginnings
  <2>2. t \in Seq(Char)
    BY <1>0, Beginnings, i \in 0 .. Len(text)
  <2>3. i + 1 \in 0 .. n /\ i + 1 # 0 /\ i + 1 - 1 = i
    BY <1>0
  <2>4. h[i + 1] = table[h[i]][c]
    BY <1>4, <2>3
  <2> HIDE DEF t, c
  <2>5. h[i] \in Nodes /\ Ends(word[h[i]], t)
    BY <1>6 DEF t
  <2>6. table[h[i]][c] \in Nodes /\ Ends(word[table[h[i]][c]], Append(t, c))
    BY <2>1, <2>2, <2>5, ReadsOn
  <2> QED
    BY <2>1, <2>4, <2>6
<1> HIDE DEF Good
<1>7. ASSUME Bad # {} PROVE FALSE
  <2>1. PICK i \in Bad : \A l \in Bad : i <= l
    BY <1>0, <1>7, LeastElement, Bad \subseteq Nat
  <2>2. i # 0
    BY <1>5, <2>1
  <2>3. i - 1 \in 0 .. n - 1 /\ i - 1 \in 0 .. n /\ i - 1 \notin Bad /\ i - 1 + 1 = i
    BY <1>0, <2>1, <2>2
  <2> QED
    BY <1>6, <2>1, <2>3
<1>8. Good(k)
  BY <1>7
<1> QED
  BY <1>1, <1>8 DEF Good

\* The first slot of a match.
LEMMA FirstSlot ==
    ASSUME Machine, NEW s \in Nodes, matches[s]
    PROVE  /\ slots[s][0] \in 1 .. entry - 1 /\ slots[s][0] \in 1 .. Len(anchors)
           /\ anchors[slots[s][0]] \in Seq(Char)
           /\ Ends(anchors[slots[s][0]], word[s])
<1>1. match[s]
  BY DEF Machine, Filled
<1>2. numMatches[s] \in Nat /\ numMatches[s] > 0
  BY <1>1 DEF Machine, SuffixInv
<1>3. SlotEnds(s, 0)
  BY <1>2 DEF Machine, SuffixInv
<1> QED
  BY <1>3, MachineFacts DEF SlotEnds

\* What GetLongestAnchor finds in a text ends somewhere in it.
LEMMA LongestAnchorIs ==
    ASSUME Machine, NEW text \in Seq(Char)
    PROVE  \/ GetLongestAnchor(text) = <<>>
           \/ \E e \in 1 .. entry - 1, k \in 1 .. Len(text) :
                 GetLongestAnchor(text) = <<e>> /\ Ends(anchors[e], SubSeq(text, 1, k))
<1> DEFINE found == {k \in 1 .. Len(text) : Reports(StatesOf(text)[k])}
           k == Max(found)
           s == StatesOf(text)[k]
<1>0. Len(text) \in Nat
  OBVIOUS
<1>1. GetLongestAnchor(text) = IF found = {} THEN <<>> ELSE <<slots[s][0]>>
  BY DEF GetLongestAnchor
<1> SUFFICES ASSUME found # {}
             PROVE  \E e \in 1 .. entry - 1, l \in 1 .. Len(text) :
                       GetLongestAnchor(text) = <<e>> /\ Ends(anchors[e], SubSeq(text, 1, l))
  BY <1>1
<1>2. k \in found
  <2>1. \E m \in found : \A l \in found : l <= m
    BY <1>0, GreatestElement, found \subseteq 0 .. Len(text)
  <2>2. found \subseteq Int
    BY <1>0
  <2> HIDE DEF found
  <2> QED
    BY <2>1, <2>2 DEF Max
<1> HIDE DEF k
<1>3. k \in 1 .. Len(text) /\ k \in 0 .. Len(text) /\ matches[s]
  BY <1>2 DEF Reports
<1>4. s \in Nodes /\ Ends(word[s], SubSeq(text, 1, k))
  BY <1>3, StatesAre
<1> HIDE DEF s
<1> DEFINE e == slots[s][0]
           t == SubSeq(text, 1, k)
<1>5. e \in 1 .. entry - 1 /\ anchors[e] \in Seq(Char) /\ Ends(anchors[e], word[s])
  BY <1>3, <1>4, FirstSlot
<1>6. word[s] \in Seq(Char) /\ t \in Seq(Char)
  BY <1>3, <1>4, MachineFacts, Beginnings
<1>7. Ends(anchors[e], t)
  <2> DEFINE u == word[s]
             v == anchors[e]
  <2>1. u \in Seq(Char) /\ v \in Seq(Char) /\ Ends(v, u) /\ Ends(u, t)
    BY <1>4, <1>5, <1>6
  <2> HIDE DEF t, u, v
  <2>2. Ends(v, t)
    BY <1>6, <2>1, EndsOrder
  <2> QED
    BY <2>2 DEF v
<1> QED
  BY <1>1, <1>3, <1>5, <1>7

\* The pattern of a state is its word, if it has one.
LEMMA PatternIs ==
    ASSUME Machine, NEW s \in Nodes
    PROVE  \/ PatternOf(s) = <<>>
           \/ \E e \in 1 .. entry - 1 : PatternOf(s) = anchors[e] /\ anchors[e] = word[s]
BY DEF PatternOf, Machine, PatternsRight, SlotInv

\* The anchors found at a state, from where its first slot and GetLongestAnchor
\* have them.
LEMMA FoundIn ==
    ASSUME Machine, NEW s \in Nodes, NEW G,
           matches[s] => slots[s][0] \in G,
           \A i \in 1 .. Len(PatternOf(s)) - 2 :
               GetLongestAnchor(SubSeq(PatternOf(s), i + 1, Len(PatternOf(s)))) \in Str(G)
    PROVE  FoundAt(s) \in Seq(G)
<1>1. CASE ~ matches[s]
  BY <1>1 DEF FoundAt
<1>2. CASE matches[s]
  <2> DEFINE w == PatternOf(s)
             m == Max({0, Len(w) - 2})
             f == [i \in 1 .. m |-> GetLongestAnchor(SubSeq(w, i + 1, Len(w)))]
  <2>1. Len(w) \in Nat
    BY PatternIs, MachineFacts
  <2>2. m \in Nat /\ (m = 0 \/ m = Len(w) - 2)
    <3> DEFINE l == Len(w) - 2
    <3>1. l \in Int
      BY <2>1
    <3> HIDE DEF l
    <3>2. Max({0, l}) = IF l > 0 THEN l ELSE 0
      <4>1. CASE l > 0
        BY <3>1, <4>1 DEF Max
      <4>2. CASE ~ l > 0
        BY <3>1, <4>2 DEF Max
      <4> QED
        BY <4>1, <4>2
    <3> QED
      BY <3>1, <3>2 DEF l
  <2> HIDE DEF m
  <2>3. \A i \in 1 .. m : GetLongestAnchor(SubSeq(w, i + 1, Len(w))) \in Str(G)
    BY <2>1, <2>2
  <2> HIDE DEF w
  <2>4. f \in Seq(Str(G))
    BY <2>2, <2>3
  <2> HIDE DEF f
  <2>5. FlattenSeq(f) \in Str(G)
    BY <2>4, FlattenFacts
  <2>6. FoundAt(s) = <<slots[s][0]>> \o FlattenSeq(f)
    BY <1>2 DEF FoundAt, AnchorsAt, f, m, w
  <2>7. slots[s][0] \in G
    BY <1>2
  <2> DEFINE g == FlattenSeq(f)
             x == slots[s][0]
  <2>8. g \in Seq(G) /\ x \in G
    BY <2>5, <2>7 DEF Str
  <2> HIDE DEF g, x
  <2>9. <<x>> \o g \in Seq(G)
    BY <2>8
  <2> QED
    BY <2>6, <2>9 DEF g, x
<1> QED
  BY <1>1, <1>2

\* The anchors that fit in the first k characters.
Fitting(k) == {e \in 1 .. Len(anchors) : anchors[e] # <<>> /\ Len(anchors[e]) <= k}

\* None of those found is longer than the word of the state.
LEMMA FoundFits ==
    ASSUME Machine, NEW s \in Nodes
    PROVE  FoundAt(s) \in Seq(Fitting(Len(word[s])))
<1> DEFINE G == Fitting(Len(word[s]))
           w == PatternOf(s)
<1>0. word[s] \in Seq(Char) /\ Len(word[s]) \in Nat
  BY MachineFacts
<1>1. matches[s] => slots[s][0] \in G
  BY FirstSlot, MachineFacts DEF Fitting, Ends
<1>2. ASSUME NEW i \in 1 .. Len(w) - 2
      PROVE  GetLongestAnchor(SubSeq(w, i + 1, Len(w))) \in Str(G)
  <2>1. w \in Seq(Char) /\ Len(w) \in Nat /\ Len(w) <= Len(word[s])
    BY <1>0, PatternIs, MachineFacts
  <2> HIDE DEF w
  <2> DEFINE text == SubSeq(w, i + 1, Len(w))
  <2>2. text \in Seq(Char) /\ Len(text) = Len(w) - i
    BY <2>1
  <2> HIDE DEF text
  <2>3. CASE GetLongestAnchor(text) = <<>>
    <3>1. <<>> \in Str(G)
      BY DEF Str
    <3> HIDE DEF G
    <3> QED
      BY <2>3, <3>1 DEF text
  <2>4. CASE \E e \in 1 .. entry - 1, k \in 1 .. Len(text) :
                 GetLongestAnchor(text) = <<e>> /\ Ends(anchors[e], SubSeq(text, 1, k))
    <3>1. PICK e \in 1 .. entry - 1, k \in 1 .. Len(text) :
                 GetLongestAnchor(text) = <<e>> /\ Ends(anchors[e], SubSeq(text, 1, k))
      BY <2>4
    <3>2. e \in 1 .. Len(anchors) /\ anchors[e] \in Seq(Char) /\ anchors[e] # <<>>
      BY MachineFacts
    <3>3. Len(SubSeq(text, 1, k)) = k
      BY <2>2
    <3>4. Len(anchors[e]) <= k
      BY <3>1, <3>3 DEF Ends
    <3>5. Len(anchors[e]) \in Nat
      BY <3>2
    <3>6. e \in G
      BY <1>0, <2>1, <2>2, <3>2, <3>4, <3>5 DEF Fitting
    <3> HIDE DEF G
    <3>7. <<e>> \in Str(G)
      BY <3>6 DEF Str
    <3> QED
      BY <3>1, <3>7 DEF text
  <2> QED
    BY <2>2, <2>3, <2>4, LongestAnchorIs
<1> QED
  BY <1>1, <1>2, FoundIn

\* The anchors that end a word.
Ending(w) == {e \in Fitting(Len(w)) : Ends(anchors[e], w)}

\* Where no anchor occurs inside another, all of those found end at the state.
LEMMA FoundEnds ==
    ASSUME Machine, NoInnerAnchor, NEW s \in Nodes
    PROVE  FoundAt(s) \in Seq(Ending(word[s]))
<1> DEFINE G == Ending(word[s])
           w == PatternOf(s)
<1>0. word[s] \in Seq(Char) /\ Len(word[s]) \in Nat
  BY MachineFacts
<1>1. matches[s] => slots[s][0] \in G
  BY FirstSlot, MachineFacts DEF Ending, Fitting, Ends
<1>2. ASSUME NEW i \in 1 .. Len(w) - 2
      PROVE  GetLongestAnchor(SubSeq(w, i + 1, Len(w))) \in Str(G)
  <2>1. PICK d \in 1 .. entry - 1 : w = anchors[d] /\ anchors[d] = word[s]
    <3>1. w # <<>>
      OBVIOUS
    <3> QED
      BY <3>1, PatternIs
  <2>2. w \in Seq(Char) /\ Len(w) \in Nat /\ w = word[s]
    BY <1>0, <2>1
  <2> HIDE DEF w
  <2> DEFINE text == SubSeq(w, i + 1, Len(w))
  <2>3. /\ text \in Seq(Char) /\ Len(text) = Len(w) - i /\ Len(text) \in Nat
        /\ \A m \in 1 .. Len(text) : text[m] = w[i + m]
    BY <2>2
  <2> HIDE DEF text
  <2>4. CASE GetLongestAnchor(text) = <<>>
    <3>1. <<>> \in Str(G)
      BY DEF Str
    <3> HIDE DEF G
    <3> QED
      BY <2>4, <3>1 DEF text
  <2>5. CASE \E e \in 1 .. entry - 1, k \in 1 .. Len(text) :
                 GetLongestAnchor(text) = <<e>> /\ Ends(anchors[e], SubSeq(text, 1, k))
    <3>1. PICK e \in 1 .. entry - 1, k \in 1 .. Len(text) :
                 GetLongestAnchor(text) = <<e>> /\ Ends(anchors[e], SubSeq(text, 1, k))
      BY <2>5
    <3> DEFINE v == anchors[e]
               l == Len(v)
               j == i + k - l + 1
    <3>2. e \in 1 .. Len(anchors) /\ v \in Seq(Char) /\ v # <<>>
      BY MachineFacts
    <3>3. l \in Nat /\ l # 0
      BY <3>2
    <3>4. Len(SubSeq(text, 1, k)) = k /\ \A m \in 1 .. k : SubSeq(text, 1, k)[m] = text[m]
      BY <2>3
    <3> DEFINE t == SubSeq(text, 1, k)
    <3> HIDE DEF t
    <3>5. l <= k /\ \A m \in 1 .. l : v[m] = t[k - l + m]
      BY <3>1, <3>4 DEF Ends, t
    <3>6. \A m \in 1 .. l : v[m] = w[j + m - 1]
      <4> SUFFICES ASSUME NEW m \in 1 .. l PROVE v[m] = w[j + m - 1]
        OBVIOUS
      <4> HIDE DEF v, l
      <4>1. k - l + m \in 1 .. k /\ k - l + m \in 1 .. Len(text)
        BY <2>3, <3>3, <3>5
      <4>2. t[k - l + m] = w[i + (k - l + m)]
        BY <2>3, <3>4, <4>1 DEF t
      <4>3. i + (k - l + m) = j + m - 1
        BY <3>3
      <4> QED
        BY <3>5, <4>2, <4>3
    <3>7. j \in 2 .. Len(w) - l + 1 /\ l <= Len(w) /\ j + l - 1 <= Len(w)
      <4> HIDE DEF v, l
      <4> QED
        BY <2>2, <2>3, <3>3, <3>5
    <3>8. SubSeq(w, j, j + l - 1) = v
      <4> HIDE DEF v, l, j
      <4>a. j \in Nat /\ j >= 2 /\ j + l - 1 \in Nat /\ Len(w) \in Nat
        BY <2>2, <3>3, <3>7
      <4> DEFINE x == SubSeq(w, j, j + l - 1)
      <4>1. Len(x) = l
        BY <2>2, <3>3, <3>7, <4>a
      <4>2. \A m \in 1 .. l : x[m] = w[j + m - 1]
        BY <2>2, <3>3, <3>7, <4>a
      <4>3. x \in Seq(Char)
        BY <2>2, <3>7, <4>a
      <4> HIDE DEF x
      <4>4. \A m \in 1 .. l : x[m] = v[m]
        BY <3>6, <4>2 DEF j
      <4>5. x = v
        BY <3>2, <3>3, <4>1, <4>3, <4>4 DEF l
      <4> QED
        BY <4>5 DEF x
    <3>9. v \in Entered /\ w \in Entered
      <4>1. ASSUME NEW f \in 1 .. entry - 1
            PROVE  anchors[f] \in Entered
        <5>1. f \in 1 .. Len(anchors) /\ entry \in Nat
          BY MachineFacts DEF ACTypeOK
        <5>2. \A m \in 1 .. f : m \in 1 .. entry - 1
          BY <5>1
        <5>3. \A m \in 1 .. f : anchors[m] # <<>>
          BY <5>2, MachineFacts
        <5> QED
          BY <5>1, <5>3 DEF Entered
      <4> QED
        BY <2>1, <4>1
    <3>10. j \notin 2 .. Len(w) - l
      <4> HIDE DEF j
      <4> QED
        BY <3>8, <3>9 DEF NoInnerAnchor, l
    <3>11. j = Len(w) - l + 1
      <4> HIDE DEF v, l, j
      <4> QED
        BY <2>2, <3>3, <3>7, <3>10
    <3>12. Ends(v, w)
      <4>1. \A m \in 1 .. l : v[m] = w[Len(w) - l + m]
        <5> HIDE DEF v, l, j
        <5>1. \A m \in 1 .. l : v[m] = w[j + m - 1]
          BY <3>6 DEF j
        <5>2. \A m \in 1 .. l : j + m - 1 = Len(w) - l + m
          BY <2>2, <3>3, <3>11
        <5> QED
          BY <5>1, <5>2
      <4> QED
        BY <3>7, <4>1 DEF Ends
    <3>13. e \in G
      BY <2>2, <3>2, <3>7, <3>12 DEF Ending, Fitting
    <3> HIDE DEF G
    <3>14. <<e>> \in Str(G)
      BY <3>13 DEF Str
    <3> QED
      BY <3>1, <3>14 DEF text
  <2> QED
    BY <2>3, <2>4, <2>5, LongestAnchorIs
<1> QED
  BY <1>1, <1>2, FoundIn

-----------------------------------------------------------------------------
(* The inductive invariant.                                                *)

Running == tpc \in {"compress", "emit", "encoded"}

\* The anchor chosen at a position, and the size of the encoding with it.
Chosen(k) == N[k][ymins[k] + 1]
SizeRight(k) ==
    P[k] = IF ymins[k] = Symbol THEN P[k - 1] + symbolSize[input[k]]
           ELSE P[k - Len(anchors[Chosen(k)])] + huffman_len[Chosen(k)]

\* The sizes are those of the code tables.
SizesRight ==
    /\ Len(anchors) <= MaxAnchors
    /\ huffman_len \in [1 .. MaxAnchors -> Nat]
    /\ symbolSize \in [Char -> Nat]

\* What the loop over the URL has written.
LoopTypes ==
    /\ input \in Texts /\ idx \in 0 .. Len(input) /\ current \in Nodes
    /\ P \in [0 .. Len(input) -> Int]
    /\ N \in [1 .. Len(input) -> Seq(1 .. Len(anchors))]
    /\ ymins \in [1 .. Len(input) -> Int]
    /\ z \in 0 .. Len(input) /\ bits \in Nat /\ output \in Seq(Seq(Char))

LoopInv ==
    /\ LoopTypes
    /\ Ends(word[current], SubSeq(input, 1, idx))
    /\ \A k \in 1 .. Len(input) : N[k] \in Seq(Fitting(k))
    /\ \A k \in 1 .. Len(input) : ymins[k] \in {Symbol} \cup 0 .. Len(N[k]) - 1
    /\ \A k \in 1 .. idx : SizeRight(k)
    /\ tpc = "compress" => z = 0 /\ bits = 0 /\ output = <<>>
    /\ Emitting => idx = Len(input) /\ bits + P[z] = P[Len(input)]

UCInv ==
    /\ tpc \in {"tree", "put", "ready", "compress", "emit", "encoded"}
    /\ SizesRight
    /\ tpc \in {"tree", "put", "ready"} => TMInv /\ z = 0 /\ bits = 0 /\ output = <<>>
    /\ tpc # "tree" => PatternsRight
    /\ tpc = "ready" \/ Running => Filled
    /\ Running => LoopInv

\* What the builder guarantees.
Base == ACInv /\ SlotInv /\ SuffixInv

\* The loop leaves the machine alone.
LEMMA LoopFrame ==
    ASSUME UNCHANGED acVars, UNCHANGED tableVars
    PROVE  /\ UNCHANGED <<anchors, pc, entry, word, table, matches, patterns, message>>
           /\ Nodes' = Nodes /\ (Filled => Filled') /\ (PatternsRight => PatternsRight')
           /\ \A k : Fitting(k)' = Fitting(k)
           /\ \A w : Ending(w)' = Ending(w)
           /\ Entered' = Entered /\ NoInnerAnchor' = NoInnerAnchor
<1>1. /\ UNCHANGED <<anchors, pc, size, gotos, failure, word, match, entry, message>>
      /\ UNCHANGED <<table, matches, patterns>>
  BY DEF acVars, treeVars, matchVars, failVars, tableVars
<1>2. Nodes' = Nodes
  BY <1>1 DEF Nodes
<1>3. \A n, c : GotoAlongFailures(n, c)' = GotoAlongFailures(n, c)
  BY <1>1, <1>2 DEF GotoAlongFailures, acGetNextNode
<1>4. \A n : StateRight(n)' = StateRight(n)
  BY <1>1, <1>3 DEF StateRight
<1>5. (Filled => Filled') /\ (PatternsRight => PatternsRight')
  BY <1>1, <1>2, <1>4 DEF Filled, PatternsRight
<1>6. \A k : Fitting(k)' = Fitting(k)
  BY <1>1 DEF Fitting
<1>7. \A w : Ending(w)' = Ending(w)
  BY <1>1, <1>6 DEF Ending
<1>8. Entered' = Entered /\ NoInnerAnchor' = NoInnerAnchor
  BY <1>1 DEF Entered, NoInnerAnchor
<1> QED
  BY <1>1, <1>2, <1>5, <1>6, <1>7, <1>8

\* The chosen anchors are no longer than the prefix they end.
LEMMA ChosenFacts ==
    ASSUME Base, UCInv, Running, NEW k \in 1 .. Len(input), ymins[k] # Symbol
    PROVE  /\ Chosen(k) \in Fitting(k) /\ Chosen(k) \in 1 .. Len(anchors)
           /\ Chosen(k) \in {N[k][i] : i \in DOMAIN N[k]}
           /\ anchors[Chosen(k)] \in Seq(Char) /\ anchors[Chosen(k)] # <<>>
           /\ Len(anchors[Chosen(k)]) \in 1 .. k
           /\ huffman_len[Chosen(k)] \in Nat
<1>1. LoopInv /\ Machine /\ SizesRight
  BY DEF UCInv, Machine, Base, Running
<1>2. N[k] \in Seq(Fitting(k)) /\ ymins[k] \in 0 .. Len(N[k]) - 1
  BY <1>1 DEF LoopInv
<1>3. ymins[k] + 1 \in 1 .. Len(N[k])
  BY <1>2
<1>4. Chosen(k) \in Fitting(k) /\ Chosen(k) \in {N[k][i] : i \in DOMAIN N[k]}
  BY <1>2, <1>3, WordFacts DEF Chosen
<1> HIDE DEF Chosen
<1>5. Chosen(k) \in 1 .. Len(anchors) /\ anchors[Chosen(k)] # <<>> /\ Len(anchors[Chosen(k)]) <= k
  BY <1>4 DEF Fitting
<1>6. anchors[Chosen(k)] \in Seq(Char) /\ Len(anchors) \in Nat
  BY <1>1, <1>5, MachineFacts
<1>7. Len(anchors[Chosen(k)]) \in Nat /\ Len(anchors[Chosen(k)]) # 0
  BY <1>5, <1>6
<1>8. k \in Nat
  OBVIOUS
<1>9. Len(anchors[Chosen(k)]) \in 1 .. k
  BY <1>5, <1>7, <1>8
<1>10. Chosen(k) \in 1 .. MaxAnchors
  BY <1>1, <1>5, <1>6, ACAssumption DEF SizesRight
<1> QED
  BY <1>1, <1>4, <1>5, <1>6, <1>9, <1>10 DEF SizesRight

\* The texts are words.
LEMMA InputFacts ==
    ASSUME LoopTypes
    PROVE  /\ input \in Seq(Char) /\ Len(input) \in Nat /\ idx \in Nat /\ idx <= Len(input)
           /\ z \in Nat /\ z <= Len(input)
           /\ \A k \in 1 .. Len(input) : input[k] \in Char
<1>1. input \in Seq(Char)
  BY TMAssumption DEF LoopTypes
<1> QED
  BY <1>1 DEF LoopTypes

\* The machine is complete while the loop runs.
LEMMA RunningFacts ==
    ASSUME Base, UCInv, Running
    PROVE  /\ Machine /\ SizesRight /\ LoopInv /\ LoopTypes
           /\ input \in Seq(Char) /\ Len(input) \in Nat /\ idx \in Nat /\ idx <= Len(input)
           /\ z \in Nat /\ z <= Len(input)
           /\ \A k \in 1 .. Len(input) : input[k] \in Char
<1>1. Machine /\ SizesRight /\ LoopInv /\ LoopTypes
  BY DEF UCInv, Machine, Base, Running, LoopInv
<1> QED
  BY <1>1, InputFacts

\* The anchors found next fit, whatever the scan reads.
LEMMA NextFound ==
    ASSUME Base, UCInv, Running, idx < Len(input)
    PROVE  LET next == GetNextState(current, input[idx + 1]) IN
           /\ next \in Nodes /\ Ends(word[next], SubSeq(input, 1, idx + 1))
           /\ Len(word[next]) \in Nat /\ Len(word[next]) <= idx + 1
           /\ FoundAt(next) \in Seq(Fitting(idx + 1))
           /\ NoInnerAnchor => FoundAt(next) \in Seq(Ending(SubSeq(input, 1, idx + 1)))
<1> DEFINE next == GetNextState(current, input[idx + 1])
           c == input[idx + 1]
           t == SubSeq(input, 1, idx)
           t1 == SubSeq(input, 1, idx + 1)
<1>0. /\ Machine /\ LoopInv /\ LoopTypes
      /\ input \in Seq(Char) /\ Len(input) \in Nat /\ idx \in Nat /\ idx <= Len(input)
  BY RunningFacts
<1>1. idx \in 0 .. Len(input) - 1 /\ idx + 1 \in 0 .. Len(input) /\ idx \in 0 .. Len(input)
  BY <1>0
<1>2. c \in Char /\ t1 = Append(t, c) /\ t \in Seq(Char) /\ t1 \in Seq(Char) /\ Len(t1) = idx + 1
  BY <1>0, <1>1, Beginnings
<1>3. current \in Nodes /\ Ends(word[current], t)
  BY <1>0 DEF LoopInv, LoopTypes
<1> HIDE DEF c, t, t1
<1>4. table[current][c] \in Nodes /\ Ends(word[table[current][c]], Append(t, c))
  BY <1>0, <1>2, <1>3, ReadsOn
<1>5. next \in Nodes /\ Ends(word[next], t1)
  BY <1>2, <1>4 DEF GetNextState, c
<1> HIDE DEF next
<1>6. word[next] \in Seq(Char)
  BY <1>0, <1>5, MachineFacts
<1>7. Len(word[next]) \in Nat /\ Len(word[next]) <= idx + 1
  BY <1>2, <1>5, <1>6 DEF Ends
<1>8. FoundAt(next) \in Seq(Fitting(idx + 1))
  <2>1. FoundAt(next) \in Seq(Fitting(Len(word[next])))
    BY <1>0, <1>5, FoundFits
  <2>2. Fitting(Len(word[next])) \subseteq Fitting(idx + 1)
    <3> SUFFICES ASSUME NEW e \in Fitting(Len(word[next])) PROVE e \in Fitting(idx + 1)
      OBVIOUS
    <3>1. e \in 1 .. Len(anchors) /\ anchors[e] # <<>> /\ Len(anchors[e]) <= Len(word[next])
      BY DEF Fitting
    <3>2. Len(anchors[e]) \in Nat
      <4>1. anchors[e] \in Seq(Char)
        BY <1>0, <3>1, MachineFacts
      <4> QED
        BY <4>1
    <3>3. Len(anchors[e]) <= idx + 1
      BY <1>0, <1>7, <3>1, <3>2
    <3> QED
      BY <3>1, <3>3 DEF Fitting
  <2> QED
    BY <2>1, <2>2, WordFacts
<1>9. NoInnerAnchor => FoundAt(next) \in Seq(Ending(t1))
  <2> SUFFICES ASSUME NoInnerAnchor PROVE FoundAt(next) \in Seq(Ending(t1))
    OBVIOUS
  <2>1. FoundAt(next) \in Seq(Ending(word[next]))
    BY <1>0, <1>5, FoundEnds
  <2>2. Ending(word[next]) \subseteq Ending(t1)
    <3> SUFFICES ASSUME NEW e \in Ending(word[next]) PROVE e \in Ending(t1)
      OBVIOUS
    <3>1. /\ e \in 1 .. Len(anchors) /\ anchors[e] # <<>> /\ Len(anchors[e]) <= Len(word[next])
          /\ Ends(anchors[e], word[next])
      BY DEF Ending, Fitting
    <3> DEFINE v == anchors[e]
               u == word[next]
    <3>2. v \in Seq(Char) /\ u \in Seq(Char) /\ Ends(v, u) /\ Ends(u, t1)
      BY <1>0, <1>5, <1>6, <3>1, MachineFacts
    <3> HIDE DEF v, u
    <3>3. Ends(v, t1)
      BY <1>2, <3>2, EndsOrder
    <3>4. Len(v) <= Len(t1)
      BY <3>3 DEF Ends
    <3> QED
      BY <3>1, <3>3, <3>4 DEF Ending, Fitting, v
  <2> QED
    BY <2>1, <2>2, WordFacts
<1> QED
  BY <1>5, <1>7, <1>8, <1>9 DEF next, t1

\* The construction of the table keeps the invariant,
LEMMA GenerateStep ==
    ASSUME Base, UCInv, Generate PROVE UCInv'
<1>1. /\ generateTableStateMachine
      /\ UNCHANGED <<huffman_len, symbolSize, P, ymins, N, z, bits, output>>
  BY DEF Generate, sizeVars, choiceVars, emitVars
<1>2. /\ tpc \in {"tree", "put"} /\ tpc' \in {"tree", "put", "ready"}
      /\ tpc' # "tree" => ~ BuildTree
      /\ tpc' = "put" => createTableStateMachine \/ PutState
      /\ tpc' = "ready" => tpc = "put" /\ EndPut
  BY <1>1 DEF generateTableStateMachine, BuildTree, createTableStateMachine, putStates, PutState,
     EndPut, tmVars
<1>3. TMInv /\ SizesRight /\ z = 0 /\ bits = 0 /\ output = <<>>
  BY <1>2 DEF UCInv
<1>4. TMInv'
  BY <1>1, <1>3, TMInvStep DEF TMNext
<1>5. anchors' = anchors
  <2>1. anchors' = anchors \/ UNCHANGED acVars
    BY <1>1 DEF generateTableStateMachine, BuildTree, createTableStateMachine, putStates, PutState,
       EndPut, BuildStep, enter, constructFailures, avoidFailToAcceptingStates, Walk,
       createNewNode, SetMatch, StartFailures, Dequeue, NextChild, Climb, SetFailure,
       EndChildren, EndFailures, Inherit, Fault, Descend, EndBuild
  <2> QED
    BY <2>1 DEF acVars
<1>6. SizesRight'
  BY <1>1, <1>3, <1>5 DEF SizesRight
<1>7. ASSUME tpc' # "tree" PROVE PatternsRight'
  <2>0. UNCHANGED acVars
    BY <1>1, <1>2, <1>7 DEF generateTableStateMachine, createTableStateMachine, putStates,
       PutState, EndPut
  <2>1. Nodes' = Nodes /\ message' = message
    BY <2>0, <1>3, TreeFrame
  <2>2. CASE createTableStateMachine
    BY <2>1, <2>2 DEF createTableStateMachine, PatternsRight
  <2>3. CASE PutState
    <3> DEFINE n == Head(pending)
    <3>1. /\ tpc = "put" /\ pending # <<>>
          /\ patterns' = [patterns EXCEPT ![n] = IF ~ match[n] THEN @
                                                 ELSE IF message[n] = NoSlot THEN EmptyPattern
                                                 ELSE message[n]]
      BY <2>3 DEF PutState
    <3>2. PatternsRight
      BY <3>1 DEF UCInv
    <3>3. patterns \in [Nodes -> {NullPattern} \cup Nat]
      BY <1>3, <3>1 DEF TMInv, TMTypeOK
    <3> HIDE DEF n
    <3>4. ASSUME NEW m \in Nodes
          PROVE  \/ patterns'[m] = patterns[m] \/ patterns'[m] = EmptyPattern
                 \/ message[m] # NoSlot /\ patterns'[m] = message[m]
      BY <3>1, <3>3
    <3>5. \A m \in Nodes : patterns'[m] \notin {NullPattern, EmptyPattern} =>
              message[m] # NoSlot /\ patterns'[m] = message[m]
      BY <3>2, <3>4 DEF PatternsRight
    <3> QED
      BY <2>1, <3>5 DEF PatternsRight
  <2>4. CASE EndPut
    <3>1. patterns' = patterns /\ tpc = "put"
      BY <2>4 DEF EndPut, tableVars
    <3> QED
      BY <2>1, <3>1 DEF UCInv, PatternsRight
  <2> QED
    BY <1>2, <1>7, <2>2, <2>3, <2>4
<1>8. ASSUME tpc' = "ready" PROVE Filled'
  <2>1. (pc = "built")' /\ TMTypeOK' /\ (\A n \in Nodes : StateRight(n))'
        /\ (\A n \in Nodes : matches[n] => match[n])'
    BY <1>4, <1>8 DEF TMInv
  <2> QED
    BY <1>8, <2>1 DEF TMTypeOK, Filled
<1>9. ~ Running'
  BY <1>2 DEF Running
<1> QED
  BY <1>1, <1>2, <1>3, <1>4, <1>6, <1>7, <1>8, <1>9 DEF UCInv

\* the start of a URL,
LEMMA StartURLStep ==
    ASSUME Base, UCInv, StartURL PROVE UCInv'
<1>1. /\ tpc \in {"ready", "encoded"} /\ tpc' = "compress" /\ input' \in Texts
      /\ ymins' = [k \in 1 .. Len(input') |-> Symbol]
      /\ N' = [k \in 1 .. Len(input') |-> <<>>]
      /\ idx' = 0 /\ current' = Root /\ z' = 0 /\ bits' = 0 /\ output' = <<>>
      /\ UNCHANGED acVars /\ UNCHANGED tableVars /\ UNCHANGED <<huffman_len, symbolSize>>
  BY DEF StartURL, sizeVars, tableVars
<1>2. PICK garbage \in FirstP : P' = [k \in 0 .. Len(input') |-> IF k = 0 THEN garbage ELSE 0]
  BY DEF StartURL
<1>3. Filled /\ PatternsRight /\ SizesRight /\ Machine
  BY <1>1 DEF UCInv, Running, Base, Machine
<1>4. /\ anchors' = anchors /\ Nodes' = Nodes /\ word' = word /\ Filled' /\ PatternsRight'
      /\ Root' = Root
  BY <1>1, <1>3, LoopFrame
<1>5. SizesRight'
  BY <1>1, <1>3, <1>4 DEF SizesRight
<1>6. input' \in Seq(Char) /\ Len(input') \in Nat /\ SubSeq(input', 1, 0) = <<>>
  BY <1>1, TMAssumption, Beginnings
<1>7. Root \in Nodes /\ word[Root] = <<>>
  BY <1>3, MachineFacts
<1>8. LoopTypes'
  <2>1. garbage \in Int
    BY UCAssumption
  <2>2. P' \in [0 .. Len(input') -> Int]
    BY <1>2, <2>1
  <2>3. \A S : <<>> \in Seq(S)
    OBVIOUS
  <2>4. N' \in [1 .. Len(input') -> Seq(1 .. Len(anchors))]
    BY <1>1, <2>3
  <2>5. ymins' \in [1 .. Len(input') -> Int]
    BY <1>1 DEF Symbol
  <2>6. <<>> \in Seq(Seq(Char))
    BY <2>3
  <2>7. idx' \in 0 .. Len(input') /\ z' \in 0 .. Len(input')
    BY <1>1, <1>6
  <2> QED
    BY <1>1, <1>4, <1>7, <2>2, <2>4, <2>5, <2>6, <2>7 DEF LoopTypes
<1>9. (Ends(word[current], SubSeq(input, 1, idx)))'
  <2>1. Ends(<<>>, <<>>)
    BY DEF Ends
  <2> QED
    BY <1>1, <1>4, <1>6, <1>7, <2>1
<1>10. (\A k \in 1 .. Len(input) : N[k] \in Seq(Fitting(k)))'
  <2>1. \A S : <<>> \in Seq(S)
    OBVIOUS
  <2>2. \A k \in 1 .. Len(input') : N'[k] = <<>>
    BY <1>1
  <2> QED
    BY <2>1, <2>2
<1>11. (\A k \in 1 .. Len(input) : ymins[k] \in {Symbol} \cup 0 .. Len(N[k]) - 1)'
  BY <1>1
<1>12. (\A k \in 1 .. idx : SizeRight(k))'
  BY <1>1
<1>13. Running' /\ ~ Emitting'
  BY <1>1 DEF Running, Emitting
<1>14. LoopInv'
  BY <1>1, <1>8, <1>9, <1>10, <1>11, <1>12, <1>13 DEF LoopInv
<1> QED
  BY <1>1, <1>4, <1>5, <1>13, <1>14 DEF UCInv

\* an iteration of its loop, which writes what it found at one position,
LEMMA CompressFacts ==
    ASSUME Base, UCInv, CompressChar
    PROVE  \E k, next, found, y, size1 :
              /\ k = idx + 1 /\ k \in 1 .. Len(input) /\ idx' = k /\ tpc = "compress"
              /\ current' = next /\ next \in Nodes /\ Ends(word[next], SubSeq(input, 1, k))
              /\ found \in Seq(Fitting(k))
              /\ NoInnerAnchor => found \in Seq(Ending(SubSeq(input, 1, k)))
              /\ y \in {Symbol} \cup 0 .. Len(found) - 1
              /\ y # Symbol => /\ found[y + 1] \in 1 .. Len(anchors)
                               /\ Len(anchors[found[y + 1]]) \in 1 .. k
                               /\ huffman_len[found[y + 1]] \in Nat
              /\ size1 = IF y = Symbol THEN P[k - 1] + symbolSize[input[k]]
                         ELSE P[k - Len(anchors[found[y + 1]])] + huffman_len[found[y + 1]]
              /\ size1 \in Int
              /\ N' = [N EXCEPT ![k] = found] /\ ymins' = [ymins EXCEPT ![k] = y]
              /\ P' = [P EXCEPT ![k] = size1]
<1> DEFINE next == GetNextState(current, input[idx + 1])
           found == FoundAt(next)
           y == Choice(found)
           k == idx + 1
           size1 == IF y = Symbol THEN SizeWithSymbol ELSE SizeWith(found[y + 1])
<1>1. /\ tpc = "compress" /\ idx < Len(input)
      /\ N' = [N EXCEPT ![k] = found] /\ ymins' = [ymins EXCEPT ![k] = y]
      /\ P' = [P EXCEPT ![k] = size1] /\ idx' = k /\ current' = next
  BY DEF CompressChar
<1>2. /\ Machine /\ LoopInv /\ LoopTypes /\ SizesRight
      /\ input \in Seq(Char) /\ Len(input) \in Nat /\ idx \in Nat /\ idx <= Len(input)
      /\ \A i \in 1 .. Len(input) : input[i] \in Char
  BY <1>1, RunningFacts DEF Running
<1>3. /\ next \in Nodes /\ Ends(word[next], SubSeq(input, 1, k))
      /\ found \in Seq(Fitting(k))
      /\ NoInnerAnchor => found \in Seq(Ending(SubSeq(input, 1, k)))
  BY <1>1, NextFound DEF Running
<1> HIDE DEF next, found
<1>4. k \in 1 .. Len(input) /\ k - 1 = idx
  BY <1>1, <1>2
<1>5. y \in {Symbol} \cup 0 .. Len(found) - 1
  <2> DEFINE better == {i \in 1 .. Len(found) : SizeWith(found[i]) < SizeWithSymbol}
  <2>0. Len(found) \in Nat /\ better \subseteq 0 .. Len(found) /\ better \subseteq 1 .. Len(found)
    BY <1>3
  <2>1. y = IF better = {} THEN Symbol ELSE Max(better) - 1
    BY DEF Choice
  <2> HIDE DEF better, y
  <2>2. CASE better # {}
    <3>1. \E m \in better : \A l \in better : l <= m
      BY <2>0, <2>2, GreatestElement
    <3>2. better \subseteq Int
      BY <2>0
    <3>3. Max(better) \in better
      BY <3>1, <3>2 DEF Max
    <3> DEFINE m == Max(better)
    <3>4. m \in 1 .. Len(found) /\ y = m - 1
      BY <2>0, <2>1, <2>2, <3>3
    <3> HIDE DEF m
    <3> QED
      BY <2>0, <3>4
  <2> QED
    BY <2>1, <2>2
<1> HIDE DEF y
<1>6. ASSUME y # Symbol
      PROVE  /\ found[y + 1] \in 1 .. Len(anchors)
             /\ Len(anchors[found[y + 1]]) \in 1 .. k
             /\ huffman_len[found[y + 1]] \in Nat
  <2> DEFINE e == found[y + 1]
  <2>1. y + 1 \in 1 .. Len(found)
    BY <1>3, <1>5, <1>6
  <2>2. e \in Fitting(k)
    BY <1>3, <2>1
  <2> HIDE DEF e
  <2>3. e \in 1 .. Len(anchors) /\ anchors[e] # <<>> /\ Len(anchors[e]) <= k
    BY <2>2 DEF Fitting
  <2>4. anchors[e] \in Seq(Char) /\ Len(anchors) \in Nat
    BY <1>2, <2>3, MachineFacts
  <2>5. Len(anchors[e]) \in Nat /\ Len(anchors[e]) # 0
    BY <2>3, <2>4
  <2>6. Len(anchors[e]) \in 1 .. k
    BY <1>4, <2>3, <2>5
  <2>7. e \in 1 .. MaxAnchors
    BY <1>2, <2>3, <2>4, ACAssumption DEF SizesRight
  <2> QED
    BY <1>2, <2>3, <2>6, <2>7 DEF SizesRight, e
<1>7. size1 = IF y = Symbol THEN P[k - 1] + symbolSize[input[k]]
              ELSE P[k - Len(anchors[found[y + 1]])] + huffman_len[found[y + 1]]
  BY <1>4 DEF SizeWithSymbol, SizeWith
<1> HIDE DEF size1
<1>8. size1 \in Int
  <2>1. P \in [0 .. Len(input) -> Int] /\ symbolSize[input[k]] \in Nat
    BY <1>2, <1>4 DEF LoopTypes, SizesRight
  <2>2. CASE y = Symbol
    BY <1>2, <1>4, <1>7, <2>1, <2>2
  <2>3. CASE y # Symbol
    <3> DEFINE l == Len(anchors[found[y + 1]])
    <3>1. l \in 1 .. k
      BY <1>6, <2>3
    <3> HIDE DEF l
    <3>2. k - l \in 0 .. Len(input)
      BY <1>2, <1>4, <3>1
    <3>3. P[k - l] \in Int
      BY <2>1, <3>2
    <3> QED
      BY <1>6, <1>7, <2>3, <3>3 DEF l
  <2> QED
    BY <2>2, <2>3
<1> HIDE DEF k
<1>9. k = idx + 1
  BY DEF k
<1> QED
  BY <1>1, <1>3, <1>4, <1>5, <1>6, <1>7, <1>8, <1>9

\* which keeps what is known of the positions before,
LEMMA CompressStep ==
    ASSUME Base, UCInv, CompressChar PROVE UCInv'
<1>1. PICK k, next, found, y, size1 :
              /\ k = idx + 1 /\ k \in 1 .. Len(input) /\ idx' = k /\ tpc = "compress"
              /\ current' = next /\ next \in Nodes /\ Ends(word[next], SubSeq(input, 1, k))
              /\ found \in Seq(Fitting(k))
              /\ NoInnerAnchor => found \in Seq(Ending(SubSeq(input, 1, k)))
              /\ y \in {Symbol} \cup 0 .. Len(found) - 1
              /\ y # Symbol => /\ found[y + 1] \in 1 .. Len(anchors)
                               /\ Len(anchors[found[y + 1]]) \in 1 .. k
                               /\ huffman_len[found[y + 1]] \in Nat
              /\ size1 = IF y = Symbol THEN P[k - 1] + symbolSize[input[k]]
                         ELSE P[k - Len(anchors[found[y + 1]])] + huffman_len[found[y + 1]]
              /\ size1 \in Int
              /\ N' = [N EXCEPT ![k] = found] /\ ymins' = [ymins EXCEPT ![k] = y]
              /\ P' = [P EXCEPT ![k] = size1]
  BY CompressFacts
<1>2. /\ tpc' = tpc /\ UNCHANGED <<input, z, bits, output, huffman_len, symbolSize>>
      /\ UNCHANGED acVars /\ UNCHANGED tableVars
  BY DEF CompressChar, sizeVars, emitVars
<1>3. /\ Machine /\ LoopInv /\ LoopTypes /\ SizesRight /\ Filled /\ PatternsRight
      /\ input \in Seq(Char) /\ Len(input) \in Nat /\ idx \in Nat /\ idx <= Len(input)
  BY <1>1, RunningFacts DEF Running, Machine
<1>4. /\ anchors' = anchors /\ Nodes' = Nodes /\ word' = word /\ Filled' /\ PatternsRight'
      /\ \A m : Fitting(m)' = Fitting(m)
  BY <1>2, <1>3, LoopFrame
<1>5. SizesRight'
  BY <1>2, <1>3, <1>4 DEF SizesRight
<1>6. /\ P \in [0 .. Len(input) -> Int] /\ N \in [1 .. Len(input) -> Seq(1 .. Len(anchors))]
      /\ ymins \in [1 .. Len(input) -> Int] /\ input \in Texts
      /\ z \in 0 .. Len(input) /\ bits \in Nat /\ output \in Seq(Seq(Char))
      /\ z = 0 /\ bits = 0 /\ output = <<>>
  BY <1>1, <1>3 DEF LoopTypes, LoopInv
<1>7. /\ N'[k] = found /\ ymins'[k] = y /\ P'[k] = size1
      /\ \A m \in 1 .. Len(input) : m # k => N'[m] = N[m] /\ ymins'[m] = ymins[m]
      /\ \A m \in 0 .. Len(input) : m # k => P'[m] = P[m]
  <2>1. k \in DOMAIN N /\ k \in DOMAIN ymins /\ k \in DOMAIN P
    BY <1>1, <1>3, <1>6
  <2>2. DOMAIN N = 1 .. Len(input) /\ DOMAIN ymins = 1 .. Len(input) /\ DOMAIN P = 0 .. Len(input)
    BY <1>6
  <2> QED
    BY <1>1, <2>1, <2>2
<1>8. LoopTypes'
  <2>1. found \in Seq(1 .. Len(anchors))
    <3>1. Fitting(k) \subseteq 1 .. Len(anchors)
      BY DEF Fitting
    <3> QED
      BY <1>1, <3>1, WordFacts
  <2>2. N' \in [1 .. Len(input) -> Seq(1 .. Len(anchors))]
    BY <1>1, <1>6, <2>1
  <2>3. ymins' \in [1 .. Len(input) -> Int]
    <3>1. y \in Int
      BY <1>1 DEF Symbol
    <3> QED
      BY <1>1, <1>6, <3>1
  <2>4. P' \in [0 .. Len(input) -> Int]
    BY <1>1, <1>6
  <2>5. idx' \in 0 .. Len(input)
    BY <1>1, <1>3
  <2> QED
    BY <1>1, <1>2, <1>4, <1>6, <2>2, <2>3, <2>4, <2>5 DEF LoopTypes
<1>9. (Ends(word[current], SubSeq(input, 1, idx)))'
  BY <1>1, <1>2, <1>4
<1>10. (\A m \in 1 .. Len(input) : N[m] \in Seq(Fitting(m)))'
  <2>1. \A m \in 1 .. Len(input) : N'[m] \in Seq(Fitting(m))
    BY <1>1, <1>3, <1>7 DEF LoopInv
  <2> QED
    BY <1>2, <1>4, <2>1
<1>11. (\A m \in 1 .. Len(input) : ymins[m] \in {Symbol} \cup 0 .. Len(N[m]) - 1)'
  <2>1. \A m \in 1 .. Len(input) : ymins'[m] \in {Symbol} \cup 0 .. Len(N'[m]) - 1
    BY <1>1, <1>3, <1>7 DEF LoopInv
  <2> QED
    BY <1>2, <2>1
<1>12. ASSUME NEW m \in 1 .. k PROVE SizeRight(m)'
  <2>0. m \in 1 .. Len(input) /\ m - 1 \in 0 .. Len(input) /\ m - 1 # k
    BY <1>1, <1>3
  <2>1. CASE m = k
    <3>1. CASE y = Symbol
      <4>1. P'[k] = P'[k - 1] + symbolSize[input[k]]
        BY <1>1, <1>7, <2>0, <2>1, <3>1
      <4> QED
        BY <1>2, <1>7, <2>1, <3>1, <4>1 DEF SizeRight
    <3>2. CASE y # Symbol
      <4> DEFINE e == found[y + 1]
                 l == Len(anchors[e])
      <4>1. l \in 1 .. k /\ P'[k] = P[k - l] + huffman_len[e]
        BY <1>1, <1>7, <3>2
      <4>2. k - l \in 0 .. Len(input) /\ k - l # k
        <5> HIDE DEF l
        <5> QED
          BY <1>1, <1>3, <4>1
      <4>3. P'[k] = P'[k - l] + huffman_len[e]
        BY <1>7, <4>1, <4>2
      <4>4. Chosen(k)' = e
        BY <1>7 DEF Chosen
      <4> HIDE DEF e
      <4> QED
        BY <1>2, <1>4, <1>7, <2>1, <3>2, <4>3, <4>4 DEF SizeRight
    <3> QED
      BY <3>1, <3>2
  <2>2. CASE m # k
    <3>1. m \in 1 .. idx /\ SizeRight(m)
      <4>1. m \in 1 .. idx
        BY <1>1, <1>3, <2>2
      <4> QED
        BY <1>3, <4>1 DEF LoopInv
    <3>2. m \in 0 .. Len(input) /\ P'[m] = P[m] /\ ymins'[m] = ymins[m] /\ N'[m] = N[m]
      BY <1>7, <2>0, <2>2, m \in 0 .. Len(input)
    <3>3. CASE ymins[m] = Symbol
      BY <1>2, <1>7, <2>0, <3>1, <3>2, <3>3 DEF SizeRight
    <3>4. CASE ymins[m] # Symbol
      <4> DEFINE e == Chosen(m)
                 l == Len(anchors[e])
      <4>1. l \in 1 .. m
        BY <1>1, <2>0, <3>4, ChosenFacts DEF Running
      <4>2. P[m] = P[m - l] + huffman_len[e]
        BY <3>1, <3>4 DEF SizeRight
      <4>3. Chosen(m)' = e
        BY <3>2 DEF Chosen
      <4>4. m - l \in 0 .. Len(input) /\ m - l # k
        <5> HIDE DEF l
        <5> QED
          BY <1>1, <1>3, <2>0, <3>1, <4>1
      <4>5. P'[m] = P'[m - l] + huffman_len[e]
        BY <1>7, <3>2, <4>2, <4>4
      <4> HIDE DEF e
      <4> QED
        BY <1>2, <1>4, <3>2, <3>4, <4>3, <4>5 DEF SizeRight
    <3> QED
      BY <3>3, <3>4
  <2> QED
    BY <2>1, <2>2
<1>13. (\A m \in 1 .. idx : SizeRight(m))'
  BY <1>1, <1>12
<1>14. tpc' = "compress" /\ z' = 0 /\ bits' = 0 /\ output' = <<>>
  BY <1>1, <1>2, <1>6
<1>15. LoopInv'
  BY <1>8, <1>9, <1>10, <1>11, <1>13, <1>14 DEF LoopInv, Emitting
<1> QED
  BY <1>4, <1>5, <1>14, <1>15 DEF UCInv

\* the change to the walk back and its end,
LEMMA PhaseStep ==
    ASSUME Base, UCInv, StartEmit \/ EndEmit PROVE UCInv'
<1>1. /\ Running /\ tpc' \in {"emit", "encoded"}
      /\ UNCHANGED <<input, idx, current, huffman_len, symbolSize, P, ymins, N, bits, output>>
      /\ UNCHANGED acVars /\ UNCHANGED tableVars
      /\ \/ tpc = "compress" /\ idx = Len(input) /\ z' = Len(input)
         \/ tpc = "emit" /\ z' = z
  BY DEF StartEmit, EndEmit, Running, sizeVars, choiceVars, emitVars, scanVars
<1>2. /\ LoopInv /\ LoopTypes /\ SizesRight /\ Filled /\ PatternsRight
      /\ Len(input) \in Nat /\ z \in Nat /\ z <= Len(input)
  BY <1>1, RunningFacts DEF Machine
<1>3. /\ anchors' = anchors /\ Nodes' = Nodes /\ word' = word /\ Filled' /\ PatternsRight'
      /\ \A m : Fitting(m)' = Fitting(m)
  BY <1>1, <1>2, LoopFrame
<1>4. SizesRight'
  BY <1>1, <1>2, <1>3 DEF SizesRight
<1>5. LoopTypes'
  <2>1. z' \in 0 .. Len(input)
    BY <1>1, <1>2
  <2> QED
    BY <1>1, <1>2, <1>3, <2>1 DEF LoopTypes
<1>6. \A k : SizeRight(k)' = SizeRight(k)
  BY <1>1, <1>3 DEF SizeRight, Chosen
<1>7. idx' = Len(input') /\ bits' + P'[z'] = P'[Len(input')]
  <2>1. CASE tpc = "compress"
    <3>1. bits = 0 /\ z' = Len(input) /\ idx = Len(input)
      BY <1>1, <1>2, <2>1 DEF LoopInv
    <3>2. P[Len(input)] \in Int
      <4>1. P \in [0 .. Len(input) -> Int]
        BY <1>2 DEF LoopTypes
      <4>2. Len(input) \in 0 .. Len(input)
        BY <1>2
      <4> QED
        BY <4>1, <4>2
    <3> QED
      BY <1>1, <3>1, <3>2
  <2>2. CASE tpc = "emit"
    BY <1>1, <1>2, <2>2 DEF LoopInv, Emitting
  <2> QED
    BY <1>1, <2>1, <2>2
<1>8. LoopInv'
  BY <1>1, <1>2, <1>3, <1>5, <1>6, <1>7 DEF LoopInv
<1> QED
  BY <1>1, <1>3, <1>4, <1>8 DEF UCInv

\* the emission of the code of a string that ends at z, or of none for a character
\* that has none,
Emits(s) ==
    \/ output' = Append(output, s)
    \/ output' = output /\ s = <<input[z]>> /\ symbolSize[input[z]] = 0
LEMMA EmitFacts ==
    ASSUME Base, UCInv, EmitAnchor \/ EmitSymbol
    PROVE  \E l, s, b :
              /\ tpc = "emit" /\ z \in 1 .. Len(input)
              /\ l \in 1 .. z /\ s \in Seq(Char) /\ Len(s) = l /\ b \in Nat
              /\ z' = z - l /\ bits' = bits + b /\ Emits(s)
              /\ P[z] = P[z - l] + b
              /\ \/ ymins[z] # Symbol /\ s = anchors[Chosen(z)]
                 \/ s = <<input[z]>>
<1>1. tpc = "emit" /\ Running /\ z > 0
  BY DEF EmitAnchor, EmitSymbol, Running
<1>2. /\ LoopInv /\ LoopTypes /\ SizesRight
      /\ Len(input) \in Nat /\ z \in Nat /\ z <= Len(input)
      /\ \A k \in 1 .. Len(input) : input[k] \in Char
  BY <1>1, RunningFacts
<1>3. z \in 1 .. Len(input)
  BY <1>1, <1>2
<1>4. SizeRight(z)
  <2>1. idx = Len(input) /\ \A k \in 1 .. idx : SizeRight(k)
    BY <1>1, <1>2 DEF LoopInv, Emitting
  <2> QED
    BY <1>3, <2>1
<1>5. CASE EmitAnchor
  <2> DEFINE s == anchors[Chosen(z)]
             l == Len(s)
             b == huffman_len[Chosen(z)]
  <2>1. /\ ymins[z] # Symbol /\ z' = z - l /\ bits' = bits + b /\ Emits(s)
    BY <1>5 DEF EmitAnchor, StepBack, Chosen, Emits
  <2>2. s \in Seq(Char) /\ l \in 1 .. z /\ b \in Nat
    BY <1>1, <1>3, <2>1, ChosenFacts
  <2>3. P[z] = P[z - l] + b
    BY <1>4, <2>1 DEF SizeRight
  <2> HIDE DEF b
  <2> QED
    BY <1>1, <1>3, <2>1, <2>2, <2>3
<1>6. CASE EmitSymbol
  <2> DEFINE b == symbolSize[input[z]]
             c == input[z]
  <2>1. ymins[z] = Symbol /\ z' = z - 1 /\ Emits(<<c>>)
    BY <1>6 DEF EmitSymbol, Emits
  <2>2. c \in Char /\ b \in Nat /\ bits \in Nat
    BY <1>2, <1>3 DEF SizesRight, LoopTypes
  <2>a. bits' = bits + b
    <3> SUFFICES ASSUME b = 0, bits' = bits PROVE bits' = bits + b
      BY <1>6 DEF EmitSymbol
    <3> HIDE DEF b
    <3> QED
      BY <2>2
  <2>3. P[z] = P[z - 1] + b
    BY <1>4, <2>1 DEF SizeRight
  <2> HIDE DEF b
  <2>4. <<c>> \in Seq(Char) /\ Len(<<c>>) = 1
    BY <2>2
  <2>5. 1 \in 1 .. z
    BY <1>3
  <2> QED
    BY <1>1, <1>3, <2>a, <2>1, <2>2, <2>3, <2>4, <2>5
<1> QED
  BY <1>5, <1>6

\* which takes from P what it adds to the bits,
LEMMA EmitStep ==
    ASSUME Base, UCInv, EmitAnchor \/ EmitSymbol PROVE UCInv'
<1>1. PICK l, s, b :
              /\ tpc = "emit" /\ z \in 1 .. Len(input)
              /\ l \in 1 .. z /\ s \in Seq(Char) /\ Len(s) = l /\ b \in Nat
              /\ z' = z - l /\ bits' = bits + b /\ Emits(s)
              /\ P[z] = P[z - l] + b
  BY EmitFacts
<1>2. /\ tpc' = "emit"
      /\ UNCHANGED <<input, idx, current, huffman_len, symbolSize, P, ymins, N>>
      /\ UNCHANGED acVars /\ UNCHANGED tableVars
  BY <1>1 DEF EmitAnchor, EmitSymbol, sizeVars, choiceVars, scanVars
<1>3. Running
  BY <1>1 DEF Running
<1>4. /\ LoopInv /\ LoopTypes /\ SizesRight /\ Filled /\ PatternsRight
      /\ Len(input) \in Nat /\ z \in Nat /\ z <= Len(input)
  BY <1>3, RunningFacts DEF Machine
<1>5. /\ anchors' = anchors /\ Nodes' = Nodes /\ word' = word /\ Filled' /\ PatternsRight'
      /\ \A m : Fitting(m)' = Fitting(m)
  BY <1>2, <1>4, LoopFrame
<1>6. SizesRight'
  BY <1>2, <1>4, <1>5 DEF SizesRight
<1>7. bits \in Nat /\ output \in Seq(Seq(Char)) /\ P \in [0 .. Len(input) -> Int]
  BY <1>4 DEF LoopTypes
<1>8. z' \in 0 .. Len(input) /\ bits' \in Nat
  BY <1>1, <1>4, <1>7
<1>9. output' \in Seq(Seq(Char))
  <2> DEFINE D == Seq(Char)
  <2>1. output \in Seq(D) /\ s \in D
    BY <1>1, <1>7
  <2> HIDE DEF D
  <2>2. Append(output, s) \in Seq(D)
    BY <2>1
  <2> QED
    BY <1>1, <1>7, <2>2 DEF D, Emits
<1>10. LoopTypes'
  BY <1>2, <1>4, <1>5, <1>8, <1>9 DEF LoopTypes
<1>11. \A k : SizeRight(k)' = SizeRight(k)
  BY <1>2, <1>5 DEF SizeRight, Chosen
<1>12. idx' = Len(input') /\ bits' + P'[z'] = P'[Len(input')]
  <2>1. idx = Len(input) /\ bits + P[z] = P[Len(input)]
    BY <1>1, <1>4 DEF LoopInv, Emitting
  <2> DEFINE p == P[z - l]
  <2>2. p \in Int
    <3>1. z - l \in 0 .. Len(input)
      BY <1>1, <1>8
    <3> QED
      BY <1>7, <3>1
  <2>3. P[z] = p + b /\ P'[z'] = p
    BY <1>1, <1>2
  <2> HIDE DEF p
  <2>4. (bits + b) + p = bits + (p + b)
    BY <1>1, <1>7, <2>2
  <2> QED
    BY <1>1, <1>2, <2>1, <2>3, <2>4
<1>13. LoopInv'
  BY <1>2, <1>4, <1>5, <1>10, <1>11, <1>12 DEF LoopInv
<1>14. Running'
  BY <1>2 DEF Running
<1> QED
  BY <1>2, <1>5, <1>6, <1>13 DEF UCInv

\* and a step that changes nothing.
LEMMA UCUnchanged ==
    ASSUME Base, UCInv, UNCHANGED ucVars PROVE UCInv'
<1>1. /\ UNCHANGED <<tpc, input, idx, current, returnIndex, huffman_len, symbolSize, P, ymins, N>>
      /\ UNCHANGED <<z, bits, output>>
      /\ UNCHANGED acVars /\ UNCHANGED tableVars /\ UNCHANGED <<acVars, tmVars>>
  BY DEF ucVars, tmVars, scanVars, sizeVars, choiceVars, emitVars
<1>2. /\ anchors' = anchors /\ Nodes' = Nodes /\ word' = word
      /\ (Filled => Filled') /\ (PatternsRight => PatternsRight')
      /\ \A m : Fitting(m)' = Fitting(m)
  BY <1>1, LoopFrame
<1>3. TMInv => TMInv'
  BY <1>1, TMUnchanged
<1>4. \A k : SizeRight(k)' = SizeRight(k)
  BY <1>1, <1>2 DEF SizeRight, Chosen
<1>5. LoopTypes => LoopTypes'
  BY <1>1, <1>2 DEF LoopTypes
<1>6. LoopInv => LoopInv'
  BY <1>1, <1>2, <1>4, <1>5 DEF LoopInv, Emitting
<1>7. SizesRight => SizesRight'
  BY <1>1, <1>2 DEF SizesRight
<1> QED
  BY <1>1, <1>2, <1>3, <1>6, <1>7 DEF UCInv, Running

\* It holds at the beginning.
LEMMA UCInvInit ==
    ASSUME UCInit PROVE UCInv
<1>1. /\ tpc = "tree" /\ z = 0 /\ bits = 0 /\ output = <<>> /\ TMInit
      /\ huffman_len \in AnchorSizes /\ symbolSize \in SymbolSizes
  BY DEF UCInit, TMInit
<1>2. TMInv
  BY <1>1, TMInvInit
<1>3. Len(anchors) <= MaxAnchors
  BY <1>1, ACAssumption DEF TMInit, ACInit, BoundedSeq, SeqOf
<1>4. SizesRight
  BY <1>1, <1>3, UCAssumption DEF SizesRight
<1> QED
  BY <1>1, <1>2, <1>4 DEF UCInv, Running

\* Every step keeps the invariant.
LEMMA UCInvStep ==
    ASSUME Base, UCInv, [UCNext]_ucVars PROVE UCInv'
BY GenerateStep, StartURLStep, CompressStep, PhaseStep, EmitStep, UCUnchanged
   DEF UCNext, CompressURLsMachine

\* To the builder a step of the compressor is a step of its own or none.
LEMMA UCIsAC == UCSpec => ACSpec
<1>1. UCInit => ACInit
  BY DEF UCInit, TMInit
<1>2. [UCNext]_ucVars => [ACNext]_acVars
  BY DEF UCNext, Generate, generateTableStateMachine, BuildTree, createTableStateMachine, putStates,
         PutState, EndPut, CompressURLsMachine, StartURL, CompressChar, StartEmit, EmitAnchor,
         EmitSymbol, EndEmit, ucVars, ACNext
<1> QED
  BY <1>1, <1>2, PTL DEF UCSpec, ACSpec

\* The invariant always holds.
LEMMA UCInvAlways == UCSpec => [](Base /\ UCInv)
<1>1. ACSpec => []Base
  <2>1. ACSpec => []SuffixInv
    BY SuffixInvAlways, UCAssumption
  <2> QED
    BY <2>1, ACInvAlways, SlotInvAlways, PTL DEF Base
<1>2. UCInit => UCInv
  BY UCInvInit
<1>3. Base /\ UCInv /\ [UCNext]_ucVars => UCInv'
  BY UCInvStep
<1> QED
  BY <1>1, <1>2, <1>3, UCIsAC, PTL DEF UCSpec

-----------------------------------------------------------------------------
(* The properties.                                                         *)

\* Every variable of the compressor has its type, the choices are symbols or
\* anchors found, and the walk back stays inside the URL.
THEOREM CompressorTypesHold == UCSpec => []UCTypeOK
<1>1. ASSUME Base, UCInv PROVE UCTypeOK
  <2>1. ACTypeOK
    BY <1>1 DEF Base, ACInv
  <2>2. CASE Running
    <3>1. LoopInv /\ LoopTypes /\ Len(input) \in Nat
      BY <1>1, <2>2, RunningFacts
    <3> QED
      BY <1>1, <2>1, <2>2, <3>1 DEF UCTypeOK, LoopInv, LoopTypes, UCInv
  <2>3. CASE ~ Running
    <3>1. TMTypeOK /\ z = 0 /\ bits = 0 /\ output = <<>> /\ Len(input) \in Nat
      BY <1>1, <2>3, TMFacts DEF UCInv, Running, TMInv
    <3>2. output \in Seq(Seq(Char)) /\ z \in 0 .. Len(input)
      BY <3>1
    <3> QED
      BY <1>1, <2>1, <2>3, <3>1, <3>2 DEF UCTypeOK, UCInv, TMTypeOK, Running
  <2> QED
    BY <2>2, <2>3
<1> QED
  BY <1>1, UCInvAlways, PTL

\* P is never read before its beginning: no anchor found next, exact or not, is
\* longer than the prefix it would end.
THEOREM AnchorsFoundFit == UCSpec => []CandidatesFit
<1>1. ASSUME Base, UCInv PROVE CandidatesFit
  <2> SUFFICES ASSUME tpc = "compress", idx < Len(input),
                      NEW e \in ToSet(FoundAt(GetNextState(current, input[idx + 1])))
               PROVE  Len(anchors[e]) <= idx + 1
    BY DEF CandidatesFit
  <2> DEFINE found == FoundAt(GetNextState(current, input[idx + 1]))
  <2>1. found \in Seq(Fitting(idx + 1))
    BY <1>1, NextFound DEF Running
  <2> HIDE DEF found
  <2>2. e \in Fitting(idx + 1)
    <3>1. e \in ToSet(found)
      BY DEF found
    <3> QED
      BY <2>1, <3>1, WordFacts DEF ToSet
  <2> QED
    BY <2>2 DEF Fitting
<1> QED
  BY <1>1, UCInvAlways, PTL

\* The bits emitted and those P has for the rest are those P has for the URL.
THEOREM PromisedSizeIsEmitted == UCSpec => []EmitsWhatPSays
<1>1. ASSUME Base, UCInv PROVE EmitsWhatPSays
  <2> SUFFICES ASSUME Emitting PROVE bits + P[z] - P[0] = P[Len(input)] - P[0]
    BY DEF EmitsWhatPSays
  <2>1. Running
    BY DEF Emitting, Running
  <2>2. LoopInv
    BY <1>1, <2>1 DEF UCInv
  <2>3. bits + P[z] = P[Len(input)] /\ bits \in Nat /\ P \in [0 .. Len(input) -> Int]
    BY <2>2 DEF LoopInv, LoopTypes
  <2>4. z \in 0 .. Len(input) /\ 0 \in 0 .. Len(input) /\ Len(input) \in 0 .. Len(input)
    BY <1>1, <2>1, RunningFacts
  <2> DEFINE p == P[z]
             q == P[Len(input)]
             r == P[0]
  <2>5. p \in Int /\ q \in Int /\ r \in Int /\ bits \in Int /\ bits + p = q
    BY <2>3, <2>4
  <2> HIDE DEF p, q, r
  <2>6. bits + p - r = q - r
    BY <2>5
  <2> QED
    BY <2>6 DEF p, q, r
<1> QED
  BY <1>1, UCInvAlways, PTL

\* Two texts that differ in characters without a code only.
Decoded == FlattenSeq(Reverse(output))
AllCoded == \A c \in Char : symbolSize[c] # 0
Agree(t, r) == Coded(t) = Coded(r) /\ (AllCoded => t = r)

\* Where no anchor occurs inside another, the anchors found at a position end
\* there, and the strings emitted make up the rest of the URL, but for
\* characters without a code.
DecodeInv ==
    NoInnerAnchor /\ Running =>
        /\ \A k \in 1 .. Len(input) : N[k] \in Seq(Ending(SubSeq(input, 1, k)))
        /\ Emitting => Agree(Decoded, SubSeq(input, z + 1, Len(input)))
        /\ Emitting => Decoded \in Seq(Char)

\* The first character of a text is kept or left out, whatever follows.
LEMMA CodedFirst ==
    ASSUME NEW c \in Char, NEW r \in Seq(Char)
    PROVE  Coded(<<c>> \o r) = CodeOf(c) \o Coded(r)
<1> DEFINE w == <<c>> \o r
           n == Len(r)
           kept(x) == [k \in 1 .. Len(x) |-> CodeOf(x[k])]
<1>1. \A x \in Char : CodeOf(x) \in Str(Char)
  <2>1. \A x \in Char : <<x>> \in Seq(Char) /\ <<>> \in Seq(Char)
    OBVIOUS
  <2> QED
    BY <2>1 DEF CodeOf, Str
<1>2. n \in Nat /\ \A k \in 1 .. n : r[k] \in Char
  OBVIOUS
<1>3. Len(w) = n + 1 /\ w[1] = c /\ \A k \in 1 .. n : w[k + 1] = r[k]
  OBVIOUS
<1> HIDE DEF w, n
<1>4. kept(r) \in Seq(Str(Char)) /\ Len(kept(r)) = n /\ \A k \in 1 .. n : kept(r)[k] = CodeOf(r[k])
  BY <1>1, <1>2 DEF n
<1>5. kept(w) = <<CodeOf(c)>> \o kept(r)
  <2> DEFINE x == kept(w)
             y == <<CodeOf(c)>> \o kept(r)
  <2>1. DOMAIN x = 1 .. n + 1 /\ x[1] = CodeOf(c) /\ \A k \in 1 .. n : x[k + 1] = CodeOf(r[k])
    <3>1. 1 \in 1 .. n + 1 /\ \A k \in 1 .. n : k + 1 \in 1 .. n + 1
      BY <1>2
    <3> QED
      BY <1>3, <3>1
  <2> DEFINE e == CodeOf(c)
             m == kept(r)
  <2>2. e \in Str(Char) /\ m \in Seq(Str(Char)) /\ Len(m) = n
    BY <1>1, <1>4
  <2> HIDE DEF e, m
  <2>3. /\ <<e>> \o m \in Seq(Str(Char)) /\ Len(<<e>> \o m) = n + 1
        /\ (<<e>> \o m)[1] = e /\ \A k \in 1 .. n : (<<e>> \o m)[k + 1] = m[k]
    BY <1>2, <2>2
  <2>4. y \in Seq(Str(Char)) /\ Len(y) = n + 1 /\ y[1] = CodeOf(c) /\ \A k \in 1 .. n : y[k + 1] = CodeOf(r[k])
    BY <1>4, <2>3 DEF e, m
  <2>5. DOMAIN y = 1 .. n + 1
    BY <2>4
  <2>6. \A i \in 1 .. n + 1 : i = 1 \/ (i - 1 \in 1 .. n /\ (i - 1) + 1 = i)
    BY <1>2
  <2>7. x = [i \in 1 .. n + 1 |-> x[i]] /\ y = [i \in 1 .. n + 1 |-> y[i]]
    BY <1>3, <2>4
  <2> HIDE DEF x, y
  <2>8. \A i \in 1 .. n + 1 : x[i] = y[i]
    BY <2>1, <2>4, <2>6
  <2>9. x = y
    BY <2>7, <2>8
  <2> QED
    BY <2>9 DEF x, y
<1>6. Coded(w) = FlattenSeq(kept(w)) /\ Coded(r) = FlattenSeq(kept(r))
  BY DEF Coded
<1> DEFINE m == kept(r)
<1>7. m \in Seq(Str(Char)) /\ kept(w) = <<CodeOf(c)>> \o m
  BY <1>4, <1>5
<1> HIDE DEF m
<1>8. FlattenSeq(<<CodeOf(c)>> \o m) = CodeOf(c) \o FlattenSeq(m)
  BY <1>1, <1>7, FlattenFacts
<1> QED
  BY <1>6, <1>7, <1>8 DEF w, m

\* What comes first does not change whether two texts agree,
LEMMA AgreeBehind ==
    ASSUME NEW s \in Seq(Char), NEW t \in Seq(Char), NEW r \in Seq(Char), Agree(t, r)
    PROVE  Agree(s \o t, s \o r)
<1> DEFINE Bad == {u \in Seq(Char) : Coded(u \o t) # Coded(u \o r)}
           D == {Len(u) : u \in Bad}
<1>1. \A u \in Seq(Char) : Len(u) \in Nat
  OBVIOUS
<1>2. D \subseteq Nat
  BY <1>1
<1>3. \A u \in Bad : u \in Seq(Char) /\ Coded(u \o t) # Coded(u \o r) /\ Len(u) \in D
  OBVIOUS
<1>4. \A u \in Seq(Char) : u \notin Bad => Coded(u \o t) = Coded(u \o r)
  OBVIOUS
<1>5. \A k \in D : \E u \in Bad : Len(u) = k
  OBVIOUS
<1> HIDE DEF Bad, D
<1>6. Bad = {}
  <2> SUFFICES ASSUME NEW e \in Bad PROVE FALSE
    OBVIOUS
  <2>1. D # {}
    BY <1>3
  <2>2. PICK k \in D : \A j \in D : k <= j
    BY <1>2, <2>1, LeastElement
  <2>3. PICK u \in Bad : Len(u) = k
    BY <1>5, <2>2
  <2>4. u \in Seq(Char) /\ u # <<>>
    <3>1. \A x \in Seq(Char) : <<>> \o x = x
      OBVIOUS
    <3>2. <<>> \o t = t /\ <<>> \o r = r
      BY <3>1
    <3>3. Coded(t) = Coded(r)
      BY DEF Agree
    <3>4. CASE u = <<>>
      BY <1>3, <2>3, <3>2, <3>3, <3>4
    <3> QED
      BY <1>3, <2>3, <3>4
  <2> DEFINE c == Head(u)
             v == Tail(u)
  <2>5. c \in Char /\ v \in Seq(Char) /\ u = <<c>> \o v /\ Len(v) < Len(u)
    BY <2>4
  <2> HIDE DEF c, v
  <2>6. v \notin Bad
    <3>1. Len(v) \in Nat /\ k \in Nat /\ Len(v) < k
      BY <1>2, <2>2, <2>3, <2>5
    <3>2. v \in Bad => k <= Len(v)
      BY <1>3, <2>2
    <3> QED
      BY <3>1, <3>2
  <2>7. Coded(v \o t) = Coded(v \o r)
    BY <1>4, <2>5, <2>6
  <2>8. /\ v \o t \in Seq(Char) /\ v \o r \in Seq(Char)
        /\ u \o t = <<c>> \o (v \o t) /\ u \o r = <<c>> \o (v \o r)
    <3>1. \A x \in Seq(Char) : v \o x \in Seq(Char) /\ (<<c>> \o v) \o x = <<c>> \o (v \o x)
      <4>1. <<c>> \in Seq(Char)
        BY <2>5
      <4> QED
        BY <2>5, <4>1, ConcatAssociative
    <3> QED
      BY <2>5, <3>1
  <2> DEFINE x == v \o t
             y == v \o r
  <2> HIDE DEF x, y
  <2>9. Coded(<<c>> \o x) = CodeOf(c) \o Coded(x) /\ Coded(<<c>> \o y) = CodeOf(c) \o Coded(y)
    BY <2>5, <2>8, CodedFirst DEF x, y
  <2>10. Coded(u \o t) = Coded(u \o r)
    BY <2>7, <2>8, <2>9 DEF x, y
  <2> QED
    BY <1>3, <2>3, <2>10
<1>7. Coded(s \o t) = Coded(s \o r)
  BY <1>4, <1>6
<1> QED
  BY <1>7 DEF Agree

\* nor does a character without a code, in one of them.
LEMMA AgreeWithout ==
    ASSUME NEW c \in Char, NEW t \in Seq(Char), NEW r \in Seq(Char), Agree(t, r), symbolSize[c] = 0
    PROVE  Agree(t, <<c>> \o r)
<1>1. Coded(<<c>> \o r) = <<>> \o Coded(r)
  BY CodedFirst DEF CodeOf
<1>2. Coded(r) \in Seq(Char)
  <2>1. \A k \in 1 .. Len(r) : CodeOf(r[k]) \in Str(Char)
    <3>1. \A k \in 1 .. Len(r) : r[k] \in Char
      OBVIOUS
    <3>2. \A x \in Char : <<x>> \in Seq(Char) /\ <<>> \in Seq(Char)
      OBVIOUS
    <3> QED
      BY <3>1, <3>2 DEF CodeOf, Str
  <2> DEFINE m == [k \in 1 .. Len(r) |-> CodeOf(r[k])]
  <2>2. m \in Seq(Str(Char))
    BY <2>1
  <2> HIDE DEF m
  <2>3. FlattenSeq(m) \in Str(Char)
    BY <2>2, FlattenFacts
  <2> QED
    BY <2>3 DEF Coded, m, Str
<1>3. <<>> \o Coded(r) = Coded(r)
  BY <1>2
<1> QED
  BY <1>1, <1>3 DEF Agree, AllCoded

\* What is put behind a sequence comes first in its reverse.
LEMMA ReverseFacts ==
    ASSUME NEW S, NEW s \in Seq(S)
    PROVE  /\ Reverse(s) \in Seq(S) /\ Reverse(<<>>) = <<>>
           /\ \A e \in S : Reverse(Append(s, e)) = <<e>> \o Reverse(s)
<1>1. Reverse(s) \in Seq(S) /\ Len(Reverse(s)) = Len(s) /\ Len(s) \in Nat
  BY DEF Reverse
<1>2. Reverse(<<>>) = <<>>
  BY DEF Reverse
<1>3. ASSUME NEW e \in S PROVE Reverse(Append(s, e)) = <<e>> \o Reverse(s)
  <2> DEFINE t == Append(s, e)
             x == Reverse(t)
             y == <<e>> \o Reverse(s)
  <2>1. t \in Seq(S) /\ Len(t) = Len(s) + 1 /\ t[Len(s) + 1] = e
        /\ \A i \in 1 .. Len(s) : t[i] = s[i]
    OBVIOUS
  <2> HIDE DEF t
  <2>2. x \in Seq(S) /\ Len(x) = Len(s) + 1 /\ \A i \in 1 .. Len(s) + 1 : x[i] = t[Len(s) + 1 - i + 1]
    BY <1>1, <2>1 DEF Reverse
  <2>3. /\ y \in Seq(S) /\ Len(y) = Len(s) + 1 /\ y[1] = e
        /\ \A i \in 2 .. Len(s) + 1 : y[i] = Reverse(s)[i - 1]
    BY <1>1
  <2>4. \A i \in 1 .. Len(s) : Reverse(s)[i] = s[Len(s) - i + 1]
    BY DEF Reverse
  <2> HIDE DEF x, y
  <2>5. ASSUME NEW i \in 1 .. Len(s) + 1 PROVE x[i] = y[i]
    <3>1. CASE i = 1
      <4>1. Len(s) + 1 - 1 + 1 = Len(s) + 1
        BY <1>1
      <4> QED
        BY <2>1, <2>2, <2>3, <3>1, <4>1
    <3>2. CASE i # 1
      <4>1. /\ i \in 2 .. Len(s) + 1 /\ i - 1 \in 1 .. Len(s)
            /\ Len(s) - (i - 1) + 1 = Len(s) + 1 - i + 1
            /\ Len(s) + 1 - i + 1 \in 1 .. Len(s)
        BY <1>1, <3>2
      <4>2. y[i] = s[Len(s) - (i - 1) + 1]
        BY <2>3, <2>4, <4>1
      <4>3. x[i] = t[Len(s) + 1 - i + 1]
        BY <2>2
      <4> QED
        BY <2>1, <4>1, <4>2, <4>3
    <3> QED
      BY <3>1, <3>2
  <2>6. x = y
    BY <2>2, <2>3, <2>5
  <2> QED
    BY <2>6 DEF x, y, t
<1> QED
  BY <1>1, <1>2, <1>3

\* An end of a prefix and what follows the prefix.
LEMMA EndAndRest ==
    ASSUME NEW C, NEW w \in Seq(C), NEW j \in 1 .. Len(w), NEW s \in Seq(C),
           NEW l \in 1 .. j, Len(s) = l, Ends(s, SubSeq(w, 1, j))
    PROVE  s \o SubSeq(w, j + 1, Len(w)) = SubSeq(w, j - l + 1, Len(w))
<1> DEFINE n == Len(w)
           r == SubSeq(w, j + 1, Len(w))
           x == s \o r
           y == SubSeq(w, j - l + 1, Len(w))
<1>0. n \in Nat /\ j \in Nat /\ l \in Nat /\ 1 <= l /\ l <= j /\ j <= n
  OBVIOUS
<1>1. r \in Seq(C) /\ Len(r) = n - j /\ \A i \in 1 .. n - j : r[i] = w[j + i]
  BY <1>0
<1>2. /\ y \in Seq(C) /\ Len(y) = n - j + l /\ \A i \in 1 .. n - j + l : y[i] = w[j - l + i]
  BY <1>0
<1>3. \A i \in 1 .. l : s[i] = w[j - l + i]
  <2>1. Len(SubSeq(w, 1, j)) = j /\ \A i \in 1 .. j : SubSeq(w, 1, j)[i] = w[i]
    BY <1>0
  <2>2. \A i \in 1 .. l : s[i] = SubSeq(w, 1, j)[j - l + i]
    BY <2>1 DEF Ends
  <2> QED
    BY <1>0, <2>1, <2>2
<1> HIDE DEF r
<1>4. /\ x \in Seq(C) /\ Len(x) = l + (n - j)
      /\ \A i \in 1 .. l : x[i] = s[i]
      /\ \A i \in 1 .. n - j : x[l + i] = r[i]
  <2>0. r \in Seq(C)
    BY <1>1
  <2>1. x \in Seq(C) /\ Len(x) = Len(s) + Len(r)
    BY <2>0, ConcatProperties
  <2>3. \A i \in 1 .. Len(s) : x[i] = s[i]
    BY <2>0, ConcatProperties
  <2>4. \A i \in 1 .. Len(r) : x[Len(s) + i] = r[i]
    <3> SUFFICES ASSUME NEW i \in 1 .. Len(r) PROVE x[Len(s) + i] = r[i]
      OBVIOUS
    <3>1. Len(s) + i \in 1 .. Len(s) + Len(r) /\ Len(s) + i > Len(s) /\ Len(s) + i - Len(s) = i
      BY <1>0, <1>1
    <3> QED
      BY <2>0, <3>1, ConcatProperties
  <2> QED
    BY <1>1, <2>1, <2>3, <2>4
<1> HIDE DEF x, y, n
<1>5. ASSUME NEW i \in 1 .. n - j + l PROVE x[i] = y[i]
  <2>1. CASE i <= l
    <3>1. i \in 1 .. l
      BY <1>0, <2>1
    <3> QED
      BY <1>2, <1>3, <1>4, <3>1
  <2>2. CASE i > l
    <3> DEFINE m == i - l
    <3>1. m \in 1 .. n - j /\ l + m = i /\ j - l + i = j + m
      BY <1>0, <2>2
    <3> HIDE DEF m
    <3>2. x[l + m] = r[m] /\ r[m] = w[j + m]
      BY <1>1, <1>4, <3>1
    <3> QED
      BY <1>2, <3>1, <3>2
  <2> QED
    BY <1>0, <2>1, <2>2
<1>6. Len(x) = n - j + l
  BY <1>0, <1>4
<1>7. x = y
  <2> DEFINE k == n - j + l
  <2>1. k \in Nat /\ Len(x) = k /\ Len(y) = k /\ \A i \in 1 .. k : x[i] = y[i]
    BY <1>0, <1>2, <1>5, <1>6
  <2>2. x \in Seq(C) /\ y \in Seq(C)
    BY <1>2, <1>4
  <2> HIDE DEF k
  <2> QED
    BY <2>1, <2>2
<1> QED
  BY <1>7 DEF x, y, r

\* Whether texts agree depends on the code table only.
LEMMA AgreeStays ==
    ASSUME symbolSize' = symbolSize
    PROVE  \A t, r : Agree(t, r)' = Agree(t, r)
BY DEF Agree, AllCoded, Coded, CodeOf

\* The emission of a code puts its string before those emitted so far.
LEMMA DecodeEmit ==
    ASSUME Base, UCInv, DecodeInv, EmitAnchor \/ EmitSymbol PROVE DecodeInv'
<1>1. PICK l, s, b :
              /\ tpc = "emit" /\ z \in 1 .. Len(input)
              /\ l \in 1 .. z /\ s \in Seq(Char) /\ Len(s) = l /\ b \in Nat
              /\ z' = z - l /\ bits' = bits + b /\ Emits(s)
              /\ P[z] = P[z - l] + b
              /\ \/ ymins[z] # Symbol /\ s = anchors[Chosen(z)]
                 \/ s = <<input[z]>>
  BY EmitFacts
<1>2. /\ tpc' = "emit" /\ UNCHANGED <<input, N, symbolSize>> /\ UNCHANGED acVars /\ UNCHANGED tableVars
  BY <1>1 DEF EmitAnchor, EmitSymbol, choiceVars, scanVars, sizeVars
<1>3. /\ NoInnerAnchor' = NoInnerAnchor /\ \A w : Ending(w)' = Ending(w)
  BY <1>2, LoopFrame
<1>4. /\ Running /\ Emitting /\ LoopTypes /\ input \in Seq(Char) /\ Len(input) \in Nat
      /\ \A k \in 1 .. Len(input) : input[k] \in Char
  BY <1>1, RunningFacts DEF Running, Emitting
<1> SUFFICES ASSUME NoInnerAnchor
             PROVE  /\ \A k \in 1 .. Len(input) : N'[k] \in Seq(Ending(SubSeq(input, 1, k)))
                    /\ Agree(Decoded', SubSeq(input, z' + 1, Len(input)))
                    /\ Decoded' \in Seq(Char)
  BY <1>2, <1>3, AgreeStays DEF DecodeInv
<1>5. /\ \A k \in 1 .. Len(input) : N[k] \in Seq(Ending(SubSeq(input, 1, k)))
      /\ Agree(Decoded, SubSeq(input, z + 1, Len(input))) /\ Decoded \in Seq(Char)
  BY <1>4 DEF DecodeInv
<1> DEFINE t == SubSeq(input, 1, z)
<1>6. t \in Seq(Char) /\ Len(t) = z /\ t[z] = input[z]
  BY <1>1, <1>4
<1>7. Ends(s, t)
  <2>1. CASE ymins[z] # Symbol /\ s = anchors[Chosen(z)]
    <3>1. Chosen(z) \in {N[z][i] : i \in DOMAIN N[z]}
      BY <1>1, <1>4, <2>1, ChosenFacts
    <3>2. N[z] \in Seq(Ending(t))
      BY <1>1, <1>5
    <3> HIDE DEF t, Chosen
    <3>3. Chosen(z) \in Ending(t)
      BY <3>1, <3>2, WordFacts
    <3> QED
      BY <2>1, <3>3 DEF Ending
  <2>2. CASE s = <<input[z]>>
    <3>1. Len(s) = 1 /\ s[1] = input[z]
      BY <2>2
    <3> HIDE DEF t
    <3> QED
      BY <1>1, <1>6, <3>1 DEF Ends
  <2> QED
    BY <1>1, <2>1, <2>2
<1>8. s \o SubSeq(input, z + 1, Len(input)) = SubSeq(input, z - l + 1, Len(input))
  BY <1>1, <1>4, <1>7, EndAndRest
<1>9. FlattenSeq(Reverse(Append(output, s))) = s \o Decoded
  <2>1. output \in Seq(Str(Char)) /\ s \in Str(Char)
    <3>1. output \in Seq(Seq(Char))
      BY <1>4 DEF LoopTypes
    <3> QED
      BY <1>1, <3>1 DEF Str
  <2>2. Reverse(Append(output, s)) = <<s>> \o Reverse(output) /\ Reverse(output) \in Seq(Str(Char))
    BY <2>1, ReverseFacts
  <2> DEFINE o == Reverse(output)
  <2> HIDE DEF o
  <2>3. FlattenSeq(<<s>> \o o) = s \o FlattenSeq(o)
    BY <2>1, <2>2, FlattenFacts DEF o
  <2> QED
    BY <2>2, <2>3 DEF o, Decoded
<1> DEFINE r == SubSeq(input, z + 1, Len(input))
<1>10. r \in Seq(Char) /\ SubSeq(input, z' + 1, Len(input)) = s \o r
  <2>1. z' + 1 = z - l + 1
    BY <1>1, <1>4
  <2>2. input \in Seq(Char) /\ Len(input) \in Nat /\ z \in 0 .. Len(input)
    BY <1>1, <1>4
  <2>3. \A i \in 1 .. Len(input) + 1 : SubSeq(input, i, Len(input)) \in Seq(Char)
    BY <2>2
  <2>4. z + 1 \in 1 .. Len(input) + 1
    BY <2>2
  <2>5. r \in Seq(Char)
    BY <2>3, <2>4
  <2> QED
    BY <1>8, <2>1, <2>5
<1> HIDE DEF r
<1>11. CASE output' = Append(output, s)
  <2>1. Decoded' = s \o Decoded
    BY <1>9, <1>11 DEF Decoded
  <2>2. Agree(s \o Decoded, s \o r)
    BY <1>1, <1>5, <1>10, AgreeBehind DEF r
  <2>3. s \o Decoded \in Seq(Char)
    BY <1>1, <1>5
  <2> QED
    BY <1>2, <1>5, <1>10, <2>1, <2>2, <2>3
<1>12. CASE output' = output /\ s = <<input[z]>> /\ symbolSize[input[z]] = 0
  <2>1. Decoded' = Decoded
    BY <1>12 DEF Decoded
  <2>2. input[z] \in Char
    BY <1>1, <1>4
  <2>3. Agree(Decoded, s \o r)
    BY <1>5, <1>10, <1>12, <2>2, AgreeWithout DEF r
  <2> QED
    BY <1>2, <1>5, <1>10, <2>1, <2>3
<1> QED
  BY <1>1, <1>11, <1>12 DEF Emits

\* Every step keeps DecodeInv.
LEMMA DecodeStep ==
    ASSUME Base, UCInv, DecodeInv, [UCNext]_ucVars PROVE DecodeInv'
<1>1. CASE Generate
  <2>1. ~ Running'
    BY <1>1 DEF Generate, generateTableStateMachine, BuildTree, createTableStateMachine, putStates,
       PutState, EndPut, tmVars, Running
  <2> QED
    BY <2>1 DEF DecodeInv
<1>2. CASE StartURL
  <2>1. /\ tpc' = "compress" /\ N' = [k \in 1 .. Len(input') |-> <<>>]
    BY <1>2 DEF StartURL
  <2>2. \A S : <<>> \in Seq(S)
    OBVIOUS
  <2>3. \A k \in 1 .. Len(input') : N'[k] = <<>>
    BY <2>1
  <2> QED
    BY <2>1, <2>2, <2>3 DEF DecodeInv, Emitting
<1>3. CASE CompressChar
  <2>1. PICK k, next, found, y, size1 :
              /\ k = idx + 1 /\ k \in 1 .. Len(input) /\ idx' = k /\ tpc = "compress"
              /\ current' = next /\ next \in Nodes /\ Ends(word[next], SubSeq(input, 1, k))
              /\ found \in Seq(Fitting(k))
              /\ NoInnerAnchor => found \in Seq(Ending(SubSeq(input, 1, k)))
              /\ y \in {Symbol} \cup 0 .. Len(found) - 1
              /\ y # Symbol => /\ found[y + 1] \in 1 .. Len(anchors)
                               /\ Len(anchors[found[y + 1]]) \in 1 .. k
                               /\ huffman_len[found[y + 1]] \in Nat
              /\ size1 = IF y = Symbol THEN P[k - 1] + symbolSize[input[k]]
                         ELSE P[k - Len(anchors[found[y + 1]])] + huffman_len[found[y + 1]]
              /\ size1 \in Int
              /\ N' = [N EXCEPT ![k] = found] /\ ymins' = [ymins EXCEPT ![k] = y]
              /\ P' = [P EXCEPT ![k] = size1]
    BY <1>3, CompressFacts
  <2>2. tpc' = tpc /\ input' = input /\ UNCHANGED acVars /\ UNCHANGED tableVars
    BY <1>3 DEF CompressChar
  <2>3. /\ NoInnerAnchor' = NoInnerAnchor /\ \A w : Ending(w)' = Ending(w)
    BY <2>2, LoopFrame
  <2>4. Running /\ ~ Emitting'
    BY <2>1, <2>2 DEF Running, Emitting
  <2>5. N \in [1 .. Len(input) -> Seq(1 .. Len(anchors))]
    BY <2>4, RunningFacts DEF LoopTypes
  <2> SUFFICES ASSUME NoInnerAnchor
               PROVE  \A i \in 1 .. Len(input) : N'[i] \in Seq(Ending(SubSeq(input, 1, i)))
    BY <2>2, <2>3, <2>4 DEF DecodeInv
  <2>6. \A i \in 1 .. Len(input) : N[i] \in Seq(Ending(SubSeq(input, 1, i)))
    BY <2>4 DEF DecodeInv
  <2> QED
    BY <2>1, <2>5, <2>6
<1>4. CASE StartEmit \/ EndEmit
  <2>1. /\ Running /\ UNCHANGED <<input, N, output, symbolSize>> /\ UNCHANGED acVars /\ UNCHANGED tableVars
        /\ \/ tpc = "compress" /\ z' = Len(input)
           \/ tpc = "emit" /\ z' = z
    BY <1>4 DEF StartEmit, EndEmit, Running, choiceVars, emitVars, scanVars, sizeVars
  <2>2. /\ NoInnerAnchor' = NoInnerAnchor /\ \A w : Ending(w)' = Ending(w)
    BY <2>1, LoopFrame
  <2>3. LoopInv /\ input \in Seq(Char)
    BY <2>1, RunningFacts
  <2> SUFFICES ASSUME NoInnerAnchor
               PROVE  /\ \A i \in 1 .. Len(input) : N'[i] \in Seq(Ending(SubSeq(input, 1, i)))
                      /\ Agree(Decoded', SubSeq(input, z' + 1, Len(input))) /\ Decoded' \in Seq(Char)
    BY <2>1, <2>2, AgreeStays DEF DecodeInv
  <2>4. \A i \in 1 .. Len(input) : N[i] \in Seq(Ending(SubSeq(input, 1, i)))
    BY <2>1 DEF DecodeInv
  <2>5. CASE tpc = "compress" /\ z' = Len(input)
    <3>1. output = <<>>
      BY <2>3, <2>5 DEF LoopInv
    <3>2. Reverse(<<>>) = <<>> /\ FlattenSeq(<<>>) = <<>>
      BY DEF Reverse, FlattenSeq
    <3>3. SubSeq(input, Len(input) + 1, Len(input)) = <<>>
      BY <2>3
    <3>4. Decoded' = <<>> /\ SubSeq(input, z' + 1, Len(input)) = <<>> /\ <<>> \in Seq(Char)
      BY <2>1, <2>5, <3>1, <3>2, <3>3 DEF Decoded
    <3> QED
      BY <2>1, <2>4, <3>4 DEF Agree
  <2>6. CASE tpc = "emit" /\ z' = z
    <3>1. Decoded' = Decoded /\ Emitting
      BY <2>1, <2>6 DEF Decoded, Emitting
    <3> QED
      BY <2>1, <2>4, <2>6, <3>1 DEF DecodeInv
  <2> QED
    BY <2>1, <2>5, <2>6
<1>5. CASE EmitAnchor \/ EmitSymbol
  BY <1>5, DecodeEmit
<1>6. CASE UNCHANGED ucVars
  <2>1. /\ UNCHANGED <<tpc, input, N, z, output, symbolSize>> /\ UNCHANGED acVars /\ UNCHANGED tableVars
    BY <1>6 DEF ucVars, tmVars, scanVars, choiceVars, emitVars, sizeVars
  <2>2. /\ NoInnerAnchor' = NoInnerAnchor /\ \A w : Ending(w)' = Ending(w)
    BY <2>1, LoopFrame
  <2> QED
    BY <2>1, <2>2, AgreeStays DEF DecodeInv, Running, Emitting, Decoded
<1> QED
  BY <1>1, <1>2, <1>3, <1>4, <1>5, <1>6 DEF UCNext, CompressURLsMachine

\* Where no anchor occurs inside another, the strings whose codes are emitted are
\* the URL from its end to its beginning: what is stored can be decoded to it, but
\* for characters that have no code.
THEOREM EncodingDecodes == UCSpec => []DecodesToURL
<1>1. UCInit => DecodeInv
  BY DEF UCInit, TMInit, DecodeInv, Running
<1>2. Base /\ UCInv /\ DecodeInv /\ [UCNext]_ucVars => DecodeInv'
  BY DecodeStep
<1>3. DecodeInv => DecodesToURL
  BY DEF DecodeInv, DecodesToURL, Running, Emitting, Agree, Decoded, AllCoded
<1> QED
  BY <1>1, <1>2, <1>3, UCInvAlways, PTL DEF UCSpec
=============================================================================
