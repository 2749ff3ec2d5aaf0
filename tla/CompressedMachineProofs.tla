----------------------- MODULE CompressedMachineProofs -----------------------
(***************************************************************************)
(* Proofs about module CompressedMachine: what generateStates makes of     *)
(* every tree, what setStatesData stores in the states, and that           *)
(* matchIterative follows the automaton over them.                         *)
(*                                                                         *)
(* The argument has four layers.  The loops over nodes end (ChainIs).      *)
(* The builder's theorems say what the tree is that the machine is made    *)
(* from (Built).  By it one knows in advance which nodes get a state       *)
(* (StateNode): generateStates and setStatesData reach them in breadth     *)
(* first order, and what is not below a node of the queue is finished      *)
(* (OpenIn).  The lemmas of EncodingProofs turn the bytes back into        *)
(* the gotos and failures of the automaton, of which the scan only needs   *)
(* two facts (Advance, FallBack).                                          *)
(***************************************************************************)
EXTENDS CompressedMachine, ACBuilderProofs, EncodingProofs

-----------------------------------------------------------------------------
(* Loops over nodes.                                                       *)

\* The nodes along next from n on.
Walks(f, next, n) == f = [k \in Nat |-> IF k = 0 THEN n ELSE next[f[k - 1]]]

\* There is such a sequence.
LEMMA WalkExists ==
    ASSUME NEW next, NEW n
    PROVE  \E f : Walks(f, next, n)
<1> DEFINE Part(g, b) == /\ g = [k \in 0 .. b |-> g[k]]
                         /\ \A k \in 0 .. b : g[k] = IF k = 0 THEN n ELSE next[g[k - 1]]
           Bad == {b \in Nat : ~ \E g : Part(g, b)}
<1>1. ASSUME NEW b \in Nat PROVE \E g : Part(g, b)
  <2> SUFFICES ASSUME b \in Bad PROVE FALSE
    OBVIOUS
  <2>1. Bad \subseteq Nat /\ Bad # {}
    OBVIOUS
  <2>2. PICK m \in Bad : \A k \in Bad : m <= k
    <3> HIDE DEF Bad
    <3> QED BY <2>1, LeastElement
  <2>3. CASE m = 0
    <3> DEFINE g == [k \in 0 .. 0 |-> n]
    <3>1. Part(g, 0)
      OBVIOUS
    <3> QED BY <3>1, <2>2, <2>3
  <2>4. CASE m # 0
    <3>1. m - 1 \in Nat /\ m - 1 \notin Bad
      BY <2>2, <2>4
    <3>2. PICK g : Part(g, m - 1)
      BY <3>1
    <3> DEFINE h == [k \in 0 .. m |-> IF k = m THEN next[g[m - 1]] ELSE g[k]]
    <3>3. ASSUME NEW k \in 0 .. m PROVE h[k] = IF k = 0 THEN n ELSE next[h[k - 1]]
      <4>1. CASE k = m
        <5>1. h[k] = next[g[m - 1]] /\ h[m - 1] = g[m - 1]
          BY <4>1, <2>2, <2>4
        <5> QED BY <5>1, <4>1, <2>4
      <4>2. CASE k # m
        <5>1. k \in 0 .. m - 1 /\ h[k] = g[k]
          BY <4>2, <2>2
        <5>2. k # 0 => k - 1 \in 0 .. m /\ k - 1 # m
          BY <5>1, <2>2
        <5>3. k # 0 => h[k - 1] = g[k - 1]
          BY <5>2
        <5> HIDE DEF h
        <5> QED BY <5>1, <5>3, <3>2
      <4> QED BY <4>1, <4>2
    <3>4. h = [k \in 0 .. m |-> h[k]]
      OBVIOUS
    <3>5. Part(h, m)
      BY <3>3, <3>4
    <3> QED BY <3>5, <2>2
  <2> QED BY <2>3, <2>4
<1>2. ASSUME NEW b \in Nat, NEW m \in Nat, m <= b, NEW g, NEW h, Part(g, b), Part(h, m)
      PROVE  \A k \in 0 .. m : g[k] = h[k]
  <2> DEFINE Wrong == {k \in 0 .. m : g[k] # h[k]}
  <2> SUFFICES ASSUME Wrong # {} PROVE FALSE
    OBVIOUS
  <2>1. Wrong \subseteq Nat
    OBVIOUS
  <2>2. PICK k \in Wrong : \A l \in Wrong : k <= l
    <3> HIDE DEF Wrong
    <3> QED BY <2>1, LeastElement
  <2>3. k \in 0 .. m /\ k \in 0 .. b
    BY <1>2
  <2>4. CASE k = 0
    BY <2>2, <2>3, <2>4, <1>2
  <2>5. CASE k # 0
    <3>1. k - 1 \in 0 .. m /\ k - 1 \notin Wrong
      BY <2>2, <2>3, <2>5
    <3>2. g[k - 1] = h[k - 1]
      BY <3>1
    <3>3. g[k] = next[g[k - 1]] /\ h[k] = next[h[k - 1]]
      BY <1>2, <2>3, <2>5
    <3> QED BY <3>2, <3>3, <2>2
  <2> QED BY <2>4, <2>5
<1> DEFINE G(b) == CHOOSE g : Part(g, b)
           f == [b \in Nat |-> G(b)[b]]
<1>3. \A b \in Nat : Part(G(b), b)
  BY <1>1
<1> HIDE DEF G
<1>4. ASSUME NEW k \in Nat PROVE f[k] = IF k = 0 THEN n ELSE next[f[k - 1]]
  <2>1. Part(G(k), k)
    BY <1>3
  <2>2. CASE k = 0
    BY <2>1, <2>2
  <2>3. CASE k # 0
    <3>1. k - 1 \in Nat /\ k - 1 \in 0 .. k - 1 /\ k - 1 <= k
      BY <2>3
    <3>2. Part(G(k - 1), k - 1)
      BY <1>3, <3>1
    <3>3. G(k)[k - 1] = G(k - 1)[k - 1]
      <4> HIDE DEF Part
      <4> QED BY <1>2, <2>1, <3>1, <3>2
    <3>4. G(k)[k] = next[G(k)[k - 1]]
      <4>1. k \in 0 .. k
        OBVIOUS
      <4> QED BY <2>1, <2>3, <4>1
    <3> QED BY <2>3, <3>1, <3>3, <3>4
  <2> QED BY <2>2, <2>3
<1>5. f = [k \in Nat |-> IF k = 0 THEN n ELSE next[f[k - 1]]]
  <2>1. f = [k \in Nat |-> f[k]]
    OBVIOUS
  <2> HIDE DEF f
  <2> QED BY <1>4, <2>1
<1> QED
  BY <1>5 DEF Walks

\* w goes along next from n to the first node of ends, through nodes of S.
ChainIs(w, next, n, ends, S) ==
    /\ w \in Seq(S) /\ Len(w) \in Nat /\ Len(w) >= 1 /\ w[1] = n
    /\ \A k \in 1 .. Len(w) - 1 : w[k] \notin ends /\ w[k + 1] = next[w[k]]
    /\ w[Len(w)] \in ends /\ Last(w) = w[Len(w)] /\ Last(w) \in S

\* That is what Chain is where a measure below MAX_PATH_LENGTH bounds the walk;
\* it is no longer than the measure allows.
LEMMA ChainExists ==
    ASSUME NEW next, NEW S, NEW n \in S, NEW ends, NEW r \in [S -> 0 .. MAX_PATH_LENGTH - 1],
           \A x \in S : x \notin ends => next[x] \in S /\ r[next[x]] < r[x]
    PROVE  /\ ChainIs(Chain(next, n, ends), next, n, ends, S)
           /\ Len(Chain(next, n, ends)) <= r[n] + 1
<1> DEFINE at == CHOOSE f : Walks(f, next, n)
           End(k) == at[k] \in ends /\ \A j \in 0 .. k - 1 : at[j] \notin ends
           end == CHOOSE k \in 0 .. MAX_PATH_LENGTH - 1 : End(k)
           Bad == {k \in Nat : at[k] \in ends \/ at[k] \notin S \/ r[at[k]] + k > r[n]}
<1>0. \A x \in S : r[x] \in Nat
  BY DEF MAX_PATH_LENGTH
<1>1. Walks(at, next, n)
  BY WalkExists
<1>2. Chain(next, n, ends) = [k \in 1 .. end + 1 |-> at[k - 1]]
  BY DEF Chain, Walks
<1> HIDE DEF at
<1>3. at[0] = n /\ \A k \in Nat : k # 0 => at[k] = next[at[k - 1]]
  BY <1>1 DEF Walks
<1>4. r[n] \in Nat /\ r[n] <= MAX_PATH_LENGTH - 1 /\ MAX_PATH_LENGTH \in Nat
  BY DEF MAX_PATH_LENGTH
<1>5. Bad # {}
  <2> SUFFICES ASSUME Bad = {} PROVE FALSE
    OBVIOUS
  <2>1. r[n] + 1 \in Nat /\ r[n] + 1 \notin Bad
    BY <1>4
  <2>2. at[r[n] + 1] \in S /\ ~ (r[at[r[n] + 1]] + (r[n] + 1) > r[n])
    BY <2>1
  <2>3. r[at[r[n] + 1]] \in 0 .. MAX_PATH_LENGTH - 1
    BY <2>2
  <2> QED
    BY <1>4, <2>2, <2>3
<1>6. PICK m \in Bad : \A k \in Bad : m <= k
  <2>1. Bad \subseteq Nat
    OBVIOUS
  <2> HIDE DEF Bad
  <2> QED
    BY <1>5, <2>1, LeastElement
<1>7. m \in Nat
  BY <1>6
<1>8. \A k \in 0 .. m - 1 : at[k] \notin ends /\ at[k] \in S /\ ~ (r[at[k]] + k > r[n])
  <2> SUFFICES ASSUME NEW k \in 0 .. m - 1 PROVE k \notin Bad
    OBVIOUS
  <2> HIDE DEF Bad
  <2> QED
    BY <1>6, <1>7
<1>9. at[m] \in S /\ r[at[m]] + m <= r[n]
  <2>1. CASE m = 0
    BY <1>3, <1>4, <2>1
  <2>2. CASE m # 0
    <3>1. m - 1 \in 0 .. m - 1 /\ at[m] = next[at[m - 1]]
      BY <1>3, <1>7, <2>2
    <3>2. at[m - 1] \notin ends /\ at[m - 1] \in S /\ ~ (r[at[m - 1]] + (m - 1) > r[n])
      BY <1>8, <3>1
    <3>3. at[m] \in S /\ r[at[m]] < r[at[m - 1]]
      BY <3>1, <3>2
    <3>4. r[at[m]] \in Nat /\ r[at[m - 1]] \in Nat
      BY <1>0, <3>2, <3>3
    <3> QED
      BY <1>4, <1>7, <3>2, <3>3, <3>4
  <2> QED
    BY <2>1, <2>2
<1>10. r[at[m]] \in Nat
  BY <1>9 DEF MAX_PATH_LENGTH
<1>11. at[m] \in ends /\ m <= r[n] /\ m \in 0 .. MAX_PATH_LENGTH - 1
  <2>1. ~ (r[at[m]] + m > r[n])
    BY <1>4, <1>7, <1>9, <1>10
  <2>2. at[m] \in ends
    BY <1>6, <1>9, <2>1
  <2> QED
    BY <1>4, <1>7, <1>9, <1>10, <2>2
<1>12. End(m)
  BY <1>8, <1>11
<1>13. ASSUME NEW k \in 0 .. MAX_PATH_LENGTH - 1, End(k) PROVE k = m
  <2>1. k \in Nat
    BY DEF MAX_PATH_LENGTH
  <2>2. ~ (k < m)
    BY <1>8, <1>13, <2>1
  <2>3. ~ (m < k)
    BY <1>7, <1>11, <1>13, <2>1
  <2> QED
    BY <1>7, <2>1, <2>2, <2>3
<1>14. end = m
  <2> HIDE DEF End
  <2> QED
    BY <1>11, <1>12, <1>13
<1> DEFINE w == [k \in 1 .. m + 1 |-> at[k - 1]]
<1>15. w \in Seq(S) /\ Len(w) = m + 1 /\ w[m + 1] = at[m] /\ Last(w) = w[Len(w)]
  <2>1. \A k \in 1 .. m + 1 : at[k - 1] \in S
    <3> SUFFICES ASSUME NEW k \in 1 .. m + 1 PROVE at[k - 1] \in S
      OBVIOUS
    <3>1. k - 1 = m \/ k - 1 \in 0 .. m - 1
      BY <1>7
    <3> QED
      BY <1>8, <1>9, <3>1
  <2>2. m + 1 \in Nat /\ m + 1 \in 1 .. m + 1 /\ (m + 1) - 1 = m
    BY <1>7
  <2>3. w \in [1 .. m + 1 -> S]
    BY <2>1
  <2>4. w \in Seq(S) /\ Len(w) = m + 1
    BY <2>2, <2>3
  <2> QED
    BY <2>2, <2>4 DEF Last
<1>16. w[1] = n
  BY <1>3, <1>7
<1>17. ASSUME NEW k \in 1 .. m PROVE w[k] \notin ends /\ w[k + 1] = next[w[k]]
  <2>1. k - 1 \in 0 .. m - 1 /\ k \in Nat /\ k # 0 /\ k \in 1 .. m + 1 /\ k + 1 \in 1 .. m + 1
    BY <1>7
  <2>2. w[k] = at[k - 1] /\ w[k + 1] = at[k]
    BY <2>1
  <2> HIDE DEF w
  <2> QED
    BY <1>3, <1>8, <2>1, <2>2
<1>18. Chain(next, n, ends) = w
  BY <1>2, <1>14
<1> HIDE DEF w
<1>19. (m + 1) - 1 = m /\ m + 1 \in Nat /\ m + 1 >= 1 /\ m + 1 <= r[n] + 1
  BY <1>4, <1>7, <1>11
<1>20. at[m] \in S
  BY <1>9
<1> QED
  BY <1>11, <1>15, <1>16, <1>17, <1>18, <1>19, <1>20 DEF ChainIs

-----------------------------------------------------------------------------
(* What the builder leaves.                                                *)

\* The machine is made from a tree of the words, in which failures lead to the
\* longest suffix but for leaves, and to no leaf; hasFailInto tells the nodes
\* others fail into; and a leaf has an anchor of two characters or more.
Built ==
    /\ pc = "built" /\ ACTypeOK /\ TreeInv
    /\ failure[Root] = Root
    /\ \A n \in Nodes : failure[n] \in Nodes /\ (failure[n] = Root \/ ~ IsLeaf(failure[n]))
    /\ \A n \in Nodes \ {Root} :
          /\ Ends(word[failure[n]], word[n]) /\ depth[failure[n]] < depth[n]
          /\ \A m \in Nodes :
                Ends(word[m], word[n]) /\ depth[failure[n]] < depth[m] /\ depth[m] < depth[n]
                => IsLeaf(m)
          /\ hasFailInto[n] > 0 <=> \E m \in Nodes : failure[m] = n
          /\ IsLeaf(n) => /\ message[n] # NoSlot /\ depth[n] > 1
                          /\ failure[n] = Root => hasFailInto[Root] > 0
    /\ \A n \in Nodes : depth[n] < MAX_PATH_LENGTH

\* What the theorems about the builder say when it is done.
LEMMA BuiltIs ==
    ASSUME ACInv, SlotInv, AnchorInv, CountInv, RootInv, HasFailIntoIsRight, pc = "built"
    PROVE  Built
<1>1. ACTypeOK /\ TreeInv /\ Late /\ Root \in Nodes /\ Root # NoNode
  BY TypeFacts DEF ACInv, Late
<1>2. failure[Root] = Root /\ \A n \in Nodes : failure[n] # NoNode /\ failure[n] \in Nodes
  BY <1>1, TypeFacts DEF ACInv, FailInv
<1>3. \A n \in Nodes \ {Root} : failure[n] = Root \/ ~ IsLeaf(failure[n])
  <2>1. stack = <<>>
    BY DEF CountInv
  <2>2. DOMAIN stack = {}
    BY <2>1
  <2> QED
    BY <1>1, <2>2 DEF CountInv, Settled
<1>4. ASSUME NEW n \in Nodes \ {Root}
      PROVE  /\ Ends(word[failure[n]], word[n]) /\ depth[failure[n]] < depth[n]
             /\ \A m \in Nodes :
                   Ends(word[m], word[n]) /\ depth[failure[n]] < depth[m] /\ depth[m] < depth[n]
                   => IsLeaf(m)
  <2>1. LinkOK(n)
    BY DEF ACInv, FailInv
  <2> QED
    BY <1>2, <2>1 DEF LinkOK
<1>5. \A n \in Nodes \ {Root} : hasFailInto[n] > 0 <=> \E m \in Nodes : failure[m] = n
  BY DEF HasFailIntoIsRight
<1>6. /\ anchors \in Seq(Strings) /\ entry \in Nat
      /\ \A e \in 1 .. Len(anchors) : anchors[e] \in Strings
  <2>1. anchors \in Seq(Strings) /\ entry \in Nat \ {0}
    BY <1>1 DEF ACTypeOK
  <2>2. \A e \in 1 .. Len(anchors) : anchors[e] \in Strings
    BY <2>1
  <2> QED
    BY <2>1, <2>2
<1>7. ASSUME NEW n \in Nodes \ {Root}, IsLeaf(n)
      PROVE  message[n] # NoSlot /\ depth[n] > 1 /\ (failure[n] = Root => hasFailInto[Root] > 0)
  <2>1. message[n] # NoSlot
    BY <1>7, LeafHasAnchor
  <2>2. word[n] = anchors[message[n]] /\ message[n] \in 1 .. entry - 1
    BY <2>1 DEF SlotInv
  <2>3. \A e \in 1 .. entry - 1 : e <= Len(anchors)
    BY DEF ACInv, EnterInv
  <2>4. message[n] \in 1 .. Len(anchors)
    BY <1>6, <2>2, <2>3
  <2>5. Len(word[n]) # 1
    BY <1>6, <2>2, <2>4, CMAssumption
  <2>6. depth[n] \in Nat /\ depth[n] # 0 /\ depth[n] # 1
    BY <1>1, <2>5, RootFacts, TypeFacts DEF TreeInv
  <2> QED
    BY <2>1, <2>6 DEF RootInv
<1>8. ASSUME NEW n \in Nodes PROVE depth[n] < MAX_PATH_LENGTH
  <2>1. CASE n = Root
    BY <1>1, <2>1, RootFacts DEF MAX_PATH_LENGTH
  <2>2. CASE n # Root
    <3>1. PICK e \in 1 .. entry : e <= Len(anchors) /\ Begins(word[n], anchors[e])
      BY <2>2 DEF ACInv, EnterInv
    <3>2. e \in 1 .. Len(anchors)
      BY <1>6, <3>1
    <3>3. Len(anchors[e]) < MAX_PATH_LENGTH /\ anchors[e] \in Seq(Char)
      BY <1>6, <3>2, ACAssumption, CMAssumption
    <3>4. Len(word[n]) <= Len(anchors[e]) /\ depth[n] = Len(word[n]) /\ depth[n] \in Nat
      BY <1>1, <3>1, TypeFacts DEF Begins, TreeInv
    <3>5. Len(anchors[e]) \in Nat /\ MAX_PATH_LENGTH \in Nat
      BY <3>3 DEF MAX_PATH_LENGTH
    <3> QED
      BY <3>3, <3>4, <3>5
  <2> QED
    BY <2>1, <2>2
<1> QED
  BY <1>1, <1>2, <1>3, <1>4, <1>5, <1>7, <1>8 DEF Built

\* The machine's generator begins with the builder and leaves the tree alone.
LEMMA StepsBuild ==
    ASSUME [CMNext]_<<acVars, cmVars>>
    PROVE  [ACNext]_acVars /\ (~ BuildStep => UNCHANGED acVars)
<1>1. BuildStep \/ UNCHANGED acVars
  BY DEF CMNext, CMStep, CMStopped, createStateMachine, BuildTree, GenerateBranch, GeneratePath, SkipLeaf,
         EndGenerate, SetNothing, SetBranch, SetPath, EndData, Match, matchIterative, StepInRoot, Step,
         Return, Stop
<1> QED
  BY <1>1 DEF ACNext

\* CompressedMachine.tla implements ACBuilder.tla.
THEOREM MachineBuildsTheTree == CMSpec => ACSpec
<1>1. CMInit => ACInit
  BY DEF CMInit
<1>2. [CMNext]_<<acVars, cmVars>> => [ACNext]_acVars
  BY StepsBuild
<1> QED
  BY <1>1, <1>2, PTL DEF CMSpec, ACSpec

\* The rest of the generator starts when the tree is built.
LEMMA BuiltAlways == CMSpec => [](cpc # "tree" => Built)
<1> DEFINE I == cpc # "tree" => pc = "built"
<1>1. CMInit => I
  BY DEF CMInit
<1>2. I /\ [CMNext]_<<acVars, cmVars>> => I'
  <2> SUFFICES ASSUME I, [CMNext]_<<acVars, cmVars>>, cpc' # "tree" PROVE pc' = "built"
    OBVIOUS
  <2>1. CASE BuildTree
    BY <2>1 DEF BuildTree, cmVars, acVars
  <2>2. CASE ~ BuildTree
    <3>1. UNCHANGED acVars /\ cpc # "tree"
      BY <2>2 DEF CMNext, CMStep, CMStopped, createStateMachine, GenerateBranch, GeneratePath, SkipLeaf,
                  EndGenerate, SetNothing, SetBranch, SetPath, EndData, Match, matchIterative, StepInRoot,
                  Step, Return, Stop, cmVars
    <3> QED
      BY <3>1 DEF acVars
  <2> QED
    BY <2>1, <2>2
<1>3. \A w \in Strings : Len(w) # 1
  BY CMAssumption
<1>4. ACSpec => []RootInv
  BY <1>3, RootInvAlways
<1>5. I /\ ACInv /\ SlotInv /\ AnchorInv /\ CountInv /\ RootInv /\ HasFailIntoIsRight
      => (cpc # "tree" => Built)
  BY BuiltIs
<1> HIDE DEF I
<1> QED
  BY <1>1, <1>2, <1>4, <1>5, MachineBuildsTheTree, ACInvAlways, SlotInvAlways, AnchorInvAlways,
     CountInvAlways, HasFailIntoIsKept, PTL DEF CMSpec

-----------------------------------------------------------------------------
(* What a match says.                                                      *)

\* Where a node matches there ends an anchor, of two characters or more; what it
\* is the message of is its word.
AnchorOf(n, e) == e \in DOMAIN anchors /\ anchors[e] # <<>> /\ anchors[e] \in Seq(Char) /\ Ends(anchors[e], word[n])
Anchored ==
    \A n \in Nodes :
        /\ match[n] => depth[n] > 1 /\ \E e : AnchorOf(n, e)
        /\ message[n] # NoSlot => match[n] /\ AnchorOf(n, message[n])

LEMMA AnchoredIs ==
    ASSUME ACInv, SlotInv
    PROVE  Anchored
<1>1. ACTypeOK /\ TreeInv /\ MatchInv /\ entry \in Nat /\ \A e \in 1 .. entry - 1 : e <= Len(anchors) /\ anchors[e] # <<>>
  BY DEF ACInv, ACTypeOK, EnterInv
<1>2. anchors \in Seq(Strings)
  BY <1>1 DEF ACTypeOK
<1>3. ASSUME NEW e \in 1 .. entry - 1
      PROVE  e \in DOMAIN anchors /\ anchors[e] # <<>> /\ anchors[e] \in Seq(Char) /\ Len(anchors[e]) # 1
  <2>1. e \in Nat \ {0} /\ e <= Len(anchors) /\ anchors[e] # <<>>
    BY <1>1
  <2>2. e \in 1 .. Len(anchors)
    BY <1>2, <2>1
  <2>3. anchors[e] \in Strings
    BY <1>2, <2>2
  <2>4. Len(anchors[e]) # 1
    BY <2>3, CMAssumption
  <2>5. anchors[e] \in Seq(Char)
    BY <1>1, <2>1, AnchorsAreWords
  <2> QED
    BY <1>2, <2>1, <2>2, <2>4, <2>5
<1>4. ASSUME NEW n \in Nodes, match[n] PROVE depth[n] > 1 /\ \E e : AnchorOf(n, e)
  <2>1. PICK e \in 1 .. entry - 1 : Ends(anchors[e], word[n])
    BY <1>1, <1>4 DEF MatchInv
  <2>2. AnchorOf(n, e)
    BY <1>3, <2>1 DEF AnchorOf
  <2> DEFINE u == anchors[e]
  <2>3. u \in Seq(Char) /\ u # <<>> /\ Len(u) # 1
    BY <1>3
  <2>4. Len(u) <= Len(word[n]) /\ depth[n] = Len(word[n]) /\ word[n] \in Seq(Char)
    BY <1>1, <2>1, TypeFacts DEF Ends, TreeInv
  <2> HIDE DEF u
  <2>5. Len(u) \in Nat /\ Len(u) # 0 /\ Len(word[n]) \in Nat
    <3>1. Len(u) \in Nat /\ (Len(u) = 0 => u = <<>>)
      BY <2>3
    <3>2. Len(word[n]) \in Nat
      BY <2>4
    <3> QED
      BY <2>3, <3>1, <3>2
  <2> DEFINE k == Len(u)
             d == Len(word[n])
  <2>6. k \in Nat /\ k # 0 /\ k # 1 /\ d \in Nat /\ k <= d /\ depth[n] = d
    BY <2>3, <2>4, <2>5
  <2> HIDE DEF k, d
  <2>7. depth[n] > 1
    BY <2>6
  <2> QED
    BY <2>2, <2>7
<1>5. ASSUME NEW n \in Nodes, message[n] # NoSlot PROVE match[n] /\ AnchorOf(n, message[n])
  <2>1. match[n] /\ message[n] \in 1 .. entry - 1 /\ word[n] = anchors[message[n]]
    BY <1>5 DEF SlotInv
  <2>2. word[n] \in Seq(Char)
    BY <1>1, TypeFacts
  <2>3. Ends(anchors[message[n]], word[n])
    BY <2>1, <2>2, EndsOrder
  <2> QED
    BY <1>3, <2>1, <2>3 DEF AnchorOf
<1> QED
  BY <1>4, <1>5 DEF Anchored

LEMMA AnchoredAlways == CMSpec => []Anchored
<1>1. ACInv /\ SlotInv => Anchored
  BY AnchoredIs
<1> QED
  BY <1>1, MachineBuildsTheTree, ACInvAlways, SlotInvAlways, PTL

-----------------------------------------------------------------------------
(* The nodes of the tree.                                                  *)

\* The number of gotos; an only goto.
LEMMA GotoCount ==
    ASSUME Built, NEW n \in Nodes
    PROVE  /\ numGotos(n) \in 0 .. MAX_ARRAY_LENGTH /\ (numGotos(n) = 0 <=> IsLeaf(n))
           /\ IsFiniteSet(Chars(n))
           /\ numGotos(n) = 1 => Only(n) \in Chars(n) /\ Chars(n) = {Only(n)}
<1>1. Chars(n) \subseteq Char /\ IsFiniteSet(Char)
  BY ACAssumption DEF Chars
<1>2. IsFiniteSet(Chars(n)) /\ Cardinality(Chars(n)) <= Cardinality(Char)
  BY <1>1, FS_Subset
<1>3. Cardinality(Chars(n)) \in Nat /\ Cardinality(Char) \in Nat
  BY <1>1, <1>2, FS_CardinalityType
<1>4. Cardinality(Chars(n)) = 0 <=> Chars(n) = {}
  BY <1>2, FS_EmptySet
<1>5. ASSUME Cardinality(Chars(n)) = 1 PROVE Only(n) \in Chars(n) /\ Chars(n) = {Only(n)}
  <2>1. PICK c : Chars(n) = {c}
    BY <1>2, <1>5, FS_Singleton
  <2>2. Only(n) \in Chars(n)
    BY <2>1 DEF Only
  <2> QED
    BY <2>1, <2>2
<1>6. Cardinality(Chars(n)) \in 0 .. 100
  <2>1. Cardinality(Char) <= MAX_ARRAY_LENGTH
    BY CMAssumption
  <2> QED
    BY <1>2, <1>3, <2>1 DEF MAX_ARRAY_LENGTH
<1> QED
  BY <1>2, <1>4, <1>5, <1>6 DEF numGotos, IsLeaf, MAX_ARRAY_LENGTH

\* Where an only goto leads.
LEMMA OnlyChild ==
    ASSUME Built, NEW n \in Nodes, numGotos(n) = 1
    PROVE  /\ Only(n) \in Chars(n) /\ Chars(n) = {Only(n)} /\ Only(n) \in Char /\ ~ IsLeaf(n)
           /\ Child(n) \in Nodes \ {Root} /\ Child(n) = gotos[n][Only(n)]
           /\ word[Child(n)] = Append(word[n], Only(n)) /\ depth[Child(n)] = depth[n] + 1
<1>1. Only(n) \in Chars(n) /\ Chars(n) = {Only(n)} /\ ~ IsLeaf(n)
  BY GotoCount DEF IsLeaf
<1> QED
  BY <1>1, ChildFacts DEF Child, Built

\* The prefixes of a word are prefixes of each other.
LEMMA BeginsOrder ==
    ASSUME NEW C, NEW u \in Seq(C), NEW v \in Seq(C), NEW w \in Seq(C)
    PROVE  /\ Begins(w, w)
           /\ Begins(u, v) /\ Begins(v, w) => Begins(u, w)
           /\ Begins(u, w) /\ Begins(v, w) => Begins(u, v) \/ Begins(v, u)
           /\ Begins(u, v) /\ Len(u) = Len(v) => u = v
           /\ Begins(u, v) => Len(u) <= Len(v)
<1>1. Len(u) \in Nat /\ Len(v) \in Nat /\ Len(w) \in Nat
  OBVIOUS
<1>2. Begins(u, v) /\ Begins(v, w) => Begins(u, w)
  <2> SUFFICES ASSUME Begins(u, v), Begins(v, w) PROVE Begins(u, w)
    OBVIOUS
  <2>1. \A i \in 1 .. Len(u) : i \in 1 .. Len(v)
    BY <1>1 DEF Begins
  <2> QED
    BY <1>1, <2>1 DEF Begins
<1>3. ASSUME Begins(u, w), Begins(v, w) PROVE Begins(u, v) \/ Begins(v, u)
  <2>1. CASE Len(u) <= Len(v)
    <3>1. \A i \in 1 .. Len(u) : i \in 1 .. Len(v)
      BY <1>1, <2>1
    <3> QED
      BY <1>3, <2>1, <3>1 DEF Begins
  <2>2. CASE Len(v) <= Len(u)
    <3>1. \A i \in 1 .. Len(v) : i \in 1 .. Len(u)
      BY <1>1, <2>2
    <3> QED
      BY <1>3, <2>2, <3>1 DEF Begins
  <2> QED
    BY <1>1, <2>1, <2>2
<1>4. ASSUME Begins(u, v), Len(u) = Len(v) PROVE u = v
  BY <1>4 DEF Begins
<1> QED
  BY <1>1, <1>2, <1>3, <1>4 DEF Begins

\* Words of one and two letters.
LEMMA LengthIs ==
    ASSUME NEW C, NEW w \in Seq(C), NEW k \in Nat
    PROVE  Len(w) = k <=> Len(w) <= k /\ k <= Len(w)
OBVIOUS

LEMMA OneAndOne ==
    ASSUME NEW C, NEW w \in Seq(C), NEW c \in C, Len(w) <= 1, 1 <= Len(w)
    PROVE  w = <<w[1]>> /\ w[1] \in C /\ Append(w, c) = <<w[1], c>>
<1> DEFINE a == Append(w, c)
           b == <<w[1], c>>
           d == <<w[1]>>
<1>1. a \in Seq(C) /\ Len(a) = Len(w) + 1
  OBVIOUS
<1>2. a[Len(w) + 1] = c
  OBVIOUS
<1>3. a[1] = w[1]
  OBVIOUS
<1>4. w[1] \in C
  OBVIOUS
<1>5. b \in Seq(C) /\ Len(b) <= 2 /\ 2 <= Len(b) /\ b[1] = w[1] /\ b[2] = c
  BY <1>4
<1>6. d \in Seq(C) /\ Len(d) <= 1 /\ 1 <= Len(d) /\ d[1] = w[1]
  BY <1>4
<1> HIDE DEF a, b, d
<1>7. a \in Seq(C) /\ Len(a) <= 2 /\ 2 <= Len(a) /\ a[1] = w[1] /\ a[2] = c
  BY <1>1, <1>2, <1>3
<1>8. a = b
  BY <1>5, <1>7
<1>9. w = d
  BY <1>6
<1> QED
  BY <1>4, <1>8, <1>9 DEF a, b, d

LEMMA TwoLetters ==
    ASSUME NEW C, NEW w \in Seq(C), Len(w) <= 2, 2 <= Len(w)
    PROVE  w = <<w[1], w[2]>> /\ w[1] \in C /\ w[2] \in C
<1> DEFINE b == <<w[1], w[2]>>
<1>1. w[1] \in C /\ w[2] \in C
  OBVIOUS
<1>2. b \in Seq(C) /\ Len(b) <= 2 /\ 2 <= Len(b) /\ b[1] = w[1] /\ b[2] = w[2]
  BY <1>1
<1> HIDE DEF b
<1>3. w = b
  BY <1>2
<1> QED
  BY <1>1, <1>3 DEF b

LEMMA ShortWords ==
    ASSUME NEW C, NEW w \in Seq(C), NEW c \in C
    PROVE  /\ w = <<>> => Append(w, c) = <<c>>
           /\ Len(w) = 1 => w # <<>>
           /\ Len(w) = 1 => w = <<w[1]>> /\ w[1] \in C /\ Append(w, c) = <<w[1], c>>
           /\ Len(w) = 2 => w = <<w[1], w[2]>> /\ w[1] \in C /\ w[2] \in C
<1>1. w = <<>> => Append(w, c) = <<c>>
  OBVIOUS
<1>2. Len(w) = 1 => Len(w) <= 1 /\ 1 <= Len(w)
  BY LengthIs, 1 \in Nat
<1>3. Len(w) = 2 => Len(w) <= 2 /\ 2 <= Len(w)
  BY LengthIs, 2 \in Nat
<1>4. Len(w) = 1 => w = <<w[1]>> /\ w[1] \in C /\ Append(w, c) = <<w[1], c>>
  BY <1>2, OneAndOne
<1>5. Len(w) = 2 => w = <<w[1], w[2]>> /\ w[1] \in C /\ w[2] \in C
  BY <1>3, TwoLetters
<1>6. 1 <= Len(w) => w # <<>>
  OBVIOUS
<1> QED
  BY <1>1, <1>2, <1>4, <1>5, <1>6

\* A child is below its parent, and nothing between.
LEMMA BelowChild ==
    ASSUME Built, NEW n \in Nodes, NEW c \in Chars(n), NEW m \in Nodes
    PROVE  /\ Begins(word[n], word[gotos[n][c]]) /\ ~ Begins(word[gotos[n][c]], word[n])
           /\ Begins(word[gotos[n][c]], word[m]) => Begins(word[n], word[m]) /\ m # n
<1>1. /\ gotos[n][c] \in Nodes /\ word[gotos[n][c]] = Append(word[n], c)
      /\ c \in Char
  BY ChildFacts DEF Built
<1>2. word[n] \in Seq(Char) /\ word[m] \in Seq(Char)
  BY TypeFacts DEF Built
<1>3. Begins(word[n], Append(word[n], c)) /\ ~ Begins(Append(word[n], c), word[n])
  BY <1>1, <1>2 DEF Begins
<1>4. Append(word[n], c) \in Seq(Char)
  BY <1>1, <1>2
<1>5. Begins(Append(word[n], c), word[m]) => Begins(word[n], word[m])
  BY <1>2, <1>3, <1>4, BeginsOrder
<1> QED
  BY <1>1, <1>3, <1>5

-----------------------------------------------------------------------------
(* The loops over failures and over paths.                                 *)

\* Failures lead to the root.
LEMMA FailureChain ==
    ASSUME Built, NEW n \in Nodes, NEW ends, Root \in ends
    PROVE  ChainIs(Chain(failure, n, ends), failure, n, ends, Nodes)
<1>1. depth \in [Nodes -> 0 .. MAX_PATH_LENGTH - 1]
  <2>1. depth \in [Nodes -> Nat] /\ \A x \in Nodes : depth[x] < 512
    BY DEF Built, ACTypeOK, MAX_PATH_LENGTH
  <2> QED
    BY <2>1 DEF MAX_PATH_LENGTH
<1>2. \A x \in Nodes : x \notin ends => failure[x] \in Nodes /\ depth[failure[x]] < depth[x]
  BY DEF Built
<1> QED
  BY <1>1, <1>2, ChainExists

\* The nodes a path goes through behind its first, with the leaf it ends in.
Interior(n) ==
    /\ n # Root /\ ~ EndsPath(n)
    /\ \E p \in Nodes, c \in Char : gotos[p][c] = n /\ numGotos(p) = 1

\* The other nodes with gotos get a state.
StateNode(n) == n \in Nodes /\ ~ IsLeaf(n) /\ ~ Interior(n)

\* A node that is not a leaf and does not end a path has one goto; one that
\* ends a path is no leaf.
LEMMA PathNodes ==
    ASSUME Built, NEW m \in Nodes \ {Root}
    PROVE  /\ ~ EndsPath(m) /\ ~ IsLeaf(m) => numGotos(m) = 1
           /\ EndsPath(m) => ~ IsLeaf(m)
           /\ IsLeaf(m) => ~ EndsPath(m)
<1>1. hasFailInto[m] \in Nat
  BY DEF Built, ACTypeOK
<1>2. numGotos(m) \in Nat /\ (numGotos(m) = 0 <=> IsLeaf(m))
  BY GotoCount DEF MAX_ARRAY_LENGTH
<1>3. hasFailInto[m] > 0 => ~ IsLeaf(m)
  <2> SUFFICES ASSUME hasFailInto[m] > 0 PROVE ~ IsLeaf(m)
    OBVIOUS
  <2>1. PICK x \in Nodes : failure[x] = m
    BY DEF Built
  <2> QED
    BY <2>1 DEF Built
<1> QED
  BY <1>1, <1>2, <1>3 DEF EndsPath

\* What the failure pointers lead to has a state or is the root.
LEMMA FailuresHaveStates ==
    ASSUME Built, NEW n \in Nodes
    PROVE  failure[n] \in Nodes /\ (failure[n] = Root \/ StateNode(failure[n]))
<1>1. failure[n] \in Nodes /\ (failure[n] = Root \/ ~ IsLeaf(failure[n]))
  BY DEF Built
<1>2. failure[n] # Root => EndsPath(failure[n])
  <2> SUFFICES ASSUME failure[n] # Root PROVE hasFailInto[failure[n]] > 0
    BY DEF EndsPath
  <2> QED
    BY <1>1 DEF Built
<1> QED
  BY <1>1, <1>2 DEF StateNode, Interior

\* The path of n has l positions; behind the last is its end.
PathWalk(n, l) ==
    /\ Path(n) \in Seq(Nodes) /\ Len(Path(n)) = l /\ l \in 1 .. MAX_PATH_LENGTH /\ Path(n)[1] = n
    /\ \A k \in 1 .. l : Path(n)[k] \in Nodes /\ numGotos(Path(n)[k]) = 1
    /\ \A k \in 1 .. l - 1 :
          /\ Path(n)[k + 1] = Child(Path(n)[k]) /\ Path(n)[k + 1] # Root
          /\ ~ EndsPath(Path(n)[k + 1]) /\ ~ IsLeaf(Path(n)[k + 1])
    /\ PathEnd(n) = Child(Path(n)[l]) /\ PathEnd(n) \in Nodes \ {Root}
    /\ EndsPath(PathEnd(n)) \/ IsLeaf(PathEnd(n))

LEMMA PathOf ==
    ASSUME Built, NEW n \in Nodes, numGotos(n) = 1
    PROVE  \E l \in Nat : PathWalk(n, l)
<1> DEFINE ends == {m \in Inner : EndsPath(Child(m)) \/ IsLeaf(Child(m))}
           next == [m \in Inner |-> Child(m)]
           T == {x \in Nodes : numGotos(x) = 1}
           r == [x \in T |-> MAX_PATH_LENGTH - 1 - depth[x]]
           w == Path(n)
           l == Len(w)
<1>1. w = Chain(next, n, ends)
  BY DEF Path
<1>2. \A x \in T : /\ x \in Nodes /\ x \in Inner /\ next[x] = Child(x) /\ Child(x) \in Nodes \ {Root}
                   /\ depth[Child(x)] = depth[x] + 1
  BY OnlyChild DEF Inner
<1>3. \A x \in Nodes : depth[x] \in Nat /\ depth[x] < MAX_PATH_LENGTH
  BY DEF Built, ACTypeOK
<1>4. r \in [T -> 0 .. MAX_PATH_LENGTH - 1]
  BY <1>2, <1>3 DEF MAX_PATH_LENGTH
<1>5. \A x \in T : x \in ends <=> EndsPath(Child(x)) \/ IsLeaf(Child(x))
  BY <1>2
<1>6. \A x \in T : x \notin ends => next[x] \in T /\ r[next[x]] < r[x]
  <2> SUFFICES ASSUME NEW x \in T, x \notin ends PROVE next[x] \in T /\ r[next[x]] < r[x]
    OBVIOUS
  <2>1. numGotos(Child(x)) = 1
    BY <1>2, <1>5, PathNodes
  <2>2. next[x] \in T /\ depth[next[x]] = depth[x] + 1 /\ depth[x] \in Nat /\ x \in T
    BY <1>2, <1>3, <2>1
  <2> QED
    BY <2>2 DEF MAX_PATH_LENGTH
<1>7. n \in T
  OBVIOUS
<1>8. ChainIs(w, next, n, ends, T) /\ l <= r[n] + 1
  <2> HIDE DEF ends, next, T, r
  <2> QED
    BY <1>1, <1>4, <1>6, <1>7, ChainExists
<1>9. r[n] <= MAX_PATH_LENGTH - 1 /\ r[n] \in Nat
  BY <1>4, <1>7 DEF MAX_PATH_LENGTH
<1>10. /\ w \in Seq(T) /\ l \in Nat /\ l >= 1 /\ w[1] = n /\ Last(w) = w[l] /\ w[l] \in ends /\ Last(w) \in T
       /\ \A k \in 1 .. l - 1 : w[k] \notin ends /\ w[k + 1] = next[w[k]]
  <2> HIDE DEF ends, next, T, r
  <2> QED
    BY <1>8 DEF ChainIs
<1>11. l \in 1 .. MAX_PATH_LENGTH
  <2> DEFINE q == r[n]
  <2>1. l <= q + 1 /\ q <= MAX_PATH_LENGTH - 1 /\ q \in Nat /\ l \in Nat /\ l >= 1
    BY <1>8, <1>9, <1>10
  <2>2. MAX_PATH_LENGTH \in Nat
    BY DEF MAX_PATH_LENGTH
  <2> HIDE DEF q, l
  <2> QED
    BY <2>1, <2>2
<1>12. \A k \in 1 .. l : w[k] \in T
  BY <1>10
<1>13. w \in Seq(Nodes)
  BY <1>10
<1>14. PathEnd(n) = Child(w[l]) /\ PathEnd(n) \in Nodes \ {Root} /\ (EndsPath(PathEnd(n)) \/ IsLeaf(PathEnd(n)))
  BY <1>2, <1>5, <1>10 DEF PathEnd
<1>15. ASSUME NEW k \in 1 .. l - 1
       PROVE  /\ w[k + 1] = Child(w[k]) /\ w[k + 1] # Root
              /\ ~ EndsPath(w[k + 1]) /\ ~ IsLeaf(w[k + 1])
  <2>1. k \in 1 .. l /\ w[k] \in T /\ w[k] \notin ends /\ w[k + 1] = next[w[k]]
    BY <1>10, <1>12
  <2> QED
    BY <1>2, <1>5, <2>1
<1>16. \A k \in 1 .. l : w[k] \in Nodes /\ numGotos(w[k]) = 1
  BY <1>12
<1> HIDE DEF w, T, ends, next, r
<1>17. PathWalk(n, l)
  BY <1>10, <1>11, <1>13, <1>14, <1>15, <1>16 DEF PathWalk, w
<1> QED
  BY <1>10, <1>17

\* What is below n is on its path or below the end of it; the nodes behind n are
\* below n.
PathCover(n, l) ==
    /\ \A m \in Nodes : Begins(word[n], word[m]) =>
          (\E k \in 1 .. l : m = Path(n)[k]) \/ Begins(word[PathEnd(n)], word[m])
    /\ \A k \in 1 .. l : /\ Begins(word[n], word[Path(n)[k]]) /\ depth[Path(n)[k]] = depth[n] + k - 1
                         /\ k # 1 => Path(n)[k] # n /\ Interior(Path(n)[k])
    /\ Begins(word[n], word[PathEnd(n)]) /\ depth[PathEnd(n)] = depth[n] + l
    /\ ~ Begins(word[PathEnd(n)], word[n])
    /\ EndsInLeaf(n) => IsLeaf(PathEnd(n)) /\ Interior(PathEnd(n))
    /\ ~ EndsInLeaf(n) => ~ IsLeaf(PathEnd(n)) /\ ~ Interior(PathEnd(n))

LEMMA PathCovers ==
    ASSUME Built, NEW n \in Nodes, NEW l \in Nat, PathWalk(n, l)
    PROVE  PathCover(n, l)
<1> DEFINE w == Path(n)
<1>1. /\ w[1] = n /\ l >= 1
      /\ \A k \in 1 .. l : w[k] \in Nodes /\ numGotos(w[k]) = 1
      /\ \A k \in 1 .. l - 1 : /\ w[k + 1] = Child(w[k]) /\ w[k + 1] # Root
                               /\ ~ EndsPath(w[k + 1]) /\ ~ IsLeaf(w[k + 1])
      /\ PathEnd(n) = Child(w[l]) /\ PathEnd(n) \in Nodes \ {Root}
      /\ EndsPath(PathEnd(n)) \/ IsLeaf(PathEnd(n))
  BY DEF PathWalk
<1> HIDE DEF w
<1>2. \A x \in Nodes : word[x] \in Seq(Char) /\ depth[x] \in Nat /\ depth[x] = Len(word[x])
  BY TypeFacts DEF Built, TreeInv
<1>3. \A k \in 1 .. l : /\ Child(w[k]) \in Nodes \ {Root} /\ depth[Child(w[k])] = depth[w[k]] + 1
                        /\ Begins(word[w[k]], word[Child(w[k])])
  <2> SUFFICES ASSUME NEW k \in 1 .. l
               PROVE  /\ Child(w[k]) \in Nodes \ {Root} /\ depth[Child(w[k])] = depth[w[k]] + 1
                      /\ Begins(word[w[k]], word[Child(w[k])])
    OBVIOUS
  <2>1. w[k] \in Nodes /\ numGotos(w[k]) = 1
    BY <1>1
  <2>2. Only(w[k]) \in Chars(w[k]) /\ Child(w[k]) = gotos[w[k]][Only(w[k])]
    BY <2>1, OnlyChild
  <2> QED
    BY <2>1, <2>2, OnlyChild, BelowChild
<1> DEFINE Good(k) == Begins(word[n], word[w[k]]) /\ depth[w[k]] = depth[n] + k - 1
           Bad == {k \in 1 .. l : ~ Good(k)}
<1>4. Bad = {}
  <2> SUFFICES ASSUME Bad # {} PROVE FALSE
    OBVIOUS
  <2>1. PICK k \in Bad : \A j \in Bad : k <= j
    <3>1. Bad \subseteq Nat
      OBVIOUS
    <3> HIDE DEF Bad
    <3> QED
      BY <3>1, LeastElement
  <2>2. CASE k = 1
    <3>1. Good(1)
      BY <1>1, <1>2, BeginsOrder
    <3> QED
      BY <2>1, <2>2, <3>1
  <2>3. CASE k # 1
    <3>1. k - 1 \in 1 .. l /\ k - 1 \in 1 .. l - 1 /\ (k - 1) + 1 = k /\ k - 1 \notin Bad
      BY <2>1, <2>3
    <3>2. Good(k - 1) /\ w[k] = Child(w[k - 1])
      BY <1>1, <3>1
    <3>3. Begins(word[w[k - 1]], word[w[k]]) /\ depth[w[k]] = depth[w[k - 1]] + 1
      BY <1>3, <3>1, <3>2
    <3>4. w[k] \in Nodes /\ w[k - 1] \in Nodes
      BY <1>1, <2>1, <3>1
    <3>5. Begins(word[n], word[w[k]])
      <4>1. Begins(word[n], word[w[k - 1]]) /\ Begins(word[w[k - 1]], word[w[k]])
        BY <3>2, <3>3
      <4>2. word[n] \in Seq(Char) /\ word[w[k - 1]] \in Seq(Char) /\ word[w[k]] \in Seq(Char)
        BY <1>2, <3>4
      <4> HIDE DEF Good, Bad
      <4> QED
        BY <4>1, <4>2, BeginsOrder
    <3>6. depth[w[k]] = depth[n] + k - 1
      <4>1. depth[w[k - 1]] = depth[n] + (k - 1) - 1 /\ depth[w[k]] = depth[w[k - 1]] + 1
        BY <3>2, <3>3
      <4>2. k \in Int /\ depth[n] \in Int
        BY <1>2, <2>1
      <4> HIDE DEF Good, Bad
      <4> QED
        BY <4>1, <4>2
    <3> QED
      BY <2>1, <3>5, <3>6
  <2> QED
    BY <2>2, <2>3
<1>5. \A k \in 1 .. l : Good(k)
  BY <1>4
<1>6. /\ Begins(word[n], word[PathEnd(n)]) /\ depth[PathEnd(n)] = depth[n] + l
      /\ ~ Begins(word[PathEnd(n)], word[n])
  <2>1. l \in 1 .. l /\ w[l] \in Nodes
    BY <1>1
  <2>2. Good(l) /\ Begins(word[w[l]], word[PathEnd(n)]) /\ depth[PathEnd(n)] = depth[w[l]] + 1
    BY <1>1, <1>3, <1>5, <2>1
  <2>3. Begins(word[n], word[PathEnd(n)])
    BY <1>1, <1>2, <2>1, <2>2, BeginsOrder
  <2>4. depth[PathEnd(n)] = depth[n] + l
    BY <1>2, <2>1, <2>2
  <2>5. ~ Begins(word[PathEnd(n)], word[n])
    <3>1. Len(word[PathEnd(n)]) = Len(word[n]) + l /\ Len(word[n]) \in Nat
      BY <1>1, <1>2, <2>4
    <3> QED
      BY <1>1, <3>1 DEF Begins
  <2> QED
    BY <2>3, <2>4, <2>5
<1>7. ASSUME NEW k \in 1 .. l, k # 1 PROVE w[k] # n /\ Interior(w[k])
  <2>1. k - 1 \in 1 .. l /\ k - 1 \in 1 .. l - 1 /\ (k - 1) + 1 = k
    BY <1>7
  <2>2. w[k] = Child(w[k - 1]) /\ w[k] # Root /\ ~ EndsPath(w[k]) /\ w[k] \in Nodes
    BY <1>1, <2>1
  <2>3. w[k - 1] \in Nodes /\ numGotos(w[k - 1]) = 1
    BY <1>1, <2>1
  <2>4. w[k] = gotos[w[k - 1]][Only(w[k - 1])] /\ Only(w[k - 1]) \in Char
    BY <2>2, <2>3, OnlyChild
  <2>5. depth[w[k]] = depth[n] + k - 1
    BY <1>5
  <2>6. depth[w[k]] # depth[n]
    BY <1>2, <1>7, <2>5
  <2> QED
    BY <2>2, <2>3, <2>4, <2>6 DEF Interior
<1>8. /\ EndsInLeaf(n) => IsLeaf(PathEnd(n)) /\ Interior(PathEnd(n))
      /\ ~ EndsInLeaf(n) => ~ IsLeaf(PathEnd(n)) /\ ~ Interior(PathEnd(n))
  <2>1. l \in 1 .. l /\ w[l] \in Nodes /\ numGotos(w[l]) = 1
    BY <1>1
  <2>2. PathEnd(n) = gotos[w[l]][Only(w[l])] /\ Only(w[l]) \in Char
    BY <1>1, <2>1, OnlyChild
  <2>3. EndsPath(PathEnd(n)) => ~ IsLeaf(PathEnd(n))
    BY <1>1, PathNodes
  <2> QED
    BY <1>1, <2>1, <2>2, <2>3 DEF EndsInLeaf, Interior
<1>9. ASSUME NEW m \in Nodes, Begins(word[n], word[m]), \A k \in 1 .. l : m # w[k]
      PROVE  Begins(word[PathEnd(n)], word[m])
  <2> DEFINE Off == {k \in 1 .. l : ~ Begins(word[w[k]], word[m])}
  <2>1. Off = {}
    <3> SUFFICES ASSUME Off # {} PROVE FALSE
      OBVIOUS
    <3>1. PICK k \in Off : \A j \in Off : k <= j
      <4>1. Off \subseteq Nat
        OBVIOUS
      <4> HIDE DEF Off
      <4> QED
        BY <4>1, LeastElement
    <3>2. k # 1
      BY <1>1, <1>9, <3>1
    <3>3. k - 1 \in 1 .. l /\ k - 1 \in 1 .. l - 1 /\ (k - 1) + 1 = k /\ k - 1 \notin Off
      BY <3>1, <3>2
    <3>4. Begins(word[w[k - 1]], word[m]) /\ w[k] = Child(w[k - 1]) /\ m # w[k - 1]
          /\ w[k - 1] \in Nodes /\ numGotos(w[k - 1]) = 1
      BY <1>1, <1>9, <3>3
    <3>5. PICK c \in Chars(w[k - 1]) : Begins(Append(word[w[k - 1]], c), word[m])
      BY <3>4, BelowNode DEF Built
    <3>6. Append(word[w[k - 1]], c) = word[w[k]]
      BY <3>4, <3>5, OnlyChild
    <3> QED
      BY <3>1, <3>5, <3>6
  <2>2. l \in 1 .. l /\ Begins(word[w[l]], word[m]) /\ m # w[l] /\ w[l] \in Nodes /\ numGotos(w[l]) = 1
    BY <1>1, <1>9, <2>1
  <2>3. PICK c \in Chars(w[l]) : Begins(Append(word[w[l]], c), word[m])
    BY <2>2, BelowNode DEF Built
  <2> QED
    BY ZenonT(30), <1>1, <2>2, <2>3, OnlyChild
<1> QED
  BY <1>5, <1>6, <1>7, <1>8, <1>9 DEF PathCover, w


-----------------------------------------------------------------------------
(* Breadth first.                                                          *)

\* m is below a node of q.
OpenIn(q, m) == \E i \in DOMAIN q : Begins(word[q[i]], word[m])

\* n is in q.
Queued(q, n) == \E i \in DOMAIN q : q[i] = n

\* No node of q is below another.
Apart(q) == \A i, j \in DOMAIN q : Begins(word[q[i]], word[q[j]]) => i = j

Under(n, m) == Begins(word[n], word[m])

\* The nodes hs take the place of the first of q, which they are below.
Heads(n, hs) ==
    /\ hs \in Seq(Nodes) /\ Apart(hs)
    /\ \A i \in DOMAIN hs : Under(n, hs[i]) /\ ~ Under(hs[i], n)

\* What is open is then what was, but for the nodes below n that are not below
\* one of hs.
Replaced(q, n, hs, r) ==
    /\ r \in Seq(Nodes) /\ Apart(r)
    /\ \A m \in Nodes : OpenIn(r, m) <=> (OpenIn(q, m) /\ ~ Under(n, m)) \/ OpenIn(hs, m)
    /\ \A m \in Nodes : OpenIn(hs, m) => Under(n, m) /\ m # n
    /\ \A m \in Nodes : Under(n, m) => OpenIn(q, m)
    /\ \A i \in DOMAIN r : (\E j \in DOMAIN q : r[i] = q[j] /\ r[i] # n) \/ \E j \in DOMAIN hs : r[i] = hs[j]
    /\ \A i \in DOMAIN hs : \E j \in DOMAIN r : r[j] = hs[i]
    /\ \A i \in DOMAIN q : q[i] = n \/ \E j \in DOMAIN r : r[j] = q[i]

\* The elements of two sequences one behind the other.
LEMMA OneBehindTheOther ==
    ASSUME NEW S, NEW u \in Seq(S), NEW v \in Seq(S)
    PROVE  /\ u \o v \in Seq(S) /\ Len(u \o v) = Len(u) + Len(v)
           /\ \A i \in 1 .. Len(u) : (u \o v)[i] = u[i]
           /\ \A i \in 1 .. Len(v) : (u \o v)[Len(u) + i] = v[i]
<1>1. u \o v \in Seq(S) /\ Len(u \o v) = Len(u) + Len(v)
  OBVIOUS
<1>2. ASSUME NEW i \in 1 .. Len(u) PROVE (u \o v)[i] = u[i]
  OBVIOUS
<1>3. ASSUME NEW i \in 1 .. Len(v) PROVE (u \o v)[Len(u) + i] = v[i]
  OBVIOUS
<1> QED
  BY <1>1, <1>2, <1>3

LEMMA HeadIsReplaced ==
    ASSUME Built, NEW q \in Seq(Nodes), q # <<>>, Apart(q), NEW n, n = Head(q), NEW hs, Heads(n, hs)
    PROVE  Replaced(q, n, hs, Tail(q) \o hs) /\ n \in Nodes
<1> DEFINE a == Len(q) - 1
           b == Len(hs)
           r == Tail(q) \o hs
<1>1. /\ a \in Nat /\ b \in Nat /\ DOMAIN q = 1 .. a + 1 /\ DOMAIN hs = 1 .. b /\ n \in Nodes /\ n = q[1]
      /\ \A i \in 1 .. a + 1 : q[i] \in Nodes
      /\ \A i \in 1 .. b : hs[i] \in Nodes
  BY DEF Heads
<1>2. /\ Tail(q) \in Seq(Nodes) /\ Len(Tail(q)) = a /\ \A i \in 1 .. a : Tail(q)[i] = q[i + 1]
  BY <1>1
<1>3. hs \in Seq(Nodes)
  BY DEF Heads
<1>4. /\ r \in Seq(Nodes) /\ DOMAIN r = 1 .. a + b
      /\ \A i \in 1 .. a : r[i] = q[i + 1]
      /\ \A i \in 1 .. b : r[a + i] = hs[i]
  <2> HIDE DEF a
  <2>1. /\ r \in Seq(Nodes) /\ Len(r) = a + b
        /\ \A i \in 1 .. a : r[i] = Tail(q)[i]
        /\ \A i \in 1 .. b : r[a + i] = hs[i]
    BY <1>2, <1>3, OneBehindTheOther
  <2> HIDE DEF b, r
  <2>2. r \in Seq(Nodes) /\ DOMAIN r = 1 .. a + b
    BY <2>1
  <2>3. \A i \in 1 .. a : r[i] = q[i + 1]
    BY <2>1, <1>2
  <2> QED
    BY <2>1, <2>2, <2>3
<1>5. \A x \in Nodes : word[x] \in Seq(Char)
  BY TypeFacts DEF Built
<1> DEFINE J == 1 .. a
           H == 1 .. b
<1>6. /\ \A i \in J : i + 1 \in DOMAIN q /\ i + 1 # 1 /\ i \in DOMAIN r /\ r[i] = q[i + 1] /\ r[i] \in Nodes
      /\ \A i \in H : i \in DOMAIN hs /\ a + i \in DOMAIN r /\ r[a + i] = hs[i] /\ hs[i] \in Nodes
      /\ 1 \in DOMAIN q
      /\ \A i \in DOMAIN q : i # 1 => i - 1 \in J /\ r[i - 1] = q[i]
      /\ \A i \in DOMAIN r : i \in J \/ (i - a \in H /\ r[i] = hs[i - a])
  <2> HIDE DEF a, b, r
  <2>1. \A i \in J : i + 1 \in DOMAIN q /\ i + 1 # 1 /\ i \in DOMAIN r /\ r[i] = q[i + 1] /\ r[i] \in Nodes
    BY <1>1, <1>4
  <2>2. \A i \in H : i \in DOMAIN hs /\ a + i \in DOMAIN r /\ r[a + i] = hs[i] /\ hs[i] \in Nodes
    BY <1>1, <1>4
  <2>3. \A i \in DOMAIN q : i # 1 => i - 1 \in J /\ r[i - 1] = q[i]
    <3> SUFFICES ASSUME NEW i \in DOMAIN q, i # 1 PROVE i - 1 \in J /\ r[i - 1] = q[i]
      OBVIOUS
    <3>1. i - 1 \in 1 .. a /\ (i - 1) + 1 = i
      BY <1>1
    <3> QED
      BY <1>4, <3>1
  <2>4. \A i \in DOMAIN r : i \in J \/ (i - a \in H /\ r[i] = hs[i - a])
    <3> SUFFICES ASSUME NEW i \in DOMAIN r, i \notin J PROVE i - a \in H /\ r[i] = hs[i - a]
      OBVIOUS
    <3>1. i - a \in 1 .. b /\ a + (i - a) = i
      BY <1>1, <1>4
    <3> QED
      BY <1>4, <3>1
  <2>5. 1 \in DOMAIN q
    BY <1>1
  <2> QED
    BY <2>1, <2>2, <2>3, <2>4, <2>5
<1> HIDE DEF J, H, r
<1>7. \A x, y, z \in Nodes : Under(x, z) /\ Under(y, z) => Under(x, y) \/ Under(y, x)
  BY <1>5, BeginsOrder DEF Under
<1>8. \A x, y, z \in Nodes : Under(x, y) /\ Under(y, z) => Under(x, z)
  BY <1>5, BeginsOrder DEF Under
<1>9. \A x \in Nodes : Under(x, x)
  BY <1>5, BeginsOrder DEF Under
<1>10. \A i, j \in DOMAIN q : Under(q[i], q[j]) => i = j
  BY DEF Apart, Under
<1>11. \A i, j \in DOMAIN hs : Under(hs[i], hs[j]) => i = j
  BY DEF Heads, Apart, Under
<1>12. \A i \in DOMAIN hs : Under(n, hs[i]) /\ ~ Under(hs[i], n)
  BY DEF Heads
<1>13. \A i \in J, m \in Nodes : Under(r[i], m) => ~ Under(n, m)
  <2> SUFFICES ASSUME NEW i \in J, NEW m \in Nodes, Under(r[i], m), Under(n, m) PROVE FALSE
    OBVIOUS
  <2>1. Under(r[i], n) \/ Under(n, r[i])
    BY <1>1, <1>6, <1>7
  <2> QED
    BY <2>1, <1>1, <1>6, <1>10
<1>14. Apart(r)
  <2> SUFFICES ASSUME NEW i \in DOMAIN r, NEW j \in DOMAIN r, Under(r[i], r[j]) PROVE i = j
    BY DEF Apart, Under
  <2>1. CASE i \in J /\ j \in J
    <3>1. i + 1 = j + 1
      BY <2>1, <1>6, <1>10
    <3> QED
      BY <2>1, <3>1 DEF J
  <2>2. CASE i \in J /\ j \notin J
    <3>1. j - a \in H /\ r[j] = hs[j - a]
      BY <2>2, <1>6
    <3>2. Under(n, r[j]) /\ r[j] \in Nodes
      BY <3>1, <1>6, <1>12
    <3> QED
      BY <3>2, <2>2, <1>13
  <2>3. CASE i \notin J /\ j \in J
    <3>1. i - a \in H /\ r[i] = hs[i - a]
      BY <2>3, <1>6
    <3>2. Under(n, r[i]) /\ r[i] \in Nodes /\ r[j] \in Nodes
      BY <3>1, <2>3, <1>6, <1>12
    <3>3. Under(n, r[j]) /\ Under(r[j], r[j])
      BY <3>2, <1>1, <1>8, <1>9
    <3> QED
      BY <3>2, <3>3, <2>3, <1>13
  <2>4. CASE i \notin J /\ j \notin J
    <3>1. i - a \in H /\ j - a \in H /\ r[i] = hs[i - a] /\ r[j] = hs[j - a]
      BY <2>4, <1>6
    <3>2. i - a = j - a
      BY <3>1, <1>6, <1>11
    <3> QED
      BY <3>2, <1>1, <1>4
  <2> QED
    BY <2>1, <2>2, <2>3, <2>4
<1>15. \A m \in Nodes : OpenIn(hs, m) => Under(n, m) /\ m # n
  <2> SUFFICES ASSUME NEW m \in Nodes, NEW i \in DOMAIN hs, Under(hs[i], m) PROVE Under(n, m) /\ m # n
    BY DEF OpenIn, Under
  <2>1. hs[i] \in Nodes
    BY <1>1
  <2> QED
    BY <2>1, <1>1, <1>8, <1>12
<1>16. \A m \in Nodes : Under(n, m) => OpenIn(q, m)
  BY <1>1, <1>6 DEF OpenIn, Under
<1>17. \A m \in Nodes : OpenIn(r, m) <=> (OpenIn(q, m) /\ ~ Under(n, m)) \/ OpenIn(hs, m)
  <2> SUFFICES ASSUME NEW m \in Nodes
               PROVE  OpenIn(r, m) <=> (OpenIn(q, m) /\ ~ Under(n, m)) \/ OpenIn(hs, m)
    OBVIOUS
  <2>1. ASSUME NEW i \in DOMAIN r, Under(r[i], m) PROVE (OpenIn(q, m) /\ ~ Under(n, m)) \/ OpenIn(hs, m)
    <3>1. CASE i \in J
      <4>1. ~ Under(n, m)
        BY <2>1, <3>1, <1>13
      <4>2. OpenIn(q, m)
        BY <2>1, <3>1, <1>6 DEF OpenIn, Under
      <4> QED
        BY <4>1, <4>2
    <3>2. CASE i \notin J
      <4>1. i - a \in DOMAIN hs /\ r[i] = hs[i - a]
        BY <3>2, <1>6
      <4> QED
        BY <4>1, <2>1 DEF OpenIn, Under
    <3> QED
      BY <3>1, <3>2
  <2>2. ASSUME NEW i \in DOMAIN q, Under(q[i], m), ~ Under(n, m) PROVE OpenIn(r, m)
    <3>1. i # 1
      BY <2>2, <1>1
    <3>2. i - 1 \in DOMAIN r /\ r[i - 1] = q[i]
      BY <3>1, <1>6
    <3> QED
      BY <3>2, <2>2 DEF OpenIn, Under
  <2>3. ASSUME NEW i \in DOMAIN hs, Under(hs[i], m) PROVE OpenIn(r, m)
    <3>1. a + i \in DOMAIN r /\ r[a + i] = hs[i]
      BY <1>1, <1>6 DEF H
    <3> QED
      BY <3>1, <2>3 DEF OpenIn, Under
  <2> QED
    BY <2>1, <2>2, <2>3 DEF OpenIn, Under
<1>18. \A i \in DOMAIN r : (\E j \in DOMAIN q : r[i] = q[j] /\ r[i] # n) \/ \E j \in DOMAIN hs : r[i] = hs[j]
  <2> SUFFICES ASSUME NEW i \in DOMAIN r
               PROVE  (\E j \in DOMAIN q : r[i] = q[j] /\ r[i] # n) \/ \E j \in DOMAIN hs : r[i] = hs[j]
    OBVIOUS
  <2>1. CASE i \in J
    <3>1. i + 1 \in DOMAIN q /\ i + 1 # 1 /\ r[i] = q[i + 1] /\ r[i] \in Nodes
      BY <2>1, <1>6
    <3>2. r[i] # n
      BY <3>1, <1>1, <1>6, <1>9, <1>10
    <3> QED
      BY <3>1, <3>2
  <2>2. CASE i \notin J
    BY <2>2, <1>6
  <2> QED
    BY <2>1, <2>2
<1>19. \A i \in DOMAIN hs : \E j \in DOMAIN r : r[j] = hs[i]
  BY <1>1, <1>6 DEF H
<1>20. \A i \in DOMAIN q : q[i] = n \/ \E j \in DOMAIN r : r[j] = q[i]
  BY <1>1, <1>6
<1>21. r \in Seq(Nodes)
  BY <1>4
<1>22. Replaced(q, n, hs, r)
  BY <1>14, <1>15, <1>16, <1>17, <1>18, <1>19, <1>20, <1>21 DEF Replaced
<1> QED
  BY <1>1, <1>22 DEF r

-----------------------------------------------------------------------------
(* generateStates numbers the nodes.                                       *)

\* What is done with a node: it has a state of its own, or is marked as a leaf
\* or as a node inside of a path.
Numbered(n, ids, nt) ==
    IF StateNode(n) THEN ids[n] \in DOMAIN nt /\ nt[ids[n]] = n
    ELSE ids[n] = IF n = Root THEN 0 ELSE IF Interior(n) THEN -2 ELSE -1

\* q, ids and nt are pending, nodeId and nodeTable; k states are made.
TreeGen(q, ids, nt, k) ==
    /\ k \in Nat /\ DOMAIN nt = 0 .. k - 1 /\ ids \in [Nodes -> Int]
    /\ q \in Seq(Nodes) /\ Apart(q)
    /\ \A i \in DOMAIN q : ~ Interior(q[i]) /\ (q[i] # Root => ids[q[i]] = -1)
    /\ \A n \in Nodes : ids[n] = 0 <=> n = Root
    /\ \A n \in Nodes : OpenIn(q, n) \/ Numbered(n, ids, nt)
    /\ \A id \in DOMAIN nt : StateNode(nt[id]) /\ ~ OpenIn(q, nt[id]) /\ ids[nt[id]] = id
    /\ OpenIn(q, Root) => k = 0

\* A table with another entry.
LEMMA EntryIsAdded ==
    ASSUME NEW f, NEW k \in Nat, DOMAIN f = 0 .. k - 1, NEW v, NEW g, g = Put(f, k, v)
    PROVE  /\ DOMAIN g = 0 .. k /\ g[k] = v /\ \A i \in 0 .. k - 1 : g[i] = f[i]
           /\ DOMAIN g = 0 .. (k + 1) - 1 /\ \A i \in DOMAIN g : i = k \/ i \in DOMAIN f
<1>1. g = [x \in (0 .. k - 1) \cup {k} |-> IF x \in 0 .. k - 1 THEN f[x] ELSE v]
  BY DEF Put
<1>2. (0 .. k - 1) \cup {k} = 0 .. k /\ k \notin 0 .. k - 1 /\ (k + 1) - 1 = k
  OBVIOUS
<1> QED
  BY <1>1, <1>2

\* A state for the first node of the queue.
LEMMA StateIsNumbered ==
    ASSUME Built, NEW q, NEW ids, NEW nt, NEW k, TreeGen(q, ids, nt, k),
           q # <<>>, NEW n, n = Head(q), ~ IsLeaf(n), NEW hs, Heads(n, hs),
           NEW jds \in [Nodes -> Int], jds[n] = k,
           \A i \in DOMAIN hs : ~ Interior(hs[i]) /\ jds[hs[i]] = -1,
           \A m \in Nodes : ~ Under(n, m) => jds[m] = ids[m],
           \A m \in Nodes : Under(n, m) /\ m # n => jds[m] = ids[m] \/ jds[m] \in {-1, -2},
           \A m \in Nodes : Under(n, m) /\ m # n /\ ~ OpenIn(hs, m) =>
              Interior(m) /\ jds[m] = -2,
           NEW nu, nu = Put(nt, k, n)
    PROVE  TreeGen(Tail(q) \o hs, jds, nu, k + 1)
<1> DEFINE r == Tail(q) \o hs
<1>1. /\ q \in Seq(Nodes) /\ Apart(q) /\ k \in Nat /\ DOMAIN nt = 0 .. k - 1 /\ ids \in [Nodes -> Int]
      /\ \A i \in DOMAIN q : ~ Interior(q[i]) /\ (q[i] # Root => ids[q[i]] = -1)
      /\ \A m \in Nodes : ids[m] = 0 <=> m = Root
      /\ \A m \in Nodes : OpenIn(q, m) \/ Numbered(m, ids, nt)
      /\ \A id \in DOMAIN nt : StateNode(nt[id]) /\ ~ OpenIn(q, nt[id]) /\ ids[nt[id]] = id
      /\ OpenIn(q, Root) => k = 0
  BY DEF TreeGen
<1>2. Replaced(q, n, hs, r) /\ n \in Nodes
  BY <1>1, HeadIsReplaced
<1> HIDE DEF r
<1>3. /\ r \in Seq(Nodes) /\ Apart(r)
      /\ \A m \in Nodes : OpenIn(r, m) <=> (OpenIn(q, m) /\ ~ Under(n, m)) \/ OpenIn(hs, m)
      /\ \A m \in Nodes : OpenIn(hs, m) => Under(n, m) /\ m # n
      /\ \A m \in Nodes : Under(n, m) => OpenIn(q, m)
      /\ \A i \in DOMAIN r : (\E j \in DOMAIN q : r[i] = q[j] /\ r[i] # n) \/ \E j \in DOMAIN hs : r[i] = hs[j]
  BY <1>2 DEF Replaced
<1>4. 1 \in DOMAIN q /\ q[1] = n
  BY <1>1
<1>5. StateNode(n)
  BY <1>1, <1>2, <1>4 DEF StateNode
<1>6. \A x \in Nodes : word[x] \in Seq(Char)
  BY TypeFacts DEF Built
<1>7. Root \in Nodes /\ \A m \in Nodes : Under(Root, m)
  BY RootFacts DEF Built, Under
<1>8. Under(n, n)
  BY <1>2, <1>6, BeginsOrder DEF Under
<1>9. /\ DOMAIN nu = 0 .. (k + 1) - 1 /\ nu[k] = n /\ \A i \in DOMAIN nt : nu[i] = nt[i]
      /\ \A i \in DOMAIN nu : i = k \/ i \in DOMAIN nt
      /\ k \in DOMAIN nu /\ \A i \in DOMAIN nt : i \in DOMAIN nu
  <2>1. /\ DOMAIN nu = 0 .. (k + 1) - 1 /\ nu[k] = n /\ \A i \in 0 .. k - 1 : nu[i] = nt[i]
        /\ \A i \in DOMAIN nu : i = k \/ i \in DOMAIN nt
    BY <1>1, EntryIsAdded
  <2>2. k \in 0 .. (k + 1) - 1 /\ \A i \in 0 .. k - 1 : i \in 0 .. (k + 1) - 1
    BY <1>1
  <2> QED
    BY <2>1, <2>2, <1>1
<1>10. \A m \in Nodes : OpenIn(r, m) \/ Numbered(m, jds, nu)
  <2> SUFFICES ASSUME NEW m \in Nodes, ~ OpenIn(r, m) PROVE Numbered(m, jds, nu)
    OBVIOUS
  <2>1. CASE m = n
    BY <2>1, <1>5, <1>9 DEF Numbered
  <2>2. CASE Under(n, m) /\ m # n
    <3>1. Interior(m) /\ jds[m] = -2
      BY <2>2, <1>3
    <3> QED
      BY <3>1 DEF Numbered, StateNode, Interior
  <2>3. CASE ~ Under(n, m)
    <3>1. ~ OpenIn(q, m) /\ jds[m] = ids[m]
      BY <2>3, <1>3
    <3>2. Numbered(m, ids, nt)
      BY <3>1, <1>1
    <3> QED
      BY <3>1, <3>2, <1>9 DEF Numbered
  <2> QED
    BY <2>1, <2>2, <2>3
<1>11. \A i \in DOMAIN r : ~ Interior(r[i]) /\ (r[i] # Root => jds[r[i]] = -1)
  <2> SUFFICES ASSUME NEW i \in DOMAIN r PROVE ~ Interior(r[i]) /\ (r[i] # Root => jds[r[i]] = -1)
    OBVIOUS
  <2>1. CASE \E j \in DOMAIN hs : r[i] = hs[j]
    BY <2>1
  <2>2. CASE \E j \in DOMAIN q : r[i] = q[j] /\ r[i] # n
    <3>1. r[i] \in Nodes
      BY <1>3
    <3>2. ~ Interior(r[i]) /\ (r[i] # Root => ids[r[i]] = -1)
      BY <2>2, <1>1
    <3>3. ~ Under(n, r[i])
      BY <2>2, <1>1, <1>4 DEF Apart, Under
    <3> QED
      BY <3>1, <3>2, <3>3
  <2> QED
    BY <2>1, <2>2, <1>3
<1>12. k = 0 <=> n = Root
  <2>1. ASSUME n = Root PROVE k = 0
    BY <2>1, <1>1, <1>2, <1>3, <1>8
  <2>2. ASSUME n # Root PROVE k # 0
    <3>1. ~ OpenIn(q, Root)
      <4> SUFFICES ASSUME NEW i \in DOMAIN q, Under(q[i], Root) PROVE FALSE
        BY DEF OpenIn, Under
      <4>1. Under(Root, n) /\ q[i] \in Nodes /\ word[Root] = <<>>
        BY <1>1, <1>2, <1>7, RootFacts DEF Built
      <4>2. word[q[i]] \in Seq(Char) /\ Len(word[q[i]]) = 0
        BY <4>1, <1>6 DEF Under, Begins
      <4>3. Under(q[i], n)
        BY <4>2 DEF Under, Begins
      <4>4. q[i] = n
        BY <4>3, <1>1, <1>4 DEF Apart, Under
      <4>5. word[n] = word[Root]
        BY <4>1, <4>2, <4>4
      <4> QED
        BY <4>5, <2>2, <1>2, <1>7 DEF Built, TreeInv
    <3>2. ~ IsLeaf(Root)
      <4>1. Begins(word[Root], word[n])
        BY <1>2, <1>7 DEF Under
      <4>2. \E x \in Chars(Root) : Begins(Append(word[Root], x), word[n])
        BY <4>1, <2>2, <1>2, <1>7, BelowNode DEF Built
      <4> QED
        BY <4>2 DEF IsLeaf
    <3>3. StateNode(Root) /\ Numbered(Root, ids, nt)
      BY <3>1, <3>2, <1>1, <1>7 DEF StateNode, Interior
    <3> QED
      BY <3>3, <1>1 DEF Numbered
  <2> QED
    BY <2>1, <2>2
<1>13. \A m \in Nodes : jds[m] = 0 <=> m = Root
  <2> SUFFICES ASSUME NEW m \in Nodes PROVE jds[m] = 0 <=> m = Root
    OBVIOUS
  <2>1. CASE m = n
    BY <2>1, <1>12
  <2>2. CASE Under(n, m) /\ m # n
    <3>1. m # Root
      <4> SUFFICES ASSUME m = Root PROVE FALSE
        OBVIOUS
      <4>1. Under(n, Root) /\ Under(Root, n) /\ word[Root] \in Seq(Char) /\ word[n] \in Seq(Char)
        BY <2>2, <1>2, <1>6, <1>7
      <4>2. Begins(word[n], word[Root]) /\ Len(word[n]) = Len(word[Root])
        BY <4>1 DEF Under, Begins
      <4>3. word[n] = word[Root]
        BY <4>1, <4>2, BeginsOrder
      <4> QED
        BY <4>3, <2>2, <1>2, <1>7 DEF Built, TreeInv
    <3>2. ids[m] # 0
      BY <3>1, <1>1
    <3>3. jds[m] = ids[m] \/ jds[m] \in {-1, -2}
      BY <2>2
    <3> QED
      BY <3>1, <3>2, <3>3
  <2>3. CASE ~ Under(n, m)
    BY <2>3, <1>1
  <2> QED
    BY <2>1, <2>2, <2>3
<1>14. \A id \in DOMAIN nu : StateNode(nu[id]) /\ ~ OpenIn(r, nu[id]) /\ jds[nu[id]] = id
  <2> SUFFICES ASSUME NEW id \in DOMAIN nu
               PROVE  StateNode(nu[id]) /\ ~ OpenIn(r, nu[id]) /\ jds[nu[id]] = id
    OBVIOUS
  <2>1. CASE id = k
    BY <2>1, <1>2, <1>3, <1>5, <1>8, <1>9
  <2>2. CASE id \in DOMAIN nt
    <3>1. nu[id] = nt[id] /\ StateNode(nt[id]) /\ ~ OpenIn(q, nt[id]) /\ ids[nt[id]] = id
      BY <2>2, <1>1, <1>9
    <3>2. nt[id] \in Nodes
      BY <3>1 DEF StateNode
    <3>3. ~ Under(n, nt[id]) /\ ~ OpenIn(r, nt[id])
      BY <3>1, <3>2, <1>3
    <3> QED
      BY <3>1, <3>2, <3>3
  <2> QED
    BY <2>1, <2>2, <1>9
<1>15. ~ OpenIn(r, Root)
  <2> SUFFICES ASSUME OpenIn(r, Root) PROVE FALSE
    OBVIOUS
  <2>1. Under(n, Root) => n = Root
    <3> SUFFICES ASSUME Under(n, Root) PROVE n = Root
      OBVIOUS
    <3>1. Under(Root, n) /\ word[Root] \in Seq(Char) /\ word[n] \in Seq(Char)
      BY <1>2, <1>6, <1>7
    <3>2. Begins(word[n], word[Root]) /\ Len(word[n]) = Len(word[Root])
      BY <3>1 DEF Under, Begins
    <3>3. word[n] = word[Root]
      BY <3>1, <3>2, BeginsOrder
    <3> QED
      BY <3>3, <1>2, <1>7 DEF Built, TreeInv
  <2>2. OpenIn(q, Root)
    BY <1>3, <1>7
  <2>3. n = Root
    BY <2>2, <1>1, <1>12
  <2> QED
    BY <2>3, <1>3, <1>7
<1>16. k + 1 \in Nat
  BY <1>1
<1>17. TreeGen(r, jds, nu, k + 1)
  BY <1>3, <1>9, <1>10, <1>11, <1>13, <1>14, <1>15, <1>16 DEF TreeGen
<1> QED
  BY <1>17 DEF r

\* A leaf of the queue keeps its mark.
LEMMA LeafIsSkipped ==
    ASSUME Built, NEW q, NEW ids, NEW nt, NEW k, TreeGen(q, ids, nt, k),
           q # <<>>, NEW n, n = Head(q), IsLeaf(n)
    PROVE  TreeGen(Tail(q), ids, nt, k)
<1> DEFINE r == Tail(q)
<1>1. /\ q \in Seq(Nodes) /\ Apart(q) /\ k \in Nat /\ DOMAIN nt = 0 .. k - 1 /\ ids \in [Nodes -> Int]
      /\ \A i \in DOMAIN q : ~ Interior(q[i]) /\ (q[i] # Root => ids[q[i]] = -1)
      /\ \A m \in Nodes : ids[m] = 0 <=> m = Root
      /\ \A m \in Nodes : OpenIn(q, m) \/ Numbered(m, ids, nt)
      /\ \A id \in DOMAIN nt : StateNode(nt[id]) /\ ~ OpenIn(q, nt[id]) /\ ids[nt[id]] = id
      /\ OpenIn(q, Root) => k = 0
  BY DEF TreeGen
<1>2. Heads(n, <<>>)
  BY DEF Heads, Apart
<1>3. Tail(q) \o <<>> = r
  <2>1. Tail(q) \in Seq(Nodes)
    BY <1>1
  <2> QED
    BY <2>1
<1>4. Replaced(q, n, <<>>, r) /\ n \in Nodes
  BY <1>1, <1>2, <1>3, HeadIsReplaced
<1> HIDE DEF r
<1>5. /\ r \in Seq(Nodes) /\ Apart(r)
      /\ \A m \in Nodes : OpenIn(r, m) <=> (OpenIn(q, m) /\ ~ Under(n, m)) \/ OpenIn(<<>>, m)
      /\ \A m \in Nodes : Under(n, m) => OpenIn(q, m)
      /\ \A i \in DOMAIN r : (\E j \in DOMAIN q : r[i] = q[j] /\ r[i] # n) \/ \E j \in DOMAIN <<>> : r[i] = <<>>[j]
  BY <1>4 DEF Replaced
<1>6. \A m \in Nodes : ~ OpenIn(<<>>, m)
  BY DEF OpenIn
<1>7. \A m \in Nodes : Under(n, m) => m = n
  <2> SUFFICES ASSUME NEW m \in Nodes, Under(n, m), m # n PROVE FALSE
    OBVIOUS
  <2>1. \E x \in Chars(n) : Begins(Append(word[n], x), word[m])
    BY <1>4, BelowNode DEF Built, Under
  <2> QED
    BY <2>1 DEF IsLeaf
<1>8. \A m \in Nodes : OpenIn(r, m) \/ Numbered(m, ids, nt)
  <2> SUFFICES ASSUME NEW m \in Nodes, ~ OpenIn(r, m) PROVE Numbered(m, ids, nt)
    OBVIOUS
  <2>1. CASE m = n
    <3>1. ids[m] = IF m = Root THEN 0 ELSE -1
      <4>1. 1 \in DOMAIN q /\ q[1] = n
        BY <1>1
      <4> QED
        BY <2>1, <4>1, <1>1
    <3>2. ~ Interior(m)
      <4>1. 1 \in DOMAIN q /\ q[1] = n
        BY <1>1
      <4> QED
        BY <2>1, <4>1, <1>1
    <3> QED
      BY <2>1, <3>1, <3>2 DEF Numbered, StateNode
  <2>2. CASE m # n
    BY <2>2, <1>1, <1>5, <1>7
  <2> QED
    BY <2>1, <2>2
<1>9. \A i \in DOMAIN r : ~ Interior(r[i]) /\ (r[i] # Root => ids[r[i]] = -1)
  BY <1>1, <1>5
<1>10. \A id \in DOMAIN nt : ~ OpenIn(r, nt[id])
  BY <1>1, <1>5, <1>6 DEF StateNode
<1>11. OpenIn(r, Root) => k = 0
  BY <1>1, <1>5, <1>6, RootFacts DEF Built
<1>12. TreeGen(r, ids, nt, k)
  BY <1>1, <1>5, <1>8, <1>9, <1>10, <1>11 DEF TreeGen
<1> QED
  BY <1>12 DEF r

-----------------------------------------------------------------------------
(* What takes the place of a node in the queue, and the keys.              *)

\* A node has one parent.
LEMMA ParentIs ==
    ASSUME Built, NEW n \in Nodes, NEW c \in Chars(n), NEW p \in Nodes, NEW d \in Char,
           gotos[p][d] = gotos[n][c]
    PROVE  p = n /\ d = c
<1>1. c \in Char /\ gotos[n][c] \in Nodes /\ gotos[n][c] # NoNode /\ word[gotos[n][c]] = Append(word[n], c)
  BY ChildFacts DEF Built
<1>2. d \in Chars(p)
  BY <1>1 DEF Chars
<1>3. word[gotos[n][c]] = Append(word[p], d)
  BY <1>2, ChildFacts DEF Built
<1>4. word[n] \in Seq(Char) /\ word[p] \in Seq(Char)
  BY TypeFacts DEF Built
<1>5. word[p] = word[n] /\ d = c
  <2>1. Append(word[p], d) = Append(word[n], c) /\ d \in Char /\ c \in Char
    BY <1>1, <1>3
  <2> QED
    BY <2>1, <1>4, AppendIsInjective
<1> QED
  BY <1>5 DEF Built, TreeInv

\* Children of a node are below it, and not below each other.
LEMMA ChildrenAreHeads ==
    ASSUME Built, NEW n \in Nodes, NEW hs \in Seq(Nodes),
           \A i \in DOMAIN hs : \E c \in Chars(n) : hs[i] = gotos[n][c],
           \A i, j \in DOMAIN hs : hs[i] = hs[j] => i = j
    PROVE  Heads(n, hs)
<1>1. \A i \in DOMAIN hs : Under(n, hs[i]) /\ ~ Under(hs[i], n)
  BY BelowChild DEF Under
<1>2. Apart(hs)
  <2> SUFFICES ASSUME NEW i \in DOMAIN hs, NEW j \in DOMAIN hs, Begins(word[hs[i]], word[hs[j]]) PROVE i = j
    BY DEF Apart
  <2>1. PICK c \in Chars(n) : hs[i] = gotos[n][c]
    OBVIOUS
  <2>2. PICK d \in Chars(n) : hs[j] = gotos[n][d]
    OBVIOUS
  <2>3. word[hs[i]] = Append(word[n], c) /\ c \in Char
    BY <2>1, ChildFacts DEF Built
  <2>4. word[hs[j]] = Append(word[n], d) /\ d \in Char
    BY <2>2, ChildFacts DEF Built
  <2>5. word[n] \in Seq(Char)
    BY TypeFacts DEF Built
  <2>6. Append(word[n], c) \in Seq(Char) /\ Append(word[n], d) \in Seq(Char)
        /\ Len(Append(word[n], c)) = Len(Append(word[n], d))
    BY <2>3, <2>4, <2>5
  <2>7. Append(word[n], c) = Append(word[n], d)
    <3> DEFINE u == Append(word[n], c)
               v == Append(word[n], d)
    <3>1. Begins(u, v) /\ u \in Seq(Char) /\ v \in Seq(Char) /\ Len(u) = Len(v)
      BY <2>3, <2>4, <2>6
    <3> HIDE DEF u, v
    <3>2. u = v
      BY <3>1, BeginsOrder
    <3> QED
      BY <3>2 DEF u, v
  <2>8. word[hs[i]] = word[hs[j]] /\ hs[i] \in Nodes /\ hs[j] \in Nodes
    BY <2>3, <2>4, <2>7
  <2>9. hs[i] = hs[j]
    BY <2>8 DEF Built, TreeInv
  <2> QED
    BY <2>9
<1> QED
  BY <1>1, <1>2 DEF Heads

\* The children of a branch in their order.
ChildrenBelow(n, hs) ==
    /\ Heads(n, hs) /\ Len(hs) = numGotos(n) /\ DOMAIN hs = 1 .. numGotos(n) /\ numGotos(n) \in Nat
    /\ \A i \in DOMAIN hs : hs[i] \in Nodes \ {Root} /\ \E c \in Chars(n) : hs[i] = gotos[n][c]
    /\ \A c \in Chars(n) : \E i \in DOMAIN hs : hs[i] = gotos[n][c]
    /\ \A i, j \in DOMAIN hs : hs[i] = hs[j] => i = j
    /\ \A m \in Nodes : Under(n, m) /\ m # n => OpenIn(hs, m)
    /\ ToSet(hs) = {gotos[n][c] : c \in Chars(n)} /\ ToSet(hs) = {hs[i] : i \in DOMAIN hs}

LEMMA ChildrenOfNode ==
    ASSUME Built, NEW n \in Nodes
    PROVE  ChildrenBelow(n, ChildrenInOrder(n))
<1> DEFINE hs == ChildrenInOrder(n)
<1>1. /\ hs \in Seq(Nodes \ {Root})
      /\ \A i \in DOMAIN hs : \E c \in Char : gotos[n][c] = hs[i]
      /\ \A c \in Chars(n) : \E i \in DOMAIN hs : hs[i] = gotos[n][c]
      /\ \A i, j \in DOMAIN hs : hs[i] = hs[j] => i = j
  BY ChildrenOrder DEF Built
<1>2. DOMAIN hs = 1 .. numGotos(n) /\ numGotos(n) \in Nat
  BY CharsOrder DEF ChildrenInOrder, Built
<1> HIDE DEF hs
<1>3. hs \in Seq(Nodes) /\ Len(hs) = numGotos(n) /\ \A i \in DOMAIN hs : hs[i] \in Nodes \ {Root}
  BY <1>1, <1>2
<1>4. NoNode \notin Nodes
  BY TypeFacts DEF Built
<1>5. \A i \in DOMAIN hs : \E c \in Chars(n) : hs[i] = gotos[n][c]
  BY <1>1, <1>3, <1>4 DEF Chars
<1>6. Heads(n, hs)
  BY <1>1, <1>3, <1>5, ChildrenAreHeads
<1>7. ASSUME NEW m \in Nodes, Under(n, m), m # n PROVE OpenIn(hs, m)
  <2>1. PICK c \in Chars(n) : Begins(Append(word[n], c), word[m])
    BY <1>7, BelowNode DEF Built, Under
  <2>2. word[gotos[n][c]] = Append(word[n], c)
    BY ChildFacts DEF Built
  <2>3. PICK i \in DOMAIN hs : hs[i] = gotos[n][c]
    BY <1>1
  <2> QED
    BY <2>1, <2>2, <2>3 DEF OpenIn
<1>8. ToSet(hs) = {hs[i] : i \in DOMAIN hs}
  BY DEF ToSet
<1>9. ToSet(hs) = {gotos[n][c] : c \in Chars(n)}
  BY <1>1, <1>5, <1>8
<1>10. ChildrenBelow(n, hs)
  BY <1>1, <1>2, <1>3, <1>5, <1>6, <1>7, <1>8, <1>9 DEF ChildrenBelow
<1> QED
  BY <1>10 DEF hs

\* The children of a branch are not inside of a path.
LEMMA BranchChild ==
    ASSUME Built, NEW n \in Nodes, numGotos(n) > 1, NEW c \in Chars(n)
    PROVE  /\ ~ Interior(gotos[n][c]) /\ gotos[n][c] \in Nodes \ {Root}
           /\ StateNode(gotos[n][c]) <=> ~ IsLeaf(gotos[n][c])
<1>1. gotos[n][c] \in Nodes \ {Root}
  BY ChildFacts DEF Built
<1>2. ~ Interior(gotos[n][c])
  <2> SUFFICES ASSUME NEW p \in Nodes, NEW d \in Char, gotos[p][d] = gotos[n][c], numGotos(p) = 1 PROVE FALSE
    BY DEF Interior
  <2>1. p = n
    BY ParentIs
  <2> QED
    BY <2>1
<1> QED
  BY <1>1, <1>2 DEF StateNode

-----------------------------------------------------------------------------
(* The keys of the look-up tables.                                         *)

\* The nodes of depth 1 and 2 have their word for a key, but only below a root
\* with several gotos.
Keyed(n) == RootBranches /\ depth[n] \in {1, 2}

\* q and ks are pending and key.
KeyInv(q, ks) ==
    /\ ks \in [Nodes -> Seq(Char)]
    /\ \A n \in Nodes : ks[n] = <<>> \/ (Keyed(n) /\ ks[n] = word[n])
    /\ \A n \in Nodes : Keyed(n) /\ StateNode(n) /\ (OpenIn(q, n) => Queued(q, n))
                        => ks[n] = word[n]

\* Keys for the nodes that take the place of the first of the queue.
NewKeys(n, hs, ks, js) ==
    /\ js \in [Nodes -> Seq(Char)] /\ \A i \in DOMAIN hs : hs[i] \in Nodes
    /\ \A m \in Nodes : Under(n, m) /\ m # n /\ StateNode(m) => OpenIn(hs, m)
    /\ \A m \in Nodes : ~ Queued(hs, m) => js[m] = ks[m]
    /\ \A i \in DOMAIN hs : js[hs[i]] = <<>> \/ (Keyed(hs[i]) /\ js[hs[i]] = word[hs[i]])
    /\ \A i \in DOMAIN hs : Keyed(hs[i]) /\ StateNode(hs[i]) => js[hs[i]] = word[hs[i]]

LEMMA KeysAreAdded ==
    ASSUME Built, NEW q, NEW ks, KeyInv(q, ks), NEW n \in Nodes, Queued(q, n),
           NEW hs, NEW r, Replaced(q, n, hs, r), NEW js, NewKeys(n, hs, ks, js)
    PROVE  KeyInv(r, js)
<1>0. /\ js \in [Nodes -> Seq(Char)] /\ \A i \in DOMAIN hs : hs[i] \in Nodes
      /\ \A m \in Nodes : Under(n, m) /\ m # n /\ StateNode(m) => OpenIn(hs, m)
      /\ \A m \in Nodes : (\A i \in DOMAIN hs : hs[i] # m) => js[m] = ks[m]
      /\ \A i \in DOMAIN hs : js[hs[i]] = <<>> \/ (Keyed(hs[i]) /\ js[hs[i]] = word[hs[i]])
      /\ \A i \in DOMAIN hs : Keyed(hs[i]) /\ StateNode(hs[i]) => js[hs[i]] = word[hs[i]]
  BY DEF NewKeys, Queued
<1>1. /\ \A m \in Nodes : ks[m] = <<>> \/ (Keyed(m) /\ ks[m] = word[m])
      /\ \A m \in Nodes : Keyed(m) /\ StateNode(m) /\ (OpenIn(q, m) => Queued(q, m))
                        => ks[m] = word[m]
  BY DEF KeyInv
<1>2. /\ \A m \in Nodes : OpenIn(r, m) <=> (OpenIn(q, m) /\ ~ Under(n, m)) \/ OpenIn(hs, m)
      /\ \A m \in Nodes : OpenIn(hs, m) => Under(n, m) /\ m # n
      /\ \A i \in DOMAIN r : (\E j \in DOMAIN q : r[i] = q[j] /\ r[i] # n) \/ \E j \in DOMAIN hs : r[i] = hs[j]
  BY DEF Replaced
<1>3. \A m \in Nodes : js[m] = <<>> \/ (Keyed(m) /\ js[m] = word[m])
  BY <1>0, <1>1
<1>4. ASSUME NEW m \in Nodes, Keyed(m), StateNode(m), OpenIn(r, m) => Queued(r, m)
      PROVE  js[m] = word[m]
  <2>1. CASE \E j \in DOMAIN hs : m = hs[j]
    BY <1>0, <1>4, <2>1
  <2>2. CASE \A j \in DOMAIN hs : m # hs[j]
    <3>1. js[m] = ks[m]
      BY <1>0, <2>2
    <3>2. OpenIn(q, m) => Queued(q, m)
      BY <1>0, <1>2, <1>4, <2>2 DEF Queued
    <3> QED
      BY <3>1, <3>2, <1>1, <1>4
  <2> QED
    BY <2>1, <2>2
<1> QED
  BY <1>0, <1>3, <1>4 DEF KeyInv

-----------------------------------------------------------------------------
(* generateStates: the states it allocates.                                *)

\* Where a goto to m leads.
Leads(m) == IF IsLeaf(m) THEN failure[m] ELSE m

\* A chain of one or two nodes.
LEMMA ShortChain ==
    ASSUME NEW w, NEW next, NEW n, NEW ends, NEW S, ChainIs(w, next, n, ends, S)
    PROVE  /\ n \in ends => Len(w) = 1 /\ Last(w) = n
           /\ n \notin ends /\ next[n] \in ends => Len(w) = 2 /\ Last(w) = next[n] /\ w[2] = next[n]
<1>1. /\ w \in Seq(S) /\ Len(w) \in Nat /\ Len(w) >= 1 /\ w[1] = n
      /\ \A k \in 1 .. Len(w) - 1 : w[k] \notin ends /\ w[k + 1] = next[w[k]]
      /\ w[Len(w)] \in ends /\ Last(w) = w[Len(w)]
  BY DEF ChainIs
<1> DEFINE l == Len(w)
<1>0. l \in Nat /\ l >= 1
  BY <1>1
<1> HIDE DEF l
<1>2. ASSUME n \in ends PROVE Len(w) = 1
  <2> SUFFICES ASSUME Len(w) # 1 PROVE FALSE
    OBVIOUS
  <2>2. l # 1
    BY DEF l
  <2>0. 1 \in 1 .. l - 1
    BY <2>2, <1>0
  <2>1. 1 \in 1 .. Len(w) - 1
    BY <2>0 DEF l
  <2> QED
    BY <2>1, <1>1, <1>2
<1>3. ASSUME n \notin ends, next[n] \in ends PROVE Len(w) = 2 /\ w[2] = next[n]
  <2>1. l # 1
    BY <1>1, <1>3 DEF l
  <2>0. 1 \in 1 .. l - 1
    BY <2>1, <1>0
  <2>2. 1 \in 1 .. Len(w) - 1 /\ 1 + 1 = 2
    BY <2>0 DEF l
  <2>3. w[2] = next[n]
    BY <2>2, <1>1
  <2>4. ASSUME Len(w) # 2 PROVE FALSE
    <3>0. l # 2
      BY <2>4 DEF l
    <3>2. 2 \in 1 .. l - 1
      BY <2>1, <3>0, <1>0
    <3>1. 2 \in 1 .. Len(w) - 1
      BY <3>2 DEF l
    <3> QED
      BY <3>1, <2>3, <1>1, <1>3
  <2> QED
    BY <2>3, <2>4
<1> QED
  BY <1>1, <1>2, <1>3

\* A leaf without a state fails to a node that is none.
LEMMA NonLeafIs ==
    ASSUME Built, \A x \in Nodes : nodeId[x] = 0 <=> x = Root, NEW m \in Nodes
    PROVE  NonLeaf(m) = IF m = Root THEN Root ELSE Leads(m)
<1> DEFINE ends == {x \in Nodes : nodeId[x] = 0 \/ ~ IsLeaf(x)}
<1>1. Root \in ends
  BY RootFacts DEF Built
<1>2. ChainIs(Chain(failure, m, ends), failure, m, ends, Nodes)
  <2> HIDE DEF ends
  <2> QED
    BY <1>1, FailureChain
<1>3. m \notin ends => failure[m] \in ends
  BY <1>1 DEF Built
<1>4. m \in ends <=> m = Root \/ ~ IsLeaf(m)
  OBVIOUS
<1>5. NonLeaf(m) = Last(Chain(failure, m, ends))
  BY DEF NonLeaf
<1> HIDE DEF ends
<1>6. NonLeaf(m) = IF m \in ends THEN m ELSE failure[m]
  BY <1>2, <1>3, <1>5, ShortChain
<1> QED
  BY <1>4, <1>6 DEF Leads

\* What GotosToL12 and FailuresToL12 count, from the tree alone.
Shallow(m)   == depth[m] \in {1, 2} /\ depth[Leads(m)] \in {1, 2}
GotosNear(n) == Cardinality({m \in ToSet(ChildrenInOrder(n)) : Shallow(m)})
FailuresNear(n) == Cardinality({m \in ToSet(Path(n)) : depth[failure[m]] \in 0 .. 2})

\* The numbers are those of positions.
Positions(t, l, S) == {i \in 1 .. l : t[i] \in S}
\* t lists l different elements.
Listed(t, l) == l \in Nat /\ DOMAIN t = 1 .. l /\ \A i, j \in 1 .. l : t[i] = t[j] => i = j
LEMMA CountPositions ==
    ASSUME NEW t, NEW l, Listed(t, l), NEW S
    PROVE  /\ IsFiniteSet(Positions(t, l, S))
           /\ Cardinality(Positions(t, l, S)) \in Nat /\ Cardinality(Positions(t, l, S)) <= l
           /\ Cardinality({m \in ToSet(t) : m \in S}) = Cardinality(Positions(t, l, S))
<1> USE DEF Listed
<1> DEFINE I == Positions(t, l, S)
<1>1. I \in SUBSET (1 .. l)
  BY DEF Positions
<1>2. IsFiniteSet(1 .. l) /\ Cardinality(1 .. l) = l
  BY FS_Interval
<1>3. IsFiniteSet(I) /\ Cardinality(I) <= Cardinality(1 .. l)
  BY <1>1, <1>2, FS_Subset
<1>4. Cardinality(I) \in Nat
  BY <1>3, FS_CardinalityType
<1>5. {m \in ToSet(t) : m \in S} = Image(t, I)
  BY DEF Image, ToSet, Positions
<1>6. Cardinality(Image(t, I)) = Cardinality(I)
  <2> HIDE DEF I
  <2> QED
    BY <1>1, ImageSize
<1> QED
  BY <1>2, <1>3, <1>4, <1>5, <1>6

LEMMA GotosNearIs ==
    ASSUME Built, \A x \in Nodes : nodeId[x] = 0 <=> x = Root, NEW n \in Nodes
    PROVE  GotosToL12(n) = GotosNear(n) /\ GotosNear(n) \in 0 .. numGotos(n)
<1> DEFINE hs == ChildrenInOrder(n)
           S == {m \in Nodes : Shallow(m)}
<1>1. ChildrenBelow(n, hs)
  BY ChildrenOfNode
<1>2. numGotos(n) \in Nat /\ DOMAIN hs = 1 .. numGotos(n) /\ \A i, j \in 1 .. numGotos(n) : hs[i] = hs[j] => i = j
  BY <1>1 DEF ChildrenBelow
<1>3. \A m \in ToSet(hs) : m \in Nodes /\ m # Root
  BY <1>1 DEF ChildrenBelow
<1>4. \A m \in ToSet(hs) : NonLeaf(m) = Leads(m)
  BY <1>3, NonLeafIs
<1>5. GotosToL12(n) = GotosNear(n)
  <2>1. {m \in ToSet(hs) : depth[m] \in {1, 2} /\ depth[NonLeaf(m)] \in {1, 2}} = {m \in ToSet(hs) : Shallow(m)}
    BY <1>4 DEF Shallow
  <2> QED
    BY <2>1 DEF GotosToL12, GotosNear
<1>6. {m \in ToSet(hs) : Shallow(m)} = {m \in ToSet(hs) : m \in S}
  BY <1>3
<1>7. /\ Cardinality(Positions(hs, numGotos(n), S)) \in Nat
      /\ Cardinality(Positions(hs, numGotos(n), S)) <= numGotos(n)
      /\ Cardinality({m \in ToSet(hs) : m \in S}) = Cardinality(Positions(hs, numGotos(n), S))
  <2> HIDE DEF hs, S
  <2>1. Listed(hs, numGotos(n))
    BY <1>2 DEF Listed
  <2> QED
    BY <2>1, CountPositions
<1>8. GotosNear(n) = Cardinality(Positions(hs, numGotos(n), S))
  BY <1>6, <1>7 DEF GotosNear
<1> HIDE DEF hs, S
<1> QED
  BY <1>2, <1>5, <1>7, <1>8

LEMMA FailuresNearIs ==
    ASSUME Built, \A x \in Nodes : nodeId[x] = 0 <=> x = Root, NEW n \in Nodes, NEW l \in Nat, PathWalk(n, l)
    PROVE  /\ FailuresToL12(n) = FailuresNear(n) /\ FailuresNear(n) \in 0 .. l
           /\ \A i, j \in 1 .. l : Path(n)[i] = Path(n)[j] => i = j
<1> DEFINE hs == Path(n)
           S == {m \in Nodes : depth[failure[m]] \in 0 .. 2}
<1>1. PathCover(n, l)
  BY PathCovers
<1>2. DOMAIN hs = 1 .. l /\ \A i \in 1 .. l : hs[i] \in Nodes
  BY DEF PathWalk
<1>3. ASSUME NEW i \in 1 .. l, NEW j \in 1 .. l, hs[i] = hs[j] PROVE i = j
  <2>1. depth[hs[i]] = depth[n] + i - 1 /\ depth[hs[j]] = depth[n] + j - 1 /\ depth[n] \in Nat
    BY <1>1, TypeFacts DEF PathCover, Built
  <2> QED
    BY <2>1, <1>3
<1>4. \A m \in ToSet(hs) : m \in Nodes
  BY <1>2 DEF ToSet
<1>5. \A m \in Nodes : NonLeaf(failure[m]) = failure[m]
  <2> SUFFICES ASSUME NEW m \in Nodes PROVE NonLeaf(failure[m]) = failure[m]
    OBVIOUS
  <2>1. failure[m] \in Nodes /\ (failure[m] = Root \/ ~ IsLeaf(failure[m]))
    BY DEF Built
  <2> QED
    BY <2>1, NonLeafIs DEF Leads
<1>6. {m \in ToSet(hs) : depth[failure[m]] \in 0 .. 2 /\ depth[NonLeaf(failure[m])] \in 0 .. 2}
        = {m \in ToSet(hs) : depth[failure[m]] \in 0 .. 2}
  BY <1>4, <1>5
<1>7. {m \in ToSet(hs) : depth[failure[m]] \in 0 .. 2} = {m \in ToSet(hs) : m \in S}
  BY <1>4
<1>8. /\ Cardinality(Positions(hs, l, S)) \in Nat
      /\ Cardinality(Positions(hs, l, S)) <= l
      /\ Cardinality({m \in ToSet(hs) : m \in S}) = Cardinality(Positions(hs, l, S))
  <2> HIDE DEF hs, S
  <2>1. Listed(hs, l)
    BY <1>2, <1>3 DEF Listed
  <2> QED
    BY <2>1, CountPositions
<1> QED
  BY SMTT(20), <1>3, <1>6, <1>7, <1>8 DEF FailuresNear, FailuresToL12

\* A state as it is allocated for n.
FreshBranch(d, id, n) ==
    \E t \in {LINEAR_ENCODED, BITMAP_ENCODED, LOOKUP_TABLE} : \E k \in Nat :
        /\ Created(d, t, k, id, numGotos(n)) /\ Room(d, t, k, numGotos(n) - GotosNear(n))
        /\ t # LOOKUP_TABLE => numGotos(n) < MAX_NODE_DEGREE
FreshPath(d, id, n) ==
    \E l \in Nat : PathWalk(n, l) /\ \E k \in Nat :
        Created(d, PATH_COMPRESSED, k, id, l) /\ Room(d, PATH_COMPRESSED, k, l - FailuresNear(n))
Fresh(d, id, n) ==
    /\ numGotos(n) > 1 => FreshBranch(d, id, n)
    /\ numGotos(n) = 1 => FreshPath(d, id, n)

LEMMA BranchIsFresh ==
    ASSUME Built, \A x \in Nodes : nodeId[x] = 0 <=> x = Root, maxGotos \in GotoLimits,
           NEW n \in Nodes, numGotos(n) > 1, NEW id \in StateId, NEW g \in Byte
    PROVE  Fresh(generateEmptyBranchState(BranchType(n), id, numGotos(n), GotosToL12(n), g), id, n)
<1> DEFINE type == BranchType(n)
           l == numGotos(n)
           p == GotosToL12(n)
           d == generateEmptyBranchState(type, id, l, p, g)
<1>1. l \in 1 .. MAX_ARRAY_LENGTH
  <2>1. l \in 0 .. MAX_ARRAY_LENGTH
    BY GotoCount
  <2> QED
    BY <2>1 DEF MAX_ARRAY_LENGTH
<1>2. p \in 0 .. l /\ p = GotosNear(n)
  BY GotosNearIs
<1>3. /\ type \in {LINEAR_ENCODED, BITMAP_ENCODED, LOOKUP_TABLE}
      /\ type # LOOKUP_TABLE => l < MAX_NODE_DEGREE
  <2>1. maxGotos[1] \in 0 .. MAX_NODE_DEGREE - 1 /\ maxGotos[2] \in 0 .. MAX_NODE_DEGREE - 1
    <3>1. GotoLimits \subseteq (0 .. MAX_NODE_DEGREE - 1) \X (0 .. MAX_NODE_DEGREE - 1)
      BY CMAssumption
    <3> QED
      BY <3>1
  <2>2. l \in Nat
    BY <1>1 DEF MAX_ARRAY_LENGTH
  <2> HIDE DEF l
  <2>3. l <= maxGotos[1] \/ l <= maxGotos[2] => l < MAX_NODE_DEGREE
    BY <2>1, <2>2 DEF MAX_NODE_DEGREE
  <2> QED
    BY <2>3 DEF BranchType, LINEAR_ENCODED, BITMAP_ENCODED, LOOKUP_TABLE, l
<1> HIDE DEF type, l, p, d
<1>5. \E t \in {LINEAR_ENCODED, BITMAP_ENCODED, LOOKUP_TABLE} : \E k \in Nat :
         Created(d, t, k, id, l) /\ Room(d, t, k, l - p) /\ (t # LOOKUP_TABLE => t = type)
  BY <1>1, <1>2, <1>3, BranchIsCreated DEF d
<1>6. FreshBranch(d, id, n)
  BY <1>2, <1>3, <1>5 DEF FreshBranch, l
<1> QED
  BY <1>6 DEF Fresh, d, type, l, p

LEMMA PathIsFresh ==
    ASSUME Built, \A x \in Nodes : nodeId[x] = 0 <=> x = Root,
           NEW n \in Nodes, numGotos(n) = 1, NEW id \in StateId, NEW g \in Byte
    PROVE  Fresh(createEmptyState_PC(id, Len(Path(n)), FailuresToL12(n), g), id, n)
<1>1. PICK l \in Nat : PathWalk(n, l)
  BY PathOf
<1>2. Len(Path(n)) = l /\ l \in 1 .. MAX_PATH_LENGTH
  BY <1>1 DEF PathWalk
<1>3. FailuresToL12(n) \in 0 .. l /\ FailuresToL12(n) = FailuresNear(n)
  BY <1>1, FailuresNearIs
<1> DEFINE p == FailuresToL12(n)
           d == createEmptyState_PC(id, l, p, g)
<1> HIDE DEF p, d
<1>5. p \in 0 .. l
  BY <1>3 DEF p
<1>6. \E k \in Nat : Created(d, PATH_COMPRESSED, k, id, l) /\ Room(d, PATH_COMPRESSED, k, l - p)
  BY <1>2, <1>5, PathIsCreated DEF d
<1>7. FreshPath(d, id, n)
  BY <1>1, <1>3, <1>6 DEF FreshPath, p
<1> QED
  BY <1>2, <1>7 DEF Fresh, d, p

-----------------------------------------------------------------------------
(* The generator leaves the tree alone.                                    *)

LEMMA TreeStays ==
    ASSUME UNCHANGED acVars
    PROVE  /\ Nodes' = Nodes /\ RootBranches' = RootBranches /\ Built' = Built
           /\ \A n : /\ numGotos(n)' = numGotos(n) /\ IsLeaf(n)' = IsLeaf(n) /\ Chars(n)' = Chars(n)
                     /\ CharsInOrder(n)' = CharsInOrder(n) /\ ChildrenInOrder(n)' = ChildrenInOrder(n)
                     /\ Only(n)' = Only(n) /\ Child(n)' = Child(n) /\ EndsPath(n)' = EndsPath(n)
                     /\ Path(n)' = Path(n) /\ PathEnd(n)' = PathEnd(n) /\ Interior(n)' = Interior(n)
                     /\ StateNode(n)' = StateNode(n) /\ Leads(n)' = Leads(n)
                     /\ GotosNear(n)' = GotosNear(n) /\ FailuresNear(n)' = FailuresNear(n)
           /\ \A n, l : PathWalk(n, l)' = PathWalk(n, l)
           /\ \A q, n : OpenIn(q, n)' = OpenIn(q, n)
<1>1. /\ Nodes' = Nodes /\ gotos' = gotos /\ word' = word /\ depth' = depth /\ failure' = failure
      /\ hasFailInto' = hasFailInto /\ message' = message /\ pc' = pc /\ ACTypeOK' = ACTypeOK /\ TreeInv' = TreeInv
  BY DEF Nodes, acVars, treeVars, failVars, matchVars, bfsVars, ACTypeOK, TreeInv
<1>2. \A n : /\ numGotos(n)' = numGotos(n) /\ IsLeaf(n)' = IsLeaf(n) /\ Chars(n)' = Chars(n)
  BY <1>1 DEF numGotos, IsLeaf, Chars
<1>3. \A n : CharsInOrder(n)' = CharsInOrder(n)
  BY <1>1, <1>2 DEF CharsInOrder
<1>4. \A n : ChildrenInOrder(n)' = ChildrenInOrder(n)
  BY <1>1, <1>2, <1>3 DEF ChildrenInOrder
<1>5. \A n : Only(n)' = Only(n) /\ EndsPath(n)' = EndsPath(n)
  BY <1>1, <1>2 DEF Only, EndsPath
<1>6. \A n : Child(n)' = Child(n)
  BY <1>1, <1>5 DEF Child
<1>7. Inner' = Inner
  BY <1>1, <1>2 DEF Inner
<1>8. \A n : Path(n)' = Path(n)
  <2>1. [m \in Inner |-> Child(m)]' = [m \in Inner |-> Child(m)]
    BY <1>6, <1>7
  <2>2. {m \in Inner : EndsPath(Child(m)) \/ IsLeaf(Child(m))}'
          = {m \in Inner : EndsPath(Child(m)) \/ IsLeaf(Child(m))}
    BY <1>2, <1>5, <1>6, <1>7
  <2> QED
    BY <2>1, <2>2 DEF Path
<1>9. \A n : PathEnd(n)' = PathEnd(n)
  BY <1>6, <1>8 DEF PathEnd
<1>10. \A n : Interior(n)' = Interior(n)
  BY <1>1, <1>2, <1>5 DEF Interior
<1>11. \A n : StateNode(n)' = StateNode(n) /\ Leads(n)' = Leads(n)
  BY <1>1, <1>2, <1>10 DEF StateNode, Leads
<1>12. \A n : GotosNear(n)' = GotosNear(n) /\ FailuresNear(n)' = FailuresNear(n)
  BY <1>1, <1>4, <1>8, <1>11 DEF GotosNear, FailuresNear, Shallow
<1>13. \A n, l : PathWalk(n, l)' = PathWalk(n, l)
  BY <1>1, <1>2, <1>5, <1>6, <1>8, <1>9 DEF PathWalk
<1>14. \A q, n : OpenIn(q, n)' = OpenIn(q, n)
  BY <1>1 DEF OpenIn
<1>15. Built' = Built
  BY <1>1, <1>2 DEF Built
<1>16. RootBranches' = RootBranches
  BY <1>2 DEF RootBranches
<1> QED
  BY <1>1, <1>2, <1>3, <1>4, <1>5, <1>6, <1>8, <1>9, <1>10, <1>11, <1>12, <1>13, <1>14, <1>15, <1>16

LEMMA GeneratedStays ==
    ASSUME UNCHANGED acVars
    PROVE  /\ \A q, ids, nt, k : TreeGen(q, ids, nt, k)' = TreeGen(q, ids, nt, k)
           /\ \A q, ks : KeyInv(q, ks)' = KeyInv(q, ks)
           /\ \A d, id, n : Fresh(d, id, n)' = Fresh(d, id, n)
<1>1. /\ Nodes' = Nodes /\ word' = word /\ depth' = depth
  BY DEF Nodes, acVars, treeVars
<1>2. \A q, ids, nt, k : TreeGen(q, ids, nt, k)' = TreeGen(q, ids, nt, k)
  BY <1>1, TreeStays DEF TreeGen, Apart, Numbered
<1>3. \A q, ks : KeyInv(q, ks)' = KeyInv(q, ks)
  BY <1>1, TreeStays DEF KeyInv, Keyed
<1>4. \A d, id, n : FreshBranch(d, id, n)' = FreshBranch(d, id, n)
  BY TreeStays DEF FreshBranch
<1>5. \A d, id, n : FreshPath(d, id, n)' = FreshPath(d, id, n)
  BY TreeStays DEF FreshPath
<1> QED
  BY <1>2, <1>3, <1>4, <1>5, TreeStays DEF Fresh

-----------------------------------------------------------------------------
(* The iterations of generateStates.                                       *)

\* Ids have 16 bits, and the highest says that there is none.
IdsFit == nextID <= LOOKUP_VALUE_NOT_FOUND

\* What is numbered when the nodes of q are left.
Generated(q) ==
    /\ TreeGen(q, nodeId, nodeTable, nextID) /\ KeyInv(q, key) /\ DOMAIN states = DOMAIN nodeTable

\* The states as they were allocated.
AllFresh == IdsFit => \A id \in DOMAIN states : Fresh(states[id], id, nodeTable[id])

\* Another state.
LEMMA StateIsAdded ==
    ASSUME NEW n, NEW d, addState(d, n), DOMAIN states = 0 .. nextID - 1, DOMAIN nodeTable = DOMAIN states,
           nextID \in Nat
    PROVE  /\ nextID' = nextID + 1 /\ DOMAIN states' = DOMAIN nodeTable' /\ DOMAIN states' = 0 .. nextID
           /\ nodeTable' = Put(nodeTable, nextID, n)
           /\ states'[nextID] = d /\ nodeTable'[nextID] = n
           /\ \A id \in DOMAIN states : states'[id] = states[id] /\ nodeTable'[id] = nodeTable[id]
           /\ \A id \in DOMAIN states' : id = nextID \/ id \in DOMAIN states
<1> DEFINE k == nextID
<1>1. states' = Put(states, k, d) /\ nodeTable' = Put(nodeTable, k, n)
  BY DEF addState
<1> HIDE DEF k
<1>2. k \in Nat /\ DOMAIN states = 0 .. k - 1 /\ DOMAIN nodeTable = 0 .. k - 1
  BY DEF k
<1>3. /\ DOMAIN states' = 0 .. k /\ states'[k] = d /\ \A i \in 0 .. k - 1 : states'[i] = states[i]
      /\ \A i \in DOMAIN states' : i = k \/ i \in DOMAIN states
  BY <1>1, <1>2, EntryIsAdded
<1>4. /\ DOMAIN nodeTable' = 0 .. k /\ nodeTable'[k] = n /\ \A i \in 0 .. k - 1 : nodeTable'[i] = nodeTable[i]
  BY <1>1, <1>2, EntryIsAdded
<1>5. nextID' = k + 1
  <2>1. Cardinality(0 .. k) = k + 1
    <3>1. 0 \in Int /\ k \in Int /\ 0 <= k
      BY <1>2
    <3>2. Cardinality(0 .. k) = k - 0 + 1
      BY <3>1, FS_Interval
    <3> QED
      BY <3>2, <1>2
  <2>2. nextID' = Cardinality(DOMAIN states')
    BY DEF nextID
  <2> QED
    BY <2>1, <2>2, <1>3
<1> QED
  BY <1>1, <1>2, <1>3, <1>4, <1>5 DEF k

\* And it is fresh.
LEMMA FreshIsAdded ==
    ASSUME UNCHANGED acVars, NEW n, NEW d, addState(d, n), DOMAIN states = 0 .. nextID - 1,
           DOMAIN nodeTable = DOMAIN states, nextID \in Nat, AllFresh,
           nextID \in StateId => Fresh(d, nextID, n)
    PROVE  AllFresh'
<1>1. /\ nextID' = nextID + 1 /\ states'[nextID] = d /\ nodeTable'[nextID] = n
      /\ \A id \in DOMAIN states : states'[id] = states[id] /\ nodeTable'[id] = nodeTable[id]
      /\ \A id \in DOMAIN states' : id = nextID \/ id \in DOMAIN states
  BY StateIsAdded
<1>2. IdsFit' => IdsFit /\ nextID \in StateId
  <2> DEFINE K == nextID
             K1 == nextID'
  <2>1. K \in Nat /\ K1 = K + 1
    BY <1>1
  <2> HIDE DEF K, K1
  <2>2. LOOKUP_VALUE_NOT_FOUND \in Nat /\ \A k \in Nat : k + 1 <= LOOKUP_VALUE_NOT_FOUND => k \in StateId
    <3>1. LOOKUP_VALUE_NOT_FOUND \in Nat
      BY DEF LOOKUP_VALUE_NOT_FOUND
    <3> QED
      BY <3>1 DEF StateId
  <2>3. K1 <= LOOKUP_VALUE_NOT_FOUND => K <= LOOKUP_VALUE_NOT_FOUND /\ K \in StateId
    BY <2>1, <2>2
  <2> QED
    BY <2>3 DEF K, K1, IdsFit
<1>3. ASSUME IdsFit', NEW id \in DOMAIN states' PROVE Fresh(states'[id], id, nodeTable'[id])
  <2>1. CASE id = nextID
    BY <1>1, <1>2, <1>3, <2>1
  <2>2. CASE id \in DOMAIN states
    BY <1>1, <1>2, <1>3, <2>2 DEF AllFresh
  <2> QED
    BY <1>1, <1>3, <2>1, <2>2
<1>4. \A e, id, m : Fresh(e, id, m)' = Fresh(e, id, m)
  BY GeneratedStays
<1> QED
  BY <1>3, <1>4 DEF AllFresh

\* The keys of the children of a branch.
LEMMA BranchKeys ==
    ASSUME Built, KeyInv(pending, key), NEW n \in Nodes, numGotos(n) > 1, ~ Interior(n),
           Queued(pending, n), NEW c \in Chars(n), NEW m, m = gotos[n][c],
           NEW d, d = (IF depth[m] \in {1, 2} THEN KeyOfChild(n, c) ELSE key[m])
    PROVE  /\ d \in Seq(Char) /\ (d = <<>> \/ (Keyed(m) /\ d = word[m]))
           /\ Keyed(m) => d = word[m]
<1>1. /\ key \in [Nodes -> Seq(Char)]
      /\ \A x \in Nodes : key[x] = <<>> \/ (Keyed(x) /\ key[x] = word[x])
      /\ \A x \in Nodes : Keyed(x) /\ StateNode(x) /\ (OpenIn(pending, x) => Queued(pending, x))
                        => key[x] = word[x]
  BY DEF KeyInv
<1>2. /\ c \in Char /\ m \in Nodes \ {Root} /\ word[m] = Append(word[n], c) /\ depth[m] = depth[n] + 1
  BY ChildFacts DEF Built
<1>3. /\ word[n] \in Seq(Char) /\ depth[n] \in Nat /\ depth[n] = Len(word[n])
      /\ word[m] \in Seq(Char) /\ (depth[n] = 0 => n = Root)
  BY <1>2, TypeFacts, RootFacts DEF Built, TreeInv
<1>4. key[m] \in Seq(Char) /\ (key[m] = <<>> \/ (Keyed(m) /\ key[m] = word[m]))
  BY <1>1, <1>2
<1>5. CASE depth[m] \notin {1, 2}
  BY <1>4, <1>5 DEF Keyed
<1>6. CASE depth[m] \in {1, 2} /\ n = Root
  <2>1. word[m] = <<c>>
    <3>1. word[n] = <<>>
      BY <1>6, RootFacts DEF Built
    <3> QED
      BY <3>1, <1>2
  <2>2. d = <<c>>
    BY <1>6 DEF KeyOfChild
  <2>3. Keyed(m)
    BY <1>6 DEF Keyed, RootBranches
  <2> QED
    BY <2>1, <2>2, <2>3, <1>3
<1>7. CASE depth[m] \in {1, 2} /\ n # Root
  <2>1. depth[n] = 1
    <3>1. depth[n] \in Nat /\ depth[n] # 0 /\ depth[m] = depth[n] + 1
      BY <1>2, <1>3, <1>7
    <3> QED
      BY <3>1, <1>7
  <2>2. CASE Len(key[n]) = 1
    <3>1. Keyed(n) /\ key[n] = word[n]
      <4>1. key[n] \in Seq(Char) /\ c \in Char
        BY <1>1, <1>2
      <4>2. key[n] # <<>>
        BY <4>1, <2>2, ShortWords
      <4> QED
        BY <4>2, <1>1
    <3>2. word[n] = <<word[n][1]>> /\ word[m] = <<word[n][1], c>>
      <4>1. Len(word[n]) <= 1 /\ 1 <= Len(word[n]) /\ word[n] \in Seq(Char) /\ c \in Char
            /\ word[m] = Append(word[n], c)
        BY <1>2, <1>3, <2>1
      <4> QED
        BY <4>1, OneAndOne
    <3>3. d = <<word[n][1], c>>
      BY <3>1, <1>7, <2>2 DEF KeyOfChild
    <3>4. Keyed(m)
      BY <3>1, <1>7 DEF Keyed
    <3> QED
      BY <3>2, <3>3, <3>4, <1>3
  <2>3. CASE Len(key[n]) # 1
    <3>1. d = key[m]
      BY <1>7, <2>3 DEF KeyOfChild
    <3>2. ~ Keyed(m)
      <4> SUFFICES ASSUME Keyed(m) PROVE FALSE
        OBVIOUS
      <4>1. Keyed(n) /\ StateNode(n)
        <5>1. ~ IsLeaf(n)
          BY DEF IsLeaf
        <5> QED
          BY <2>1, <5>1 DEF Keyed, StateNode
      <4>2. key[n] = word[n]
        BY <4>1, <1>1
      <4> QED
        BY <4>2, <1>3, <2>1, <2>3
    <3> QED
      BY <3>1, <3>2, <1>4
  <2> QED
    BY <2>2, <2>3
<1> QED
  BY <1>5, <1>6, <1>7

\* Append, for the queue.
LEMMA AppendIsConcat ==
    ASSUME NEW S, NEW q \in Seq(S), NEW x \in S
    PROVE  Append(q, x) = q \o <<x>> /\ q \o <<>> = q
<1>1. <<x>> \in Seq(S) /\ 1 <= Len(<<x>>) /\ Len(<<x>>) <= 1 /\ <<x>>[1] = x
  OBVIOUS
<1> DEFINE y == <<x>>
<1>2. y \in Seq(S) /\ 1 <= Len(y) /\ Len(y) <= 1 /\ y[1] = x
  BY <1>1
<1> DEFINE a == Append(q, x)
           b == q \o y
<1> HIDE DEF y
<1>3. /\ a \in Seq(S) /\ Len(a) = Len(q) + 1 /\ \A i \in 1 .. Len(q) : a[i] = q[i]
      /\ a[Len(q) + 1] = x
  OBVIOUS
<1>4. /\ b \in Seq(S) /\ Len(b) = Len(q) + Len(y) /\ \A i \in 1 .. Len(q) : b[i] = q[i]
      /\ b[Len(q) + 1] = y[1]
  BY <1>2
<1> HIDE DEF a, b
<1>5. a = b
  BY <1>2, <1>3, <1>4
<1>6. q \o <<>> = q
  OBVIOUS
<1> QED
  BY <1>5, <1>6 DEF a, b, y

\* The key GeneratePath leaves at the end m of the path of n, and what it should be.
KeyAtEnd(n, m) == IF Len(key[n]) = 1 /\ Len(Path(n)) = 1 THEN <<key[n][1], Only(n)>> ELSE key[m]
RightKey(d, m) ==
    /\ d \in Seq(Char) /\ (d = <<>> \/ (Keyed(m) /\ d = word[m]))
    /\ Keyed(m) => d = word[m]

LEMMA PathKeys ==
    ASSUME Built, KeyInv(pending, key), NEW n \in Nodes, numGotos(n) = 1, ~ Interior(n),
           Queued(pending, n), NEW l \in Nat, PathWalk(n, l), NEW m, m = PathEnd(n),
           NEW d, d = KeyAtEnd(n, m)
    PROVE  RightKey(d, m)
<1>1. /\ key \in [Nodes -> Seq(Char)]
      /\ \A x \in Nodes : key[x] = <<>> \/ (Keyed(x) /\ key[x] = word[x])
      /\ \A x \in Nodes : Keyed(x) /\ StateNode(x) /\ (OpenIn(pending, x) => Queued(pending, x))
                        => key[x] = word[x]
  BY DEF KeyInv
<1>2. /\ Len(Path(n)) = l /\ Path(n)[1] = n /\ l \in Nat /\ l >= 1 /\ m = Child(Path(n)[l]) /\ m \in Nodes \ {Root}
  BY DEF PathWalk
<1>3. depth[m] = depth[n] + l
  <2>1. PathCover(n, l)
    BY PathCovers
  <2> QED
    BY <2>1 DEF PathCover
<1>4. /\ word[n] \in Seq(Char) /\ depth[n] \in Nat /\ depth[n] = Len(word[n])
      /\ word[m] \in Seq(Char) /\ (depth[n] = 0 => n = Root)
  BY <1>2, TypeFacts, RootFacts DEF Built, TreeInv
<1>5. key[m] \in Seq(Char) /\ (key[m] = <<>> \/ (Keyed(m) /\ key[m] = word[m]))
  BY <1>1, <1>2
<1>6. /\ l = 1 => word[m] = Append(word[n], Only(n))
      /\ Only(n) \in Char /\ ~ IsLeaf(n)
  BY <1>2, OnlyChild
<1>7. CASE Len(key[n]) = 1 /\ Len(Path(n)) = 1
  <2>1. Keyed(n) /\ key[n] = word[n]
    <3>1. key[n] \in Seq(Char)
      BY <1>1
    <3>2. key[n] # <<>>
      BY <3>1, <1>6, <1>7, ShortWords
    <3> QED
      BY <3>2, <1>1
  <2>2. Len(word[n]) <= 1 /\ 1 <= Len(word[n])
    BY <2>1, <1>4, <1>7, LengthIs, 1 \in Nat
  <2>3. l = 1 /\ depth[n] = 1
    <3>1. depth[n] <= 1 /\ 1 <= depth[n]
      <4>1. Len(word[n]) <= depth[n] /\ depth[n] <= Len(word[n])
        BY <1>4, LengthIs
      <4>2. depth[n] \in Nat /\ Len(word[n]) \in Nat
        BY <1>4
      <4> QED
        BY <4>1, <4>2, <2>2
    <3>2. depth[n] = 1
      <4>1. depth[n] \in Nat
        BY <1>4
      <4> QED
        BY <3>1, <4>1
    <3>3. Len(Path(n)) = l
      BY <1>2
    <3>4. l = 1
      BY <3>3, <1>7
    <3> QED
      BY <3>2, <3>4
  <2>4. word[n] = <<word[n][1]>> /\ word[m] = <<word[n][1], Only(n)>>
    <3>1. word[m] = Append(word[n], Only(n)) /\ Only(n) \in Char /\ word[n] \in Seq(Char)
      BY <2>3, <1>4, <1>6
    <3> QED
      BY <3>1, <2>2, OneAndOne
  <2>5. Keyed(m)
    <3>1. depth[m] = 2
      BY <2>3, <1>3
    <3> QED
      BY <3>1, <2>1 DEF Keyed
  <2>6. d = word[m]
    BY <2>1, <2>4, <1>7 DEF KeyAtEnd
  <2> QED
    BY <2>5, <2>6, <1>4 DEF RightKey
<1>8. CASE ~ (Len(key[n]) = 1 /\ Len(Path(n)) = 1)
  <2>1. d = key[m]
    BY <1>8 DEF KeyAtEnd
  <2>2. ~ Keyed(m)
    <3> SUFFICES ASSUME Keyed(m) PROVE FALSE
      OBVIOUS
    <3>1. n # Root
      BY DEF Keyed, RootBranches
    <3>2. depth[n] = 1 /\ l = 1
      <4>1. depth[m] \in {1, 2}
        BY DEF Keyed
      <4>2. depth[n] \in Nat /\ depth[n] # 0 /\ l \in Nat /\ l >= 1 /\ depth[m] = depth[n] + l
        BY <3>1, <1>2, <1>3, <1>4
      <4> QED
        BY <4>1, <4>2
    <3>3. Keyed(n) /\ StateNode(n)
      BY <3>2, <1>6 DEF Keyed, StateNode
    <3>4. key[n] = word[n]
      BY <3>3, <1>1
    <3> QED
      BY <3>2, <3>4, <1>2, <1>4, <1>8
  <2> QED
    BY <2>1, <2>2, <1>5 DEF RightKey
<1> QED
  BY <1>7, <1>8

\* Facts about the first node of the queue.
LEMMA HeadFacts ==
    ASSUME Built, Generated(pending), pending # <<>>, NEW n, n = Head(pending)
    PROVE  /\ n \in Nodes /\ 1 \in DOMAIN pending /\ pending[1] = n /\ ~ Interior(n) /\ Queued(pending, n)
           /\ pending \in Seq(Nodes) /\ Apart(pending) /\ nodeId \in [Nodes -> Int]
           /\ nextID \in Nat /\ DOMAIN states = 0 .. nextID - 1 /\ DOMAIN nodeTable = DOMAIN states
           /\ \A x \in Nodes : nodeId[x] = 0 <=> x = Root
           /\ key \in [Nodes -> Seq(Char)]
<1>1. /\ pending \in Seq(Nodes) /\ Apart(pending) /\ nodeId \in [Nodes -> Int]
      /\ nextID \in Nat /\ DOMAIN nodeTable = 0 .. nextID - 1 /\ DOMAIN states = DOMAIN nodeTable
      /\ \A i \in DOMAIN pending : ~ Interior(pending[i])
      /\ \A x \in Nodes : nodeId[x] = 0 <=> x = Root
  BY DEF Generated, TreeGen
<1>2. n \in Nodes /\ 1 \in DOMAIN pending /\ pending[1] = n
  BY <1>1
<1> QED
  BY <1>1, <1>2 DEF Generated, KeyInv, Queued

\* A branch.
LEMMA BranchGenerated ==
    ASSUME Built, Generated(pending), AllFresh, maxGotos \in GotoLimits, GenerateBranch
    PROVE  Generated(pending)' /\ AllFresh'
<1> DEFINE n == Head(pending)
           hs == ChildrenInOrder(n)
           charOf(m) == CHOOSE c \in Chars(n) : gotos[n][c] = m
<1>0. PICK g \in Garbage :
         addState(generateEmptyBranchState(BranchType(n), nextID, numGotos(n), GotosToL12(n), g), n)
  BY DEF GenerateBranch
<1>g. g \in Byte
  BY CMAssumption
<1> DEFINE d == generateEmptyBranchState(BranchType(n), nextID, numGotos(n), GotosToL12(n), g)
<1>1. /\ pending # <<>> /\ numGotos(n) > 1 /\ UNCHANGED acVars
      /\ key' = [m \in Nodes |-> IF m \in ToSet(hs) /\ depth[m] \in {1, 2} THEN KeyOfChild(n, charOf(m)) ELSE key[m]]
      /\ pending' = Tail(pending) \o hs
      /\ addState(d, n)
      /\ nodeId' = [m \in Nodes |-> IF m = n THEN nextID ELSE IF m \in ToSet(hs) THEN -1 ELSE nodeId[m]]
  BY <1>0 DEF GenerateBranch
<1>2. /\ n \in Nodes /\ 1 \in DOMAIN pending /\ pending[1] = n /\ ~ Interior(n) /\ Queued(pending, n)
      /\ pending \in Seq(Nodes) /\ Apart(pending) /\ nodeId \in [Nodes -> Int]
      /\ nextID \in Nat /\ DOMAIN states = 0 .. nextID - 1 /\ DOMAIN nodeTable = DOMAIN states
      /\ \A x \in Nodes : nodeId[x] = 0 <=> x = Root
      /\ key \in [Nodes -> Seq(Char)]
  BY <1>1, HeadFacts
<1>3. ChildrenBelow(n, hs)
  BY <1>2, ChildrenOfNode
<1>4. \A c \in Chars(n) : ~ Interior(gotos[n][c]) /\ gotos[n][c] \in Nodes \ {Root}
  BY <1>1, <1>2, BranchChild
<1> HIDE DEF n, hs, d, charOf
<1>5. /\ Heads(n, hs)
      /\ \A i \in DOMAIN hs : hs[i] \in Nodes /\ hs[i] \in ToSet(hs) /\ ~ Interior(hs[i])
                              /\ \E c \in Chars(n) : hs[i] = gotos[n][c]
      /\ \A m \in Nodes : Under(n, m) /\ m # n => OpenIn(hs, m)
      /\ \A m \in ToSet(hs) : \E i \in DOMAIN hs : m = hs[i]
  BY <1>3, <1>4 DEF ChildrenBelow
<1>6. Under(n, n) /\ \A i \in DOMAIN hs : Under(n, hs[i]) /\ hs[i] # n
  <2>1. word[n] \in Seq(Char)
    BY <1>2, TypeFacts DEF Built
  <2>2. Under(n, n)
    BY <2>1, BeginsOrder DEF Under
  <2> QED
    BY <2>2, <1>5 DEF Heads
<1>7. ~ IsLeaf(n)
  BY <1>1, <1>2, GotoCount
<1>8. /\ nodeId' \in [Nodes -> Int] /\ nodeId'[n] = nextID
      /\ \A i \in DOMAIN hs : nodeId'[hs[i]] = -1
      /\ \A m \in Nodes : ~ Under(n, m) => nodeId'[m] = nodeId[m]
      /\ \A m \in Nodes : Under(n, m) /\ m # n => nodeId'[m] = nodeId[m] \/ nodeId'[m] \in {-1, -2}
  BY <1>1, <1>2, <1>5, <1>6
<1>9. TreeGen(pending, nodeId, nodeTable, nextID)
  BY DEF Generated
<1>10. nodeTable' = Put(nodeTable, nextID, n) /\ nextID' = nextID + 1 /\ DOMAIN states' = DOMAIN nodeTable'
  BY <1>1, <1>2, StateIsAdded
<1>11. TreeGen(pending', nodeId', nodeTable', nextID')
  <2> DEFINE nu == nodeTable'
             jds == nodeId'
             K == nextID
  <2>1. /\ TreeGen(pending, nodeId, nodeTable, K) /\ pending # <<>> /\ n = Head(pending) /\ ~ IsLeaf(n)
        /\ Heads(n, hs) /\ jds \in [Nodes -> Int] /\ jds[n] = K /\ nu = Put(nodeTable, K, n)
        /\ \A i \in DOMAIN hs : ~ Interior(hs[i]) /\ jds[hs[i]] = -1
        /\ \A m \in Nodes : ~ Under(n, m) => jds[m] = nodeId[m]
        /\ \A m \in Nodes : Under(n, m) /\ m # n => jds[m] = nodeId[m] \/ jds[m] \in {-1, -2}
        /\ \A m \in Nodes : Under(n, m) /\ m # n /\ ~ OpenIn(hs, m) => Interior(m) /\ jds[m] = -2
    BY <1>1, <1>5, <1>7, <1>8, <1>9, <1>10 DEF n
  <2> HIDE DEF nu, jds, K
  <2>2. TreeGen(Tail(pending) \o hs, jds, nu, K + 1)
    BY <2>1, StateIsNumbered
  <2> QED
    BY <2>2, <1>1, <1>10 DEF nu, jds, K
<1>12. KeyInv(pending', key')
  <2>1. Replaced(pending, n, hs, pending')
    <3>1. n = Head(pending)
      BY DEF n
    <3> QED
      BY <3>1, <1>1, <1>2, <1>5, HeadIsReplaced
  <2>2. \A m \in Nodes : /\ m \notin ToSet(hs) => key'[m] = key[m]
                         /\ m \in ToSet(hs) => key'[m] = IF depth[m] \in {1, 2} THEN KeyOfChild(n, charOf(m)) ELSE key[m]
    BY <1>1
  <2>3. ASSUME NEW i \in DOMAIN hs
        PROVE  /\ key'[hs[i]] \in Seq(Char)
               /\ key'[hs[i]] = <<>> \/ (Keyed(hs[i]) /\ key'[hs[i]] = word[hs[i]])
               /\ Keyed(hs[i]) => key'[hs[i]] = word[hs[i]]
    <3> DEFINE m == hs[i]
               e == key'[m]
               c == charOf(m)
    <3>1. c \in Chars(n) /\ m = gotos[n][c]
      BY <1>5 DEF charOf
    <3>2. e = IF depth[m] \in {1, 2} THEN KeyOfChild(n, c) ELSE key[m]
      BY <2>2, <1>5
    <3>3. KeyInv(pending, key)
      BY DEF Generated
    <3> HIDE DEF m, e, c
    <3>4. e \in Seq(Char) /\ (e = <<>> \/ (Keyed(m) /\ e = word[m])) /\ (Keyed(m) => e = word[m])
      <4>1. KeyInv(pending, key) /\ n \in Nodes /\ numGotos(n) > 1 /\ ~ Interior(n) /\ Queued(pending, n)
        BY <3>3, <1>1, <1>2
      <4> QED
        BY <3>1, <3>2, <4>1, BranchKeys
    <3> QED
      BY <3>4 DEF m, e
  <2>4. key' \in [Nodes -> Seq(Char)]
    <3>1. ASSUME NEW m \in Nodes PROVE key'[m] \in Seq(Char)
      <4>1. CASE m \in ToSet(hs)
        <5>1. PICK i \in DOMAIN hs : m = hs[i]
          BY <4>1, <1>5
        <5> QED
          BY <5>1, <2>3
      <4>2. CASE m \notin ToSet(hs)
        BY <4>2, <2>2, <1>2
      <4> QED
        BY <4>1, <4>2
    <3>2. key' = [m \in Nodes |-> key'[m]]
      BY <1>1
    <3> QED
      BY <3>1, <3>2
  <2>5. \A m \in Nodes : ~ Queued(hs, m) => key'[m] = key[m]
    BY <2>2, <1>5 DEF Queued
  <2>6. KeyInv(pending, key)
    BY DEF Generated
  <2> DEFINE ks == key'
             r == pending'
  <2>7. Replaced(pending, n, hs, r) /\ NewKeys(n, hs, key, ks)
    BY <2>1, <2>3, <2>4, <2>5, <1>5 DEF NewKeys
  <2> HIDE DEF ks, r
  <2>8. KeyInv(r, ks)
    <3>1. KeyInv(pending, key) /\ n \in Nodes /\ Queued(pending, n)
      BY <2>6, <1>2
    <3> QED
      BY <2>7, <3>1, KeysAreAdded
  <2> QED
    BY <2>8 DEF ks, r
<1>13. AllFresh'
  <2>1. nextID \in StateId => Fresh(d, nextID, n)
    BY <1>g, <1>1, <1>2, BranchIsFresh DEF d
  <2> QED
    BY <2>1, <1>1, <1>2, FreshIsAdded
<1> QED
  BY <1>1, <1>10, <1>11, <1>12, <1>13, GeneratedStays DEF Generated

\* A path.
LEMMA PathGenerated ==
    ASSUME Built, Generated(pending), AllFresh, GeneratePath
    PROVE  Generated(pending)' /\ AllFresh'
<1> DEFINE n == Head(pending)
           end == PathEnd(n)
           hs == IF EndsInLeaf(n) THEN <<>> ELSE <<end>>
<1>0. PICK g \in Garbage : addState(createEmptyState_PC(nextID, Len(Path(n)), FailuresToL12(n), g), n)
  BY DEF GeneratePath
<1>g. g \in Byte
  BY CMAssumption
<1> DEFINE d == createEmptyState_PC(nextID, Len(Path(n)), FailuresToL12(n), g)
<1>1. /\ pending # <<>> /\ numGotos(n) = 1 /\ UNCHANGED acVars
      /\ addState(d, n)
      /\ nodeId' = [m \in Nodes |->
                      IF m = n THEN nextID
                      ELSE IF m \in ToSet(Path(n)) \ {n} \/ (m = end /\ EndsInLeaf(n)) THEN -2
                      ELSE IF m = end THEN -1 ELSE nodeId[m]]
      /\ EndsInLeaf(n) => key' = key /\ pending' = Tail(pending)
      /\ ~ EndsInLeaf(n) =>
            /\ pending' = Append(Tail(pending), end)
            /\ key' = IF Len(key[n]) = 1 /\ Len(Path(n)) = 1
                      THEN [key EXCEPT ![end] = <<key[n][1], Only(n)>>] ELSE key
  BY <1>0 DEF GeneratePath
<1>2. /\ n \in Nodes /\ 1 \in DOMAIN pending /\ pending[1] = n /\ ~ Interior(n) /\ Queued(pending, n)
      /\ pending \in Seq(Nodes) /\ Apart(pending) /\ nodeId \in [Nodes -> Int]
      /\ nextID \in Nat /\ DOMAIN states = 0 .. nextID - 1 /\ DOMAIN nodeTable = DOMAIN states
      /\ \A x \in Nodes : nodeId[x] = 0 <=> x = Root
      /\ key \in [Nodes -> Seq(Char)]
  BY <1>1, HeadFacts
<1>3. PICK l \in Nat : PathWalk(n, l)
  BY <1>1, <1>2, PathOf
<1>4. PathCover(n, l)
  BY <1>2, <1>3, PathCovers
<1>5. /\ end \in Nodes \ {Root} /\ Path(n)[1] = n /\ l \in 1 .. MAX_PATH_LENGTH /\ DOMAIN Path(n) = 1 .. l
      /\ ToSet(Path(n)) = {Path(n)[k] : k \in 1 .. l}
      /\ \A k \in 1 .. l : Path(n)[k] \in Nodes
  <2>1. DOMAIN Path(n) = 1 .. l
    BY <1>3 DEF PathWalk
  <2> QED
    BY <2>1, <1>3 DEF PathWalk, ToSet
<1>6. /\ \A m \in Nodes : Under(n, m) => (\E k \in 1 .. l : m = Path(n)[k]) \/ Under(end, m)
      /\ \A k \in 1 .. l : Under(n, Path(n)[k]) /\ (k # 1 => Path(n)[k] # n /\ Interior(Path(n)[k]))
      /\ Under(n, end) /\ ~ Under(end, n)
      /\ EndsInLeaf(n) => IsLeaf(end) /\ Interior(end)
      /\ ~ EndsInLeaf(n) => ~ IsLeaf(end) /\ ~ Interior(end)
  BY <1>4 DEF PathCover, Under
<1>7. ~ IsLeaf(n)
  BY <1>1, <1>2, GotoCount
<1>8. Under(n, n) /\ Under(end, end)
  <2>1. word[n] \in Seq(Char) /\ word[end] \in Seq(Char)
    BY <1>2, <1>5, TypeFacts DEF Built
  <2> QED
    BY <2>1, BeginsOrder DEF Under
<1> HIDE DEF n, hs, d, end
<1>9. /\ hs \in Seq(Nodes) /\ \A i \in DOMAIN hs : hs[i] = end /\ i = 1 /\ ~ EndsInLeaf(n)
      /\ EndsInLeaf(n) => hs = <<>>
      /\ ~ EndsInLeaf(n) => hs = <<end>> /\ 1 \in DOMAIN hs
  BY <1>5 DEF hs
<1>10. Heads(n, hs)
  <2>1. Apart(hs)
    BY <1>9 DEF Apart
  <2> QED
    BY <2>1, <1>6, <1>9 DEF Heads
<1>11. \A m \in Nodes : OpenIn(hs, m) <=> ~ EndsInLeaf(n) /\ Under(end, m)
  BY <1>9 DEF OpenIn, Under
<1>12. pending' = Tail(pending) \o hs
  <2>1. Tail(pending) \in Seq(Nodes) /\ end \in Nodes
    BY <1>1, <1>2, <1>5
  <2>2. Append(Tail(pending), end) = Tail(pending) \o <<end>> /\ Tail(pending) \o <<>> = Tail(pending)
    BY <2>1, AppendIsConcat
  <2> QED
    BY <2>2, <1>1, <1>9
<1>13. EndsInLeaf(n) => \A m \in Nodes : Under(end, m) => m = end
  <2> SUFFICES ASSUME EndsInLeaf(n), NEW m \in Nodes, Under(end, m), m # end PROVE FALSE
    OBVIOUS
  <2>1. \E c \in Chars(end) : Begins(Append(word[end], c), word[m])
    BY <1>5, BelowNode DEF Built, Under
  <2> QED
    BY <2>1, <1>6 DEF IsLeaf
<1>14. end # n /\ \A k \in 1 .. l : Path(n)[k] = end => EndsInLeaf(n)
  <2>1. end # n
    BY <1>6, <1>8
  <2> QED
    BY <2>1, <1>5, <1>6
<1>15. /\ nodeId' \in [Nodes -> Int] /\ nodeId'[n] = nextID
       /\ \A i \in DOMAIN hs : ~ Interior(hs[i]) /\ nodeId'[hs[i]] = -1
       /\ \A m \in Nodes : ~ Under(n, m) => nodeId'[m] = nodeId[m]
       /\ \A m \in Nodes : Under(n, m) /\ m # n => nodeId'[m] = nodeId[m] \/ nodeId'[m] \in {-1, -2}
  <2>1. nodeId' \in [Nodes -> Int] /\ nodeId'[n] = nextID
    BY <1>1, <1>2
  <2>2. \A i \in DOMAIN hs : ~ Interior(hs[i]) /\ nodeId'[hs[i]] = -1
    <3>1. ~ EndsInLeaf(n) => end \notin ToSet(Path(n))
      BY <1>5, <1>14
    <3> QED
      BY <3>1, <1>1, <1>5, <1>6, <1>9, <1>14
  <2>3. \A m \in Nodes : ~ Under(n, m) => nodeId'[m] = nodeId[m]
    BY <1>1, <1>5, <1>6, <1>8
  <2>4. \A m \in Nodes : m # n => nodeId'[m] = nodeId[m] \/ nodeId'[m] \in {-1, -2}
    BY <1>1
  <2> QED
    BY <2>1, <2>2, <2>3, <2>4
<1>16. \A m \in Nodes : Under(n, m) /\ m # n /\ ~ OpenIn(hs, m) => Interior(m) /\ nodeId'[m] = -2
  <2> SUFFICES ASSUME NEW m \in Nodes, Under(n, m), m # n, ~ OpenIn(hs, m)
               PROVE  Interior(m) /\ nodeId'[m] = -2
    OBVIOUS
  <2>1. (\E k \in 1 .. l : m = Path(n)[k] /\ k # 1) \/ (EndsInLeaf(n) /\ m = end)
    BY <1>5, <1>6, <1>11, <1>13
  <2>2. Interior(m)
    BY <2>1, <1>6
  <2>3. m \in ToSet(Path(n)) \ {n} \/ (m = end /\ EndsInLeaf(n))
    BY <2>1, <1>5
  <2> QED
    BY <2>2, <2>3, <1>1
<1>17. TreeGen(pending, nodeId, nodeTable, nextID) /\ KeyInv(pending, key)
  BY DEF Generated
<1>18. nodeTable' = Put(nodeTable, nextID, n) /\ nextID' = nextID + 1 /\ DOMAIN states' = DOMAIN nodeTable'
  BY <1>1, <1>2, StateIsAdded
<1>19. n = Head(pending)
  BY DEF n
<1>20. TreeGen(pending', nodeId', nodeTable', nextID')
  <2> DEFINE nu == nodeTable'
             jds == nodeId'
             K == nextID
  <2>1. /\ TreeGen(pending, nodeId, nodeTable, K) /\ pending # <<>> /\ n = Head(pending) /\ ~ IsLeaf(n)
        /\ Heads(n, hs) /\ jds \in [Nodes -> Int] /\ jds[n] = K /\ nu = Put(nodeTable, K, n)
        /\ \A i \in DOMAIN hs : ~ Interior(hs[i]) /\ jds[hs[i]] = -1
        /\ \A m \in Nodes : ~ Under(n, m) => jds[m] = nodeId[m]
        /\ \A m \in Nodes : Under(n, m) /\ m # n => jds[m] = nodeId[m] \/ jds[m] \in {-1, -2}
        /\ \A m \in Nodes : Under(n, m) /\ m # n /\ ~ OpenIn(hs, m) => Interior(m) /\ jds[m] = -2
    BY <1>1, <1>7, <1>10, <1>15, <1>16, <1>17, <1>18, <1>19
  <2> HIDE DEF nu, jds, K
  <2>2. TreeGen(Tail(pending) \o hs, jds, nu, K + 1)
    BY <2>1, StateIsNumbered
  <2>3. nodeTable' = nu /\ nodeId' = jds /\ nextID' = K + 1
    BY <1>18 DEF nu, jds, K
  <2>4. pending' = Tail(pending) \o hs
    BY <1>12
  <2> QED
    BY <2>2, <2>3, <2>4
<1>21. KeyInv(pending', key')
  <2> DEFINE e == KeyAtEnd(n, end)
  <2>1. e \in Seq(Char) /\ (e = <<>> \/ (Keyed(end) /\ e = word[end])) /\ (Keyed(end) => e = word[end])
    <3>1. n \in Nodes /\ numGotos(n) = 1 /\ ~ Interior(n) /\ Queued(pending, n)
      BY <1>1, <1>2
    <3>2. KeyInv(pending, key) /\ end = PathEnd(n)
      BY <1>17 DEF end
    <3> HIDE DEF e
    <3>3. RightKey(KeyAtEnd(n, end), end)
      BY <3>1, <3>2, <1>3, PathKeys
    <3> QED
      BY <3>3 DEF RightKey, e
  <2>2. ~ EndsInLeaf(n) => key' = [key EXCEPT ![end] = e]
    <3>1. key = [key EXCEPT ![end] = key[end]]
      BY <1>2
    <3> QED
      BY <3>1, <1>1 DEF KeyAtEnd
  <2> HIDE DEF e
  <2>3. /\ key' \in [Nodes -> Seq(Char)]
        /\ \A m \in Nodes : ~ Queued(hs, m) => key'[m] = key[m]
        /\ ~ EndsInLeaf(n) => key'[end] = e
    <3>1. CASE EndsInLeaf(n)
      BY <3>1, <1>1, <1>2
    <3>2. CASE ~ EndsInLeaf(n)
      <4>1. Queued(hs, end)
        BY <3>2, <1>9 DEF Queued
      <4> QED
        BY ZenonT(30), <3>2, <4>1, <2>1, <2>2, <1>2, <1>5
    <3> QED
      BY <3>1, <3>2
  <2>4. Replaced(pending, n, hs, pending')
    BY <1>1, <1>2, <1>10, <1>12, <1>19, HeadIsReplaced
  <2> DEFINE ks == key'
             r == pending'
  <2>6. \A m \in Nodes : Under(n, m) /\ m # n /\ StateNode(m) => OpenIn(hs, m)
    BY <1>16 DEF StateNode
  <2>5. Replaced(pending, n, hs, r) /\ NewKeys(n, hs, key, ks)
    BY <2>1, <2>3, <2>4, <2>6, <1>5, <1>9 DEF NewKeys
  <2> HIDE DEF ks, r
  <2>7. KeyInv(r, ks)
    BY <2>5, <1>2, <1>17, KeysAreAdded
  <2> QED
    BY <2>7 DEF ks, r
<1>22. AllFresh'
  <2>1. nextID \in StateId => Fresh(d, nextID, n)
    BY <1>g, <1>1, <1>2, PathIsFresh DEF d
  <2> QED
    BY <2>1, <1>1, <1>2, FreshIsAdded
<1> QED
  BY <1>1, <1>18, <1>20, <1>21, <1>22, GeneratedStays DEF Generated

\* A leaf.
LEMMA LeafGenerated ==
    ASSUME Built, Generated(pending), AllFresh, SkipLeaf
    PROVE  Generated(pending)' /\ AllFresh'
<1> DEFINE n == Head(pending)
<1>1. /\ pending # <<>> /\ IsLeaf(n) /\ UNCHANGED acVars /\ pending' = Tail(pending)
      /\ UNCHANGED <<nodeId, key, states, nodeTable>>
  BY DEF SkipLeaf, machineVars
<1>2. /\ n \in Nodes /\ 1 \in DOMAIN pending /\ pending[1] = n /\ ~ Interior(n) /\ Queued(pending, n)
      /\ pending \in Seq(Nodes) /\ Apart(pending) /\ key \in [Nodes -> Seq(Char)]
  BY <1>1, HeadFacts
<1> HIDE DEF n
<1>3. TreeGen(pending, nodeId, nodeTable, nextID) /\ KeyInv(pending, key) /\ DOMAIN states = DOMAIN nodeTable
  BY DEF Generated
<1>4. n = Head(pending)
  BY DEF n
<1>5. TreeGen(Tail(pending), nodeId, nodeTable, nextID)
  <2> DEFINE K == nextID
  <2> HIDE DEF K
  <2>1. TreeGen(pending, nodeId, nodeTable, K)
    BY <1>3 DEF K
  <2>2. TreeGen(Tail(pending), nodeId, nodeTable, K)
    BY <1>1, <1>4, <2>1, LeafIsSkipped
  <2> QED
    BY <2>2 DEF K
<1>6. KeyInv(Tail(pending), key)
  <2> DEFINE hs == <<>>
  <2>1. Heads(n, hs) /\ DOMAIN hs = {}
    BY DEF Heads, Apart
  <2>2. Tail(pending) \o hs = Tail(pending)
    <3>1. Tail(pending) \in Seq(Nodes)
      BY <1>1, <1>2
    <3> QED
      BY <3>1
  <2>3. \A m \in Nodes : Under(n, m) /\ m # n => FALSE
    <3> SUFFICES ASSUME NEW m \in Nodes, Under(n, m), m # n PROVE FALSE
      OBVIOUS
    <3>1. \E c \in Chars(n) : Begins(Append(word[n], c), word[m])
      BY <1>2, BelowNode DEF Built, Under
    <3> QED
      BY <3>1, <1>1 DEF IsLeaf
  <2> HIDE DEF hs
  <2>4. Replaced(pending, n, hs, Tail(pending))
    <3>1. Replaced(pending, n, hs, Tail(pending) \o hs)
      BY <1>1, <1>2, <1>4, <2>1, HeadIsReplaced
    <3> QED
      BY <3>1, <2>2
  <2>5. NewKeys(n, hs, key, key)
    BY <2>1, <2>3, <1>2 DEF NewKeys
  <2> QED
    BY <2>4, <2>5, <1>2, <1>3, KeysAreAdded
<1>7. nextID' = nextID
  BY <1>1 DEF nextID
<1>8. AllFresh'
  BY <1>1, <1>7, GeneratedStays DEF AllFresh, IdsFit
<1> QED
  BY <1>1, <1>3, <1>5, <1>6, <1>7, <1>8, GeneratedStays DEF Generated

-----------------------------------------------------------------------------
(* generateStates numbers every tree.                                      *)

\* Before it starts nothing is there.
Nothing == states = Empty /\ nodeTable = Empty /\ nextID = 0 /\ pending = <<>>

GenInv ==
    /\ maxGotos \in GotoLimits
    /\ cpc = "tree" => Nothing
    /\ cpc = "generate" => Generated(pending) /\ AllFresh
    /\ cpc \notin {"tree", "generate"} => Generated(<<>>)

\* What does not touch the nodes keeps the numbers.
LEMMA NumbersStay ==
    ASSUME UNCHANGED acVars, UNCHANGED <<nodeId, key, nodeTable>>, DOMAIN states' = DOMAIN states
    PROVE  /\ \A q : Generated(q)' = Generated(q)
           /\ nextID' = nextID /\ IdsFit' = IdsFit
<1>1. nextID' = nextID
  BY DEF nextID
<1> QED
  BY <1>1, GeneratedStays DEF Generated, IdsFit

\* The queue and the numbers when generateStates starts.
LEMMA GenerationStarts ==
    ASSUME Built, Nothing, NEW ids, ids = [n \in Nodes |-> n], NEW ks, ks = [n \in Nodes |-> <<>>]
    PROVE  TreeGen(<<Root>>, ids, nodeTable, nextID) /\ KeyInv(<<Root>>, ks)
<1>1. /\ Root \in Nodes /\ Root = 0 /\ Nodes \subseteq Nat /\ word[Root] = <<>> /\ depth[Root] = 0
      /\ \A n \in Nodes : word[n] \in Seq(Char)
  BY RootFacts, TypeFacts DEF Built, Nodes, Root
<1> DEFINE q == <<Root>>
<1>2. q \in Seq(Nodes) /\ DOMAIN q = {1} /\ q[1] = Root
  BY <1>1
<1> HIDE DEF q
<1>3. \A n \in Nodes : OpenIn(q, n)
  <2> SUFFICES ASSUME NEW n \in Nodes PROVE OpenIn(q, n)
    OBVIOUS
  <2>1. word[n] \in Seq(Char) /\ word[Root] = <<>>
    BY <1>1
  <2>2. Begins(word[Root], word[n])
    BY <2>1 DEF Begins
  <2> QED
    BY <2>2, <1>2 DEF OpenIn
<1>4. Apart(q) /\ \A i \in DOMAIN q : ~ Interior(q[i]) /\ q[i] = Root
  BY <1>2 DEF Apart, Interior
<1>5. nextID = 0 /\ DOMAIN nodeTable = {} /\ {} = 0 .. 0 - 1
  BY DEF Nothing, Empty
<1>6. ids \in [Nodes -> Int] /\ \A n \in Nodes : ids[n] = 0 <=> n = Root
  BY <1>1
<1>7. TreeGen(q, ids, nodeTable, nextID)
  BY <1>2, <1>3, <1>4, <1>5, <1>6 DEF TreeGen
<1>8. KeyInv(q, ks)
  <2>1. ks \in [Nodes -> Seq(Char)] /\ \A n \in Nodes : ks[n] = <<>>
    OBVIOUS
  <2>2. ASSUME NEW n \in Nodes, Keyed(n), OpenIn(q, n) => Queued(q, n) PROVE FALSE
    <3>1. n = Root
      BY <2>2, <1>3, <1>4 DEF Queued
    <3> QED
      BY <3>1, <2>2, <1>1 DEF Keyed
  <2> QED
    BY <2>1, <2>2 DEF KeyInv
<1> QED
  BY <1>7, <1>8 DEF q

LEMMA GenInvKept ==
    ASSUME GenInv, cpc # "tree" => Built, cpc' # "tree" => Built', [CMNext]_<<acVars, cmVars>>
    PROVE  GenInv'
<1>1. CASE BuildTree
  <2>1. cpc = "tree" /\ Nothing /\ maxGotos \in GotoLimits
    BY <1>1 DEF BuildTree, GenInv
  <2>2. CASE BuildStep /\ UNCHANGED cmVars
    <3>1. UNCHANGED <<cpc, maxGotos, states, nodeTable, pending>>
      BY <2>2 DEF cmVars, machineVars
    <3> QED
      BY <2>1, <3>1 DEF GenInv, Nothing, nextID
  <2>3. CASE ~ (BuildStep /\ UNCHANGED cmVars)
    <3>1. /\ cpc' = "generate" /\ pending' = <<Root>>
          /\ nodeId' = [n \in Nodes |-> n] /\ key' = [n \in Nodes |-> <<>>]
          /\ UNCHANGED acVars /\ UNCHANGED <<maxGotos, states, nodeTable>>
      BY <1>1, <2>3 DEF BuildTree, machineVars
    <3>2. Built
      BY <3>1, TreeStays
    <3>3. TreeGen(<<Root>>, nodeId', nodeTable, nextID) /\ KeyInv(<<Root>>, key')
      BY <2>1, <3>1, <3>2, GenerationStarts
    <3>4. nextID' = nextID /\ DOMAIN states = {} /\ DOMAIN nodeTable = {}
      BY <2>1, <3>1 DEF nextID, Nothing, Empty
    <3>5. Generated(pending)'
      BY <3>1, <3>3, <3>4, GeneratedStays DEF Generated
    <3>6. AllFresh'
      BY <3>1, <3>4 DEF AllFresh
    <3> QED
      BY <2>1, <3>1, <3>5, <3>6 DEF GenInv
  <2> QED
    BY <2>2, <2>3
<1>2. CASE GenerateBranch \/ GeneratePath \/ SkipLeaf
  <2>1. cpc = "generate" /\ UNCHANGED <<cpc, maxGotos>>
    BY <1>2 DEF GenerateBranch, GeneratePath, SkipLeaf
  <2>2. Built /\ Generated(pending) /\ AllFresh /\ maxGotos \in GotoLimits
    BY <2>1 DEF GenInv
  <2>3. Generated(pending)' /\ AllFresh'
    BY <1>2, <2>2, BranchGenerated, PathGenerated, LeafGenerated
  <2> QED
    BY <2>1, <2>2, <2>3 DEF GenInv
<1>3. CASE EndGenerate
  <2>1. /\ cpc = "generate" /\ pending = <<>> /\ cpc' = "data" /\ UNCHANGED acVars
        /\ UNCHANGED <<maxGotos, nodeId, key, states, nodeTable>>
    BY <1>3 DEF EndGenerate, machineVars
  <2>2. Generated(<<>>) /\ maxGotos \in GotoLimits
    BY <2>1 DEF GenInv
  <2> QED
    BY <2>1, <2>2, NumbersStay DEF GenInv
<1>4. CASE ~ (BuildTree \/ GenerateBranch \/ GeneratePath \/ SkipLeaf \/ EndGenerate)
  <2>1. CASE UNCHANGED <<acVars, cmVars>>
    <3>1. UNCHANGED acVars /\ UNCHANGED <<cpc, maxGotos, nodeId, key, states, nodeTable, pending>>
      BY <2>1 DEF cmVars, machineVars
    <3>2. AllFresh' = AllFresh /\ Generated(pending)' = Generated(pending)
      BY <3>1, GeneratedStays DEF AllFresh, Generated, IdsFit, nextID
    <3>3. Nothing' = Nothing /\ Generated(<<>>)' = Generated(<<>>)
      BY <3>1, NumbersStay DEF Nothing, nextID
    <3> QED
      BY <3>1, <3>2, <3>3 DEF GenInv
  <2>2. CASE ~ UNCHANGED <<acVars, cmVars>>
    <3>1. /\ cpc \notin {"tree", "generate"} /\ cpc' \notin {"tree", "generate"}
          /\ UNCHANGED acVars /\ UNCHANGED <<maxGotos, nodeId, key, nodeTable>> /\ DOMAIN states' = DOMAIN states
      BY <1>4, <2>2 DEF CMNext, CMStep, CMStopped, createStateMachine, SetNothing, SetBranch, SetPath, EndData,
                       Match, matchIterative, StepInRoot, Step, Return, Stop, machineVars, cmVars
    <3>2. Generated(<<>>) /\ maxGotos \in GotoLimits
      BY <3>1 DEF GenInv
    <3> QED
      BY <3>1, <3>2, NumbersStay DEF GenInv
  <2> QED
    BY <2>1, <2>2
<1> QED
  BY <1>1, <1>2, <1>3, <1>4

\* The generator's numbers, of every execution.
LEMMA GenInvAlways == CMSpec => []GenInv
<1>1. CMInit => GenInv
  <2> SUFFICES ASSUME CMInit PROVE GenInv
    OBVIOUS
  <2>1. cpc = "tree" /\ maxGotos \in GotoLimits /\ states = Empty /\ nodeTable = Empty /\ pending = <<>>
    BY DEF CMInit
  <2>2. nextID = 0
    BY <2>1, FS_EmptySet DEF nextID, Empty
  <2> QED
    BY <2>1, <2>2 DEF GenInv, Nothing
<1>2. GenInv /\ (cpc # "tree" => Built) /\ (cpc # "tree" => Built)' /\ [CMNext]_<<acVars, cmVars>> => GenInv'
  BY GenInvKept
<1> QED
  BY <1>1, <1>2, BuiltAlways, PTL DEF CMSpec

-----------------------------------------------------------------------------
(* Elements at some positions.                                             *)

\* f has every element of S once, and they increase.
Lists(f, S) ==
    /\ f \in Seq(S) /\ \A x \in S : \E i \in DOMAIN f : f[i] = x
    /\ \A i, j \in DOMAIN f : f[i] = f[j] => i = j
Rises(f, k) == k \in Nat /\ DOMAIN f = 1 .. k /\ \A i, j \in 1 .. k : i < j => f[i] < f[j]

\* A set of numbers in their order.
LEMMA InOrderIs ==
    ASSUME NEW b \in Nat, NEW S \in SUBSET (0 .. b), NEW f, f = InOrder(S)
    PROVE  Lists(f, S) /\ Rises(f, Cardinality(S)) /\ IsFiniteSet(S)
<1> DEFINE k == Cardinality(S)
           g == [x \in S |-> x]
<1>2. IsFiniteSet(S) /\ k \in Nat
  <2>1. IsFiniteSet(0 .. b)
    BY FS_Interval
  <2>2. IsFiniteSet(S)
    BY <2>1, FS_Subset
  <2> QED
    BY <2>2, FS_CardinalityType
<1>3. g \in [S -> 0 .. b] /\ \A x, y \in S : g[x] = g[y] => x = y
  OBVIOUS
<1>4. \A x \in S : g[x] = x /\ x \in Nat
  OBVIOUS
<1> HIDE DEF g
<1>5. PICK h \in [1 .. k -> S] : \A i, j \in DOMAIN h : i < j => g[h[i]] < g[h[j]]
  BY <1>2, <1>3, Enumeration
<1>6. \A i, j \in DOMAIN h : i < j => h[i] < h[j]
  BY <1>4, <1>5
<1>7. f \in [1 .. k -> S] /\ \A i, j \in DOMAIN f : i < j => f[i] < f[j]
  BY <1>5, <1>6 DEF InOrder
<1> HIDE DEF k
<1>8. DOMAIN f = 1 .. k /\ \A i \in 1 .. k : f[i] \in S /\ f[i] \in Nat
  <2>1. DOMAIN f = 1 .. k /\ \A i \in 1 .. k : f[i] \in S
    BY <1>7
  <2> QED
    BY <2>1, <1>4
<1>9. \A i, j \in 1 .. k : f[i] = f[j] => i = j
  <2> SUFFICES ASSUME NEW i \in 1 .. k, NEW j \in 1 .. k, i < j PROVE f[i] # f[j]
    BY <1>2
  <2>1. f[i] < f[j] /\ f[i] \in Nat
    BY <1>7, <1>8
  <2> QED
    BY <2>1
<1>10. Image(f, 1 .. k) = S
  <2>1. Cardinality(Image(f, 1 .. k)) = Cardinality(1 .. k)
    BY <1>2, <1>8, <1>9, ImageSize
  <2>2. Cardinality(1 .. k) = k
    <3>1. Cardinality(1 .. k) = IF 1 > k THEN 0 ELSE k - 1 + 1
      BY <1>2, FS_Interval
    <3> QED
      BY <3>1, <1>2
  <2>3. Image(f, 1 .. k) \subseteq S
    BY <1>8 DEF Image
  <2>4. Cardinality(S) = k
    BY DEF k
  <2> QED
    BY <2>1, <2>2, <2>3, <2>4, <1>2, FS_Subset
<1>11. \A x \in S : \E i \in 1 .. k : f[i] = x
  BY <1>10 DEF Image
<1>12. f \in Seq(S)
  BY <1>2, <1>7, ListIs
<1> QED
  <2>1. Lists(f, S)
    BY <1>8, <1>9, <1>11, <1>12 DEF Lists
  <2>2. Rises(f, k)
    BY <1>2, <1>7, <1>8 DEF Rises
  <2> QED
    BY <1>2, <2>1, <2>2 DEF k

\* ElementsAt takes them out of q in order.
Taken(e, q, S) ==
    /\ e = <<>> <=> S = {}
    /\ Cardinality(S) \in Nat /\ DOMAIN e = 1 .. Cardinality(S) /\ e \in Seq({q[x] : x \in S})
    /\ \A k \in DOMAIN e : InOrder(S)[k] \in S /\ e[k] = q[InOrder(S)[k]]
LEMMA ElementsAre ==
    ASSUME NEW b \in Nat, NEW S \in SUBSET (0 .. b), NEW q, NEW e, e = ElementsAt(q, S)
    PROVE  Taken(e, q, S)
<1> DEFINE at == InOrder(S)
           k == Cardinality(S)
<1>1. at = InOrder(S)
  OBVIOUS
<1>2. e = [i \in 1 .. k |-> q[at[i]]]
  BY DEF ElementsAt
<1> HIDE DEF at
<1>3. Lists(at, S) /\ Rises(at, k) /\ IsFiniteSet(S)
  BY <1>1, InOrderIs
<1>4. k \in Nat /\ DOMAIN at = 1 .. k /\ at \in Seq(S)
  BY <1>3 DEF Lists, Rises
<1>5. \A i \in 1 .. k : at[i] \in S
  BY <1>4
<1>6. k = 0 <=> S = {}
  BY <1>3, FS_EmptySet
<1>7. DOMAIN e = 1 .. k /\ \A i \in 1 .. k : e[i] = q[at[i]]
  BY <1>2
<1>8. e = <<>> <=> k = 0
  <2>1. e = <<>> => 1 .. k = {}
    BY <1>7
  <2>2. k # 0 => 1 \in 1 .. k
    BY <1>4
  <2>3. k = 0 => e = [i \in {} |-> q[at[i]]]
    BY <1>2
  <2>4. [i \in {} |-> q[at[i]]] = <<>>
    OBVIOUS
  <2> QED
    BY <2>1, <2>2, <2>3, <2>4
<1>9. e \in Seq({q[x] : x \in S})
  <2> DEFINE T == {q[x] : x \in S}
  <2>1. \A i \in 1 .. k : q[at[i]] \in T
    BY <1>5
  <2> HIDE DEF T
  <2>2. e \in [1 .. k -> T]
    BY <1>2, <2>1
  <2>3. e \in Seq(T)
    BY <1>4, <2>2, ListIs
  <2> QED
    BY <2>3 DEF T
<1>10. (e = <<>> <=> S = {}) /\ k \in Nat /\ DOMAIN e = 1 .. k
  BY <1>4, <1>6, <1>7, <1>8
<1>11. \A i \in DOMAIN e : at[i] \in S /\ e[i] = q[at[i]]
  BY <1>5, <1>7
<1> QED
  BY <1>9, <1>10, <1>11 DEF Taken, at

\* The elements of two sequences.
LEMMA JoinedAre ==
    ASSUME NEW S, NEW u \in Seq(S), NEW v \in Seq(S), NEW w, w = u \o v
    PROVE  /\ w \in Seq(S) /\ (w = <<>> <=> u = <<>> /\ v = <<>>)
           /\ \A i \in DOMAIN w : (\E j \in DOMAIN u : w[i] = u[j]) \/ (\E j \in DOMAIN v : w[i] = v[j])
<1>1. w \in Seq(S) /\ Len(w) = Len(u) + Len(v) /\ Len(u) \in Nat /\ Len(v) \in Nat
  OBVIOUS
<1>2. (Len(w) = 0 <=> w = <<>>) /\ (Len(u) = 0 <=> u = <<>>) /\ (Len(v) = 0 <=> v = <<>>)
  BY <1>1
<1>3. w = <<>> <=> u = <<>> /\ v = <<>>
  BY <1>1, <1>2
<1>4. ASSUME NEW i \in DOMAIN w
      PROVE  (\E j \in DOMAIN u : w[i] = u[j]) \/ (\E j \in DOMAIN v : w[i] = v[j])
  <2>1. i \in 1 .. Len(u) + Len(v)
    BY <1>1
  <2>2. CASE i <= Len(u)
    <3>1. i \in DOMAIN u /\ w[i] = u[i]
      BY <1>1, <2>1, <2>2
    <3> QED
      BY <3>1
  <2>3. CASE ~ (i <= Len(u))
    <3>1. i - Len(u) \in DOMAIN v /\ w[i] = v[i - Len(u)]
      BY <1>1, <2>1, <2>3
    <3> QED
      BY <3>1
  <2> QED
    BY <2>2, <2>3
<1> QED
  BY <1>1, <1>3, <1>4

-----------------------------------------------------------------------------
(* setRealPointers.                                                        *)

\* The numbers that setStatesData finds.
HasId(n) == n = Root \/ StateNode(n)
Ids ==
    /\ nodeId \in [Nodes -> Int] /\ nextID \in Nat
    /\ DOMAIN states = 0 .. nextID - 1 /\ DOMAIN nodeTable = DOMAIN states
    /\ nodeId[Root] = 0 /\ \A n \in Nodes : nodeId[n] = 0 <=> n = Root
    /\ \A n \in Nodes : HasId(n) <=> nodeId[n] >= 0
    /\ \A n \in Nodes : StateNode(n) => nodeId[n] \in DOMAIN states /\ nodeTable[nodeId[n]] = n
    /\ \A n \in Nodes \ {Root} : ~ StateNode(n) => nodeId[n] = IF Interior(n) THEN -2 ELSE -1
    /\ \A id \in DOMAIN states : StateNode(nodeTable[id]) /\ nodeId[nodeTable[id]] = id
    /\ IdsFit => \A n \in Nodes : HasId(n) => nodeId[n] \in StateId
    /\ \A n \in Nodes : HasId(n) => key[n] = IF Keyed(n) THEN word[n] ELSE <<>>

\* The ids below the value that stands for none.
LEMMA BelowNotFound ==
    \A k \in Nat : k < LOOKUP_VALUE_NOT_FOUND => k \in StateId
<1>1. LOOKUP_VALUE_NOT_FOUND \in Nat
  BY DEF LOOKUP_VALUE_NOT_FOUND
<1> QED
  BY <1>1 DEF StateId

LEMMA IdsAre ==
    ASSUME Built, Generated(<<>>)
    PROVE  Ids
<1>1. /\ nextID \in Nat /\ DOMAIN nodeTable = 0 .. nextID - 1 /\ nodeId \in [Nodes -> Int]
      /\ \A n \in Nodes : nodeId[n] = 0 <=> n = Root
      /\ \A n \in Nodes : OpenIn(<<>>, n) \/ Numbered(n, nodeId, nodeTable)
      /\ \A id \in DOMAIN nodeTable : StateNode(nodeTable[id]) /\ nodeId[nodeTable[id]] = id
  BY DEF Generated, TreeGen
<1>2. \A n \in Nodes : ~ OpenIn(<<>>, n)
  BY DEF OpenIn
<1>3. DOMAIN states = DOMAIN nodeTable
  BY DEF Generated
<1>4. /\ key \in [Nodes -> Seq(Char)]
      /\ \A n \in Nodes : key[n] = <<>> \/ (Keyed(n) /\ key[n] = word[n])
      /\ \A n \in Nodes : Keyed(n) /\ StateNode(n) => key[n] = word[n]
  BY <1>2 DEF Generated, KeyInv
<1>5. Root \in Nodes /\ depth[Root] = 0
  BY RootFacts DEF Built
<1>6. \A n \in Nodes : StateNode(n) => nodeId[n] \in DOMAIN states /\ nodeTable[nodeId[n]] = n
  BY <1>1, <1>2, <1>3 DEF Numbered
<1>7. \A n \in Nodes \ {Root} : ~ StateNode(n) => nodeId[n] = IF Interior(n) THEN -2 ELSE -1
  BY <1>1, <1>2 DEF Numbered
<1>8. \A n \in Nodes : HasId(n) <=> nodeId[n] >= 0
  <2> SUFFICES ASSUME NEW n \in Nodes PROVE HasId(n) <=> nodeId[n] >= 0
    OBVIOUS
  <2>1. CASE HasId(n)
    <3>1. nodeId[n] = 0 \/ nodeId[n] \in 0 .. nextID - 1
      BY <2>1, <1>1, <1>3, <1>6 DEF HasId
    <3>2. nodeId[n] >= 0
      BY <3>1, <1>1
    <3> QED
      BY <3>2, <2>1
  <2>2. CASE ~ HasId(n)
    <3>1. nodeId[n] = -1 \/ nodeId[n] = -2
      BY <2>2, <1>7 DEF HasId
    <3>2. ~ (nodeId[n] >= 0)
      BY <3>1
    <3> QED
      BY <3>2, <2>2
  <2> QED
    BY <2>1, <2>2
<1>9. ASSUME IdsFit, NEW n \in Nodes, HasId(n) PROVE nodeId[n] \in StateId
  <2>1. nodeId[n] = 0 \/ nodeId[n] \in 0 .. nextID - 1
    BY <1>1, <1>3, <1>6, <1>9 DEF HasId
  <2>2. nextID <= LOOKUP_VALUE_NOT_FOUND /\ nextID \in Nat
    BY <1>1, <1>9 DEF IdsFit
  <2>3. nodeId[n] \in Nat /\ nodeId[n] < LOOKUP_VALUE_NOT_FOUND
    <3>1. LOOKUP_VALUE_NOT_FOUND \in Nat /\ 0 < LOOKUP_VALUE_NOT_FOUND
      BY DEF LOOKUP_VALUE_NOT_FOUND
    <3> QED
      BY <2>1, <2>2, <3>1
  <2> QED
    BY <2>3, BelowNotFound
<1>10. \A n \in Nodes : HasId(n) => key[n] = IF Keyed(n) THEN word[n] ELSE <<>>
  BY <1>4, <1>5 DEF HasId, Keyed
<1> QED
  BY <1>1, <1>3, <1>5, <1>6, <1>7, <1>8, <1>9, <1>10 DEF Ids

\* A pointer leads to the node or to its failure.
LEMMA TargetIs ==
    ASSUME Built, Ids, NEW m \in Nodes
    PROVE  /\ HasId(m) => Target(m) = m /\ ToSet(Climbed(m)) = {m}
           /\ ~ HasId(m) => Target(m) = failure[m] /\ ToSet(Climbed(m)) = {m, failure[m]}
           /\ HasId(failure[m]) /\ failure[m] \in Nodes
<1> DEFINE ends == {x \in Nodes : nodeId[x] >= 0}
           w == Climbed(m)
<1>1. Root \in ends /\ \A x \in Nodes : x \in ends <=> HasId(x)
  BY RootFacts DEF Built, Ids, HasId
<1>2. failure[m] \in Nodes /\ HasId(failure[m])
  BY FailuresHaveStates DEF HasId
<1>3. w = Chain(failure, m, ends)
  BY DEF Climbed
<1> HIDE DEF ends, w
<1>4. ChainIs(w, failure, m, ends, Nodes)
  BY <1>1, <1>3, FailureChain
<1>5. /\ m \in ends => Len(w) = 1 /\ Last(w) = m
      /\ m \notin ends /\ failure[m] \in ends => Len(w) = 2 /\ Last(w) = failure[m] /\ w[2] = failure[m]
  BY <1>4, ShortChain
<1>6. w \in Seq(Nodes) /\ w[1] = m
  BY <1>4 DEF ChainIs
<1>7. HasId(m) => Last(w) = m /\ ToSet(w) = {m}
  <2>1. HasId(m) => Len(w) = 1 /\ Last(w) = m
    BY <1>1, <1>5
  <2>2. Len(w) = 1 => ToSet(w) = {m}
    BY <1>6 DEF ToSet
  <2> QED
    BY <2>1, <2>2
<1>8. ~ HasId(m) => Last(w) = failure[m] /\ ToSet(w) = {m, failure[m]}
  <2>1. ~ HasId(m) => Len(w) = 2 /\ Last(w) = failure[m] /\ w[2] = failure[m]
    BY <1>1, <1>2, <1>5
  <2>2. Len(w) = 2 => ToSet(w) = {w[1], w[2]}
    BY <1>6 DEF ToSet
  <2> QED
    BY <2>1, <2>2, <1>6
<1>9. Target(m) = Last(w)
  BY DEF Target, w
<1> QED
  BY <1>2, <1>7, <1>8, <1>9 DEF w

\* The type of a pointer to a node with a state.
TypeOf(m) == IF ~ Keyed(m) THEN REGULAR ELSE IF depth[m] = 1 THEN LEVEL1 ELSE LEVEL2

LEMMA PointerTypeIs ==
    ASSUME Built, Ids, NEW m \in Nodes, HasId(m)
    PROVE  PointerType(m) = TypeOf(m) /\ TypeOf(m) \in {REGULAR, LEVEL1, LEVEL2}
<1>1. key[m] = IF Keyed(m) THEN word[m] ELSE <<>>
  BY DEF Ids
<1>2. depth[m] = Len(word[m]) /\ (Keyed(m) => depth[m] \in {1, 2})
  BY DEF Built, TreeInv, Keyed
<1>3. Len(key[m]) = IF ~ Keyed(m) THEN 0 ELSE IF depth[m] = 1 THEN 1 ELSE 2
  BY <1>1, <1>2
<1> QED
  BY <1>3 DEF PointerType, TypeOf

\* Neither exits nor crashes.
LEMMA PointersAreSet ==
    ASSUME Built, Ids, NEW m \in Nodes
    PROVE  /\ ~ SetPointerExits(failure[m], TRUE)
           /\ HasId(m) \/ IsLeaf(m) => ~ SetPointerCrashes(m)
<1>1. HasId(failure[m]) /\ failure[m] \in Nodes /\ ToSet(Climbed(failure[m])) = {failure[m]}
  BY TargetIs
<1>2. \A x \in Nodes : HasId(x) => ~ (nodeId[x] < 0)
  BY DEF Ids
<1>3. ~ SetPointerExits(failure[m], TRUE)
  BY <1>1, <1>2 DEF SetPointerExits
<1>4. ToSet(Climbed(m)) = IF HasId(m) THEN {m} ELSE {m, failure[m]}
  BY TargetIs
<1>5. ASSUME IsLeaf(m), ~ HasId(m) PROVE message[m] # NoSlot
  BY <1>5 DEF Built, HasId
<1>6. CASE HasId(m)
  <2>1. ~ SetPointerCrashes(m)
    BY <1>2, <1>4, <1>6 DEF SetPointerCrashes
  <2> QED
    BY <2>1, <1>3
<1>7. CASE ~ HasId(m)
  <2>1. \A x \in ToSet(Climbed(m)) : x = m \/ x = failure[m]
    BY <1>4, <1>7
  <2>2. IsLeaf(m) => ~ SetPointerCrashes(m)
    BY <2>1, <1>1, <1>2, <1>5, <1>7 DEF SetPointerCrashes
  <2> QED
    BY <2>2, <1>3, <1>7
<1> QED
  BY <1>3, <1>6, <1>7

\* Where a goto or a failure leads there is a state, or it is the root.
LEMMA LeadsToState ==
    ASSUME Built, NEW m \in Nodes
    PROVE  /\ Leads(m) \in Nodes
           /\ IsLeaf(m) \/ StateNode(m) => HasId(Leads(m))
<1>1. failure[m] \in Nodes /\ HasId(failure[m])
  BY FailuresHaveStates DEF HasId
<1> QED
  BY <1>1 DEF Leads, HasId

-----------------------------------------------------------------------------
(* What setStatesData stores.                                              *)

\* The elements of a branch: its gotos.
BranchSet(n, es) ==
    /\ es \in Seq(Element) /\ Len(es) = numGotos(n) /\ Distinct(es) /\ DOMAIN es = 1 .. numGotos(n)
    /\ \A k \in 1 .. numGotos(n) :
          /\ es[k].c \in Chars(n) /\ es[k].ptr = nodeId[Leads(gotos[n][es[k].c])]
          /\ es[k].type = TypeOf(Leads(gotos[n][es[k].c]))
          /\ gotos[n][es[k].c] = ChildrenInOrder(n)[k]
    /\ \A c \in Chars(n) : \E k \in 1 .. numGotos(n) : es[k].c = c

LEMMA BranchElementIs ==
    ASSUME Built, Ids, IdsFit, NEW n \in Nodes, numGotos(n) > 1, NEW c \in Chars(n),
           NEW e, e = BranchElement(n, c)
    PROVE  /\ e \in Element /\ e.c = c /\ e.ptr = nodeId[Leads(gotos[n][c])]
           /\ e.type = TypeOf(Leads(gotos[n][c]))
<1> DEFINE m == gotos[n][c]
           x == Leads(m)
<1>1. c \in Char /\ c \in Byte
  <2>1. c \in Char
    BY DEF Chars
  <2>2. Char \subseteq 1 .. 127
    BY CMAssumption
  <2> QED
    BY <2>1, <2>2 DEF Byte
<1>2. m \in Nodes \ {Root} /\ ~ Interior(m) /\ (StateNode(m) <=> ~ IsLeaf(m))
  BY BranchChild
<1>3. x \in Nodes /\ HasId(x)
  BY <1>2, LeadsToState
<1>4. Target(m) = x
  <2>1. IsLeaf(m) => ~ HasId(m)
    BY <1>2 DEF HasId
  <2>2. ~ IsLeaf(m) => HasId(m)
    BY <1>2 DEF HasId
  <2>3. Target(m) = IF HasId(m) THEN m ELSE failure[m]
    BY <1>2, TargetIs
  <2> QED
    BY <2>1, <2>2, <2>3 DEF Leads
<1>5. nodeId[x] \in StateId
  BY <1>3 DEF Ids
<1>6. PointerType(x) = TypeOf(x) /\ TypeOf(x) \in {REGULAR, LEVEL1, LEVEL2}
  BY <1>3, PointerTypeIs
<1>7. e = [c |-> c, ptr |-> nodeId[Target(m)], type |-> PointerType(Target(m)),
           match |-> IF Messages(m) = <<>> THEN 0 ELSE 1]
  BY DEF BranchElement
<1> HIDE DEF m, x
<1>8. e = [c |-> c, ptr |-> nodeId[x], type |-> TypeOf(x), match |-> IF Messages(m) = <<>> THEN 0 ELSE 1]
  BY <1>4, <1>6, <1>7
<1>9. (IF Messages(m) = <<>> THEN 0 ELSE 1) \in {0, 1}
  OBVIOUS
<1>10. e \in Element
  BY <1>1, <1>5, <1>6, <1>8, <1>9 DEF Element
<1>11. e.c = c /\ e.ptr = nodeId[x] /\ e.type = TypeOf(x)
  BY <1>8
<1> QED
  BY <1>10, <1>11 DEF x, m

LEMMA BranchElements ==
    ASSUME Built, Ids, IdsFit, NEW n \in Nodes, numGotos(n) > 1,
           NEW es, es = [k \in 1 .. numGotos(n) |-> BranchElement(n, CharsInOrder(n)[k])]
    PROVE  BranchSet(n, es)
<1> DEFINE cs == CharsInOrder(n)
           l == numGotos(n)
<1>1. /\ cs \in Seq(Chars(n)) /\ Len(cs) = l /\ l \in Nat
      /\ \A c \in Chars(n) : \E i \in DOMAIN cs : cs[i] = c
      /\ \A i, j \in DOMAIN cs : cs[i] = cs[j] => i = j
  BY CharsOrder DEF Built
<1>2. ChildrenInOrder(n) = [k \in 1 .. l |-> gotos[n][cs[k]]]
  BY DEF ChildrenInOrder
<1>3. DOMAIN cs = 1 .. l /\ \A k \in 1 .. l : cs[k] \in Chars(n)
  BY <1>1
<1>4. \A k \in 1 .. l : es[k] = BranchElement(n, cs[k])
  OBVIOUS
<1>5. DOMAIN es = 1 .. l
  OBVIOUS
<1> HIDE DEF cs, l
<1>6. ASSUME NEW k \in 1 .. l
      PROVE  /\ es[k] \in Element /\ es[k].c = cs[k] /\ es[k].ptr = nodeId[Leads(gotos[n][cs[k]])]
             /\ es[k].type = TypeOf(Leads(gotos[n][cs[k]]))
  <2> DEFINE c == cs[k]
             e == es[k]
  <2>1. c \in Chars(n) /\ e = BranchElement(n, c)
    BY <1>3, <1>4
  <2> HIDE DEF c, e
  <2>2. /\ e \in Element /\ e.c = c /\ e.ptr = nodeId[Leads(gotos[n][c])]
        /\ e.type = TypeOf(Leads(gotos[n][c]))
    BY <2>1, BranchElementIs
  <2> QED
    BY <2>2 DEF c, e
<1>7. es \in Seq(Element) /\ Len(es) = l
  <2>1. es = [k \in 1 .. l |-> es[k]]
    BY DEF l
  <2> QED
    <3>1. \A k \in 1 .. l : es[k] \in Element
      BY <1>6
    <3>2. es \in [1 .. l -> Element]
      BY <2>1, <3>1
    <3> QED
      BY ZenonT(30), <3>2, <1>1, ListIs
<1> DEFINE f == es
<1> HIDE DEF f
<1>12. /\ DOMAIN f = 1 .. l /\ \A k \in 1 .. l : f[k].c = cs[k]
  BY <1>5, <1>6 DEF f
<1>13. /\ \A c \in Chars(n) : \E k \in 1 .. l : cs[k] = c
       /\ \A i, j \in 1 .. l : cs[i] = cs[j] => i = j
  BY <1>1, <1>3
<1>8. Distinct(es)
  <2>1. Distinct(f)
    BY <1>12, <1>13 DEF Distinct
  <2> QED
    BY <2>1 DEF f
<1>9. \A c \in Chars(n) : \E k \in 1 .. l : es[k].c = c
  <2>1. \A c \in Chars(n) : \E k \in 1 .. l : f[k].c = c
    BY <1>12, <1>13
  <2> QED
    BY <2>1 DEF f
<1>10. \A k \in 1 .. l : gotos[n][es[k].c] = ChildrenInOrder(n)[k]
  <2>1. \A k \in 1 .. l : gotos[n][f[k].c] = gotos[n][cs[k]]
    BY <1>12
  <2>2. \A k \in 1 .. l : ChildrenInOrder(n)[k] = gotos[n][cs[k]]
    BY <1>2
  <2> QED
    BY <2>1, <2>2 DEF f
<1>11. \A k \in 1 .. l : /\ es[k].c \in Chars(n) /\ es[k].ptr = nodeId[Leads(gotos[n][es[k].c])]
                         /\ es[k].type = TypeOf(Leads(gotos[n][es[k].c]))
  BY ZenonT(30), <1>3, <1>6
<1> QED
  BY <1>5, <1>7, <1>8, <1>9, <1>10, <1>11 DEF BranchSet, l

-----------------------------------------------------------------------------
(* The elements of a path, and where it leads.                             *)

\* The elements of a path: its nodes, and where they fail to.
PathSet(n, l, es) ==
    /\ es \in Seq(Element) /\ Len(es) = l /\ DOMAIN es = 1 .. l
    /\ \A k \in 1 .. l :
          /\ es[k].c = Only(Path(n)[k]) /\ es[k].ptr = nodeId[failure[Path(n)[k]]]
          /\ es[k].type = TypeOf(failure[Path(n)[k]])

LEMMA PathElementIs ==
    ASSUME Built, Ids, IdsFit, NEW n \in Nodes, NEW l \in Nat, PathWalk(n, l), NEW k \in 1 .. l,
           NEW e, e = PathElement(n, k)
    PROVE  /\ e \in Element /\ e.c = Only(Path(n)[k]) /\ e.ptr = nodeId[failure[Path(n)[k]]]
           /\ e.type = TypeOf(failure[Path(n)[k]])
<1> DEFINE m == Path(n)[k]
           x == failure[m]
<1>1. m \in Nodes /\ numGotos(m) = 1
  BY DEF PathWalk
<1>2. Only(m) \in Char
  BY <1>1, OnlyChild
<1>3. Only(m) \in Byte
  <2>1. Char \subseteq 1 .. 127
    BY CMAssumption
  <2>2. Only(m) \in 1 .. 127
    BY <1>2, <2>1
  <2>3. \A b \in 1 .. 127 : b \in Byte
    BY DEF Byte
  <2> QED
    BY <2>2, <2>3
<1>4. x \in Nodes /\ HasId(x)
  BY <1>1, TargetIs
<1>5. Target(x) = x
  BY <1>4, TargetIs
<1>6. nodeId[x] \in StateId
  BY <1>4 DEF Ids
<1>7. PointerType(x) = TypeOf(x) /\ TypeOf(x) \in {REGULAR, LEVEL1, LEVEL2}
  BY <1>4, PointerTypeIs
<1>8. e = [c |-> Only(m), ptr |-> nodeId[Target(x)], type |-> PointerType(Target(x)),
           match |-> IF PathMessages(n, k) = <<>> THEN 0 ELSE 1]
  BY DEF PathElement
<1> HIDE DEF m, x
<1>9. e = [c |-> Only(m), ptr |-> nodeId[x], type |-> TypeOf(x),
           match |-> IF PathMessages(n, k) = <<>> THEN 0 ELSE 1]
  BY <1>5, <1>7, <1>8
<1>10. (IF PathMessages(n, k) = <<>> THEN 0 ELSE 1) \in {0, 1}
  OBVIOUS
<1>11. e \in Element
  BY <1>3, <1>6, <1>7, <1>9, <1>10 DEF Element
<1>12. e.c = Only(m) /\ e.ptr = nodeId[x] /\ e.type = TypeOf(x)
  BY <1>9
<1> QED
  BY <1>11, <1>12 DEF x, m

LEMMA PathElements ==
    ASSUME Built, Ids, IdsFit, NEW n \in Nodes, NEW l \in Nat, PathWalk(n, l),
           NEW es, es = [k \in 1 .. Len(Path(n)) |-> PathElement(n, k)]
    PROVE  PathSet(n, l, es)
<1>1. Len(Path(n)) = l
  BY DEF PathWalk
<1>2. es = [k \in 1 .. l |-> PathElement(n, k)]
  BY <1>1
<1>3. \A k \in 1 .. l : es[k] = PathElement(n, k)
  BY <1>2
<1>4. \A k \in 1 .. l : /\ es[k] \in Element /\ es[k].c = Only(Path(n)[k])
                        /\ es[k].ptr = nodeId[failure[Path(n)[k]]]
                        /\ es[k].type = TypeOf(failure[Path(n)[k]])
  <2> SUFFICES ASSUME NEW k \in 1 .. l
               PROVE  /\ es[k] \in Element /\ es[k].c = Only(Path(n)[k])
                      /\ es[k].ptr = nodeId[failure[Path(n)[k]]]
                      /\ es[k].type = TypeOf(failure[Path(n)[k]])
    OBVIOUS
  <2> DEFINE e == es[k]
  <2>1. e = PathElement(n, k)
    BY <1>3
  <2> HIDE DEF e
  <2>2. /\ e \in Element /\ e.c = Only(Path(n)[k]) /\ e.ptr = nodeId[failure[Path(n)[k]]]
        /\ e.type = TypeOf(failure[Path(n)[k]])
    BY <2>1, PathElementIs
  <2> QED
    BY <2>2 DEF e
<1>5. DOMAIN es = 1 .. l
  BY <1>2
<1>6. es \in Seq(Element) /\ Len(es) = l
  <2>1. es = [k \in 1 .. l |-> es[k]]
    BY <1>2
  <2> QED
    <3>1. \A k \in 1 .. l : es[k] \in Element
      BY <1>4
    <3>2. es \in [1 .. l -> Element]
      BY <2>1, <3>1
    <3> QED
      BY <3>2, ListIs
<1> QED
  BY <1>4, <1>5, <1>6 DEF PathSet

\* The goto of a path leads to a node with a state, into which it is allowed to
\* run.
LEMMA LandingIs ==
    ASSUME Built, Ids, NEW n \in Nodes, NEW l \in Nat, PathWalk(n, l)
    PROVE  /\ Landing(n) \in Nodes /\ HasId(Landing(n)) /\ Landing(n) = Leads(PathEnd(n))
           /\ Target(Landing(n)) = Landing(n)
           /\ ~ SetPointerCrashes(Landing(n)) /\ EndsPath(Landing(n))
           /\ ~ EndsInLeaf(n) => StateNode(PathEnd(n)) /\ PathEnd(n) \in Nodes
           /\ EndsInLeaf(n) => IsLeaf(PathEnd(n))
<1> DEFINE e == PathEnd(n)
           x == Landing(n)
<1>1. /\ EndsInLeaf(n) => IsLeaf(e)
      /\ ~ EndsInLeaf(n) => ~ IsLeaf(e) /\ ~ Interior(e)
  BY PathCovers DEF PathCover
<1>2. e \in Nodes \ {Root}
  BY DEF PathWalk
<1>3. x = IF EndsInLeaf(n) THEN failure[e] ELSE e
  BY DEF Landing
<1>4. EndsInLeaf(n) <=> ~ EndsPath(e)
  BY DEF EndsInLeaf
<1> HIDE DEF e, x
<1>5. x = Leads(e)
  BY <1>1, <1>3 DEF Leads
<1>6. ~ EndsInLeaf(n) => StateNode(e)
  BY <1>1, <1>2 DEF StateNode
<1>7. x \in Nodes /\ HasId(x)
  BY <1>1, <1>2, <1>5, <1>6, LeadsToState
<1>8. Target(x) = x /\ ~ SetPointerCrashes(x)
  BY <1>7, TargetIs, PointersAreSet
<1>9. EndsPath(x)
  <2>1. CASE ~ EndsInLeaf(n)
    BY <2>1, <1>3, <1>4
  <2>2. CASE EndsInLeaf(n)
    <3>1. x = failure[e] /\ IsLeaf(e)
      BY <2>2, <1>1, <1>3
    <3>2. x = Root => hasFailInto[Root] > 0
      BY <3>1, <1>2 DEF Built
    <3>3. x # Root => hasFailInto[x] > 0
      <4>1. \A y \in Nodes \ {Root} : hasFailInto[y] > 0 <=> \E m \in Nodes : failure[m] = y
        BY DEF Built
      <4> QED
        BY <4>1, <3>1, <1>2, <1>7
    <3> QED
      BY <3>2, <3>3 DEF EndsPath
  <2> QED
    BY <2>1, <2>2
<1> QED
  BY <1>1, <1>2, <1>5, <1>6, <1>7, <1>8, <1>9 DEF e, x

-----------------------------------------------------------------------------
(* What a node reports.                                                    *)

Notes == {message[x] : x \in Nodes}
\* There are messages only where a node that ends the word of v matches, and
\* what they list ends it too.
Truthful(v, ms) ==
    /\ ms \in Seq(Notes)
    /\ ms # <<>> => \E y \in Nodes : match[y] /\ Ends(word[y], word[v])
    /\ \A i \in DOMAIN ms : ms[i] # NoSlot => AnchorOf(v, ms[i])
\* And there are some where v matches.
Tells(v, ms) == Truthful(v, ms) /\ (match[v] => ms # <<>>)

\* What is true of the end of a word is true of the word.
LEMMA TruthPasses ==
    ASSUME Built, NEW x \in Nodes, NEW v \in Nodes, Ends(word[x], word[v]), NEW ms, Truthful(x, ms)
    PROVE  Truthful(v, ms)
<1>1. word[x] \in Seq(Char) /\ word[v] \in Seq(Char) /\ \A y \in Nodes : word[y] \in Seq(Char)
  BY TypeFacts DEF Built
<1>2. ASSUME NEW y \in Nodes, Ends(word[y], word[x]) PROVE Ends(word[y], word[v])
  BY <1>1, <1>2, EndsOrder
<1>3. ASSUME NEW e, AnchorOf(x, e) PROVE AnchorOf(v, e)
  <2>1. anchors[e] \in Seq(Char) /\ Ends(anchors[e], word[x])
    BY <1>3 DEF AnchorOf
  <2>2. Ends(anchors[e], word[v])
    BY <1>1, <2>1, EndsOrder
  <2> QED
    BY <1>3, <2>2 DEF AnchorOf
<1> QED
  BY <1>2, <1>3 DEF Truthful

LEMMA TruthJoins ==
    ASSUME NEW v, NEW ms, NEW ns, Truthful(v, ms), Truthful(v, ns)
    PROVE  Truthful(v, ms \o ns) /\ (ms \o ns = <<>> <=> ms = <<>> /\ ns = <<>>)
<1> DEFINE w == ms \o ns
<1>1. ms \in Seq(Notes) /\ ns \in Seq(Notes)
  BY DEF Truthful
<1>2. w = ms \o ns
  OBVIOUS
<1> HIDE DEF w
<1>3. /\ w \in Seq(Notes) /\ (w = <<>> <=> ms = <<>> /\ ns = <<>>)
      /\ \A i \in DOMAIN w : (\E j \in DOMAIN ms : w[i] = ms[j]) \/ (\E j \in DOMAIN ns : w[i] = ns[j])
  BY <1>1, <1>2, JoinedAre
<1>4. \A i \in DOMAIN w : w[i] # NoSlot => AnchorOf(v, w[i])
  BY <1>3 DEF Truthful
<1>5. w # <<>> => \E y \in Nodes : match[y] /\ Ends(word[y], word[v])
  BY <1>3 DEF Truthful
<1> QED
  BY <1>3, <1>4, <1>5 DEF Truthful, w

\* The messages that a pointer to v collects.
LEMMA MessagesTell ==
    ASSUME Built, Ids, Anchored, NEW v \in Nodes
    PROVE  Tells(v, Messages(v))
<1> DEFINE ends == {x \in Nodes : nodeId[x] >= 0}
           w == Climbed(v)
           S == {k \in DOMAIN w : match[w[k]]}
           q == [k \in DOMAIN w |-> message[w[k]]]
           ms == Messages(v)
<1>1. Root \in ends
  BY RootFacts DEF Built, Ids
<1>2. w = Chain(failure, v, ends)
  BY DEF Climbed
<1>3. w \in Seq(Nodes) /\ w[1] = v /\ Len(w) \in Nat /\ Len(w) >= 1
  <2> HIDE DEF w, ends
  <2> QED
    BY <1>1, <1>2, FailureChain DEF ChainIs
<1>4. ToSet(w) = {v} \/ ToSet(w) = {v, failure[v]}
  BY TargetIs
<1>5. failure[v] \in Nodes /\ Ends(word[failure[v]], word[v]) /\ Ends(word[v], word[v])
  <2>1. word[v] \in Seq(Char)
    BY TypeFacts DEF Built
  <2>2. Ends(word[v], word[v])
    BY <2>1, EndsOrder
  <2> QED
    BY <2>2 DEF Built
<1>6. ms = ElementsAt(q, S)
  BY DEF Messages
<1>7. DOMAIN w = 1 .. Len(w) /\ \A k \in DOMAIN w : w[k] \in ToSet(w) /\ w[k] \in Nodes
  BY <1>3 DEF ToSet
<1> HIDE DEF w, ms
<1>8. \A k \in DOMAIN w : Ends(word[w[k]], word[v])
  BY <1>4, <1>5, <1>7
<1>9. /\ S \subseteq DOMAIN w /\ \A k \in S : match[w[k]] /\ q[k] = message[w[k]]
      /\ match[v] => 1 \in S
  BY <1>3, <1>7
<1>10. S \in SUBSET (0 .. Len(w)) /\ {q[x] : x \in S} \subseteq Notes
  BY <1>7, <1>9 DEF Notes
<1> HIDE DEF S, q
<1>11. Taken(ms, q, S)
  BY <1>3, <1>6, <1>10, ElementsAre
<1>12. /\ ms = <<>> <=> S = {}
       /\ ms \in Seq({q[x] : x \in S}) /\ \A i \in DOMAIN ms : \E k \in S : ms[i] = q[k]
  BY <1>11 DEF Taken
<1>13. ms \in Seq(Notes)
  BY <1>10, <1>12, WordFacts
<1>14. ms # <<>> => \E y \in Nodes : match[y] /\ Ends(word[y], word[v])
  <2> SUFFICES ASSUME ms # <<>> PROVE \E y \in Nodes : match[y] /\ Ends(word[y], word[v])
    OBVIOUS
  <2>1. PICK k \in S : TRUE
    BY <1>12
  <2> QED
    BY <2>1, <1>7, <1>8, <1>9
<1>15. ASSUME NEW i \in DOMAIN ms, ms[i] # NoSlot PROVE AnchorOf(v, ms[i])
  <2>1. PICK k \in S : ms[i] = q[k]
    BY <1>12, <1>15
  <2> DEFINE x == w[k]
             e == message[x]
  <2>2. x \in Nodes /\ Ends(word[x], word[v]) /\ ms[i] = e
    BY <1>7, <1>8, <1>9, <2>1
  <2>3. AnchorOf(x, e)
    BY <1>15, <2>2 DEF Anchored
  <2> HIDE DEF x, e
  <2>4. anchors[e] \in Seq(Char) /\ Ends(anchors[e], word[x]) /\ word[x] \in Seq(Char) /\ word[v] \in Seq(Char)
    BY <2>2, <2>3, TypeFacts DEF AnchorOf, Built
  <2>5. Ends(anchors[e], word[v])
    BY <2>2, <2>4, EndsOrder
  <2> QED
    BY <2>2, <2>3, <2>5 DEF AnchorOf
<1>16. match[v] => ms # <<>>
  BY <1>9, <1>12
<1> QED
  BY <1>13, <1>14, <1>15, <1>16 DEF Tells, Truthful, ms

\* The own message of a node.
LEMMA OwnMessageTells ==
    ASSUME Built, Anchored, NEW v \in Nodes
    PROVE  Tells(v, OwnMessage(v))
<1>1. Ends(word[v], word[v])
  <2>1. word[v] \in Seq(Char)
    BY TypeFacts DEF Built
  <2> QED
    BY <2>1, EndsOrder
<1>2. CASE match[v]
  <2> DEFINE ms == OwnMessage(v)
  <2>1. ms = <<message[v]>> /\ message[v] \in Notes
    BY <1>2 DEF OwnMessage, Notes
  <2> HIDE DEF ms
  <2>2. ms \in Seq(Notes) /\ ms # <<>> /\ \A i \in DOMAIN ms : ms[i] = message[v]
    BY <2>1
  <2>3. message[v] # NoSlot => AnchorOf(v, message[v])
    BY DEF Anchored
  <2> QED
    BY <1>1, <1>2, <2>2, <2>3 DEF Tells, Truthful, ms
<1>3. CASE ~ match[v]
  <2> DEFINE ms == OwnMessage(v)
  <2>1. ms = <<>>
    BY <1>3 DEF OwnMessage
  <2>2. ms \in Seq(Notes) /\ DOMAIN ms = {}
    BY <2>1
  <2> QED
    BY <1>3, <2>1, <2>2 DEF Tells, Truthful
<1> QED
  BY <1>2, <1>3

\* The messages of a position of a path are those of the node it leads to.
LEMMA PathMessagesTell ==
    ASSUME Built, Ids, Anchored, NEW n \in Nodes, NEW l \in Nat, PathWalk(n, l), NEW k \in 1 .. l
    PROVE  Child(Path(n)[k]) \in Nodes /\ Tells(Child(Path(n)[k]), PathMessages(n, k))
<1> DEFINE v == Child(Path(n)[k])
           ms == PathMessages(n, k)
<1>1. v \in Nodes
  BY OnlyChild DEF PathWalk
<1>2. failure[v] \in Nodes /\ Ends(word[failure[v]], word[v])
  <2>1. word[Root] \in Seq(Char) /\ failure[Root] = Root
    BY RootFacts, TypeFacts DEF Built
  <2>2. Ends(word[Root], word[Root])
    BY <2>1, EndsOrder
  <2> QED
    BY <1>1, <2>1, <2>2 DEF Built
<1>3. Tells(v, OwnMessage(v)) /\ Tells(v, Messages(v)) /\ Truthful(v, Messages(failure[v]))
  <2>1. Tells(v, OwnMessage(v)) /\ Tells(v, Messages(v)) /\ Tells(failure[v], Messages(failure[v]))
    BY <1>1, <1>2, OwnMessageTells, MessagesTell
  <2>2. Truthful(failure[v], Messages(failure[v]))
    BY <2>1 DEF Tells
  <2>3. Truthful(v, Messages(failure[v]))
    BY <1>1, <1>2, <2>2, TruthPasses
  <2> QED
    BY <2>1, <2>3
<1>4. Len(Path(n)) = l
  BY DEF PathWalk
<1>5. CASE k < l
  <2>1. v = Path(n)[k + 1]
    <3>1. k \in 1 .. l - 1
      BY <1>5
    <3> QED
      BY <3>1 DEF PathWalk
  <2>2. ms = Messages(failure[v]) \o OwnMessage(v)
    BY <1>4, <1>5, <2>1 DEF PathMessages
  <2> HIDE DEF v, ms
  <2>3. Truthful(v, ms) /\ (ms = <<>> <=> Messages(failure[v]) = <<>> /\ OwnMessage(v) = <<>>)
    BY <1>3, <2>2, TruthJoins DEF Tells
  <2>4. Tells(v, ms)
    BY <1>3, <2>3 DEF Tells
  <2> QED
    BY <1>1, <2>4 DEF v, ms
<1>6. CASE ~ (k < l)
  <2>1. k = l /\ v = PathEnd(n)
    BY <1>6 DEF PathWalk
  <2>2. ms = (IF EndsInLeaf(n) THEN OwnMessage(PathEnd(n)) ELSE <<>>) \o Messages(Landing(n))
    BY <1>4, <1>6 DEF PathMessages
  <2>3. CASE EndsInLeaf(n)
    <3>1. Landing(n) = failure[v]
      BY <2>1, <2>3 DEF Landing
    <3>2. ms = OwnMessage(v) \o Messages(failure[v])
      BY <2>1, <2>2, <2>3, <3>1
    <3> HIDE DEF v, ms
    <3>3. Truthful(v, ms) /\ (ms = <<>> <=> OwnMessage(v) = <<>> /\ Messages(failure[v]) = <<>>)
      BY <1>3, <3>2, TruthJoins DEF Tells
    <3>4. Tells(v, ms)
      BY <1>3, <3>3 DEF Tells
    <3> QED
      BY <1>1, <3>4 DEF v, ms
  <2>4. CASE ~ EndsInLeaf(n)
    <3>1. Landing(n) = v
      BY <2>1, <2>4 DEF Landing
    <3>2. ms = <<>> \o Messages(v)
      BY <2>2, <2>4, <3>1
    <3>3. Messages(v) \in Seq(Notes)
      BY <1>3 DEF Tells, Truthful
    <3>4. ms = Messages(v)
      BY <3>2, <3>3
    <3> QED
      BY <1>1, <1>3, <3>4
  <2> QED
    BY <2>3, <2>4
<1> QED
  BY <1>5, <1>6

-----------------------------------------------------------------------------
(* The writers have room for the pointers.                                 *)

\* Elements of t in S have no regular pointer in es.
Within(t, S) == {m \in ToSet(t) : m \in S}
NotRegular(es, t, l, S) ==
    /\ l \in Nat /\ DOMAIN t = 1 .. l /\ \A i, j \in 1 .. l : t[i] = t[j] => i = j
    /\ \A k \in 1 .. l : t[k] \in S => es[k].type # REGULAR

LEMMA RegularsLeft ==
    ASSUME NEW es, NEW l, NEW t, NEW S, NotRegular(es, t, l, S)
    PROVE  RegularIn(es, l) + Cardinality(Within(t, S)) <= l
<1>0. /\ l \in Nat /\ DOMAIN t = 1 .. l /\ \A i, j \in 1 .. l : t[i] = t[j] => i = j
      /\ \A k \in 1 .. l : t[k] \in S => es[k].type # REGULAR
  BY DEF NotRegular
<1> DEFINE A == {j \in 1 .. l : es[j].type = REGULAR}
           B == Positions(t, l, S)
<1>1. IsFiniteSet(B) /\ Cardinality(B) \in Nat /\ Cardinality({m \in ToSet(t) : m \in S}) = Cardinality(B)
  <2>1. Listed(t, l)
    BY <1>0 DEF Listed
  <2> QED
    BY <2>1, CountPositions
<1>2. IsFiniteSet(A) /\ RegularIn(es, l) = Cardinality(A)
  BY <1>0, RegularRange DEF RegularIn
<1>3. A \cap B = {} /\ A \cup B \subseteq 1 .. l
  BY <1>0 DEF Positions
<1> HIDE DEF A, B
<1>4. IsFiniteSet(A \cup B) /\ Cardinality(A \cup B) = Cardinality(A) + Cardinality(B) - Cardinality(A \cap B)
  BY <1>1, <1>2, FS_Union
<1>5. IsFiniteSet(1 .. l) /\ Cardinality(1 .. l) = l
  <2>1. IsFiniteSet(1 .. l) /\ Cardinality(1 .. l) = IF 1 > l THEN 0 ELSE l - 1 + 1
    BY <1>0, FS_Interval
  <2> QED
    BY <1>0, <2>1
<1>6. Cardinality(A \cup B) <= l
  BY <1>3, <1>5, FS_Subset
<1>7. Cardinality(A \cap B) = 0 /\ Cardinality(A) \in Nat
  BY <1>2, <1>3, FS_EmptySet, FS_CardinalityType
<1> QED
  BY <1>0, <1>1, <1>2, <1>4, <1>6, <1>7 DEF Within

\* generateStates counted the pointers to depth 1 and 2 right.
LEMMA BranchHasRoom ==
    ASSUME Built, RootBranches, NEW n \in Nodes, NEW es, BranchSet(n, es)
    PROVE  RegularIn(es, numGotos(n)) <= numGotos(n) - GotosNear(n)
<1> DEFINE t == ChildrenInOrder(n)
           l == numGotos(n)
           S == {m \in Nodes : Shallow(m)}
<1>1. /\ DOMAIN t = 1 .. l /\ l \in Nat /\ \A i, j \in 1 .. l : t[i] = t[j] => i = j
      /\ \A i \in 1 .. l : t[i] \in Nodes
      /\ ToSet(t) = {t[i] : i \in 1 .. l}
  BY ChildrenOfNode DEF ChildrenBelow
<1>2. \A k \in 1 .. l : es[k].type = TypeOf(Leads(t[k]))
  BY DEF BranchSet
<1>3. \A m : Shallow(m) => TypeOf(Leads(m)) # REGULAR
  <2>1. \A m : Shallow(m) => Keyed(Leads(m))
    BY DEF Shallow, Keyed
  <2> QED
    BY <2>1 DEF TypeOf, REGULAR, LEVEL1, LEVEL2
<1>4. GotosNear(n) = Cardinality({m \in ToSet(t) : Shallow(m)})
  BY DEF GotosNear
<1>5. GotosNear(n) = Cardinality({m \in ToSet(t) : m \in S})
  <2>1. {m \in ToSet(t) : Shallow(m)} = {m \in ToSet(t) : m \in S}
    BY <1>1
  <2> QED
    BY <1>4, <2>1
<1>6. \A k \in 1 .. l : t[k] \in S => es[k].type # REGULAR
  BY <1>2, <1>3
<1> HIDE DEF t, l, S
<1>7. RegularIn(es, l) + Cardinality({m \in ToSet(t) : m \in S}) <= l
  <2>1. NotRegular(es, t, l, S)
    BY <1>1, <1>6 DEF NotRegular
  <2> QED
    BY <2>1, RegularsLeft DEF Within
<1>8. RegularIn(es, l) \in Nat
  BY <1>1, RegularRange
<1>9. Cardinality({m \in ToSet(t) : m \in S}) \in Nat
  <2>1. Listed(t, l)
    BY <1>1 DEF Listed
  <2> QED
    BY <2>1, CountPositions
<1>10. RegularIn(es, l) <= l - GotosNear(n)
  BY <1>1, <1>5, <1>7, <1>8, <1>9
<1> QED
  BY <1>10 DEF l

LEMMA PathHasRoom ==
    ASSUME Built, Ids, RootBranches, NEW n \in Nodes, NEW l \in Nat, PathWalk(n, l),
           \A i, j \in 1 .. l : Path(n)[i] = Path(n)[j] => i = j, NEW es, PathSet(n, l, es)
    PROVE  RegularIn(WithLevel0(es), l) <= l - FailuresNear(n)
<1> DEFINE t == Path(n)
           S == {m \in Nodes : depth[failure[m]] \in 0 .. 2}
           ws == WithLevel0(es)
<1>1. t \in Seq(Nodes) /\ DOMAIN t = 1 .. l /\ \A i \in 1 .. l : t[i] \in Nodes
  BY DEF PathWalk
<1>2. ASSUME NEW k \in 1 .. l, t[k] \in S PROVE ws[k].type # REGULAR
  <2> DEFINE x == failure[t[k]]
             e == es[k]
  <2>1. x \in Nodes /\ depth[x] \in 0 .. 2 /\ (depth[x] = 0 => x = Root)
    <3>1. x \in Nodes
      BY <1>1 DEF Built
    <3>2. depth[x] \in 0 .. 2
      BY <1>2
    <3>3. depth[x] = Len(word[x]) /\ word[x] \in Seq(Char) /\ word[Root] = <<>> /\ Root \in Nodes
      BY <3>1, RootFacts, TypeFacts DEF Built, TreeInv
    <3>4. \A y, z \in Nodes : word[y] = word[z] => y = z
      BY DEF Built, TreeInv
    <3> QED
      BY <3>1, <3>2, <3>3, <3>4
  <2>2. e \in Element /\ e.ptr = nodeId[x] /\ e.type = TypeOf(x)
    BY <1>2 DEF PathSet
  <2>3. ws[k] = IF e.ptr = 0 THEN [e EXCEPT !.type = LEVEL0] ELSE e
    BY <1>2 DEF WithLevel0, PathSet
  <2> HIDE DEF x, e, ws
  <2>4. CASE x = Root
    <3>1. e.ptr = 0
      BY <2>4, <2>2 DEF Ids
    <3>2. [e EXCEPT !.type = LEVEL0].type = LEVEL0
      BY <2>2 DEF Element
    <3>3. ws[k].type = LEVEL0
      BY <3>1, <3>2, <2>3
    <3> QED
      BY <3>3 DEF LEVEL0, REGULAR
  <2>5. CASE x # Root
    <3>1. Keyed(x)
      BY <2>5, <2>1 DEF Keyed
    <3>2. e.type \in {LEVEL1, LEVEL2}
      BY <3>1, <2>2 DEF TypeOf
    <3>3. [e EXCEPT !.type = LEVEL0].type = LEVEL0
      BY <2>2 DEF Element
    <3>4. ws[k].type \in {LEVEL0, LEVEL1, LEVEL2}
      BY <3>2, <3>3, <2>3
    <3> QED
      BY <3>4 DEF LEVEL0, LEVEL1, LEVEL2, REGULAR
  <2> QED
    BY <2>4, <2>5
<1>3. FailuresNear(n) = Cardinality({m \in ToSet(t) : m \in S})
  <2>1. ToSet(t) = {t[i] : i \in 1 .. l}
    BY <1>1 DEF ToSet
  <2>2. {m \in ToSet(t) : depth[failure[m]] \in 0 .. 2} = {m \in ToSet(t) : m \in S}
    BY <1>1, <2>1
  <2> QED
    BY <2>2 DEF FailuresNear
<1>4. \A i, j \in 1 .. l : t[i] = t[j] => i = j
  OBVIOUS
<1> HIDE DEF t, S, ws
<1>5. RegularIn(ws, l) + Cardinality({m \in ToSet(t) : m \in S}) <= l
  <2>1. NotRegular(ws, t, l, S)
    BY <1>1, <1>2, <1>4 DEF NotRegular
  <2> QED
    BY <2>1, RegularsLeft DEF Within
<1>6. RegularIn(ws, l) \in Nat
  BY RegularRange
<1>7. Cardinality({m \in ToSet(t) : m \in S}) \in Nat
  <2>1. Listed(t, l)
    BY <1>1, <1>4 DEF Listed
  <2> QED
    BY <2>1, CountPositions
<1>8. RegularIn(ws, l) <= l - FailuresNear(n)
  BY <1>3, <1>5, <1>6, <1>7
<1> QED
  BY <1>8 DEF ws

-----------------------------------------------------------------------------
(* A state when its data is set.                                           *)

BranchMarks(n, es) ==
    \A k \in 1 .. numGotos(n) : es[k].match = IF Messages(ChildrenInOrder(n)[k]) = <<>> THEN 0 ELSE 1
BranchHolds(d, id, n, es) ==
    /\ BranchSet(n, es) /\ BranchMarks(n, es)
    /\ \E t \in {LINEAR_ENCODED, BITMAP_ENCODED, LOOKUP_TABLE} : \E k \in Nat :
          /\ Created(d, t, k, id, Len(es)) /\ Holds(d, k, es, nodeId[failure[n]])
          /\ t # LOOKUP_TABLE => numGotos(n) < MAX_NODE_DEGREE
PathMarks(n, l, es) ==
    \A k \in 1 .. l : es[k].match = IF PathMessages(n, k) = <<>> THEN 0 ELSE 1
PathHolds(d, id, n, l, es) ==
    /\ PathWalk(n, l) /\ PathSet(n, l, es) /\ PathMarks(n, l, es)
    /\ \E k \in Nat : Created(d, PATH_COMPRESSED, k, id, l) /\ Holds(d, k, es, nodeId[Leads(PathEnd(n))])
Done(d, id, n) ==
    /\ numGotos(n) > 1 => \E es : BranchHolds(d, id, n, es)
    /\ numGotos(n) = 1 => \E l \in Nat : \E es : PathHolds(d, id, n, l, es)

LEMMA WholeSeq ==
    ASSUME NEW S, NEW es \in Seq(S)
    PROVE  SubSeq(es, 1, Len(es)) = es /\ Len(es) \in Nat
OBVIOUS

\* The bits of the elements that setStatesData makes.
LEMMA BranchesAreMarked ==
    ASSUME NEW n, NEW es, es = [k \in 1 .. numGotos(n) |-> BranchElement(n, CharsInOrder(n)[k])]
    PROVE  BranchMarks(n, es)
<1> SUFFICES ASSUME NEW k \in 1 .. numGotos(n)
             PROVE  es[k].match = IF Messages(ChildrenInOrder(n)[k]) = <<>> THEN 0 ELSE 1
  BY DEF BranchMarks
<1> DEFINE c == CharsInOrder(n)[k]
<1>1. es[k] = BranchElement(n, c)
  OBVIOUS
<1>2. ChildrenInOrder(n)[k] = gotos[n][c]
  BY DEF ChildrenInOrder
<1> HIDE DEF c
<1> QED
  BY <1>1, <1>2 DEF BranchElement

LEMMA PathsAreMarked ==
    ASSUME NEW n, NEW l, Len(Path(n)) = l, NEW es, es = [k \in 1 .. Len(Path(n)) |-> PathElement(n, k)]
    PROVE  PathMarks(n, l, es)
<1> SUFFICES ASSUME NEW k \in 1 .. l PROVE es[k].match = IF PathMessages(n, k) = <<>> THEN 0 ELSE 1
  BY DEF PathMarks
<1>1. es[k] = PathElement(n, k)
  OBVIOUS
<1> QED
  BY <1>1 DEF PathElement

\* The limits of CMAssumption leave the six bits of a size enough.
LEMMA SmallSize ==
    \A k \in Nat : k < MAX_NODE_DEGREE => k % 64 = k
BY DEF MAX_NODE_DEGREE

LEMMA BranchIsDone ==
    ASSUME Built, Ids, IdsFit, NEW n \in Nodes, numGotos(n) > 1, NEW id,
           NEW d, FreshBranch(d, id, n), NEW es, BranchSet(n, es), BranchMarks(n, es)
    PROVE  /\ RootBranches => ~ WriterExits(d, es)
           /\ ~ WriterExits(d, es) =>
                 BranchHolds(setDataBranchState(d, es, nodeId[failure[n]]), id, n, es)
<1> DEFINE fail == nodeId[failure[n]]
           m == setDataBranchState(d, es, fail)
           l == numGotos(n)
<1>1. fail \in StateId
  BY TargetIs DEF Ids
<1>2. es \in Seq(Element) /\ Len(es) = l /\ Distinct(es) /\ l \in Nat /\ SubSeq(es, 1, l) = es
  BY WholeSeq DEF BranchSet
<1>3. PICK t \in {LINEAR_ENCODED, BITMAP_ENCODED, LOOKUP_TABLE}, k \in Nat :
        /\ Created(d, t, k, id, l) /\ Room(d, t, k, l - GotosNear(n))
        /\ t # LOOKUP_TABLE => l < MAX_NODE_DEGREE
  BY DEF FreshBranch
<1>4. /\ RootBranches => RegularIn(es, l) <= l - GotosNear(n)
      /\ RegularIn(es, l) \in Nat /\ GotosNear(n) \in Nat
  <2>1. RootBranches => RegularIn(es, l) <= l - GotosNear(n)
    BY BranchHasRoom
  <2>2. RegularIn(es, l) \in Nat
    BY <1>2, RegularRange
  <2>3. \A x \in Nodes : nodeId[x] = 0 <=> x = Root
    BY DEF Ids
  <2>4. GotosNear(n) \in 0 .. numGotos(n)
    BY <2>3, GotosNearIs
  <2> QED
    BY <2>1, <2>2, <2>4
<1> HIDE DEF l, fail
<1>5. m = setDataBranchState(d, es, fail)
  OBVIOUS
<1> HIDE DEF m
<1>6. Created(d, t, k, id, Len(es))
  BY <1>2, <1>3
<1>7. CASE t = LINEAR_ENCODED
  <2>1. /\ PtrsOf_LE(d) \in Nat /\ HeaderSize(d) = Len(es) % 64
        /\ WriterExits(d, es) <=> LinearNeeds(d, es) > k
    BY <1>2, <1>6, <1>7, LinearIs
  <2>2. HeaderSize(d) = l
    BY <2>1, <1>2, <1>3, <1>7, SmallSize DEF LINEAR_ENCODED, LOOKUP_TABLE
  <2>3. LinearNeeds(d, es) = PtrsOf_LE(d) + 2 * RegularIn(es, l)
    BY <2>2, <1>2 DEF LinearNeeds
  <2>4. PtrsOf_LE(d) + 2 * (l - GotosNear(n)) <= k
    BY <1>3, <1>7 DEF Room
  <2>5. RootBranches => ~ WriterExits(d, es)
    BY <2>1, <2>3, <2>4, <1>2, <1>4
  <2>6. ASSUME ~ WriterExits(d, es) PROVE Created(m, t, k, id, Len(es)) /\ Holds(m, k, es, fail)
    BY <2>6, <1>1, <1>2, <1>5, <1>6, <1>7, LinearStateIsSet
  <2> QED
    BY <2>5, <2>6, <1>3 DEF BranchHolds, l, m, fail
<1>8. CASE t = BITMAP_ENCODED
  <2>1. /\ PtrsOf_BM(d) \in Nat /\ HeaderSize(d) = Len(es) % 64
        /\ WriterExits(d, es) <=> BitmapNeeds(d, es) > k
    BY <1>2, <1>6, <1>8, BitmapIs
  <2>2. HeaderSize(d) = l
    BY <2>1, <1>2, <1>3, <1>8, SmallSize DEF BITMAP_ENCODED, LOOKUP_TABLE
  <2>3. BitmapNeeds(d, es) = PtrsOf_BM(d) + 2 * RegularIn(es, l)
    BY <2>2, <1>2 DEF BitmapNeeds
  <2>4. PtrsOf_BM(d) + 2 * (l - GotosNear(n)) <= k
    BY <1>3, <1>8 DEF Room
  <2>5. RootBranches => ~ WriterExits(d, es)
    BY <2>1, <2>3, <2>4, <1>2, <1>4
  <2>6. ASSUME ~ WriterExits(d, es) PROVE Created(m, t, k, id, Len(es)) /\ Holds(m, k, es, fail)
    BY <2>6, <1>1, <1>2, <1>5, <1>6, <1>8, BitmapStateIsSet
  <2> QED
    BY <2>5, <2>6, <1>3 DEF BranchHolds, l, m, fail
<1>9. CASE t = LOOKUP_TABLE
  <2>1. ~ WriterExits(d, es)
    BY <1>2, <1>6, <1>9, LookupIs
  <2>2. Created(m, t, k, id, Len(es)) /\ Holds(m, k, es, fail)
    BY <1>1, <1>2, <1>5, <1>6, <1>9, LookupStateIsSet
  <2> QED
    BY <2>1, <2>2, <1>3 DEF BranchHolds, l, m, fail
<1> QED
  BY <1>3, <1>7, <1>8, <1>9

LEMMA PathIsDone ==
    ASSUME Built, Ids, IdsFit, NEW n \in Nodes, NEW id, NEW d, FreshPath(d, id, n),
           NEW es, es = [k \in 1 .. Len(Path(n)) |-> PathElement(n, k)]
    PROVE  /\ RootBranches => ~ WriterExits(d, es)
           /\ ~ WriterExits(d, es) =>
                 \E l \in Nat : PathHolds(setStateData_PC(d, es, nodeId[Target(Landing(n))]), id, n, l, es)
<1> DEFINE next == nodeId[Target(Landing(n))]
           m == setStateData_PC(d, es, next)
<1>1. PICK l \in Nat : PathWalk(n, l) /\ \E k \in Nat :
         Created(d, PATH_COMPRESSED, k, id, l) /\ Room(d, PATH_COMPRESSED, k, l - FailuresNear(n))
  BY DEF FreshPath
<1>2. PICK k \in Nat : Created(d, PATH_COMPRESSED, k, id, l) /\ Room(d, PATH_COMPRESSED, k, l - FailuresNear(n))
  BY <1>1
<1>3. PathSet(n, l, es)
  BY <1>1, PathElements
<1>4. es \in Seq(Element) /\ Len(es) = l
  BY <1>3 DEF PathSet
<1>5. next = nodeId[Leads(PathEnd(n))] /\ next \in StateId
  BY <1>1, LandingIs DEF Ids
<1>6. /\ FailuresNear(n) \in 0 .. l
      /\ \A i, j \in 1 .. l : Path(n)[i] = Path(n)[j] => i = j
  <2>1. \A x \in Nodes : nodeId[x] = 0 <=> x = Root
    BY DEF Ids
  <2> QED
    BY <2>1, <1>1, FailuresNearIs
<1>7. RootBranches => RegularIn(WithLevel0(es), l) <= l - FailuresNear(n)
  BY <1>1, <1>3, <1>6, PathHasRoom
<1>8. RegularIn(WithLevel0(es), l) \in Nat
  BY RegularRange
<1>9. /\ FailuresOf_PC(d) \in Nat
      /\ WriterExits(d, es) <=> PathNeeds(d, es) > k
  BY <1>2, <1>4, PathIs
<1>10. FailuresOf_PC(d) + 2 * (l - FailuresNear(n)) <= k
  BY <1>2 DEF Room, PATH_COMPRESSED
<1>11. PathNeeds(d, es) = FailuresOf_PC(d) + 2 * RegularIn(WithLevel0(es), l)
  BY <1>4 DEF PathNeeds
<1>12. RootBranches => ~ WriterExits(d, es)
  BY <1>6, <1>7, <1>8, <1>9, <1>10, <1>11
<1>13. m = setStateData_PC(d, es, next)
  OBVIOUS
<1> HIDE DEF m, next
<1>14. ASSUME ~ WriterExits(d, es)
       PROVE  Created(m, PATH_COMPRESSED, k, id, l) /\ Holds(m, k, es, next)
  BY <1>14, <1>2, <1>4, <1>5, <1>13, PathStateIsSet
<1>16. PathMarks(n, l, es)
  BY <1>1, PathsAreMarked DEF PathWalk
<1>15. ASSUME ~ WriterExits(d, es) PROVE PathHolds(m, id, n, l, es)
  BY <1>1, <1>3, <1>5, <1>14, <1>15, <1>16 DEF PathHolds
<1> QED
  BY <1>12, <1>15 DEF m, next

-----------------------------------------------------------------------------
(* The queue of setStatesData.                                             *)

\* What setStatesData enqueues behind n: nodes with a state, below which all the
\* other nodes with a state are that are below n.
Enqueued(n, hs) ==
    /\ Heads(n, hs) /\ \A i \in DOMAIN hs : StateNode(hs[i])
    /\ \A m \in Nodes : Under(n, m) /\ m # n /\ StateNode(m) => OpenIn(hs, m)

\* The queue behind that: of the nodes with a state only n is left.
NextQueue(q, n, r) ==
    /\ r \in Seq(Nodes) /\ Apart(r) /\ \A i \in DOMAIN r : HasId(r[i])
    /\ \A m \in Nodes : StateNode(m) => (OpenIn(r, m) <=> OpenIn(q, m) /\ m # n)
    /\ OpenIn(q, n) /\ ~ OpenIn(r, n)

LEMMA QueueMoves ==
    ASSUME Built, NEW q \in Seq(Nodes), q # <<>>, Apart(q), \A i \in DOMAIN q : HasId(q[i]),
           NEW n, n = Head(q), NEW hs, Enqueued(n, hs)
    PROVE  NextQueue(q, n, Tail(q) \o hs) /\ n \in Nodes /\ HasId(n)
<1> DEFINE r == Tail(q) \o hs
<1>1. Replaced(q, n, hs, r) /\ n \in Nodes
  BY HeadIsReplaced DEF Enqueued
<1>2. HasId(n)
  <2>1. 1 \in DOMAIN q /\ q[1] = n
    OBVIOUS
  <2> QED
    BY <2>1
<1> HIDE DEF r
<1>3. /\ r \in Seq(Nodes) /\ Apart(r)
      /\ \A m \in Nodes : OpenIn(r, m) <=> (OpenIn(q, m) /\ ~ Under(n, m)) \/ OpenIn(hs, m)
      /\ \A m \in Nodes : OpenIn(hs, m) => Under(n, m) /\ m # n
      /\ \A m \in Nodes : Under(n, m) => OpenIn(q, m)
      /\ \A i \in DOMAIN r : (\E j \in DOMAIN q : r[i] = q[j] /\ r[i] # n) \/ \E j \in DOMAIN hs : r[i] = hs[j]
  BY <1>1 DEF Replaced
<1>4. \A i \in DOMAIN r : HasId(r[i])
  BY <1>3 DEF Enqueued, HasId
<1>5. \A m \in Nodes : Under(n, m) /\ m # n /\ StateNode(m) => OpenIn(hs, m)
  BY DEF Enqueued
<1>6. Under(n, n)
  <2>1. word[n] \in Seq(Char)
    BY <1>1, TypeFacts DEF Built
  <2> QED
    BY <2>1, BeginsOrder DEF Under
<1>7. ASSUME NEW m \in Nodes, StateNode(m) PROVE OpenIn(r, m) <=> OpenIn(q, m) /\ m # n
  <2>1. CASE Under(n, m)
    BY <2>1, <1>3, <1>5, <1>7
  <2>2. CASE ~ Under(n, m)
    BY <2>2, <1>3, <1>6
  <2> QED
    BY <2>1, <2>2
<1>8. OpenIn(q, n) /\ ~ OpenIn(r, n)
  BY <1>1, <1>3, <1>6
<1> QED
  BY <1>1, <1>2, <1>3, <1>4, <1>7, <1>8 DEF NextQueue, r

\* Nothing is below a leaf.
LEMMA LeafIsLast ==
    ASSUME Built, NEW n \in Nodes, IsLeaf(n), NEW m \in Nodes, Under(n, m)
    PROVE  m = n
<1> SUFFICES ASSUME m # n PROVE FALSE
  OBVIOUS
<1>1. \E c \in Chars(n) : Begins(Append(word[n], c), word[m])
  BY BelowNode DEF Built, Under
<1> QED
  BY <1>1 DEF IsLeaf

\* The children of a branch with a state.
LEMMA BranchEnqueues ==
    ASSUME Built, Ids, NEW n \in Nodes, numGotos(n) > 1
    PROVE  Enqueued(n, InOrder(ChildrenWithState(n)))
<1> DEFINE S == ChildrenWithState(n)
           hs == InOrder(S)
           t == ChildrenInOrder(n)
<1>1. /\ \A i \in DOMAIN t : t[i] \in Nodes \ {Root} /\ \E c \in Chars(n) : t[i] = gotos[n][c]
      /\ \A c \in Chars(n) : \E i \in DOMAIN t : t[i] = gotos[n][c]
      /\ \A m \in Nodes : Under(n, m) /\ m # n => OpenIn(t, m)
      /\ ToSet(t) = {t[i] : i \in DOMAIN t}
  BY ChildrenOfNode DEF ChildrenBelow
<1>2. \A x \in ToSet(t) : x \in Nodes \ {Root} /\ (StateNode(x) <=> ~ IsLeaf(x)) /\ \E c \in Chars(n) : x = gotos[n][c]
  BY <1>1, BranchChild
<1>3. \A x \in ToSet(t) : nodeId[x] >= 0 <=> StateNode(x)
  BY <1>2 DEF Ids, HasId
<1>4. S = {x \in ToSet(t) : StateNode(x)}
  BY <1>3 DEF ChildrenWithState
<1>5. S \in SUBSET Nodes
  BY <1>2, <1>4
<1> HIDE DEF S, t
<1>12. size - 1 \in Nat /\ Nodes = 0 .. size - 1
  BY TypeFacts DEF Built, Nodes
<1>6. /\ hs \in Seq(S) /\ \A x \in S : \E i \in DOMAIN hs : hs[i] = x
      /\ \A i, j \in DOMAIN hs : hs[i] = hs[j] => i = j
  <2> DEFINE b == size - 1
             f == hs
  <2>1. b \in Nat /\ S \in SUBSET (0 .. b) /\ f = InOrder(S)
    BY <1>5, <1>12
  <2> HIDE DEF b, f
  <2>2. Lists(f, S)
    BY <2>1, InOrderIs
  <2> QED
    BY <2>2 DEF f, Lists
<1> HIDE DEF hs
<1>7. \A i \in DOMAIN hs : hs[i] \in S
  BY <1>6
<1>8. hs \in Seq(Nodes)
  BY <1>5, <1>6, WordFacts
<1>9. \A i \in DOMAIN hs : StateNode(hs[i]) /\ \E c \in Chars(n) : hs[i] = gotos[n][c]
  BY <1>2, <1>4, <1>7
<1>10. Heads(n, hs)
  BY <1>6, <1>8, <1>9, ChildrenAreHeads
<1>11. ASSUME NEW m \in Nodes, Under(n, m), m # n, StateNode(m) PROVE OpenIn(hs, m)
  <2>1. PICK i \in DOMAIN t : Under(t[i], m)
    BY <1>1, <1>11 DEF OpenIn, Under
  <2>2. t[i] \in ToSet(t) /\ t[i] \in Nodes
    BY <1>1, <2>1
  <2>3. ~ IsLeaf(t[i])
    BY <1>11, <2>1, <2>2, LeafIsLast DEF StateNode
  <2>4. t[i] \in S
    BY <1>2, <1>4, <2>2, <2>3
  <2>5. PICK j \in DOMAIN hs : hs[j] = t[i]
    BY <1>6, <2>4
  <2> QED
    BY <2>1, <2>5 DEF OpenIn, Under
<1> QED
  BY <1>9, <1>10, <1>11 DEF Enqueued, hs, S

\* The end of a path, unless it is a leaf.
LEMMA PathEnqueues ==
    ASSUME Built, NEW n \in Nodes, NEW l \in Nat, PathWalk(n, l),
           NEW hs, hs = (IF EndsInLeaf(n) THEN <<>> ELSE <<PathEnd(n)>>)
    PROVE  Enqueued(n, hs)
<1> DEFINE e == PathEnd(n)
<1>1. PathCover(n, l) /\ e \in Nodes \ {Root} /\ Path(n)[1] = n
  BY PathCovers DEF PathWalk
<1>2. /\ \A m \in Nodes : Under(n, m) => (\E k \in 1 .. l : m = Path(n)[k]) \/ Under(e, m)
      /\ \A k \in 1 .. l : k # 1 => Interior(Path(n)[k])
      /\ Under(n, e) /\ ~ Under(e, n)
      /\ EndsInLeaf(n) => IsLeaf(e)
      /\ ~ EndsInLeaf(n) => ~ IsLeaf(e) /\ ~ Interior(e)
  BY <1>1 DEF PathCover, Under
<1> HIDE DEF e
<1>3. /\ hs \in Seq(Nodes) /\ \A i \in DOMAIN hs : hs[i] = e /\ i = 1 /\ ~ EndsInLeaf(n)
      /\ ~ EndsInLeaf(n) => 1 \in DOMAIN hs /\ hs[1] = e
  BY <1>1 DEF e
<1>4. Heads(n, hs)
  BY <1>2, <1>3 DEF Heads, Apart
<1>5. \A i \in DOMAIN hs : StateNode(hs[i])
  BY <1>1, <1>2, <1>3 DEF StateNode
<1>6. ASSUME NEW m \in Nodes, Under(n, m), m # n, StateNode(m) PROVE OpenIn(hs, m)
  <2>1. Under(e, m)
    BY <1>1, <1>2, <1>6 DEF StateNode
  <2>2. ~ EndsInLeaf(n)
    BY <2>1, <1>1, <1>2, <1>6, LeafIsLast DEF StateNode
  <2> QED
    BY <2>1, <2>2, <1>3 DEF OpenIn, Under
<1> QED
  BY <1>4, <1>5, <1>6 DEF Enqueued

-----------------------------------------------------------------------------
(* What setStatesData has done when the nodes of q are left.               *)

\* The tables of depth 1 and 2.
FirstIs(first, q) ==
    /\ first \in [Byte -> Nat]
    /\ \A n \in Nodes : Keyed(n) /\ StateNode(n) /\ depth[n] = 1 /\ ~ OpenIn(q, n) =>
          first[word[n][1]] = nodeId[n]
    /\ \A c \in Byte : first[c] # LOOKUP_VALUE_NOT_FOUND =>
          \E n \in Nodes : /\ Keyed(n) /\ StateNode(n) /\ depth[n] = 1
                           /\ word[n][1] = c /\ first[c] = nodeId[n]
SecondIs(second, q) ==
    /\ second = [w \in DOMAIN second |-> second[w]]
    /\ \A n \in Nodes : Keyed(n) /\ StateNode(n) /\ depth[n] = 2 /\ ~ OpenIn(q, n) =>
          word[n] \in DOMAIN second
    /\ \A w \in DOMAIN second :
          \E n \in Nodes : /\ Keyed(n) /\ StateNode(n) /\ depth[n] = 2
                           /\ word[n] = w /\ second[w] = nodeId[n]

\* The states below the nodes of q are as they were allocated.
StatesAre(sts, q) ==
    \A id \in DOMAIN sts :
        /\ OpenIn(q, nodeTable[id]) => Fresh(sts[id], id, nodeTable[id])
        /\ ~ OpenIn(q, nodeTable[id]) => Done(sts[id], id, nodeTable[id])
QueueIs(q) == q \in Seq(Nodes) /\ Apart(q) /\ \A i \in DOMAIN q : HasId(q[i])
DataIs(sts, first, second, q) ==
    /\ QueueIs(q) /\ StatesAre(sts, q) /\ FirstIs(first, q) /\ SecondIs(second, q)

\* The key of a node with a state, and its letters.
LEMMA KeyFacts ==
    ASSUME Built, Ids, NEW n \in Nodes, StateNode(n)
    PROVE  /\ Len(key[n]) = 1 <=> Keyed(n) /\ depth[n] = 1
           /\ Len(key[n]) = 2 <=> Keyed(n) /\ depth[n] = 2
           /\ Keyed(n) => key[n] = word[n]
<1>1. key[n] = IF Keyed(n) THEN word[n] ELSE <<>>
  BY DEF Ids, HasId
<1>2. depth[n] = Len(word[n])
  BY DEF Built, TreeInv
<1>3. CASE Keyed(n)
  BY <1>1, <1>2, <1>3
<1>4. CASE ~ Keyed(n)
  <2>1. Len(key[n]) = 0
    BY <1>1, <1>4
  <2> QED
    BY <2>1, <1>4
<1> QED
  BY <1>3, <1>4

LEMMA LettersAre ==
    ASSUME Built, NEW n \in Nodes
    PROVE  /\ depth[n] >= 1 => word[n][1] \in Char /\ word[n][1] \in Byte
           /\ \A m \in Nodes : depth[n] = 1 /\ depth[m] = 1 /\ word[n][1] = word[m][1] => m = n
<1>1. \A m \in Nodes : word[m] \in Seq(Char) /\ depth[m] = Len(word[m])
  BY TypeFacts DEF Built, TreeInv
<1>2. \A m \in Nodes : depth[m] >= 1 => word[m][1] \in Char
  <2> SUFFICES ASSUME NEW m \in Nodes, depth[m] >= 1 PROVE word[m][1] \in Char
    OBVIOUS
  <2>1. word[m] \in Seq(Char) /\ 1 <= Len(word[m])
    BY <1>1
  <2>2. 1 \in 1 .. Len(word[m])
    BY <2>1
  <2> QED
    BY <2>1, <2>2, WordFacts
<1>3. \A c \in Char : c \in Byte
  <2>1. \A c \in Char : c \in 1 .. 127
    BY CMAssumption
  <2> QED
    BY <2>1 DEF Byte
<1>4. \A m \in Nodes : depth[m] = 1 => word[m] = <<word[m][1]>>
  <2> SUFFICES ASSUME NEW m \in Nodes, depth[m] = 1 PROVE word[m] = <<word[m][1]>>
    OBVIOUS
  <2>1. word[m] \in Seq(Char) /\ Len(word[m]) <= 1 /\ 1 <= Len(word[m])
    BY <1>1
  <2>2. word[m][1] \in Char
    BY <1>2
  <2> QED
    BY <2>1, <2>2, OneAndOne
<1>5. \A m \in Nodes : word[n] = word[m] => m = n
  BY DEF Built, TreeInv
<1> QED
  BY <1>2, <1>3, <1>4, <1>5

\* The state of n is noted in the table of depth 1.
LEMMA FirstIsSet ==
    ASSUME Built, Ids, NEW q, NEW n \in Nodes, StateNode(n), NEW r, NextQueue(q, n, r),
           NEW first, FirstIs(first, q), NEW f,
           f = IF Len(key[n]) = 1 THEN [first EXCEPT ![key[n][1]] = nodeId[n]] ELSE first
    PROVE  FirstIs(f, r)
<1>1. \A m \in Nodes : StateNode(m) => (OpenIn(r, m) <=> OpenIn(q, m) /\ m # n)
  BY DEF NextQueue
<1>2. /\ first \in [Byte -> Nat]
      /\ \A m \in Nodes : Keyed(m) /\ StateNode(m) /\ depth[m] = 1 /\ ~ OpenIn(q, m) =>
            first[word[m][1]] = nodeId[m]
      /\ \A c \in Byte : first[c] # LOOKUP_VALUE_NOT_FOUND =>
            \E m \in Nodes : /\ Keyed(m) /\ StateNode(m) /\ depth[m] = 1
                             /\ word[m][1] = c /\ first[c] = nodeId[m]
  BY DEF FirstIs
<1>3. CASE Len(key[n]) = 1
  <2> DEFINE b == word[n][1]
  <2>1. Keyed(n) /\ depth[n] = 1 /\ key[n] = word[n]
    BY <1>3, KeyFacts
  <2>2. b \in Byte /\ \A m \in Nodes : depth[m] = 1 /\ b = word[m][1] => m = n
    <3>1. depth[n] >= 1
      BY <2>1
    <3> QED
      BY <2>1, <3>1, LettersAre
  <2>3. nodeId[n] \in Nat
    <3>1. nodeId[n] \in Int /\ nodeId[n] >= 0
      BY DEF Ids, HasId
    <3> QED
      BY <3>1
  <2>4. f = [first EXCEPT ![b] = nodeId[n]]
    BY <1>3, <2>1
  <2> HIDE DEF b
  <2>5. f \in [Byte -> Nat] /\ f[b] = nodeId[n] /\ \A c \in Byte : c # b => f[c] = first[c]
    BY <1>2, <2>2, <2>3, <2>4
  <2>6. ASSUME NEW m \in Nodes, Keyed(m), StateNode(m), depth[m] = 1, ~ OpenIn(r, m)
        PROVE  f[word[m][1]] = nodeId[m]
    <3>1. CASE m = n
      BY <3>1, <2>5 DEF b
    <3>2. CASE m # n
      <4>1. ~ OpenIn(q, m)
        BY <3>2, <2>6, <1>1
      <4>2. word[m][1] \in Byte
        <5>1. depth[m] >= 1
          BY <2>6
        <5> QED
          BY <5>1, LettersAre
      <4>3. word[m][1] # b
        BY <3>2, <2>2, <2>6
      <4> QED
        BY <4>1, <4>2, <4>3, <2>5, <2>6, <1>2
    <3> QED
      BY <3>1, <3>2
  <2>7. ASSUME NEW c \in Byte, f[c] # LOOKUP_VALUE_NOT_FOUND
        PROVE  \E m \in Nodes : /\ Keyed(m) /\ StateNode(m) /\ depth[m] = 1
                                /\ word[m][1] = c /\ f[c] = nodeId[m]
    <3>1. CASE c = b
      BY <3>1, <2>1, <2>5 DEF b
    <3>2. CASE c # b
      BY <3>2, <2>5, <2>7, <1>2
    <3> QED
      BY <3>1, <3>2
  <2> QED
    BY <2>5, <2>6, <2>7 DEF FirstIs
<1>4. CASE Len(key[n]) # 1
  <2>1. f = first /\ ~ (Keyed(n) /\ depth[n] = 1)
    BY <1>4, KeyFacts
  <2>2. \A m \in Nodes : Keyed(m) /\ StateNode(m) /\ depth[m] = 1 /\ ~ OpenIn(r, m) => ~ OpenIn(q, m)
    BY <2>1, <1>1
  <2>3. \A m \in Nodes : Keyed(m) /\ StateNode(m) /\ depth[m] = 1 /\ ~ OpenIn(r, m) =>
            first[word[m][1]] = nodeId[m]
    BY <2>2, <1>2
  <2>4. FirstIs(first, r)
    <3>1. /\ first \in [Byte -> Nat]
          /\ \A c \in Byte : first[c] # LOOKUP_VALUE_NOT_FOUND =>
                \E m \in Nodes : /\ Keyed(m) /\ StateNode(m) /\ depth[m] = 1
                                 /\ word[m][1] = c /\ first[c] = nodeId[m]
      BY <1>2
    <3> QED
      BY <2>3, <3>1 DEF FirstIs
  <2> QED
    BY <2>1, <2>4
<1> QED
  BY <1>3, <1>4

\* And in that of depth 2.
LEMMA SecondIsSet ==
    ASSUME Built, Ids, NEW q, NEW n \in Nodes, StateNode(n), NEW r, NextQueue(q, n, r),
           NEW second, SecondIs(second, q), NEW g,
           g = IF Len(key[n]) = 2 THEN Put(second, key[n], nodeId[n]) ELSE second
    PROVE  SecondIs(g, r)
<1>1. \A m \in Nodes : StateNode(m) => (OpenIn(r, m) <=> OpenIn(q, m) /\ m # n)
  BY DEF NextQueue
<1>2. /\ second = [w \in DOMAIN second |-> second[w]]
      /\ \A m \in Nodes : Keyed(m) /\ StateNode(m) /\ depth[m] = 2 /\ ~ OpenIn(q, m) =>
            word[m] \in DOMAIN second
      /\ \A w \in DOMAIN second :
            \E m \in Nodes : /\ Keyed(m) /\ StateNode(m) /\ depth[m] = 2
                             /\ word[m] = w /\ second[w] = nodeId[m]
  BY DEF SecondIs
<1>3. CASE Len(key[n]) = 2
  <2> DEFINE u == word[n]
  <2>1. Keyed(n) /\ depth[n] = 2 /\ key[n] = u
    BY <1>3, KeyFacts
  <2>2. g = [x \in DOMAIN second \cup {u} |-> IF x \in DOMAIN second THEN second[x] ELSE nodeId[n]]
    BY <1>3, <2>1 DEF Put
  <2>3. /\ DOMAIN g = DOMAIN second \cup {u}
        /\ \A w \in DOMAIN second : g[w] = second[w]
        /\ u \notin DOMAIN second => g[u] = nodeId[n]
        /\ g = [w \in DOMAIN g |-> g[w]]
    BY <2>2
  <2>4. ASSUME NEW m \in Nodes, Keyed(m), StateNode(m), depth[m] = 2, ~ OpenIn(r, m)
        PROVE  word[m] \in DOMAIN g
    <3>1. m = n \/ ~ OpenIn(q, m)
      BY <2>4, <1>1
    <3> QED
      BY <3>1, <2>3, <2>4, <1>2
  <2>5. ASSUME NEW w \in DOMAIN g
        PROVE  \E m \in Nodes : /\ Keyed(m) /\ StateNode(m) /\ depth[m] = 2
                                /\ word[m] = w /\ g[w] = nodeId[m]
    <3>1. CASE w \in DOMAIN second
      BY <3>1, <2>3, <1>2
    <3>2. CASE w \notin DOMAIN second
      <4>1. w = u
        BY <3>2, <2>3, <2>5
      <4> QED
        BY <4>1, <3>2, <2>1, <2>3
    <3> QED
      BY <3>1, <3>2
  <2> QED
    BY <2>3, <2>4, <2>5 DEF SecondIs
<1>4. CASE Len(key[n]) # 2
  <2>1. g = second /\ ~ (Keyed(n) /\ depth[n] = 2)
    BY <1>4, KeyFacts
  <2> QED
    BY <2>1, <1>1, <1>2 DEF SecondIs
<1> QED
  BY <1>3, <1>4

\* The state of n is done.
LEMMA StateIsDone ==
    ASSUME Built, Ids, NEW q, NEW n \in Nodes, StateNode(n), NEW r, NextQueue(q, n, r),
           StatesAre(states, q), NEW d, Done(d, nodeId[n], n),
           NEW sts, sts = [states EXCEPT ![nodeId[n]] = d]
    PROVE  StatesAre(sts, r) /\ DOMAIN sts = DOMAIN states
<1>1. /\ \A m \in Nodes : StateNode(m) => (OpenIn(r, m) <=> OpenIn(q, m) /\ m # n)
      /\ ~ OpenIn(r, n)
  BY DEF NextQueue
<1>2. /\ nodeId[n] \in DOMAIN states /\ nodeTable[nodeId[n]] = n
      /\ \A id \in DOMAIN states : StateNode(nodeTable[id]) /\ nodeId[nodeTable[id]] = id
  BY DEF Ids
<1>3. DOMAIN sts = DOMAIN states /\ sts[nodeId[n]] = d
  BY <1>2
<1>4. \A id \in DOMAIN states : id # nodeId[n] => sts[id] = states[id]
  OBVIOUS
<1>5. ASSUME NEW id \in DOMAIN sts
      PROVE  /\ OpenIn(r, nodeTable[id]) => Fresh(sts[id], id, nodeTable[id])
             /\ ~ OpenIn(r, nodeTable[id]) => Done(sts[id], id, nodeTable[id])
  <2>1. CASE id = nodeId[n]
    BY <2>1, <1>1, <1>2, <1>3
  <2>2. CASE id # nodeId[n]
    <3>1. nodeTable[id] # n /\ StateNode(nodeTable[id]) /\ nodeTable[id] \in Nodes
      BY <2>2, <1>2, <1>3, <1>5 DEF StateNode
    <3>2. OpenIn(r, nodeTable[id]) <=> OpenIn(q, nodeTable[id])
      BY <3>1, <1>1
    <3>3. sts[id] = states[id] /\ id \in DOMAIN states
      BY <2>2, <1>3, <1>4, <1>5
    <3> QED
      BY <3>2, <3>3 DEF StatesAre
  <2> QED
    BY <2>1, <2>2
<1> QED
  BY <1>3, <1>5 DEF StatesAre

-----------------------------------------------------------------------------
(* The iterations of setStatesData.                                        *)

\* The messages depend on the tree and the numbers.
LEMMA MessagesStay ==
    ASSUME UNCHANGED <<acVars, nodeId, nodeTable>>
    PROVE  /\ \A n : Messages(n)' = Messages(n)
           /\ \A n, k : PathMessages(n, k)' = PathMessages(n, k)
<1>1. Nodes' = Nodes /\ failure' = failure /\ match' = match /\ message' = message /\ nodeId' = nodeId
  BY DEF Nodes, acVars, treeVars, failVars, matchVars
<1>2. UNCHANGED acVars
  OBVIOUS
<1>3. \A n : Climbed(n)' = Climbed(n)
  <2>1. {m \in Nodes : nodeId[m] >= 0}' = {m \in Nodes : nodeId[m] >= 0}
    BY <1>1
  <2> QED
    BY <1>1, <2>1 DEF Climbed
<1>4. \A n : Messages(n)' = Messages(n)
  BY <1>1, <1>3 DEF Messages
<1>5. \A n : OwnMessage(n)' = OwnMessage(n)
  BY <1>1 DEF OwnMessage
<1>6. \A n : EndsInLeaf(n)' = EndsInLeaf(n) /\ PathEnd(n)' = PathEnd(n) /\ Path(n)' = Path(n)
  BY <1>2, TreeStays DEF EndsInLeaf
<1>7. \A n : Landing(n)' = Landing(n)
  BY <1>1, <1>6 DEF Landing
<1>8. \A n, k : PathMessages(n, k)' = PathMessages(n, k)
  BY <1>1, <1>4, <1>5, <1>6, <1>7 DEF PathMessages
<1> QED
  BY <1>4, <1>8

\* Nothing of this depends on more than the tree and the numbers.
LEMMA DataStays ==
    ASSUME UNCHANGED <<acVars, nodeId, nodeTable>>
    PROVE  \A sts, first, second, q : DataIs(sts, first, second, q)' = DataIs(sts, first, second, q)
<1>1. Nodes' = Nodes /\ word' = word /\ depth' = depth /\ nodeId' = nodeId /\ nodeTable' = nodeTable /\ failure' = failure
  <2>1. Nodes' = Nodes /\ word' = word /\ depth' = depth /\ failure' = failure
    BY DEF Nodes, acVars, treeVars, failVars
  <2>2. nodeId' = nodeId /\ nodeTable' = nodeTable
    OBVIOUS
  <2> QED
    BY <2>1, <2>2
<1>2. UNCHANGED acVars
  OBVIOUS
<1>3. \A n : Keyed(n)' = Keyed(n) /\ HasId(n)' = HasId(n)
  BY <1>1, <1>2, TreeStays DEF Keyed, HasId
<1>4. \A q : QueueIs(q)' = QueueIs(q)
  BY <1>1, <1>3 DEF QueueIs, Apart
<1>5. \A first, q : FirstIs(first, q)' = FirstIs(first, q)
  BY <1>1, <1>2, <1>3, TreeStays DEF FirstIs
<1>6. \A second, q : SecondIs(second, q)' = SecondIs(second, q)
  BY <1>1, <1>2, <1>3, TreeStays DEF SecondIs
<1>7. \A n : TypeOf(n)' = TypeOf(n)
  BY <1>1, <1>3 DEF TypeOf
<1>8. \A n, es : BranchSet(n, es)' = BranchSet(n, es)
  <2>1. /\ gotos' = gotos
        /\ \A n : /\ numGotos(n)' = numGotos(n) /\ Chars(n)' = Chars(n)
                  /\ ChildrenInOrder(n)' = ChildrenInOrder(n) /\ Leads(n)' = Leads(n)
    BY <1>2, TreeStays DEF acVars, treeVars
  <2> QED
    BY <2>1, <1>1, <1>7 DEF BranchSet
<1>9. \A n, l, es : PathSet(n, l, es)' = PathSet(n, l, es)
  <2>1. \A n : Only(n)' = Only(n) /\ Path(n)' = Path(n)
    BY <1>2, TreeStays
  <2> QED
    BY <2>1, <1>1, <1>7 DEF PathSet
<1>14. \A n, es : BranchMarks(n, es)' = BranchMarks(n, es)
  <2>1. \A n : Messages(n)' = Messages(n) /\ numGotos(n)' = numGotos(n) /\ ChildrenInOrder(n)' = ChildrenInOrder(n)
    BY <1>2, TreeStays, MessagesStay
  <2> QED
    BY <2>1 DEF BranchMarks
<1>15. \A n, l, es : PathMarks(n, l, es)' = PathMarks(n, l, es)
  <2>1. \A n, k : PathMessages(n, k)' = PathMessages(n, k)
    BY MessagesStay
  <2> QED
    BY <2>1 DEF PathMarks
<1>10. \A d, id, n, es : BranchHolds(d, id, n, es)' = BranchHolds(d, id, n, es)
  BY <1>1, <1>2, <1>8, <1>14, TreeStays DEF BranchHolds
<1>11. \A d, id, n, l, es : PathHolds(d, id, n, l, es)' = PathHolds(d, id, n, l, es)
  BY <1>1, <1>2, <1>9, <1>15, TreeStays DEF PathHolds
<1>12. \A d, id, n : Done(d, id, n)' = Done(d, id, n)
  BY <1>2, <1>10, <1>11, TreeStays DEF Done
<1>13. \A sts, q : StatesAre(sts, q)' = StatesAre(sts, q)
  BY <1>1, <1>2, <1>12, TreeStays, GeneratedStays DEF StatesAre
<1> QED
  BY <1>4, <1>5, <1>6, <1>13 DEF DataIs

\* Before the first.
LEMMA DataStarts ==
    ASSUME Built, Ids, IdsFit, AllFresh, firstLevel = [c \in Byte |-> LOOKUP_VALUE_NOT_FOUND],
           secondLevel = Empty
    PROVE  DataIs(states, firstLevel, secondLevel, <<Root>>)
<1> DEFINE q == <<Root>>
<1>1. Root \in Nodes /\ \A n \in Nodes : Begins(word[Root], word[n])
  BY RootFacts DEF Built
<1>2. q \in Seq(Nodes) /\ DOMAIN q = {1} /\ q[1] = Root
  BY <1>1
<1> HIDE DEF q
<1>3. \A n \in Nodes : OpenIn(q, n)
  BY <1>1, <1>2 DEF OpenIn
<1>4. QueueIs(q)
  BY <1>2 DEF QueueIs, Apart, HasId
<1>5. StatesAre(states, q)
  <2>1. \A id \in DOMAIN states : Fresh(states[id], id, nodeTable[id]) /\ nodeTable[id] \in Nodes
    BY DEF AllFresh, Ids, StateNode
  <2> QED
    BY <2>1, <1>3 DEF StatesAre
<1>6. FirstIs(firstLevel, q)
  <2>1. LOOKUP_VALUE_NOT_FOUND \in Nat
    BY DEF LOOKUP_VALUE_NOT_FOUND
  <2>2. firstLevel \in [Byte -> Nat] /\ \A c \in Byte : firstLevel[c] = LOOKUP_VALUE_NOT_FOUND
    BY <2>1
  <2> QED
    BY <2>2, <1>3 DEF FirstIs
<1>7. SecondIs(secondLevel, q)
  <2>1. secondLevel = [w \in DOMAIN secondLevel |-> secondLevel[w]] /\ DOMAIN secondLevel = {}
    BY DEF Empty
  <2> QED
    BY <2>1, <1>3 DEF SecondIs
<1> QED
  BY <1>4, <1>5, <1>6, <1>7 DEF DataIs, q

\* The first node of the queue.
LEMMA HeadOfData ==
    ASSUME Built, Ids, QueueIs(pending), pending # <<>>, NEW n, n = Head(pending)
    PROVE  /\ pending \in Seq(Nodes) /\ Apart(pending) /\ \A i \in DOMAIN pending : HasId(pending[i])
           /\ n \in Nodes /\ HasId(n) /\ (~ IsLeaf(n) => StateNode(n)) /\ OpenIn(pending, n)
           /\ nodeId[n] \notin DOMAIN states => IsLeaf(n) /\ n = Root
<1>1. pending \in Seq(Nodes) /\ Apart(pending) /\ \A i \in DOMAIN pending : HasId(pending[i])
  BY DEF QueueIs
<1>2. 1 \in DOMAIN pending /\ pending[1] = n /\ n \in Nodes
  BY <1>1
<1>3. HasId(n)
  BY <1>1, <1>2
<1>4. ~ IsLeaf(n) => StateNode(n)
  BY <1>2, <1>3 DEF HasId, StateNode, Interior
<1>5. StateNode(n) => nodeId[n] \in DOMAIN states
  BY <1>2 DEF Ids
<1>6. OpenIn(pending, n)
  <2>1. word[n] \in Seq(Char)
    BY <1>2, TypeFacts DEF Built
  <2>2. Begins(word[n], word[n])
    BY <2>1, BeginsOrder
  <2> QED
    BY <2>2, <1>2 DEF OpenIn
<1>7. IsLeaf(n) => n = Root
  BY <1>3 DEF HasId, StateNode
<1> QED
  BY <1>1, <1>2, <1>3, <1>4, <1>5, <1>6, <1>7

\* What a state that is set leaves.
LEMMA DataIsSet ==
    ASSUME Built, Ids, DataIs(states, firstLevel, secondLevel, pending), pending # <<>>,
           NEW n, n = Head(pending), StateNode(n), NEW hs, Enqueued(n, hs),
           NEW d, Done(d, nodeId[n], n), NEW sts, sts = [states EXCEPT ![nodeId[n]] = d],
           NEW f, f = IF Len(key[n]) = 1 THEN [firstLevel EXCEPT ![key[n][1]] = nodeId[n]] ELSE firstLevel,
           NEW g, g = IF Len(key[n]) = 2 THEN Put(secondLevel, key[n], nodeId[n]) ELSE secondLevel
    PROVE  DataIs(sts, f, g, Tail(pending) \o hs) /\ DOMAIN sts = DOMAIN states
<1> DEFINE r == Tail(pending) \o hs
<1>1. /\ QueueIs(pending) /\ StatesAre(states, pending)
      /\ FirstIs(firstLevel, pending) /\ SecondIs(secondLevel, pending)
  BY DEF DataIs
<1>2. pending \in Seq(Nodes) /\ Apart(pending) /\ \A i \in DOMAIN pending : HasId(pending[i])
  BY <1>1 DEF QueueIs
<1>3. NextQueue(pending, n, r) /\ n \in Nodes
  BY <1>2, QueueMoves
<1> HIDE DEF r
<1>4. StatesAre(sts, r) /\ DOMAIN sts = DOMAIN states
  BY <1>1, <1>3, StateIsDone
<1>5. FirstIs(f, r)
  BY <1>1, <1>3, FirstIsSet
<1>6. SecondIs(g, r)
  BY <1>1, <1>3, SecondIsSet
<1>7. QueueIs(r)
  BY <1>3 DEF NextQueue, QueueIs
<1> QED
  BY <1>4, <1>5, <1>6, <1>7 DEF DataIs, r

\* What a step of setStatesData does: it exits only below a root with one goto.
DataStep ==
    /\ UNCHANGED <<acVars, maxGotos, nodeId, key, nodeTable, scanVars>> /\ DOMAIN states' = DOMAIN states
    /\ cpc' = "data" => /\ DataIs(states', firstLevel', secondLevel', pending')
                        /\ DOMAIN rows' \subseteq DOMAIN states
    /\ cpc' # "data" => /\ cpc' = "exit" /\ ~ RootBranches
                        /\ UNCHANGED <<pending, states, rows, firstLevel, secondLevel>>

\* A row for a state.
LEMMA RowIsAdded ==
    ASSUME DOMAIN rows \subseteq DOMAIN states, NEW id \in DOMAIN states, NEW cells, AddRow(id, cells)
    PROVE  DOMAIN rows' \subseteq DOMAIN states
<1>1. cells = <<>> => rows' = rows
  BY DEF AddRow
<1>2. cells # <<>> => DOMAIN rows' = DOMAIN rows \cup {id}
  BY DEF AddRow, Put
<1> QED
  BY <1>1, <1>2

\* There is no state for a root without gotos.
LEMMA NothingIsSet ==
    ASSUME Built, Ids, DataIs(states, firstLevel, secondLevel, pending), SetNothing
    PROVE  DataStep
<1> DEFINE n == Head(pending)
<1>1. /\ pending # <<>> /\ nodeId[n] \notin DOMAIN states /\ cpc' = "exit"
      /\ UNCHANGED <<acVars, maxGotos, pending, nodeId, key, machineVars, scanVars>>
  BY DEF SetNothing, Stop
<1>2. IsLeaf(n) /\ n = Root
  BY <1>1, HeadOfData DEF DataIs
<1>3. ~ RootBranches
  <2>1. numGotos(Root) = 0
    BY <1>2, FS_EmptySet DEF IsLeaf, numGotos
  <2> QED
    BY <2>1 DEF RootBranches
<1> QED
  BY <1>1, <1>3 DEF DataStep, machineVars

\* A branch.
LEMMA BranchIsStored ==
    ASSUME Built, Ids, IdsFit, DataIs(states, firstLevel, secondLevel, pending),
           DOMAIN rows \subseteq DOMAIN states, SetBranch
    PROVE  DataStep
<1> DEFINE n == Head(pending)
           id == nodeId[n]
           es == [k \in 1 .. numGotos(n) |-> BranchElement(n, CharsInOrder(n)[k])]
           d == setDataBranchState(states[id], es, BranchFailure(n))
           hs == InOrder(ChildrenWithState(n))
           crashes == \E m \in ToSet(ChildrenInOrder(n)) : SetPointerCrashes(m)
           exits == SetPointerExits(failure[n], TRUE) \/ WriterExits(states[id], es)
           row == SortRow(states[id], es, BranchCells(n))
<1>1. /\ cpc = "data" /\ pending # <<>> /\ numGotos(n) > 1
      /\ crashes => Stop("crash")
      /\ ~ crashes /\ exits => Stop("exit")
      /\ ~ crashes /\ ~ exits =>
            /\ SetLookup(n) /\ AddRow(id, row) /\ states' = [states EXCEPT ![id] = d]
            /\ pending' = Tail(pending) \o hs
            /\ UNCHANGED <<acVars, cpc, maxGotos, nodeId, key, nodeTable, scanVars>>
  BY DEF SetBranch
<1>2. n \in Nodes /\ HasId(n) /\ StateNode(n) /\ OpenIn(pending, n)
  <2>1. n \in Nodes /\ HasId(n) /\ (~ IsLeaf(n) => StateNode(n)) /\ OpenIn(pending, n)
    BY <1>1, HeadOfData DEF DataIs
  <2>2. ~ IsLeaf(n)
    <3>1. numGotos(n) = 0 <=> IsLeaf(n)
      BY <2>1, GotoCount
    <3> QED
      BY <3>1, <1>1
  <2> QED
    BY <2>1, <2>2
<1>3. id \in DOMAIN states /\ nodeTable[id] = n
  BY <1>2 DEF Ids
<1> HIDE DEF n
<1>4. FreshBranch(states[id], id, n)
  <2>1. Fresh(states[id], id, n)
    BY <1>2, <1>3 DEF DataIs, StatesAre
  <2> QED
    BY <2>1, <1>1 DEF Fresh
<1>5. BranchSet(n, es) /\ BranchMarks(n, es)
  BY <1>1, <1>2, BranchElements, BranchesAreMarked
<1>6. ~ crashes
  <2>1. \A m \in ToSet(ChildrenInOrder(n)) : m \in Nodes /\ \E c \in Chars(n) : m = gotos[n][c]
    <3>1. ChildrenBelow(n, ChildrenInOrder(n))
      BY <1>2, ChildrenOfNode
    <3> QED
      BY <3>1 DEF ChildrenBelow
  <2>2. \A m \in ToSet(ChildrenInOrder(n)) : HasId(m) \/ IsLeaf(m)
    BY <1>1, <1>2, <2>1, BranchChild DEF HasId
  <2> QED
    BY <2>1, <2>2, PointersAreSet
<1>7. ~ SetPointerExits(failure[n], TRUE)
  BY <1>2, PointersAreSet
<1>8. BranchFailure(n) = nodeId[failure[n]]
  <2>1. HasId(failure[n]) /\ failure[n] \in Nodes
    BY <1>2, TargetIs
  <2>2. Target(failure[n]) = failure[n]
    BY <2>1, TargetIs
  <2> QED
    BY <2>2 DEF BranchFailure
<1> HIDE DEF es, id, hs, crashes, row
<1>9. /\ RootBranches => ~ WriterExits(states[id], es)
      /\ ~ WriterExits(states[id], es) =>
            BranchHolds(setDataBranchState(states[id], es, nodeId[failure[n]]), id, n, es)
  BY <1>1, <1>2, <1>4, <1>5, BranchIsDone
<1>10. CASE exits
  <2>1. Stop("exit") /\ ~ RootBranches
    BY <1>1, <1>6, <1>7, <1>9, <1>10
  <2> QED
    BY <2>1 DEF DataStep, Stop, machineVars
<1>11. CASE ~ exits
  <2>1. /\ SetLookup(n) /\ AddRow(id, row) /\ states' = [states EXCEPT ![id] = d]
        /\ pending' = Tail(pending) \o hs
        /\ UNCHANGED <<acVars, cpc, maxGotos, nodeId, key, nodeTable, scanVars>>
    BY <1>1, <1>6, <1>11
  <2>2. BranchHolds(d, id, n, es)
    BY <1>8, <1>9, <1>11
  <2> HIDE DEF d, exits
  <2>3. Done(d, id, n)
    BY <1>1, <2>2 DEF Done
  <2>4. Enqueued(n, hs)
    BY <1>1, <1>2, BranchEnqueues DEF hs
  <2>5. /\ firstLevel' = IF Len(key[n]) = 1 THEN [firstLevel EXCEPT ![key[n][1]] = nodeId[n]] ELSE firstLevel
        /\ secondLevel' = IF Len(key[n]) = 2 THEN Put(secondLevel, key[n], nodeId[n]) ELSE secondLevel
    BY <2>1 DEF SetLookup
  <2> DEFINE f == firstLevel'
             g == secondLevel'
             sts == states'
             r == pending'
  <2>6. /\ n = Head(pending) /\ Done(d, nodeId[n], n) /\ sts = [states EXCEPT ![nodeId[n]] = d]
        /\ f = IF Len(key[n]) = 1 THEN [firstLevel EXCEPT ![key[n][1]] = nodeId[n]] ELSE firstLevel
        /\ g = IF Len(key[n]) = 2 THEN Put(secondLevel, key[n], nodeId[n]) ELSE secondLevel
        /\ r = Tail(pending) \o hs
    BY <2>1, <2>3, <2>5 DEF n, id
  <2> HIDE DEF f, g, sts, r
  <2>7. DataIs(sts, f, g, r) /\ DOMAIN sts = DOMAIN states
    BY <1>1, <1>2, <2>4, <2>6, DataIsSet
  <2>8. DOMAIN rows' \subseteq DOMAIN states
    BY <2>1, <1>3, RowIsAdded
  <2> QED
    BY <1>1, <2>1, <2>7, <2>8 DEF DataStep, f, g, sts, r
<1> QED
  BY <1>10, <1>11

\* A path.
LEMMA PathIsStored ==
    ASSUME Built, Ids, IdsFit, DataIs(states, firstLevel, secondLevel, pending),
           DOMAIN rows \subseteq DOMAIN states, SetPath
    PROVE  DataStep
<1> DEFINE n == Head(pending)
           id == nodeId[n]
           es == [k \in 1 .. Len(Path(n)) |-> PathElement(n, k)]
           d == setStateData_PC(states[id], es, nodeId[Target(Landing(n))])
           hs == IF EndsInLeaf(n) THEN <<>> ELSE <<PathEnd(n)>>
           crashes == SetPointerCrashes(Landing(n)) \/ ~ EndsPath(Landing(n))
           exits == (\E m \in ToSet(Path(n)) : SetPointerExits(failure[m], TRUE)) \/ WriterExits(states[id], es)
<1>1. /\ cpc = "data" /\ pending # <<>> /\ numGotos(n) = 1
      /\ crashes => Stop("crash")
      /\ ~ crashes /\ exits => Stop("exit")
      /\ ~ crashes /\ ~ exits =>
            /\ SetLookup(n) /\ AddRow(id, PathCells(n)) /\ states' = [states EXCEPT ![id] = d]
            /\ pending' = Tail(pending) \o hs
            /\ UNCHANGED <<acVars, cpc, maxGotos, nodeId, key, nodeTable, scanVars>>
  BY DEF SetPath
<1>2. n \in Nodes /\ HasId(n) /\ StateNode(n) /\ OpenIn(pending, n)
  <2>1. n \in Nodes /\ HasId(n) /\ (~ IsLeaf(n) => StateNode(n)) /\ OpenIn(pending, n)
    BY <1>1, HeadOfData DEF DataIs
  <2>2. ~ IsLeaf(n)
    <3>1. numGotos(n) = 0 <=> IsLeaf(n)
      BY <2>1, GotoCount
    <3> QED
      BY <3>1, <1>1
  <2> QED
    BY <2>1, <2>2
<1>3. id \in DOMAIN states /\ nodeTable[id] = n
  BY <1>2 DEF Ids
<1> HIDE DEF n
<1>4. FreshPath(states[id], id, n)
  <2>1. Fresh(states[id], id, n)
    BY <1>2, <1>3 DEF DataIs, StatesAre
  <2> QED
    BY <2>1, <1>1 DEF Fresh
<1>5. PICK l \in Nat : PathWalk(n, l)
  BY <1>4 DEF FreshPath
<1>6. ~ crashes
  BY <1>2, <1>5, LandingIs
<1>7. \A m \in ToSet(Path(n)) : ~ SetPointerExits(failure[m], TRUE)
  <2>1. \A m \in ToSet(Path(n)) : m \in Nodes
    <3>1. Path(n) \in Seq(Nodes)
      BY <1>5 DEF PathWalk
    <3> QED
      BY <3>1, WordFacts DEF ToSet
  <2> QED
    BY <2>1, PointersAreSet
<1>8. es = [k \in 1 .. Len(Path(n)) |-> PathElement(n, k)]
  OBVIOUS
<1> HIDE DEF es, id, hs, crashes
<1>9. /\ RootBranches => ~ WriterExits(states[id], es)
      /\ ~ WriterExits(states[id], es) =>
            \E k \in Nat : PathHolds(setStateData_PC(states[id], es, nodeId[Target(Landing(n))]), id, n, k, es)
  BY <1>2, <1>4, <1>8, PathIsDone
<1>10. CASE exits
  <2>1. Stop("exit") /\ ~ RootBranches
    BY <1>1, <1>6, <1>7, <1>9, <1>10
  <2> QED
    BY <2>1 DEF DataStep, Stop, machineVars
<1>11. CASE ~ exits
  <2>1. /\ SetLookup(n) /\ AddRow(id, PathCells(n)) /\ states' = [states EXCEPT ![id] = d]
        /\ pending' = Tail(pending) \o hs
        /\ UNCHANGED <<acVars, cpc, maxGotos, nodeId, key, nodeTable, scanVars>>
    BY <1>1, <1>6, <1>11
  <2>2. \E k \in Nat : PathHolds(d, id, n, k, es)
    BY <1>9, <1>11
  <2> HIDE DEF d, exits
  <2>3. Done(d, id, n)
    BY <1>1, <2>2 DEF Done
  <2>4. Enqueued(n, hs)
    BY <1>2, <1>5, PathEnqueues DEF hs
  <2>5. /\ firstLevel' = IF Len(key[n]) = 1 THEN [firstLevel EXCEPT ![key[n][1]] = nodeId[n]] ELSE firstLevel
        /\ secondLevel' = IF Len(key[n]) = 2 THEN Put(secondLevel, key[n], nodeId[n]) ELSE secondLevel
    BY <2>1 DEF SetLookup
  <2> DEFINE f == firstLevel'
             g == secondLevel'
             sts == states'
             r == pending'
  <2>6. /\ n = Head(pending) /\ Done(d, nodeId[n], n) /\ sts = [states EXCEPT ![nodeId[n]] = d]
        /\ f = IF Len(key[n]) = 1 THEN [firstLevel EXCEPT ![key[n][1]] = nodeId[n]] ELSE firstLevel
        /\ g = IF Len(key[n]) = 2 THEN Put(secondLevel, key[n], nodeId[n]) ELSE secondLevel
        /\ r = Tail(pending) \o hs
    BY <2>1, <2>3, <2>5 DEF n, id
  <2> HIDE DEF f, g, sts, r
  <2>7. DataIs(sts, f, g, r) /\ DOMAIN sts = DOMAIN states
    BY <1>1, <1>2, <2>4, <2>6, DataIsSet
  <2>8. DOMAIN rows' \subseteq DOMAIN states
    BY <2>1, <1>3, RowIsAdded
  <2> QED
    BY <1>1, <2>1, <2>7, <2>8 DEF DataStep, f, g, sts, r
<1> QED
  BY <1>10, <1>11

-----------------------------------------------------------------------------
(* What the scan needs of the automaton.                                   *)

Ascii == 1 .. 127
\* The word of n ends t.
EndsText(n, t) == Ends(word[n], t)
\* It does, and no node with a longer word has a goto for c.
Follows(n, t, c) ==
    /\ n \in Nodes /\ EndsText(n, t)
    /\ \A m \in Nodes : EndsText(m, t) /\ depth[m] > depth[n] => c \notin Chars(m)

LEMMA WordsAreAscii ==
    ASSUME Built
    PROVE  /\ \A n \in Nodes : word[n] \in Seq(Ascii) /\ depth[n] = Len(word[n]) /\ depth[n] \in Nat
           /\ Char \subseteq Ascii /\ Root \in Nodes /\ depth[Root] = 0 /\ Chars(Root) \subseteq Ascii
<1>1. Char \subseteq Ascii
  BY CMAssumption DEF Ascii
<1>2. \A n \in Nodes : word[n] \in Seq(Char) /\ depth[n] = Len(word[n])
  BY TypeFacts DEF Built, TreeInv
<1>3. \A n \in Nodes : word[n] \in Seq(Ascii) /\ depth[n] \in Nat
  BY <1>1, <1>2, WordFacts
<1>4. Root \in Nodes /\ depth[Root] = 0 /\ Chars(Root) \subseteq Char
  BY RootFacts DEF Built, Chars
<1> QED
  BY <1>1, <1>2, <1>3, <1>4

\* Only the goto of n leads to a longer word that ends the text with c.
LEMMA NoLongerWord ==
    ASSUME Built, NEW n, NEW t \in Seq(Ascii), NEW c \in Ascii, Follows(n, t, c),
           NEW m \in Nodes, EndsText(m, Append(t, c)), depth[m] > depth[n]
    PROVE  c \in Chars(n) /\ m = gotos[n][c]
<1>1. n \in Nodes /\ EndsText(n, t) /\ depth[n] \in Nat /\ depth[m] \in Nat
  BY WordsAreAscii DEF Follows
<1>2. m # Root
  BY <1>1, WordsAreAscii
<1>3. PICK p \in Nodes, d \in Char : gotos[p][d] = m
  BY <1>2 DEF Built, TreeInv
<1>4. d \in Chars(p)
  BY <1>3, TypeFacts DEF Chars, Built
<1>5. word[m] = Append(word[p], d) /\ word[p] \in Seq(Ascii) /\ d \in Ascii /\ word[n] \in Seq(Ascii)
      /\ depth[p] = Len(word[p]) /\ depth[n] = Len(word[n]) /\ depth[m] = Len(word[m])
  BY <1>1, <1>3, <1>4, ChildFacts, WordsAreAscii DEF Built
<1>6. d = c /\ EndsText(p, t)
  BY <1>5, EndsAppend DEF EndsText
<1>7. ~ depth[p] > depth[n]
  BY <1>1, <1>4, <1>6 DEF Follows
<1>8. depth[p] = depth[n]
  <2>1. depth[m] = depth[p] + 1 /\ depth[p] \in Nat
    BY <1>5
  <2> QED
    BY <1>1, <1>7, <2>1
<1>9. p = n
  <2>1. word[p] = word[n]
    BY <1>1, <1>5, <1>6, <1>8, EndsOrder DEF EndsText
  <2> QED
    BY <1>1, <2>1 DEF Built, TreeInv
<1> QED
  BY <1>3, <1>4, <1>6, <1>9

\* A leaf has no goto.
LEMMA LeafStops ==
    ASSUME Built, NEW n \in Nodes, IsLeaf(n)
    PROVE  Chars(n) = {}
  BY DEF IsLeaf

\* A goto: behind a leaf the scan goes on in its failure.
LEMMA Advance ==
    ASSUME Built, NEW n, NEW t \in Seq(Ascii), NEW c \in Ascii, Follows(n, t, c), c \in Chars(n),
           NEW m, m = gotos[n][c]
    PROVE  /\ m \in Nodes /\ EndsText(m, Append(t, c)) /\ EndsText(Leads(m), Append(t, c))
           /\ \A d : Follows(m, Append(t, c), d) /\ Follows(Leads(m), Append(t, c), d)
<1> DEFINE u == Append(t, c)
<1>1. n \in Nodes /\ EndsText(n, t) /\ depth[n] \in Nat /\ word[n] \in Seq(Ascii) /\ depth[n] = Len(word[n])
  BY WordsAreAscii DEF Follows
<1>2. m \in Nodes \ {Root} /\ word[m] = Append(word[n], c)
  BY <1>1, ChildFacts DEF Built, TreeInv, Chars
<1>3. depth[m] = depth[n] + 1 /\ word[m] \in Seq(Ascii) /\ depth[m] = Len(word[m])
  BY <1>1, <1>2, WordsAreAscii
<1>4. u \in Seq(Ascii)
  OBVIOUS
<1>5. EndsText(m, u)
  BY <1>1, <1>2, EndsAppend DEF EndsText
<1>6. \A x \in Nodes : EndsText(x, u) /\ depth[x] > depth[n] => x = m
  BY <1>2, NoLongerWord
<1> HIDE DEF u
<1>7. ASSUME NEW x \in Nodes, EndsText(x, u), depth[x] > depth[m] PROVE FALSE
  <2>1. depth[x] > depth[n] /\ depth[x] \in Nat
    BY <1>1, <1>3, <1>7, WordsAreAscii
  <2> QED
    BY <1>3, <1>6, <1>7, <2>1
<1>8. \A d : Follows(m, u, d)
  BY <1>2, <1>5, <1>7 DEF Follows
<1>9. CASE ~ IsLeaf(m)
  BY <1>2, <1>5, <1>8, <1>9 DEF Leads, u
<1>10. CASE IsLeaf(m)
  <2> DEFINE f == failure[m]
  <2>1. Leads(m) = f /\ f \in Nodes /\ Ends(word[f], word[m]) /\ depth[f] < depth[m]
        /\ \A x \in Nodes : Ends(word[x], word[m]) /\ depth[f] < depth[x] /\ depth[x] < depth[m] => IsLeaf(x)
    BY <1>2, <1>10 DEF Leads, Built
  <2> HIDE DEF f
  <2>2. EndsText(f, u)
    <3>1. word[f] \in Seq(Ascii)
      BY <2>1, WordsAreAscii
    <3> QED
      BY <1>3, <1>4, <1>5, <2>1, <3>1, EndsOrder DEF EndsText
  <2>3. ASSUME NEW x \in Nodes, EndsText(x, u), depth[x] > depth[f], NEW d PROVE d \notin Chars(x)
    <3>1. depth[x] \in Nat /\ depth[f] \in Nat /\ word[x] \in Seq(Ascii) /\ depth[x] = Len(word[x])
      BY <2>1, WordsAreAscii
    <3>2. depth[x] <= depth[m]
      BY <1>3, <1>7, <2>3, <3>1
    <3>3. Ends(word[x], word[m])
      BY <1>3, <1>4, <1>5, <2>3, <3>1, <3>2, EndsOrder DEF EndsText
    <3>4. CASE depth[x] = depth[m]
      <4>1. depth[x] > depth[n]
        BY <1>1, <1>3, <3>1, <3>4
      <4>2. x = m
        BY <1>6, <2>3, <4>1
      <4> QED
        BY <1>2, <1>10, <4>2, LeafStops
    <3>5. CASE depth[x] # depth[m]
      <4>1. depth[x] < depth[m] /\ depth[f] < depth[x]
        BY <1>3, <2>3, <3>1, <3>2, <3>5
      <4>2. IsLeaf(x)
        BY <2>1, <3>3, <4>1
      <4> QED
        BY <4>2, LeafStops
    <3> QED
      BY <3>4, <3>5
  <2>4. \A d : Follows(f, u, d)
    BY <2>1, <2>2, <2>3 DEF Follows
  <2> QED
    BY <1>2, <1>5, <1>8, <2>1, <2>2, <2>4 DEF u
<1> QED
  BY <1>9, <1>10

\* No goto: the failure is the next node to ask.
LEMMA FallBack ==
    ASSUME Built, NEW n, NEW t \in Seq(Ascii), NEW c, Follows(n, t, c), c \notin Chars(n), n # Root
    PROVE  Follows(failure[n], t, c) /\ depth[failure[n]] < depth[n] /\ failure[n] \in Nodes
<1> DEFINE f == failure[n]
<1>1. n \in Nodes \ {Root} /\ EndsText(n, t)
  BY DEF Follows
<1>2. f \in Nodes /\ Ends(word[f], word[n]) /\ depth[f] < depth[n]
      /\ \A m \in Nodes : Ends(word[m], word[n]) /\ depth[f] < depth[m] /\ depth[m] < depth[n] => IsLeaf(m)
  BY <1>1 DEF Built
<1> HIDE DEF f
<1>3. /\ word[n] \in Seq(Ascii) /\ depth[n] = Len(word[n]) /\ depth[n] \in Nat
      /\ word[f] \in Seq(Ascii) /\ depth[f] = Len(word[f]) /\ depth[f] \in Nat
  BY <1>1, <1>2, WordsAreAscii
<1>4. EndsText(f, t)
  BY <1>1, <1>2, <1>3, EndsOrder DEF EndsText
<1>5. ASSUME NEW m \in Nodes, EndsText(m, t), depth[m] > depth[f] PROVE c \notin Chars(m)
  <2>1. word[m] \in Seq(Ascii) /\ depth[m] = Len(word[m]) /\ depth[m] \in Nat
    BY WordsAreAscii
  <2>2. CASE depth[m] > depth[n]
    BY <1>5, <2>2 DEF Follows
  <2>3. CASE depth[m] <= depth[n]
    <3>1. Ends(word[m], word[n])
      BY <1>1, <1>3, <1>5, <2>1, <2>3, EndsOrder DEF EndsText
    <3>2. CASE depth[m] = depth[n]
      <4>1. word[m] = word[n]
        BY <1>1, <1>3, <1>5, <2>1, <3>2, EndsOrder DEF EndsText
      <4>2. m = n
        BY <1>1, <4>1 DEF Built, TreeInv
      <4> QED
        BY <4>2
    <3>3. CASE depth[m] # depth[n]
      <4>1. depth[f] < depth[m] /\ depth[m] < depth[n]
        BY <1>3, <1>5, <2>1, <2>3, <3>3
      <4>2. IsLeaf(m)
        BY <1>2, <3>1, <4>1
      <4> QED
        BY <4>2, LeafStops
    <3> QED
      BY <3>2, <3>3
  <2> QED
    BY <1>3, <2>1, <2>2, <2>3
<1> QED
  BY <1>2, <1>4, <1>5 DEF Follows, f

\* The root has none: the text goes on without a word of a node at its end.
LEMMA StaysInRoot ==
    ASSUME Built, NEW t \in Seq(Ascii), NEW c \in Ascii, Follows(Root, t, c), c \notin Chars(Root)
    PROVE  \A d : Follows(Root, Append(t, c), d)
<1>1. \A m \in Nodes : ~ (EndsText(m, Append(t, c)) /\ depth[m] > depth[Root])
  BY NoLongerWord
<1>2. Root \in Nodes /\ word[Root] = <<>> /\ Append(t, c) \in Seq(Ascii)
  BY RootFacts DEF Built
<1>3. EndsText(Root, Append(t, c))
  BY <1>2, EndsOrder DEF EndsText
<1> QED
  BY <1>1, <1>2, <1>3 DEF Follows

-----------------------------------------------------------------------------
(* The pointers of the states.                                             *)

\* What the scan is at when it has read p characters of str, if there are more.
Stands(n, p, str) == p < Len(str) => Follows(n, SubSeq(str, 1, p), str[p + 1])
Finished == DataIs(states, firstLevel, secondLevel, <<>>)

\* The text read, a character later.
LEMMA TextGrows ==
    ASSUME NEW str \in Seq(Ascii), NEW p \in 0 .. Len(str)
    PROVE  /\ SubSeq(str, 1, p) \in Seq(Ascii) /\ Len(SubSeq(str, 1, p)) = p
           /\ p < Len(str) => /\ str[p + 1] \in Ascii /\ p + 1 \in 0 .. Len(str)
                              /\ SubSeq(str, 1, p + 1) = Append(SubSeq(str, 1, p), str[p + 1])
           /\ \A i \in 1 .. p : SubSeq(str, 1, p)[i] = str[i]
<1>1. SubSeq(str, 1, p) \in Seq(Ascii) /\ Len(SubSeq(str, 1, p)) = p
  BY Beginnings
<1>2. ASSUME p < Len(str)
      PROVE  /\ str[p + 1] \in Ascii /\ p + 1 \in 0 .. Len(str)
             /\ SubSeq(str, 1, p + 1) = Append(SubSeq(str, 1, p), str[p + 1])
  <2>1. p \in 0 .. Len(str) - 1 /\ Len(str) \in Nat
    BY <1>2
  <2> QED
    BY <2>1, Beginnings
<1>3. \A i \in 1 .. p : SubSeq(str, 1, p)[i] = str[i]
  OBVIOUS
<1> QED
  BY <1>1, <1>2, <1>3

\* The last letters of a text that ends in a short word.
LEMMA LastLetters ==
    ASSUME Built, NEW n \in Nodes, NEW str \in Seq(Ascii), NEW p \in 0 .. Len(str),
           EndsText(n, SubSeq(str, 1, p))
    PROVE  /\ depth[n] = 1 => word[n][1] = str[p]
           /\ depth[n] = 2 => word[n] = <<str[p - 1], str[p]>>
<1> DEFINE t == SubSeq(str, 1, p)
           w == word[n]
<1>1. Len(t) = p /\ \A i \in 1 .. p : t[i] = str[i]
  BY TextGrows
<1>2. w \in Seq(Ascii) /\ depth[n] = Len(w) /\ depth[n] \in Nat
  BY WordsAreAscii
<1>3. Len(w) <= Len(t) /\ \A i \in 1 .. Len(w) : w[i] = t[Len(t) - Len(w) + i]
  BY DEF EndsText, Ends
<1> HIDE DEF t, w
<1>4. p \in Nat /\ depth[n] <= p /\ \A i \in 1 .. depth[n] : w[i] = t[p - depth[n] + i]
  BY <1>1, <1>2, <1>3
<1>5. CASE depth[n] = 1
  <2>1. 1 \in 1 .. depth[n] /\ p - depth[n] + 1 = p /\ p \in 1 .. p
    BY <1>4, <1>5
  <2>2. w[1] = t[p] /\ t[p] = str[p]
    BY <1>1, <1>4, <2>1
  <2> QED
    BY <1>5, <2>2 DEF w
<1>6. CASE depth[n] = 2
  <2>1. /\ 1 \in 1 .. depth[n] /\ p - depth[n] + 1 = p - 1 /\ p - 1 \in 1 .. p
        /\ 2 \in 1 .. depth[n] /\ p - depth[n] + 2 = p /\ p \in 1 .. p
    BY <1>4, <1>6
  <2>2. w[1] = t[p - 1] /\ w[2] = t[p] /\ t[p - 1] = str[p - 1] /\ t[p] = str[p]
    BY <1>1, <1>4, <2>1
  <2>3. Len(w) <= 2 /\ 2 <= Len(w)
    BY <1>2, <1>6
  <2>4. w = <<w[1], w[2]>>
    BY <1>2, <2>3, TwoLetters
  <2> QED
    BY <1>6, <2>2, <2>4 DEF w
<1> QED
  BY <1>5, <1>6

\* Every pointer to a node of the text read is found, in whichever table.
LEMMA PointerIsFound ==
    ASSUME Built, Ids, Finished, NEW n \in Nodes, HasId(n), NEW str \in Seq(Ascii), NEW p \in 0 .. Len(str),
           EndsText(n, SubSeq(str, 1, p))
    PROVE  /\ Resolve(TypeOf(n), nodeId[n], str, p, firstLevel, secondLevel) = nodeId[n]
           /\ nodeId[n] = 0 => Resolve(LEVEL0, nodeId[n], str, p, firstLevel, secondLevel) = nodeId[n]
<1> DEFINE to == Resolve(TypeOf(n), nodeId[n], str, p, firstLevel, secondLevel)
<1>1. FirstIs(firstLevel, <<>>) /\ SecondIs(secondLevel, <<>>) /\ \A m : ~ OpenIn(<<>>, m)
  <2>1. \A m : ~ OpenIn(<<>>, m)
    BY DEF OpenIn
  <2> QED
    BY <2>1 DEF Finished, DataIs
<1>2. Keyed(n) => StateNode(n) /\ (depth[n] = 1 \/ depth[n] = 2)
  <2>1. Keyed(n) => n # Root
    BY RootFacts DEF Keyed, Built
  <2> QED
    BY <2>1 DEF HasId, Keyed
<1>3. ~ Keyed(n) => to = nodeId[n]
  BY DEF TypeOf, Resolve, REGULAR, LEVEL0, LEVEL1, LEVEL2
<1>4. ASSUME Keyed(n), depth[n] = 1 PROVE to = nodeId[n]
  <2>1. firstLevel[word[n][1]] = nodeId[n]
    BY <1>1, <1>2, <1>4 DEF FirstIs
  <2>2. word[n][1] = str[p]
    BY <1>4, LastLetters
  <2>3. TypeOf(n) = LEVEL1
    BY <1>4 DEF TypeOf
  <2>4. to = firstLevel[str[p]]
    BY <2>3 DEF Resolve, REGULAR, LEVEL0, LEVEL1, LEVEL2, GET_FIRST_LEVEL_STATE
  <2> HIDE DEF to
  <2>5. to = nodeId[n]
    BY <2>1, <2>2, <2>4
  <2> QED
    BY <2>5
<1>5. ASSUME Keyed(n), depth[n] = 2 PROVE to = nodeId[n]
  <2>1. word[n] \in DOMAIN secondLevel
    BY <1>1, <1>2, <1>5 DEF SecondIs
  <2>2. PICK m \in Nodes : word[m] = word[n] /\ secondLevel[word[n]] = nodeId[m]
    BY <1>1, <2>1 DEF SecondIs
  <2>3. m = n
    BY <2>2 DEF Built, TreeInv
  <2>4. word[n] = <<str[p - 1], str[p]>>
    BY <1>5, LastLetters
  <2>5. TypeOf(n) = LEVEL2
    BY <1>5 DEF TypeOf
  <2>6. to = GET_SECOND_LEVEL_STATE(secondLevel, str[p - 1], str[p])
    BY <2>5 DEF Resolve, REGULAR, LEVEL0, LEVEL1, LEVEL2
  <2> HIDE DEF to
  <2>7. to = IF word[n] \in DOMAIN secondLevel THEN secondLevel[word[n]] ELSE Nowhere
    BY <2>4, <2>6 DEF GET_SECOND_LEVEL_STATE
  <2>8. to = nodeId[n]
    BY <2>1, <2>2, <2>3, <2>7
  <2> QED
    BY <2>8
<1>6. Resolve(LEVEL0, nodeId[n], str, p, firstLevel, secondLevel) = 0
  BY DEF Resolve, REGULAR, LEVEL0, LEVEL1, LEVEL2
<1>7. to = nodeId[n]
  BY <1>2, <1>3, <1>4, <1>5
<1> QED
  BY <1>6, <1>7

\* A goto along the text.
LEMMA GotoStands ==
    ASSUME Built, NEW n, NEW str \in Seq(Ascii), NEW p \in 0 .. Len(str), p < Len(str), Stands(n, p, str),
           str[p + 1] \in Chars(n), NEW m, m = gotos[n][str[p + 1]]
    PROVE  /\ m \in Nodes /\ Stands(m, p + 1, str) /\ Stands(Leads(m), p + 1, str)
           /\ EndsText(m, SubSeq(str, 1, p + 1)) /\ EndsText(Leads(m), SubSeq(str, 1, p + 1))
<1> DEFINE t == SubSeq(str, 1, p)
           c == str[p + 1]
<1>1. t \in Seq(Ascii) /\ c \in Ascii /\ SubSeq(str, 1, p + 1) = Append(t, c)
  BY TextGrows
<1>2. Follows(n, t, c)
  BY DEF Stands
<1>3. c \in Chars(n) /\ m = gotos[n][c]
  OBVIOUS
<1> HIDE DEF t, c
<1>4. /\ m \in Nodes /\ EndsText(m, Append(t, c)) /\ EndsText(Leads(m), Append(t, c))
      /\ \A d : Follows(m, Append(t, c), d) /\ Follows(Leads(m), Append(t, c), d)
  BY <1>1, <1>2, <1>3, Advance
<1> QED
  BY <1>1, <1>4 DEF Stands

-----------------------------------------------------------------------------
(* A step of the scan.                                                     *)

\* r is what the reader of n's state answers at position p: the id of a node
\* that the scan follows on, further in the text or nearer to the root.
Lands(r, n, str, p) ==
    \E m \in Nodes :
        /\ HasId(m) /\ r.next = nodeId[m] /\ r.idx \in p .. Len(str) /\ Stands(m, r.idx, str)
        /\ r.idx > p \/ (r.idx = p /\ depth[m] < depth[n])

\* What a branch answers: its goto or its failure.
BranchAnswer(r, n, str, p) ==
    LET c == str[p + 1] IN
    /\ c \notin Chars(n) => r.next = nodeId[failure[n]] /\ r.idx = p /\ r.match = 0
    /\ c \in Chars(n) =>
          /\ r.idx = p + 1
          /\ r.match = IF Messages(gotos[n][c]) = <<>> THEN 0 ELSE 1
          /\ LET m == Leads(gotos[n][c]) IN
             \/ r.next = nodeId[m]
             \/ r.next = Resolve(TypeOf(m), nodeId[m], str, p + 1, firstLevel, secondLevel)

LEMMA BranchAnswers ==
    ASSUME Built, NEW n \in Nodes, numGotos(n) > 1, NEW d, NEW id, NEW es, BranchHolds(d, id, n, es),
           NEW str \in Seq(Ascii), NEW p \in 0 .. Len(str), p < Len(str),
           NEW r, r = NextStateOf(d, str, p, firstLevel, secondLevel)
    PROVE  BranchAnswer(r, n, str, p)
<1> DEFINE c == str[p + 1]
           fail == nodeId[failure[n]]
<1>1. c \in Byte /\ c <= 127 /\ str[p + 1] = c
  <2>1. c \in Ascii
    BY TextGrows
  <2>2. \A x \in Ascii : x \in Byte /\ x <= 127
    BY DEF Ascii, Byte
  <2>3. str[p + 1] = c
    OBVIOUS
  <2> HIDE DEF c
  <2> QED
    BY <2>1, <2>2, <2>3
<1>2. BranchSet(n, es)
  BY DEF BranchHolds
<1>3. PICK t \in {LINEAR_ENCODED, BITMAP_ENCODED, LOOKUP_TABLE}, k \in Nat :
         /\ Created(d, t, k, id, Len(es)) /\ Holds(d, k, es, fail)
         /\ t # LOOKUP_TABLE => numGotos(n) < MAX_NODE_DEGREE
  BY DEF BranchHolds
<1>4. es \in Seq(Element) /\ Distinct(es) /\ Len(es) = numGotos(n) /\ Len(es) \in Nat /\ Len(es) # 0
  <2>1. numGotos(n) \in Nat
    BY GotoCount
  <2> QED
    BY <1>2, <2>1 DEF BranchSet
<1>5. /\ \A j \in 1 .. Len(es) : /\ es[j].c \in Chars(n) /\ es[j].ptr = nodeId[Leads(gotos[n][es[j].c])]
                                 /\ es[j].type = TypeOf(Leads(gotos[n][es[j].c]))
      /\ \A x \in Chars(n) : \E j \in 1 .. Len(es) : es[j].c = x
  BY <1>2, <1>4 DEF BranchSet
<1>10. \A j \in 1 .. Len(es) : es[j].match = IF Messages(gotos[n][es[j].c]) = <<>> THEN 0 ELSE 1
  <2>1. \A j \in 1 .. Len(es) : gotos[n][es[j].c] = ChildrenInOrder(n)[j]
    BY <1>2, <1>4 DEF BranchSet
  <2>2. \A j \in 1 .. Len(es) : es[j].match = IF Messages(ChildrenInOrder(n)[j]) = <<>> THEN 0 ELSE 1
    BY <1>4 DEF BranchHolds, BranchMarks
  <2> QED
    BY <2>1, <2>2
<1> HIDE DEF c, fail
<1>6. (c \notin Chars(n) => \A j \in 1 .. Len(es) : es[j].c # c)
      /\ (c \in Chars(n) => \E j \in 1 .. Len(es) : es[j].c = c)
  BY <1>5
<1>7. /\ c \notin Chars(n) => r = Failed(fail, p)
      /\ c \in Chars(n) => \E j \in 1 .. Len(es) : es[j].c = c /\ \E row :
            \/ r = Goto(es[j].ptr, es[j].match, row, p)
            \/ r = GotoOf(es[j], row, str, p, firstLevel, secondLevel)
  <2>1. CASE t = LINEAR_ENCODED
    <3>1. Len(es) # 64
      BY <1>3, <1>4, <2>1 DEF LINEAR_ENCODED, LOOKUP_TABLE, MAX_NODE_DEGREE
    <3>2. LinearAnswers(es, Len(es), c, str, p, firstLevel, secondLevel, fail, r)
      BY <1>1, <1>3, <1>4, <2>1, LinearStateReads
    <3> QED
      BY <1>1, <1>6, <3>1, <3>2 DEF LinearAnswers
  <2>2. CASE t = BITMAP_ENCODED
    <3>1. Len(es) # 64
      BY <1>3, <1>4, <2>2 DEF BITMAP_ENCODED, LOOKUP_TABLE, MAX_NODE_DEGREE
    <3>2. BitmapAnswers(es, Len(es), c, str, p, firstLevel, secondLevel, fail, r)
      BY <1>1, <1>3, <1>4, <2>2, BitmapStateReads
    <3> QED
      BY <1>6, <3>1, <3>2 DEF BitmapAnswers
  <2>3. CASE t = LOOKUP_TABLE
    <3>1. LookupAnswers(es, Len(es), c, p, fail, r)
      BY <1>1, <1>3, <1>4, <2>3, LookupStateReads
    <3> QED
      BY <1>6, <3>1 DEF LookupAnswers
  <2> QED
    BY <1>3, <2>1, <2>2, <2>3
<1>8. ASSUME c \notin Chars(n) PROVE r.next = fail /\ r.idx = p /\ r.match = 0
  BY <1>7, <1>8 DEF Failed
<1>9. ASSUME c \in Chars(n)
      PROVE  /\ r.idx = p + 1 /\ r.match = IF Messages(gotos[n][c]) = <<>> THEN 0 ELSE 1
             /\ \/ r.next = nodeId[Leads(gotos[n][c])]
                \/ r.next = Resolve(TypeOf(Leads(gotos[n][c])), nodeId[Leads(gotos[n][c])],
                                    str, p + 1, firstLevel, secondLevel)
  <2>0. PICK j \in 1 .. Len(es) : es[j].c = c /\ \E row :
            \/ r = Goto(es[j].ptr, es[j].match, row, p)
            \/ r = GotoOf(es[j], row, str, p, firstLevel, secondLevel)
    BY <1>7, <1>9
  <2>1. PICK row : \/ r = Goto(es[j].ptr, es[j].match, row, p)
                   \/ r = GotoOf(es[j], row, str, p, firstLevel, secondLevel)
    BY <2>0
  <2>2. es[j].ptr = nodeId[Leads(gotos[n][c])] /\ es[j].type = TypeOf(Leads(gotos[n][c]))
    BY <1>5, <2>0
  <2>3. \/ r = Goto(nodeId[Leads(gotos[n][c])], es[j].match, row, p)
        \/ r = Goto(Resolve(TypeOf(Leads(gotos[n][c])), nodeId[Leads(gotos[n][c])], str, p + 1,
                            firstLevel, secondLevel), es[j].match, row, p)
    BY <2>1, <2>2 DEF GotoOf
  <2>4. es[j].match = IF Messages(gotos[n][c]) = <<>> THEN 0 ELSE 1
    BY <1>10, <2>0
  <2> QED
    BY <2>3, <2>4 DEF Goto
<1> QED
  BY <1>8, <1>9 DEF BranchAnswer, c, fail

LEMMA BranchLands ==
    ASSUME Built, Ids, Finished, NEW n \in Nodes \ {Root}, numGotos(n) > 1,
           NEW str \in Seq(Ascii), NEW p \in 0 .. Len(str), p < Len(str), Stands(n, p, str),
           NEW r, BranchAnswer(r, n, str, p)
    PROVE  Lands(r, n, str, p)
<1> DEFINE c == str[p + 1]
<1>1. p \in Nat /\ Len(str) \in Nat /\ p \in p .. Len(str) /\ p + 1 \in p .. Len(str) /\ p + 1 > p
      /\ p + 1 \in 0 .. Len(str)
  BY WordFacts
<1>2. CASE c \notin Chars(n)
  <2>1. Follows(n, SubSeq(str, 1, p), c) /\ SubSeq(str, 1, p) \in Seq(Ascii)
    BY TextGrows DEF Stands
  <2> HIDE DEF c
  <2>2. Follows(failure[n], SubSeq(str, 1, p), c) /\ depth[failure[n]] < depth[n] /\ failure[n] \in Nodes
    BY <1>2, <2>1, FallBack
  <2>3. HasId(failure[n])
    BY TargetIs
  <2>4. r.next = nodeId[failure[n]] /\ r.idx = p
    BY <1>2 DEF BranchAnswer, c
  <2>5. Stands(failure[n], r.idx, str)
    BY <2>2, <2>4 DEF Stands, c
  <2> QED
    BY <1>1, <2>2, <2>3, <2>4, <2>5 DEF Lands
<1>3. CASE c \in Chars(n)
  <2> DEFINE m == gotos[n][c]
             x == Leads(m)
  <2>1. m \in Nodes /\ Stands(x, p + 1, str) /\ EndsText(x, SubSeq(str, 1, p + 1))
    BY <1>3, GotoStands
  <2>2. HasId(x) /\ x \in Nodes
    <3>1. StateNode(m) <=> ~ IsLeaf(m)
      BY <1>3, BranchChild
    <3> QED
      BY <2>1, <3>1, LeadsToState
  <2>3. /\ r.idx = p + 1
        /\ \/ r.next = nodeId[x]
           \/ r.next = Resolve(TypeOf(x), nodeId[x], str, p + 1, firstLevel, secondLevel)
    BY <1>3 DEF BranchAnswer
  <2> HIDE DEF x, m, c
  <2>4. Resolve(TypeOf(x), nodeId[x], str, p + 1, firstLevel, secondLevel) = nodeId[x]
    <3> DEFINE u == p + 1
    <3>1. u \in 0 .. Len(str) /\ EndsText(x, SubSeq(str, 1, u))
      BY <1>1, <2>1
    <3> HIDE DEF u
    <3>2. Resolve(TypeOf(x), nodeId[x], str, u, firstLevel, secondLevel) = nodeId[x]
      BY <2>2, <3>1, PointerIsFound
    <3> QED
      BY <3>2 DEF u
  <2>5. r.next = nodeId[x] /\ r.idx = p + 1
    BY <2>3, <2>4
  <2>6. Stands(x, r.idx, str) /\ r.idx \in p .. Len(str) /\ r.idx > p
    BY <1>1, <2>1, <2>5
  <2> QED
    BY <2>2, <2>5, <2>6 DEF Lands
<1> QED
  BY <1>2, <1>3

\* A path: the text ends on it, runs through it, or leaves it at a position.
LEMMA PathLeaves ==
    ASSUME NEW d, NEW l \in Nat, Length14(d) = l, NEW str, NEW p
    PROVE  \E k \in 0 .. l : Leaves(d, str, p, k)
<1> DEFINE same(i) == p + i <= Len(str) /\ str[p + i] = d[GOTO_IDX + 1 + i]
           T == {k \in 0 .. l : \A i \in 1 .. k : same(i)}
<1> HIDE DEF same
<1>1. 0 \in T /\ T \subseteq 0 .. l
  OBVIOUS
<1>2. PICK k \in T : \A j \in T : j <= k
  <2> HIDE DEF T
  <2> QED
    BY <1>1, GreatestElement
<1>3. k \in 0 .. l /\ \A i \in 1 .. k : same(i)
  BY <1>2
<1>4. ASSUME k # l, same(k + 1) PROVE FALSE
  <2>1. k + 1 \in 0 .. l /\ ~ (k + 1 <= k)
    BY <1>3, <1>4
  <2>2. \A i \in 1 .. k + 1 : same(i)
    BY <1>3, <1>4
  <2>3. k + 1 \in T
    BY <2>1, <2>2
  <2> QED
    BY <1>2, <2>1, <2>3
<1> QED
  BY <1>3, <1>4 DEF Leaves, same

\* The nodes of the path are those of the text.
LEMMA PathStands ==
    ASSUME Built, NEW n \in Nodes, NEW l \in Nat, PathWalk(n, l),
           NEW str \in Seq(Ascii), NEW p \in 0 .. Len(str), Stands(n, p, str), NEW k \in 0 .. l,
           \A i \in 1 .. k : p + i <= Len(str) /\ str[p + i] = Only(Path(n)[i])
    PROVE  /\ k < l => /\ Stands(Path(n)[k + 1], p + k, str)
           /\ k = l => /\ Stands(Leads(PathEnd(n)), p + k, str)
                       /\ EndsText(Leads(PathEnd(n)), SubSeq(str, 1, p + k))
<1> DEFINE w == Path(n)
           Bad == {i \in 0 .. l : i <= k /\ i < l /\ ~ Stands(w[i + 1], p + i, str)}
<1>1. /\ w[1] = n /\ l >= 1
      /\ \A i \in 1 .. l : w[i] \in Nodes /\ numGotos(w[i]) = 1
      /\ \A i \in 1 .. l - 1 : w[i + 1] = Child(w[i])
      /\ PathEnd(n) = Child(w[l])
  BY DEF PathWalk
<1>2. p \in Nat /\ Len(str) \in Nat
  BY WordFacts
<1> HIDE DEF w
<1>3. ASSUME NEW i \in 1 .. l, i <= k, Stands(w[i], p + (i - 1), str)
      PROVE  /\ Stands(Child(w[i]), p + i, str) /\ Stands(Leads(Child(w[i])), p + i, str)
             /\ EndsText(Leads(Child(w[i])), SubSeq(str, 1, p + i))
  <2>1. w[i] \in Nodes /\ Chars(w[i]) = {Only(w[i])} /\ Child(w[i]) = gotos[w[i]][Only(w[i])]
    BY <1>1, OnlyChild
  <2>2. p + i <= Len(str) /\ str[p + i] = Only(w[i])
    BY <1>3 DEF w
  <2> DEFINE u == p + (i - 1)
  <2>3. u \in 0 .. Len(str) /\ u < Len(str) /\ u + 1 = p + i
    BY <1>2, <2>2
  <2>4. Stands(w[i], u, str)
    BY <1>3
  <2> HIDE DEF u
  <2>5. str[u + 1] \in Chars(w[i]) /\ Child(w[i]) = gotos[w[i]][str[u + 1]]
    BY <2>1, <2>2, <2>3
  <2> DEFINE m == Child(w[i])
             x == w[i]
  <2>6. m = gotos[x][str[u + 1]] /\ str[u + 1] \in Chars(x) /\ Stands(x, u, str)
    BY <2>4, <2>5
  <2> HIDE DEF m, x
  <2>7. Stands(m, u + 1, str) /\ Stands(Leads(m), u + 1, str) /\ EndsText(Leads(m), SubSeq(str, 1, u + 1))
    BY <2>3, <2>6, GotoStands
  <2> QED
    BY <2>3, <2>7 DEF m
<1>4. Bad = {}
  <2> SUFFICES ASSUME Bad # {} PROVE FALSE
    OBVIOUS
  <2>1. PICK i \in Bad : \A j \in Bad : i <= j
    <3>1. Bad \subseteq Nat
      OBVIOUS
    <3> HIDE DEF Bad
    <3> QED
      BY <3>1, LeastElement
  <2>2. i \in 0 .. l /\ i <= k /\ i < l /\ ~ Stands(w[i + 1], p + i, str)
    BY <2>1
  <2>3. i # 0
    <3>1. p + 0 = p /\ w[0 + 1] = n
      BY <1>1, <1>2
    <3> QED
      BY <2>2, <3>1
  <2>4. i \in 1 .. l /\ i \in 1 .. l - 1 /\ i - 1 \in 0 .. l /\ i - 1 <= k /\ i - 1 < l
        /\ (i - 1) + 1 = i /\ ~ (i <= i - 1)
    BY <2>2, <2>3
  <2>5. Stands(w[i], p + (i - 1), str)
    BY <2>1, <2>4
  <2>6. Stands(Child(w[i]), p + i, str)
    BY <1>3, <2>2, <2>4, <2>5
  <2> QED
    BY <1>1, <2>2, <2>4, <2>6
<1>5. ASSUME NEW i \in 0 .. l, i <= k, i < l PROVE Stands(w[i + 1], p + i, str)
  BY <1>4, <1>5
<1>6. k < l => Stands(w[k + 1], p + k, str)
  BY <1>5
<1>7. CASE k = l
  <2>1. l \in 1 .. l /\ l - 1 \in 0 .. l /\ l - 1 <= k /\ l - 1 < l /\ (l - 1) + 1 = l /\ l <= k
    BY <1>1, <1>7
  <2>2. Stands(w[(l - 1) + 1], p + (l - 1), str)
    BY <1>5, <2>1
  <2>3. Stands(w[l], p + (l - 1), str)
    BY <2>1, <2>2
  <2>4. Stands(Leads(Child(w[l])), p + l, str) /\ EndsText(Leads(Child(w[l])), SubSeq(str, 1, p + l))
    BY <1>3, <2>1, <2>3
  <2> QED
    BY <1>1, <1>7, <2>4
<1> QED
  BY <1>6, <1>7 DEF w

\* What the machine reads of a path, of which k characters are those of the text.
PathRead(r, d, es, l, next, k, str, p) ==
    /\ \A i \in 1 .. l : d[GOTO_IDX + 1 + i] = es[i].c
    /\ r = PathAnswer(WithLevel0(es), l, next, k, str, p, firstLevel, secondLevel)
LEMMA PathStateReads ==
    ASSUME NEW d, NEW z \in Nat, NEW id, NEW es \in Seq(Element), NEW l \in Nat, Len(es) = l,
           Created(d, PATH_COMPRESSED, z, id, l), NEW next, Holds(d, z, es, next),
           NEW str, NEW p, NEW r, r = NextStateOf(d, str, p, firstLevel, secondLevel),
           NEW k \in 0 .. l, Leaves(d, str, p, k)
    PROVE  PathRead(r, d, es, l, next, k, str, p)
<1> DEFINE given == WithLevel0(es)
<1>1. GET_STATE_TYPE(d) = PATH_COMPRESSED /\ Length14(d) = l
  BY PathIs
<1>2. SubSeq(es, 1, Length14(d)) = es
  BY <1>1, WholeSeq
<1>3. d \in PathHas(z, d, given, next, l)
  <2>1. d \in PathHas(z, d, WithLevel0(SubSeq(es, 1, Length14(d))), next, Length14(d))
    BY <1>1 DEF Holds, LINEAR_ENCODED, BITMAP_ENCODED, LOOKUP_TABLE, PATH_COMPRESSED
  <2> DEFINE part == SubSeq(es, 1, Length14(d))
  <2>2. part = es /\ d \in PathHas(z, d, WithLevel0(part), next, Length14(d))
    BY <1>2, <2>1
  <2> HIDE DEF part
  <2> QED
    BY <1>1, <2>2
<1>4. Len(given) = l /\ \A i \in 1 .. l : PathFits(given[i]) /\ given[i].c = es[i].c
  BY Level0
<1> HIDE DEF given
<1>5. \A i \in 1 .. l : d[GOTO_IDX + 1 + i] = es[i].c
  BY <1>3, <1>4 DEF PathHas
<1>6. r = GET_NEXT_STATE_PC(d, str, p, firstLevel, secondLevel)
  BY <1>1 DEF NextStateOf, LINEAR_ENCODED, BITMAP_ENCODED, LOOKUP_TABLE, PATH_COMPRESSED
<1>7. r = PathAnswer(given, l, next, k, str, p, firstLevel, secondLevel)
  BY <1>1, <1>3, <1>4, <1>6, PathReads
<1> QED
  BY <1>5, <1>7 DEF given, PathRead

LEMMA PathLands ==
    ASSUME Built, Ids, Finished, NEW n \in Nodes \ {Root}, NEW d, NEW id, NEW es, NEW l \in Nat, PathHolds(d, id, n, l, es),
           NEW str \in Seq(Ascii), NEW p \in 0 .. Len(str), p < Len(str), Stands(n, p, str),
           NEW r, r = NextStateOf(d, str, p, firstLevel, secondLevel)
    PROVE  Lands(r, n, str, p)
<1> DEFINE w == Path(n)
           end == Leads(PathEnd(n))
           given == WithLevel0(es)
<1>1. PathWalk(n, l) /\ PathSet(n, l, es)
  BY DEF PathHolds
<1>2. PICK z \in Nat : Created(d, PATH_COMPRESSED, z, id, l) /\ Holds(d, z, es, nodeId[end])
  BY DEF PathHolds
<1>3. es \in Seq(Element) /\ Len(es) = l
      /\ \A i \in 1 .. l : /\ es[i].c = Only(w[i]) /\ es[i].ptr = nodeId[failure[w[i]]]
                           /\ es[i].type = TypeOf(failure[w[i]])
  BY <1>1 DEF PathSet
<1>4. /\ w[1] = n /\ l >= 1
      /\ \A i \in 1 .. l : w[i] \in Nodes /\ numGotos(w[i]) = 1
      /\ \A i \in 1 .. l - 1 : w[i + 1] # Root
  <2>1. w[1] = n /\ l >= 1
    BY <1>1 DEF PathWalk
  <2>2. \A i \in 1 .. l : w[i] \in Nodes /\ numGotos(w[i]) = 1
    BY <1>1 DEF PathWalk
  <2>3. \A i \in 1 .. l - 1 : w[i + 1] # Root
    BY <1>1 DEF PathWalk
  <2> QED
    BY <2>1, <2>2, <2>3
<1>5. HasId(end) /\ end \in Nodes
  <2>1. HasId(Landing(n)) /\ Landing(n) \in Nodes /\ Landing(n) = Leads(PathEnd(n))
    BY <1>1, LandingIs
  <2> QED
    BY <2>1
<1>6. \A i \in 1 .. l : given[i].ptr = es[i].ptr /\ given[i].type = IF es[i].ptr = 0 THEN LEVEL0 ELSE es[i].type
  BY <1>3, Level0
<1> HIDE DEF w, end, given
<1>7. Length14(d) = l
  BY <1>2, <1>3, PathIs
<1>8. PICK k \in 0 .. l : Leaves(d, str, p, k)
  BY <1>7, PathLeaves
<1>9. /\ \A i \in 1 .. l : d[GOTO_IDX + 1 + i] = es[i].c
      /\ r = PathAnswer(given, l, nodeId[end], k, str, p, firstLevel, secondLevel)
  <2> DEFINE next == nodeId[end]
  <2>1. es \in Seq(Element) /\ Len(es) = l
    BY <1>3
  <2>2. Created(d, PATH_COMPRESSED, z, id, l) /\ Holds(d, z, es, next)
    BY <1>2
  <2> HIDE DEF next
  <2>3. PathRead(r, d, es, l, next, k, str, p)
    BY <1>8, <2>1, <2>2, PathStateReads
  <2> QED
    BY <2>3 DEF PathRead, next, given
<1>10. \A i \in 1 .. k : p + i <= Len(str) /\ str[p + i] = Only(w[i])
  <2> SUFFICES ASSUME NEW i \in 1 .. k PROVE p + i <= Len(str) /\ str[p + i] = Only(w[i])
    OBVIOUS
  <2>1. i \in 1 .. l
    OBVIOUS
  <2> QED
    BY <1>3, <1>8, <1>9, <2>1 DEF Leaves
<1>11. /\ k < l => Stands(w[k + 1], p + k, str)
       /\ k = l => Stands(end, p + k, str)
  BY <1>1, <1>10, PathStands DEF w, end
<1>12. p \in Nat /\ Len(str) \in Nat /\ k \in Nat /\ k <= l /\ p + k <= Len(str)
  <2>1. p \in Nat /\ Len(str) \in Nat
    BY WordFacts
  <2>2. CASE k = 0
    BY <2>1, <2>2
  <2>3. CASE k # 0
    <3>1. k \in 1 .. k
      BY <2>3
    <3> QED
      BY <1>10, <2>1, <3>1
  <2> QED
    BY <2>2, <2>3
<1>13. r.idx = p + k /\ r.next = IF ~ (k < l /\ p + k < Len(str)) THEN nodeId[end]
          ELSE Resolve(given[k + 1].type, given[k + 1].ptr, str, p + k, firstLevel, secondLevel)
  BY <1>9 DEF PathAnswer
<1>14. CASE ~ (k < l /\ p + k < Len(str))
  <2>1. k > 0
    BY <1>4, <1>12, <1>14
  <2>2. Stands(end, p + k, str)
    <3>1. CASE k = l
      BY <1>11, <3>1
    <3>2. CASE k # l
      <4>1. ~ (p + k < Len(str))
        BY <1>12, <1>14, <3>2
      <4> QED
        BY <4>1 DEF Stands
    <3> QED
      BY <3>1, <3>2
  <2>3. r.idx \in p .. Len(str) /\ r.idx > p
    BY <1>12, <1>13, <2>1
  <2> QED
    BY <1>5, <1>13, <1>14, <2>2, <2>3 DEF Lands
<1>15. CASE k < l /\ p + k < Len(str)
  <2> DEFINE x == w[k + 1]
             f == failure[x]
             u == p + k
  <2>1. k + 1 \in 1 .. l /\ u \in 0 .. Len(str) /\ u < Len(str) /\ u + 1 = p + (k + 1)
    BY <1>12, <1>15
  <2>2. x \in Nodes \ {Root}
    <3>1. CASE k = 0
      BY <1>4, <3>1
    <3>2. CASE k # 0
      <4>1. k \in 1 .. l - 1
        BY <1>12, <1>15, <3>2
      <4> QED
        BY <1>4, <2>1, <4>1
    <3> QED
      BY <3>1, <3>2
  <2>3. Chars(x) = {Only(x)}
    BY <1>4, <2>1, OnlyChild
  <2>4. str[u + 1] # Only(x)
    <3>1. k # l /\ p + (k + 1) <= Len(str)
      BY <1>12, <1>15
    <3>2. str[p + (k + 1)] # d[GOTO_IDX + 1 + (k + 1)]
      BY <1>7, <1>8, <3>1 DEF Leaves
    <3>3. d[GOTO_IDX + 1 + (k + 1)] = Only(x)
      BY <1>3, <1>9, <2>1
    <3> QED
      BY <2>1, <3>2, <3>3
  <2>5. Follows(x, SubSeq(str, 1, u), str[u + 1]) /\ SubSeq(str, 1, u) \in Seq(Ascii)
    BY <1>11, <1>15, <2>1, TextGrows DEF Stands
  <2>6. r.idx = u /\ r.next = Resolve(IF nodeId[f] = 0 THEN LEVEL0 ELSE TypeOf(f), nodeId[f], str, u, firstLevel, secondLevel)
    BY <1>3, <1>6, <1>13, <1>15, <2>1
  <2>7. k = 0 => x = n /\ u = p
    BY <1>4, <1>12
  <2> HIDE DEF x, u
  <2>8. Follows(f, SubSeq(str, 1, u), str[u + 1]) /\ depth[f] < depth[x] /\ f \in Nodes
    BY <2>2, <2>3, <2>4, <2>5, FallBack
  <2>9. HasId(f)
    BY <2>2, TargetIs
  <2> HIDE DEF f
  <2>10. EndsText(f, SubSeq(str, 1, u))
    BY <2>8 DEF Follows
  <2>11. /\ Resolve(TypeOf(f), nodeId[f], str, u, firstLevel, secondLevel) = nodeId[f]
         /\ nodeId[f] = 0 => Resolve(LEVEL0, nodeId[f], str, u, firstLevel, secondLevel) = nodeId[f]
    BY <2>1, <2>8, <2>9, <2>10, PointerIsFound
  <2>12. r.next = nodeId[f]
    BY <2>6, <2>11
  <2>13. Stands(f, r.idx, str)
    BY <2>6, <2>8 DEF Stands
  <2>14. r.idx \in p .. Len(str) /\ (r.idx > p \/ (r.idx = p /\ depth[f] < depth[n]))
    <3>1. r.idx = p + k
      BY <1>13
    <3>2. r.idx \in p .. Len(str)
      BY <1>12, <3>1
    <3>3. CASE k = 0
      BY <2>6, <2>7, <2>8, <3>2, <3>3
    <3>4. CASE k # 0
      BY <1>12, <3>1, <3>2, <3>4
    <3> QED
      BY <3>3, <3>4
  <2> QED
    BY <2>8, <2>9, <2>12, <2>13, <2>14 DEF Lands
<1> QED
  BY <1>14, <1>15

\* A scan starts in the root.
LEMMA StartsInRoot ==
    ASSUME Built, NEW str \in Seq(Ascii)
    PROVE  Stands(Root, 0, str)
<1>1. Root \in Nodes /\ word[Root] = <<>> /\ depth[Root] = 0
  BY RootFacts DEF Built
<1>2. SubSeq(str, 1, 0) = <<>> /\ <<>> \in Seq(Ascii)
  BY Beginnings
<1>3. EndsText(Root, <<>>)
  BY <1>1, <1>2, EndsOrder DEF EndsText
<1>4. ASSUME NEW m \in Nodes, EndsText(m, <<>>), depth[m] > depth[Root] PROVE FALSE
  <2>1. depth[m] = Len(word[m]) /\ word[m] \in Seq(Ascii)
    BY WordsAreAscii
  <2>2. Len(word[m]) <= 0
    BY <1>4 DEF EndsText, Ends
  <2> QED
    BY <1>1, <1>4, <2>1, <2>2
<1> QED
  BY <1>1, <1>2, <1>3, <1>4 DEF Stands, Follows

\* Every value that stands for none is no id.
LEMMA IdsAreFound ==
    \A k \in StateId : k # LOOKUP_VALUE_NOT_FOUND
<1>1. LOOKUP_VALUE_NOT_FOUND \in Nat
  BY DEF LOOKUP_VALUE_NOT_FOUND
<1> QED
  BY <1>1 DEF StateId

\* The nodes of depth 1 are the gotos of the root.
LEMMA FirstLevelNode ==
    ASSUME Built, NEW c \in Char
    PROVE  /\ c \in Chars(Root) => /\ gotos[Root][c] \in Nodes /\ depth[gotos[Root][c]] = 1
                                   /\ word[gotos[Root][c]][1] = c /\ ~ IsLeaf(gotos[Root][c])
           /\ \A m \in Nodes : depth[m] = 1 /\ word[m][1] = c => c \in Chars(Root) /\ m = gotos[Root][c]
<1>1. Root \in Nodes /\ word[Root] = <<>> /\ depth[Root] = 0
  BY RootFacts DEF Built
<1>2. ASSUME c \in Chars(Root)
      PROVE  /\ gotos[Root][c] \in Nodes /\ depth[gotos[Root][c]] = 1
             /\ word[gotos[Root][c]][1] = c /\ ~ IsLeaf(gotos[Root][c])
  <2> DEFINE m == gotos[Root][c]
  <2>1. m \in Nodes \ {Root} /\ word[m] = Append(<<>>, c) /\ depth[m] = 1
    BY <1>1, <1>2, ChildFacts DEF Built
  <2>2. word[m][1] = c
    BY <2>1
  <2>3. ~ (depth[m] > 1)
    BY <2>1
  <2> HIDE DEF m
  <2>4. ~ IsLeaf(m)
    BY <2>1, <2>3 DEF Built
  <2> QED
    BY <2>1, <2>2, <2>4 DEF m
<1>3. ASSUME NEW m \in Nodes, depth[m] = 1, word[m][1] = c PROVE c \in Chars(Root) /\ m = gotos[Root][c]
  <2>1. word[m] \in Seq(Char) /\ Len(word[m]) = 1
    BY <1>3, TypeFacts DEF Built, TreeInv
  <2>2. word[m] = <<c>>
    BY <1>3, <2>1, ShortWords
  <2>3. word[m] = Append(<<>>, c) /\ <<>> \in Seq(Char)
    BY <2>2
  <2>4. gotos[Root][c] = m
    <3> DEFINE u == word[Root]
    <3>1. word[m] = Append(u, c) /\ u \in Seq(Char) /\ u = word[Root]
      BY <1>1, <2>3
    <3>2. ACTypeOK /\ TreeInv
      BY DEF Built
    <3> HIDE DEF u
    <3>3. \A p \in Nodes : word[p] = u => gotos[p][c] = m
      BY <3>1, <3>2, GotoOfWord
    <3> QED
      BY <1>1, <3>1, <3>3
  <2>5. m # NoNode
    BY TypeFacts DEF Built
  <2> QED
    BY <2>4, <2>5 DEF Chars
<1> QED
  BY <1>2, <1>3

\* A step in the root: the table of depth 1 holds its gotos.
LEMMA RootLands ==
    ASSUME Built, Ids, IdsFit, Finished, RootBranches,
           NEW str \in Seq(Ascii), NEW p \in 0 .. Len(str), p < Len(str), Stands(Root, p, str),
           NEW id, id = firstLevel[str[p + 1]],
           NEW t, t = (IF id = LOOKUP_VALUE_NOT_FOUND THEN 0 ELSE id)
    PROVE  \E m \in Nodes : HasId(m) /\ t = nodeId[m] /\ Stands(m, p + 1, str)
<1> DEFINE c == str[p + 1]
<1>1. c \in Ascii /\ SubSeq(str, 1, p + 1) = Append(SubSeq(str, 1, p), c) /\ SubSeq(str, 1, p) \in Seq(Ascii)
  BY TextGrows
<1>2. c \in Byte
  BY <1>1 DEF Ascii, Byte
<1>3. FirstIs(firstLevel, <<>>) /\ \A m : ~ OpenIn(<<>>, m)
  <2>1. \A m : ~ OpenIn(<<>>, m)
    BY DEF OpenIn
  <2> QED
    BY <2>1 DEF Finished, DataIs
<1>4. \A m \in Nodes : Keyed(m) <=> depth[m] \in {1, 2}
  BY DEF Keyed
<1>5. CASE c \in Chars(Root)
  <2> DEFINE m == gotos[Root][c]
  <2>1. c \in Char
    BY <1>5 DEF Chars
  <2>2. m \in Nodes /\ depth[m] = 1 /\ word[m][1] = c /\ ~ IsLeaf(m)
    BY <1>5, <2>1, FirstLevelNode
  <2>3. Stands(m, p + 1, str)
    BY <1>5, GotoStands
  <2>4. StateNode(m)
    <3>1. Root \in Nodes /\ numGotos(Root) > 1
      BY RootFacts DEF Built, RootBranches
    <3> QED
      BY <1>5, <2>2, <3>1, BranchChild
  <2> HIDE DEF m, c
  <2>5. firstLevel[c] = nodeId[m]
    BY <1>3, <1>4, <2>2, <2>4 DEF FirstIs
  <2>6. nodeId[m] \in StateId /\ HasId(m)
    BY <2>2, <2>4 DEF Ids, HasId
  <2>7. nodeId[m] # LOOKUP_VALUE_NOT_FOUND
    BY <2>6, IdsAreFound
  <2>8. t = nodeId[m]
    BY <2>5, <2>7 DEF c
  <2> QED
    BY <2>2, <2>3, <2>6, <2>8
<1>6. CASE c \notin Chars(Root)
  <2>1. id = LOOKUP_VALUE_NOT_FOUND
    <3> SUFFICES ASSUME id # LOOKUP_VALUE_NOT_FOUND PROVE FALSE
      OBVIOUS
    <3>1. PICK m \in Nodes : Keyed(m) /\ StateNode(m) /\ depth[m] = 1 /\ word[m][1] = c
      <4>1. firstLevel[c] # LOOKUP_VALUE_NOT_FOUND
        OBVIOUS
      <4> HIDE DEF c
      <4> QED
        BY <1>2, <1>3, <4>1 DEF FirstIs
    <3>2. c \in Char
      BY <3>1, LettersAre
    <3> HIDE DEF c
    <3> QED
      BY <1>6, <3>1, <3>2, FirstLevelNode
  <2>2. t = nodeId[Root] /\ HasId(Root) /\ Root \in Nodes
    BY <2>1, RootFacts DEF Ids, HasId, Built
  <2>3. Follows(Root, SubSeq(str, 1, p), c)
    BY DEF Stands
  <2> HIDE DEF c
  <2>4. \A d : Follows(Root, SubSeq(str, 1, p + 1), d)
    BY <1>1, <1>6, <2>3, StaysInRoot
  <2>5. Stands(Root, p + 1, str)
    BY <2>4 DEF Stands
  <2> QED
    BY <2>2, <2>5
<1> QED
  BY <1>5, <1>6

\* Below another root the table of depth 1 is empty.
LEMMA NoFirstLevel ==
    ASSUME Finished, ~ RootBranches, NEW c \in Byte
    PROVE  firstLevel[c] = LOOKUP_VALUE_NOT_FOUND
  BY DEF Finished, DataIs, FirstIs, Keyed

\* A step in another state.
LEMMA StateLands ==
    ASSUME Built, Ids, Finished, NEW id \in DOMAIN states, id # 0, NEW n, n = nodeTable[id],
           NEW str \in Seq(Ascii), NEW p \in 0 .. Len(str), p < Len(str), Stands(n, p, str),
           NEW r, r = NextStateOf(states[id], str, p, firstLevel, secondLevel)
    PROVE  Lands(r, n, str, p) /\ n \in Nodes
<1>1. StateNode(n) /\ nodeId[n] = id /\ n \in Nodes /\ n # Root
  BY DEF Ids, StateNode
<1>2. Done(states[id], id, n)
  <2>1. ~ OpenIn(<<>>, n)
    BY DEF OpenIn
  <2> QED
    BY <2>1 DEF Finished, DataIs, StatesAre
<1>3. CASE numGotos(n) > 1
  <2>1. PICK es : BranchHolds(states[id], id, n, es)
    BY <1>2, <1>3 DEF Done
  <2>2. BranchAnswer(r, n, str, p)
    BY <1>1, <1>3, <2>1, BranchAnswers
  <2> QED
    BY <1>1, <1>3, <2>2, BranchLands
<1>4. CASE numGotos(n) = 1
  <2>0. PICK l \in Nat : \E es : PathHolds(states[id], id, n, l, es)
    BY <1>2, <1>4 DEF Done
  <2>1. PICK es : PathHolds(states[id], id, n, l, es)
    BY <2>0
  <2> QED
    BY <1>1, <2>1, PathLands
<1>5. numGotos(n) > 1 \/ numGotos(n) = 1
  <2>1. numGotos(n) \in 0 .. MAX_ARRAY_LENGTH /\ numGotos(n) # 0
    BY <1>1, GotoCount DEF StateNode
  <2>2. MAX_ARRAY_LENGTH \in Nat
    BY DEF MAX_ARRAY_LENGTH
  <2> QED
    BY <2>1, <2>2
<1> QED
  BY <1>1, <1>3, <1>4, <1>5

-----------------------------------------------------------------------------
(* What a step reports.                                                    *)

\* The node of the longest word that ends t.
Deep(x, t) == EndsText(x, t) /\ \A m \in Nodes : EndsText(m, t) => depth[m] <= depth[x]
\* The positions from .. to of str are reported by b: a match of the deepest
\* node, and nothing unless a node matches that ends there.
Marked(b, str, from, to) ==
    \A q \in from .. to : \E x \in Nodes : Deep(x, SubSeq(str, 1, q)) /\ (match[x] => b = 1)
Meant(b, str, from, to) ==
    b = 1 => \E q \in from .. to : \E y \in Nodes : match[y] /\ EndsText(y, SubSeq(str, 1, q))
Seen(b, str, from, to) == Marked(b, str, from, to) /\ Meant(b, str, from, to)

\* The goto of the node that the scan stands at is the deepest of the text.
LEMMA GotoIsDeep ==
    ASSUME Built, NEW n, NEW str \in Seq(Ascii), NEW p \in 0 .. Len(str), p < Len(str), Stands(n, p, str),
           str[p + 1] \in Chars(n), NEW m, m = gotos[n][str[p + 1]]
    PROVE  m \in Nodes /\ Deep(m, SubSeq(str, 1, p + 1)) /\ depth[m] = depth[n] + 1
<1> DEFINE t == SubSeq(str, 1, p)
           c == str[p + 1]
<1>1. t \in Seq(Ascii) /\ c \in Ascii /\ SubSeq(str, 1, p + 1) = Append(t, c)
  BY TextGrows
<1>2. Follows(n, t, c) /\ c \in Chars(n) /\ m = gotos[n][c]
  BY DEF Stands
<1>3. m \in Nodes /\ EndsText(m, SubSeq(str, 1, p + 1))
  BY GotoStands
<1> HIDE DEF t, c
<1>4. n \in Nodes /\ depth[n] \in Nat
  BY <1>2, WordsAreAscii DEF Follows
<1>5. depth[m] = depth[n] + 1
  BY <1>2, <1>4, ChildFacts DEF Built
<1>6. ASSUME NEW x \in Nodes, EndsText(x, Append(t, c)) PROVE depth[x] <= depth[m]
  <2>1. depth[x] \in Nat
    BY WordsAreAscii
  <2>2. CASE depth[x] > depth[n]
    <3>1. x = m
      BY <1>1, <1>2, <1>6, <2>2, NoLongerWord
    <3> QED
      BY <1>4, <1>5, <3>1
  <2>3. CASE ~ (depth[x] > depth[n])
    BY <1>4, <1>5, <2>1, <2>3
  <2> QED
    BY <2>2, <2>3
<1> QED
  BY <1>1, <1>3, <1>5, <1>6 DEF Deep

\* In the root the deepest node of the next text has at most one character.
LEMMA RootIsDeep ==
    ASSUME Built, NEW str \in Seq(Ascii), NEW p \in 0 .. Len(str), p < Len(str), Stands(Root, p, str)
    PROVE  \E x \in Nodes : Deep(x, SubSeq(str, 1, p + 1)) /\ ~ (depth[x] > 1)
<1>1. Root \in Nodes /\ depth[Root] = 0 /\ word[Root] = <<>>
  BY RootFacts DEF Built
<1>2. CASE str[p + 1] \in Chars(Root)
  <2> DEFINE m == gotos[Root][str[p + 1]]
  <2>1. m \in Nodes /\ Deep(m, SubSeq(str, 1, p + 1)) /\ depth[m] = depth[Root] + 1
    BY <1>2, GotoIsDeep
  <2> HIDE DEF m
  <2>2. ~ (depth[m] > 1)
    BY <1>1, <2>1
  <2> QED
    BY <2>1, <2>2
<1>3. CASE str[p + 1] \notin Chars(Root)
  <2> DEFINE t == SubSeq(str, 1, p)
             c == str[p + 1]
  <2>1. t \in Seq(Ascii) /\ c \in Ascii /\ SubSeq(str, 1, p + 1) = Append(t, c) /\ Follows(Root, t, c)
    BY TextGrows DEF Stands
  <2>2. c \notin Chars(Root)
    BY <1>3
  <2> HIDE DEF t, c
  <2>3. ASSUME NEW x \in Nodes, EndsText(x, Append(t, c)) PROVE depth[x] <= depth[Root]
    <3>1. ~ (depth[x] > depth[Root]) /\ depth[x] \in Nat
      BY <2>1, <2>2, <2>3, NoLongerWord, WordsAreAscii
    <3> QED
      BY <1>1, <3>1
  <2>4. EndsText(Root, Append(t, c))
    <3>1. Append(t, c) \in Seq(Ascii)
      BY <2>1
    <3> QED
      BY <1>1, <3>1, EndsOrder DEF EndsText
  <2>5. Deep(Root, SubSeq(str, 1, p + 1))
    BY <2>1, <2>3, <2>4 DEF Deep
  <2> QED
    BY <1>1, <2>5
<1> QED
  BY <1>2, <1>3

\* What a node has to report is what there is at its position.
LEMMA NodeIsSeen ==
    ASSUME Built, NEW v \in Nodes, NEW str \in Seq(Ascii), NEW q \in 0 .. Len(str), Deep(v, SubSeq(str, 1, q)),
           NEW ms, Tells(v, ms), NEW b, b = IF ms = <<>> THEN 0 ELSE 1
    PROVE  Seen(b, str, q, q)
<1> DEFINE t == SubSeq(str, 1, q)
<1>1. t \in Seq(Ascii)
  BY TextGrows
<1>2. q .. q = {q}
  OBVIOUS
<1>3. match[v] => b = 1
  BY DEF Tells
<1> HIDE DEF t
<1>4. ASSUME b = 1 PROVE \E y \in Nodes : match[y] /\ EndsText(y, t)
  <2>1. ms # <<>>
    BY <1>4
  <2>2. PICK y \in Nodes : match[y] /\ Ends(word[y], word[v])
    BY <2>1 DEF Tells, Truthful
  <2>3. EndsText(v, t)
    BY DEF Deep, t
  <2>4. word[y] \in Seq(Ascii) /\ word[v] \in Seq(Ascii)
    BY WordsAreAscii
  <2>5. EndsText(y, t)
    BY <1>1, <2>2, <2>3, <2>4, EndsOrder DEF EndsText
  <2> QED
    BY <2>2, <2>5
<1>5. Marked(b, str, q, q)
  BY <1>2, <1>3 DEF Marked
<1>6. Meant(b, str, q, q)
  BY <1>2, <1>4 DEF Meant, t
<1> QED
  BY <1>5, <1>6 DEF Seen

\* Nothing is reported of no position.
LEMMA NoneIsSeen ==
    ASSUME NEW p \in Nat, NEW str
    PROVE  Seen(0, str, p + 1, p)
<1>1. (p + 1) .. p = {}
  OBVIOUS
<1> QED
  BY <1>1 DEF Seen, Marked, Meant

\* The report of some positions and of the next.
LEMMA SeenJoins ==
    ASSUME NEW a, NEW b, NEW str, NEW from \in Nat, NEW mid \in Nat, NEW to \in Nat, from <= mid + 1, mid <= to,
           Seen(a, str, from, mid), Seen(b, str, mid + 1, to), NEW c, c = IF b = 1 THEN 1 ELSE a
    PROVE  Seen(c, str, from, to)
<1>1. \A q : q \in from .. to <=> q \in from .. mid \/ q \in (mid + 1) .. to
  OBVIOUS
<1>2. Marked(c, str, from, to)
  <2> SUFFICES ASSUME NEW q \in from .. to
               PROVE  \E x \in Nodes : Deep(x, SubSeq(str, 1, q)) /\ (match[x] => c = 1)
    BY DEF Marked
  <2>1. \/ \E x \in Nodes : Deep(x, SubSeq(str, 1, q)) /\ (match[x] => a = 1)
        \/ \E x \in Nodes : Deep(x, SubSeq(str, 1, q)) /\ (match[x] => b = 1)
    BY <1>1 DEF Seen, Marked
  <2> QED
    BY <2>1
<1>3. Meant(c, str, from, to)
  <2>1. CASE b = 1
    BY <1>1, <2>1 DEF Seen, Meant
  <2>2. CASE b # 1
    BY <1>1, <2>2 DEF Seen, Meant
  <2> QED
    BY <2>1, <2>2
<1> QED
  BY <1>2, <1>3 DEF Seen

\* The report of a step: of the positions it read.
StepIsSeen(r, str, p) == r.idx \in p .. Len(str) /\ Seen(r.match, str, p + 1, r.idx)

LEMMA BranchSees ==
    ASSUME Built, Ids, Anchored, NEW n \in Nodes,
           NEW str \in Seq(Ascii), NEW p \in 0 .. Len(str), p < Len(str), Stands(n, p, str),
           NEW r, BranchAnswer(r, n, str, p)
    PROVE  StepIsSeen(r, str, p)
<1> DEFINE c == str[p + 1]
<1>1. p \in Nat /\ Len(str) \in Nat /\ p \in p .. Len(str) /\ p + 1 \in p .. Len(str) /\ p + 1 \in 0 .. Len(str)
  BY WordFacts
<1>2. CASE c \notin Chars(n)
  <2>1. r.idx = p /\ r.match = 0
    BY <1>2 DEF BranchAnswer
  <2>2. Seen(0, str, p + 1, p)
    BY <1>1, NoneIsSeen
  <2> QED
    BY <1>1, <2>1, <2>2 DEF StepIsSeen
<1>3. CASE c \in Chars(n)
  <2> DEFINE m == gotos[n][c]
             ms == Messages(m)
             q == p + 1
  <2>1. r.idx = q /\ r.match = IF ms = <<>> THEN 0 ELSE 1
    BY <1>3 DEF BranchAnswer
  <2>2. m \in Nodes /\ Deep(m, SubSeq(str, 1, q))
    BY <1>3, GotoIsDeep
  <2> HIDE DEF m
  <2>3. Tells(m, ms)
    BY <2>2, MessagesTell
  <2>4. q \in 0 .. Len(str)
    BY <1>1
  <2> HIDE DEF ms, q
  <2>5. Seen(r.match, str, q, q)
    BY <2>1, <2>2, <2>3, <2>4, NodeIsSeen
  <2> QED
    BY <1>1, <2>1, <2>5 DEF StepIsSeen, q
<1> QED
  BY <1>2, <1>3

\* There are matches among the first k elements if one of them matches.
LEMMA SomeMatch ==
    ASSUME NEW es, NEW k \in Nat
    PROVE  MatchesIn(es, k) = 0 <=> \A j \in 1 .. k : es[j].match # 1
<1> DEFINE S == {j \in 1 .. k : es[j].match = 1}
<1>1. IsFiniteSet(1 .. k) /\ S \subseteq 1 .. k
  BY FS_Interval
<1>2. IsFiniteSet(S)
  BY <1>1, FS_Subset
<1>3. Cardinality(S) = 0 <=> S = {}
  BY <1>2, FS_EmptySet
<1> QED
  BY <1>3 DEF MatchesIn

\* The reports of the positions of a path, each as b has it.
LEMMA PathIsSeen ==
    ASSUME NEW str, NEW p \in Nat, NEW k \in Nat, NEW b, \A i \in 1 .. k : Seen(b[i], str, p + i, p + i),
           NEW r, r = IF \A i \in 1 .. k : b[i] # 1 THEN 0 ELSE 1
    PROVE  Seen(r, str, p + 1, p + k)
<1>1. \A i \in 1 .. k : p + i \in (p + 1) .. (p + k) /\ (p + i) .. (p + i) = {p + i}
  OBVIOUS
<1>2. ASSUME NEW q \in (p + 1) .. (p + k)
      PROVE  \E x \in Nodes : Deep(x, SubSeq(str, 1, q)) /\ (match[x] => r = 1)
  <2>1. q - p \in 1 .. k /\ p + (q - p) = q
    OBVIOUS
  <2> DEFINE i == q - p
  <2>2. Seen(b[i], str, q, q) /\ i \in 1 .. k /\ q \in q .. q
    BY <2>1
  <2> HIDE DEF i
  <2>3. PICK x \in Nodes : Deep(x, SubSeq(str, 1, q)) /\ (match[x] => b[i] = 1)
    BY <2>2 DEF Seen, Marked
  <2> QED
    BY <2>2, <2>3
<1>3. ASSUME r = 1
      PROVE  \E q \in (p + 1) .. (p + k) : \E y \in Nodes : match[y] /\ EndsText(y, SubSeq(str, 1, q))
  <2>1. PICK i \in 1 .. k : b[i] = 1
    BY <1>3
  <2>2. \E q \in (p + i) .. (p + i) : \E y \in Nodes : match[y] /\ EndsText(y, SubSeq(str, 1, q))
    BY <2>1 DEF Seen, Meant
  <2> QED
    BY <1>1, <2>2
<1> QED
  BY <1>2, <1>3 DEF Seen, Marked, Meant

\* A position of a path that the text runs through.
LEMMA PositionIsSeen ==
    ASSUME Built, Ids, Anchored, NEW n \in Nodes, NEW l \in Nat, NEW es, PathWalk(n, l), PathMarks(n, l, es),
           NEW str \in Seq(Ascii), NEW p \in 0 .. Len(str), Stands(n, p, str), NEW k \in 1 .. l,
           \A i \in 1 .. k : p + i <= Len(str) /\ str[p + i] = Only(Path(n)[i])
    PROVE  Seen(es[k].match, str, p + k, p + k)
<1> DEFINE x == Path(n)[k]
           m == Child(x)
           ms == PathMessages(n, k)
           b == es[k].match
           j == k - 1
           u == p + j
<1>1. b = IF ms = <<>> THEN 0 ELSE 1
  BY DEF PathMarks
<1>2. m \in Nodes /\ Tells(m, ms)
  BY PathMessagesTell
<1>3. x \in Nodes /\ numGotos(x) = 1
  BY DEF PathWalk
<1>4. Chars(x) = {Only(x)} /\ Child(x) = gotos[x][Only(x)]
  BY <1>3, OnlyChild
<1>5. p \in Nat /\ Len(str) \in Nat /\ k \in Nat /\ k \in 1 .. k
  BY WordFacts
<1>6. p + k <= Len(str) /\ str[p + k] = Only(x)
  BY <1>5
<1>7. j \in 0 .. l /\ j < l /\ j + 1 = k /\ u \in 0 .. Len(str) /\ u < Len(str) /\ u + 1 = p + k /\ p + k \in 0 .. Len(str)
  BY <1>5, <1>6
<1>8. \A i \in 1 .. j : p + i <= Len(str) /\ str[p + i] = Only(Path(n)[i])
  OBVIOUS
<1> HIDE DEF b, ms, j
<1>9. Stands(Path(n)[j + 1], p + j, str)
  BY <1>7, <1>8, PathStands
<1>10. Stands(x, u, str)
  BY <1>7, <1>9
<1> HIDE DEF u
<1>11. str[u + 1] \in Chars(x) /\ m = gotos[x][str[u + 1]]
  BY <1>4, <1>6, <1>7
<1> HIDE DEF m, x
<1>12. Deep(m, SubSeq(str, 1, u + 1))
  BY <1>7, <1>10, <1>11, GotoIsDeep
<1> DEFINE q == p + k
<1>13. q \in 0 .. Len(str) /\ Deep(m, SubSeq(str, 1, q))
  BY <1>7, <1>12
<1> HIDE DEF q
<1>14. Seen(b, str, q, q)
  BY <1>1, <1>2, <1>13, NodeIsSeen
<1> QED
  BY <1>14 DEF b, q

LEMMA PathSees ==
    ASSUME Built, Ids, Anchored, NEW n \in Nodes, NEW d, NEW id, NEW es, NEW l \in Nat, PathHolds(d, id, n, l, es),
           NEW str \in Seq(Ascii), NEW p \in 0 .. Len(str), Stands(n, p, str),
           NEW r, r = NextStateOf(d, str, p, firstLevel, secondLevel)
    PROVE  StepIsSeen(r, str, p)
<1> DEFINE next == nodeId[Leads(PathEnd(n))]
           given == WithLevel0(es)
<1>1. PathWalk(n, l) /\ PathSet(n, l, es) /\ PathMarks(n, l, es)
  BY DEF PathHolds
<1>2. PICK z \in Nat : Created(d, PATH_COMPRESSED, z, id, l) /\ Holds(d, z, es, next)
  BY DEF PathHolds
<1>3. es \in Seq(Element) /\ Len(es) = l /\ \A i \in 1 .. l : es[i].c = Only(Path(n)[i])
  BY <1>1 DEF PathSet
<1>4. \A i \in 1 .. l : given[i].match = es[i].match
  BY <1>3, Level0
<1> HIDE DEF next, given
<1>5. Length14(d) = l
  BY <1>2, <1>3, PathIs
<1>6. PICK k \in 0 .. l : Leaves(d, str, p, k)
  BY <1>5, PathLeaves
<1>7. PathRead(r, d, es, l, next, k, str, p)
  BY <1>2, <1>3, <1>6, PathStateReads
<1>8. r = PathAnswer(given, l, next, k, str, p, firstLevel, secondLevel) /\ \A i \in 1 .. l : d[GOTO_IDX + 1 + i] = es[i].c
  BY <1>7 DEF PathRead, given
<1>9. r.idx = p + k /\ r.match = IF MatchesIn(given, k) = 0 THEN 0 ELSE 1
  BY <1>8 DEF PathAnswer
<1>10. p \in Nat /\ Len(str) \in Nat /\ k \in Nat /\ k <= l
  BY WordFacts
<1>11. \A i \in 1 .. k : p + i <= Len(str) /\ str[p + i] = Only(Path(n)[i])
  <2> SUFFICES ASSUME NEW i \in 1 .. k PROVE p + i <= Len(str) /\ str[p + i] = Only(Path(n)[i])
    OBVIOUS
  <2>1. i \in 1 .. l
    OBVIOUS
  <2> QED
    BY <1>3, <1>6, <1>8, <2>1 DEF Leaves
<1>12. r.idx \in p .. Len(str)
  <2>1. CASE k = 0
    BY <1>9, <1>10, <2>1
  <2>2. CASE k # 0
    <3>1. k \in 1 .. k
      BY <1>10, <2>2
    <3>2. p + k <= Len(str)
      BY <1>11, <3>1
    <3> QED
      BY <1>9, <1>10, <3>2
  <2> QED
    BY <2>1, <2>2
<1> DEFINE b == [i \in 1 .. k |-> es[i].match]
<1>13. ASSUME NEW i \in 1 .. k PROVE Seen(b[i], str, p + i, p + i) /\ b[i] = given[i].match
  <2>1. i \in 1 .. l /\ \A j \in 1 .. i : j \in 1 .. k
    BY <1>10
  <2>2. Seen(es[i].match, str, p + i, p + i)
    BY <1>1, <1>11, <2>1, PositionIsSeen
  <2> QED
    BY <1>4, <2>1, <2>2
<1>14. r.match = IF \A i \in 1 .. k : b[i] # 1 THEN 0 ELSE 1
  <2>1. \A i \in 1 .. k : b[i] = given[i].match
    BY <1>13
  <2> HIDE DEF b
  <2>2. MatchesIn(given, k) = 0 <=> \A i \in 1 .. k : given[i].match # 1
    BY <1>10, SomeMatch
  <2> QED
    BY <1>9, <2>1, <2>2
<1> HIDE DEF b
<1>15. Seen(r.match, str, p + 1, p + k)
  BY <1>10, <1>13, <1>14, PathIsSeen
<1> QED
  BY <1>9, <1>12, <1>15 DEF StepIsSeen

\* Every state other than the root's reports what it reads.
LEMMA StateSees ==
    ASSUME Built, Ids, Anchored, Finished, NEW id \in DOMAIN states, id # 0, NEW n, n = nodeTable[id],
           NEW str \in Seq(Ascii), NEW p \in 0 .. Len(str), p < Len(str), Stands(n, p, str),
           NEW r, r = NextStateOf(states[id], str, p, firstLevel, secondLevel)
    PROVE  StepIsSeen(r, str, p)
<1>1. StateNode(n) /\ nodeId[n] = id /\ n \in Nodes
  BY DEF Ids, StateNode
<1>2. Done(states[id], id, n)
  <2>1. ~ OpenIn(<<>>, n)
    BY DEF OpenIn
  <2> QED
    BY <2>1 DEF Finished, DataIs, StatesAre
<1>3. CASE numGotos(n) > 1
  <2>1. PICK es : BranchHolds(states[id], id, n, es)
    BY <1>2, <1>3 DEF Done
  <2>2. BranchAnswer(r, n, str, p)
    BY <1>1, <1>3, <2>1, BranchAnswers
  <2> QED
    BY <1>1, <2>2, BranchSees
<1>4. CASE numGotos(n) = 1
  <2>0. PICK l \in Nat : \E es : PathHolds(states[id], id, n, l, es)
    BY <1>2, <1>4 DEF Done
  <2>1. PICK es : PathHolds(states[id], id, n, l, es)
    BY <2>0
  <2> QED
    BY <1>1, <2>1, PathSees
<1>5. numGotos(n) > 1 \/ numGotos(n) = 1
  <2>1. numGotos(n) \in 0 .. MAX_ARRAY_LENGTH /\ numGotos(n) # 0
    BY <1>1, GotoCount DEF StateNode
  <2>2. MAX_ARRAY_LENGTH \in Nat
    BY DEF MAX_ARRAY_LENGTH
  <2> QED
    BY <2>1, <2>2
<1> QED
  BY <1>3, <1>4, <1>5

\* Nor has the root anything to report: no anchor has one character.
LEMMA RootSees ==
    ASSUME Built, Anchored, NEW str \in Seq(Ascii), NEW p \in 0 .. Len(str), p < Len(str), Stands(Root, p, str)
    PROVE  Seen(0, str, p + 1, p + 1)
<1>1. PICK x \in Nodes : Deep(x, SubSeq(str, 1, p + 1)) /\ ~ (depth[x] > 1)
  BY RootIsDeep
<1>2. ~ match[x]
  BY <1>1 DEF Anchored
<1>3. (p + 1) .. (p + 1) = {p + 1}
  OBVIOUS
<1> QED
  BY <1>1, <1>2, <1>3 DEF Seen, Marked, Meant

-----------------------------------------------------------------------------
(* The machine, of every execution.                                        *)

\* The tables before setStatesData.
Unset == rows = Empty /\ firstLevel = [c \in Byte |-> LOOKUP_VALUE_NOT_FOUND] /\ secondLevel = Empty
\* The scan.
ScanInv ==
    /\ input \in Seq(Ascii) /\ input \in Texts \cup {<<>>} /\ idx \in 0 .. Len(input) /\ res \in {0, 1}
    /\ cpc \in {"scan", "done"} \/ s = 0
    /\ s # 0 => s \in DOMAIN states /\ RootBranches
    /\ cpc = "scan" /\ RootBranches => Stands(nodeTable[s], idx, input)
CMInv ==
    /\ cpc \in {"tree", "generate", "data", "ready", "scan", "done", "exit"}
    /\ cpc \in {"tree", "generate"} => Unset
    /\ cpc \notin {"tree", "generate"} =>
          DataIs(states, firstLevel, secondLevel, pending) /\ DOMAIN rows \subseteq DOMAIN states
    /\ cpc \in {"ready", "scan", "done"} => pending = <<>>
    /\ cpc = "exit" => ~ RootBranches
    /\ ScanInv

\* The texts are ASCII.
LEMMA TextsAreAscii ==
    Texts \cup {<<>>} \subseteq Seq(Ascii)
<1>1. Texts \subseteq Seq(1 .. 127)
  BY CMAssumption
<1>2. <<>> \in Seq(1 .. 127)
  OBVIOUS
<1> QED
  BY <1>1, <1>2 DEF Ascii

\* The number of states only grows.
LEMMA IdsFitBefore ==
    ASSUME GenInv, [CMNext]_<<acVars, cmVars>>, IdsFit'
    PROVE  IdsFit /\ nextID \in Nat
<1>0. LOOKUP_VALUE_NOT_FOUND \in Nat
  BY DEF LOOKUP_VALUE_NOT_FOUND
<1>1. nextID \in Nat
  <2>1. CASE cpc = "tree"
    BY <2>1 DEF GenInv, Nothing
  <2>2. CASE cpc = "generate"
    BY <2>2 DEF GenInv, Generated, TreeGen
  <2>3. CASE cpc \notin {"tree", "generate"}
    BY <2>3 DEF GenInv, Generated, TreeGen
  <2> QED
    BY <2>1, <2>2, <2>3
<1>2. CASE GenerateBranch \/ GeneratePath
  <2>1. cpc = "generate" /\ \E n, d : addState(d, n)
    BY <1>2 DEF GenerateBranch, GeneratePath
  <2>2. DOMAIN states = 0 .. nextID - 1 /\ DOMAIN nodeTable = DOMAIN states
    BY <2>1 DEF GenInv, Generated, TreeGen
  <2>3. nextID' = nextID + 1
    BY <1>1, <2>1, <2>2, StateIsAdded
  <2> QED
    BY <1>0, <1>1, <2>3 DEF IdsFit
<1>3. CASE ~ (GenerateBranch \/ GeneratePath)
  <2>1. DOMAIN states' = DOMAIN states
    BY <1>3 DEF CMNext, CMStep, CMStopped, createStateMachine, BuildTree, SkipLeaf, EndGenerate, SetNothing, SetBranch, SetPath,
                EndData, Match, matchIterative, StepInRoot, Step, Return, Stop, machineVars, cmVars
  <2>2. nextID' = nextID
    BY <2>1 DEF nextID
  <2> QED
    BY <1>1, <2>2 DEF IdsFit
<1> QED
  BY <1>2, <1>3

\* Steps that leave the scan alone.
LEMMA ScanStays ==
    ASSUME ScanInv, UNCHANGED scanVars, cpc \notin {"scan", "done"}, cpc' \notin {"scan", "done"}
    PROVE  ScanInv'
<1>1. s = 0 /\ input' = input /\ idx' = idx /\ res' = res /\ s' = 0
  BY DEF ScanInv, scanVars
<1> QED
  BY <1>1 DEF ScanInv

\* The first pass.
LEMMA GenerationKeeps ==
    ASSUME CMInv, cpc \in {"tree", "generate"}, BuildTree \/ GenerateBranch \/ GeneratePath \/ SkipLeaf
    PROVE  CMInv'
<1>1. cpc' \in {"tree", "generate"} /\ UNCHANGED <<rows, firstLevel, secondLevel>> /\ UNCHANGED scanVars
  BY DEF BuildTree, GenerateBranch, GeneratePath, SkipLeaf, cmVars, machineVars, scanVars
<1>2. ScanInv'
  BY <1>1, ScanStays DEF CMInv
<1> QED
  BY <1>1, <1>2 DEF CMInv, Unset

\* The second pass starts.
LEMMA DataKeeps ==
    ASSUME CMInv, GenInv, Built, IdsFit, EndGenerate
    PROVE  CMInv'
<1>1. /\ cpc = "generate" /\ pending = <<>> /\ cpc' = "data" /\ pending' = <<Root>>
      /\ UNCHANGED acVars /\ UNCHANGED <<nodeId, nodeTable, states, rows, firstLevel, secondLevel>>
      /\ UNCHANGED scanVars
  BY DEF EndGenerate, machineVars
<1>2. Ids
  <2>1. Generated(<<>>)
    BY <1>1 DEF GenInv
  <2> QED
    BY <2>1, IdsAre
<1>3. AllFresh /\ Unset
  BY <1>1 DEF GenInv, CMInv
<1>4. DataIs(states, firstLevel, secondLevel, <<Root>>)
  BY <1>2, <1>3, DataStarts DEF Unset
<1>5. UNCHANGED <<acVars, nodeId, nodeTable>>
  BY <1>1
<1>6. DataIs(states, firstLevel, secondLevel, pending)'
  BY <1>1, <1>4, <1>5, DataStays
<1>7. DOMAIN rows' \subseteq DOMAIN states'
  BY <1>1, <1>3 DEF Unset, Empty
<1>8. ScanInv'
  BY <1>1, ScanStays DEF CMInv
<1> QED
  BY <1>1, <1>6, <1>7, <1>8 DEF CMInv

\* Its iterations.
LEMMA DataStepKeeps ==
    ASSUME CMInv, Built, cpc = "data", DataStep
    PROVE  CMInv'
<1>1. UNCHANGED <<acVars, nodeId, nodeTable>> /\ UNCHANGED acVars /\ UNCHANGED scanVars /\ DOMAIN states' = DOMAIN states
  BY DEF DataStep
<1>2. CASE cpc' = "data"
  <2>1. DataIs(states', firstLevel', secondLevel', pending') /\ DOMAIN rows' \subseteq DOMAIN states'
    BY <1>1, <1>2 DEF DataStep
  <2>2. DataIs(states, firstLevel, secondLevel, pending)'
    BY <1>1, <2>1, DataStays
  <2>3. ScanInv'
    BY <1>1, <1>2, ScanStays DEF CMInv
  <2> QED
    BY <1>2, <2>1, <2>2, <2>3 DEF CMInv
<1>3. CASE cpc' # "data"
  <2>1. cpc' = "exit" /\ ~ RootBranches /\ UNCHANGED <<pending, states, rows, firstLevel, secondLevel>>
    BY <1>3 DEF DataStep
  <2>2. DataIs(states, firstLevel, secondLevel, pending)'
    BY <1>1, <2>1, DataStays DEF CMInv
  <2>3. ScanInv'
    BY <1>1, <2>1, ScanStays DEF CMInv
  <2>4. ~ RootBranches'
    BY <1>1, <2>1, TreeStays
  <2> QED
    BY <2>1, <2>2, <2>3, <2>4 DEF CMInv
<1> QED
  BY <1>2, <1>3

\* The root of several gotos has state 0.
LEMMA RootHasState ==
    ASSUME Built, Ids, RootBranches
    PROVE  Root \in Nodes /\ nodeTable[0] = Root /\ 0 \in DOMAIN states
<1>1. Root \in Nodes
  BY RootFacts DEF Built
<1>2. ~ IsLeaf(Root)
  <2>1. numGotos(Root) # 0
    BY DEF RootBranches
  <2> QED
    BY <1>1, <2>1, GotoCount
<1>3. StateNode(Root)
  BY <1>1, <1>2 DEF StateNode, Interior
<1> QED
  BY <1>1, <1>3 DEF Ids

\* What the scan starts from and steps to.
LEMMA ScanMoves ==
    ASSUME Built, Ids, RootBranches, NEW n \in Nodes, HasId(n), NEW id, id = nodeId[n]
    PROVE  id \in DOMAIN states /\ nodeTable[id] = n
<1>1. CASE n = Root
  BY <1>1, RootHasState DEF Ids
<1>2. CASE n # Root
  BY <1>2 DEF Ids, HasId
<1> QED
  BY <1>1, <1>2

\* A step of the scan, for the invariant.
Scanned ==
    /\ cpc = "scan" /\ UNCHANGED acVars /\ UNCHANGED <<nodeId, nodeTable, input>>
    /\ UNCHANGED <<cpc, maxGotos, pending, key, states, rows, firstLevel, secondLevel>>
    /\ idx' \in 0 .. Len(input) /\ res' \in {0, 1}
    /\ RootBranches => \E m \in Nodes : HasId(m) /\ s' = nodeId[m] /\ Stands(m, idx', input)
    /\ ~ RootBranches => s' = 0
LEMMA ScannedKeeps ==
    ASSUME CMInv, Built, Ids, Scanned
    PROVE  CMInv'
<1>1. /\ cpc = "scan" /\ cpc' = "scan" /\ UNCHANGED acVars /\ UNCHANGED <<acVars, nodeId, nodeTable>>
      /\ nodeTable' = nodeTable /\ input' = input
      /\ UNCHANGED <<pending, states, rows, firstLevel, secondLevel>>
  BY DEF Scanned
<1>2. RootBranches' = RootBranches
  BY <1>1, TreeStays
<1>3. DataIs(states, firstLevel, secondLevel, pending)'
  BY <1>1, DataStays DEF CMInv
<1>4. input' \in Seq(Ascii) /\ input' \in Texts \cup {<<>>} /\ idx' \in 0 .. Len(input') /\ res' \in {0, 1}
  BY <1>1 DEF CMInv, ScanInv, Scanned
<1>5. CASE RootBranches
  <2>1. PICK m \in Nodes : HasId(m) /\ s' = nodeId[m] /\ Stands(m, idx', input)
    BY <1>5 DEF Scanned
  <2> DEFINE id == s'
  <2>2. id = nodeId[m]
    BY <2>1
  <2> HIDE DEF id
  <2>3. id \in DOMAIN states /\ nodeTable[id] = m
    BY <1>5, <2>1, <2>2, ScanMoves
  <2>4. Stands(nodeTable[s], idx, input)'
    <3>1. Nodes' = Nodes /\ word' = word /\ depth' = depth /\ \A n : Chars(n)' = Chars(n)
      BY <1>1, TreeStays DEF acVars, treeVars
    <3>2. Stands(nodeTable[id], idx', input)
      BY <2>1, <2>3
    <3> QED
      BY <1>1, <3>1, <3>2 DEF Stands, Follows, EndsText, id
  <2>5. s' \in DOMAIN states'
    BY <1>1, <2>3 DEF id
  <2>6. ScanInv'
    BY <1>1, <1>2, <1>4, <1>5, <2>4, <2>5 DEF ScanInv
  <2> QED
    BY <1>1, <1>3, <2>6 DEF CMInv
<1>6. CASE ~ RootBranches
  <2>1. s' = 0
    BY <1>6 DEF Scanned
  <2>2. ScanInv'
    BY <1>1, <1>2, <1>4, <1>6, <2>1 DEF ScanInv
  <2> QED
    BY <1>1, <1>3, <2>2 DEF CMInv
<1> QED
  BY <1>5, <1>6

\* A step from the root.
LEMMA RootStepKeeps ==
    ASSUME CMInv, Built, Ids, IdsFit, StepInRoot
    PROVE  Scanned /\ idx' = idx + 1
<1>1. /\ cpc = "scan" /\ idx < Len(input) /\ s = 0 /\ idx' = idx + 1 /\ res' = res
      /\ UNCHANGED acVars /\ UNCHANGED <<nodeId, nodeTable, input>>
      /\ UNCHANGED <<cpc, maxGotos, pending, key, states, rows, firstLevel, secondLevel>>
  BY DEF StepInRoot, machineVars
<1>2. s' = IF firstLevel[input[idx + 1]] = LOOKUP_VALUE_NOT_FOUND THEN 0 ELSE firstLevel[input[idx + 1]]
  BY DEF StepInRoot, GET_FIRST_LEVEL_STATE
<1>3. Finished
  BY <1>1 DEF CMInv, Finished
<1>4. input \in Seq(Ascii) /\ idx \in 0 .. Len(input) /\ res \in {0, 1}
  BY DEF CMInv, ScanInv
<1>5. idx' \in 0 .. Len(input) /\ res' \in {0, 1}
  BY <1>1, <1>4
<1>6. ASSUME RootBranches PROVE \E m \in Nodes : HasId(m) /\ s' = nodeId[m] /\ Stands(m, idx', input)
  <2>1. Stands(Root, idx, input)
    BY <1>1, <1>6, RootHasState DEF CMInv, ScanInv
  <2> DEFINE id == firstLevel[input[idx + 1]]
             t == s'
  <2>2. id = firstLevel[input[idx + 1]] /\ t = IF id = LOOKUP_VALUE_NOT_FOUND THEN 0 ELSE id
    BY <1>2
  <2> HIDE DEF id, t
  <2>3. \E m \in Nodes : HasId(m) /\ t = nodeId[m] /\ Stands(m, idx + 1, input)
    BY <1>1, <1>3, <1>4, <1>6, <2>1, <2>2, RootLands
  <2> QED
    BY <1>1, <2>3 DEF t
<1>7. ASSUME ~ RootBranches PROVE s' = 0
  <2>1. input[idx + 1] \in Ascii
    BY <1>1, <1>4, TextGrows
  <2>2. input[idx + 1] \in Byte
    BY <2>1 DEF Ascii, Byte
  <2>3. firstLevel[input[idx + 1]] = LOOKUP_VALUE_NOT_FOUND
    BY <1>3, <1>7, <2>2, NoFirstLevel
  <2> QED
    BY <1>2, <2>3
<1> QED
  BY <1>1, <1>5, <1>6, <1>7 DEF Scanned

\* And from another state: it leads to a state.
LEMMA StateStepKeeps ==
    ASSUME CMInv, Built, Ids, Step
    PROVE  /\ Scanned /\ s \in DOMAIN states
           /\ idx' > idx \/ (idx' = idx /\ depth[nodeTable[s']] < depth[nodeTable[s]])
<1> DEFINE r == NextStateOf(states[s], input, idx, firstLevel, secondLevel)
           n == nodeTable[s]
<1>1. /\ cpc = "scan" /\ idx < Len(input) /\ s # 0 /\ UNCHANGED acVars /\ UNCHANGED nodeId
      /\ r.next \notin DOMAIN states => Stop("crash")
      /\ r.next \in DOMAIN states =>
            /\ s' = r.next /\ idx' = r.idx /\ res' = IF r.match = 1 THEN 1 ELSE res
            /\ UNCHANGED <<acVars, cpc, maxGotos, pending, nodeId, key, machineVars, input>>
  BY DEF Step, Stop
<1>2. s \in DOMAIN states /\ RootBranches /\ input \in Seq(Ascii) /\ idx \in 0 .. Len(input) /\ res \in {0, 1}
      /\ Stands(n, idx, input)
  BY <1>1 DEF CMInv, ScanInv
<1>3. Finished
  BY <1>1 DEF CMInv, Finished
<1>4. r = NextStateOf(states[s], input, idx, firstLevel, secondLevel) /\ n = nodeTable[s]
  OBVIOUS
<1> HIDE DEF r, n
<1>5. Lands(r, n, input, idx) /\ n \in Nodes
  BY <1>1, <1>2, <1>3, <1>4, StateLands
<1>6. PICK m \in Nodes :
         /\ HasId(m) /\ r.next = nodeId[m] /\ r.idx \in idx .. Len(input) /\ Stands(m, r.idx, input)
         /\ r.idx > idx \/ (r.idx = idx /\ depth[m] < depth[n])
  BY <1>5 DEF Lands
<1>7. r.next \in DOMAIN states /\ nodeTable[r.next] = m
  BY <1>2, <1>6, ScanMoves
<1>8. s' = r.next /\ idx' = r.idx /\ res' \in {0, 1} /\ UNCHANGED <<cpc, maxGotos, pending, key, input>>
      /\ UNCHANGED <<states, nodeTable, rows, firstLevel, secondLevel>>
  BY <1>1, <1>2, <1>7 DEF machineVars
<1>9. idx' \in 0 .. Len(input)
  BY <1>2, <1>6, <1>8
<1>10. \E x \in Nodes : HasId(x) /\ s' = nodeId[x] /\ Stands(x, idx', input)
  BY <1>6, <1>8
<1>11. Scanned
  BY <1>1, <1>2, <1>8, <1>9, <1>10 DEF Scanned
<1>12. idx' > idx \/ (idx' = idx /\ depth[nodeTable[s']] < depth[nodeTable[s]])
  BY <1>4, <1>6, <1>7, <1>8
<1> QED
  BY <1>2, <1>11, <1>12

\* The steps of the scan, of the generator and of the end.
LEMMA CMInvKept ==
    ASSUME CMInv, GenInv, cpc # "tree" => Built, IdsFit, [CMNext]_<<acVars, cmVars>>
    PROVE  CMInv'
<1>1. CASE BuildTree \/ GenerateBranch \/ GeneratePath \/ SkipLeaf
  <2>1. cpc \in {"tree", "generate"}
    BY <1>1 DEF BuildTree, GenerateBranch, GeneratePath, SkipLeaf
  <2> QED
    BY <1>1, <2>1, GenerationKeeps
<1>2. CASE EndGenerate
  <2>1. Built
    BY <1>2 DEF EndGenerate
  <2> QED
    BY <1>2, <2>1, DataKeeps
<1>3. cpc \notin {"tree", "generate"} => Built /\ Ids
  BY IdsAre DEF GenInv
<1>4. CASE SetNothing \/ SetBranch \/ SetPath
  <2>1. cpc = "data"
    BY <1>4 DEF SetNothing, SetBranch, SetPath
  <2>2. DataIs(states, firstLevel, secondLevel, pending) /\ DOMAIN rows \subseteq DOMAIN states
    BY <2>1 DEF CMInv
  <2>3. DataStep
    BY <1>3, <1>4, <2>1, <2>2, NothingIsSet, BranchIsStored, PathIsStored
  <2> QED
    BY <1>3, <2>1, <2>3, DataStepKeeps
<1>5. CASE StepInRoot \/ Step
  <2>1. cpc = "scan"
    BY <1>5 DEF StepInRoot, Step
  <2>2. Built /\ Ids
    BY <1>3, <2>1
  <2>3. Scanned
    BY <1>5, <2>2, RootStepKeeps, StateStepKeeps
  <2> QED
    BY <2>2, <2>3, ScannedKeeps
<1>6. CASE EndData \/ Match \/ Return
  <2>1. /\ cpc \in {"data", "ready", "scan"} /\ pending = <<>>
        /\ UNCHANGED acVars /\ UNCHANGED <<acVars, nodeId, nodeTable>>
        /\ UNCHANGED <<pending, states, nodeTable, rows, firstLevel, secondLevel>>
    BY <1>6 DEF EndData, Match, Return, machineVars, CMInv
  <2>2. Built /\ Ids
    BY <1>3, <2>1
  <2>3. DataIs(states, firstLevel, secondLevel, pending)' /\ DOMAIN rows \subseteq DOMAIN states
    BY <2>1, DataStays DEF CMInv
  <2>4. RootBranches' = RootBranches
    BY <2>1, TreeStays
  <2>5. cpc' \in {"ready", "scan", "done"} /\ pending' = <<>>
    BY <1>6, <2>1 DEF EndData, Match, Return
  <2>6. ScanInv'
    <3>1. CASE EndData
      <4>1. cpc = "data" /\ cpc' = "ready" /\ UNCHANGED scanVars
        BY <3>1 DEF EndData
      <4> QED
        BY <4>1, ScanStays DEF CMInv
    <3>2. CASE Return
      <4>1. cpc = "scan" /\ cpc' = "done" /\ UNCHANGED <<input, idx, s, res>>
        BY <3>2 DEF Return, scanVars
      <4> QED
        BY <2>1, <2>4, <4>1 DEF CMInv, ScanInv
    <3>3. CASE Match
      <4>1. cpc' = "scan" /\ input' \in Texts /\ idx' = 0 /\ s' = 0 /\ res' = 0
        BY <3>3 DEF Match
      <4>2. input' \in Seq(Ascii)
        BY <4>1, TextsAreAscii
      <4> DEFINE str == input'
      <4>3. str \in Seq(Ascii) /\ Len(str) \in Nat
        BY <4>2, WordFacts
      <4>4. RootBranches => Stands(nodeTable[s], idx, input)'
        <5> SUFFICES ASSUME RootBranches PROVE Stands(nodeTable[s], idx, input)'
          OBVIOUS
        <5>1. nodeTable'[s'] = Root
          BY <2>1, <2>2, <4>1, RootHasState
        <5> HIDE DEF str
        <5>2. Stands(Root, 0, str)
          BY <2>2, <4>3, StartsInRoot
        <5>3. Nodes' = Nodes /\ word' = word /\ depth' = depth /\ \A n : Chars(n)' = Chars(n)
          BY <2>1, TreeStays DEF acVars, treeVars
        <5> QED
          BY <4>1, <5>1, <5>2, <5>3 DEF Stands, Follows, EndsText, str
      <4>5. idx' \in 0 .. Len(input')
        BY <4>1, <4>3
      <4> QED
        BY <2>4, <4>1, <4>2, <4>4, <4>5 DEF ScanInv
    <3> QED
      BY <1>6, <3>1, <3>2, <3>3
  <2> QED
    BY <2>1, <2>3, <2>5, <2>6 DEF CMInv
<1>7. CASE UNCHANGED <<acVars, cmVars>> \/ CMStopped
  <2>1. UNCHANGED acVars /\ UNCHANGED <<acVars, nodeId, nodeTable>> /\ UNCHANGED scanVars
        /\ UNCHANGED <<cpc, pending, states, nodeTable, rows, firstLevel, secondLevel>>
    BY <1>7 DEF CMStopped, cmVars, machineVars
  <2>2. DataIs(states, firstLevel, secondLevel, pending)' = DataIs(states, firstLevel, secondLevel, pending)
    BY <2>1, DataStays
  <2>3. Unset' = Unset
    BY <2>1 DEF Unset
  <2>4. CASE cpc \in {"scan", "done"}
    <3>1. RootBranches' = RootBranches /\ Nodes' = Nodes /\ word' = word /\ depth' = depth /\ \A n : Chars(n)' = Chars(n)
      BY <2>1, TreeStays DEF acVars, treeVars
    <3>2. ScanInv'
      BY <2>1, <3>1 DEF CMInv, ScanInv, scanVars, Stands, Follows, EndsText
    <3> QED
      BY <2>1, <2>2, <2>3, <2>4, <3>1, <3>2 DEF CMInv
  <2>5. CASE cpc \notin {"scan", "done"}
    <3>1. ScanInv'
      BY <2>1, <2>5, ScanStays DEF CMInv
    <3>2. RootBranches' = RootBranches
      BY <2>1, TreeStays
    <3> QED
      BY <2>1, <2>2, <2>3, <2>5, <3>1, <3>2 DEF CMInv
  <2> QED
    BY <2>4, <2>5
<1> QED
  BY <1>1, <1>2, <1>4, <1>5, <1>6, <1>7 DEF CMNext, CMStep, createStateMachine, matchIterative

\* The invariant, of every execution, as long as ids have 16 bits.
LEMMA CMInvAlways == CMSpec => [](IdsFit => CMInv)
<1>1. CMInit => CMInv
  <2> SUFFICES ASSUME CMInit PROVE CMInv
    OBVIOUS
  <2>1. /\ cpc = "tree" /\ rows = Empty /\ secondLevel = Empty
        /\ firstLevel = [c \in Byte |-> LOOKUP_VALUE_NOT_FOUND]
        /\ input = <<>> /\ idx = 0 /\ s = 0 /\ res = 0
    BY DEF CMInit
  <2>2. input \in Seq(Ascii) /\ idx \in 0 .. Len(input)
    BY <2>1
  <2> QED
    BY <2>1, <2>2 DEF CMInv, Unset, ScanInv
<1>2. /\ IdsFit => CMInv
      /\ GenInv /\ (cpc # "tree" => Built) /\ [CMNext]_<<acVars, cmVars>>
      => (IdsFit => CMInv)'
  <2> SUFFICES ASSUME IdsFit => CMInv, GenInv, cpc # "tree" => Built, [CMNext]_<<acVars, cmVars>>, IdsFit'
               PROVE  CMInv'
    OBVIOUS
  <2>1. IdsFit
    BY IdsFitBefore
  <2> QED
    BY <2>1, CMInvKept
<1> QED
  BY <1>1, <1>2, BuiltAlways, GenInvAlways, PTL DEF CMSpec

-----------------------------------------------------------------------------
(* What the invariant says of the states.                                  *)

\* A state that was created for an id has it, and is a memory.
LEMMA StateIdIs ==
    ASSUME NEW d, NEW t \in {LINEAR_ENCODED, BITMAP_ENCODED, LOOKUP_TABLE, PATH_COMPRESSED},
           NEW k \in Nat, NEW id \in StateId, NEW l, Created(d, t, k, id, l)
    PROVE  getStateID(d) = id /\ d \in Memory(k)
<1>1. HeaderIs(d, t, k, id, l) /\ d \in Memory(k)
  BY DEF Created
<1>2. Hi(id) * 256 + Lo(id) = id
  <2>1. id \in Nat /\ id <= 65535
    BY StateIdRange
  <2> QED
    BY <2>1, TwoBytes
<1>3. GET_STATE_TYPE(d) = t
      /\ (t \in {LINEAR_ENCODED, BITMAP_ENCODED} => d[1] = Hi(id) /\ d[2] = Lo(id))
      /\ (t \in {LOOKUP_TABLE, PATH_COMPRESSED} => d[2] = Hi(id) /\ d[3] = Lo(id))
  BY <1>1 DEF HeaderIs
<1>4. CASE t \in {LINEAR_ENCODED, BITMAP_ENCODED}
  <2>1. getStateID(d) = d[1] * 256 + d[2]
    BY <1>3, <1>4 DEF getStateID, getStateID_LE, getStateID_BM, LINEAR_ENCODED, BITMAP_ENCODED, LOOKUP_TABLE, PATH_COMPRESSED
  <2> QED
    BY <1>1, <1>2, <1>3, <1>4, <2>1
<1>5. CASE t \in {LOOKUP_TABLE, PATH_COMPRESSED}
  <2>1. getStateID(d) = d[2] * 256 + d[3]
    BY <1>3, <1>5 DEF getStateID, getStateID_LT, getStateID_PC, LINEAR_ENCODED, BITMAP_ENCODED, LOOKUP_TABLE, PATH_COMPRESSED
  <2> QED
    BY <1>1, <1>2, <1>3, <1>5, <2>1
<1> QED
  BY <1>4, <1>5

\* So has a state before and after its data is set.
Bytes(d) == d \in [DOMAIN d -> Byte]
LEMMA StateIsItsNode ==
    ASSUME Built, NEW id \in StateId, NEW n, StateNode(n), NEW d, Fresh(d, id, n) \/ Done(d, id, n)
    PROVE  getStateID(d) = id /\ Bytes(d)
<1>1. numGotos(n) > 1 \/ numGotos(n) = 1
  <2>1. numGotos(n) \in 0 .. MAX_ARRAY_LENGTH /\ numGotos(n) # 0
    BY GotoCount DEF StateNode
  <2>2. MAX_ARRAY_LENGTH \in Nat
    BY DEF MAX_ARRAY_LENGTH
  <2> QED
    BY <2>1, <2>2
<1>2. \E t \in {LINEAR_ENCODED, BITMAP_ENCODED, LOOKUP_TABLE, PATH_COMPRESSED}, k \in Nat : \E l : Created(d, t, k, id, l)
  <2>1. CASE Fresh(d, id, n)
    <3>1. CASE numGotos(n) > 1
      BY <2>1, <3>1 DEF Fresh, FreshBranch
    <3>2. CASE numGotos(n) = 1
      BY <2>1, <3>2 DEF Fresh, FreshPath
    <3> QED
      BY <1>1, <3>1, <3>2
  <2>2. CASE Done(d, id, n)
    <3>1. CASE numGotos(n) > 1
      BY <2>2, <3>1 DEF Done, BranchHolds
    <3>2. CASE numGotos(n) = 1
      BY <2>2, <3>2 DEF Done, PathHolds
    <3> QED
      BY <1>1, <3>1, <3>2
  <2> QED
    BY <2>1, <2>2
<1>3. PICK k \in Nat : getStateID(d) = id /\ d \in Memory(k)
  BY <1>2, StateIdIs
<1>4. Bytes(d)
  BY <1>3 DEF Memory, Bytes
<1> QED
  BY <1>3, <1>4

\* Ids are those of the states.
LEMMA StateIds ==
    ASSUME IdsFit, nextID \in Nat, DOMAIN states = 0 .. nextID - 1
    PROVE  DOMAIN states \subseteq StateId
<1>1. LOOKUP_VALUE_NOT_FOUND \in Nat
  BY DEF LOOKUP_VALUE_NOT_FOUND
<1> QED
  BY <1>1 DEF IdsFit, StateId

\* What is known of the states in every phase.
LEMMA StatesHold ==
    ASSUME GenInv, CMInv, cpc # "tree" => Built, IdsFit
    PROVE  /\ DOMAIN states = 0 .. nextID - 1 /\ DOMAIN nodeTable = DOMAIN states
           /\ \A id \in DOMAIN states : /\ getStateID(states[id]) = id /\ Bytes(states[id])
                                        /\ nodeTable[id] \in Nodes
<1>1. CASE cpc = "tree"
  <2>1. states = Empty /\ nodeTable = Empty /\ nextID = 0
    BY <1>1 DEF GenInv, Nothing
  <2>2. DOMAIN states = {} /\ DOMAIN nodeTable = {} /\ 0 .. nextID - 1 = {}
    BY <2>1 DEF Empty
  <2> QED
    BY <2>2
<1>2. ASSUME cpc # "tree", NEW q, Generated(q)
      PROVE  /\ nextID \in Nat /\ DOMAIN states = 0 .. nextID - 1 /\ DOMAIN nodeTable = DOMAIN states
             /\ \A id \in DOMAIN states : StateNode(nodeTable[id])
  BY <1>2 DEF Generated, TreeGen
<1>3. CASE cpc = "generate"
  <2>1. /\ nextID \in Nat /\ DOMAIN states = 0 .. nextID - 1 /\ DOMAIN nodeTable = DOMAIN states
        /\ \A id \in DOMAIN states : StateNode(nodeTable[id])
    BY <1>2, <1>3 DEF GenInv
  <2>2. \A id \in DOMAIN states : Fresh(states[id], id, nodeTable[id]) /\ id \in StateId
    BY <1>3, <2>1, StateIds DEF GenInv, AllFresh
  <2>3. Built
    BY <1>3
  <2> QED
    BY <2>1, <2>2, <2>3, StateIsItsNode DEF StateNode
<1>4. CASE cpc \notin {"tree", "generate"}
  <2>1. /\ nextID \in Nat /\ DOMAIN states = 0 .. nextID - 1 /\ DOMAIN nodeTable = DOMAIN states
        /\ \A id \in DOMAIN states : StateNode(nodeTable[id])
    BY <1>2, <1>4 DEF GenInv
  <2>2. \A id \in DOMAIN states : id \in StateId
    BY <2>1, StateIds
  <2>3. \A id \in DOMAIN states : Fresh(states[id], id, nodeTable[id]) \/ Done(states[id], id, nodeTable[id])
    BY <1>4 DEF CMInv, DataIs, StatesAre
  <2>4. Built
    BY <1>4
  <2> QED
    BY <2>1, <2>2, <2>3, <2>4, StateIsItsNode DEF StateNode
<1> QED
  BY <1>1, <1>3, <1>4

\* The nodes as collectCompressionStats tests them.
LEMMA NodesAreRight ==
    ASSUME Built, Ids, NEW n \in Nodes \ {Root}
    PROVE  /\ numGotos(n) = 0 => nodeId[n] \in {-1, -2}
           /\ numGotos(n) # 0 => nodeId[n] # -1
           /\ numGotos(n) \notin {0, 1} => nodeId[n] # -2
           /\ nodeId[n] >= 0 => nodeId[n] \in DOMAIN states
<1>1. numGotos(n) = 0 <=> IsLeaf(n)
  BY GotoCount
<1>2. HasId(n) <=> StateNode(n)
  BY DEF HasId
<1>3. StateNode(n) <=> ~ IsLeaf(n) /\ ~ Interior(n)
  BY DEF StateNode
<1>4. Interior(n) /\ ~ IsLeaf(n) => numGotos(n) = 1
  BY PathNodes DEF Interior
<1>5. /\ HasId(n) <=> nodeId[n] >= 0
      /\ StateNode(n) => nodeId[n] \in DOMAIN states
      /\ ~ StateNode(n) => nodeId[n] = IF Interior(n) THEN -2 ELSE -1
  BY DEF Ids
<1>6. nodeId[n] \in Int
  BY DEF Ids
<1>7. CASE StateNode(n)
  <2>1. nodeId[n] >= 0 /\ nodeId[n] # -1 /\ nodeId[n] # -2 /\ numGotos(n) # 0 /\ nodeId[n] \in DOMAIN states
    BY <1>1, <1>2, <1>3, <1>5, <1>6, <1>7
  <2> QED
    BY <2>1
<1>8. CASE ~ StateNode(n) /\ Interior(n)
  <2>1. nodeId[n] = -2 /\ ~ (nodeId[n] >= 0) /\ numGotos(n) \in {0, 1}
    BY <1>1, <1>4, <1>5, <1>8
  <2> QED
    BY <2>1
<1>9. CASE ~ StateNode(n) /\ ~ Interior(n)
  <2>1. nodeId[n] = -1 /\ ~ (nodeId[n] >= 0) /\ numGotos(n) = 0
    BY <1>1, <1>3, <1>5, <1>9
  <2> QED
    BY <2>1
<1> QED
  BY <1>7, <1>8, <1>9

\* A key has at most two characters.
LEMMA KeysAreShort ==
    ASSUME Built, NEW q, KeyInv(q, key)
    PROVE  key \in [Nodes -> BoundedSeq(Char, 2)]
<1>1. key \in [Nodes -> Seq(Char)] /\ \A n \in Nodes : key[n] = <<>> \/ (Keyed(n) /\ key[n] = word[n])
  BY DEF KeyInv
<1>2. ASSUME NEW n \in Nodes PROVE key[n] \in BoundedSeq(Char, 2)
  <2> DEFINE w == key[n]
  <2>1. w \in Seq(Char) /\ w \in [1 .. Len(w) -> Char] /\ Len(w) \in Nat
    BY <1>1
  <2>2. Len(w) <= 2
    <3>1. CASE w = <<>>
      <4>1. Len(w) = 0
        BY <3>1
      <4> QED
        BY <4>1
    <3>2. CASE w # <<>>
      <4>1. w = word[n] /\ depth[n] \in {1, 2}
        BY <1>1, <3>2 DEF Keyed
      <4>2. depth[n] = Len(word[n])
        BY DEF Built, TreeInv
      <4>3. depth[n] <= 2
        BY <4>1
      <4> HIDE DEF w
      <4>4. Len(word[n]) <= 2
        BY <4>2, <4>3
      <4> QED
        BY <4>1, <4>4
    <3> QED
      BY <3>1, <3>2
  <2> HIDE DEF w
  <2>3. Len(w) \in 0 .. 2
    BY <2>1, <2>2
  <2>4. w \in BoundedSeq(Char, 2)
    BY <2>1, <2>3 DEF BoundedSeq, SeqOf
  <2> QED
    BY <2>4 DEF w
<1> QED
  BY <1>1, <1>2

-----------------------------------------------------------------------------
(* The properties of CompressedMachine.                                    *)

\* A reversed word, and ends by it.
LEMMA ReverseIs ==
    ASSUME NEW C, NEW w \in Seq(C)
    PROVE  /\ Reverse(w) \in Seq(C) /\ Len(Reverse(w)) = Len(w)
           /\ \A i \in 1 .. Len(w) : Reverse(w)[i] = w[Len(w) - i + 1]
  BY DEF Reverse

LEMMA PrefixBegins ==
    ASSUME NEW C, NEW a \in Seq(C), NEW b \in Seq(C)
    PROVE  IsPrefix(a, b) <=> Begins(a, b)
<1>1. ASSUME Len(a) <= Len(b)
      PROVE  SubSeq(a, 1, Len(a)) = SubSeq(b, 1, Len(a)) <=> \A i \in 1 .. Len(a) : a[i] = b[i]
  <2> DEFINE x == SubSeq(a, 1, Len(a))
             y == SubSeq(b, 1, Len(a))
  <2>1. /\ x \in Seq(C) /\ y \in Seq(C) /\ Len(x) = Len(a) /\ Len(y) = Len(a) /\ Len(a) \in Nat
        /\ \A i \in 1 .. Len(a) : x[i] = a[i] /\ y[i] = b[i]
    BY <1>1
  <2> HIDE DEF x, y
  <2>2. x = y <=> \A i \in 1 .. Len(a) : x[i] = y[i]
    BY <2>1
  <2> QED
    BY <2>1, <2>2 DEF x, y
<1> QED
  BY <1>1 DEF IsPrefix, Begins

LEMMA SuffixEnds ==
    ASSUME NEW C, NEW u \in Seq(C), NEW t \in Seq(C)
    PROVE  IsSuffix(u, t) <=> Ends(u, t)
<1> DEFINE a == Reverse(u)
           b == Reverse(t)
<1>1. a \in Seq(C) /\ Len(a) = Len(u) /\ \A i \in 1 .. Len(u) : a[i] = u[Len(u) - i + 1]
  BY ReverseIs
<1>2. b \in Seq(C) /\ Len(b) = Len(t) /\ \A i \in 1 .. Len(t) : b[i] = t[Len(t) - i + 1]
  BY ReverseIs
<1>3. IsSuffix(u, t) <=> IsPrefix(a, b)
  BY DEF IsSuffix
<1> HIDE DEF a, b
<1>4. IsPrefix(a, b) <=> Begins(a, b)
  BY <1>1, <1>2, PrefixBegins
<1>5. Len(u) \in Nat /\ Len(t) \in Nat
  OBVIOUS
<1>6. ASSUME Ends(u, t) PROVE Begins(a, b)
  <2>1. Len(u) <= Len(t) /\ \A i \in 1 .. Len(u) : u[i] = t[Len(t) - Len(u) + i]
    BY <1>6 DEF Ends
  <2>2. ASSUME NEW i \in 1 .. Len(u) PROVE a[i] = b[i]
    <3>1. Len(u) - i + 1 \in 1 .. Len(u) /\ i \in 1 .. Len(t)
      BY <1>5, <2>1
    <3>2. Len(t) - Len(u) + (Len(u) - i + 1) = Len(t) - i + 1
      BY <1>5
    <3>3. u[Len(u) - i + 1] = t[Len(t) - i + 1]
      BY <2>1, <3>1, <3>2
    <3> QED
      BY <1>1, <1>2, <3>1, <3>3
  <2> QED
    BY <1>1, <1>2, <2>1, <2>2 DEF Begins
<1>7. ASSUME Begins(a, b) PROVE Ends(u, t)
  <2>1. Len(u) <= Len(t) /\ \A i \in 1 .. Len(u) : a[i] = b[i]
    BY <1>1, <1>2, <1>7 DEF Begins
  <2>2. ASSUME NEW i \in 1 .. Len(u) PROVE u[i] = t[Len(t) - Len(u) + i]
    <3>1. /\ Len(u) - i + 1 \in 1 .. Len(u) /\ Len(u) - i + 1 \in 1 .. Len(t)
          /\ Len(u) - (Len(u) - i + 1) + 1 = i
          /\ Len(t) - (Len(u) - i + 1) + 1 = Len(t) - Len(u) + i
      BY <1>5, <2>1
    <3> DEFINE j == Len(u) - i + 1
    <3>2. a[j] = b[j] /\ a[j] = u[Len(u) - j + 1] /\ b[j] = t[Len(t) - j + 1]
      BY <1>1, <1>2, <2>1, <3>1
    <3> QED
      BY <3>1, <3>2
  <2> QED
    BY <2>1, <2>2 DEF Ends
<1> QED
  BY <1>3, <1>4, <1>6, <1>7

\* The queue is one of nodes in every phase.
LEMMA PendingIsTyped ==
    ASSUME GenInv, CMInv
    PROVE  pending \in Seq(Nodes)
<1>1. CASE cpc = "tree"
  BY <1>1 DEF GenInv, Nothing
<1>2. CASE cpc = "generate"
  BY <1>2 DEF GenInv, Generated, TreeGen
<1>3. CASE cpc \notin {"tree", "generate"}
  BY <1>3 DEF CMInv, DataIs, QueueIs
<1> QED
  BY <1>1, <1>2, <1>3

\* What a phase says of the ids and the keys.
LEMMA IdsAndKeys ==
    ASSUME GenInv, cpc # "tree", Built
    PROVE  nodeId \in [Nodes -> Int] /\ key \in [Nodes -> BoundedSeq(Char, 2)]
<1>1. \E q : Generated(q)
  BY DEF GenInv
<1>2. PICK q : TreeGen(q, nodeId, nodeTable, nextID) /\ KeyInv(q, key)
  BY <1>1 DEF Generated
<1>3. nodeId \in [Nodes -> Int]
  BY <1>2 DEF TreeGen
<1> QED
  BY <1>2, <1>3, KeysAreShort

\* In the second pass and behind it the numbers are those of Ids.
LEMMA IdsLater ==
    ASSUME GenInv, cpc \notin {"tree", "generate"}, Built
    PROVE  Ids
<1>1. Generated(<<>>)
  BY DEF GenInv
<1> QED
  BY <1>1, IdsAre

\* CompressedMachine.tla's type invariant, as long as the ids have 16 bits: every
\* node has an id and a key of at most two characters, and every state its
\* number, its node and its bytes.
THEOREM CompressedMachineIsTyped == CMSpec => [](IdsFit => CMTypeOK)
<1>1. (cpc # "tree" => Built) /\ GenInv /\ (IdsFit => CMInv) => (IdsFit => CMTypeOK)
  <2> SUFFICES ASSUME cpc # "tree" => Built, GenInv, CMInv, IdsFit PROVE CMTypeOK
    OBVIOUS
  <2>1. /\ cpc \in {"tree", "generate", "data", "ready", "scan", "done", "exit", "crash"}
        /\ maxGotos \in GotoLimits /\ pending \in Seq(Nodes)
    BY PendingIsTyped DEF CMInv, GenInv
  <2>2. /\ DOMAIN states = 0 .. nextID - 1 /\ DOMAIN nodeTable = DOMAIN states
        /\ \A id \in DOMAIN states : Bytes(states[id]) /\ nodeTable[id] \in Nodes
    BY StatesHold
  <2>3. DOMAIN rows \subseteq DOMAIN states
    BY DEF CMInv, Unset, Empty
  <2>4. cpc # "tree" => nodeId \in [Nodes -> Int] /\ key \in [Nodes -> BoundedSeq(Char, 2)]
    BY IdsAndKeys
  <2>5. /\ input \in Texts \cup {<<>>} /\ idx \in 0 .. Len(input) /\ res \in {0, 1}
        /\ s \in {0} \cup DOMAIN states
    BY DEF CMInv, ScanInv
  <2>6. \A id \in DOMAIN states : states[id] \in [DOMAIN states[id] -> Byte]
    BY <2>2 DEF Bytes
  <2>7. \A id \in DOMAIN nodeTable : nodeTable[id] \in Nodes
    BY <2>2
  <2> QED
    BY <2>1, <2>2, <2>3, <2>4, <2>5, <2>6, <2>7 DEF CMTypeOK
<1> QED
  BY <1>1, BuiltAlways, GenInvAlways, CMInvAlways, PTL

\* No error of the construction comes up, neither one the generator looks for nor
\* one it does not, but for a root of at most one goto: collectCompressionStats
\* finds every node compressed right, and no pointer is followed that is not one.
THEOREM ConstructionAlwaysSucceeds == CMSpec => [](IdsFit => ConstructionSucceeds)
<1>1. (cpc # "tree" => Built) /\ GenInv /\ (IdsFit => CMInv) => (IdsFit => ConstructionSucceeds)
  <2> SUFFICES ASSUME cpc # "tree" => Built, GenInv, CMInv, IdsFit PROVE ConstructionSucceeds
    OBVIOUS
  <2>1. cpc # "crash" /\ (cpc = "exit" => ~ RootBranches)
    BY DEF CMInv
  <2>2. ASSUME cpc \notin {"tree", "generate"} PROVE NodesAreCompressedRight
    <3>1. Built
      BY <2>2
    <3>2. Ids
      BY <2>2, <3>1, IdsLater
    <3>3. \A id \in DOMAIN states : getStateID(states[id]) = id
      BY StatesHold
    <3>4. \A id \in DOMAIN states : nodeId[nodeTable[id]] = id
      BY <3>2 DEF Ids
    <3>5. \A n \in Nodes \ {Root} :
             /\ numGotos(n) = 0 => nodeId[n] \in {-1, -2}
             /\ numGotos(n) # 0 => nodeId[n] # -1
             /\ numGotos(n) \notin {0, 1} => nodeId[n] # -2
             /\ nodeId[n] >= 0 => nodeId[n] \in DOMAIN states
      BY <3>1, <3>2, NodesAreRight
    <3> QED
      BY <3>3, <3>4, <3>5 DEF NodesAreCompressedRight
  <2> QED
    BY <2>1, <2>2 DEF ConstructionSucceeds
<1> QED
  BY <1>1, BuiltAlways, GenInvAlways, CMInvAlways, PTL

\* The nodes whose word ends the text read.
LEMMA WordsAtAre ==
    ASSUME Built, ScanInv, NEW n \in Nodes
    PROVE  n \in WordsAt(idx) <=> EndsText(n, SubSeq(input, 1, idx))
<1>1. input \in Seq(Ascii) /\ idx \in 0 .. Len(input)
  BY DEF ScanInv
<1>2. SubSeq(input, 1, idx) \in Seq(Ascii)
  BY <1>1, TextGrows
<1>3. word[n] \in Seq(Ascii)
  BY WordsAreAscii
<1> QED
  BY <1>2, <1>3, SuffixEnds DEF WordsAt, EndsText

\* No look-up key below a root of one goto.
LEMMA NoSecondLevel ==
    ASSUME CMInv, ~ RootBranches
    PROVE  secondLevel = Empty
<1>1. CASE cpc \in {"tree", "generate"}
  BY <1>1 DEF CMInv, Unset
<1>2. CASE cpc \notin {"tree", "generate"}
  <2>1. SecondIs(secondLevel, pending)
    BY <1>2 DEF CMInv, DataIs
  <2>2. \A n \in Nodes : ~ Keyed(n)
    BY DEF Keyed
  <2>3. DOMAIN secondLevel = {}
    BY <2>1, <2>2 DEF SecondIs
  <2>4. secondLevel = [w \in {} |-> secondLevel[w]]
    BY <2>1, <2>3 DEF SecondIs
  <2> QED
    BY <2>4 DEF Empty
<1> QED
  BY <1>1, <1>2

\* The bytes of the states, the look-up tables, the paths and the leaves without
\* a state together behave like the automaton: wherever the scan reads on, its
\* state is the deepest node of the text read that matters.
THEOREM MachineFollowsTheAutomaton == CMSpec => [](IdsFit => FollowsTheAutomaton)
<1>1. (cpc # "tree" => Built) /\ GenInv /\ (IdsFit => CMInv) => (IdsFit => FollowsTheAutomaton)
  <2> SUFFICES ASSUME cpc # "tree" => Built, GenInv, CMInv, IdsFit PROVE FollowsTheAutomaton
    OBVIOUS
  <2>1. ScanInv
    BY DEF CMInv
  <2>2. ASSUME cpc = "scan", idx < Len(input), RootBranches
        PROVE  /\ nodeTable[s] \in WordsAt(idx)
               /\ \A m \in WordsAt(idx) : depth[m] > depth[nodeTable[s]] => input[idx + 1] \notin Chars(m)
    <3>1. Built
      BY <2>2
    <3>2. Follows(nodeTable[s], SubSeq(input, 1, idx), input[idx + 1])
      BY <2>1, <2>2 DEF ScanInv, Stands
    <3>3. nodeTable[s] \in Nodes /\ EndsText(nodeTable[s], SubSeq(input, 1, idx))
      BY <3>2 DEF Follows
    <3>4. nodeTable[s] \in WordsAt(idx)
      BY <2>1, <3>1, <3>3, WordsAtAre
    <3>5. ASSUME NEW m \in WordsAt(idx), depth[m] > depth[nodeTable[s]] PROVE input[idx + 1] \notin Chars(m)
      <4>1. m \in Nodes
        BY DEF WordsAt
      <4>2. EndsText(m, SubSeq(input, 1, idx))
        BY <2>1, <3>1, <4>1, WordsAtAre
      <4> QED
        BY <3>2, <3>5, <4>1, <4>2 DEF Follows
    <3> QED
      BY <3>4, <3>5
  <2>3. ~ RootBranches => s = 0 /\ secondLevel = Empty
    BY <2>1, NoSecondLevel DEF ScanInv
  <2> QED
    BY <2>2, <2>3 DEF FollowsTheAutomaton
<1> QED
  BY <1>1, BuiltAlways, GenInvAlways, CMInvAlways, PTL

\* The loop of matchIterative: every step reads a character or climbs to a state
\* nearer to the root.
THEOREM ScanReadsOrClimbs == CMSpec /\ []IdsFit => ReadsOrClimbs
<1> DEFINE Moves == \/ idx' > idx
                    \/ idx' = idx /\ depth[nodeTable[s']] < depth[nodeTable[s]]
<1>1. /\ IdsFit /\ (IdsFit => CMInv) /\ GenInv /\ (cpc # "tree" => Built) /\ [CMNext]_<<acVars, cmVars>>
      => [cpc = "scan" /\ cpc' = "scan" => Moves]_<<acVars, cmVars>>
  <2> SUFFICES ASSUME IdsFit, CMInv, GenInv, cpc # "tree" => Built, CMNext, cpc = "scan", cpc' = "scan"
               PROVE  Moves
    OBVIOUS
  <2>1. Built /\ Ids
    BY IdsLater
  <2>2. StepInRoot \/ Step
    BY DEF CMNext, CMStep, CMStopped, createStateMachine, BuildTree, GenerateBranch, GeneratePath, SkipLeaf, EndGenerate,
           SetNothing, SetBranch, SetPath, EndData, Match, matchIterative, Return
  <2>3. idx \in Nat
    BY DEF CMInv, ScanInv
  <2>4. CASE StepInRoot
    <3>1. idx' = idx + 1
      BY <2>1, <2>4, RootStepKeeps
    <3> QED
      BY <2>3, <3>1
  <2>5. CASE Step
    BY <2>1, <2>5, StateStepKeeps
  <2> QED
    BY <2>2, <2>4, <2>5
<1> QED
  BY <1>1, BuiltAlways, GenInvAlways, CMInvAlways, PTL DEF CMSpec, ReadsOrClimbs

-----------------------------------------------------------------------------
(* What the scan reports, of every execution.                              *)

\* The last step has reported what it read, and the scan what there was so far.
SeenInv ==
    /\ cpc \notin {"scan", "done"} => last = NoStep
    /\ cpc = "scan" /\ RootBranches =>
          /\ last.from \in Nat /\ Seen(last.match, input, last.from + 1, idx)
          /\ Seen(res, input, 1, idx)
    /\ cpc = "done" /\ RootBranches => Seen(res, input, 1, Len(input))

\* The automaton stays, and with it what was to report.
LEMMA SeenStays ==
    ASSUME UNCHANGED acVars
    PROVE  \A b, str, from, to : Seen(b, str, from, to)' = Seen(b, str, from, to)
<1>1. Nodes' = Nodes /\ word' = word /\ depth' = depth /\ match' = match
  BY TreeStays DEF acVars, treeVars, matchVars
<1>2. \A n, t : Deep(n, t)' = Deep(n, t) /\ EndsText(n, t)' = EndsText(n, t)
  BY <1>1 DEF Deep, EndsText
<1> QED
  BY <1>1, <1>2 DEF Seen, Marked, Meant

\* A step of the scan by what it reports: m, from idx + 1 on.
Notices(m) ==
    /\ cpc = "scan" /\ cpc' = "scan" /\ UNCHANGED acVars /\ UNCHANGED input
    /\ last'.from = idx /\ last'.match = m /\ res' = IF m = 1 THEN 1 ELSE res
    /\ RootBranches => idx' \in idx .. Len(input) /\ Seen(m, input, idx + 1, idx')
LEMMA ReportKeeps ==
    ASSUME SeenInv, CMInv, NEW m, Notices(m)
    PROVE  SeenInv'
<1>1. /\ cpc = "scan" /\ cpc' = "scan" /\ UNCHANGED acVars /\ input' = input
      /\ last'.from = idx /\ last'.match = m /\ res' = IF m = 1 THEN 1 ELSE res
  BY DEF Notices
<1>2. RootBranches' = RootBranches
  BY <1>1, TreeStays
<1>3. idx \in Nat /\ Len(input) \in Nat
  BY WordFacts DEF CMInv, ScanInv
<1>4. ASSUME RootBranches
      PROVE  Seen(m, input, idx + 1, idx') /\ Seen(res', input, 1, idx')
  <2>1. idx' \in idx .. Len(input) /\ Seen(m, input, idx + 1, idx') /\ Seen(res, input, 1, idx)
    BY <1>1, <1>4 DEF Notices, SeenInv
  <2>2. idx' \in Nat /\ idx <= idx' /\ 1 <= idx + 1 /\ 1 \in Nat
    BY <1>3, <2>1
  <2> DEFINE to == idx'
             c == res'
  <2>3. Seen(m, input, idx + 1, to) /\ to \in Nat /\ idx <= to /\ c = IF m = 1 THEN 1 ELSE res
    BY <1>1, <2>1, <2>2
  <2> HIDE DEF to, c
  <2>4. Seen(c, input, 1, to)
    BY <1>3, <2>1, <2>2, <2>3, SeenJoins
  <2> QED
    BY <2>1, <2>4 DEF to, c
<1>5. \A b, str, from, to : Seen(b, str, from, to)' = Seen(b, str, from, to)
  BY <1>1, SeenStays
<1>6. RootBranches => Seen(last.match, input, last.from + 1, idx)' /\ Seen(res, input, 1, idx)'
  BY <1>1, <1>4, <1>5
<1> QED
  BY <1>1, <1>2, <1>3, <1>6 DEF SeenInv

LEMMA RootStepReports ==
    ASSUME CMInv, Built, Ids, IdsFit, Anchored, StepInRoot
    PROVE  Notices(0)
<1>1. /\ cpc = "scan" /\ idx < Len(input) /\ s = 0 /\ idx' = idx + 1 /\ res' = res /\ cpc' = cpc /\ input' = input
      /\ UNCHANGED acVars /\ last' = [NoStep EXCEPT !.from = idx]
  BY DEF StepInRoot
<1>2. last'.from = idx /\ last'.match = 0
  BY <1>1 DEF NoStep
<1>3. input \in Seq(Ascii) /\ idx \in 0 .. Len(input) /\ Len(input) \in Nat
  BY WordFacts DEF CMInv, ScanInv
<1>4. ASSUME RootBranches PROVE Seen(0, input, idx + 1, idx + 1)
  <2>1. Stands(Root, idx, input)
    BY <1>1, <1>4, RootHasState DEF CMInv, ScanInv
  <2> QED
    BY <1>1, <1>3, <2>1, RootSees
<1>5. idx' \in idx .. Len(input)
  BY <1>1, <1>3
<1> QED
  BY <1>1, <1>2, <1>4, <1>5 DEF Notices

LEMMA StateStepReports ==
    ASSUME CMInv, Built, Ids, Anchored, Step
    PROVE  Notices(last'.match)
<1> DEFINE r == NextStateOf(states[s], input, idx, firstLevel, secondLevel)
           n == nodeTable[s]
<1>1. /\ cpc = "scan" /\ idx < Len(input) /\ s # 0 /\ UNCHANGED acVars
      /\ r.next \notin DOMAIN states => cpc' = "crash"
      /\ r.next \in DOMAIN states =>
            /\ idx' = r.idx /\ res' = (IF r.match = 1 THEN 1 ELSE res) /\ input' = input
            /\ last' = [from |-> idx, state |-> s, match |-> r.match, rows |-> r.rows]
  BY DEF Step, Stop
<1>2. s \in DOMAIN states /\ RootBranches /\ input \in Seq(Ascii) /\ idx \in 0 .. Len(input) /\ Stands(n, idx, input)
  BY <1>1 DEF CMInv, ScanInv
<1>3. Finished
  BY <1>1 DEF CMInv, Finished
<1>4. r = NextStateOf(states[s], input, idx, firstLevel, secondLevel) /\ n = nodeTable[s]
  OBVIOUS
<1> HIDE DEF r, n
<1>5. StepIsSeen(r, input, idx)
  BY <1>1, <1>2, <1>3, <1>4, StateSees
<1>6. cpc' = "scan"
  BY <1>1, StateStepKeeps DEF Scanned
<1>7. r.next \in DOMAIN states
  BY <1>1, <1>6
<1>8. idx' = r.idx /\ input' = input /\ last'.from = idx /\ last'.match = r.match /\ res' = IF r.match = 1 THEN 1 ELSE res
  BY <1>1, <1>7
<1> QED
  BY <1>1, <1>5, <1>6, <1>8 DEF Notices, StepIsSeen

LEMMA SeenInvKept ==
    ASSUME SeenInv, CMInv, GenInv, Anchored, cpc # "tree" => Built, IdsFit, [CMNext]_<<acVars, cmVars>>
    PROVE  SeenInv'
<1>1. CASE BuildTree \/ GenerateBranch \/ GeneratePath \/ SkipLeaf \/ EndGenerate \/ EndData
  <2>1. cpc \notin {"scan", "done"} /\ cpc' \notin {"scan", "done"} /\ last' = last
    BY <1>1 DEF BuildTree, GenerateBranch, GeneratePath, SkipLeaf, EndGenerate, EndData, cmVars, scanVars
  <2> QED
    BY <2>1 DEF SeenInv, NoStep
<1>2. CASE SetNothing \/ SetBranch \/ SetPath
  <2>1. cpc = "data" /\ last' = last /\ cpc' \in {"data", "exit", "crash"}
    BY <1>2 DEF SetNothing, SetBranch, SetPath, Stop, scanVars
  <2> QED
    BY <2>1 DEF SeenInv, NoStep
<1>3. CASE StepInRoot \/ Step
  <2>1. cpc = "scan"
    BY <1>3 DEF StepInRoot, Step
  <2>2. Built /\ Ids
    BY <2>1, IdsLater
  <2>3. \E m : Notices(m)
    BY <1>3, <2>2, RootStepReports, StateStepReports
  <2> QED
    BY <2>3, ReportKeeps
<1>4. CASE Match
  <2>1. /\ cpc = "ready" /\ cpc' = "scan" /\ idx' = 0 /\ res' = 0 /\ last' = last /\ UNCHANGED acVars
    BY <1>4 DEF Match
  <2>2. last' = NoStep
    BY <2>1 DEF SeenInv
  <2>3. last'.from = 0 /\ last'.match = 0
    BY <2>2 DEF NoStep
  <2>4. Seen(0, input', 1, 0)
    <3> DEFINE str == input'
    <3> HIDE DEF str
    <3>1. 0 \in Nat /\ 0 + 1 = 1
      OBVIOUS
    <3>2. Seen(0, str, 0 + 1, 0)
      BY <3>1, NoneIsSeen
    <3> QED
      BY <3>1, <3>2 DEF str
  <2>5. \A b, str, from, to : Seen(b, str, from, to)' = Seen(b, str, from, to)
    BY <2>1, SeenStays
  <2>6. Seen(last.match, input, last.from + 1, idx)' /\ Seen(res, input, 1, idx)'
    BY <2>1, <2>3, <2>4, <2>5
  <2> QED
    BY <2>1, <2>3, <2>6 DEF SeenInv
<1>5. CASE Return
  <2>1. cpc = "scan" /\ cpc' = "done" /\ idx >= Len(input) /\ UNCHANGED acVars /\ input' = input /\ res' = res
    BY <1>5 DEF Return, scanVars
  <2>2. idx = Len(input)
    BY <2>1, WordFacts DEF CMInv, ScanInv
  <2>3. RootBranches' = RootBranches /\ \A b, str, from, to : Seen(b, str, from, to)' = Seen(b, str, from, to)
    BY <2>1, TreeStays, SeenStays
  <2>4. RootBranches => Seen(res, input, 1, Len(input))'
    BY <2>1, <2>2, <2>3 DEF SeenInv
  <2> QED
    BY <2>1, <2>3, <2>4 DEF SeenInv
<1>6. CASE UNCHANGED <<acVars, cmVars>> \/ CMStopped
  <2>1. UNCHANGED acVars /\ UNCHANGED <<cpc, input, idx, res, last>>
    BY <1>6 DEF CMStopped, cmVars, scanVars
  <2>2. RootBranches' = RootBranches /\ \A b, str, from, to : Seen(b, str, from, to)' = Seen(b, str, from, to)
    BY <2>1, TreeStays, SeenStays
  <2> QED
    BY <2>1, <2>2 DEF SeenInv, NoStep
<1> QED
  BY <1>1, <1>2, <1>3, <1>4, <1>5, <1>6 DEF CMNext, CMStep, createStateMachine, matchIterative

LEMMA SeenInvAlways == CMSpec => [](IdsFit => SeenInv)
<1>1. CMInit => SeenInv
  BY DEF CMInit, SeenInv
<1>2. /\ IdsFit => SeenInv
      /\ IdsFit => CMInv
      /\ GenInv /\ Anchored /\ (cpc # "tree" => Built) /\ [CMNext]_<<acVars, cmVars>>
      => (IdsFit => SeenInv)'
  <2> SUFFICES ASSUME IdsFit => SeenInv, IdsFit => CMInv, GenInv, Anchored, cpc # "tree" => Built,
                      [CMNext]_<<acVars, cmVars>>, IdsFit'
               PROVE  SeenInv'
    OBVIOUS
  <2>1. IdsFit
    BY IdsFitBefore
  <2> QED
    BY <2>1, SeenInvKept
<1> QED
  BY <1>1, <1>2, BuiltAlways, AnchoredAlways, GenInvAlways, CMInvAlways, PTL DEF CMSpec

\* The deepest node of the text is the one of Deep; anchors end where nodes match.
LEMMA DeepestIs ==
    ASSUME Built, ScanInv, NEW p \in 0 .. Len(input), NEW x \in Nodes, Deep(x, SubSeq(input, 1, p))
    PROVE  Deepest(p) = x
<1> DEFINE t == SubSeq(input, 1, p)
<1>1. input \in Seq(Ascii)
  BY DEF ScanInv
<1>2. t \in Seq(Ascii)
  BY <1>1, TextGrows
<1>3. \A n \in Nodes : word[n] \in Seq(Ascii) /\ depth[n] = Len(word[n]) /\ depth[n] \in Nat
  BY WordsAreAscii
<1>4. \A n : n \in WordsAt(p) <=> n \in Nodes /\ EndsText(n, t)
  BY <1>2, <1>3, SuffixEnds DEF WordsAt, EndsText
<1> HIDE DEF t
<1>5. Deep(x, t)
  BY DEF t
<1>6. x \in WordsAt(p) /\ \A m \in WordsAt(p) : depth[m] <= depth[x]
  BY <1>4, <1>5 DEF Deep
<1>7. ASSUME NEW y \in WordsAt(p), \A m \in WordsAt(p) : depth[m] <= depth[y] PROVE y = x
  <2>1. y \in Nodes /\ EndsText(y, t) /\ EndsText(x, t)
    BY <1>4, <1>6
  <2>2. depth[y] = depth[x]
    BY <1>3, <1>6, <1>7, <2>1
  <2>3. word[y] = word[x]
    BY <1>2, <1>3, <2>1, <2>2, EndsOrder DEF EndsText
  <2> QED
    BY <2>1, <2>3 DEF Built, TreeInv
<1> QED
  BY <1>6, <1>7 DEF Deepest

LEMMA AnchorIsThere ==
    ASSUME Built, Anchored, ScanInv, NEW p \in 0 .. Len(input), NEW y \in Nodes, match[y],
           EndsText(y, SubSeq(input, 1, p))
    PROVE  AnchorEndsAt(p)
<1> DEFINE t == SubSeq(input, 1, p)
<1>1. input \in Seq(Ascii)
  BY DEF ScanInv
<1>2. t \in Seq(Ascii) /\ EndsText(y, t)
  BY <1>1, TextGrows
<1> HIDE DEF t
<1>3. PICK e : AnchorOf(y, e)
  BY DEF Anchored
<1>4. e \in DOMAIN anchors /\ anchors[e] # <<>> /\ anchors[e] \in Seq(Char) /\ Ends(anchors[e], word[y])
  BY <1>3 DEF AnchorOf
<1>5. anchors[e] \in Seq(Ascii) /\ word[y] \in Seq(Ascii)
  BY <1>4, WordsAreAscii, WordFacts
<1>6. Ends(anchors[e], t)
  BY <1>2, <1>4, <1>5, EndsOrder DEF EndsText
<1>7. IsSuffix(anchors[e], t)
  BY <1>2, <1>5, <1>6, SuffixEnds
<1> QED
  BY <1>4, <1>7 DEF AnchorEndsAt, t

\* What was seen is right.
LEMMA SeenIsRight ==
    ASSUME Built, Anchored, ScanInv, NEW b, NEW from \in Nat, NEW to, to \in 0 .. Len(input), Seen(b, input, from, to)
    PROVE  /\ (\E p \in from .. to : match[Deepest(p)]) => b = 1
           /\ b = 1 => \E p \in from .. to : AnchorEndsAt(p)
<1>1. \A p \in from .. to : p \in 0 .. Len(input)
  OBVIOUS
<1>2. ASSUME NEW p \in from .. to, match[Deepest(p)] PROVE b = 1
  <2>1. PICK x \in Nodes : Deep(x, SubSeq(input, 1, p)) /\ (match[x] => b = 1)
    BY DEF Seen, Marked
  <2>2. Deepest(p) = x
    BY <1>1, <2>1, DeepestIs
  <2> QED
    BY <1>2, <2>1, <2>2
<1>3. ASSUME b = 1 PROVE \E p \in from .. to : AnchorEndsAt(p)
  <2>1. PICK p \in from .. to : \E y \in Nodes : match[y] /\ EndsText(y, SubSeq(input, 1, p))
    BY <1>3 DEF Seen, Meant
  <2> QED
    BY <1>1, <2>1, AnchorIsThere
<1> QED
  BY <1>2, <1>3

\* A step, and the scan, report a match where the automaton has one, and only
\* where an anchor ends.
THEOREM MachineMatchesLikeTheAutomaton == CMSpec => [](IdsFit => MatchesLikeTheAutomaton)
<1>1. (cpc # "tree" => Built) /\ Anchored /\ (IdsFit => CMInv) /\ (IdsFit => SeenInv)
      => (IdsFit => MatchesLikeTheAutomaton)
  <2> SUFFICES ASSUME cpc # "tree" => Built, Anchored, CMInv, SeenInv, RootBranches
               PROVE  MatchesLikeTheAutomaton
    BY DEF MatchesLikeTheAutomaton
  <2> DEFINE Right(reported, from, to) ==
               /\ (\E p \in from .. to : match[Deepest(p)]) => reported = 1
               /\ reported = 1 => \E p \in from .. to : AnchorEndsAt(p)
  <2>1. ScanInv /\ idx \in 0 .. Len(input) /\ Len(input) \in 0 .. Len(input)
    BY WordFacts DEF CMInv, ScanInv
  <2>2. ASSUME cpc = "scan" PROVE Right(last.match, last.from + 1, idx)
    <3>1. Built /\ last.from + 1 \in Nat /\ Seen(last.match, input, last.from + 1, idx)
      BY <2>2 DEF SeenInv
    <3> QED
      BY <2>1, <3>1, SeenIsRight
  <2>3. ASSUME cpc = "done" PROVE Right(res, 1, Len(input))
    <3>1. Built /\ 1 \in Nat /\ Seen(res, input, 1, Len(input))
      BY <2>3 DEF SeenInv
    <3> QED
      BY <2>1, <3>1, SeenIsRight
  <2> QED
    BY <2>2, <2>3 DEF MatchesLikeTheAutomaton
<1> QED
  BY <1>1, BuiltAlways, AnchoredAlways, CMInvAlways, SeenInvAlways, PTL
=============================================================================
