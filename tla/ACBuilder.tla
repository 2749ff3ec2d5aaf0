------------------------------ MODULE ACBuilder ------------------------------
(***************************************************************************)
(* Construction of the Aho-Corasick automaton (AhoCorasick/ACBuilder.c):   *)
(* acBuildTreeASCII enters the anchors one after the other, constructs the *)
(* failure pointers breadth first, and then avoidFailToAcceptingStates     *)
(* walks the tree depth first, lets every node inherit the matches of its  *)
(* failure node and makes failure pointers skip the matching leaves.       *)
(*                                                                         *)
(* A step of this module is one iteration of one of those loops.  A node   *)
(* is its id, 0 is the root.  The children of a node are created in the    *)
(* order of their ids and the hash map of its gotos is iterated in         *)
(* insertion order, hence in id order.  An anchor (its string and its      *)
(* Huffman code) is its index in anchorsArr: patterns[k], huffman[k] and   *)
(* their lengths are one slot holding that index.                          *)
(***************************************************************************)
EXTENDS Integers, Sequences, SequencesExt, FiniteSetsExt

CONSTANTS
    Char,        \* the characters of the anchors
    Strings,     \* the strings an entry of anchorsArr may have
    MaxAnchors,  \* bound on the number of entries of anchorsArr
    MaxSlots,    \* length of Node.patterns and Node.huffman (20 in ACTypes.h)
    FreshCounts  \* what malloc may leave in the numMatches of a new node

ASSUME ACAssumption ==
    /\ Char # {} /\ IsFiniteSet(Char)
    /\ Strings \subseteq Seq(Char)
    /\ MaxAnchors \in Nat
    /\ MaxSlots \in Nat \ {0}
    /\ FreshCounts \subseteq Int

Root   == 0
NoNode == -1     \* a NULL Node*
NoSlot == 0      \* a slot that was never written, or a NULL message

VARIABLES
    anchors,      \* anchorsArr, the argument
    pc,           \* the loop the builder is in
    entry, pos,         \* anchor and character being entered
    cur,          \* "state" of enter and of constructFailures
    size,         \* tree->size
    gotos,        \* Node.gotos
    depth,        \* Node.depth
    match,        \* Node.match
    message,      \* Node.message: the anchor that ends at the node itself
    numMatches,   \* Node.numMatches
    slots,        \* Node.patterns, Node.huffman
    failure,      \* Node.failure
    hasFailInto,  \* Node.hasFailInto
    queue,        \* the NodeQueue of constructFailures
    parent, todo, char,   \* its node r, the characters left to iterate, pair->c
    stack,        \* nodes avoidFailToAcceptingStatesRecursive has to visit
    word          \* auxiliary: the string that leads from the root to a node

treeVars  == <<size, gotos, depth, word>>
matchVars == <<match, message, numMatches, slots>>
failVars  == <<failure, hasFailInto>>
bfsVars   == <<queue, parent, todo, char>>
acVars    == <<anchors, pc, entry, pos, cur, treeVars, matchVars, failVars, bfsVars,
               stack>>

Nodes == 0 .. size - 1

-----------------------------------------------------------------------------
(* Reading the tree.                                                       *)

acGetNextNode(n, c) == gotos[n][c]

Chars(n)    == {c \in Char : gotos[n][c] # NoNode}
numGotos(n) == Cardinality(Chars(n))
IsLeaf(n)   == Chars(n) = {}

\* The iteration order of Node.gotos.
CharsInOrder(n) ==
    CHOOSE s \in [1 .. numGotos(n) -> Chars(n)] :
        /\ Range(s) = Chars(n)
        /\ \A i, j \in DOMAIN s : i < j => gotos[n][s[i]] < gotos[n][s[j]]
ChildrenInOrder(n) ==
    [k \in 1 .. numGotos(n) |-> gotos[n][CharsInOrder(n)[k]]]

-----------------------------------------------------------------------------
(* acBuildTreeASCII and enter.                                             *)

EmptySlots == [k \in 0 .. MaxSlots - 1 |-> NoSlot]

ACInit ==
    /\ anchors \in BoundedSeq(Strings, MaxAnchors)
    /\ pc = "enter" /\ entry = 1 /\ pos = 0 /\ cur = Root
    /\ size = 1
    /\ gotos = [n \in {Root} |-> [c \in Char |-> NoNode]]
    /\ depth = [n \in {Root} |-> 0]
    /\ word = [n \in {Root} |-> <<>>]
    /\ match = [n \in {Root} |-> FALSE]
    /\ message = [n \in {Root} |-> NoSlot]
    /\ numMatches \in [{Root} -> FreshCounts]
    /\ slots = [n \in {Root} |-> EmptySlots]
    /\ failure = [n \in {Root} |-> NoNode]
    /\ hasFailInto = [n \in {Root} |-> 0]
    /\ queue = <<>> /\ parent = Root /\ todo = <<>>
    /\ char = CHOOSE c \in Char : TRUE
    /\ stack = <<>>

\* The loop over anchorsArr stops at the first entry of length 0.
Entering == pc = "enter" /\ entry <= Len(anchors) /\ anchors[entry] # <<>>

\* f with the node createNewNode adds.
Extended(f, v) == [n \in 0 .. size |-> IF n = size THEN v ELSE f[n]]

\* enter follows the nodes that are there ...
Walk ==
    /\ Entering /\ pos < Len(anchors[entry])
    /\ acGetNextNode(cur, anchors[entry][pos + 1]) # NoNode
    /\ cur' = acGetNextNode(cur, anchors[entry][pos + 1])
    /\ pos' = pos + 1
    /\ UNCHANGED <<anchors, pc, entry, treeVars, matchVars, failVars, bfsVars,
                   stack>>

\* ... and creates the missing ones.  createNewNode sets every field but
\* numMatches, patterns and huffman.
createNewNode ==
    LET c == anchors[entry][pos + 1] IN
    /\ Entering /\ pos < Len(anchors[entry])
    /\ acGetNextNode(cur, c) = NoNode
    /\ size' = size + 1
    /\ gotos' = Extended([gotos EXCEPT ![cur][c] = size],
                         [d \in Char |-> NoNode])
    /\ depth' = Extended(depth, depth[cur] + 1)
    /\ word' = Extended(word, Append(word[cur], c))
    /\ match' = Extended(match, FALSE)
    /\ message' = Extended(message, NoSlot)
    /\ \E garbage \in FreshCounts : numMatches' = Extended(numMatches, garbage)
    /\ slots' = Extended(slots, EmptySlots)
    /\ failure' = Extended(failure, NoNode)
    /\ hasFailInto' = Extended(hasFailInto, 0)
    /\ cur' = size
    /\ pos' = pos + 1
    /\ UNCHANGED <<anchors, pc, entry, bfsVars, stack>>

\* The anchor of a node goes to its first slot.
NextSlot(n) == numMatches[n]    \* mutant: it is appended
OwnSlot(n)  == 0

\* The node of the anchor becomes a match; a second anchor with the same
\* string takes the place of the first.
SetMatch ==
    /\ Entering /\ pos = Len(anchors[entry])
    /\ match' = [match EXCEPT ![cur] = TRUE]
    /\ message' = [message EXCEPT ![cur] = entry]
    /\ numMatches' = [numMatches EXCEPT ![cur] = 1]
    /\ slots' = [slots EXCEPT ![cur][OwnSlot(cur)] = entry]
    /\ entry' = entry + 1 /\ pos' = 0 /\ cur' = Root
    /\ UNCHANGED <<anchors, pc, treeVars, failVars, bfsVars, stack>>

enter == Walk \/ createNewNode \/ SetMatch

-----------------------------------------------------------------------------
(* constructFailures.                                                      *)

StartFailures ==
    /\ pc = "enter" /\ ~ Entering
    /\ failure' = [n \in Nodes |->
                     IF n = Root \/ \E c \in Char : gotos[Root][c] = n
                     THEN Root ELSE failure[n]]
    /\ queue' = ChildrenInOrder(Root)
    /\ pc' = "dequeue"
    /\ UNCHANGED <<anchors, entry, pos, cur, treeVars, matchVars, hasFailInto,
                   parent, todo, char, stack>>

Dequeue ==
    /\ pc = "dequeue" /\ queue # <<>>
    /\ parent' = Head(queue) /\ queue' = Tail(queue)
    /\ todo' = CharsInOrder(Head(queue))
    /\ pc' = "child"
    /\ UNCHANGED <<anchors, entry, pos, cur, treeVars, matchVars, failVars, char,
                   stack>>

\* The search for the failure node of a child s of r starts at r->failure, and
\* ends at the root or where there is a goto for the character of s.
SearchStart   == failure[parent]
GotoFound     == acGetNextNode(cur, char) # NoNode   \* mutant: not at the root
SearchOver    == cur = Root \/ acGetNextNode(cur, char) # NoNode
GotoUnchecked == acGetNextNode(cur, char)            \* mutant: NULL is not tested
SearchedNode  == cur                                 \* mutant: without the last goto
FailureFound  == IF acGetNextNode(cur, char) = NoNode THEN Root
                 ELSE acGetNextNode(cur, char)

\* The next child is enqueued and its search begun.
NextChild ==
    /\ pc = "child" /\ todo # <<>>
    /\ char' = Head(todo) /\ todo' = Tail(todo)
    /\ queue' = Append(queue, acGetNextNode(parent, Head(todo)))
    /\ cur' = SearchStart
    /\ pc' = "climb"
    /\ UNCHANGED <<anchors, entry, pos, treeVars, matchVars, failVars, parent, stack>>

Climb ==
    /\ pc = "climb" /\ ~ SearchOver
    /\ cur' = failure[cur]
    /\ UNCHANGED <<anchors, pc, entry, pos, treeVars, matchVars, failVars, bfsVars,
                   stack>>

SetFailure ==
    /\ pc = "climb" /\ SearchOver
    /\ failure' = [failure EXCEPT ![acGetNextNode(parent, char)] = FailureFound]
    /\ hasFailInto' = [hasFailInto EXCEPT ![FailureFound] = @ + 1]
    /\ pc' = "child"
    /\ UNCHANGED <<anchors, entry, pos, cur, treeVars, matchVars, bfsVars, stack>>

EndChildren ==
    /\ pc = "child" /\ todo = <<>>
    /\ pc' = "dequeue"
    /\ UNCHANGED <<anchors, entry, pos, cur, treeVars, matchVars, failVars, bfsVars,
                   stack>>

EndFailures ==
    /\ pc = "dequeue" /\ queue = <<>>
    /\ pc' = "avoid"
    /\ stack' = <<Root>>
    /\ UNCHANGED <<anchors, entry, pos, cur, treeVars, matchVars, failVars, bfsVars>>

constructFailures ==
    \/ StartFailures \/ Dequeue \/ NextChild \/ Climb \/ SetFailure
    \/ EndChildren \/ EndFailures

-----------------------------------------------------------------------------
(* avoidFailToAcceptingStatesRecursive, its recursion as a stack.          *)

\* Copying the slots of f behind those of n stays inside the arrays and
\* reads only pointers that were written.
CanCopy(n, f) ==
    \A k \in 0 .. numMatches[f] - 1 :
        /\ k < MaxSlots /\ slots[f][k] # NoSlot
        /\ numMatches[n] + k \in 0 .. MaxSlots - 1

\* The slots of n after the copy.
SlotsReplaced(n, f) ==          \* mutant: copied over those of n
    [k \in 0 .. MaxSlots - 1 |-> IF k < numMatches[f] THEN slots[f][k] ELSE slots[n][k]]
SlotsButOne(n, f) ==            \* mutant: the loop ends one slot early
    [k \in 0 .. MaxSlots - 1 |->
        IF k \in numMatches[n] .. numMatches[n] + numMatches[f] - 2
        THEN slots[f][k - numMatches[n]] ELSE slots[n][k]]
SlotsAppended(n, f) ==
    [k \in 0 .. MaxSlots - 1 |->
        IF k \in numMatches[n] .. numMatches[n] + numMatches[f] - 1
        THEN slots[f][k - numMatches[n]] ELSE slots[n][k]]

Skipped(f)       == IsLeaf(f)
KeptCount(k)     == k           \* mutant: hasFailInto is left as it is
ReleasedCount(k) == IF k > 0 THEN k - 1 ELSE k

\* One iteration of the while loop.  A matching leaf is skipped and the loop
\* goes on with its failure node, any other failure node ends the loop.
Inherit ==
    LET n == Head(stack)
        f == failure[n]
    IN /\ pc = "avoid" /\ stack # <<>>
       /\ match[f] /\ CanCopy(n, f)
       /\ match' = [match EXCEPT ![n] = TRUE]
       /\ slots' = [slots EXCEPT ![n] = SlotsAppended(n, f)]
       /\ numMatches' = [numMatches EXCEPT
                           ![n] = @ + IF numMatches[f] > 0 THEN numMatches[f] ELSE 0]
       /\ IF Skipped(f)
          THEN /\ hasFailInto' = [hasFailInto EXCEPT ![f] = ReleasedCount(@)]
               /\ failure' = [failure EXCEPT ![n] = failure[f]]
               /\ UNCHANGED pc
          ELSE pc' = "descend" /\ UNCHANGED failVars
       /\ UNCHANGED <<anchors, entry, pos, cur, treeVars, message, bfsVars, stack>>

\* Undefined behaviour: a write outside the arrays of n, or a copy of a
\* pointer nobody wrote.  What the process does then is not modelled.
Fault ==
    /\ pc = "avoid" /\ stack # <<>>
    /\ match[failure[Head(stack)]]
    /\ ~ CanCopy(Head(stack), failure[Head(stack)])
    /\ pc' = "fault"
    /\ UNCHANGED <<anchors, entry, pos, cur, treeVars, matchVars, failVars, bfsVars,
                   stack>>

\* The loop is over: visit the children, in their order, before what is left.
Descend ==
    /\ stack # <<>>
    /\ pc = "descend" \/ (pc = "avoid" /\ ~ match[failure[Head(stack)]])
    /\ stack' = ChildrenInOrder(Head(stack)) \o Tail(stack)
    /\ pc' = "avoid"
    /\ UNCHANGED <<anchors, entry, pos, cur, treeVars, matchVars, failVars, bfsVars>>

EndBuild ==
    /\ pc = "avoid" /\ stack = <<>>
    /\ pc' = "built"
    /\ UNCHANGED <<anchors, entry, pos, cur, treeVars, matchVars, failVars, bfsVars,
                   stack>>

avoidFailToAcceptingStates == Inherit \/ Fault \/ Descend \/ EndBuild

-----------------------------------------------------------------------------
BuildStep == enter \/ constructFailures \/ avoidFailToAcceptingStates

\* The builder has returned, or its behaviour is undefined.
Stopped == pc \in {"built", "fault"} /\ UNCHANGED acVars

ACNext == BuildStep \/ Stopped

ACSpec == ACInit /\ [][ACNext]_acVars

\* The builder is one thread that nothing blocks.
ACFairSpec == ACSpec /\ WF_acVars(BuildStep)
-----------------------------------------------------------------------------
(* Properties.                                                             *)

\* Every variable has its type: node fields are defined for the nodes that
\* exist, gotos and failure pointers lead to such nodes.
ACTypeOK ==
    /\ anchors \in Seq(Strings)
    /\ pc \in {"enter", "dequeue", "child", "climb", "avoid", "descend",
               "built", "fault"}
    /\ entry \in Nat \ {0} /\ pos \in Nat
    /\ size \in Nat \ {0}
    /\ cur \in Nodes /\ parent \in Nodes
    /\ gotos \in [Nodes -> [Char -> Nodes \cup {NoNode}]]
    /\ depth \in [Nodes -> Nat]
    /\ word \in [Nodes -> Seq(Char)]
    /\ match \in [Nodes -> BOOLEAN]
    /\ message \in [Nodes -> Nat]
    /\ numMatches \in [Nodes -> Int]
    /\ slots \in [Nodes -> [0 .. MaxSlots - 1 -> Nat]]
    /\ failure \in [Nodes -> Nodes \cup {NoNode}]
    /\ hasFailInto \in [Nodes -> Nat]
    /\ queue \in Seq(Nodes) /\ stack \in Seq(Nodes)
    /\ todo \in Seq(Char) /\ char \in Char

\* The nodes whose word is a proper suffix of the word of n.
ProperSuffixes(w) == {SubSeq(w, k, Len(w)) : k \in 2 .. Len(w) + 1}
SuffixNodes(n)    == {m \in Nodes : word[m] \in ProperSuffixes(word[n])}
LongestSuffix(n)  ==
    CHOOSE m \in SuffixNodes(n) : \A k \in SuffixNodes(n) : depth[k] <= depth[m]

Slots(n) == {slots[n][k] : k \in 0 .. numMatches[n] - 1}

\* constructFailures links a node to its longest proper suffix in the tree.
\* avoidFailToAcceptingStates may move the pointer to a shorter suffix, but
\* every node it skips on the way is a matching leaf.
FailureIsLongestSuffix ==
    \A n \in Nodes \ {Root} : failure[n] # NoNode =>
        /\ failure[n] \in SuffixNodes(n)
        /\ \A m \in SuffixNodes(n) : depth[m] > depth[failure[n]] =>
              pc \in {"avoid", "descend", "built", "fault"} /\ IsLeaf(m) /\ match[m]

\* ACTypes.h says of hasFailInto "TRUE if some other node fails into this
\* node".  The counter is not maintained exactly, but in the finished tree its
\* truth value is right for every node but the root.
HasFailIntoIsRight ==
    pc = "built" =>
        \A n \in Nodes \ {Root} :
            hasFailInto[n] > 0 <=> \E m \in Nodes : failure[m] = n

\* What a matching node reports ends there: the slots of a node are anchors
\* whose strings are suffixes of its word, and none is longer than the first,
\* the one the table machine takes (patterns[0]).
ReportsAreSuffixes ==
    pc # "fault" => \A n \in Nodes : match[n] =>
        /\ numMatches[n] > 0
        /\ \A k \in Slots(n) :
              /\ k # NoSlot
              /\ anchors[k] \in ProperSuffixes(word[n]) \cup {word[n]}
              /\ Len(anchors[k]) <= Len(anchors[slots[n][0]])

\* The longest anchor is not missed where it ends at the node itself or at its
\* longest proper suffix: the finished node reports it.  (An anchor further up
\* the chain can be missed, see README.)
LongestAnchorIsReported ==
    pc = "built" => \A n \in Nodes \ {Root} :
        \A m \in {n, LongestSuffix(n)} :
            message[m] # NoSlot => match[n] /\ message[m] \in Slots(n)

\* Whatever malloc leaves in the fields createNewNode does not set, a node
\* where an anchor ends keeps that anchor in its first slot.
OwnAnchorComesFirst ==
    \A n \in Nodes : message[n] # NoSlot =>
        match[n] /\ slots[n][0] = message[n] /\ word[n] = anchors[message[n]]

\* The loops over failure pointers, whose bounds no counter gives, all end, and
\* so does the construction, whatever is in the fields left uninitialised.
BuildEnds == <>(pc \in {"built", "fault"})
=============================================================================
