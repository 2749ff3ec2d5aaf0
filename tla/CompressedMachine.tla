-------------------------- MODULE CompressedMachine ---------------------------
(***************************************************************************)
(* The compressed machine (StateMachine/StateMachineGenerator.c and        *)
(* StateMachine.c): createStateMachine builds the automaton (ACBuilder),   *)
(* numbers the states breadth first while it allocates them                *)
(* (generateStates), then sets their data, the look-up tables of depth 1   *)
(* and 2 and the pattern table in a second pass (setStatesData).           *)
(* matchIterative scans a text with the bytes of the states                *)
(* (StateEncodings).                                                       *)
(*                                                                         *)
(* Leaves have no state: a goto to a leaf leads where the leaf fails to.   *)
(* A chain of nodes with one goto each is one path compressed state.  An   *)
(* action is an iteration of one of the loops.                             *)
(***************************************************************************)
EXTENDS ACBuilder, StateEncodings

CONSTANTS
    GotoLimits,  \* pairs <<maxGotosLE, maxGotosBM>>
    Texts,       \* what is scanned
    Garbage      \* what malloc leaves in the bytes of a state

\* The characters are ASCII, and no anchor has one character: main.c makes
\* those symbols.  Paths and gotos fit the local arrays, and the limits (main.c
\* passes 0) leave no node of 64 gotos without a table: it would read as empty.
ASSUME CMAssumption ==
    /\ Char \subseteq 1 .. 127 /\ Cardinality(Char) <= MAX_ARRAY_LENGTH
    /\ \A w \in Strings : Len(w) # 1 /\ Len(w) < MAX_PATH_LENGTH
    /\ GotoLimits \subseteq (0 .. MAX_NODE_DEGREE - 1) \X (0 .. MAX_NODE_DEGREE - 1)
    /\ Texts \subseteq Seq(1 .. 127)
    /\ Garbage \subseteq Byte

VARIABLES
    cpc,        \* "tree", "generate", "data", "ready", "scan", "done", "exit" or "crash"
    maxGotos,   \* <<maxGotosLE, maxGotosBM>>
    pending,    \* the NodeQueue of generateStates and setStatesData
    nodeId,     \* Node.id
    key,        \* isFirstLevelNode as <<c1>>, isSecondLevelNode as <<c1, c2>>
    states,     \* the StateTable: the memory of a state by its id
    nodeTable,  \* machine->nodeTable
    rows,       \* the PatternTable: the cells of a state
    firstLevel, secondLevel,   \* firstLevelLookupTable, secondLevelLookupHash
    input, idx, s, res,        \* of matchIterative; s is the id of the state
    last        \* auxiliary: the last step of matchIterative

machineVars == <<states, nodeTable, rows, firstLevel, secondLevel>>
scanVars    == <<input, idx, s, res, last>>
cmVars      == <<cpc, maxGotos, pending, nodeId, key, machineVars, scanVars>>

NoStep == [from |-> 0, state |-> 0, match |-> 0, rows |-> <<>>]
Empty  == [i \in {} |-> {}]

CMInit ==
    /\ ACInit
    /\ cpc = "tree" /\ maxGotos \in GotoLimits /\ pending = <<>>
    /\ nodeId = Empty /\ key = Empty /\ states = Empty /\ nodeTable = Empty /\ rows = Empty
    /\ firstLevel = [c \in Byte |-> LOOKUP_VALUE_NOT_FOUND] /\ secondLevel = Empty
    /\ input = <<>> /\ idx = 0 /\ s = 0 /\ res = 0 /\ last = NoStep

\* createNewNode numbers the nodes and clears the flags of the levels.
BuildTree ==
    /\ cpc = "tree"
    /\ \/ BuildStep /\ UNCHANGED cmVars
       \/ /\ pc = "built"
          /\ cpc' = "generate" /\ pending' = <<Root>>
          /\ nodeId' = [n \in Nodes |-> n]
          /\ key' = [n \in Nodes |-> <<>>]
          /\ UNCHANGED <<acVars, maxGotos, machineVars, scanVars>>

-----------------------------------------------------------------------------
(* generateStates.                                                         *)

\* The nodes that a loop visits: from n on along next to the first of ends.
Chain(next, n, ends) ==
    LET at[k \in Nat] == IF k = 0 THEN n ELSE next[at[k - 1]]
        end == CHOOSE k \in 0 .. MAX_PATH_LENGTH - 1 :
                  at[k] \in ends /\ \A j \in 0 .. k - 1 : at[j] \notin ends
    IN [k \in 1 .. end + 1 |-> at[k - 1]]

\* Where a node without a state ends up: its first failure with one.
NonLeaf(n) == Last(Chain(failure, n, {m \in Nodes : nodeId[m] = 0 \/ ~ IsLeaf(m)}))

\* A table with an entry for another key.
Put(f, k, v) == [x \in DOMAIN f \cup {k} |-> IF x \in DOMAIN f THEN f[x] ELSE v]

LastID == Cardinality(DOMAIN states) - 1    \* mutant: the number of the state before
nextID == Cardinality(DOMAIN states)
addState(state, n) ==
    /\ states' = Put(states, nextID, state)
    /\ nodeTable' = Put(nodeTable, nextID, n)

\* The gotos that will take no memory: to nodes of depth 1 or 2, or to leaves
\* that fail to one.
GotosToL12(n) ==
    Cardinality({m \in ToSet(ChildrenInOrder(n)) : depth[m] \in {1, 2} /\ depth[NonLeaf(m)] \in {1, 2}})

BranchType(n) ==
    IF numGotos(n) <= maxGotos[1] THEN LINEAR_ENCODED
    ELSE IF numGotos(n) <= maxGotos[2] THEN BITMAP_ENCODED
    ELSE LOOKUP_TABLE

\* The key of a child of n: children of the root, and their children.
KeyOfChild(n, c) ==
    IF n = Root THEN <<c>>
    ELSE IF Len(key[n]) = 1 THEN <<key[n][1], c>>
    ELSE key[gotos[n][c]]

GenerateBranch ==
    /\ cpc = "generate" /\ pending # <<>>
    /\ LET n == Head(pending)
           children == ToSet(ChildrenInOrder(n))
           charOf(m) == CHOOSE c \in Chars(n) : gotos[n][c] = m
       IN /\ numGotos(n) > 1
          /\ key' = [m \in Nodes |->
                       IF m \in children /\ depth[m] \in {1, 2} THEN KeyOfChild(n, charOf(m)) ELSE key[m]]
          /\ pending' = Tail(pending) \o ChildrenInOrder(n)
          /\ \E g \in Garbage :
                addState(generateEmptyBranchState(BranchType(n), nextID, numGotos(n), GotosToL12(n), g), n)
          /\ nodeId' = [m \in Nodes |-> IF m = n THEN nextID ELSE IF m \in children THEN -1 ELSE nodeId[m]]
    /\ UNCHANGED <<acVars, cpc, maxGotos, rows, firstLevel, secondLevel, scanVars>>

Only(n)  == CHOOSE c \in Chars(n) : TRUE      \* the character of a single goto
Child(n) == gotos[n][Only(n)]

\* The nodes of the path that starts at n.  It ends where others fail into.
EndsPathAtBranch(m)  == numGotos(m) > 1         \* mutant: failures into the path are forgotten
EndsPathAtFailure(m) == hasFailInto[m] > 0      \* mutant: a branch inside of a path
EndsPath(m) == hasFailInto[m] > 0 \/ numGotos(m) > 1
Inner == {m \in Nodes : ~ IsLeaf(m)}
Path(n) == Chain([m \in Inner |-> Child(m)], n,
                 {m \in Inner : EndsPath(Child(m)) \/ IsLeaf(Child(m))})
PathEnd(n)  == Child(Last(Path(n)))
EndsInLeaf(n) == ~ EndsPath(PathEnd(n))         \* next is NULL

\* The failures of a path that will take no memory; failures to the root are
\* among them.
FailuresToL12(n) ==
    Cardinality({m \in ToSet(Path(n)) :
        depth[failure[m]] \in 0 .. 2 /\ depth[NonLeaf(failure[m])] \in 0 .. 2})

GeneratePath ==
    /\ cpc = "generate" /\ pending # <<>>
    /\ LET n == Head(pending)
           end == PathEnd(n)
           interior == ToSet(Path(n)) \ {n}
       IN /\ numGotos(n) = 1
          /\ \E g \in Garbage :
                addState(createEmptyState_PC(nextID, Len(Path(n)), FailuresToL12(n), g), n)
          /\ nodeId' = [m \in Nodes |->
                          IF m = n THEN nextID
                          ELSE IF m \in interior \/ (m = end /\ EndsInLeaf(n)) THEN -2
                          ELSE IF m = end THEN -1 ELSE nodeId[m]]
          /\ IF EndsInLeaf(n) THEN UNCHANGED key /\ pending' = Tail(pending)
             ELSE /\ pending' = Append(Tail(pending), end)
                  /\ key' = IF Len(key[n]) = 1 /\ Len(Path(n)) = 1
                            THEN [key EXCEPT ![end] = <<key[n][1], Only(n)>>] ELSE key
    /\ UNCHANGED <<acVars, cpc, maxGotos, rows, firstLevel, secondLevel, scanVars>>

SkipLeaf ==
    /\ cpc = "generate" /\ pending # <<>> /\ IsLeaf(Head(pending))
    /\ pending' = Tail(pending)
    /\ UNCHANGED <<acVars, cpc, maxGotos, nodeId, key, machineVars, scanVars>>

EndGenerate ==
    /\ cpc = "generate" /\ pending = <<>>
    /\ cpc' = "data" /\ pending' = <<Root>>
    /\ UNCHANGED <<acVars, maxGotos, nodeId, key, machineVars, scanVars>>

-----------------------------------------------------------------------------
(* setRealPointers.                                                        *)

\* A set of numbers in their order, and the elements of q at those positions.
InOrder(S) ==
    CHOOSE f \in [1 .. Cardinality(S) -> S] : \A i, j \in DOMAIN f : i < j => f[i] < f[j]
ElementsAt(q, S) == LET at == InOrder(S) IN [k \in 1 .. Cardinality(S) |-> q[at[k]]]

\* The nodes from n up to the first with a state.
Climbed(n)  == Chain(failure, n, {m \in Nodes : nodeId[m] >= 0})
Target(n)   == Last(Climbed(n))
Messages(n) ==
    LET w == Climbed(n)
    IN ElementsAt([k \in DOMAIN w |-> message[w[k]]], {k \in DOMAIN w : match[w[k]]})

PointerType(n) == <<REGULAR, LEVEL1, LEVEL2>>[Len(key[n]) + 1]

\* It exits where a failure leads to an accepting node without state, and
\* compares a message that may be NULL.
SetPointerExits(n, isFailure) == isFailure /\ \E m \in ToSet(Climbed(n)) : match[m] /\ nodeId[m] < 0
SetPointerCrashes(n) == \E m \in ToSet(Climbed(n)) : match[m] /\ nodeId[m] < 0 /\ message[m] = NoSlot

-----------------------------------------------------------------------------
(* setStatesData.  A cell of the pattern table is the sequence of the      *)
(* anchors it lists; a NULL message lists nothing in a path and is left    *)
(* out in a branch.                                                        *)

Wild == <<-1>>     \* a cell whose pointer is overwritten

\* patterntable_add_state and patterntable_add_pattern.  A state without
\* matches has no row: its entry is never written.
AddRow(id, cells) == rows' = IF cells = <<>> THEN rows ELSE Put(rows, id, cells)

\* sortArrays takes the row for an array of pointers and puts those of the
\* matching children in the order of the sorted characters.  A cell is as long as
\* WORDS pointers, and begins with the one to its pattern: what is no pointer to a
\* pattern is some part of a cell.
WORDS == 14
MatchingOf(es) == SelectSeq(es, LAMBDA e : e.match = 1)
SortRow(d, es, cells) ==
    LET from(w) == CHOOSE k \in 0 .. Len(cells) - 1 :
                      MatchingOf(es)[k + 1] = MatchingOf(SortArrays(es))[w + 1]
        cell(w) == IF from(w) % WORDS = 0 THEN cells[from(w) \div WORDS + 1] ELSE Wild
    IN IF GET_STATE_TYPE(d) = LINEAR_ENCODED \/ Len(cells) < 2 THEN cells
       ELSE [r \in DOMAIN cells |-> IF WORDS * (r - 1) < Len(cells) THEN cell(WORDS * (r - 1))
                                    ELSE cells[r]]

\* The look-up tables of depth 1 and 2.
SetLookup(n) ==
    /\ firstLevel' = IF Len(key[n]) = 1 THEN [firstLevel EXCEPT ![key[n][1]] = nodeId[n]] ELSE firstLevel
    /\ secondLevel' = IF Len(key[n]) = 2 THEN Put(secondLevel, key[n], nodeId[n]) ELSE secondLevel

Stop(how) == cpc' = how /\ UNCHANGED <<acVars, maxGotos, pending, nodeId, key, machineVars, scanVars>>

\* "Cannot find a state for node": there is none when there are no anchors.
SetNothing ==
    /\ cpc = "data" /\ pending # <<>>
    /\ nodeId[Head(pending)] \notin DOMAIN states
    /\ Stop("exit")

BranchElement(n, c) ==
    LET m == gotos[n][c] IN
    [c |-> c, ptr |-> nodeId[Target(m)], type |-> PointerType(Target(m)),
     match |-> IF Messages(m) = <<>> THEN 0 ELSE 1]
BranchCells(n) ==
    LET all == [k \in 1 .. numGotos(n) |-> Messages(ChildrenInOrder(n)[k])]
        listed == [k \in DOMAIN all |-> ElementsAt(all[k], {i \in DOMAIN all[k] : all[k][i] # NoSlot})]
    IN ElementsAt(listed, {k \in DOMAIN all : all[k] # <<>>})

\* The children that are enqueued, in the order of Node.gotos.
ChildrenWithState(n) == {m \in ToSet(ChildrenInOrder(n)) : nodeId[m] >= 0}

SelfFailure(n)   == nodeId[n]                 \* mutant: it fails to itself
BranchFailure(n) == nodeId[Target(failure[n])]

SetBranch ==
    /\ cpc = "data" /\ pending # <<>> /\ numGotos(Head(pending)) > 1
    /\ LET n == Head(pending)
           id == nodeId[n]
           es == [k \in 1 .. numGotos(n) |-> BranchElement(n, CharsInOrder(n)[k])]
       IN IF \E m \in ToSet(ChildrenInOrder(n)) : SetPointerCrashes(m) THEN Stop("crash")
          ELSE IF SetPointerExits(failure[n], TRUE) \/ WriterExits(states[id], es) THEN Stop("exit")
          ELSE /\ SetLookup(n)
               /\ AddRow(id, SortRow(states[id], es, BranchCells(n)))
               /\ states' = [states EXCEPT ![id] = setDataBranchState(@, es, BranchFailure(n))]
               /\ pending' = Tail(pending) \o InOrder(ChildrenWithState(n))
               /\ UNCHANGED <<acVars, cpc, maxGotos, nodeId, key, nodeTable, scanVars>>

\* Where the goto of a path leads: a leaf is left by its failure.
Landing(n) == IF EndsInLeaf(n) THEN failure[PathEnd(n)] ELSE PathEnd(n)
OwnMessage(m) == IF match[m] THEN <<message[m]>> ELSE <<>>

\* The messages of the k-th position of the path of n, behind its first node.
MessagesBefore(n, k) ==          \* mutant: of the position before
    Messages(failure[Path(n)[k]]) \o OwnMessage(Path(n)[k])
PathMessages(n, k) ==
    IF k < Len(Path(n))
    THEN Messages(failure[Path(n)[k + 1]]) \o OwnMessage(Path(n)[k + 1])
    ELSE (IF EndsInLeaf(n) THEN OwnMessage(PathEnd(n)) ELSE <<>>) \o Messages(Landing(n))

PathElement(n, k) ==
    LET m == Path(n)[k] IN
    [c |-> Only(m), ptr |-> nodeId[Target(failure[m])], type |-> PointerType(Target(failure[m])),
     match |-> IF PathMessages(n, k) = <<>> THEN 0 ELSE 1]
PathCells(n) ==
    LET all == [k \in 1 .. Len(Path(n)) |-> PathMessages(n, k)]
    IN ElementsAt(all, {k \in DOMAIN all : all[k] # <<>>})

SetPath ==
    /\ cpc = "data" /\ pending # <<>> /\ numGotos(Head(pending)) = 1
    /\ LET n == Head(pending)
           id == nodeId[n]
           es == [k \in 1 .. Len(Path(n)) |-> PathElement(n, k)]
       IN IF SetPointerCrashes(Landing(n)) \/ ~ EndsPath(Landing(n)) THEN Stop("crash")
          ELSE IF (\E m \in ToSet(Path(n)) : SetPointerExits(failure[m], TRUE)) \/ WriterExits(states[id], es)
          THEN Stop("exit")
          ELSE /\ SetLookup(n)
               /\ AddRow(id, PathCells(n))
               /\ states' = [states EXCEPT ![id] = setStateData_PC(@, es, nodeId[Target(Landing(n))])]
               /\ pending' = Tail(pending) \o IF EndsInLeaf(n) THEN <<>> ELSE <<PathEnd(n)>>
               /\ UNCHANGED <<acVars, cpc, maxGotos, nodeId, key, nodeTable, scanVars>>

\* compressStateTable copies the states into a table of their number.
EndData ==
    /\ cpc = "data" /\ pending = <<>>
    /\ cpc' = "ready"
    /\ UNCHANGED <<acVars, maxGotos, pending, nodeId, key, machineVars, scanVars>>

createStateMachine ==
    \/ BuildTree \/ GenerateBranch \/ GeneratePath \/ SkipLeaf \/ EndGenerate
    \/ SetNothing \/ SetBranch \/ SetPath \/ EndData

-----------------------------------------------------------------------------
(* match and matchIterative.                                               *)

Match ==
    /\ cpc = "ready"
    /\ input' \in Texts /\ idx' = 0 /\ s' = 0 /\ res' = 0
    /\ cpc' = "scan" /\ UNCHANGED <<acVars, maxGotos, pending, nodeId, key, machineVars, last>>

\* In the root only the table of depth 1 is used.
StepInRoot ==
    /\ cpc = "scan" /\ idx < Len(input) /\ s = 0
    /\ s' = LET id == GET_FIRST_LEVEL_STATE(firstLevel, input[idx + 1])
            IN IF id = LOOKUP_VALUE_NOT_FOUND THEN 0 ELSE id
    /\ idx' = idx + 1
    /\ last' = [NoStep EXCEPT !.from = idx]
    /\ UNCHANGED <<acVars, cpc, maxGotos, pending, nodeId, key, machineVars, input, res>>

Step ==
    /\ cpc = "scan" /\ idx < Len(input) /\ s # 0
    /\ LET next == NextStateOf(states[s], input, idx, firstLevel, secondLevel)
       IN IF next.next \notin DOMAIN states THEN Stop("crash")
          ELSE /\ s' = next.next /\ idx' = next.idx
               /\ res' = IF next.match = 1 THEN 1 ELSE res
               /\ last' = [from |-> idx, state |-> s, match |-> next.match, rows |-> next.rows]
               /\ UNCHANGED <<acVars, cpc, maxGotos, pending, nodeId, key, machineVars, input>>

Return ==
    /\ cpc = "scan" /\ idx >= Len(input)
    /\ cpc' = "done"
    /\ UNCHANGED <<acVars, maxGotos, pending, nodeId, key, machineVars, scanVars>>

matchIterative == StepInRoot \/ Step \/ Return

CMStep == createStateMachine \/ Match \/ matchIterative
CMStopped == cpc \in {"done", "exit", "crash"} /\ UNCHANGED <<acVars, cmVars>>
CMNext == CMStep \/ CMStopped

CMSpec == CMInit /\ [][CMNext]_<<acVars, cmVars>>
-----------------------------------------------------------------------------
(* Properties.                                                             *)

\* Every node has an id, a look-up key of at most two characters, and a state
\* has its number, its node and its bytes.
CMTypeOK ==
    /\ cpc \in {"tree", "generate", "data", "ready", "scan", "done", "exit", "crash"}
    /\ maxGotos \in GotoLimits /\ pending \in Seq(Nodes)
    /\ DOMAIN states = 0 .. nextID - 1 /\ DOMAIN nodeTable = DOMAIN states
    /\ \A id \in DOMAIN states : states[id] \in [DOMAIN states[id] -> Byte]
    /\ \A id \in DOMAIN nodeTable : nodeTable[id] \in Nodes
    /\ DOMAIN rows \subseteq DOMAIN states
    /\ cpc # "tree" => nodeId \in [Nodes -> Int] /\ key \in [Nodes -> BoundedSeq(Char, 2)]
    /\ input \in Texts \cup {<<>>} /\ idx \in 0 .. Len(input) /\ s \in {0} \cup DOMAIN states
    /\ res \in {0, 1}

RootBranches == numGotos(Root) > 1

\* The three tests of collectCompressionStats, each "Bad compression state":
\* after generateStates exactly the leaves have no state but the ones inside
\* of paths.  And a state is the state of its node, by its number.
NodesAreCompressedRight ==
    /\ \A n \in Nodes \ {Root} :
          /\ numGotos(n) = 0 => nodeId[n] \in {-1, -2}
          /\ numGotos(n) # 0 => nodeId[n] # -1
          /\ numGotos(n) \notin {0, 1} => nodeId[n] # -2
          /\ nodeId[n] >= 0 => nodeId[n] \in DOMAIN states
    /\ \A id \in DOMAIN states : nodeId[nodeTable[id]] = id /\ getStateID(states[id]) = id

\* None of the errors the code looks for comes up: neither "Bad compression
\* state", nor "found a fail pointer that points to an accepting state", "Cannot
\* find a state" or "Memory index out of bound" unless the root has at most one
\* goto.  Nor do those it does not look for: a NULL message that is compared, a
\* path that runs on behind its leaf, a pointer to no state.
ConstructionSucceeds ==
    /\ cpc \notin {"tree", "generate"} => NodesAreCompressedRight
    /\ cpc # "crash"
    /\ cpc = "exit" => ~ RootBranches

\* The nodes whose word ends the text, and the deepest of them.
WordsAt(p) == {n \in Nodes : IsSuffix(word[n], SubSeq(input, 1, p))}
Deepest(p) == CHOOSE n \in WordsAt(p) : \A m \in WordsAt(p) : depth[m] <= depth[n]

\* Bytes, look-up tables, paths and removed leaves together behave like the
\* automaton: where the scan reads on, the word of its state ends the text
\* read, and no node with a longer such word has a goto for the next character.
\* Below a root with one goto no node has a look-up key: the scan stays in the
\* root.
FollowsTheAutomaton ==
    /\ cpc = "scan" /\ idx < Len(input) /\ RootBranches =>
          /\ nodeTable[s] \in WordsAt(idx)
          /\ \A m \in WordsAt(idx) : depth[m] > depth[nodeTable[s]] => input[idx + 1] \notin Chars(m)
    /\ ~ RootBranches => s = 0 /\ secondLevel = Empty

AnchorEndsAt(p) == \E k \in DOMAIN anchors : anchors[k] # <<>> /\ IsSuffix(anchors[k], SubSeq(input, 1, p))

\* A step reports a match if the automaton has a matching node at a position it
\* read, and only if an anchor ends at one; so does the scan.  (A path also asks
\* the failures of its nodes, and so reports anchors the nodes failed to
\* inherit.)
MatchesLikeTheAutomaton ==
    RootBranches =>
        LET Right(reported, from, to) ==
              /\ (\E p \in from .. to : match[Deepest(p)]) => reported = 1
              /\ reported = 1 => \E p \in from .. to : AnchorEndsAt(p)
        IN /\ cpc = "scan" => Right(last.match, last.from + 1, idx)
           /\ cpc = "done" => Right(res, 1, Len(input))

\* A table that is sorted for two or more matching children: its cells are not.
Resorted == GET_STATE_TYPE(states[last.state]) \in {BITMAP_ENCODED, LOOKUP_TABLE}
            /\ last.state \in DOMAIN rows /\ Len(rows[last.state]) > 1

\* With verbose the scan prints the cell of a match: there is one, and what it
\* lists are anchors that end where the step matched, unless sortArrays had to
\* do with the row.  (getNextState_BM then also copies the Huffman code of the
\* cell, by a length nobody sets; nothing reads the copy, and it is left out:
\* the property is about runs in which it fits.)
PrintsWhatMatched ==
    cpc = "scan" /\ last.match = 1 /\ ~ Resorted =>
        /\ last.rows # <<>>
        /\ \A r \in ToSet(last.rows) :
              /\ last.state \in DOMAIN rows /\ r + 1 \in DOMAIN rows[last.state]
              /\ \A a \in ToSet(rows[last.state][r + 1]) \ {NoSlot} :
                    \E p \in last.from + 1 .. idx : IsSuffix(anchors[a], SubSeq(input, 1, p))

\* No counter bounds the loop of matchIterative: a step that reads nothing must
\* lead to a state nearer to the root, in whichever encoding and over whichever
\* look-up table, or the scan may never end.
ReadsOrClimbs ==
    [][cpc = "scan" /\ cpc' = "scan" =>
          \/ idx' > idx
          \/ idx' = idx /\ depth[nodeTable[s']] < depth[nodeTable[s]]]_<<acVars, cmVars>>
=============================================================================
