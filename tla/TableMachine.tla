---------------------------- MODULE TableMachine -----------------------------
(***************************************************************************)
(* The full-table machine.  generateTableStateMachine builds the tree      *)
(* (module ACBuilder), createTableStateMachine allocates the tables and    *)
(* putStates fills them, a node per step (TableStateMachineGenerator.c);   *)
(* match1TableMachine (TableStateMachine.c) scans a text with it, a        *)
(* character per step.                                                     *)
(***************************************************************************)
EXTENDS ACBuilder

CONSTANT Texts   \* the texts given to match1TableMachine

ASSUME TMAssumption == Texts \subseteq Seq(Char)

\* machine->patterns of a state: no string, the string of a node whose message
\* is NULL (setMatch copies -1 characters of it), or else an anchor.
NullPattern  == -1
EmptyPattern == 0

VARIABLES
    tpc,       \* the phase: "tree", "put", "ready", "scan", "scanned"
    table,     \* machine->table
    matches,   \* machine->matches
    patterns,  \* machine->patterns
    pending,   \* the NodeQueue of putStates
    input,     \* text given to the scan
    idx,       \* characters consumed
    current,   \* state of the scan
    returnIndex   \* matches reported

tableVars == <<table, matches, patterns, pending>>
scanVars  == <<input, idx, current, returnIndex>>
tmVars    == <<tpc, tableVars, scanVars>>

TMInit ==
    /\ ACInit
    /\ tpc = "tree"
    /\ table = <<>> /\ matches = <<>> /\ patterns = <<>> /\ pending = <<>>
    /\ input = <<>> /\ idx = 0 /\ current = Root /\ returnIndex = 0

-----------------------------------------------------------------------------
(* generateTableStateMachine.                                              *)

\* acBuildTreeASCII.
BuildTree == tpc = "tree" /\ BuildStep /\ UNCHANGED tmVars

createTableStateMachine ==
    /\ tpc = "tree" /\ pc = "built"
    /\ table' = [n \in Nodes |-> [c \in Char |-> Root]]
    /\ matches' = [n \in Nodes |-> FALSE]
    /\ patterns' = [n \in Nodes |-> NullPattern]
    /\ pending' = <<Root>>
    /\ tpc' = "put"
    /\ UNCHANGED <<acVars, scanVars>>

\* The goto of n for c, or else the first one found along its failure chain.
GotoOrNull(n, c) ==             \* mutant: no default where there is no goto
    LET first[m \in Nodes] ==
          IF acGetNextNode(m, c) # NoNode \/ m = Root THEN acGetNextNode(m, c)
          ELSE first[failure[m]]
    IN first[n]
GotoOfFailure(n, c) ==          \* mutant: one failure pointer, not the chain
    IF acGetNextNode(n, c) # NoNode THEN acGetNextNode(n, c)
    ELSE IF acGetNextNode(failure[n], c) # NoNode THEN acGetNextNode(failure[n], c)
    ELSE Root
GotoAlongFailures(n, c) ==
    LET first[m \in Nodes] ==
          IF acGetNextNode(m, c) # NoNode THEN acGetNextNode(m, c)
          ELSE IF m = Root THEN Root ELSE first[failure[m]]
    IN first[n]

\* One node of putStates.  setMatch copies the node's own message, also where
\* the match is inherited and there is none.
PutState ==
    LET n == Head(pending) IN
    /\ tpc = "put" /\ pending # <<>>
    /\ matches' = [matches EXCEPT ![n] = @ \/ match[n]]
    /\ patterns' = [patterns EXCEPT ![n] = IF ~ match[n] THEN @
                                           ELSE IF message[n] = NoSlot THEN EmptyPattern
                                           ELSE message[n]]
    /\ table' = [table EXCEPT ![n] = [c \in Char |-> GotoAlongFailures(n, c)]]
    /\ pending' = Tail(pending) \o ChildrenInOrder(n)
    /\ UNCHANGED <<acVars, tpc, scanVars>>

EndPut ==
    /\ tpc = "put" /\ pending = <<>>
    /\ tpc' = "ready"
    /\ UNCHANGED <<acVars, tableVars, scanVars>>

putStates == PutState \/ EndPut

generateTableStateMachine == BuildTree \/ createTableStateMachine \/ putStates

-----------------------------------------------------------------------------
(* match1TableMachine.                                                     *)

GetNextState(s, c) == table[s][c]

StartScan ==
    /\ tpc = "ready"
    /\ input' \in Texts
    /\ idx' = 0 /\ current' = Root /\ returnIndex' = 0
    /\ tpc' = "scan"
    /\ UNCHANGED <<acVars, tableVars>>

ScanChar ==
    LET s == GetNextState(current, input[idx + 1]) IN
    /\ tpc = "scan" /\ idx < Len(input)
    /\ current' = s
    /\ idx' = idx + 1
    /\ returnIndex' = returnIndex +
                        (IF matches[s] /\ patterns[s] # NullPattern THEN 1 ELSE 0)
    /\ UNCHANGED <<acVars, tpc, tableVars, input>>

EndScan ==
    /\ tpc = "scan" /\ idx = Len(input)
    /\ tpc' = "scanned"
    /\ UNCHANGED <<acVars, tableVars, scanVars>>

match1TableMachine == StartScan \/ ScanChar \/ EndScan

-----------------------------------------------------------------------------
TMDone ==
    /\ tpc = "scanned" \/ pc = "fault"
    /\ UNCHANGED <<acVars, tmVars>>

TMNext == generateTableStateMachine \/ match1TableMachine \/ TMDone

TMSpec == TMInit /\ [][TMNext]_<<acVars, tmVars>>
-----------------------------------------------------------------------------
(* Properties.                                                             *)

\* The strings entered into the tree: the entries before the first empty one.
Entered ==
    {anchors[k] : k \in {m \in 1 .. Len(anchors) :
                           \A l \in 1 .. m : anchors[l] # <<>>}}

\* Every variable has its type; the table is total and leads to states only.
TMTypeOK ==
    /\ ACTypeOK
    /\ tpc \in {"tree", "put", "ready", "scan", "scanned"}
    /\ tpc # "tree" =>
          /\ table \in [Nodes -> [Char -> Nodes]]
          /\ matches \in [Nodes -> BOOLEAN]
          /\ patterns \in [Nodes -> {NullPattern} \cup Nat]
    /\ pending \in Seq(Nodes)
    /\ input \in Texts \cup {<<>>} /\ idx \in 0 .. Len(input)
    /\ current \in Nodes /\ returnIndex \in 0 .. idx

\* The scan of the table implements the matcher: its state is the longest
\* suffix of the text read that is a prefix of an anchor, and it reports
\* exactly as Matcher allows.
M == INSTANCE Matcher WITH
        dictionary <- Entered,
        read       <- SubSeq(input, 1, idx),
        longest    <- word[current],
        reports    <- returnIndex

MatcherSpec == M!Spec

=============================================================================
