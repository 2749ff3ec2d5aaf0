----------------------------- MODULE StateBuffer ------------------------------
(***************************************************************************)
(* The memory of one state, from its allocation (generateEmptyBranchState, *)
(* generateEmptyPathCompressedState, createEmptyState_SLE) over the writer *)
(* (setDataBranchState, setDataPathCompressedState, setStateData_SLE) to   *)
(* the readers of module StateEncodings.  An action is one of those calls. *)
(***************************************************************************)
EXTENDS StateEncodings

CONSTANTS
    ElementLists,  \* the children a branch state or a simple state may have
    PathLists,     \* the elements of a path
    Ids,           \* ids of states, and pointers to them
    Garbage        \* what malloc leaves in a byte

ASSUME SBAssumption ==
    /\ \A es \in ElementLists :
          /\ es \in Seq(Element) /\ Len(es) \in 1 .. MAX_ARRAY_LENGTH
          /\ \A i, j \in DOMAIN es : es[i].c = es[j].c => i = j
    /\ \A es \in PathLists : es \in Seq(Element) /\ Len(es) \in 1 .. MAX_PATH_LENGTH
    /\ Ids \subseteq StateId
    /\ Garbage \subseteq Byte

VARIABLES
    phase,     \* "new", "empty", "set" or "exit"
    kind,      \* "branch", "path" or "simple"
    data,      \* the memory
    id, elements, failure,   \* the arguments; in a path, failure is its goto
    matching   \* the match bit of a simple state

sbVars == <<phase, kind, data, id, elements, failure, matching>>

SBInit ==
    /\ phase = "new" /\ kind = "branch" /\ data = malloc(0, 0)
    /\ id = 0 /\ elements = <<>> /\ failure = 0 /\ matching = FALSE

-----------------------------------------------------------------------------
\* The pointers that take no memory, as generateStates counts them.  It may
\* count more: below a root with one goto it counts by depth, and no pointer
\* has a type.
PtrsToL12(es) ==
    LET n == Cardinality({i \in DOMAIN es : es[i].type # REGULAR})
    IN {n, n + 1} \cap 0 .. Len(es)

NewBranch ==
    /\ phase = "new"
    /\ \E type \in {LINEAR_ENCODED, BITMAP_ENCODED, LOOKUP_TABLE}, g \in Garbage :
       \E i \in Ids, es \in ElementLists : \E n \in PtrsToL12(es) :
          /\ data' = generateEmptyBranchState(type, i, Len(es), n, g)
          /\ id' = i /\ elements' = es
    /\ kind' = "branch" /\ phase' = "empty"
    /\ UNCHANGED <<failure, matching>>

\* generateStates counts the failures to the root among them.
NewPath ==
    /\ phase = "new"
    /\ \E g \in Garbage, i \in Ids, es \in PathLists : \E n \in PtrsToL12(WithLevel0(es)) :
          /\ data' = createEmptyState_PC(i, Len(es), n, g)
          /\ id' = i /\ elements' = es
    /\ kind' = "path" /\ phase' = "empty"
    /\ UNCHANGED <<failure, matching>>

NewSimple ==
    /\ phase = "new"
    /\ \E g \in Garbage, i \in Ids, es \in ElementLists :
          /\ data' = createEmptyState_SLE(i, Len(es), g)
          /\ id' = i /\ elements' = es
    /\ kind' = "simple" /\ phase' = "empty"
    /\ UNCHANGED <<failure, matching>>

SetData ==
    /\ phase = "empty" /\ (kind # "simple" => ~ WriterExits(data, elements))
    /\ failure' \in Ids
    /\ matching' \in IF kind = "simple" THEN BOOLEAN ELSE {FALSE}
    /\ data' = CASE kind = "branch" -> setDataBranchState(data, elements, failure')
                 [] kind = "path" -> setStateData_PC(data, elements, failure')
                 [] kind = "simple" -> setStateData_SLE(data, elements, failure', matching')
    /\ phase' = "set"
    /\ UNCHANGED <<kind, id, elements>>

WriterExit ==
    /\ phase = "empty" /\ kind # "simple" /\ WriterExits(data, elements)
    /\ phase' = "exit"
    /\ UNCHANGED <<kind, data, id, elements, failure, matching>>

SBDone == phase \in {"set", "exit"} /\ UNCHANGED sbVars

SBNext == NewBranch \/ NewPath \/ NewSimple \/ SetData \/ WriterExit \/ SBDone

SBSpec == SBInit /\ [][SBNext]_sbVars
-----------------------------------------------------------------------------
(* Properties.                                                             *)

SBTypeOK ==
    /\ phase \in {"new", "empty", "set", "exit"} /\ kind \in {"branch", "path", "simple"}
    /\ DOMAIN data = 0 .. Cardinality(DOMAIN data) - 1
    /\ \A i \in DOMAIN data : data[i] \in Byte
    /\ id \in Ids \cup {0} /\ failure \in Ids \cup {0} /\ matching \in BOOLEAN
    /\ elements \in ElementLists \cup PathLists \cup {<<>>}

IsType(t) == kind = "branch" /\ GET_STATE_TYPE(data) = t
Chars     == {elements[i].c : i \in DOMAIN elements}
Probes    == Chars \cup {(c + 1) % 256 : c \in Chars}
ElementOf(c) == CHOOSE e \in ToSet(elements) : e.c = c
First     == [c \in Byte |-> 1000 + c]
Second    == [p \in Byte \X Byte |-> 2000 + 2 * p[1] + p[2]]

\* The size of a linear or bitmap encoded state has six bits, and a linear one
\* compares signed characters.
Lost(c) ==
    \/ IsType(LINEAR_ENCODED) /\ c > 127
    \/ (IsType(LINEAR_ENCODED) \/ IsType(BITMAP_ENCODED)) /\ Len(elements) = MAX_NODE_DEGREE

RegularPtrs(es) == Cardinality({i \in DOMAIN es : es[i].type = REGULAR})
\* The bytes the writer fills.
Filled ==
    CASE kind = "path" -> FailuresOf_PC(data) + PTR_SIZE * RegularPtrs(WithLevel0(elements))
      [] IsType(LINEAR_ENCODED) ->
           PtrsOf_LE(data) + PTR_SIZE * RegularPtrs(SubSeq(elements, 1, HeaderSize(data)))
      [] IsType(BITMAP_ENCODED) ->
           PtrsOf_BM(data) + PTR_SIZE * RegularPtrs(SubSeq(elements, 1, HeaderSize(data)))
      [] IsType(LOOKUP_TABLE) -> SIZE_IN_BYTES

\* The writers check every pointer against the size the state remembers, which
\* two of the layouts keep in eight bits: they exit exactly when what they are
\* about to fill is more than was allocated.
NeverWritesOutside ==
    kind # "simple" /\ phase \in {"set", "exit"} =>
        (phase = "exit" <=> Filled > Cardinality(DOMAIN data))

\* What the machine reads of a branch state for c.  The row counts the children
\* that match and are stored before.
ReadsChild(c) ==
    LET e    == ElementOf(c)
        text == <<7, c>>
        before == {i \in DOMAIN elements :
                     /\ elements[i].match = 1
                     /\ IF IsType(LINEAR_ENCODED)
                        THEN \E j \in DOMAIN elements : i < j /\ elements[j] = e
                        ELSE elements[i].c < c}
    IN NextStateOf(data, text, 1, First, Second) =
         IF c \notin Chars \/ Lost(c) THEN Failed(failure, 1)
         ELSE Goto(IF IsType(LOOKUP_TABLE) THEN e.ptr
                   ELSE Resolve(e.type, e.ptr, text, 2, First, Second),
                   e.match, Cardinality(before), 1)

\* Whatever the memory held, what the machine reads of a branch state is what
\* was set: the goto, the match bit and the row of every child, the failure for
\* any other character, the id and the size.  Not so for what is Lost: such a
\* child is never found (Types.h allows MAX_NODE_DEGREE, 64, children, and the
\* size 64 is stored as 0).
BranchReadsBack ==
    phase = "set" /\ kind = "branch" =>
        /\ getStateID(data) = id
        /\ getStateSizeInBytes(data) = Cardinality(DOMAIN data)
        /\ \A c \in Probes : ReadsChild(c)

\* The text that follows the path for k characters, and then another character
\* or nothing.
PathText(k, more) == <<1, 2>> \o [i \in 1 .. k |-> elements[i].c] \o more
OtherChar(k) == <<(elements[k + 1].c + 1) % 256>>
MatchesUpTo(k) == {i \in 1 .. k : elements[i].match = 1}
PathEnds == {0, 1, 2, Len(elements) \div 2, Len(elements) - 1} \cap 0 .. Len(elements) - 1

\* What the machine reads of a path with texts that follow it for k characters.
ReadsPath(k) ==
    LET e == WithLevel0(elements)[k + 1]
        text == PathText(k, OtherChar(k))
        rows(n) == [i \in 1 .. Cardinality(MatchesUpTo(n)) |-> i - 1]
        result(next, failed, n) ==
          [next |-> next, fail |-> failed, rows |-> rows(n), idx |-> 2 + n,
           match |-> IF MatchesUpTo(n) = {} THEN 0 ELSE 1]
    IN /\ NextStateOf(data, text, 2, First, Second) =
            result(Resolve(e.type, e.ptr, text, 2 + k, First, Second), TRUE, k)
       /\ NextStateOf(data, PathText(k, <<>>), 2, First, Second) = result(failure, FALSE, k)
       /\ NextStateOf(data, PathText(Len(elements), <<3>>), 2, First, Second) =
            result(failure, FALSE, Len(elements))

\* What the machine reads of a path is what was set: where the text leaves it,
\* the failure of that position, and where the text or the path ends, the goto;
\* in either case the rows of the matches on the way.
PathReadsBack ==
    phase = "set" /\ kind = "path" =>
        /\ getStateID(data) = id
        /\ getStateSizeInBytes(data) = Cardinality(DOMAIN data)
        /\ \A k \in PathEnds : ReadsPath(k)

\* Lengths at and beyond the ends of those whose bytes fit.
CopyLengths == {-16, -15, 0, 799, 800}

\* getNextState_LT and getNextState_PC, which matchRecursive calls, are not the
\* readers matchIterative uses.  The one takes the entries the writer fills with
\* ones for gotos and a goto to the root for none.  The other numbers the rows by
\* position, and its last copy leaves its arrays for most values the length may
\* have, which nobody sets: then nothing can be said.  In all else they agree.
TwoReaders ==
    phase = "set" =>
        /\ IsType(LOOKUP_TABLE) => \A c \in Probes, n \in CopyLengths :
              LET r == getNextState(data, <<7, c>>, 1, First, Second, n)
                  s == NextStateOf(data, <<7, c>>, 1, First, Second)
              IN /\ r.fail <=> c \in Chars /\ ElementOf(c).ptr = 0
                 /\ ~ r.fail /\ ~ s.fail => r.next = s.next /\ r.match = s.match /\ r.idx = s.idx
        /\ kind = "path" => \A k \in PathEnds, n \in CopyLengths :
              LET r == getNextState(data, PathText(k, OtherChar(k)), 2, First, Second, n)
                  s == NextStateOf(data, PathText(k, OtherChar(k)), 2, First, Second)
              IN IF n < -15 \/ n >= 800 THEN r = Undefined
                 ELSE /\ ToSet(r.rows) = {i - 1 : i \in MatchesUpTo(k)}
                      /\ [r EXCEPT !.rows = <<>>] = [s EXCEPT !.rows = <<>>]

\* printState_LE and printState_BM show every child that was set, in its stored
\* order.  printState_LT would show an entry for every character that has no
\* child: with the children a branch state can have these are always more lines
\* than its buffer takes.  getAllNextStates_LT returns such an entry, and leaves
\* out the children whose goto is the root.
PrintsGotos ==
    phase = "set" /\ kind = "branch" /\ Len(elements) # MAX_NODE_DEGREE =>
        LET shown(e) == [c |-> e.c, match |-> e.match,
                         ptr |-> CASE e.type = REGULAR -> e.ptr [] e.type = LEVEL1 -> -1
                                   [] e.type = LEVEL2 -> -2]
        IN /\ IsType(LINEAR_ENCODED) =>
                 printState_LE(data) = [i \in DOMAIN elements |-> shown(elements[i])]
           /\ IsType(BITMAP_ENCODED) =>
                 /\ ToSet(printState_BM(data)) = {shown(e) : e \in ToSet(elements)}
                 /\ \A i \in 2 .. Len(elements) : printState_BM(data)[i - 1].c < printState_BM(data)[i].c
           /\ IsType(LOOKUP_TABLE) =>
                 /\ printState_LT(data) = Undefined
                 /\ getAllNextStates_LT(data) =
                      {LOOKUP_VALUE_NOT_FOUND} \cup ({e.ptr : e \in ToSet(elements)} \ {0})

\* printState_PC shows the characters of a path in order as long as its buffer
\* takes them.  The match it shows at a position is that of the position whose bit
\* the old layout would have there, three times as far, and as long as there is
\* one.  getAllNextStates_PC returns the goto.
PrintsPath ==
    phase = "set" /\ kind = "path" =>
        LET n == Len(elements)
            printed == printState_PC(data)
        IN /\ getAllNextStates_PC(data) = {failure}
           /\ n > MAX_PRINTED => printed = Undefined
           /\ n <= MAX_PRINTED =>
                /\ Len(printed) = n
                /\ \A i \in 1 .. n :
                     /\ printed[i].c = elements[i].c
                     /\ 3 * i - 2 <= n => printed[i].match = elements[3 * i - 2].match

\* What the simple machine reads is what was set as long as a node has at most
\* four children: the reader looks for the pointers behind one bit per child,
\* the writer keeps two.  In a table it never finds a failure.
SimpleReadsBack ==
    phase = "set" /\ kind = "simple" =>
        /\ GET_STATE_TYPE(data) = LINEAR_ENCODED <=> Len(elements) < 64
        /\ HeaderSize(data) \div 32 = (IF matching THEN 1 ELSE 0)
        /\ getSizeInBytes_PC(data) = Cardinality(DOMAIN data)
        /\ \A c \in Probes :
             LET r == getNextState_SLE(data, <<c>>, 0)
             IN /\ r.fail <=> Len(elements) < 64 /\ (c \notin Chars \/ c > 127)
                /\ r.fail => r.next = failure
                /\ ~ r.fail /\ Len(elements) <= 4 => r.next = ElementOf(c).ptr

\* The readers of the four properties above: matchRecursive's, those of
\* printStateMachine and getDepths (compiled with PRINT_COMPRESSED_MACHINE only),
\* and the simple machine's.  Nothing in the program calls them.  Where what they
\* do is defined, they read what was set but for the differences described.  The
\* cases in which it is not defined are exactly a copy that does not fit, a printed
\* table and a printed path of more than 144 characters; nothing is claimed of the
\* failures printState_PC shows.
OtherReaders == TwoReaders /\ PrintsGotos /\ PrintsPath /\ SimpleReadsBack
=============================================================================
