---------------------------- MODULE UrlCompressor ----------------------------
(***************************************************************************)
(* CompressURLsMachine (TableStateMachineTest.c): with the table machine   *)
(* of the anchors it computes, for every prefix of a URL, the length P of  *)
(* an encoding of that prefix, and then walks back from the end of the URL *)
(* and emits the Huffman codes it chose.  A step is the start of a URL, an *)
(* iteration of the loop over its characters, or one emitted code.         *)
(*                                                                         *)
(* Of a Huffman code only the size is kept: BitPacker is about the bits.   *)
(* The characters are printable, so that createPattern_TM copies an anchor *)
(* as it is.  Texts are the URLs, without their newlines.                  *)
(***************************************************************************)
EXTENDS TableMachine

CONSTANTS
    AnchorSizes,  \* the sizes the codes of the entries of anchorsArr may have
    SymbolSizes,  \* symbolArr: the sizes the codes of the characters may have
    FirstP        \* what may be in P[0], which is never assigned

\* BuildAncorsData takes a token of one character for a symbol, so an anchor
\* has two or more; its code has at least one bit.  What a heap that is not zeroed does is ACBuilder's subject.
ASSUME UCAssumption ==
    /\ \A w \in Strings : Len(w) # 1
    /\ AnchorSizes \subseteq [1 .. MaxAnchors -> Nat \ {0}]
    /\ SymbolSizes \subseteq [Char -> Nat]
    /\ FirstP \subseteq Int
    /\ FreshCounts = {0}

Symbol == -1   \* a negative entry of ymins: the character itself

VARIABLES
    huffman_len,  \* sizes of the codes of anchorsArr
    symbolSize,   \* sizes of the codes of symbolArr
    P,            \* P[k]: the size of the encoding of the first k characters
    ymins,        \* ymins[k]: Symbol, or which of the anchors N[k] ends it
    N,            \* N[k]: the anchors found at position k
    z,            \* characters the walk back has still to encode
    bits,         \* size of what was put into results[x]
    output        \* auxiliary: the strings whose codes were put there

choiceVars == <<P, ymins, N>>
emitVars   == <<z, bits, output>>
sizeVars   == <<huffman_len, symbolSize>>
ucVars     == <<acVars, tmVars, sizeVars, choiceVars, emitVars>>

UCInit ==
    /\ TMInit
    /\ huffman_len \in AnchorSizes /\ symbolSize \in SymbolSizes
    /\ P = <<>> /\ ymins = <<>> /\ N = <<>>
    /\ z = 0 /\ bits = 0 /\ output = <<>>

Generate == generateTableStateMachine /\ UNCHANGED <<sizeVars, choiceVars, emitVars>>

-----------------------------------------------------------------------------
(* The anchors at a position.                                              *)

Reports(s) == matches[s] /\ patterns[s] # NullPattern

\* The state after each prefix of a text.
StatesFromCurrent(text) ==      \* mutant: not from the root
    LET after[k \in 0 .. Len(text)] ==
          IF k = 0 THEN current ELSE GetNextState(after[k - 1], text[k])
    IN after
StatesOf(text) ==
    LET after[k \in 0 .. Len(text)] ==
          IF k = 0 THEN Root ELSE GetNextState(after[k - 1], text[k])
    IN after

\* The first anchor of the last matching state on the way through the text: it
\* need not end where the text ends.
GetLongestAnchor(text) ==
    LET found == {k \in 1 .. Len(text) : Reports(StatesOf(text)[k])}
    IN  IF found = {} THEN <<>> ELSE <<slots[StatesOf(text)[Max(found)]][0]>>

\* The string machine->patterns holds for a state.
PatternOf(s) == IF patterns[s] \in {NullPattern, EmptyPattern} THEN <<>>
                ELSE anchors[patterns[s]]

\* curNode: the first anchor of the node, and what GetLongestAnchor finds in the
\* suffixes of its pattern of two characters or more.
AnchorsAt(s) ==
    LET w == PatternOf(s) IN
    <<slots[s][0]>> \o
    FlattenSeq([i \in 1 .. Max({0, Len(w) - 2}) |->
                  GetLongestAnchor(SubSeq(w, i + 1, Len(w)))])

FoundAt(s) == IF matches[s] THEN AnchorsAt(s) ELSE <<>>

-----------------------------------------------------------------------------
(* The loop over a URL.                                                    *)

StartURL ==
    /\ tpc \in {"ready", "encoded"}
    /\ input' \in Texts
    /\ \E garbage \in FirstP :
          P' = [k \in 0 .. Len(input') |-> IF k = 0 THEN garbage ELSE 0]
    /\ ymins' = [k \in 1 .. Len(input') |-> Symbol]
    /\ N' = [k \in 1 .. Len(input') |-> <<>>]
    /\ idx' = 0 /\ current' = Root
    /\ z' = 0 /\ bits' = 0 /\ output' = <<>>
    /\ tpc' = "compress"
    /\ UNCHANGED <<acVars, tableVars, returnIndex, sizeVars>>

SizeWithSymbol == P[idx] + symbolSize[input[idx + 1]]

\* The size of the encoding that ends with anchor k.
\* (The mutant is off by one.)
SizeOverlapping(k) == P[idx + 2 - Len(anchors[k])] + huffman_len[k]
SizeWith(k)        == P[idx + 1 - Len(anchors[k])] + huffman_len[k]

\* The index of the last of the anchors that is shorter than the symbol.
Choice(found) ==
    LET better == {y \in 1 .. Len(found) : SizeWith(found[y]) < SizeWithSymbol}
    IN  IF better = {} THEN Symbol ELSE Max(better) - 1

CompressChar ==
    LET next  == GetNextState(current, input[idx + 1])
        found == FoundAt(next)
        y     == Choice(found)
    IN /\ tpc = "compress" /\ idx < Len(input)
       /\ N' = [N EXCEPT ![idx + 1] = found]
       /\ ymins' = [ymins EXCEPT ![idx + 1] = y]
       /\ P' = [P EXCEPT ![idx + 1] =
                  IF y = Symbol THEN SizeWithSymbol ELSE SizeWith(found[y + 1])]
       /\ idx' = idx + 1 /\ current' = next
       /\ UNCHANGED <<acVars, tpc, tableVars, input, returnIndex, sizeVars, emitVars>>

StartEmit ==
    /\ tpc = "compress" /\ idx = Len(input)
    /\ z' = Len(input)
    /\ tpc' = "emit"
    /\ UNCHANGED <<acVars, tableVars, scanVars, sizeVars, choiceVars, bits, output>>

StepShort(k) == Len(anchors[k]) - 1          \* mutant: off by one
StepLong(k)  == Len(anchors[k]) + 1          \* mutant: off by one
StepBack(k)  == Len(anchors[k])

EmitAnchor ==
    LET k == N[z][ymins[z] + 1] IN
    /\ tpc = "emit" /\ z > 0 /\ ymins[z] # Symbol
    /\ bits' = bits + huffman_len[k]
    /\ output' = Append(output, anchors[k])
    /\ z' = z - StepBack(k)
    /\ UNCHANGED <<acVars, tpc, tableVars, scanVars, sizeVars, choiceVars>>

\* A character without a code, of size 0, is passed over: nothing is put into
\* the row for it.
EmitSymbol ==
    /\ tpc = "emit" /\ z > 0 /\ ymins[z] = Symbol
    /\ \/ /\ symbolSize[input[z]] # 0
          /\ bits' = bits + symbolSize[input[z]]
          /\ output' = Append(output, <<input[z]>>)
       \/ /\ symbolSize[input[z]] = 0
          /\ UNCHANGED <<bits, output>>
    /\ z' = z - 1
    /\ UNCHANGED <<acVars, tpc, tableVars, scanVars, sizeVars, choiceVars>>

EndEmit ==
    /\ tpc = "emit" /\ z <= 0
    /\ tpc' = "encoded"
    /\ UNCHANGED <<acVars, tableVars, scanVars, sizeVars, choiceVars, emitVars>>

CompressURLsMachine ==
    StartURL \/ CompressChar \/ StartEmit \/ EmitAnchor \/ EmitSymbol \/ EndEmit

UCNext == Generate \/ CompressURLsMachine

UCSpec == UCInit /\ [][UCNext]_ucVars
-----------------------------------------------------------------------------
(* Properties.                                                             *)

\* The walk back has begun.
Emitting == tpc \in {"emit", "encoded"}

\* Every variable has its type; a choice is the symbol or the index of an anchor
\* found at its position, and the walk back stays inside the URL.
UCTypeOK ==
    /\ ACTypeOK
    /\ tpc \in {"tree", "put", "ready", "compress", "emit", "encoded"}
    /\ input \in Texts \cup {<<>>} /\ idx \in 0 .. Len(input) /\ current \in Nodes
    /\ tpc \in {"compress", "emit", "encoded"} =>
          /\ P \in [0 .. Len(input) -> Int]
          /\ N \in [1 .. Len(input) -> Seq(1 .. Len(anchors))]
          /\ \A k \in 1 .. Len(input) : ymins[k] \in {Symbol} \cup 0 .. Len(N[k]) - 1
    /\ z \in 0 .. Len(input) /\ bits \in Nat /\ output \in Seq(Seq(Char))

\* The anchors the next iteration will find are no longer than the prefix it
\* will have read, the inexact ones of GetLongestAnchor too: P is never read
\* before its beginning.
CandidatesFit ==
    tpc = "compress" /\ idx < Len(input) =>
        \A k \in ToSet(FoundAt(GetNextState(current, input[idx + 1]))) :
            Len(anchors[k]) <= idx + 1

\* The walk back emits exactly as many bits as P promised, whatever was in the
\* unassigned P[0]: at any time the bits emitted and those P has for the rest
\* add up to the size P has for the whole URL.
EmitsWhatPSays == Emitting => bits + P[z] - P[0] = P[Len(input)] - P[0]

\* No anchor occurs in another behind its first character and before its end.
NoInnerAnchor ==
    \A v, w \in Entered :
        \A k \in 2 .. Len(w) - Len(v) : SubSeq(w, k, k + Len(v) - 1) # v

\* A text without its characters that have no code.
CodeOf(c)   == IF symbolSize[c] = 0 THEN <<>> ELSE <<c>>
Coded(text) == FlattenSeq([k \in 1 .. Len(text) |-> CodeOf(text[k])])

\* With such anchors the codes emitted are, from the last to the first, those
\* of strings that make up the URL, but for characters without a code: where
\* such a one is not part of an anchor nothing is emitted for it (line 190).
\* If every character has a code, and none begins with another, what is stored
\* can be decoded to the URL.  (With an inner anchor GetLongestAnchor may record
\* one that does not end at the position, and the wrong string is encoded; see
\* README.)
DecodesToURL ==
    Emitting /\ NoInnerAnchor =>
        LET decoded == FlattenSeq(Reverse(output))
            url     == SubSeq(input, z + 1, Len(input))
        IN /\ Coded(decoded) = Coded(url)
           /\ (\A c \in Char : symbolSize[c] # 0) => decoded = url

\* StateMachineTest.c, line 279: "if exist anchor which hoffmanCode minimizes
\* total lenght of encoded string than" its code is used: no anchor found at a
\* position gives a shorter encoding than the choice made there.
MinimizesLength ==
    [][CompressChar =>
         \A y \in DOMAIN N'[idx + 1] : P'[idx + 1] <= SizeWith(N'[idx + 1][y])]_ucVars
=============================================================================
