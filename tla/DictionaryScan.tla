--------------------------- MODULE DictionaryScan ----------------------------
(***************************************************************************)
(* matchDictionaryTableMachine (TableStateMachine.c): a scan of the full   *)
(* table machine that jumps over the words of the dictionary.  The flag    *)
(* TEST_BLOOM_PERF_ONLY of Flags.h chooses between that scan and one that  *)
(* only asks the Bloom filter; the model has both builds.                  *)
(*                                                                         *)
(* The automaton is the one module Matcher promises: a state is the longest *)
(* suffix of the text read that is a prefix of an anchor, its depth is its *)
(* length.  Module TableMachine shows that the table implements it.        *)
(***************************************************************************)
EXTENDS Dictionary

CONSTANTS
    AnchorSets,   \* the sets of anchors the machine may be built from
    Texts         \* the texts given to the scan

ASSUME ScanAssumption ==
    /\ \A A \in AnchorSets : A \subseteq Seq(Char) /\ <<>> \notin A
    /\ Texts \subseteq Seq(Char)

VARIABLES
    testBloomOnly,  \* TEST_BLOOM_PERF_ONLY
    anchors,        \* the anchors of the machine
    matches,        \* the states whose bit is set in machine->matches
    spc,            \* the step of the scan: "idle", "loop", "border", "ended"
    input, idx,     \* the text and the characters consumed
    current,        \* state of the scan
    entry,          \* the entry found
    j,              \* characters consumed before a jump
    reported,       \* positions behind which a match was reported
    jumped          \* the words jumped over: first character and entry

machineVars == <<testBloomOnly, anchors, matches>>
loopVars    == <<input, idx, current, entry, j, reported, jumped>>
scanVars    == <<machineVars, spc, loopVars>>

M == INSTANCE Matcher WITH
        dictionary <- anchors,
        read       <- SubSeq(input, 1, idx),
        longest    <- current,
        reports    <- Cardinality(reported)

\* A node is flagged as a match where its word is an anchor; one whose word only
\* ends with an anchor may be.
ScanInit ==
    /\ DictInit
    /\ testBloomOnly \in BOOLEAN
    /\ anchors \in AnchorSets
    /\ \E inherited \in SUBSET {s \in M!Prefixes : M!AnchorEnds(s)} :
          matches = anchors \cup inherited
    /\ spc = "idle"
    /\ input = <<>> /\ idx = 0 /\ current = <<>> /\ entry = NoEntry /\ j = 0
    /\ reported = {} /\ jumped = {}

-----------------------------------------------------------------------------
GET_NEXT_STATE(s, c) == M!LongestKnownSuffix(Append(s, c))
depthMap(s)          == Len(s)

\* SCAN_SINGLE_CHAR_SHORT, the character behind position i.
ScanSingleChar(i) ==
    LET next == GET_NEXT_STATE(current, input[i + 1]) IN
    /\ current' = next
    /\ reported' = IF next \in matches THEN reported \cup {i + 1} ELSE reported

\* The word that starts behind position idx; it needs Width characters.
Window == [k \in 1 .. Width |-> input[idx + k]]

StartScan ==
    /\ dpc = "ready" /\ spc = "idle"
    /\ input' \in Texts
    /\ idx' = 0 /\ current' = <<>> /\ entry' = NoEntry /\ j' = 0
    /\ reported' = {} /\ jumped' = {}
    /\ spc' = "loop"
    /\ UNCHANGED <<dictVars, machineVars>>

\* The build that only asks the Bloom filter.  It hashes a whole word also where
\* fewer characters are left, and then takes whatever the memory holds.
BloomStep ==
    /\ spc = "loop" /\ testBloomOnly /\ idx < Len(input)
    /\ \E val \in IF idx + Width <= Len(input) THEN {InBloom(Window)} ELSE BOOLEAN :
          idx' = IF val THEN idx + Width ELSE idx + 1
    /\ UNCHANGED <<dictVars, machineVars, spc, input, current, entry, j, reported, jumped>>

\* The last word of a text is never looked up.
LooksUp == idx + Width < Len(input)

FindWord ==
    /\ spc = "loop" /\ ~ testBloomOnly /\ LooksUp
    /\ DICTIONARY_GET(Window) # NoEntry
    /\ entry' = DICTIONARY_GET(Window)
    /\ j' = idx
    /\ spc' = "border"
    /\ UNCHANGED <<dictVars, machineVars, input, idx, current, reported, jumped>>

\* The state no longer depends on what precedes the word.
BorderEndsEarly(s, n) == Len(s) <= n + 1    \* mutant: one character too early
BorderEnds(s, n)      == depthMap(s) <= n

\* The characters of the word that a match from before it may still reach.
BorderChar ==
    /\ spc = "border" /\ j < idx + Width
    /\ ~ BorderEnds(current, j - idx)
    /\ ScanSingleChar(j)
    /\ j' = j + 1
    /\ UNCHANGED <<dictVars, machineVars, spc, input, idx, entry, jumped>>

\* potentialJump: the state the machine reaches on the entry's word.
StateOf(e) == M!LongestKnownSuffix(entries[e].scanned)

Jump ==
    /\ spc = "border" /\ j < idx + Width
    /\ BorderEnds(current, j - idx)
    /\ current' = StateOf(entry)
    /\ jumped' = jumped \cup {<<idx + 1, entry>>}
    /\ idx' = idx + Width
    /\ spc' = "loop"
    /\ UNCHANGED <<dictVars, machineVars, input, entry, j, reported>>

NoJump ==
    /\ spc = "border" /\ j = idx + Width
    /\ idx' = j
    /\ spc' = "loop"
    /\ UNCHANGED <<dictVars, machineVars, input, current, entry, j, reported, jumped>>

ScanChar ==
    /\ spc = "loop" /\ ~ testBloomOnly /\ idx < Len(input)
    /\ LooksUp => DICTIONARY_GET(Window) = NoEntry
    /\ ScanSingleChar(idx)
    /\ idx' = idx + 1
    /\ UNCHANGED <<dictVars, machineVars, spc, input, entry, j, jumped>>

EndScan ==
    /\ spc = "loop" /\ idx >= Len(input)
    /\ spc' = "ended"
    /\ UNCHANGED <<dictVars, machineVars, loopVars>>

matchDictionaryTableMachine ==
    StartScan \/ BloomStep \/ FindWord \/ BorderChar \/ Jump \/ NoJump
    \/ ScanChar \/ EndScan

-----------------------------------------------------------------------------
Load    == DictLoad /\ UNCHANGED scanVars
Destroy == spc = "ended" /\ dictionary_destroy /\ UNCHANGED scanVars

ScanNext == Load \/ matchDictionaryTableMachine \/ Destroy

ScanSpec == ScanInit /\ [][ScanNext]_<<dictVars, scanVars>>
-----------------------------------------------------------------------------
(* Properties.                                                             *)

\* Every variable has its type.  The scan that only asks the Bloom filter may
\* end behind the text, by less than a word; the other one never does.
ScanTypeOK ==
    /\ DictTypeOK
    /\ testBloomOnly \in BOOLEAN /\ anchors \in AnchorSets
    /\ matches \subseteq M!Prefixes /\ anchors \subseteq matches
    /\ spc \in {"idle", "loop", "border", "ended"}
    /\ input \in Texts \cup {<<>>}
    /\ idx \in 0 .. Len(input) + (IF testBloomOnly THEN Width - 1 ELSE 0)
    /\ current \in M!Prefixes
    /\ j \in 0 .. Len(input)
    /\ reported \subseteq 1 .. Len(input)
    /\ entry \in Nat
    /\ jumped \subseteq (1 .. Len(input)) \X Nat

\* How far the scan has come.
Reached == IF spc = "border" THEN j ELSE idx

\* No jump over a word cut at a 0: its entry keeps the state of the whole line but
\* only the characters before the 0 (DictionaryReader.c:55).
JumpsWholeWords ==
    \A w \in jumped : entries[w[2]].word = entries[w[2]].scanned

\* Position p lies in a jumped word, with the whole of some anchor that ends there.
AnchorInsideJump(p) ==
    \E w \in jumped : \E k \in w[1] .. p :
        p < w[1] + Width /\ SubSeq(input, k, p) \in anchors

\* Jumping over words leaves the scan in the state a scan of every character
\* would be in.  What it reports is an anchor, and the positions it must report
\* and does not are those whose anchors lie in words it jumped over: an anchor
\* that begins before the word is never lost.
JumpsKeepTheScan ==
    (dpc = "ready" /\ ~ testBloomOnly /\ JumpsWholeWords) =>
        /\ current = M!LongestKnownSuffix(SubSeq(input, 1, Reached))
        /\ \A p \in reported : M!AnchorEnds(SubSeq(input, 1, p))
        /\ \A p \in 1 .. Reached :
              M!LongestKnownSuffix(SubSeq(input, 1, p)) \in anchors =>
                  p \in reported \/ AnchorInsideJump(p)
=============================================================================
