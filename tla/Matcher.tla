------------------------------- MODULE Matcher -------------------------------
(***************************************************************************)
(* What a scan of the full table machine promises, without automaton or    *)
(* table: after every character it knows the longest suffix of the text    *)
(* read so far that is a prefix of an anchor, and it reports positions     *)
(* where an anchor ends.  It must report where that longest suffix is      *)
(* itself an anchor, or the next longest is one; elsewhere it may.         *)
(***************************************************************************)
EXTENDS Naturals, Sequences

CONSTANT Char

VARIABLES
    dictionary,  \* the anchors, a set of nonempty strings
    read,        \* the text read so far
    longest,     \* its longest suffix that is a prefix of an anchor
    reports      \* the number of positions reported

vars == <<dictionary, read, longest, reports>>

PrefixesOf(w) == {SubSeq(w, 1, k) : k \in 0 .. Len(w)}
SuffixesOf(w) == {SubSeq(w, k, Len(w)) : k \in 1 .. Len(w) + 1}
Prefixes      == {<<>>} \cup UNION {PrefixesOf(w) : w \in dictionary}

LongestKnownSuffix(text) ==
    CHOOSE w \in SuffixesOf(text) \cap Prefixes :
        \A v \in SuffixesOf(text) \cap Prefixes : Len(v) <= Len(w)

AnchorEnds(text) == SuffixesOf(text) \cap dictionary # {}

Init == read = <<>> /\ longest = <<>> /\ reports = 0

\* No anchor is missed at the longest suffix w itself, which is then an anchor, nor
\* at the longest that is shorter, which w inherits.
Certain(w) == w # <<>> /\ {w, LongestKnownSuffix(Tail(w))} \cap dictionary # {}

Read(c) ==
    LET text == Append(read, c) IN
    /\ read' = text
    /\ longest' = LongestKnownSuffix(text)
    /\ \/ AnchorEnds(text) /\ reports' = reports + 1
       \/ ~ Certain(longest') /\ reports' = reports
    /\ UNCHANGED dictionary

Next == \E c \in Char : Read(c)

Spec == Init /\ [][Next]_vars
=============================================================================
