----------------------------- MODULE MCACBuilder -----------------------------
(* Model checking of ACBuilder on all lists of short anchors.              *)
EXTENDS ACBuilder

\* All strings over Char of length lo .. hi.
Words(lo, hi) == UNION {[1 .. n -> Char] : n \in lo .. hi}

\* The empty string is an unused entry of anchorsArr (dwSizeOfUrl = 0).
ShortStrings == {<<>>} \cup Words(1, 3)
\* Words whose inner nodes are no anchors, and inherit the one of a letter.
LooseStrings == {w \in Words(1, 3) : Len(w) # 2 /\ w[1] = w[Len(w)]}

\* Uninitialised counters: a slot too far, behind the slots, before them.
Garbage == {1, 2, -1}
=============================================================================
