---------------------------- MODULE MCTableMachine ---------------------------
(* Model checking of TableMachine: all pairs of short anchors, all texts.  *)
EXTENDS TableMachine

\* All strings over Char of length lo .. hi.
Words(lo, hi) == UNION {[1 .. n -> Char] : n \in lo .. hi}

AnchorStrings == {<<>>} \cup Words(1, 3)
LongTexts     == Words(5, 5)
=============================================================================
