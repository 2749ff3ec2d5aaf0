--------------------------- MODULE MCUrlCompressor ---------------------------
(* Model checking of UrlCompressor: anchors that overlap, are suffixes of   *)
(* each other, or occur inside each other; codes that are worth their       *)
(* anchor or not; a character without a code.                               *)
EXTENDS UrlCompressor

CONSTANTS a, b

AnchorStrings == {<<>>, <<a, b>>, <<b, a>>, <<b, a, b>>, <<a, a, b, a>>, <<b, a, a, b>>}
SomeTexts ==
    {<<>>, <<b>>, <<b, a, b, a>>, <<a, a, b, a, b>>, <<b, a, a, b, a>>, <<a, b, a, a, b, a>>}

\* Symbols are three bits, anchors short, long, or in between.
SomeAnchorSizes == {<<2, 2, 2>>, <<5, 2, 7>>, <<4, 9, 1>>}
SomeSymbolSizes == {[c \in Char |-> 3], [c \in Char |-> IF c = a THEN 0 ELSE 4]}
Stack           == {0, 4}
=============================================================================
