------------------------- MODULE MCCompressedMachine --------------------------
(* Overlapping anchors over a, b and c: inner nodes that match, failures to  *)
(* every depth, into paths and over leaves.                                  *)
EXTENDS CompressedMachine

a == 97
b == 98
c == 99

MCStrings == {<<a, b>>, <<b, c>>, <<a, b, c, a>>, <<b, c, a, a>>, <<c, a, b, c, b>>, <<b, b>>, <<c, a>>,
              <<a, a, b>>, <<b, c, c>>}

MCGotoLimits == {<<0, 0>>, <<2, 2>>, <<0, 2>>}

\* d begins no anchor.
MCTexts == {<<a, b, c, a, b, c, b>>, <<b, c, a, a, b, b, c>>, <<c, a, b, 100, b, c, a>>, <<c, a, b, c, a, a, b>>}
=============================================================================
