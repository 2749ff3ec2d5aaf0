-------------------------- MODULE MCDictionaryScan ---------------------------
(* Instances of DictionaryScan for TLC: words of two characters. *)
EXTENDS DictionaryScan

W(a, b) == <<a, b>>

MCChar  == {0, 97, 98}
MCWords == [1 .. 2 -> MCChar]

\* Words one by one, cut at a 0, repeated, and five different ones that need
\* the far probes of one hash.
MCFiles ==
    {<<>>,
     <<W(97, 98)>>,
     <<W(98, 97), W(97, 97)>>,
     <<W(0, 97), W(97, 98)>>,
     <<W(97, 0), W(0, 98), W(98, 98)>>,
     <<W(97, 98), W(97, 98), W(98, 97), W(97, 97)>>,
     <<W(97, 97), W(98, 98), W(97, 98), W(98, 97), W(97, 0)>>,
     [i \in 1 .. 8 |-> W(98, 97)]}

\* All words on one hash, the low bits only, and spread ones.
MCHash(a, b, m) == [w \in MCWords |-> (a * w[1] + b * w[2]) % m]
MCHashers ==
    {[one |-> MCHash(0, 0, 1), two |-> MCHash(1, 2, 7)],
     [one |-> MCHash(1, 0, 2), two |-> MCHash(0, 1, 2)],
     [one |-> MCHash(1, 3, 5), two |-> MCHash(3, 1, 4)],
     [one |-> [w \in MCWords |-> 3 + MCHash(3, 1, 11)[w]], two |-> MCHash(1, 1, 3)]}

MCAnchorSets ==
    {{<<97>>, <<98, 97, 98>>},
     {<<98, 97, 98, 97>>, <<97, 97>>},
     {<<98>>, <<97, 98, 98>>}}

MCTexts ==
    {<<97, 98>>, <<98, 97, 98, 97, 97>>, <<98, 97, 97, 98, 98, 97>>, <<97, 0, 98, 97, 98, 98, 0>>,
     <<98, 0, 0, 97, 98, 98, 97>>, <<97, 97, 98, 97, 98, 97, 97, 98>>}
=============================================================================
