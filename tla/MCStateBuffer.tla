---------------------------- MODULE MCStateBuffer -----------------------------
EXTENDS StateBuffer

\* n elements.  The characters are not in order and from 4 elements on not all
\* ASCII; a and b vary the types, the matches and the pointers.
MCElements(n, step, types, a, b) ==
    [k \in 1 .. n |->
        [c |-> (k * step) % 256,
         ptr |-> <<0, 1, 255, 256, 65534>>[((k * b + a) % 5) + 1],
         type |-> types[((k * a + b) % Len(types)) + 1],
         match |-> ((k * (b + 1) + a) \div 2) % 2]]

MCElementLists ==
    {MCElements(n, s, <<REGULAR, LEVEL1, REGULAR, LEVEL2>>, a, b) :
        n \in {1, 2, 3, 4, 5, 9}, s \in {37, 219}, a \in 0 .. 2, b \in 0 .. 1}
      \cup
    {MCElements(n, 3, <<REGULAR, REGULAR, LEVEL2>>, 1, 1) : n \in {63, 64, 65}}

MCPathLists ==
    {MCElements(n, 97, <<REGULAR, LEVEL1, LEVEL2>>, a, b) :
        n \in {1, 2, 3, 4, 5, 8, 9}, a \in 0 .. 2, b \in 0 .. 2}
      \cup {MCElements(257, 1, <<REGULAR, LEVEL1>>, 1, 1)}
=============================================================================
