----------------------------- MODULE MCBitPacker -----------------------------
(* Model checking of BitPacker.  The sizes are around one and two bytes, so *)
(* that a code ends before, at and behind the end of a byte; the bits tell  *)
(* neighbours apart, and those behind the size of a code are not zero.      *)
EXTENDS BitPacker

CONSTANT Sizes

Ones(k, b)  == 1
Mixed(k, b) == IF (k + b) % 3 = 0 THEN 1 ELSE 0

SampleCodes ==
    UNION {{[size |-> n, bytes |-> [k \in 0 .. n \div 8 |-> [b \in 0 .. 7 |-> Ones(k, b)]]],
            [size |-> n, bytes |-> [k \in 0 .. n \div 8 |-> [b \in 0 .. 7 |-> Mixed(k, b)]]]}
           : n \in Sizes}
=============================================================================
