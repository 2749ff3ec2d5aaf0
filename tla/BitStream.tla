------------------------------ MODULE BitStream ------------------------------
(***************************************************************************)
(* What ConcutByteArrayToByteArray promises: the output is a stream of     *)
(* bits, and a call appends the bits of one code to it.                    *)
(***************************************************************************)
EXTENDS Naturals, Sequences

CONSTANT CodeBits   \* the codes, as sequences of bits

VARIABLE stream

Init == stream = <<>>
Next == \E code \in CodeBits : stream' = stream \o code
Spec == Init /\ [][Next]_stream
=============================================================================
