-------------------------- MODULE MCPacketPipeline ---------------------------
(* Model checking of PacketPipeline with three scanners.                    *)
EXTENDS PacketPipeline
=============================================================================
