--------------------------- MODULE MCPacketQueue ---------------------------
(* A small instance of PacketQueue for TLC *)
EXTENDS PacketQueue
=============================================================================
