------------------------------ MODULE MCPlayer ------------------------------
(* A small instance of Player for TLC *)
EXTENDS Player
=============================================================================
