----------------------------- MODULE MCHlsMuxer -----------------------------
(* Small instances of HlsMuxer for TLC *)
EXTENDS HlsMuxer

AllInputs  == {-1, 0, 1}
=============================================================================
