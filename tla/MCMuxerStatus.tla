--------------------------- MODULE MCMuxerStatus ---------------------------
(* A small instance of MuxerStatus for TLC *)
EXTENDS MuxerStatus
=============================================================================
