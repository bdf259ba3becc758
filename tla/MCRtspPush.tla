----------------------------- MODULE MCRtspPush -----------------------------
(* A small instance of RtspPush for TLC *)
EXTENDS RtspPush
=============================================================================
