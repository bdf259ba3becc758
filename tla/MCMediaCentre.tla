--------------------------- MODULE MCMediaCentre ---------------------------
(* A small instance of MediaCentre for TLC *)
EXTENDS MediaCentre
=============================================================================
