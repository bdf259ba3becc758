----------------------------- MODULE MCSchedule -----------------------------
(* Small instances of Schedule for TLC *)
EXTENDS Schedule, TLC

(* Data threads and addresses are interchangeable *)
ThreadSymmetry == Permutations(Workers) \cup Permutations(Allocators)

(* ... and so are stream ids: the model visits the map in any order *)
FullSymmetry == ThreadSymmetry \cup Permutations(StreamIds)
=============================================================================
