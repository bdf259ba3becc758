---------------------------- MODULE LivePlaylist ----------------------------
(***************************************************************************)
(* What the muxer of a live stream promises whoever follows its playlist:  *)
(* segments are finished one by one and enter a window at its end, leave   *)
(* it at the front, and do not change in between; a list that is published *)
(* is the whole window under the number of its first segment; and a        *)
(* segment stays fetchable until it is well behind the window.             *)
(***************************************************************************)
EXTENDS Naturals, Sequences

CONSTANTS
  MaxSegments,   \* length of the window
  Lengths        \* the durations of segments

VARIABLES
  live,          \* the stream goes on
  made,          \* how many segments were finished; they are numbered from 0
  kept,          \* those that can be fetched
  window,        \* the newest ones, with their durations
  list, first    \* what was last published, and the number it begins with

playlistVars == <<live, made, kept, window, list, first>>

Init ==
  /\ live = TRUE
  /\ made = 0 /\ kept = {} /\ window = <<>>
  /\ list = <<>> /\ first = 0

Finished == made' = made + 1 /\ kept' = kept \cup {made}

Make ==
  /\ live /\ Len(window) < MaxSegments
  /\ Finished
  /\ \E dur \in Lengths : window' = Append(window, [seq |-> made, dur |-> dur])
  /\ UNCHANGED <<live, list, first>>

(* to make room for the segment that was begun *)
Drop ==
  /\ live /\ Len(window) = MaxSegments
  /\ window' = Tail(window)
  /\ UNCHANGED <<live, made, kept, list, first>>

(* The list shows all there is to show, and so only the segment that was    *)
(* finished last is new in it.                                              *)
Publish ==
  /\ live /\ (Len(window) = made \/ Len(window) = MaxSegments)
  /\ list' = window
  /\ first' = IF window = <<>> THEN 0 ELSE window[1].seq
  /\ UNCHANGED <<live, made, kept, window>>

(* While the file is written anew a reader finds nothing in it. *)
Withdraw ==
  /\ list' = <<>> /\ first' = 0
  /\ UNCHANGED <<live, made, kept, window>>

(* The segments of the window, and the one that left it last, are kept. *)
Expire ==
  /\ \E s \in kept : s + MaxSegments + 1 < made /\ kept' = kept \ {s}
  /\ UNCHANGED <<live, made, window, list, first>>

(* The stream ends; the segment that was begun is finished too. *)
End ==
  /\ live /\ live' = FALSE
  /\ Finished \/ UNCHANGED <<made, kept>>
  /\ window' = <<>>
  /\ UNCHANGED <<list, first>>

Next == Make \/ Drop \/ Publish \/ Withdraw \/ Expire \/ End

Spec == Init /\ [][Next]_playlistVars
=============================================================================
