--------------------------- MODULE RtspPushProofs ---------------------------
(***************************************************************************)
(* Theorems of RtspPush, for any number of streams, any choice of the best *)
(* two, and any number of frames in a packet.                              *)
(***************************************************************************)
EXTENDS RtspPush, TLAPS

SettingUp == {"open", "codecs", "output", "swr"}
Looping == {"read", "video", "audio?", "audio", "convert"}

(* What the loop knows of the packet at each of its tests *)
PacketInv ==
  /\ pc = "video" => pkt.data
  /\ pc \in {"audio?", "audio"} /\ ~pkt.data => pkt.index = 0 /\ ~input.vTarget
  /\ pc = "audio" => pkt.index = input.a_index
  /\ pc = "convert" => ~input.aTarget

DecoderInv ==
  decoder = "draining" => input.a_index = 0 /\ ~input.vTarget /\ ~input.aTarget

ClosedInv ==
  /\ pc \in SettingUp \cup Looping => refused = 0
  /\ refused <= 1

OutputInv ==
  /\ output = "header" => pc \in {"swr", "trailer"} \cup Looping \/ swrFailed
  /\ pc \in {"open", "codecs", "output"} => output = "none"

Inv == TypeOK /\ PacketInv /\ DecoderInv /\ ClosedInv /\ OutputInv

-----------------------------------------------------------------------------

LEMMA InvInit == Init => Inv
<1> SUFFICES ASSUME Init PROVE Inv
  OBVIOUS
<1>1. 0 \in 0..(MaxStreams - 1)
  BY RtspPushAssumption DEF Init
<1>2. TypeOK
  <2>1. pkt \in [index: 0..(MaxStreams - 1), data: BOOLEAN]
    BY <1>1 DEF Init, Blank
  <2>2. frames \in 0..MaxFrames /\ refused \in Nat
    BY RtspPushAssumption DEF Init
  <2>3. closed \in BOOLEAN /\ swrFailed \in BOOLEAN
    BY DEF Init
  <2> QED
    BY <2>1, <2>2, <2>3 DEF Init, TypeOK
<1> QED
  BY <1>2 DEF Init, Inv, PacketInv, DecoderInv, ClosedInv, OutputInv, SettingUp, Looping, Blank

LEMMA InvStep == Inv /\ [Next]_vars => Inv'
<1> SUFFICES ASSUME Inv, [Next]_vars PROVE Inv'
  OBVIOUS
<1> USE RtspPushAssumption DEF Inv, TypeOK, SettingUp, Looping
<1>a. Blank \in [index: 0..(MaxStreams - 1), data: BOOLEAN] /\ ~Blank.data /\ Blank.index = 0
  BY DEF Blank
<1>1. CASE OpenInput
  BY <1>a, <1>1 DEF OpenInput, Setup, PacketInv, DecoderInv, ClosedInv, OutputInv
<1>2. CASE OpenCodecs
  BY <1>a, <1>2 DEF OpenCodecs, Setup, PacketInv, DecoderInv, ClosedInv, OutputInv
<1>3. CASE WriteHeader
  BY <1>a, <1>3 DEF WriteHeader, Setup, PacketInv, DecoderInv, ClosedInv, OutputInv
<1>4. CASE InitSwr
  BY <1>a, <1>4 DEF InitSwr, Setup, PacketInv, DecoderInv, ClosedInv, OutputInv
<1>5. CASE Read
  BY <1>a, <1>5 DEF Read, LoopStep, PacketInv, DecoderInv, ClosedInv, OutputInv
<1>6. CASE ReadEnds
  BY <1>a, <1>6 DEF ReadEnds, LoopStep, PacketInv, DecoderInv, ClosedInv, OutputInv
<1>7. CASE PushVideo
  BY <1>a, <1>7 DEF PushVideo, Push, LoopStep, PacketInv, DecoderInv, ClosedInv, OutputInv
<1>8. CASE PushOtherVideo
  BY <1>a, <1>8 DEF PushOtherVideo, Push, LoopStep, PacketInv, DecoderInv, ClosedInv, OutputInv
<1>9. CASE IsAudio
  BY <1>a, <1>9 DEF IsAudio, LoopStep, PacketInv, DecoderInv, ClosedInv, OutputInv
<1>10. CASE PushAudio
  BY <1>a, <1>10 DEF PushAudio, Push, LoopStep, PacketInv, DecoderInv, ClosedInv, OutputInv
<1>11. CASE ConvertRefused
  BY <1>a, <1>11 DEF ConvertRefused, LoopStep, PacketInv, DecoderInv, ClosedInv, OutputInv
<1>12. CASE ConvertSend
  BY <1>a, <1>12 DEF ConvertSend, LoopStep, PacketInv, DecoderInv, ClosedInv, OutputInv
<1>13. CASE ConvertEnds
  BY <1>a, <1>13 DEF ConvertEnds, LoopStep, PacketInv, DecoderInv, ClosedInv, OutputInv
<1>14. CASE ConvertNothing
  BY <1>a, <1>14 DEF ConvertNothing, LoopStep, PacketInv, DecoderInv, ClosedInv, OutputInv
<1>15. CASE EncodeWrite
  BY <1>a, <1>15 DEF EncodeWrite, Push, LoopStep, PacketInv, DecoderInv, ClosedInv, OutputInv
<1>16. CASE Trailer
  BY <1>a, <1>16 DEF Trailer, PacketInv, DecoderInv, ClosedInv, OutputInv
<1>17. CASE Destroy
  BY <1>a, <1>17 DEF Destroy, PacketInv, DecoderInv, ClosedInv, OutputInv
<1>18. CASE ConnectionCloses
  BY <1>a, <1>18 DEF ConnectionCloses, PacketInv, DecoderInv, ClosedInv, OutputInv
<1>19. CASE UNCHANGED vars
  BY <1>19 DEF vars, PacketInv, DecoderInv, ClosedInv, OutputInv
<1> QED
  BY <1>1, <1>2, <1>3, <1>4, <1>5, <1>6, <1>7, <1>8, <1>9, <1>10,
     <1>11, <1>12, <1>13, <1>14, <1>15, <1>16, <1>17, <1>18, <1>19
     DEF Next, Pusher

-----------------------------------------------------------------------------

(* Every variable of the pusher keeps its type. *)
THEOREM TypeCorrect == Spec => []TypeOK
<1>1. Inv => TypeOK
  BY DEF Inv
<1> QED
  BY InvInit, InvStep, <1>1, PTL DEF Spec

(* The audio decoder is drained by a blank packet only for a video that is  *)
(* not H264 and an audio that is stream 0 and not AAC (rtsp_push.cpp:612).  *)
THEOREM AudioLostOnlyIf == Spec => []AudioLostExplained
<1>1. Inv => AudioLostExplained
  BY DEF Inv, PacketInv, DecoderInv, AudioLostExplained, BlankTaken
<1> QED
  BY InvInit, InvStep, <1>1, PTL DEF Spec

(* The first push that finds the connection closed leaves the loop, from    *)
(* each of the four places it is called from (rtsp_push.cpp:604).           *)
THEOREM LeavesAfterClose == Spec => []NothingAfterClose
<1>1. Inv => NothingAfterClose
  BY DEF Inv, TypeOK, ClosedInv, NothingAfterClose, SettingUp, Looping
<1> QED
  BY InvInit, InvStep, <1>1, PTL DEF Spec

(* A pusher that ends has written the trailer to every server it has sent   *)
(* a header, unless the resampler could not be made (rtsp_push.cpp:667).    *)
THEOREM EndsWhatItAnnounced == Spec => []AnnouncedIsEnded
<1>1. Inv => AnnouncedIsEnded
  BY DEF Inv, OutputInv, AnnouncedIsEnded, Looping
<1> QED
  BY InvInit, InvStep, <1>1, PTL DEF Spec
=============================================================================
