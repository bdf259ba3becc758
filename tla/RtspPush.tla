------------------------------ MODULE RtspPush ------------------------------
(***************************************************************************)
(* The RTSP pusher (rtsp/rtsp_push.cpp): one thread sets up an input and   *)
(* an RTSP output, copies packets from one to the other, encodes the audio *)
(* anew where it is neither H264 nor AAC, and writes the trailer.          *)
(*                                                                         *)
(* av_interleaved_write_frame takes the data of the packet and leaves it   *)
(* blank, with stream index 0, whether it succeeds or not.  A blank packet *)
(* that is sent to a decoder means that no more will come.                 *)
(***************************************************************************)
EXTENDS Naturals

CONSTANTS
  MaxFrames,     \* frames the audio decoder gives for one packet, at most
  MaxStreams     \* streams of the input

ASSUME RtspPushAssumption ==
  MaxFrames \in Nat /\ MaxStreams \in Nat

VARIABLES
  input,     \* its best streams, and whether is_target_codec says yes of them
  pc,
  pkt,       \* the packet: its stream index, and whether it has data
  frames,    \* frames that convert_audio_packet still gets for the packet
  decoder,   \* the audio decoder: open, or draining after a blank packet
  output,    \* the output context: none, header written, trailer written
  closed,    \* the RTSP server has closed the connection
  refused,   \* history: how often a push has met the closed connection
  swrFailed  \* history: the resampler could not be made

vars == <<input, pc, pkt, frames, decoder, output, closed, refused, swrFailed>>

Blank == [index |-> 0, data |-> FALSE]

Init ==
  /\ input \in [v_index: 0..(MaxStreams - 1), a_index: 0..(MaxStreams - 1),
                vTarget: BOOLEAN, aTarget: BOOLEAN]
  /\ input.v_index # input.a_index
  /\ pc = "open"
  /\ pkt = Blank
  /\ frames = 0
  /\ decoder = "none"
  /\ output = "none"
  /\ closed = FALSE
  /\ refused = 0
  /\ swrFailed = FALSE

-----------------------------------------------------------------------------
(* push_thread, until its loop.  An error returns, and start() goes on to   *)
(* destroy().                                                               *)

Setup(from, to) ==
  /\ pc = from /\ pc' = to
  /\ UNCHANGED <<input, pkt, frames, closed, refused>>

OpenInput ==
  /\ Setup("open", "codecs") \/ Setup("open", "destroy")
  /\ UNCHANGED <<decoder, output, swrFailed>>

(* The decoders of the input and the encoders of the output *)
OpenCodecs ==
  /\ \/ Setup("codecs", "output") /\ decoder' = "open"
     \/ Setup("codecs", "destroy") /\ UNCHANGED decoder
  /\ UNCHANGED <<output, swrFailed>>

WriteHeader ==
  /\ \/ Setup("output", "swr") /\ output' = "header"
     \/ Setup("output", "destroy") /\ UNCHANGED output
  /\ UNCHANGED <<decoder, swrFailed>>

InitSwr ==
  /\ \/ Setup("swr", "read") /\ UNCHANGED swrFailed
     \/ Setup("swr", "destroy") /\ swrFailed' = TRUE
  /\ UNCHANGED <<decoder, output>>

-----------------------------------------------------------------------------
(* The loop *)

LoopStep(from, to) ==
  /\ pc = from /\ pc' = to
  /\ UNCHANGED <<input, output, closed, swrFailed>>

(* A packet with data, of the video, the audio or another stream *)
Read ==
  /\ \E i \in 0..(MaxStreams - 1) : pkt' = [index |-> i, data |-> TRUE]
  /\ LoopStep("read", IF pkt'.index = input.v_index THEN "video" ELSE "audio?")
  /\ UNCHANGED <<frames, decoder, refused>>

(* mutant: return for break *)
ReadEndsReturns ==
  /\ LoopStep("read", "destroy")
  /\ UNCHANGED <<pkt, frames, decoder, refused>>

(* End of the input, or EAGAIN; other errors are tried again for ever *)
ReadEnds ==
  /\ LoopStep("read", "trailer")
  /\ UNCHANGED <<pkt, frames, decoder, refused>>

(* push(): the three results the loop tells apart.  Only a closed           *)
(* connection gives EPIPE.                                                  *)
Push(from, ok, error, epipe) ==
  /\ \/ ~closed /\ LoopStep(from, ok) /\ UNCHANGED refused
     \/ ~closed /\ LoopStep(from, error) /\ UNCHANGED refused
     \/ closed /\ LoopStep(from, epipe) /\ refused' = refused + 1
  /\ UNCHANGED decoder

(* mutant: no continue after the packet is pushed *)
PushVideoFallsThrough ==
  /\ input.vTarget
  /\ pkt' = Blank
  /\ Push("video", "audio?", "audio?", "trailer")
  /\ UNCHANGED frames

PushVideo ==
  /\ input.vTarget
  /\ pkt' = Blank
  /\ Push("video", "read", "read", "trailer")
  /\ UNCHANGED frames

(* The same without continue: the packet, blank now, is tested for audio    *)
PushOtherVideo ==
  /\ ~input.vTarget
  /\ pkt' = Blank
  /\ Push("video", "audio?", "audio?", "trailer")
  /\ UNCHANGED frames

IsAudio ==
  /\ LoopStep("audio?", IF pkt.index = input.a_index THEN "audio" ELSE "read")
  /\ UNCHANGED <<pkt, frames, decoder, refused>>

PushAudio ==
  /\ input.aTarget
  /\ pkt' = Blank
  /\ Push("audio", "read", "read", "trailer")
  /\ UNCHANGED frames

(* convert_audio_packet: the decoder refuses the packet, which a draining   *)
(* one always does, or takes it; a blank one makes it drain                 *)
ConvertRefused ==
  /\ ~input.aTarget
  /\ LoopStep("audio", "read")
  /\ pkt' = Blank
  /\ UNCHANGED <<frames, decoder, refused>>

ConvertSend ==
  /\ ~input.aTarget
  /\ decoder = "open"
  /\ LoopStep("audio", "convert")
  /\ decoder' = IF pkt.data THEN "open" ELSE "draining"
  /\ frames' \in 0..MaxFrames
  /\ UNCHANGED <<pkt, refused>>

(* No frame is left, or a frame cannot be encoded *)
ConvertEnds ==
  /\ LoopStep("convert", "read")
  /\ frames' = 0
  /\ pkt' = Blank
  /\ UNCHANGED <<decoder, refused>>

(* swr_convert fails, or the encoder gives no packet for the frame *)
ConvertNothing ==
  /\ frames > 0
  /\ LoopStep("convert", "convert")
  /\ frames' = frames - 1
  /\ UNCHANGED <<pkt, decoder, refused>>

(* mutant: a closed connection is an error like any other *)
EncodeWriteAnyhow ==
  /\ frames > 0
  /\ frames' = frames - 1
  /\ Push("convert", "convert", "read", "read")
  /\ UNCHANGED pkt

(* encode_write_audio_frame pushes a packet *)
EncodeWrite ==
  /\ frames > 0
  /\ frames' = frames - 1
  /\ Push("convert", "convert", "read", "trailer")
  /\ UNCHANGED pkt

Trailer ==
  /\ pc = "trailer" /\ pc' = "destroy"
  /\ output' = "trailer"
  /\ UNCHANGED <<input, pkt, frames, decoder, closed, refused, swrFailed>>

Destroy ==
  /\ pc = "destroy" /\ pc' = "end"
  /\ decoder' = "none"
  /\ UNCHANGED <<input, pkt, frames, output, closed, refused, swrFailed>>

ConnectionCloses ==
  /\ ~closed /\ output = "header"
  /\ closed' = TRUE
  /\ UNCHANGED <<input, pc, pkt, frames, decoder, output, refused, swrFailed>>

-----------------------------------------------------------------------------

Pusher ==
  \/ OpenInput \/ OpenCodecs \/ WriteHeader \/ InitSwr
  \/ Read \/ ReadEnds \/ PushVideo \/ PushOtherVideo \/ IsAudio \/ PushAudio
  \/ ConvertRefused \/ ConvertSend \/ ConvertEnds \/ ConvertNothing \/ EncodeWrite
  \/ Trailer \/ Destroy

Next == Pusher \/ ConnectionCloses

Spec == Init /\ [][Next]_vars

-----------------------------------------------------------------------------
(* Properties *)

(* Every variable of the pusher has its type. *)
TypeOK ==
  /\ input \in [v_index: 0..(MaxStreams - 1), a_index: 0..(MaxStreams - 1),
                vTarget: BOOLEAN, aTarget: BOOLEAN]
  /\ pc \in {"open", "codecs", "output", "swr", "read", "video", "audio?", "audio",
             "convert", "trailer", "destroy", "end"}
  /\ pkt \in [index: 0..(MaxStreams - 1), data: BOOLEAN]
  /\ frames \in 0..MaxFrames
  /\ decoder \in {"none", "open", "draining"}
  /\ output \in {"none", "header", "trailer"}
  /\ closed \in BOOLEAN /\ swrFailed \in BOOLEAN /\ refused \in Nat

(* A packet is pushed as what it is.  The one exception: a video that is    *)
(* not H264 goes through the test for audio as well, blank and with index   *)
(* 0; if the audio is stream 0 and not AAC either, the first video packet   *)
(* makes the audio decoder drain, and it refuses all audio from then on.    *)
BlankTaken == pc = "audio" /\ ~pkt.data

AudioLostExplained ==
  BlankTaken \/ decoder = "draining"
    => /\ input.a_index = 0 /\ ~input.vTarget
       /\ decoder = "draining" => ~input.aTarget

(* Whichever of the four ways a push is reached by, the first one that      *)
(* finds the connection closed is the last one.                             *)
NothingAfterClose ==
  refused <= 1 /\ (refused = 1 => pc \in {"trailer", "destroy", "end"})

(* However the loop is left, the server is told of the end of the session   *)
(* that was announced to it, unless the resampler could not be made.        *)
AnnouncedIsEnded ==
  pc = "end" => (output = "header" => swrFailed)
=============================================================================
