----------------------------- MODULE MuxerAudio -----------------------------
(***************************************************************************)
(* The audio of the HLS muxer (hls/hls.cpp): a packet of the input is      *)
(* decoded, resampled into a FIFO, and at most one frame of the encoder's  *)
(* size is taken out of it per packet.  Its time stamp is counted from the *)
(* first packet of the segment.  The files and their failures are in       *)
(* HlsMuxer.                                                               *)
(*                                                                         *)
(* All is counted in samples at the output's rate; the sound itself is     *)
(* left out.  The resampler holds back the same number of samples once it  *)
(* has them, and a frame of the decoder always has the same length.        *)
(***************************************************************************)
EXTENDS Integers

CONSTANTS
  FrameSize,       \* dstAudioCodecContext->frame_size
  SegmentLength,   \* HlsMuxer::segment_duration
  MaxSamples,      \* longest frame the decoder gives
  MaxFrames,       \* frames of a packet, at most
  MaxDelay,        \* samples the resampler holds back, at most
  MaxTime,         \* bound: end of the input
  MaxSkips         \* bound: calls that do not get to take a frame

ASSUME MuxerAudioAssumption ==
  /\ FrameSize \in Nat \ {0} /\ SegmentLength \in Nat \ {0} /\ MaxSamples \in Nat
  /\ MaxFrames \in Nat /\ MaxDelay \in Nat /\ MaxTime \in Nat /\ MaxSkips \in Nat

VARIABLES
  input,     \* samples of a frame, delay of the resampler, and whether the
             \* time bases of the input and of the encoder are the same
  pc,
  time,      \* time of the packet that comes next
  segment,   \* seg_index
  clock,     \* audioClk; 0 means that the next packet sets it
  decoder,   \* frames in the decoder
  dest,      \* dest has a buffer
  swr, fifo, \* samples in the resampler and in the FIFO
  pts,       \* time stamp of the last frame sent to the encoder
  lost,      \* history: samples lost, or missing in the input, since the clock was set
  skipped,   \* history: frames that were due and not taken, in samples
  backlog    \* history: a packet had, or met, a second frame

vars == <<input, pc, time, segment, clock, decoder, dest, swr, fifo, pts, lost,
          skipped, backlog>>

Init ==
  /\ input \in [samples: 1..MaxSamples, delay: 0..MaxDelay, sameBase: BOOLEAN]
  /\ pc = "read"
  /\ time \in 1..SegmentLength
  /\ segment = 0
  /\ clock = 0
  /\ decoder = 0
  /\ dest = FALSE
  /\ swr = 0 /\ fifo = 0
  /\ pts = 0
  /\ lost = 0 /\ skipped = 0
  /\ backlog = FALSE

-----------------------------------------------------------------------------
(* start(): an audio packet that is not muted and not of a codec to copy    *)

(* Samples are missing in the input *)
ReadGap ==
  /\ pc = "read" /\ time < MaxTime
  /\ time' = time + 1
  /\ lost' = lost + 1
  /\ UNCHANGED <<input, pc, segment, clock, decoder, dest, swr, fifo, pts, skipped,
                 backlog>>

(* pkt->pts, which setStart takes for a time in samples; other bases are    *)
(* coarser or finer                                                         *)
PacketPts == IF input.sameBase THEN {time} ELSE {time \div 2, 2 * time}

(* mutant: a new segment does not set the clock back *)
StartedKeepsClock(slot) == clock

(* A packet that begins a segment sets the clock to 0 *)
Started(slot) == IF slot # segment THEN 0 ELSE clock

(* A clock at 0 is set by the packet *)
SetClock(slot) ==
  clock' \in IF Started(slot) = 0 THEN PacketPts ELSE {Started(slot)}

(* avcodec_send_packet; a decoder that still has frames may refuse more     *)
(* (EAGAIN), and it may find the packet broken.                             *)
ReadPacket(frames, taken) ==
  LET total == frames * input.samples
      slot  == time \div SegmentLength
      lostSince == IF slot # segment \/ clock = 0 THEN 0 ELSE lost
  IN /\ pc = "read" /\ time + total <= MaxTime
     /\ segment' = slot
     /\ SetClock(slot)
     /\ time' = time + total
     /\ decoder' = IF taken THEN decoder + frames ELSE decoder
     /\ lost' = IF taken THEN lostSince ELSE lostSince + total
     /\ backlog' = (backlog \/ frames > 1)
     /\ UNCHANGED <<input, dest, swr, fifo, pts, skipped>>

SendPacket(frames) == ReadPacket(frames, TRUE) /\ pc' = "buffer"

(* EAGAIN returns 0, so that a frame is taken from the FIFO all the same *)
SendRefused(frames) ==
  /\ ReadPacket(frames, FALSE)
  /\ pc' \in IF decoder > 0 THEN {"read", "write"} ELSE {"read"}

-----------------------------------------------------------------------------
(* decode_audio_packet *)

NewDest ==
  /\ pc = "buffer"
  /\ dest' = TRUE
  /\ pc' = "receive"
  /\ UNCHANGED <<input, time, segment, clock, decoder, swr, fifo, pts, lost, skipped,
                 backlog>>

(* av_frame_get_buffer fails: what was sent stays in the decoder *)
NewDestFails ==
  /\ pc = "buffer"
  /\ pc' = "read"
  /\ backlog' = (backlog \/ decoder > 0)
  /\ UNCHANGED <<input, time, segment, clock, decoder, dest, swr, fifo, pts, lost, skipped>>

ReceiveNothing ==
  /\ pc = "receive" /\ decoder = 0
  /\ pc' = "write"
  /\ dest' = FALSE
  /\ UNCHANGED <<input, time, segment, clock, decoder, swr, fifo, pts, lost, skipped,
                 backlog>>

(* The frame is broken: the packet is done, and no frame is taken for it *)
ReceiveFails ==
  /\ pc = "receive" /\ decoder > 0
  /\ skipped < MaxSkips * FrameSize
  /\ decoder' = decoder - 1
  /\ lost' = lost + input.samples
  /\ skipped' = skipped + FrameSize
  /\ dest' = FALSE
  /\ pc' = "read"
  /\ UNCHANGED <<input, time, segment, clock, swr, fifo, pts, backlog>>

(* mutant: the delay of the resampler is not part of what dest must hold *)
RoomWithoutDelay == FrameSize - input.delay

(* dest->nb_samples *)
Room == FrameSize

Held == swr + input.samples
Kept == IF Held < input.delay THEN Held ELSE input.delay

(* vc_swr_resample: all that is in the resampler and in the frame, except   *)
(* its delay.  av_frame_unref takes the buffer from dest with the first     *)
(* frame.                                                                   *)
Receive(there) ==
  /\ pc = "receive" /\ decoder > 0 /\ dest
  /\ Held <= Room
  /\ decoder' = decoder - 1
  /\ swr' = Kept
  /\ dest' = FALSE
  /\ pc' = there
  /\ UNCHANGED <<input, time, segment, clock, pts, skipped, backlog>>

(* swr_convert gives an error: dest keeps its buffer *)
ResampleFails ==
  /\ pc = "receive" /\ decoder > 0
  /\ decoder' = decoder - 1
  /\ lost' = lost + input.samples
  /\ UNCHANGED <<input, pc, time, segment, clock, dest, swr, fifo, pts, skipped, backlog>>

Convert ==
  /\ Receive("receive")
  /\ fifo' = fifo + Held - Kept
  /\ UNCHANGED lost

(* av_frame_clone, which ends the loop, or av_audio_fifo_write fails *)
ConvertFails ==
  /\ Receive("receive") \/ Receive("write")
  /\ lost' = lost + Held - Kept
  /\ UNCHANGED fifo

(* swr_convert is told to write more than dest holds *)
Overrun ==
  /\ pc = "receive" /\ decoder > 0 /\ dest
  /\ Held > Room
  /\ pc' = "overrun"
  /\ UNCHANGED <<input, time, segment, clock, decoder, dest, swr, fifo, pts, lost, skipped,
                 backlog>>

(* The second frame finds dest without buffer and sample rate.  swr_convert *)
(* keeps the samples, and av_frame_clone fails, which ends the loop.        *)
SecondFrame ==
  /\ pc = "receive" /\ decoder > 0 /\ ~dest
  /\ decoder' = decoder - 1
  /\ swr' = Held
  /\ pc' = "write"
  /\ UNCHANGED <<input, time, segment, clock, dest, fifo, pts, lost, skipped, backlog>>

-----------------------------------------------------------------------------
(* write_encode_audio_packet *)

(* mutant: one sample more than a frame is waited for *)
DueLate == fifo > FrameSize

Due == fifo >= FrameSize

WriteNothing ==
  /\ pc = "write" /\ ~Due
  /\ pc' = "read"
  /\ UNCHANGED <<input, time, segment, clock, decoder, dest, swr, fifo, pts, lost, skipped,
                 backlog>>

(* av_frame_get_buffer fails *)
WriteFails ==
  /\ pc = "write" /\ Due
  /\ skipped < MaxSkips * FrameSize
  /\ skipped' = skipped + FrameSize
  /\ pc' = "read"
  /\ UNCHANGED <<input, time, segment, clock, decoder, dest, swr, fifo, pts, lost, backlog>>

(* mutant: the clock is not moved on *)
WriteKeepsClock ==
  /\ pc = "write" /\ Due
  /\ fifo' = fifo - FrameSize
  /\ pts' = clock + FrameSize
  /\ pc' = "read"
  /\ UNCHANGED <<input, time, segment, clock, decoder, dest, swr, lost, skipped, backlog>>

(* One frame; its time stamp is the end of it.  Whether the encoder and the *)
(* file take it changes nothing here.                                       *)
Write ==
  /\ pc = "write" /\ Due
  /\ fifo' = fifo - FrameSize
  /\ clock' = clock + FrameSize
  /\ pts' = clock'
  /\ pc' = "read"
  /\ UNCHANGED <<input, time, segment, decoder, dest, swr, lost, skipped, backlog>>

-----------------------------------------------------------------------------
Next ==
  \/ ReadGap
  \/ \E frames \in 1..MaxFrames : SendPacket(frames) \/ SendRefused(frames)
  \/ NewDest \/ NewDestFails
  \/ ReceiveNothing \/ ReceiveFails
  \/ ResampleFails \/ Convert \/ ConvertFails \/ Overrun \/ SecondFrame
  \/ WriteNothing \/ WriteFails \/ Write

Spec == Init /\ [][Next]_vars

-----------------------------------------------------------------------------
(* Every count is one of samples, never below none *)
TypeOK ==
  /\ input \in [samples: 1..MaxSamples, delay: 0..MaxDelay, sameBase: BOOLEAN]
  /\ pc \in {"read", "buffer", "receive", "write", "overrun"}
  /\ time \in Nat /\ segment \in Nat /\ clock \in Nat /\ pts \in Nat
  /\ decoder \in Nat /\ swr \in Nat /\ fifo \in Nat /\ lost \in Nat /\ skipped \in Nat
  /\ dest \in BOOLEAN /\ backlog \in BOOLEAN

(* A frame and the delay of the resampler fit the encoder's frame, and no   *)
(* packet has met a second frame                                            *)
Regular == ~backlog /\ input.samples + input.delay <= FrameSize

(* The conversion never writes past the end of dest (video_context.h:183     *)
(* computes the room it needs and not the room there is), unless a frame of  *)
(* the decoder and what the resampler holds back are longer than a frame of  *)
(* the encoder, or a packet has met a second frame, which piles up in the    *)
(* resampler.                                                                *)
OverrunExplained == pc = "overrun" => ~Regular

(* Between two packets the FIFO holds less than a frame, and one frame more  *)
(* for every call that failed before it took one: nothing ever takes two, so *)
(* what once stays behind stays for good (hls.cpp:714).                      *)
FifoBounded == pc = "read" => fifo < FrameSize + skipped

Late == clock + decoder * input.samples + swr + fifo - time

(* The clock and the samples on their way add up to the time of the input:   *)
(* in a segment the sound is late by what was left from the segment before,  *)
(* less than a frame, the delay of the resampler and the frames skipped, and *)
(* is early only by the samples that were lost.  This is for an input whose  *)
(* time stamps count samples: pkt->pts is taken as it is (hls.cpp:703).      *)
AudioInSync ==
  clock # 0 /\ input.sameBase =>
    /\ 0 <= Late + lost
    /\ Regular => Late + lost < FrameSize + input.delay + skipped

(* The time stamps given to the encoder increase, over segments as well,     *)
(* although every segment sets the clock anew: the frames left over from the *)
(* segment before never reach as far as the next one (hls.cpp:646, 703).     *)
(* Frames that were skipped are all that can set them back.                  *)
PtsIncrease ==
  [][fifo' < fifo /\ Regular /\ input.sameBase => pts' + skipped > pts]_vars
=============================================================================
