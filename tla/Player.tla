------------------------------- MODULE Player -------------------------------
(***************************************************************************)
(* The desktop player (player/media-player.cpp): the event loop of the     *)
(* window, a thread per play() that reads the input, the audio and the     *)
(* video decoder it creates, and the callback of the SDL audio device.     *)
(*                                                                         *)
(* They share the MediaPlayer without a lock.  The two packet queues are   *)
(* AVPacketQueues, taken as the Fifo that PacketQueue implements; a packet *)
(* is a number.  Every SHOWN event opens the url again, so play() can run  *)
(* more than once: play i and its decoders belong to the i-th open.        *)
(* A window that is closed ends main(), and with it the process, at some   *)
(* later time: what the threads do until then is in the model.             *)
(***************************************************************************)
EXTENDS Naturals, FiniteSets

CONSTANTS
  MaxOpens,     \* bound: SHOWN events
  MaxPackets,   \* bound: packets put in each queue
  MaxFrames,    \* frames the decoder gives for one packet, at most
  NULL

ASSUME PlayerAssumption ==
  /\ MaxOpens \in Nat /\ MaxPackets \in Nat /\ MaxFrames \in Nat
  /\ NULL \notin Nat

Plays == 1..MaxOpens

VARIABLES
  opens,     \* SHOWN events handled
  quit, running, force_refresh,
  aCodec, vCodec,       \* the codec contexts: unset, set, or (aCodec) freed
  device,               \* the SDL audio device: closed, open, playing
  audio_buf_size,       \* zero, samples, or what an error of swr_convert makes of it
  mixing,               \* the callback is mixing audio_buf
  demux, audio, video,  \* where the threads are, and the frames their packet still gives
  aPut, aGot, aHeld, vPut, vGot, vHeld,   \* the queues
  buffer,               \* history: what became of the samples in audio_buf
  swrFailed, badInput,  \* history
  crashed               \* a null, freed or uninitialized pointer was used

queues == <<aPut, aGot, aHeld, vPut, vGot, vHeld>>
codecs == <<aCodec, vCodec>>
sound == <<audio_buf_size, mixing, buffer, swrFailed>>
vars == <<opens, quit, running, force_refresh, codecs, device, sound, demux, audio,
          video, queues, badInput, crashed>>

AQ == INSTANCE Fifo WITH put <- aPut, got <- aGot, held <- aHeld,
                         Consumers <- Plays, Nobody <- NULL
VQ == INSTANCE Fifo WITH put <- vPut, got <- vGot, held <- vHeld,
                         Consumers <- Plays, Nobody <- NULL

NotStarted == [pc |-> "off", frames |-> 0]

Init ==
  /\ opens = 0
  /\ quit = FALSE /\ running = FALSE /\ force_refresh = FALSE
  /\ aCodec = "unset" /\ vCodec = "unset"
  /\ device = "closed"
  /\ audio_buf_size = "zero" /\ mixing = FALSE /\ buffer = "empty"
  /\ demux = [i \in Plays |-> "off"]
  /\ audio = [i \in Plays |-> NotStarted]
  /\ video = [i \in Plays |-> NotStarted]
  /\ AQ!Init /\ VQ!Init
  /\ swrFailed = FALSE /\ badInput = FALSE /\ crashed = FALSE

-----------------------------------------------------------------------------
(* MediaPlayer::createWindow, and open() which it calls *)

EventQuit ==
  /\ ~crashed /\ ~quit
  /\ quit' = TRUE
  /\ UNCHANGED <<opens, running, force_refresh, codecs, device, sound, demux, audio,
                 video, queues, badInput, crashed>>

EventExposed ==
  /\ ~crashed /\ ~quit
  /\ force_refresh' = TRUE
  /\ UNCHANGED <<opens, quit, running, codecs, device, sound, demux, audio, video,
                 queues, badInput, crashed>>

Shown ==
  /\ ~crashed /\ ~quit /\ opens < MaxOpens
  /\ opens' = opens + 1
  /\ UNCHANGED <<quit, running, force_refresh, device, sound, audio, video, queues>>

(* The input cannot be opened, twice, or has no stream info *)
OpenFails == Shown /\ UNCHANGED <<codecs, demux, badInput, crashed>>

(* av_find_best_stream answers a missing stream with its own error code,    *)
(* not with -1, and streams[] is indexed with it                            *)
OpenNoStream ==
  /\ Shown
  /\ badInput' = TRUE /\ crashed' = TRUE
  /\ UNCHANGED <<codecs, demux>>

(* Nothing looks at whether the two codec contexts were made *)
Open ==
  /\ Shown
  /\ \E a, v \in BOOLEAN :
       /\ aCodec' = IF a THEN "set" ELSE aCodec
       /\ vCodec' = IF v THEN "set" ELSE vCodec
       /\ badInput' = (badInput \/ ~a \/ ~v)
  /\ demux' = [demux EXCEPT ![opens + 1] = "start"]
  /\ UNCHANGED crashed

-----------------------------------------------------------------------------
(* MediaPlayer::play *)

DemuxStep(i, from, to) ==
  /\ ~crashed /\ demux[i] = from
  /\ demux' = [demux EXCEPT ![i] = to]
  /\ UNCHANGED <<opens, quit, running, force_refresh, codecs, sound, badInput>>

(* The format of the input is read from aCodecContext *)
PlayFormat(i) ==
  /\ DemuxStep(i, "start", "device")
  /\ crashed' = (aCodec # "set")
  /\ UNCHANGED <<device, audio, video, queues>>

(* SDL_OpenAudio, swr_alloc_set_opts2 or swr_init fails *)
PlayFails(i) ==
  /\ DemuxStep(i, "device", "ended")
  /\ device' \in {device, IF device = "closed" THEN "open" ELSE device}
  /\ UNCHANGED <<audio, video, queues, crashed>>

(* SDL_OpenAudio opens the device only once *)
PlayStarts(i) ==
  /\ device = "closed"
  /\ DemuxStep(i, "device", "read")
  /\ device' = "playing"
  /\ audio' = [audio EXCEPT ![i].pc = "start"]
  /\ video' = [video EXCEPT ![i].pc = "poll"]
  /\ UNCHANGED <<queues, crashed>>

DemuxAudio(i) ==
  /\ aPut < MaxPackets
  /\ DemuxStep(i, "read", "read")
  /\ AQ!Put
  /\ UNCHANGED <<device, audio, video, vPut, vGot, vHeld, crashed>>

DemuxVideo(i) ==
  /\ vPut < MaxPackets
  /\ DemuxStep(i, "read", "read")
  /\ VQ!Put
  /\ UNCHANGED <<device, audio, video, aPut, aGot, aHeld, crashed>>

(* End of the input, or EAGAIN.  quit is not looked at. *)
DemuxEnds(i) ==
  /\ DemuxStep(i, "read", "ended")
  /\ UNCHANGED <<device, audio, video, queues, crashed>>

Demux(i) ==
  \/ PlayFormat(i) \/ PlayFails(i) \/ PlayStarts(i)
  \/ DemuxAudio(i) \/ DemuxVideo(i) \/ DemuxEnds(i)

-----------------------------------------------------------------------------
(* decode_audio_packet *)

AudioStep(i, from, to, frames) ==
  /\ ~crashed /\ audio[i].pc = from
  /\ audio' = [audio EXCEPT ![i] = [pc |-> to, frames |-> frames]]
  /\ UNCHANGED <<opens, quit, force_refresh, vCodec, device, demux, video,
                 vPut, vGot, vHeld, badInput, crashed>>

(* mutant: the video is not told *)
AudioStartSilent(i) ==
  /\ AudioStep(i, "start", "poll", 0)
  /\ UNCHANGED <<running, aCodec, aPut, aGot, aHeld, sound>>

AudioStart(i) ==
  /\ AudioStep(i, "start", "poll", 0)
  /\ running' = TRUE
  /\ UNCHANGED <<aCodec, aPut, aGot, aHeld, sound>>

(* av_frame_get_buffer fails: the thread returns *)
AudioStartFails(i) ==
  /\ AudioStep(i, "start", "failed", 0)
  /\ UNCHANGED <<running, aCodec, aPut, aGot, aHeld, sound>>

AudioTake(i) ==
  /\ ~quit
  /\ AQ!Take(i)
  /\ AudioStep(i, "poll", "send", 0)
  /\ UNCHANGED <<running, aCodec, sound>>

(* mutant: an empty queue ends the thread, too *)
AudioQuitEmpty(i) ==
  /\ quit \/ aGot = aPut
  /\ AudioStep(i, "poll", "ended", 0)
  /\ aCodec' = "freed"
  /\ UNCHANGED <<running, aPut, aGot, aHeld, sound>>

(* The codec context is freed, and its pointer in the player set to null *)
AudioQuit(i) ==
  /\ quit
  /\ AudioStep(i, "poll", "ended", 0)
  /\ aCodec' = "freed"
  /\ UNCHANGED <<running, aPut, aGot, aHeld, sound>>

(* The packet is refused (and its item leaks) *)
AudioRefused(i) ==
  /\ AQ!Done(i)
  /\ AudioStep(i, "send", "poll", 0)
  /\ UNCHANGED <<running, aCodec, sound>>

AudioSent(i) ==
  /\ \E n \in 0..MaxFrames : AudioStep(i, "send", "receive", n)
  /\ UNCHANGED <<running, aCodec, aPut, aGot, aHeld, sound>>

(* No more frames: delete item *)
AudioDelete(i) ==
  /\ audio[i].frames = 0
  /\ AQ!Done(i)
  /\ AudioStep(i, "receive", "poll", 0)
  /\ UNCHANGED <<running, aCodec, sound>>

(* swr_convert begins to write the buffer the callback reads *)
AudioConvert(i) ==
  /\ audio[i].frames > 0
  /\ AudioStep(i, "receive", "convert", audio[i].frames - 1)
  /\ UNCHANGED <<running, aCodec, aPut, aGot, aHeld, sound>>

(* ... and gives no samples yet, some, or an error; the number of samples   *)
(* becomes audio_buf_size, which is unsigned                                *)
AudioPublish(i) ==
  /\ \E size \in {"zero", "samples", "error"} :
       /\ audio_buf_size' = size
       /\ buffer' = IF size = "samples" THEN "ready" ELSE buffer
       /\ swrFailed' = (swrFailed \/ size = "error")
  /\ AudioStep(i, "convert", "wait", audio[i].frames)
  /\ UNCHANGED <<running, aCodec, aPut, aGot, aHeld, mixing>>

(* mutant: the next frame is converted at once *)
AudioWaitNot(i) ==
  /\ AudioStep(i, "wait", "receive", audio[i].frames)
  /\ UNCHANGED <<running, aCodec, aPut, aGot, aHeld, sound>>

(* quit is not looked at here *)
AudioWait(i) ==
  /\ audio_buf_size = "zero"
  /\ AudioStep(i, "wait", "receive", audio[i].frames)
  /\ UNCHANGED <<running, aCodec, aPut, aGot, aHeld, sound>>

Audio(i) ==
  \/ AudioStart(i) \/ AudioStartFails(i) \/ AudioTake(i) \/ AudioQuit(i)
  \/ AudioRefused(i) \/ AudioSent(i) \/ AudioDelete(i)
  \/ AudioConvert(i) \/ AudioPublish(i) \/ AudioWait(i)

-----------------------------------------------------------------------------
(* audio_callback *)

Silent == <<opens, quit, running, force_refresh, codecs, device, demux, audio,
            video, queues, swrFailed, badInput, crashed>>

(* mutant: the size is reset first, the samples are mixed after it *)
CallbackBeginsLate ==
  /\ ~crashed /\ device = "playing" /\ ~mixing
  /\ audio_buf_size # "zero"
  /\ mixing' = TRUE
  /\ audio_buf_size' = "zero"
  /\ UNCHANGED <<buffer, Silent>>

CallbackBegins ==
  /\ ~crashed /\ device = "playing" /\ ~mixing
  /\ audio_buf_size # "zero"
  /\ mixing' = TRUE
  /\ UNCHANGED <<audio_buf_size, buffer, Silent>>

Heard == buffer' = IF buffer = "ready" THEN "heard" ELSE "again"

CallbackEnds ==
  /\ ~crashed /\ mixing
  /\ mixing' = FALSE
  /\ audio_buf_size' = "zero"
  /\ Heard
  /\ UNCHANGED Silent

Callback == CallbackBegins \/ CallbackEnds

-----------------------------------------------------------------------------
(* decode_video_frames *)

VideoStep(i, from, to, frames) ==
  /\ ~crashed /\ video[i].pc = from
  /\ video' = [video EXCEPT ![i] = [pc |-> to, frames |-> frames]]
  /\ UNCHANGED <<opens, quit, running, codecs, device, sound, demux, audio,
                 aPut, aGot, aHeld, badInput>>

VideoTake(i) ==
  /\ ~quit /\ running
  /\ VQ!Take(i)
  /\ VideoStep(i, "poll", "send", 0)
  /\ UNCHANGED <<force_refresh, crashed>>

VideoQuit(i) ==
  /\ quit
  /\ VideoStep(i, "poll", "ended", 0)
  /\ UNCHANGED <<force_refresh, vPut, vGot, vHeld, crashed>>

VideoRefused(i) ==
  /\ VQ!Done(i)
  /\ VideoStep(i, "send", "poll", 0)
  /\ UNCHANGED <<force_refresh, crashed>>

VideoSent(i) ==
  /\ \E n \in 0..MaxFrames : VideoStep(i, "send", "receive", n)
  /\ crashed' = (vCodec # "set")
  /\ UNCHANGED <<force_refresh, vPut, vGot, vHeld>>

(* A frame is scaled, waits for the clock, and is presented *)
VideoShow(i) ==
  /\ video[i].frames > 0
  /\ VideoStep(i, "receive", "receive", video[i].frames - 1)
  /\ UNCHANGED <<force_refresh, vPut, vGot, vHeld, crashed>>

VideoDelete(i) ==
  /\ video[i].frames = 0
  /\ VQ!Done(i)
  /\ VideoStep(i, "receive", IF force_refresh THEN "refresh" ELSE "poll", 0)
  /\ UNCHANGED <<force_refresh, crashed>>

VideoRefresh(i) ==
  /\ VideoStep(i, "refresh", "poll", 0)
  /\ force_refresh' = FALSE
  /\ UNCHANGED <<vPut, vGot, vHeld, crashed>>

Video(i) ==
  \/ VideoTake(i) \/ VideoQuit(i) \/ VideoRefused(i) \/ VideoSent(i)
  \/ VideoShow(i) \/ VideoDelete(i) \/ VideoRefresh(i)

-----------------------------------------------------------------------------

Next ==
  \/ EventQuit \/ EventExposed \/ OpenFails \/ OpenNoStream \/ Open
  \/ Callback
  \/ \E i \in Plays : Demux(i) \/ Audio(i) \/ Video(i)

Spec == Init /\ [][Next]_vars

(* The decoders are scheduled and the device asks for samples.  Nothing is  *)
(* assumed of the window or of the input.                                   *)
FairSpec ==
  Spec /\ WF_vars(Callback) /\ \A i \in Plays : WF_vars(Audio(i)) /\ WF_vars(Video(i))

-----------------------------------------------------------------------------
(* Properties *)

(* Every variable of the player, its threads and its queues has its type. *)
TypeOK ==
  /\ opens \in 0..MaxOpens
  /\ quit \in BOOLEAN /\ running \in BOOLEAN /\ force_refresh \in BOOLEAN /\ mixing \in BOOLEAN
  /\ swrFailed \in BOOLEAN /\ badInput \in BOOLEAN /\ crashed \in BOOLEAN
  /\ aCodec \in {"unset", "set", "freed"} /\ vCodec \in {"unset", "set"}
  /\ device \in {"closed", "open", "playing"}
  /\ audio_buf_size \in {"zero", "samples", "error"}
  /\ buffer \in {"empty", "ready", "heard", "again"}
  /\ demux \in [Plays -> {"off", "start", "device", "read", "ended"}]
  /\ audio \in [Plays -> [pc: {"off", "start", "poll", "send", "receive", "convert",
                               "wait", "ended", "failed"}, frames: 0..MaxFrames]]
  /\ video \in [Plays -> [pc: {"off", "poll", "send", "receive", "refresh", "ended"},
                          frames: 0..MaxFrames]]
  /\ aPut \in 0..MaxPackets /\ aGot \in 0..aPut
  /\ vPut \in 0..MaxPackets /\ vGot \in 0..vPut
  /\ aHeld \in [Plays -> 0..MaxPackets \cup {NULL}]
  /\ vHeld \in [Plays -> 0..MaxPackets \cup {NULL}]

(* audio_buf_size alone keeps the decoder from overwriting the samples that *)
(* the callback is mixing.                                                  *)
NoTearing == mixing => \A i \in Plays : audio[i].pc # "convert"

(* Every converted frame is heard exactly once: the next one is converted   *)
(* after the callback had it, and nothing is heard twice, unless            *)
(* swr_convert failed and its negative result became the size.              *)
EachFrameHeardOnce ==
  /\ buffer = "again" => swrFailed
  /\ \A i \in Plays : audio[i].pc = "convert" => buffer # "ready"

(* A window that is shown again does no harm while it plays: the player     *)
(* crashes only over an input it cannot decode, or when the window is       *)
(* closed right after it was shown again.                                   *)
CrashExplained == crashed => badInput \/ (quit /\ opens > 1)

Over == quit \/ crashed \/ \E i \in Plays : audio[i].pc = "failed"

(* Every packet is taken unless the player ends, although the audio decoder *)
(* waits for the callback within every frame, and the video decoder for the *)
(* start of the audio.                                                      *)
PacketsPlayed ==
  \A n \in 0..(MaxPackets - 1) :
    /\ <>(n < aPut) => <>(n < aGot \/ Over)
    /\ <>(n < vPut) => <>(n < vGot \/ Over)
=============================================================================
