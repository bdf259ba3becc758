---------------------------- MODULE PlayerProofs ----------------------------
(***************************************************************************)
(* Theorems of Player, for any number of windows shown, packets and frames *)
(* in a packet: the buffer shared with the audio callback, and what brings *)
(* the player down.                                                        *)
(***************************************************************************)
EXTENDS Player, TLAPS

(* The device is opened once, so that only one play has decoders *)
OneDecoder ==
  /\ device # "playing" => \A i \in Plays : audio[i].pc = "off" /\ video[i].pc = "off"
  /\ \A i, j \in Plays : audio[i].pc # "off" /\ audio[j].pc # "off" => i = j
  /\ \A i \in Plays : audio[i].pc # "off" \/ video[i].pc # "off"
                         => demux[i] \in {"read", "ended"}

(* A size that is not reset belongs to the frame the decoder waits for *)
BufferInv ==
  /\ audio_buf_size # "zero" => \E i \in Plays : audio[i].pc = "wait"
  /\ mixing => audio_buf_size # "zero"
  /\ audio_buf_size = "samples" <=> buffer = "ready"
  /\ audio_buf_size = "error" => swrFailed
  /\ buffer = "again" => swrFailed

CodecInv ==
  /\ \A i \in Plays : demux[i] # "off" => i <= opens
  /\ \A i \in Plays : demux[i] # "off" => badInput \/ (vCodec = "set" /\ aCodec # "unset")
  /\ aCodec = "freed" => quit /\ \E i \in Plays : audio[i].pc = "ended"

Inv == TypeOK /\ OneDecoder /\ BufferInv /\ CodecInv /\ CrashExplained

-----------------------------------------------------------------------------

LEMMA InvInit == Init => Inv
<1> SUFFICES ASSUME Init PROVE Inv
  OBVIOUS
<1> USE PlayerAssumption DEF Init, AQ!Init, VQ!Init, NotStarted
<1>1. TypeOK
  <2>1. 0 \in 0..MaxOpens /\ 0 \in 0..MaxFrames /\ 0 \in 0..MaxPackets /\ 0 \in 0..0
    OBVIOUS
  <2>2. quit \in BOOLEAN /\ running \in BOOLEAN /\ force_refresh \in BOOLEAN /\ mixing \in BOOLEAN
    OBVIOUS
  <2>3. swrFailed \in BOOLEAN /\ badInput \in BOOLEAN /\ crashed \in BOOLEAN
    OBVIOUS
  <2>4. aPut = 0 /\ aGot = 0 /\ vPut = 0 /\ vGot = 0
    OBVIOUS
  <2>5. /\ aHeld \in [Plays -> 0..MaxPackets \cup {NULL}]
        /\ vHeld \in [Plays -> 0..MaxPackets \cup {NULL}]
    OBVIOUS
  <2> QED
    BY <2>1, <2>2, <2>3, <2>4, <2>5 DEF TypeOK
<1>2. OneDecoder /\ BufferInv /\ CodecInv /\ CrashExplained
  BY DEF OneDecoder, BufferInv, CodecInv, CrashExplained
<1> QED
  BY <1>1, <1>2 DEF Inv

LEMMA TypeStep == TypeOK /\ [Next]_vars => TypeOK'
<1> SUFFICES ASSUME TypeOK, [Next]_vars PROVE TypeOK'
  OBVIOUS
<1> USE PlayerAssumption DEF TypeOK, queues, codecs, sound
<1>1. ASSUME EventQuit PROVE TypeOK'
  BY <1>1 DEF EventQuit
<1>2. ASSUME EventExposed PROVE TypeOK'
  BY <1>2 DEF EventExposed
<1>3. ASSUME OpenFails PROVE TypeOK'
  BY <1>3 DEF OpenFails, Shown
<1>4. ASSUME OpenNoStream PROVE TypeOK'
  BY <1>4 DEF OpenNoStream, Shown
<1>5. ASSUME Open PROVE TypeOK'
  <2> USE <1>5 DEF Open, Shown
  <2>0. opens' \in 0..MaxOpens
    OBVIOUS
  <2>1. demux' \in [Plays -> {"off", "start", "device", "read", "ended"}]
    OBVIOUS
  <2>2. aCodec' \in {"unset", "set", "freed"} /\ vCodec' \in {"unset", "set"}
    OBVIOUS
  <2>3. badInput' \in BOOLEAN /\ crashed' \in BOOLEAN
    OBVIOUS
  <2> QED
    BY <2>0, <2>1, <2>2, <2>3
<1>6. ASSUME CallbackBegins PROVE TypeOK'
  BY <1>6 DEF CallbackBegins, Silent
<1>7. ASSUME CallbackEnds PROVE TypeOK'
  <2> USE <1>7 DEF CallbackEnds
  <2>1. /\ audio_buf_size' = "zero" /\ buffer' \in {"heard", "again"}
        /\ mixing' \in BOOLEAN
    BY DEF Heard
  <2>2. UNCHANGED Silent
    OBVIOUS
  <2> HIDE <1>7 DEF CallbackEnds
  <2> QED
    BY <2>1, <2>2 DEF Silent
<1>8. ASSUME NEW i \in Plays, PlayFormat(i) PROVE TypeOK'
  BY <1>8 DEF PlayFormat, DemuxStep
<1>9. ASSUME NEW i \in Plays, PlayFails(i) PROVE TypeOK'
  BY <1>9 DEF PlayFails, DemuxStep
<1>10. ASSUME NEW i \in Plays, PlayStarts(i) PROVE TypeOK'
  BY <1>10 DEF PlayStarts, DemuxStep
<1>11. ASSUME NEW i \in Plays, DemuxAudio(i) PROVE TypeOK'
  BY <1>11 DEF DemuxAudio, DemuxStep, AQ!Put
<1>12. ASSUME NEW i \in Plays, DemuxVideo(i) PROVE TypeOK'
  BY <1>12 DEF DemuxVideo, DemuxStep, VQ!Put
<1>13. ASSUME NEW i \in Plays, DemuxEnds(i) PROVE TypeOK'
  BY <1>13 DEF DemuxEnds, DemuxStep
<1>14. ASSUME NEW i \in Plays, AudioStart(i) PROVE TypeOK'
  BY <1>14 DEF AudioStart, AudioStep
<1>15. ASSUME NEW i \in Plays, AudioStartFails(i) PROVE TypeOK'
  BY <1>15 DEF AudioStartFails, AudioStep
<1>16. ASSUME NEW i \in Plays, AudioTake(i) PROVE TypeOK'
  BY <1>16 DEF AudioTake, AudioStep, AQ!Take
<1>17. ASSUME NEW i \in Plays, AudioQuit(i) PROVE TypeOK'
  BY <1>17 DEF AudioQuit, AudioStep
<1>18. ASSUME NEW i \in Plays, AudioRefused(i) PROVE TypeOK'
  BY <1>18 DEF AudioRefused, AudioStep, AQ!Done
<1>19. ASSUME NEW i \in Plays, AudioSent(i) PROVE TypeOK'
  BY <1>19 DEF AudioSent, AudioStep
<1>20. ASSUME NEW i \in Plays, AudioDelete(i) PROVE TypeOK'
  BY <1>20 DEF AudioDelete, AudioStep, AQ!Done
<1>21. ASSUME NEW i \in Plays, AudioConvert(i) PROVE TypeOK'
  BY <1>21 DEF AudioConvert, AudioStep
<1>22. ASSUME NEW i \in Plays, AudioPublish(i) PROVE TypeOK'
  BY <1>22 DEF AudioPublish, AudioStep
<1>23. ASSUME NEW i \in Plays, AudioWait(i) PROVE TypeOK'
  BY <1>23 DEF AudioWait, AudioStep
<1>24. ASSUME NEW i \in Plays, VideoTake(i) PROVE TypeOK'
  BY <1>24 DEF VideoTake, VideoStep, VQ!Take
<1>25. ASSUME NEW i \in Plays, VideoQuit(i) PROVE TypeOK'
  BY <1>25 DEF VideoQuit, VideoStep
<1>26. ASSUME NEW i \in Plays, VideoRefused(i) PROVE TypeOK'
  BY <1>26 DEF VideoRefused, VideoStep, VQ!Done
<1>27. ASSUME NEW i \in Plays, VideoSent(i) PROVE TypeOK'
  BY <1>27 DEF VideoSent, VideoStep
<1>28. ASSUME NEW i \in Plays, VideoShow(i) PROVE TypeOK'
  BY <1>28 DEF VideoShow, VideoStep
<1>29. ASSUME NEW i \in Plays, VideoDelete(i) PROVE TypeOK'
  BY <1>29 DEF VideoDelete, VideoStep, VQ!Done
<1>30. ASSUME NEW i \in Plays, VideoRefresh(i) PROVE TypeOK'
  <2>1. force_refresh' \in BOOLEAN
    BY <1>30 DEF VideoRefresh
  <2> QED
    BY <1>30, <2>1 DEF VideoRefresh, VideoStep
<1>31. CASE UNCHANGED vars
  BY <1>31 DEF vars
<1> QED
  BY <1>1, <1>2, <1>3, <1>4, <1>5, <1>6, <1>7, <1>8, <1>9, <1>10, <1>11,
     <1>12, <1>13, <1>14, <1>15, <1>16, <1>17, <1>18, <1>19, <1>20, <1>21, <1>22,
     <1>23, <1>24, <1>25, <1>26, <1>27, <1>28, <1>29, <1>30, <1>31
     DEF Next, Callback, Demux, Audio, Video

LEMMA PartsStep ==
  Inv /\ TypeOK' /\ [Next]_vars => OneDecoder' /\ BufferInv' /\ CodecInv' /\ CrashExplained'
<1> DEFINE Parts == OneDecoder /\ BufferInv /\ CodecInv /\ CrashExplained
<1> SUFFICES ASSUME Inv, TypeOK', [Next]_vars PROVE Parts'
  OBVIOUS
<1> USE PlayerAssumption DEF Inv, queues, codecs, sound
<1>1. ASSUME EventQuit PROVE Parts'
  BY <1>1 DEF EventQuit,
     TypeOK, OneDecoder, BufferInv, CodecInv, CrashExplained, Plays
<1>2. ASSUME EventExposed PROVE Parts'
  BY <1>2 DEF EventExposed,
     TypeOK, OneDecoder, BufferInv, CodecInv, CrashExplained, Plays
<1>3. ASSUME OpenFails PROVE Parts'
  BY <1>3 DEF OpenFails, Shown,
     TypeOK, OneDecoder, BufferInv, CodecInv, CrashExplained, Plays
<1>4. ASSUME OpenNoStream PROVE Parts'
  BY <1>4 DEF OpenNoStream, Shown,
     TypeOK, OneDecoder, BufferInv, CodecInv, CrashExplained, Plays
<1>5. ASSUME Open PROVE Parts'
  <2> USE <1>5 DEF Open, Shown
  <2>1. OneDecoder'
    BY DEF TypeOK, OneDecoder, CodecInv, Plays
  <2>2. BufferInv'
    BY DEF TypeOK, OneDecoder, BufferInv
  <2>3. CodecInv'
    <3>1. opens + 1 \in Plays /\ opens' = opens + 1 /\ opens \in Nat
      BY DEF TypeOK, Plays
    <3>2. \A j \in Plays : demux'[j] # "off" => j <= opens'
      BY <3>1 DEF TypeOK, CodecInv, Plays
    <3>3. aCodec # "freed" /\ aCodec' # "freed"
      BY DEF CodecInv
    <3>4. badInput' \/ (vCodec' = "set" /\ aCodec' = "set")
      OBVIOUS
    <3> QED
      BY <3>2, <3>3, <3>4 DEF CodecInv
  <2>4. CrashExplained'
    BY DEF TypeOK, OneDecoder, CodecInv, CrashExplained, Plays
  <2> QED
    BY <2>1, <2>2, <2>3, <2>4
<1>6. ASSUME CallbackBegins PROVE Parts'
  BY <1>6 DEF CallbackBegins, Silent,
     TypeOK, OneDecoder, BufferInv, CodecInv, CrashExplained, Plays
<1>7. ASSUME CallbackEnds PROVE Parts'
  BY <1>7 DEF CallbackEnds, Silent, Heard,
     TypeOK, OneDecoder, BufferInv, CodecInv, CrashExplained, Plays
<1>8. ASSUME NEW i \in Plays, PlayFormat(i) PROVE Parts'
  <2> USE <1>8 DEF PlayFormat, DemuxStep
  <2>1. OneDecoder'
    BY DEF TypeOK, OneDecoder
  <2>2. BufferInv'
    BY DEF TypeOK, OneDecoder, BufferInv
  <2>3. CodecInv'
    BY DEF TypeOK, OneDecoder, CodecInv, Plays
  <2>4. CrashExplained'
    <3>1. SUFFICES ASSUME aCodec # "set", ~badInput PROVE quit /\ opens > 1
      BY DEF CrashExplained
    <3>2. demux[i] = "start" /\ i <= opens
      BY DEF CodecInv
    <3>3. aCodec = "freed"
      BY <3>1, <3>2 DEF TypeOK, CodecInv
    <3>4. PICK j \in Plays : audio[j].pc = "ended"
      BY <3>3 DEF CodecInv
    <3>5. j <= opens /\ j # i
      BY <3>2, <3>4 DEF OneDecoder, CodecInv
    <3> QED
      BY <3>2, <3>3, <3>5 DEF TypeOK, CodecInv, Plays
  <2> QED
    BY <2>1, <2>2, <2>3, <2>4
<1>9. ASSUME NEW i \in Plays, PlayFails(i) PROVE Parts'
  BY <1>9 DEF PlayFails, DemuxStep,
     TypeOK, OneDecoder, BufferInv, CodecInv, CrashExplained, Plays
<1>10. ASSUME NEW i \in Plays, PlayStarts(i) PROVE Parts'
  BY <1>10 DEF PlayStarts, DemuxStep,
     TypeOK, OneDecoder, BufferInv, CodecInv, CrashExplained, Plays
<1>11. ASSUME NEW i \in Plays, DemuxAudio(i) PROVE Parts'
  BY <1>11 DEF DemuxAudio, DemuxStep, AQ!Put,
     TypeOK, OneDecoder, BufferInv, CodecInv, CrashExplained, Plays
<1>12. ASSUME NEW i \in Plays, DemuxVideo(i) PROVE Parts'
  BY <1>12 DEF DemuxVideo, DemuxStep, VQ!Put,
     TypeOK, OneDecoder, BufferInv, CodecInv, CrashExplained, Plays
<1>13. ASSUME NEW i \in Plays, DemuxEnds(i) PROVE Parts'
  BY <1>13 DEF DemuxEnds, DemuxStep,
     TypeOK, OneDecoder, BufferInv, CodecInv, CrashExplained, Plays
<1>14. ASSUME NEW i \in Plays, AudioStart(i) PROVE Parts'
  BY <1>14 DEF AudioStart, AudioStep,
     TypeOK, OneDecoder, BufferInv, CodecInv, CrashExplained, Plays
<1>15. ASSUME NEW i \in Plays, AudioStartFails(i) PROVE Parts'
  BY <1>15 DEF AudioStartFails, AudioStep,
     TypeOK, OneDecoder, BufferInv, CodecInv, CrashExplained, Plays
<1>16. ASSUME NEW i \in Plays, AudioTake(i) PROVE Parts'
  BY <1>16 DEF AudioTake, AudioStep, AQ!Take,
     TypeOK, OneDecoder, BufferInv, CodecInv, CrashExplained, Plays
<1>17. ASSUME NEW i \in Plays, AudioQuit(i) PROVE Parts'
  BY <1>17 DEF AudioQuit, AudioStep,
     TypeOK, OneDecoder, BufferInv, CodecInv, CrashExplained, Plays
<1>18. ASSUME NEW i \in Plays, AudioRefused(i) PROVE Parts'
  BY <1>18 DEF AudioRefused, AudioStep, AQ!Done,
     TypeOK, OneDecoder, BufferInv, CodecInv, CrashExplained, Plays
<1>19. ASSUME NEW i \in Plays, AudioSent(i) PROVE Parts'
  BY <1>19 DEF AudioSent, AudioStep,
     TypeOK, OneDecoder, BufferInv, CodecInv, CrashExplained, Plays
<1>20. ASSUME NEW i \in Plays, AudioDelete(i) PROVE Parts'
  BY <1>20 DEF AudioDelete, AudioStep, AQ!Done,
     TypeOK, OneDecoder, BufferInv, CodecInv, CrashExplained, Plays
<1>21. ASSUME NEW i \in Plays, AudioConvert(i) PROVE Parts'
  BY <1>21 DEF AudioConvert, AudioStep,
     TypeOK, OneDecoder, BufferInv, CodecInv, CrashExplained, Plays
<1>22. ASSUME NEW i \in Plays, AudioPublish(i) PROVE Parts'
  <2> USE <1>22 DEF AudioPublish, AudioStep
  <2>1. OneDecoder'
    BY DEF TypeOK, OneDecoder
  <2>2. BufferInv'
    <3>1. audio[i].pc = "convert" /\ audio'[i].pc = "wait"
      BY DEF TypeOK
    <3>2. audio_buf_size = "zero" /\ ~mixing /\ buffer # "ready"
      BY <3>1 DEF OneDecoder, BufferInv
    <3>3. PICK size \in {"zero", "samples", "error"} :
            /\ audio_buf_size' = size
            /\ buffer' = IF size = "samples" THEN "ready" ELSE buffer
            /\ swrFailed' = (swrFailed \/ size = "error")
      OBVIOUS
    <3>4. mixing' = mixing
      OBVIOUS
    <3> HIDE <1>22
    <3> QED
      BY <3>1, <3>2, <3>3, <3>4 DEF TypeOK, BufferInv
  <2>3. CodecInv'
    BY DEF TypeOK, OneDecoder, CodecInv, Plays
  <2>4. CrashExplained'
    BY DEF TypeOK, OneDecoder, CodecInv, CrashExplained, Plays
  <2> QED
    BY <2>1, <2>2, <2>3, <2>4
<1>23. ASSUME NEW i \in Plays, AudioWait(i) PROVE Parts'
  BY <1>23 DEF AudioWait, AudioStep,
     TypeOK, OneDecoder, BufferInv, CodecInv, CrashExplained, Plays
<1>24. ASSUME NEW i \in Plays, VideoTake(i) PROVE Parts'
  BY <1>24 DEF VideoTake, VideoStep, VQ!Take,
     TypeOK, OneDecoder, BufferInv, CodecInv, CrashExplained, Plays
<1>25. ASSUME NEW i \in Plays, VideoQuit(i) PROVE Parts'
  BY <1>25 DEF VideoQuit, VideoStep,
     TypeOK, OneDecoder, BufferInv, CodecInv, CrashExplained, Plays
<1>26. ASSUME NEW i \in Plays, VideoRefused(i) PROVE Parts'
  BY <1>26 DEF VideoRefused, VideoStep, VQ!Done,
     TypeOK, OneDecoder, BufferInv, CodecInv, CrashExplained, Plays
<1>27. ASSUME NEW i \in Plays, VideoSent(i) PROVE Parts'
  BY <1>27 DEF VideoSent, VideoStep,
     TypeOK, OneDecoder, BufferInv, CodecInv, CrashExplained, Plays
<1>28. ASSUME NEW i \in Plays, VideoShow(i) PROVE Parts'
  BY <1>28 DEF VideoShow, VideoStep,
     TypeOK, OneDecoder, BufferInv, CodecInv, CrashExplained, Plays
<1>29. ASSUME NEW i \in Plays, VideoDelete(i) PROVE Parts'
  BY <1>29 DEF VideoDelete, VideoStep, VQ!Done,
     TypeOK, OneDecoder, BufferInv, CodecInv, CrashExplained, Plays
<1>30. ASSUME NEW i \in Plays, VideoRefresh(i) PROVE Parts'
  BY <1>30 DEF VideoRefresh, VideoStep,
     TypeOK, OneDecoder, BufferInv, CodecInv, CrashExplained, Plays
<1>31. CASE UNCHANGED vars
  BY <1>31 DEF vars, OneDecoder, BufferInv, CodecInv, CrashExplained
<1> QED
  BY <1>1, <1>2, <1>3, <1>4, <1>5, <1>6, <1>7, <1>8, <1>9, <1>10, <1>11,
     <1>12, <1>13, <1>14, <1>15, <1>16, <1>17, <1>18, <1>19, <1>20, <1>21, <1>22,
     <1>23, <1>24, <1>25, <1>26, <1>27, <1>28, <1>29, <1>30, <1>31
     DEF Next, Callback, Demux, Audio, Video

LEMMA InvStep == Inv /\ [Next]_vars => Inv'
BY TypeStep, PartsStep DEF Inv

-----------------------------------------------------------------------------

(* Every variable of the player, its threads and its queues keeps its type. *)
THEOREM TypeCorrect == Spec => []TypeOK
<1>1. Inv => TypeOK
  BY DEF Inv
<1> QED
  BY InvInit, InvStep, <1>1, PTL DEF Spec

(* The decoder never converts into the buffer the callback is mixing        *)
(* (media-player.cpp:290).                                                  *)
THEOREM NeverTears == Spec => []NoTearing
<1>1. Inv => NoTearing
  BY DEF Inv, TypeOK, OneDecoder, BufferInv, NoTearing
<1> QED
  BY InvInit, InvStep, <1>1, PTL DEF Spec

(* No frame is skipped by the callback, and none heard twice unless         *)
(* swr_convert failed (media-player.cpp:291).                               *)
THEOREM FramesHeardOnce == Spec => []EachFrameHeardOnce
<1>1. Inv => EachFrameHeardOnce
  BY DEF Inv, TypeOK, OneDecoder, BufferInv, EachFrameHeardOnce
<1> QED
  BY InvInit, InvStep, <1>1, PTL DEF Spec

(* However often the window is shown, only an input that cannot be decoded, *)
(* or closing the window after a second SHOWN event, brings the player down *)
(* (media-player.cpp:549).                                                  *)
THEOREM CrashNeedsCause == Spec => []CrashExplained
<1>1. Inv => CrashExplained
  BY DEF Inv
<1> QED
  BY InvInit, InvStep, <1>1, PTL DEF Spec

-----------------------------------------------------------------------------
(* Whom the decoders wait for.  A decoder that is not polling has the       *)
(* packet it works on; the audio decoder starts together with the video     *)
(* decoder, and lets it go when it runs.                                    *)
AtWork == {"send", "receive", "convert", "wait"}

WaitOK(i) ==
  /\ aHeld[i] # NULL <=> audio[i].pc \in AtWork
  /\ vHeld[i] # NULL <=> video[i].pc \in {"send", "receive"}
  /\ audio[i].pc = "off" <=> video[i].pc = "off"
  /\ audio[i].pc \notin {"off", "start", "failed"} => running

WaitInv == \A i \in Plays : WaitOK(i)

NobodyWaitsInVain ==
  /\ \A i \in Plays : audio[i].pc = "wait" => device = "playing"
  /\ \A i \in Plays : video[i].pc = "poll" /\ ~running => audio[i].pc \in {"start", "failed"}
  /\ \A i \in Plays : audio[i].pc \in AtWork => aHeld[i] # NULL
  /\ \A i \in Plays : video[i].pc \in {"send", "receive"} => vHeld[i] # NULL

LEMMA WaitInit == Init => WaitInv
BY PlayerAssumption DEF Init, AQ!Init, VQ!Init, NotStarted, WaitInv, WaitOK, AtWork

(* A step of a decoder can disturb its own wait only *)
LEMMA WaitLocal ==
  ASSUME WaitInv, NEW i \in Plays,
         \A j \in Plays \ {i} : /\ audio'[j] = audio[j] /\ aHeld'[j] = aHeld[j]
                               /\ video'[j] = video[j] /\ vHeld'[j] = vHeld[j],
         running => running',
         WaitOK(i)'
  PROVE  WaitInv'
<1> SUFFICES ASSUME NEW j \in Plays \ {i} PROVE WaitOK(j)'
  BY DEF WaitInv
<1>1. /\ audio'[j] = audio[j] /\ aHeld'[j] = aHeld[j]
      /\ video'[j] = video[j] /\ vHeld'[j] = vHeld[j]
      /\ WaitOK(j)
  BY DEF WaitInv
<1> QED
  BY <1>1 DEF WaitOK

LEMMA WaitStep == ASSUME Inv, WaitInv, [Next]_vars PROVE WaitInv'
<1> USE PlayerAssumption DEF Inv, TypeOK, WaitInv, WaitOK, AtWork, queues, codecs, sound
<1>1. ASSUME UNCHANGED <<running, audio, video, aHeld, vHeld>> PROVE WaitInv'
  BY <1>1
<1>2. ASSUME \/ EventQuit \/ EventExposed \/ OpenFails \/ OpenNoStream \/ Open
             \/ CallbackBegins \/ CallbackEnds \/ UNCHANGED vars
      PROVE  WaitInv'
  BY <1>1, <1>2 DEF EventQuit, EventExposed, OpenFails, OpenNoStream, Open, Shown,
     CallbackBegins, CallbackEnds, Silent, vars
<1>3. ASSUME NEW i \in Plays,
             PlayFormat(i) \/ PlayFails(i) \/ DemuxAudio(i) \/ DemuxVideo(i) \/ DemuxEnds(i)
      PROVE  WaitInv'
  BY <1>1, <1>3 DEF PlayFormat, PlayFails, DemuxAudio, DemuxVideo, DemuxEnds, DemuxStep, AQ!Put, VQ!Put
<1>4. ASSUME NEW i \in Plays, PlayStarts(i) PROVE WaitInv'
  <2>1. \A j \in Plays : audio[j].pc = "off" /\ video[j].pc = "off"
    BY <1>4 DEF PlayStarts, OneDecoder
  <2> QED
    BY <1>4, <2>1 DEF PlayStarts, DemuxStep
<1>5. ASSUME NEW i \in Plays, NEW from, NEW to, NEW n, AudioStep(i, from, to, n)
      PROVE  /\ audio[i].pc = from /\ audio'[i].pc = to
             /\ \A j \in Plays \ {i} : audio'[j] = audio[j]
             /\ video' = video /\ vHeld' = vHeld
             /\ WaitOK(i)
  BY <1>5 DEF AudioStep
<1>6. ASSUME NEW i \in Plays, NEW from, NEW to, NEW n, VideoStep(i, from, to, n)
      PROVE  /\ video[i].pc = from /\ video'[i].pc = to
             /\ \A j \in Plays \ {i} : video'[j] = video[j]
             /\ audio' = audio /\ aHeld' = aHeld /\ running' = running
             /\ WaitOK(i)
  BY <1>6 DEF VideoStep
<1> HIDE DEF Inv, TypeOK, WaitInv
<1>7. ASSUME NEW i \in Plays, AudioStart(i) \/ AudioStartFails(i) PROVE WaitInv'
  <2>1. /\ audio[i].pc = "start" /\ audio'[i].pc \in {"poll", "failed"} /\ aHeld' = aHeld
        /\ running' \/ ((running => running') /\ audio'[i].pc = "failed")
    BY <1>5, <1>7 DEF AudioStart, AudioStartFails
  <2>2. /\ \A j \in Plays \ {i} : audio'[j] = audio[j]
        /\ video' = video /\ vHeld' = vHeld /\ WaitOK(i)
    BY <1>5, <1>7 DEF AudioStart, AudioStartFails
  <2>3. WaitOK(i)'
    BY <2>1, <2>2
  <2> QED
    BY <2>1, <2>2, <2>3, WaitLocal
<1>8. ASSUME NEW i \in Plays, AudioQuit(i) PROVE WaitInv'
  <2>1. /\ audio[i].pc = "poll" /\ audio'[i].pc = "ended" /\ aHeld' = aHeld
        /\ (running => running')
    BY <1>5, <1>8 DEF AudioQuit
  <2>2. /\ \A j \in Plays \ {i} : audio'[j] = audio[j]
        /\ video' = video /\ vHeld' = vHeld /\ WaitOK(i)
    BY <1>5, <1>8 DEF AudioQuit
  <2>3. WaitOK(i)'
    BY <2>1, <2>2
  <2> QED
    BY <2>1, <2>2, <2>3, WaitLocal
<1>9. ASSUME NEW i \in Plays, \/ AudioSent(i) \/ AudioConvert(i) \/ AudioPublish(i)
                              \/ AudioWait(i)
      PROVE  WaitInv'
  <2>1. /\ audio[i].pc \in AtWork /\ audio'[i].pc \in AtWork
        /\ aHeld' = aHeld /\ (running => running')
    BY <1>5, <1>9 DEF AudioSent, AudioConvert, AudioPublish, AudioWait
  <2>2. /\ \A j \in Plays \ {i} : audio'[j] = audio[j]
        /\ video' = video /\ vHeld' = vHeld /\ WaitOK(i)
    BY <1>5, <1>9 DEF AudioSent, AudioConvert, AudioPublish, AudioWait
  <2>3. WaitOK(i)'
    BY <2>1, <2>2
  <2> QED
    BY <2>1, <2>2, <2>3, WaitLocal
<1> USE DEF Inv, TypeOK, WaitInv
<1>10. ASSUME NEW i \in Plays, AudioTake(i) PROVE WaitInv'
  BY <1>10 DEF AudioTake, AudioStep, AQ!Take
<1>11. ASSUME NEW i \in Plays, AudioRefused(i) PROVE WaitInv'
  BY <1>11 DEF AudioRefused, AudioStep, AQ!Done
<1>12. ASSUME NEW i \in Plays, AudioDelete(i) PROVE WaitInv'
  BY <1>12 DEF AudioDelete, AudioStep, AQ!Done
<1>13. ASSUME NEW i \in Plays, VideoTake(i) PROVE WaitInv'
  BY <1>13 DEF VideoTake, VideoStep, VQ!Take
<1>14. ASSUME NEW i \in Plays, VideoRefused(i) PROVE WaitInv'
  BY <1>14 DEF VideoRefused, VideoStep, VQ!Done
<1> HIDE DEF Inv, TypeOK, WaitInv
<1>15. ASSUME NEW i \in Plays, VideoDelete(i) PROVE WaitInv'
  <2>1. /\ video[i].pc = "receive" /\ video'[i].pc \in {"refresh", "poll"}
        /\ \A j \in Plays \ {i} : video'[j] = video[j]
        /\ audio' = audio /\ aHeld' = aHeld /\ running' = running /\ WaitOK(i)
    BY <1>6, <1>15 DEF VideoDelete
  <2>2. vHeld'[i] = NULL /\ \A j \in Plays \ {i} : vHeld'[j] = vHeld[j]
    BY <1>15 DEF VideoDelete, VQ!Done, Inv, TypeOK
  <2>3. WaitOK(i)'
    BY <2>1, <2>2
  <2> QED
    BY <2>1, <2>2, <2>3, WaitLocal
<1>16. ASSUME NEW i \in Plays, VideoQuit(i) \/ VideoSent(i) \/ VideoShow(i) \/ VideoRefresh(i)
       PROVE  WaitInv'
  <2>1. /\ video[i].pc \in {"send", "receive"} <=> video'[i].pc \in {"send", "receive"}
        /\ video[i].pc # "off" /\ video'[i].pc # "off"
        /\ vHeld' = vHeld
    BY <1>6, <1>16 DEF VideoQuit, VideoSent, VideoShow, VideoRefresh
  <2>2. /\ \A j \in Plays \ {i} : video'[j] = video[j]
        /\ audio' = audio /\ aHeld' = aHeld /\ running' = running /\ WaitOK(i)
    BY <1>6, <1>16 DEF VideoQuit, VideoSent, VideoShow, VideoRefresh
  <2>3. WaitOK(i)'
    BY <2>1, <2>2
  <2> QED
    BY <2>1, <2>2, <2>3, WaitLocal
<1> QED
  BY <1>2, <1>3, <1>4, <1>7, <1>8, <1>9, <1>10, <1>11, <1>12, <1>13, <1>14, <1>15, <1>16
     DEF Next, Callback, Demux, Audio, Video

(* Every wait of a decoder is for a thread that can end it: an audio frame  *)
(* waits for the callback of a device that plays, the video for an audio    *)
(* decoder that is starting or has failed, and a decoder that is done with  *)
(* a packet has the item to delete (media-player.cpp:299, :346).            *)
THEOREM WaitsAreAnswered == Spec => []NobodyWaitsInVain
<1>1. Inv /\ WaitInv => NobodyWaitsInVain
  BY DEF Inv, TypeOK, OneDecoder, WaitInv, WaitOK, NobodyWaitsInVain
<1>2. Inv /\ WaitInv /\ [Next]_vars => WaitInv'
  BY WaitStep
<1> QED
  BY InvInit, InvStep, WaitInit, <1>1, <1>2, PTL DEF Spec
=============================================================================
