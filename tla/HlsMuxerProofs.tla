---------------------------- MODULE HlsMuxerProofs ----------------------------
(***************************************************************************)
(* Theorems of HlsMuxer, for any window, segment length and input: what    *)
(* the playlist names is on disk, complete and final.                      *)
(***************************************************************************)
EXTENDS HlsMuxer, FiniteSetTheorems, WellFoundedInduction, TLAPS

Positions == 1..Len(segments)

(* The vector of segments: short, in the order of its numbers, and without  *)
(* a gap as long as nothing left it                                         *)
VectorInv ==
  /\ Len(segments) <= MaxSegments
  /\ \A i \in Positions : segments[i].seq <= segment_index
  /\ \A i, j \in Positions : i <= j => segments[i].seq <= segments[j].seq
  /\ segment_index < MaxSegments => \A i \in Positions : segments[i].seq = i - 1
  /\ segment_index < MaxSegments /\ pc \notin {"close_exit", "done"}
       => /\ Len(segments) \in {segment_index, segment_index + 1}
          /\ ctx # NoFile \/ pc \in {"cut_index", "cut_flush", "next"}
               => Len(segments) = segment_index + 1
  /\ ctx # NoFile /\ pc \notin {"close_exit", "done"} => segments # <<>>

(* The file that is written is the one of the current segment *)
CtxInv ==
  /\ ctx # NoFile => ctx = segment_index /\ ctx \in files
  /\ pc \in {"start", "swr", "first_index", "first_flush"}
       => ctx = NoFile /\ segments = <<>> /\ segment_index = 0 /\ files = {}
  /\ pc \in {"cut_index", "cut_flush", "next"} => ctx = NoFile

(* Only the file of the current segment can be without its trailer *)
FilesInv ==
  /\ \A f \in files : f \notin complete => f = segment_index
  /\ pc \in {"cut_index", "cut_flush", "next", "close", "close_exit", "done"} => files = complete

(* The cleaner works far behind the current segment *)
CleanerInv ==
  /\ cleaner.pc = "delete" => cleaner.last <= segment_index - MaxSegments - 2
  /\ cleaner.pc = "newest" => segments # <<>> \/ pc \in {"close_exit", "done"}

(* A playlist of a live stream names segments before the current one *)
ListInv ==
  /\ \A i \in 1..Len(index.list) : index.list[i].seq <= segment_index
  /\ index.ended \/ pc = "next"
       \/ \A i \in 1..Len(index.list) : index.list[i].seq < segment_index
  /\ index.ended => pc \in {"trailer", "close", "close_exit", "done"}

Inv == TypeOK /\ VectorInv /\ CtxInv /\ FilesInv /\ CleanerInv /\ ListInv

-----------------------------------------------------------------------------
(* The vector *)

LEMMA PlaylistIsVector ==
  ASSUME TypeOK, VectorInv, NEW type \in {VOD, EVENT}
  PROVE  /\ Playlist(type) = [state |-> "written", first |-> First(type),
                              list |-> segments, ended |-> type = VOD]
         /\ First(type) \in Nat
         /\ First(type) = IF type = VOD \/ segments = <<>> THEN 0 ELSE segments[1].seq
<1> USE HlsMuxerAssumption
<1>1. segments \in Seq(Segments) /\ Len(segments) \in Nat
      /\ \A i \in Positions : segments[i] \in Segments /\ segments[i].seq \in Nat
  <2>1. segments \in Seq(Segments)
    BY DEF TypeOK
  <2>2. \A seg \in Segments : seg.seq \in Nat
    BY DEF Segments
  <2>3. Len(segments) \in Nat /\ \A i \in Positions : segments[i] \in Segments
    BY <2>1 DEF Positions
  <2> QED
    BY <2>1, <2>2, <2>3
<1>2. /\ First(type) = IF type = VOD \/ segments = <<>> THEN 0 ELSE segments[1].seq
  BY <1>1 DEF VectorInv, First, Begin, VOD, EVENT
<1>3. segments = <<>> \/ (Len(segments) >= 1 /\ 1 \in Positions)
  BY <1>1 DEF Positions
<1>4. First(type) \in Nat
  BY <1>1, <1>2, <1>3
<1>5. \A i \in Positions : ~(segments[i].seq < First(type))
  BY <1>1, <1>2, <1>3 DEF VectorInv, Positions
<1>6. {i \in 1..Len(segments) : segments[i].seq < First(type)} = {}
  BY <1>5 DEF Positions
<1>7. Below(First(type)) = 0
  BY <1>6, FS_EmptySet DEF Below
<1>8. Entries(First(type)) = SubSeq(segments, 1, Len(segments))
  BY <1>7 DEF Entries
<1>9. SubSeq(segments, 1, Len(segments)) = segments
  BY <1>1
<1> QED
  BY <1>2, <1>4, <1>8, <1>9 DEF Playlist

(* How a new segment enters the window *)
LEMMA WindowIs ==
  ASSUME TypeOK, Len(segments) <= MaxSegments, Missing
  PROVE  /\ Window \in Seq(Segments) /\ Window # <<>>
         /\ \E out \in {0, 1} :
              /\ out = 1 <=> Len(segments) = MaxSegments
              /\ Len(Window) = Len(segments) + 1 - out
              /\ \A i \in 1..Len(Window) :
                   IF i = Len(Window) THEN Window[i] = [seq |-> segment_index, dur |-> SegDur]
                   ELSE i + out \in Positions /\ Window[i] = segments[i + out]
<1> USE HlsMuxerAssumption
<1> DEFINE new == [seq |-> segment_index, dur |-> SegDur]
           pushed == Append(segments, new)
<1>1. segments \in Seq(Segments) /\ Len(segments) \in Nat /\ new \in Segments
  BY DEF TypeOK, Segments
<1> HIDE DEF new
<1>2. /\ pushed \in Seq(Segments) /\ Len(pushed) = Len(segments) + 1
      /\ pushed[Len(segments) + 1] = new
      /\ \A i \in Positions : pushed[i] = segments[i]
  BY <1>1 DEF Positions
<1>3. Window = IF Len(pushed) > MaxSegments THEN Tail(pushed) ELSE pushed
  BY DEF Window, new
<1>4. CASE Len(segments) = MaxSegments
  <2>1. Window = Tail(pushed)
    BY <1>2, <1>3, <1>4
  <2>2. /\ Tail(pushed) \in Seq(Segments) /\ Len(Tail(pushed)) = Len(segments)
        /\ \A i \in 1..Len(segments) : Tail(pushed)[i] = pushed[i + 1]
    BY <1>1, <1>2
  <2>3. \A i \in 1..Len(segments) :
          IF i = Len(segments) THEN pushed[i + 1] = new
          ELSE i + 1 \in Positions /\ pushed[i + 1] = segments[i + 1]
    BY <1>1, <1>2 DEF Positions
  <2>4. Len(segments) # 0 /\ Window # <<>>
    BY <1>1, <1>4, <2>1, <2>2
  <2> HIDE DEF pushed
  <2>5. \A i \in 1..Len(Window) :
          IF i = Len(Window) THEN Window[i] = new
          ELSE i + 1 \in Positions /\ Window[i] = segments[i + 1]
    BY <2>1, <2>2, <2>3
  <2>6. Window \in Seq(Segments) /\ Len(Window) = Len(segments) + 1 - 1
    BY <1>1, <2>1, <2>2
  <2> QED
    BY <1>4, <2>4, <2>5, <2>6 DEF new
<1>5. CASE Len(segments) < MaxSegments
  <2>1. Window = pushed
    BY <1>1, <1>2, <1>3, <1>5
  <2>2. \A i \in 1..Len(pushed) :
          IF i = Len(pushed) THEN pushed[i] = new
          ELSE i + 0 \in Positions /\ pushed[i] = segments[i + 0]
    BY <1>1, <1>2 DEF Positions
  <2>3. Window # <<>> /\ Len(segments) # MaxSegments
    BY <1>1, <1>2, <1>5, <2>1
  <2> HIDE DEF pushed
  <2>5. \A i \in 1..Len(Window) :
          IF i = Len(Window) THEN Window[i] = new
          ELSE i + 0 \in Positions /\ Window[i] = segments[i + 0]
    BY <2>1, <2>2
  <2>6. Window \in Seq(Segments) /\ Len(Window) = Len(segments) + 1 - 0
    BY <1>1, <1>2, <2>1
  <2> QED
    BY <2>3, <2>5, <2>6 DEF new
<1> QED
  BY <1>1, <1>4, <1>5

(* The segment at hand has the number of the current one *)
LEMMA CurrentIs ==
  ASSUME TypeOK, VectorInv, pc = "segment" PROVE Current = segment_index
<1>1. Len(segments) \in Nat /\ segment_index \in Nat
  BY DEF TypeOK
<1>2. CASE ~Missing
  <2>1. segment_index < MaxSegments /\ segment_index + 1 \in Positions
    BY <1>1, <1>2, HlsMuxerAssumption DEF Missing, VectorInv, Positions
  <2>2. PICK i \in Positions : i = segment_index + 1
    BY <2>1
  <2>3. segments[i].seq = i - 1
    BY <2>1, <2>2 DEF VectorInv
  <2>4. segments[i].seq = segment_index
    BY <1>1, <2>2, <2>3
  <2> QED
    BY <1>2, <2>2, <2>4 DEF Current
<1> QED
  BY <1>2 DEF Current

(* A duration that is set *)
SetLast(duration) == [segments EXCEPT ![Len(segments)].dur = duration]

LEMMA SetLastIs ==
  ASSUME TypeOK, segments # <<>>, NEW duration \in Int
  PROVE  /\ SetLast(duration) \in Seq(Segments) /\ SetLast(duration) # <<>>
         /\ Len(SetLast(duration)) = Len(segments)
         /\ \A i \in Positions : SetLast(duration)[i].seq = segments[i].seq
         /\ \A i \in Positions \ {Len(segments)} : SetLast(duration)[i] = segments[i]
<1>1. segments \in Seq(Segments) /\ Len(segments) \in Nat /\ Len(segments) \in Positions
  BY DEF TypeOK, Positions
<1>2. PICK seg \in Segments : /\ seg = [segments[Len(segments)] EXCEPT !.dur = duration]
                             /\ seg.seq = segments[Len(segments)].seq
  <2>1. segments[Len(segments)] \in Segments
    BY <1>1 DEF Positions
  <2>2. \A old \in Segments : /\ [old EXCEPT !.dur = duration] \in Segments
                             /\ [old EXCEPT !.dur = duration].seq = old.seq
    BY DEF Segments
  <2> QED
    BY <2>1, <2>2
<1>3. SetLast(duration) = [segments EXCEPT ![Len(segments)] = seg]
  BY <1>2 DEF SetLast
<1>4. SetLast(duration) \in Seq(Segments) /\ Len(SetLast(duration)) = Len(segments)
  BY <1>1, <1>3
<1>5. /\ SetLast(duration)[Len(segments)] = seg
      /\ \A i \in Positions \ {Len(segments)} : SetLast(duration)[i] = segments[i]
  BY <1>1, <1>3 DEF Positions
<1>6. \A i \in Positions : SetLast(duration)[i].seq = segments[i].seq
  BY <1>2, <1>5
<1>7. SetLast(duration) # <<>>
  BY <1>1, <1>4
<1> QED
  BY <1>4, <1>5, <1>6, <1>7

-----------------------------------------------------------------------------
(* The steps, by what they do to the segments, the files and the index *)

Kept == <<segment_index, segments, ctx, files, complete, index>>

(* A step that does nothing to them *)
Quiet ==
  /\ UNCHANGED Kept /\ UNCHANGED <<job, crashed>>
  /\ \/ pc' = pc
     \/ pc = "start" /\ pc' \in {"swr", "done"}
     \/ pc = "swr" /\ pc' \in {"first_index", "done"}
     \/ pc = "first_index" /\ pc' = "close" /\ "fopen" \in Faults
     \/ pc = "cut_index" /\ pc' = "next" /\ "fopen" \in Faults
     \/ pc = "last_index" /\ pc' = "trailer" /\ "fopen" \in Faults
     \/ pc = "loop" /\ pc' \in {"read", "finish"}
     \/ pc = "read" /\ pc' \in {"loop", "segment", "finish"}
     \/ pc = "read" /\ pc' = "cut" /\ cut.index # -1
     \/ pc = "segment" /\ pc' = "write" /\ ctx # NoFile
     \/ pc = "write" /\ pc' = "loop"
     \/ pc = "close_exit" /\ pc' = "done"
  /\ pc' \in {"segment", "cut"} \/ UNCHANGED cut
  /\ cut'.seconds = cut.seconds
  /\ \/ UNCHANGED <<pkt, cut>> /\ (pc' = "cut" => pc = "cut")
     \/ pc = "read" /\ pc' = "segment"
     \/ /\ pc = "read" /\ pc' = "cut"
        /\ cut'.duration = pkt'.time - cut'.seconds /\ pkt'.time > cut'.seconds
     \/ pc = "write" /\ pc' = "loop"
  /\ \/ UNCHANGED cleaner
     \/ cleaner'.pc \in {"off", "check", "sleep"}
     \/ cleaner'.pc = "newest" /\ segments # <<>>
     \/ /\ cleaner'.pc = "delete" /\ segments # <<>>
        /\ cleaner'.last = segments[Len(segments)].seq - MaxSegments - 2

OnlyIndex ==
  UNCHANGED <<job, crashed, cleaner, pkt, cut, segment_index, segments, ctx, files, complete>>

Opened ==
  /\ OnlyIndex /\ index' = Truncated
  /\ \/ pc = "first_index" /\ pc' = "first_flush"
     \/ pc = "cut_index" /\ pc' = "cut_flush"
     \/ pc = "last_index" /\ pc' = "last_flush"

Flushed ==
  /\ OnlyIndex
  /\ \/ pc = "first_flush" /\ pc' = "loop" /\ index' = Playlist(EVENT)
     \/ pc = "cut_flush" /\ pc' = "next" /\ index' = Playlist(EVENT)
     \/ pc = "last_flush" /\ pc' = "trailer" /\ index' = Playlist(VOD)

(* A crash *)
Dies ==
  /\ ~crashed /\ crashed' = TRUE /\ UNCHANGED <<job, pc, exit, mainVars, cleaner>>
  /\ \/ "stream" \in Faults
     \/ "writer" \in Faults
     \/ ctx = NoFile /\ pc \in {"cut", "trailer", "write"}
     \/ segments = <<>> /\ cleaner.pc = "newest" /\ pc \notin {"start", "done"}

LEMMA StepKinds ==
  [Next]_vars =>
    \/ Quiet \/ Opened \/ Flushed \/ Dies
    \/ Cut \/ NextSegment \/ NewSegment \/ (NewSegmentFails /\ segment_index # 0)
    \/ Finish \/ Trailer \/ CloseClear \/ CleanerDelete
<1> SUFFICES ASSUME [Next]_vars
             PROVE  \/ Quiet \/ Opened \/ Flushed \/ Dies
                    \/ Cut \/ NextSegment \/ NewSegment \/ (NewSegmentFails /\ segment_index # 0)
                    \/ Finish \/ Trailer \/ CloseClear \/ CleanerDelete
  OBVIOUS
<1>1. ASSUME Start PROVE Quiet
  BY <1>1 DEF Start, Quiet, Kept, mainVars, Step, At
<1>2. ASSUME StartFails PROVE Quiet
  BY <1>2 DEF StartFails, Quiet, Kept, mainVars, Step, At
<1>3. ASSUME InitSwr PROVE Quiet
  BY <1>3 DEF InitSwr, Quiet, Kept, mainVars, Step, At
<1>4. ASSUME LoopCheck PROVE Quiet
  BY <1>4 DEF LoopCheck, Quiet, Kept, mainVars, Step, At
<1>5. ASSUME ReadEof PROVE Quiet
  BY <1>5 DEF ReadEof, Quiet, Kept, mainVars, Step, At
<1>6. ASSUME ReadNothing PROVE Quiet
  BY <1>6 DEF ReadNothing, Quiet, Kept, mainVars, Step, At
<1>7. ASSUME ReadVideo PROVE Quiet
  BY <1>7 DEF ReadVideo, Quiet, Kept, mainVars, Step, At
<1>8. ASSUME ReadAudio PROVE Quiet
  BY <1>8 DEF ReadAudio, Quiet, Kept, mainVars, Step, At
<1>9. ASSUME HaveSegment PROVE Quiet
  BY <1>9 DEF HaveSegment, Quiet, Kept, mainVars, Step, At
<1>10. ASSUME WritePacket PROVE Quiet
  BY <1>10 DEF WritePacket, Quiet, Kept, mainVars, Step, At
<1>11. ASSUME CloseExit PROVE Quiet
  BY <1>11 DEF CloseExit, Quiet, Kept, mainVars, Step, At
<1>12. ASSUME HeartbeatStop PROVE Quiet
  BY <1>12 DEF HeartbeatStop, Quiet, Kept, mainVars
<1>13. ASSUME CleanerCheck PROVE Quiet
  BY <1>13 DEF CleanerCheck, CleanerGoes, DeleteFrom, Quiet, Kept
<1>14. ASSUME CleanerNewest PROVE Quiet
  BY <1>14 DEF CleanerNewest, CleanerGoes, DeleteFrom, Quiet, Kept
<1>15. ASSUME CleanerStop PROVE Quiet
  BY <1>15 DEF CleanerStop, CleanerGoes, DeleteFrom, Quiet, Kept
<1>16. ASSUME CleanerRemoveFails PROVE Quiet
  BY <1>16 DEF CleanerRemoveFails, CleanerGoes, DeleteFrom, Quiet, Kept
<1>17. ASSUME CleanerSleep PROVE Quiet
  BY <1>17 DEF CleanerSleep, CleanerGoes, DeleteFrom, Quiet, Kept
<1>18. ASSUME FirstIndex PROVE Quiet \/ Opened \/ Flushed
  BY <1>18 DEF FirstIndex, OpenIndex, OpenIndexFails, FlushIndex, Opened, Flushed, OnlyIndex, Quiet, Kept, mainVars, Step, At
<1>19. ASSUME CutIndex PROVE Quiet \/ Opened \/ Flushed
  BY <1>19 DEF CutIndex, OpenIndex, OpenIndexFails, FlushIndex, Opened, Flushed, OnlyIndex, Quiet, Kept, mainVars, Step, At
<1>20. ASSUME LastIndex PROVE Quiet \/ Opened \/ Flushed
  BY <1>20 DEF LastIndex, OpenIndex, OpenIndexFails, FlushIndex, Opened, Flushed, OnlyIndex, Quiet, Kept, mainVars, Step, At
<1>21. ASSUME StreamMissing PROVE Dies
  BY <1>21 DEF StreamMissing, Crash, At, Dies
<1>22. ASSUME NullContext PROVE Dies
  BY <1>22 DEF NullContext, Crash, At, Dies
<1>23. ASSUME NewSegmentFails /\ segment_index = 0 PROVE Dies
  BY <1>23 DEF NewSegmentFails, Crash, At, Dies
<1>24. ASSUME CleanerReadsCleared PROVE Dies
  BY <1>24 DEF CleanerReadsCleared, Running, Dies
<1>25. CASE UNCHANGED vars
  BY <1>25 DEF vars, mainVars, Quiet, Kept
<1> QED
  BY <1>1, <1>2, <1>3, <1>4, <1>5, <1>6, <1>7, <1>8, <1>9, <1>10, <1>11,
     <1>12, <1>13, <1>14, <1>15, <1>16, <1>17, <1>18, <1>19, <1>20, <1>21, <1>22,
     <1>23, <1>24, <1>25
     DEF Next, Main, Read, Packet, Cleaner

-----------------------------------------------------------------------------
(* Types *)

ControlType ==
  /\ job \in [duration: Durations, standalone: BOOLEAN, mute: BOOLEAN]
  /\ pc \in {"start", "swr", "first_index", "first_flush", "loop", "read", "cut",
             "cut_index", "cut_flush", "next", "segment", "write", "finish",
             "last_index", "last_flush", "trailer", "close", "close_exit", "done"}
  /\ exit \in BOOLEAN
  /\ pkt \in [kind: {"none", "video", "audio"}, time: 0..MaxTime]
  /\ cut \in [index: Int, seconds: 0..MaxTime, duration: Nat]
  /\ durationSet \in BOOLEAN
  /\ cleaner \in [pc: {"off", "check", "newest", "delete", "sleep"}, last: Int]
  /\ crashed \in BOOLEAN

FileType ==
  /\ segment_index \in Nat
  /\ segments \in Seq(Segments)
  /\ ctx \in Nat \cup {NoFile}
  /\ files \subseteq Nat /\ complete \subseteq files
  /\ index \in [state: {"absent", "truncated", "written"}, first: Nat,
                list: Seq(Segments), ended: BOOLEAN]

LEMMA Types == TypeOK <=> ControlType /\ FileType
BY DEF TypeOK, ControlType, FileType

LEMMA InvInit == Init => Inv
<1> SUFFICES ASSUME Init PROVE Inv
  OBVIOUS
<1> USE HlsMuxerAssumption DEF Init
<1>1. ControlType
  <2>1. pkt \in [kind: {"none", "video", "audio"}, time: 0..MaxTime]
    BY DEF NoPkt
  <2>2. cut \in [index: Int, seconds: 0..MaxTime, duration: Nat]
    OBVIOUS
  <2>3. cleaner \in [pc: {"off", "check", "newest", "delete", "sleep"}, last: Int]
    OBVIOUS
  <2> QED
    BY <2>1, <2>2, <2>3 DEF ControlType
<1>2. /\ index = NoIndex /\ index.list = <<>> /\ ~index.ended /\ segments = <<>>
      /\ Len(index.list) = 0 /\ Len(segments) = 0
  BY DEF NoIndex
<1>3. FileType
  <2>1. index \in [state: {"absent", "truncated", "written"}, first: Nat,
                   list: Seq(Segments), ended: BOOLEAN]
    BY DEF NoIndex
  <2> QED
    BY <1>2, <2>1 DEF FileType
<1>4. VectorInv
  BY <1>2 DEF VectorInv, Positions
<1>5. CtxInv /\ FilesInv /\ CleanerInv
  BY DEF CtxInv, FilesInv, CleanerInv
<1>6. ListInv
  BY <1>2 DEF ListInv
<1> QED
  BY <1>1, <1>3, <1>4, <1>5, <1>6, Types DEF Inv

LEMMA ControlStep == TypeOK /\ [Next]_vars => ControlType'
<1> SUFFICES ASSUME TypeOK, [Next]_vars PROVE ControlType'
  OBVIOUS
<1>0. ControlType /\ segment_index \in Nat
  BY DEF TypeOK, ControlType
<1> USE HlsMuxerAssumption DEF ControlType
<1>1. ASSUME Start PROVE ControlType'
  BY <1>0, <1>1 DEF Start, Step, At, mainVars
<1>2. ASSUME StartFails PROVE ControlType'
  BY <1>0, <1>2 DEF StartFails, Step, At, mainVars
<1>3. ASSUME InitSwr PROVE ControlType'
  BY <1>0, <1>3 DEF InitSwr, Step, At, mainVars
<1>4. ASSUME LoopCheck PROVE ControlType'
  BY <1>0, <1>4 DEF LoopCheck, Step, At, mainVars
<1>5. ASSUME ReadEof PROVE ControlType'
  BY <1>0, <1>5 DEF ReadEof, Step, At, mainVars
<1>6. ASSUME ReadNothing PROVE ControlType'
  BY <1>0, <1>6 DEF ReadNothing, Step, At, mainVars
<1>7. ASSUME ReadVideo PROVE ControlType'
  BY <1>0, <1>7 DEF ReadVideo, Step, At, mainVars
<1>8. ASSUME ReadAudio PROVE ControlType'
  <2>1. PICK t \in 0..MaxTime :
          /\ t > cut.seconds
          /\ pkt' = [kind |-> "audio", time |-> t]
          /\ cut' = [index |-> IF cut.index = -1 THEN t \div SegDur ELSE cut.index,
                     seconds |-> cut.seconds, duration |-> t - cut.seconds]
          /\ pc' \in {"segment", "cut"}
          /\ UNCHANGED <<job, exit, durationSet, cleaner, crashed>>
    BY <1>8 DEF ReadAudio, Step, At
  <2>2. t \div SegDur \in Int /\ cut.index \in Int /\ cut.seconds \in 0..MaxTime /\ t - cut.seconds \in Nat
    BY <1>0, <2>1
  <2>3. cut' \in [index: Int, seconds: 0..MaxTime, duration: Nat]
    BY <2>1, <2>2
  <2>4. pkt' \in [kind: {"none", "video", "audio"}, time: 0..MaxTime]
    BY <2>1
  <2> QED
    BY <1>0, <2>1, <2>3, <2>4
<1>9. ASSUME Cut PROVE ControlType'
  BY <1>0, <1>9 DEF Cut, Step, At, mainVars
<1>10. ASSUME NextSegment PROVE ControlType'
  <2>1. pkt.time \div SegDur \in Int /\ pkt.time \in 0..MaxTime
    BY <1>0
  <2>2. cut' \in [index: Int, seconds: 0..MaxTime, duration: Nat]
    BY <1>0, <1>10, <2>1 DEF NextSegment
  <2>3. pc' = "segment" /\ UNCHANGED <<job, exit, pkt, durationSet, cleaner, crashed>>
    BY <1>10 DEF NextSegment, Step, At
  <2> QED
    BY <1>0, <2>2, <2>3
<1>11. ASSUME HaveSegment PROVE ControlType'
  BY <1>0, <1>11 DEF HaveSegment, Step, At, mainVars
<1>12. ASSUME NewSegment PROVE ControlType'
  BY <1>0, <1>12 DEF NewSegment, Step, At, mainVars
<1>13. ASSUME NewSegmentFails PROVE ControlType'
  BY <1>0, <1>13 DEF NewSegmentFails, Crash, Step, At, mainVars
<1>14. ASSUME WritePacket PROVE ControlType'
  BY <1>0, <1>14 DEF WritePacket, NoPkt, Step, At, mainVars
<1>15. ASSUME Finish PROVE ControlType'
  BY <1>0, <1>15 DEF Finish, Step, At, mainVars
<1>16. ASSUME Trailer PROVE ControlType'
  BY <1>0, <1>16 DEF Trailer, Step, At, mainVars
<1>17. ASSUME CloseClear PROVE ControlType'
  BY <1>0, <1>17 DEF CloseClear, Step, At, mainVars
<1>18. ASSUME CloseExit PROVE ControlType'
  BY <1>0, <1>18 DEF CloseExit, Step, At, mainVars
<1>19. ASSUME HeartbeatStop PROVE ControlType'
  BY <1>0, <1>19 DEF HeartbeatStop, mainVars
<1>20. ASSUME CleanerCheck PROVE ControlType'
  BY <1>0, <1>20 DEF CleanerCheck, CleanerGoes
<1>21. ASSUME CleanerStop PROVE ControlType'
  BY <1>0, <1>21 DEF CleanerStop, CleanerGoes
<1>22. ASSUME CleanerRemoveFails PROVE ControlType'
  BY <1>0, <1>22 DEF CleanerRemoveFails, CleanerGoes
<1>23. ASSUME CleanerSleep PROVE ControlType'
  BY <1>0, <1>23 DEF CleanerSleep, CleanerGoes
<1>24. ASSUME CleanerDelete PROVE ControlType'
  BY <1>0, <1>24 DEF CleanerDelete, CleanerGoes
<1>25. ASSUME CleanerNewest PROVE ControlType'
  <2>1. PICK last : cleaner' \in {[pc |-> "check", last |-> 0], [pc |-> "delete", last |-> last]}
                    /\ (cleaner'.pc = "delete" => last = segments[Len(segments)].seq - MaxSegments - 2)
                    /\ UNCHANGED <<job, pc, exit, pkt, cut, durationSet, crashed>>
    BY <1>25 DEF CleanerNewest, CleanerGoes, DeleteFrom
  <2>2. segments[Len(segments)].seq - MaxSegments - 2 \in Int
    <3>1. segments \in Seq(Segments) /\ Len(segments) \in 1..Len(segments)
      BY <1>25 DEF TypeOK, CleanerNewest
    <3>2. segments[Len(segments)] \in Segments
      BY <3>1
    <3>3. \A seg \in Segments : seg.seq \in Nat
      BY DEF Segments
    <3> QED
      BY <3>2, <3>3
  <2>3. cleaner' \in [pc: {"off", "check", "newest", "delete", "sleep"}, last: Int]
    BY <2>1, <2>2
  <2> QED
    BY <1>0, <2>1, <2>3
<1>26. ASSUME FirstIndex PROVE ControlType'
  BY <1>0, <1>26 DEF FirstIndex, OpenIndex, OpenIndexFails, FlushIndex, Step, At, mainVars
<1>27. ASSUME CutIndex PROVE ControlType'
  BY <1>0, <1>27 DEF CutIndex, OpenIndex, OpenIndexFails, FlushIndex, Step, At, mainVars
<1>28. ASSUME LastIndex PROVE ControlType'
  BY <1>0, <1>28 DEF LastIndex, OpenIndex, OpenIndexFails, FlushIndex, Step, At, mainVars
<1>29. ASSUME StreamMissing \/ NullContext PROVE ControlType'
  BY <1>0, <1>29 DEF StreamMissing, NullContext, Crash, Step, At, mainVars
<1>30. ASSUME CleanerReadsCleared PROVE ControlType'
  BY <1>0, <1>30 DEF CleanerReadsCleared, mainVars
<1>31. CASE UNCHANGED vars
  BY <1>0, <1>31 DEF vars, mainVars
<1> QED
  BY <1>1, <1>2, <1>3, <1>4, <1>5, <1>6, <1>7, <1>8, <1>9, <1>10, <1>11,
     <1>12, <1>13, <1>14, <1>15, <1>16, <1>17, <1>18, <1>19, <1>20, <1>21, <1>22,
     <1>23, <1>24, <1>25, <1>26, <1>27, <1>28, <1>29, <1>30, <1>31
     DEF Next, Main, Read, Packet, Cleaner

-----------------------------------------------------------------------------
(* How the parts of the invariant fare in each kind of step *)

Parts == FileType /\ VectorInv /\ CtxInv /\ FilesInv /\ CleanerInv /\ ListInv

(* What the types say of the vector and of the listed segments *)
LEMMA Shape ==
  ASSUME TypeOK
  PROVE  /\ segments \in Seq(Segments) /\ Len(segments) \in Nat /\ segment_index \in Nat
         /\ \A i \in Positions : segments[i] \in Segments /\ segments[i].seq \in Nat
         /\ segments # <<>> => Len(segments) \in Positions
         /\ segments = <<>> <=> Len(segments) = 0
         /\ index.list \in Seq(Segments) /\ Len(index.list) \in Nat
         /\ \A i \in 1..Len(index.list) : index.list[i].seq \in Nat
         /\ files \subseteq Nat /\ complete \subseteq files
         /\ NoFile \notin Nat /\ MaxSegments \in Nat \ {0}
<1>1. segments \in Seq(Segments) /\ segment_index \in Nat /\ index.list \in Seq(Segments)
      /\ files \subseteq Nat /\ complete \subseteq files
  BY DEF TypeOK
<1>2. \A seg \in Segments : seg.seq \in Nat
  BY DEF Segments
<1>3. \A i \in Positions : segments[i] \in Segments
  BY <1>1 DEF Positions
<1>4. \A i \in 1..Len(index.list) : index.list[i] \in Segments
  BY <1>1
<1>5. /\ Len(segments) \in Nat /\ Len(index.list) \in Nat
      /\ segments # <<>> => Len(segments) \in Positions
      /\ segments = <<>> <=> Len(segments) = 0
  BY <1>1 DEF Positions
<1>6. NoFile \notin Nat /\ MaxSegments \in Nat \ {0}
  BY HlsMuxerAssumption
<1> QED
  BY <1>1, <1>2, <1>3, <1>4, <1>5, <1>6

LEMMA QuietStep == ASSUME Inv, Quiet PROVE Parts'
<1>1. /\ segment_index' = segment_index /\ segments' = segments /\ ctx' = ctx /\ files' = files
      /\ complete' = complete /\ index' = index
  BY DEF Quiet, Kept
<1>2. TypeOK /\ VectorInv /\ CtxInv /\ FilesInv /\ CleanerInv /\ ListInv
  BY DEF Inv
<1>3. FileType'
  BY <1>1, <1>2, Types DEF FileType
<1>4. pc' \in {"cut_index", "cut_flush", "next"} => pc \in {"cut_index", "cut_flush", "next"}
  BY DEF Quiet
<1>5. VectorInv'
  <2>1. /\ Len(segments') <= MaxSegments
        /\ \A i \in Positions' : segments'[i].seq <= segment_index'
        /\ \A i, j \in Positions' : i <= j => segments'[i].seq <= segments'[j].seq
        /\ segment_index' < MaxSegments => \A i \in Positions' : segments'[i].seq = i - 1
    BY <1>1, <1>2 DEF VectorInv, Positions
  <2>2. pc' \notin {"close_exit", "done"} => pc \notin {"close_exit", "done"}
    BY DEF Quiet
  <2>3. segment_index' < MaxSegments /\ pc' \notin {"close_exit", "done"}
         => /\ Len(segments') \in {segment_index', segment_index' + 1}
            /\ ctx' # NoFile \/ pc' \in {"cut_index", "cut_flush", "next"}
                 => Len(segments') = segment_index' + 1
    BY <1>1, <1>2, <1>4, <2>2 DEF VectorInv
  <2>4. ctx' # NoFile /\ pc' \notin {"close_exit", "done"} => segments' # <<>>
    BY <1>1, <1>2, <2>2 DEF VectorInv
  <2> QED
    BY <2>1, <2>3, <2>4 DEF VectorInv
<1>6. CtxInv'
  BY <1>1, <1>2, <1>4 DEF Quiet, CtxInv
<1>7. FilesInv'
  <2>1. CASE pc \in {"cut_index", "cut_flush", "next", "close", "close_exit", "done"}
    BY <1>1, <1>2, <2>1 DEF FilesInv
  <2>2. CASE pc \in {"start", "swr", "first_index", "first_flush"}
    <3>1. files = {} /\ complete = {}
      BY <1>2, <2>2, Shape DEF CtxInv
    <3> QED
      BY <1>1, <3>1 DEF FilesInv
  <2>3. CASE pc' \notin {"cut_index", "cut_flush", "next", "close", "close_exit", "done"}
    BY <1>1, <1>2, <2>3 DEF FilesInv
  <2> QED
    BY <2>1, <2>2, <2>3 DEF Quiet
<1>8. CleanerInv'
  <2>1. pc \in {"close_exit", "done"} => pc' \in {"close_exit", "done"}
    BY DEF Quiet
  <2>2. cleaner'.pc = "newest" => segments' # <<>> \/ pc' \in {"close_exit", "done"}
    BY <1>1, <1>2, <2>1 DEF Quiet, CleanerInv
  <2>3. cleaner'.pc = "delete" => cleaner'.last <= segment_index' - MaxSegments - 2
    <3>1. CASE UNCHANGED cleaner
      BY <1>1, <1>2, <3>1 DEF CleanerInv
    <3>2. CASE segments # <<>> /\ cleaner'.last = segments[Len(segments)].seq - MaxSegments - 2
      <4>1. segments[Len(segments)].seq <= segment_index /\ segments[Len(segments)].seq \in Nat
        BY <1>2, <3>2, Shape DEF VectorInv
      <4> QED
        BY <1>1, <1>2, <3>2, <4>1, Shape
    <3> QED
      BY <3>1, <3>2 DEF Quiet
  <2> QED
    BY <2>2, <2>3 DEF CleanerInv
<1>9. ListInv'
  <2>1. /\ pc = "next" => pc' = "next"
        /\ pc \in {"trailer", "close", "close_exit", "done"} => pc' \in {"trailer", "close", "close_exit", "done"}
    BY DEF Quiet
  <2> QED
    BY <1>1, <1>2, <2>1 DEF ListInv
<1> QED
  BY <1>3, <1>5, <1>6, <1>7, <1>8, <1>9 DEF Parts

(* A step that writes the index, or dies, leaves the vector and the files *)
LEMMA KeptParts ==
  ASSUME Inv, UNCHANGED <<segment_index, segments, ctx, files, complete, cleaner>>,
         \/ pc' = pc
         \/ pc = "first_index" /\ pc' = "first_flush"
         \/ pc = "cut_index" /\ pc' = "cut_flush"
         \/ pc = "last_index" /\ pc' = "last_flush"
         \/ pc = "first_flush" /\ pc' = "loop"
         \/ pc = "cut_flush" /\ pc' = "next"
         \/ pc = "last_flush" /\ pc' = "trailer"
  PROVE  VectorInv' /\ CtxInv' /\ FilesInv' /\ CleanerInv'
<1>1. /\ segment_index' = segment_index /\ segments' = segments /\ ctx' = ctx /\ files' = files
      /\ complete' = complete /\ cleaner' = cleaner
  OBVIOUS
<1>2. VectorInv /\ CtxInv /\ FilesInv /\ CleanerInv
  BY DEF Inv
<1>3. /\ pc' \in {"cut_index", "cut_flush", "next"} => pc \in {"cut_index", "cut_flush", "next"}
      /\ pc' \notin {"close_exit", "done"} => pc \notin {"close_exit", "done"}
      /\ pc \in {"close_exit", "done"} => pc' \in {"close_exit", "done"}
      /\ pc' \in {"start", "swr", "first_index", "first_flush"}
           => pc \in {"start", "swr", "first_index", "first_flush"}
      /\ pc' \in {"cut_index", "cut_flush", "next", "close", "close_exit", "done"}
           => pc \in {"cut_index", "cut_flush", "next", "close", "close_exit", "done"}
  OBVIOUS
<1>4. VectorInv'
  <2>1. /\ Len(segments') <= MaxSegments
        /\ \A i \in Positions' : segments'[i].seq <= segment_index'
        /\ \A i, j \in Positions' : i <= j => segments'[i].seq <= segments'[j].seq
        /\ segment_index' < MaxSegments => \A i \in Positions' : segments'[i].seq = i - 1
    BY <1>1, <1>2 DEF VectorInv, Positions
  <2>2. segment_index' < MaxSegments /\ pc' \notin {"close_exit", "done"}
         => /\ Len(segments') \in {segment_index', segment_index' + 1}
            /\ ctx' # NoFile \/ pc' \in {"cut_index", "cut_flush", "next"}
                 => Len(segments') = segment_index' + 1
    BY <1>1, <1>2, <1>3 DEF VectorInv
  <2>3. ctx' # NoFile /\ pc' \notin {"close_exit", "done"} => segments' # <<>>
    BY <1>1, <1>2, <1>3 DEF VectorInv
  <2> QED
    BY <2>1, <2>2, <2>3 DEF VectorInv
<1>5. CtxInv'
  BY <1>1, <1>2, <1>3 DEF CtxInv
<1>6. FilesInv'
  BY <1>1, <1>2, <1>3 DEF FilesInv
<1>7. CleanerInv'
  BY <1>1, <1>2, <1>3 DEF CleanerInv
<1> QED
  BY <1>4, <1>5, <1>6, <1>7

LEMMA OpenedStep == ASSUME Inv, Opened PROVE Parts'
<1>1. VectorInv' /\ CtxInv' /\ FilesInv' /\ CleanerInv'
  BY KeptParts DEF Opened, OnlyIndex
<1>2. /\ index' \in [state: {"absent", "truncated", "written"}, first: Nat,
                     list: Seq(Segments), ended: BOOLEAN]
      /\ index'.list = <<>> /\ Len(index'.list) = 0 /\ ~index'.ended
  BY DEF Opened, Truncated
<1>3. FileType'
  BY <1>2, Types DEF Inv, FileType, Opened, OnlyIndex
<1>4. ListInv'
  BY <1>2 DEF ListInv
<1> QED
  BY <1>1, <1>3, <1>4 DEF Parts

LEMMA FlushedStep == ASSUME Inv, Flushed PROVE Parts'
<1>1. VectorInv' /\ CtxInv' /\ FilesInv' /\ CleanerInv'
  BY KeptParts DEF Flushed, OnlyIndex
<1>2. TypeOK /\ VectorInv /\ CtxInv
  BY DEF Inv
<1>3. PICK type \in {VOD, EVENT} :
        /\ index' = Playlist(type)
        /\ \/ pc = "first_flush" /\ type # VOD
           \/ pc' = "next" /\ type # VOD
           \/ pc' = "trailer" /\ type = VOD
  BY DEF Flushed, VOD, EVENT
<1>4. /\ Playlist(type) = [state |-> "written", first |-> First(type),
                           list |-> segments, ended |-> type = VOD]
      /\ First(type) \in Nat
  BY <1>2, PlaylistIsVector
<1>5. segments \in Seq(Segments)
  BY <1>2, Shape
<1>6. index'.list = segments /\ index'.ended = (type = VOD)
  BY <1>3, <1>4
<1>7. index' \in [state: {"absent", "truncated", "written"}, first: Nat,
                  list: Seq(Segments), ended: BOOLEAN]
  <2>1. (type = VOD) \in BOOLEAN
    OBVIOUS
  <2> QED
    BY <1>3, <1>4, <1>5, <2>1
<1>8. FileType'
  BY <1>2, <1>7, Types DEF FileType, Flushed, OnlyIndex
<1>9. ListInv'
  <2>1. segment_index' = segment_index
    BY DEF Flushed, OnlyIndex
  <2>2. \A i \in 1..Len(index'.list) : index'.list[i].seq <= segment_index'
    BY <1>2, <1>6, <2>1 DEF VectorInv, Positions
  <2>3. pc = "first_flush" => Len(index'.list) = 0
    BY <1>2, <1>6, Shape DEF CtxInv
  <2>4. index'.ended => pc' = "trailer"
    BY <1>3, <1>6 DEF Flushed
  <2>5. \/ index'.ended \/ pc' = "next"
        \/ \A i \in 1..Len(index'.list) : index'.list[i].seq < segment_index'
    <3>1. CASE pc = "first_flush"
      <4>1. 1..Len(index'.list) = {}
        BY <2>3, <3>1
      <4> QED
        BY <4>1
    <3> QED
      BY <1>3, <1>6, <3>1
  <2> QED
    BY <2>2, <2>4, <2>5 DEF ListInv
<1> QED
  BY <1>1, <1>8, <1>9 DEF Parts

LEMMA DiesStep == ASSUME Inv, Dies PROVE Parts'
<1>1. /\ UNCHANGED <<segment_index, segments, ctx, files, complete, cleaner>>
      /\ pc' = pc /\ index' = index
  BY DEF Dies, mainVars
<1>2. VectorInv' /\ CtxInv' /\ FilesInv' /\ CleanerInv'
  BY <1>1, KeptParts
<1>3. FileType'
  BY <1>1, Types DEF Inv, FileType
<1>4. ListInv'
  BY <1>1 DEF Inv, ListInv
<1> QED
  BY <1>2, <1>3, <1>4 DEF Parts

(* What a vector with the numbers of the old one keeps *)
LEMMA SameNumbers ==
  ASSUME Inv, segments' \in Seq(Segments), Len(segments') = Len(segments),
         \A i \in Positions : segments'[i].seq = segments[i].seq,
         segment_index' = segment_index,
         pc' \in {"cut_index", "cut_flush", "next"} => ctx # NoFile,
         ctx' # NoFile => ctx # NoFile,
         pc \notin {"close_exit", "done"}
  PROVE  VectorInv'
<1>1. VectorInv /\ Len(segments) \in Nat /\ (segments = <<>> <=> Len(segments) = 0)
  BY Shape DEF Inv
<1>2. Positions' = Positions
  BY DEF Positions
<1>3. /\ Len(segments') <= MaxSegments
      /\ \A i \in Positions' : segments'[i].seq <= segment_index'
      /\ \A i, j \in Positions' : i <= j => segments'[i].seq <= segments'[j].seq
      /\ segment_index' < MaxSegments => \A i \in Positions' : segments'[i].seq = i - 1
  BY <1>1, <1>2 DEF VectorInv
<1>4. segment_index' < MaxSegments /\ pc' \notin {"close_exit", "done"}
         => /\ Len(segments') \in {segment_index', segment_index' + 1}
            /\ ctx' # NoFile \/ pc' \in {"cut_index", "cut_flush", "next"}
                 => Len(segments') = segment_index' + 1
  BY <1>1 DEF VectorInv
<1>5. ctx' # NoFile /\ pc' \notin {"close_exit", "done"} => segments' # <<>>
  <2>1. ctx' # NoFile => Len(segments') # 0
    BY <1>1 DEF VectorInv
  <2> QED
    BY <2>1
<1> QED
  BY <1>3, <1>4, <1>5 DEF VectorInv

(* The end of a segment's file *)
LEMMA CutStep == ASSUME Inv, Cut PROVE Parts'
<1>1. /\ ctx # NoFile /\ pc = "cut" /\ pc' \in {"cut_index", "next"}
      /\ complete' = complete \cup {ctx} /\ ctx' = NoFile
      /\ segments' = SetLast(cut.duration)
      /\ segment_index' = segment_index /\ files' = files /\ index' = index /\ cleaner' = cleaner
  BY DEF Cut, Step, At, SetLast
<1>2. TypeOK /\ VectorInv /\ CtxInv /\ FilesInv /\ CleanerInv /\ ListInv
  BY DEF Inv
<1>3. cut.duration \in Int
  BY <1>2 DEF TypeOK
<1>4. /\ ctx = segment_index /\ ctx \in files /\ segments # <<>>
      /\ files \subseteq Nat /\ complete \subseteq files
  BY <1>1, <1>2, Shape DEF CtxInv, VectorInv
<1>5. /\ segments' \in Seq(Segments) /\ segments' # <<>> /\ Len(segments') = Len(segments)
      /\ \A i \in Positions : segments'[i].seq = segments[i].seq
  BY <1>1, <1>2, <1>3, <1>4, SetLastIs
<1>6. FileType'
  BY <1>1, <1>2, <1>4, <1>5, Types DEF FileType
<1>7. VectorInv'
  BY <1>1, <1>5, SameNumbers
<1>8. CtxInv'
  BY <1>1 DEF CtxInv
<1>9. FilesInv'
  <2>1. files' = complete'
    BY <1>1, <1>2, <1>4 DEF FilesInv
  <2> QED
    BY <2>1 DEF FilesInv
<1>10. CleanerInv'
  BY <1>1, <1>2, <1>5 DEF CleanerInv
<1>11. ListInv'
  BY <1>1, <1>2 DEF ListInv
<1> QED
  BY <1>6, <1>7, <1>8, <1>9, <1>10, <1>11 DEF Parts

LEMMA NextSegmentStep == ASSUME Inv, NextSegment PROVE Parts'
<1>1. /\ pc = "next" /\ pc' = "segment" /\ segment_index' = segment_index + 1
      /\ segments' = segments /\ ctx' = ctx /\ files' = files /\ complete' = complete
      /\ index' = index /\ cleaner' = cleaner
  BY DEF NextSegment, Step, At
<1>2. /\ VectorInv /\ CtxInv /\ FilesInv /\ CleanerInv /\ ListInv /\ FileType
      /\ segment_index \in Nat /\ Len(segments) \in Nat /\ MaxSegments \in Nat
      /\ \A i \in Positions : segments[i].seq \in Nat
      /\ \A i \in 1..Len(index.list) : index.list[i].seq \in Nat
  BY Shape, Types DEF Inv
<1>3. FileType'
  BY <1>1, <1>2 DEF FileType
<1>4. VectorInv'
  <2>1. /\ Len(segments') <= MaxSegments
        /\ \A i \in Positions' : segments'[i].seq <= segment_index'
        /\ \A i, j \in Positions' : i <= j => segments'[i].seq <= segments'[j].seq
        /\ segment_index' < MaxSegments => \A i \in Positions' : segments'[i].seq = i - 1
    BY <1>1, <1>2 DEF VectorInv, Positions
  <2>2. segment_index' < MaxSegments => Len(segments') = segment_index'
    BY <1>1, <1>2 DEF VectorInv
  <2>3. ctx' = NoFile
    BY <1>1, <1>2 DEF CtxInv
  <2> QED
    BY <1>1, <2>1, <2>2, <2>3 DEF VectorInv
<1>5. CtxInv'
  BY <1>1, <1>2 DEF CtxInv
<1>6. FilesInv'
  BY <1>1, <1>2 DEF FilesInv
<1>7. CleanerInv'
  <2>1. cleaner.pc = "delete" => cleaner.last <= segment_index + 1 - MaxSegments - 2
    <3>1. cleaner.last \in Int
      BY DEF Inv, TypeOK
    <3> QED
      BY <1>2, <3>1 DEF CleanerInv
  <2> QED
    BY <1>1, <1>2, <2>1 DEF CleanerInv
<1>8. ListInv'
  <2>1. \A i \in 1..Len(index.list) : index.list[i].seq < segment_index + 1
    BY <1>2 DEF ListInv
  <2>2. ~index.ended
    BY <1>1, <1>2 DEF ListInv
  <2> QED
    BY <1>1, <1>2, <2>1, <2>2 DEF ListInv
<1> QED
  BY <1>3, <1>4, <1>5, <1>6, <1>7, <1>8 DEF Parts

(* The window with the segment at hand in it *)
LEMMA WindowKeeps ==
  ASSUME Inv, pc = "segment", ctx = NoFile, segments' = Window, segment_index' = segment_index,
         pc' = "write"
  PROVE  VectorInv' /\ segments' \in Seq(Segments) /\ segments' # <<>>
<1>1. VectorInv /\ TypeOK
  BY DEF Inv
<1>2. /\ segment_index \in Nat /\ Len(segments) \in Nat /\ MaxSegments \in Nat
      /\ \A i \in Positions : segments[i].seq \in Nat
      /\ segments \in Seq(Segments)
  BY <1>1, Shape
<1>3. CASE ~Missing
  <2>1. segments' = segments /\ Len(segments) >= segment_index + 1
    BY <1>2, <1>3 DEF Window, Missing
  <2>2. segments # <<>> /\ segment_index < MaxSegments
    BY <1>1, <1>2, <2>1, Shape DEF VectorInv
  <2>3. /\ Len(segments') <= MaxSegments
        /\ \A i \in Positions' : segments'[i].seq <= segment_index'
        /\ \A i, j \in Positions' : i <= j => segments'[i].seq <= segments'[j].seq
        /\ segment_index' < MaxSegments => \A i \in Positions' : segments'[i].seq = i - 1
    BY <1>1, <2>1 DEF VectorInv, Positions
  <2>4. Len(segments') = segment_index' + 1
    BY <1>1, <1>2, <2>1, <2>2 DEF VectorInv
  <2> QED
    BY <1>2, <2>1, <2>2, <2>3, <2>4 DEF VectorInv
<1>4. CASE Missing
  <2>1. PICK out \in {0, 1} :
          /\ out = 1 <=> Len(segments) = MaxSegments
          /\ Len(Window) = Len(segments) + 1 - out
          /\ \A i \in 1..Len(Window) :
               IF i = Len(Window) THEN Window[i] = [seq |-> segment_index, dur |-> SegDur]
               ELSE i + out \in Positions /\ Window[i] = segments[i + out]
    BY <1>1, <1>4, WindowIs DEF VectorInv
  <2>2. Window \in Seq(Segments) /\ Window # <<>>
    BY <1>1, <1>4, WindowIs DEF VectorInv
  <2>3. [seq |-> segment_index, dur |-> SegDur].seq = segment_index
    OBVIOUS
  <2>4. \A i \in 1..Len(Window) : \/ i = Len(Window) /\ Window[i].seq = segment_index
                                 \/ /\ i # Len(Window) /\ i + out \in Positions
                                    /\ Window[i].seq = segments[i + out].seq
    BY <2>1, <2>3
  <2>5. Len(Window) \in Nat /\ Len(Window) <= MaxSegments
    BY <1>1, <1>2, <2>1 DEF VectorInv
  <2>6. \A i \in 1..Len(Window) : Window[i].seq <= segment_index /\ Window[i].seq \in Nat
    BY <1>1, <1>2, <2>4 DEF VectorInv
  <2>7. ASSUME NEW i \in 1..Len(Window), NEW j \in 1..Len(Window), i <= j
        PROVE  Window[i].seq <= Window[j].seq
    <3>1. CASE j = Len(Window)
      BY <2>4, <2>6, <3>1
    <3>2. CASE j # Len(Window)
      <4>1. i # Len(Window)
        BY <2>5, <2>7, <3>2
      <4>2. /\ i + out \in Positions /\ j + out \in Positions /\ i + out <= j + out
            /\ Window[i].seq = segments[i + out].seq /\ Window[j].seq = segments[j + out].seq
        BY <2>4, <2>7, <3>2, <4>1
      <4> QED
        BY <1>1, <4>2 DEF VectorInv
    <3> QED
      BY <3>1, <3>2
  <2>8. ASSUME segment_index < MaxSegments
        PROVE  Len(Window) = segment_index + 1 /\ \A i \in 1..Len(Window) : Window[i].seq = i - 1
    <3>1. Len(segments) = segment_index
      BY <1>1, <1>2, <1>4, <2>8 DEF VectorInv, Missing
    <3>2. out = 0 /\ Len(Window) = segment_index + 1
      BY <1>2, <2>1, <2>8, <3>1
    <3>3. ASSUME NEW i \in 1..Len(Window) PROVE Window[i].seq = i - 1
      <4>1. CASE i = Len(Window)
        BY <1>2, <2>4, <3>2, <4>1
      <4>2. CASE i # Len(Window)
        <5>1. i \in Positions /\ Window[i].seq = segments[i].seq
          BY <2>4, <3>2, <4>2
        <5> QED
          BY <1>1, <2>8, <5>1 DEF VectorInv
      <4> QED
        BY <4>1, <4>2
    <3> QED
      BY <3>2, <3>3
  <2>9. Positions' = 1..Len(Window) /\ segments' = Window
    BY DEF Positions
  <2>10. \A i, j \in Positions' : i <= j => segments'[i].seq <= segments'[j].seq
    BY <2>7, <2>9
  <2>11. /\ \A i \in Positions' : segments'[i].seq <= segment_index'
         /\ segment_index' < MaxSegments => \A i \in Positions' : segments'[i].seq = i - 1
         /\ segment_index' < MaxSegments => Len(segments') = segment_index' + 1
    BY <2>6, <2>8, <2>9
  <2> QED
    BY <2>2, <2>5, <2>9, <2>10, <2>11 DEF VectorInv
<1> QED
  BY <1>3, <1>4

(* A segment's file is opened; it may fail *)
LEMMA OpensSegment ==
  ASSUME Inv, pc = "segment", pc' = "write", ctx = NoFile,
         segments' = Window, segment_index' = segment_index,
         \/ ctx' = Current /\ files' = files \cup {Current}
         \/ ctx' = ctx /\ files' \in {files, files \cup {Current}},
         complete' = complete, index' = index, cleaner' = cleaner
  PROVE  Parts'
<1>1. /\ VectorInv /\ CtxInv /\ FilesInv /\ CleanerInv /\ ListInv /\ FileType
      /\ segment_index \in Nat /\ files \subseteq Nat /\ complete \subseteq files /\ NoFile \notin Nat
  BY Shape, Types DEF Inv
<1>2. Current = segment_index
  BY CurrentIs DEF Inv
<1>3. VectorInv' /\ segments' \in Seq(Segments) /\ segments' # <<>>
  BY WindowKeeps
<1>4. FileType'
  BY <1>1, <1>2, <1>3 DEF FileType
<1>5. CtxInv'
  BY <1>2 DEF CtxInv
<1>6. FilesInv'
  BY <1>1, <1>2 DEF FilesInv
<1>7. CleanerInv'
  BY <1>1, <1>3 DEF CleanerInv
<1>8. ListInv'
  BY <1>1 DEF ListInv
<1> QED
  BY <1>3, <1>4, <1>5, <1>6, <1>7, <1>8 DEF Parts

LEMMA FinishStep == ASSUME Inv, Finish PROVE Parts'
<1>1. /\ pc = "finish" /\ pc' \in {"last_index", "trailer"}
      /\ segment_index' = segment_index /\ ctx' = ctx /\ files' = files /\ complete' = complete
      /\ index' = index /\ cleaner' = cleaner
      /\ segments' = segments \/ (segments # <<>> /\ segments' = SetLast(cut.duration))
  BY DEF Finish, Step, At, SetLast
<1>2. TypeOK /\ VectorInv /\ CtxInv /\ FilesInv /\ CleanerInv /\ ListInv /\ FileType
  BY Types DEF Inv
<1>3. cut.duration \in Int
  BY <1>2 DEF TypeOK
<1>4. /\ segments' \in Seq(Segments) /\ Len(segments') = Len(segments)
      /\ \A i \in Positions : segments'[i].seq = segments[i].seq
  BY <1>1, <1>2, <1>3, Shape, SetLastIs
<1>5. FileType'
  BY <1>1, <1>2, <1>4 DEF FileType
<1>6. VectorInv'
  BY <1>1, <1>4, SameNumbers
<1>7. CtxInv'
  BY <1>1, <1>2 DEF CtxInv
<1>8. FilesInv'
  BY <1>1, <1>2 DEF FilesInv
<1>9. CleanerInv'
  <2>1. segments # <<>> => segments' # <<>>
    BY <1>1, <1>2, <1>3, SetLastIs
  <2> QED
    BY <1>1, <1>2, <2>1 DEF CleanerInv
<1>10. ListInv'
  BY <1>1, <1>2 DEF ListInv
<1> QED
  BY <1>5, <1>6, <1>7, <1>8, <1>9, <1>10 DEF Parts

LEMMA TrailerStep == ASSUME Inv, Trailer PROVE Parts'
<1>1. /\ ctx # NoFile /\ pc = "trailer" /\ pc' = "close" /\ complete' = complete \cup {ctx}
      /\ segments' = segments /\ segment_index' = segment_index /\ ctx' = ctx /\ files' = files
      /\ index' = index /\ cleaner' = cleaner
  BY DEF Trailer, Step, At
<1>2. /\ VectorInv /\ CtxInv /\ FilesInv /\ CleanerInv /\ ListInv /\ FileType
      /\ files \subseteq Nat /\ complete \subseteq files /\ segments \in Seq(Segments)
  BY Types, Shape DEF Inv
<1>3. ctx = segment_index /\ ctx \in files
  BY <1>1, <1>2 DEF CtxInv
<1>4. FileType'
  BY <1>1, <1>2, <1>3 DEF FileType
<1>5. VectorInv'
  BY <1>1, <1>2, SameNumbers
<1>6. CtxInv'
  BY <1>1, <1>2 DEF CtxInv
<1>7. FilesInv'
  <2>1. files' = complete'
    BY <1>1, <1>2, <1>3 DEF FilesInv
  <2> QED
    BY <2>1 DEF FilesInv
<1>8. CleanerInv'
  BY <1>1, <1>2 DEF CleanerInv
<1>9. ListInv'
  BY <1>1, <1>2 DEF ListInv
<1> QED
  BY <1>4, <1>5, <1>6, <1>7, <1>8, <1>9 DEF Parts

LEMMA CloseClearStep == ASSUME Inv, CloseClear PROVE Parts'
<1>1. /\ pc = "close" /\ pc' = "close_exit" /\ segments' = <<>> /\ Len(segments') = 0
      /\ segment_index' = segment_index /\ ctx' = ctx /\ files' = files /\ complete' = complete
      /\ index' = index /\ cleaner' = cleaner
  BY DEF CloseClear, Step, At
<1>2. /\ CtxInv /\ FilesInv /\ CleanerInv /\ ListInv /\ FileType /\ MaxSegments \in Nat
  BY Types, Shape DEF Inv
<1>3. FileType'
  BY <1>1, <1>2 DEF FileType
<1>4. VectorInv'
  BY <1>1, <1>2 DEF VectorInv, Positions
<1>5. CtxInv'
  BY <1>1, <1>2 DEF CtxInv
<1>6. FilesInv'
  BY <1>1, <1>2 DEF FilesInv
<1>7. CleanerInv'
  BY <1>1, <1>2 DEF CleanerInv
<1>8. ListInv'
  BY <1>1, <1>2 DEF ListInv
<1> QED
  BY <1>3, <1>4, <1>5, <1>6, <1>7, <1>8 DEF Parts

LEMMA CleanerDeleteStep == ASSUME Inv, CleanerDelete PROVE Parts'
<1>1. /\ cleaner.pc = "delete" /\ cleaner.last \in files
      /\ cleaner'.pc = "delete" /\ cleaner'.last = cleaner.last - 1
      /\ files' = files \ {cleaner.last} /\ complete' = complete \ {cleaner.last}
      /\ pc' = pc /\ segments' = segments /\ segment_index' = segment_index /\ ctx' = ctx
      /\ index' = index
  BY DEF CleanerDelete, CleanerGoes
<1>2. /\ VectorInv /\ CtxInv /\ FilesInv /\ CleanerInv /\ ListInv /\ FileType
      /\ files \subseteq Nat /\ complete \subseteq files /\ segment_index \in Nat
      /\ MaxSegments \in Nat
  BY Types, Shape DEF Inv
<1>3. cleaner.last \in Nat /\ cleaner.last <= segment_index - MaxSegments - 2
  BY <1>1, <1>2 DEF CleanerInv
<1>4. cleaner.last # segment_index
  BY <1>2, <1>3
<1>5. FileType'
  BY <1>1, <1>2 DEF FileType
<1>6. VectorInv'
  BY <1>1, <1>2 DEF VectorInv, Positions
<1>7. CtxInv'
  BY <1>1, <1>2, <1>4 DEF CtxInv
<1>8. FilesInv'
  BY <1>1, <1>2 DEF FilesInv
<1>9. CleanerInv'
  <2>1. cleaner'.last <= segment_index' - MaxSegments - 2
    BY <1>1, <1>2, <1>3
  <2> QED
    BY <1>1, <2>1 DEF CleanerInv
<1>10. ListInv'
  BY <1>1, <1>2 DEF ListInv
<1> QED
  BY <1>5, <1>6, <1>7, <1>8, <1>9, <1>10 DEF Parts

LEMMA InvStep == Inv /\ [Next]_vars => Inv'
<1> SUFFICES ASSUME Inv, [Next]_vars PROVE Inv'
  OBVIOUS
<1>1. ASSUME NewSegment PROVE Parts'
  BY <1>1, OpensSegment DEF NewSegment, Step, At
<1>2. ASSUME NewSegmentFails, segment_index # 0 PROVE Parts'
  BY <1>2, OpensSegment DEF NewSegmentFails, Step, At
<1>3. Parts'
  BY <1>1, <1>2, StepKinds, QuietStep, OpenedStep, FlushedStep, DiesStep, CutStep,
     NextSegmentStep, FinishStep, TrailerStep, CloseClearStep, CleanerDeleteStep
<1>4. TypeOK'
  <2>1. ControlType'
    BY ControlStep DEF Inv
  <2> QED
    BY <1>3, <2>1 DEF Parts, TypeOK, ControlType, FileType
<1> QED
  BY <1>3, <1>4 DEF Inv, Parts

LEMMA InvHolds == Spec => []Inv
BY InvInit, InvStep, PTL DEF Spec

-----------------------------------------------------------------------------

(* Every variable of the muxer has its type; a finished file is a file. *)
THEOREM TypeCorrect == Spec => []TypeOK
BY InvHolds, PTL DEF Inv

(* For any window and whatever fails, index.m3u8 and segment files included, *)
(* a playlist of a live stream does not name the file that is being written. *)
THEOREM OpenFileUnlisted == Spec => []NeverListsOpenFile
<1>1. Inv => NeverListsOpenFile
  <2> SUFFICES ASSUME Inv, ~index.ended, ctx \in Listed PROVE FALSE
    BY DEF NeverListsOpenFile
  <2>1. PICK i \in 1..Len(index.list) : index.list[i].seq = ctx
    BY DEF Listed
  <2>2. ctx \in Nat /\ NoFile \notin Nat
    BY <2>1, Shape DEF Inv
  <2>3. ctx = segment_index /\ pc # "next"
    BY <2>2 DEF Inv, CtxInv
  <2> QED
    BY <2>1, <2>2, <2>3 DEF Inv, ListInv
<1> QED
  BY InvHolds, <1>1, PTL

(* Whatever fails, a muxer that ends has ended every segment file it opened. *)
THEOREM ExitFinishesFiles == Spec => []AllFinishedAtExit
<1>1. Inv => AllFinishedAtExit
  BY DEF Inv, FilesInv, AllFinishedAtExit
<1> QED
  BY InvHolds, <1>1, PTL

-----------------------------------------------------------------------------
(* While segment files can be opened.  Everything else may fail: an index   *)
(* that cannot be opened costs what is said of the playlist, an input with  *)
(* a stream missing what is said of the crashes.                            *)

NoFault(kinds) == kinds \cap Faults = {}

(* How many segments were begun *)
Count == IF ctx # NoFile \/ Cutting THEN segment_index + 1 ELSE segment_index

(* There is an output file from the first packet on *)
BegunInv ==
  /\ pc \in {"start", "swr", "first_index", "first_flush"} => cut.index = -1
  /\ ctx = NoFile /\ pc \in {"loop", "read", "finish", "last_index", "last_flush", "trailer"}
       => segment_index = 0 /\ files = {} /\ segments = <<>> /\ cut.index = -1
  /\ ctx = NoFile /\ pc = "segment" /\ segment_index = 0 => files = {} /\ segments = <<>>
  /\ pc \in {"cut", "write"} => ctx # NoFile

WindowInv ==
  pc \notin {"close_exit", "done"}
    => /\ Len(segments) = Newest(Count)
       /\ \A i \in Positions : segments[i].seq = Count - Newest(Count) + i - 1

(* The segments of the window, and the last one that left it, are there and *)
(* complete                                                                *)
CompleteInv ==
  \A n \in Nat : segment_index - MaxSegments - 1 <= n /\ n < Count /\ n # ctx => n \in complete

IndexInv ==
  /\ \A i \in 1..Len(index.list) : index.list[i].seq >= segment_index - MaxSegments
  /\ pc = "next" => \A i \in 1..Len(index.list) : index.list[i].seq > segment_index - MaxSegments
  /\ index.ended /\ ctx = NoFile => index.list = <<>>
  /\ ~Live /\ ~index.ended => index.list = <<>>
  /\ pc \in {"cut_index", "cut_flush"} => Live

LiveInv ==
  \A n \in Nat :
    /\ Live /\ pc = "next" /\ n = segment_index + 1 => IndexIs(n, n - Newest(n))
    /\ Live /\ pc \in {"segment", "write", "loop", "read", "cut", "finish"}
         => (n = segment_index /\ n > 0 => IndexIs(n, n - Newest(n)))
    /\ index.ended /\ ctx # NoFile /\ n = segment_index + 1 => IndexIs(n, 0)

Written == "fopen" \notin Faults /\ IndexInv /\ LiveInv

FParts ==
  /\ BegunInv /\ WindowInv /\ CompleteInv /\ PublishedDurationFinal
  /\ "fopen" \in Faults \/ Written

FInv ==
  /\ "writer" \notin Faults
  /\ Inv /\ FParts
  /\ "stream" \in Faults \/ CrashOnlyAtTheEnds

LEMMA FInvInit == NoFault({"writer"}) /\ Init => FInv
<1> SUFFICES ASSUME "writer" \notin Faults, Init PROVE FInv
  BY DEF NoFault
<1>1. Inv
  BY InvInit
<1>2. /\ segments = <<>> /\ Len(segments) = 0 /\ index.list = <<>> /\ Len(index.list) = 0
      /\ ~index.ended /\ ctx = NoFile /\ pc = "start" /\ segment_index = 0 /\ ~crashed
      /\ cut.index = -1
  BY DEF Init, NoIndex
<1>3. Count = 0 /\ Newest(Count) = 0 /\ Positions = {}
  BY <1>2, HlsMuxerAssumption DEF Count, Cutting, Newest, Positions
<1>4. BegunInv /\ WindowInv /\ IndexInv /\ CompleteInv
  BY <1>2, <1>3 DEF BegunInv, WindowInv, IndexInv, CompleteInv
<1>5. LiveInv /\ PublishedDurationFinal /\ CrashOnlyAtTheEnds
  BY <1>2 DEF LiveInv, PublishedDurationFinal, CrashOnlyAtTheEnds
<1> QED
  BY <1>1, <1>4, <1>5 DEF FInv, FParts, Written

(* What the parts say, in one place *)
LEMMA FShape ==
  ASSUME FInv
  PROVE  /\ segments \in Seq(Segments) /\ Len(segments) \in Nat /\ segment_index \in Nat
         /\ \A i \in Positions : segments[i] \in Segments /\ segments[i].seq \in Nat
         /\ segments # <<>> => Len(segments) \in Positions
         /\ segments = <<>> <=> Len(segments) = 0
         /\ index.list \in Seq(Segments) /\ Len(index.list) \in Nat
         /\ \A i \in 1..Len(index.list) : index.list[i].seq \in Nat
         /\ files \subseteq Nat /\ complete \subseteq files
         /\ NoFile \notin Nat /\ MaxSegments \in Nat \ {0}
         /\ Count \in Nat /\ Count \in {segment_index, segment_index + 1}
         /\ Newest(Count) \in Nat /\ Newest(Count) <= MaxSegments /\ Newest(Count) <= Count
<1>1. segment_index \in Nat /\ MaxSegments \in Nat \ {0}
  BY Shape DEF FInv, Inv
<1>2. Count \in Nat /\ Count \in {segment_index, segment_index + 1}
  BY <1>1 DEF Count
<1>3. Newest(Count) \in Nat /\ Newest(Count) <= MaxSegments /\ Newest(Count) <= Count
  BY <1>1, <1>2 DEF Newest
<1> QED
  BY <1>2, <1>3, Shape DEF FInv, Inv

LEMMA QuietKeeps == ASSUME FInv, Quiet PROVE FParts'
<1>1. /\ segment_index' = segment_index /\ segments' = segments /\ ctx' = ctx /\ files' = files
      /\ complete' = complete /\ index' = index /\ job' = job
  BY DEF Quiet, Kept
<1>2. BegunInv /\ WindowInv /\ CompleteInv /\ PublishedDurationFinal
  BY DEF FInv, FParts
<1>3. "fopen" \notin Faults => (pc = "next" <=> pc' = "next")
  BY DEF Quiet
<1>4. /\ Cutting' <=> Cutting
      /\ pc' \notin {"close_exit", "done"} => pc \notin {"close_exit", "done"}
  BY DEF Quiet, Cutting
<1>5. Count' = Count /\ Positions' = Positions
  BY <1>1, <1>4 DEF Count, Positions
<1>6. BegunInv'
  <2>1. pc' \in {"start", "swr", "first_index", "first_flush"} => cut'.index = -1
    BY <1>2 DEF Quiet, BegunInv
  <2>2. ctx' = NoFile /\ pc' \in {"loop", "read", "finish", "last_index", "last_flush", "trailer"}
          => segment_index' = 0 /\ files' = {} /\ segments' = <<>> /\ cut'.index = -1
    BY <1>1, <1>2 DEF Quiet, BegunInv
  <2>3. ctx' = NoFile /\ pc' = "segment" /\ segment_index' = 0 => files' = {} /\ segments' = <<>>
    BY <1>1, <1>2 DEF Quiet, BegunInv
  <2>4. pc' \in {"cut", "write"} => ctx' # NoFile
    BY <1>1, <1>2 DEF Quiet, BegunInv
  <2> QED
    BY <2>1, <2>2, <2>3, <2>4 DEF BegunInv
<1>7. WindowInv'
  <2>1. Newest(Count)' = Newest(Count)
    BY <1>5 DEF Newest
  <2> QED
    BY <1>1, <1>2, <1>4, <1>5, <2>1 DEF WindowInv
<1>8. CompleteInv'
  BY <1>1, <1>2, <1>5 DEF CompleteInv
<1>9. ASSUME Written PROVE IndexInv'
  <2>1. Live' <=> Live
    BY <1>1 DEF Live
  <2>2. pc' \in {"cut_index", "cut_flush"} => pc' = pc
    BY DEF Quiet
  <2> QED
    BY <1>1, <1>3, <1>9, <2>1, <2>2 DEF IndexInv, Written
<1>10. ASSUME Written PROVE LiveInv'
  <2>1. /\ Live' <=> Live
        /\ \A n, first : IndexIs(n, first)' <=> IndexIs(n, first)
        /\ \A n : Newest(n)' = Newest(n)
    BY <1>1 DEF Live, IndexIs, Newest
  <2>2. pc' \in {"segment", "write", "loop", "read", "cut", "finish"} /\ segment_index > 0
          => pc \in {"segment", "write", "loop", "read", "cut", "finish"}
    BY DEF Quiet
  <2>3. segment_index \in Nat
    BY FShape
  <2> QED
    BY <1>1, <1>3, <1>10, <2>1, <2>2, <2>3 DEF LiveInv, Written
<1>11. PublishedDurationFinal'
  BY <1>1, <1>2 DEF PublishedDurationFinal
<1> QED
  BY <1>6, <1>7, <1>8, <1>9, <1>10, <1>11 DEF FInv, FParts, Written

(* A step that writes the index leaves the rest *)
LEMMA IndexWritten ==
  ASSUME FInv, Opened \/ Flushed
  PROVE  /\ BegunInv' /\ WindowInv' /\ CompleteInv'
         /\ Count' = Count /\ Positions' = Positions /\ Newest(Count)' = Newest(Count)
<1>1. /\ segment_index' = segment_index /\ segments' = segments /\ ctx' = ctx /\ files' = files
      /\ complete' = complete /\ cut' = cut
  BY DEF Opened, Flushed, OnlyIndex
<1>2. BegunInv /\ WindowInv /\ CompleteInv /\ CtxInv
  BY DEF FInv, FParts, Inv
<1>3. /\ Cutting' <=> Cutting
      /\ pc' \notin {"close_exit", "done"} => pc \notin {"close_exit", "done"}
  BY DEF Opened, Flushed, Cutting
<1>4. Count' = Count /\ Positions' = Positions
  BY <1>1, <1>3 DEF Count, Positions
<1>5. Newest(Count)' = Newest(Count)
  BY <1>4 DEF Newest
<1>6. BegunInv'
  <2>1. CASE pc \in {"first_index", "first_flush"}
    BY <1>1, <1>2, <2>1 DEF Opened, Flushed, BegunInv, CtxInv
  <2>2. CASE pc \in {"cut_index", "cut_flush"}
    BY <1>1, <1>2, <2>2 DEF Opened, Flushed, BegunInv
  <2>3. CASE pc \in {"last_index", "last_flush"}
    BY <1>1, <1>2, <2>3 DEF Opened, Flushed, BegunInv
  <2> QED
    BY <2>1, <2>2, <2>3 DEF Opened, Flushed
<1>7. WindowInv'
  BY <1>1, <1>2, <1>3, <1>4, <1>5 DEF WindowInv
<1>8. CompleteInv'
  BY <1>1, <1>2, <1>4 DEF CompleteInv
<1> QED
  BY <1>4, <1>5, <1>6, <1>7, <1>8

LEMMA OpenedKeeps == ASSUME FInv, Opened PROVE FParts'
<1>1. BegunInv' /\ WindowInv' /\ CompleteInv'
  BY IndexWritten
<1>2. index'.list = <<>> /\ 1..Len(index'.list) = {} /\ ~index'.ended
  BY DEF Opened, Truncated
<1>3. ASSUME Written PROVE IndexInv'
  <2>1. Live' <=> Live
    BY DEF Opened, OnlyIndex, Live
  <2>2. pc' \in {"cut_index", "cut_flush"} => Live
    BY <1>3 DEF Opened, Written, IndexInv
  <2> QED
    BY <1>2, <2>1, <2>2 DEF IndexInv
<1>5. PublishedDurationFinal'
  BY <1>2 DEF PublishedDurationFinal
<1>4. LiveInv'
  BY <1>2 DEF LiveInv, Opened
<1> QED
  BY <1>1, <1>3, <1>4, <1>5 DEF FInv, FParts, Written

LEMMA FlushedKeeps == ASSUME FInv, Flushed PROVE FParts'
<1>1. BegunInv' /\ WindowInv' /\ CompleteInv' /\ Count' = Count /\ Newest(Count)' = Newest(Count)
      /\ Positions' = Positions
  BY IndexWritten
<1>2. /\ segment_index' = segment_index /\ segments' = segments /\ ctx' = ctx
      /\ pc \notin {"close_exit", "done"}
  BY DEF Flushed, OnlyIndex
<1>3. BegunInv /\ WindowInv /\ CtxInv /\ VectorInv /\ TypeOK
  BY DEF FInv, FParts, Inv
<1>4. PICK type \in {VOD, EVENT} :
        /\ index' = Playlist(type)
        /\ \/ pc = "first_flush" /\ pc' = "loop" /\ type # VOD
           \/ pc = "cut_flush" /\ pc' = "next" /\ type # VOD
           \/ pc = "last_flush" /\ pc' = "trailer" /\ type = VOD
  BY DEF Flushed, VOD, EVENT
<1>5. /\ index' = [state |-> "written", first |-> First(type),
                   list |-> segments, ended |-> type = VOD]
      /\ First(type) = IF type = VOD \/ segments = <<>> THEN 0 ELSE segments[1].seq
  BY <1>3, <1>4, PlaylistIsVector
<1>6. /\ index'.state = "written" /\ index'.list = segments /\ index'.first = First(type)
      /\ index'.ended <=> type = VOD
  BY <1>5
<1>7. PICK c \in Nat, m \in Nat :
        /\ c = Count /\ m = Newest(c) /\ m <= MaxSegments /\ m <= c /\ (c > 0 => m > 0)
        /\ Len(segments) = m
        /\ \A i \in Positions : segments[i].seq = c - m + i - 1
  <2>1. /\ Len(segments) = Newest(Count)
        /\ \A i \in Positions : segments[i].seq = Count - Newest(Count) + i - 1
    BY <1>2, <1>3 DEF WindowInv
  <2>2. \A c \in Nat : c > 0 => Newest(c) > 0
    BY FShape DEF Newest
  <2> QED
    BY <2>1, <2>2, FShape
<1>8. ASSUME Written PROVE IndexInv'
  <2>1. \A i \in Positions : segments[i].seq >= c - MaxSegments
    <3> SUFFICES ASSUME NEW i \in Positions PROVE segments[i].seq >= c - MaxSegments
      OBVIOUS
    <3>1. i \in Nat /\ i >= 1 /\ segments[i].seq = c - m + i - 1
      BY <1>7, FShape DEF Positions
    <3> QED
      BY <1>7, <3>1, FShape
  <2>2. \A i \in Positions : segments[i].seq >= segment_index - MaxSegments
    <3> SUFFICES ASSUME NEW i \in Positions PROVE segments[i].seq >= segment_index - MaxSegments
      OBVIOUS
    <3>1. c = segment_index \/ c = segment_index + 1
      BY <1>7, FShape
    <3>2. PICK s \in Nat : s = segments[i].seq /\ s >= c - MaxSegments
      BY <2>1, FShape
    <3> QED
      BY <3>1, <3>2, FShape
  <2>3. pc' = "next" => \A i \in Positions : segments[i].seq > segment_index - MaxSegments
    <3>1. pc' = "next" => c = segment_index + 1
      BY <1>4, <1>7 DEF Count, Cutting
    <3> QED
      BY <2>1, <3>1, FShape
  <2>4. pc = "last_flush" /\ ctx = NoFile => segments = <<>>
    BY <1>3 DEF BegunInv
  <2>5. (Live' <=> Live) /\ (pc = "first_flush" => segments = <<>>) /\ (pc = "cut_flush" => Live)
    BY <1>3, <1>8 DEF Flushed, OnlyIndex, Live, Written, IndexInv, CtxInv
  <2> QED
    BY <1>2, <1>4, <1>6, <2>2, <2>3, <2>4, <2>5 DEF IndexInv, Positions
<1>9. ASSUME c > 0
      PROVE  IndexIs(c, IF type = VOD THEN 0 ELSE c - m)'
  <2>1. 1 \in Positions /\ segments # <<>>
    BY <1>7, <1>9, FShape DEF Positions
  <2>2. segments[1].seq = c - m
    BY <1>7, <2>1
  <2>3. First(type) = IF type = VOD THEN 0 ELSE c - m
    BY <1>5, <2>1, <2>2
  <2>4. \A i \in 1..m : segments[i].seq = c - m + i - 1
    BY <1>7 DEF Positions
  <2>5. Newest(c)' = m
    BY <1>7 DEF Newest
  <2> QED
    BY <1>6, <1>7, <2>3, <2>4, <2>5 DEF IndexIs
<1>10. LiveInv'
  <2>1. ~Cutting /\ pc = "first_flush" => index'.ended = FALSE /\ segment_index = 0
    BY <1>3, <1>4, <1>6 DEF CtxInv
  <2>2. ASSUME NEW n \in Nat, n = segment_index + 1, Cutting \/ ctx # NoFile
        PROVE  n = c /\ n > 0 /\ Newest(n)' = m
    <3>1. n = c
      BY <1>7, <2>2 DEF Count
    <3>2. Newest(c)' = m
      BY <1>7 DEF Newest
    <3> QED
      BY <3>1, <3>2, <2>2, FShape
  <2>3. pc' = "next" => Cutting /\ type # VOD
    BY <1>4 DEF Cutting
  <2>4. \A n \in Nat : Live' /\ pc' = "next" /\ n = segment_index' + 1
          => IndexIs(n, n - Newest(n))'
    BY <1>2, <1>9, <2>2, <2>3
  <2>5. index'.ended => type = VOD
    BY <1>6
  <2>6. \A n \in Nat : index'.ended /\ ctx' # NoFile /\ n = segment_index' + 1 => IndexIs(n, 0)'
    BY <1>2, <1>9, <2>2, <2>5
  <2>7. pc' \in {"segment", "write", "loop", "read", "cut", "finish"} => segment_index' = 0
    BY <1>2, <1>3, <1>4 DEF CtxInv
  <2> QED
    BY <2>4, <2>6, <2>7 DEF LiveInv
<1>11. PublishedDurationFinal'
  <2>1. \A i, j \in Positions : segments[i].seq = segments[j].seq => i = j
    <3> SUFFICES ASSUME NEW i \in Positions, NEW j \in Positions, segments[i].seq = segments[j].seq
                 PROVE  i = j
      OBVIOUS
    <3>1. c - m + i - 1 = c - m + j - 1
      BY <1>7
    <3>2. i \in Int /\ j \in Int
      BY FShape DEF Positions
    <3> QED
      BY <1>7, <3>1, <3>2
  <2> QED
    BY <1>2, <1>6, <2>1 DEF PublishedDurationFinal, Positions
<1> QED
  BY <1>1, <1>8, <1>10, <1>11 DEF FInv, FParts, Written

(* A changed duration of the current segment is not in a playlist *)
LEMMA DurationUnlisted ==
  ASSUME FInv, segments' = segments \/ (segments # <<>> /\ segments' = SetLast(cut.duration)),
         pc \in {"cut", "finish"}, ctx # NoFile \/ segments = <<>>, index' = index
  PROVE  PublishedDurationFinal'
<1>1. TypeOK /\ PublishedDurationFinal /\ ListInv /\ WindowInv
  BY DEF FInv, FParts, Inv
<1>2. CASE segments' = segments
  BY <1>1, <1>2 DEF PublishedDurationFinal
<1>3. CASE segments # <<>> /\ segments' = SetLast(cut.duration)
  <2>1. cut.duration \in Int
    BY <1>1 DEF TypeOK
  <2>2. /\ Len(segments') = Len(segments)
        /\ segments'[Len(segments)].seq = segments[Len(segments)].seq
        /\ \A i \in Positions \ {Len(segments)} : segments'[i] = segments[i]
    BY <1>1, <1>3, <2>1, SetLastIs, FShape
  <2>3. \A i \in 1..Len(index.list) : index.list[i].seq < segment_index
    BY <1>1 DEF ListInv
  <2>4. segments[Len(segments)].seq = segment_index
    <3>1. /\ Len(segments) \in Positions /\ Len(segments) = Newest(Count)
          /\ segments[Len(segments)].seq = Count - Newest(Count) + Len(segments) - 1
      BY <1>1, <1>3, FShape DEF WindowInv
    <3>2. Count = segment_index + 1
      BY <1>3 DEF Count
    <3>3. PICK c \in Nat, m \in Nat : c = Count /\ m = Newest(Count)
      BY FShape
    <3> QED
      BY <3>1, <3>2, <3>3, FShape
  <2>5. ASSUME NEW i \in 1..Len(index.list), NEW j \in Positions,
               index.list[i].seq = segments'[j].seq
        PROVE  index.list[i].dur = segments'[j].dur
    <3>1. CASE j = Len(segments)
      <4>1. index.list[i].seq < segment_index /\ index.list[i].seq = segment_index
        BY <2>2, <2>3, <2>4, <2>5, <3>1
      <4> QED
        BY <4>1, FShape
    <3>2. CASE j # Len(segments)
      BY <1>1, <2>2, <2>5, <3>2 DEF PublishedDurationFinal, Positions
    <3> QED
      BY <3>1, <3>2
  <2> QED
    BY <2>2, <2>5 DEF PublishedDurationFinal, Positions
<1> QED
  BY <1>2, <1>3

(* The numbers of the vector stay right when the count of segments stays *)
LEMMA SameWindow ==
  ASSUME FInv, Len(segments') = Len(segments), Count' = Count,
         \A i \in Positions : segments'[i].seq = segments[i].seq,
         pc \notin {"close_exit", "done"}
  PROVE  WindowInv'
<1>1. WindowInv /\ Positions' = Positions /\ Newest(Count)' = Newest(Count)
  BY DEF FInv, FParts, Positions, Newest
<1> QED
  BY <1>1 DEF WindowInv

LEMMA CutKeeps == ASSUME FInv, Cut PROVE FParts'
<1>1. /\ ctx # NoFile /\ pc = "cut" /\ complete' = complete \cup {ctx} /\ ctx' = NoFile
      /\ \/ pc' = "cut_index" /\ Live
         \/ pc' = "next" /\ ~Live
      /\ segments' = SetLast(cut.duration) /\ job' = job
      /\ segment_index' = segment_index /\ files' = files /\ index' = index
  BY DEF Cut, Step, At, SetLast
<1>2. TypeOK /\ VectorInv /\ CtxInv /\ ListInv /\ CompleteInv
  BY DEF FInv, FParts, Inv
<1>3. cut.duration \in Int
  BY <1>2 DEF TypeOK
<1>4. segments # <<>> /\ ctx = segment_index /\ ~index.ended
  BY <1>1, <1>2 DEF CtxInv, VectorInv, ListInv
<1>5. /\ Len(segments') = Len(segments) /\ \A i \in Positions : segments'[i].seq = segments[i].seq
  BY <1>1, <1>2, <1>3, <1>4, SetLastIs
<1>6. Count = segment_index + 1 /\ Count' = Count
  BY <1>1 DEF Count, Cutting
<1>7. BegunInv'
  BY <1>1 DEF BegunInv
<1>8. WindowInv'
  BY <1>1, <1>5, <1>6, SameWindow
<1>9. CompleteInv'
  BY <1>1, <1>2, <1>6 DEF CompleteInv
<1>10. ASSUME Written PROVE IndexInv'
  <2>1. (Live' <=> Live) /\ (~Live => index.list = <<>> /\ 1..Len(index.list) = {})
    BY <1>1, <1>4, <1>10, FShape DEF Live, IndexInv, Written
  <2>2. pc' = "next" => 1..Len(index.list) = {}
    BY <1>1, <2>1
  <2> QED
    BY <1>1, <1>4, <1>10, <2>1, <2>2 DEF IndexInv, Written
<1>11. LiveInv'
  BY <1>1, <1>4 DEF LiveInv, Live
<1>12. PublishedDurationFinal'
  BY <1>1, <1>4, DurationUnlisted
<1> QED
  BY <1>7, <1>8, <1>9, <1>10, <1>11, <1>12 DEF FInv, FParts, Written

LEMMA NextSegmentKeeps == ASSUME FInv, NextSegment PROVE FParts'
<1>1. /\ pc = "next" /\ pc' = "segment" /\ segment_index' = segment_index + 1 /\ job' = job
      /\ segments' = segments /\ ctx' = ctx /\ files' = files /\ complete' = complete
      /\ index' = index
  BY DEF NextSegment, Step, At
<1>2. CtxInv /\ ListInv /\ CompleteInv /\ PublishedDurationFinal
  BY DEF FInv, FParts, Inv
<1>3. ctx = NoFile /\ ~index.ended /\ (Live' <=> Live)
  BY <1>1, <1>2 DEF CtxInv, ListInv, Live
<1>4. Count = segment_index + 1 /\ Count' = Count
  BY <1>1, <1>3 DEF Count, Cutting
<1>5. segment_index \in Nat /\ MaxSegments \in Nat
      /\ \A i \in 1..Len(index.list) : index.list[i].seq \in Nat
  BY FShape
<1>6. BegunInv'
  BY <1>1, <1>5 DEF BegunInv
<1>7. WindowInv'
  BY <1>1, <1>4, SameWindow
<1>8. CompleteInv'
  BY <1>1, <1>2, <1>4, <1>5 DEF CompleteInv
<1>9. ASSUME Written PROVE IndexInv'
  <2>1. \A i \in 1..Len(index.list) : index.list[i].seq >= segment_index + 1 - MaxSegments
    BY <1>1, <1>5, <1>9 DEF IndexInv, Written
  <2>2. \A i \in 1..Len(index'.list) : index'.list[i].seq >= segment_index' - MaxSegments
    <3> SUFFICES ASSUME NEW i \in 1..Len(index.list)
                 PROVE  index.list[i].seq >= segment_index' - MaxSegments
      BY <1>1
    <3>1. PICK s \in Nat : s = index.list[i].seq /\ s >= segment_index + 1 - MaxSegments
      BY <1>5, <2>1
    <3> QED
      BY <1>1, <1>5, <3>1
  <2>3. ~Live' /\ ~index'.ended => index'.list = <<>>
    BY <1>1, <1>3, <1>9 DEF IndexInv, Written
  <2>4. ~index'.ended /\ pc' = "segment"
    BY <1>1, <1>3
  <2> QED
    BY <2>2, <2>3, <2>4 DEF IndexInv
<1>10. ASSUME Written PROVE LiveInv'
  <2>1. \A n, first : IndexIs(n, first)' <=> IndexIs(n, first)
    BY <1>1 DEF IndexIs, Newest
  <2>2. \A n : Newest(n)' = Newest(n)
    BY DEF Newest
  <2> QED
    BY <1>1, <1>3, <1>10, <2>1, <2>2 DEF LiveInv, Written
<1>11. PublishedDurationFinal'
  BY <1>1, <1>2 DEF PublishedDurationFinal
<1> QED
  BY <1>6, <1>7, <1>8, <1>9, <1>10, <1>11 DEF FInv, FParts, Written

LEMMA NewSegmentKeeps == ASSUME FInv, NewSegment PROVE FParts'
<1>1. /\ pc = "segment" /\ pc' = "write" /\ ctx = NoFile /\ segments' = Window /\ ctx' = Current
      /\ files' = files \cup {Current} /\ job' = job
      /\ segment_index' = segment_index /\ complete' = complete /\ index' = index
  BY DEF NewSegment, Step, At
<1>2. TypeOK /\ VectorInv /\ WindowInv /\ ListInv /\ CompleteInv /\ PublishedDurationFinal
  BY DEF FInv, FParts, Inv
<1>3. Current = segment_index /\ segment_index \in Nat /\ NoFile \notin Nat /\ MaxSegments \in Nat
  BY <1>1, <1>2, CurrentIs, FShape
<1>4. /\ ~index.ended /\ \A i \in 1..Len(index.list) : index.list[i].seq < segment_index
  BY <1>1, <1>2 DEF ListInv
<1>5. Count = segment_index /\ Count' = segment_index + 1
  BY <1>1, <1>3 DEF Count, Cutting
<1>6. PICK c \in Nat, m \in Nat :
        /\ c = segment_index /\ m = Len(segments)
        /\ \/ m = c /\ c < MaxSegments
           \/ m = MaxSegments /\ c >= MaxSegments
        /\ \A i \in Positions : segments[i].seq = c - m + i - 1
  <2>1. /\ Len(segments) = Newest(Count)
        /\ \A i \in Positions : segments[i].seq = Count - Newest(Count) + i - 1
    BY <1>1, <1>2 DEF WindowInv
  <2>2. Newest(Count) = IF segment_index < MaxSegments THEN segment_index ELSE MaxSegments
    BY <1>5 DEF Newest
  <2>3. \/ Newest(Count) = segment_index /\ segment_index < MaxSegments
        \/ Newest(Count) = MaxSegments /\ segment_index >= MaxSegments
    BY <1>3, <2>2
  <2> QED
    BY <1>5, <2>1, <2>3, FShape
<1>7. Missing
  BY <1>3, <1>6 DEF Missing
<1>8. PICK out \in {0, 1} :
        /\ out = 1 <=> m = MaxSegments
        /\ Len(Window) = m + 1 - out
        /\ \A i \in 1..Len(Window) :
             IF i = Len(Window) THEN Window[i] = [seq |-> segment_index, dur |-> SegDur]
             ELSE i + out \in Positions /\ Window[i] = segments[i + out]
  BY <1>2, <1>6, <1>7, WindowIs DEF VectorInv
<1>9. [seq |-> segment_index, dur |-> SegDur].seq = segment_index
  OBVIOUS
<1>10. BegunInv'
  BY <1>1, <1>3 DEF BegunInv
<1>11. WindowInv'
  <2>0. m + 1 - out \in Nat
    BY <1>6, <1>8
  <2>1. PICK k \in Nat : k = Len(Window) /\ k = m + 1 - out
    BY <1>8, <2>0
  <2>2. \/ k = c + 1 /\ c + 1 <= MaxSegments
        \/ k = MaxSegments /\ ~(c + 1 <= MaxSegments)
    BY <1>3, <1>6, <1>8, <2>1
  <2>3. \A n \in Nat : n = c + 1 => k = Newest(n)
    BY <1>3, <2>2 DEF Newest
  <2>4. ASSUME NEW i \in 1..k PROVE Window[i].seq = c + 1 - k + i - 1
    <3>1. CASE i = k
      BY <1>6, <1>8, <1>9, <2>1, <3>1
    <3>2. CASE i # k
      <4>1. i + out \in Positions /\ Window[i].seq = segments[i + out].seq
        BY <1>8, <2>1, <3>2
      <4>2. segments[i + out].seq = c - m + (i + out) - 1
        BY <1>6, <4>1
      <4>3. i \in Int /\ out \in Int
        OBVIOUS
      <4> QED
        BY <1>6, <2>1, <4>1, <4>2, <4>3
    <3> QED
      BY <3>1, <3>2
  <2>5. PICK n \in Nat : n = c + 1 /\ n = Count' /\ k = Newest(n) /\ k = Newest(n)'
    BY <1>3, <1>5, <1>6, <2>3 DEF Newest
  <2>6. Positions' = 1..k /\ Len(segments') = k
    BY <1>1, <2>1 DEF Positions
  <2>7. Newest(Count)' = k /\ Count' = c + 1
    BY <2>5 DEF Newest
  <2>8. \A i \in 1..k : segments'[i].seq = c + 1 - k + i - 1
    BY <1>1, <2>4
  <2> QED
    BY <2>6, <2>7, <2>8 DEF WindowInv
<1>12. CompleteInv'
  BY <1>1, <1>2, <1>3, <1>5 DEF CompleteInv
<1>13. ASSUME Written PROVE IndexInv'
  BY <1>1, <1>4, <1>13 DEF IndexInv, Live, Written
<1>14. ASSUME Written PROVE LiveInv'
  <2>1. \A n, first : IndexIs(n, first)' <=> IndexIs(n, first)
    BY <1>1 DEF IndexIs, Newest
  <2>2. /\ Live' <=> Live
        /\ \A n : Newest(n)' = Newest(n)
    BY <1>1 DEF Newest, Live
  <2> QED
    BY <1>1, <1>4, <1>14, <2>1, <2>2 DEF LiveInv, Written
<1>15. PublishedDurationFinal'
  <2>1. ASSUME NEW i \in 1..Len(index.list), NEW j \in 1..Len(Window),
               index.list[i].seq = Window[j].seq
        PROVE  index.list[i].dur = Window[j].dur
    <3>1. index.list[i].seq < segment_index /\ index.list[i].seq \in Nat
      BY <1>4, FShape
    <3>2. j # Len(Window)
      BY <1>3, <1>8, <1>9, <2>1, <3>1
    <3>3. PICK p \in Positions : Window[j] = segments[p]
      BY <1>8, <3>2
    <3> QED
      BY <1>2, <2>1, <3>3 DEF PublishedDurationFinal, Positions
  <2> QED
    BY <1>1, <2>1 DEF PublishedDurationFinal
<1> QED
  BY <1>10, <1>11, <1>12, <1>13, <1>14, <1>15 DEF FInv, FParts, Written

LEMMA FinishKeeps == ASSUME FInv, Finish PROVE FParts'
<1>1. /\ pc = "finish" /\ pc' \in {"last_index", "trailer"} /\ job' = job
      /\ segments' = segments \/ (segments # <<>> /\ segments' = SetLast(cut.duration))
      /\ segment_index' = segment_index /\ ctx' = ctx /\ files' = files /\ cut' = cut
      /\ complete' = complete /\ index' = index
  BY DEF Finish, Step, At, SetLast
<1>2. TypeOK /\ BegunInv /\ ListInv /\ CompleteInv
  BY DEF FInv, FParts, Inv
<1>3. ctx = NoFile => segment_index = 0 /\ files = {} /\ segments = <<>> /\ cut.index = -1
  BY <1>1, <1>2 DEF BegunInv
<1>4. ~index.ended /\ cut.duration \in Int /\ (Live' <=> Live)
  BY <1>1, <1>2 DEF ListInv, TypeOK, Live
<1>5. Count' = Count
  BY <1>1 DEF Count, Cutting
<1>6. BegunInv'
  BY <1>1, <1>3 DEF BegunInv
<1>7. WindowInv'
  <2>1. Len(segments') = Len(segments) /\ \A i \in Positions : segments'[i].seq = segments[i].seq
    BY <1>1, <1>2, <1>4, SetLastIs
  <2> QED
    BY <1>1, <1>5, <2>1, SameWindow
<1>8. CompleteInv'
  BY <1>1, <1>2, <1>5 DEF CompleteInv
<1>9. ASSUME Written PROVE IndexInv'
  BY <1>1, <1>4, <1>9 DEF IndexInv, Written
<1>10. LiveInv'
  BY <1>1, <1>4 DEF LiveInv
<1>11. PublishedDurationFinal'
  BY <1>1, <1>3, DurationUnlisted
<1> QED
  BY <1>6, <1>7, <1>8, <1>9, <1>10, <1>11 DEF FInv, FParts, Written

LEMMA TrailerKeeps == ASSUME FInv, Trailer PROVE FParts'
<1>1. /\ pc = "trailer" /\ pc' = "close" /\ complete' = complete \cup {ctx} /\ job' = job
      /\ segments' = segments /\ segment_index' = segment_index /\ ctx' = ctx /\ files' = files
      /\ index' = index
  BY DEF Trailer, Step, At
<1>2. WindowInv /\ CompleteInv /\ PublishedDurationFinal
  BY DEF FInv, FParts
<1>3. Count' = Count /\ Positions' = Positions /\ (Live' <=> Live)
  BY <1>1 DEF Count, Cutting, Positions, Live
<1>4. Newest(Count)' = Newest(Count)
  BY <1>3 DEF Newest
<1>5. BegunInv' /\ PublishedDurationFinal'
  BY <1>1, <1>2 DEF BegunInv, PublishedDurationFinal
<1>6. WindowInv'
  BY <1>1, <1>2, <1>3, <1>4 DEF WindowInv
<1>7. CompleteInv'
  BY <1>1, <1>2, <1>3 DEF CompleteInv
<1>8. ASSUME Written PROVE IndexInv'
  BY <1>1, <1>3, <1>8 DEF IndexInv, Written
<1>9. ASSUME Written PROVE LiveInv'
  <2>1. \A n, first : IndexIs(n, first)' <=> IndexIs(n, first)
    BY <1>1 DEF IndexIs, Newest
  <2> QED
    BY <1>1, <1>9, <2>1 DEF LiveInv, Written
<1> QED
  BY <1>5, <1>6, <1>7, <1>8, <1>9 DEF FInv, FParts, Written

LEMMA CloseClearKeeps == ASSUME FInv, CloseClear PROVE FParts'
<1>1. /\ pc = "close" /\ pc' = "close_exit" /\ segments' = <<>> /\ 1..Len(segments') = {}
      /\ job' = job /\ segment_index' = segment_index /\ ctx' = ctx /\ files' = files
      /\ complete' = complete /\ index' = index
  BY DEF CloseClear, Step, At
<1>2. CompleteInv
  BY DEF FInv, FParts
<1>3. Count' = Count /\ (Live' <=> Live)
  BY <1>1 DEF Count, Cutting, Live
<1>4. BegunInv' /\ WindowInv' /\ PublishedDurationFinal'
  BY <1>1 DEF BegunInv, WindowInv, PublishedDurationFinal
<1>5. CompleteInv'
  BY <1>1, <1>2, <1>3 DEF CompleteInv
<1>6. ASSUME Written PROVE IndexInv'
  BY <1>1, <1>3, <1>6 DEF IndexInv, Written
<1>7. ASSUME Written PROVE LiveInv'
  <2>1. \A n, first : IndexIs(n, first)' <=> IndexIs(n, first)
    BY <1>1 DEF IndexIs, Newest
  <2> QED
    BY <1>1, <1>7, <2>1 DEF LiveInv, Written
<1> QED
  BY <1>4, <1>5, <1>6, <1>7 DEF FInv, FParts, Written

LEMMA CleanerDeleteKeeps == ASSUME FInv, CleanerDelete PROVE FParts'
<1>1. /\ cleaner.pc = "delete" /\ cleaner.last \in files
      /\ files' = files \ {cleaner.last} /\ complete' = complete \ {cleaner.last}
      /\ job' = job /\ pc' = pc /\ cut' = cut /\ segments' = segments
      /\ segment_index' = segment_index /\ ctx' = ctx /\ index' = index
  BY DEF CleanerDelete, CleanerGoes
<1>2. BegunInv /\ WindowInv /\ CompleteInv /\ PublishedDurationFinal /\ CleanerInv
  BY DEF FInv, FParts, Inv
<1>3. PICK last \in Nat : last = cleaner.last /\ last <= segment_index - MaxSegments - 2
  BY <1>1, <1>2, FShape DEF CleanerInv
<1>4. Count' = Count /\ Positions' = Positions /\ (Live' <=> Live)
  BY <1>1 DEF Count, Cutting, Positions, Live
<1>5. Newest(Count)' = Newest(Count)
  BY <1>4 DEF Newest
<1>6. files = {} => files' = {}
  BY <1>1
<1>7. BegunInv' /\ PublishedDurationFinal'
  BY <1>1, <1>2, <1>6 DEF BegunInv, PublishedDurationFinal
<1>8. WindowInv'
  BY <1>1, <1>2, <1>4, <1>5 DEF WindowInv
<1>9. CompleteInv'
  <2>1. \A n \in Nat : segment_index - MaxSegments - 1 <= n => n # last
    BY <1>3, FShape
  <2> QED
    BY <1>1, <1>2, <1>3, <1>4, <2>1 DEF CompleteInv
<1>10. ASSUME Written PROVE IndexInv'
  BY <1>1, <1>4, <1>10 DEF IndexInv, Written
<1>11. ASSUME Written PROVE LiveInv'
  <2>1. \A n, first : IndexIs(n, first)' <=> IndexIs(n, first)
    BY <1>1 DEF IndexIs, Newest
  <2>2. \A n : Newest(n)' = Newest(n)
    BY DEF Newest
  <2> QED
    BY <1>1, <1>4, <1>11, <2>1, <2>2 DEF LiveInv, Written
<1> QED
  BY <1>7, <1>8, <1>9, <1>10, <1>11 DEF FInv, FParts, Written

LEMMA DiesKeeps == ASSUME FInv, Dies PROVE FParts'
<1>1. /\ job' = job /\ pc' = pc /\ cut' = cut /\ segments' = segments /\ files' = files
      /\ complete' = complete /\ segment_index' = segment_index /\ ctx' = ctx /\ index' = index
  BY DEF Dies, mainVars
<1>2. BegunInv /\ WindowInv /\ CompleteInv /\ PublishedDurationFinal
  BY DEF FInv, FParts
<1>3. Count' = Count /\ Positions' = Positions /\ (Live' <=> Live)
  BY <1>1 DEF Count, Cutting, Positions, Live
<1>4. \A n : Newest(n)' = Newest(n)
  BY DEF Newest
<1>5. \A n, first : IndexIs(n, first)' <=> IndexIs(n, first)
  BY <1>1 DEF IndexIs, Newest
<1>6. BegunInv' /\ PublishedDurationFinal'
  BY <1>1, <1>2 DEF BegunInv, PublishedDurationFinal
<1>7. WindowInv'
  <2>1. Newest(Count)' = Newest(Count)
    BY <1>3 DEF Newest
  <2> QED
    BY <1>1, <1>2, <1>3, <2>1 DEF WindowInv
<1>8. CompleteInv'
  BY <1>1, <1>2, <1>3 DEF CompleteInv
<1>9. ASSUME Written PROVE IndexInv' /\ LiveInv'
  BY <1>1, <1>3, <1>4, <1>5, <1>9 DEF IndexInv, LiveInv, Written
<1> QED
  BY <1>6, <1>7, <1>8, <1>9 DEF FInv, FParts, Written

(* A process that died does nothing more *)
LEMMA Stopped == ASSUME crashed, [Next]_vars PROVE UNCHANGED vars
<1>1. ~Main
  BY DEF Main, Start, StartFails, StreamMissing, InitSwr, FirstIndex, LoopCheck, Cut, CutIndex,
         NextSegment, HaveSegment, NewSegment, NewSegmentFails, WritePacket, Finish, LastIndex,
         Trailer, CloseClear, CloseExit, NullContext, OpenIndex, OpenIndexFails, FlushIndex,
         Step, Crash, At
<1>2. ~Read
  BY DEF Read, ReadEof, ReadNothing, Packet, ReadVideo, ReadAudio, Step, At
<1>3. ~Cleaner /\ ~HeartbeatStop
  BY DEF Cleaner, CleanerCheck, CleanerNewest, CleanerReadsCleared, CleanerDelete, CleanerStop,
         CleanerRemoveFails, CleanerSleep, HeartbeatStop, CleanerGoes, Running
<1> QED
  BY <1>1, <1>2, <1>3 DEF Next

LEMMA CrashStep ==
  ASSUME FInv, "stream" \notin Faults, [Next]_vars
  PROVE  CrashOnlyAtTheEnds'
<1>1. CASE crashed
  BY <1>1, Stopped DEF FInv, CrashOnlyAtTheEnds, vars, mainVars
<1>2. CASE ~crashed /\ Dies
  <2>1. /\ pc' = pc /\ files' = files /\ complete' = complete /\ segment_index' = segment_index
        /\ \/ ctx = NoFile /\ pc \in {"cut", "trailer", "write"}
           \/ segments = <<>> /\ cleaner.pc = "newest" /\ pc \notin {"start", "done"}
    BY <1>2 DEF Dies, mainVars, FInv
  <2>2. BegunInv /\ CleanerInv /\ FilesInv
    BY DEF FInv, FParts, Inv
  <2>3. CASE ctx = NoFile /\ pc \in {"cut", "trailer", "write"}
    BY <2>1, <2>2, <2>3 DEF BegunInv, CrashOnlyAtTheEnds
  <2>4. CASE segments = <<>> /\ cleaner.pc = "newest" /\ pc \notin {"start", "done"}
    BY <2>1, <2>2, <2>4 DEF CleanerInv, FilesInv, CrashOnlyAtTheEnds
  <2> QED
    BY <2>1, <2>3, <2>4
<1>3. CASE ~crashed /\ ~Dies
  <2>1. ~crashed'
    BY <1>3, StepKinds DEF Quiet, Opened, Flushed, OnlyIndex, Cut, NextSegment, NewSegment,
       NewSegmentFails, Crash, Finish, Trailer, CloseClear, CleanerDelete, CleanerGoes, Step, At
  <2> QED
    BY <2>1 DEF CrashOnlyAtTheEnds
<1> QED
  BY <1>1, <1>2, <1>3

LEMMA FInvStep == FInv /\ [Next]_vars => FInv'
<1> SUFFICES ASSUME FInv, [Next]_vars PROVE FInv'
  OBVIOUS
<1>1. "writer" \notin Faults
  BY DEF FInv
<1>2. Inv'
  BY InvStep DEF FInv
<1>3. FParts'
  BY <1>1, StepKinds, QuietKeeps, OpenedKeeps, FlushedKeeps, DiesKeeps, CutKeeps,
     NextSegmentKeeps, NewSegmentKeeps, FinishKeeps, TrailerKeeps, CloseClearKeeps,
     CleanerDeleteKeeps DEF NewSegmentFails
<1>4. "stream" \in Faults \/ CrashOnlyAtTheEnds'
  BY CrashStep
<1> QED
  BY <1>1, <1>2, <1>3, <1>4 DEF FInv

LEMMA FInvHolds == NoFault({"writer"}) /\ Spec => []FInv
BY FInvInit, FInvStep, PTL DEF Spec

-----------------------------------------------------------------------------

(* Unless the index or a segment file cannot be opened, every segment that  *)
(* a playlist names is on disk with its trailer, for any window and any     *)
(* number of segments, whatever the cleaner deletes meanwhile.              *)
THEOREM ListedSegmentsExist == NoFault({"writer", "fopen"}) /\ Spec => []ListedOnDisk
<1> SUFFICES ASSUME NoFault({"writer", "fopen"}) PROVE Spec => []ListedOnDisk
  OBVIOUS
<1>1. "fopen" \notin Faults /\ NoFault({"writer"})
  BY DEF NoFault
<1>2. FInv => ListedOnDisk
  <2> SUFFICES ASSUME FInv, NEW s \in Listed
               PROVE  s \in complete \/ (index.ended /\ s = ctx /\ s \in files)
    BY DEF ListedOnDisk
  <2>1. PICK i \in 1..Len(index.list) : index.list[i].seq = s
    BY DEF Listed
  <2>2. CtxInv /\ ListInv /\ CompleteInv /\ IndexInv
    BY <1>1 DEF FInv, FParts, Inv, Written
  <2>3. s \in Nat /\ segment_index - MaxSegments - 1 <= s /\ s <= segment_index
    BY <2>1, <2>2, FShape DEF IndexInv, ListInv
  <2>4. CASE ctx # NoFile
    <3>1. s < Count
      BY <2>3, <2>4, FShape DEF Count
    <3>2. CASE s # ctx
      BY <2>2, <2>3, <3>1, <3>2 DEF CompleteInv
    <3>3. CASE s = ctx
      <4>1. ctx = segment_index /\ ctx \in files /\ pc # "next"
        BY <2>2, <2>4 DEF CtxInv
      <4>2. ~(s < segment_index)
        BY <2>3, <3>3, <4>1
      <4> QED
        BY <2>1, <2>2, <3>3, <4>1, <4>2 DEF ListInv
    <3> QED
      BY <3>2, <3>3
  <2>5. CASE ctx = NoFile
    <3>1. ~index.ended
      BY <2>1, <2>2, <2>5, FShape DEF IndexInv
    <3>2. pc = "next" \/ s < segment_index
      BY <2>1, <2>2, <3>1 DEF ListInv
    <3>3. pc = "next" => Count = segment_index + 1
      BY DEF Count, Cutting
    <3>4. s < Count /\ s # ctx
      BY <2>3, <2>5, <3>2, <3>3, FShape
    <3> QED
      BY <2>2, <2>3, <3>4 DEF CompleteInv
  <2> QED
    BY <2>4, <2>5
<1> QED
  BY FInvHolds, <1>1, <1>2, PTL

(* The segments of the list before the last cut, which a late reader may    *)
(* still go by, are there too: even when the index could not be written.    *)
THEOREM LateReadersServed == NoFault({"writer"}) /\ Spec => []LateReaderServed
<1>1. FInv => LateReaderServed
  <2> SUFFICES ASSUME FInv, NEW n \in 0..(segment_index - 1),
                      n >= segment_index - MaxSegments - 1
               PROVE  n \in complete
    BY DEF LateReaderServed
  <2>1. CompleteInv /\ CtxInv
    BY DEF FInv, FParts, Inv
  <2>2. n \in Nat /\ n < segment_index /\ n < Count
    BY FShape
  <2>3. n # ctx
    BY <2>1, <2>2, FShape DEF CtxInv
  <2> QED
    BY <2>1, <2>2, <2>3, FShape DEF CompleteInv
<1> QED
  BY FInvHolds, <1>1, PTL

(* For any window, the playlist between two packets is the last MaxSegments *)
(* finished segments, and the last list of a VOD input the last MaxSegments *)
(* segments under the number 0.                                             *)
THEOREM PlaylistIsWindow == NoFault({"writer", "fopen"}) /\ Spec => []IndexIsWindow
<1> SUFFICES ASSUME NoFault({"writer", "fopen"}) PROVE Spec => []IndexIsWindow
  OBVIOUS
<1>1. "fopen" \notin Faults /\ NoFault({"writer"})
  BY DEF NoFault
<1>2. FInv => IndexIsWindow
  <2> SUFFICES ASSUME FInv PROVE IndexIsWindow
    OBVIOUS
  <2>1. LiveInv /\ segment_index \in Nat
    BY <1>1, FShape DEF FInv, FParts, Written
  <2>2. pc = "loop" /\ Live /\ segment_index > 0
          => IndexIs(segment_index, segment_index - Newest(segment_index))
    BY <2>1 DEF LiveInv
  <2>3. index.ended /\ ctx # NoFile => IndexIs(segment_index + 1, 0)
    BY <2>1 DEF LiveInv
  <2> QED
    BY <2>2, <2>3 DEF IndexIsWindow
<1> QED
  BY FInvHolds, <1>1, <1>2, PTL

(* A duration that was published is not changed by a later packet, whether  *)
(* the index could be written again since or not.                           *)
THEOREM DurationsFinal == NoFault({"writer"}) /\ Spec => []PublishedDurationFinal
BY FInvHolds, PTL DEF FInv, FParts

(* With both streams there and segment files that can be opened, the        *)
(* process dies only before its first segment or after its files were       *)
(* finished.                                                                *)
THEOREM CrashesAtTheEnds == NoFault({"writer", "stream"}) /\ Spec => []CrashOnlyAtTheEnds
<1> SUFFICES ASSUME NoFault({"writer", "stream"}) PROVE Spec => []CrashOnlyAtTheEnds
  OBVIOUS
<1>1. "stream" \notin Faults /\ NoFault({"writer"})
  BY DEF NoFault
<1>2. FInv => CrashOnlyAtTheEnds
  BY <1>1 DEF FInv
<1> QED
  BY FInvHolds, <1>1, <1>2, PTL

-----------------------------------------------------------------------------
(* Induction on a set of numbers *)
LEMMA Induction ==
  ASSUME NEW S \in SUBSET Nat, 0 \in S, \A n \in S : n + 1 \in S PROVE S = Nat
<1> DEFINE T == {0..n : n \in Nat \ S}
           R == StrictSubsetOrdering(Nat)
<1> SUFFICES ASSUME Nat \ S # {} PROVE FALSE
  OBVIOUS
<1>1. T \subseteq FiniteSubsetsOf(Nat)
  <2>1. \A n \in Nat : IsFiniteSet(0..n) /\ 0..n \in SUBSET Nat
    BY FS_Interval
  <2> QED
    BY <2>1 DEF FiniteSubsetsOf
<1>2. T # {}
  OBVIOUS
<1>3. IsWellFoundedOn(R, FiniteSubsetsOf(Nat))
  BY FS_StrictSubsetOrderingWellFounded
<1> HIDE DEF R
<1>4. \E x \in T : \A y \in T : <<y, x>> \notin R
  <2> HIDE DEF T
  <2> QED
    BY <1>1, <1>2, <1>3, WFMin
<1>5. PICK n \in Nat \ S : \A k \in Nat \ S : <<0..k, 0..n>> \notin R
  BY <1>4
<1>6. n # 0 /\ n - 1 \in Nat \ S
  OBVIOUS
<1>7. 0..(n - 1) \subseteq 0..n /\ n \in 0..n /\ n \notin 0..(n - 1)
  BY <1>6
<1>8. <<0..(n - 1), 0..n>> \in R
  BY <1>6, <1>7 DEF R, StrictSubsetOrdering
<1> QED
  BY <1>5, <1>6, <1>8

(* What the sum of a vector's durations is *)
LEMMA TotalIs ==
  ASSUME NEW s, Len(s) \in Nat
  PROVE  /\ Total(s)[0] = 0
         /\ \A n \in 1..Len(s) : Total(s)[n] = Total(s)[n - 1] + s[n].dur
<1> DEFINE Sums(f, m) == f = [n \in 0..m |-> IF n = 0 THEN 0 ELSE f[n - 1] + s[n].dur]
           S == {m \in Nat : \E f : Sums(f, m)}
<1>1. 0 \in S
  <2>1. Sums([n \in 0..0 |-> 0], 0)
    OBVIOUS
  <2> QED
    BY <2>1
<1>2. \A m \in S : m + 1 \in S
  <2> TAKE m \in S
  <2> PICK f : Sums(f, m)
    OBVIOUS
  <2> DEFINE g == [n \in 0..(m + 1) |-> IF n = m + 1 THEN f[m] + s[n].dur ELSE f[n]]
  <2>1. \A n \in 0..(m + 1) : g[n] = IF n = 0 THEN 0 ELSE g[n - 1] + s[n].dur
    <3> TAKE n \in 0..(m + 1)
    <3>1. CASE n = m + 1
      BY <3>1
    <3>2. CASE n \in 0..m
      <4>1. f[n] = IF n = 0 THEN 0 ELSE f[n - 1] + s[n].dur
        BY <3>2
      <4> QED
        BY <3>2, <4>1
    <3> QED
      BY <3>1, <3>2
  <2> PICK h : h = g
    OBVIOUS
  <2>2. \A n \in 0..(m + 1) : h[n] = IF n = 0 THEN 0 ELSE h[n - 1] + s[n].dur
    BY <2>1
  <2>3. h = [n \in 0..(m + 1) |-> h[n]]
    OBVIOUS
  <2> HIDE DEF g
  <2>4. Sums(h, m + 1)
    BY <2>2, <2>3
  <2> QED
    BY <2>4
<1>3. S = Nat
  <2> HIDE DEF S
  <2> QED
    BY <1>1, <1>2, Induction DEF S
<1>4. \E f : Sums(f, Len(s))
  BY <1>3
<1>5. Sums(Total(s), Len(s))
  BY <1>4 DEF Total
<1> HIDE DEF Sums
<1> QED
  BY <1>5 DEF Sums

(* It depends on those durations only *)
LEMMA TotalAgrees ==
  ASSUME NEW s, Len(s) \in Nat, NEW t, Len(t) \in Nat,
         NEW m \in Nat, m <= Len(s), m <= Len(t), \A i \in 1..m : s[i].dur = t[i].dur
  PROVE  Total(s)[m] = Total(t)[m]
<1> DEFINE S == {n \in Nat : n <= m => Total(s)[n] = Total(t)[n]}
<1>1. 0 \in S
  BY TotalIs
<1>2. \A n \in S : n + 1 \in S
  <2> TAKE n \in S
  <2> SUFFICES ASSUME n + 1 <= m PROVE Total(s)[n + 1] = Total(t)[n + 1]
    OBVIOUS
  <2>1. n + 1 \in 1..m /\ n + 1 \in 1..Len(s) /\ n + 1 \in 1..Len(t) /\ (n + 1) - 1 = n
    OBVIOUS
  <2>2. Total(s)[n + 1] = Total(s)[n] + s[n + 1].dur
    BY <2>1, TotalIs
  <2>3. Total(t)[n + 1] = Total(t)[n] + t[n + 1].dur
    BY <2>1, TotalIs
  <2>4. Total(s)[n] = Total(t)[n]
    OBVIOUS
  <2> QED
    BY <2>1, <2>2, <2>3, <2>4
<1>3. S = Nat
  <2> HIDE DEF S
  <2> QED
    BY <1>1, <1>2, Induction DEF S
<1> QED
  BY <1>3

-----------------------------------------------------------------------------
(* The finished segments tile the time *)

(* Segment 0 did not leave the vector *)
Whole == segments # <<>> /\ segments[1].seq = 0

TileInv ==
  /\ \A i \in Positions : i # 1 => segments[i].seq # 0
  /\ segments = <<>> /\ pc \notin {"close_exit", "done"}
       => segment_index = 0 /\ cut.seconds = 0 /\ pc \notin {"cut_index", "cut_flush", "next"}
  /\ pc = "cut" => cut.duration = pkt.time - cut.seconds
  /\ Whole =>
       /\ pc \in {"loop", "read", "cut", "write", "segment"}
            => /\ Total(segments)[segment_index] = cut.seconds
               /\ \/ Len(segments) = segment_index + 1
                  \/ pc = "segment" /\ ctx = NoFile /\ Len(segments) = segment_index
       /\ pc \in {"cut_index", "cut_flush", "next"}
            => /\ Total(segments)[segment_index + 1] = pkt.time
               /\ Len(segments) = segment_index + 1

LEMMA TileInit == Init => TileInv
BY DEF Init, TileInv, Whole, Positions

LEMMA TileQuiet == ASSUME Inv, TileInv, Quiet PROVE TileInv'
<1>1. /\ segments' = segments /\ segment_index' = segment_index /\ ctx' = ctx
      /\ cut'.seconds = cut.seconds
  BY DEF Quiet, Kept
<1>2. \A i \in Positions' : i # 1 => segments'[i].seq # 0
  BY <1>1 DEF TileInv, Positions
<1>3. segments' = <<>> /\ pc' \notin {"close_exit", "done"}
        => segment_index' = 0 /\ cut'.seconds = 0 /\ pc' \notin {"cut_index", "cut_flush", "next"}
  BY <1>1 DEF TileInv, Quiet
<1>4. pc' = "cut" => cut'.duration = pkt'.time - cut'.seconds
  BY <1>1 DEF TileInv, Quiet
<1>5. ASSUME Whole, pc' \in {"loop", "read", "cut", "write", "segment"}
      PROVE  /\ Total(segments)[segment_index] = cut.seconds
             /\ \/ Len(segments) = segment_index + 1
                \/ pc' = "segment" /\ ctx = NoFile /\ Len(segments) = segment_index
  <2>1. pc \notin {"start", "swr", "first_index", "first_flush"}
    BY <1>5 DEF Inv, CtxInv, Whole
  <2>2. pc \in {"loop", "read", "cut", "write", "segment"}
    BY <1>5, <2>1 DEF Quiet
  <2>3. Total(segments)[segment_index] = cut.seconds
    BY <1>5, <2>2 DEF TileInv
  <2>4. \/ Len(segments) = segment_index + 1
        \/ pc' = "segment" /\ ctx = NoFile /\ Len(segments) = segment_index
    BY <1>5, <2>2 DEF TileInv, Quiet
  <2> QED
    BY <2>3, <2>4
<1>6. ASSUME Whole, pc' \in {"cut_index", "cut_flush", "next"}
      PROVE  /\ Total(segments)[segment_index + 1] = pkt'.time
             /\ Len(segments) = segment_index + 1
  <2>1. pc \in {"cut_index", "cut_flush", "next"} /\ pkt' = pkt
    BY <1>6 DEF Quiet
  <2> QED
    BY <1>6, <2>1 DEF TileInv
<1> QED
  BY <1>1, <1>2, <1>3, <1>4, <1>5, <1>6 DEF TileInv, Whole

(* A step that leaves the vector and the cut state *)
LEMMA TileKept ==
  ASSUME Inv, TileInv, UNCHANGED <<segments, segment_index, ctx, cut, pkt>>,
         \/ pc' = pc
         \/ pc = "first_flush" /\ pc' = "loop"
         \/ pc = "cut_index" /\ pc' = "cut_flush"
         \/ pc = "cut_flush" /\ pc' = "next"
         \/ pc \in {"first_index", "last_index", "last_flush", "trailer"}
            /\ pc' \in {"first_flush", "last_flush", "trailer", "close"}
  PROVE  TileInv'
<1>1. segments = <<>> \/ pc # "first_flush"
  BY DEF Inv, CtxInv
<1>2. \A i \in Positions' : i # 1 => segments'[i].seq # 0
  BY DEF TileInv, Positions
<1>3. /\ segments = <<>> /\ pc' \notin {"close_exit", "done"}
           => /\ segment_index = 0 /\ cut.seconds = 0
              /\ pc' \notin {"cut_index", "cut_flush", "next"}
      /\ pc' = "cut" => cut.duration = pkt.time - cut.seconds
  BY DEF TileInv
<1>4. Whole /\ pc' \in {"loop", "read", "cut", "write", "segment"}
        => /\ Total(segments)[segment_index] = cut.seconds
           /\ \/ Len(segments) = segment_index + 1
              \/ pc' = "segment" /\ ctx = NoFile /\ Len(segments) = segment_index
  BY <1>1 DEF TileInv, Whole
<1>5. Whole /\ pc' \in {"cut_index", "cut_flush", "next"}
        => /\ Total(segments)[segment_index + 1] = pkt.time
           /\ Len(segments) = segment_index + 1
  BY DEF TileInv
<1> QED
  BY <1>2, <1>3, <1>4, <1>5 DEF TileInv, Whole

LEMMA TileCut == ASSUME Inv, TileInv, Cut PROVE TileInv'
<1>1. /\ ctx # NoFile /\ pc = "cut" /\ pc' \in {"cut_index", "next"}
      /\ segments' = SetLast(cut.duration) /\ segment_index' = segment_index
      /\ cut' = cut /\ pkt' = pkt
  BY DEF Cut, Step, At, SetLast
<1>2. segments # <<>> /\ cut.duration \in Int /\ cut.seconds \in Int /\ pkt.time \in Int
  BY <1>1, HlsMuxerAssumption DEF Inv, VectorInv, TypeOK
<1>3. /\ segments' # <<>> /\ Len(segments') = Len(segments)
      /\ \A i \in Positions : segments'[i].seq = segments[i].seq
      /\ \A i \in Positions \ {Len(segments)} : segments'[i] = segments[i]
      /\ Len(segments) \in Positions /\ Len(segments) \in Nat
      /\ segments'[Len(segments)].dur = cut.duration
  <2>1. SetLast(cut.duration)[Len(segments)].dur = cut.duration
    <3>1. segments \in Seq(Segments) /\ Len(segments) \in Positions
      BY <1>2, Shape DEF Inv
    <3>2. \A old \in Segments : [old EXCEPT !.dur = cut.duration].dur = cut.duration
      BY DEF Segments
    <3> QED
      BY <3>1, <3>2 DEF SetLast, Positions
  <2> QED
    BY <1>1, <1>2, <2>1, SetLastIs, Shape DEF Inv
<1>4. ASSUME Whole
      PROVE  Total(segments')[segment_index + 1] = pkt.time /\ Len(segments) = segment_index + 1
  <2>1. Total(segments)[segment_index] = cut.seconds /\ Len(segments) = segment_index + 1
    BY <1>1, <1>4 DEF TileInv
  <2>2. segment_index \in Nat
    BY Shape DEF Inv
  <2>3. Total(segments')[segment_index] = Total(segments)[segment_index]
    <3>1. \A i \in 1..segment_index : segments'[i].dur = segments[i].dur
      BY <1>3, <2>1, <2>2 DEF Positions
    <3>2. segment_index <= Len(segments) /\ segment_index <= Len(segments')
          /\ Len(segments) \in Nat /\ Len(segments') \in Nat
      BY <1>3, <2>1, <2>2
    <3> QED
      BY <2>2, <3>1, <3>2, TotalAgrees
  <2>4. Total(segments')[segment_index + 1]
          = Total(segments')[segment_index] + segments'[segment_index + 1].dur
    <3>1. segment_index + 1 \in 1..Len(segments') /\ Len(segments') \in Nat
          /\ (segment_index + 1) - 1 = segment_index
      BY <1>3, <2>1, <2>2
    <3> QED
      BY <3>1, TotalIs
  <2>5. segments'[segment_index + 1].dur = pkt.time - cut.seconds
    BY <1>1, <1>3, <2>1 DEF TileInv
  <2> QED
    BY <1>2, <2>1, <2>3, <2>4, <2>5
<1>5. Whole' => Whole
  <2>1. 1 \in Positions
    BY <1>3 DEF Positions
  <2> QED
    BY <1>2, <1>3, <2>1 DEF Whole
<1>6. \A i \in Positions' : i # 1 => segments'[i].seq # 0
  BY <1>3 DEF TileInv, Positions
<1> QED
  BY <1>1, <1>3, <1>4, <1>5, <1>6 DEF TileInv

LEMMA TileNext == ASSUME Inv, TileInv, NextSegment PROVE TileInv'
<1>1. /\ pc = "next" /\ pc' = "segment" /\ segments' = segments /\ ctx' = ctx /\ ctx = NoFile
      /\ segment_index' = segment_index + 1 /\ segments # <<>>
  BY DEF NextSegment, Step, At, Inv, CtxInv, TileInv
<1>2. cut'.seconds = pkt.time
  BY DEF NextSegment, Inv, TypeOK
<1>3. Whole => /\ Total(segments)[segment_index'] = cut'.seconds
               /\ Len(segments) = segment_index'
  BY <1>1, <1>2 DEF TileInv
<1> QED
  BY <1>1, <1>3 DEF TileInv, Whole, Positions

(* A segment enters the vector *)
LEMMA TileOpens ==
  ASSUME Inv, TileInv, pc = "segment", pc' = "write", segments' = Window,
         UNCHANGED <<segment_index, cut>>
  PROVE  TileInv'
<1>1. /\ segments \in Seq(Segments) /\ Len(segments) \in Nat /\ segment_index \in Nat
      /\ segments = <<>> <=> Len(segments) = 0
      /\ MaxSegments \in Nat \ {0} /\ Len(segments) <= MaxSegments
  BY Shape DEF Inv, VectorInv
<1>2. CASE ~Missing
  <2>1. segments' = segments /\ Len(segments) >= segment_index + 1
    BY <1>1, <1>2 DEF Window, Missing
  <2>2. segments # <<>>
    BY <1>1, <2>1
  <2>3. Whole => Len(segments) = segment_index + 1 /\ Total(segments)[segment_index] = cut.seconds
    BY <1>1, <2>1 DEF TileInv
  <2> QED
    BY <2>1, <2>2, <2>3 DEF TileInv, Whole, Positions
<1>3. CASE Missing
  <2>1. PICK out \in {0, 1} :
          /\ out = 1 <=> Len(segments) = MaxSegments
          /\ Len(segments') = Len(segments) + 1 - out
          /\ \A i \in 1..Len(segments') :
               IF i = Len(segments')
               THEN segments'[i] = [seq |-> segment_index, dur |-> SegDur]
               ELSE i + out \in Positions /\ segments'[i] = segments[i + out]
    BY <1>1, <1>3, WindowIs DEF Inv
  <2>2. segments' # <<>> /\ Len(segments') >= 1
    <3>1. segments' # <<>>
      BY <1>1, <1>3, WindowIs DEF Inv
    <3> QED
      BY <1>1, <2>1, <3>1
  <2>3. segments # <<>> => segment_index # 0
    BY <1>1, <1>3 DEF Missing
  <2>4. \A i \in Positions' : i # 1 => segments'[i].seq # 0
    <3> SUFFICES ASSUME NEW i \in 1..Len(segments'), i # 1 PROVE segments'[i].seq # 0
      BY DEF Positions
    <3>1. CASE i = Len(segments')
      <4>1. segments'[i].seq = segment_index
        BY <2>1, <3>1
      <4>2. segments # <<>>
        BY <1>1, <2>1, <3>1
      <4> QED
        BY <2>3, <4>1, <4>2
    <3>2. CASE i # Len(segments')
      <4>1. i + out \in Positions /\ segments'[i] = segments[i + out] /\ i + out # 1
        BY <2>1, <3>2
      <4> QED
        BY <4>1 DEF TileInv
    <3> QED
      BY <3>1, <3>2
  <2>5. ASSUME Whole' PROVE /\ Total(segments')[segment_index] = cut.seconds
                            /\ Len(segments') = segment_index + 1
    <3>1. segments'[1].seq = 0
      BY <1>1, <2>5 DEF Whole
    <3>2. CASE segments = <<>>
      <4>1. segment_index = 0 /\ cut.seconds = 0
        BY <3>2 DEF TileInv
      <4>2. out = 0 /\ Len(segments') = 1
        BY <1>1, <2>1, <3>2
      <4>3. Total(segments')[0] = 0
        BY <4>2, TotalIs
      <4> QED
        BY <4>1, <4>2, <4>3
    <3>3. CASE segments # <<>>
      <4>1. 1 # Len(segments')
        <5> SUFFICES ASSUME Len(segments') = 1 PROVE FALSE
          OBVIOUS
        <5>1. segments'[1].seq = segment_index
          BY <2>1
        <5> QED
          BY <2>3, <3>1, <3>3, <5>1
      <4>2. 1 + out \in Positions /\ segments'[1] = segments[1 + out]
        BY <2>1, <2>2, <4>1
      <4>3. out = 0
        BY <2>1, <3>1, <4>2 DEF TileInv
      <4>4. Whole /\ Len(segments') = Len(segments) + 1
        BY <1>1, <2>1, <3>1, <3>3, <4>2, <4>3 DEF Whole
      <4>5. Len(segments) = segment_index /\ Total(segments)[segment_index] = cut.seconds
        BY <1>1, <1>3, <4>4 DEF TileInv, Missing
      <4>6. \A i \in 1..segment_index : segments'[i].dur = segments[i].dur
        BY <1>1, <2>1, <4>3, <4>4, <4>5
      <4>7. Total(segments')[segment_index] = Total(segments)[segment_index]
        BY <1>1, <4>4, <4>5, <4>6, TotalAgrees
      <4> QED
        BY <4>4, <4>5, <4>7
    <3> QED
      BY <3>2, <3>3
  <2> QED
    BY <2>2, <2>4, <2>5 DEF TileInv
<1> QED
  BY <1>2, <1>3

LEMMA TileFinish == ASSUME Inv, TileInv, Finish PROVE TileInv'
<1>1. /\ pc = "finish" /\ pc' \in {"last_index", "trailer"}
      /\ segments' \in {segments, SetLast(cut.duration)}
      /\ segments = <<>> => segments' = segments
      /\ UNCHANGED <<segment_index, cut>>
  BY DEF Finish, Step, At, SetLast
<1>2. cut.duration \in Int /\ TypeOK
  BY DEF Inv, TypeOK
<1>3. /\ segments' = <<>> <=> segments = <<>>
      /\ Len(segments') = Len(segments)
      /\ \A i \in Positions : segments'[i].seq = segments[i].seq
  BY <1>1, <1>2, SetLastIs
<1> QED
  BY <1>1, <1>3 DEF TileInv, Positions

LEMMA TileStep == Inv /\ TileInv /\ [Next]_vars => TileInv'
<1> SUFFICES ASSUME Inv, TileInv, [Next]_vars PROVE TileInv'
  OBVIOUS
<1>1. ASSUME Opened \/ Flushed \/ Dies \/ Trailer \/ CleanerDelete PROVE TileInv'
  <2>1. UNCHANGED <<segments, segment_index, ctx, cut, pkt>> \/ Trailer
    BY <1>1 DEF Opened, Flushed, Dies, CleanerDelete, OnlyIndex, CleanerGoes, mainVars
  <2>2. Trailer => UNCHANGED <<segments, segment_index, cut, pkt, ctx>>
    BY DEF Trailer
  <2>3. \/ pc' = pc
        \/ pc = "first_flush" /\ pc' = "loop"
        \/ pc = "cut_index" /\ pc' = "cut_flush"
        \/ pc = "cut_flush" /\ pc' = "next"
        \/ pc \in {"first_index", "last_index", "last_flush", "trailer"}
           /\ pc' \in {"first_flush", "last_flush", "trailer", "close"}
    BY <1>1 DEF Opened, Flushed, Dies, Trailer, CleanerDelete, CleanerGoes, Step, At
  <2> QED
    BY <2>1, <2>2, <2>3, TileKept
<1>2. ASSUME NewSegment \/ (NewSegmentFails /\ segment_index # 0) PROVE TileInv'
  BY <1>2, TileOpens DEF NewSegment, NewSegmentFails, Step, At
<1>3. ASSUME CloseClear PROVE TileInv'
  BY <1>3 DEF CloseClear, Step, At, TileInv, Whole, Positions
<1> QED
  BY <1>1, <1>2, <1>3, StepKinds, TileQuiet, TileCut, TileNext, TileFinish

(* Whatever fails, and for any window, segment length and number of         *)
(* segments: as long as segment 0 is in the window, the durations of the    *)
(* finished segments add up to the time at which the current one starts.    *)
THEOREM SegmentsTile == Spec => []DurationsTile
<1>1. Inv /\ TileInv => DurationsTile
  <2> SUFFICES ASSUME Inv, TileInv, pc = "loop", Whole
               PROVE  Total(segments)[Len(segments) - 1] = cut.seconds
    BY DEF DurationsTile, Whole
  <2>1. Len(segments) = segment_index + 1 /\ Total(segments)[segment_index] = cut.seconds
    BY DEF TileInv
  <2>2. segment_index \in Nat
    BY Shape DEF Inv
  <2> QED
    BY <2>1, <2>2
<1> QED
  BY InvHolds, TileInit, TileStep, <1>1, PTL DEF Spec
-----------------------------------------------------------------------------
(* The muxer implements LivePlaylist.  A segment that is cut has a length,  *)
(* and only a file of known length gets a list after its last packet.       *)
PublishInv ==
  /\ pc = "cut" => cut.duration \in 1..MaxTime
  /\ pc \in {"last_index", "last_flush"} => Vod

LEMMA PublishInit == Init => PublishInv
BY DEF Init, PublishInv

LEMMA PublishStep == ASSUME Inv, Inv', PublishInv, [Next]_vars PROVE PublishInv'
<1>1. ASSUME Quiet PROVE PublishInv'
  <2>1. \/ pc' = pc /\ cut' = cut
        \/ pc' \notin {"cut", "last_index", "last_flush"}
        \/ pc' = "cut" /\ cut'.duration = pkt'.time - cut'.seconds /\ pkt'.time > cut'.seconds
    BY <1>1 DEF Quiet
  <2>2. job' = job
    BY <1>1 DEF Quiet
  <2>3. pkt'.time \in 0..MaxTime /\ cut'.seconds \in 0..MaxTime
    BY DEF Inv, TypeOK
  <2>4. CASE pc' = pc /\ cut' = cut
    BY <2>2, <2>4 DEF PublishInv, Vod
  <2>5. CASE pc' = "cut" /\ cut'.duration = pkt'.time - cut'.seconds /\ pkt'.time > cut'.seconds
    <3>1. cut'.duration \in 1..MaxTime
      BY <2>3, <2>5, HlsMuxerAssumption
    <3> QED
      BY <2>5, <3>1 DEF PublishInv
  <2> QED
    BY <2>1, <2>4, <2>5 DEF PublishInv
<1>2. ASSUME Opened \/ Flushed PROVE PublishInv'
  BY <1>2 DEF Opened, Flushed, OnlyIndex, PublishInv, Vod
<1>3. ASSUME Dies PROVE PublishInv'
  BY <1>3 DEF Dies, mainVars, PublishInv, Vod
<1>4. ASSUME Finish PROVE PublishInv'
  BY <1>4 DEF Finish, Step, At, PublishInv, Vod
<1>5. ASSUME CleanerDelete PROVE PublishInv'
  BY <1>5 DEF CleanerDelete, CleanerGoes, PublishInv, Vod
<1>6. ASSUME \/ Cut \/ NextSegment \/ NewSegment \/ (NewSegmentFails /\ segment_index # 0)
             \/ Trailer \/ CloseClear
      PROVE  pc' \in {"cut_index", "next", "segment", "write", "close", "close_exit"}
  BY <1>6 DEF Cut, NextSegment, NewSegment, NewSegmentFails, Trailer, CloseClear, Step, At
<1>7. pc' \in {"cut_index", "next", "segment", "write", "close", "close_exit"} => PublishInv'
  BY DEF PublishInv
<1> QED
  BY StepKinds, <1>1, <1>2, <1>3, <1>4, <1>5, <1>6, <1>7

LEMMA PublishHolds == Spec => []PublishInv
<1>1. Inv /\ Inv' /\ PublishInv /\ [Next]_vars => PublishInv'
  BY PublishStep
<1> QED
  BY <1>1, PublishInit, InvHolds, PTL DEF Spec

(* What a reader can tell of a step *)
View == <<Made, FinishedInWindow, complete, index>>

LEMMA Unseen ==
  ASSUME UNCHANGED View, Closed' <=> Closed
  PROVE  UNCHANGED L!playlistVars
BY DEF View, L!playlistVars

(* Two vectors that agree *)
LEMMA SameVector ==
  ASSUME NEW s \in Seq(Segments), NEW t \in Seq(Segments), Len(s) = Len(t),
         \A i \in 1..Len(s) : s[i] = t[i]
  PROVE  s = t
OBVIOUS

(* All but the last *)
LEMMA FrontIs ==
  ASSUME NEW s \in Seq(Segments), s # <<>>
  PROVE  /\ SubSeq(s, 1, Len(s) - 1) \in Seq(Segments)
         /\ Len(SubSeq(s, 1, Len(s) - 1)) = Len(s) - 1
         /\ Len(s) \in Nat \ {0}
         /\ \A i \in 1..(Len(s) - 1) : SubSeq(s, 1, Len(s) - 1)[i] = s[i]
<1>1. Len(s) \in Nat \ {0}
  OBVIOUS
<1>2. PICK n \in Nat : n = Len(s) - 1 /\ n < Len(s)
  <2>1. Len(s) - 1 \in Nat /\ Len(s) - 1 < Len(s)
    BY <1>1
  <2> QED
    BY <2>1
<1>3. /\ SubSeq(s, 1, n) \in Seq(Segments) /\ Len(SubSeq(s, 1, n)) = n
      /\ \A i \in 1..n : SubSeq(s, 1, n)[i] = s[i]
  BY <1>1, <1>2
<1> QED
  BY <1>1, <1>2, <1>3

LEMMA QuietShows ==
  ASSUME FInv, PublishInv, Quiet
  PROVE  L!Next \/ UNCHANGED L!playlistVars
<1>1. /\ segment_index' = segment_index /\ segments' = segments /\ ctx' = ctx
      /\ complete' = complete /\ index' = index
  BY DEF Quiet, Kept
<1>2. Cutting' <=> Cutting
  BY DEF Quiet, Cutting
<1>3. CASE Closed' <=> Closed
  <2>1. Made' = Made /\ FinishedInWindow' = FinishedInWindow
    BY <1>1, <1>2, <1>3 DEF Made, FinishedInWindow
  <2> QED
    BY <1>1, <1>3, <2>1, Unseen DEF View
<1>4. CASE ~(Closed' <=> Closed)
  <2>1. pc \in {"start", "swr", "first_index"} /\ ~Closed /\ Closed' /\ ~Cutting
    BY <1>4 DEF Quiet, Closed, Cutting
  <2>2. ctx = NoFile
    BY <2>1 DEF FInv, Inv, CtxInv
  <2>3. Made' = Made /\ FinishedInWindow' = <<>>
    BY <1>1, <1>2, <2>1, <2>2 DEF Made, FinishedInWindow
  <2>4. L!End
    BY <1>1, <2>1, <2>3 DEF L!End
  <2> QED
    BY <2>4 DEF L!Next
<1> QED
  BY <1>3, <1>4

LEMMA OpenedShows == ASSUME Opened PROVE L!Next
<1>1. /\ segment_index' = segment_index /\ segments' = segments /\ ctx' = ctx
      /\ complete' = complete /\ index'.list = <<>> /\ index'.first = 0
  BY DEF Opened, OnlyIndex, Truncated
<1>2. /\ Cutting' <=> Cutting
      /\ ~Closed /\ ~Closed'
  BY DEF Opened, Cutting, Closed
<1>3. Made' = Made /\ FinishedInWindow' = FinishedInWindow
  BY <1>1, <1>2 DEF Made, FinishedInWindow
<1>4. L!Withdraw
  BY <1>1, <1>2, <1>3 DEF L!Withdraw
<1> QED
  BY <1>4 DEF L!Next

LEMMA FlushedShows == ASSUME FInv, PublishInv, ~Vod, Flushed PROVE L!Next
<1>1. /\ segment_index' = segment_index /\ segments' = segments /\ ctx' = ctx
      /\ complete' = complete /\ index' = Playlist(EVENT)
      /\ \/ pc = "first_flush" /\ pc' = "loop"
         \/ pc = "cut_flush" /\ pc' = "next"
  BY DEF Flushed, OnlyIndex, PublishInv
<1>2. TypeOK /\ VectorInv /\ CtxInv /\ WindowInv
  BY DEF FInv, FParts, Inv
<1>3. /\ Cutting' <=> Cutting
      /\ ~Closed /\ ~Closed' /\ ctx = NoFile
  BY <1>1, <1>2 DEF Cutting, Closed, CtxInv
<1>4. Made' = Made /\ FinishedInWindow' = segments /\ FinishedInWindow = segments
  BY <1>1, <1>3 DEF Made, FinishedInWindow
<1>5. /\ index'.list = segments
      /\ index'.first = IF segments = <<>> THEN 0 ELSE segments[1].seq
  <2>1. EVENT # VOD
    BY DEF EVENT, VOD
  <2> QED
    BY <1>1, <1>2, <2>1, PlaylistIsVector
<1>6. Len(segments) = Made \/ Len(segments) = MaxSegments
  <2>1. Len(segments) = Newest(Count) /\ Count = Made
    BY <1>1, <1>2, <1>3 DEF WindowInv, Count, Made
  <2> QED
    BY <2>1 DEF Newest
<1>7. L!Publish
  BY <1>1, <1>3, <1>4, <1>5, <1>6 DEF L!Publish
<1> QED
  BY <1>7 DEF L!Next

LEMMA CutShows == ASSUME FInv, PublishInv, Cut PROVE L!Next
<1>1. /\ pc = "cut" /\ pc' \in {"cut_index", "next"} /\ ctx # NoFile /\ ctx' = NoFile
      /\ complete' = complete \cup {ctx} /\ segments' = SetLast(cut.duration)
      /\ segment_index' = segment_index /\ index' = index
  BY DEF Cut, Step, At, SetLast
<1>2. TypeOK /\ VectorInv /\ CtxInv /\ WindowInv
  BY DEF FInv, FParts, Inv
<1>3. ctx = segment_index /\ segments # <<>> /\ segments \in Seq(Segments) /\ segment_index \in Nat
  BY <1>1, <1>2 DEF CtxInv, VectorInv, TypeOK
<1>4. ~Closed /\ ~Closed' /\ ~Cutting /\ Cutting'
  BY <1>1 DEF Closed, Cutting
<1>5. Made = segment_index /\ Made' = segment_index + 1
  BY <1>1, <1>4 DEF Made
<1>6. PICK front \in Seq(Segments) :
        /\ front = SubSeq(segments, 1, Len(segments) - 1)
        /\ front = FinishedInWindow
        /\ Len(front) = Len(segments) - 1
        /\ \A i \in 1..(Len(segments) - 1) : front[i] = segments[i]
  BY <1>1, <1>3, <1>4, FrontIs DEF FinishedInWindow
<1>7. cut.duration \in 1..MaxTime
  BY <1>1 DEF PublishInv
<1>8. PICK last \in Segments : last = [seq |-> segment_index, dur |-> cut.duration]
  <2>1. cut.duration \in Int
    BY <1>7, HlsMuxerAssumption
  <2>2. [seq |-> segment_index, dur |-> cut.duration] \in Segments
    BY <1>3, <2>1 DEF Segments
  <2> QED
    BY <2>2
<1>9. segments'[Len(segments)] = last
  <2>1. segments[Len(segments)].seq = segment_index
    <3>1. /\ Len(segments) \in Positions /\ Len(segments) = Newest(Count)
          /\ segments[Len(segments)].seq = Count - Newest(Count) + Len(segments) - 1
      BY <1>1, <1>2, <1>3, FShape DEF WindowInv
    <3>2. Count = segment_index + 1
      BY <1>1 DEF Count
    <3>3. PICK c \in Nat, m \in Nat : c = Count /\ m = Newest(Count)
      BY FShape
    <3> QED
      BY <3>1, <3>2, <3>3, FShape
  <2>2. Len(segments) \in Positions /\ segments[Len(segments)] \in Segments
    BY <1>3, FShape
  <2>3. segments'[Len(segments)] = [segments[Len(segments)] EXCEPT !.dur = cut.duration]
    BY <1>1, <1>3, <2>2 DEF SetLast, Positions
  <2>4. \A old \in Segments : old.seq = segment_index
          => [old EXCEPT !.dur = cut.duration] = [seq |-> segment_index, dur |-> cut.duration]
    BY DEF Segments
  <2> QED
    BY <1>8, <2>1, <2>2, <2>3, <2>4
<1>10. segments' = Append(front, last)
  <2>1. /\ segments' \in Seq(Segments) /\ Len(segments') = Len(segments)
        /\ \A i \in Positions \ {Len(segments)} : segments'[i] = segments[i]
    BY <1>1, <1>2, <1>3, <1>7, SetLastIs
  <2>2. /\ Append(front, last) \in Seq(Segments) /\ Len(Append(front, last)) = Len(segments)
        /\ Append(front, last)[Len(segments)] = last
        /\ \A i \in 1..(Len(segments) - 1) : Append(front, last)[i] = front[i]
    BY <1>3, <1>6
  <2>3. \A i \in 1..Len(segments) : segments'[i] = Append(front, last)[i]
    <3> SUFFICES ASSUME NEW i \in 1..Len(segments) PROVE segments'[i] = Append(front, last)[i]
      OBVIOUS
    <3>1. CASE i = Len(segments)
      BY <1>9, <2>2, <3>1
    <3>2. CASE i # Len(segments)
      <4>1. i \in 1..(Len(segments) - 1) /\ i \in Positions \ {Len(segments)}
        BY <1>3, <3>2 DEF Positions
      <4> QED
        BY <1>6, <2>1, <2>2, <4>1
    <3> QED
      BY <3>1, <3>2
  <2> QED
    BY <2>1, <2>2, <2>3, SameVector
<1>11. FinishedInWindow' = Append(FinishedInWindow, [seq |-> Made, dur |-> cut.duration])
  BY <1>1, <1>4, <1>5, <1>6, <1>8, <1>10 DEF FinishedInWindow
<1>12. Len(FinishedInWindow) < MaxSegments
  BY <1>2, <1>3, <1>6, FShape DEF VectorInv
<1>13. complete' = complete \cup {Made}
  BY <1>1, <1>3, <1>5
<1>14. L!Make
  BY <1>1, <1>4, <1>5, <1>7, <1>11, <1>12, <1>13 DEF L!Make, L!Finished
<1> QED
  BY <1>14 DEF L!Next

LEMMA NextSegmentShows == ASSUME FInv, NextSegment PROVE UNCHANGED L!playlistVars
<1>1. /\ pc = "next" /\ pc' = "segment" /\ segment_index' = segment_index + 1
      /\ segments' = segments /\ ctx' = ctx /\ complete' = complete /\ index' = index
  BY DEF NextSegment, Step, At
<1>2. ctx = NoFile
  BY <1>1 DEF FInv, Inv, CtxInv
<1>3. ~Closed /\ ~Closed' /\ Cutting /\ ~Cutting'
  BY <1>1 DEF Closed, Cutting
<1>4. Made' = Made /\ FinishedInWindow' = FinishedInWindow
  BY <1>1, <1>2, <1>3 DEF Made, FinishedInWindow
<1> QED
  BY <1>1, <1>3, <1>4, Unseen DEF View

LEMMA NewSegmentShows ==
  ASSUME FInv, NewSegment
  PROVE  L!Next \/ UNCHANGED L!playlistVars
<1>1. /\ pc = "segment" /\ pc' = "write" /\ ctx = NoFile /\ segments' = Window /\ ctx' = Current
      /\ segment_index' = segment_index /\ complete' = complete /\ index' = index
  BY DEF NewSegment, Step, At
<1>2. TypeOK /\ VectorInv /\ WindowInv
  BY DEF FInv, FParts, Inv
<1>3. Current = segment_index /\ ctx' # NoFile /\ segments \in Seq(Segments)
      /\ Len(segments) \in Nat /\ Len(segments) <= MaxSegments
  BY <1>1, <1>2, CurrentIs, FShape DEF VectorInv
<1>4. ~Closed /\ ~Closed' /\ ~Cutting /\ ~Cutting'
  BY <1>1 DEF Closed, Cutting
<1>5. Made' = Made
  BY <1>1, <1>4 DEF Made
<1>6. Missing
  <2>1. Len(segments) = Newest(Count) /\ Count = segment_index
    BY <1>1, <1>2, <1>4 DEF WindowInv, Count
  <2>2. Len(segments) <= segment_index
    BY <2>1, FShape
  <2> QED
    BY <1>3, <2>2, FShape DEF Missing
<1>7. PICK out \in {0, 1} :
        /\ out = 1 <=> Len(segments) = MaxSegments
        /\ Len(Window) = Len(segments) + 1 - out
        /\ \A i \in 1..Len(Window) :
             IF i = Len(Window) THEN Window[i] = [seq |-> segment_index, dur |-> SegDur]
             ELSE i + out \in Positions /\ Window[i] = segments[i + out]
  BY <1>2, <1>3, <1>6, WindowIs
<1>8. Window \in Seq(Segments) /\ Window # <<>>
  BY <1>2, <1>3, <1>6, WindowIs
<1>9. PICK front \in Seq(Segments) :
        /\ front = SubSeq(Window, 1, Len(Window) - 1)
        /\ Len(front) = Len(Window) - 1
        /\ \A i \in 1..(Len(Window) - 1) : front[i] = Window[i]
  BY <1>8, FrontIs
<1>10. FinishedInWindow = segments /\ FinishedInWindow' = front
  BY <1>1, <1>3, <1>4, <1>9 DEF FinishedInWindow
<1>11. Len(front) = Len(segments) - out /\ \A i \in 1..Len(front) : front[i] = segments[i + out]
  <2>1. PICK k \in Nat : k = Len(Window) /\ k = Len(segments) + 1 - out
    BY <1>3, <1>7
  <2>2. \A i \in 1..(k - 1) : i \in 1..k /\ i # k
    BY <2>1
  <2> QED
    BY <1>3, <1>7, <1>9, <2>1, <2>2
<1>12. CASE out = 0
  <2>1. front = segments
    BY <1>3, <1>11, <1>12, SameVector
  <2> QED
    BY <1>1, <1>4, <1>5, <1>10, <2>1, Unseen DEF View
<1>13. CASE out = 1
  <2>1. Len(segments) = MaxSegments /\ segments # <<>>
    BY <1>3, <1>7, <1>13, FShape
  <2>2. /\ Tail(segments) \in Seq(Segments) /\ Len(Tail(segments)) = Len(segments) - 1
        /\ \A i \in 1..(Len(segments) - 1) : Tail(segments)[i] = segments[i + 1]
    BY <1>3, <2>1
  <2>3. front = Tail(segments)
    BY <1>11, <1>13, <2>2, SameVector
  <2>4. L!Drop
    BY <1>1, <1>4, <1>5, <1>10, <2>1, <2>3 DEF L!Drop
  <2> QED
    BY <2>4 DEF L!Next
<1> QED
  BY <1>12, <1>13

LEMMA FinishShows == ASSUME FInv, Finish PROVE UNCHANGED L!playlistVars
<1>1. /\ pc = "finish" /\ pc' \in {"last_index", "trailer"}
      /\ segments' = segments \/ (segments # <<>> /\ segments' = SetLast(cut.duration))
      /\ segment_index' = segment_index /\ ctx' = ctx /\ complete' = complete /\ index' = index
  BY DEF Finish, Step, At, SetLast
<1>2. TypeOK /\ BegunInv /\ segments \in Seq(Segments)
  BY DEF FInv, FParts, Inv, TypeOK
<1>3. ~Closed /\ ~Closed' /\ ~Cutting /\ ~Cutting'
  BY <1>1 DEF Closed, Cutting
<1>4. Made' = Made
  BY <1>1, <1>3 DEF Made
<1>5. FinishedInWindow' = FinishedInWindow
  <2>1. CASE segments' = segments
    BY <1>1, <1>3, <2>1 DEF FinishedInWindow
  <2>2. CASE segments # <<>> /\ segments' = SetLast(cut.duration)
    <3>1. ctx # NoFile
      BY <1>1, <1>2, <2>2 DEF BegunInv
    <3>2. cut.duration \in Int
      BY <1>2 DEF TypeOK
    <3>3. /\ segments' \in Seq(Segments) /\ segments' # <<>> /\ Len(segments') = Len(segments)
          /\ \A i \in Positions \ {Len(segments)} : segments'[i] = segments[i]
      BY <1>2, <2>2, <3>2, SetLastIs
    <3>4. PICK a \in Seq(Segments) :
            /\ a = SubSeq(segments, 1, Len(segments) - 1) /\ Len(a) = Len(segments) - 1
            /\ \A i \in 1..(Len(segments) - 1) : a[i] = segments[i]
      BY <1>2, <2>2, FrontIs
    <3>5. PICK b \in Seq(Segments) :
            /\ b = SubSeq(segments', 1, Len(segments') - 1) /\ Len(b) = Len(segments) - 1
            /\ \A i \in 1..(Len(segments) - 1) : b[i] = segments'[i]
      BY <3>3, FrontIs
    <3>6. \A i \in 1..(Len(segments) - 1) : i \in Positions \ {Len(segments)}
      BY FShape DEF Positions
    <3>7. a = b
      <4>1. \A i \in 1..Len(a) : a[i] = b[i]
        BY <3>3, <3>4, <3>5, <3>6
      <4> QED
        BY <3>4, <3>5, <4>1, SameVector
    <3> QED
      BY <1>1, <1>3, <3>1, <3>4, <3>5, <3>7 DEF FinishedInWindow
  <2> QED
    BY <1>1, <2>1, <2>2
<1> QED
  BY <1>1, <1>3, <1>4, <1>5, Unseen DEF View

LEMMA TrailerShows == ASSUME FInv, Trailer PROVE L!Next
<1>1. /\ pc = "trailer" /\ pc' = "close" /\ ctx # NoFile /\ complete' = complete \cup {ctx}
      /\ segment_index' = segment_index /\ ctx' = ctx /\ index' = index
  BY DEF Trailer, Step, At
<1>2. ctx = segment_index
  BY <1>1 DEF FInv, Inv, CtxInv
<1>3. ~Closed /\ Closed' /\ ~Cutting
  BY <1>1 DEF Closed, Cutting
<1>4. Made = segment_index /\ Made' = segment_index + 1 /\ FinishedInWindow' = <<>>
  BY <1>1, <1>3 DEF Made, FinishedInWindow
<1>5. L!End
  BY <1>1, <1>2, <1>3, <1>4 DEF L!End, L!Finished
<1> QED
  BY <1>5 DEF L!Next

LEMMA CloseClearShows == ASSUME CloseClear PROVE UNCHANGED L!playlistVars
<1>1. /\ pc = "close" /\ pc' = "close_exit"
      /\ segment_index' = segment_index /\ ctx' = ctx /\ complete' = complete /\ index' = index
  BY DEF CloseClear, Step, At
<1>2. Closed /\ Closed' /\ ~Cutting /\ ~Cutting'
  BY <1>1 DEF Closed, Cutting
<1>3. Made' = Made /\ FinishedInWindow' = FinishedInWindow
  BY <1>1, <1>2 DEF Made, FinishedInWindow
<1> QED
  BY <1>1, <1>2, <1>3, Unseen DEF View

LEMMA CleanerDeleteShows == ASSUME FInv, CleanerDelete PROVE L!Next
<1>1. /\ cleaner.pc = "delete" /\ cleaner.last \in files
      /\ complete' = complete \ {cleaner.last} /\ pc' = pc /\ segments' = segments
      /\ segment_index' = segment_index /\ ctx' = ctx /\ index' = index
  BY DEF CleanerDelete, CleanerGoes
<1>2. CleanerInv /\ FilesInv
  BY DEF FInv, Inv
<1>3. PICK last \in Nat : last = cleaner.last /\ last <= segment_index - MaxSegments - 2
  BY <1>1, <1>2, FShape DEF CleanerInv
<1>4. /\ Closed' <=> Closed
      /\ Cutting' <=> Cutting
  BY <1>1 DEF Closed, Cutting
<1>5. Made' = Made /\ FinishedInWindow' = FinishedInWindow
  BY <1>1, <1>4 DEF Made, FinishedInWindow
<1>6. last \in complete /\ last + MaxSegments + 1 < Made
  <2>1. last # segment_index /\ last + MaxSegments + 1 < segment_index
    BY <1>3, FShape
  <2>2. last \in complete
    BY <1>1, <1>2, <1>3, <2>1 DEF FilesInv
  <2>3. Made \in {segment_index, segment_index + 1}
    BY DEF Made
  <2> QED
    BY <2>1, <2>2, <2>3, <1>3, FShape
<1>7. L!Expire
  BY <1>1, <1>3, <1>4, <1>5, <1>6 DEF L!Expire
<1> QED
  BY <1>7 DEF L!Next

LEMMA PlaylistInit == ASSUME Init PROVE L!Init
<1>1. /\ pc = "start" /\ segment_index = 0 /\ segments = <<>> /\ ctx = NoFile /\ complete = {}
      /\ index.list = <<>> /\ index.first = 0
  BY DEF Init, NoIndex
<1>2. ~Closed /\ ~Cutting
  BY <1>1 DEF Closed, Cutting
<1>3. Made = 0 /\ FinishedInWindow = <<>>
  BY <1>1, <1>2 DEF Made, FinishedInWindow
<1> QED
  BY <1>1, <1>2, <1>3 DEF L!Init

LEMMA PlaylistStep ==
  ASSUME FInv, PublishInv, [Next]_vars, ~Vod
  PROVE  L!Next \/ UNCHANGED L!playlistVars
<1>1. "writer" \notin Faults
  BY DEF FInv
<1>2. ASSUME Dies PROVE UNCHANGED L!playlistVars
  <2>1. UNCHANGED <<pc, segment_index, segments, ctx, complete, index>>
    BY <1>2 DEF Dies, mainVars
  <2>2. UNCHANGED View /\ (Closed' <=> Closed)
    BY <2>1 DEF View, Closed, Cutting, Made, FinishedInWindow
  <2> QED
    BY <2>2, Unseen
<1> QED
  BY <1>1, <1>2, StepKinds, QuietShows, OpenedShows, FlushedShows, CutShows, NextSegmentShows,
     NewSegmentShows, FinishShows, TrailerShows, CloseClearShows, CleanerDeleteShows
     DEF NewSegmentFails

(* As long as segment files can be opened, whatever else fails and however  *)
(* the three threads interleave, a live stream shows those who follow its   *)
(* playlist only steps of LivePlaylist: segments enter the window with      *)
(* their final length, every list is the whole window, and a segment is     *)
(* deleted only when it is well behind it.                                  *)
THEOREM PlaylistImplements == NoFault({"writer"}) /\ Spec => ImplementsLivePlaylist
<1>1. Init => (~Vod => L!Init)
  BY PlaylistInit
<1>2. FInv /\ PublishInv /\ [Next]_vars => [~Vod => L!Next]_(L!playlistVars)
  BY PlaylistStep
<1> QED
  BY <1>1, <1>2, FInvHolds, PublishHolds, PTL DEF Spec, ImplementsLivePlaylist

-----------------------------------------------------------------------------
(* The cleaner forgets no file.  It goes down from its newest victim, so    *)
(* while it deletes there is one gap, above which everything is kept.       *)
Trail(f) == f..(segment_index - 1) \subseteq files

NoFileForgotten == cleaner.pc = "delete" \/ \A f \in files : Trail(f)

TrailInv ==
  /\ Cutting => segment_index \in files
  /\ \A f \in files : Trail(f) \/ (cleaner.pc = "delete" /\ f <= cleaner.last)
  /\ cleaner.pc = "delete" => \A f \in files : f..cleaner.last \subseteq files

LEMMA TrailInit == Init => TrailInv
BY DEF Init, TrailInv, Cutting

(* What the steps do to the cleaner *)
LEMMA CleanerMoves ==
  ASSUME [Next]_vars, "remove" \notin Faults
  PROVE  \/ UNCHANGED cleaner
         \/ Start
         \/ /\ UNCHANGED <<files, segment_index, pc>>
            /\ cleaner.pc # "delete" /\ cleaner'.pc # "delete"
         \/ CleanerNewest \/ CleanerDelete \/ CleanerStop
<1>1. ASSUME Main PROVE UNCHANGED cleaner \/ Start
  <2>1. ASSUME StartFails \/ StreamMissing \/ InitSwr \/ LoopCheck \/ Cut \/ NextSegment
               \/ HaveSegment \/ NewSegment \/ WritePacket \/ Finish \/ Trailer \/ CloseClear
               \/ CloseExit \/ NullContext
        PROVE  UNCHANGED cleaner
    BY <2>1 DEF StartFails, StreamMissing, InitSwr, LoopCheck, Cut, NextSegment, HaveSegment,
       NewSegment, WritePacket, Finish, Trailer, CloseClear, CloseExit, NullContext, Crash
  <2>2. ASSUME FirstIndex \/ CutIndex \/ LastIndex PROVE UNCHANGED cleaner
    BY <2>2 DEF FirstIndex, CutIndex, LastIndex, OpenIndex, OpenIndexFails, FlushIndex
  <2>3. ASSUME NewSegmentFails PROVE UNCHANGED cleaner
    BY <2>3 DEF NewSegmentFails, Crash
  <2> QED
    BY <1>1, <2>1, <2>2, <2>3 DEF Main
<1>2. ASSUME Read \/ HeartbeatStop \/ UNCHANGED vars PROVE UNCHANGED cleaner
  BY <1>2 DEF Read, Packet, ReadEof, ReadNothing, ReadVideo, ReadAudio, HeartbeatStop, vars
<1>3. ASSUME CleanerCheck \/ CleanerSleep
      PROVE  /\ UNCHANGED <<files, segment_index, pc>>
             /\ cleaner.pc # "delete" /\ cleaner'.pc # "delete"
  BY <1>3 DEF CleanerCheck, CleanerSleep, CleanerGoes
<1>4. CleanerReadsCleared => UNCHANGED cleaner
  BY DEF CleanerReadsCleared
<1>5. ~CleanerRemoveFails
  BY DEF CleanerRemoveFails
<1> QED
  BY <1>1, <1>2, <1>3, <1>4, <1>5 DEF Next, Cleaner

(* The main thread only adds files, and adds the current one *)
LEMMA TrailMain ==
  ASSUME Inv, TrailInv, [Next]_vars, UNCHANGED cleaner PROVE TrailInv'
<1>1. segment_index \in Nat /\ files \subseteq Nat
  BY DEF Inv, TypeOK
<1>2. cleaner.pc = "delete" => cleaner.last \in Int /\ cleaner.last < segment_index
  BY HlsMuxerAssumption DEF Inv, TypeOK, CleanerInv
<1>3. ASSUME UNCHANGED <<files, segment_index>>, Cutting' => Cutting PROVE TrailInv'
  BY <1>3 DEF TrailInv, Trail
<1>4. ASSUME Quiet \/ Opened \/ Flushed \/ Dies \/ Finish \/ Trailer \/ CloseClear PROVE TrailInv'
  <2>1. UNCHANGED <<files, segment_index>>
    BY <1>4 DEF Quiet, Kept, Opened, Flushed, OnlyIndex, Dies, mainVars, Finish, Trailer, CloseClear
  <2>2. Cutting' => Cutting
    BY <1>4 DEF Quiet, Opened, Flushed, Dies, Finish, Trailer, CloseClear, Step, At, Cutting
  <2> QED
    BY <1>3, <2>1, <2>2
<1>5. ASSUME Cut PROVE TrailInv'
  <2>1. UNCHANGED <<files, segment_index>> /\ segment_index \in files
    BY <1>5 DEF Cut, Inv, CtxInv
  <2> QED
    BY <2>1 DEF TrailInv, Trail
<1>6. ASSUME NextSegment PROVE TrailInv'
  <2>1. /\ files' = files /\ segment_index' = segment_index + 1 /\ ~Cutting'
        /\ segment_index \in files
    BY <1>6 DEF NextSegment, Step, At, Cutting, TrailInv
  <2>2. \A f \in files : f..(segment_index - 1) \subseteq files => f..(segment_index' - 1) \subseteq files
    BY <1>1, <2>1
  <2> QED
    BY <2>1, <2>2 DEF TrailInv, Trail
<1>7. ASSUME NewSegment \/ (NewSegmentFails /\ segment_index # 0) PROVE TrailInv'
  <2>1. /\ segment_index' = segment_index /\ ~Cutting'
        /\ files' \in {files, files \cup {segment_index}}
    BY <1>7, CurrentIs DEF NewSegment, NewSegmentFails, Step, At, Cutting, Inv
  <2>2. segment_index..(segment_index - 1) = {}
    BY <1>1
  <2>3. cleaner.pc = "delete" => segment_index..cleaner.last = {}
    BY <1>1, <1>2
  <2> QED
    BY <2>1, <2>2, <2>3 DEF TrailInv, Trail
<1>8. ~CleanerDelete
  BY <1>1 DEF CleanerDelete, CleanerGoes, Inv, TypeOK
<1> QED
  BY StepKinds, <1>4, <1>5, <1>6, <1>7, <1>8

LEMMA TrailNewest ==
  ASSUME Inv, TrailInv, CleanerNewest PROVE TrailInv'
<1>1. segment_index \in Nat /\ files \subseteq Nat
  BY DEF Inv, TypeOK
<1>2. UNCHANGED <<files, segment_index, pc>> /\ cleaner.pc = "newest"
  BY DEF CleanerNewest, CleanerGoes
<1>3. CASE cleaner'.pc = "delete"
  <2>1. PICK newest \in Nat : /\ newest = segments[Len(segments)].seq /\ newest <= segment_index
    BY Shape DEF CleanerNewest, Inv, VectorInv
  <2>2. cleaner'.last = newest - MaxSegments - 2
    BY <1>3, <2>1 DEF CleanerNewest, CleanerGoes, DeleteFrom
  <2>3. \A f \in files : f..(segment_index - 1) \subseteq files
    BY <1>2 DEF TrailInv, Trail
  <2>4. cleaner'.last \in Int /\ cleaner'.last <= segment_index - 1
    BY <1>1, <2>1, <2>2, HlsMuxerAssumption
  <2>5. \A f \in files : f..cleaner'.last \subseteq files
    BY <1>1, <2>3, <2>4
  <2> QED
    BY <1>2, <2>3, <2>5 DEF TrailInv, Trail, Cutting
<1>4. CASE cleaner'.pc # "delete"
  BY <1>2, <1>4 DEF TrailInv, Trail, Cutting
<1> QED
  BY <1>3, <1>4

LEMMA TrailDelete ==
  ASSUME Inv, TrailInv, CleanerDelete PROVE TrailInv'
<1>1. segment_index \in Nat /\ files \subseteq Nat
  BY DEF Inv, TypeOK
<1>2. PICK last \in Nat :
        /\ last = cleaner.last /\ last < segment_index
        /\ cleaner.pc = "delete" /\ cleaner'.pc = "delete" /\ cleaner'.last = last - 1
        /\ files' = files \ {last} /\ UNCHANGED <<segment_index, pc>>
  <2>1. /\ cleaner.pc = "delete" /\ cleaner' = [pc |-> "delete", last |-> cleaner.last - 1]
        /\ files' = files \ {cleaner.last} /\ UNCHANGED <<segment_index, pc>>
    BY DEF CleanerDelete, CleanerGoes
  <2>2. cleaner.last \in Nat
    BY <1>1 DEF CleanerDelete
  <2>3. cleaner.last < segment_index
    BY <1>1, <2>1, <2>2, HlsMuxerAssumption DEF Inv, CleanerInv
  <2> QED
    BY <2>1, <2>2, <2>3
<1>3. Cutting' => segment_index' \in files'
  BY <1>1, <1>2 DEF TrailInv, Cutting
<1>4. \A f \in files' : Trail(f)' \/ f <= last - 1
  <2> SUFFICES ASSUME NEW f \in files', ~(f <= last - 1) PROVE Trail(f)'
    OBVIOUS
  <2>1. f \in Nat /\ f > last
    BY <1>1, <1>2
  <2>2. f..(segment_index - 1) \subseteq files
    BY <1>2, <2>1 DEF TrailInv, Trail
  <2>3. last \notin f..(segment_index - 1)
    BY <1>1, <1>2, <2>1
  <2> QED
    BY <1>2, <2>2, <2>3 DEF Trail
<1>5. \A f \in files' : f..(last - 1) \subseteq files'
  <2> SUFFICES ASSUME NEW f \in files', NEW g \in f..(last - 1) PROVE g \in files'
    OBVIOUS
  <2>1. f \in Nat /\ f..last \subseteq files
    BY <1>1, <1>2 DEF TrailInv
  <2>2. g \in f..last /\ g # last
    BY <1>2, <2>1
  <2> QED
    BY <1>2, <2>1, <2>2
<1> QED
  BY <1>2, <1>3, <1>4, <1>5 DEF TrailInv

(* It stops at a missing file, and then there is none below it *)
LEMMA TrailStop ==
  ASSUME Inv, TrailInv, CleanerStop PROVE TrailInv'
<1>1. segment_index \in Nat /\ files \subseteq Nat /\ cleaner.last \in Int
  BY DEF Inv, TypeOK
<1>2. /\ UNCHANGED <<files, segment_index, pc>> /\ cleaner.pc = "delete" /\ cleaner'.pc = "sleep"
      /\ cleaner.last \notin files
  BY DEF CleanerStop, CleanerGoes
<1>3. \A f \in files : ~(f <= cleaner.last)
  <2> SUFFICES ASSUME NEW f \in files, f <= cleaner.last PROVE FALSE
    OBVIOUS
  <2>1. cleaner.last \in f..cleaner.last
    BY <1>1
  <2> QED
    BY <1>2, <2>1 DEF TrailInv
<1> QED
  BY <1>2, <1>3 DEF TrailInv, Trail, Cutting

LEMMA TrailStep ==
  ASSUME "remove" \notin Faults, Inv, TrailInv, [Next]_vars PROVE TrailInv'
<1>1. ASSUME Start PROVE TrailInv'
  <2>1. files' = {} /\ ~Cutting'
    BY <1>1 DEF Start, Step, At, mainVars, Cutting, Inv, CtxInv
  <2> QED
    BY <2>1 DEF TrailInv
<1>2. ASSUME UNCHANGED <<files, segment_index, pc>>, cleaner.pc # "delete", cleaner'.pc # "delete"
      PROVE  TrailInv'
  BY <1>2 DEF TrailInv, Trail, Cutting
<1> QED
  BY <1>1, <1>2, CleanerMoves, TrailMain, TrailNewest, TrailDelete, TrailStop

(* Unless a removal fails, and for any window and number of segments: the   *)
(* files on disk have consecutive numbers up to the newest finished one     *)
(* whenever the cleaner is not deleting, so none is ever left behind where  *)
(* its downward search, which ends at a missing file, would not reach it.   *)
THEOREM NothingForgotten == NoFault({"remove"}) /\ Spec => []NoFileForgotten
<1>1. SUFFICES ASSUME NoFault({"remove"}) PROVE Spec => []NoFileForgotten
  OBVIOUS
<1>2. "remove" \notin Faults
  BY <1>1 DEF NoFault
<1>3. Inv /\ TrailInv /\ [Next]_vars => TrailInv'
  BY <1>2, TrailStep
<1>4. TrailInv => NoFileForgotten
  BY DEF TrailInv, NoFileForgotten
<1> QED
  BY InvHolds, TrailInit, <1>3, <1>4, PTL DEF Spec
===============================================================================
