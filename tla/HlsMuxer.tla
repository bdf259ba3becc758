------------------------------ MODULE HlsMuxer ------------------------------
(***************************************************************************)
(* One HLS muxer process (hls/hls.cpp): HlsMuxer::start cuts the input     *)
(* into segment files at audio timestamps, keeps a window of segments and  *)
(* writes index.m3u8, while segment_file_clean_thread deletes old segment  *)
(* files of a live stream and the heartbeat thread may ask for the exit.   *)
(*                                                                         *)
(* The three threads share exit and the segment vector without a lock.     *)
(* Media data is left out: a packet is a video packet, an audio packet     *)
(* with its time, or one of neither stream.                                *)
(***************************************************************************)
EXTENDS Integers, Sequences, FiniteSets

CONSTANTS
  MaxSegments,   \* MAX_SEGMENTS
  SegDur,        \* HlsMuxer::segment_duration, in ticks
  MaxTime,       \* bound: last audio time the input has
  Durations,     \* what VideoContext::duration can be: sign only
  Faults,        \* which external operations may fail
  NoFile         \* outputFmtContext == nullptr

FaultKinds == {"input", "stream", "fopen", "writer", "remove"}

ASSUME HlsMuxerAssumption ==
  /\ MaxSegments \in Nat \ {0} /\ SegDur \in Nat \ {0} /\ MaxTime \in Nat
  /\ Durations \subseteq {-1, 0, 1} /\ Durations # {}
  /\ Faults \subseteq FaultKinds
  /\ NoFile \notin Int

VARIABLES
  job,            \* duration of the input and the flags standalone and mute
  pc,             \* where HlsMuxer::start is
  exit,           \* HlsMuxer::exit
  pkt,            \* kind of the packet at hand and time_sec of an audio one
  cut,            \* the cut state: seg_index, seg_seconds, seg_duration
  segment_index,  \* number of the current segment
  durationSet,    \* set_seg_duration
  segments,       \* playlist->segments
  ctx,            \* segment that outputFmtContext writes, or NoFile
  files,          \* segment files on disk ...
  complete,       \* ... and those with their trailer written
  index,          \* what a reader of index.m3u8 finds
  cleaner,        \* segment_file_clean_thread
  crashed         \* the process died of a bad pointer

mainVars == <<pkt, cut, segment_index, durationSet, segments, ctx, files, complete, index>>
vars == <<job, pc, exit, mainVars, cleaner, crashed>>

Segments == [seq: Nat, dur: Int]

Live == job.duration < 0
Vod  == job.duration > 0

(* index.m3u8: absent, truncated by fopen and not yet flushed, or a list *)
NoIndex   == [state |-> "absent", first |-> 0, list |-> <<>>, ended |-> FALSE]
Truncated == [state |-> "truncated", first |-> 0, list |-> <<>>, ended |-> FALSE]

NoPkt == [kind |-> "none", time |-> 0]

Init ==
  /\ job \in [duration: Durations, standalone: BOOLEAN, mute: BOOLEAN]
  /\ pc = "start"
  /\ exit = FALSE
  /\ pkt = NoPkt
  /\ cut = [index |-> -1, seconds |-> 0, duration |-> SegDur]
  /\ segment_index = 0
  /\ durationSet = FALSE
  /\ segments = <<>>
  /\ ctx = NoFile
  /\ files = {} /\ complete = {}
  /\ index = NoIndex
  /\ cleaner = [pc |-> "off", last |-> 0]
  /\ crashed = FALSE

-----------------------------------------------------------------------------

At(here) == ~crashed /\ pc = here

Step(here, there) == At(here) /\ pc' = there /\ UNCHANGED <<job, crashed>>

Crash(here) ==
  /\ At(here) /\ crashed' = TRUE
  /\ UNCHANGED <<job, pc, exit, mainVars, cleaner>>

-----------------------------------------------------------------------------
(* start(): up to the main loop *)

(* create_dir(outdir, true) empties the directory; then the input and the   *)
(* audio encoder are opened and the threads started                         *)
Start ==
  /\ Step("start", "swr")
  /\ cleaner' = [cleaner EXCEPT !.pc = IF Live THEN "check" ELSE "off"]
  /\ UNCHANGED <<exit, mainVars>>

StartFails ==
  /\ "input" \in Faults
  /\ Step("start", "done") \/ Step("swr", "done")
  /\ UNCHANGED <<exit, mainVars, cleaner>>

(* the input has no video or no audio stream: the stream pointers are used  *)
(* without a test                                                           *)
StreamMissing ==
  /\ "stream" \in Faults
  /\ Crash("start")

InitSwr ==
  /\ Step("swr", "first_index")
  /\ UNCHANGED <<exit, mainVars, cleaner>>

-----------------------------------------------------------------------------
(* write_playlist: get_begin_sequence, header and entries, then             *)
(* new_index_file truncates the file and fclose flushes the content         *)

VOD == 0
EVENT == 1

(* mutant: the number counts from -1 *)
BeginBefore(max) ==
  IF segments = <<>> THEN -1 ELSE segments[1].seq - 1

Begin(max) ==
  IF segments = <<>> THEN 0
  ELSE IF Len(segments) <= max THEN segments[1].seq
       ELSE segments[Len(segments) - max + 1].seq

(* The entries with a number below from are passed over.  The vector is in  *)
(* the order of the numbers, so they are at its beginning.                  *)
Below(from) == Cardinality({i \in 1..Len(segments) : segments[i].seq < from})

Entries(from) == SubSeq(segments, Below(from) + 1, Len(segments))

First(type) == IF type = VOD THEN 0 ELSE Begin(MaxSegments)

(* mutant: the list announces the segment that comes next *)
PlaylistAhead(type) ==
  [state |-> "written", first |-> First(type), ended |-> type = VOD,
   list |-> Append(Entries(First(type)), [seq |-> segment_index + 1, dur |-> SegDur])]

Playlist(type) ==
  [state |-> "written", first |-> First(type), ended |-> type = VOD,
   list |-> Entries(First(type))]

OpenIndex(here, there) ==
  /\ Step(here, there)
  /\ index' = Truncated
  /\ UNCHANGED <<exit, pkt, cut, segment_index, durationSet, segments, ctx, files,
                 complete, cleaner>>

OpenIndexFails(here, there) ==
  /\ "fopen" \in Faults
  /\ Step(here, there)
  /\ UNCHANGED <<exit, mainVars, cleaner>>

FlushIndex(here, type, there) ==
  /\ Step(here, there)
  /\ index' = Playlist(type)
  /\ UNCHANGED <<exit, pkt, cut, segment_index, durationSet, segments, ctx, files,
                 complete, cleaner>>

FirstIndex ==
  \/ OpenIndex("first_index", "first_flush")
  \/ OpenIndexFails("first_index", "close")
  \/ FlushIndex("first_flush", EVENT, "loop")

-----------------------------------------------------------------------------
(* The main loop *)

(* mutant: exit is not looked at *)
LoopAlways ==
  /\ Step("loop", "read")
  /\ UNCHANGED <<exit, mainVars, cleaner>>

LoopCheck ==
  /\ Step("loop", IF exit THEN "finish" ELSE "read")
  /\ UNCHANGED <<exit, mainVars, cleaner>>

(* av_read_frame: end of file, or an error or a packet of another stream,   *)
(* or a video packet, or an audio packet                                    *)
ReadEof ==
  /\ Step("read", "finish")
  /\ UNCHANGED <<exit, mainVars, cleaner>>

ReadNothing ==
  /\ Step("read", "loop")
  /\ UNCHANGED <<exit, mainVars, cleaner>>

ReadVideo ==
  /\ Step("read", "segment")
  /\ pkt' = [kind |-> "video", time |-> 0]
  /\ UNCHANGED <<exit, cut, segment_index, durationSet, segments, ctx, files, complete,
                 index, cleaner>>

(* An audio packet at or before the start of the segment is dropped; one    *)
(* that falls into another slot of SegDur ticks ends the segment.           *)
ReadAudio ==
  /\ \E t \in 0..MaxTime :
       LET slot == t \div SegDur
       IN  /\ t > cut.seconds
           /\ pkt' = [kind |-> "audio", time |-> t]
           /\ cut' = [index |-> IF cut.index = -1 THEN slot ELSE cut.index,
                      seconds |-> cut.seconds, duration |-> t - cut.seconds]
           /\ Step("read", IF cut.index \in {-1, slot} THEN "segment" ELSE "cut")
  /\ UNCHANGED <<exit, segment_index, durationSet, segments, ctx, files, complete,
                 index, cleaner>>

(* av_write_trailer, avio_close, and the duration of the finished segment *)
Cut ==
  /\ ctx # NoFile
  /\ Step("cut", IF Live THEN "cut_index" ELSE "next")
  /\ complete' = complete \cup {ctx}
  /\ ctx' = NoFile
  /\ segments' = [segments EXCEPT ![Len(segments)].dur = cut.duration]
  /\ durationSet' = TRUE
  /\ UNCHANGED <<exit, pkt, cut, segment_index, files, index, cleaner>>

(* The status the first segment sends is the subject of another module *)
CutIndex ==
  \/ OpenIndex("cut_index", "cut_flush")
  \/ OpenIndexFails("cut_index", "next")
  \/ FlushIndex("cut_flush", EVENT, "next")

(* mutant: the start of the segment is not moved *)
NextSegmentKeepsStart ==
  /\ Step("next", "segment")
  /\ segment_index' = segment_index + 1
  /\ cut' = [cut EXCEPT !.index = pkt.time \div SegDur]
  /\ UNCHANGED <<exit, pkt, durationSet, segments, ctx, files, complete, index, cleaner>>

(* mutant: the packet that ended a segment is dropped *)
NextSegmentContinues ==
  /\ Step("next", "loop")
  /\ segment_index' = segment_index + 1
  /\ cut' = [cut EXCEPT !.index = pkt.time \div SegDur, !.seconds = pkt.time]
  /\ UNCHANGED <<exit, pkt, durationSet, segments, ctx, files, complete, index, cleaner>>

NextSegment ==
  /\ Step("next", "segment")
  /\ segment_index' = segment_index + 1
  /\ cut' = [cut EXCEPT !.index = pkt.time \div SegDur, !.seconds = pkt.time]
  /\ UNCHANGED <<exit, pkt, durationSet, segments, ctx, files, complete, index, cleaner>>

(* get_segment looks the number up as a position in the vector *)
Missing == Len(segments) < segment_index + 1

(* mutant: the window is one segment short *)
WindowShort ==
  IF ~Missing THEN segments
  ELSE LET pushed == Append(segments, [seq |-> segment_index, dur |-> SegDur])
       IN  IF Len(pushed) >= MaxSegments THEN Tail(pushed) ELSE pushed

(* a new segment enters the window, the oldest leaves it: also for VOD *)
Window ==
  IF ~Missing THEN segments
  ELSE LET pushed == Append(segments, [seq |-> segment_index, dur |-> SegDur])
       IN  IF Len(pushed) > MaxSegments THEN Tail(pushed) ELSE pushed

Current == IF Missing THEN segment_index ELSE segments[segment_index + 1].seq

HaveSegment ==
  /\ ctx # NoFile
  /\ Step("segment", "write")
  /\ UNCHANGED <<exit, mainVars, cleaner>>

NewSegment ==
  /\ ctx = NoFile
  /\ Step("segment", "write")
  /\ segments' = Window
  /\ durationSet' = (durationSet /\ ~Missing)
  /\ ctx' = Current
  /\ files' = files \cup {Current}
  /\ UNCHANGED <<exit, pkt, cut, segment_index, complete, index, cleaner>>

(* new_output_context returns null, before or after it created the file;    *)
(* for segment 0 av_dump_format uses it                                     *)
NewSegmentFails ==
  /\ "writer" \in Faults
  /\ ctx = NoFile
  /\ IF segment_index = 0
     THEN Crash("segment")
     ELSE /\ Step("segment", "write")
          /\ segments' = Window
          /\ durationSet' = (durationSet /\ ~Missing)
          /\ files' \in {files, files \cup {Current}}
          /\ UNCHANGED <<exit, pkt, cut, segment_index, ctx, complete, index, cleaner>>

(* a muted audio packet, or one the codec has no frame for yet, is not written *)
WritePacket ==
  /\ ctx # NoFile \/ pkt.kind = "audio"
  /\ Step("write", "loop")
  /\ pkt' = NoPkt
  /\ UNCHANGED <<exit, cut, segment_index, durationSet, segments, ctx, files, complete,
                 index, cleaner>>

-----------------------------------------------------------------------------
(* After the loop: the last duration, the VOD index, the trailer, close() *)

Finish ==
  /\ Step("finish", IF Vod THEN "last_index" ELSE "trailer")
  /\ segments' = IF durationSet \/ segments = <<>> THEN segments
                 ELSE [segments EXCEPT ![Len(segments)].dur = cut.duration]
  /\ UNCHANGED <<exit, pkt, cut, segment_index, durationSet, ctx, files, complete, index,
                 cleaner>>

LastIndex ==
  \/ OpenIndex("last_index", "last_flush")
  \/ OpenIndexFails("last_index", "trailer")
  \/ FlushIndex("last_flush", VOD, "trailer")

(* mutant: the last segment is not finished *)
TrailerSkipped ==
  /\ Step("trailer", "close")
  /\ UNCHANGED <<exit, mainVars, cleaner>>

Trailer ==
  /\ ctx # NoFile
  /\ Step("trailer", "close")
  /\ complete' = complete \cup {ctx}
  /\ UNCHANGED <<exit, pkt, cut, segment_index, durationSet, segments, ctx, files, index,
                 cleaner>>

(* close() empties the vector first and sets exit after that *)
CloseClear ==
  /\ Step("close", "close_exit")
  /\ segments' = <<>>
  /\ UNCHANGED <<exit, pkt, cut, segment_index, durationSet, ctx, files, complete, index,
                 cleaner>>

CloseExit ==
  /\ Step("close_exit", "done")
  /\ exit' = TRUE
  /\ UNCHANGED <<mainVars, cleaner>>

(* The main thread uses a null output context: av_write_trailer at a cut or *)
(* at the end, or the write of a packet                                     *)
NullContext ==
  /\ ctx = NoFile
  /\ \/ Crash("cut")
     \/ Crash("trailer")
     \/ (pkt.kind = "video" \/ ~job.mute) /\ Crash("write")

-----------------------------------------------------------------------------
(* The other threads; they live until start() returns and the process ends *)

Running == ~crashed /\ pc \notin {"start", "done"}

(* heartbeat: the session expired or the server does not answer *)
HeartbeatStop ==
  /\ Running /\ ~job.standalone /\ ~exit
  /\ exit' = TRUE
  /\ UNCHANGED <<job, pc, mainVars, cleaner, crashed>>

CleanerGoes(here, there, last) ==
  /\ Running /\ cleaner.pc = here
  /\ cleaner' = [pc |-> there, last |-> last]
  /\ UNCHANGED <<job, pc, exit, pkt, cut, segment_index, durationSet, segments, ctx,
                 index, crashed>>

CleanerCheck ==
  /\ CleanerGoes("check", IF exit THEN "off" ELSE IF segments = <<>> THEN "sleep" ELSE "newest", 0)
  /\ UNCHANGED <<files, complete>>

(* mutant: a distance of one segment less *)
DeleteFromNearer(newest) == newest - MaxSegments - 1

(* mutant: no distance to the window *)
DeleteFromWindow(newest) == newest - MaxSegments

(* the newest file the cleaner may delete, given the newest segment *)
DeleteFrom(newest) == newest - MaxSegments - 2

(* segments[size() - 1]; with last <= 0 it checks again at once *)
CleanerNewest ==
  /\ segments # <<>>
  /\ LET last == DeleteFrom(segments[Len(segments)].seq)
     IN  IF last <= 0 THEN CleanerGoes("newest", "check", 0)
                      ELSE CleanerGoes("newest", "delete", last)
  /\ UNCHANGED <<files, complete>>

(* the vector was emptied after the check: segments[-1] *)
CleanerReadsCleared ==
  /\ segments = <<>>
  /\ Running /\ cleaner.pc = "newest"
  /\ crashed' = TRUE
  /\ UNCHANGED <<job, pc, exit, mainVars, cleaner>>

(* mutant: the file is looked for and not removed *)
CleanerKeeps ==
  /\ cleaner.last \in files
  /\ CleanerGoes("delete", "delete", cleaner.last - 1)
  /\ UNCHANGED <<files, complete>>

(* downwards until a file is missing *)
CleanerDelete ==
  /\ cleaner.last \in files
  /\ CleanerGoes("delete", "delete", cleaner.last - 1)
  /\ files' = files \ {cleaner.last}
  /\ complete' = complete \ {cleaner.last}

CleanerStop ==
  /\ cleaner.last \notin files
  /\ CleanerGoes("delete", "sleep", 0)
  /\ UNCHANGED <<files, complete>>

(* filesystem::remove throws; the loop is left *)
CleanerRemoveFails ==
  /\ "remove" \in Faults
  /\ CleanerGoes("delete", "sleep", 0)
  /\ UNCHANGED <<files, complete>>

CleanerSleep ==
  /\ CleanerGoes("sleep", "check", 0)
  /\ UNCHANGED <<files, complete>>

-----------------------------------------------------------------------------

Packet == ReadVideo \/ ReadAudio

Main ==
  \/ Start \/ StartFails \/ StreamMissing \/ InitSwr \/ FirstIndex
  \/ LoopCheck
  \/ Cut \/ CutIndex \/ NextSegment
  \/ HaveSegment \/ NewSegment \/ NewSegmentFails \/ WritePacket
  \/ Finish \/ LastIndex \/ Trailer \/ CloseClear \/ CloseExit
  \/ NullContext

Read == ReadEof \/ ReadNothing \/ Packet

Cleaner ==
  \/ CleanerCheck \/ CleanerNewest \/ CleanerReadsCleared
  \/ CleanerDelete \/ CleanerStop \/ CleanerRemoveFails \/ CleanerSleep

Next == Main \/ Read \/ Cleaner \/ HeartbeatStop

Spec == Init /\ [][Next]_vars

(* The threads are scheduled.  av_read_frame need not return.               *)
FairSpec == Spec /\ WF_vars(Main) /\ WF_vars(Cleaner)

-----------------------------------------------------------------------------
(* Properties *)

(* Every variable of the muxer has its type; a finished file is a file. *)
TypeOK ==
  /\ job \in [duration: Durations, standalone: BOOLEAN, mute: BOOLEAN]
  /\ pc \in {"start", "swr", "first_index", "first_flush", "loop", "read", "cut",
             "cut_index", "cut_flush", "next", "segment", "write", "finish",
             "last_index", "last_flush", "trailer", "close", "close_exit", "done"}
  /\ exit \in BOOLEAN
  /\ pkt \in [kind: {"none", "video", "audio"}, time: 0..MaxTime]
  /\ cut \in [index: Int, seconds: 0..MaxTime, duration: Nat]
  /\ segment_index \in Nat
  /\ durationSet \in BOOLEAN
  /\ segments \in Seq(Segments)
  /\ ctx \in Nat \cup {NoFile}
  /\ files \subseteq Nat /\ complete \subseteq files
  /\ index \in [state: {"absent", "truncated", "written"}, first: Nat,
                list: Seq(Segments), ended: BOOLEAN]
  /\ cleaner \in [pc: {"off", "check", "newest", "delete", "sleep"}, last: Int]
  /\ crashed \in BOOLEAN

Listed == {index.list[i].seq : i \in 1..Len(index.list)}

(* Whoever fetches the playlist can fetch every segment it names: the file  *)
(* is on disk with its trailer, whatever the cleaner does at the moment.    *)
(* Only the last segment of a VOD list is published before its trailer.     *)
ListedOnDisk ==
  \A s \in Listed : s \in complete \/ (index.ended /\ s = ctx /\ s \in files)

(* A reader may be late: the list it holds was written before the last cut. *)
(* The segments of that list too are still there and complete, because the  *)
(* cleaner stays two segments behind the window.                            *)
LateReaderServed ==
  \A n \in 0..(segment_index - 1) : n >= segment_index - MaxSegments - 1 => n \in complete

(* Between two packets the playlist of a live stream is exactly the last    *)
(* MaxSegments finished segments, in order, and MEDIA-SEQUENCE names the    *)
(* first of them.  The list a VOD input ends with is cut to the last        *)
(* MaxSegments segments too, and calls the first of them number 0.          *)
Newest(n) == IF n < MaxSegments THEN n ELSE MaxSegments

IndexIs(n, first) ==
  /\ index.state = "written" /\ index.first = first
  /\ Len(index.list) = Newest(n)
  /\ \A i \in 1..Newest(n) : index.list[i].seq = n - Newest(n) + i - 1

IndexIsWindow ==
  /\ pc = "loop" /\ Live /\ segment_index > 0
       => IndexIs(segment_index, segment_index - Newest(segment_index))
  /\ index.ended /\ ctx # NoFile => IndexIs(segment_index + 1, 0)

(* A duration that a reader has seen in the playlist is final: no later     *)
(* packet changes it.                                                       *)
PublishedDurationFinal ==
  \A i \in 1..Len(index.list), j \in 1..Len(segments) :
    index.list[i].seq = segments[j].seq => index.list[i].dur = segments[j].dur

(* The time that the first n segments of a vector cover *)
Total(s) ==
  LET total[n \in 0..Len(s)] == IF n = 0 THEN 0 ELSE total[n - 1] + s[n].dur
  IN  total

(* While nothing has left the window, the finished segments cover the time  *)
(* up to the current one without a gap or an overlap.                       *)
DurationsTile ==
  pc = "loop" /\ segments # <<>> /\ segments[1].seq = 0
    => Total(segments)[Len(segments) - 1] = cut.seconds

(* What is left of the stream for those who follow its playlist: the        *)
(* segment that is being written does not count yet.                        *)
Cutting == pc \in {"cut_index", "cut_flush", "next"}
Closed  == pc \in {"close", "close_exit", "done"}

Made == IF Cutting \/ (Closed /\ ctx # NoFile) THEN segment_index + 1 ELSE segment_index

FinishedInWindow ==
  IF Closed THEN <<>>
  ELSE IF ctx = NoFile THEN segments ELSE SubSeq(segments, 1, Len(segments) - 1)

L == INSTANCE LivePlaylist WITH
       Lengths <- 1..MaxTime, live <- ~Closed, made <- Made, kept <- complete,
       window <- FinishedInWindow, list <- index.list, first <- index.first

(* For an input that is not a file of known length, every step of the three *)
(* threads is one of LivePlaylist or shows nothing of itself there, until   *)
(* the end of the process or its crash.                                     *)
ImplementsLivePlaylist == (~Vod => L!Init) /\ [][~Vod => L!Next]_(L!playlistVars)

(* The process is brought down in two ways only: the input ended before its *)
(* first packet, so there is no output context to end, or the cleaner looked *)
(* at the vector between clear() and exit, after all files were finished.   *)
CrashOnlyAtTheEnds ==
  crashed => \/ pc = "trailer" /\ files = {} /\ segment_index = 0
             \/ pc = "close_exit" /\ files = complete

(* A muxer that ends leaves no segment file without its trailer *)
AllFinishedAtExit == pc = "done" => files = complete

(* Even when index.m3u8 cannot be written and old lists stay, or segment    *)
(* files cannot be opened and their segments are tried again, a playlist of *)
(* a live stream never names the file that is being written.                *)
NeverListsOpenFile == index.ended \/ ctx \notin Listed

(* The cleaner eventually removes every file that has left the window far   *)
(* enough, as long as the stream runs.                                      *)
Removable(s) ==
  /\ Live /\ s \in files /\ segments # <<>>
  /\ LET last == DeleteFrom(segments[Len(segments)].seq) IN last > 0 /\ s <= last

OldFilesRemoved ==
  \A s \in 0..DeleteFrom(MaxTime \div SegDur) : Removable(s) ~> (s \notin files \/ exit \/ ~Running)

(* Once exit is set the process ends, unless av_read_frame never returns *)
ExitStops == <>exit => <>(pc = "done" \/ crashed) \/ <>[](pc = "read")
=============================================================================
