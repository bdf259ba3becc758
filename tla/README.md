# media-centre in TLA+

media-centre is a set of C++ programs around FFmpeg: a web server that turns a source url into an HLS
stream, a muxer process per stream, a desktop player and an RTSP pusher. They share little code and
almost no locking, and the repository has no tests of its own and no documentation beyond comments. This
directory holds models of its concurrent parts, written from the code, the TLC runs that check them, and
proofs of the safety properties of all of them.

## 1. The system

```
  pages (static/index.html)        muxers started by hand (docker/dockerfile)
     | /hls/open /heartbeat /list             |
     v                                        v
  web server  --std::system("... &")-->  muxer process ----> <dest>/<id>/index.m3u8, segment files
  Schedule, HlsController  <--POST /hls/status--  heartbeat, first segment
  sweeper thread                          start(), cleaner thread

  player: window loop, demux thread --AVPacketQueue--> decoder threads --audio_buf--> SDL callback
  rtsp pusher: one thread, input -> RTSP server
```

| part | state | operations | what makes it hard | what makes it correct |
|---|---|---|---|---|
| Session registry and handlers: `web/schedule.*`, `web/hls/HlsController.*` | map from stream id to `HlsAllocator*`, last access times, a static json object | open, heartbeat, status, list; the sweeper `check_session` | handlers on many data threads, the sweeper on its own, no lock on the map; unsigned time arithmetic; two look-ups where one is meant | no null or dangling pointer; a stream answered 200 is registered; a session in use stays and an abandoned one goes; the answer names the stream that was opened |
| Muxer: `hls/hls.*` | segment vector, current segment file, `exit`, `index.m3u8`, files on disk | cut, write playlist, new segment, write packet, trailer, close; cleaner; heartbeat | three threads share `exit` and the vector without a lock; every file operation may fail; a window of segments against deletion | a listed segment is on disk and finished; the window is right; durations are final and leave no gap; old files go; the process ends when told |
| Muxer status: `hls/status_mgr.*`, `http/httpcli.h`, `hls.cpp` heartbeat | `retry`, `exit`, a static `Response*`, a static body string | heartbeat, send_status, post | two threads in one function full of statics; failures counted over calls | the muxer stops only for a reason, stops when unwanted, and does not crash |
| Packet queue: `av_utils/av_packet_queue.*` | linked list, SDL mutex | put, take, delete of an item | an early return keeps the mutex; a link cut after unlock; a stale tail pointer | first in, first out, each packet once, nothing used after it is freed |
| Player: `player/*` | codecs, audio device, `audio_buf` and its size, two queues, `running`, `quit` | events, open, play, two decoders, audio callback | five threads without a lock; a shown window opens again | no sample overwritten while mixed, each frame heard once, every packet played, no bad pointer |
| RTSP pusher: `rtsp/*` | contexts of input, output, decoder; a packet that writing leaves blank | set-up, push in four ways, trailer, destroy | what a packet is after it was written; a closed connection reported three calls deep | a packet is pushed as what it is, nothing after a close, the announced session is ended |

Not modelled:

- the set-up of the web server (`web/main.cpp`, `web-server.cpp`, `web_component.h`): it runs once before the
  first request, and its effect is the action `ServerStart`;
- static files and ranges (`static_files_manager.*`, `media_controller.*`): the file is read anew for each
  request under a spin lock and the cache is off, so no state outlives a request; what is left is the
  arithmetic of one `Range` header, which has no step to interleave;
- the TCP server and client, which nothing creates; `util/`, which are pure conversions and logging; the FFmpeg
  experiments under `test/`;
- the vendored libraries (nlohmann json, spdlog with fmt, cpp-httplib, cmdline). They are nine tenths of the
  lines under `src/`. cpp-httplib is not called at all, and the others only parse options and format text, so
  there is nothing of the system in them.

## 2. Modules

| module | models | notes |
|---|---|---|
| `Schedule` | registry, four handlers, sweeper | implements `Sessions` |
| `Sessions` | what the registry promises: insert, touch, age, erase | abstract; `MediaCentre` is built on it |
| `HlsMuxer` | one muxer process: `start`, cleaner, `close` | heartbeat only as the action that sets `exit`; implements `LivePlaylist` |
| `LivePlaylist` | what the muxer of a live stream promises those who follow its playlist | abstract |
| `MuxerAudio` | what `start` does to an audio packet: decode, resample, FIFO, encode, clock | as counts of samples |
| `MuxerStatus` | heartbeat thread, `send_status`, `StatusManager::send`, `httpCli::post` | the server is an environment here |
| `MediaCentre` | server, muxer processes, pages, together | registry as in `Sessions`, muxers reduced to what the others see |
| `PacketQueue` | `AVPacketQueue` | implements `Fifo` |
| `Fifo` | what the queue promises | abstract |
| `Player` | window loop, demux, decoders, callback | its two queues are counters, as in `Fifo` |
| `RtspPush` | the pusher thread | sequential, with a server that may close the connection |
| `ScheduleProofs`, `HlsMuxerProofs`, `MuxerAudioProofs`, `MuxerStatusProofs`, `MediaCentreProofs`, `PacketQueueProofs`, `PlayerProofs`, `RtspPushProofs` | theorems | for every value of the constants |

The `MC` modules only add definitions a cfg cannot state. Operators after a comment `mutant:` are broken
versions of the operator that follows; no specification uses them. `PROJECT.json` maps every definition to
its lines and gives for each checked property a mutant that violates it.

### State and steps

*Schedule.* `hlsProcessors[k]` is the map, `Absent` where `find` would return `end()`, `NULL` for the null
pointer that `operator[]` inserts. `worker[w]` is a data thread with the handler it runs (`pc`, `op`), the
handler's locals (`id`, `ptr`, `lag` for a clock value it holds, `todo` for the rest of the list walk) and
`raced`, a history flag that is set when another thread takes the entry from under it. `sweep` is the
sweeper with `expiredKeys` and, per key, the age of the clock value it judged with. One step is one
operation on the map, or one access through a pointer. Overlapping accesses inside `std::map` are
undefined behaviour; what they do to the tree is left out, so the model has fewer crashes than the
program, never more. Time is kept as ages: `idle[a]` for `last_access_time`, so that TLC needs no clock;
`Expired` computes the unsigned subtraction modulo `ClockModulus`. The modulus must leave
room above the ages (`ScheduleAssumption`).

*HlsMuxer.* `pc` follows `HlsMuxer::start` from packet to packet: read, cut at an audio time, write the
playlist (truncate at `fopen`, contents at `fclose`), next segment, write. `segments` is
`playlist->segments`, `ctx` the open output, `files` and `complete` the directory, `index` what a reader of
`index.m3u8` finds. The cleaner reads the newest segment of the shared vector and deletes from
`newest - MAX_SEGMENTS - 2` down. `Faults` names the external operations that may fail: the input, a new
stream, a segment or playlist `fopen`, the writer, `remove`.

*MuxerAudio.* `time` is the time of the next input packet, `clock` the code's `audioClk`, `decoder`, `swr` and
`fifo` the sound that is under way, all in samples; `dest` tells whether the frame that is resampled into has
a buffer. `lost`, `skipped` and `backlog` are history: what a failed call dropped, how often a frame was due
and not taken, and whether a packet ever met a second frame of the decoder. `input.sameBase` is false where
the packet's time base is not that of the encoder; then `setStart` gets some other number. The branch for a
packet of the encoder's own codec is not modelled, because it compares the video stream's codec
(`hls.cpp:692`) and is never taken.

*MuxerStatus.* A step is one access to one of the statics. `got[t]` is the `Response*` in thread `t`'s hands
and `res` the static pointer; `result` is the static string, `mixed` when two bodies ran together. `told`,
`failures` and `overlapped` are history.

*MediaCentre.* `sessions` is the state of `Sessions`; a worker goes through check, `std::system`, insert,
store. A muxer opens its input (`open`), muxes with its heartbeats running (`on`), was told to `exit`, or is
`off`; the input may keep it in `open` or in `exit` for ever. `misses` counts beats without an answer;
`standalone` is the flag `-a`. The server may crash and be started again; its registry is then empty and its
muxers live on.

*PacketQueue.* Items are named by their serial number. `lock` is a recursive SDL mutex with owner and depth.
`held[c]` is the item a decoder works on, `freed` the deleted ones.

*Player.* `demux[i]`, `audio[i]`, `video[i]` are the threads of the i-th open; packets are numbers. `buffer` is
a history variable for what became of the samples in `audio_buf`.

*RtspPush.* `pkt` is a stream index and whether it has data; `av_interleaved_write_frame` leaves it blank.
`refused` counts pushes that met a closed connection.

### Composition and refinement

- `Schedule` implements `Sessions`: the age of a session is that of the allocator its entry points to
  (`Session(k)`). The abstract erase may drop a session that is unfilled, too old, or was touched within
  twice `MaxLag`; that a registry with no locks does nothing worse is the content of the refinement.
- `MediaCentre` instantiates `Sessions` and adds processes, so what it shows holds for what `Schedule` does
  as long as the server does not crash; crashes are an action of their own there.
- `HlsMuxer` and `MuxerAudio` are two views of the one loop in `HlsMuxer::start`: the first sees of an audio
  packet only its time, the second of a segment only its number. They share no variable.
- `HlsMuxer` implements `LivePlaylist` for an input that is not a file of known length. Six abstract steps are
  what a reader can tell of the process: a segment is made with its final length and enters the window
  (`Make`); the oldest leaves it for the next one (`Drop`); the whole window is published, or, while the file
  is written anew, nothing (`Publish`, `Withdraw`); a file goes that is well behind the window (`Expire`); the
  stream ends (`End`). The mapping takes the segment that is being written out of the vector
  (`FinishedInWindow`), counts a segment from its trailer on (`Made`, although the code counts later), and ends
  the stream where `close` is about to clear the vector (`Closed`). Everything else is a stutter. A file's last
  list, which is written before the last trailer and starts at number 0 whatever it holds, is the reason for
  the restriction.
- `PacketQueue` implements `Fifo` with `put` as the serial number of the next packet and `got` as the head of
  the list. `Player` uses the counters of `Fifo` for its two queues.

## 3. Runs

| run | question | instance | distinct states |
|---|---|---|---|
| `schedule_time` | which orders crash the server, start a stream twice, drop a session in use; does the registry implement `Sessions` | 1 stream, 2 data threads, sweeper, timeout 3, lag 1 | 1,272,499 |
| `schedule_streams` | does an abandoned stream lose its session, while another is kept alive | 2 streams, 1 thread, fair | 122,848 |
| `schedule_reply` | finding: the answer names another stream | 2 streams, 2 threads | violation |
| `muxer_window` | playlist, window, late readers, files, end of the process; does the process implement `LivePlaylist` | 2 segments of 2 ticks, 10 ticks, live and file inputs, fair, no faults | 130,078 |
| `muxer_faults` | what survives when anything fails | 3 segments of 1 tick, 8 ticks, all faults | 3,751,702 |
| `audio` | where is a buffer overrun, what stays in the FIFO, how do time stamps follow the input | frame of 3, segments of 5 and 16 samples of time; decoder frames of 1 to 4, 2 per packet, delay up to 1; 1 skipped frame | 4,410,867 |
| `queue` | list, frees, refinement of `Fifo`, every packet taken | 2 producers, 2 consumers, 4 packets, failing allocation | 6,281 |
| `status` | crash, reason to stop, stop when unwanted | 2 threads, 3 addresses, 2 retries, fair | 706,812 |
| `centre` | is a running stream served, who writes twice, do muxers stop | 2 workers, 1 stream, 3 muxers, fair | 258,522 |
| `centre_abandoned` | finding: a muxer nobody watches runs on, although its input does not block | 1 worker, 1 muxer, fair | violation |
| `player` | samples, packets, crashes | 2 opens, 2 packets per queue, 1 frame per packet | 286,026 |
| `rtsp` | what is pushed, and when it stops | 3 streams in any roles, up to 3 frames per packet | 2,312 |

What the properties say is in the comments above them; the main results:

- *Registry.* The server is brought down only by a race between an erase and a two-look-up handler, or
  between two requests of which one is inserting (`CrashOnlyIfRaced`). A null pointer in the map always has
  an owner that is about to store it or to crash on it, so the sweeper's null test never saves anything
  (`NullEntryHasOwner`). Without such a race, a 200 means a registered stream (`OpenReplyMeansSession`).
  Opens that overlap start at most one muxer per data thread (`DuplicateBound`). The one way a session in use is lost
  is a touch after the sweeper read its clock (`ErasedIdleOrRaced`): the unsigned subtraction then wraps.
- *Muxer.* A listed segment is on disk with its trailer whatever the cleaner does (`ListedOnDisk`), and so are
  those of the list before it, which a reader that is a little late still asks for (`LateReaderServed`): the
  cleaner keeps `MAX_SEGMENTS + 2` files for this. The list between packets is exactly the last `MAX_SEGMENTS`
  finished segments (`IndexIsWindow`). That is so for files too: their list is cut as well (`hls.cpp:638`), and
  still starts at number 0. A published duration never changes (`PublishedDurationFinal`), and the durations
  tile the time (`DurationsTile`), which also survives failures. Together, the process is a `LivePlaylist`
  (`ImplementsLivePlaylist`), which says the same of the steps: what may change, and when. The two crashes are an
  input that ends before its first packet and the cleaner's look at a cleared vector (`CrashOnlyAtTheEnds`).
- *Audio.* The resampler is told to write all it has, not what fits (`video_context.h:183`). It overruns the
  buffer only for decoder frames that, with the resampler's delay, are longer than an encoder frame, or once
  a packet gave two frames (`OverrunExplained`). One frame at most is taken per packet, so a failed call
  leaves a frame in the FIFO for good, and nothing else does (`FifoBounded`). The sound stays within a frame, the
  delay and what was skipped of the input (`AudioInSync`), and no new segment sets the time stamps back
  except by skipped frames (`PtsIncrease`).
- *Status.* The statics are safe until the status of the first segment overlaps a beat
  (`CrashOnlyIfOverlap`); the muxer stops only when told or after `HEARTBEAT_MAX_RETRY` failures in a row
  (`ExitJustified`), and does stop (`UnwantedStops`).
- *Together.* A stream that the server calls running has a writer unless a muxer of it ended
  (`RunningIsServed`), two writers come only from overlapping opens or a session that left in between
  (`TwoWritersExplained`), and a muxer with heartbeats is told to stop when nobody watches its stream, and stops
  unless its input blocks for ever (`HeartbeatMuxersStop`).
- *Queue, player, pusher.* The queue is a FIFO although the link is cut outside the lock; `audio_buf_size`
  alone keeps decoder and callback apart (`NoTearing`, `EachFrameHeardOnce`); a re-shown window is harmless
  until it is closed (`CrashExplained`). A first stream that is audio and not AAC loses its sound when the
  video is not H264 (`AudioLostExplained` says that this is the only case).

Several of these properties delimit a hazard and do not exclude it: the code does have the race, the failure or
the case, and the property says that it needs exactly that. `CrashOnlyIfRaced`, `ErasedIdleOrRaced`,
`DuplicateBound`, `CrashOnlyAtTheEnds`, `EveryPacketTaken`, `CrashOnlyIfOverlap`, `ExitJustified`, `RunningIsServed`,
`TwoWritersExplained`, `EachFrameHeardOnce`, `CrashExplained`, `OverrunExplained`, `AudioLostExplained` and, by its
two preconditions, `AudioInSync` are of this kind; they fail if the code gets another way to the same harm. The
notes under `hazards` in `PROJECT.json` say what each allows. `IndexIsWindow` records the cut of a file's list and
cannot object to it.

### Bounds

The bounds are constants of the cfg files or guards named in the modules.

- *Schedule.* Two data threads and the sweeper are all pairs of actors there are; a third thread repeats one
  of the two. One stream is enough where the property is about one entry; `schedule_streams` and
  `schedule_reply` have two because the list walk and the json object relate streams. Allocators are as
  many as can be referenced at once. `MaxLag` is how long a thread may sit on a clock value: with a timeout
  of 3 it separates touched, slow and expired sessions; ages saturate above `MaxIdle`, where nothing
  compares them any more. `ClockModulus` 64 stands for 2^64.
- *HlsMuxer.* `MAX_SEGMENTS` is 10 in the code and 2 or 3 here (with 3 `DurationsTile` sums more than one finished
  segment), and the last audio time lets the window and the
  cleaner's distance of `MAX_SEGMENTS + 2` be passed, so that files are really deleted.
- *MuxerAudio.* A frame of 3 and segments of 5 do not divide each other, so that every remainder is left over a
  segment's end; 16 samples are three segments. Decoder frames are shorter, equal and longer than the
  encoder's. An instance with frames of 4, two skips and 24 samples showed that the term `skipped` of
  `PtsIncrease` is needed.
- *MuxerStatus.* `HEARTBEAT_MAX_RETRY` is 2; three `Response` addresses suffice for a double delete.
- *MediaCentre.* Three muxers of a stream: two of overlapping opens and one by hand or of an earlier session.
- *PacketQueue, Player.* Four packets let the list run empty and fill again; mutex depth 3 covers two failed
  puts. Two opens are one overlap of old and new threads.
- *RtspPush.* Three streams put audio and video on every index, with one stream of neither kind.

`CHECK_DEADLOCK FALSE` stands where the program really ends or crashes; `centre` has it on.

### Fairness

Weak fairness is given to what the operating system or a library schedules: the muxer's main loop and
cleaner, the heartbeat with curl's timeout of 5 s, the sweeper, a handler once it runs, the clock, the
decoder threads, which poll, and the audio callback, which the device drives. Nothing is assumed of
the input, which has neither timeout nor interrupt callback (`video_context.h:76`): it may never open, and
`av_read_frame` may not return to a loop that looks at `exit` once per packet. `ExitStops` and
`HeartbeatMuxersStop` except such an input. Nor is anything assumed of pages and users, of whoever
restarts the server, or of the mutex after a failed put (`EveryPacketTaken` excepts a leaked lock).

## 4. Findings

1. `schedule_reply`: `HlsAllocator::toJson` (`schedule.h:34`) fills a function-local `static` json. Two opens
   of different streams answered at once can carry the same id, and the page sends its heartbeats for
   the wrong stream.
2. `centre_abandoned`: `-a` (stand-alone) defaults to true (`hls/main.cpp:15`), and the server's command never
   sets it, so the muxers it starts send no heartbeats and are never told to stop.

## 5. Proofs

TLAPS (tlapm 1.4.5) proves, for any number of threads, streams, segments, packets, samples and ticks, type
correctness of every module (theorems `TypeCorrect`) and every safety property that the runs check, the
refinements among them. `TypeOK` is checked by TLC for `Schedule` only; for the others it is a conjunct of the
proved invariant. Each proof has the same shape: an inductive invariant, its preservation with one step
per action, and the properties as its consequences.

- `ScheduleProofs`. `TypeInv` is `TypeOK` with `ControlOK`, which ties a thread's program counter to its
  operation, id and pointer; without it the type of `ptr` at an insertion is lost. `SafeInv` adds what the
  crashes need: a key found is still there unless the thread raced (`FoundUnlessRaced`), an open past its
  check has its entry (`OpenHoldsEntry`), and every null pointer, in the map or in a thread's hand, leads to
  an open that is storing or doomed (`NullPtrHasDoomed`, `NullHasDoomed`). Theorems `CrashNeedsRace`,
  `NullEntryDooms`, `OpenRegisters`.
  `AgedInv` adds what ages need: an open in `Schedule::add` is the only one that knows its allocator
  (`OwnPtr`), no two streams share one (`OneEntry`), the entry is there when it is assigned and as young as the
  clock value it was given (`StoreInv`), the sweeper visits a key once (`SweepInv`), and what it is about to
  condemn is idle or was touched since (`AgeInv`; `ExpiredMeans` is the fact about unsigned subtraction).
  `StepKinds` sorts the actions first, as most change no age. Theorems `RegistryIsSessions` (the refinement) and
  `ErasesIdleSessions`. `DuplicatesBounded` counts: without an entry every muxer started has its open inside
  `Schedule::add`, with one only the opens past `running()` can start another (`CountInv`).
- `HlsMuxerProofs`. `Inv` has the vector (`VectorInv`: ascending numbers ending at the current segment, with no
  gap while files open), the open file (`CtxInv`), the directory (`FilesInv`: only the current file lacks its
  trailer), the distance of the cleaner (`CleanerInv`) and the published list (`ListInv`). For any `Faults`:
  `OpenFileUnlisted`, `ExitFinishesFiles`.
  The other theorems need some operations not to fail, and say which (`NoFault`): `FInv` holds unless a
  segment file cannot be opened ("writer"), and its parts about the playlist (`Written`) unless the list cannot
  be either ("fopen"). `LateReadersServed` and `DurationsFinal` need the first, `ListedSegmentsExist` and
  `PlaylistIsWindow` both, `CrashesAtTheEnds` the first and an input that has its streams ("stream"). TLC shows
  that less is not enough: after a failed "writer" the vector gets a second entry of one number, and a
  published duration is not the last word; after a failed "fopen" the list names files that are gone.
  `SegmentsTile` (any `Faults`) sums a sequence of any length. The library's induction theorems take a predicate,
  so the lemma `Induction` states induction over a *set* of numbers, from the well-foundedness of finite sets
  under inclusion; with it the recursive function `Total` has its equations (`TotalIs`), and two vectors that
  agree up to `n` have one total there (`TotalAgrees`). `TileInv` says what the total is at each place in the loop.
  `PlaylistImplements` is the refinement, with one lemma per kind of step (`CutShows`, `NewSegmentShows`, ...);
  beyond `FInv` it needs that a cut has a positive length (`PublishInv`).
  `NothingForgotten` (unless a removal fails): the cleaner searches downwards and stops at the first missing
  file, so a gap would keep everything below it for ever. There is none, but for the one the cleaner makes
  while it deletes, and below that the files reach up to it (`TrailInv`). A failed removal does leave such a gap.
- `MuxerAudioProofs`. `OneFrame` (no second frame: the decoder is empty between packets), `OverrunInv`, `FifoInv`,
  `ClockInv` (clock and sound under way, apart from what the resampler keeps, follow the input) and `PtsInv`.
  Theorems `OverrunNeedsExcess`, `FifoStaysShort`, `AudioStaysInSync`, `StampsIncrease`.
- `MuxerStatusProofs`. While calls did not overlap (`Alone`) one thread is inside, its `Response` is the live one
  behind the static pointer, and `retry` counts the failures. Theorems `CrashNeedsOverlap`, `ExitHasReason`.
- `MediaCentreProofs`. `ServedInv` (a stream that is running, or about to be, had its muxer started), `OwnInv` (a
  muxer of this life of the session keeps others from being started) and `OverlapInv`. Theorems
  `RunningAlwaysServed`, `TwoWritersNeedOverlap`.
- `PacketQueueProofs`. The list is an interval of serial numbers with its links (`ListIsInterval`); `HeldInv` (a
  held item precedes the head, has one holder, is not freed, and is unlinked when it is used) is why the
  late cut in `take` is harmless; nothing hangs behind an item not yet put (`FreshInv`). Theorems
  `QueueIsInterval`, `NoUseAfterFreeEver`, `QueueImplementsFifo`. `MutexComesFree`: whoever has the mutex is about
  to give it back, except after a failed allocation (`LockInv`).
- `PlayerProofs`. The device is opened once, so only one play has decoders (`OneDecoder`), and a size that is not
  reset belongs to the frame the decoder waits for (`BufferInv`). Theorems `NeverTears`, `FramesHeardOnce`,
  `CrashNeedsCause`. `WaitsAreAnswered`: each wait of a decoder is for a thread that is there and can end it
  (`WaitInv`).
- `RtspPushProofs`. What the loop knows of its packet at each test (`PacketInv`), of the decoder, of a closed
  connection and of the header. Theorems `AudioLostOnlyIf`, `LeavesAfterClose`, `EndsWhatItAnnounced`.

The assumptions are those named in the modules (`ScheduleAssumption` and so on): positive sizes, distinct
model values, finitely many data threads, a clock modulus with room, and in `MuxerStatus` a heap with more
addresses than threads.

Only model-checked: the liveness properties (`AbandonedExpires`, `OldFilesRemoved`, `ExitStops`,
`EveryPacketTaken`, `UnwantedStops`, `HeartbeatMuxersStop`, `PacketsPlayed`), which with `ENABLED` are out of the
prover's reach. What three of them rest on, that nothing is left behind where the cleaner does not look and that
nobody waits for a thread that cannot answer, is safety and proved: `NothingForgotten`, `MutexComesFree`,
`WaitsAreAnswered`. These three are of no run; TLC agreed with them and their invariants on the instances of
`muxer_faults` (without a failing `remove`), `queue` and `player`.

## 6. Left out on purpose

Media data, timestamps other than audio cuts, formatting, logging, and the interior of library calls. Known
weaknesses of the code that the models see but no property is about: the cleaner's loop spins until the
stream has more than `MAX_SEGMENTS + 2` segments (`hls.cpp:39`), and may keep for ever a file that it once could not remove (`hls.cpp:49`), and those before it; the player's queues are unbounded
(`media-player.cpp:519`); a frame shorter than the device asks for is mixed with whatever stands behind it
(`:178`); a packet
refused by the decoder leaks (`:247`); a read error of the pusher's input is retried without a pause
(`rtsp_push.cpp:562`); its encoder is not flushed (`:667`); a one-byte `Range` is refused
(`media_controller.cpp:45`); `index.m3u8` is truncated by `fopen` and filled when it is closed, so that a reader
in between gets an empty list (`hls.cpp:159`, `Truncated` in `HlsMuxer`); the copy of packets that are in the
encoder's codec already is dead code (`hls.cpp:692`).

## 7. Order of work

Built in this order: `Schedule` with `Sessions`, `HlsMuxer`, `PacketQueue` with `Fifo`, the first two proof modules,
`MuxerStatus`, `MediaCentre`, `Player`, `RtspPush`, `MuxerAudio`, then the proofs of the rest, `LivePlaylist` with its
refinement, and the safety parts of the liveness properties. What could
follow: the range arithmetic of `MediaController` as operators against a reference; a third data thread in
`schedule_time`, for which the theorems stand in now; a joint module of `HlsMuxer` and `MuxerAudio`.
