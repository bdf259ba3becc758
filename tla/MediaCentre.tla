---------------------------- MODULE MediaCentre ----------------------------
(***************************************************************************)
(* The web server, the muxer processes it starts and the pages that watch, *)
(* together.  The registry is the one of module Sessions (which Schedule   *)
(* implements); a muxer is a process that the server starts with           *)
(* std::system and never waits for, so it outlives its session and the     *)
(* server.  MuxerStatus and HlsMuxer have the inside of a muxer.           *)
(*                                                                         *)
(* The server's command line leaves -a alone, so its muxers run stand      *)
(* alone, without heartbeats.  A muxer can also be started by hand, with   *)
(* -a 0 or -a 1.                                                           *)
(***************************************************************************)
EXTENDS Naturals

CONSTANTS
  Workers,     \* data threads of the server
  StreamIds,
  Procs,       \* process ids of muxers
  MaxRetry,    \* HEARTBEAT_MAX_RETRY
  Timeout, MaxLag, NULL, Absent      \* see Sessions

ASSUME MediaCentreAssumption ==
  /\ MaxRetry \in Nat \ {0}
  /\ Timeout \in Nat /\ MaxLag \in Nat
  /\ NULL # Absent /\ {NULL, Absent} \cap (Nat \cup StreamIds) = {}

VARIABLES
  sessions,  \* the registry
  up,        \* the server runs
  opening,   \* the open each worker is in
  muxer,     \* the muxer processes
  watched,   \* streams some page is open on
  ended,     \* history: streams of which a muxer ended or did not start
  overlap    \* history: streams with two opens at the same time

vars == <<sessions, up, opening, muxer, watched, ended, overlap>>

S == INSTANCE Sessions

NoOpen == [stage |-> "none", id |-> NULL]
NoMuxer == [run |-> "off", id |-> NULL, standalone |-> TRUE, misses |-> 0,
            byServer |-> FALSE, owned |-> FALSE]

(* A muxer opens its input (run "open"), muxes ("on"), and was told to stop *)
(* ("exit").  owned: its session has not left since the server started it.  *)
NewMuxer(k, standalone, byServer) ==
  [run |-> "open", id |-> k, standalone |-> standalone, misses |-> 0,
   byServer |-> byServer, owned |-> byServer]

Init ==
  /\ S!Init
  /\ up = TRUE
  /\ opening = [w \in Workers |-> NoOpen]
  /\ muxer = [p \in Procs |-> NoMuxer]
  /\ watched = {}
  /\ ended = {}
  /\ overlap = {}

Opens(k) == {w \in Workers : opening[w].id = k}

Stage(w, stage, k) == opening' = [opening EXCEPT ![w] = [stage |-> stage, id |-> k]]

(* What a session that leaves does to the history variables *)
Disown(ks) ==
  muxer' = [p \in Procs |-> [muxer[p] EXCEPT !.owned = @ /\ muxer[p].id \notin ks]]

-----------------------------------------------------------------------------
(* HlsController::open and heartbeat *)

(* mutant: the session is not looked for *)
OpenBlind(w, k) ==
  /\ up /\ k \in watched
  /\ opening[w] = NoOpen
  /\ Stage(w, "system", k)
  /\ overlap' = IF Opens(k) = {} THEN overlap ELSE overlap \cup {k}
  /\ UNCHANGED <<sessions, up, muxer, watched, ended>>

OpenCheck(w, k) ==
  /\ up /\ k \in watched
  /\ opening[w] = NoOpen
  /\ sessions[k] = Absent
  /\ Stage(w, "system", k)
  /\ overlap' = IF Opens(k) = {} THEN overlap ELSE overlap \cup {k}
  /\ UNCHANGED <<sessions, up, muxer, watched, ended>>

(* With & at its end the command always succeeds, started or not *)
OpenSystem(w) ==
  /\ opening[w].stage = "system"
  /\ Stage(w, "add", opening[w].id)
  /\ \/ \E p \in Procs :
          /\ muxer[p] = NoMuxer
          /\ muxer' = [muxer EXCEPT ![p] = NewMuxer(opening[w].id, TRUE, TRUE)]
          /\ UNCHANGED ended
     \/ /\ ended' = ended \cup {opening[w].id}
        /\ UNCHANGED muxer
  /\ UNCHANGED <<sessions, up, watched, overlap>>

(* mutant: the session is added before the muxer is started *)
OpenAddEarly(w) ==
  /\ opening[w].stage \in {"system", "add"}
  /\ IF sessions[opening[w].id] = Absent
     THEN S!Insert(opening[w].id) /\ Stage(w, "store", opening[w].id)
     ELSE S!Touch(opening[w].id) /\ opening' = [opening EXCEPT ![w] = NoOpen]
  /\ UNCHANGED <<up, muxer, watched, ended, overlap>>

OpenAdd(w) ==
  /\ opening[w].stage = "add"
  /\ IF sessions[opening[w].id] = Absent
     THEN S!Insert(opening[w].id) /\ Stage(w, "store", opening[w].id)
     ELSE S!Touch(opening[w].id) /\ opening' = [opening EXCEPT ![w] = NoOpen]
  /\ UNCHANGED <<up, muxer, watched, ended, overlap>>

(* The allocator is stored, or lost if the sweeper was quicker *)
OpenStore(w) ==
  /\ opening[w].stage = "store"
  /\ S!Touch(opening[w].id) \/ (sessions[opening[w].id] = Absent /\ UNCHANGED sessions)
  /\ opening' = [opening EXCEPT ![w] = NoOpen]
  /\ UNCHANGED <<up, muxer, watched, ended, overlap>>

(* An open of a running stream, or a heartbeat of the page *)
Use(k) ==
  /\ up /\ k \in watched
  /\ sessions[k] \notin {NULL, Absent}
  /\ S!Touch(k)
  /\ UNCHANGED <<up, opening, muxer, watched, ended, overlap>>

-----------------------------------------------------------------------------
(* The sweeper and the clock *)

Tick ==
  /\ S!Tick
  /\ UNCHANGED <<up, opening, muxer, watched, ended, overlap>>

Sweep(k) ==
  /\ up
  /\ S!Erase(k)
  /\ Disown({k})
  /\ ended' = IF Opens(k) = {} THEN ended \ {k} ELSE ended
  /\ overlap' = IF \A v, w \in Opens(k) : v = w THEN overlap \ {k} ELSE overlap
  /\ UNCHANGED <<up, opening, watched>>

(* The sessions are in memory only; the muxers are not children to wait for *)
ServerCrash ==
  /\ up
  /\ up' = FALSE
  /\ sessions' = [k \in StreamIds |-> Absent]
  /\ opening' = [w \in Workers |-> NoOpen]
  /\ Disown(StreamIds)
  /\ ended' = {} /\ overlap' = {}
  /\ UNCHANGED watched

ServerStart ==
  /\ ~up
  /\ up' = TRUE
  /\ UNCHANGED <<sessions, opening, muxer, watched, ended, overlap>>

-----------------------------------------------------------------------------
(* The muxers *)

StartByHand(p, k) ==
  /\ muxer[p] = NoMuxer
  /\ \E standalone \in BOOLEAN :
       muxer' = [muxer EXCEPT ![p] = NewMuxer(k, standalone, FALSE)]
  /\ UNCHANGED <<sessions, up, opening, watched, ended, overlap>>

(* Its heartbeats start when its input is open *)
MuxerOpens(p) ==
  /\ muxer[p].run = "open"
  /\ muxer' = [muxer EXCEPT ![p] = [@ EXCEPT !.run = "on"]]
  /\ UNCHANGED <<sessions, up, opening, watched, ended, overlap>>

Beats(p) == muxer[p].run = "on" /\ ~muxer[p].standalone

(* the answers of muxerStatus: a session that is used just now can be       *)
(* called expired, see Schedule!Expired                                     *)
SaysExpired(k) == sessions[k] = Absent \/ S!TooOld(k) \/ S!JustUsed(k)
SaysAlive(k)   == sessions[k] \notin {NULL, Absent} /\ ~S!TooOld(k)

(* A muxer after a beat *)
Beaten(p, run, misses) ==
  /\ muxer' = [muxer EXCEPT ![p] = [@ EXCEPT !.run = run, !.misses = misses]]
  /\ UNCHANGED <<sessions, up, opening, watched, ended, overlap>>

(* mutant: the answer is not looked at *)
BeatAnsweredDeaf(p) ==
  /\ up /\ Beats(p)
  /\ SaysExpired(muxer[p].id) \/ SaysAlive(muxer[p].id)
  /\ Beaten(p, "on", 0)

BeatAnswered(p) ==
  /\ up /\ Beats(p)
  /\ \/ SaysExpired(muxer[p].id) /\ Beaten(p, "exit", 0)
     \/ SaysAlive(muxer[p].id) /\ Beaten(p, "on", 0)

(* The server is down, or the request is lost or times out *)
BeatFails(p) ==
  /\ Beats(p)
  /\ Beaten(p, IF muxer[p].misses + 1 >= MaxRetry THEN "exit" ELSE "on", muxer[p].misses + 1)

(* The process ends: it was told to, or by itself (end of the input, crash) *)
MuxerGone(p) ==
  /\ muxer' = [muxer EXCEPT ![p] = NoMuxer]
  /\ ended' = ended \cup {muxer[p].id}
  /\ UNCHANGED <<sessions, up, opening, watched, overlap>>

MuxerExits(p) == muxer[p].run = "exit" /\ MuxerGone(p)
MuxerEnds(p)  == muxer[p].run \in {"open", "on"} /\ MuxerGone(p)

-----------------------------------------------------------------------------

Browse(k) ==
  /\ watched' \in {watched \cup {k}, watched \ {k}} \ {watched}
  /\ UNCHANGED <<sessions, up, opening, muxer, ended, overlap>>

Worker(w) == OpenSystem(w) \/ OpenAdd(w) \/ OpenStore(w)
Beat(p) == BeatAnswered(p) \/ BeatFails(p)

Next ==
  \/ \E w \in Workers : Worker(w) \/ \E k \in StreamIds : OpenCheck(w, k)
  \/ \E k \in StreamIds : Use(k) \/ Sweep(k) \/ Browse(k)
  \/ \E p \in Procs : MuxerOpens(p) \/ Beat(p) \/ MuxerExits(p) \/ MuxerEnds(p)
                      \/ \E k \in StreamIds : StartByHand(p, k)
  \/ Tick \/ ServerCrash \/ ServerStart

Spec == Init /\ [][Next]_vars

(* Time passes, the sweeper scans, an open goes on, and a muxer beats every *)
(* 10 s.  Nothing is assumed of pages, of who starts the server again, or   *)
(* of the input: it may never open, and no packet may come after exit.      *)
FairSpec ==
  /\ Spec
  /\ WF_vars(Tick)
  /\ \A k \in StreamIds : WF_vars((sessions[k] = NULL \/ S!TooOld(k)) /\ Sweep(k))
  /\ \A w \in Workers : WF_vars(Worker(w))
  /\ \A p \in Procs : WF_vars(Beat(p))

-----------------------------------------------------------------------------
(* Properties *)

(* Every variable of the server, the muxers and the pages has its type. *)
TypeOK ==
  /\ sessions \in [StreamIds -> 0..S!MaxAge \cup {NULL, Absent}]
  /\ up \in BOOLEAN
  /\ opening \in [Workers -> [stage: {"none", "system", "add", "store"},
                              id: StreamIds \cup {NULL}]]
  /\ muxer \in [Procs -> [run: {"off", "open", "on", "exit"}, id: StreamIds \cup {NULL},
                          standalone: BOOLEAN, misses: 0..MaxRetry,
                          byServer: BOOLEAN, owned: BOOLEAN]]
  /\ watched \subseteq StreamIds /\ ended \subseteq StreamIds /\ overlap \subseteq StreamIds

(* From its start: it empties the directory before it opens its input *)
Writes(p, k) == muxer[p].run # "off" /\ muxer[p].id = k

(* A stream that list and open call running has a muxer that writes it,     *)
(* unless one of its muxers ended or did not start: the registry never      *)
(* learns of that (last_living_time is never read).                         *)
RunningIsServed ==
  \A k \in StreamIds :
    sessions[k] # Absent => (\E p \in Procs : Writes(p, k)) \/ k \in ended

(* The server starts a second writer for a stream's directory only when two *)
(* opens overlap, or when the stream's session left in between, by a time   *)
(* out or with the server.                                                  *)
TwoWritersExplained ==
  \A k \in StreamIds : \A p, q \in Procs :
    p # q /\ Writes(p, k) /\ Writes(q, k) /\ muxer[p].owned /\ muxer[q].owned
      => k \in overlap

(* The input keeps the main thread: it does not open, or av_read_frame does *)
(* not return to look at exit (no timeout or interrupt callback is set)     *)
InputBlocks(p) == muxer[p].run \in {"open", "exit"}

(* A muxer with heartbeats does not mux for ever a stream nobody watches,   *)
(* whether the server runs or not: it is told to stop, and stops unless its *)
(* input blocks for ever.                                                   *)
HeartbeatMuxersStop ==
  \A k \in StreamIds, p \in Procs :
    <>[](k \notin watched) =>
      []<>(Writes(p, k) => muxer[p].standalone) \/ <>[]InputBlocks(p)

(* What the status url on its command line and the heartbeat thread of      *)
(* hls.h:94 are for: a muxer the server started for a stream ends when      *)
(* nobody watches the stream any more, unless its input blocks for ever.    *)
AbandonedMuxerStops ==
  \A k \in StreamIds, p \in Procs :
    <>[](k \notin watched) =>
      []<>~(Writes(p, k) /\ muxer[p].byServer) \/ <>[]InputBlocks(p)
=============================================================================
