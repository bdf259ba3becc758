------------------------------ MODULE Schedule ------------------------------
(***************************************************************************)
(* The session registry of the web server (web/schedule.cpp) together with *)
(* the HTTP handlers that use it (web/hls/HlsController.cpp).              *)
(*                                                                         *)
(* The registry is a std::map from stream id to HlsAllocator*.  The        *)
(* handlers run on several data threads of the HTTP executor, the sweeper  *)
(* check_session on a thread of its own, and nothing locks the map         *)
(* (Schedule::mutex guards start() only).  So every handler is split at    *)
(* the places where another thread can come between two of its accesses.   *)
(* One step is one operation on the map, or one access to an allocator,    *)
(* with the clock read that stands next to it.  What two threads inside    *)
(* one std::map operation do to its tree is left out.                      *)
(*                                                                         *)
(* Time.  last_access_time is kept as its age, idle[a], and a clock value  *)
(* held in a local variable as its age too (worker[w].lag, sweep.age[k]).  *)
(* Tick ages them all.  A held clock value gets at most MaxLag old.        *)
(***************************************************************************)
EXTENDS Naturals, FiniteSets

CONSTANTS
  Workers,       \* data threads of the HTTP executor
  StreamIds,     \* md5 of the source url: the keys of the map
  Allocators,    \* addresses that new HlsAllocator can return
  Timeout,       \* Schedule::timeout, in ticks
  MaxLag,        \* oldest a held clock value may get, in ticks
  ClockModulus,  \* 2^64 in the code: the clock is a uint64_t
  NULL,          \* nullptr
  Absent         \* the key is not in the map

MaxIdle == Timeout + MaxLag + 1     \* older than this makes no difference

ASSUME ScheduleAssumption ==
  /\ Timeout \in Nat /\ MaxLag \in Nat
  /\ ClockModulus \in Nat /\ ClockModulus > MaxIdle + Timeout
  /\ NULL # Absent
  /\ {NULL, Absent} \cap (Allocators \cup StreamIds) = {}
  /\ NULL \notin Nat /\ Absent \notin Nat
  /\ IsFiniteSet(Workers)

VARIABLES
  hlsProcessors, \* Schedule::hlsProcessors; Absent where find() == end()
  idle,          \* age of HlsAllocator::last_access_time
  worker,        \* the handler each data thread is running
  sweep,         \* the thread check_session
  jsonData,      \* the static local of HlsAllocator::toJson
  spawned,       \* history: muxers started since the id last left the map
  crashed        \* the server dereferenced a null or dangling pointer

vars == <<hlsProcessors, idle, worker, sweep, jsonData, spawned, crashed>>

Entries == Allocators \cup {NULL, Absent}

HandlerPCs == {"running", "open_get", "system", "add_find", "add_insert",
               "add_store", "add_lost", "touch_find", "touch_write", "json_fill", "json_copy",
               "living_find", "living_write", "pid_write",
               "exp_find", "exp_get",
               "list_next", "list_copy", "list_dangling"}

(* pcs at which the handler holds a clock value that is not yet visible *)
ClockHeld == {"add_insert", "add_store", "touch_write"}

IdleWorker == [pc |-> "idle", op |-> "none", id |-> NULL, ptr |-> NULL,
               lag |-> 0, todo |-> {}, raced |-> FALSE]

(* Schedule::find: is the key in the map (the entry may be a null pointer) *)
Found(k) == hlsProcessors[k] # Absent

(* mutant: >= for > *)
ExpiredEarly(i, l) == ((ClockModulus + i - l) % ClockModulus) >= Timeout

(* HlsAllocator::expired on a session of age i with a clock value of age l. *)
(* The subtraction is unsigned: a session touched after the clock was read  *)
(* (i < l) wraps around and counts as expired.                              *)
Expired(i, l) == ((ClockModulus + i - l) % ClockModulus) > Timeout

(* an open has inserted the key and not yet stored its allocator *)
Storing(k) == \E w \in Workers : worker[w].pc = "add_store" /\ worker[w].id = k

Referenced(a) ==
  \/ \E k \in StreamIds : hlsProcessors[k] = a
  \/ \E w \in Workers : worker[w].ptr = a
  \/ sweep.ptr = a

Init ==
  /\ hlsProcessors = [k \in StreamIds |-> Absent]
  /\ idle = [a \in Allocators |-> 0]
  /\ worker = [w \in Workers |-> IdleWorker]
  /\ sweep = [pc |-> "sleep", todo |-> {}, at |-> NULL, ptr |-> NULL,
              expiredKeys |-> {}, age |-> [k \in StreamIds |-> 0]]
  /\ jsonData = NULL
  /\ spawned = [k \in StreamIds |-> 0]
  /\ crashed = FALSE

-----------------------------------------------------------------------------
(* Control of a handler *)

At(w, pc) == ~crashed /\ worker[w].pc = pc

Goto(w, pc) == worker' = [worker EXCEPT ![w].pc = pc]

(* The handler returns its response; the thread is free for the next one *)
Return(w) == worker' = [worker EXCEPT ![w] = IdleWorker]

(* ... also with another allocator pointer or clock value *)
Move(w, pc, ptr, lag) ==
  worker' = [worker EXCEPT ![w] =
    [pc |-> pc, op |-> @.op, id |-> @.id, ptr |-> ptr,
     lag |-> lag, todo |-> @.todo, raced |-> @.raced]]

Crash == crashed' = TRUE

NoCrash == crashed' = crashed

RegistryUnchanged == UNCHANGED <<hlsProcessors, idle, jsonData, spawned>>

(* A request reaches an idle data thread.  Requests a handler rejects with  *)
(* 400 before it touches the registry (no url, empty id, pid 0) change      *)
(* nothing and are left out.                                                *)
Accept(w, op, pc, k, todo) ==
  /\ At(w, "idle")
  /\ worker' = [worker EXCEPT ![w] =
                   [pc |-> pc, op |-> op, id |-> k, ptr |-> NULL,
                    lag |-> 0, todo |-> todo, raced |-> FALSE]]
  /\ RegistryUnchanged /\ NoCrash /\ UNCHANGED sweep

OpenRequest(w)      == \E k \in StreamIds : Accept(w, "open", "running", k, {})
HeartbeatRequest(w) == \E k \in StreamIds : Accept(w, "heartbeat", "touch_find", k, {})
StatusRequest(w)    == \E k \in StreamIds : Accept(w, "status", "living_find", k, {})

-----------------------------------------------------------------------------
(* HlsController::open *)

(* mutant: running() is not asked *)
OpenAlways(w) ==
  /\ At(w, "running")
  /\ Goto(w, "system")
  /\ RegistryUnchanged /\ NoCrash /\ UNCHANGED sweep

OpenRunning(w) ==
  /\ At(w, "running")
  /\ Goto(w, IF Found(worker[w].id) THEN "open_get" ELSE "system")
  /\ RegistryUnchanged /\ NoCrash /\ UNCHANGED sweep

(* auto allocator = hlsProcessors[streamId]: operator[] inserts a null      *)
(* pointer when the sweeper has erased the key since running(), and finds   *)
(* one when another open is between its operator[] and its assignment       *)
OpenGet(w) ==
  /\ At(w, "open_get")
  /\ LET k == worker[w].id
         p == IF Found(k) THEN hlsProcessors[k] ELSE NULL
     IN  /\ hlsProcessors' = [hlsProcessors EXCEPT ![k] = p]
         /\ worker' = [worker EXCEPT ![w] =
                          [pc |-> "touch_find", op |-> @.op, id |-> k, ptr |-> p,
                           lag |-> @.lag, todo |-> @.todo,
                           raced |-> @.raced \/ Storing(k)]]
  /\ NoCrash /\ UNCHANGED <<idle, jsonData, spawned, sweep>>

(* std::system starts the muxer; a non-zero result is answered with 500 *)
OpenSystemFails(w) ==
  /\ At(w, "system")
  /\ Return(w)
  /\ RegistryUnchanged /\ NoCrash /\ UNCHANGED sweep

(* the muxer is started and new HlsAllocator returns an unused address *)
OpenSystem(w) ==
  /\ At(w, "system")
  /\ \E a \in Allocators :
       /\ ~Referenced(a)
       /\ idle' = [idle EXCEPT ![a] = 0]
       /\ Move(w, "add_find", a, worker[w].lag)
  /\ spawned' = [spawned EXCEPT ![worker[w].id] = @ + 1]
  /\ NoCrash /\ UNCHANGED <<hlsProcessors, jsonData, sweep>>

(* mutant: the test of find() is the wrong way round *)
AddFindInverted(w) ==
  /\ At(w, "add_find")
  /\ Goto(w, IF Found(worker[w].id) THEN "add_insert" ELSE "touch_find")
  /\ RegistryUnchanged /\ NoCrash /\ UNCHANGED sweep

(* Schedule::add: an existing entry is only touched, the new one leaks *)
AddFind(w) ==
  /\ At(w, "add_find")
  /\ Goto(w, IF Found(worker[w].id) THEN "touch_find" ELSE "add_insert")
  /\ RegistryUnchanged /\ NoCrash /\ UNCHANGED sweep

(* hlsProcessors[allocator->id] = allocator: operator[] inserts the key     *)
(* with a null pointer ...                                                  *)
AddInsert(w) ==
  /\ At(w, "add_insert")
  /\ LET k == worker[w].id
     IN  hlsProcessors' = [hlsProcessors EXCEPT ![k] = IF Found(k) THEN @ ELSE NULL]
  /\ idle' = [idle EXCEPT ![worker[w].ptr] = worker[w].lag]
  /\ Goto(w, "add_store")
  /\ NoCrash /\ UNCHANGED <<jsonData, spawned, sweep>>

(* ... and the assignment stores the allocator in the entry *)
AddStore(w) ==
  /\ At(w, "add_store")
  /\ hlsProcessors' = [hlsProcessors EXCEPT ![worker[w].id] = worker[w].ptr]
  /\ Move(w, "json_fill", worker[w].ptr, 0)
  /\ NoCrash /\ UNCHANGED <<idle, jsonData, spawned, sweep>>

(* the sweeper took the null entry in between: the store goes to freed      *)
(* memory, where it is lost or does damage                                  *)
AddLost(w) ==
  /\ At(w, "add_lost")
  /\ \/ Move(w, "json_fill", worker[w].ptr, 0) /\ NoCrash
     \/ Crash /\ UNCHANGED worker
  /\ RegistryUnchanged /\ UNCHANGED sweep

(* mutant: the address is written for the id *)
JsonFillAddress(w) ==
  /\ At(w, "json_fill")
  /\ jsonData' = worker[w].ptr
  /\ Goto(w, "json_copy")
  /\ NoCrash /\ UNCHANGED <<hlsProcessors, idle, spawned, sweep>>

(* allocator->toJson() fills the one static object ... *)
JsonFill(w) ==
  /\ At(w, "json_fill")
  /\ IF worker[w].ptr = NULL
     THEN Crash /\ UNCHANGED <<worker, jsonData>>
     ELSE /\ jsonData' = worker[w].id
          /\ Goto(w, "json_copy")
          /\ NoCrash
  /\ UNCHANGED <<hlsProcessors, idle, spawned, sweep>>

(* ... and returns a copy of it, which is the body of the response *)
JsonCopy(w) ==
  /\ At(w, "json_copy")
  /\ Return(w)
  /\ RegistryUnchanged /\ NoCrash /\ UNCHANGED sweep

-----------------------------------------------------------------------------
(* Schedule::updateLastAccessTime, called by heartbeat, open and add *)

AfterTouch(w) == IF worker[w].op = "open" THEN Goto(w, "json_fill") ELSE Return(w)

(* mutant: no find() *)
TouchUnchecked(w) ==
  /\ At(w, "touch_find")
  /\ Goto(w, "touch_write")
  /\ RegistryUnchanged /\ NoCrash /\ UNCHANGED sweep

TouchFind(w) ==
  /\ At(w, "touch_find")
  /\ IF Found(worker[w].id) THEN Goto(w, "touch_write") ELSE AfterTouch(w)
  /\ RegistryUnchanged /\ NoCrash /\ UNCHANGED sweep

(* mutant: a null test on hlsProcessors[id], which still inserts the key *)
TouchWriteTested(w) ==
  /\ At(w, "touch_write")
  /\ LET k == worker[w].id
     IN  hlsProcessors' = [hlsProcessors EXCEPT ![k] = IF Found(k) THEN @ ELSE NULL]
  /\ Return(w)
  /\ NoCrash /\ UNCHANGED <<idle, jsonData, spawned, sweep>>

(* hlsProcessors[id]->last_access_time = now *)
TouchWrite(w) ==
  /\ At(w, "touch_write")
  /\ LET p == hlsProcessors[worker[w].id]
     IN  IF p \in {NULL, Absent}
         THEN Crash /\ UNCHANGED <<worker, idle>>
         ELSE /\ idle' = [idle EXCEPT ![p] = worker[w].lag]
              /\ IF worker[w].op = "open"
                 THEN Move(w, "json_fill", worker[w].ptr, 0)
                 ELSE Return(w)
              /\ NoCrash
  /\ UNCHANGED <<hlsProcessors, jsonData, spawned, sweep>>

-----------------------------------------------------------------------------
(* HlsController::muxerStatus: updateProcessStatus, then has_expired.       *)
(* last_living_time and pid are written and never read by the server, so    *)
(* only the pointers they are written through are modelled.                 *)

LivingFind(w) ==
  /\ At(w, "living_find")
  /\ Goto(w, IF Found(worker[w].id) THEN "living_write" ELSE "exp_find")
  /\ RegistryUnchanged /\ NoCrash /\ UNCHANGED sweep

(* one write through hlsProcessors[id]-> ; pc is where the next one is *)
WriteThrough(w, here, pc) ==
  /\ At(w, here)
  /\ IF hlsProcessors[worker[w].id] \in {NULL, Absent}
     THEN Crash /\ UNCHANGED worker
     ELSE Goto(w, pc) /\ NoCrash
  /\ RegistryUnchanged /\ UNCHANGED sweep

LivingWrite(w) == WriteThrough(w, "living_write", "pid_write")
PidWrite(w)    == WriteThrough(w, "pid_write", "exp_find")

ExpFind(w) ==
  /\ At(w, "exp_find")
  /\ IF Found(worker[w].id) THEN Goto(w, "exp_get") ELSE Return(w)
  /\ RegistryUnchanged /\ NoCrash /\ UNCHANGED sweep

(* proc->expired(timeout): the verdict goes into the response and changes   *)
(* nothing here; MediaCentre follows it to the muxer                        *)
ExpGet(w) ==
  /\ At(w, "exp_get")
  /\ IF hlsProcessors[worker[w].id] \in {NULL, Absent}
     THEN Crash /\ UNCHANGED worker
     ELSE Return(w) /\ NoCrash
  /\ RegistryUnchanged /\ UNCHANGED sweep

-----------------------------------------------------------------------------
(* HlsController::list, a loop over the map.  id is the node the iterator   *)
(* is on, todo the keys it has not come to.                                 *)

ListRequest(w) == Accept(w, "list", "list_next", NULL, StreamIds)

ListNext(w) ==
  /\ At(w, "list_next")
  /\ \E k \in worker[w].todo :
       /\ Found(k)
       /\ worker' = [worker EXCEPT ![w] =
                        [pc |-> "list_copy", op |-> @.op, id |-> k, ptr |-> @.ptr,
                         lag |-> @.lag, todo |-> @.todo \ {k}, raced |-> FALSE]]
       /\ IF hlsProcessors[k] = NULL
          THEN Crash /\ UNCHANGED jsonData
          ELSE jsonData' = k /\ NoCrash
  /\ UNCHANGED <<hlsProcessors, idle, spawned, sweep>>

ListCopy(w) ==
  /\ At(w, "list_copy")
  /\ Goto(w, "list_next")
  /\ RegistryUnchanged /\ NoCrash /\ UNCHANGED sweep

ListEnd(w) ==
  /\ At(w, "list_next")
  /\ \A k \in worker[w].todo : ~Found(k)
  /\ Return(w)
  /\ RegistryUnchanged /\ NoCrash /\ UNCHANGED sweep

(* the node under the iterator was erased and freed: ++ reads freed memory. *)
(* It may still hold the old links, may look like the end, or may fault.    *)
ListDangling(w) ==
  /\ At(w, "list_dangling")
  /\ \/ Goto(w, "list_next") /\ NoCrash
     \/ Return(w) /\ NoCrash
     \/ Crash /\ UNCHANGED worker
  /\ RegistryUnchanged /\ UNCHANGED sweep

-----------------------------------------------------------------------------
(* check_session: scan the map, then erase what looked expired *)

Sweep(pc, todo, at, ptr, keys, age) ==
  sweep' = [pc |-> pc, todo |-> todo, at |-> at, ptr |-> ptr,
            expiredKeys |-> keys, age |-> age]

SweepBegin ==
  /\ ~crashed /\ sweep.pc = "sleep"
  /\ Sweep("scan", StreamIds, NULL, NULL, {}, sweep.age)
  /\ RegistryUnchanged /\ NoCrash /\ UNCHANGED worker

(* item.second is null, or expired() is entered and reads the clock *)
SweepVisit ==
  /\ ~crashed /\ sweep.pc = "scan"
  /\ \E k \in sweep.todo :
       LET p    == hlsProcessors[k]
           left == sweep.todo \ {k}
       IN  \/ /\ p = Absent
              /\ Sweep("scan", left, NULL, NULL, sweep.expiredKeys, sweep.age)
           \/ /\ p = NULL
              /\ Sweep("scan", left, NULL, NULL, sweep.expiredKeys \cup {k}, sweep.age)
           \/ /\ p \notin {NULL, Absent}
              /\ Sweep("read", left, k, p, sweep.expiredKeys, sweep.age)
  /\ RegistryUnchanged /\ NoCrash /\ UNCHANGED worker

(* mutant: no session is ever noted as expired *)
SweepReadBlind ==
  /\ ~crashed /\ sweep.pc = "read"
  /\ Sweep("scan", sweep.todo, NULL, NULL, sweep.expiredKeys,
           [sweep.age EXCEPT ![sweep.at] = 0])
  /\ RegistryUnchanged /\ NoCrash /\ UNCHANGED worker

SweepRead ==
  /\ ~crashed /\ sweep.pc = "read"
  /\ LET k == sweep.at
     IN  IF Expired(idle[sweep.ptr], sweep.age[k])
         THEN Sweep("scan", sweep.todo, NULL, NULL, sweep.expiredKeys \cup {k}, sweep.age)
         ELSE Sweep("scan", sweep.todo, NULL, NULL, sweep.expiredKeys,
                    [sweep.age EXCEPT ![k] = 0])
  /\ RegistryUnchanged /\ NoCrash /\ UNCHANGED worker

SweepErasePhase ==
  /\ ~crashed /\ sweep.pc = "scan" /\ sweep.todo = {}
  /\ Sweep("erase", {}, NULL, NULL, sweep.expiredKeys, sweep.age)
  /\ RegistryUnchanged /\ NoCrash /\ UNCHANGED worker

(* what the erase of key k does to the handler running on thread w *)
AfterErase(w, k) ==
  IF worker[w].id # k THEN worker[w]
  ELSE LET r == worker[w]
       IN  [pc |-> CASE r.pc \in {"list_next", "list_copy"} -> "list_dangling"
                     [] r.pc = "add_store" -> "add_lost"
                     [] OTHER -> r.pc,
            op |-> r.op, id |-> r.id, ptr |-> r.ptr,
            lag |-> r.lag, todo |-> r.todo, raced |-> TRUE]

SweepErase ==
  /\ ~crashed /\ sweep.pc = "erase"
  /\ \E k \in sweep.expiredKeys :
       /\ hlsProcessors' = [hlsProcessors EXCEPT ![k] = Absent]
       /\ spawned' = [spawned EXCEPT ![k] = 0]
       /\ worker' = [w \in Workers |-> AfterErase(w, k)]
       /\ Sweep("erase", sweep.todo, NULL, NULL, sweep.expiredKeys \ {k},
                [sweep.age EXCEPT ![k] = 0])
  /\ NoCrash /\ UNCHANGED <<idle, jsonData>>

SweepSleep ==
  /\ ~crashed /\ sweep.pc = "erase" /\ sweep.expiredKeys = {}
  /\ Sweep("sleep", {}, NULL, NULL, {}, sweep.age)
  /\ RegistryUnchanged /\ NoCrash /\ UNCHANGED worker

-----------------------------------------------------------------------------
(* Time.  A thread does not hold a clock value for more than MaxLag.        *)

Older(n) == IF n < MaxIdle THEN n + 1 ELSE n

(* keys whose clock value the sweeper has read and not yet acted on *)
SweepHeld == IF sweep.at = NULL THEN sweep.expiredKeys
             ELSE sweep.expiredKeys \cup {sweep.at}

Tick ==
  /\ ~crashed
  /\ \A w \in Workers : worker[w].pc \in ClockHeld => worker[w].lag < MaxLag
  /\ \A k \in SweepHeld : sweep.age[k] < MaxLag
  /\ idle' = [a \in Allocators |-> IF Referenced(a) THEN Older(idle[a]) ELSE 0]
  /\ worker' = [w \in Workers |-> [worker[w] EXCEPT
                   !.lag = IF worker[w].pc \in ClockHeld THEN @ + 1 ELSE @]]
  /\ sweep' = [sweep EXCEPT !.age = [k \in StreamIds |->
                  IF k \in SweepHeld THEN sweep.age[k] + 1 ELSE sweep.age[k]]]
  /\ NoCrash /\ UNCHANGED <<hlsProcessors, jsonData, spawned>>

-----------------------------------------------------------------------------

Open(w) ==
  \/ OpenRunning(w) \/ OpenGet(w) \/ OpenSystemFails(w) \/ OpenSystem(w)
  \/ AddFind(w) \/ AddInsert(w) \/ AddStore(w) \/ AddLost(w)
  \/ JsonFill(w) \/ JsonCopy(w)

UpdateLastAccessTime(w) == TouchFind(w) \/ TouchWrite(w)

MuxerStatus(w) ==
  \/ LivingFind(w) \/ LivingWrite(w) \/ PidWrite(w) \/ ExpFind(w) \/ ExpGet(w)

List(w) == ListNext(w) \/ ListCopy(w) \/ ListEnd(w) \/ ListDangling(w)

Request(w) ==
  \/ OpenRequest(w) \/ HeartbeatRequest(w) \/ StatusRequest(w) \/ ListRequest(w)

Handler(w) == Open(w) \/ UpdateLastAccessTime(w) \/ MuxerStatus(w) \/ List(w)

CheckSession ==
  \/ SweepBegin \/ SweepVisit \/ SweepRead
  \/ SweepErasePhase \/ SweepErase \/ SweepSleep

Next ==
  \/ \E w \in Workers : Request(w) \/ Handler(w)
  \/ CheckSession
  \/ Tick

Spec == Init /\ [][Next]_vars

(* Threads are scheduled and time passes; nobody has to send a request *)
FairSpec ==
  /\ Spec
  /\ \A w \in Workers : WF_vars(Handler(w))
  /\ WF_vars(CheckSession)
  /\ WF_vars(Tick)

-----------------------------------------------------------------------------
(* Properties *)

WorkerRecords ==
  [pc: HandlerPCs \cup {"idle"},
   op: {"none", "open", "heartbeat", "status", "list"},
   id: StreamIds \cup {NULL}, ptr: Allocators \cup {NULL},
   lag: 0..MaxLag, todo: SUBSET StreamIds, raced: BOOLEAN]

SweepRecords ==
  [pc: {"sleep", "scan", "read", "erase"}, todo: SUBSET StreamIds,
   at: StreamIds \cup {NULL}, ptr: Allocators \cup {NULL},
   expiredKeys: SUBSET StreamIds, age: [StreamIds -> 0..MaxLag]]

(* Every variable of the registry and its threads has its type. *)
TypeOK ==
  /\ hlsProcessors \in [StreamIds -> Entries]
  /\ idle \in [Allocators -> 0..MaxIdle]
  /\ worker \in [Workers -> WorkerRecords]
  /\ sweep \in SweepRecords
  /\ jsonData \in StreamIds \cup {NULL}
  /\ spawned \in [StreamIds -> Nat]
  /\ crashed \in BOOLEAN

(* A null or dangling pointer is met in two ways only.  The sweeper erased  *)
(* the stream of a request while the request was between find() and         *)
(* operator[], or an open was adding the stream and a second request of it  *)
(* saw the entry before the allocator was stored.                           *)
CrashOnlyIfRaced ==
  crashed => \E w \in Workers : worker[w].raced \/ worker[w].pc = "add_store"

(* A null pointer in the map is never left behind: it belongs to an open    *)
(* that is adding the stream, or to one that got it from operator[] and can *)
(* only end by dereferencing it.  So the sweeper's test !item.second never  *)
(* saves the server.                                                        *)
NullEntryHasOwner ==
  \A k \in StreamIds : hlsProcessors[k] = NULL =>
    \/ Storing(k)
    \/ \E w \in Workers : /\ worker[w].op = "open" /\ worker[w].id = k
                          /\ worker[w].ptr = NULL
                          /\ worker[w].pc \in {"touch_find", "touch_write", "json_fill"}

(* When open is about to answer 200 the stream has an entry in the map,     *)
(* also when several opens of the stream raced, unless the sweeper took it  *)
(* or the stream was just being added by another open.                      *)
OpenReplyMeansSession ==
  \A w \in Workers :
    /\ worker[w].op = "open" /\ ~worker[w].raced
    /\ worker[w].pc \in {"json_fill", "json_copy"}
    => Found(worker[w].id)

(* Nothing stops two opens of one stream from both missing running(): each  *)
(* starts a muxer, the slower ones even after the stream got its entry.     *)
(* There is at most one muxer per data thread.                              *)
DuplicateBound ==
  \A k \in StreamIds : spawned[k] <= Cardinality(Workers)

(* The id in the answer to open is the id of the stream that was opened:    *)
(* the page sends its heartbeats with it.                                   *)
ReplyNamesOwnStream ==
  \A w \in Workers : worker[w].pc = "json_copy" => jsonData = worker[w].id

(* A session in use is dropped by mistake only in one way: when it is       *)
(* erased it has been idle for longer than the timeout, or it was touched   *)
(* after the sweeper read the clock for it.                                 *)
ErasedIdleOrRaced ==
  [][\A k \in StreamIds :
       Found(k) /\ ~Found(k)' =>
         LET p == hlsProcessors[k]
         IN  p = NULL \/ idle[p] > Timeout \/ idle[p] <= sweep.age[k] + MaxLag
    ]_vars

(* The registry implements Sessions: the age of a session is that of the    *)
(* allocator its entry points to.  Two opens, a heartbeat and the sweeper   *)
(* may overlap in any way; each step is one of Sessions or changes nothing. *)
Session(k) == IF hlsProcessors[k] \in {NULL, Absent} THEN hlsProcessors[k]
              ELSE idle[hlsProcessors[k]]

S == INSTANCE Sessions WITH sessions <- [k \in StreamIds |-> Session(k)]

ImplementsSessions == S!Spec

(* A stream that no request names any more loses its session *)
Quiet(k) == \A w \in Workers : worker[w].id # k

AbandonedExpires ==
  \A k \in StreamIds : <>[]Quiet(k) => []<>(~Found(k) \/ crashed)
=============================================================================
