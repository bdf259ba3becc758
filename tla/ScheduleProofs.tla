--------------------------- MODULE ScheduleProofs ---------------------------
(* Machine-checked theorems about Schedule, for any number of data threads, *)
(* streams and allocators and any timeout.                                  *)
EXTENDS Schedule, FiniteSetTheorems, TLAPS

-----------------------------------------------------------------------------
(* Type correctness *)

OpenPCs   == {"running", "open_get", "system", "add_find", "add_insert",
              "add_store", "add_lost", "json_fill", "json_copy"}
TouchPCs  == {"touch_find", "touch_write"}
StatusPCs == {"living_find", "living_write", "pid_write", "exp_find", "exp_get"}
ListPCs   == {"list_next", "list_copy", "list_dangling"}

(* What the program counters say about the rest of a thread's record *)
ControlOK ==
  /\ \A w \in Workers :
       /\ worker[w].pc \in OpenPCs => worker[w].op = "open"
       /\ worker[w].pc \in TouchPCs => worker[w].op \in {"open", "heartbeat"}
       /\ worker[w].pc \in StatusPCs => worker[w].op = "status"
       /\ worker[w].pc \in ListPCs => worker[w].op = "list"
       /\ worker[w].op \in {"open", "heartbeat", "status"} => worker[w].id \in StreamIds
       /\ worker[w].pc \in {"add_find", "add_insert", "add_store", "add_lost"}
            => worker[w].ptr \in Allocators
       /\ worker[w].pc \in {"list_dangling", "add_lost"} => worker[w].raced
  /\ sweep.pc = "read" => sweep.at \in StreamIds /\ sweep.ptr \in Allocators

TypeInv == TypeOK /\ ControlOK

(* handlers that have found their key in the map and will use operator[] *)
PastFind == {"open_get", "touch_write", "living_write", "pid_write", "exp_get"}

(* A key that was found is still there unless the sweeper took it *)
FoundUnlessRaced ==
  \A w \in Workers : worker[w].pc \in PastFind => Found(worker[w].id) \/ worker[w].raced

(* An open past running() holds its entry ... *)
OpenHoldsEntry ==
  \A w \in Workers :
    worker[w].op = "open" /\ worker[w].pc \in {"touch_find", "json_fill", "json_copy"}
      => Found(worker[w].id) \/ worker[w].raced

(* An open that got a null allocator because it lost a race.                *)
(* It can only end by dereferencing the null pointer.                       *)
Doomed(w, k) ==
  /\ worker[w].op = "open" /\ worker[w].id = k /\ worker[w].ptr = NULL
  /\ worker[w].pc \in {"touch_find", "touch_write", "json_fill"}
  /\ worker[w].raced

(* Whoever holds a null allocator got it from such an open, or is one *)
NullPtrHasDoomed ==
  \A w \in Workers :
    /\ worker[w].op = "open" /\ worker[w].ptr = NULL
    /\ worker[w].pc \in {"touch_find", "touch_write", "json_fill"}
    => \E v \in Workers : Doomed(v, worker[w].id)

NullHasDoomed ==
  \A k \in StreamIds :
    hlsProcessors[k] = NULL => Storing(k) \/ \E w \in Workers : Doomed(w, k)

SafeInv ==
  /\ TypeInv
  /\ FoundUnlessRaced
  /\ OpenHoldsEntry
  /\ NullPtrHasDoomed
  /\ NullHasDoomed
  /\ CrashOnlyIfRaced

-----------------------------------------------------------------------------

LEMMA TypeInit == Init => TypeInv
<1> SUFFICES ASSUME Init PROVE TypeInv
  OBVIOUS
<1> USE ScheduleAssumption DEF Init
<1>1. worker \in [Workers -> WorkerRecords]
  BY DEF WorkerRecords, IdleWorker
<1>2. sweep \in SweepRecords
  BY DEF SweepRecords
<1>3. idle \in [Allocators -> 0..MaxIdle]
  BY DEF MaxIdle
<1>4. ControlOK
  BY DEF ControlOK, IdleWorker, OpenPCs, TouchPCs, StatusPCs, ListPCs
<1>5. QED
  BY <1>1, <1>2, <1>3, <1>4 DEF TypeInv, TypeOK, Entries

(* A handler that names a stream has one of the streams as its id *)
LEMMA IdInStreams ==
  ASSUME TypeInv, NEW w \in Workers, worker[w].pc \in OpenPCs \cup TouchPCs \cup StatusPCs
  PROVE  worker[w].id \in StreamIds
BY DEF TypeInv, ControlOK

LEMMA ReturnType ==
  ASSUME TypeOK, NEW w \in Workers, Return(w)
  PROVE  worker' \in [Workers -> WorkerRecords]
BY ScheduleAssumption DEF Return, IdleWorker, TypeOK, WorkerRecords

LEMMA GotoType ==
  ASSUME TypeOK, NEW w \in Workers, NEW pc \in HandlerPCs, Goto(w, pc)
  PROVE  worker' \in [Workers -> WorkerRecords]
BY DEF Goto, TypeOK, WorkerRecords

LEMMA MoveType ==
  ASSUME TypeOK, NEW w \in Workers, NEW pc \in HandlerPCs,
         NEW p \in Allocators \cup {NULL}, NEW l \in 0..MaxLag, Move(w, pc, p, l)
  PROVE  worker' \in [Workers -> WorkerRecords]
BY DEF Move, TypeOK, WorkerRecords

LEMMA TypeStep == TypeInv /\ [Next]_vars => TypeOK'
<1> SUFFICES ASSUME TypeInv, [Next]_vars PROVE TypeOK'
  OBVIOUS
<1> TypeOK
  BY DEF TypeInv
<1> USE DEF OpenPCs, TouchPCs, StatusPCs
<1>1. ASSUME NEW w \in Workers, OpenRequest(w) PROVE TypeOK'
  BY <1>1, ScheduleAssumption DEF OpenRequest, Accept, At, NoCrash, RegistryUnchanged, TypeOK, WorkerRecords, HandlerPCs
<1>2. ASSUME NEW w \in Workers, HeartbeatRequest(w) PROVE TypeOK'
  BY <1>2, ScheduleAssumption DEF HeartbeatRequest, Accept, At, NoCrash, RegistryUnchanged, TypeOK, WorkerRecords, HandlerPCs
<1>3. ASSUME NEW w \in Workers, StatusRequest(w) PROVE TypeOK'
  BY <1>3, ScheduleAssumption DEF StatusRequest, Accept, At, NoCrash, RegistryUnchanged, TypeOK, WorkerRecords, HandlerPCs
<1>4. ASSUME NEW w \in Workers, ListRequest(w) PROVE TypeOK'
  BY <1>4, ScheduleAssumption DEF ListRequest, Accept, At, NoCrash, RegistryUnchanged, TypeOK, WorkerRecords, HandlerPCs
<1>5. ASSUME NEW w \in Workers, OpenRunning(w) PROVE TypeOK'
  BY <1>5, GotoType DEF OpenRunning, At, NoCrash, RegistryUnchanged, TypeOK, HandlerPCs
<1>6. ASSUME NEW w \in Workers, OpenGet(w) PROVE TypeOK'
  <2> DEFINE k == worker[w].id
             p == IF Found(k) THEN hlsProcessors[k] ELSE NULL
  <2>1. k \in StreamIds /\ worker[w].lag \in 0..MaxLag
    BY <1>6, IdInStreams DEF OpenGet, At, TypeOK, WorkerRecords
  <2>2. p \in Allocators \cup {NULL}
    BY <2>1 DEF Found, TypeOK, Entries
  <2>3. worker' = [worker EXCEPT ![w] =
              [pc |-> "touch_find", op |-> @.op, id |-> k, ptr |-> p, lag |-> @.lag,
               todo |-> @.todo, raced |-> @.raced \/ Storing(k)]]
    BY <1>6 DEF OpenGet
  <2>4. worker' \in [Workers -> WorkerRecords]
    <3>1. worker[w] \in WorkerRecords /\ (worker[w].raced \/ Storing(k)) \in BOOLEAN
      BY DEF TypeOK
    <3> HIDE DEF p, k
    <3>2. QED
      BY <2>1, <2>2, <2>3, <3>1 DEF TypeOK, WorkerRecords, HandlerPCs
  <2>5. hlsProcessors' \in [StreamIds -> Entries]
    BY <1>6, <2>2 DEF OpenGet, TypeOK, Entries
  <2>6. QED
    BY <1>6, <2>4, <2>5 DEF OpenGet, NoCrash, TypeOK
<1>7. ASSUME NEW w \in Workers, OpenSystemFails(w) PROVE TypeOK'
  BY <1>7, ReturnType DEF OpenSystemFails, At, NoCrash, RegistryUnchanged, TypeOK
<1>8. ASSUME NEW w \in Workers, OpenSystem(w) PROVE TypeOK'
  <2>1. PICK a \in Allocators : /\ idle' = [idle EXCEPT ![a] = 0]
                               /\ Move(w, "add_find", a, worker[w].lag)
    BY <1>8 DEF OpenSystem
  <2>2. worker' \in [Workers -> WorkerRecords]
    <3>1. worker[w].lag \in 0..MaxLag
      BY DEF TypeOK, WorkerRecords
    <3>2. QED
      BY <2>1, <3>1, MoveType DEF HandlerPCs
  <2>3. idle' \in [Allocators -> 0..MaxIdle]
    BY <2>1, ScheduleAssumption DEF TypeOK, MaxIdle
  <2>4. spawned' \in [StreamIds -> Nat]
    <3>1. worker[w].id \in StreamIds
      BY <1>8, IdInStreams DEF OpenSystem, At
    <3>2. spawned[worker[w].id] + 1 \in Nat
      BY <3>1 DEF TypeOK
    <3>3. QED
      BY <1>8, <3>2 DEF OpenSystem, TypeOK
  <2>5. QED
    BY <1>8, <2>2, <2>3, <2>4 DEF OpenSystem, NoCrash, TypeOK
<1>9. ASSUME NEW w \in Workers, AddFind(w) PROVE TypeOK'
  BY <1>9, GotoType DEF AddFind, At, NoCrash, RegistryUnchanged, TypeOK, HandlerPCs
<1>10. ASSUME NEW w \in Workers, AddInsert(w) PROVE TypeOK'
  <2>1. /\ worker[w].id \in StreamIds /\ worker[w].ptr \in Allocators
        /\ worker[w].lag \in 0..MaxIdle
    BY <1>10, IdInStreams, ScheduleAssumption
    DEF AddInsert, At, TypeInv, ControlOK, TypeOK, WorkerRecords, MaxIdle
  <2>2. worker' \in [Workers -> WorkerRecords]
    BY <1>10, GotoType DEF AddInsert, HandlerPCs
  <2>3. idle' \in [Allocators -> 0..MaxIdle]
    BY <1>10, <2>1 DEF AddInsert, TypeOK
  <2>4. hlsProcessors' \in [StreamIds -> Entries]
    BY <1>10, <2>1 DEF AddInsert, TypeOK, Entries
  <2>5. QED
    BY <1>10, <2>2, <2>3, <2>4 DEF AddInsert, NoCrash, TypeOK
<1>10a. ASSUME NEW w \in Workers, AddStore(w) PROVE TypeOK'
  <2>1. /\ worker[w].id \in StreamIds /\ worker[w].ptr \in Allocators
        /\ 0 \in 0..MaxLag
    BY <1>10a, IdInStreams, ScheduleAssumption DEF AddStore, At, TypeInv, ControlOK
  <2>2. worker' \in [Workers -> WorkerRecords]
    <3>1. Move(w, "json_fill", worker[w].ptr, 0)
      BY <1>10a DEF AddStore
    <3>2. QED
      BY <2>1, <3>1, MoveType DEF HandlerPCs
  <2>3. hlsProcessors' \in [StreamIds -> Entries]
    BY <1>10a, <2>1 DEF AddStore, TypeOK, Entries
  <2>4. QED
    BY <1>10a, <2>2, <2>3 DEF AddStore, NoCrash, TypeOK
<1>10b. ASSUME NEW w \in Workers, AddLost(w) PROVE TypeOK'
  <2>1. worker[w].ptr \in Allocators /\ 0 \in 0..MaxLag
    BY <1>10b, ScheduleAssumption DEF AddLost, At, TypeInv, ControlOK
  <2>2. worker' \in [Workers -> WorkerRecords]
    <3>1. CASE Move(w, "json_fill", worker[w].ptr, 0)
      BY <2>1, <3>1, MoveType DEF HandlerPCs
    <3>2. CASE UNCHANGED worker
      BY <3>2 DEF TypeOK
    <3>3. QED
      BY <1>10b, <3>1, <3>2 DEF AddLost
  <2>3. QED
    BY <1>10b, <2>2 DEF AddLost, RegistryUnchanged, Crash, NoCrash, TypeOK
<1>11. ASSUME NEW w \in Workers, JsonFill(w) PROVE TypeOK'
  <2>1. worker' \in [Workers -> WorkerRecords]
    BY <1>11, GotoType DEF JsonFill, TypeOK, HandlerPCs
  <2>2. jsonData' \in StreamIds \cup {NULL}
    BY <1>11 DEF JsonFill, TypeOK, WorkerRecords
  <2>3. QED
    BY <1>11, <2>1, <2>2 DEF JsonFill, Crash, NoCrash, TypeOK
<1>12. ASSUME NEW w \in Workers, JsonCopy(w) PROVE TypeOK'
  BY <1>12, ReturnType DEF JsonCopy, At, NoCrash, RegistryUnchanged, TypeOK
<1>13. ASSUME NEW w \in Workers, TouchFind(w) PROVE TypeOK'
  <2>1. worker' \in [Workers -> WorkerRecords]
    BY <1>13, GotoType, ReturnType DEF TouchFind, AfterTouch, HandlerPCs
  <2>2. QED
    BY <1>13, <2>1 DEF TouchFind, RegistryUnchanged, NoCrash, TypeOK
<1>14. ASSUME NEW w \in Workers, TouchWrite(w) PROVE TypeOK'
  <2> DEFINE p == hlsProcessors[worker[w].id]
  <2>1. /\ worker[w].id \in StreamIds /\ worker[w].ptr \in Allocators \cup {NULL}
        /\ worker[w].lag \in 0..MaxLag /\ 0 \in 0..MaxLag
        /\ worker[w].lag \in 0..MaxIdle
    BY <1>14, IdInStreams, ScheduleAssumption DEF TouchWrite, At, TypeOK, WorkerRecords, MaxIdle
  <2>2. CASE p \in {NULL, Absent}
    BY <1>14, <2>2 DEF TouchWrite, Crash, TypeOK
  <2>3. CASE p \notin {NULL, Absent}
    <3>1. worker' \in [Workers -> WorkerRecords]
      <4>1. CASE worker[w].op = "open"
        <5>1. Move(w, "json_fill", worker[w].ptr, 0)
          BY <1>14, <2>3, <4>1 DEF TouchWrite
        <5>2. QED
          BY <2>1, <5>1, MoveType DEF HandlerPCs
      <4>2. CASE worker[w].op # "open"
        BY <1>14, <2>3, <4>2, ReturnType DEF TouchWrite
      <4>3. QED
        BY <4>1, <4>2
    <3>2. idle' \in [Allocators -> 0..MaxIdle]
      BY <1>14, <2>1, <2>3 DEF TouchWrite, TypeOK
    <3>3. QED
      BY <1>14, <2>3, <3>1, <3>2 DEF TouchWrite, NoCrash, TypeOK
  <2>4. QED
    BY <2>2, <2>3
<1>15. ASSUME NEW w \in Workers, LivingFind(w) PROVE TypeOK'
  BY <1>15, GotoType DEF LivingFind, At, NoCrash, RegistryUnchanged, TypeOK, HandlerPCs
<1>16. ASSUME NEW w \in Workers, LivingWrite(w) PROVE TypeOK'
  <2>1. worker' \in [Workers -> WorkerRecords]
    BY <1>16, GotoType DEF LivingWrite, WriteThrough, TypeOK, HandlerPCs
  <2>2. QED
    BY <1>16, <2>1 DEF LivingWrite, WriteThrough, RegistryUnchanged, Crash, NoCrash, TypeOK
<1>17. ASSUME NEW w \in Workers, PidWrite(w) PROVE TypeOK'
  <2>1. worker' \in [Workers -> WorkerRecords]
    BY <1>17, GotoType DEF PidWrite, WriteThrough, TypeOK, HandlerPCs
  <2>2. QED
    BY <1>17, <2>1 DEF PidWrite, WriteThrough, RegistryUnchanged, Crash, NoCrash, TypeOK
<1>18. ASSUME NEW w \in Workers, ExpFind(w) PROVE TypeOK'
  <2>1. worker' \in [Workers -> WorkerRecords]
    BY <1>18, GotoType, ReturnType DEF ExpFind, TypeOK, HandlerPCs
  <2>2. QED
    BY <1>18, <2>1 DEF ExpFind, RegistryUnchanged, NoCrash, TypeOK
<1>19. ASSUME NEW w \in Workers, ExpGet(w) PROVE TypeOK'
  <2>1. worker' \in [Workers -> WorkerRecords]
    BY <1>19, GotoType, ReturnType DEF ExpGet, TypeOK, HandlerPCs
  <2>2. QED
    BY <1>19, <2>1 DEF ExpGet, RegistryUnchanged, Crash, NoCrash, TypeOK
<1>20. ASSUME NEW w \in Workers, ListNext(w) PROVE TypeOK'
  <2>1. PICK k \in worker[w].todo :
          /\ worker' = [worker EXCEPT ![w] =
                [pc |-> "list_copy", op |-> @.op, id |-> k, ptr |-> @.ptr,
                 lag |-> @.lag, todo |-> @.todo \ {k}, raced |-> FALSE]]
          /\ IF hlsProcessors[k] = NULL
             THEN Crash /\ UNCHANGED jsonData
             ELSE jsonData' = k /\ NoCrash
    BY <1>20 DEF ListNext
  <2>2. worker' \in [Workers -> WorkerRecords]
    BY <2>1 DEF TypeOK, WorkerRecords, HandlerPCs
  <2>3. jsonData' \in StreamIds \cup {NULL} /\ crashed' \in BOOLEAN
    BY <2>1 DEF TypeOK, WorkerRecords, Crash, NoCrash
  <2>4. QED
    BY <1>20, <2>2, <2>3 DEF ListNext, TypeOK
<1>21. ASSUME NEW w \in Workers, ListCopy(w) PROVE TypeOK'
  BY <1>21, GotoType DEF ListCopy, At, NoCrash, RegistryUnchanged, TypeOK, HandlerPCs
<1>22. ASSUME NEW w \in Workers, ListEnd(w) PROVE TypeOK'
  BY <1>22, ReturnType DEF ListEnd, At, NoCrash, RegistryUnchanged, TypeOK
<1>23. ASSUME NEW w \in Workers, ListDangling(w) PROVE TypeOK'
  <2>1. worker' \in [Workers -> WorkerRecords]
    BY <1>23, GotoType, ReturnType DEF ListDangling, TypeOK, HandlerPCs
  <2>2. QED
    BY <1>23, <2>1 DEF ListDangling, RegistryUnchanged, Crash, NoCrash, TypeOK
<1>24. CASE SweepBegin
  BY <1>24, ScheduleAssumption DEF SweepBegin, Sweep, At, NoCrash, RegistryUnchanged, TypeInv, TypeOK, ControlOK, SweepRecords, Entries
<1>25. CASE SweepVisit
  BY <1>25, ScheduleAssumption DEF SweepVisit, Sweep, At, NoCrash, RegistryUnchanged, TypeInv, TypeOK, ControlOK, SweepRecords, Entries
<1>26. CASE SweepRead
  BY <1>26, ScheduleAssumption DEF SweepRead, Sweep, At, NoCrash, RegistryUnchanged, TypeInv, TypeOK, ControlOK, SweepRecords, Entries
<1>27. CASE SweepErasePhase
  BY <1>27, ScheduleAssumption DEF SweepErasePhase, Sweep, At, NoCrash, RegistryUnchanged, TypeInv, TypeOK, ControlOK, SweepRecords, Entries
<1>28. CASE SweepErase
  BY <1>28, ScheduleAssumption DEF SweepErase, Sweep, AfterErase, At, NoCrash, RegistryUnchanged, TypeOK, WorkerRecords, SweepRecords, Entries, HandlerPCs
<1>29. CASE SweepSleep
  BY <1>29, ScheduleAssumption DEF SweepSleep, Sweep, At, NoCrash, RegistryUnchanged, TypeInv, TypeOK, ControlOK, SweepRecords, Entries
<1>30. CASE Tick
  <2>1. worker' \in [Workers -> WorkerRecords]
    <3>1. \A w \in Workers : worker[w].pc \in ClockHeld => worker[w].lag + 1 \in 0..MaxLag
      BY <1>30, ScheduleAssumption DEF Tick, TypeOK, WorkerRecords
    <3>2. ASSUME NEW w \in Workers PROVE worker'[w] \in WorkerRecords
      <4>1. CASE worker[w].pc \in ClockHeld
        <5>1. worker[w] \in WorkerRecords /\ worker[w].lag + 1 \in 0..MaxLag
          BY <3>1, <4>1 DEF TypeOK
        <5>2. worker'[w] = [worker[w] EXCEPT !.lag = worker[w].lag + 1]
          BY <1>30, <4>1 DEF Tick
        <5>3. QED
          BY <5>1, <5>2 DEF WorkerRecords
      <4>2. CASE worker[w].pc \notin ClockHeld
        BY <1>30, <4>2 DEF Tick, TypeOK, WorkerRecords
      <4>3. QED
        BY <4>1, <4>2
    <3>3. QED
      BY <1>30, <3>2 DEF Tick
  <2>2. sweep' \in SweepRecords
    <3>1. \A k \in StreamIds : k \in SweepHeld => sweep.age[k] + 1 \in 0..MaxLag
      BY <1>30, ScheduleAssumption DEF Tick, TypeOK, SweepRecords
    <3> DEFINE age == [k \in StreamIds |->
                          IF k \in SweepHeld THEN sweep.age[k] + 1 ELSE sweep.age[k]]
    <3>2. age \in [StreamIds -> 0..MaxLag]
      BY <3>1 DEF TypeOK, SweepRecords
    <3>3. sweep' = [sweep EXCEPT !.age = age]
      BY <1>30 DEF Tick
    <3> HIDE DEF age
    <3>4. QED
      BY <3>2, <3>3 DEF TypeOK, SweepRecords
  <2>3. idle' \in [Allocators -> 0..MaxIdle]
    BY <1>30, ScheduleAssumption DEF Tick, TypeOK, Older, MaxIdle
  <2>4. QED
    BY <1>30, <2>1, <2>2, <2>3 DEF Tick, NoCrash, TypeOK
<1>31. CASE UNCHANGED vars
  BY <1>31, SMTT(30) DEF vars, TypeOK
<1>32. QED
  BY <1>1, <1>2, <1>3, <1>4, <1>5, <1>6, <1>7, <1>8, <1>9, <1>10, <1>10a, <1>10b, <1>11, <1>12, <1>13, <1>14, <1>15, <1>16, <1>17, <1>18, <1>19, <1>20, <1>21, <1>22, <1>23, <1>24, <1>25, <1>26, <1>27, <1>28, <1>29, <1>30, <1>31 DEF Next, Request, Handler, Open,
     UpdateLastAccessTime, MuxerStatus, List, CheckSession

LEMMA ControlStep == TypeInv /\ [Next]_vars => ControlOK'
<1> SUFFICES ASSUME TypeInv, [Next]_vars PROVE ControlOK'
  OBVIOUS
<1> USE ScheduleAssumption DEF TypeInv, TypeOK, ControlOK, WorkerRecords, SweepRecords,
     Entries, OpenPCs, TouchPCs, StatusPCs, ListPCs
<1>1. ASSUME NEW w \in Workers, OpenRequest(w) PROVE ControlOK'
  BY <1>1 DEF OpenRequest, Accept, At, NoCrash, RegistryUnchanged
<1>2. ASSUME NEW w \in Workers, HeartbeatRequest(w) PROVE ControlOK'
  BY <1>2 DEF HeartbeatRequest, Accept, At, NoCrash, RegistryUnchanged
<1>3. ASSUME NEW w \in Workers, StatusRequest(w) PROVE ControlOK'
  BY <1>3 DEF StatusRequest, Accept, At, NoCrash, RegistryUnchanged
<1>4. ASSUME NEW w \in Workers, ListRequest(w) PROVE ControlOK'
  BY <1>4 DEF ListRequest, Accept, At, NoCrash, RegistryUnchanged
<1>5. ASSUME NEW w \in Workers, OpenRunning(w) PROVE ControlOK'
  BY <1>5 DEF OpenRunning, Goto, At, NoCrash, RegistryUnchanged
<1>6. ASSUME NEW w \in Workers, OpenGet(w) PROVE ControlOK'
  BY <1>6 DEF OpenGet, At, NoCrash, RegistryUnchanged
<1>7. ASSUME NEW w \in Workers, OpenSystemFails(w) PROVE ControlOK'
  BY <1>7 DEF OpenSystemFails, Return, IdleWorker, At, NoCrash, RegistryUnchanged
<1>8. ASSUME NEW w \in Workers, OpenSystem(w) PROVE ControlOK'
  BY <1>8 DEF OpenSystem, Move, At, NoCrash, RegistryUnchanged
<1>9. ASSUME NEW w \in Workers, AddFind(w) PROVE ControlOK'
  BY <1>9 DEF AddFind, Goto, At, NoCrash, RegistryUnchanged
<1>10. ASSUME NEW w \in Workers, AddInsert(w) PROVE ControlOK'
  BY <1>10 DEF AddInsert, Goto, At, NoCrash, RegistryUnchanged
<1>10a. ASSUME NEW w \in Workers, AddStore(w) PROVE ControlOK'
  BY <1>10a DEF AddStore, Move, At, NoCrash, RegistryUnchanged
<1>10b. ASSUME NEW w \in Workers, AddLost(w) PROVE ControlOK'
  BY <1>10b DEF AddLost, Move, Crash, At, NoCrash, RegistryUnchanged
<1>11. ASSUME NEW w \in Workers, JsonFill(w) PROVE ControlOK'
  BY <1>11, SMTT(30) DEF JsonFill, Goto, Crash, At, NoCrash, RegistryUnchanged
<1>12. ASSUME NEW w \in Workers, JsonCopy(w) PROVE ControlOK'
  BY <1>12 DEF JsonCopy, Return, IdleWorker, At, NoCrash, RegistryUnchanged
<1>13. ASSUME NEW w \in Workers, TouchFind(w) PROVE ControlOK'
  <2>1. CASE Return(w)
    BY <1>13, <2>1 DEF TouchFind, Return, IdleWorker
  <2>2. CASE Goto(w, "touch_write")
    BY <1>13, <2>2 DEF TouchFind, Goto, At
  <2>3. CASE worker[w].op = "open" /\ Goto(w, "json_fill")
    BY <1>13, <2>3 DEF TouchFind, Goto, At
  <2>4. QED
    BY <1>13, <2>1, <2>2, <2>3 DEF TouchFind, AfterTouch
<1>14. ASSUME NEW w \in Workers, TouchWrite(w) PROVE ControlOK'
  <2>1. CASE Return(w)
    BY <1>14, <2>1 DEF TouchWrite, Return, IdleWorker
  <2>2. CASE worker[w].op = "open" /\ Move(w, "json_fill", worker[w].ptr, 0)
    BY <1>14, <2>2 DEF TouchWrite, Move, At
  <2>3. CASE UNCHANGED worker
    BY <1>14, <2>3 DEF TouchWrite
  <2>4. QED
    BY <1>14, <2>1, <2>2, <2>3 DEF TouchWrite
<1>15. ASSUME NEW w \in Workers, LivingFind(w) PROVE ControlOK'
  BY <1>15 DEF LivingFind, Goto, At, NoCrash, RegistryUnchanged
<1>16. ASSUME NEW w \in Workers, LivingWrite(w) PROVE ControlOK'
  BY <1>16, SMTT(30) DEF LivingWrite, WriteThrough, Goto, Crash, At, NoCrash, RegistryUnchanged
<1>17. ASSUME NEW w \in Workers, PidWrite(w) PROVE ControlOK'
  BY <1>17 DEF PidWrite, WriteThrough, Goto, Crash, At, NoCrash, RegistryUnchanged
<1>18. ASSUME NEW w \in Workers, ExpFind(w) PROVE ControlOK'
  <2>1. CASE Goto(w, "exp_get")
    BY <1>18, <2>1 DEF ExpFind, Goto, At
  <2>2. CASE Return(w)
    BY <1>18, <2>2 DEF ExpFind, Return, IdleWorker
  <2>3. QED
    BY <1>18, <2>1, <2>2 DEF ExpFind
<1>19. ASSUME NEW w \in Workers, ExpGet(w) PROVE ControlOK'
  BY <1>19 DEF ExpGet, Crash, Return, IdleWorker, At, NoCrash, RegistryUnchanged
<1>20. ASSUME NEW w \in Workers, ListNext(w) PROVE ControlOK'
  BY <1>20 DEF ListNext, Crash, At, NoCrash, RegistryUnchanged
<1>21. ASSUME NEW w \in Workers, ListCopy(w) PROVE ControlOK'
  BY <1>21 DEF ListCopy, Goto, At, NoCrash, RegistryUnchanged
<1>22. ASSUME NEW w \in Workers, ListEnd(w) PROVE ControlOK'
  BY <1>22 DEF ListEnd, Return, IdleWorker, At, NoCrash, RegistryUnchanged
<1>23. ASSUME NEW w \in Workers, ListDangling(w) PROVE ControlOK'
  BY <1>23 DEF ListDangling, Goto, Crash, Return, IdleWorker, At, NoCrash, RegistryUnchanged
<1>24. CASE SweepBegin
  BY <1>24 DEF SweepBegin, Sweep, At, NoCrash, RegistryUnchanged
<1>25. CASE SweepVisit
  BY <1>25 DEF SweepVisit, Sweep, At, NoCrash, RegistryUnchanged
<1>26. CASE SweepRead
  BY <1>26 DEF SweepRead, Sweep, At, NoCrash, RegistryUnchanged
<1>27. CASE SweepErasePhase
  BY <1>27 DEF SweepErasePhase, Sweep, At, NoCrash, RegistryUnchanged
<1>28. CASE SweepErase
  BY <1>28 DEF SweepErase, Sweep, AfterErase, At, NoCrash, RegistryUnchanged
<1>29. CASE SweepSleep
  BY <1>29 DEF SweepSleep, Sweep, At, NoCrash, RegistryUnchanged
<1>30. CASE Tick
  <2>1. \A w \in Workers : /\ worker'[w].pc = worker[w].pc /\ worker'[w].op = worker[w].op
                           /\ worker'[w].id = worker[w].id /\ worker'[w].ptr = worker[w].ptr
                           /\ worker'[w].raced = worker[w].raced
    BY <1>30 DEF Tick
  <2>2. sweep'.pc = sweep.pc /\ sweep'.at = sweep.at /\ sweep'.ptr = sweep.ptr
    BY <1>30 DEF Tick
  <2>3. QED
    BY <2>1, <2>2
<1>31. CASE UNCHANGED vars
  BY <1>31 DEF vars
<1>32. QED
  BY <1>1, <1>2, <1>3, <1>4, <1>5, <1>6, <1>7, <1>8, <1>9, <1>10, <1>10a, <1>10b, <1>11, <1>12, <1>13, <1>14, <1>15, <1>16, <1>17, <1>18, <1>19, <1>20, <1>21, <1>22, <1>23, <1>24, <1>25, <1>26, <1>27, <1>28, <1>29, <1>30, <1>31 DEF Next, Request, Handler, Open,
     UpdateLastAccessTime, MuxerStatus, List, CheckSession

-----------------------------------------------------------------------------
(* The inductive invariant *)

LEMMA DoomedStable ==
  ASSUME TypeInv, [Next]_vars, NEW v \in Workers, NEW k \in StreamIds, Doomed(v, k)
  PROVE  Doomed(v, k)'
<1> USE DEF TypeInv, TypeOK, WorkerRecords, Doomed
<1>1. ASSUME NEW w \in Workers, OpenRequest(w) PROVE Doomed(v, k)'
  BY <1>1 DEF OpenRequest, Accept, At, NoCrash, RegistryUnchanged
<1>2. ASSUME NEW w \in Workers, HeartbeatRequest(w) PROVE Doomed(v, k)'
  BY <1>2 DEF HeartbeatRequest, Accept, At, NoCrash, RegistryUnchanged
<1>3. ASSUME NEW w \in Workers, StatusRequest(w) PROVE Doomed(v, k)'
  BY <1>3 DEF StatusRequest, Accept, At, NoCrash, RegistryUnchanged
<1>4. ASSUME NEW w \in Workers, ListRequest(w) PROVE Doomed(v, k)'
  BY <1>4 DEF ListRequest, Accept, At, NoCrash, RegistryUnchanged
<1>5. ASSUME NEW w \in Workers, OpenRunning(w) PROVE Doomed(v, k)'
  BY <1>5 DEF OpenRunning, Goto, At, NoCrash, RegistryUnchanged
<1>6. ASSUME NEW w \in Workers, OpenGet(w) PROVE Doomed(v, k)'
  BY <1>6 DEF OpenGet, At, NoCrash, RegistryUnchanged
<1>7. ASSUME NEW w \in Workers, OpenSystemFails(w) PROVE Doomed(v, k)'
  BY <1>7 DEF OpenSystemFails, Return, IdleWorker, At, NoCrash, RegistryUnchanged
<1>8. ASSUME NEW w \in Workers, OpenSystem(w) PROVE Doomed(v, k)'
  BY <1>8 DEF OpenSystem, Move, At, NoCrash, RegistryUnchanged
<1>9. ASSUME NEW w \in Workers, AddFind(w) PROVE Doomed(v, k)'
  BY <1>9 DEF AddFind, Goto, At, NoCrash, RegistryUnchanged
<1>10. ASSUME NEW w \in Workers, AddInsert(w) PROVE Doomed(v, k)'
  BY <1>10 DEF AddInsert, Goto, At, NoCrash, RegistryUnchanged
<1>10a. ASSUME NEW w \in Workers, AddStore(w) PROVE Doomed(v, k)'
  BY <1>10a DEF AddStore, Move, At, NoCrash, RegistryUnchanged
<1>10b. ASSUME NEW w \in Workers, AddLost(w) PROVE Doomed(v, k)'
  BY <1>10b DEF AddLost, Move, Crash, At, NoCrash, RegistryUnchanged
<1>11. ASSUME NEW w \in Workers, JsonFill(w) PROVE Doomed(v, k)'
  BY <1>11 DEF JsonFill, Goto, Crash, At, NoCrash, RegistryUnchanged
<1>12. ASSUME NEW w \in Workers, JsonCopy(w) PROVE Doomed(v, k)'
  BY <1>12 DEF JsonCopy, Return, IdleWorker, At, NoCrash, RegistryUnchanged
<1>13. ASSUME NEW w \in Workers, TouchFind(w) PROVE Doomed(v, k)'
  BY <1>13 DEF TouchFind, Goto, AfterTouch, Return, IdleWorker, At, NoCrash, RegistryUnchanged
<1>14. ASSUME NEW w \in Workers, TouchWrite(w) PROVE Doomed(v, k)'
  BY <1>14 DEF TouchWrite, Move, Crash, Return, IdleWorker, At, NoCrash, RegistryUnchanged
<1>15. ASSUME NEW w \in Workers, LivingFind(w) PROVE Doomed(v, k)'
  BY <1>15 DEF LivingFind, Goto, At, NoCrash, RegistryUnchanged
<1>16. ASSUME NEW w \in Workers, LivingWrite(w) PROVE Doomed(v, k)'
  BY <1>16 DEF LivingWrite, WriteThrough, Goto, Crash, At, NoCrash, RegistryUnchanged
<1>17. ASSUME NEW w \in Workers, PidWrite(w) PROVE Doomed(v, k)'
  BY <1>17 DEF PidWrite, WriteThrough, Goto, Crash, At, NoCrash, RegistryUnchanged
<1>18. ASSUME NEW w \in Workers, ExpFind(w) PROVE Doomed(v, k)'
  BY <1>18 DEF ExpFind, Goto, Return, IdleWorker, At, NoCrash, RegistryUnchanged
<1>19. ASSUME NEW w \in Workers, ExpGet(w) PROVE Doomed(v, k)'
  BY <1>19 DEF ExpGet, Crash, Return, IdleWorker, At, NoCrash, RegistryUnchanged
<1>20. ASSUME NEW w \in Workers, ListNext(w) PROVE Doomed(v, k)'
  BY <1>20 DEF ListNext, Crash, At, NoCrash, RegistryUnchanged
<1>21. ASSUME NEW w \in Workers, ListCopy(w) PROVE Doomed(v, k)'
  BY <1>21 DEF ListCopy, Goto, At, NoCrash, RegistryUnchanged
<1>22. ASSUME NEW w \in Workers, ListEnd(w) PROVE Doomed(v, k)'
  BY <1>22 DEF ListEnd, Return, IdleWorker, At, NoCrash, RegistryUnchanged
<1>23. ASSUME NEW w \in Workers, ListDangling(w) PROVE Doomed(v, k)'
  BY <1>23 DEF ListDangling, Goto, Crash, Return, IdleWorker, At, NoCrash, RegistryUnchanged
<1>24. CASE SweepBegin
  BY <1>24 DEF SweepBegin, Sweep, At, NoCrash, RegistryUnchanged
<1>25. CASE SweepVisit
  BY <1>25 DEF SweepVisit, Sweep, At, NoCrash, RegistryUnchanged
<1>26. CASE SweepRead
  BY <1>26 DEF SweepRead, Sweep, At, NoCrash, RegistryUnchanged
<1>27. CASE SweepErasePhase
  BY <1>27 DEF SweepErasePhase, Sweep, At, NoCrash, RegistryUnchanged
<1>28. CASE SweepErase
  BY <1>28 DEF SweepErase, Sweep, AfterErase, At, NoCrash, RegistryUnchanged
<1>29. CASE SweepSleep
  BY <1>29 DEF SweepSleep, Sweep, At, NoCrash, RegistryUnchanged
<1>30. CASE Tick
  <2>1. \A w \in Workers : /\ worker'[w].pc = worker[w].pc /\ worker'[w].op = worker[w].op
                           /\ worker'[w].id = worker[w].id /\ worker'[w].ptr = worker[w].ptr
                           /\ worker'[w].raced = worker[w].raced
    BY <1>30 DEF Tick, TypeOK, WorkerRecords
  <2>2. hlsProcessors' = hlsProcessors
    BY <1>30 DEF Tick
  <2>3. QED
    BY <2>1, <2>2
<1>31. CASE UNCHANGED vars
  BY <1>31 DEF vars
<1>32. QED
  BY <1>1, <1>2, <1>3, <1>4, <1>5, <1>6, <1>7, <1>8, <1>9, <1>10, <1>10a, <1>10b, <1>11, <1>12, <1>13, <1>14, <1>15, <1>16, <1>17, <1>18, <1>19, <1>20, <1>21, <1>22, <1>23, <1>24, <1>25, <1>26, <1>27, <1>28, <1>29, <1>30, <1>31 DEF Next, Request, Handler, Open,
     UpdateLastAccessTime, MuxerStatus, List, CheckSession

(* ... and an open that is adding the stream keeps its null entry *)
LEMMA StoringStable ==
  ASSUME TypeInv, [Next]_vars, NEW k \in StreamIds, Storing(k), hlsProcessors'[k] = NULL
  PROVE  Storing(k)'
<1> USE DEF TypeInv, TypeOK, WorkerRecords, Storing
<1>1. ASSUME NEW w \in Workers, OpenRequest(w) PROVE Storing(k)'
  BY <1>1 DEF OpenRequest, Accept, At, NoCrash, RegistryUnchanged
<1>2. ASSUME NEW w \in Workers, HeartbeatRequest(w) PROVE Storing(k)'
  BY <1>2 DEF HeartbeatRequest, Accept, At, NoCrash, RegistryUnchanged
<1>3. ASSUME NEW w \in Workers, StatusRequest(w) PROVE Storing(k)'
  BY <1>3 DEF StatusRequest, Accept, At, NoCrash, RegistryUnchanged
<1>4. ASSUME NEW w \in Workers, ListRequest(w) PROVE Storing(k)'
  BY <1>4 DEF ListRequest, Accept, At, NoCrash, RegistryUnchanged
<1>5. ASSUME NEW w \in Workers, OpenRunning(w) PROVE Storing(k)'
  BY <1>5 DEF OpenRunning, Goto, At, NoCrash, RegistryUnchanged
<1>6. ASSUME NEW w \in Workers, OpenGet(w) PROVE Storing(k)'
  BY <1>6 DEF OpenGet, At, NoCrash, RegistryUnchanged
<1>7. ASSUME NEW w \in Workers, OpenSystemFails(w) PROVE Storing(k)'
  BY <1>7 DEF OpenSystemFails, Return, IdleWorker, At, NoCrash, RegistryUnchanged
<1>8. ASSUME NEW w \in Workers, OpenSystem(w) PROVE Storing(k)'
  BY <1>8 DEF OpenSystem, Move, At, NoCrash, RegistryUnchanged
<1>9. ASSUME NEW w \in Workers, AddFind(w) PROVE Storing(k)'
  BY <1>9 DEF AddFind, Goto, At, NoCrash, RegistryUnchanged
<1>10. ASSUME NEW w \in Workers, AddInsert(w) PROVE Storing(k)'
  BY <1>10 DEF AddInsert, Goto, At, NoCrash, RegistryUnchanged
<1>10a. ASSUME NEW w \in Workers, AddStore(w) PROVE Storing(k)'
  <2>1. worker[w].id # k
    BY <1>10a, ScheduleAssumption DEF AddStore, At, ControlOK, OpenPCs
  <2>2. QED
    BY <1>10a, <2>1 DEF AddStore, Move, At
<1>10b. ASSUME NEW w \in Workers, AddLost(w) PROVE Storing(k)'
  BY <1>10b DEF AddLost, Move, Crash, At, NoCrash, RegistryUnchanged
<1>11. ASSUME NEW w \in Workers, JsonFill(w) PROVE Storing(k)'
  BY <1>11 DEF JsonFill, Goto, Crash, At, NoCrash, RegistryUnchanged
<1>12. ASSUME NEW w \in Workers, JsonCopy(w) PROVE Storing(k)'
  BY <1>12 DEF JsonCopy, Return, IdleWorker, At, NoCrash, RegistryUnchanged
<1>13. ASSUME NEW w \in Workers, TouchFind(w) PROVE Storing(k)'
  BY <1>13 DEF TouchFind, Goto, AfterTouch, Return, IdleWorker, At, NoCrash, RegistryUnchanged
<1>14. ASSUME NEW w \in Workers, TouchWrite(w) PROVE Storing(k)'
  BY <1>14 DEF TouchWrite, Move, Crash, Return, IdleWorker, At, NoCrash, RegistryUnchanged
<1>15. ASSUME NEW w \in Workers, LivingFind(w) PROVE Storing(k)'
  BY <1>15 DEF LivingFind, Goto, At, NoCrash, RegistryUnchanged
<1>16. ASSUME NEW w \in Workers, LivingWrite(w) PROVE Storing(k)'
  BY <1>16 DEF LivingWrite, WriteThrough, Goto, Crash, At, NoCrash, RegistryUnchanged
<1>17. ASSUME NEW w \in Workers, PidWrite(w) PROVE Storing(k)'
  BY <1>17 DEF PidWrite, WriteThrough, Goto, Crash, At, NoCrash, RegistryUnchanged
<1>18. ASSUME NEW w \in Workers, ExpFind(w) PROVE Storing(k)'
  BY <1>18 DEF ExpFind, Goto, Return, IdleWorker, At, NoCrash, RegistryUnchanged
<1>19. ASSUME NEW w \in Workers, ExpGet(w) PROVE Storing(k)'
  BY <1>19 DEF ExpGet, Crash, Return, IdleWorker, At, NoCrash, RegistryUnchanged
<1>20. ASSUME NEW w \in Workers, ListNext(w) PROVE Storing(k)'
  BY <1>20 DEF ListNext, Crash, At, NoCrash, RegistryUnchanged
<1>21. ASSUME NEW w \in Workers, ListCopy(w) PROVE Storing(k)'
  BY <1>21 DEF ListCopy, Goto, At, NoCrash, RegistryUnchanged
<1>22. ASSUME NEW w \in Workers, ListEnd(w) PROVE Storing(k)'
  BY <1>22 DEF ListEnd, Return, IdleWorker, At, NoCrash, RegistryUnchanged
<1>23. ASSUME NEW w \in Workers, ListDangling(w) PROVE Storing(k)'
  BY <1>23 DEF ListDangling, Goto, Crash, Return, IdleWorker, At, NoCrash, RegistryUnchanged
<1>24. CASE SweepBegin
  BY <1>24 DEF SweepBegin, Sweep, At, NoCrash, RegistryUnchanged
<1>25. CASE SweepVisit
  BY <1>25 DEF SweepVisit, Sweep, At, NoCrash, RegistryUnchanged
<1>26. CASE SweepRead
  BY <1>26 DEF SweepRead, Sweep, At, NoCrash, RegistryUnchanged
<1>27. CASE SweepErasePhase
  BY <1>27 DEF SweepErasePhase, Sweep, At, NoCrash, RegistryUnchanged
<1>28. CASE SweepErase
  <2>1. PICK j \in sweep.expiredKeys :
          /\ hlsProcessors' = [hlsProcessors EXCEPT ![j] = Absent]
          /\ worker' = [w \in Workers |-> AfterErase(w, j)]
    BY <1>28 DEF SweepErase
  <2>2. j # k
    BY <2>1, ScheduleAssumption
  <2>3. QED
    BY <2>1, <2>2 DEF AfterErase
<1>29. CASE SweepSleep
  BY <1>29 DEF SweepSleep, Sweep, At, NoCrash, RegistryUnchanged
<1>30. CASE Tick
  <2>1. \A w \in Workers : /\ worker'[w].pc = worker[w].pc /\ worker'[w].op = worker[w].op
                           /\ worker'[w].id = worker[w].id /\ worker'[w].ptr = worker[w].ptr
                           /\ worker'[w].raced = worker[w].raced
    BY <1>30 DEF Tick, TypeOK, WorkerRecords
  <2>2. hlsProcessors' = hlsProcessors
    BY <1>30 DEF Tick
  <2>3. QED
    BY <2>1, <2>2
<1>31. CASE UNCHANGED vars
  BY <1>31, SMTT(30) DEF vars
<1>32. QED
  BY <1>1, <1>2, <1>3, <1>4, <1>5, <1>6, <1>7, <1>8, <1>9, <1>10, <1>10a, <1>10b, <1>11, <1>12, <1>13, <1>14, <1>15, <1>16, <1>17, <1>18, <1>19, <1>20, <1>21, <1>22, <1>23, <1>24, <1>25, <1>26, <1>27, <1>28, <1>29, <1>30, <1>31 DEF Next, Request, Handler, Open,
     UpdateLastAccessTime, MuxerStatus, List, CheckSession

LEMMA FoundStep ==
  ASSUME TypeInv, FoundUnlessRaced, OpenHoldsEntry, [Next]_vars
  PROVE  FoundUnlessRaced' /\ OpenHoldsEntry'
<1> USE DEF TypeInv, TypeOK, ControlOK, WorkerRecords, OpenPCs, TouchPCs, StatusPCs, ListPCs,
     FoundUnlessRaced, OpenHoldsEntry, Found, PastFind
<1>1. ASSUME NEW w \in Workers, OpenRequest(w) PROVE FoundUnlessRaced' /\ OpenHoldsEntry'
  BY <1>1 DEF OpenRequest, Accept, At, NoCrash, RegistryUnchanged
<1>2. ASSUME NEW w \in Workers, HeartbeatRequest(w) PROVE FoundUnlessRaced' /\ OpenHoldsEntry'
  BY <1>2 DEF HeartbeatRequest, Accept, At, NoCrash, RegistryUnchanged
<1>3. ASSUME NEW w \in Workers, StatusRequest(w) PROVE FoundUnlessRaced' /\ OpenHoldsEntry'
  BY <1>3 DEF StatusRequest, Accept, At, NoCrash, RegistryUnchanged
<1>4. ASSUME NEW w \in Workers, ListRequest(w) PROVE FoundUnlessRaced' /\ OpenHoldsEntry'
  BY <1>4 DEF ListRequest, Accept, At, NoCrash, RegistryUnchanged
<1>5. ASSUME NEW w \in Workers, OpenRunning(w) PROVE FoundUnlessRaced' /\ OpenHoldsEntry'
  BY <1>5 DEF OpenRunning, Goto, At, NoCrash, RegistryUnchanged
<1>6. ASSUME NEW w \in Workers, OpenGet(w) PROVE FoundUnlessRaced' /\ OpenHoldsEntry'
  BY <1>6 DEF OpenGet, At, NoCrash, RegistryUnchanged
<1>7. ASSUME NEW w \in Workers, OpenSystemFails(w) PROVE FoundUnlessRaced' /\ OpenHoldsEntry'
  BY <1>7 DEF OpenSystemFails, Return, IdleWorker, At, NoCrash, RegistryUnchanged
<1>8. ASSUME NEW w \in Workers, OpenSystem(w) PROVE FoundUnlessRaced' /\ OpenHoldsEntry'
  BY <1>8 DEF OpenSystem, Move, At, NoCrash, RegistryUnchanged
<1>9. ASSUME NEW w \in Workers, AddFind(w) PROVE FoundUnlessRaced' /\ OpenHoldsEntry'
  BY <1>9 DEF AddFind, Goto, At, NoCrash, RegistryUnchanged
<1>10. ASSUME NEW w \in Workers, AddInsert(w) PROVE FoundUnlessRaced' /\ OpenHoldsEntry'
  <2>1. worker[w].id \in StreamIds
    BY <1>10 DEF AddInsert, At
  <2>2. \A k \in StreamIds : hlsProcessors[k] # Absent => hlsProcessors'[k] # Absent
    BY <1>10, <2>1, ScheduleAssumption DEF AddInsert
  <2>3. QED
    BY <1>10, <2>1, <2>2 DEF AddInsert, Goto, At
<1>10a. ASSUME NEW w \in Workers, AddStore(w) PROVE FoundUnlessRaced' /\ OpenHoldsEntry'
  <2>1. worker[w].id \in StreamIds /\ worker[w].ptr \in Allocators
    BY <1>10a DEF AddStore, At
  <2>2. hlsProcessors' = [hlsProcessors EXCEPT ![worker[w].id] = worker[w].ptr]
    BY <1>10a DEF AddStore
  <2>3. \A k \in StreamIds : hlsProcessors[k] # Absent => hlsProcessors'[k] # Absent
    BY <2>1, <2>2, ScheduleAssumption
  <2>4. hlsProcessors'[worker[w].id] # Absent
    BY <2>1, <2>2, ScheduleAssumption
  <2>5. QED
    BY <1>10a, <2>1, <2>3, <2>4 DEF AddStore, Move, At
<1>10b. ASSUME NEW w \in Workers, AddLost(w) PROVE FoundUnlessRaced' /\ OpenHoldsEntry'
  <2>1. worker[w].raced /\ hlsProcessors' = hlsProcessors
    BY <1>10b DEF AddLost, At, RegistryUnchanged
  <2>2. CASE Move(w, "json_fill", worker[w].ptr, 0)
    BY <2>1, <2>2 DEF Move
  <2>3. CASE UNCHANGED worker
    BY <2>1, <2>3
  <2>4. QED
    BY <1>10b, <2>2, <2>3 DEF AddLost
<1>11. ASSUME NEW w \in Workers, JsonFill(w) PROVE FoundUnlessRaced' /\ OpenHoldsEntry'
  BY <1>11 DEF JsonFill, Goto, Crash, At, NoCrash, RegistryUnchanged
<1>12. ASSUME NEW w \in Workers, JsonCopy(w) PROVE FoundUnlessRaced' /\ OpenHoldsEntry'
  BY <1>12 DEF JsonCopy, Return, IdleWorker, At, NoCrash, RegistryUnchanged
<1>13. ASSUME NEW w \in Workers, TouchFind(w) PROVE FoundUnlessRaced' /\ OpenHoldsEntry'
  BY <1>13, SMTT(30) DEF TouchFind, Goto, AfterTouch, Return, IdleWorker, At, NoCrash, RegistryUnchanged
<1>14. ASSUME NEW w \in Workers, TouchWrite(w) PROVE FoundUnlessRaced' /\ OpenHoldsEntry'
  BY <1>14 DEF TouchWrite, Move, Crash, Return, IdleWorker, At, NoCrash, RegistryUnchanged
<1>15. ASSUME NEW w \in Workers, LivingFind(w) PROVE FoundUnlessRaced' /\ OpenHoldsEntry'
  BY <1>15 DEF LivingFind, Goto, At, NoCrash, RegistryUnchanged
<1>16. ASSUME NEW w \in Workers, LivingWrite(w) PROVE FoundUnlessRaced' /\ OpenHoldsEntry'
  BY <1>16 DEF LivingWrite, WriteThrough, Goto, Crash, At, NoCrash, RegistryUnchanged
<1>17. ASSUME NEW w \in Workers, PidWrite(w) PROVE FoundUnlessRaced' /\ OpenHoldsEntry'
  BY <1>17 DEF PidWrite, WriteThrough, Goto, Crash, At, NoCrash, RegistryUnchanged
<1>18. ASSUME NEW w \in Workers, ExpFind(w) PROVE FoundUnlessRaced' /\ OpenHoldsEntry'
  BY <1>18 DEF ExpFind, Goto, Return, IdleWorker, At, NoCrash, RegistryUnchanged
<1>19. ASSUME NEW w \in Workers, ExpGet(w) PROVE FoundUnlessRaced' /\ OpenHoldsEntry'
  BY <1>19, SMTT(30) DEF ExpGet, Crash, Return, IdleWorker, At, NoCrash, RegistryUnchanged
<1>20. ASSUME NEW w \in Workers, ListNext(w) PROVE FoundUnlessRaced' /\ OpenHoldsEntry'
  BY <1>20 DEF ListNext, Crash, At, NoCrash, RegistryUnchanged
<1>21. ASSUME NEW w \in Workers, ListCopy(w) PROVE FoundUnlessRaced' /\ OpenHoldsEntry'
  BY <1>21 DEF ListCopy, Goto, At, NoCrash, RegistryUnchanged
<1>22. ASSUME NEW w \in Workers, ListEnd(w) PROVE FoundUnlessRaced' /\ OpenHoldsEntry'
  BY <1>22 DEF ListEnd, Return, IdleWorker, At, NoCrash, RegistryUnchanged
<1>23. ASSUME NEW w \in Workers, ListDangling(w) PROVE FoundUnlessRaced' /\ OpenHoldsEntry'
  BY <1>23 DEF ListDangling, Goto, Crash, Return, IdleWorker, At, NoCrash, RegistryUnchanged
<1>24. CASE SweepBegin
  BY <1>24 DEF SweepBegin, Sweep, At, NoCrash, RegistryUnchanged
<1>25. CASE SweepVisit
  BY <1>25 DEF SweepVisit, Sweep, At, NoCrash, RegistryUnchanged
<1>26. CASE SweepRead
  BY <1>26 DEF SweepRead, Sweep, At, NoCrash, RegistryUnchanged
<1>27. CASE SweepErasePhase
  BY <1>27 DEF SweepErasePhase, Sweep, At, NoCrash, RegistryUnchanged
<1>28. CASE SweepErase
  BY <1>28 DEF SweepErase, Sweep, AfterErase, At, NoCrash, RegistryUnchanged
<1>29. CASE SweepSleep
  BY <1>29 DEF SweepSleep, Sweep, At, NoCrash, RegistryUnchanged
<1>30. CASE Tick
  <2>1. \A w \in Workers : /\ worker'[w].pc = worker[w].pc /\ worker'[w].op = worker[w].op
                           /\ worker'[w].id = worker[w].id /\ worker'[w].ptr = worker[w].ptr
                           /\ worker'[w].raced = worker[w].raced
    BY <1>30 DEF Tick, TypeOK, WorkerRecords
  <2>2. hlsProcessors' = hlsProcessors
    BY <1>30 DEF Tick
  <2>3. QED
    BY <2>1, <2>2
<1>31. CASE UNCHANGED vars
  BY <1>31 DEF vars
<1>32. QED
  BY <1>1, <1>2, <1>3, <1>4, <1>5, <1>6, <1>7, <1>8, <1>9, <1>10, <1>10a, <1>10b, <1>11, <1>12, <1>13, <1>14, <1>15, <1>16, <1>17, <1>18, <1>19, <1>20, <1>21, <1>22, <1>23, <1>24, <1>25, <1>26, <1>27, <1>28, <1>29, <1>30, <1>31 DEF Next, Request, Handler, Open,
     UpdateLastAccessTime, MuxerStatus, List, CheckSession

LEMMA NullStep ==
  ASSUME TypeInv, FoundUnlessRaced, NullPtrHasDoomed, NullHasDoomed, [Next]_vars
  PROVE  NullPtrHasDoomed' /\ NullHasDoomed'
<1> USE DEF TypeInv, TypeOK, ControlOK, WorkerRecords, OpenPCs, TouchPCs, StatusPCs, ListPCs,
     NullPtrHasDoomed, NullHasDoomed
<1>0. \A k \in StreamIds :
        /\ \A v \in Workers : Doomed(v, k) => Doomed(v, k)'
        /\ Storing(k) /\ hlsProcessors'[k] = NULL => Storing(k)'
  BY DoomedStable, StoringStable
<1>1. ASSUME NEW w \in Workers, OpenRequest(w) PROVE NullPtrHasDoomed' /\ NullHasDoomed'
  BY <1>1, <1>0 DEF OpenRequest, Accept, At, NoCrash, RegistryUnchanged
<1>2. ASSUME NEW w \in Workers, HeartbeatRequest(w) PROVE NullPtrHasDoomed' /\ NullHasDoomed'
  BY <1>2, <1>0 DEF HeartbeatRequest, Accept, At, NoCrash, RegistryUnchanged
<1>3. ASSUME NEW w \in Workers, StatusRequest(w) PROVE NullPtrHasDoomed' /\ NullHasDoomed'
  BY <1>3, <1>0 DEF StatusRequest, Accept, At, NoCrash, RegistryUnchanged
<1>4. ASSUME NEW w \in Workers, ListRequest(w) PROVE NullPtrHasDoomed' /\ NullHasDoomed'
  BY <1>4, <1>0 DEF ListRequest, Accept, At, NoCrash, RegistryUnchanged
<1>5. ASSUME NEW w \in Workers, OpenRunning(w) PROVE NullPtrHasDoomed' /\ NullHasDoomed'
  BY <1>5, <1>0 DEF OpenRunning, Goto, At, NoCrash, RegistryUnchanged
<1>6. ASSUME NEW w \in Workers, OpenGet(w) PROVE NullPtrHasDoomed' /\ NullHasDoomed'
  <2>1. PICK k \in StreamIds : k = worker[w].id
    BY <1>6 DEF OpenGet, At
  <2> DEFINE p == IF Found(k) THEN hlsProcessors[k] ELSE NULL
  <2>2. /\ worker' = [worker EXCEPT ![w] =
              [pc |-> "touch_find", op |-> @.op, id |-> k, ptr |-> p, lag |-> @.lag,
               todo |-> @.todo, raced |-> @.raced \/ Storing(k)]]
        /\ hlsProcessors' = [hlsProcessors EXCEPT ![k] = p]
    BY <1>6, <2>1 DEF OpenGet
  <2>3. p = NULL => \E v \in Workers : Doomed(v, k)'
    <3>1. CASE p = NULL /\ (worker[w].raced \/ Storing(k))
      <4>1. worker[w].op = "open"
        BY <1>6 DEF OpenGet, At
      <4>2. /\ worker'[w].op = "open" /\ worker'[w].id = k /\ worker'[w].ptr = NULL
            /\ worker'[w].pc = "touch_find"
        BY <2>2, <3>1, <4>1
      <4>3. worker'[w].raced
        BY <2>2, <3>1
      <4>4. QED
        BY <4>2, <4>3 DEF Doomed
    <3>2. CASE ~Found(k)
      <4>1. worker[w].raced
        BY <1>6, <2>1, <3>2 DEF OpenGet, At, FoundUnlessRaced, PastFind
      <4>2. QED
        BY <3>1, <4>1
    <3>3. CASE Found(k) /\ ~Storing(k)
      BY <1>0, <2>1, <3>3
    <3>4. QED
      BY <3>1, <3>2, <3>3
  <2> HIDE DEF p
  <2>4. NullPtrHasDoomed'
    <3> SUFFICES ASSUME NEW u \in Workers, (worker[u].op = "open")', (worker[u].ptr = NULL)',
                        (worker[u].pc \in {"touch_find", "touch_write", "json_fill"})'
                 PROVE  \E v \in Workers : Doomed(v, worker[u].id)'
      OBVIOUS
    <3>1. CASE u = w
      BY <2>1, <2>2, <2>3, <3>1
    <3>2. CASE u # w
      <4>1. worker'[u] = worker[u]
        BY <2>2, <3>2
      <4>2. worker[u].id \in StreamIds
        BY <4>1
      <4>3. QED
        BY <1>0, <4>1, <4>2
    <3>3. QED
      BY <3>1, <3>2
  <2>5. NullHasDoomed'
    BY <1>0, <2>1, <2>2, <2>3
  <2>6. QED
    BY <2>4, <2>5
<1>7. ASSUME NEW w \in Workers, OpenSystemFails(w) PROVE NullPtrHasDoomed' /\ NullHasDoomed'
  BY <1>7, <1>0 DEF OpenSystemFails, Return, IdleWorker, At, NoCrash, RegistryUnchanged
<1>8. ASSUME NEW w \in Workers, OpenSystem(w) PROVE NullPtrHasDoomed' /\ NullHasDoomed'
  BY <1>8, <1>0 DEF OpenSystem, Move, At, NoCrash, RegistryUnchanged
<1>9. ASSUME NEW w \in Workers, AddFind(w) PROVE NullPtrHasDoomed' /\ NullHasDoomed'
  <2>1. worker[w].ptr # NULL /\ hlsProcessors' = hlsProcessors
    BY <1>9, ScheduleAssumption DEF AddFind, At, RegistryUnchanged
  <2>2. QED
    BY <1>9, <1>0, <2>1 DEF AddFind, Goto, At
<1>10. ASSUME NEW w \in Workers, AddInsert(w) PROVE NullPtrHasDoomed' /\ NullHasDoomed'
  <2>1. PICK k \in StreamIds : k = worker[w].id
    BY <1>10 DEF AddInsert, At
  <2>2. Storing(k)'
    BY <1>10, <2>1 DEF AddInsert, Goto, At, Storing
  <2>3. \A j \in StreamIds : j # k => hlsProcessors'[j] = hlsProcessors[j]
    BY <1>10, <2>1 DEF AddInsert
  <2>4. QED
    BY <1>10, <1>0, <2>1, <2>2, <2>3 DEF AddInsert, Goto, At
<1>10a. ASSUME NEW w \in Workers, AddStore(w) PROVE NullPtrHasDoomed' /\ NullHasDoomed'
  <2>1. worker[w].ptr # NULL /\ worker[w].id \in StreamIds
    BY <1>10a, ScheduleAssumption DEF AddStore, At
  <2>2. \A k \in StreamIds : hlsProcessors'[k] = NULL => hlsProcessors[k] = NULL
    BY <1>10a, <2>1 DEF AddStore
  <2>3. QED
    BY <1>10a, <1>0, <2>1, <2>2 DEF AddStore, Move, At
<1>10b. ASSUME NEW w \in Workers, AddLost(w) PROVE NullPtrHasDoomed' /\ NullHasDoomed'
  <2>1. worker[w].ptr # NULL /\ hlsProcessors' = hlsProcessors
    BY <1>10b, ScheduleAssumption DEF AddLost, At, RegistryUnchanged
  <2>2. QED
    BY <1>10b, <1>0, <2>1 DEF AddLost, Move, At
<1>11. ASSUME NEW w \in Workers, JsonFill(w) PROVE NullPtrHasDoomed' /\ NullHasDoomed'
  BY <1>11, <1>0 DEF JsonFill, Goto, Crash, At, NoCrash, RegistryUnchanged
<1>12. ASSUME NEW w \in Workers, JsonCopy(w) PROVE NullPtrHasDoomed' /\ NullHasDoomed'
  BY <1>12, <1>0 DEF JsonCopy, Return, IdleWorker, At, NoCrash, RegistryUnchanged
<1>13. ASSUME NEW w \in Workers, TouchFind(w) PROVE NullPtrHasDoomed' /\ NullHasDoomed'
  BY <1>13, <1>0, SMTT(30) DEF TouchFind, Goto, AfterTouch, Return, IdleWorker, At, NoCrash, RegistryUnchanged
<1>14. ASSUME NEW w \in Workers, TouchWrite(w) PROVE NullPtrHasDoomed' /\ NullHasDoomed'
  BY <1>14, <1>0 DEF TouchWrite, Move, Crash, Return, IdleWorker, At, NoCrash, RegistryUnchanged
<1>15. ASSUME NEW w \in Workers, LivingFind(w) PROVE NullPtrHasDoomed' /\ NullHasDoomed'
  BY <1>15, <1>0 DEF LivingFind, Goto, At, NoCrash, RegistryUnchanged
<1>16. ASSUME NEW w \in Workers, LivingWrite(w) PROVE NullPtrHasDoomed' /\ NullHasDoomed'
  <2>1. worker[w].op = "status" /\ hlsProcessors' = hlsProcessors
    BY <1>16 DEF LivingWrite, WriteThrough, At, RegistryUnchanged
  <2>2. CASE Goto(w, "pid_write")
    BY <1>0, <2>1, <2>2 DEF Goto
  <2>3. CASE UNCHANGED worker
    BY <1>0, <2>1, <2>3
  <2>4. QED
    BY <1>16, <2>2, <2>3 DEF LivingWrite, WriteThrough
<1>17. ASSUME NEW w \in Workers, PidWrite(w) PROVE NullPtrHasDoomed' /\ NullHasDoomed'
  <2>1. worker[w].op = "status" /\ hlsProcessors' = hlsProcessors
    BY <1>17 DEF PidWrite, WriteThrough, At, RegistryUnchanged
  <2>2. CASE Goto(w, "exp_find")
    BY <1>0, <2>1, <2>2 DEF Goto
  <2>3. CASE UNCHANGED worker
    BY <1>0, <2>1, <2>3
  <2>4. QED
    BY <1>17, <2>2, <2>3 DEF PidWrite, WriteThrough
<1>18. ASSUME NEW w \in Workers, ExpFind(w) PROVE NullPtrHasDoomed' /\ NullHasDoomed'
  BY <1>18, <1>0 DEF ExpFind, Goto, Return, IdleWorker, At, NoCrash, RegistryUnchanged
<1>19. ASSUME NEW w \in Workers, ExpGet(w) PROVE NullPtrHasDoomed' /\ NullHasDoomed'
  BY <1>19, <1>0 DEF ExpGet, Crash, Return, IdleWorker, At, NoCrash, RegistryUnchanged
<1>20. ASSUME NEW w \in Workers, ListNext(w) PROVE NullPtrHasDoomed' /\ NullHasDoomed'
  BY <1>20, <1>0 DEF ListNext, Crash, At, NoCrash, RegistryUnchanged
<1>21. ASSUME NEW w \in Workers, ListCopy(w) PROVE NullPtrHasDoomed' /\ NullHasDoomed'
  BY <1>21, <1>0 DEF ListCopy, Goto, At, NoCrash, RegistryUnchanged
<1>22. ASSUME NEW w \in Workers, ListEnd(w) PROVE NullPtrHasDoomed' /\ NullHasDoomed'
  BY <1>22, <1>0 DEF ListEnd, Return, IdleWorker, At, NoCrash, RegistryUnchanged
<1>23. ASSUME NEW w \in Workers, ListDangling(w) PROVE NullPtrHasDoomed' /\ NullHasDoomed'
  BY <1>23, <1>0 DEF ListDangling, Goto, Crash, Return, IdleWorker, At, NoCrash, RegistryUnchanged
<1>24. CASE SweepBegin
  BY <1>24, <1>0 DEF SweepBegin, Sweep, At, NoCrash, RegistryUnchanged
<1>25. CASE SweepVisit
  BY <1>25, <1>0 DEF SweepVisit, Sweep, At, NoCrash, RegistryUnchanged
<1>26. CASE SweepRead
  BY <1>26, <1>0 DEF SweepRead, Sweep, At, NoCrash, RegistryUnchanged
<1>27. CASE SweepErasePhase
  BY <1>27, <1>0 DEF SweepErasePhase, Sweep, At, NoCrash, RegistryUnchanged
<1>28. CASE SweepErase
  <2>1. PICK k \in sweep.expiredKeys :
          /\ hlsProcessors' = [hlsProcessors EXCEPT ![k] = Absent]
          /\ worker' = [w \in Workers |-> AfterErase(w, k)]
    BY <1>28 DEF SweepErase
  <2>2. \A w \in Workers :
          /\ worker'[w].op = worker[w].op /\ worker'[w].id = worker[w].id
          /\ worker'[w].ptr = worker[w].ptr
          /\ worker'[w].pc \in {"touch_find", "touch_write", "json_fill"}
               => worker'[w].pc = worker[w].pc
    BY <2>1 DEF AfterErase
  <2>3. \A j \in StreamIds : hlsProcessors'[j] = NULL => hlsProcessors[j] = NULL
    BY <2>1, ScheduleAssumption
  <2>4. QED
    BY <1>0, <2>2, <2>3
<1>29. CASE SweepSleep
  BY <1>29, <1>0 DEF SweepSleep, Sweep, At, NoCrash, RegistryUnchanged
<1>30. CASE Tick
  <2>1. \A w \in Workers : /\ worker'[w].pc = worker[w].pc /\ worker'[w].op = worker[w].op
                           /\ worker'[w].id = worker[w].id /\ worker'[w].ptr = worker[w].ptr
                           /\ worker'[w].raced = worker[w].raced
    BY <1>30 DEF Tick, TypeOK, WorkerRecords
  <2>2. hlsProcessors' = hlsProcessors
    BY <1>30 DEF Tick
  <2>3. QED
    BY <1>0, <2>1, <2>2
<1>31. CASE UNCHANGED vars
  BY <1>31, <1>0 DEF vars
<1>32. QED
  BY <1>1, <1>2, <1>3, <1>4, <1>5, <1>6, <1>7, <1>8, <1>9, <1>10, <1>10a, <1>10b, <1>11, <1>12, <1>13, <1>14, <1>15, <1>16, <1>17, <1>18, <1>19, <1>20, <1>21, <1>22, <1>23, <1>24, <1>25, <1>26, <1>27, <1>28, <1>29, <1>30, <1>31 DEF Next, Request, Handler, Open,
     UpdateLastAccessTime, MuxerStatus, List, CheckSession

LEMMA NoEntryMeansRaced ==
  ASSUME FoundUnlessRaced, NullHasDoomed, NEW w \in Workers, worker[w].id \in StreamIds,
         worker[w].pc \in PastFind, hlsProcessors[worker[w].id] \in {NULL, Absent}
  PROVE  \E v \in Workers : worker[v].raced \/ worker[v].pc = "add_store"
BY DEF FoundUnlessRaced, NullHasDoomed, Doomed, Found, Storing

LEMMA CrashStep ==
  ASSUME TypeInv, FoundUnlessRaced, NullPtrHasDoomed, NullHasDoomed, CrashOnlyIfRaced, [Next]_vars
  PROVE  CrashOnlyIfRaced'
<1> USE DEF TypeInv, TypeOK, ControlOK, WorkerRecords, OpenPCs, TouchPCs, StatusPCs, ListPCs,
     CrashOnlyIfRaced
<1>1. ASSUME NEW w \in Workers, OpenRequest(w) PROVE CrashOnlyIfRaced'
  BY <1>1 DEF OpenRequest, Accept, At, NoCrash, RegistryUnchanged
<1>2. ASSUME NEW w \in Workers, HeartbeatRequest(w) PROVE CrashOnlyIfRaced'
  BY <1>2 DEF HeartbeatRequest, Accept, At, NoCrash, RegistryUnchanged
<1>3. ASSUME NEW w \in Workers, StatusRequest(w) PROVE CrashOnlyIfRaced'
  BY <1>3 DEF StatusRequest, Accept, At, NoCrash, RegistryUnchanged
<1>4. ASSUME NEW w \in Workers, ListRequest(w) PROVE CrashOnlyIfRaced'
  BY <1>4 DEF ListRequest, Accept, At, NoCrash, RegistryUnchanged
<1>5. ASSUME NEW w \in Workers, OpenRunning(w) PROVE CrashOnlyIfRaced'
  BY <1>5 DEF OpenRunning, Goto, At, NoCrash, RegistryUnchanged
<1>6. ASSUME NEW w \in Workers, OpenGet(w) PROVE CrashOnlyIfRaced'
  BY <1>6 DEF OpenGet, At, NoCrash, RegistryUnchanged
<1>7. ASSUME NEW w \in Workers, OpenSystemFails(w) PROVE CrashOnlyIfRaced'
  BY <1>7 DEF OpenSystemFails, Return, IdleWorker, At, NoCrash, RegistryUnchanged
<1>8. ASSUME NEW w \in Workers, OpenSystem(w) PROVE CrashOnlyIfRaced'
  BY <1>8 DEF OpenSystem, Move, At, NoCrash, RegistryUnchanged
<1>9. ASSUME NEW w \in Workers, AddFind(w) PROVE CrashOnlyIfRaced'
  BY <1>9 DEF AddFind, Goto, At, NoCrash, RegistryUnchanged
<1>10. ASSUME NEW w \in Workers, AddInsert(w) PROVE CrashOnlyIfRaced'
  BY <1>10 DEF AddInsert, Goto, At, NoCrash, RegistryUnchanged
<1>10a. ASSUME NEW w \in Workers, AddStore(w) PROVE CrashOnlyIfRaced'
  BY <1>10a DEF AddStore, Move, At, NoCrash, RegistryUnchanged
<1>10b. ASSUME NEW w \in Workers, AddLost(w) PROVE CrashOnlyIfRaced'
  BY <1>10b DEF AddLost, Move, Crash, At, NoCrash, RegistryUnchanged
<1>11. ASSUME NEW w \in Workers, JsonFill(w) PROVE CrashOnlyIfRaced'
  <2>1. CASE crashed' = FALSE
    BY <2>1
  <2>2. CASE crashed' # FALSE
    <3>1. worker' = worker /\ worker[w].ptr = NULL /\ worker[w].pc = "json_fill"
      BY <1>11, <2>2 DEF JsonFill, Goto, NoCrash, At
    <3>2. \E v \in Workers : worker[v].raced \/ worker[v].pc = "add_store"
      BY <3>1 DEF NullPtrHasDoomed, Doomed
    <3>3. QED
      BY <3>1, <3>2
  <2>3. QED
    BY <2>1, <2>2
<1>12. ASSUME NEW w \in Workers, JsonCopy(w) PROVE CrashOnlyIfRaced'
  BY <1>12 DEF JsonCopy, Return, IdleWorker, At, NoCrash, RegistryUnchanged
<1>13. ASSUME NEW w \in Workers, TouchFind(w) PROVE CrashOnlyIfRaced'
  BY <1>13 DEF TouchFind, Goto, AfterTouch, Return, IdleWorker, At, NoCrash, RegistryUnchanged
<1>14. ASSUME NEW w \in Workers, TouchWrite(w) PROVE CrashOnlyIfRaced'
  <2>1. CASE crashed' = FALSE
    BY <2>1
  <2>2. CASE crashed' # FALSE
    <3>1. worker' = worker /\ worker[w].pc \in PastFind
          /\ hlsProcessors[worker[w].id] \in {NULL, Absent}
      BY <1>14, <2>2 DEF TouchWrite, PastFind, Goto, NoCrash, At
    <3>2. \E v \in Workers : worker[v].raced \/ worker[v].pc = "add_store"
      BY <3>1, NoEntryMeansRaced, IdInStreams DEF PastFind
    <3>3. QED
      BY <3>1, <3>2
  <2>3. QED
    BY <2>1, <2>2
<1>15. ASSUME NEW w \in Workers, LivingFind(w) PROVE CrashOnlyIfRaced'
  BY <1>15 DEF LivingFind, Goto, At, NoCrash, RegistryUnchanged
<1>16. ASSUME NEW w \in Workers, LivingWrite(w) PROVE CrashOnlyIfRaced'
  <2>1. CASE crashed' = FALSE
    BY <2>1
  <2>2. CASE crashed' # FALSE
    <3>1. worker' = worker /\ worker[w].pc \in PastFind
          /\ hlsProcessors[worker[w].id] \in {NULL, Absent}
      BY <1>16, <2>2 DEF LivingWrite, WriteThrough, PastFind, Goto, NoCrash, At
    <3>2. \E v \in Workers : worker[v].raced \/ worker[v].pc = "add_store"
      BY <3>1, NoEntryMeansRaced, IdInStreams DEF PastFind
    <3>3. QED
      BY <3>1, <3>2
  <2>3. QED
    BY <2>1, <2>2
<1>17. ASSUME NEW w \in Workers, PidWrite(w) PROVE CrashOnlyIfRaced'
  <2>1. CASE crashed' = FALSE
    BY <2>1
  <2>2. CASE crashed' # FALSE
    <3>1. worker' = worker /\ worker[w].pc \in PastFind
          /\ hlsProcessors[worker[w].id] \in {NULL, Absent}
      BY <1>17, <2>2 DEF PidWrite, WriteThrough, PastFind, Goto, NoCrash, At
    <3>2. \E v \in Workers : worker[v].raced \/ worker[v].pc = "add_store"
      BY <3>1, NoEntryMeansRaced, IdInStreams DEF PastFind
    <3>3. QED
      BY <3>1, <3>2
  <2>3. QED
    BY <2>1, <2>2
<1>18. ASSUME NEW w \in Workers, ExpFind(w) PROVE CrashOnlyIfRaced'
  BY <1>18 DEF ExpFind, Goto, Return, IdleWorker, At, NoCrash, RegistryUnchanged
<1>19. ASSUME NEW w \in Workers, ExpGet(w) PROVE CrashOnlyIfRaced'
  <2>1. CASE crashed' = FALSE
    BY <2>1
  <2>2. CASE crashed' # FALSE
    <3>1. worker' = worker /\ worker[w].pc \in PastFind
          /\ hlsProcessors[worker[w].id] \in {NULL, Absent}
      BY <1>19, <2>2 DEF ExpGet, PastFind, Goto, NoCrash, At
    <3>2. \E v \in Workers : worker[v].raced \/ worker[v].pc = "add_store"
      BY <3>1, NoEntryMeansRaced, IdInStreams DEF PastFind
    <3>3. QED
      BY <3>1, <3>2
  <2>3. QED
    BY <2>1, <2>2
<1>20. ASSUME NEW w \in Workers, ListNext(w) PROVE CrashOnlyIfRaced'
  <2>1. CASE crashed' = FALSE
    BY <2>1
  <2>2. CASE crashed' # FALSE
    <3>1. PICK k \in StreamIds : hlsProcessors[k] = NULL
      BY <1>20, <2>2 DEF ListNext, NoCrash, At
    <3>2. Storing(k) \/ \E v \in Workers : Doomed(v, k)
      BY <3>1 DEF NullHasDoomed
    <3>3. Storing(k)' \/ \E v \in Workers : Doomed(v, k)'
      <4>1. hlsProcessors'[k] = NULL
        BY <1>20, <3>1 DEF ListNext
      <4>2. QED
        BY <3>2, <4>1, DoomedStable, StoringStable
    <3>4. QED
      BY <3>3 DEF Doomed, Storing
  <2>3. QED
    BY <2>1, <2>2
<1>21. ASSUME NEW w \in Workers, ListCopy(w) PROVE CrashOnlyIfRaced'
  BY <1>21 DEF ListCopy, Goto, At, NoCrash, RegistryUnchanged
<1>22. ASSUME NEW w \in Workers, ListEnd(w) PROVE CrashOnlyIfRaced'
  BY <1>22 DEF ListEnd, Return, IdleWorker, At, NoCrash, RegistryUnchanged
<1>23. ASSUME NEW w \in Workers, ListDangling(w) PROVE CrashOnlyIfRaced'
  <2>1. CASE crashed' = FALSE
    BY <2>1
  <2>2. CASE crashed' # FALSE
    <3>1. worker' = worker /\ worker[w].pc = "list_dangling"
      BY <1>23, <2>2 DEF ListDangling, Goto, NoCrash, At
    <3>2. \E v \in Workers : worker[v].raced \/ worker[v].pc = "add_store"
      BY <3>1
    <3>3. QED
      BY <3>1, <3>2
  <2>3. QED
    BY <2>1, <2>2
<1>24. CASE SweepBegin
  BY <1>24 DEF SweepBegin, Sweep, At, NoCrash, RegistryUnchanged
<1>25. CASE SweepVisit
  BY <1>25 DEF SweepVisit, Sweep, At, NoCrash, RegistryUnchanged
<1>26. CASE SweepRead
  BY <1>26 DEF SweepRead, Sweep, At, NoCrash, RegistryUnchanged
<1>27. CASE SweepErasePhase
  BY <1>27 DEF SweepErasePhase, Sweep, At, NoCrash, RegistryUnchanged
<1>28. CASE SweepErase
  BY <1>28 DEF SweepErase, Sweep, AfterErase, At, NoCrash, RegistryUnchanged
<1>29. CASE SweepSleep
  BY <1>29 DEF SweepSleep, Sweep, At, NoCrash, RegistryUnchanged
<1>30. CASE Tick
  BY <1>30 DEF Tick, Older, SweepHeld, ClockHeld, MaxIdle, At, NoCrash, RegistryUnchanged
<1>31. CASE UNCHANGED vars
  BY <1>31 DEF vars
<1>32. QED
  BY <1>1, <1>2, <1>3, <1>4, <1>5, <1>6, <1>7, <1>8, <1>9, <1>10, <1>10a, <1>10b, <1>11, <1>12, <1>13, <1>14, <1>15, <1>16, <1>17, <1>18, <1>19, <1>20, <1>21, <1>22, <1>23, <1>24, <1>25, <1>26, <1>27, <1>28, <1>29, <1>30, <1>31 DEF Next, Request, Handler, Open,
     UpdateLastAccessTime, MuxerStatus, List, CheckSession

LEMMA SafeInit == Init => SafeInv
<1> SUFFICES ASSUME Init PROVE SafeInv
  OBVIOUS
<1>1. TypeInv
  BY TypeInit
<1>2. FoundUnlessRaced /\ OpenHoldsEntry /\ NullPtrHasDoomed
  BY DEF Init, IdleWorker, FoundUnlessRaced, OpenHoldsEntry, NullPtrHasDoomed, PastFind
<1>3. NullHasDoomed /\ CrashOnlyIfRaced
  BY ScheduleAssumption DEF Init, NullHasDoomed, CrashOnlyIfRaced
<1>4. QED
  BY <1>1, <1>2, <1>3 DEF SafeInv

LEMMA SafeStep == SafeInv /\ [Next]_vars => SafeInv'
<1> SUFFICES ASSUME SafeInv, [Next]_vars PROVE SafeInv'
  OBVIOUS
<1> USE DEF SafeInv
<1>1. TypeInv'
  BY TypeStep, ControlStep DEF TypeInv
<1>2. QED
  BY <1>1, FoundStep, NullStep, CrashStep

LEMMA SafeInvariant == Spec => []SafeInv
BY SafeInit, SafeStep, PTL DEF Spec

-----------------------------------------------------------------------------
(* The theorems *)

(* Every variable keeps its type: Schedule and its handlers never confuse a *)
(* stream id, an allocator and the two null values.                         *)
THEOREM TypeCorrect == Spec => []TypeOK
<1>1. SafeInv => TypeOK
  BY DEF SafeInv, TypeInv
<1>2. QED
  BY <1>1, SafeInvariant, PTL

(* However many data threads and streams there are, a handler of            *)
(* HlsController dereferences a null or dangling pointer only when          *)
(* check_session erased its stream during the handler, or when another open *)
(* was between operator[] and the assignment in Schedule::add.              *)
THEOREM CrashNeedsRace == Spec => []CrashOnlyIfRaced
<1>1. SafeInv => CrashOnlyIfRaced
  BY DEF SafeInv
<1>2. QED
  BY <1>1, SafeInvariant, PTL

(* A null pointer in hlsProcessors always has an open behind it: one that   *)
(* is in Schedule::add and stores the allocator next, or one that got the   *)
(* null from operator[] in HlsController::open and will dereference it.     *)
THEOREM NullEntryDooms == Spec => []NullEntryHasOwner
<1>1. SafeInv => NullEntryHasOwner
  BY DEF SafeInv, NullHasDoomed, Doomed, NullEntryHasOwner
<1>2. QED
  BY <1>1, SafeInvariant, PTL

(* An open that answers 200 has left the stream registered, for any number  *)
(* of concurrent opens, unless the sweeper took it meanwhile or the open    *)
(* ran into another one that was just adding it.                            *)
THEOREM OpenRegisters == Spec => []OpenReplyMeansSession
<1>1. SafeInv => OpenReplyMeansSession
  BY DEF SafeInv, OpenHoldsEntry, OpenReplyMeansSession
<1>2. QED
  BY <1>1, SafeInvariant, PTL

-----------------------------------------------------------------------------
(* Ages.  The steps are sorted first: most of them are control only.       *)

Adding == {"add_find", "add_insert", "add_store", "add_lost"}

(* A step of thread w that touches neither the map nor an age.  It leads    *)
(* into "system" and "add_insert" only past a find() that missed, and out   *)
(* of Schedule::add only past one that hit.                                 *)
Plain(w) ==
  /\ UNCHANGED <<hlsProcessors, idle, spawned, sweep>>
  /\ \A v \in Workers : v # w => worker'[v] = worker[v]
  /\ worker'[w].ptr \in {worker[w].ptr, NULL}
  /\ worker'[w].pc \in Adding \cup {"system"} =>
       \/ worker'[w] = worker[w]
       \/ /\ worker'[w].id = worker[w].id /\ ~Found(worker[w].id)
          /\ \/ worker[w].pc = "running" /\ worker'[w].pc = "system"
             \/ /\ worker[w].pc = "add_find" /\ worker'[w].pc = "add_insert"
                /\ worker'[w].ptr = worker[w].ptr
  /\ worker[w].pc \in {"add_find", "add_insert"} /\ ~Found(worker[w].id) =>
       worker'[w].pc \in {"add_find", "add_insert"} /\ worker'[w].id = worker[w].id

(* A step of the sweeper that erases nothing *)
SweepOnly ==
  /\ SweepBegin \/ SweepVisit \/ SweepRead \/ SweepErasePhase \/ SweepSleep
  /\ UNCHANGED <<hlsProcessors, idle, spawned, worker>>

LEMMA StepKinds ==
  ASSUME TypeInv, [Next]_vars
  PROVE  \/ \E w \in Workers : \/ Plain(w) \/ OpenGet(w) \/ OpenSystem(w) \/ AddInsert(w)
                               \/ AddStore(w) \/ TouchWrite(w)
         \/ SweepOnly \/ SweepErase \/ Tick
         \/ UNCHANGED vars
<1> USE DEF TypeInv, TypeOK, WorkerRecords, Plain, Adding
<1>1. ASSUME NEW w \in Workers, OpenRequest(w) PROVE Plain(w)
  BY <1>1 DEF OpenRequest, Accept, At, RegistryUnchanged
<1>2. ASSUME NEW w \in Workers, HeartbeatRequest(w) PROVE Plain(w)
  BY <1>2 DEF HeartbeatRequest, Accept, At, RegistryUnchanged
<1>3. ASSUME NEW w \in Workers, StatusRequest(w) PROVE Plain(w)
  BY <1>3 DEF StatusRequest, Accept, At, RegistryUnchanged
<1>4. ASSUME NEW w \in Workers, ListRequest(w) PROVE Plain(w)
  BY <1>4 DEF ListRequest, Accept, At, RegistryUnchanged
<1>5. ASSUME NEW w \in Workers, OpenRunning(w) PROVE Plain(w)
  BY <1>5 DEF OpenRunning, Goto, At, RegistryUnchanged
<1>6. ASSUME NEW w \in Workers, OpenSystemFails(w) PROVE Plain(w)
  BY <1>6 DEF OpenSystemFails, Return, IdleWorker, At, RegistryUnchanged
<1>7. ASSUME NEW w \in Workers, AddFind(w) PROVE Plain(w)
  BY <1>7 DEF AddFind, Goto, At, RegistryUnchanged
<1>8. ASSUME NEW w \in Workers, AddLost(w) PROVE Plain(w)
  BY <1>8 DEF AddLost, Move, At, RegistryUnchanged
<1>9. ASSUME NEW w \in Workers, JsonFill(w) PROVE Plain(w)
  BY <1>9 DEF JsonFill, Goto, At
<1>10. ASSUME NEW w \in Workers, JsonCopy(w) PROVE Plain(w)
  BY <1>10 DEF JsonCopy, Return, IdleWorker, At, RegistryUnchanged
<1>11. ASSUME NEW w \in Workers, TouchFind(w) PROVE Plain(w)
  BY <1>11 DEF TouchFind, Goto, AfterTouch, Return, IdleWorker, At, RegistryUnchanged
<1>12. ASSUME NEW w \in Workers, LivingFind(w) PROVE Plain(w)
  BY <1>12 DEF LivingFind, Goto, At, RegistryUnchanged
<1>13. ASSUME NEW w \in Workers, LivingWrite(w) PROVE Plain(w)
  BY <1>13 DEF LivingWrite, WriteThrough, Goto, At, RegistryUnchanged
<1>14. ASSUME NEW w \in Workers, PidWrite(w) PROVE Plain(w)
  BY <1>14 DEF PidWrite, WriteThrough, Goto, At, RegistryUnchanged
<1>15. ASSUME NEW w \in Workers, ExpFind(w) PROVE Plain(w)
  BY <1>15 DEF ExpFind, Goto, Return, IdleWorker, At, RegistryUnchanged
<1>16. ASSUME NEW w \in Workers, ExpGet(w) PROVE Plain(w)
  BY <1>16 DEF ExpGet, Return, IdleWorker, At, RegistryUnchanged
<1>17. ASSUME NEW w \in Workers, ListNext(w) PROVE Plain(w)
  BY <1>17 DEF ListNext, At
<1>18. ASSUME NEW w \in Workers, ListCopy(w) PROVE Plain(w)
  BY <1>18 DEF ListCopy, Goto, At, RegistryUnchanged
<1>19. ASSUME NEW w \in Workers, ListEnd(w) PROVE Plain(w)
  BY <1>19 DEF ListEnd, Return, IdleWorker, At, RegistryUnchanged
<1>20. ASSUME NEW w \in Workers, ListDangling(w) PROVE Plain(w)
  BY <1>20 DEF ListDangling, Goto, Return, IdleWorker, At, RegistryUnchanged
<1>21. ASSUME SweepBegin \/ SweepVisit \/ SweepRead \/ SweepErasePhase \/ SweepSleep
       PROVE  SweepOnly
  BY <1>21 DEF SweepOnly, SweepBegin, SweepVisit, SweepRead, SweepErasePhase, SweepSleep, RegistryUnchanged
<1>22. QED
  BY <1>1, <1>2, <1>3, <1>4, <1>5, <1>6, <1>7, <1>8, <1>9, <1>10, <1>11, <1>12, <1>13, <1>14, <1>15, <1>16, <1>17, <1>18, <1>19, <1>20, <1>21 DEF Next, Request, Handler, Open,
     UpdateLastAccessTime, MuxerStatus, List, CheckSession

(* An open in Schedule::add is the only one that knows its new allocator *)
OwnPtr ==
  \A w \in Workers : worker[w].pc \in Adding =>
    /\ \A k \in StreamIds : hlsProcessors[k] # worker[w].ptr
    /\ \A v \in Workers : v # w => worker[v].ptr # worker[w].ptr

(* No two streams share an allocator *)
OneEntry ==
  \A j, k \in StreamIds :
    hlsProcessors[j] = hlsProcessors[k] /\ hlsProcessors[j] \in Allocators => j = k

(* What operator[] inserted is there to be assigned, and as young as the    *)
(* clock value it was given                                                 *)
StoreInv ==
  \A w \in Workers : worker[w].pc = "add_store" =>
    Found(worker[w].id) /\ idle[worker[w].ptr] <= worker[w].lag

(* The loop of check_session visits each key once *)
SweepInv ==
  /\ sweep.at \notin sweep.expiredKeys
  /\ sweep.todo \cap sweep.expiredKeys = {}
  /\ sweep.at \notin sweep.todo
  /\ sweep.pc = "sleep" => sweep.expiredKeys = {}
  /\ sweep.pc # "read" => sweep.at = NULL
  /\ sweep.pc \in {"sleep", "erase"} => sweep.todo = {}

(* k was touched after the sweeper read the clock for it, or a little before *)
Recent(k) == idle[hlsProcessors[k]] <= sweep.age[k] + MaxLag

(* Whatever the sweeper is about to condemn is idle or was touched since *)
AgeInv ==
  \A k \in StreamIds : hlsProcessors[k] \in Allocators =>
    /\ k = sweep.at => hlsProcessors[k] = sweep.ptr \/ Recent(k)
    /\ k \in sweep.expiredKeys => idle[hlsProcessors[k]] > Timeout \/ Recent(k)

AgedInv == SafeInv /\ OwnPtr /\ OneEntry /\ StoreInv /\ SweepInv /\ AgeInv

LEMMA OwnPtrStep == ASSUME TypeInv, OwnPtr, [Next]_vars PROVE OwnPtr'
<1> USE ScheduleAssumption DEF OwnPtr, TypeInv, TypeOK, WorkerRecords, Entries
<1>0. \A w \in Workers : worker[w].pc \in Adding => worker[w].ptr \in Allocators
  BY DEF ControlOK, Adding
<1>1. ASSUME NEW w \in Workers, Plain(w) PROVE OwnPtr'
  <2>1. worker'[w].pc \in Adding => worker[w].pc \in Adding /\ worker'[w].ptr = worker[w].ptr
    BY <1>1 DEF Plain, Adding
  <2>2. hlsProcessors' = hlsProcessors
    BY <1>1 DEF Plain
  <2>3. QED
    BY <1>0, <1>1, <2>1, <2>2 DEF Plain
<1>2. ASSUME NEW w \in Workers, OpenGet(w) PROVE OwnPtr'
  <2>1. PICK p : /\ p = IF Found(worker[w].id) THEN hlsProcessors[worker[w].id] ELSE NULL
                 /\ hlsProcessors' = [hlsProcessors EXCEPT ![worker[w].id] = p]
                 /\ worker'[w].pc = "touch_find" /\ worker'[w].ptr = p
                 /\ \A v \in Workers : v # w => worker'[v] = worker[v]
    BY <1>2 DEF OpenGet
  <2>2. \A v \in Workers : worker[v].pc \in Adding => worker[v].ptr # p
    BY <1>0, <1>2, <2>1, IdInStreams DEF OpenGet, At, OpenPCs
  <2>3. QED
    BY <2>1, <2>2 DEF Adding
<1>3. ASSUME NEW w \in Workers, OpenSystem(w) PROVE OwnPtr'
  BY <1>3 DEF OpenSystem, Move, Referenced
<1>4. ASSUME NEW w \in Workers, AddInsert(w) PROVE OwnPtr'
  <2>1. /\ \A v \in Workers : worker'[v].ptr = worker[v].ptr
        /\ \A v \in Workers : worker'[v].pc \in Adding => worker[v].pc \in Adding
    BY <1>4 DEF AddInsert, Goto, At, Adding
  <2>2. \A k \in StreamIds : hlsProcessors'[k] \in {hlsProcessors[k], NULL}
    BY <1>4 DEF AddInsert
  <2>3. QED
    BY <1>0, <2>1, <2>2
<1>5. ASSUME NEW w \in Workers, AddStore(w) PROVE OwnPtr'
  <2>1. /\ \A v \in Workers : worker'[v].ptr = worker[v].ptr
        /\ \A v \in Workers : worker'[v].pc \in Adding => worker[v].pc \in Adding /\ v # w
    BY <1>5 DEF AddStore, Move, At, Adding
  <2>2. \A k \in StreamIds : hlsProcessors'[k] \in {hlsProcessors[k], worker[w].ptr}
    BY <1>5 DEF AddStore
  <2>3. QED
    BY <2>1, <2>2
<1>6. ASSUME NEW w \in Workers, TouchWrite(w) PROVE OwnPtr'
  <2>1. /\ \A v \in Workers : worker'[v].ptr \in {worker[v].ptr, NULL}
        /\ \A v \in Workers : worker'[v].pc \in Adding
             => worker[v].pc \in Adding /\ worker'[v].ptr = worker[v].ptr
        /\ hlsProcessors' = hlsProcessors
    BY <1>6 DEF TouchWrite, Move, Return, IdleWorker, At, Adding
  <2>2. QED
    BY <1>0, <2>1
<1>7. CASE SweepOnly
  BY <1>7 DEF SweepOnly
<1>8. CASE SweepErase
  <2>1. /\ \A v \in Workers : worker'[v].ptr = worker[v].ptr
        /\ \A v \in Workers : worker'[v].pc \in Adding => worker[v].pc \in Adding
    BY <1>8 DEF SweepErase, AfterErase, Adding
  <2>2. \A k \in StreamIds : hlsProcessors'[k] \in {hlsProcessors[k], Absent}
    BY <1>8 DEF SweepErase
  <2>3. QED
    BY <1>0, <2>1, <2>2
<1>9. CASE Tick
  <2>1. \A v \in Workers : worker'[v].ptr = worker[v].ptr /\ worker'[v].pc = worker[v].pc
    BY <1>9 DEF Tick
  <2>2. hlsProcessors' = hlsProcessors
    BY <1>9 DEF Tick
  <2>3. QED
    BY <2>1, <2>2
<1>10. CASE UNCHANGED vars
  BY <1>10 DEF vars
<1>11. QED
  BY <1>1, <1>2, <1>3, <1>4, <1>5, <1>6, <1>7, <1>8, <1>9, <1>10, StepKinds

LEMMA OneEntryStep == ASSUME TypeInv, OwnPtr, OneEntry, [Next]_vars PROVE OneEntry'
<1> USE ScheduleAssumption DEF OneEntry, TypeInv, TypeOK, WorkerRecords, Entries
<1>1. ASSUME \A k \in StreamIds : hlsProcessors'[k] \in {hlsProcessors[k], NULL, Absent}
      PROVE  OneEntry'
  BY <1>1
<1>2. ASSUME NEW w \in Workers, Plain(w) PROVE OneEntry'
  BY <1>2 DEF Plain
<1>3. ASSUME NEW w \in Workers, OpenGet(w) PROVE OneEntry'
  <2>1. worker[w].id \in StreamIds
    BY <1>3, IdInStreams DEF OpenGet, At, OpenPCs
  <2>2. QED
    BY <1>1, <1>3, <2>1 DEF OpenGet
<1>4. ASSUME NEW w \in Workers, OpenSystem(w) PROVE OneEntry'
  BY <1>4 DEF OpenSystem
<1>5. ASSUME NEW w \in Workers, AddInsert(w) PROVE OneEntry'
  BY <1>1, <1>5 DEF AddInsert
<1>6. ASSUME NEW w \in Workers, AddStore(w) PROVE OneEntry'
  <2>1. \A k \in StreamIds : hlsProcessors[k] # worker[w].ptr
    BY <1>6 DEF AddStore, At, OwnPtr, Adding
  <2>2. QED
    BY <1>6, <2>1 DEF AddStore
<1>7. ASSUME NEW w \in Workers, TouchWrite(w) PROVE OneEntry'
  BY <1>7 DEF TouchWrite
<1>8. CASE SweepOnly
  BY <1>8 DEF SweepOnly
<1>9. CASE SweepErase
  BY <1>1, <1>9 DEF SweepErase
<1>10. CASE Tick
  BY <1>10 DEF Tick
<1>11. CASE UNCHANGED vars
  BY <1>11 DEF vars
<1>12. QED
  BY <1>2, <1>3, <1>4, <1>5, <1>6, <1>7, <1>8, <1>9, <1>10, <1>11, StepKinds

LEMMA SweepInvStep == ASSUME TypeInv, SweepInv, [Next]_vars PROVE SweepInv'
<1> USE ScheduleAssumption DEF SweepInv, TypeInv, TypeOK, SweepRecords
<1>1. ASSUME NEW w \in Workers, Plain(w) PROVE SweepInv'
  BY <1>1 DEF Plain
<1>2. ASSUME NEW w \in Workers,
             OpenGet(w) \/ OpenSystem(w) \/ AddInsert(w) \/ AddStore(w) \/ TouchWrite(w)
      PROVE  SweepInv'
  <2>1. sweep' = sweep
    BY <1>2 DEF OpenGet, OpenSystem, AddInsert, AddStore, TouchWrite
  <2>2. QED
    BY <2>1
<1>3. CASE SweepOnly
  <2>1. CASE SweepBegin
    BY <2>1 DEF SweepBegin, Sweep
  <2>2. CASE SweepVisit
    BY <2>2 DEF SweepVisit, Sweep
  <2>3. CASE SweepRead
    BY <2>3 DEF SweepRead, Sweep, ControlOK
  <2>4. CASE SweepErasePhase
    BY <2>4 DEF SweepErasePhase, Sweep
  <2>5. CASE SweepSleep
    BY <2>5 DEF SweepSleep, Sweep
  <2>6. QED
    BY <1>3, <2>1, <2>2, <2>3, <2>4, <2>5 DEF SweepOnly
<1>4. CASE SweepErase
  BY <1>4 DEF SweepErase, Sweep
<1>5. CASE Tick
  <2>1. /\ sweep'.pc = sweep.pc /\ sweep'.at = sweep.at
        /\ sweep'.todo = sweep.todo /\ sweep'.expiredKeys = sweep.expiredKeys
    BY <1>5 DEF Tick
  <2>2. QED
    BY <2>1
<1>6. CASE UNCHANGED vars
  BY <1>6 DEF vars
<1>7. QED
  BY <1>1, <1>2, <1>3, <1>4, <1>5, <1>6, StepKinds

LEMMA StoreStep ==
  ASSUME TypeInv, OwnPtr, StoreInv, [Next]_vars
  PROVE  StoreInv'
<1> USE ScheduleAssumption DEF StoreInv, TypeInv, TypeOK, WorkerRecords, Entries, Found
<1>0. \A w \in Workers : worker[w].pc = "add_store" =>
         /\ worker[w].id \in StreamIds /\ worker[w].ptr \in Allocators
         /\ \A v \in Workers : v # w => worker[v].ptr # worker[w].ptr
         /\ \A k \in StreamIds : hlsProcessors[k] # worker[w].ptr
  BY DEF ControlOK, OwnPtr, Adding, OpenPCs
<1>1. ASSUME NEW w \in Workers, Plain(w) PROVE StoreInv'
  <2>1. \A v \in Workers : worker'[v].pc = "add_store" => worker'[v] = worker[v]
    BY <1>1 DEF Plain, Adding
  <2>2. hlsProcessors' = hlsProcessors /\ idle' = idle
    BY <1>1 DEF Plain
  <2>3. QED
    BY <2>1, <2>2
<1>2. ASSUME NEW w \in Workers, OpenGet(w) PROVE StoreInv'
  <2>1. \A v \in Workers : worker'[v].pc = "add_store" => worker'[v] = worker[v]
    BY <1>2 DEF OpenGet
  <2>2. \A k \in StreamIds : Found(k) => Found(k)'
    BY <1>2 DEF OpenGet
  <2>3. idle' = idle
    BY <1>2 DEF OpenGet
  <2>4. QED
    BY <1>0, <2>1, <2>2, <2>3
<1>3. ASSUME NEW w \in Workers, OpenSystem(w) PROVE StoreInv'
  <2>1. \A v \in Workers : worker'[v].pc = "add_store" => worker'[v] = worker[v]
    BY <1>3 DEF OpenSystem, Move
  <2>2. PICK a \in Allocators : ~Referenced(a) /\ idle' = [idle EXCEPT ![a] = 0]
    BY <1>3 DEF OpenSystem
  <2>3. \A v \in Workers : worker[v].ptr # a
    BY <2>2 DEF Referenced
  <2>4. hlsProcessors' = hlsProcessors
    BY <1>3 DEF OpenSystem
  <2>5. QED
    BY <1>0, <2>1, <2>2, <2>3, <2>4
<1>4. ASSUME NEW w \in Workers, AddInsert(w) PROVE StoreInv'
  <2>1. /\ worker[w].id \in StreamIds /\ worker[w].ptr \in Allocators
        /\ worker[w].lag \in 0..MaxLag
    BY <1>4 DEF AddInsert, At, ControlOK, OpenPCs
  <2>2. \A k \in StreamIds : Found(k) => Found(k)'
    BY <1>4 DEF AddInsert
  <2>3. ASSUME NEW v \in Workers, v # w, worker'[v].pc = "add_store"
        PROVE  Found(worker[v].id)' /\ idle'[worker[v].ptr] <= worker[v].lag
    BY <1>0, <1>4, <2>2, <2>3 DEF AddInsert, Goto
  <2>4. Found(worker[w].id)' /\ idle'[worker[w].ptr] = worker[w].lag
    <3>1. hlsProcessors' = [hlsProcessors EXCEPT ![worker[w].id] =
                              IF Found(worker[w].id) THEN hlsProcessors[worker[w].id] ELSE NULL]
      BY <1>4 DEF AddInsert
    <3>2. Found(worker[w].id)'
      <4>1. worker'[w].id = worker[w].id
        BY <1>4 DEF AddInsert, Goto
      <4>2. QED
        BY <2>1, <3>1, <4>1
    <3>3. idle' = [idle EXCEPT ![worker[w].ptr] = worker[w].lag]
      BY <1>4 DEF AddInsert
    <3>4. QED
      BY <2>1, <3>2, <3>3
  <2>5. \A v \in Workers : /\ worker'[v].id = worker[v].id /\ worker'[v].ptr = worker[v].ptr
                           /\ worker'[v].lag = worker[v].lag
    BY <1>4 DEF AddInsert, Goto
  <2>6. QED
    BY <2>1, <2>3, <2>4, <2>5
<1>5. ASSUME NEW w \in Workers, AddStore(w) PROVE StoreInv'
  <2>1. \A v \in Workers : worker'[v].pc = "add_store" => worker'[v] = worker[v]
    BY <1>5 DEF AddStore, Move
  <2>2. \A k \in StreamIds : Found(k) => Found(k)'
    BY <1>0, <1>5 DEF AddStore, At
  <2>3. idle' = idle
    BY <1>5 DEF AddStore
  <2>4. QED
    BY <1>0, <2>1, <2>2, <2>3
<1>6. ASSUME NEW w \in Workers, TouchWrite(w) PROVE StoreInv'
  <2>1. \A v \in Workers : worker'[v].pc = "add_store" => worker'[v] = worker[v]
    BY <1>6 DEF TouchWrite, Move, Return, IdleWorker, At
  <2>2. worker[w].id \in StreamIds
    BY <1>6, IdInStreams DEF TouchWrite, At, TouchPCs
  <2>3. \A v \in Workers : worker[v].pc = "add_store" => idle'[worker[v].ptr] = idle[worker[v].ptr]
    BY <1>0, <1>6, <2>2 DEF TouchWrite
  <2>4. hlsProcessors' = hlsProcessors
    BY <1>6 DEF TouchWrite
  <2>5. QED
    BY <2>1, <2>3, <2>4
<1>7. CASE SweepOnly
  BY <1>7 DEF SweepOnly
<1>8. CASE SweepErase
  <2>1. PICK k \in sweep.expiredKeys :
          /\ hlsProcessors' = [hlsProcessors EXCEPT ![k] = Absent]
          /\ worker' = [w \in Workers |-> AfterErase(w, k)]
    BY <1>8 DEF SweepErase
  <2>2. \A v \in Workers : worker'[v].pc = "add_store"
          => worker[v].id # k /\ worker'[v] = worker[v]
    BY <2>1 DEF AfterErase
  <2>3. idle' = idle
    BY <1>8 DEF SweepErase
  <2>4. QED
    BY <1>0, <2>1, <2>2, <2>3
<1>9. CASE Tick
  <2>1. hlsProcessors' = hlsProcessors
    BY <1>9 DEF Tick
  <2>2. \A v \in Workers : /\ worker'[v].pc = worker[v].pc /\ worker'[v].id = worker[v].id
                           /\ worker'[v].ptr = worker[v].ptr
                           /\ worker[v].pc = "add_store" => worker'[v].lag = worker[v].lag + 1
    BY <1>9 DEF Tick, ClockHeld
  <2>3. \A a \in Allocators : idle'[a] <= idle[a] + 1
    BY <1>9 DEF Tick, Older, MaxIdle
  <2>4. ASSUME NEW v \in Workers, worker[v].pc = "add_store"
        PROVE  idle'[worker[v].ptr] <= worker[v].lag + 1
    <3>1. PICK a \in Allocators : a = worker[v].ptr
      BY <1>0, <2>4
    <3>2. PICK i \in Nat : i = idle[a]
      BY DEF MaxIdle
    <3>3. PICK l \in Nat : l = worker[v].lag
      OBVIOUS
    <3>4. idle'[a] \in Nat
      BY <1>9, TypeStep DEF MaxIdle
    <3>5. idle'[a] <= i + 1 /\ i <= l
      BY <2>3, <2>4, <3>1, <3>2, <3>3
    <3>6. QED
      BY <3>1, <3>3, <3>4, <3>5
  <2>5. QED
    BY <1>0, <2>1, <2>2, <2>4
<1>10. CASE UNCHANGED vars
  BY <1>10 DEF vars
<1>11. QED
  BY <1>1, <1>2, <1>3, <1>4, <1>5, <1>6, <1>7, <1>8, <1>9, <1>10, StepKinds

(* Unsigned subtraction wraps only below zero *)
LEMMA ExpiredMeans ==
  ASSUME NEW i \in 0..MaxIdle, NEW l \in 0..MaxLag, Expired(i, l)
  PROVE  i > Timeout \/ i < l
<1>1. CASE i >= l
  <2>1. PICK d \in Nat : i = l + d /\ d < ClockModulus
    <3>1. i - l \in Nat /\ i = l + (i - l) /\ i - l < ClockModulus
      BY <1>1, ScheduleAssumption DEF MaxIdle
    <3>2. QED
      BY <3>1
  <2>2. (ClockModulus + i - l) = ClockModulus + d
    BY <2>1, ScheduleAssumption
  <2>3. (ClockModulus + d) % ClockModulus = d
    BY <2>1, ScheduleAssumption
  <2>4. d > Timeout
    BY <2>2, <2>3 DEF Expired
  <2>5. QED
    BY <2>1, <2>4, ScheduleAssumption DEF MaxIdle
<1>2. CASE i < l
  BY <1>2
<1>3. QED
  BY <1>1, <1>2, ScheduleAssumption DEF MaxIdle

LEMMA AgeStep ==
  ASSUME TypeInv, OwnPtr, OneEntry, StoreInv, SweepInv, AgeInv, [Next]_vars
  PROVE  AgeInv'
<1> USE ScheduleAssumption DEF TypeInv, TypeOK, Entries
<1> TypeOK'
  BY TypeStep
<1>a. \A k \in StreamIds : sweep.age[k] \in Nat
  BY DEF SweepRecords
<1>b. \A a \in Allocators : idle[a] \in Nat
  BY DEF MaxIdle
(* a step that leaves the sweeper, the map and the listed ages alone *)
<1>0. ASSUME sweep' = sweep,
             \A k \in StreamIds : hlsProcessors'[k] \in Allocators =>
               \/ hlsProcessors'[k] = hlsProcessors[k] /\ idle'[hlsProcessors[k]] = idle[hlsProcessors[k]]
               \/ Recent(k)'
      PROVE  AgeInv'
  BY <1>0 DEF AgeInv, Recent
<1>1. ASSUME NEW w \in Workers, Plain(w) PROVE AgeInv'
  BY <1>0, <1>1 DEF Plain
<1>2. ASSUME NEW w \in Workers, OpenGet(w) PROVE AgeInv'
  <2>1. sweep' = sweep /\ idle' = idle
    BY <1>2 DEF OpenGet
  <2>2. \A k \in StreamIds : hlsProcessors'[k] \in Allocators => hlsProcessors'[k] = hlsProcessors[k]
    BY <1>2 DEF OpenGet
  <2>3. QED
    BY <1>0, <2>1, <2>2
<1>3. ASSUME NEW w \in Workers, OpenSystem(w) PROVE AgeInv'
  <2>1. sweep' = sweep /\ hlsProcessors' = hlsProcessors
    BY <1>3 DEF OpenSystem
  <2>2. PICK a \in Allocators : ~Referenced(a) /\ idle' = [idle EXCEPT ![a] = 0]
    BY <1>3 DEF OpenSystem
  <2>3. \A k \in StreamIds : hlsProcessors[k] # a
    BY <2>2 DEF Referenced
  <2>4. QED
    BY <1>0, <2>1, <2>2, <2>3
<1>4. ASSUME NEW w \in Workers, AddInsert(w) PROVE AgeInv'
  <2>1. sweep' = sweep
    BY <1>4 DEF AddInsert
  <2>2. \A k \in StreamIds : hlsProcessors'[k] \in Allocators => hlsProcessors'[k] = hlsProcessors[k]
    BY <1>4 DEF AddInsert
  <2>3. \A k \in StreamIds : hlsProcessors[k] # worker[w].ptr
    BY <1>4 DEF AddInsert, At, OwnPtr, Adding
  <2>4. idle' = [idle EXCEPT ![worker[w].ptr] = worker[w].lag]
    BY <1>4 DEF AddInsert
  <2>5. QED
    BY <1>0, <2>1, <2>2, <2>3, <2>4
<1>5. ASSUME NEW w \in Workers, AddStore(w) PROVE AgeInv'
  <2>1. sweep' = sweep /\ idle' = idle
    BY <1>5 DEF AddStore
  <2>2. hlsProcessors' = [hlsProcessors EXCEPT ![worker[w].id] = worker[w].ptr]
    BY <1>5 DEF AddStore
  <2>3. worker[w].id \in StreamIds /\ worker[w].ptr \in Allocators
    BY <1>5 DEF AddStore, At, ControlOK, OpenPCs
  <2>4. Recent(worker[w].id)'
    <3>1. PICK l \in 0..MaxLag : l = worker[w].lag
      BY DEF WorkerRecords
    <3>2. idle[worker[w].ptr] <= l
      BY <1>5, <3>1 DEF AddStore, At, StoreInv
    <3>3. worker[w].id' = worker[w].id
      BY <1>5 DEF AddStore, Move
    <3>4. idle[worker[w].ptr] <= sweep.age[worker[w].id] + MaxLag
      BY <1>a, <1>b, <2>3, <3>2
    <3>5. QED
      BY <2>1, <2>2, <2>3, <3>3, <3>4 DEF Recent
  <2>5. ASSUME NEW k \in StreamIds, hlsProcessors'[k] \in Allocators
        PROVE  \/ hlsProcessors'[k] = hlsProcessors[k] /\ idle'[hlsProcessors[k]] = idle[hlsProcessors[k]]
               \/ Recent(k)'
    <3>1. CASE k = worker[w].id
      BY <2>4, <3>1, <1>5 DEF AddStore, Move, Recent
    <3>2. CASE k # worker[w].id
      BY <2>1, <2>2, <3>2
    <3>3. QED
      BY <3>1, <3>2
  <2>6. QED
    BY <1>0, <2>1, <2>5
<1>6. ASSUME NEW w \in Workers, TouchWrite(w) PROVE AgeInv'
  <2>1. sweep' = sweep /\ hlsProcessors' = hlsProcessors
    BY <1>6 DEF TouchWrite
  <2>2. PICK l \in 0..MaxLag : l = worker[w].lag
    BY DEF WorkerRecords
  <2>3. \/ idle' = idle
        \/ \E p \in Allocators : idle' = [idle EXCEPT ![p] = l]
    <3>1. worker[w].id \in StreamIds
      BY <1>6, IdInStreams DEF TouchWrite, At, TouchPCs
    <3>2. QED
      BY <1>6, <2>2, <3>1 DEF TouchWrite
  <2>4. ASSUME NEW k \in StreamIds, hlsProcessors'[k] \in Allocators
        PROVE  \/ hlsProcessors'[k] = hlsProcessors[k] /\ idle'[hlsProcessors[k]] = idle[hlsProcessors[k]]
               \/ Recent(k)'
    <3>1. CASE idle'[hlsProcessors[k]] = idle[hlsProcessors[k]]
      BY <2>1, <3>1
    <3>2. CASE idle'[hlsProcessors[k]] = l
      <4>1. l <= sweep.age[k] + MaxLag
        BY <1>a
      <4>2. QED
        BY <2>1, <3>2, <4>1 DEF Recent
    <3>3. QED
      BY <2>1, <2>3, <2>4, <3>1, <3>2
  <2>5. QED
    BY <1>0, <2>1, <2>4
<1>7. CASE SweepOnly
  <2>0. hlsProcessors' = hlsProcessors /\ idle' = idle
    BY <1>7 DEF SweepOnly
  <2>1. CASE SweepBegin
    BY <2>0, <2>1 DEF SweepBegin, Sweep, AgeInv
  <2>2. CASE SweepVisit
    <3>1. sweep'.age = sweep.age
      BY <2>2 DEF SweepVisit, Sweep
    <3>2. \A k \in StreamIds : k \in sweep'.expiredKeys =>
            k \in sweep.expiredKeys \/ hlsProcessors[k] = NULL
      BY <2>2 DEF SweepVisit, Sweep
    <3>3. \A k \in StreamIds : k = sweep'.at => hlsProcessors[k] = sweep'.ptr
      BY <2>2 DEF SweepVisit, Sweep
    <3>4. QED
      BY <2>0, <3>1, <3>2, <3>3 DEF AgeInv, Recent
  <2>3. CASE SweepRead
    <3> DEFINE k == sweep.at
    <3>1. k \in StreamIds /\ sweep.ptr \in Allocators /\ k \notin sweep.expiredKeys
      BY <2>3 DEF SweepRead, ControlOK, SweepInv
    <3>2. sweep'.at = NULL
      BY <2>3 DEF SweepRead, Sweep
    <3>3. CASE Expired(idle[sweep.ptr], sweep.age[k])
      <4>1. sweep'.expiredKeys = sweep.expiredKeys \cup {k} /\ sweep'.age = sweep.age
        BY <2>3, <3>3 DEF SweepRead, Sweep
      <4>2. PICK i \in 0..MaxIdle : i = idle[sweep.ptr]
        BY <3>1
      <4>3. PICK l \in 0..MaxLag : l = sweep.age[k]
        BY <3>1 DEF SweepRecords
      <4>4. i > Timeout \/ i < l
        BY <3>3, <4>2, <4>3, ExpiredMeans
      <4>5. i > Timeout \/ i <= l + MaxLag
        BY <4>4 DEF MaxIdle
      <4>6. hlsProcessors[k] \in Allocators => idle[hlsProcessors[k]] > Timeout \/ Recent(k)
        <5>1. CASE hlsProcessors[k] = sweep.ptr
          BY <4>2, <4>3, <4>5, <5>1 DEF Recent
        <5>2. CASE hlsProcessors[k] # sweep.ptr
          BY <3>1, <5>2 DEF AgeInv
        <5>3. QED
          BY <5>1, <5>2
      <4>7. QED
        BY <2>0, <3>1, <3>2, <4>1, <4>6 DEF AgeInv, Recent
    <3>4. CASE ~Expired(idle[sweep.ptr], sweep.age[k])
      <4>1. /\ sweep'.expiredKeys = sweep.expiredKeys
            /\ sweep'.age = [sweep.age EXCEPT ![k] = 0]
        BY <2>3, <3>4 DEF SweepRead, Sweep
      <4>2. \A j \in StreamIds : j # k => sweep'.age[j] = sweep.age[j]
        BY <4>1 DEF SweepRecords
      <4>3. QED
        BY <2>0, <3>1, <3>2, <4>1, <4>2 DEF AgeInv, Recent
    <3>5. QED
      BY <3>3, <3>4
  <2>4. CASE SweepErasePhase
    BY <2>0, <2>4 DEF SweepErasePhase, Sweep, AgeInv, Recent
  <2>5. CASE SweepSleep
    BY <2>0, <2>5 DEF SweepSleep, Sweep, AgeInv, Recent
  <2>6. QED
    BY <1>7, <2>1, <2>2, <2>3, <2>4, <2>5 DEF SweepOnly
<1>8. CASE SweepErase
  <2>1. PICK k \in sweep.expiredKeys :
          /\ hlsProcessors' = [hlsProcessors EXCEPT ![k] = Absent]
          /\ Sweep("erase", sweep.todo, NULL, NULL, sweep.expiredKeys \ {k},
                   [sweep.age EXCEPT ![k] = 0])
    BY <1>8 DEF SweepErase
  <2>2. idle' = idle
    BY <1>8 DEF SweepErase
  <2>3. \A j \in StreamIds : hlsProcessors'[j] \in Allocators =>
          j # k /\ hlsProcessors'[j] = hlsProcessors[j] /\ sweep'.age[j] = sweep.age[j]
    BY <2>1 DEF Sweep, SweepRecords
  <2>4. sweep'.at = NULL /\ sweep'.expiredKeys = sweep.expiredKeys \ {k}
    BY <2>1 DEF Sweep
  <2>5. QED
    BY <2>2, <2>3, <2>4 DEF AgeInv, Recent
<1>9. CASE Tick
  <2>1. hlsProcessors' = hlsProcessors
    BY <1>9 DEF Tick
  <2>2. /\ sweep'.at = sweep.at /\ sweep'.ptr = sweep.ptr
        /\ sweep'.expiredKeys = sweep.expiredKeys
        /\ sweep'.age = [k \in StreamIds |->
              IF k \in SweepHeld THEN sweep.age[k] + 1 ELSE sweep.age[k]]
    BY <1>9 DEF Tick
  <2>3. ASSUME NEW k \in StreamIds, hlsProcessors[k] \in Allocators, k \in SweepHeld
        PROVE  /\ Recent(k) => Recent(k)'
               /\ idle[hlsProcessors[k]] > Timeout => idle'[hlsProcessors[k]] > Timeout
    <3>1. PICK a \in Allocators : a = hlsProcessors[k]
      BY <2>3
    <3>2. PICK i \in Nat : i = idle[a]
      BY <1>b
    <3>3. PICK g \in Nat : g = sweep.age[k]
      BY <1>a
    <3>4. PICK j \in Nat : j = idle'[a]
      BY DEF MaxIdle
    <3>5. Referenced(a)
      BY <3>1 DEF Referenced
    <3>6. i <= j /\ j <= i + 1
      BY <1>9, <3>2, <3>4, <3>5 DEF Tick, Older
    <3>7. sweep'.age[k] = g + 1
      BY <2>2, <2>3, <3>3
    <3>8. i <= g + MaxLag => j <= (g + 1) + MaxLag
      BY <3>6
    <3>9. i > Timeout => j > Timeout
      BY <3>6
    <3>10. QED
      BY <2>1, <3>1, <3>2, <3>3, <3>4, <3>7, <3>8, <3>9 DEF Recent
  <2>4. \A k \in StreamIds : k = sweep.at \/ k \in sweep.expiredKeys => k \in SweepHeld
    BY DEF SweepHeld
  <2>5. QED
    BY <2>1, <2>2, <2>3, <2>4 DEF AgeInv
<1>10. CASE UNCHANGED vars
  BY <1>0, <1>10 DEF vars
<1>11. QED
  BY <1>1, <1>2, <1>3, <1>4, <1>5, <1>6, <1>7, <1>8, <1>9, <1>10, StepKinds

LEMMA AgedInvariant == Spec => []AgedInv
<1>1. Init => AgedInv
  <2> SUFFICES ASSUME Init PROVE AgedInv
    OBVIOUS
  <2>1. SafeInv
    BY SafeInit
  <2>2. OwnPtr /\ OneEntry /\ StoreInv
    BY ScheduleAssumption DEF Init, IdleWorker, OwnPtr, OneEntry, StoreInv, Adding
  <2>3. SweepInv /\ AgeInv
    BY ScheduleAssumption DEF Init, SweepInv, AgeInv
  <2>4. QED
    BY <2>1, <2>2, <2>3 DEF AgedInv
<1>2. AgedInv /\ [Next]_vars => AgedInv'
  <2> SUFFICES ASSUME AgedInv, [Next]_vars PROVE AgedInv'
    OBVIOUS
  <2>1. SafeInv'
    BY SafeStep DEF AgedInv
  <2>2. QED
    BY <2>1, OwnPtrStep, OneEntryStep, StoreStep, SweepInvStep, AgeStep DEF AgedInv, SafeInv
<1>3. QED
  BY <1>1, <1>2, PTL DEF Spec

(* What a session is, when the map has an allocator for it *)
LEMMA SessionValue ==
  ASSUME TypeInv, NEW k \in StreamIds
  PROVE  /\ Session(k) \in Nat \cup {NULL, Absent}
         /\ hlsProcessors[k] \in Allocators <=> Session(k) \in Nat
         /\ hlsProcessors[k] \in Allocators => Session(k) = idle[hlsProcessors[k]]
         /\ hlsProcessors[k] = NULL <=> Session(k) = NULL
         /\ hlsProcessors[k] = Absent <=> Session(k) = Absent
<1>1. CASE hlsProcessors[k] \in {NULL, Absent}
  BY <1>1, ScheduleAssumption DEF Session
<1>2. CASE hlsProcessors[k] \in Allocators
  <2>1. idle[hlsProcessors[k]] \in Nat
    BY <1>2, ScheduleAssumption DEF TypeInv, TypeOK, MaxIdle
  <2>2. Session(k) = idle[hlsProcessors[k]]
    BY <1>2, ScheduleAssumption DEF Session
  <2>3. QED
    BY <1>2, <2>1, <2>2, ScheduleAssumption
<1>3. QED
  BY <1>1, <1>2 DEF TypeInv, TypeOK, Entries

(* One stream changes, the others keep their session *)
LEMMA SessionsExcept ==
  ASSUME NEW k \in StreamIds, NEW s, Session(k)' = s,
         \A j \in StreamIds : j # k => Session(j)' = Session(j)
  PROVE  [j \in StreamIds |-> Session(j)]'
           = [[j \in StreamIds |-> Session(j)] EXCEPT ![k] = s]
OBVIOUS

(* Every step of the registry is one of Sessions, or changes no session *)
LEMMA SessionsStep ==
  ASSUME AgedInv, [Next]_vars
  PROVE  [S!Next]_([k \in StreamIds |-> Session(k)])
<1> DEFINE sess == [k \in StreamIds |-> Session(k)]
<1> USE ScheduleAssumption
<1>a. TypeInv /\ TypeInv'
  BY SafeStep DEF AgedInv, SafeInv
<1>b. TypeOK /\ TypeOK'
  BY <1>a DEF TypeInv
<1>c. ASSUME \A k \in StreamIds : Session(k)' = Session(k) PROVE sess' = sess
  BY <1>c
<1>d. ASSUME hlsProcessors' = hlsProcessors, idle' = idle PROVE sess' = sess
  BY <1>c, <1>d DEF Session
<1>e. \A w \in Workers : worker[w].lag \in 0..MaxLag
  BY <1>b DEF TypeOK, WorkerRecords
<1>1. ASSUME NEW w \in Workers, Plain(w) PROVE sess' = sess
  BY <1>1, <1>d DEF Plain
<1>2. ASSUME NEW k \in StreamIds, ~Found(k), idle' = idle,
             hlsProcessors' = [hlsProcessors EXCEPT ![k] = NULL]
      PROVE  S!Insert(k)
  <2>1. Session(k) = Absent /\ Session(k)' = NULL
    BY <1>2, <1>b DEF Session, Found, TypeOK
  <2>2. \A j \in StreamIds : j # k => Session(j)' = Session(j)
    BY <1>2, <1>b DEF Session, TypeOK
  <2>3. sess' = [sess EXCEPT ![k] = NULL]
    BY <2>1, <2>2, SessionsExcept
  <2>4. QED
    BY <2>1, <2>3 DEF S!Insert
<1>3. ASSUME NEW k \in StreamIds, NEW age \in 0..MaxLag, Session(k) # Absent,
             Session(k)' = age, \A j \in StreamIds : j # k => Session(j)' = Session(j)
      PROVE  S!Touch(k)
  <2>1. sess' = [sess EXCEPT ![k] = age]
    BY <1>3, SessionsExcept
  <2>2. QED
    BY <1>3, <2>1 DEF S!Touch
<1>4. ASSUME NEW w \in Workers, OpenGet(w) PROVE S!Next \/ sess' = sess
  <2>1. worker[w].id \in StreamIds
    BY <1>4, <1>a, IdInStreams DEF OpenGet, At, OpenPCs
  <2>2. CASE Found(worker[w].id)
    <3>1. hlsProcessors' = hlsProcessors /\ idle' = idle
      BY <1>4, <1>b, <2>1, <2>2 DEF OpenGet, TypeOK
    <3>2. QED
      BY <1>d, <3>1
  <2>3. CASE ~Found(worker[w].id)
    <3>1. S!Insert(worker[w].id)
      BY <1>2, <1>4, <2>1, <2>3 DEF OpenGet
    <3>2. QED
      BY <2>1, <3>1 DEF S!Next
  <2>4. QED
    BY <2>2, <2>3
<1>5. ASSUME NEW w \in Workers, OpenSystem(w) PROVE sess' = sess
  <2>1. PICK a \in Allocators : ~Referenced(a) /\ idle' = [idle EXCEPT ![a] = 0]
    BY <1>5 DEF OpenSystem
  <2>2. \A k \in StreamIds : hlsProcessors[k] # a /\ hlsProcessors'[k] = hlsProcessors[k]
    BY <1>5, <2>1 DEF OpenSystem, Referenced
  <2>3. \A k \in StreamIds : Session(k)' = Session(k)
    BY <1>b, <2>1, <2>2 DEF Session, TypeOK
  <2>4. QED
    BY <1>c, <2>3
<1>6. ASSUME NEW w \in Workers, AddInsert(w) PROVE S!Next \/ sess' = sess
  <2>0. PICK k \in StreamIds : k = worker[w].id
    BY <1>6, <1>a, IdInStreams DEF AddInsert, At, OpenPCs
  <2>1. \A j \in StreamIds : hlsProcessors[j] # worker[w].ptr
    BY <1>6, <1>a, IdInStreams DEF AddInsert, At, OpenPCs, AgedInv, OwnPtr, Adding
  <2>2. idle' = [idle EXCEPT ![worker[w].ptr] = worker[w].lag]
    BY <1>6 DEF AddInsert
  <2>3. \A j \in StreamIds : hlsProcessors[j] \in Allocators => idle'[hlsProcessors[j]] = idle[hlsProcessors[j]]
    BY <1>b, <2>1, <2>2 DEF TypeOK
  <2>4. \A j \in StreamIds : hlsProcessors'[j] = hlsProcessors[j] => Session(j)' = Session(j)
    BY <1>b, <2>3 DEF Session, TypeOK, Entries
  <2>5. CASE Found(k)
    <3>1. hlsProcessors' = hlsProcessors
      BY <1>6, <1>b, <2>0, <2>5 DEF AddInsert, TypeOK
    <3>2. QED
      BY <1>c, <2>4, <3>1
  <2>6. CASE ~Found(k)
    <3>1. hlsProcessors' = [hlsProcessors EXCEPT ![k] = NULL]
      BY <1>6, <2>0, <2>6 DEF AddInsert
    <3>2. Session(k) = Absent /\ Session(k)' = NULL
      BY <1>b, <2>6, <3>1 DEF Session, Found, TypeOK
    <3>3. \A j \in StreamIds : j # k => Session(j)' = Session(j)
      BY <1>b, <2>4, <3>1 DEF TypeOK
    <3>4. sess' = [sess EXCEPT ![k] = NULL]
      BY <3>2, <3>3, SessionsExcept
    <3>5. S!Insert(k)
      BY <3>2, <3>4 DEF S!Insert
    <3>6. QED
      BY <3>5 DEF S!Next
  <2>7. QED
    BY <2>5, <2>6
<1>7. ASSUME NEW w \in Workers, AddStore(w) PROVE S!Next
  <2>0. PICK k \in StreamIds, p \in Allocators : k = worker[w].id /\ p = worker[w].ptr
    BY <1>7, <1>a DEF AddStore, At, OpenPCs, TypeInv, ControlOK
  <2>1. PICK age \in 0..MaxLag : age = idle[p]
    <3>1. idle[p] <= worker[w].lag /\ idle[p] \in Nat
      BY <1>7, <1>b, <2>0 DEF AddStore, At, AgedInv, StoreInv, TypeOK, MaxIdle
    <3>2. PICK l \in 0..MaxLag : l = worker[w].lag
      BY <1>e
    <3>3. idle[p] \in 0..MaxLag
      BY <3>1, <3>2
    <3>4. QED
      BY <3>3
  <2>2. Found(k)
    BY <1>7, <2>0 DEF AddStore, At, AgedInv, StoreInv
  <2>3. hlsProcessors' = [hlsProcessors EXCEPT ![k] = p] /\ idle' = idle
    BY <1>7, <2>0 DEF AddStore
  <2>4. Session(k)' = age
    <3>1. hlsProcessors'[k] = p /\ p \notin {NULL, Absent}
      BY <1>b, <2>3 DEF TypeOK
    <3>2. QED
      BY <2>1, <2>3, <3>1 DEF Session
  <2>5. \A j \in StreamIds : j # k => Session(j)' = Session(j)
    BY <1>b, <2>3 DEF Session, TypeOK
  <2>6. Session(k) # Absent
    BY <1>a, <2>2, SessionValue DEF Found
  <2>7. S!Touch(k)
    BY <1>3, <2>4, <2>5, <2>6
  <2>8. QED
    BY <2>7 DEF S!Next
<1>8. ASSUME NEW w \in Workers, TouchWrite(w) PROVE S!Next \/ sess' = sess
  <2>0. PICK k \in StreamIds : k = worker[w].id
    BY <1>8, <1>a, IdInStreams DEF TouchWrite, At, TouchPCs
  <2>1. hlsProcessors' = hlsProcessors
    BY <1>8 DEF TouchWrite
  <2>2. CASE hlsProcessors[k] \in {NULL, Absent}
    BY <1>8, <1>d, <2>0, <2>1, <2>2 DEF TouchWrite
  <2>3. CASE hlsProcessors[k] \notin {NULL, Absent}
    <3>0. PICK age \in 0..MaxLag : age = worker[w].lag
      BY <1>e
    <3>1. PICK p \in Allocators : p = hlsProcessors[k] /\ idle' = [idle EXCEPT ![p] = age]
      BY <1>8, <1>b, <2>0, <2>3, <3>0 DEF TouchWrite, TypeOK, Entries
    <3>2. Session(k)' = age
      <4>1. idle'[p] = age
        BY <1>b, <3>1 DEF TypeOK
      <4>2. QED
        BY <2>1, <2>3, <3>1, <4>1 DEF Session
    <3>3. \A j \in StreamIds : j # k => Session(j)' = Session(j)
      <4>1. \A j \in StreamIds : j # k => hlsProcessors[j] # p
        BY <3>1 DEF AgedInv, OneEntry
      <4>2. QED
        BY <1>b, <2>1, <3>1, <4>1 DEF Session, TypeOK, Entries
    <3>4. Session(k) # Absent
      BY <1>a, <2>3, SessionValue
    <3>5. S!Touch(k)
      BY <1>3, <3>2, <3>3, <3>4
    <3>6. QED
      BY <3>5 DEF S!Next
  <2>4. QED
    BY <2>2, <2>3
<1>9. ASSUME SweepOnly PROVE sess' = sess
  BY <1>9, <1>d DEF SweepOnly
<1>10. ASSUME SweepErase PROVE S!Next \/ sess' = sess
  <2>1. PICK k \in sweep.expiredKeys : hlsProcessors' = [hlsProcessors EXCEPT ![k] = Absent]
    BY <1>10 DEF SweepErase
  <2>2. idle' = idle /\ k \in StreamIds
    BY <1>10, <1>b DEF SweepErase, TypeOK, SweepRecords
  <2>3. Session(k)' = Absent
    BY <1>b, <2>1, <2>2 DEF Session, TypeOK
  <2>4. \A j \in StreamIds : j # k => Session(j)' = Session(j)
    BY <1>b, <2>1, <2>2 DEF Session, TypeOK
  <2>5. sess' = [sess EXCEPT ![k] = Absent]
    BY <2>2, <2>3, <2>4, SessionsExcept
  <2>6. CASE hlsProcessors[k] = Absent
    <3>1. Session(k) = Absent
      BY <1>a, <2>2, <2>6, SessionValue
    <3>2. QED
      BY <1>c, <2>3, <2>4, <3>1
  <2>7. CASE hlsProcessors[k] # Absent
    <3>1. CASE hlsProcessors[k] = NULL
      <4>1. sess[k] = NULL
        BY <1>a, <2>2, <3>1, SessionValue
      <4>2. S!Erase(k)
        BY <2>5, <4>1 DEF S!Erase
      <4>3. QED
        BY <2>2, <4>2 DEF S!Next
    <3>2. CASE hlsProcessors[k] \in Allocators
      <4>1. PICK i \in Nat : i = Session(k) /\ i = idle[hlsProcessors[k]]
        BY <1>a, <2>2, <3>2, SessionValue
      <4>2. PICK g \in 0..MaxLag : g = sweep.age[k]
        BY <1>b, <2>2 DEF TypeOK, SweepRecords
      <4>3. i > Timeout \/ i <= g + MaxLag
        BY <2>1, <2>2, <3>2, <4>1, <4>2 DEF AgedInv, AgeInv, Recent
      <4>4. i > Timeout \/ i <= 2 * MaxLag
        BY <4>3
      <4>5. sess[k] = i /\ i \notin {NULL, Absent}
        BY <2>2, <4>1
      <4>6. S!Erase(k)
        BY <2>5, <4>4, <4>5 DEF S!Erase, S!TooOld, S!JustUsed
      <4>7. QED
        BY <2>2, <4>6 DEF S!Next
    <3>3. QED
      BY <1>b, <2>2, <2>7, <3>1, <3>2 DEF TypeOK, Entries
  <2>8. QED
    BY <2>6, <2>7
<1>11. ASSUME Tick PROVE S!Next
  <2>1. hlsProcessors' = hlsProcessors
    BY <1>11 DEF Tick
  <2>2. ASSUME NEW k \in StreamIds
        PROVE  Session(k)' = IF Session(k) \in {NULL, Absent} THEN Session(k)
                             ELSE S!Older(Session(k))
    <3>1. CASE hlsProcessors[k] \in {NULL, Absent}
      BY <2>1, <2>2, <3>1 DEF Session
    <3>2. CASE hlsProcessors[k] \notin {NULL, Absent}
      <4>1. PICK a \in Allocators : a = hlsProcessors[k]
        BY <1>b, <3>2 DEF TypeOK, Entries
      <4>2. Referenced(a)
        BY <4>1 DEF Referenced
      <4>3. idle'[a] = Older(idle[a])
        BY <1>11, <4>2 DEF Tick
      <4>4. Session(k) = idle[a] /\ Session(k) \in Nat
        BY <1>a, <4>1, SessionValue
      <4>5. Session(k)' = idle'[a]
        BY <2>1, <3>2, <4>1 DEF Session
      <4>6. Older(idle[a]) = S!Older(idle[a])
        BY DEF Older, S!Older, MaxIdle, S!MaxAge
      <4>7. QED
        BY <4>3, <4>4, <4>5, <4>6
    <3>3. QED
      BY <3>1, <3>2
  <2>3. S!Tick
    BY <2>2 DEF S!Tick
  <2>4. QED
    BY <2>3 DEF S!Next
<1>12. ASSUME UNCHANGED vars PROVE sess' = sess
  BY <1>12, <1>d DEF vars
<1>13. QED
  BY <1>1, <1>4, <1>5, <1>6, <1>7, <1>8, <1>9, <1>10, <1>11, <1>12, <1>a, StepKinds

(* The registry is Sessions, for any number of threads, streams and         *)
(* allocators: a session is inserted empty, filled and touched with a clock *)
(* value at most MaxLag old, grows older with the clock, and is dropped     *)
(* when it is too old or was touched while the sweeper was looking.         *)
THEOREM RegistryIsSessions == Spec => ImplementsSessions
<1>1. Init => S!Init
  BY DEF Init, S!Init, Session
<1>2. AgedInv /\ [Next]_vars => [S!Next]_([k \in StreamIds |-> Session(k)])
  BY SessionsStep
<1>3. QED
  BY <1>1, <1>2, AgedInvariant, PTL DEF Spec, ImplementsSessions, S!Spec

(* check_session drops a session that has been idle for longer than the     *)
(* timeout, or one that was touched after the sweeper read the clock for    *)
(* it, and no other.                                                        *)
THEOREM ErasesIdleSessions == Spec => ErasedIdleOrRaced
<1>1. ASSUME AgedInv, [Next]_vars
      PROVE  [\A k \in StreamIds :
                Found(k) /\ ~Found(k)' =>
                  LET p == hlsProcessors[k]
                  IN  p = NULL \/ idle[p] > Timeout \/ idle[p] <= sweep.age[k] + MaxLag]_vars
  <2> SUFFICES ASSUME NEW k \in StreamIds, Found(k), ~Found(k)', hlsProcessors[k] # NULL
               PROVE  idle[hlsProcessors[k]] > Timeout \/ Recent(k)
    BY DEF Recent
  <2>0. TypeInv /\ TypeInv'
    BY <1>1, SafeStep DEF AgedInv, SafeInv
  <2>1. hlsProcessors[k] \in Allocators
    BY <2>0 DEF TypeInv, TypeOK, Entries, Found
  <2>2. ASSUME NEW w \in Workers, OpenGet(w) \/ AddInsert(w) PROVE FALSE
    BY <2>0, <2>1, <2>2, ScheduleAssumption DEF OpenGet, AddInsert, Found, TypeInv, TypeOK
  <2>3. ASSUME NEW w \in Workers, AddStore(w) PROVE FALSE
    BY <2>0, <2>3, ScheduleAssumption DEF AddStore, At, Found, TypeInv, TypeOK, ControlOK
  <2>4. ASSUME NEW w \in Workers, Plain(w) \/ OpenSystem(w) \/ TouchWrite(w) PROVE FALSE
    BY <2>4 DEF Plain, OpenSystem, TouchWrite, Found
  <2>5. ASSUME SweepOnly \/ Tick \/ UNCHANGED vars PROVE FALSE
    BY <2>5 DEF SweepOnly, Tick, vars, Found
  <2>6. SweepErase
    BY <1>1, <2>0, <2>2, <2>3, <2>4, <2>5, StepKinds
  <2>7. k \in sweep.expiredKeys
    BY <2>0, <2>6 DEF SweepErase, Found, TypeInv, TypeOK
  <2>8. QED
    BY <1>1, <2>1, <2>7 DEF AgedInv, AgeInv
<1>2. QED
  BY <1>1, AgedInvariant, PTL DEF Spec, ErasedIdleOrRaced

-----------------------------------------------------------------------------
(* Duplicate muxers *)

Systems(k) == {w \in Workers : worker[w].id = k /\ worker[w].pc = "system"}
Adders(k)  == {w \in Workers : worker[w].id = k /\ worker[w].pc \in {"add_find", "add_insert"}}

(* While the stream has no entry, every muxer started for it has its open   *)
(* in Schedule::add.  Once it has one, only those past running() can start  *)
(* another.                                                                 *)
CountOf(k) ==
  IF Found(k) THEN spawned[k] + Cardinality(Systems(k)) <= Cardinality(Workers)
              ELSE spawned[k] <= Cardinality(Adders(k))

CountInv == \A k \in StreamIds : CountOf(k)

LEMMA TwoParts ==
  ASSUME NEW W, IsFiniteSet(W), NEW A \in SUBSET W, NEW B \in SUBSET W, A \cap B = {}
  PROVE  /\ Cardinality(A) \in Nat /\ Cardinality(B) \in Nat /\ Cardinality(W) \in Nat
         /\ Cardinality(A) + Cardinality(B) <= Cardinality(W)
<1>1. IsFiniteSet(A) /\ IsFiniteSet(B)
  BY FS_Subset
<1>2. Cardinality(A \cup B) = Cardinality(A) + Cardinality(B) - Cardinality(A \cap B)
  BY <1>1, FS_Union
<1>3. Cardinality(A \cap B) = 0
  BY FS_EmptySet
<1>4. Cardinality(A \cup B) <= Cardinality(W)
  BY FS_Subset
<1>5. Cardinality(A) \in Nat /\ Cardinality(B) \in Nat /\ Cardinality(W) \in Nat
  BY <1>1, FS_CardinalityType
<1>6. QED
  BY <1>2, <1>3, <1>4, <1>5

LEMMA CountSizes ==
  ASSUME TypeInv, NEW k \in StreamIds
  PROVE  /\ Systems(k) \in SUBSET Workers /\ Adders(k) \in SUBSET Workers
         /\ IsFiniteSet(Systems(k)) /\ IsFiniteSet(Adders(k))
         /\ Cardinality(Systems(k)) \in Nat /\ Cardinality(Adders(k)) \in Nat
         /\ Cardinality(Workers) \in Nat
         /\ Cardinality(Systems(k)) + Cardinality(Adders(k)) <= Cardinality(Workers)
<1>1. /\ Systems(k) \in SUBSET Workers /\ Adders(k) \in SUBSET Workers
      /\ Systems(k) \cap Adders(k) = {}
  BY DEF Systems, Adders
<1>2. QED
  BY <1>1, TwoParts, FS_Subset, ScheduleAssumption

(* no muxer is started, and whoever may start one or holds one stays *)
LEMMA CountKept ==
  ASSUME TypeInv, TypeInv', NEW k \in StreamIds, CountOf(k), spawned'[k] = spawned[k],
         Found(k) => Found(k)',
         Found(k)' => Systems(k)' \subseteq Systems(k),
         ~Found(k)' => Adders(k) \subseteq Adders(k)'
  PROVE  CountOf(k)'
<1>1. PICK n \in Nat : n = spawned[k]
  BY DEF TypeInv, TypeOK
<1>2. PICK s \in Nat, a \in Nat, c \in Nat :
        s = Cardinality(Systems(k)) /\ a = Cardinality(Adders(k)) /\ c = Cardinality(Workers)
  BY CountSizes
<1>3. PICK t \in Nat, b \in Nat :
        t = Cardinality(Systems(k)') /\ b = Cardinality(Adders(k)')
  <2>1. Systems(k)' \in SUBSET Workers /\ Adders(k)' \in SUBSET Workers
    BY DEF Systems, Adders
  <2>2. IsFiniteSet(Systems(k)') /\ IsFiniteSet(Adders(k)')
    BY <2>1, FS_Subset, ScheduleAssumption
  <2>3. QED
    BY <2>2, FS_CardinalityType
<1>4. s + a <= c
  BY <1>2, CountSizes
<1>5. CASE Found(k)'
  <2>1. t <= s
    BY <1>2, <1>3, <1>5, CountSizes, FS_Subset
  <2>2. n + s <= c
    <3>1. CASE Found(k)
      BY <1>1, <1>2, <3>1 DEF CountOf
    <3>2. CASE ~Found(k)
      <4>1. n <= a
        BY <1>1, <1>2, <3>2 DEF CountOf
      <4>2. QED
        BY <1>4, <4>1
    <3>3. QED
      BY <3>1, <3>2
  <2>3. n + t <= c
    BY <2>1, <2>2
  <2>4. QED
    BY <1>1, <1>2, <1>3, <1>5, <2>3 DEF CountOf
<1>6. CASE ~Found(k)'
  <2>1. n <= a
    BY <1>1, <1>2, <1>6 DEF CountOf
  <2>2. a <= b
    <3>1. IsFiniteSet(Adders(k)') /\ Adders(k) \in SUBSET Adders(k)'
      <4>1. Adders(k)' \in SUBSET Workers
        BY DEF Adders
      <4>2. QED
        BY <1>6, <4>1, FS_Subset, ScheduleAssumption
    <3>2. QED
      BY <1>2, <1>3, <3>1, FS_Subset
  <2>3. n <= b
    BY <2>1, <2>2
  <2>4. QED
    BY <1>1, <1>3, <1>6, <2>3 DEF CountOf
<1>7. QED
  BY <1>5, <1>6

LEMMA CountStep ==
  ASSUME AgedInv, CountInv, [Next]_vars, NEW k \in StreamIds
  PROVE  CountOf(k)'
<1>0. TypeInv /\ TypeInv' /\ CountOf(k)
  BY SafeStep DEF AgedInv, SafeInv, CountInv
<1> USE DEF Systems, Adders
<1>1. ASSUME NEW w \in Workers, Plain(w) PROVE CountOf(k)'
  <2>1. spawned'[k] = spawned[k] /\ hlsProcessors' = hlsProcessors
    BY <1>1 DEF Plain
  <2>2. Found(k)' <=> Found(k)
    BY <2>1 DEF Found
  <2>3. Found(k) => Systems(k)' \subseteq Systems(k)
    BY <1>1 DEF Plain, Adding
  <2>4. ~Found(k) => Adders(k) \subseteq Adders(k)'
    BY <1>1 DEF Plain
  <2>5. QED
    BY <1>0, <2>1, <2>2, <2>3, <2>4, CountKept
<1>2. ASSUME NEW w \in Workers, OpenGet(w) \/ AddStore(w) \/ TouchWrite(w) PROVE CountOf(k)'
  <2>1. spawned' = spawned
    BY <1>2 DEF OpenGet, AddStore, TouchWrite
  <2>2. Found(k) => Found(k)'
    <3>1. CASE OpenGet(w)
      BY <1>0, <3>1 DEF OpenGet, Found, TypeInv, TypeOK
    <3>2. CASE AddStore(w)
      BY <1>0, <3>2, ScheduleAssumption DEF AddStore, At, Found, TypeInv, TypeOK, ControlOK
    <3>3. CASE TouchWrite(w)
      BY <3>3 DEF TouchWrite, Found
    <3>4. QED
      BY <1>2, <3>1, <3>2, <3>3
  <2>3. \A v \in Workers :
          \/ worker'[v] = worker[v]
          \/ /\ worker[v].pc \notin {"system", "add_find", "add_insert"}
             /\ worker'[v].pc \notin {"system", "add_find", "add_insert"}
    <3>1. CASE OpenGet(w)
      BY <1>0, <3>1 DEF OpenGet, At, TypeInv, TypeOK
    <3>2. CASE AddStore(w)
      BY <1>0, <3>2 DEF AddStore, Move, At, TypeInv, TypeOK
    <3>3. CASE TouchWrite(w)
      BY <1>0, <3>3 DEF TouchWrite, Move, Return, IdleWorker, At, TypeInv, TypeOK
    <3>4. QED
      BY <1>2, <3>1, <3>2, <3>3
  <2>4. Systems(k)' = Systems(k) /\ Adders(k)' = Adders(k)
    BY <2>3
  <2>5. QED
    BY <1>0, <2>1, <2>2, <2>4, CountKept
<1>3. ASSUME NEW w \in Workers, OpenSystem(w), worker[w].id = k PROVE CountOf(k)'
  <2>1. spawned'[k] = spawned[k] + 1 /\ hlsProcessors' = hlsProcessors
    BY <1>0, <1>3 DEF OpenSystem, TypeInv, TypeOK
  <2>2. /\ worker[w].pc = "system" /\ worker'[w].pc = "add_find" /\ worker'[w].id = k
        /\ \A v \in Workers : v # w => worker'[v] = worker[v]
    BY <1>0, <1>3 DEF OpenSystem, Move, At, TypeInv, TypeOK
  <2>3. Systems(k)' = Systems(k) \ {w} /\ w \in Systems(k)
    BY <1>3, <2>2
  <2>4. Adders(k)' = Adders(k) \cup {w} /\ w \notin Adders(k)
    BY <1>3, <2>2
  <2>5. PICK n \in Nat, s \in Nat, a \in Nat, c \in Nat :
          /\ n = spawned[k] /\ s = Cardinality(Systems(k)) /\ a = Cardinality(Adders(k))
          /\ c = Cardinality(Workers)
    BY <1>0, CountSizes DEF TypeInv, TypeOK
  <2>6. Cardinality(Systems(k)') = s - 1 /\ Cardinality(Adders(k)') = a + 1
    <3> HIDE DEF Systems, Adders
    <3>1. IsFiniteSet(Systems(k)) /\ IsFiniteSet(Adders(k))
      BY <1>0, CountSizes
    <3>2. Cardinality(Systems(k) \ {w}) = s - 1
      BY <2>3, <2>5, <3>1, FS_RemoveElement
    <3>3. Cardinality(Adders(k) \cup {w}) = a + 1
      BY <2>4, <2>5, <3>1, FS_AddElement
    <3>4. QED
      BY <2>3, <2>4, <3>2, <3>3
  <2>7. Found(k)' <=> Found(k)
    BY <2>1 DEF Found
  <2>8. CASE Found(k)
    <3>1. (n + 1) + (s - 1) <= c
      BY <1>0, <2>5, <2>8 DEF CountOf
    <3>2. QED
      BY <2>1, <2>5, <2>6, <2>7, <2>8, <3>1 DEF CountOf
  <2>9. CASE ~Found(k)
    <3>1. n + 1 <= a + 1
      BY <1>0, <2>5, <2>9 DEF CountOf
    <3>2. QED
      BY <2>1, <2>5, <2>6, <2>7, <2>9, <3>1 DEF CountOf
  <2>10. QED
    BY <2>8, <2>9
<1>4. ASSUME NEW w \in Workers, OpenSystem(w), worker[w].id # k PROVE CountOf(k)'
  <2>1. spawned'[k] = spawned[k] /\ hlsProcessors' = hlsProcessors
    BY <1>0, <1>4 DEF OpenSystem, TypeInv, TypeOK
  <2>2. /\ worker'[w].id = worker[w].id
        /\ \A v \in Workers : v # w => worker'[v] = worker[v]
    BY <1>0, <1>4 DEF OpenSystem, Move, At, TypeInv, TypeOK
  <2>3. Systems(k)' = Systems(k) /\ Adders(k)' = Adders(k)
    BY <1>4, <2>2
  <2>4. QED
    BY <1>0, <2>1, <2>3, CountKept DEF Found
<1>5. ASSUME NEW w \in Workers, AddInsert(w) PROVE CountOf(k)'
  <2>1. spawned' = spawned
    BY <1>5 DEF AddInsert
  <2>2. Found(k) => Found(k)'
    BY <1>0, <1>5 DEF AddInsert, Found, TypeInv, TypeOK
  <2>3. worker[w].id = k => Found(k)'
    BY <1>0, <1>5, ScheduleAssumption DEF AddInsert, Found, TypeInv, TypeOK
  <2>4. /\ \A v \in Workers : worker'[v].id = worker[v].id
        /\ \A v \in Workers : v # w => worker'[v] = worker[v]
        /\ worker[w].pc = "add_insert" /\ worker'[w].pc = "add_store"
    BY <1>0, <1>5 DEF AddInsert, Goto, At, TypeInv, TypeOK, WorkerRecords
  <2>5. Systems(k)' \subseteq Systems(k)
    BY <2>4
  <2>6. ~Found(k)' => Adders(k) \subseteq Adders(k)'
    BY <2>3, <2>4
  <2>7. QED
    BY <1>0, <2>1, <2>2, <2>5, <2>6, CountKept
<1>6. CASE SweepOnly
  BY <1>0, <1>6 DEF SweepOnly, CountOf, Found
<1>7. CASE SweepErase
  <2>1. PICK j \in sweep.expiredKeys :
          /\ hlsProcessors' = [hlsProcessors EXCEPT ![j] = Absent]
          /\ spawned' = [spawned EXCEPT ![j] = 0]
          /\ worker' = [w \in Workers |-> AfterErase(w, j)]
    BY <1>7 DEF SweepErase
  <2>2. \A v \in Workers :
          /\ worker'[v].id = worker[v].id
          /\ worker'[v].pc = "system" <=> worker[v].pc = "system"
          /\ worker'[v].pc \in {"add_find", "add_insert"}
               <=> worker[v].pc \in {"add_find", "add_insert"}
    BY <2>1 DEF AfterErase
  <2>3. Systems(k)' = Systems(k) /\ Adders(k)' = Adders(k)
    BY <2>2
  <2>4. CASE j = k
    <3>1. spawned'[k] = 0 /\ ~Found(k)'
      BY <1>0, <2>1, <2>4 DEF Found, TypeInv, TypeOK
    <3>2. Cardinality(Adders(k)') \in Nat
      BY <1>0, <2>3, CountSizes
    <3>3. QED
      BY <3>1, <3>2 DEF CountOf
  <2>5. CASE j # k
    <3>1. spawned'[k] = spawned[k] /\ hlsProcessors'[k] = hlsProcessors[k]
      BY <1>0, <2>1, <2>5 DEF TypeInv, TypeOK
    <3>2. QED
      BY <1>0, <2>3, <3>1, CountKept DEF Found
  <2>6. QED
    BY <2>4, <2>5
<1>8. CASE Tick
  <2>1. spawned' = spawned /\ hlsProcessors' = hlsProcessors
    BY <1>8 DEF Tick
  <2>2. \A v \in Workers : worker'[v].id = worker[v].id /\ worker'[v].pc = worker[v].pc
    BY <1>0, <1>8 DEF Tick, TypeInv, TypeOK, WorkerRecords
  <2>3. Systems(k)' = Systems(k) /\ Adders(k)' = Adders(k)
    BY <2>2
  <2>4. QED
    BY <1>0, <2>1, <2>3, CountKept DEF Found
<1>9. CASE UNCHANGED vars
  BY <1>0, <1>9 DEF vars, CountOf, Found
<1>10. QED
  BY <1>0, <1>1, <1>2, <1>3, <1>4, <1>5, <1>6, <1>7, <1>8, <1>9, StepKinds

(* Opens of one stream start at most one muxer per data thread before the   *)
(* stream leaves the map again, however many opens race: once the entry is  *)
(* there only those that had already missed running() can start another.    *)
THEOREM DuplicatesBounded == Spec => []DuplicateBound
<1>1. Init => CountInv
  <2> SUFFICES ASSUME Init, NEW k \in StreamIds PROVE CountOf(k)
    BY DEF CountInv
  <2>1. TypeInv
    BY TypeInit
  <2>2. ~Found(k) /\ spawned[k] = 0
    BY DEF Init, Found
  <2>3. QED
    BY <2>1, <2>2, CountSizes DEF CountOf
<1>2. AgedInv /\ CountInv /\ [Next]_vars => CountInv'
  BY CountStep DEF CountInv
<1>3. AgedInv /\ CountInv => DuplicateBound
  <2> SUFFICES ASSUME AgedInv, CountInv, NEW k \in StreamIds
               PROVE  spawned[k] <= Cardinality(Workers)
    BY DEF DuplicateBound
  <2>1. TypeInv
    BY DEF AgedInv, SafeInv
  <2>2. spawned[k] \in Nat
    BY <2>1 DEF TypeInv, TypeOK
  <2>3. QED
    BY <2>1, <2>2, CountSizes DEF CountInv, CountOf
<1>4. QED
  BY <1>1, <1>2, <1>3, AgedInvariant, PTL DEF Spec
=============================================================================
