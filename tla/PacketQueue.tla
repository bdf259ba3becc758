----------------------------- MODULE PacketQueue -----------------------------
(***************************************************************************)
(* AVPacketQueue (av_utils/av_packet_queue.cpp), the queue between the     *)
(* demux thread of the player and its decoder threads: a singly linked     *)
(* list under an SDL mutex.                                                *)
(*                                                                         *)
(* take() clears item->next after it released the mutex, and a put() that  *)
(* cannot allocate a packet returns without releasing it.  SDL mutexes are *)
(* recursive, so the thread that leaked the lock goes on.                  *)
(*                                                                         *)
(* An item is named by its id, the serial number it got.                   *)
(***************************************************************************)
EXTENDS Integers

CONSTANTS
  Producers, Consumers,
  AllocFails,    \* may av_packet_alloc return null
  MaxPackets,    \* bound: packets put
  MaxDepth,      \* bound: times a thread locks without unlocking
  NULL

ASSUME PacketQueueAssumption ==
  /\ AllocFails \in BOOLEAN
  /\ MaxPackets \in Nat /\ MaxDepth \in Nat
  /\ Producers \cap Consumers = {}
  /\ NULL \notin Int \cup Producers \cup Consumers

VARIABLES
  lock,     \* owner and recursion depth of the SDL mutex
  first, last, next, len, serial,   \* the queue and the items' next pointers
  pc,       \* where each thread is
  held,     \* the item a consumer has taken
  freed     \* items that were deleted

queueVars == <<first, last, next, len, serial>>
vars == <<lock, queueVars, pc, held, freed>>

Threads == Producers \cup Consumers

Ids == 0..MaxPackets

Init ==
  /\ lock = [owner |-> NULL, depth |-> 0]
  /\ first = NULL /\ last = NULL
  /\ next = [i \in Ids |-> NULL]
  /\ len = 0 /\ serial = 0
  /\ pc = [t \in Threads |-> "idle"]
  /\ held = [c \in Consumers |-> NULL]
  /\ freed = {}

-----------------------------------------------------------------------------

LockMutex(t) ==
  /\ lock.owner \in {NULL, t}
  /\ lock' = [owner |-> t, depth |-> lock.depth + 1]

UnlockMutex ==
  lock' = [owner |-> IF lock.depth = 1 THEN NULL ELSE lock.owner, depth |-> lock.depth - 1]

Goto(t, there) == pc' = [pc EXCEPT ![t] = there]

-----------------------------------------------------------------------------
(* AVPacketQueue::put *)

PutLock(p) ==
  /\ pc[p] = "idle"
  /\ serial < MaxPackets /\ lock.depth < MaxDepth
  /\ LockMutex(p)
  /\ Goto(p, "put")
  /\ UNCHANGED <<queueVars, held, freed>>

(* av_packet_alloc error: return, the mutex stays locked *)
PutFails(p) ==
  /\ AllocFails
  /\ pc[p] = "put"
  /\ Goto(p, "idle")
  /\ UNCHANGED <<lock, queueVars, held, freed>>

(* mutant: last is tested, which is stale after the queue ran empty *)
PutLinkByLast(p) ==
  /\ pc[p] = "put"
  /\ serial' = serial + 1
  /\ first' = IF last = NULL THEN serial ELSE first
  /\ next' = IF last = NULL THEN next ELSE [next EXCEPT ![last] = serial]
  /\ last' = serial
  /\ len' = len + 1
  /\ Goto(p, "put_unlock")
  /\ UNCHANGED <<lock, held, freed>>

PutLink(p) ==
  /\ pc[p] = "put"
  /\ serial' = serial + 1
  /\ first' = IF first = NULL THEN serial ELSE first
  /\ next' = IF first = NULL THEN next ELSE [next EXCEPT ![last] = serial]
  /\ last' = serial
  /\ len' = len + 1
  /\ Goto(p, "put_unlock")
  /\ UNCHANGED <<lock, held, freed>>

PutUnlock(p) ==
  /\ pc[p] = "put_unlock"
  /\ UnlockMutex
  /\ Goto(p, "idle")
  /\ UNCHANGED <<queueVars, held, freed>>

-----------------------------------------------------------------------------
(* AVPacketQueue::take, called in a loop by the decoder threads *)

TakeLock(c) ==
  /\ pc[c] = "idle"
  /\ LockMutex(c)
  /\ Goto(c, "take")
  /\ UNCHANGED <<queueVars, held, freed>>

TakeEmpty(c) ==
  /\ pc[c] = "take" /\ first = NULL
  /\ UnlockMutex
  /\ Goto(c, "idle")
  /\ UNCHANGED <<queueVars, held, freed>>

(* mutant: the item is returned and stays in the queue *)
TakePeek(c) ==
  /\ pc[c] = "take" /\ first # NULL
  /\ held' = [held EXCEPT ![c] = first]
  /\ Goto(c, "take_unlock")
  /\ UNCHANGED <<lock, queueVars, freed>>

(* last keeps pointing to the item when it was the only one *)
TakeFirst(c) ==
  /\ pc[c] = "take" /\ first # NULL
  /\ held' = [held EXCEPT ![c] = first]
  /\ first' = next[first]
  /\ len' = len - 1
  /\ Goto(c, "take_unlock")
  /\ UNCHANGED <<lock, last, next, serial, freed>>

TakeUnlock(c) ==
  /\ pc[c] = "take_unlock"
  /\ UnlockMutex
  /\ Goto(c, "detach")
  /\ UNCHANGED <<queueVars, held, freed>>

(* mutant: next is kept *)
TakeKeepsNext(c) ==
  /\ pc[c] = "detach"
  /\ Goto(c, "use")
  /\ UNCHANGED <<lock, queueVars, held, freed>>

(* item->next = nullptr, outside the mutex *)
TakeDetach(c) ==
  /\ pc[c] = "detach"
  /\ next' = [next EXCEPT ![held[c]] = NULL]
  /\ Goto(c, "use")
  /\ UNCHANGED <<lock, first, last, len, serial, held, freed>>

(* delete item: the destructor deletes item->next too *)
Delete(c) ==
  /\ pc[c] = "use"
  /\ freed' = freed \cup ({held[c], next[held[c]]} \ {NULL})
  /\ held' = [held EXCEPT ![c] = NULL]
  /\ Goto(c, "idle")
  /\ UNCHANGED <<lock, queueVars>>

(* the decoder refused the packet: continue without delete, the item leaks *)
Leak(c) ==
  /\ pc[c] = "use"
  /\ held' = [held EXCEPT ![c] = NULL]
  /\ Goto(c, "idle")
  /\ UNCHANGED <<lock, queueVars, freed>>

-----------------------------------------------------------------------------

Producer(p) == PutLock(p) \/ PutFails(p) \/ PutLink(p) \/ PutUnlock(p)

Consumer(c) ==
  \/ TakeLock(c) \/ TakeEmpty(c) \/ TakeFirst(c) \/ TakeUnlock(c)
  \/ TakeDetach(c) \/ Delete(c) \/ Leak(c)

Next == (\E p \in Producers : Producer(p)) \/ (\E c \in Consumers : Consumer(c))

Spec == Init /\ [][Next]_vars

(* The decoders poll the queue for ever, the demux thread finishes a put *)
FairSpec ==
  /\ Spec
  /\ \A p \in Producers : WF_vars(Producer(p) /\ pc[p] # "idle")
  /\ \A c \in Consumers : WF_vars(Consumer(c))

-----------------------------------------------------------------------------
(* Properties *)

(* Every variable of the queue and its threads has its type. *)
TypeOK ==
  /\ lock \in [owner: Threads \cup {NULL}, depth: Nat]
  /\ first \in Ids \cup {NULL} /\ last \in Ids \cup {NULL}
  /\ next \in [Ids -> Ids \cup {NULL}]
  /\ len \in Ids /\ serial \in Ids
  /\ pc \in [Threads -> {"idle", "put", "put_unlock", "take", "take_unlock",
                         "detach", "use"}]
  /\ held \in [Consumers -> Ids \cup {NULL}]
  /\ freed \subseteq Ids

(* The number of the packet the next take returns *)
Got == IF first = NULL THEN serial ELSE first

(* The linked list holds exactly the packets put and not taken, in order,   *)
(* and len counts them, at every moment the mutex protects.                 *)
ListIsInterval ==
  /\ len = serial - Got
  /\ first # NULL => /\ first < serial /\ last = serial - 1 /\ next[last] = NULL
                     /\ \A i \in first..(serial - 2) : next[i] = i + 1

(* Deleting a taken item never frees one that is queued or that another     *)
(* decoder works on, although take() cuts item->next outside the mutex.     *)
NoUseAfterFree ==
  /\ \A i \in freed : i < Got
  /\ \A c \in Consumers : held[c] # NULL => held[c] \notin freed

(* AVPacketQueue implements a FIFO queue *)
F == INSTANCE Fifo WITH put <- serial, got <- Got, Nobody <- NULL

ImplementsFifo == F!Spec

(* Every packet put is delivered, unless a put failed to allocate and kept  *)
(* the mutex: then nobody else gets the lock again.                         *)
Leaked == \E p \in Producers : lock.owner = p /\ pc[p] = "idle"

EveryPacketTaken ==
  \A i \in 0..(MaxPackets - 1) :
    <>(i < serial) => <>(\E c \in Consumers : held[c] = i) \/ <>Leaked
=============================================================================
