-------------------------- MODULE PacketQueueProofs --------------------------
(* Machine-checked theorems about PacketQueue, for any number of producers  *)
(* and consumers and any number of packets, with and without failing        *)
(* allocations.                                                             *)
EXTENDS PacketQueue, TLAPS

(* Inside the mutex: only its owner is there *)
Critical == {"put", "put_unlock", "take", "take_unlock"}

MutexInv ==
  /\ \A t \in Threads : pc[t] \in Critical => lock.owner = t /\ lock.depth > 0
  /\ \A p \in Producers : pc[p] \in {"idle", "put", "put_unlock"}
  /\ \A c \in Consumers : pc[c] \notin {"put", "put_unlock"}
  /\ \A p \in Producers : pc[p] = "put" => serial < MaxPackets

(* A consumer holds an item from TakeFirst on.  It was queued before all    *)
(* that are queued now, nobody else holds it, and once it is cut off        *)
(* nothing is linked behind it.                                             *)
HeldInv ==
  /\ \A c \in Consumers :
       /\ held[c] # NULL <=> pc[c] \in {"take_unlock", "detach", "use"}
       /\ held[c] # NULL => held[c] < Got /\ held[c] \notin freed
       /\ pc[c] = "use" => next[held[c]] = NULL
  /\ \A c, d \in Consumers : held[c] # NULL /\ held[c] = held[d] => c = d
  /\ \A i \in freed : i < Got

(* Items not yet put have no successor *)
FreshInv == \A i \in Ids : i >= serial => next[i] = NULL

Inv == TypeOK /\ MutexInv /\ ListIsInterval /\ HeldInv /\ FreshInv

-----------------------------------------------------------------------------

LEMMA InvInit == Init => Inv
BY PacketQueueAssumption
   DEF Init, Inv, TypeOK, MutexInv, ListIsInterval, HeldInv, FreshInv, Critical, Threads, Ids, Got

LEMMA InvStep == Inv /\ [Next]_vars => Inv'
<1> SUFFICES ASSUME Inv, [Next]_vars PROVE Inv'
  OBVIOUS
<1> USE PacketQueueAssumption
    DEF Inv, TypeOK, MutexInv, ListIsInterval, HeldInv, FreshInv, Critical, Threads, Ids, Got,
        LockMutex, UnlockMutex, Goto, queueVars
<1>1. ASSUME NEW p \in Producers, PutLock(p) PROVE Inv'
  BY <1>1 DEF PutLock
<1>2. ASSUME NEW p \in Producers, PutFails(p) PROVE Inv'
  BY <1>2 DEF PutFails
<1>3. ASSUME NEW p \in Producers, PutLink(p) PROVE Inv'
  <2> USE <1>3 DEF PutLink
  <2>1. serial \in Ids /\ serial + 1 \in Ids
    OBVIOUS
  <2>2. TypeOK'
    BY <2>1
  <2>3. MutexInv'
    OBVIOUS
  <2>4. Got' = Got
    BY <2>1
  <2>5. ListIsInterval'
    <3>1. CASE first = NULL
      BY <2>1, <3>1
    <3>2. CASE first # NULL
      <4>1. last = serial - 1 /\ first \in Ids /\ first <= last
        BY <3>2
      <4>2. /\ first' = first /\ last' = serial /\ serial' = serial + 1
            /\ next' = [next EXCEPT ![last] = serial] /\ len' = len + 1
        BY <3>2
      <4>3. \A i \in first..(serial - 1) : next'[i] = i + 1
        BY <2>1, <3>2, <4>1, <4>2
      <4>4. next'[serial] = NULL
        BY <2>1, <3>2, <4>1, <4>2
      <4>5. QED
        BY <2>1, <2>4, <3>2, <4>1, <4>2, <4>3, <4>4
    <3>3. QED
      BY <3>1, <3>2
  <2>6. HeldInv'
    BY <2>4
  <2>7. FreshInv'
    BY <2>1
  <2>8. QED
    BY <2>2, <2>3, <2>5, <2>6, <2>7
<1>4. ASSUME NEW p \in Producers, PutUnlock(p) PROVE Inv'
  BY <1>4 DEF PutUnlock
<1>5. ASSUME NEW c \in Consumers, TakeLock(c) PROVE Inv'
  BY <1>5 DEF TakeLock
<1>6. ASSUME NEW c \in Consumers, TakeEmpty(c) PROVE Inv'
  BY <1>6 DEF TakeEmpty
<1>7. ASSUME NEW c \in Consumers, TakeFirst(c) PROVE Inv'
  BY <1>7 DEF TakeFirst
<1>8. ASSUME NEW c \in Consumers, TakeUnlock(c) PROVE Inv'
  BY <1>8 DEF TakeUnlock
<1>9. ASSUME NEW c \in Consumers, TakeDetach(c) PROVE Inv'
  BY <1>9 DEF TakeDetach
<1>10. ASSUME NEW c \in Consumers, Delete(c) PROVE Inv'
  <2> USE <1>10 DEF Delete
  <2>1. freed' = freed \cup {held[c]} /\ held[c] \in Ids /\ held[c] < Got
    OBVIOUS
  <2>2. TypeOK'
    <3>1. /\ held' \in [Consumers -> Ids \cup {NULL}]
          /\ pc' \in [Threads -> {"idle", "put", "put_unlock", "take", "take_unlock",
                                 "detach", "use"}]
      OBVIOUS
    <3>2. freed \subseteq Ids
      OBVIOUS
    <3>3. freed' \subseteq Ids
      BY ONLY <2>1, <3>2
    <3>4. QED
      BY <3>1, <3>3
  <2>3. MutexInv' /\ ListIsInterval' /\ FreshInv' /\ Got' = Got
    OBVIOUS
  <2>4. /\ held' = [held EXCEPT ![c] = NULL] /\ pc' = [pc EXCEPT ![c] = "idle"]
        /\ next' = next
    OBVIOUS
  <2>5. \A d \in Consumers : held'[d] # NULL <=> pc'[d] \in {"take_unlock", "detach", "use"}
    BY <2>4
  <2>6. \A d \in Consumers :
          held'[d] # NULL => held'[d] = held[d] /\ d # c /\ held'[d] \notin freed'
    BY <2>1, <2>4
  <2>7. HeldInv'
    BY <2>1, <2>3, <2>4, <2>5, <2>6
  <2>8. QED
    BY <2>2, <2>3, <2>7
<1>11. ASSUME NEW c \in Consumers, Leak(c) PROVE Inv'
  BY <1>11 DEF Leak
<1>12. CASE UNCHANGED vars
  BY <1>12 DEF vars
<1>13. QED
  BY <1>1, <1>2, <1>3, <1>4, <1>5, <1>6, <1>7, <1>8, <1>9, <1>10, <1>11, <1>12
     DEF Next, Producer, Consumer

LEMMA Invariant == Spec => []Inv
BY InvInit, InvStep, PTL DEF Spec

-----------------------------------------------------------------------------
(* The theorems *)

(* The list, the mutex and the threads keep their types, whatever fails.     *)
THEOREM TypeCorrect == Spec => []TypeOK
<1>1. Inv => TypeOK
  BY DEF Inv
<1>2. QED
  BY <1>1, Invariant, PTL

(* The queue's list is always the interval of packets put and not taken,    *)
(* for any number of threads that call put() and take().                    *)
THEOREM QueueIsInterval == Spec => []ListIsInterval
<1>1. Inv => ListIsInterval
  BY DEF Inv
<1>2. QED
  BY <1>1, Invariant, PTL

(* Cutting item->next outside the mutex in take() is harmless: deleting an  *)
(* item never frees one that is queued or held by another consumer.         *)
THEOREM NoUseAfterFreeEver == Spec => []NoUseAfterFree
<1>1. Inv => NoUseAfterFree
  BY DEF Inv, HeldInv, NoUseAfterFree
<1>2. QED
  BY <1>1, Invariant, PTL

LEMMA FifoInit == Init => F!Init
BY DEF Init, F!Init, Got

LEMMA FifoStep == Inv /\ [Next]_vars => [F!Next]_F!fifoVars
<1> SUFFICES ASSUME Inv, [Next]_vars PROVE [F!Next]_F!fifoVars
  OBVIOUS
<1> USE PacketQueueAssumption
    DEF Inv, TypeOK, ListIsInterval, HeldInv, Threads, Ids, Got, queueVars, Goto,
        F!fifoVars
<1>1. ASSUME NEW p \in Producers, PutLink(p) PROVE F!Put
  BY <1>1 DEF PutLink, F!Put
<1>2. ASSUME NEW c \in Consumers, TakeFirst(c) PROVE F!Take(c)
  <2> USE <1>2 DEF TakeFirst
  <2>1. first \in Ids /\ first < serial /\ held[c] = NULL
    OBVIOUS
  <2>2. Got' = first + 1
    <3>1. CASE first = serial - 1
      <4>1. last = first /\ first' = NULL /\ serial' = serial
        BY <2>1, <3>1
      <4>2. serial = first + 1
        BY <2>1, <3>1
      <4>3. QED
        BY <4>1, <4>2
    <3>2. CASE first # serial - 1
      BY <2>1, <3>2
    <3>3. QED
      BY <3>1, <3>2
  <2>3. QED
    BY <2>1, <2>2 DEF F!Take
<1>3. ASSUME NEW c \in Consumers, Delete(c) \/ Leak(c) PROVE F!Done(c)
  BY <1>3 DEF Delete, Leak, F!Done
<1>4. ASSUME NEW p \in Producers, PutLock(p) \/ PutFails(p) \/ PutUnlock(p)
      PROVE  UNCHANGED F!fifoVars
  BY <1>4 DEF PutLock, PutFails, PutUnlock
<1>5. ASSUME NEW c \in Consumers,
             TakeLock(c) \/ TakeEmpty(c) \/ TakeUnlock(c) \/ TakeDetach(c)
      PROVE  UNCHANGED F!fifoVars
  BY <1>5 DEF TakeLock, TakeEmpty, TakeUnlock, TakeDetach
<1>6. CASE UNCHANGED vars
  BY <1>6 DEF vars
<1>7. QED
  BY <1>1, <1>2, <1>3, <1>4, <1>5, <1>6 DEF Next, Producer, Consumer, F!Next

(* AVPacketQueue delivers every packet at most once and in the order it was *)
(* put, for any number of producers and consumers.                          *)
THEOREM QueueImplementsFifo == Spec => ImplementsFifo
BY Invariant, FifoInit, FifoStep, PTL DEF Spec, ImplementsFifo, F!Spec

-----------------------------------------------------------------------------
(* Who may have the mutex *)
LockInv ==
  /\ lock.owner = NULL => lock.depth = 0
  /\ lock.owner \in Consumers \/ ~AllocFails => lock.depth <= 1
  /\ \/ lock.owner = NULL \/ pc[lock.owner] \in Critical
     \/ AllocFails /\ lock.owner \in Producers

OnlyAFailedPutKeepsTheMutex ==
  lock.owner = NULL \/ pc[lock.owner] \in Critical \/ (AllocFails /\ Leaked)

LEMMA LockInit == Init => LockInv
BY PacketQueueAssumption DEF Init, LockInv, Threads

LEMMA LockStep == ASSUME Inv, LockInv, [Next]_vars PROVE LockInv'
<1> USE PacketQueueAssumption
    DEF Inv, TypeOK, MutexInv, LockInv, Critical, Threads, LockMutex, UnlockMutex, Goto
<1>1. ASSUME NEW p \in Producers, PutLock(p) PROVE LockInv'
  BY <1>1 DEF PutLock
<1>2. ASSUME NEW p \in Producers, PutFails(p) PROVE LockInv'
  BY <1>2 DEF PutFails
<1>3. ASSUME NEW p \in Producers, PutLink(p) PROVE LockInv'
  BY <1>3 DEF PutLink
<1>4. ASSUME NEW p \in Producers, PutUnlock(p) PROVE LockInv'
  BY <1>4 DEF PutUnlock
<1>5. ASSUME NEW c \in Consumers, TakeLock(c) PROVE LockInv'
  BY <1>5 DEF TakeLock
<1>6. ASSUME NEW c \in Consumers, TakeEmpty(c) \/ TakeUnlock(c) PROVE LockInv'
  BY <1>6 DEF TakeEmpty, TakeUnlock
<1>7. ASSUME NEW c \in Consumers, TakeFirst(c) PROVE LockInv'
  BY <1>7 DEF TakeFirst
<1>8. ASSUME NEW c \in Consumers, TakeDetach(c) \/ Delete(c) \/ Leak(c) PROVE LockInv'
  BY <1>8 DEF TakeDetach, Delete, Leak
<1>9. CASE UNCHANGED vars
  BY <1>9 DEF vars
<1> QED
  BY <1>1, <1>2, <1>3, <1>4, <1>5, <1>6, <1>7, <1>8, <1>9 DEF Next, Producer, Consumer

(* Whoever has the mutex is between its lock and its unlock, where nothing  *)
(* blocks, so the mutex comes free again; the one exception is a producer   *)
(* whose put could not allocate, once or more often                         *)
(* (av_packet_queue.cpp:28).                                                *)
THEOREM MutexComesFree == Spec => []OnlyAFailedPutKeepsTheMutex
<1>1. Inv /\ LockInv => OnlyAFailedPutKeepsTheMutex
  BY DEF Inv, MutexInv, LockInv, Leaked, Critical, OnlyAFailedPutKeepsTheMutex
<1>2. Inv /\ LockInv /\ [Next]_vars => LockInv'
  BY LockStep
<1> QED
  BY Invariant, LockInit, <1>1, <1>2, PTL DEF Spec
=============================================================================
