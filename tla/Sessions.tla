------------------------------ MODULE Sessions ------------------------------
(***************************************************************************)
(* What the session registry promises, whatever its threads do to each     *)
(* other: a stream gets its entry from an open, the entry is filled and    *)
(* touched, it grows old, and it goes away when it is older than the       *)
(* timeout, or when it was touched while the sweeper was at work.          *)
(*                                                                         *)
(* sessions[k] is the age of the last access that was recorded.            *)
(***************************************************************************)
EXTENDS Naturals

CONSTANTS
  StreamIds,
  Timeout,   \* a session may be dropped when it is older
  MaxLag,    \* how far the record of an access may lag behind
  NULL,      \* the entry is there and not filled
  Absent     \* there is no entry

VARIABLE sessions

MaxAge == Timeout + MaxLag + 1      \* older than this makes no difference

Init == sessions = [k \in StreamIds |-> Absent]

Insert(k) ==
  /\ sessions[k] = Absent
  /\ sessions' = [sessions EXCEPT ![k] = NULL]

(* the first access of an inserted entry, or a later one *)
Touch(k) ==
  /\ sessions[k] # Absent
  /\ \E age \in 0..MaxLag : sessions' = [sessions EXCEPT ![k] = age]

TooOld(k)   == sessions[k] \notin {NULL, Absent} /\ sessions[k] > Timeout
JustUsed(k) == sessions[k] \notin {NULL, Absent} /\ sessions[k] <= 2 * MaxLag

Erase(k) ==
  /\ sessions[k] = NULL \/ TooOld(k) \/ JustUsed(k)
  /\ sessions' = [sessions EXCEPT ![k] = Absent]

Older(age) == IF age < MaxAge THEN age + 1 ELSE age

Tick ==
  sessions' = [k \in StreamIds |->
                 IF sessions[k] \in {NULL, Absent} THEN sessions[k] ELSE Older(sessions[k])]

Next == Tick \/ \E k \in StreamIds : Insert(k) \/ Touch(k) \/ Erase(k)

Spec == Init /\ [][Next]_sessions
=============================================================================
