-------------------------- MODULE MuxerStatusProofs --------------------------
(***************************************************************************)
(* Theorems of MuxerStatus, for any retry limit and any heap: what the two *)
(* threads of a muxer can do to the client they share is due to calls that *)
(* overlap.                                                                *)
(***************************************************************************)
EXTENDS MuxerStatus, TLAPS

Inside(t) == pc[t] \notin Outside

(* The static pointer points to a Response, and is null while one is made *)
PointerInv ==
  /\ res \in live \cup {NULL} \/ \E t \in Threads : pc[t] = "forget"
  /\ \A t \in Threads : pc[t] \in {"request", "perform", "assign"} => res = NULL
  /\ \A t \in Threads : pc[t] = "return" => res = got[t]

(* The thread that has a Response has a live one, and its whole body *)
ResponseInv ==
  /\ \A t \in Threads : pc[t] \in {"assign", "return", "status"} => got[t] \in live \cup {NULL}
  /\ \A t \in Threads : pc[t] = "parse" => got[t] \in live
  /\ result # "mixed"
  /\ \A t \in Threads : pc[t] = "perform" => result = "empty"

(* Who says expired was told so *)
ToldInv ==
  /\ \A t \in Threads :
       pc[t] \in {"assign", "return", "status"} /\ got[t] # NULL /\ status[got[t]]
       /\ result = "expired" => told
  /\ \A t \in Threads : pc[t] = "parse" /\ result = "expired" => told
  /\ answer[Heart] = "expired" => told

(* retry counts the failures *)
RetryInv ==
  /\ retry = failures
  /\ \A t \in Threads : pc[t] = "count" => seenRetry[t] = retry

Alone ==
  /\ ~crashed
  /\ \A t, u \in Threads : Inside(t) /\ Inside(u) => t = u
  /\ PointerInv
  /\ ResponseInv
  /\ ToldInv
  /\ RetryInv

Inv == TypeOK /\ (~overlapped => Alone)

-----------------------------------------------------------------------------

LEMMA InvInit == Init => Inv
<1> SUFFICES ASSUME Init PROVE Inv
  OBVIOUS
<1> USE MuxerStatusAssumption DEF Init, Threads, Outside
<1>1. TypeOK
  <2>1. 0 \in 0..MaxRetry
    OBVIOUS
  <2>2. exit \in BOOLEAN /\ sent \in BOOLEAN /\ crashed \in BOOLEAN
    OBVIOUS
  <2>3. told \in BOOLEAN /\ overlapped \in BOOLEAN
    OBVIOUS
  <2> QED
    BY <2>1, <2>2, <2>3 DEF TypeOK
<1>2. Alone
  BY DEF Alone, Inside, PointerInv, ResponseInv, ToldInv, RetryInv
<1> QED
  BY <1>1, <1>2 DEF Inv

LEMMA TypeStep == TypeOK /\ [Next]_vars => TypeOK'
<1> SUFFICES ASSUME TypeOK, [Next]_vars PROVE TypeOK'
  OBVIOUS
<1> USE MuxerStatusAssumption DEF TypeOK, Outside, Goto, At, Step, client, history
<1>a. Heart \in Threads /\ Main \in Threads
  BY DEF Threads
<1>1. ASSUME NEW t \in Threads, PostTest(t) PROVE TypeOK'
  BY <1>a, <1>1 DEF PostTest
<1>2. ASSUME NEW t \in Threads, PostDelete(t) PROVE TypeOK'
  BY <1>a, <1>2 DEF PostDelete
<1>3. ASSUME NEW t \in Threads, PostForget(t) PROVE TypeOK'
  BY <1>a, <1>3 DEF PostForget
<1>4. ASSUME NEW t \in Threads, RequestBegin(t) PROVE TypeOK'
  BY <1>a, <1>4 DEF RequestBegin
<1>5. ASSUME NEW t \in Threads, RequestAnswered(t) PROVE TypeOK'
  BY <1>a, <1>5 DEF RequestAnswered
<1>6. ASSUME NEW t \in Threads, RequestFails(t) PROVE TypeOK'
  BY <1>a, <1>6 DEF RequestFails
<1>7. ASSUME NEW t \in Threads, PostAssign(t) PROVE TypeOK'
  BY <1>a, <1>7 DEF PostAssign
<1>8. ASSUME NEW t \in Threads, PostReturn(t) PROVE TypeOK'
  BY <1>a, <1>8 DEF PostReturn
<1>9. ASSUME NEW t \in Threads, TestStatus(t) PROVE TypeOK'
  BY <1>a, <1>9 DEF TestStatus
<1>10. ASSUME NEW t \in Threads, ParseBody(t) PROVE TypeOK'
  BY <1>a, <1>10 DEF ParseBody
<1>11. ASSUME NEW t \in Threads, UseAfterDelete(t) PROVE TypeOK'
  <2>1. ASSUME NEW here, Crash(t, here) PROVE TypeOK'
    BY <2>1 DEF Crash
  <2>2. ASSUME NEW there \in {"parse", "failed"}, Step(t, "status", there),
               UNCHANGED <<got, answer, seenRetry, client, retry, told, failures>>
        PROVE  TypeOK'
    BY <2>2
  <2> HIDE DEF Step
  <2> QED
    BY <1>11, <2>1, <2>2 DEF UseAfterDelete
<1>12. ASSUME NEW t \in Threads, Succeeded(t) PROVE TypeOK'
  BY <1>a, <1>12 DEF Succeeded, Return
<1>13. ASSUME NEW t \in Threads, FailedRead(t) PROVE TypeOK'
  BY <1>a, <1>13 DEF FailedRead
<1>14. ASSUME NEW t \in Threads, FailedWrite(t) PROVE TypeOK'
  <2>1. AtMost(seenRetry[t] + 1) \in 0..MaxRetry /\ AtMost(failures + 1) \in 0..MaxRetry
    <3>1. \A k \in Nat : AtMost(k) \in 0..MaxRetry
      BY DEF AtMost
    <3>2. seenRetry[t] + 1 \in Nat /\ failures + 1 \in Nat
      OBVIOUS
    <3> QED
      BY <3>1, <3>2
  <2>2. seenRetry' \in [Threads -> 0..MaxRetry]
    BY <1>14 DEF FailedWrite
  <2> QED
    BY <1>a, <1>14, <2>1, <2>2 DEF FailedWrite, Return
<1>15. ASSUME BeatBegin PROVE TypeOK'
  BY <1>15 DEF BeatBegin, Call, Threads
<1>16. ASSUME BeatOff PROVE TypeOK'
  BY <1>16 DEF BeatOff, Threads
<1>17. ASSUME BeatJudge PROVE TypeOK'
  BY <1>17 DEF BeatJudge, Threads
<1>18. ASSUME BeatSleep PROVE TypeOK'
  BY <1>18 DEF BeatSleep, Threads
<1>19. ASSUME FirstSegment PROVE TypeOK'
  BY <1>19 DEF FirstSegment, Call, Threads
<1>20. ASSUME ServerChanges PROVE TypeOK'
  BY <1>20 DEF ServerChanges
<1>21. CASE UNCHANGED vars
  BY <1>21 DEF vars
<1> QED
  BY <1>a, <1>1, <1>2, <1>3, <1>4, <1>5, <1>6, <1>7, <1>8, <1>9, <1>10, <1>11,
     <1>12, <1>13, <1>14, <1>15, <1>16, <1>17, <1>18, <1>19, <1>20, <1>21
     DEF Next, Heartbeat, SendStatus

LEMMA AloneStep ==
  TypeOK /\ TypeOK' /\ Alone /\ [Next]_vars => overlapped' \/ Alone'
<1> SUFFICES ASSUME TypeOK, TypeOK', Alone, [Next]_vars, ~overlapped' PROVE Alone'
  OBVIOUS
<1> USE MuxerStatusAssumption
    DEF TypeOK, Alone, Inside, Outside, Goto, At, Step, client, history
<1>a. Heart \in Threads /\ Main \in Threads /\ Heart # Main
  BY DEF Threads
<1>1. ASSUME NEW t \in Threads, PostTest(t) PROVE Alone'
  BY <1>a, <1>1 DEF PostTest, PointerInv, ResponseInv, ToldInv, RetryInv
<1>2. ASSUME NEW t \in Threads, PostDelete(t) PROVE Alone'
  BY <1>a, <1>2 DEF PostDelete, PointerInv, ResponseInv, ToldInv, RetryInv
<1>3. ASSUME NEW t \in Threads, PostForget(t) PROVE Alone'
  BY <1>a, <1>3 DEF PostForget, PointerInv, ResponseInv, ToldInv, RetryInv
<1>4. ASSUME NEW t \in Threads, RequestBegin(t) PROVE Alone'
  BY <1>a, <1>4 DEF RequestBegin, PointerInv, ResponseInv, ToldInv, RetryInv
<1>5. ASSUME NEW t \in Threads, RequestAnswered(t) PROVE Alone'
  BY <1>a, <1>5 DEF RequestAnswered, PointerInv, ResponseInv, ToldInv, RetryInv
<1>6. ASSUME NEW t \in Threads, RequestFails(t) PROVE Alone'
  BY <1>a, <1>6 DEF RequestFails, PointerInv, ResponseInv, ToldInv, RetryInv
<1>7. ASSUME NEW t \in Threads, PostAssign(t) PROVE Alone'
  BY <1>a, <1>7 DEF PostAssign, PointerInv, ResponseInv, ToldInv, RetryInv
<1>8. ASSUME NEW t \in Threads, PostReturn(t) PROVE Alone'
  BY <1>a, <1>8 DEF PostReturn, PointerInv, ResponseInv, ToldInv, RetryInv
<1>9. ASSUME NEW t \in Threads, TestStatus(t) PROVE Alone'
  BY <1>a, <1>9 DEF TestStatus, PointerInv, ResponseInv, ToldInv, RetryInv
<1>10. ASSUME NEW t \in Threads, ParseBody(t) PROVE Alone'
  BY <1>a, <1>10 DEF ParseBody, PointerInv, ResponseInv, ToldInv, RetryInv
<1>11. ASSUME NEW t \in Threads, UseAfterDelete(t) PROVE Alone'
  BY <1>a, <1>11 DEF UseAfterDelete, Crash, PointerInv, ResponseInv, ToldInv, RetryInv
<1>12. ASSUME NEW t \in Threads, Succeeded(t) PROVE Alone'
  BY <1>a, <1>12 DEF Succeeded, Return, PointerInv, ResponseInv, ToldInv, RetryInv
<1>13. ASSUME NEW t \in Threads, FailedRead(t) PROVE Alone'
  BY <1>a, <1>13 DEF FailedRead, PointerInv, ResponseInv, ToldInv, RetryInv
<1>14. ASSUME NEW t \in Threads, FailedWrite(t) PROVE Alone'
  BY <1>a, <1>14 DEF FailedWrite, Return, AtMost, PointerInv, ResponseInv, ToldInv, RetryInv
<1>15. ASSUME BeatBegin PROVE Alone'
  <2> USE <1>15 DEF BeatBegin, Call
  <2>1. ~crashed' /\ \A v, u \in Threads : Inside(v)' /\ Inside(u)' => v = u
    <3>1. \A u \in Threads \ {Heart} : pc[u] \in Outside /\ pc'[u] = pc[u]
      OBVIOUS
    <3> QED
      BY <3>1
  <2>2. PointerInv'
    BY <2>1 DEF PointerInv, ResponseInv
  <2>3. ResponseInv'
    BY <2>1 DEF PointerInv, ResponseInv
  <2>4. ToldInv'
    BY <2>1 DEF ToldInv, PointerInv, ResponseInv
  <2>5. RetryInv'
    BY <2>1 DEF RetryInv
  <2> QED
    BY <2>1, <2>2, <2>3, <2>4, <2>5
<1>16. ASSUME BeatOff PROVE Alone'
  <2> USE <1>16 DEF BeatOff
  <2>1. ~crashed' /\ \A v, u \in Threads : Inside(v)' /\ Inside(u)' => v = u
    BY DEF PointerInv, ResponseInv, Threads
  <2>2. PointerInv'
    BY <2>1 DEF PointerInv, ResponseInv
  <2>3. ResponseInv'
    BY <2>1 DEF PointerInv, ResponseInv
  <2>4. ToldInv'
    BY <2>1 DEF ToldInv, PointerInv, ResponseInv
  <2>5. RetryInv'
    BY <2>1 DEF RetryInv
  <2> QED
    BY <2>1, <2>2, <2>3, <2>4, <2>5
<1>17. ASSUME BeatJudge PROVE Alone'
  <2> USE <1>17 DEF BeatJudge
  <2>1. ~crashed' /\ \A v, u \in Threads : Inside(v)' /\ Inside(u)' => v = u
    BY DEF PointerInv, ResponseInv, Threads
  <2>2. PointerInv'
    BY <2>1 DEF PointerInv, ResponseInv
  <2>3. ResponseInv'
    BY <2>1 DEF PointerInv, ResponseInv
  <2>4. ToldInv'
    BY <2>1 DEF ToldInv, PointerInv, ResponseInv
  <2>5. RetryInv'
    BY <2>1 DEF RetryInv
  <2> QED
    BY <2>1, <2>2, <2>3, <2>4, <2>5
<1>18. ASSUME BeatSleep PROVE Alone'
  <2> USE <1>18 DEF BeatSleep
  <2>1. ~crashed' /\ \A v, u \in Threads : Inside(v)' /\ Inside(u)' => v = u
    BY DEF PointerInv, ResponseInv, Threads
  <2>2. PointerInv'
    BY <2>1 DEF PointerInv, ResponseInv
  <2>3. ResponseInv'
    BY <2>1 DEF PointerInv, ResponseInv
  <2>4. ToldInv'
    BY <2>1 DEF ToldInv, PointerInv, ResponseInv
  <2>5. RetryInv'
    BY <2>1 DEF RetryInv
  <2> QED
    BY <2>1, <2>2, <2>3, <2>4, <2>5
<1>19. ASSUME FirstSegment PROVE Alone'
  <2> USE <1>19 DEF FirstSegment, Call
  <2>1. ~crashed' /\ \A v, u \in Threads : Inside(v)' /\ Inside(u)' => v = u
    <3>1. \A u \in Threads \ {Main} : pc[u] \in Outside /\ pc'[u] = pc[u]
      OBVIOUS
    <3> QED
      BY <3>1
  <2>2. PointerInv'
    BY <2>1 DEF PointerInv, ResponseInv
  <2>3. ResponseInv'
    BY <2>1 DEF PointerInv, ResponseInv
  <2>4. ToldInv'
    BY <2>1 DEF ToldInv, PointerInv, ResponseInv
  <2>5. RetryInv'
    BY <2>1 DEF RetryInv
  <2> QED
    BY <2>1, <2>2, <2>3, <2>4, <2>5
<1>20. ASSUME ServerChanges PROVE Alone'
  <2> USE <1>20 DEF ServerChanges
  <2>1. ~crashed' /\ \A v, u \in Threads : Inside(v)' /\ Inside(u)' => v = u
    BY DEF PointerInv, ResponseInv, Threads
  <2>2. PointerInv'
    BY <2>1 DEF PointerInv, ResponseInv
  <2>3. ResponseInv'
    BY <2>1 DEF PointerInv, ResponseInv
  <2>4. ToldInv'
    BY <2>1 DEF ToldInv, PointerInv, ResponseInv
  <2>5. RetryInv'
    BY <2>1 DEF RetryInv
  <2> QED
    BY <2>1, <2>2, <2>3, <2>4, <2>5
<1>21. CASE UNCHANGED vars
  BY <1>21 DEF vars, PointerInv, ResponseInv, ToldInv, RetryInv
<1> QED
  BY <1>a, <1>1, <1>2, <1>3, <1>4, <1>5, <1>6, <1>7, <1>8, <1>9, <1>10, <1>11,
     <1>12, <1>13, <1>14, <1>15, <1>16, <1>17, <1>18, <1>19, <1>20, <1>21
     DEF Next, Heartbeat, SendStatus

LEMMA InvStep == Inv /\ [Next]_vars => Inv'
<1> SUFFICES ASSUME Inv, [Next]_vars PROVE Inv'
  OBVIOUS
<1>1. TypeOK'
  BY TypeStep DEF Inv
<1>2. overlapped => overlapped'
  BY DEF vars, Next, Heartbeat, SendStatus, PostTest, PostDelete, PostForget, RequestBegin,
         RequestAnswered, RequestFails, PostAssign, PostReturn, TestStatus, ParseBody,
         UseAfterDelete, Succeeded, FailedRead, FailedWrite, BeatBegin, BeatOff, BeatJudge,
         BeatSleep, FirstSegment, ServerChanges, Step, Return, Crash, Call, history
<1> QED
  BY <1>1, <1>2, AloneStep DEF Inv

-----------------------------------------------------------------------------

(* Every variable of the two threads and the client keeps its type. *)
THEOREM TypeCorrect == Spec => []TypeOK
<1>1. Inv => TypeOK
  BY DEF Inv
<1> QED
  BY InvInit, InvStep, <1>1, PTL DEF Spec

(* The static pointer and the static body bring a muxer down only when two  *)
(* calls overlap, whatever the server answers (httpcli.h:53, 115).          *)
THEOREM CrashNeedsOverlap == Spec => []CrashOnlyIfOverlap
<1>1. Inv => CrashOnlyIfOverlap
  BY DEF Inv, Alone, CrashOnlyIfOverlap
<1> QED
  BY InvInit, InvStep, <1>1, PTL DEF Spec

(* A muxer gives up only when it was told to, after MaxRetry failures in a  *)
(* row, or once calls overlapped (hls.cpp:767).                             *)
THEOREM ExitHasReason == Spec => ExitJustified
<1>1. Inv /\ [Next]_vars =>
        [~exit /\ exit' => told \/ failures = MaxRetry \/ overlapped]_vars
  <2> SUFFICES ASSUME Inv, [Next]_vars, ~exit, exit', ~overlapped
               PROVE  told \/ failures = MaxRetry
    OBVIOUS
  <2>1. BeatJudge
    BY DEF vars, Next, Heartbeat, SendStatus, PostTest, PostDelete, PostForget, RequestBegin,
         RequestAnswered, RequestFails, PostAssign, PostReturn, TestStatus, ParseBody,
         UseAfterDelete, Succeeded, FailedRead, FailedWrite, BeatBegin, BeatOff,
         BeatSleep, FirstSegment, ServerChanges, Step, Return, Crash, Call, history
  <2>2. answer[Heart] = "expired" \/ retry >= MaxRetry
    BY <2>1 DEF BeatJudge
  <2> QED
    BY <2>2, MuxerStatusAssumption DEF Inv, Alone, ToldInv, RetryInv, TypeOK
<1> QED
  BY InvInit, InvStep, <1>1, PTL DEF Spec, ExitJustified
=============================================================================
