---------------------------- MODULE MuxerStatus ----------------------------
(***************************************************************************)
(* How a muxer process asks the server whether it is still wanted: the     *)
(* heartbeat thread (hls/hls.cpp), HlsMuxer::send_status, StatusManager    *)
(* (hls/status_mgr.cpp) and the HTTP client (http/httpcli.h).              *)
(*                                                                         *)
(* The thread that runs HlsMuxer::start calls send_status too, once, when  *)
(* the first segment is finished, which is about when the second beat is   *)
(* due.  Both calls use httpCli::post's static Response pointer, the       *)
(* static string the bodies are collected in, and HlsMuxer::retry, and     *)
(* nothing locks them.  One step is one access to one of these.            *)
(***************************************************************************)
EXTENDS Naturals, FiniteSets

CONSTANTS
  Heart, Main,   \* the heartbeat thread and the one that runs start()
  MaxRetry,      \* HEARTBEAT_MAX_RETRY
  Responses,     \* addresses that new Response can return
  NULL

Threads == {Heart, Main}

ASSUME MuxerStatusAssumption ==
  /\ Heart # Main
  /\ MaxRetry \in Nat \ {0}
  /\ NULL \notin Responses
  /\ IsFiniteSet(Responses) /\ Cardinality(Responses) > Cardinality(Threads)

VARIABLES
  server,     \* what the server would answer: keep on, expired, or nothing
  pc,         \* where each thread is
  got,        \* the Response* each thread works with
  answer,     \* what StatusManager::send returned: alive, expired or null
  seenRetry,  \* the value of retry a thread has read in retry++
  res,        \* httpCli::post's static pointer
  live,       \* Responses that are allocated ...
  status,     \* ... and whether their code is 200
  result,     \* _request's static string, to which all bodies point
  retry,      \* HlsMuxer::retry
  exit,       \* HlsMuxer::exit
  sent,       \* the first segment was finished and its status sent
  crashed,    \* double delete, or use of a deleted Response or a moved body
  told,       \* history: an answer said expired
  failures,   \* history: calls that failed since the last one that did not
  overlapped  \* history: both threads were in send_status at the same time

client == <<res, live, status, result>>
history == <<told, failures, overlapped>>
vars == <<server, pc, got, answer, seenRetry, client, retry, exit, sent, crashed, history>>

Init ==
  /\ server = "alive"
  /\ pc = [t \in Threads |-> IF t = Heart THEN "check" ELSE "streaming"]
  /\ got = [t \in Threads |-> NULL]
  /\ answer = [t \in Threads |-> "null"]
  /\ seenRetry = [t \in Threads |-> 0]
  /\ res = NULL
  /\ live = {}
  /\ status = [r \in Responses |-> FALSE]
  /\ result = "empty"
  /\ retry = 0
  /\ exit = FALSE
  /\ sent = FALSE
  /\ crashed = FALSE
  /\ told = FALSE
  /\ failures = 0
  /\ overlapped = FALSE

-----------------------------------------------------------------------------

Outside == {"check", "judge", "sleep", "off", "streaming"}

Goto(t, there) == pc' = [pc EXCEPT ![t] = there]

At(t, here) == ~crashed /\ pc[t] = here

(* A step of t inside send_status *)
Step(t, here, there) ==
  /\ At(t, here)
  /\ Goto(t, there)
  /\ UNCHANGED <<server, exit, sent, crashed, overlapped>>

Crash(t, here) ==
  /\ At(t, here)
  /\ crashed' = TRUE
  /\ UNCHANGED <<server, pc, got, answer, seenRetry, client, retry, exit, sent, history>>

(* HlsMuxer::send_status is entered *)
Call(t, here) ==
  /\ At(t, here)
  /\ Goto(t, "post")
  /\ overlapped' = (overlapped \/ \E u \in Threads \ {t} : pc[u] \notin Outside)
  /\ UNCHANGED <<server, got, answer, seenRetry, client, retry, exit, crashed, told, failures>>

-----------------------------------------------------------------------------
(* httpCli::post *)

PostTest(t) ==
  /\ Step(t, "post", IF res = NULL THEN "request" ELSE "delete")
  /\ UNCHANGED <<got, answer, seenRetry, client, retry, told, failures>>

(* delete res: the pointer is read again *)
PostDelete(t) ==
  /\ res \in live \cup {NULL}
  /\ Step(t, "delete", "forget")
  /\ live' = live \ {res}
  /\ status' = [r \in Responses |-> status[r] /\ r # res]
  /\ UNCHANGED <<got, answer, seenRetry, res, result, retry, told, failures>>

PostForget(t) ==
  /\ Step(t, "forget", "request")
  /\ res' = NULL
  /\ UNCHANGED <<got, answer, seenRetry, live, status, result, retry, told, failures>>

(* _request empties the string ... *)
RequestBegin(t) ==
  /\ Step(t, "request", "perform")
  /\ result' = "empty"
  /\ UNCHANGED <<got, answer, seenRetry, res, live, status, retry, told, failures>>

(* ... curl appends the body of the answer ... *)
RequestAnswered(t) ==
  /\ server # "down"
  /\ Step(t, "perform", "assign")
  /\ result' = IF result = "empty" THEN server ELSE "mixed"
  /\ \E r \in Responses \ live, ok \in BOOLEAN :
       /\ live' = live \cup {r}
       /\ status' = [status EXCEPT ![r] = ok]
       /\ got' = [got EXCEPT ![t] = r]
       /\ told' = (told \/ (ok /\ server = "expired"))
  /\ UNCHANGED <<answer, seenRetry, res, retry, failures>>

(* ... or the connection fails or times out *)
RequestFails(t) ==
  /\ Step(t, "perform", "assign")
  /\ got' = [got EXCEPT ![t] = NULL]
  /\ UNCHANGED <<answer, seenRetry, client, retry, told, failures>>

(* res = _request(...) *)
PostAssign(t) ==
  /\ Step(t, "assign", "return")
  /\ res' = got[t]
  /\ UNCHANGED <<got, answer, seenRetry, live, status, result, retry, told, failures>>

(* return res: the value just assigned, or what the variable holds by now *)
PostReturn(t) ==
  /\ Step(t, "return", "status")
  /\ \E r \in {got[t], res} : got' = [got EXCEPT ![t] = r]
  /\ UNCHANGED <<answer, seenRetry, client, retry, told, failures>>

-----------------------------------------------------------------------------
(* StatusManager::send *)

(* mutant: the pointer is not tested *)
TestStatusOnly(t) ==
  IF got[t] = NULL
  THEN Crash(t, "status")
  ELSE /\ got[t] \in live
       /\ Step(t, "status", IF status[got[t]] THEN "parse" ELSE "failed")
       /\ UNCHANGED <<got, answer, seenRetry, client, retry, told, failures>>

(* !res || res->statusCode != 200 *)
TestStatus(t) ==
  /\ got[t] \in live \cup {NULL}
  /\ Step(t, "status", IF got[t] # NULL /\ status[got[t]] THEN "parse" ELSE "failed")
  /\ UNCHANGED <<got, answer, seenRetry, client, retry, told, failures>>

(* parse(res->body): a body that is not one whole answer gives null *)
ParseBody(t) ==
  /\ got[t] \in live
  /\ Step(t, "parse", "succeeded")
  /\ answer' = [answer EXCEPT ![t] =
                  IF result \in {"alive", "expired"} THEN result ELSE "null"]
  /\ got' = [got EXCEPT ![t] = NULL]
  /\ UNCHANGED <<seenRetry, client, retry, told, failures>>

(* A deleted Response is read: the old values, other ones, or a fault.  The *)
(* body of a string that has grown has moved.                               *)
UseAfterDelete(t) ==
  \/ /\ got[t] \notin live \cup {NULL}
     /\ Crash(t, "status") \/ Crash(t, "parse")
  \/ /\ got[t] \notin live \cup {NULL}
     /\ \/ Step(t, "status", "parse")
        \/ Step(t, "status", "failed")
     /\ UNCHANGED <<got, answer, seenRetry, client, retry, told, failures>>
  \/ result = "mixed" /\ Crash(t, "parse")
  \/ res \notin live \cup {NULL} /\ Crash(t, "delete")

-----------------------------------------------------------------------------
(* HlsMuxer::send_status *)

(* The caller goes on: start() drops the answer *)
Return(t, here) ==
  /\ Step(t, here, IF t = Heart THEN "judge" ELSE "streaming")
  /\ answer' = [answer EXCEPT ![Main] = "null"]

(* mutant: a success does not reset the count *)
SucceededKeepsCount(t) ==
  /\ Return(t, "succeeded")
  /\ failures' = 0
  /\ UNCHANGED <<got, seenRetry, client, retry, told>>

Succeeded(t) ==
  /\ Return(t, "succeeded")
  /\ retry' = 0
  /\ failures' = 0
  /\ UNCHANGED <<got, seenRetry, client, told>>

(* this->retry++ is a read ... *)
FailedRead(t) ==
  /\ Step(t, "failed", "count")
  /\ got' = [got EXCEPT ![t] = NULL]
  /\ seenRetry' = [seenRetry EXCEPT ![t] = retry]
  /\ UNCHANGED <<answer, client, retry, told, failures>>

(* ... and a write.  Beyond MaxRetry the exact value does not matter.       *)
AtMost(n) == IF n < MaxRetry THEN n ELSE MaxRetry

(* mutant: the count starts over *)
FailedWriteOnce(t) ==
  /\ Return(t, "count")
  /\ retry' = 1
  /\ failures' = AtMost(failures + 1)
  /\ UNCHANGED <<got, seenRetry, client, told>>

FailedWrite(t) ==
  /\ Return(t, "count")
  /\ retry' = AtMost(seenRetry[t] + 1)
  /\ failures' = AtMost(failures + 1)
  /\ seenRetry' = [seenRetry EXCEPT ![t] = 0]
  /\ UNCHANGED <<got, client, told>>

SendStatus(t) ==
  \/ PostTest(t) \/ PostDelete(t) \/ PostForget(t)
  \/ RequestBegin(t) \/ RequestAnswered(t) \/ RequestFails(t)
  \/ PostAssign(t) \/ PostReturn(t)
  \/ TestStatus(t) \/ ParseBody(t) \/ UseAfterDelete(t)
  \/ Succeeded(t) \/ FailedRead(t) \/ FailedWrite(t)

-----------------------------------------------------------------------------
(* The heartbeat thread *)

BeatBegin == ~exit /\ Call(Heart, "check") /\ UNCHANGED sent

BeatOff ==
  /\ exit
  /\ Step(Heart, "check", "off")
  /\ UNCHANGED <<got, answer, seenRetry, client, retry, told, failures>>

(* null and out of retries, or expired *)
BeatJudge ==
  /\ At(Heart, "judge")
  /\ Goto(Heart, "sleep")
  /\ exit' = (exit \/ IF answer[Heart] = "null" THEN retry >= MaxRetry
                      ELSE answer[Heart] = "expired")
  /\ answer' = [answer EXCEPT ![Heart] = "null"]
  /\ UNCHANGED <<server, got, seenRetry, client, retry, sent, crashed, history>>

BeatSleep ==
  /\ Step(Heart, "sleep", "check")
  /\ UNCHANGED <<got, answer, seenRetry, client, retry, told, failures>>

(* HlsMuxer::start at the end of segment 0 *)
FirstSegment ==
  /\ ~sent /\ sent' = TRUE
  /\ Call(Main, "streaming")

(* The session comes and goes, the server stops and starts again *)
ServerChanges ==
  /\ ~crashed
  /\ server' \in {"alive", "expired", "down"} \ {server}
  /\ UNCHANGED <<pc, got, answer, seenRetry, client, retry, exit, sent, crashed, history>>

Heartbeat == BeatBegin \/ BeatOff \/ BeatJudge \/ BeatSleep \/ SendStatus(Heart)

Next == Heartbeat \/ FirstSegment \/ SendStatus(Main) \/ ServerChanges

Spec == Init /\ [][Next]_vars

(* Both threads are scheduled; curl gives up after its timeout of 5 s *)
FairSpec == Spec /\ WF_vars(Heartbeat) /\ WF_vars(SendStatus(Main))

-----------------------------------------------------------------------------
(* Properties *)

(* Every variable of the two threads and the client has its type. *)
TypeOK ==
  /\ server \in {"alive", "expired", "down"}
  /\ pc \in [Threads -> Outside \cup
              {"post", "delete", "forget", "request", "perform", "assign", "return",
               "status", "parse", "succeeded", "failed", "count"}]
  /\ got \in [Threads -> Responses \cup {NULL}]
  /\ answer \in [Threads -> {"alive", "expired", "null"}]
  /\ seenRetry \in [Threads -> 0..MaxRetry]
  /\ res \in Responses \cup {NULL}
  /\ live \subseteq Responses
  /\ status \in [Responses -> BOOLEAN]
  /\ result \in {"empty", "alive", "expired", "mixed"}
  /\ retry \in 0..MaxRetry /\ failures \in 0..MaxRetry
  /\ exit \in BOOLEAN /\ sent \in BOOLEAN /\ crashed \in BOOLEAN
  /\ told \in BOOLEAN /\ overlapped \in BOOLEAN

(* The static pointer and the static body are safe in one thread: the       *)
(* muxer is brought down by them only when the status of the first segment  *)
(* is sent during a beat.                                                   *)
CrashOnlyIfOverlap == crashed => overlapped

(* A muxer gives up only for a reason: the server said its session expired, *)
(* or MaxRetry calls in a row failed, where a failed status of the first    *)
(* segment counts too.  Overlapping calls can spoil the count.              *)
ExitJustified ==
  [][~exit /\ exit' => told \/ failures = MaxRetry \/ overlapped]_vars

(* When the session is gone for good or the server does not come back, the  *)
(* muxer finds out.                                                         *)
UnwantedStops == <>[](server # "alive") => <>(exit \/ crashed)
=============================================================================
