-------------------------- MODULE MuxerAudioProofs --------------------------
(***************************************************************************)
(* Theorems of MuxerAudio: the room of a conversion, the length of the     *)
(* FIFO, and the time stamps, for every frame size, delay and input.       *)
(***************************************************************************)
EXTENDS MuxerAudio, TLAPS

(* Without a second frame the decoder holds a frame only while its packet   *)
(* is decoded, with dest ready for it, and the resampler its delay.         *)
OneFrame ==
  ~backlog =>
    /\ swr <= input.delay
    /\ decoder <= 1
    /\ decoder > 0 => pc = "buffer" \/ (pc \in {"receive", "overrun"} /\ dest)

OverrunInv == pc = "overrun" => input.samples + swr > FrameSize

(* The FIFO is short of a frame until a frame was converted for the packet  *)
FifoInv ==
  /\ pc \in {"read", "buffer"} => fifo < FrameSize + skipped
  /\ pc = "receive" /\ dest => fifo < FrameSize + skipped
  /\ pc \in {"receive", "write"} => fifo < 2 * FrameSize + skipped

Pending == clock + decoder * input.samples + fifo + lost

(* What is in the resampler when the clock is set is still there later: the *)
(* other counts alone stay within a frame of the time of the input.         *)
ClockInv ==
  input.sameBase =>
    /\ time > 0
    /\ clock = 0 => pc = "read"
    /\ clock # 0 => time <= Pending + swr
    /\ clock # 0 /\ Regular => Pending < time + FrameSize + skipped

PtsInv ==
  input.sameBase /\ Regular =>
    /\ pts < time + FrameSize + skipped
    /\ clock # 0 => pts < clock + FrameSize + skipped

Inv == TypeOK /\ OneFrame /\ OverrunInv /\ FifoInv /\ ClockInv /\ PtsInv

(* The count of frames times their length, one frame less or some more *)
LEMMA Product ==
  ASSUME NEW d \in Nat, NEW s \in Nat, NEW n \in Nat
  PROVE  /\ (d - 1) * s = d * s - s
         /\ (d + n) * s = d * s + n * s
         /\ d * s \in Nat /\ n * s \in Nat
         /\ 0 * s = 0 /\ 1 * s = s
<1>1. d * s \in Nat /\ n * s \in Nat
  BY SMT
<1>2. (d - 1) * s = d * s - s
  BY SMT
<1>3. (d + n) * s = d * s + n * s
  BY SMT
<1>4. 0 * s = 0 /\ 1 * s = s
  BY SMT
<1> QED
  BY <1>1, <1>2, <1>3, <1>4

(* Dividing a time by a length gives a number *)
LEMMA Quotient ==
  ASSUME NEW t \in Nat, NEW l \in Nat \ {0}
  PROVE  t \div l \in Nat
BY SMT

-----------------------------------------------------------------------------

LEMMA InvInit == Init => Inv
<1> SUFFICES ASSUME Init PROVE Inv
  OBVIOUS
<1>1. TypeOK
  <2>1. time \in Nat
    BY MuxerAudioAssumption DEF Init
  <2> QED
    BY <2>1 DEF Init, TypeOK
<1>2. 0 * input.samples = 0
  BY <1>1, Product DEF TypeOK
<1>3. OneFrame /\ OverrunInv /\ FifoInv /\ ClockInv /\ PtsInv
  BY MuxerAudioAssumption, <1>1, <1>2
     DEF Init, TypeOK, OneFrame, OverrunInv, FifoInv, ClockInv, PtsInv, Pending, Regular
<1> QED
  BY <1>1, <1>3 DEF Inv

(* An action that takes a frame out of the decoder *)
LEMMA TakesFrame ==
  ASSUME Inv, UNCHANGED input, decoder > 0, decoder' = decoder - 1
  PROVE  decoder' * input'.samples = decoder * input.samples - input.samples
<1>1. decoder \in Nat /\ input.samples \in Nat
  BY MuxerAudioAssumption DEF Inv, TypeOK
<1>2. (decoder - 1) * input.samples = decoder * input.samples - input.samples
  BY <1>1, Product
<1> QED
  BY <1>2

(* The beginning of a packet, whether the decoder takes it or not *)
LEMMA ReadStep ==
  ASSUME Inv, NEW frames \in 1..MaxFrames, NEW taken \in BOOLEAN, ReadPacket(frames, taken),
         taken => pc' = "buffer",
         ~taken => pc' = "read" \/ (pc' = "write" /\ decoder > 0)
  PROVE  Inv'
<1> USE MuxerAudioAssumption DEF Inv
<1> DEFINE P == decoder * input.samples
           total == frames * input.samples
           slot == time \div SegmentLength
<1>1. /\ input' = input /\ pc = "read"
      /\ decoder \in Nat /\ input.samples \in Nat \ {0} /\ frames \in Nat \ {0}
  BY DEF ReadPacket, TypeOK
<1>2. P \in Nat /\ total \in Nat /\ P' = IF taken THEN P + total ELSE P
  <2>1. /\ (decoder + frames) * input.samples = P + total
        /\ P \in Nat /\ total \in Nat
    BY <1>1, Product
  <2>2. decoder' = IF taken THEN decoder + frames ELSE decoder
    BY DEF ReadPacket
  <2> QED
    BY <1>1, <2>1, <2>2
<1>3. slot \in Nat
  BY Quotient DEF TypeOK
<1>4. IF slot = segment /\ clock # 0
      THEN /\ clock' = clock
           /\ lost' = IF taken THEN lost ELSE lost + total
      ELSE /\ clock' \in Nat
           /\ input.sameBase => clock' = time
           /\ lost' = IF taken THEN 0 ELSE total
  BY DEF ReadPacket, SetClock, Started, PacketPts, TypeOK
<1>5. /\ time' = time + total /\ segment' = slot
      /\ decoder' = IF taken THEN decoder + frames ELSE decoder
      /\ dest' = dest /\ swr' = swr /\ fifo' = fifo /\ pts' = pts /\ skipped' = skipped
  BY DEF ReadPacket
<1>5b. backlog' = (backlog \/ frames > 1)
  BY DEF ReadPacket
<1> HIDE DEF P, total, slot
<1>6. TypeOK'
  <2>1. backlog' \in BOOLEAN /\ dest' \in BOOLEAN
    BY <1>5, <1>5b DEF TypeOK
  <2> QED
    BY <1>1, <1>2, <1>3, <1>4, <1>5, <2>1 DEF TypeOK
<1>7. OneFrame' /\ OverrunInv' /\ FifoInv'
  BY <1>1, <1>5, <1>5b DEF TypeOK, OneFrame, OverrunInv, FifoInv
<1>8. ~backlog => P = 0
  BY <1>1, Product DEF OneFrame, P
<1>9. PICK p \in Nat, q \in Nat, n \in Nat : P = p /\ P' = q /\ total = n
  BY <1>2
<1>10. PICK t \in Nat, c \in Nat, l \in Nat, f \in Nat, w \in Nat, k \in Nat, s \in Nat :
        time = t /\ clock = c /\ lost = l /\ fifo = f /\ swr = w /\ skipped = k /\ pts = s
  BY DEF TypeOK
<1>11. PICK c2 \in Nat, l2 \in Nat : clock' = c2 /\ lost' = l2
  BY <1>6 DEF TypeOK
<1>12. time' = t + n /\ fifo' = f /\ swr' = w /\ skipped' = k /\ pts' = s
  BY <1>5, <1>9, <1>10
<1>13. Pending = c + p + f + l /\ Pending' = c2 + q + f + l2
  BY <1>9, <1>10, <1>11, <1>12 DEF Pending, P
<1>14. q + l2 = IF slot = segment /\ c # 0 THEN p + l + n ELSE p + n
  BY <1>2, <1>4, <1>9, <1>10, <1>11
<1>15. Regular' => Regular /\ ~backlog
  BY <1>1, <1>5, <1>5b DEF Regular
<1>16. ASSUME input.sameBase
       PROVE  /\ t > 0
              /\ slot = segment /\ c # 0 => c2 = c /\ t <= c + p + f + l + w
              /\ ~(slot = segment /\ c # 0) => c2 = t
  BY <1>4, <1>10, <1>11, <1>13, <1>16 DEF ClockInv
<1>17. ASSUME input.sameBase, Regular'
       PROVE  /\ p = 0 /\ f < FrameSize + k
              /\ c # 0 => c + p + f + l < t + FrameSize + k
              /\ s < t + FrameSize + k
              /\ c # 0 => s < c + FrameSize + k
  <2>1. Regular /\ p = 0
    BY <1>8, <1>9, <1>15, <1>17
  <2>2. f < FrameSize + k
    BY <1>1, <1>10 DEF FifoInv
  <2> QED
    BY <1>10, <1>13, <1>17, <2>1, <2>2 DEF ClockInv, PtsInv
<1>18. ClockInv'
  <2>1. SUFFICES ASSUME input.sameBase PROVE ClockInv'
    BY <1>1 DEF ClockInv
  <2>2. t + n > 0 /\ c2 # 0
    BY <1>16, <2>1
  <2>3. t + n <= c2 + q + f + l2 + w
    BY <1>14, <1>16, <2>1
  <2>4. Regular' => c2 + q + f + l2 < t + n + FrameSize + k
    BY <1>14, <1>16, <1>17, <2>1
  <2> QED
    BY <1>11, <1>12, <1>13, <2>2, <2>3, <2>4 DEF ClockInv
<1>19. PtsInv'
  <2>1. SUFFICES ASSUME input.sameBase, Regular' PROVE PtsInv'
    BY <1>1 DEF PtsInv
  <2>2. s < t + n + FrameSize + k /\ (c2 # 0 => s < c2 + FrameSize + k)
    BY <1>16, <1>17, <2>1
  <2> QED
    BY <1>11, <1>12, <2>2 DEF PtsInv
<1> QED
  BY <1>6, <1>7, <1>18, <1>19

LEMMA InvStep == Inv /\ [Next]_vars => Inv'
<1> SUFFICES ASSUME Inv, [Next]_vars PROVE Inv'
  OBVIOUS
<1> USE MuxerAudioAssumption DEF Inv
<1> DEFINE P == decoder * input.samples
<1>a. P \in Nat
  BY Product DEF TypeOK
<1>b. input.samples \in Nat /\ input.delay \in Nat
  BY DEF TypeOK
<1>1. ASSUME ReadGap PROVE Inv'
  <2> USE <1>1 DEF ReadGap
  <2>1. P' = P
    OBVIOUS
  <2>2. TypeOK'
    BY DEF TypeOK
  <2>3. OneFrame' /\ OverrunInv' /\ FifoInv'
    BY DEF TypeOK, OneFrame, OverrunInv, FifoInv
  <2>4. ClockInv'
    BY <1>a, <2>1 DEF TypeOK, OneFrame, FifoInv, ClockInv, Pending, Regular
  <2>5. PtsInv'
    BY <1>a, <2>1 DEF TypeOK, OneFrame, FifoInv, ClockInv, PtsInv, Pending, Regular
  <2> QED
    BY <2>2, <2>3, <2>4, <2>5
<1>2. ASSUME NewDest PROVE Inv'
  <2> USE <1>2 DEF NewDest
  <2>1. P' = P
    OBVIOUS
  <2>2. TypeOK'
    BY DEF TypeOK
  <2>3. OneFrame' /\ OverrunInv' /\ FifoInv'
    BY DEF TypeOK, OneFrame, OverrunInv, FifoInv
  <2>4. ClockInv'
    BY <1>a, <2>1 DEF TypeOK, OneFrame, FifoInv, ClockInv, Pending, Regular
  <2>5. PtsInv'
    BY <1>a, <2>1 DEF TypeOK, OneFrame, FifoInv, ClockInv, PtsInv, Pending, Regular
  <2> QED
    BY <2>2, <2>3, <2>4, <2>5
<1>3. ASSUME NewDestFails PROVE Inv'
  <2> USE <1>3 DEF NewDestFails
  <2>1. P' = P
    OBVIOUS
  <2>2. TypeOK'
    BY DEF TypeOK
  <2>3. OneFrame' /\ OverrunInv' /\ FifoInv'
    BY DEF TypeOK, OneFrame, OverrunInv, FifoInv
  <2>4. ClockInv'
    BY <1>a, <2>1 DEF TypeOK, OneFrame, FifoInv, ClockInv, Pending, Regular
  <2>5. PtsInv'
    BY <1>a, <2>1 DEF TypeOK, OneFrame, FifoInv, ClockInv, PtsInv, Pending, Regular
  <2> QED
    BY <2>2, <2>3, <2>4, <2>5
<1>4. ASSUME ReceiveNothing PROVE Inv'
  <2> USE <1>4 DEF ReceiveNothing
  <2>1. P' = P
    OBVIOUS
  <2>2. TypeOK'
    BY DEF TypeOK
  <2>3. OneFrame' /\ OverrunInv' /\ FifoInv'
    BY DEF TypeOK, OneFrame, OverrunInv, FifoInv
  <2>4. ClockInv'
    BY <1>a, <2>1 DEF TypeOK, OneFrame, FifoInv, ClockInv, Pending, Regular
  <2>5. PtsInv'
    BY <1>a, <2>1 DEF TypeOK, OneFrame, FifoInv, ClockInv, PtsInv, Pending, Regular
  <2> QED
    BY <2>2, <2>3, <2>4, <2>5
<1>5. ASSUME ReceiveFails PROVE Inv'
  <2> USE <1>5 DEF ReceiveFails
  <2>1. P' = P - input.samples
    BY TakesFrame
  <2>2. TypeOK'
    <3>1. dest' \in BOOLEAN /\ backlog' \in BOOLEAN
      BY DEF TypeOK
    <3> QED
      BY <1>b, <3>1 DEF TypeOK
  <2>3. OneFrame' /\ OverrunInv' /\ FifoInv'
    BY DEF TypeOK, OneFrame, OverrunInv, FifoInv
  <2>4. ClockInv'
    BY <1>a, <2>1 DEF TypeOK, OneFrame, FifoInv, ClockInv, Pending, Regular
  <2>5. PtsInv'
    BY <1>a, <2>1 DEF TypeOK, OneFrame, FifoInv, ClockInv, PtsInv, Pending, Regular
  <2> QED
    BY <2>2, <2>3, <2>4, <2>5
<1>6. ASSUME ResampleFails PROVE Inv'
  <2> USE <1>6 DEF ResampleFails
  <2>1. P' = P - input.samples
    BY TakesFrame
  <2>2. TypeOK'
    BY <1>b DEF TypeOK
  <2>3. OneFrame' /\ OverrunInv' /\ FifoInv'
    BY DEF TypeOK, OneFrame, OverrunInv, FifoInv
  <2>4. ClockInv'
    BY <1>a, <2>1 DEF TypeOK, OneFrame, FifoInv, ClockInv, Pending, Regular
  <2>5. PtsInv'
    BY <1>a, <2>1 DEF TypeOK, OneFrame, FifoInv, ClockInv, PtsInv, Pending, Regular
  <2> QED
    BY <2>2, <2>3, <2>4, <2>5
<1>7. ASSUME Convert PROVE Inv'
  <2> USE <1>7 DEF Convert, Receive, Held, Kept, Room
  <2>1. P' = P - input.samples
    BY TakesFrame
  <2>2. TypeOK'
    <3>1. dest' \in BOOLEAN /\ backlog' \in BOOLEAN
      BY DEF TypeOK
    <3> QED
      BY <1>b, <3>1 DEF TypeOK
  <2>3. OneFrame' /\ OverrunInv' /\ FifoInv'
    BY DEF TypeOK, OneFrame, OverrunInv, FifoInv
  <2>4. ClockInv'
    BY <1>a, <2>1 DEF TypeOK, OneFrame, FifoInv, ClockInv, Pending, Regular
  <2>5. PtsInv'
    BY <1>a, <2>1 DEF TypeOK, OneFrame, FifoInv, ClockInv, PtsInv, Pending, Regular
  <2> QED
    BY <2>2, <2>3, <2>4, <2>5
<1>8. ASSUME ConvertFails PROVE Inv'
  <2> USE <1>8 DEF ConvertFails, Receive, Held, Kept, Room
  <2>1. P' = P - input.samples
    BY TakesFrame
  <2>2. TypeOK'
    <3>1. dest' \in BOOLEAN /\ backlog' \in BOOLEAN
      BY DEF TypeOK
    <3> QED
      BY <1>b, <3>1 DEF TypeOK
  <2>3. OneFrame' /\ OverrunInv' /\ FifoInv'
    BY DEF TypeOK, OneFrame, OverrunInv, FifoInv
  <2>4. ClockInv'
    BY <1>a, <2>1 DEF TypeOK, OneFrame, FifoInv, ClockInv, Pending, Regular
  <2>5. PtsInv'
    BY <1>a, <2>1 DEF TypeOK, OneFrame, FifoInv, ClockInv, PtsInv, Pending, Regular
  <2> QED
    BY <2>2, <2>3, <2>4, <2>5
<1>9. ASSUME Overrun PROVE Inv'
  <2> USE <1>9 DEF Overrun, Held, Room
  <2>1. P' = P
    OBVIOUS
  <2>2. TypeOK'
    BY DEF TypeOK
  <2>3. OneFrame' /\ OverrunInv' /\ FifoInv'
    BY DEF TypeOK, OneFrame, OverrunInv, FifoInv
  <2>4. ClockInv'
    BY <1>a, <2>1 DEF TypeOK, OneFrame, FifoInv, ClockInv, Pending, Regular
  <2>5. PtsInv'
    BY <1>a, <2>1 DEF TypeOK, OneFrame, FifoInv, ClockInv, PtsInv, Pending, Regular
  <2> QED
    BY <2>2, <2>3, <2>4, <2>5
<1>10. ASSUME SecondFrame PROVE Inv'
  <2> USE <1>10 DEF SecondFrame, Held
  <2>1. P' = P - input.samples
    BY TakesFrame
  <2>2. TypeOK'
    BY <1>b DEF TypeOK
  <2>3. OneFrame' /\ OverrunInv' /\ FifoInv'
    BY DEF TypeOK, OneFrame, OverrunInv, FifoInv
  <2>4. ClockInv'
    BY <1>a, <2>1 DEF TypeOK, OneFrame, FifoInv, ClockInv, Pending, Regular
  <2>5. PtsInv'
    BY <1>a, <2>1 DEF TypeOK, OneFrame, FifoInv, ClockInv, PtsInv, Pending, Regular
  <2> QED
    BY <2>2, <2>3, <2>4, <2>5
<1>11. ASSUME WriteNothing PROVE Inv'
  <2> USE <1>11 DEF WriteNothing, Due
  <2>1. P' = P
    OBVIOUS
  <2>2. TypeOK'
    BY DEF TypeOK
  <2>3. OneFrame' /\ OverrunInv' /\ FifoInv'
    BY DEF TypeOK, OneFrame, OverrunInv, FifoInv
  <2>4. ClockInv'
    BY <1>a, <2>1 DEF TypeOK, OneFrame, FifoInv, ClockInv, Pending, Regular
  <2>5. PtsInv'
    BY <1>a, <2>1 DEF TypeOK, OneFrame, FifoInv, ClockInv, PtsInv, Pending, Regular
  <2> QED
    BY <2>2, <2>3, <2>4, <2>5
<1>12. ASSUME WriteFails PROVE Inv'
  <2> USE <1>12 DEF WriteFails, Due
  <2>1. P' = P
    OBVIOUS
  <2>2. TypeOK'
    BY DEF TypeOK
  <2>3. OneFrame' /\ OverrunInv' /\ FifoInv'
    BY DEF TypeOK, OneFrame, OverrunInv, FifoInv
  <2>4. ClockInv'
    BY <1>a, <2>1 DEF TypeOK, OneFrame, FifoInv, ClockInv, Pending, Regular
  <2>5. PtsInv'
    BY <1>a, <2>1 DEF TypeOK, OneFrame, FifoInv, ClockInv, PtsInv, Pending, Regular
  <2> QED
    BY <2>2, <2>3, <2>4, <2>5
<1>13. ASSUME Write PROVE Inv'
  <2> USE <1>13 DEF Write, Due
  <2>1. P' = P
    OBVIOUS
  <2>2. TypeOK'
    BY DEF TypeOK
  <2>3. OneFrame' /\ OverrunInv' /\ FifoInv'
    BY DEF TypeOK, OneFrame, OverrunInv, FifoInv
  <2>4. ClockInv'
    BY <1>a, <2>1 DEF TypeOK, OneFrame, FifoInv, ClockInv, Pending, Regular
  <2>5. PtsInv'
    BY <1>a, <2>1 DEF TypeOK, OneFrame, FifoInv, ClockInv, PtsInv, Pending, Regular
  <2> QED
    BY <2>2, <2>3, <2>4, <2>5
<1>14. ASSUME NEW frames \in 1..MaxFrames, SendPacket(frames) PROVE Inv'
  BY <1>14, ReadStep DEF SendPacket
<1>15. ASSUME NEW frames \in 1..MaxFrames, SendRefused(frames) PROVE Inv'
  BY <1>15, ReadStep DEF SendRefused
<1>16. CASE UNCHANGED vars
  <2>1. P' = P
    BY <1>16 DEF vars
  <2> QED
    BY <1>16, <2>1
       DEF vars, TypeOK, OneFrame, OverrunInv, FifoInv, ClockInv, PtsInv, Pending, Regular
<1> QED
  BY <1>1, <1>2, <1>3, <1>4, <1>5, <1>6, <1>7, <1>8, <1>9, <1>10, <1>11, <1>12, <1>13,
     <1>14, <1>15, <1>16
     DEF Next

-----------------------------------------------------------------------------

(* No count is ever negative: no frame is taken that is not there           *)
THEOREM TypeCorrect == Spec => []TypeOK
<1>1. Inv => TypeOK
  BY DEF Inv
<1> QED
  BY InvInit, InvStep, <1>1, PTL DEF Spec

(* The conversion overruns dest only when a packet gave two frames, or when *)
(* a frame and the delay do not fit: for every frame size (hls.cpp:312).    *)
THEOREM OverrunNeedsExcess == Spec => []OverrunExplained
<1>1. Inv => OverrunExplained
  BY MuxerAudioAssumption DEF Inv, TypeOK, OneFrame, OverrunInv, OverrunExplained, Regular
<1> QED
  BY InvInit, InvStep, <1>1, PTL DEF Spec

(* Between packets the FIFO holds less than one frame and those skipped     *)
THEOREM FifoStaysShort == Spec => []FifoBounded
<1>1. Inv => FifoBounded
  BY DEF Inv, FifoInv, FifoBounded
<1> QED
  BY InvInit, InvStep, <1>1, PTL DEF Spec

(* The sound is late by less than a frame, the delay and what was skipped,  *)
(* and early by no more than what was lost, for every input.                *)
THEOREM AudioStaysInSync == Spec => []AudioInSync
<1>1. Inv => AudioInSync
  BY MuxerAudioAssumption, Product
     DEF Inv, TypeOK, OneFrame, ClockInv, Pending, AudioInSync, Late, Regular
<1> QED
  BY InvInit, InvStep, <1>1, PTL DEF Spec

(* No segment takes the time stamps back, but for frames that were skipped  *)
THEOREM StampsIncrease == Spec => PtsIncrease
<1>1. Inv /\ [Next]_vars =>
        [fifo' < fifo /\ Regular /\ input.sameBase => pts' + skipped > pts]_vars
  <2> SUFFICES ASSUME Inv, [Next]_vars, fifo' < fifo, Regular, input.sameBase
               PROVE  pts' + skipped > pts
    OBVIOUS
  <2> QED
    BY MuxerAudioAssumption
       DEF Inv, TypeOK, ClockInv, PtsInv, vars, Next, ReadGap, SendPacket, SendRefused, ReadPacket,
           NewDest, NewDestFails, ReceiveNothing, ReceiveFails, ResampleFails, Convert,
           ConvertFails, Receive, Held, Kept, Room, Overrun, SecondFrame, WriteNothing,
           WriteFails, Write, Due
<1> QED
  BY InvInit, InvStep, <1>1, PTL DEF Spec, PtsIncrease
=============================================================================
