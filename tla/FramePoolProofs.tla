--------------------------- MODULE FramePoolProofs ---------------------------
(***************************************************************************)
(* Proofs about FramePool for any number of frame buffers, any capacity of *)
(* the event queue, any buffer size and any set of faults.                 *)
(***************************************************************************)
EXTENDS FramePool, TLAPS

-----------------------------------------------------------------------------
(* The inductive invariant. *)

\* Before esp_camera_init nothing is queued, written or held.
DownInv ==
    ~ up => /\ irq = "none" /\ camPc = "wait" /\ camState = "idle" /\ ev = <<>>
            /\ fbq = <<>> /\ ~ dma /\ held = {} /\ popped = NoFrame

\* While cam_task reads a frame, or is about to, its buffer is marked free: so
\* nobody else has it.
ReadInv ==
    \/ camState = "read" /\ camPc \in {"wait", "dispatch"}
    \/ camPc \in {"setRead", "clear"}
    => en[framePos]

\* The frame on its way to the queue is nowhere else.
PublishInv ==
    Publishing => /\ ~ en[framePos] /\ ~ InQueue(framePos)
                  /\ framePos \notin held
                  /\ popped # framePos

\* The frame popped to make room is nowhere else.
PoppedInv ==
    /\ popped # NoFrame <=> camPc \in {"resend", "give"}
    /\ popped # NoFrame =>
          ~ en[popped] /\ ~ InQueue(popped) /\ popped \notin held

\* The count cam_task publishes with fits the buffer.
CntInv ==
    /\ cnt <= CopyCnt
    /\ camPc \in {"wait", "dispatch", "setRead"} => cnt < CopyCnt

PoolInv ==
    /\ PoolTypeOK
    /\ DownInv /\ ReadInv /\ PublishInv /\ PoppedInv /\ CntInv
    /\ DmaExclusive /\ NoFrameLost /\ OnePlace /\ LenFits

-----------------------------------------------------------------------------
(* Sequences and the frame queue. *)

LEMMA TailFacts ==
    ASSUME NEW S, NEW s \in Seq(S), s # <<>>
    PROVE  /\ Len(s) \in Nat \ {0}
           /\ Head(s) = s[1] /\ Head(s) \in S
           /\ Tail(s) \in Seq(S) /\ Len(Tail(s)) = Len(s) - 1
           /\ DOMAIN s = 1 .. Len(s) /\ DOMAIN Tail(s) = 1 .. Len(s) - 1
           /\ \A i \in 1 .. Len(s) - 1 : Tail(s)[i] = s[i + 1]
  OBVIOUS

LEMMA AppendFacts ==
    ASSUME NEW S, NEW s \in Seq(S), NEW e \in S
    PROVE  /\ Append(s, e) \in Seq(S) /\ Len(Append(s, e)) = Len(s) + 1
           /\ Len(s) \in Nat
           /\ DOMAIN s = 1 .. Len(s) /\ DOMAIN Append(s, e) = 1 .. Len(s) + 1
           /\ Append(s, e)[Len(s) + 1] = e
           /\ \A i \in 1 .. Len(s) : Append(s, e)[i] = s[i]
  OBVIOUS

\* A queue whose entries are all different.
Distinct(q) == \A i, j \in DOMAIN q : q[i] = q[j] => i = j

\* A free buffer is neither held nor queued.
LEMMA FreeFacts ==
    PoolInv => \A f \in Frames : en[f] => f \notin held /\ ~ InQueue(f)
  BY DEF PoolInv, OnePlace, InQueue

\* Taking the oldest frame off the queue.
LEMMA QueueTail ==
    ASSUME PoolInv, fbq # <<>>, fbq' = Tail(fbq)
    PROVE  /\ fbq' \in Seq(Frames) /\ Len(fbq') <= QLen /\ Len(fbq') < Len(fbq)
           /\ Head(fbq) \in Frames /\ InQueue(Head(fbq)) /\ ~ en[Head(fbq)]
           /\ Head(fbq) \notin held
           /\ \A f : f = Head(fbq) => ~ InQueue(f)'
           /\ \A i \in DOMAIN fbq' : fbq'[i] \in Frames
           /\ \A f : InQueue(f) <=> f = Head(fbq) \/ InQueue(f)'
           /\ Distinct(fbq')
  <1> USE DEF PoolInv, PoolTypeOK, OnePlace, InQueue, Distinct
  <1>1. /\ Len(fbq) \in Nat \ {0} /\ Head(fbq) = fbq[1] /\ Head(fbq) \in Frames
        /\ fbq' \in Seq(Frames) /\ Len(fbq') = Len(fbq) - 1
        /\ DOMAIN fbq = 1 .. Len(fbq) /\ DOMAIN fbq' = 1 .. Len(fbq) - 1
        /\ \A i \in 1 .. Len(fbq) - 1 : fbq'[i] = fbq[i + 1]
    BY TailFacts
  <1>2. QLen \in Nat
    BY FramePoolAssumption DEF QLen
  <1>3. InQueue(Head(fbq)) /\ ~ en[Head(fbq)] /\ Head(fbq) \notin held
    <2>1. 1 \in DOMAIN fbq /\ fbq[1] = Head(fbq)  BY <1>1
    <2>2. InQueue(Head(fbq))  BY <2>1
    <2>3. ~ en[Head(fbq)]  BY <2>1
    <2>4. Head(fbq) \notin held  BY <2>2
    <2> QED  BY <2>2, <2>3, <2>4
  <1>4. \A f : f = Head(fbq) => ~ InQueue(f)'
    <2> SUFFICES ASSUME NEW i \in 1 .. Len(fbq) - 1, fbq'[i] = fbq[1]
                 PROVE  FALSE
      BY <1>1
    <2>1. i + 1 \in DOMAIN fbq /\ 1 \in DOMAIN fbq /\ i + 1 # 1  BY <1>1
    <2>2. fbq[i + 1] = fbq[1]  BY <1>1
    <2> QED  BY <2>1, <2>2
  <1>5. ASSUME NEW f PROVE InQueue(f) <=> f = Head(fbq) \/ InQueue(f)'
    <2>1. ASSUME NEW i \in 1 .. Len(fbq), fbq[i] = f PROVE f = Head(fbq) \/ InQueue(f)'
      <3>1. CASE i = 1  BY <1>1, <2>1, <3>1
      <3>2. CASE i # 1
        <4>1. i - 1 \in 1 .. Len(fbq) - 1 /\ (i - 1) + 1 = i  BY <1>1, <3>2
        <4>2. fbq'[i - 1] = f  BY <1>1, <2>1, <4>1
        <4> QED  BY <1>1, <4>1, <4>2
      <3> QED  BY <3>1, <3>2
    <2>2. ASSUME NEW i \in 1 .. Len(fbq) - 1, fbq'[i] = f PROVE InQueue(f)
      <3>1. i + 1 \in 1 .. Len(fbq)  BY <1>1
      <3> QED  BY <1>1, <2>2, <3>1
    <2> QED  BY <1>1, <1>3, <2>1, <2>2
  <1>6. Distinct(fbq')
    <2> SUFFICES ASSUME NEW i \in 1 .. Len(fbq) - 1, NEW j \in 1 .. Len(fbq) - 1,
                        fbq'[i] = fbq'[j]
                 PROVE  i = j
      BY <1>1
    <2>1. i + 1 \in DOMAIN fbq /\ j + 1 \in DOMAIN fbq  BY <1>1
    <2>2. fbq[i + 1] = fbq[j + 1]  BY <1>1
    <2>3. i + 1 = j + 1  BY <2>1, <2>2
    <2> QED  BY <1>1, <2>3
  <1>7. \A i \in DOMAIN fbq' : fbq'[i] \in Frames
    BY <1>1
  <1> QED  BY <1>1, <1>2, <1>3, <1>4, <1>5, <1>6, <1>7

\* Putting a frame that is nowhere else at the end of the queue.
LEMMA QueueAppend ==
    ASSUME PoolInv, NEW g \in Frames, ~ InQueue(g), Len(fbq) < QLen,
           fbq' = Append(fbq, g)
    PROVE  /\ fbq' \in Seq(Frames) /\ Len(fbq') <= QLen
           /\ \A i \in DOMAIN fbq' : fbq'[i] \in Frames
           /\ \A f : InQueue(f)' <=> InQueue(f) \/ f = g
           /\ Distinct(fbq')
  <1> USE DEF PoolInv, PoolTypeOK, OnePlace, InQueue, Distinct
  <1>1. /\ Len(fbq) \in Nat
        /\ fbq' \in Seq(Frames) /\ Len(fbq') = Len(fbq) + 1
        /\ DOMAIN fbq = 1 .. Len(fbq) /\ DOMAIN fbq' = 1 .. Len(fbq) + 1
        /\ fbq'[Len(fbq) + 1] = g
        /\ \A i \in 1 .. Len(fbq) : fbq'[i] = fbq[i]
    BY AppendFacts
  <1>2. QLen \in Nat
    BY FramePoolAssumption DEF QLen
  <1>3. \A i \in 1 .. Len(fbq) + 1 : i \in 1 .. Len(fbq) \/ i = Len(fbq) + 1
    BY <1>1
  <1>4. ASSUME NEW f PROVE InQueue(f)' <=> InQueue(f) \/ f = g
    <2>1. InQueue(f) => InQueue(f)'  BY <1>1
    <2>2. f = g => InQueue(f)'
      <3>1. Len(fbq) + 1 \in DOMAIN fbq'  BY <1>1
      <3> QED  BY <1>1, <3>1
    <2>3. InQueue(f)' => InQueue(f) \/ f = g  BY <1>1, <1>3
    <2> QED  BY <2>1, <2>2, <2>3
  <1>5. Distinct(fbq')
    <2> SUFFICES ASSUME NEW i \in 1 .. Len(fbq) + 1, NEW j \in 1 .. Len(fbq) + 1,
                        fbq'[i] = fbq'[j]
                 PROVE  i = j
      BY <1>1
    <2>1. CASE i \in 1 .. Len(fbq) /\ j \in 1 .. Len(fbq)  BY <1>1, <2>1
    <2>2. CASE i = Len(fbq) + 1 /\ j \in 1 .. Len(fbq)  BY <1>1, <2>2
    <2>3. CASE j = Len(fbq) + 1 /\ i \in 1 .. Len(fbq)  BY <1>1, <2>3
    <2> QED  BY <1>3, <2>1, <2>2, <2>3
  <1>6. \A i \in DOMAIN fbq' : fbq'[i] \in Frames
    BY <1>1, <1>3
  <1> QED  BY <1>1, <1>2, <1>4, <1>5, <1>6

-----------------------------------------------------------------------------
(* Every step keeps the invariant: one lemma per action. *)

LEMMA VsyncIsrStep == ASSUME PoolInv, VsyncIsr PROVE PoolInv'
  <1> USE FramePoolAssumption
      DEF PoolInv, PoolTypeOK, VsyncIsr,
          isrVars, taskVars, bufVars, Frames, NoFrame
  <1>0. \A f : InQueue(f)' <=> InQueue(f)  BY DEF InQueue
  <1>a. up /\ up' = up  OBVIOUS
  <1>1. PoolTypeOK'  BY <1>0 DEF TaskPcs, QLen
  <1>2. DownInv'  BY <1>a DEF DownInv
  <1>3. ReadInv'  BY <1>0, <1>1, FreeFacts DEF ReadInv
  <1>4. PublishInv'  BY <1>0, <1>1, FreeFacts DEF PublishInv, Publishing, ReadInv, PoppedInv, OnePlace
  <1>5. PoppedInv'  BY <1>0, <1>1, FreeFacts DEF PoppedInv
  <1>6. CntInv'  BY <1>0, <1>1, FreeFacts DEF CntInv
  <1>7. DmaExclusive'  BY <1>0, <1>1, FreeFacts DEF DmaExclusive
  <1>8. NoFrameLost'  BY <1>0, <1>1, FreeFacts DEF NoFrameLost, Publishing
  <1>9. OnePlace'  BY <1>0, <1>1, FreeFacts DEF OnePlace, PublishInv, PoppedInv, ReadInv, InQueue
  <1>10. LenFits'  BY <1>0, <1>1, FreeFacts DEF LenFits, CntInv
  <1> QED  BY <1>1, <1>2, <1>3, <1>4, <1>5, <1>6, <1>7, <1>8, <1>9, <1>10

LEMMA DmaIsrStep == ASSUME PoolInv, DmaIsr PROVE PoolInv'
  <1> USE FramePoolAssumption
      DEF PoolInv, PoolTypeOK, DmaIsr,
          isrVars, taskVars, bufVars, Frames, NoFrame
  <1>0. \A f : InQueue(f)' <=> InQueue(f)  BY DEF InQueue
  <1>a. up /\ up' = up  OBVIOUS
  <1>1. PoolTypeOK'  BY <1>0 DEF TaskPcs, QLen
  <1>2. DownInv'  BY <1>a DEF DownInv
  <1>3. ReadInv'  BY <1>0, <1>1, FreeFacts DEF ReadInv
  <1>4. PublishInv'  BY <1>0, <1>1, FreeFacts DEF PublishInv, Publishing, ReadInv, PoppedInv, OnePlace
  <1>5. PoppedInv'  BY <1>0, <1>1, FreeFacts DEF PoppedInv
  <1>6. CntInv'  BY <1>0, <1>1, FreeFacts DEF CntInv
  <1>7. DmaExclusive'  BY <1>0, <1>1, FreeFacts DEF DmaExclusive
  <1>8. NoFrameLost'  BY <1>0, <1>1, FreeFacts DEF NoFrameLost, Publishing
  <1>9. OnePlace'  BY <1>0, <1>1, FreeFacts DEF OnePlace, PublishInv, PoppedInv, ReadInv, InQueue
  <1>10. LenFits'  BY <1>0, <1>1, FreeFacts DEF LenFits, CntInv
  <1> QED  BY <1>1, <1>2, <1>3, <1>4, <1>5, <1>6, <1>7, <1>8, <1>9, <1>10

LEMMA SendEventStep == ASSUME PoolInv, SendEvent PROVE PoolInv'
  <1> USE FramePoolAssumption
      DEF PoolInv, PoolTypeOK, SendEvent,
          isrVars, taskVars, bufVars, Frames, NoFrame
  <1>0. \A f : InQueue(f)' <=> InQueue(f)  BY DEF InQueue
  <1>a. up /\ up' = up  BY DEF DownInv
  <1>b. ev' \in Seq({"vsync", "eof"}) /\ Len(ev') <= EvQLen
    <2>1. CASE ev' = ev  BY <2>1
    <2>2. CASE Len(ev) < EvQLen /\ ev' = Append(ev, irq)
      <3>1. ev' \in Seq({"vsync", "eof"}) /\ Len(ev') = Len(ev) + 1 /\ Len(ev) \in Nat
        BY <2>2, AppendFacts
      <3> QED  BY <2>2, <3>1
    <2> QED  BY <2>1, <2>2
  <1>1. PoolTypeOK'  BY <1>0, <1>b DEF TaskPcs, QLen
  <1>2. DownInv'  BY <1>a DEF DownInv
  <1>3. ReadInv'  BY <1>0, <1>1, FreeFacts DEF ReadInv
  <1>4. PublishInv'  BY <1>0, <1>1, FreeFacts DEF PublishInv, Publishing, ReadInv, PoppedInv, OnePlace
  <1>5. PoppedInv'  BY <1>0, <1>1, FreeFacts DEF PoppedInv
  <1>6. CntInv'  BY <1>0, <1>1, FreeFacts DEF CntInv
  <1>7. DmaExclusive'  BY <1>0, <1>1, FreeFacts DEF DmaExclusive
  <1>8. NoFrameLost'  BY <1>0, <1>1, FreeFacts DEF NoFrameLost, Publishing
  <1>9. OnePlace'  BY <1>0, <1>1, FreeFacts DEF OnePlace, PublishInv, PoppedInv, ReadInv, InQueue
  <1>10. LenFits'  BY <1>0, <1>1, FreeFacts DEF LenFits, CntInv
  <1> QED  BY <1>1, <1>2, <1>3, <1>4, <1>5, <1>6, <1>7, <1>8, <1>9, <1>10

LEMMA OverflowStopStep == ASSUME PoolInv, OverflowStop PROVE PoolInv'
  <1> USE FramePoolAssumption
      DEF PoolInv, PoolTypeOK, OverflowStop,
          isrVars, taskVars, bufVars, Frames, NoFrame
  <1>0. \A f : InQueue(f)' <=> InQueue(f)  BY DEF InQueue
  <1>a. up /\ up' = up  BY DEF DownInv
  <1>1. PoolTypeOK'  BY <1>0 DEF TaskPcs, QLen
  <1>2. DownInv'  BY <1>a DEF DownInv
  <1>3. ReadInv'  BY <1>0, <1>1, FreeFacts DEF ReadInv
  <1>4. PublishInv'  BY <1>0, <1>1, FreeFacts DEF PublishInv, Publishing, ReadInv, PoppedInv, OnePlace
  <1>5. PoppedInv'  BY <1>0, <1>1, FreeFacts DEF PoppedInv
  <1>6. CntInv'  BY <1>0, <1>1, FreeFacts DEF CntInv
  <1>7. DmaExclusive'  BY <1>0, <1>1, FreeFacts DEF DmaExclusive
  <1>8. NoFrameLost'  BY <1>0, <1>1, FreeFacts DEF NoFrameLost, Publishing
  <1>9. OnePlace'  BY <1>0, <1>1, FreeFacts DEF OnePlace, PublishInv, PoppedInv, ReadInv, InQueue
  <1>10. LenFits'  BY <1>0, <1>1, FreeFacts DEF LenFits, CntInv
  <1> QED  BY <1>1, <1>2, <1>3, <1>4, <1>5, <1>6, <1>7, <1>8, <1>9, <1>10

LEMMA OverflowIdleStep == ASSUME PoolInv, OverflowIdle PROVE PoolInv'
  <1> USE FramePoolAssumption
      DEF PoolInv, PoolTypeOK, OverflowIdle,
          isrVars, taskVars, bufVars, Frames, NoFrame
  <1>0. \A f : InQueue(f)' <=> InQueue(f)  BY DEF InQueue
  <1>a. up /\ up' = up  BY DEF DownInv
  <1>1. PoolTypeOK'  BY <1>0 DEF TaskPcs, QLen
  <1>2. DownInv'  BY <1>a DEF DownInv
  <1>3. ReadInv'  BY <1>0, <1>1, FreeFacts DEF ReadInv
  <1>4. PublishInv'  BY <1>0, <1>1, FreeFacts DEF PublishInv, Publishing, ReadInv, PoppedInv, OnePlace
  <1>5. PoppedInv'  BY <1>0, <1>1, FreeFacts DEF PoppedInv
  <1>6. CntInv'  BY <1>0, <1>1, FreeFacts DEF CntInv
  <1>7. DmaExclusive'  BY <1>0, <1>1, FreeFacts DEF DmaExclusive
  <1>8. NoFrameLost'  BY <1>0, <1>1, FreeFacts DEF NoFrameLost, Publishing
  <1>9. OnePlace'  BY <1>0, <1>1, FreeFacts DEF OnePlace, PublishInv, PoppedInv, ReadInv, InQueue
  <1>10. LenFits'  BY <1>0, <1>1, FreeFacts DEF LenFits, CntInv
  <1> QED  BY <1>1, <1>2, <1>3, <1>4, <1>5, <1>6, <1>7, <1>8, <1>9, <1>10

LEMMA ReceiveEventStep == ASSUME PoolInv, ReceiveEvent PROVE PoolInv'
  <1> USE FramePoolAssumption
      DEF PoolInv, PoolTypeOK, ReceiveEvent,
          isrVars, taskVars, bufVars, Frames, NoFrame
  <1>0. \A f : InQueue(f)' <=> InQueue(f)  BY DEF InQueue
  <1>a. /\ ev' \in Seq({"vsync", "eof"}) /\ Len(ev') <= EvQLen
        /\ evt' \in {"vsync", "eof"}
    BY TailFacts
  <1>b. up  BY DEF DownInv
  <1>1. PoolTypeOK'  BY <1>a DEF TaskPcs, QLen
  <1>2. DownInv'  BY <1>b DEF DownInv
  <1>3. ReadInv'  BY <1>0, <1>1, FreeFacts DEF ReadInv
  <1>4. PublishInv'  BY <1>0, <1>1, FreeFacts DEF PublishInv, Publishing, ReadInv, PoppedInv, OnePlace
  <1>5. PoppedInv'  BY <1>0, <1>1, FreeFacts DEF PoppedInv
  <1>6. CntInv'  BY <1>0, <1>1, FreeFacts DEF CntInv
  <1>7. DmaExclusive'  BY <1>0, <1>1, FreeFacts DEF DmaExclusive
  <1>8. NoFrameLost'  BY <1>0, <1>1, FreeFacts DEF NoFrameLost, Publishing
  <1>9. OnePlace'  BY <1>0, <1>1, FreeFacts DEF OnePlace, PublishInv, PoppedInv, ReadInv, InQueue
  <1>10. LenFits'  BY <1>0, <1>1, FreeFacts DEF LenFits, CntInv
  <1> QED  BY <1>1, <1>2, <1>3, <1>4, <1>5, <1>6, <1>7, <1>8, <1>9, <1>10

LEMMA IgnoreEofStep == ASSUME PoolInv, IgnoreEof PROVE PoolInv'
  <1> USE FramePoolAssumption
      DEF PoolInv, PoolTypeOK, IgnoreEof,
          isrVars, taskVars, bufVars, Frames, NoFrame
  <1>0. \A f : InQueue(f)' <=> InQueue(f)  BY DEF InQueue
  <1>1. PoolTypeOK'  BY <1>0 DEF TaskPcs, QLen
  <1>2. DownInv'  BY <1>0, <1>1, FreeFacts DEF DownInv
  <1>3. ReadInv'  BY <1>0, <1>1, FreeFacts DEF ReadInv
  <1>4. PublishInv'  BY <1>0, <1>1, FreeFacts DEF PublishInv, Publishing, ReadInv, PoppedInv, OnePlace
  <1>5. PoppedInv'  BY <1>0, <1>1, FreeFacts DEF PoppedInv
  <1>6. CntInv'  BY <1>0, <1>1, FreeFacts DEF CntInv
  <1>7. DmaExclusive'  BY <1>0, <1>1, FreeFacts DEF DmaExclusive
  <1>8. NoFrameLost'  BY <1>0, <1>1, FreeFacts DEF NoFrameLost, Publishing
  <1>9. OnePlace'  BY <1>0, <1>1, FreeFacts DEF OnePlace, PublishInv, PoppedInv, ReadInv, InQueue
  <1>10. LenFits'  BY <1>0, <1>1, FreeFacts DEF LenFits, CntInv
  <1> QED  BY <1>1, <1>2, <1>3, <1>4, <1>5, <1>6, <1>7, <1>8, <1>9, <1>10

LEMMA IdleVsyncStartStep == ASSUME PoolInv, IdleVsyncStart PROVE PoolInv'
  <1> USE FramePoolAssumption
      DEF PoolInv, PoolTypeOK, IdleVsyncStart, CamStartFrame, NextFrame,
          isrVars, taskVars, bufVars, Frames, NoFrame
  <1>0. \A f : InQueue(f)' <=> InQueue(f)  BY DEF InQueue
  <1>1. PoolTypeOK'  BY <1>0 DEF TaskPcs, QLen
  <1>2. DownInv'  BY <1>0, <1>1, FreeFacts DEF DownInv
  <1>3. ReadInv'  BY <1>0, <1>1, FreeFacts DEF ReadInv
  <1>4. PublishInv'  BY <1>0, <1>1, FreeFacts DEF PublishInv, Publishing, ReadInv, PoppedInv, OnePlace
  <1>5. PoppedInv'  BY <1>0, <1>1, FreeFacts DEF PoppedInv
  <1>6. CntInv'  BY <1>0, <1>1, FreeFacts DEF CntInv
  <1>7. DmaExclusive'  BY <1>0, <1>1, FreeFacts DEF DmaExclusive
  <1>8. NoFrameLost'  BY <1>0, <1>1, FreeFacts DEF NoFrameLost, Publishing
  <1>9. OnePlace'  BY <1>0, <1>1, FreeFacts DEF OnePlace, PublishInv, PoppedInv, ReadInv, InQueue
  <1>10. LenFits'  BY <1>0, <1>1, FreeFacts DEF LenFits, CntInv
  <1> QED  BY <1>1, <1>2, <1>3, <1>4, <1>5, <1>6, <1>7, <1>8, <1>9, <1>10

LEMMA IdleVsyncNoneStep == ASSUME PoolInv, IdleVsyncNone PROVE PoolInv'
  <1> USE FramePoolAssumption
      DEF PoolInv, PoolTypeOK, IdleVsyncNone, NoneFree,
          isrVars, taskVars, bufVars, Frames, NoFrame
  <1>0. \A f : InQueue(f)' <=> InQueue(f)  BY DEF InQueue
  <1>1. PoolTypeOK'  BY <1>0 DEF TaskPcs, QLen
  <1>2. DownInv'  BY <1>0, <1>1, FreeFacts DEF DownInv
  <1>3. ReadInv'  BY <1>0, <1>1, FreeFacts DEF ReadInv
  <1>4. PublishInv'  BY <1>0, <1>1, FreeFacts DEF PublishInv, Publishing, ReadInv, PoppedInv, OnePlace
  <1>5. PoppedInv'  BY <1>0, <1>1, FreeFacts DEF PoppedInv
  <1>6. CntInv'  BY <1>0, <1>1, FreeFacts DEF CntInv
  <1>7. DmaExclusive'  BY <1>0, <1>1, FreeFacts DEF DmaExclusive
  <1>8. NoFrameLost'  BY <1>0, <1>1, FreeFacts DEF NoFrameLost, Publishing
  <1>9. OnePlace'  BY <1>0, <1>1, FreeFacts DEF OnePlace, PublishInv, PoppedInv, ReadInv, InQueue
  <1>10. LenFits'  BY <1>0, <1>1, FreeFacts DEF LenFits, CntInv
  <1> QED  BY <1>1, <1>2, <1>3, <1>4, <1>5, <1>6, <1>7, <1>8, <1>9, <1>10

LEMMA SetReadStep == ASSUME PoolInv, SetRead PROVE PoolInv'
  <1> USE FramePoolAssumption
      DEF PoolInv, PoolTypeOK, SetRead,
          isrVars, taskVars, bufVars, Frames, NoFrame
  <1>0. \A f : InQueue(f)' <=> InQueue(f)  BY DEF InQueue
  <1>1. PoolTypeOK'  BY <1>0 DEF TaskPcs, QLen
  <1>2. DownInv'  BY <1>0, <1>1, FreeFacts DEF DownInv
  <1>3. ReadInv'  BY <1>0, <1>1, FreeFacts DEF ReadInv
  <1>4. PublishInv'  BY <1>0, <1>1, FreeFacts DEF PublishInv, Publishing, ReadInv, PoppedInv, OnePlace
  <1>5. PoppedInv'  BY <1>0, <1>1, FreeFacts DEF PoppedInv
  <1>6. CntInv'  BY <1>0, <1>1, FreeFacts DEF CntInv
  <1>7. DmaExclusive'  BY <1>0, <1>1, FreeFacts DEF DmaExclusive
  <1>8. NoFrameLost'  BY <1>0, <1>1, FreeFacts DEF NoFrameLost, Publishing
  <1>9. OnePlace'  BY <1>0, <1>1, FreeFacts DEF OnePlace, PublishInv, PoppedInv, ReadInv, InQueue
  <1>10. LenFits'  BY <1>0, <1>1, FreeFacts DEF LenFits, CntInv
  <1> QED  BY <1>1, <1>2, <1>3, <1>4, <1>5, <1>6, <1>7, <1>8, <1>9, <1>10

LEMMA ReadEofStep == ASSUME PoolInv, ReadEof PROVE PoolInv'
  <1> USE FramePoolAssumption
      DEF PoolInv, PoolTypeOK, ReadEof, CopyOverflow,
          isrVars, taskVars, bufVars, Frames, NoFrame
  <1>0. \A f : InQueue(f)' <=> InQueue(f)  BY DEF InQueue
  <1>1. PoolTypeOK'
    <2>1. \/ cnt' = cnt + 1 /\ dma' = dma /\ camState' = camState
          \/ cnt' = cnt /\ dma' = FALSE /\ camState' = "idle"
      OBVIOUS
    <2>2. cnt' \in Nat  BY <2>1
    <2>3. dma' \in BOOLEAN  BY <2>1
    <2>4. camState' \in {"idle", "read"}  BY <2>1
    <2> QED  BY <2>2, <2>3, <2>4 DEF TaskPcs, QLen
  <1>2. DownInv'  BY <1>0, <1>1, FreeFacts DEF DownInv
  <1>3. ReadInv'  BY <1>0, <1>1, FreeFacts DEF ReadInv
  <1>4. PublishInv'  BY <1>0, <1>1, FreeFacts DEF PublishInv, Publishing, ReadInv, PoppedInv, OnePlace
  <1>5. PoppedInv'  BY <1>0, <1>1, FreeFacts DEF PoppedInv
  <1>6. CntInv'  BY <1>0, <1>1, FreeFacts DEF CntInv
  <1>7. DmaExclusive'  BY <1>0, <1>1, FreeFacts DEF DmaExclusive
  <1>8. NoFrameLost'  BY <1>0, <1>1, FreeFacts DEF NoFrameLost, Publishing
  <1>9. OnePlace'  BY <1>0, <1>1, FreeFacts DEF OnePlace, PublishInv, PoppedInv, ReadInv, InQueue
  <1>10. LenFits'  BY <1>0, <1>1, FreeFacts DEF LenFits, CntInv
  <1> QED  BY <1>1, <1>2, <1>3, <1>4, <1>5, <1>6, <1>7, <1>8, <1>9, <1>10

LEMMA ReadVsyncStep == ASSUME PoolInv, ReadVsync PROVE PoolInv'
  <1> USE FramePoolAssumption
      DEF PoolInv, PoolTypeOK, ReadVsync,
          isrVars, taskVars, bufVars, Frames, NoFrame
  <1>0. \A f : InQueue(f)' <=> InQueue(f)  BY DEF InQueue
  <1>1. PoolTypeOK'
    <2>1. cnt + 1 \in Nat  OBVIOUS
    <2>2. en' \in [Frames -> BOOLEAN] /\ len' \in [Frames -> Nat]  BY <2>1
    <2> QED  BY <2>1, <2>2 DEF TaskPcs, QLen
  <1>2. DownInv'  BY <1>0, <1>1, FreeFacts DEF DownInv
  <1>3. ReadInv'  BY <1>0, <1>1, FreeFacts DEF ReadInv
  <1>4. PublishInv'  BY <1>0, <1>1, FreeFacts DEF PublishInv, Publishing, ReadInv, PoppedInv, OnePlace
  <1>5. PoppedInv'  BY <1>0, <1>1, FreeFacts DEF PoppedInv
  <1>6. CntInv'  BY <1>0, <1>1, FreeFacts DEF CntInv
  <1>7. DmaExclusive'  BY <1>0, <1>1, FreeFacts DEF DmaExclusive
  <1>8. NoFrameLost'  BY <1>0, <1>1, FreeFacts DEF NoFrameLost, Publishing
  <1>9. OnePlace'
    <2>1. framePos \in Frames /\ en[framePos]  BY DEF ReadInv
    <2>2. \A f \in Frames : en'[f] => en[f]  OBVIOUS
    <2>3. \A i \in DOMAIN fbq : fbq[i] \in Frames  OBVIOUS
    <2> QED  BY <1>0, <2>1, <2>2, <2>3 DEF OnePlace
  <1>10. LenFits'  BY <1>0, <1>1, FreeFacts DEF LenFits, CntInv
  <1> QED  BY <1>1, <1>2, <1>3, <1>4, <1>5, <1>6, <1>7, <1>8, <1>9, <1>10

LEMMA SendFrameStep == ASSUME PoolInv, SendFrame PROVE PoolInv'
  <1> USE FramePoolAssumption
      DEF PoolInv, PoolTypeOK, SendFrame,
          isrVars, taskVars, bufVars, Frames, NoFrame
  <1>1. CASE Len(fbq) < QLen
    <2>0. framePos \in Frames /\ ~ InQueue(framePos) /\ framePos \notin held
          /\ ~ en[framePos] /\ popped # framePos
      BY DEF PublishInv, Publishing
    <2>1. /\ fbq' \in Seq(Frames) /\ Len(fbq') <= QLen
          /\ \A i \in DOMAIN fbq' : fbq'[i] \in Frames
          /\ \A f : InQueue(f)' <=> InQueue(f) \/ f = framePos
          /\ Distinct(fbq')
      BY <1>1, <2>0, QueueAppend
    <2>2. camPc' = "next" /\ camPc = "send"  BY <1>1
    <2>3. PoolTypeOK'  BY <2>1, <2>2 DEF TaskPcs
    <2>4. DownInv'  BY <2>2 DEF DownInv
    <2>5. ReadInv' /\ PublishInv' /\ CntInv' /\ LenFits'
      BY <2>2 DEF ReadInv, PublishInv, Publishing, CntInv, LenFits
    <2>6. PoppedInv'  BY <2>2 DEF PoppedInv
    <2>7. DmaExclusive'  BY <2>0, <2>1 DEF DmaExclusive
    <2>8. NoFrameLost'  BY <2>1, <2>2 DEF NoFrameLost, Publishing
    <2>9. OnePlace'
      <3>1. \A f \in held : ~ InQueue(f)' /\ ~ en[f]  BY <2>0, <2>1 DEF OnePlace
      <3>2. \A f \in Frames : InQueue(f)' => ~ en[f]
        BY <2>0, <2>1, FreeFacts
      <3> QED  BY <2>1, <3>1, <3>2 DEF OnePlace, Distinct, InQueue
    <2> QED  BY <2>3, <2>4, <2>5, <2>6, <2>7, <2>8, <2>9
  <1>2. CASE ~ Len(fbq) < QLen
    <2>0. camPc' = "pop" /\ camPc = "send" /\ fbq' = fbq  BY <1>2
    <2>1. \A f : InQueue(f)' <=> InQueue(f)  BY <2>0 DEF InQueue
    <2>2. PoolTypeOK'  BY <2>0 DEF TaskPcs
    <2>3. DownInv' /\ ReadInv' /\ PoppedInv' /\ CntInv' /\ LenFits'
      BY <2>0, <2>1 DEF DownInv, ReadInv, PoppedInv, CntInv, LenFits
    <2>4. PublishInv' /\ DmaExclusive' /\ NoFrameLost'
      BY <2>0, <2>1 DEF PublishInv, DmaExclusive, NoFrameLost, Publishing
    <2>5. OnePlace'  BY <2>0, <2>1 DEF OnePlace
    <2> QED  BY <2>2, <2>3, <2>4, <2>5
  <1> QED  BY <1>1, <1>2

LEMMA PopOldestStep == ASSUME PoolInv, PopOldest PROVE PoolInv'
  <1> USE FramePoolAssumption
      DEF PoolInv, PoolTypeOK, PopOldest,
          isrVars, taskVars, bufVars, Frames, NoFrame
  <1>0. /\ camPc = "pop" /\ up /\ up'
        /\ framePos \in Frames /\ ~ en[framePos] /\ ~ InQueue(framePos)
        /\ framePos \notin held /\ popped = NoFrame
    BY DEF PublishInv, Publishing, DownInv, PoppedInv
  <1>1. CASE fbq # <<>>
    <2>0. camPc' = "resend" /\ popped' = Head(fbq) /\ fbq' = Tail(fbq) /\ en' = en
      BY <1>1
    <2>1. /\ fbq' \in Seq(Frames) /\ Len(fbq') <= QLen
          /\ Head(fbq) \in Frames /\ InQueue(Head(fbq)) /\ ~ en[Head(fbq)]
          /\ Head(fbq) \notin held
          /\ \A f : f = Head(fbq) => ~ InQueue(f)'
          /\ \A i \in DOMAIN fbq' : fbq'[i] \in Frames
          /\ \A f : InQueue(f) <=> f = Head(fbq) \/ InQueue(f)'
          /\ Distinct(fbq')
      BY <1>1, <2>0, QueueTail
    <2>2. PoolTypeOK'  BY <2>0, <2>1 DEF TaskPcs
    <2>3. DownInv' /\ ReadInv' /\ CntInv' /\ LenFits'
      BY <1>0, <2>0 DEF DownInv, ReadInv, CntInv, LenFits
    <2>4. PublishInv'  BY <1>0, <2>0, <2>1 DEF PublishInv
    <2>5. PoppedInv'  BY <2>0, <2>1 DEF PoppedInv
    <2>6. DmaExclusive'  BY <2>0, <2>1 DEF DmaExclusive
    <2>7. NoFrameLost'  BY <1>0, <2>0, <2>1 DEF NoFrameLost, Publishing
    <2>8. OnePlace'
      <3>1. \A f \in held : ~ InQueue(f)' /\ ~ en[f]  BY <2>1 DEF OnePlace
      <3>2. \A f \in Frames : InQueue(f)' => ~ en[f]  BY <2>1, FreeFacts
      <3> QED  BY <2>0, <2>1, <3>1, <3>2 DEF OnePlace, Distinct, InQueue
    <2> QED  BY <2>2, <2>3, <2>4, <2>5, <2>6, <2>7, <2>8
  <1>2. CASE fbq = <<>>
    <2>0. /\ camPc' = "next" /\ popped' = popped /\ fbq' = fbq
          /\ en' = [en EXCEPT ![framePos] = TRUE]
      BY <1>2
    <2>1. \A f : ~ InQueue(f) /\ ~ InQueue(f)'  BY <1>2, <2>0 DEF InQueue
    <2>2. PoolTypeOK'  BY <1>0, <2>0 DEF TaskPcs
    <2>3. DownInv' /\ ReadInv' /\ PublishInv' /\ CntInv' /\ LenFits'
      BY <1>0, <2>0 DEF DownInv, ReadInv, PublishInv, Publishing, CntInv, LenFits
    <2>4. PoppedInv'  BY <1>0, <2>0 DEF PoppedInv
    <2>5. DmaExclusive'  BY <1>0, <2>0, <2>1 DEF DmaExclusive
    <2>6. NoFrameLost'  BY <1>0, <2>0, <2>1 DEF NoFrameLost, Publishing
    <2>7. OnePlace'  BY <1>0, <1>2, <2>0, <2>1 DEF OnePlace
    <2> QED  BY <2>2, <2>3, <2>4, <2>5, <2>6, <2>7
  <1> QED  BY <1>1, <1>2

LEMMA ResendFrameStep == ASSUME PoolInv, ResendFrame PROVE PoolInv'
  <1> USE FramePoolAssumption
      DEF PoolInv, PoolTypeOK, ResendFrame,
          isrVars, taskVars, bufVars, Frames, NoFrame
  <1>0. /\ camPc = "resend" /\ camPc' = "give" /\ up /\ up'
        /\ framePos \in Frames /\ ~ en[framePos] /\ ~ InQueue(framePos)
        /\ framePos \notin held /\ popped # framePos
        /\ popped \in Frames /\ ~ en[popped] /\ ~ InQueue(popped) /\ popped \notin held
    BY DEF PublishInv, Publishing, DownInv, PoppedInv
  <1>1. DownInv' /\ ReadInv' /\ PublishInv' /\ CntInv' /\ LenFits'
    BY <1>0 DEF DownInv, ReadInv, PublishInv, Publishing, CntInv, LenFits
  <1>2. CASE Len(fbq) < QLen
    <2>0. fbq' = Append(fbq, framePos) /\ en' = en  BY <1>2
    <2>1. /\ fbq' \in Seq(Frames) /\ Len(fbq') <= QLen
          /\ \A i \in DOMAIN fbq' : fbq'[i] \in Frames
          /\ \A f : InQueue(f)' <=> InQueue(f) \/ f = framePos
          /\ Distinct(fbq')
      BY <1>0, <1>2, <2>0, QueueAppend
    <2>2. PoolTypeOK'  BY <1>0, <2>0, <2>1 DEF TaskPcs
    <2>3. PoppedInv'  BY <1>0, <2>0, <2>1 DEF PoppedInv
    <2>4. DmaExclusive'  BY <1>0, <2>0, <2>1 DEF DmaExclusive
    <2>5. NoFrameLost'  BY <1>0, <2>0, <2>1 DEF NoFrameLost, Publishing
    <2>6. OnePlace'
      <3>1. \A f \in held : ~ InQueue(f)' /\ ~ en[f]  BY <1>0, <2>1 DEF OnePlace
      <3>2. \A f \in Frames : InQueue(f)' => ~ en[f]
        BY <1>0, <2>1, FreeFacts
      <3> QED  BY <2>0, <2>1, <3>1, <3>2 DEF OnePlace, Distinct, InQueue
    <2> QED  BY <1>1, <2>2, <2>3, <2>4, <2>5, <2>6
  <1>3. CASE ~ Len(fbq) < QLen
    <2>0. fbq' = fbq /\ en' = [en EXCEPT ![framePos] = TRUE]  BY <1>3
    <2>1. \A f : InQueue(f)' <=> InQueue(f)  BY <2>0 DEF InQueue
    <2>2. PoolTypeOK'  BY <1>0, <2>0 DEF TaskPcs
    <2>3. PoppedInv'  BY <1>0, <2>0, <2>1 DEF PoppedInv
    <2>4. DmaExclusive'  BY <1>0, <2>0, <2>1 DEF DmaExclusive
    <2>5. NoFrameLost'  BY <1>0, <2>0, <2>1 DEF NoFrameLost, Publishing
    <2>6. OnePlace'  BY <1>0, <2>0, <2>1 DEF OnePlace, InQueue
    <2> QED  BY <1>1, <2>2, <2>3, <2>4, <2>5, <2>6
  <1> QED  BY <1>2, <1>3

LEMMA GivePoppedStep == ASSUME PoolInv, GivePopped PROVE PoolInv'
  <1> USE FramePoolAssumption
      DEF PoolInv, PoolTypeOK, GivePopped,
          isrVars, taskVars, bufVars, Frames, NoFrame
  <1>0. \A f : InQueue(f)' <=> InQueue(f)  BY DEF InQueue
  <1>1. PoolTypeOK'  BY <1>0 DEF TaskPcs, QLen
  <1>2. DownInv'  BY <1>0, <1>1, FreeFacts DEF DownInv
  <1>3. ReadInv'  BY <1>0, <1>1, FreeFacts DEF ReadInv
  <1>4. PublishInv'  BY <1>0, <1>1, FreeFacts DEF PublishInv, Publishing, ReadInv, PoppedInv, OnePlace
  <1>5. PoppedInv'  BY <1>0, <1>1, FreeFacts DEF PoppedInv
  <1>6. CntInv'  BY <1>0, <1>1, FreeFacts DEF CntInv
  <1>7. DmaExclusive'  BY <1>0, <1>1, FreeFacts DEF DmaExclusive
  <1>8. NoFrameLost'  BY <1>0, <1>1, FreeFacts DEF NoFrameLost, Publishing
  <1>9. OnePlace'  BY <1>0, <1>1, FreeFacts DEF OnePlace, PublishInv, PoppedInv, ReadInv, InQueue
  <1>10. LenFits'  BY <1>0, <1>1, FreeFacts DEF LenFits, CntInv
  <1> QED  BY <1>1, <1>2, <1>3, <1>4, <1>5, <1>6, <1>7, <1>8, <1>9, <1>10

LEMMA StartNextStep == ASSUME PoolInv, StartNext PROVE PoolInv'
  <1> USE FramePoolAssumption
      DEF PoolInv, PoolTypeOK, StartNext, CamStartFrame, NextFrame,
          isrVars, taskVars, bufVars, Frames, NoFrame
  <1>0. \A f : InQueue(f)' <=> InQueue(f)  BY DEF InQueue
  <1>1. PoolTypeOK'  BY <1>0 DEF TaskPcs, QLen
  <1>2. DownInv'  BY <1>0, <1>1, FreeFacts DEF DownInv
  <1>3. ReadInv'  BY <1>0, <1>1, FreeFacts DEF ReadInv
  <1>4. PublishInv'  BY <1>0, <1>1, FreeFacts DEF PublishInv, Publishing, ReadInv, PoppedInv, OnePlace
  <1>5. PoppedInv'  BY <1>0, <1>1, FreeFacts DEF PoppedInv
  <1>6. CntInv'  BY <1>0, <1>1, FreeFacts DEF CntInv
  <1>7. DmaExclusive'  BY <1>0, <1>1, FreeFacts DEF DmaExclusive
  <1>8. NoFrameLost'  BY <1>0, <1>1, FreeFacts DEF NoFrameLost, Publishing
  <1>9. OnePlace'  BY <1>0, <1>1, FreeFacts DEF OnePlace, PublishInv, PoppedInv, ReadInv, InQueue
  <1>10. LenFits'  BY <1>0, <1>1, FreeFacts DEF LenFits, CntInv
  <1> QED  BY <1>1, <1>2, <1>3, <1>4, <1>5, <1>6, <1>7, <1>8, <1>9, <1>10

LEMMA StartNoneStep == ASSUME PoolInv, StartNone PROVE PoolInv'
  <1> USE FramePoolAssumption
      DEF PoolInv, PoolTypeOK, StartNone, NoneFree,
          isrVars, taskVars, bufVars, Frames, NoFrame
  <1>0. \A f : InQueue(f)' <=> InQueue(f)  BY DEF InQueue
  <1>1. PoolTypeOK'  BY <1>0 DEF TaskPcs, QLen
  <1>2. DownInv'  BY <1>0, <1>1, FreeFacts DEF DownInv
  <1>3. ReadInv'  BY <1>0, <1>1, FreeFacts DEF ReadInv
  <1>4. PublishInv'  BY <1>0, <1>1, FreeFacts DEF PublishInv, Publishing, ReadInv, PoppedInv, OnePlace
  <1>5. PoppedInv'  BY <1>0, <1>1, FreeFacts DEF PoppedInv
  <1>6. CntInv'  BY <1>0, <1>1, FreeFacts DEF CntInv
  <1>7. DmaExclusive'  BY <1>0, <1>1, FreeFacts DEF DmaExclusive
  <1>8. NoFrameLost'  BY <1>0, <1>1, FreeFacts DEF NoFrameLost, Publishing
  <1>9. OnePlace'  BY <1>0, <1>1, FreeFacts DEF OnePlace, PublishInv, PoppedInv, ReadInv, InQueue
  <1>10. LenFits'  BY <1>0, <1>1, FreeFacts DEF LenFits, CntInv
  <1> QED  BY <1>1, <1>2, <1>3, <1>4, <1>5, <1>6, <1>7, <1>8, <1>9, <1>10

LEMMA ClearLenStep == ASSUME PoolInv, ClearLen PROVE PoolInv'
  <1> USE FramePoolAssumption
      DEF PoolInv, PoolTypeOK, ClearLen,
          isrVars, taskVars, bufVars, Frames, NoFrame
  <1>0. \A f : InQueue(f)' <=> InQueue(f)  BY DEF InQueue
  <1>1. PoolTypeOK'  BY <1>0 DEF TaskPcs, QLen
  <1>2. DownInv'  BY <1>0, <1>1, FreeFacts DEF DownInv
  <1>3. ReadInv'  BY <1>0, <1>1, FreeFacts DEF ReadInv
  <1>4. PublishInv'  BY <1>0, <1>1, FreeFacts DEF PublishInv, Publishing, ReadInv, PoppedInv, OnePlace
  <1>5. PoppedInv'  BY <1>0, <1>1, FreeFacts DEF PoppedInv
  <1>6. CntInv'  BY <1>0, <1>1, FreeFacts DEF CntInv
  <1>7. DmaExclusive'  BY <1>0, <1>1, FreeFacts DEF DmaExclusive
  <1>8. NoFrameLost'  BY <1>0, <1>1, FreeFacts DEF NoFrameLost, Publishing
  <1>9. OnePlace'  BY <1>0, <1>1, FreeFacts DEF OnePlace, PublishInv, PoppedInv, ReadInv, InQueue
  <1>10. LenFits'  BY <1>0, <1>1, FreeFacts DEF LenFits, CntInv
  <1> QED  BY <1>1, <1>2, <1>3, <1>4, <1>5, <1>6, <1>7, <1>8, <1>9, <1>10

LEMMA CamTakeStep == ASSUME PoolInv, CamTake PROVE PoolInv'
  <1> USE FramePoolAssumption
      DEF PoolInv, PoolTypeOK, CamTake,
          isrVars, taskVars, bufVars, Frames, NoFrame
  <1>1. /\ fbq' \in Seq(Frames) /\ Len(fbq') <= QLen
        /\ Head(fbq) \in Frames /\ InQueue(Head(fbq)) /\ ~ en[Head(fbq)]
        /\ Head(fbq) \notin held
        /\ \A f : f = Head(fbq) => ~ InQueue(f)'
        /\ \A i \in DOMAIN fbq' : fbq'[i] \in Frames
        /\ \A f : InQueue(f) <=> f = Head(fbq) \/ InQueue(f)'
        /\ Distinct(fbq')
    BY QueueTail
  <1>2. held' = held \cup {Head(fbq)} /\ en' = en  OBVIOUS
  <1>3. PoolTypeOK'  BY <1>1, <1>2
  <1>4. DownInv' /\ ReadInv' /\ CntInv' /\ LenFits'
    BY DEF DownInv, ReadInv, CntInv, LenFits
  <1>5. PublishInv'  BY <1>1, <1>2 DEF PublishInv, Publishing
  <1>6. PoppedInv'  BY <1>1, <1>2 DEF PoppedInv
  <1>7. DmaExclusive'  BY <1>1, <1>2 DEF DmaExclusive
  <1>8. NoFrameLost'  BY <1>1, <1>2 DEF NoFrameLost, Publishing
  <1>9. OnePlace'
    <2>1. \A f \in held' : ~ InQueue(f)' /\ ~ en[f]  BY <1>1, <1>2 DEF OnePlace
    <2>2. \A f \in Frames : InQueue(f)' => ~ en[f]  BY <1>1, FreeFacts
    <2>3. ASSUME NEW i \in DOMAIN fbq' PROVE ~ en'[fbq'[i]]
      <3>1. PICK f \in Frames : f = fbq'[i]  BY <1>1
      <3>2. InQueue(f)'  BY <3>1 DEF InQueue
      <3> QED  BY <1>2, <2>2, <3>1, <3>2
    <2> QED  BY <1>1, <1>2, <2>1, <2>3 DEF OnePlace, Distinct
  <1> QED  BY <1>3, <1>4, <1>5, <1>6, <1>7, <1>8, <1>9

LEMMA CamGiveStep == ASSUME NEW f \in Frames, PoolInv, CamGive(f) PROVE PoolInv'
  <1> USE FramePoolAssumption
      DEF PoolInv, PoolTypeOK, CamGive,
          isrVars, taskVars, bufVars, Frames, NoFrame
  <1>0. \A g : InQueue(g)' <=> InQueue(g)  BY DEF InQueue
  <1>a. up  BY DEF DownInv
  <1>1. PoolTypeOK'  BY <1>0 DEF TaskPcs, QLen
  <1>2. DownInv'  BY <1>a DEF DownInv
  <1>3. ReadInv'  BY <1>0, <1>1, FreeFacts DEF ReadInv
  <1>4. PublishInv'  BY <1>0, <1>1, FreeFacts DEF PublishInv, Publishing, ReadInv, PoppedInv, OnePlace
  <1>5. PoppedInv'  BY <1>0, <1>1, FreeFacts DEF PoppedInv
  <1>6. CntInv'  BY <1>0, <1>1, FreeFacts DEF CntInv
  <1>7. DmaExclusive'  BY <1>0, <1>1, FreeFacts DEF DmaExclusive
  <1>8. NoFrameLost'  BY <1>0, <1>1, FreeFacts DEF NoFrameLost, Publishing
  <1>9. OnePlace'
    <2>1. f \in Frames /\ ~ InQueue(f)  BY DEF OnePlace
    <2>2. \A g \in Frames : en'[g] => en[g] \/ g = f  OBVIOUS
    <2>3. \A i \in DOMAIN fbq : fbq[i] \in Frames /\ fbq[i] # f  BY <2>1 DEF InQueue
    <2>4. \A g \in held' : ~ en'[g]  BY DEF OnePlace
    <2> QED  BY <1>0, <2>2, <2>3, <2>4 DEF OnePlace
  <1>10. LenFits'  BY <1>0, <1>1, FreeFacts DEF LenFits, CntInv
  <1> QED  BY <1>1, <1>2, <1>3, <1>4, <1>5, <1>6, <1>7, <1>8, <1>9, <1>10

LEMMA DriverInitStep == ASSUME PoolInv, ~ up, DriverInit PROVE PoolInv'
  <1> USE FramePoolAssumption
      DEF PoolInv, PoolTypeOK, DriverInit, Frames, NoFrame
  <1>1. held = {} /\ held' = {}  BY DEF DownInv
  <1>2. fbq' = <<>> /\ DOMAIN fbq' = {} /\ \A f : ~ InQueue(f)'  BY DEF InQueue
  <1>a. 0 \in Frames /\ QLen \in Nat  BY DEF QLen
  <1>b. en' \in [Frames -> BOOLEAN] /\ len' \in [Frames -> Nat]  OBVIOUS
  <1>c. fbq' \in Seq(Frames) /\ Len(fbq') = 0  OBVIOUS
  <1>d. ev' \in Seq({"vsync", "eof"}) /\ Len(ev') = 0 /\ EvQLen \in Nat  OBVIOUS
  <1>3. PoolTypeOK'
    <2>1. /\ up' \in BOOLEAN /\ dma' \in BOOLEAN
          /\ irq' \in {"none", "vsync", "eof", "stop", "idle"}
          /\ evt' \in {"none", "vsync", "eof"}
          /\ camPc' \in TaskPcs /\ camState' \in {"idle", "read"}
      BY DEF TaskPcs
    <2>2. /\ framePos' \in Frames /\ cnt' \in Nat
          /\ popped' \in Frames \cup {NoFrame} /\ held' \subseteq Frames
      BY <1>1, <1>a
    <2>3. Len(ev') <= EvQLen /\ Len(fbq') <= QLen
      BY <1>a, <1>c, <1>d
    <2> QED  BY <1>b, <1>c, <1>d, <2>1, <2>2, <2>3
  <1>4. DownInv' /\ ReadInv' /\ PublishInv' /\ PoppedInv' /\ CntInv'
    BY <1>3 DEF DownInv, ReadInv, PublishInv, Publishing, PoppedInv, CntInv
  <1>5. DmaExclusive' /\ NoFrameLost' /\ LenFits'
    BY <1>3 DEF DmaExclusive, NoFrameLost, LenFits
  <1>6. OnePlace'  BY <1>1, <1>2 DEF OnePlace
  <1> QED  BY <1>3, <1>4, <1>5, <1>6

LEMMA PoolStutter == ASSUME PoolInv, UNCHANGED poolVars PROVE PoolInv'
  <1> USE DEF poolVars, isrVars, taskVars, bufVars
  <1>1. \A f : InQueue(f)' <=> InQueue(f)  BY DEF InQueue
  <1>2. PoolTypeOK' /\ DownInv' /\ ReadInv' /\ CntInv' /\ LenFits'
    BY DEF PoolInv, PoolTypeOK, DownInv, ReadInv, CntInv, LenFits
  <1>3. PublishInv' /\ PoppedInv' /\ DmaExclusive' /\ NoFrameLost' /\ OnePlace'
    BY <1>1 DEF PoolInv, PublishInv, Publishing, PoppedInv, DmaExclusive,
               NoFrameLost, OnePlace
  <1> QED  BY <1>2, <1>3 DEF PoolInv

-----------------------------------------------------------------------------
(* The theorems. *)

LEMMA PoolInitInv == PoolInit => PoolInv
  <1> SUFFICES ASSUME PoolInit PROVE PoolInv
    OBVIOUS
  <1> USE FramePoolAssumption DEF PoolInit, Frames, NoFrame
  <1>1. PoolTypeOK  BY DEF PoolTypeOK, TaskPcs, QLen
  <1>2. DownInv /\ ReadInv /\ PublishInv /\ PoppedInv /\ CntInv
    BY DEF DownInv, ReadInv, PublishInv, Publishing, PoppedInv, CntInv
  <1>3. DmaExclusive /\ NoFrameLost /\ OnePlace /\ LenFits
    BY DEF DmaExclusive, NoFrameLost, OnePlace, LenFits, InQueue
  <1> QED  BY <1>1, <1>2, <1>3 DEF PoolInv

LEMMA PoolNextInv == PoolInv /\ [PoolNext]_poolVars => PoolInv'
  <1> SUFFICES ASSUME PoolInv, [PoolNext]_poolVars PROVE PoolInv'
    OBVIOUS
  <1>1. CASE ~ up /\ DriverInit  BY <1>1, DriverInitStep
  <1>2. CASE VsyncIsr  BY <1>2, VsyncIsrStep
  <1>3. CASE DmaIsr \/ IsrGoesOn
    BY <1>3, DmaIsrStep, SendEventStep, OverflowStopStep, OverflowIdleStep
    DEF IsrGoesOn
  <1>4. CASE CamTask
    BY <1>4, ReceiveEventStep, IgnoreEofStep, IdleVsyncStartStep,
       IdleVsyncNoneStep, SetReadStep, ReadEofStep, ReadVsyncStep,
       SendFrameStep, PopOldestStep, ResendFrameStep, GivePoppedStep,
       StartNextStep, StartNoneStep, ClearLenStep
    DEF CamTask
  <1>5. CASE CamTake  BY <1>5, CamTakeStep
  <1>6. ASSUME NEW f \in Frames, CamGive(f) PROVE PoolInv'
    BY <1>6, CamGiveStep
  <1>7. CASE UNCHANGED poolVars  BY <1>7, PoolStutter
  <1> QED  BY <1>1, <1>2, <1>3, <1>4, <1>5, <1>6, <1>7 DEF PoolNext, Driver

\* The inductive invariant holds in every reachable state.
THEOREM PoolInvariant == PoolSpec => []PoolInv
  <1> QED  BY PoolInitInv, PoolNextInv, PTL DEF PoolSpec

\* Every variable keeps its type; in particular the frame queue and the event
\* queue never outgrow the capacity they were created with.
THEOREM PoolTyped == PoolSpec => []PoolTypeOK
  <1>1. PoolInv => PoolTypeOK  BY DEF PoolInv
  <1> QED  BY <1>1, PoolInvariant, PTL

\* DMA never writes to a frame that is queued or in the application's hands.
THEOREM PoolDmaExclusive == PoolSpec => []DmaExclusive
  <1>1. PoolInv => DmaExclusive  BY DEF PoolInv
  <1> QED  BY <1>1, PoolInvariant, PTL

\* No frame buffer is in two places: queued twice, queued and held, or free
\* for DMA and handed out at once.
THEOREM PoolOnePlace == PoolSpec => []OnePlace
  <1>1. PoolInv => OnePlace  BY DEF PoolInv
  <1> QED  BY <1>1, PoolInvariant, PTL

\* No frame buffer is ever lost, and none is in two places.
THEOREM PoolNoFrameLost == PoolSpec => [](NoFrameLost /\ OnePlace)
  <1>1. PoolInv => NoFrameLost /\ OnePlace  BY DEF PoolInv
  <1> QED  BY <1>1, PoolInvariant, PTL

\* A frame is never published with more data than its buffer has room for.
THEOREM PoolLenFits == PoolSpec => []LenFits
  <1>1. PoolInv => LenFits  BY DEF PoolInv
  <1> QED  BY <1>1, PoolInvariant, PTL

\* What the application was handed is not changed under its hands.
THEOREM PoolHeldFrameStable == PoolSpec => HeldFrameStable
  <1>1. PoolInv /\ [PoolNext]_poolVars
        => [\A f \in held : len'[f] = len[f]]_poolVars
    <2> SUFFICES ASSUME PoolInv, PoolNext, NEW f \in held
                 PROVE  len'[f] = len[f]
      OBVIOUS
    <2> USE DEF PoolInv, PoolTypeOK
    <2>1. f \in Frames /\ ~ en[f]  BY DEF OnePlace
    <2>2. CASE ~ up /\ DriverInit  BY <2>2 DEF DownInv
    <2>3. CASE VsyncIsr \/ DmaIsr \/ IsrGoesOn
      BY <2>3 DEF VsyncIsr, DmaIsr, IsrGoesOn, SendEvent, OverflowStop,
                  OverflowIdle, bufVars
    <2>4. CASE SetRead \/ ClearLen
      <3>1. en[framePos]  BY <2>4 DEF SetRead, ClearLen, ReadInv
      <3> QED  BY <2>1, <2>4, <3>1 DEF SetRead, ClearLen
    <2>5. CASE ReadVsync
      <3>1. en[framePos]  BY <2>5 DEF ReadVsync, ReadInv
      <3> QED  BY <2>1, <2>5, <3>1 DEF ReadVsync
    <2>6. CASE CamTask /\ ~ (SetRead \/ ClearLen \/ ReadVsync)
      BY <2>6 DEF CamTask, ReceiveEvent, IgnoreEof, IdleVsyncStart,
         IdleVsyncNone, ReadEof, SendFrame, PopOldest, ResendFrame,
         GivePopped, StartNext, StartNone, bufVars
    <2>7. CASE CamTake \/ \E g \in Frames : CamGive(g)
      BY <2>7 DEF CamTake, CamGive
    <2> QED  BY <2>2, <2>3, <2>4, <2>5, <2>6, <2>7 DEF PoolNext, Driver, CamTask
  <1> QED  BY <1>1, PoolInvariant, PTL DEF PoolSpec, HeldFrameStable

-----------------------------------------------------------------------------
(* FramePool implements FrameOwner. *)

\* A step that moves no buffer and leaves the DMA alone.
LEMMA OwnerStutter ==
    ASSUME held' = held, \A f : InQueue(f)' <=> InQueue(f),
           dma' = dma, dma => framePos' = framePos
    PROVE  UNCHANGED FO!vars
  BY DEF FO!vars, Owner, Frames

\* A step that moves no buffer and stops the DMA.
LEMMA OwnerStop ==
    ASSUME held' = held, \A f : InQueue(f)' <=> InQueue(f), ~ dma'
    PROVE  FO!Next
  BY DEF FO!Next, FO!StopWrite, Owner, Frames

\* A step that starts the DMA on a free buffer.
LEMMA OwnerStart ==
    ASSUME PoolInv, held' = held, fbq' = fbq, NEW f \in Frames, CamStartFrame(f)
    PROVE  FO!Next
  <1>1. \A g : InQueue(g)' <=> InQueue(g)  BY DEF InQueue
  <1>2. Owner(f) = "driver"
    BY FreeFacts DEF CamStartFrame, NextFrame, Owner
  <1>3. FO!StartWrite(f)
    BY <1>1, <1>2 DEF FO!StartWrite, CamStartFrame, Owner, Frames
  <1> QED  BY <1>3 DEF FO!Next

\* A step that moves one buffer and leaves the DMA alone.
LEMMA OwnerHand ==
    ASSUME NEW f \in Frames, NEW a, NEW b, Owner(f) = a, Owner(f)' = b,
           \A g \in Frames : g # f => Owner(g)' = Owner(g),
           dma' = dma, framePos' = framePos
    PROVE  FO!Hand(f, a, b)
  BY DEF FO!Hand, Frames

\* The step of cam_task that publishes a frame.
LEMMA OwnerPublish ==
    ASSUME PoolInv, Publishing, Len(fbq) < QLen, fbq' = Append(fbq, framePos),
           held' = held, dma' = dma, framePos' = framePos
    PROVE  FO!Next
  <1> USE DEF PoolInv, PoolTypeOK
  <1>1. /\ framePos \in Frames /\ ~ InQueue(framePos)
        /\ framePos \notin held /\ ~ dma
    BY DEF PublishInv, DmaExclusive
  <1>2. \A f : InQueue(f)' <=> InQueue(f) \/ f = framePos
    BY <1>1, QueueAppend
  <1>3. Owner(framePos) = "driver" /\ Owner(framePos)' = "queue"
    BY <1>1, <1>2 DEF Owner
  <1>4. \A g \in Frames : g # framePos => Owner(g)' = Owner(g)
    BY <1>2 DEF Owner
  <1>5. FO!Hand(framePos, "driver", "queue")
    BY <1>1, <1>3, <1>4, OwnerHand
  <1>6. FO!Publish(framePos)  BY <1>1, <1>5 DEF FO!Publish
  <1> QED  BY <1>1, <1>6 DEF FO!Next

LEMMA PopOldestOwner ==
    ASSUME PoolInv, PopOldest, fbq # <<>> PROVE FO!Next
  <1> DEFINE h == Head(fbq)
  <1> USE DEF PopOldest, isrVars
  <1>1. /\ h \in Frames /\ InQueue(h) /\ h \notin held
        /\ \A f : f = h => ~ InQueue(f)'
        /\ \A f : InQueue(f) <=> f = h \/ InQueue(f)'
    BY QueueTail
  <1> HIDE DEF h
  <1>2. PICK f \in Frames : f = h  BY <1>1
  <1>3. Owner(f) = "queue" /\ Owner(f)' = "driver"  BY <1>1, <1>2 DEF Owner
  <1>4. \A g \in Frames : g # f => Owner(g)' = Owner(g)  BY <1>1, <1>2 DEF Owner
  <1>5. FO!Hand(f, "queue", "driver")  BY <1>3, <1>4, OwnerHand
  <1> QED  BY <1>5 DEF FO!Next

LEMMA CamTakeOwner ==
    ASSUME PoolInv, CamTake PROVE FO!Next
  <1> DEFINE h == Head(fbq)
  <1> USE DEF CamTake, isrVars, taskVars
  <1>1. /\ h \in Frames /\ InQueue(h) /\ h \notin held
        /\ \A f : f = h => ~ InQueue(f)'
        /\ \A f : InQueue(f) <=> f = h \/ InQueue(f)'
        /\ held' = held \cup {h}
    BY QueueTail
  <1> HIDE DEF h
  <1>2. PICK f \in Frames : f = h  BY <1>1
  <1>3. Owner(f) = "queue" /\ Owner(f)' = "app"  BY <1>1, <1>2 DEF Owner
  <1>4. \A g \in Frames : g # f => Owner(g)' = Owner(g)  BY <1>1, <1>2 DEF Owner
  <1>5. FO!Hand(f, "queue", "app")  BY <1>3, <1>4, OwnerHand
  <1> QED  BY <1>5 DEF FO!Next

LEMMA CamGiveOwner ==
    ASSUME PoolInv, NEW f \in Frames, CamGive(f) PROVE FO!Next
  <1> USE DEF CamGive, isrVars, taskVars
  <1>1. ~ InQueue(f) /\ f \in held  BY DEF PoolInv, OnePlace
  <1>2. \A g : InQueue(g)' <=> InQueue(g)  BY DEF InQueue
  <1>3. Owner(f) = "app" /\ Owner(f)' = "driver"  BY <1>1, <1>2 DEF Owner
  <1>4. \A g \in Frames : g # f => Owner(g)' = Owner(g)  BY <1>2 DEF Owner
  <1>5. FO!Hand(f, "app", "driver")  BY <1>3, <1>4, OwnerHand
  <1> QED  BY <1>5 DEF FO!Next

LEMMA OwnerStep ==
    PoolInv /\ [PoolNext]_poolVars => [FO!Next]_(FO!vars)
  <1> SUFFICES ASSUME PoolInv, [PoolNext]_poolVars PROVE [FO!Next]_(FO!vars)
    OBVIOUS
  <1> USE DEF isrVars, taskVars, bufVars
  <1>0. fbq' = fbq => \A f : InQueue(f)' <=> InQueue(f)  BY DEF InQueue
  <1>1. CASE ~ up /\ DriverInit
    <2>1. held' = held /\ fbq' = fbq /\ ~ dma'
      BY <1>1 DEF DriverInit, PoolInv, DownInv
    <2> QED  BY <1>0, <2>1, OwnerStop
  <1>2. CASE VsyncIsr \/ DmaIsr \/ IsrGoesOn
    <2>1. held' = held /\ fbq' = fbq /\ framePos' = framePos
          /\ (dma' = dma \/ ~ dma')
      BY <1>2 DEF VsyncIsr, DmaIsr, IsrGoesOn, SendEvent, OverflowStop, OverflowIdle
    <2> QED  BY <1>0, <2>1, OwnerStutter, OwnerStop
  <1>3. CASE IdleVsyncStart \/ StartNext
    BY <1>3, OwnerStart DEF IdleVsyncStart, StartNext
  <1>4. CASE ReadEof \/ ReadVsync
    <2>1. held' = held /\ fbq' = fbq /\ framePos' = framePos
      BY <1>4 DEF ReadEof, ReadVsync
    <2>2. dma' = dma \/ ~ dma'
      BY <1>4 DEF ReadEof, ReadVsync
    <2>3. CASE dma' = dma  BY <1>0, <2>1, <2>3, OwnerStutter
    <2>4. CASE ~ dma'  BY <1>0, <2>1, <2>4, OwnerStop
    <2> QED  BY <2>2, <2>3, <2>4
  <1>5. CASE \/ ReceiveEvent \/ IgnoreEof \/ IdleVsyncNone \/ SetRead
             \/ GivePopped \/ StartNone \/ ClearLen
    <2>1. held' = held /\ fbq' = fbq /\ framePos' = framePos /\ dma' = dma
      BY <1>5 DEF ReceiveEvent, IgnoreEof, IdleVsyncNone, SetRead,
                  GivePopped, StartNone, ClearLen
    <2> QED  BY <1>0, <2>1, OwnerStutter
  <1>6. CASE SendFrame \/ ResendFrame
    <2>1. held' = held /\ framePos' = framePos /\ dma' = dma /\ Publishing
      BY <1>6 DEF SendFrame, ResendFrame, Publishing
    <2>2. fbq' = fbq \/ (Len(fbq) < QLen /\ fbq' = Append(fbq, framePos))
      BY <1>6 DEF SendFrame, ResendFrame
    <2> QED  BY <1>0, <2>1, <2>2, OwnerStutter, OwnerPublish
  <1>7. CASE PopOldest
    <2>1. CASE fbq # <<>>  BY <1>7, <2>1, PopOldestOwner
    <2>2. CASE fbq = <<>>
      <3>1. held' = held /\ fbq' = fbq /\ framePos' = framePos /\ dma' = dma
        BY <1>7, <2>2 DEF PopOldest
      <3> QED  BY <1>0, <3>1, OwnerStutter
    <2> QED  BY <2>1, <2>2
  <1>8. CASE CamTake  BY <1>8, CamTakeOwner
  <1>9. ASSUME NEW f \in Frames, CamGive(f) PROVE FO!Next
    BY <1>9, CamGiveOwner
  <1>10. CASE UNCHANGED poolVars
    <2>1. held' = held /\ fbq' = fbq /\ framePos' = framePos /\ dma' = dma
      BY <1>10 DEF poolVars
    <2> QED  BY <1>0, <2>1, OwnerStutter
  <1> QED
    BY <1>1, <1>2, <1>3, <1>4, <1>5, <1>6, <1>7, <1>8, <1>9, <1>10
    DEF PoolNext, Driver, CamTask

\* The driver implements the ownership specification: seen through the map of
\* its queue, its DMA target and the application's frames to owners, every step
\* is a step of FrameOwner or changes nothing there.
THEOREM PoolRefinesFrameOwner == PoolSpec => FrameOwnerSpec
  <1>1. PoolInit => FO!Init
    BY DEF PoolInit, FO!Init, Owner, InQueue, Frames
  <1> QED  BY <1>1, OwnerStep, PoolInvariant, PTL DEF PoolSpec, FrameOwnerSpec, FO!Spec
=============================================================================
