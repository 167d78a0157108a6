------------------------------ MODULE FramePool ------------------------------
(***************************************************************************)
(* The frame buffers of the camera driver (cam_hal.c and the interrupt     *)
(* handlers of ll_cam.c, JPEG in PSRAM DMA mode as sdkconfig sets it) and  *)
(* the two calls the firmware makes on them: esp_camera_fb_get and         *)
(* esp_camera_fb_return.  Interrupt handlers, cam_task and the application *)
(* run on different cores and share the buffers without a lock.            *)
(***************************************************************************)
EXTENDS Integers, Sequences, FiniteSets

CONSTANTS
    NumFrames,  \* cam_obj->frame_cnt: camera_config_t.fb_count
    EvQLen,     \* capacity of event_queue: dma_half_buffer_cnt - 1
    CopyCnt,    \* cam_obj->frame_copy_cnt: half buffers in one frame buffer
    Faults      \* what the hardware may do wrong in this instance

\* overflow: the event queue fills up; oversize: the picture has more half
\* buffers than the frame buffer; badStart, noSoi, noEoi: damaged pictures;
\* timeout: no frame in time; initFail: esp_camera_init fails; stall: a send to
\* a connected client times out.
FaultKinds == {"overflow", "oversize", "badStart", "noSoi", "noEoi",
               "timeout", "initFail", "stall"}

ASSUME FramePoolAssumption ==
    /\ NumFrames \in Nat \ {0}
    /\ EvQLen \in Nat \ {0}
    /\ CopyCnt \in Nat \ {0}
    /\ Faults \subseteq FaultKinds

Frames == 0 .. NumFrames - 1
NoFrame == -1

VARIABLES
    up,        \* esp_camera_init succeeded: cam_task runs, VSYNC interrupt is on
    irq,       \* where the interrupt handlers are: they run one at a time
    ev,        \* event_queue
    evt,       \* the event cam_task has taken and not yet handled
    camPc,     \* where cam_task is
    camState,  \* cam_obj->state
    dma,       \* DMA is writing to frame buffer framePos
    framePos,  \* frame_pos of cam_task
    cnt,       \* cnt of cam_task: half buffers of the frame counted so far
    en,        \* frames[f].en: the driver may fill buffer f
    len,       \* frames[f].fb.len in half buffers
    fbq,       \* frame_buffer_queue, oldest first
    popped,    \* fb2 of cam_task
    held       \* buffers esp_camera_fb_get returned and nobody returned yet

isrVars == <<ev, camState, dma>>
taskVars == <<evt, camPc, framePos, cnt, popped>>
bufVars == <<en, len, fbq>>
poolVars == <<up, irq, isrVars, taskVars, bufVars, held>>

TaskPcs == {"wait", "dispatch", "setRead", "send", "pop", "resend", "give",
            "next", "clear"}

\* cam_config: GRAB_LATEST keeps one buffer out of the queue when it can.
QLen == IF NumFrames > 1 THEN NumFrames - 1 ELSE NumFrames

InQueue(f) == \E i \in DOMAIN fbq : fbq[i] = f

PoolInit ==
    /\ up = FALSE /\ irq = "none"
    /\ ev = <<>> /\ evt = "none"
    /\ camPc = "wait" /\ camState = "idle"
    /\ dma = FALSE /\ framePos = 0 /\ cnt = 0
    /\ en = [f \in Frames |-> FALSE]
    /\ len = [f \in Frames |-> 0]
    /\ fbq = <<>> /\ popped = NoFrame
    /\ held = {}

\* esp_camera_init up to cam_start: new buffers, new queues, a new cam_task.
\* The buffers the application holds are not looked at.
DriverInit ==
    /\ up' = TRUE /\ irq' = "none"
    /\ ev' = <<>> /\ evt' = "none"
    /\ camPc' = "wait" /\ camState' = "idle"
    /\ dma' = FALSE /\ framePos' = 0 /\ cnt' = 0
    /\ en' = [f \in Frames |-> TRUE]
    /\ len' = [f \in Frames |-> 0]
    /\ fbq' = <<>> /\ popped' = NoFrame
    /\ UNCHANGED held

-----------------------------------------------------------------------------
(* Interrupt handlers, on their own core.  A full event queue makes          *)
(* ll_cam_send_event stop the DMA and then force cam_task's state from under *)
(* it.                                                                       *)

VsyncIsr ==
    /\ up /\ irq = "none"
    /\ irq' = "vsync"
    /\ UNCHANGED <<up, isrVars, taskVars, bufVars, held>>

\* Half buffers counted and on their way to be counted.
Pending == cnt + Cardinality({i \in DOMAIN ev : ev[i] = "eof"})
               + (IF evt = "eof" THEN 1 ELSE 0)

\* The event is sent later: cam_task may have stopped the DMA by then.
DmaIsr ==
    /\ up /\ irq = "none" /\ dma
    /\ "oversize" \in Faults \/ Pending + 1 < CopyCnt
    /\ irq' = "eof"
    /\ UNCHANGED <<up, isrVars, taskVars, bufVars, held>>

SendEvent ==
    /\ irq \in {"vsync", "eof"}
    /\ \/ /\ Len(ev) < EvQLen
          /\ ev' = Append(ev, irq)
          /\ irq' = "none"
       \/ /\ Len(ev) = EvQLen /\ "overflow" \in Faults
          /\ irq' = "stop"
          /\ UNCHANGED ev
    /\ UNCHANGED <<up, camState, dma, taskVars, bufVars, held>>

OverflowStop ==
    /\ irq = "stop"
    /\ dma' = FALSE
    /\ irq' = "idle"
    /\ UNCHANGED <<up, ev, camState, taskVars, bufVars, held>>

OverflowIdle ==
    /\ irq = "idle"
    /\ camState' = "idle"
    /\ irq' = "none"
    /\ UNCHANGED <<up, ev, dma, taskVars, bufVars, held>>

IsrGoesOn == SendEvent \/ OverflowStop \/ OverflowIdle

-----------------------------------------------------------------------------
(* cam_task. *)

ReceiveEvent ==
    /\ camPc = "wait" /\ ev # <<>>
    /\ evt' = Head(ev) /\ ev' = Tail(ev)
    /\ camPc' = "dispatch"
    /\ UNCHANGED <<up, irq, camState, dma, framePos, cnt, popped, bufVars, held>>

\* Mutant: the current buffer is reused without a look at en.
NextFrameUnchecked(f) ==
    f = framePos

\* cam_get_next_frame: the current buffer if it is free, else the first free one.
NextFrame(f) ==
    /\ en[f]
    /\ f # framePos => /\ ~ en[framePos]
                       /\ \A g \in Frames : en[g] => f <= g

\* cam_start_frame with ll_cam_start.
CamStartFrame(f) ==
    /\ NextFrame(f)
    /\ framePos' = f
    /\ dma' = TRUE

NoneFree == \A f \in Frames : ~ en[f]

IgnoreEof ==
    /\ camPc = "dispatch" /\ camState = "idle" /\ evt = "eof"
    /\ camPc' = "wait" /\ evt' = "none"
    /\ UNCHANGED <<up, irq, isrVars, framePos, cnt, popped, bufVars, held>>

IdleVsyncStart ==
    /\ camPc = "dispatch" /\ camState = "idle" /\ evt = "vsync"
    /\ \E f \in Frames : CamStartFrame(f)
    /\ camPc' = "setRead" /\ evt' = "none"
    /\ UNCHANGED <<up, irq, ev, camState, cnt, popped, bufVars, held>>

IdleVsyncNone ==
    /\ camPc = "dispatch" /\ camState = "idle" /\ evt = "vsync"
    /\ NoneFree
    /\ cnt' = 0
    /\ camPc' = "wait" /\ evt' = "none"
    /\ UNCHANGED <<up, irq, isrVars, framePos, popped, bufVars, held>>

\* The state is set after DMA was started: an interrupt fits in between.
SetRead ==
    /\ camPc = "setRead"
    /\ len' = [len EXCEPT ![framePos] = 0]
    /\ camState' = "read"
    /\ cnt' = 0
    /\ camPc' = "wait"
    /\ UNCHANGED <<up, irq, ev, evt, dma, framePos, popped, en, fbq, held>>

\* Mutant: one half buffer too many.
CopyOverflowLate == cnt + 1 > CopyCnt

\* The half buffer just counted would leave no room for the closing one.
CopyOverflow == cnt + 1 >= CopyCnt

ReadEof ==
    /\ camPc = "dispatch" /\ camState = "read" /\ evt = "eof"
    /\ camPc' = "wait" /\ evt' = "none"
    /\ \/ /\ ~ CopyOverflow
          /\ cnt' = cnt + 1
          /\ UNCHANGED <<dma, camState>>
       \/ /\ CopyOverflow \/ (cnt = 0 /\ "badStart" \in Faults)
          /\ dma' = FALSE
          /\ camState' = "idle"
          /\ UNCHANGED cnt
    /\ UNCHANGED <<up, irq, ev, framePos, popped, bufVars, held>>

\* Mutant: the buffer stays marked free when it is published.
ReadVsyncKeepsEn ==
    /\ camPc = "dispatch" /\ camState = "read" /\ evt = "vsync"
    /\ dma' = FALSE
    /\ cnt' = cnt + 1
    /\ len' = [len EXCEPT ![framePos] = cnt + 1]
    /\ camPc' = "send" /\ evt' = "none"
    /\ UNCHANGED <<up, irq, ev, camState, framePos, popped, en, fbq, held>>

\* Mutant: DMA goes on while the buffer is published.
ReadVsyncKeepsDma ==
    /\ camPc = "dispatch" /\ camState = "read" /\ evt = "vsync"
    /\ cnt' = cnt + 1
    /\ en' = [en EXCEPT ![framePos] = FALSE]
    /\ len' = [len EXCEPT ![framePos] = cnt + 1]
    /\ camPc' = "send" /\ evt' = "none"
    /\ UNCHANGED <<up, irq, ev, camState, dma, framePos, popped, fbq, held>>

\* End of frame: stop the DMA, take the buffer out of the free ones.
ReadVsync ==
    /\ camPc = "dispatch" /\ camState = "read" /\ evt = "vsync"
    /\ dma' = FALSE
    /\ cnt' = cnt + 1
    /\ en' = [en EXCEPT ![framePos] = FALSE]
    /\ len' = [len EXCEPT ![framePos] = cnt + 1]
    /\ camPc' = "send" /\ evt' = "none"
    /\ UNCHANGED <<up, irq, ev, camState, framePos, popped, fbq, held>>

SendFrame ==
    /\ camPc = "send"
    /\ IF Len(fbq) < QLen
       THEN fbq' = Append(fbq, framePos) /\ camPc' = "next"
       ELSE camPc' = "pop" /\ UNCHANGED fbq
    /\ UNCHANGED <<up, irq, isrVars, evt, framePos, cnt, popped, en, len, held>>

\* Mutant: the oldest frame is looked at and stays in the queue.
PopOldestPeek ==
    /\ camPc = "pop"
    /\ fbq # <<>>
    /\ popped' = Head(fbq)
    /\ camPc' = "resend"
    /\ UNCHANGED <<up, irq, isrVars, evt, framePos, cnt, en, len, fbq, held>>

\* The queue was full: drop the oldest frame, unless the application was faster.
PopOldest ==
    /\ camPc = "pop"
    /\ IF fbq # <<>>
       THEN /\ popped' = Head(fbq) /\ fbq' = Tail(fbq)
            /\ camPc' = "resend"
            /\ UNCHANGED en
       ELSE /\ en' = [en EXCEPT ![framePos] = TRUE]
            /\ camPc' = "next"
            /\ UNCHANGED <<popped, fbq>>
    /\ UNCHANGED <<up, irq, isrVars, evt, framePos, cnt, len, held>>

ResendFrame ==
    /\ camPc = "resend"
    /\ IF Len(fbq) < QLen
       THEN fbq' = Append(fbq, framePos) /\ UNCHANGED en
       ELSE en' = [en EXCEPT ![framePos] = TRUE] /\ UNCHANGED fbq
    /\ camPc' = "give"
    /\ UNCHANGED <<up, irq, isrVars, evt, framePos, cnt, popped, len, held>>

\* Mutant: the dropped frame is not given back.
GivePoppedLost ==
    /\ camPc = "give"
    /\ popped' = NoFrame
    /\ camPc' = "next"
    /\ UNCHANGED <<up, irq, isrVars, evt, framePos, cnt, en, len, fbq, held>>

GivePopped ==
    /\ camPc = "give"
    /\ en' = [en EXCEPT ![popped] = TRUE]
    /\ popped' = NoFrame
    /\ camPc' = "next"
    /\ UNCHANGED <<up, irq, isrVars, evt, framePos, cnt, len, fbq, held>>

StartNext ==
    /\ camPc = "next"
    /\ \E f \in Frames : CamStartFrame(f)
    /\ camPc' = "clear"
    /\ UNCHANGED <<up, irq, ev, camState, evt, cnt, popped, bufVars, held>>

StartNone ==
    /\ camPc = "next" /\ NoneFree
    /\ camState' = "idle"
    /\ cnt' = 0
    /\ camPc' = "wait"
    /\ UNCHANGED <<up, irq, ev, dma, evt, framePos, popped, bufVars, held>>

ClearLen ==
    /\ camPc = "clear"
    /\ len' = [len EXCEPT ![framePos] = 0]
    /\ cnt' = 0
    /\ camPc' = "wait"
    /\ UNCHANGED <<up, irq, isrVars, evt, framePos, popped, en, fbq, held>>

CamTask ==
    \/ ReceiveEvent
    \/ IgnoreEof \/ IdleVsyncStart \/ IdleVsyncNone \/ SetRead
    \/ ReadEof \/ ReadVsync
    \/ SendFrame \/ PopOldest \/ ResendFrame \/ GivePopped
    \/ StartNext \/ StartNone \/ ClearLen

-----------------------------------------------------------------------------
(* The application's side. *)

\* cam_take: the oldest queued frame.
CamTake ==
    /\ up /\ fbq # <<>>
    /\ held' = held \cup {Head(fbq)}
    /\ fbq' = Tail(fbq)
    /\ UNCHANGED <<up, irq, isrVars, taskVars, en, len>>

\* cam_give, also on the path of cam_take that throws a frame without end
\* marker away.
CamGive(f) ==
    /\ f \in held
    /\ en' = [en EXCEPT ![f] = TRUE]
    /\ held' = held \ {f}
    /\ UNCHANGED <<up, irq, isrVars, taskVars, len, fbq>>

Driver == VsyncIsr \/ DmaIsr \/ IsrGoesOn \/ CamTask

PoolNext ==
    \/ ~ up /\ DriverInit
    \/ Driver
    \/ CamTake
    \/ \E f \in Frames : CamGive(f)

PoolSpec == PoolInit /\ [][PoolNext]_poolVars

-----------------------------------------------------------------------------
(* Properties. *)

\* The type of every variable.
PoolTypeOK ==
    /\ up \in BOOLEAN /\ dma \in BOOLEAN
    /\ irq \in {"none", "vsync", "eof", "stop", "idle"}
    /\ ev \in Seq({"vsync", "eof"}) /\ Len(ev) <= EvQLen
    /\ evt \in {"none", "vsync", "eof"}
    /\ camPc \in TaskPcs /\ camState \in {"idle", "read"}
    /\ framePos \in Frames
    /\ cnt \in Nat
    /\ en \in [Frames -> BOOLEAN]
    /\ len \in [Frames -> Nat]
    /\ fbq \in Seq(Frames) /\ Len(fbq) <= QLen
    /\ popped \in Frames \cup {NoFrame}
    /\ held \subseteq Frames

Publishing == camPc \in {"send", "pop", "resend"}

\* DMA never writes to a buffer that is queued, in the application's hands or
\* on its way between them: cam_task clears en before it publishes and DMA is
\* started only on a buffer whose en is set, whatever the interrupts do to
\* state and DMA in between.
DmaExclusive ==
    dma => /\ en[framePos]
           /\ framePos \notin held
           /\ ~ InQueue(framePos)

\* No buffer is lost: one the driver may not fill is queued, held by the
\* application, or one of the two cam_task is about to queue or give back.
NoFrameLost ==
    up => \A f \in Frames :
             \/ en[f]
             \/ InQueue(f)
             \/ f \in held
             \/ Publishing /\ f = framePos
             \/ f = popped

\* A buffer has one place: never twice in the queue, never queued and held,
\* never free while queued or held.
OnePlace ==
    /\ \A i, j \in DOMAIN fbq : fbq[i] = fbq[j] => i = j
    /\ \A f \in held : ~ InQueue(f) /\ ~ en[f]
    /\ \A i \in DOMAIN fbq : ~ en[fbq[i]]

\* The length a frame is published with never exceeds its buffer, with stale
\* DMA events of an earlier frame counted in.
LenFits == \A f \in Frames : len[f] <= CopyCnt

\* While the application holds a frame, neither cam_task nor an interrupt
\* changes it: its length stays what it was when it was taken.
HeldFrameStable ==
    [][\A f \in held : len'[f] = len[f]]_poolVars

\* The driver's buffers behave as the ownership specification says.
Owner(f) == IF f \in held THEN "app"
            ELSE IF InQueue(f) THEN "queue" ELSE "driver"

FO == INSTANCE FrameOwner WITH
         owner <- [f \in Frames |-> Owner(f)],
         writing <- IF dma THEN {framePos} ELSE {}

FrameOwnerSpec == FO!Spec
=============================================================================
