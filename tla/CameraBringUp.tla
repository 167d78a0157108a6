--------------------------- MODULE CameraBringUp ---------------------------
(***************************************************************************)
(* esp_camera_init, call by call, on the path camera_ov2640.c takes: what  *)
(* it holds after each step, what can fail, and what is given back then.   *)
(* VideoStream sees it as one step that succeeds or fails; here a failed   *)
(* bring-up is cleaned up and may be tried again.                          *)
(***************************************************************************)
EXTENDS Naturals, Sequences

CONSTANTS
    FbCount,     \* fb_count
    MaxFaults,   \* bound on the calls that fail
    LateFaults   \* {"remove", "task"}: failures the code does not look at

ASSUME BringUpAssumption ==
    FbCount \in Nat \ {0} /\ MaxFaults \in Nat /\ LateFaults \subseteq {"remove", "task"}

VARIABLES
    pc,      \* the next step; "down" and "up" between calls
    held,    \* what the driver has allocated
    bufs,    \* the frames x with a frames[x].fb.buf
    descs,   \* the frames x with a frames[x].dma
    slots,   \* SCCB devices: whether the handle of each entry is live
    vsync,   \* the VSYNC interrupt is enabled
    faults   \* calls that may still fail

bringUpVars == <<pc, held, bufs, descs, slots, vsync, faults>>

FrameNos == 1..FbCount

\* What cam_obj points to.
CamParts ==
    {"dmaChannel", "frames", "eventQueue", "frameQueue", "dmaIntr", "vsyncIntr", "task"}

BringUpInit ==
    /\ pc = "down" /\ held = {} /\ bufs = {} /\ descs = {} /\ slots = <<>>
    /\ vsync = FALSE /\ faults = MaxFaults

\* A call fails.
Breaks == faults > 0 /\ faults' = faults - 1

\* A call that can fail: the step after it, or p.
Try(at, next, p) ==
    /\ pc = at
    /\ \/ pc' = next /\ UNCHANGED faults
       \/ pc' = p /\ Breaks

\* A call that allocates r.
Allocate(at, r, next, p) ==
    /\ Try(at, next, p)
    /\ held' = IF pc' = next THEN held \union {r} ELSE held

Pools == <<bufs, descs, slots, vsync>>

-----------------------------------------------------------------------------
(* Cleaning up *)

\* Mutant: the interrupts stay allocated.
CamDeinitKeepsIntr ==
    IF "obj" \in held
    THEN /\ held' = held \ ((CamParts \ {"dmaIntr", "vsyncIntr"}) \union {"obj"})
         /\ bufs' = {} /\ descs' = {} /\ vsync' = FALSE
    ELSE UNCHANGED <<held, bufs, descs, vsync>>

\* cam_deinit: nothing without a cam_obj; else it goes with every part it has.
CamDeinit ==
    IF "obj" \in held
    THEN held' = held \ (CamParts \union {"obj"}) /\ bufs' = {} /\ descs' = {} /\ vsync' = FALSE
    ELSE UNCHANGED <<held, bufs, descs, vsync>>

\* ll_cam_dma_init and cam_config clean up by themselves.
CleanCam ==
    /\ pc \in {"noDma", "noConfig"}
    /\ CamDeinit
    /\ pc' = IF pc = "noDma" THEN "down" ELSE "fail"
    /\ UNCHANGED <<slots, faults>>

\* esp_camera_deinit at the end of a failed esp_camera_init: cam_deinit, ...
Fail ==
    /\ pc = "fail"
    /\ CamDeinit
    /\ pc' = IF "state" \in held THEN "sccb" ELSE "down"
    /\ UNCHANGED <<slots, faults>>

\* Mutant: the bus is not deleted.
SccbDeinitKeepsBus ==
    /\ pc = "sccb"
    /\ slots' = <<>>
    /\ held' = held \ {"state"}
    /\ pc' = "down"
    /\ UNCHANGED <<bufs, descs, vsync, faults>>

\* ... SCCB_Deinit, which removes the devices and deletes the bus, and the
\* state is freed.
SccbDeinit ==
    /\ pc = "sccb" /\ \A k \in DOMAIN slots : slots[k]
    /\ slots' = <<>>
    /\ held' = held \ {"bus", "state"}
    /\ pc' = "down"
    /\ UNCHANGED <<bufs, descs, vsync, faults>>

\* SCCB_Deinit stops at the first device that cannot be removed, entry n: the
\* ones before it have lost their handles, for good, and the bus stays.
SccbDeinitStops ==
    /\ pc = "sccb"
    /\ \E n \in DOMAIN slots :
         /\ IF slots[n] THEN "remove" \in LateFaults /\ Breaks ELSE UNCHANGED faults
         /\ \A k \in 1..n - 1 : slots[k]
         /\ slots' = [k \in DOMAIN slots |-> k >= n /\ slots[k]]
    /\ held' = held \ {"state"}
    /\ pc' = "down"
    /\ UNCHANGED <<bufs, descs, vsync>>

-----------------------------------------------------------------------------
(* esp_camera_init *)

\* camera_init_with_params is called.
Call == pc = "down" /\ pc' = "obj" /\ UNCHANGED <<held, Pools, faults>>

(* cam_init *)
CamInit == Allocate("obj", "obj", "dma", "down") /\ UNCHANGED Pools
DmaInit == Allocate("dma", "dmaChannel", "state", "noDma") /\ UNCHANGED Pools

(* camera_probe *)

\* A state left over is an error.
State ==
    /\ IF "state" \in held THEN pc = "state" /\ pc' = "fail" /\ UNCHANGED <<held, faults>>
       ELSE Allocate("state", "state", "bus", "fail")
    /\ UNCHANGED Pools

\* i2c_new_master_bus refuses a port that has a bus.
SccbInit ==
    /\ IF "bus" \in held THEN pc = "bus" /\ pc' = "fail" /\ UNCHANGED <<held, faults>>
       ELSE Allocate("bus", "bus", "probe", "fail")
    /\ UNCHANGED Pools

\* Two models have the address of this sensor, so it is probed twice if its
\* identifier is not read the first time.  Each answer enters a device.
Probes == 2
Probe ==
    /\ pc = "probe"
    /\ \/ \* the sensor is found
          slots' = Append(slots, TRUE) /\ pc' = "reset" /\ UNCHANGED faults
       \/ \* it answers but is not recognised
          /\ Breaks /\ slots' = Append(slots, TRUE)
          /\ pc' = IF Len(slots') < Probes THEN "probe" ELSE "fail"
       \/ \* it does not answer
          Breaks /\ pc' = "fail" /\ UNCHANGED slots
    /\ UNCHANGED <<held, bufs, descs, vsync>>

\* Mutant: a reset that fails is returned without cleaning up.
ResetReturns == Try("reset", "frames", "down") /\ UNCHANGED <<held, Pools>>

Reset == Try("reset", "frames", "fail") /\ UNCHANGED <<held, Pools>>

(* cam_config *)
Frames == Allocate("frames", "frames", "buf", "noConfig") /\ UNCHANGED Pools

\* The lowest frame that has no descriptors is next.
NextFrame(x) == x \in FrameNos \ descs /\ \A y \in FrameNos \ descs : x <= y

FrameBuf ==
    /\ Try("buf", "desc", "noConfig")
    /\ \E x \in FrameNos :
         /\ NextFrame(x)
         /\ bufs' = IF pc' = "desc" THEN bufs \union {x} ELSE bufs
    /\ UNCHANGED <<held, descs, slots, vsync>>

\* Mutant: the loop ends one frame early.
FrameDescsShort ==
    /\ \E x \in FrameNos :
         /\ NextFrame(x)
         /\ Try("desc", IF x >= FbCount - 1 THEN "eventq" ELSE "buf", "noConfig")
         /\ descs' = IF pc' = "noConfig" THEN descs ELSE descs \union {x}
    /\ UNCHANGED <<held, bufs, slots, vsync>>

FrameDescs ==
    /\ \E x \in FrameNos :
         /\ NextFrame(x)
         /\ Try("desc", IF descs \union {x} = FrameNos THEN "eventq" ELSE "buf", "noConfig")
         /\ descs' = IF pc' = "noConfig" THEN descs ELSE descs \union {x}
    /\ UNCHANGED <<held, bufs, slots, vsync>>

EventQueue == Allocate("eventq", "eventQueue", "frameq", "noConfig") /\ UNCHANGED Pools
FrameQueue == Allocate("frameq", "frameQueue", "dmaintr", "noConfig") /\ UNCHANGED Pools
DmaIntr == Allocate("dmaintr", "dmaIntr", "vsyncintr", "noConfig") /\ UNCHANGED Pools
VsyncIntr == Allocate("vsyncintr", "vsyncIntr", "task", "noConfig") /\ UNCHANGED Pools

\* The result of xTaskCreatePinnedToCore is not looked at.
CreateTask ==
    /\ pc = "task" /\ pc' = "framesize"
    /\ \E ok \in (IF "task" \in LateFaults THEN BOOLEAN ELSE {TRUE}) :
         /\ held' = IF ok THEN held \union {"task"} ELSE held
         /\ ok \/ Breaks
         /\ ok => UNCHANGED faults
    /\ UNCHANGED Pools

\* set_framesize; the other settings of the sensor cannot fail the call.
SetFramesize == Try("framesize", "start", "fail") /\ UNCHANGED <<held, Pools>>

CamStart ==
    /\ pc = "start" /\ pc' = "up"
    /\ vsync' = TRUE
    /\ UNCHANGED <<held, bufs, descs, slots, faults>>

\* The camera stays up: the firmware never stops it.
Up == pc = "up" /\ UNCHANGED bringUpVars

CameraProbe == State \/ SccbInit \/ Probe \/ Reset
CamConfig ==
    \/ Frames \/ FrameBuf \/ FrameDescs \/ EventQueue \/ FrameQueue
    \/ DmaIntr \/ VsyncIntr \/ CreateTask
EspCameraInit ==
    CamInit \/ DmaInit \/ CameraProbe \/ CamConfig \/ SetFramesize \/ CamStart
EspCameraDeinit == CleanCam \/ Fail \/ SccbDeinit \/ SccbDeinitStops

BringUpNext == Call \/ EspCameraInit \/ EspCameraDeinit \/ Up

BringUpSpec == BringUpInit /\ [][BringUpNext]_bringUpVars

\* A caller that does not give up, and calls that return.
BringUpLiveSpec == BringUpSpec /\ WF_bringUpVars(BringUpNext)

-----------------------------------------------------------------------------
(* Properties *)

BringUpTypeOK ==
    /\ pc \in {"down", "obj", "dma", "state", "bus", "probe", "reset", "frames", "buf", "desc",
               "eventq", "frameq", "dmaintr", "vsyncintr", "task", "framesize", "start", "up",
               "noDma", "noConfig", "fail", "sccb"}
    /\ held \subseteq CamParts \union {"obj", "state", "bus"}
    /\ bufs \subseteq FrameNos /\ descs \subseteq bufs
    /\ slots \in Seq(BOOLEAN) /\ Len(slots) <= Probes
    /\ vsync \in BOOLEAN /\ faults \in 0..MaxFaults

\* Wherever a bring-up fails, nothing stays allocated, so that the next one
\* starts from scratch; only a device that the I2C driver does not remove
\* keeps its bus (the fail and err labels of esp_camera_init, camera_probe,
\* cam_init and cam_config, SCCB_Deinit).
NothingLeft ==
    pc = "down" =>
        /\ held \subseteq {"bus"} /\ bufs = {} /\ descs = {} /\ ~vsync
        /\ "bus" \in held <=> slots # <<>>
        /\ slots # <<>> => "remove" \in LateFaults

\* What each step allocates; the I2C driver itself refuses a second bus.
Acquires == [obj |-> "obj", dma |-> "dmaChannel", state |-> "state",
             frames |-> "frames", eventq |-> "eventQueue", frameq |-> "frameQueue",
             dmaintr |-> "dmaIntr", vsyncintr |-> "vsyncIntr", task |-> "task"]

\* No handle is overwritten while it is live: a retry would lose what the
\* failed attempt had (the same lines).
NoHandleLost == pc \in DOMAIN Acquires => Acquires[pc] \notin held

\* A camera that is up has everything the interrupt handlers and cam_task
\* use, and no interrupt is enabled before (esp_camera_init, cam_start).
UpIsComplete ==
    /\ vsync => pc = "up"
    /\ pc = "up" /\ "task" \notin LateFaults =>
         /\ held = CamParts \union {"obj", "state", "bus"}
         /\ bufs = FrameNos /\ descs = FrameNos /\ slots # <<>>

\* When calls stop failing, a retry brings the camera up, unless the removal
\* of one device failed after that of another: that bus is never deleted
\* (SCCB_Deinit, SCCB_Init).
HandleGone == \E k \in DOMAIN slots : ~slots[k]
ComesUp == <>(pc = "up" \/ HandleGone)

=============================================================================
