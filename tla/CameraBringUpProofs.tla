------------------------- MODULE CameraBringUpProofs -------------------------
(***************************************************************************)
(* Proofs about CameraBringUp for any number of frame buffers and of       *)
(* failing calls: whatever fails, everything is given back, and a retry    *)
(* overwrites nothing.                                                     *)
(***************************************************************************)
EXTENDS CameraBringUp, SequenceTheorems, TLAPS

-----------------------------------------------------------------------------
(* The inductive invariant. *)

\* What is held where step p starts, the bus and the task aside.
Got(p) ==
    CASE p \in {"down", "obj"} -> {}
      [] p \in {"dma", "noDma"} -> {"obj"}
      [] p = "state" -> {"obj", "dmaChannel"}
      [] p \in {"bus", "probe", "reset", "frames"} -> {"obj", "dmaChannel", "state"}
      [] p \in {"buf", "desc", "eventq"} -> {"obj", "dmaChannel", "state", "frames"}
      [] p = "frameq" -> {"obj", "dmaChannel", "state", "frames", "eventQueue"}
      [] p = "dmaintr" -> {"obj", "dmaChannel", "state", "frames", "eventQueue", "frameQueue"}
      [] p = "vsyncintr" ->
            {"obj", "dmaChannel", "state", "frames", "eventQueue", "frameQueue", "dmaIntr"}
      [] p \in {"task", "framesize", "start", "up"} ->
            {"obj", "state"} \union (CamParts \ {"task"})
      [] p = "sccb" -> {"state"}

HeldInv ==
    /\ pc \notin {"fail", "noConfig"} => held \ {"bus", "task"} = Got(pc)
    /\ "task" \in held => pc \in {"framesize", "start", "up", "fail"}
    /\ pc \in {"framesize", "start", "up"} /\ "task" \notin LateFaults => "task" \in held
    /\ pc = "noConfig" => {"obj", "state"} \subseteq held
    /\ pc = "fail" /\ "obj" \notin held =>
          held \subseteq {"state", "bus"} /\ bufs = {} /\ descs = {}

\* Frames get their buffer and their descriptors one after the other.
FrameInv ==
    /\ pc \in {"down", "obj", "dma", "noDma", "state", "bus", "probe", "reset", "frames", "sccb"} =>
          bufs = {} /\ descs = {}
    /\ pc = "buf" => bufs = descs /\ descs # FrameNos
    /\ pc = "desc" => \E x \in FrameNos : NextFrame(x) /\ bufs = descs \union {x}
    /\ pc \in {"eventq", "frameq", "dmaintr", "vsyncintr", "task", "framesize", "start", "up"} =>
          descs = FrameNos
    /\ vsync <=> pc = "up"

\* The bus outlives a bring-up only with a device that was not removed.
Leftover ==
    /\ "bus" \in held <=> slots # <<>>
    /\ slots # <<>> => "remove" \in LateFaults

SlotInv ==
    /\ slots # <<>> => "bus" \in held
    /\ HandleGone => "remove" \in LateFaults
    /\ pc \in {"down", "obj", "dma", "noDma", "state", "bus"} => Leftover
    /\ pc = "fail" /\ "state" \notin held => Leftover
    /\ pc = "probe" => "bus" \in held /\ Len(slots) < Probes
    /\ pc \in {"reset", "frames", "buf", "desc", "eventq", "frameq", "dmaintr", "vsyncintr",
               "task", "framesize", "start", "up", "noConfig"} => slots # <<>>

BringUpInv == BringUpTypeOK /\ HeldInv /\ FrameInv /\ SlotInv

-----------------------------------------------------------------------------
(* Every step keeps the invariant. *)

\* There is a first frame.
LEMMA SomeFrame == 1 \in FrameNos /\ FrameNos # {}
  BY BringUpAssumption DEF FrameNos

LEMMA InvInit == BringUpInit => BringUpInv
  <1> SUFFICES ASSUME BringUpInit PROVE BringUpInv
    OBVIOUS
  <1> USE DEF BringUpInit
  <1>0. <<>> \in Seq(BOOLEAN) /\ Len(<<>>) = 0
    OBVIOUS
  <1>1. BringUpTypeOK
    <2>1. slots \in Seq(BOOLEAN) /\ Len(slots) <= Probes
      BY <1>0 DEF Probes
    <2>2. held \subseteq CamParts \union {"obj", "state", "bus"} /\ bufs \subseteq FrameNos /\ descs \subseteq bufs
      OBVIOUS
    <2>3. faults \in 0..MaxFaults
      BY BringUpAssumption
    <2> QED  BY <2>1, <2>2, <2>3, Zenon DEF BringUpTypeOK, BringUpInit
  <1>2. HeldInv
    BY DEF HeldInv, Got
  <1>3. FrameInv
    BY DEF FrameInv
  <1>4. SlotInv
    BY DEF SlotInv, Leftover, HandleGone
  <1> QED  BY <1>1, <1>2, <1>3, <1>4 DEF BringUpInv

LEMMA FaultCount == BringUpTypeOK /\ Breaks => faults' \in 0..MaxFaults
  BY BringUpAssumption DEF BringUpTypeOK, Breaks

LEMMA CallInv == BringUpInv /\ Call => BringUpInv'
  <1> SUFFICES ASSUME BringUpInv, Call PROVE BringUpInv'
    OBVIOUS
  <1> USE DEF BringUpInv, BringUpTypeOK, Call, Allocate, Try, Pools
  <1>1. BringUpTypeOK'
    BY FaultCount DEF CamParts
  <1>2. HeldInv'
    BY DEF HeldInv, Got, CamParts
  <1>3. FrameInv'
    BY BringUpAssumption DEF FrameInv, FrameNos, NextFrame
  <1>4. SlotInv'
    BY DEF SlotInv, Leftover, HandleGone, HeldInv, Got, CamParts, Probes
  <1> QED  BY <1>1, <1>2, <1>3, <1>4

LEMMA CamInitInv == BringUpInv /\ CamInit => BringUpInv'
  <1> SUFFICES ASSUME BringUpInv, CamInit PROVE BringUpInv'
    OBVIOUS
  <1> USE DEF BringUpInv, BringUpTypeOK, CamInit, Allocate, Try, Pools
  <1>1. BringUpTypeOK'
    BY FaultCount DEF CamParts
  <1>2. HeldInv'
    BY DEF HeldInv, Got, CamParts
  <1>3. FrameInv'
    BY BringUpAssumption DEF FrameInv, FrameNos, NextFrame
  <1>4. SlotInv'
    BY DEF SlotInv, Leftover, HandleGone, HeldInv, Got, CamParts, Probes
  <1> QED  BY <1>1, <1>2, <1>3, <1>4

LEMMA DmaInitInv == BringUpInv /\ DmaInit => BringUpInv'
  <1> SUFFICES ASSUME BringUpInv, DmaInit PROVE BringUpInv'
    OBVIOUS
  <1> USE DEF BringUpInv, BringUpTypeOK, DmaInit, Allocate, Try, Pools
  <1>1. BringUpTypeOK'
    BY FaultCount DEF CamParts
  <1>2. HeldInv'
    BY DEF HeldInv, Got, CamParts
  <1>3. FrameInv'
    BY BringUpAssumption DEF FrameInv, FrameNos, NextFrame
  <1>4. SlotInv'
    BY DEF SlotInv, Leftover, HandleGone, HeldInv, Got, CamParts, Probes
  <1> QED  BY <1>1, <1>2, <1>3, <1>4

LEMMA StateInv == BringUpInv /\ State => BringUpInv'
  <1> SUFFICES ASSUME BringUpInv, State PROVE BringUpInv'
    OBVIOUS
  <1> USE DEF BringUpInv, BringUpTypeOK, State, Allocate, Try, Pools
  <1>1. BringUpTypeOK'
    BY FaultCount DEF CamParts
  <1>2. HeldInv'
    BY DEF HeldInv, Got, CamParts
  <1>3. FrameInv'
    BY BringUpAssumption DEF FrameInv, FrameNos, NextFrame
  <1>4. SlotInv'
    BY DEF SlotInv, Leftover, HandleGone, HeldInv, Got, CamParts, Probes
  <1> QED  BY <1>1, <1>2, <1>3, <1>4

LEMMA SccbInitInv == BringUpInv /\ SccbInit => BringUpInv'
  <1> SUFFICES ASSUME BringUpInv, SccbInit PROVE BringUpInv'
    OBVIOUS
  <1> USE DEF BringUpInv, BringUpTypeOK, SccbInit, Allocate, Try, Pools
  <1>1. BringUpTypeOK'
    BY FaultCount DEF CamParts
  <1>2. HeldInv'
    BY DEF HeldInv, Got, CamParts
  <1>3. FrameInv'
    BY BringUpAssumption DEF FrameInv, FrameNos, NextFrame
  <1>4. SlotInv'
    BY DEF SlotInv, Leftover, HandleGone, HeldInv, Got, CamParts, Probes
  <1> QED  BY <1>1, <1>2, <1>3, <1>4

LEMMA ResetInv == BringUpInv /\ Reset => BringUpInv'
  <1> SUFFICES ASSUME BringUpInv, Reset PROVE BringUpInv'
    OBVIOUS
  <1> USE DEF BringUpInv, BringUpTypeOK, Reset, Allocate, Try, Pools
  <1>1. BringUpTypeOK'
    BY FaultCount DEF CamParts
  <1>2. HeldInv'
    BY DEF HeldInv, Got, CamParts
  <1>3. FrameInv'
    BY BringUpAssumption DEF FrameInv, FrameNos, NextFrame
  <1>4. SlotInv'
    BY DEF SlotInv, Leftover, HandleGone, HeldInv, Got, CamParts, Probes
  <1> QED  BY <1>1, <1>2, <1>3, <1>4

LEMMA FramesInv == BringUpInv /\ Frames => BringUpInv'
  <1> SUFFICES ASSUME BringUpInv, Frames PROVE BringUpInv'
    OBVIOUS
  <1> USE DEF BringUpInv, BringUpTypeOK, Frames, Allocate, Try, Pools
  <1>1. BringUpTypeOK'
    BY FaultCount DEF CamParts
  <1>2. HeldInv'
    BY DEF HeldInv, Got, CamParts
  <1>3. FrameInv'
    BY SomeFrame DEF FrameInv
  <1>4. SlotInv'
    BY DEF SlotInv, Leftover, HandleGone, HeldInv, Got, CamParts, Probes
  <1> QED  BY <1>1, <1>2, <1>3, <1>4

LEMMA EventQueueInv == BringUpInv /\ EventQueue => BringUpInv'
  <1> SUFFICES ASSUME BringUpInv, EventQueue PROVE BringUpInv'
    OBVIOUS
  <1> USE DEF BringUpInv, BringUpTypeOK, EventQueue, Allocate, Try, Pools
  <1>1. BringUpTypeOK'
    BY FaultCount DEF CamParts
  <1>2. HeldInv'
    BY DEF HeldInv, Got, CamParts
  <1>3. FrameInv'
    BY BringUpAssumption DEF FrameInv, FrameNos, NextFrame
  <1>4. SlotInv'
    BY DEF SlotInv, Leftover, HandleGone, HeldInv, Got, CamParts, Probes
  <1> QED  BY <1>1, <1>2, <1>3, <1>4

LEMMA FrameQueueInv == BringUpInv /\ FrameQueue => BringUpInv'
  <1> SUFFICES ASSUME BringUpInv, FrameQueue PROVE BringUpInv'
    OBVIOUS
  <1> USE DEF BringUpInv, BringUpTypeOK, FrameQueue, Allocate, Try, Pools
  <1>1. BringUpTypeOK'
    BY FaultCount DEF CamParts
  <1>2. HeldInv'
    BY DEF HeldInv, Got, CamParts
  <1>3. FrameInv'
    BY BringUpAssumption DEF FrameInv, FrameNos, NextFrame
  <1>4. SlotInv'
    BY DEF SlotInv, Leftover, HandleGone, HeldInv, Got, CamParts, Probes
  <1> QED  BY <1>1, <1>2, <1>3, <1>4

LEMMA DmaIntrInv == BringUpInv /\ DmaIntr => BringUpInv'
  <1> SUFFICES ASSUME BringUpInv, DmaIntr PROVE BringUpInv'
    OBVIOUS
  <1> USE DEF BringUpInv, BringUpTypeOK, DmaIntr, Allocate, Try, Pools
  <1>1. BringUpTypeOK'
    BY FaultCount DEF CamParts
  <1>2. HeldInv'
    BY DEF HeldInv, Got, CamParts
  <1>3. FrameInv'
    BY BringUpAssumption DEF FrameInv, FrameNos, NextFrame
  <1>4. SlotInv'
    BY DEF SlotInv, Leftover, HandleGone, HeldInv, Got, CamParts, Probes
  <1> QED  BY <1>1, <1>2, <1>3, <1>4

LEMMA VsyncIntrInv == BringUpInv /\ VsyncIntr => BringUpInv'
  <1> SUFFICES ASSUME BringUpInv, VsyncIntr PROVE BringUpInv'
    OBVIOUS
  <1> USE DEF BringUpInv, BringUpTypeOK, VsyncIntr, Allocate, Try, Pools
  <1>1. BringUpTypeOK'
    BY FaultCount DEF CamParts
  <1>2. HeldInv'
    BY DEF HeldInv, Got, CamParts
  <1>3. FrameInv'
    BY BringUpAssumption DEF FrameInv, FrameNos, NextFrame
  <1>4. SlotInv'
    BY DEF SlotInv, Leftover, HandleGone, HeldInv, Got, CamParts, Probes
  <1> QED  BY <1>1, <1>2, <1>3, <1>4

LEMMA CreateTaskInv == BringUpInv /\ CreateTask => BringUpInv'
  <1> SUFFICES ASSUME BringUpInv, CreateTask PROVE BringUpInv'
    OBVIOUS
  <1> USE DEF BringUpInv, BringUpTypeOK, CreateTask, Allocate, Try, Pools
  <1>1. BringUpTypeOK'
    BY FaultCount DEF CamParts
  <1>2. HeldInv'
    BY DEF HeldInv, Got, CamParts
  <1>3. FrameInv'
    BY BringUpAssumption DEF FrameInv, FrameNos, NextFrame
  <1>4. SlotInv'
    BY DEF SlotInv, Leftover, HandleGone, HeldInv, Got, CamParts, Probes
  <1> QED  BY <1>1, <1>2, <1>3, <1>4

LEMMA SetFramesizeInv == BringUpInv /\ SetFramesize => BringUpInv'
  <1> SUFFICES ASSUME BringUpInv, SetFramesize PROVE BringUpInv'
    OBVIOUS
  <1> USE DEF BringUpInv, BringUpTypeOK, SetFramesize, Allocate, Try, Pools
  <1>1. BringUpTypeOK'
    BY FaultCount DEF CamParts
  <1>2. HeldInv'
    BY DEF HeldInv, Got, CamParts
  <1>3. FrameInv'
    BY BringUpAssumption DEF FrameInv, FrameNos, NextFrame
  <1>4. SlotInv'
    BY DEF SlotInv, Leftover, HandleGone, HeldInv, Got, CamParts, Probes
  <1> QED  BY <1>1, <1>2, <1>3, <1>4

LEMMA CamStartInv == BringUpInv /\ CamStart => BringUpInv'
  <1> SUFFICES ASSUME BringUpInv, CamStart PROVE BringUpInv'
    OBVIOUS
  <1> USE DEF BringUpInv, BringUpTypeOK, CamStart, Allocate, Try, Pools
  <1>1. BringUpTypeOK'
    BY FaultCount DEF CamParts
  <1>2. HeldInv'
    BY DEF HeldInv, Got, CamParts
  <1>3. FrameInv'
    BY BringUpAssumption DEF FrameInv, FrameNos, NextFrame
  <1>4. SlotInv'
    BY DEF SlotInv, Leftover, HandleGone, HeldInv, Got, CamParts, Probes
  <1> QED  BY <1>1, <1>2, <1>3, <1>4

\* Appending a device.
LEMMA AppendFacts ==
    ASSUME NEW q \in Seq(BOOLEAN), NEW e \in BOOLEAN
    PROVE  /\ Append(q, e) \in Seq(BOOLEAN)
           /\ Len(Append(q, e)) = Len(q) + 1
           /\ Append(q, e) # <<>>
           /\ Append(q, e)[Len(q) + 1] = e
           /\ \A k \in DOMAIN q : Append(q, e)[k] = q[k]
           /\ \A k \in DOMAIN Append(q, e) : k = Len(q) + 1 \/ k \in DOMAIN q
  OBVIOUS

LEMMA ProbeInv == BringUpInv /\ Probe => BringUpInv'
  <1> SUFFICES ASSUME BringUpInv, Probe PROVE BringUpInv'
    OBVIOUS
  <1> USE DEF BringUpInv, BringUpTypeOK, Probe
  <1> DEFINE longer == Append(slots, TRUE)
  <1>a. slots \in Seq(BOOLEAN) /\ Len(slots) \in Nat /\ Len(slots) < Probes
    BY DEF SlotInv
  <1>b. /\ longer \in Seq(BOOLEAN) /\ Len(longer) = Len(slots) + 1 /\ longer # <<>>
        /\ longer[Len(slots) + 1] = TRUE
        /\ \A k \in DOMAIN slots : longer[k] = slots[k]
        /\ \A k \in DOMAIN longer : k = Len(slots) + 1 \/ k \in DOMAIN slots
    BY <1>a, AppendFacts
  <1>0. /\ longer \in Seq(BOOLEAN) /\ Len(longer) = Len(slots) + 1 /\ longer # <<>>
        /\ Len(slots) \in Nat /\ Len(slots) < Probes
        /\ (\E k \in DOMAIN longer : ~longer[k]) => HandleGone
    <2>1. ASSUME NEW k \in DOMAIN longer, ~longer[k] PROVE HandleGone
      <3>1. k # Len(slots) + 1
        BY <1>b, <2>1
      <3>2. k \in DOMAIN slots /\ ~slots[k]
        BY <1>b, <2>1, <3>1
      <3> QED  BY <3>2 DEF HandleGone
    <2> QED  BY <1>a, <1>b, <2>1
  <1> HIDE DEF longer
  <1>1. slots' = slots \/ slots' = longer
    BY DEF longer
  <1>2. BringUpTypeOK'
    <2>1. slots' \in Seq(BOOLEAN) /\ Len(slots') <= Probes
      BY <1>0, <1>1 DEF Probes
    <2>2. pc' \in {"reset", "probe", "fail"} /\ faults' \in 0..MaxFaults
      BY FaultCount
    <2>3. UNCHANGED <<held, bufs, descs, vsync>>
      OBVIOUS
    <2> QED  BY <2>1, <2>2, <2>3, Zenon
  <1>3. HeldInv'
    BY DEF HeldInv, Got, CamParts
  <1>4. FrameInv'
    BY DEF FrameInv
  <1>5. SlotInv'
    <2>1. pc' = "reset" => slots' # <<>>
      BY <1>0 DEF longer
    <2>2. pc' = "probe" => Len(slots') < Probes
      OBVIOUS
    <2>3. HandleGone' => HandleGone
      BY <1>0, <1>1 DEF HandleGone
    <2>4. "bus" \in held' /\ "state" \in held'
      BY DEF SlotInv, HeldInv, Got
    <2> QED  BY <2>1, <2>2, <2>3, <2>4 DEF SlotInv
  <1> QED  BY <1>2, <1>3, <1>4, <1>5

LEMMA FrameBufInv == BringUpInv /\ FrameBuf => BringUpInv'
  <1> SUFFICES ASSUME BringUpInv, FrameBuf PROVE BringUpInv'
    OBVIOUS
  <1> USE DEF BringUpInv, BringUpTypeOK, FrameBuf, Try
  <1>1. BringUpTypeOK'
    BY FaultCount DEF CamParts
  <1>2. HeldInv'
    BY DEF HeldInv, Got, CamParts
  <1>3. FrameInv'
    BY DEF FrameInv, NextFrame
  <1>4. SlotInv'
    BY DEF SlotInv, Leftover, HandleGone
  <1> QED  BY <1>1, <1>2, <1>3, <1>4

LEMMA FrameDescsInv == BringUpInv /\ FrameDescs => BringUpInv'
  <1> SUFFICES ASSUME BringUpInv, FrameDescs PROVE BringUpInv'
    OBVIOUS
  <1> USE DEF BringUpInv, BringUpTypeOK, FrameDescs, Try
  <1>0. PICK x \in FrameNos : NextFrame(x) /\ bufs = descs \union {x}
    BY DEF FrameInv
  <1>1. \A y \in FrameNos : NextFrame(y) => y = x
    BY <1>0, BringUpAssumption DEF NextFrame, FrameNos
  <1>2. descs' = descs \/ descs' = bufs
    BY <1>0, <1>1
  <1>3. BringUpTypeOK'
    BY <1>2, FaultCount DEF CamParts
  <1>4. HeldInv'
    BY DEF HeldInv, Got, CamParts
  <1>5. FrameInv'
    BY <1>0, <1>1 DEF FrameInv
  <1>6. SlotInv'
    BY DEF SlotInv, Leftover, HandleGone
  <1> QED  BY <1>3, <1>4, <1>5, <1>6

\* cam_deinit leaves no part, whoever calls it.
LEMMA CamDeinitFacts ==
    BringUpInv /\ pc \in {"noDma", "noConfig", "fail"} /\ CamDeinit =>
        /\ held' = held \ (CamParts \union {"obj"})
        /\ bufs' = {} /\ descs' = {} /\ vsync' = FALSE
  BY DEF CamDeinit, BringUpInv, HeldInv, FrameInv, Got, CamParts

LEMMA CleanCamInv == BringUpInv /\ CleanCam => BringUpInv'
  <1> SUFFICES ASSUME BringUpInv, CleanCam PROVE BringUpInv'
    OBVIOUS
  <1> USE CamDeinitFacts DEF BringUpInv, BringUpTypeOK, CleanCam
  <1>1. BringUpTypeOK'
    BY DEF CamParts
  <1>2. HeldInv'
    BY DEF HeldInv, Got, CamParts
  <1>3. FrameInv'
    BY DEF FrameInv
  <1>4. SlotInv'
    BY DEF SlotInv, Leftover, HandleGone, HeldInv, CamParts
  <1> QED  BY <1>1, <1>2, <1>3, <1>4

LEMMA FailInv == BringUpInv /\ Fail => BringUpInv'
  <1> SUFFICES ASSUME BringUpInv, Fail PROVE BringUpInv'
    OBVIOUS
  <1> USE CamDeinitFacts DEF BringUpInv, BringUpTypeOK, Fail
  <1>1. BringUpTypeOK'
    BY DEF CamParts
  <1>2. HeldInv'
    BY DEF HeldInv, Got, CamParts
  <1>3. FrameInv'
    BY DEF FrameInv
  <1>4. SlotInv'
    BY DEF SlotInv, Leftover, HandleGone, CamParts
  <1> QED  BY <1>1, <1>2, <1>3, <1>4

LEMMA SccbDeinitInv == BringUpInv /\ SccbDeinit => BringUpInv'
  <1> SUFFICES ASSUME BringUpInv, SccbDeinit PROVE BringUpInv'
    OBVIOUS
  <1> USE DEF BringUpInv, BringUpTypeOK, SccbDeinit
  <1>1. BringUpTypeOK'
    BY EmptySeq DEF Probes
  <1>2. HeldInv'
    BY DEF HeldInv, Got
  <1>3. FrameInv'
    BY DEF FrameInv
  <1>4. SlotInv'
    BY DEF SlotInv, Leftover, HandleGone
  <1> QED  BY <1>1, <1>2, <1>3, <1>4

LEMMA SccbDeinitStopsInv == BringUpInv /\ SccbDeinitStops => BringUpInv'
  <1> SUFFICES ASSUME BringUpInv, SccbDeinitStops PROVE BringUpInv'
    OBVIOUS
  <1> USE DEF BringUpInv, BringUpTypeOK, SccbDeinitStops
  <1>1. PICK n \in DOMAIN slots :
          /\ IF slots[n] THEN "remove" \in LateFaults /\ Breaks ELSE UNCHANGED faults
          /\ slots' = [k \in DOMAIN slots |-> k >= n /\ slots[k]]
    OBVIOUS
  <1>2. /\ Len(slots) \in Nat /\ DOMAIN slots = 1..Len(slots)
        /\ slots # <<>> /\ "bus" \in held /\ "remove" \in LateFaults
    BY <1>1, LenProperties DEF SlotInv, HandleGone
  <1>3. slots' \in Seq(BOOLEAN) /\ Len(slots') = Len(slots) /\ slots' # <<>>
    BY <1>1, <1>2
  <1>4. BringUpTypeOK'
    BY <1>1, <1>3, FaultCount DEF CamParts
  <1>5. HeldInv'
    BY DEF HeldInv, Got
  <1>6. FrameInv'
    BY DEF FrameInv
  <1>7. SlotInv'
    BY <1>2, <1>3 DEF SlotInv, Leftover
  <1> QED  BY <1>4, <1>5, <1>6, <1>7

-----------------------------------------------------------------------------
(* The theorems. *)

LEMMA InvNext == BringUpInv /\ [BringUpNext]_bringUpVars => BringUpInv'
  <1> SUFFICES ASSUME BringUpInv, [BringUpNext]_bringUpVars PROVE BringUpInv'
    OBVIOUS
  <1>1. CASE Call  BY <1>1, CallInv
  <1>2. CASE CamInit \/ DmaInit  BY <1>2, CamInitInv, DmaInitInv
  <1>3. CASE CameraProbe
    BY <1>3, StateInv, SccbInitInv, ProbeInv, ResetInv DEF CameraProbe
  <1>4. CASE CamConfig
    BY <1>4, FramesInv, FrameBufInv, FrameDescsInv, EventQueueInv, FrameQueueInv,
       DmaIntrInv, VsyncIntrInv, CreateTaskInv DEF CamConfig
  <1>5. CASE SetFramesize \/ CamStart  BY <1>5, SetFramesizeInv, CamStartInv
  <1>6. CASE EspCameraDeinit
    BY <1>6, CleanCamInv, FailInv, SccbDeinitInv, SccbDeinitStopsInv DEF EspCameraDeinit
  <1>7. CASE Up \/ UNCHANGED bringUpVars
    BY <1>7 DEF Up, bringUpVars, BringUpInv, BringUpTypeOK, HeldInv, FrameInv, NextFrame, SlotInv,
                Leftover, HandleGone
  <1> QED  BY <1>1, <1>2, <1>3, <1>4, <1>5, <1>6, <1>7 DEF BringUpNext, EspCameraInit

\* What esp_camera_init holds at each of its steps, whatever failed before.
THEOREM BringUpInvariant == BringUpSpec => []BringUpInv
  BY InvInit, InvNext, PTL DEF BringUpSpec

\* The types of the driver's state: every frame with descriptors has a buffer,
\* and the device table holds what one probe enters.
THEOREM BringUpTyped == BringUpSpec => []BringUpTypeOK
  <1>1. BringUpInv => BringUpTypeOK
    BY DEF BringUpInv
  <1> QED  BY <1>1, BringUpInvariant, PTL

\* A failed bring-up leaves nothing allocated, except the bus of a device the
\* I2C driver did not remove.
THEOREM BringUpNothingLeft == BringUpSpec => []NothingLeft
  <1>1. BringUpInv => NothingLeft
    BY DEF BringUpInv, BringUpTypeOK, HeldInv, FrameInv, SlotInv, Leftover, Got, NothingLeft, CamParts
  <1> QED  BY <1>1, BringUpInvariant, PTL

\* No step of a retry overwrites the handle of something still allocated.
THEOREM BringUpNoHandleLost == BringUpSpec => []NoHandleLost
  <1>1. BringUpInv => NoHandleLost
    BY DEF BringUpInv, HeldInv, Got, NoHandleLost, Acquires, CamParts
  <1> QED  BY <1>1, BringUpInvariant, PTL

\* A camera that is up has all its parts, and interrupts are enabled only then.
THEOREM BringUpComplete == BringUpSpec => []UpIsComplete
  <1>1. BringUpInv => UpIsComplete
    BY DEF BringUpInv, BringUpTypeOK, HeldInv, FrameInv, SlotInv, Got, UpIsComplete, CamParts
  <1> QED  BY <1>1, BringUpInvariant, PTL

=============================================================================
