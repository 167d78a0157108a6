-------------------------- MODULE VideoStreamProofs --------------------------
(***************************************************************************)
(* Proofs about VideoStream for any number of clients, frame buffers and   *)
(* faults: the handlers keep the driver's contract, so that everything     *)
(* proved about FramePool holds in the firmware, and no frame leaks.       *)
(***************************************************************************)
EXTENDS VideoStream, FramePoolProofs

-----------------------------------------------------------------------------
(* The inductive invariant. *)

\* The types of the application's variables.
AppTypeOK ==
    /\ boot \in {"http", "reset", "ready"}
    /\ mainStarted \in BOOLEAN /\ srvStarted \in BOOLEAN /\ active \in BOOLEAN
    /\ conn \in [Clients -> {"none", "open", "gone"}]
    /\ req \in [Clients -> Uris \cup {"none"}]
    /\ cur \in Clients \cup {NoClient}
    /\ hpc \in HttpPcs
    /\ warm \in 0 .. Warmups

HasFrame == {"noEoi", "noSoi", "got", "give", "break"}

\* The handler holds a frame exactly at the places where fb is in scope.
FbInv ==
    /\ held = {fb} \ {NoFrame}
    /\ fb # NoFrame <=> hpc \in HasFrame

\* Between esp_camera_init and the assignment of camera_server.c's flag lies
\* nothing but the warm-up, and esp_camera_init is reached only before both.
InitInv ==
    /\ active <=> up
    /\ srvStarted => up
    /\ up /\ ~ srvStarted => warm < Warmups
    /\ warm < Warmups => /\ up /\ ~ srvStarted
                         /\ hpc \in {"capture", "noEoi", "noSoi", "got", "null"}
    /\ hpc = "driver" => ~ srvStarted

\* A handler serves one client's request, once the server was started.
CurInv ==
    /\ boot = "http" => hpc = "off"
    /\ hpc \in {"off", "select"} <=> cur = NoClient
    /\ cur # NoClient => req[cur] \in Uris

VideoInv == AppTypeOK /\ FbInv /\ InitInv /\ CurInv

-----------------------------------------------------------------------------
(* Every step of the firmware is a step of the driver, or none. *)

\* What the driver does on its own: the application's variables do not change.
LEMMA DriverKeepsHeld == ASSUME Driver PROVE UNCHANGED <<up, held>>
  BY DEF Driver, VsyncIsr, DmaIsr, IsrGoesOn, SendEvent, OverflowStop,
         OverflowIdle, CamTask, ReceiveEvent, IgnoreEof,
         IdleVsyncStart, IdleVsyncNone, SetRead, ReadEof, ReadVsync, SendFrame,
         PopOldest, ResendFrame, GivePopped, StartNext, StartNone, ClearLen

\* esp_camera_fb_return is called with a frame the driver handed out.
LEMMA ReturnFbFacts ==
    ASSUME PoolInv, VideoInv, ReturnFb
    PROVE  /\ fb \in Frames /\ CamGive(fb)
           /\ held = {fb} /\ held' = {} /\ fb' = NoFrame /\ up' = up
           /\ UNCHANGED <<boot, camVars, netVars, cur, warm>>
  BY DEF PoolInv, PoolTypeOK, VideoInv, FbInv, ReturnFb, CamGive

\* A frame cam_take returns is a frame, and the only one.
LEMMA CaptureFacts ==
    ASSUME PoolInv, VideoInv, NEW found, CaptureFrame(found)
    PROVE  /\ fb' \in Frames /\ held' = {fb'} /\ fb' # NoFrame /\ up' = up
  <1>1. Head(fbq) \in Frames
    BY TailFacts DEF CaptureFrame, CamTake, PoolInv, PoolTypeOK
  <1>2. held = {}
    BY DEF VideoInv, FbInv, CaptureFrame, HttpStep, HasFrame
  <1>3. Head(fbq) # NoFrame
    BY <1>1, FramePoolAssumption DEF Frames, NoFrame
  <1> QED  BY <1>1, <1>2, <1>3 DEF CaptureFrame, CamTake

\* esp_camera_init is called at most once: never with a driver that is up.
LEMMA DriverOkOnce == VideoInv /\ DriverOk => ~ up
  BY DEF VideoInv, InitInv, DriverOk, HttpStep

\* The steps that do not touch the driver.
AppOnly ==
    \/ StartHttp \/ ResetFlag
    \/ \E c \in Clients :
          \/ \E u \in Uris : Request(c, u)
          \/ Disconnect(c) \/ Serve(c) \/ CloseSession(c)
    \/ ServerInit \/ DriverFail \/ Mark \/ Reply
    \/ CaptureNothing \/ WarmNext
    \/ StreamRetry \/ SendOk \/ SendFail \/ Finish

\* The steps that return a frame.
Returning == ThrowBack \/ WarmReturn \/ FrameSent \/ StreamBreak

LEMMA AppOnlyFacts == ASSUME AppOnly PROVE UNCHANGED <<poolVars, fb>>
  BY DEF AppOnly, StartHttp, ResetFlag, Request, Disconnect, Serve,
         CloseSession, ServerInit, DriverFail, Mark, Reply, CaptureNothing,
         WarmNext, StreamRetry, SendOk, SendFail, Finish

LEMMA ReturningFacts == ASSUME Returning PROVE ReturnFb
  BY DEF Returning, ThrowBack, WarmReturn, FrameSent, StreamBreak

LEMMA NextCases ==
    ASSUME Next
    PROVE  AppOnly \/ Returning \/ DriverOk \/ DriverStep \/ \E r \in {"got", "noEoi", "noSoi"} : CaptureFrame(r)
  BY DEF Next, Handler, Capture, AppOnly, Returning

LEMMA PoolStep == PoolInv /\ VideoInv /\ [Next]_vars => [PoolNext]_poolVars
  <1> SUFFICES ASSUME PoolInv, VideoInv, Next PROVE PoolNext \/ UNCHANGED poolVars
    BY DEF vars
  <1>1. CASE AppOnly  BY <1>1, AppOnlyFacts
  <1>2. CASE Returning
    BY <1>2, ReturningFacts, ReturnFbFacts DEF PoolNext
  <1>3. CASE DriverOk  BY <1>3, DriverOkOnce DEF PoolNext, DriverOk
  <1>4. CASE DriverStep  BY <1>4 DEF DriverStep, PoolNext
  <1>5. ASSUME NEW r, CaptureFrame(r) PROVE PoolNext
    BY <1>5 DEF CaptureFrame, PoolNext
  <1> QED  BY <1>1, <1>2, <1>3, <1>4, <1>5, NextCases

-----------------------------------------------------------------------------
(* Every step keeps the invariant. *)

LEMMA AppTypeStep == AppTypeOK /\ VideoInv /\ [Next]_vars => AppTypeOK'
  <1> SUFFICES ASSUME VideoInv, AppTypeOK, [Next]_vars PROVE AppTypeOK'
    OBVIOUS
  <1> USE DEF AppTypeOK, HttpStep, HttpPcs, Uris, camVars, netVars, Warmups
  <1>1. CASE StartHttp \/ ResetFlag  BY <1>1 DEF StartHttp, ResetFlag
  <1>2. ASSUME NEW c \in Clients, NEW u \in Uris, Request(c, u) PROVE AppTypeOK'
    BY <1>2 DEF Request
  <1>3. ASSUME NEW c \in Clients, Disconnect(c) \/ CloseSession(c) PROVE AppTypeOK'
    BY <1>3 DEF Disconnect, CloseSession
  <1>4. ASSUME NEW c \in Clients, Serve(c) PROVE AppTypeOK'
    BY <1>4 DEF Serve, Serving
  <1>5. CASE ServerInit \/ DriverFail \/ CaptureNothing \/ StreamRetry
             \/ SendOk \/ SendFail
    BY <1>5 DEF ServerInit, DriverFail, CaptureNothing, StreamRetry, SendOk, SendFail
  <1>6. CASE DriverOk  BY <1>6 DEF DriverOk
  <1>7. CASE Mark  BY <1>7 DEF Mark, Serving
  <1>8. CASE Reply  BY <1>8 DEF Reply
  <1>9. CASE Finish
    <2>1. conn' \in [Clients -> {"none", "open", "gone"}]
          /\ req' \in [Clients -> Uris \cup {"none"}]
      BY <1>9 DEF Finish
    <2> QED  BY <1>9, <2>1 DEF Finish
  <1>10. CASE Returning
    BY <1>10 DEF Returning, ThrowBack, WarmReturn, FrameSent, StreamBreak, ReturnFb
  <1>11. CASE WarmNext
    <2>1. warm' \in 0 .. Warmups  BY <1>11 DEF WarmNext
    <2> QED  BY <1>11, <2>1 DEF WarmNext
  <1>12. ASSUME NEW r \in {"got", "noEoi", "noSoi"}, CaptureFrame(r) PROVE AppTypeOK'
    BY <1>12 DEF CaptureFrame
  <1>13. CASE DriverStep  BY <1>13 DEF DriverStep, appVars
  <1>14. CASE UNCHANGED vars  BY <1>14 DEF vars, appVars
  <1> QED
    BY <1>1, <1>2, <1>3, <1>4, <1>5, <1>6, <1>7, <1>8, <1>9, <1>10, <1>11,
       <1>12, <1>13, <1>14, NextCases DEF AppOnly

LEMMA FbStep == PoolInv /\ VideoInv /\ [Next]_vars => FbInv'
  <1> SUFFICES ASSUME PoolInv, VideoInv, [Next]_vars PROVE FbInv'
    OBVIOUS
  <1> USE DEF VideoInv, FbInv, HasFrame, HttpStep
  <1>1. CASE AppOnly
    <2>1. held' = held /\ fb' = fb  BY <1>1, AppOnlyFacts DEF poolVars
    <2>2. hpc' \in HasFrame <=> hpc \in HasFrame
      <3>1. CASE StartHttp  BY <3>1 DEF StartHttp, CurInv
      <3>2. CASE ServerInit \/ DriverFail \/ Mark \/ Reply \/ CaptureNothing
        BY <3>2 DEF ServerInit, DriverFail, Mark, Reply, CaptureNothing, Serving
      <3>3. CASE WarmNext  BY <3>3 DEF WarmNext
      <3>4. CASE SendOk \/ SendFail \/ StreamRetry \/ Finish
        BY <3>4 DEF SendOk, SendFail, StreamRetry, Finish
      <3>5. ASSUME NEW c \in Clients, Serve(c) PROVE hpc' \in HasFrame <=> hpc \in HasFrame
        BY <3>5 DEF Serve, Serving
      <3>6. ASSUME NEW c \in Clients,
                   Disconnect(c) \/ CloseSession(c) \/ \E u \in Uris : Request(c, u)
            PROVE  hpc' = hpc
        BY <3>6 DEF Disconnect, CloseSession, Request
      <3>7. CASE ResetFlag  BY <3>7 DEF ResetFlag
      <3> QED  BY <1>1, <3>1, <3>2, <3>3, <3>4, <3>5, <3>6, <3>7 DEF AppOnly
    <2> QED  BY <2>1, <2>2
  <1>2. CASE Returning
    <2>1. held' = {} /\ fb' = NoFrame  BY <1>2, ReturningFacts, ReturnFbFacts
    <2>2. hpc' \notin HasFrame
      BY <1>2 DEF Returning, ThrowBack, WarmReturn, FrameSent, StreamBreak
    <2> QED  BY <2>1, <2>2
  <1>3. CASE DriverOk  BY <1>3 DEF DriverOk, DriverInit
  <1>4. CASE DriverStep  BY <1>4, DriverKeepsHeld DEF DriverStep, appVars
  <1>5. ASSUME NEW r \in {"got", "noEoi", "noSoi"}, CaptureFrame(r) PROVE FbInv'
    <2>1. hpc' \in HasFrame  BY <1>5 DEF CaptureFrame
    <2> QED  BY <1>5, <2>1, CaptureFacts
  <1>6. CASE UNCHANGED vars  BY <1>6 DEF vars, appVars, poolVars
  <1> QED  BY <1>1, <1>2, <1>3, <1>4, <1>5, <1>6, NextCases

LEMMA InitStep == PoolInv /\ VideoInv /\ [Next]_vars => InitInv'
  <1> SUFFICES ASSUME PoolInv, VideoInv, [Next]_vars PROVE InitInv'
    OBVIOUS
  <1> USE DEF VideoInv, AppTypeOK, InitInv, HttpStep, camVars, netVars, Warmups
  <1>1. CASE AppOnly
    <2>1. up' = up  BY <1>1, AppOnlyFacts DEF poolVars
    <2>2. CASE WarmNext
      <3>1. active' = active /\ ~ srvStarted /\ up  BY <2>2 DEF WarmNext
      <3>2. CASE warm' = Warmups
        <4>1. hpc' = "mark" /\ srvStarted'  BY <2>2, <3>2 DEF WarmNext
        <4>2. ~ (warm' < Warmups)  BY <3>2
        <4> QED  BY <2>1, <3>1, <4>1, <4>2
      <3>3. CASE warm' # Warmups
        <4>1. hpc' = "capture" /\ srvStarted' = srvStarted  BY <2>2, <3>3 DEF WarmNext
        <4>2. warm' < Warmups  BY <2>2, <3>3 DEF WarmNext
        <4> QED  BY <2>1, <3>1, <4>1, <4>2
      <3> QED  BY <3>2, <3>3
    <2>3. CASE StartHttp
      <3>1. hpc = "off"  BY <2>3 DEF StartHttp, CurInv
      <3> QED  BY <2>1, <2>3, <3>1 DEF StartHttp
    <2>4. CASE ServerInit  BY <2>1, <2>4 DEF ServerInit
    <2>5. CASE CaptureNothing  BY <2>1, <2>5 DEF CaptureNothing
    <2>6. CASE AppOnly /\ ~ (WarmNext \/ StartHttp \/ ServerInit \/ CaptureNothing)
      BY <2>1, <2>6 DEF AppOnly, ResetFlag, Request, Disconnect, Serve,
         CloseSession, DriverFail, Mark, Reply, StreamRetry, SendOk, SendFail,
         Finish, Serving
    <2> QED  BY <1>1, <2>2, <2>3, <2>4, <2>5, <2>6
  <1>2. CASE Returning
    <2>1. up' = up /\ UNCHANGED <<camVars, warm>>
      BY <1>2, ReturningFacts, ReturnFbFacts
    <2> QED
      BY <1>2, <2>1 DEF Returning, ThrowBack, WarmReturn, FrameSent, StreamBreak
  <1>3. CASE DriverOk  BY <1>3 DEF DriverOk, DriverInit
  <1>4. CASE DriverStep  BY <1>4, DriverKeepsHeld DEF DriverStep, appVars
  <1>5. ASSUME NEW r \in {"got", "noEoi", "noSoi"}, CaptureFrame(r) PROVE InitInv'
    BY <1>5, CaptureFacts DEF CaptureFrame
  <1>6. CASE UNCHANGED vars  BY <1>6 DEF vars, appVars, poolVars
  <1> QED  BY <1>1, <1>2, <1>3, <1>4, <1>5, <1>6, NextCases
LEMMA CurStep == PoolInv /\ VideoInv /\ [Next]_vars => CurInv'
  <1> SUFFICES ASSUME PoolInv, VideoInv, [Next]_vars PROVE CurInv'
    OBVIOUS
  <1> USE VideoStreamAssumption
      DEF VideoInv, AppTypeOK, CurInv, HttpStep, camVars, netVars
  <1>1. CASE StartHttp \/ ResetFlag  BY <1>1 DEF StartHttp, ResetFlag
  <1>2. ASSUME NEW c \in Clients, NEW u \in Uris, Request(c, u) PROVE CurInv'
    BY <1>2 DEF Request
  <1>3. ASSUME NEW c \in Clients, Disconnect(c) \/ CloseSession(c) PROVE CurInv'
    BY <1>3 DEF Disconnect, CloseSession
  <1>4. ASSUME NEW c \in Clients, Serve(c) PROVE CurInv'
    <2>1. cur' # NoClient /\ req'[cur'] \in Uris  BY <1>4 DEF Serve
    <2>2. hpc' \notin {"off", "select"}  BY <1>4 DEF Serve, Serving
    <2>3. boot' # "http"  BY <1>4 DEF Serve
    <2> QED  BY <2>1, <2>2, <2>3
  <1>5. CASE ServerInit \/ DriverFail \/ CaptureNothing \/ StreamRetry
             \/ SendOk \/ SendFail
    BY <1>5 DEF ServerInit, DriverFail, CaptureNothing, StreamRetry, SendOk, SendFail
  <1>6. CASE DriverOk  BY <1>6 DEF DriverOk
  <1>7. CASE Mark  BY <1>7 DEF Mark, Serving
  <1>8. CASE Reply  BY <1>8 DEF Reply
  <1>9. CASE Finish
    <2>1. boot' = boot /\ hpc = "finish" /\ hpc' = "select" /\ cur' = NoClient
      BY <1>9 DEF Finish
    <2> QED  BY <2>1
  <1>10. CASE Returning
    BY <1>10 DEF Returning, ThrowBack, WarmReturn, FrameSent, StreamBreak, ReturnFb
  <1>11. CASE WarmNext
    <2>1. UNCHANGED <<boot, req, cur>> /\ hpc = "null" /\ hpc' \in {"mark", "capture"}
      BY <1>11 DEF WarmNext
    <2> QED  BY <2>1
  <1>12. ASSUME NEW r \in {"got", "noEoi", "noSoi"}, CaptureFrame(r) PROVE CurInv'
    BY <1>12 DEF CaptureFrame
  <1>13. CASE DriverStep  BY <1>13 DEF DriverStep, appVars
  <1>14. CASE UNCHANGED vars  BY <1>14 DEF vars, appVars
  <1> QED
    BY <1>1, <1>2, <1>3, <1>4, <1>5, <1>6, <1>7, <1>8, <1>9, <1>10, <1>11,
       <1>12, <1>13, <1>14, NextCases DEF AppOnly

LEMMA VideoInitInv == Init => PoolInv /\ VideoInv
  <1> SUFFICES ASSUME Init PROVE PoolInv /\ VideoInv
    OBVIOUS
  <1>1. PoolInv  BY PoolInitInv DEF Init
  <1>2. AppTypeOK
    <2>1. conn \in [Clients -> {"none", "open", "gone"}]
          /\ req \in [Clients -> Uris \cup {"none"}]
      BY DEF Init
    <2>2. warm \in 0 .. Warmups  BY DEF Init, Warmups
    <2>3. /\ boot \in {"http", "reset", "ready"}
          /\ mainStarted \in BOOLEAN /\ srvStarted \in BOOLEAN /\ active \in BOOLEAN
          /\ cur \in Clients \cup {NoClient} /\ hpc \in HttpPcs
      BY DEF Init, HttpPcs
    <2> QED  BY <2>1, <2>2, <2>3 DEF AppTypeOK
  <1>3. FbInv  BY DEF Init, PoolInit, FbInv, HasFrame
  <1>4. InitInv  BY DEF Init, PoolInit, InitInv, Warmups
  <1>5. CurInv  BY DEF Init, CurInv
  <1> QED  BY <1>1, <1>2, <1>3, <1>4, <1>5 DEF VideoInv

-----------------------------------------------------------------------------
(* Theorems. *)

\* The driver's invariant and the handlers' hold together in every reachable
\* state: the driver's own proof is used for its half, because each step of the
\* firmware is one of the driver's steps or leaves it alone (PoolStep).
THEOREM VideoInvariant == Spec => [](PoolInv /\ VideoInv)
  <1>1. PoolInv /\ VideoInv /\ [Next]_vars => (PoolInv /\ VideoInv)'
    <2> SUFFICES ASSUME PoolInv, VideoInv, [Next]_vars PROVE PoolInv' /\ VideoInv'
      OBVIOUS
    <2>1. PoolInv'  BY PoolStep, PoolNextInv
    <2>2. AppTypeOK'  BY AppTypeStep DEF VideoInv
    <2>3. VideoInv'  BY <2>2, FbStep, InitStep, CurStep DEF VideoInv
    <2> QED  BY <2>1, <2>3
  <1> QED  BY VideoInitInv, <1>1, PTL DEF Spec

\* The handlers use the driver only as it may be used: esp_camera_init at most
\* once, esp_camera_fb_return only with frames esp_camera_fb_get handed out.
THEOREM VideoDriverContract == Spec => DriverContract
  <1>1. Init => PoolInit  BY DEF Init
  <1> QED
    BY <1>1, PoolStep, VideoInvariant, PTL DEF Spec, DriverContract, PoolSpec

\* TypeOK of the whole firmware.
THEOREM VideoTyped == Spec => []TypeOK
  <1>1. PoolInv /\ VideoInv => TypeOK
    <2> SUFFICES ASSUME PoolInv, VideoInv PROVE TypeOK
      OBVIOUS
    <2>1. fb \in Frames \cup {NoFrame}
      <3>1. held \subseteq Frames  BY DEF PoolInv, PoolTypeOK
      <3> QED  BY <3>1 DEF VideoInv, FbInv
    <2> QED  BY <2>1 DEF PoolInv, VideoInv, AppTypeOK, TypeOK
  <1> QED  BY <1>1, VideoInvariant, PTL

\* No path through the handlers, the warm-up and camera_capture keeps a frame:
\* for any number of frame buffers, clients and faults.
THEOREM VideoNoFrameLeak == Spec => []NoFrameLeak
  <1>1. VideoInv => NoFrameLeak
    BY DEF VideoInv, FbInv, NoFrameLeak, HasFrame
  <1> QED  BY <1>1, VideoInvariant, PTL

\* camera_server.c claims a running camera only when the driver is up and
\* camera_capture may use it.
THEOREM VideoFlagsAgree == Spec => []FlagsAgree
  <1>1. VideoInv => FlagsAgree  BY DEF VideoInv, InitInv, FlagsAgree
  <1> QED  BY <1>1, VideoInvariant, PTL

\* In the firmware as in the driver alone, DMA never writes to a frame that is
\* queued or being sent to a client.
THEOREM VideoDmaExclusive == Spec => []DmaExclusive
  <1> QED  BY VideoDriverContract, PoolDmaExclusive, PTL DEF DriverContract
\* The whole firmware, not only the driver, implements the ownership of frames.
THEOREM VideoRefinesFrameOwner == Spec => FrameOwnerSpec
  <1> QED  BY VideoDriverContract, PoolRefinesFrameOwner, PTL DEF DriverContract

-----------------------------------------------------------------------------
(* The stream loop and the camera. *)

\* Why the stream loop has a camera when esp_camera_init never fails: main.c's
\* flag is set, and the loop entered, only behind camera_server.c's flag, which
\* nobody clears.
LoopInv ==
    "initFail" \notin Faults =>
        /\ mainStarted => srvStarted
        /\ hpc = "mark" => srvStarted
        /\ warm = Warmups /\ hpc \in {"capture", "noEoi", "noSoi", "got", "null", "give"}
               => srvStarted

LEMMA LoopStep == VideoInv /\ LoopInv /\ [Next]_vars => LoopInv'
  <1> SUFFICES ASSUME VideoInv, LoopInv, [Next]_vars, "initFail" \notin Faults
               PROVE  LoopInv'
    BY DEF LoopInv
  <1> USE DEF LoopInv, HttpStep, camVars, netVars
  <1>1. CASE StartHttp
    <2>1. UNCHANGED <<camVars, warm>> /\ hpc' \in {"select", "off"}
      BY <1>1 DEF StartHttp
    <2> QED  BY <2>1
  <1>2. CASE ResetFlag  BY <1>2 DEF ResetFlag
  <1>3. ASSUME NEW c \in Clients,
               Disconnect(c) \/ CloseSession(c) \/ \E u \in Uris : Request(c, u)
        PROVE  LoopInv'
    BY <1>3 DEF Disconnect, CloseSession, Request
  <1>4. ASSUME NEW c \in Clients, Serve(c) PROVE LoopInv'
    BY <1>4 DEF Serve, Serving
  <1>5. CASE ServerInit  BY <1>5 DEF ServerInit
  <1>6. CASE DriverFail  BY <1>6 DEF DriverFail
  <1>7. CASE Mark \/ Reply \/ Finish  BY <1>7 DEF Mark, Reply, Finish, Serving
  <1>8. CASE CaptureNothing \/ StreamRetry \/ SendOk \/ SendFail
    BY <1>8 DEF CaptureNothing, StreamRetry, SendOk, SendFail
  <1>9. CASE DriverOk
    <2>1. warm' = 0 /\ hpc' = "capture" /\ UNCHANGED <<mainStarted, srvStarted>>
      BY <1>9 DEF DriverOk
    <2> QED  BY <2>1 DEF Warmups
  <1>10. CASE Returning
    BY <1>10 DEF Returning, ThrowBack, WarmReturn, FrameSent, StreamBreak, ReturnFb
  <1>11. CASE WarmNext
    <2>1. mainStarted' = mainStarted /\ ~ srvStarted
      BY <1>11 DEF WarmNext, VideoInv, InitInv
    <2>2. \/ srvStarted'
          \/ warm' # Warmups /\ srvStarted' = srvStarted /\ hpc' = "capture"
      BY <1>11 DEF WarmNext
    <2> QED  BY <2>1, <2>2
  <1>12. ASSUME NEW r \in {"got", "noEoi", "noSoi"}, CaptureFrame(r) PROVE LoopInv'
    BY <1>12 DEF CaptureFrame
  <1>13. CASE DriverStep  BY <1>13 DEF DriverStep, appVars
  <1>14. CASE UNCHANGED vars  BY <1>14 DEF vars, appVars
  <1> QED
    BY <1>1, <1>2, <1>3, <1>4, <1>5, <1>6, <1>7, <1>8, <1>9, <1>10, <1>11,
       <1>12, <1>13, <1>14, NextCases DEF AppOnly

\* If esp_camera_init does not fail, the stream loop is only ever entered with a
\* running camera, even when app_main clears main.c's flag after the first
\* request was served.
THEOREM VideoLoopHasCamera == Spec => []LoopHasCamera
  <1>1. Init => LoopInv  BY DEF Init, LoopInv
  <1>2. VideoInv /\ LoopInv => LoopHasCamera
    BY DEF VideoInv, InitInv, LoopInv, LoopHasCamera, InStream
  <1> QED  BY <1>1, <1>2, LoopStep, VideoInvariant, PTL DEF Spec
=============================================================================
