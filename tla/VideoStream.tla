----------------------------- MODULE VideoStream -----------------------------
(***************************************************************************)
(* The video path of the firmware: the tail of app_main, the HTTP server   *)
(* task with the /start and /stream handlers (main.c), the two layers that *)
(* start the camera (camera_server.c, camera_ov2640.c) and, below them,    *)
(* the driver's frame buffers (FramePool).                                 *)
(*                                                                         *)
(* The HTTP server is one task: while a handler runs, nobody else is       *)
(* served.  Clients, interrupt handlers, cam_task, the server task and     *)
(* app_main interleave freely.                                             *)
(***************************************************************************)
EXTENDS FramePool

CONSTANTS
    Clients,   \* the phones that talk to port 81
    NoClient

ASSUME VideoStreamAssumption == NoClient \notin Clients

VARIABLES
    boot,         \* where app_main is: "http", "reset" (line 214), "ready"
    mainStarted,  \* camera_started of main.c
    srvStarted,   \* camera_started of camera_server.c
    active,       \* camera_active of camera_ov2640.c
    conn,         \* conn[c]: the TCP connection of client c
    req,          \* req[c]: the request of c not answered yet
    cur,          \* the client the running handler serves
    hpc,          \* where the server task is
    warm,         \* warm-up frames taken; Warmups outside of the warm-up
    fb            \* fb of the handler that is running

camVars == <<mainStarted, srvStarted, active>>
netVars == <<conn, req>>
appVars == <<boot, camVars, netVars, cur, hpc, warm, fb>>
vars == <<poolVars, appVars>>

Warmups == 3
Uris == {"start", "stream"}
HttpPcs == {"off", "select", "init", "driver", "mark", "reply", "capture",
            "noEoi", "noSoi", "got", "null", "give", "break", "finish"}

Init ==
    /\ PoolInit
    /\ boot = "http"
    /\ mainStarted = FALSE /\ srvStarted = FALSE /\ active = FALSE
    /\ conn = [c \in Clients |-> "none"]
    /\ req = [c \in Clients |-> "none"]
    /\ cur = NoClient /\ hpc = "off"
    /\ warm = Warmups /\ fb = NoFrame

-----------------------------------------------------------------------------
(* app_main *)

\* start_http_server: its result is ignored.
StartHttp ==
    /\ boot = "http"
    /\ boot' = "reset"
    /\ hpc' \in {"select", "off"}
    /\ UNCHANGED <<poolVars, camVars, netVars, cur, warm, fb>>

\* Mutant: app_main ends with the flag set.
ResetFlagSets ==
    /\ boot = "reset"
    /\ boot' = "ready"
    /\ mainStarted' = TRUE
    /\ UNCHANGED <<poolVars, srvStarted, active, netVars, cur, hpc, warm, fb>>

\* app_main clears main.c's flag when the server may already have used it.
ResetFlag ==
    /\ boot = "reset"
    /\ boot' = "ready"
    /\ mainStarted' = FALSE
    /\ UNCHANGED <<poolVars, srvStarted, active, netVars, cur, hpc, warm, fb>>

(* Clients *)

Request(c, u) ==
    /\ hpc # "off"
    /\ conn[c] # "gone" /\ req[c] = "none"
    /\ conn' = [conn EXCEPT ![c] = "open"]
    /\ req' = [req EXCEPT ![c] = u]
    /\ UNCHANGED <<poolVars, boot, camVars, cur, hpc, warm, fb>>

Disconnect(c) ==
    /\ conn[c] = "open"
    /\ conn' = [conn EXCEPT ![c] = "gone"]
    /\ UNCHANGED <<poolVars, boot, camVars, req, cur, hpc, warm, fb>>

-----------------------------------------------------------------------------
(* The server task: requests and camera start *)

HttpStep(from, to) == hpc = from /\ hpc' = to

\* What a handler does once main.c's flag is set.
Serving(u) == IF u = "start" THEN "reply" ELSE "capture"

\* start_handler and stream_handler up to their test of camera_started.
Serve(c) ==
    /\ req[c] # "none"
    /\ HttpStep("select", IF mainStarted THEN Serving(req[c]) ELSE "init")
    /\ cur' = c
    /\ UNCHANGED <<poolVars, boot, camVars, netVars, warm, fb>>

CloseSession(c) ==
    /\ HttpStep("select", "select")
    /\ conn[c] = "gone" /\ req[c] = "none"
    /\ conn' = [conn EXCEPT ![c] = "none"]
    /\ UNCHANGED <<poolVars, boot, camVars, req, cur, warm, fb>>

\* Mutant: camera_server.c without its own guard.
ServerInitAgain ==
    /\ HttpStep("init", "driver")
    /\ UNCHANGED <<poolVars, boot, camVars, netVars, cur, warm, fb>>

\* camera_server_init: nothing to do when the camera runs already.
ServerInit ==
    /\ HttpStep("init", IF srvStarted THEN "mark" ELSE "driver")
    /\ UNCHANGED <<poolVars, boot, camVars, netVars, cur, warm, fb>>

\* camera_init_with_params and camera_start.
DriverOk ==
    /\ HttpStep("driver", "capture")
    /\ DriverInit
    /\ active' = TRUE
    /\ warm' = 0
    /\ UNCHANGED <<boot, mainStarted, srvStarted, netVars, cur, fb>>

\* Mutant: camera_server.c sets its flag before it looks at the result.
DriverFailMarks ==
    /\ "initFail" \in Faults
    /\ HttpStep("driver", "mark")
    /\ srvStarted' = TRUE
    /\ UNCHANGED <<poolVars, boot, mainStarted, active, netVars, cur, warm, fb>>

\* esp_camera_init undid everything; camera_server_init returns ESP_FAIL.
DriverFail ==
    /\ "initFail" \in Faults
    /\ HttpStep("driver", "mark")
    /\ UNCHANGED <<poolVars, boot, camVars, netVars, cur, warm, fb>>

\* The handler sets main.c's flag whatever camera_server_init returned.
Mark ==
    /\ HttpStep("mark", Serving(req[cur]))
    /\ mainStarted' = TRUE
    /\ UNCHANGED <<poolVars, boot, srvStarted, active, netVars, cur, warm, fb>>

\* start_handler sends "OK".
Reply ==
    /\ HttpStep("reply", "select")
    /\ req' = [req EXCEPT ![cur] = "none"]
    /\ cur' = NoClient
    /\ UNCHANGED <<poolVars, boot, camVars, conn, warm, fb>>

-----------------------------------------------------------------------------
(* The server task: camera_capture, used by the warm-up and the stream *)

\* cam_take gives up between two looks at the queue: a frame may just have come.
CaptureNothing ==
    /\ HttpStep("capture", "null")
    /\ ~ (active /\ up) \/ "timeout" \in Faults
    /\ UNCHANGED <<poolVars, boot, camVars, netVars, cur, warm, fb>>

\* What cam_take and then camera_capture find in the frame.
CaptureFrame(found) ==
    /\ HttpStep("capture", found)
    /\ active /\ CamTake
    /\ fb' = Head(fbq)
    /\ UNCHANGED <<boot, camVars, netVars, cur, warm>>

ReturnFb ==
    /\ CamGive(fb)
    /\ fb' = NoFrame
    /\ UNCHANGED <<boot, camVars, netVars, cur, warm>>

\* Mutant: cam_take forgets to give a frame without end marker back.
ThrowBackLost ==
    /\ HttpStep("noEoi", "capture") \/ HttpStep("noSoi", "null")
    /\ fb' = NoFrame
    /\ UNCHANGED <<poolVars, boot, camVars, netVars, cur, warm>>

\* A frame without end marker goes back and cam_take waits for another one; one
\* without start marker goes back and camera_capture returns NULL.
ThrowBack ==
    /\ HttpStep("noEoi", "capture") \/ HttpStep("noSoi", "null")
    /\ ReturnFb

\* camera_server_init_advanced: one of three warm-up frames, or none, was got.
WarmReturn ==
    /\ warm < Warmups
    /\ HttpStep("got", "null")
    /\ ReturnFb

WarmNext ==
    /\ warm < Warmups
    /\ warm' = warm + 1
    /\ IF warm' = Warmups
       THEN HttpStep("null", "mark") /\ srvStarted' = TRUE
       ELSE HttpStep("null", "capture") /\ UNCHANGED srvStarted
    /\ UNCHANGED <<poolVars, boot, mainStarted, active, netVars, cur, fb>>

-----------------------------------------------------------------------------
(* The server task: the loop of stream_handler *)

\* No frame: sleep and try again, without a byte to the client.
StreamRetry ==
    /\ warm = Warmups
    /\ HttpStep("null", "capture")
    /\ UNCHANGED <<poolVars, boot, camVars, netVars, cur, warm, fb>>

\* The three chunks of one frame; the TCP stack may still buffer them for a
\* client that has left.
SendOk ==
    /\ warm = Warmups
    /\ HttpStep("got", "give")
    /\ UNCHANGED <<poolVars, boot, camVars, netVars, cur, warm, fb>>

\* Mutant: a failed send does not end the loop.
SendFailIgnored ==
    /\ warm = Warmups
    /\ HttpStep("got", "give")
    /\ conn[cur] = "gone" \/ "stall" \in Faults
    /\ UNCHANGED <<poolVars, boot, camVars, netVars, cur, warm, fb>>

SendFail ==
    /\ warm = Warmups
    /\ HttpStep("got", "break")
    /\ conn[cur] = "gone" \/ "stall" \in Faults
    /\ UNCHANGED <<poolVars, boot, camVars, netVars, cur, warm, fb>>

FrameSent == HttpStep("give", "capture") /\ ReturnFb

\* Mutant: the frame is not returned when the send fails.
StreamBreakLeak ==
    /\ HttpStep("break", "finish")
    /\ fb' = NoFrame
    /\ UNCHANGED <<poolVars, boot, camVars, netVars, cur, warm>>

StreamBreak == HttpStep("break", "finish") /\ ReturnFb

\* The closing chunk: the server drops the session when that fails too.
Finish ==
    /\ HttpStep("finish", "select")
    /\ req' = [req EXCEPT ![cur] = "none"]
    /\ conn' \in {conn, [conn EXCEPT ![cur] = "none"]}
    /\ cur' = NoClient
    /\ UNCHANGED <<poolVars, boot, camVars, warm, fb>>

Capture ==
    \/ CaptureNothing
    \/ CaptureFrame("got")
    \/ "noEoi" \in Faults /\ CaptureFrame("noEoi")
    \/ "noSoi" \in Faults /\ CaptureFrame("noSoi")

Handler ==
    \/ ServerInit \/ DriverOk \/ DriverFail \/ Mark \/ Reply
    \/ Capture \/ ThrowBack \/ WarmReturn \/ WarmNext
    \/ StreamRetry \/ SendOk \/ SendFail \/ FrameSent \/ StreamBreak \/ Finish

DriverStep == Driver /\ UNCHANGED appVars

Next ==
    \/ StartHttp \/ ResetFlag
    \/ \E c \in Clients :
          \/ \E u \in Uris : Request(c, u)
          \/ Disconnect(c) \/ Serve(c) \/ CloseSession(c)
    \/ Handler
    \/ DriverStep

Spec == Init /\ [][Next]_vars

-----------------------------------------------------------------------------
(* Fairness.  FreeRTOS runs every ready task: cam_task has the second       *)
(* highest priority, the server task sleeps in each round of its loops.     *)
(* The sensor raises VSYNC for ever; again and again a frame is intact; TCP *)
(* finds out that a client has left.                                        *)

CamTaskStep == CamTask /\ UNCHANGED appVars
FrameEnd == VsyncIsr /\ UNCHANGED appVars
IsrStep == IsrGoesOn /\ UNCHANGED appVars

Fairness ==
    /\ WF_vars(StartHttp) /\ WF_vars(ResetFlag)
    /\ WF_vars(Handler)
    /\ WF_vars(CamTaskStep)
    /\ WF_vars(FrameEnd) /\ WF_vars(IsrStep)
    /\ SF_vars(CaptureFrame("got"))
    /\ SF_vars(SendFail)

FairSpec == Spec /\ Fairness

-----------------------------------------------------------------------------
(* Properties. *)

\* The type of every variable.
TypeOK ==
    /\ PoolTypeOK
    /\ boot \in {"http", "reset", "ready"}
    /\ mainStarted \in BOOLEAN /\ srvStarted \in BOOLEAN /\ active \in BOOLEAN
    /\ conn \in [Clients -> {"none", "open", "gone"}]
    /\ req \in [Clients -> Uris \cup {"none"}]
    /\ cur \in Clients \cup {NoClient}
    /\ hpc \in HttpPcs
    /\ warm \in 0 .. Warmups
    /\ fb \in Frames \cup {NoFrame}

\* Every path through the handlers, the warm-up and camera_capture returns the
\* frame it took: the handler holds at most the frame in fb, and none once the
\* server is back at select.  With fb_count = 1 one forgotten frame would stop
\* the camera for good.
NoFrameLeak ==
    /\ held = {fb} \ {NoFrame}
    /\ hpc \in {"off", "select", "finish"} => held = {}

\* The three flags in three files: camera_server.c claims a running camera only
\* when the driver is up and camera_capture may use it.
FlagsAgree == srvStarted => active /\ up

InStream == cur # NoClient /\ req[cur] = "stream" /\ warm = Warmups

\* If esp_camera_init does not fail, the stream loop is only ever entered with a
\* running camera, even when app_main clears main.c's flag after the first
\* request was served.
LoopHasCamera ==
    InStream /\ hpc \in {"capture", "got", "null"} /\ "initFail" \notin Faults
        => active /\ srvStarted

\* The handlers use the driver as it may be used: esp_camera_init only once,
\* only frames it handed out are returned.
DriverContract == PoolSpec

\* A client that leaves during its stream frees the server task, when the
\* camera works.
GoneClientFreesServer ==
    \A c \in Clients :
        (cur = c /\ InStream /\ conn[c] = "gone" /\ active) ~> (cur # c)

\* A stream with a running camera keeps sending, or ends.
StreamMoves == (InStream /\ hpc = "capture" /\ active) ~> (hpc \in {"give", "break"})

\* main.c logs "forced camera start" for every /start: a /start served while no
\* camera runs tries to start it.
ForcedStart ==
    [][\A c \in Clients :
          (cur # c /\ cur' = c /\ req[c] = "start" /\ ~ active) => hpc' = "init"]_vars
=============================================================================
