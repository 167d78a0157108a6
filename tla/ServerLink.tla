------------------------------ MODULE ServerLink ------------------------------
(***************************************************************************)
(* The link to the server: the manager and its monitor task                *)
(* (server_manager.c), the wrapper that keeps one client handle            *)
(* (websocket_client.c) and the task of the library's client               *)
(* (esp_websocket_client.c, without the separate TX lock).                 *)
(*                                                                         *)
(* Two tasks run the wrapper's connect and disconnect: "app", which calls  *)
(* the manager, and "mon", the monitor.  They share websocket_client       *)
(* without a lock.  Each client has a task of its own; event handlers run  *)
(* in the task that dispatches the event.                                  *)
(*                                                                         *)
(* Steps of different tasks come in any order: the monitor's delay may end *)
(* and the caller may call while anything else is under way.               *)
(***************************************************************************)
EXTENDS ModeSwitch

CONSTANTS
    Clients,  \* the client structures that can exist at once
    NoClient, \* NULL
    Calls,    \* what app calls of the manager: a subset of {"start",
              \* "stop", "send"}
    Env       \* what the surroundings do: a subset of {"close", "memory"}

\* Modes are changed by app alone.
ASSUME LinkAssumption == NoClient \notin Clients /\ Callers = {"app"}

VARIABLES
    started,  \* is_started
    handle,   \* monitor_task_handle # NULL
    pc,       \* where each task is
    job,      \* what the wrapper's call is for: "connect" (and when there is no
              \* call), "disconnect", or "undo" of a start that failed
    arg,      \* the client a task passed to the library
    ws,       \* websocket_client
    flag,     \* is_connected of websocket_client.c
    mem,      \* mem[c]: the structure is unused, in use or freed
    state,    \* state[c]: client->state
    run,      \* client->run
    stopped,  \* STOPPED_BIT
    sent,     \* CLOSE_FRAME_SENT_BIT
    wpc,      \* where the client's task is
    races     \* history: the races there have been since the last boot

cliVars == <<mem, state, run, stopped, sent, wpc>>
taskVars == <<started, handle, pc, job, arg, ws>>
linkVars == <<taskVars, flag, cliVars>>
codeVars == <<modeVars, linkVars>>
vars == <<codeVars, races>>

Tasks == {"app", "mon"}

LinkInit ==
    /\ started = FALSE /\ handle = FALSE
    /\ pc = [t \in Tasks |-> IF t = "app" THEN "idle" ELSE "none"]
    /\ job = [t \in Tasks |-> "connect"]
    /\ arg = [t \in Tasks |-> NoClient]
    /\ ws = NoClient /\ flag = FALSE
    /\ mem = [c \in Clients |-> "unused"]
    /\ state = [c \in Clients |-> "UNKNOW"]
    /\ run = [c \in Clients |-> FALSE]
    /\ stopped = [c \in Clients |-> TRUE]
    /\ sent = [c \in Clients |-> FALSE]
    /\ wpc = [c \in Clients |-> "none"]

Init == ModeInit /\ LinkInit /\ races = {}

Step(t, from, to) == pc[t] = from /\ pc' = [pc EXCEPT ![t] = to]

-----------------------------------------------------------------------------
(* server_manager.c *)

Start ==
    /\ "start" \in Calls
    /\ setPc["app"] = "idle" /\ Step("app", "idle", "startMon")
    /\ started' = TRUE
    /\ UNCHANGED <<modeVars, handle, job, arg, ws, flag, cliVars>>

\* The monitor if there is none (its creation is taken to succeed), and the
\* test of the mode, which nobody but app changes.
StartMonitor ==
    /\ pc["app"] = "startMon"
    /\ handle' = TRUE
    /\ pc' = [app |-> IF mode = AutoServer THEN "cnTest" ELSE "idle",
              mon |-> IF handle THEN pc["mon"] ELSE "loop"]
    /\ job' = [job EXCEPT !["app"] = "connect"]
    /\ UNCHANGED <<modeVars, started, arg, ws, flag, cliVars>>

\* One turn of server_monitor_task: is_started, the mode, is_connected.
LoopTest ==
    /\ Step("mon", "loop", IF started THEN "look" ELSE "leave")
    /\ UNCHANGED <<modeVars, started, handle, job, arg, ws, flag, cliVars>>

LookMode ==
    /\ Step("mon", "look", IF mode = AutoServer THEN "inAuto" ELSE "notAuto")
    /\ UNCHANGED <<modeVars, started, handle, job, arg, ws, flag, cliVars>>

\* Mutant: the monitor disconnects in no mode.
LookFlagStays ==
    /\ \/ Step("mon", "inAuto", IF flag THEN "sleep" ELSE "cnTest")
       \/ Step("mon", "notAuto", "sleep")
    /\ job' = [job EXCEPT !["mon"] = "connect"]
    /\ UNCHANGED <<modeVars, started, handle, arg, ws, flag, cliVars>>

LookFlag ==
    /\ \/ Step("mon", "inAuto", IF flag THEN "sleep" ELSE "cnTest")
       \/ Step("mon", "notAuto", IF flag THEN "dcTest" ELSE "sleep")
    /\ job' = [job EXCEPT !["mon"] = IF pc["mon"] = "inAuto" THEN "connect" ELSE "disconnect"]
    /\ UNCHANGED <<modeVars, started, handle, arg, ws, flag, cliVars>>

\* vTaskDelay(5000) ends.
Wake ==
    /\ Step("mon", "sleep", "loop")
    /\ UNCHANGED <<modeVars, started, handle, job, arg, ws, flag, cliVars>>

\* The monitor clears its handle and deletes itself.
Leave ==
    /\ Step("mon", "leave", "none")
    /\ handle' = FALSE
    /\ UNCHANGED <<modeVars, started, job, arg, ws, flag, cliVars>>

\* server_manager_stop up to its disconnect.
Stop ==
    /\ "stop" \in Calls
    /\ setPc["app"] = "idle" /\ Step("app", "idle", "dcTest")
    /\ started' = FALSE
    /\ job' = [job EXCEPT !["app"] = "disconnect"]
    /\ UNCHANGED <<modeVars, handle, arg, ws, flag, cliVars>>

StopTest ==
    /\ Step("app", "stopTest", IF handle THEN "stopDelete" ELSE "idle")
    /\ UNCHANGED <<modeVars, started, handle, job, arg, ws, flag, cliVars>>

\* vTaskDelete: of the monitor wherever it is, of the caller when the handle
\* has become NULL since the test.
StopDelete ==
    /\ pc["app"] = "stopDelete"
    /\ handle' = FALSE
    /\ pc' = IF handle THEN [app |-> "idle", mon |-> "none"] ELSE [pc EXCEPT !["app"] = "killed"]
    /\ UNCHANGED <<modeVars, started, job, arg, ws, flag, cliVars>>

-----------------------------------------------------------------------------
(* websocket_client.c, in task t *)

\* Where t goes after websocket_client_connect, after _disconnect.
AfterConnect(t) == IF t = "mon" THEN "sleep" ELSE "idle"
AfterDisconnect(t) ==
    IF job[t] = "connect" THEN "cnInit"
    ELSE IF job[t] = "disconnect" /\ t = "app" THEN "stopTest" ELSE AfterConnect(t)

\* Mutant: connect does not take down the client that exists.
ConnectTestSkips(t) ==
    /\ Step(t, "cnTest", "cnInit")
    /\ UNCHANGED <<modeVars, started, handle, job, arg, ws, flag, cliVars>>

ConnectTest(t) ==
    /\ Step(t, "cnTest", IF ws = NoClient THEN "cnInit" ELSE "dcTest")
    /\ UNCHANGED <<modeVars, started, handle, job, arg, ws, flag, cliVars>>

DisconnectTest(t) ==
    /\ Step(t, "dcTest", IF ws = NoClient THEN AfterDisconnect(t) ELSE "dcStop")
    /\ job' = IF ws = NoClient THEN [job EXCEPT ![t] = "connect"] ELSE job
    /\ UNCHANGED <<modeVars, started, handle, arg, ws, flag, cliVars>>

\* The library's stop, called from pc "from": it asks the task of client ws
\* to leave and waits at "wait", or goes on at "next" when there is nothing
\* to stop.
AskStop(t, from, wait, next) ==
    /\ pc[t] = from
    /\ arg' = [arg EXCEPT ![t] = ws]
    /\ IF ws = NoClient \/ stopped[ws]
       THEN Step(t, from, next) /\ UNCHANGED run
       ELSE Step(t, from, wait) /\ run' = [run EXCEPT ![ws] = FALSE]
    /\ UNCHANGED <<modeVars, started, handle, job, ws, flag, mem, state, stopped, sent, wpc>>

\* Mutant: stop does not wait for the client's task.
StopSeenEarly(t, wait, next) ==
    /\ Step(t, wait, next)
    /\ state' = [state EXCEPT ![arg[t]] = "UNKNOW"]
    /\ UNCHANGED <<modeVars, started, handle, job, arg, ws, flag, mem, run, stopped, sent, wpc>>

\* stop_wait_task: STOPPED_BIT has been set.
StopSeen(t, wait, next) ==
    /\ Step(t, wait, next)
    /\ stopped[arg[t]]
    /\ state' = [state EXCEPT ![arg[t]] = "UNKNOW"]
    /\ UNCHANGED <<modeVars, started, handle, job, arg, ws, flag, mem, run, stopped, sent, wpc>>

ClientStop(t) == AskStop(t, "dcStop", "dcStopWait", "dcDestroy")
ClientStopped(t) == StopSeen(t, "dcStopWait", "dcDestroy")

\* esp_websocket_client_destroy: stops the client if it has to.
ClientDestroy(t) == AskStop(t, "dcDestroy", "dcDestroyWait", "dcFree")
ClientDestroyStopped(t) == StopSeen(t, "dcDestroyWait", "dcFree")

ClientFree(t) ==
    /\ Step(t, "dcFree", "dcNull")
    /\ mem' = IF arg[t] = NoClient THEN mem ELSE [mem EXCEPT ![arg[t]] = "freed"]
    /\ UNCHANGED <<modeVars, started, handle, job, arg, ws, flag, state, run, stopped, sent, wpc>>

\* Mutant: disconnect leaves is_connected to an event that never comes.
DisconnectDoneKeepsFlag(t) ==
    /\ Step(t, "dcNull", AfterDisconnect(t))
    /\ ws' = NoClient
    /\ job' = [job EXCEPT ![t] = "connect"]
    /\ arg' = [arg EXCEPT ![t] = NoClient]
    /\ UNCHANGED <<modeVars, started, handle, flag, cliVars>>

DisconnectDone(t) ==
    /\ Step(t, "dcNull", AfterDisconnect(t))
    /\ ws' = NoClient /\ flag' = (flag /\ job[t] = "undo")
    /\ job' = [job EXCEPT ![t] = "connect"]
    /\ arg' = [arg EXCEPT ![t] = NoClient]
    /\ UNCHANGED <<modeVars, started, handle, cliVars>>

\* esp_websocket_client_init and the registration of the handler.
ClientInit(t) ==
    /\ Step(t, "cnInit", "cnStart")
    /\ \E c \in Clients :
         /\ mem[c] = "unused"
         /\ mem' = [mem EXCEPT ![c] = "live"]
         /\ ws' = c
    /\ UNCHANGED <<modeVars, started, handle, job, arg, flag, state, run, stopped, sent, wpc>>

ClientInitFails(t) ==
    /\ "memory" \in Env
    /\ Step(t, "cnInit", AfterConnect(t))
    /\ ws' = NoClient
    /\ UNCHANGED <<modeVars, started, handle, job, arg, flag, cliVars>>

\* esp_websocket_client_start creates the client's task ...
ClientStart(t) ==
    /\ ws # NoClient /\ state[ws] = "UNKNOW"
    /\ Step(t, "cnStart", "cnBits")
    /\ arg' = [arg EXCEPT ![t] = ws]
    /\ wpc' = [wpc EXCEPT ![ws] = "begin"]
    /\ UNCHANGED <<modeVars, started, handle, job, ws, flag, mem, state, run, stopped, sent>>

\* ... and clears the bits only afterwards.
ClientStartBits(t) ==
    /\ Step(t, "cnBits", AfterConnect(t))
    /\ stopped' = [stopped EXCEPT ![arg[t]] = FALSE]
    /\ sent' = [sent EXCEPT ![arg[t]] = FALSE]
    /\ arg' = [arg EXCEPT ![t] = NoClient]
    /\ UNCHANGED <<modeVars, started, handle, job, ws, flag, mem, state, run, wpc>>

\* Registration or start failed (or the client runs, or is gone): the client
\* is destroyed.
ClientStartFails(t) ==
    /\ "memory" \in Env \/ (ws # NoClient => state[ws] # "UNKNOW")
    /\ Step(t, "cnStart", "dcDestroy")
    /\ job' = [job EXCEPT ![t] = "undo"]
    /\ UNCHANGED <<modeVars, started, handle, arg, ws, flag, cliVars>>

\* server_manager_send_data and websocket_client_send_text up to the
\* library's send.
Send ==
    /\ "send" \in Calls
    /\ setPc["app"] = "idle" /\ flag /\ ws # NoClient
    /\ Step("app", "idle", "sendCall")
    /\ UNCHANGED <<modeVars, started, handle, job, arg, ws, flag, cliVars>>

\* websocket_client is read again and passed to the library, which refuses
\* NULL and a client that is not connected.
SendCall ==
    /\ IF ws # NoClient /\ state[ws] = "CONNECTED"
       THEN Step("app", "sendCall", "sending") /\ arg' = [arg EXCEPT !["app"] = ws]
       ELSE Step("app", "sendCall", "idle") /\ UNCHANGED arg
    /\ UNCHANGED <<modeVars, started, handle, job, ws, flag, cliVars>>

\* client->lock is taken and the message is out.
SendOk ==
    /\ Step("app", "sending", "idle")
    /\ wpc[arg["app"]] \notin {"connecting", "up", "down"}
    /\ arg' = [arg EXCEPT !["app"] = NoClient]
    /\ UNCHANGED <<modeVars, started, handle, job, ws, flag, cliVars>>

\* The write fails: the connection is aborted, unless it has been, and the
\* handler of DISCONNECTED runs in this task.
SendFails ==
    /\ Step("app", "sending", "idle")
    /\ wpc[arg["app"]] \notin {"connecting", "up", "down"}
    /\ IF state[arg["app"]] \in {"CONNECTED", "INIT"}
       THEN state' = [state EXCEPT ![arg["app"]] = "WAIT_TIMEOUT"] /\ flag' = FALSE
       ELSE UNCHANGED <<state, flag>>
    /\ arg' = [arg EXCEPT !["app"] = NoClient]
    /\ UNCHANGED <<modeVars, started, handle, job, ws, mem, run, stopped, sent, wpc>>

-----------------------------------------------------------------------------
(* esp_websocket_client_task of client c *)

TaskStep(c, from, to) == wpc[c] = from /\ wpc' = [wpc EXCEPT ![c] = to]

TaskRuns(c) ==
    /\ TaskStep(c, "begin", "begin2")
    /\ run' = [run EXCEPT ![c] = TRUE]
    /\ UNCHANGED <<modeVars, taskVars, flag, mem, state, stopped, sent>>

TaskInit(c) ==
    /\ TaskStep(c, "begin2", "loop")
    /\ state' = [state EXCEPT ![c] = "INIT"]
    /\ stopped' = [stopped EXCEPT ![c] = FALSE]
    /\ sent' = [sent EXCEPT ![c] = FALSE]
    /\ UNCHANGED <<modeVars, taskVars, flag, mem, run>>

\* The loop takes client->lock for state s and goes to "to".
InState(c, s, to) == run[c] /\ state[c] = s /\ TaskStep(c, "loop", to)

BeginConnect(c) ==
    /\ InState(c, "INIT", "connecting")
    /\ UNCHANGED <<modeVars, taskVars, flag, mem, state, run, stopped, sent>>

Connected(c) ==
    /\ TaskStep(c, "connecting", "up")
    /\ state' = [state EXCEPT ![c] = "CONNECTED"]
    /\ UNCHANGED <<modeVars, taskVars, flag, mem, run, stopped, sent>>

\* abort_connection: after a connect that failed or a connection that broke
\* (poll or read error, no PONG).
AbortConnection(c) ==
    /\ TaskStep(c, "connecting", "down") \/ InState(c, "CONNECTED", "down")
    /\ state' = [state EXCEPT ![c] = "WAIT_TIMEOUT"]
    /\ UNCHANGED <<modeVars, taskVars, flag, mem, run, stopped, sent>>

\* Mutant: websocket_event_handler takes DISCONNECTED for CONNECTED.
EventStaysUp(c) ==
    /\ TaskStep(c, "up", "loop") \/ TaskStep(c, "down", "loop")
    /\ flag' = TRUE
    /\ UNCHANGED <<modeVars, taskVars, mem, state, run, stopped, sent>>

\* websocket_event_handler: CONNECTED or DISCONNECTED.
Event(c) ==
    /\ TaskStep(c, "up", "loop") \/ TaskStep(c, "down", "loop")
    /\ flag' = (wpc[c] = "up")
    /\ UNCHANGED <<modeVars, taskVars, mem, state, run, stopped, sent>>

\* The client's own reconnect timeout.
Retry(c) ==
    /\ InState(c, "WAIT_TIMEOUT", "loop")
    /\ state' = [state EXCEPT ![c] = "INIT"]
    /\ UNCHANGED <<modeVars, taskVars, flag, mem, run, stopped, sent>>

\* The server's CLOSE frame is read.
CloseReceived(c) ==
    /\ "close" \in Env
    /\ InState(c, "CONNECTED", "loop")
    /\ state' = [state EXCEPT ![c] = "CLOSING"]
    /\ UNCHANGED <<modeVars, taskVars, flag, mem, run, stopped, sent>>

EchoClose(c) ==
    /\ ~sent[c]
    /\ InState(c, "CLOSING", "loop")
    /\ sent' = [sent EXCEPT ![c] = TRUE]
    /\ UNCHANGED <<modeVars, taskVars, flag, mem, state, run, stopped>>

\* The server closed TCP: event CLOSED, which the wrapper's handler ignores,
\* and the loop ends (close_reconnect is not set).
Closed(c) ==
    /\ sent[c]
    /\ InState(c, "CLOSING", "finish")
    /\ run' = [run EXCEPT ![c] = FALSE]
    /\ state' = [state EXCEPT ![c] = "UNKNOW"]
    /\ UNCHANGED <<modeVars, taskVars, flag, mem, stopped, sent>>

LeaveLoop(c) ==
    /\ ~run[c] /\ TaskStep(c, "loop", "finish")
    /\ UNCHANGED <<modeVars, taskVars, flag, mem, state, run, stopped, sent>>

\* Mutant: the task leaves without a word.
FinishForgets(c) ==
    /\ TaskStep(c, "finish", "last")
    /\ UNCHANGED <<modeVars, taskVars, flag, mem, state, run, stopped, sent>>

\* STOPPED_BIT is set before the task's last accesses to the client.
Finish(c) ==
    /\ TaskStep(c, "finish", "last")
    /\ stopped' = [stopped EXCEPT ![c] = TRUE]
    /\ UNCHANGED <<modeVars, taskVars, flag, mem, state, run, sent>>

TaskEnds(c) ==
    /\ TaskStep(c, "last", "none")
    /\ state' = [state EXCEPT ![c] = "UNKNOW"]
    /\ UNCHANGED <<modeVars, taskVars, flag, mem, run, stopped, sent>>

\* The allocator may hand the memory out again (once nobody refers to it, so
\* that a use after free stays visible).
Reclaim(c) ==
    /\ mem[c] = "freed" /\ wpc[c] = "none" /\ ws # c /\ \A t \in Tasks : arg[t] # c
    /\ mem' = [mem EXCEPT ![c] = "unused"]
    /\ state' = [state EXCEPT ![c] = "UNKNOW"]
    /\ run' = [run EXCEPT ![c] = FALSE]
    /\ stopped' = [stopped EXCEPT ![c] = TRUE]
    /\ sent' = [sent EXCEPT ![c] = FALSE]
    /\ UNCHANGED <<modeVars, taskVars, flag, wpc>>

-----------------------------------------------------------------------------
(* Composition *)

\* mode_switch_set, called by app when it is in no other call.
ChangeMode == pc["app"] = "idle" /\ ModeCall("app") /\ UNCHANGED linkVars

Reboot ==
    /\ PowerCycle
    /\ started' = FALSE /\ handle' = FALSE
    /\ pc' = [t \in Tasks |-> IF t = "app" THEN "idle" ELSE "none"]
    /\ job' = [t \in Tasks |-> "connect"]
    /\ arg' = [t \in Tasks |-> NoClient]
    /\ ws' = NoClient /\ flag' = FALSE
    /\ mem' = [c \in Clients |-> "unused"]
    /\ state' = [c \in Clients |-> "UNKNOW"]
    /\ run' = [c \in Clients |-> FALSE]
    /\ stopped' = [c \in Clients |-> TRUE]
    /\ sent' = [c \in Clients |-> FALSE]
    /\ wpc' = [c \in Clients |-> "none"]

Wrapper(t) ==
    \/ ConnectTest(t) \/ DisconnectTest(t)
    \/ ClientStop(t) \/ ClientStopped(t)
    \/ ClientDestroy(t) \/ ClientDestroyStopped(t) \/ ClientFree(t) \/ DisconnectDone(t)
    \/ ClientInit(t) \/ ClientStart(t) \/ ClientStartBits(t)

WrapperFails(t) == ClientInitFails(t) \/ ClientStartFails(t)

Manager ==
    StartMonitor \/ LoopTest \/ LookMode \/ LookFlag \/ Wake \/ Leave \/ StopTest \/ StopDelete

ClientTask(c) ==
    \/ TaskRuns(c) \/ TaskInit(c) \/ BeginConnect(c) \/ Event(c) \/ Retry(c)
    \/ EchoClose(c) \/ Closed(c) \/ LeaveLoop(c) \/ Finish(c) \/ TaskEnds(c) \/ Reclaim(c)

Network(c) == Connected(c) \/ AbortConnection(c) \/ CloseReceived(c)

Code ==
    \/ ChangeMode
    \/ Start \/ Stop \/ Send \/ SendCall \/ SendOk \/ SendFails \/ Manager
    \/ \E t \in Tasks : Wrapper(t) \/ WrapperFails(t)
    \/ \E c \in Clients : ClientTask(c) \/ Network(c)

\* Task t is inside the wrapper: past the first test of connect, disconnect
\* or send_text.  server_manager_stop counts until the monitor is deleted.
Disconnecting ==
    {"dcStop", "dcStopWait", "dcDestroy", "dcDestroyWait", "dcFree", "dcNull"}
Inside(t) ==
    \/ pc[t] \in {"cnInit", "cnStart", "cnBits", "sendCall", "sending", "stopTest", "stopDelete"}
    \/ pc[t] \in Disconnecting
    \/ pc[t] = "dcTest" /\ job[t] = "connect"

\* What no lock prevents: both tasks are inside the wrapper; a client's task
\* is asked to stop before its first line, which takes the request back; it
\* has ended before its starter clears STOPPED_BIT; the monitor's handle
\* becomes NULL before stop passes it to vTaskDelete.
Waiting == {"dcStopWait", "dcDestroyWait"}
Races == {"wrapper", "early", "late", "handle"}
Racing(r) ==
    \/ r = "wrapper" /\ Inside("app") /\ Inside("mon")
    \/ r = "early" /\ \E t \in Tasks : pc[t] \in Waiting /\ wpc[arg[t]] = "begin"
    \/ r = "late" /\ \E t \in Tasks : pc[t] = "cnBits" /\ wpc[arg[t]] \in {"last", "none"}
    \/ r = "handle" /\ pc["app"] = "stopDelete" /\ ~handle

\* races is a history variable: no step of the code reads it.
Next ==
    \/ Code /\ races' = races \cup {r \in Races : Racing(r)'}
    \/ Reboot /\ races' = {}

AppStep == StartMonitor \/ StopTest \/ StopDelete \/ SendCall \/ Wrapper("app")
MonStep == LoopTest \/ LookMode \/ LookFlag \/ Wake \/ Leave \/ Wrapper("mon")

\* The scheduler runs every task, the monitor's delay ends and calls of the
\* library return.  Now and then a send gets client->lock, memory is found,
\* and a client's task gets to its connect and the server answers before
\* the monitor's next poll.
Fairness ==
    /\ WF_codeVars(AppStep) /\ WF_codeVars(MonStep)
    /\ SF_codeVars(SendOk \/ SendFails)
    /\ SF_codeVars(\E t \in Tasks : ClientInit(t))
    /\ SF_codeVars(\E t \in Tasks : ClientStart(t))
    /\ WF_codeVars(\E c \in Clients : ClientTask(c) \/ (wpc[c] = "connecting" /\ Network(c)))
    /\ SF_codeVars(\E c \in Clients : run[c] /\ TaskInit(c))
    /\ SF_codeVars(\E c \in Clients : BeginConnect(c))
    /\ SF_codeVars(\E c \in Clients : run[c] /\ Connected(c))

Spec == Init /\ [][Next]_vars
LiveSpec == Spec /\ Fairness

-----------------------------------------------------------------------------
(* Properties *)

Pcs == {"idle", "startMon", "stopTest", "stopDelete", "killed", "sendCall", "sending", "none",
        "loop", "look", "inAuto", "notAuto", "sleep", "leave",
        "cnTest", "cnInit", "cnStart", "cnBits",
        "dcTest", "dcStop", "dcStopWait", "dcDestroy", "dcDestroyWait", "dcFree", "dcNull"}

CodeTypeOK ==
    /\ ModeTypeOK
    /\ started \in BOOLEAN /\ handle \in BOOLEAN /\ flag \in BOOLEAN
    /\ pc \in [Tasks -> Pcs] /\ job \in [Tasks -> {"connect", "disconnect", "undo"}]
    /\ arg \in [Tasks -> Clients \cup {NoClient}] /\ ws \in Clients \cup {NoClient}
    /\ mem \in [Clients -> {"unused", "live", "freed"}]
    /\ state \in [Clients -> {"UNKNOW", "INIT", "CONNECTED", "WAIT_TIMEOUT", "CLOSING"}]
    /\ run \in [Clients -> BOOLEAN] /\ stopped \in [Clients -> BOOLEAN]
    /\ sent \in [Clients -> BOOLEAN]
    /\ wpc \in [Clients -> {"none", "begin", "begin2", "loop", "connecting", "up", "down",
                            "finish", "last"}]

LinkTypeOK == CodeTypeOK /\ races \subseteq Races

\* Task t is about to follow a pointer to client c.
Uses(t, c) ==
    \/ pc[t] \in {"dcStop", "dcDestroy", "cnStart", "sendCall"} /\ ws = c
    \/ pc[t] \in {"dcStopWait", "dcDestroyWait", "dcFree", "cnBits", "sending"} /\ arg[t] = c

\* Nobody uses a client that has been freed, and a client is not freed under
\* its own task, the task's last lines excepted (websocket_client_disconnect
\* against connect, send and the library's task).
NoUseAfterFree ==
    \A c \in Clients : mem[c] # "live" =>
        wpc[c] \in {"none", "last"} /\ \A t \in Tasks : ~Uses(t, c)

\* Every client that exists can still be destroyed: websocket_client points
\* to it ("MUST have a corresponding call to esp_websocket_client_destroy",
\* esp_websocket_client.h:156).
NoClientLost == \A c \in Clients : mem[c] = "live" => ws = c

\* is_connected follows the events: when a client's task has none to
\* deliver, a connected client is reported and one that waits is not.
FlagFollowsEvents ==
    \A c \in Clients : wpc[c] = "loop" =>
        /\ state[c] = "CONNECTED" => flag
        /\ state[c] \in {"INIT", "WAIT_TIMEOUT"} => ~flag

\* A client is not destroyed while a send works on it, not even when its task
\* has ended (websocket_client_send_text against disconnect in the monitor;
\* "This function must be the last function to call for an session",
\* esp_websocket_client.h:233 of destroy).
SendKeepsClient ==
    [][pc["app"] = "sending" /\ stopped[arg["app"]] =>
           ~\E t \in Tasks : arg[t] = arg["app"] /\ ClientFree(t)]_vars

\* After server_manager_stop nothing is left: no monitor, no client, no task
\* of a client that could reconnect, and the link is reported down
\* (server_manager.c:114 and 117, "we disconnect from the server", "we stop
\* the monitoring task").
StopLeavesNothing ==
    ~started /\ pc["app"] = "idle" =>
        /\ pc["mon"] = "none" /\ ws = NoClient /\ ~flag
        /\ \A c \in Clients : mem[c] # "live" /\ wpc[c] \in {"none", "last"}

\* Whoever waits for the end of a client's task has been heard: the task has
\* ended or is bound to leave its loop.  Otherwise the caller waits for ever
\* (stop_wait_task).
StopAnswered ==
    \A t \in Tasks : pc[t] \in Waiting =>
        \/ stopped[arg[t]]
        \/ ~run[arg[t]] /\ wpc[arg[t]] \notin {"none", "begin", "last"}

\* None of the four fails through failures of memory, of the network or of the
\* server, nor through the steps of a client's task, nor when the monitor
\* wakes, stops or is deleted at any other moment: it takes the two tasks
\* inside the wrapper at once (server_manager.c and websocket_client.c have no
\* lock for it).
UseAfterFreeNeedsRace == "wrapper" \in races \/ NoUseAfterFree
LeakNeedsRace == "wrapper" \in races \/ NoClientLost
StaleFlagNeedsRace == "wrapper" \in races \/ FlagFollowsEvents
LeftoverNeedsRace == "wrapper" \in races \/ StopLeavesNothing

\* A stop is lost only through a race: without one, no order of the caller's,
\* the monitor's and the client's steps leaves a caller unheard
\* (esp_websocket_client.c:1402-1408 against 1084-1087 and 1356-1360).
UnheardNeedsRace == races # {} \/ StopAnswered

\* How far client c is.
Life(c) ==
    IF wpc[c] \notin {"none", "last"}
    THEN IF run[c] \/ wpc[c] = "begin" THEN "running" ELSE "asked"
    ELSE IF mem[c] # "live" THEN "none"
    ELSE IF \E t \in Tasks : pc[t] = "cnStart" THEN "made" ELSE "ended"

CL == INSTANCE ClientLife WITH client <- ws, life <- [c \in Clients |-> Life(c)], up <- flag

\* The wrapper and the library's tasks keep one client at a time, from its
\* creation to its end, in order (websocket_client.c): every step implements
\* a step of ClientLife until both tasks are inside the wrapper.
LifeUntilRace == CL!Init /\ [][ "wrapper" \in races' \/ CL!Next ]_(CL!vars)

\* In AUTO_SERVER mode the robot comes online again and again, whatever
\* breaks, unless the server takes its leave (server_monitor_task).
NoMoreRaces == <>[](races = {})
Online == \E c \in Clients : state[c] = "CONNECTED"
ServerLeft == ws # NoClient /\ stopped[ws] /\ flag
ComesOnline ==
    NoMoreRaces /\ <>[](mode = AutoServer /\ started) => ([]<>Online \/ <>[]ServerLeft)

\* Once the mode is no longer AUTO_SERVER the link goes down for good, if
\* connections do not break for ever: the monitor disconnects only when it
\* happens to find the link up.
GoesOffline ==
    /\ NoMoreRaces
    /\ <>[](mode # AutoServer /\ started)
    /\ <>[](\A c \in Clients : state[c] # "WAIT_TIMEOUT")
    => <>[]~flag

\* A call of the manager returns while there has been no race: disconnect
\* does not wait for ever for the client's task (stop_wait_task) and does not
\* delete its own caller (vTaskDelete).
CallsReturn ==
    NoMoreRaces => []<>(pc["app"] = "idle")

\* is_connected ("connection status", websocket_client.c:15) means that there
\* is a client whose task still runs, when no disconnect is under way.
Quiet(t) == pc[t] \in {"idle", "none", "loop", "look", "inAuto", "notAuto", "sleep", "leave"}
FlagIsStatus ==
    flag /\ (\A t \in Tasks : Quiet(t)) => ws # NoClient /\ wpc[ws] \notin {"none", "last"}

=============================================================================
