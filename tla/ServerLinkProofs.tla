--------------------------- MODULE ServerLinkProofs ---------------------------
(***************************************************************************)
(* Proofs about ServerLink for any number of clients, any timing and any   *)
(* calls of the manager.  As long as the two tasks have not been inside    *)
(* the wrapper at once, the wrapper neither uses a freed client nor loses  *)
(* one, its flag follows the events, a stop leaves nothing behind, and the *)
(* whole implements ClientLife; without any of the four races a stop is    *)
(* heard.  The mode survives a reboot if NVS works.                        *)
(***************************************************************************)
EXTENDS ServerLink, TLAPS

-----------------------------------------------------------------------------
(* Types *)

\* The library's stop keeps the types, whoever calls it.
LEMMA AskStopTypes ==
    ASSUME CodeTypeOK, NEW t \in Tasks, NEW from, NEW wait \in Pcs, NEW next \in Pcs,
           AskStop(t, from, wait, next)
    PROVE  CodeTypeOK'
  <1> USE DEF CodeTypeOK, AskStop, Step, ModeTypeOK, modeVars
  <1>1. CASE ws = NoClient \/ stopped[ws]
    BY <1>1
  <1>2. CASE ~(ws = NoClient \/ stopped[ws])
    BY <1>2
  <1> QED  BY <1>1, <1>2

LEMMA TaskTypes ==
    ASSUME CodeTypeOK, NEW t \in Tasks, Wrapper(t) \/ WrapperFails(t)
    PROVE  CodeTypeOK'
  <1>1. CASE ClientStop(t)
    BY <1>1, AskStopTypes DEF ClientStop, Pcs
  <1>2. CASE ClientDestroy(t)
    BY <1>2, AskStopTypes DEF ClientDestroy, Pcs
  <1> USE DEF CodeTypeOK, ModeTypeOK, modeVars, cliVars, Step, Tasks, Pcs
  <1>3. CASE ConnectTest(t)
    BY <1>3 DEF ConnectTest
  <1>4. CASE DisconnectTest(t)
    BY <1>4 DEF DisconnectTest, AfterConnect, AfterDisconnect
  <1>5. CASE ClientStopped(t)
    BY <1>5 DEF ClientStopped, StopSeen
  <1>6. CASE ClientDestroyStopped(t)
    BY <1>6 DEF ClientDestroyStopped, StopSeen
  <1>7. CASE ClientFree(t)
    BY <1>7 DEF ClientFree
  <1>8. CASE DisconnectDone(t)
    BY <1>8 DEF DisconnectDone, AfterConnect, AfterDisconnect
  <1>9. CASE ClientInit(t)
    BY <1>9 DEF ClientInit
  <1>10. CASE ClientStart(t)
    BY <1>10 DEF ClientStart
  <1>11. CASE ClientStartBits(t)
    BY <1>11 DEF ClientStartBits, AfterConnect
  <1>12. CASE ClientInitFails(t)
    BY <1>12 DEF ClientInitFails, AfterConnect
  <1>13. CASE ClientStartFails(t)
    BY <1>13 DEF ClientStartFails
  <1> QED
    BY <1>1, <1>2, <1>3, <1>4, <1>5, <1>6, <1>7, <1>8, <1>9, <1>10, <1>11, <1>12, <1>13
       DEF Wrapper, WrapperFails

LEMMA ManagerTypes ==
    ASSUME CodeTypeOK,
           Start \/ Stop \/ Send \/ SendCall \/ SendOk \/ SendFails \/ Manager
    PROVE  CodeTypeOK'
  <1> USE DEF CodeTypeOK, ModeTypeOK, modeVars, cliVars, Step, Tasks, Pcs
  <1>1. CASE Start
    BY <1>1 DEF Start
  <1>2. CASE StartMonitor
    BY <1>2 DEF StartMonitor
  <1>3. CASE LoopTest
    BY <1>3 DEF LoopTest
  <1>4. CASE LookMode
    BY <1>4 DEF LookMode
  <1>5. CASE LookFlag
    BY <1>5 DEF LookFlag
  <1>6. CASE Wake
    BY <1>6 DEF Wake
  <1>7. CASE Leave
    BY <1>7 DEF Leave
  <1>8. CASE Stop
    BY <1>8 DEF Stop
  <1>9. CASE StopTest
    BY <1>9 DEF StopTest
  <1>10. CASE StopDelete
    <2>1. pc' = [app |-> "idle", mon |-> "none"] \/ pc' = [pc EXCEPT !["app"] = "killed"]
      BY <1>10 DEF StopDelete
    <2>2. pc' \in [Tasks -> Pcs]
      BY <2>1
    <2> QED  BY <1>10, <2>2 DEF StopDelete
  <1>11. CASE Send
    BY <1>11 DEF Send
  <1>12. CASE SendCall
    BY <1>12 DEF SendCall
  <1>13. CASE SendOk
    BY <1>13 DEF SendOk
  <1>14. CASE SendFails
    BY <1>14 DEF SendFails
  <1> QED
    BY <1>1, <1>2, <1>3, <1>4, <1>5, <1>6, <1>7, <1>8, <1>9, <1>10, <1>11, <1>12, <1>13,
       <1>14 DEF Manager

LEMMA ClientTypes ==
    ASSUME CodeTypeOK, NEW c \in Clients, ClientTask(c) \/ Network(c)
    PROVE  CodeTypeOK'
  <1> USE DEF CodeTypeOK, ModeTypeOK, modeVars, taskVars, TaskStep, InState
  <1>1. CASE TaskRuns(c)
    BY <1>1 DEF TaskRuns
  <1>2. CASE TaskInit(c)
    BY <1>2 DEF TaskInit
  <1>3. CASE BeginConnect(c)
    BY <1>3 DEF BeginConnect
  <1>4. CASE Connected(c)
    BY <1>4 DEF Connected
  <1>5. CASE AbortConnection(c)
    BY <1>5 DEF AbortConnection
  <1>6. CASE Event(c)
    BY <1>6 DEF Event
  <1>7. CASE Retry(c)
    BY <1>7 DEF Retry
  <1>8. CASE CloseReceived(c)
    BY <1>8 DEF CloseReceived
  <1>9. CASE EchoClose(c)
    BY <1>9 DEF EchoClose
  <1>10. CASE Closed(c)
    BY <1>10 DEF Closed
  <1>11. CASE LeaveLoop(c)
    BY <1>11 DEF LeaveLoop
  <1>12. CASE Finish(c)
    BY <1>12 DEF Finish
  <1>13. CASE TaskEnds(c)
    BY <1>13 DEF TaskEnds
  <1>14. CASE Reclaim(c)
    BY <1>14 DEF Reclaim
  <1> QED
    BY <1>1, <1>2, <1>3, <1>4, <1>5, <1>6, <1>7, <1>8, <1>9, <1>10, <1>11, <1>12, <1>13,
       <1>14 DEF ClientTask, Network

LEMMA CodeTypeStep ==
    ASSUME CodeTypeOK, [Next]_vars
    PROVE  CodeTypeOK'
  <1>1. ASSUME ChangeMode PROVE CodeTypeOK'
    BY <1>1, LinkAssumption DEF CodeTypeOK, ChangeMode, ModeCall, SetMode, OpenNvs,
       WriteNvs, SetStep, ModeTypeOK, Modes, linkVars, taskVars, cliVars
  <1>2. CASE Reboot
    BY <1>2 DEF CodeTypeOK, Reboot, PowerCycle, BootMode, ModeTypeOK, Modes, Tasks, Pcs
  <1>3. CASE UNCHANGED vars
    BY <1>3 DEF CodeTypeOK, vars, codeVars, linkVars, taskVars, cliVars, modeVars,
       ModeTypeOK
  <1>4. CASE Code
    BY <1>1, <1>4, TaskTypes, ManagerTypes, ClientTypes DEF Code
  <1> QED  BY <1>2, <1>3, <1>4 DEF Next

LEMMA LinkTypesStart == Init => LinkTypeOK
  <1> SUFFICES ASSUME Init PROVE LinkTypeOK  OBVIOUS
  <1>1. pc \in [Tasks -> Pcs]
    BY DEF Init, LinkInit, Tasks, Pcs
  <1>2. ModeTypeOK
    BY DEF Init, ModeInit, ModeTypeOK, Modes
  <1> QED  BY <1>1, <1>2 DEF Init, LinkInit, LinkTypeOK, CodeTypeOK

\* The types of all variables of the link, in any timing.
THEOREM LinkTyped == Spec => []LinkTypeOK
  <1>1. LinkTypeOK /\ [Next]_vars => LinkTypeOK'
    BY CodeTypeStep DEF LinkTypeOK, Next, vars
  <1> QED  BY <1>1, LinkTypesStart, PTL DEF Spec

-----------------------------------------------------------------------------
(* The inductive invariant *)

\* At most one task is inside the wrapper.
OneInside == ~(Inside("app") /\ Inside("mon"))

\* Each task has its own places, and the handle tells whether there is a
\* monitor.
PlaceInv ==
    /\ pc["app"] \notin {"none", "loop", "look", "inAuto", "notAuto", "sleep", "leave"}
    /\ pc["mon"] \notin {"idle", "startMon", "stopTest", "stopDelete", "killed",
                         "sendCall", "sending"}
    /\ handle <=> pc["mon"] # "none"

\* How far server_manager_stop is.
StopInv ==
    /\ pc["app"] \in {"startMon", "cnTest", "cnInit", "cnStart", "cnBits",
                     "sendCall", "sending"}
         => started
    /\ pc["app"] \in Disconnecting \cup {"dcTest"} /\ job["app"] # "disconnect" => started
    /\ pc["app"] \in {"stopTest", "stopDelete"} => ws = NoClient
    /\ ~started /\ pc["app"] = "idle" => pc["mon"] = "none" /\ ws = NoClient

\* What task t knows of the client at its place in the wrapper.
WrapperInv(t) ==
    /\ pc[t] # "dcDestroyWait"
    /\ pc[t] = "cnInit" => ws = NoClient
    /\ pc[t] \in {"cnStart", "cnBits", "dcStop", "dcStopWait", "dcDestroy", "dcFree",
                  "sendCall", "sending"}
         => ws # NoClient /\ mem[ws] = "live"
    /\ pc[t] = "dcNull" => ws # NoClient /\ mem[ws] = "freed"
    /\ pc[t] \in {"cnBits", "dcStopWait", "dcFree", "sending"} => arg[t] = ws
    /\ pc[t] = "cnStart" => stopped[ws] /\ wpc[ws] = "none" /\ ~flag
    /\ pc[t] \in {"dcDestroy", "dcFree"} => stopped[ws]
    /\ pc[t] = "cnTest" => job[t] = "connect"
    /\ pc[t] \in {"dcTest", "dcStop", "dcStopWait"} => job[t] # "undo"
    /\ pc[t] \in Disconnecting /\ job[t] = "undo" => ~flag

\* websocket_client points to the one client that is alive.
HandleInv ==
    /\ ws = NoClient => ~flag
    /\ ws # NoClient => mem[ws] = "live" \/ \E t \in Tasks : pc[t] = "dcNull"
    /\ NoClientLost

\* What holds of a client at each place of its task.
ClientInv(c) ==
    /\ mem[c] = "unused" => stopped[c] /\ wpc[c] = "none"
    /\ mem[c] # "live" => wpc[c] \in {"none", "last"}
    /\ stopped[c] /\ wpc[c] \notin {"none", "last"} =>
         \E t \in Tasks : pc[t] = "cnBits" /\ arg[t] = c
    /\ wpc[c] = "finish" => ~run[c]
    /\ wpc[c] \in {"begin", "begin2", "connecting"} => ~flag
    /\ wpc[c] = "up" => state[c] = "CONNECTED"
    /\ wpc[c] = "down" => state[c] = "WAIT_TIMEOUT"

LinkInv ==
    /\ OneInside /\ PlaceInv /\ StopInv /\ HandleInv
    /\ \A t \in Tasks : WrapperInv(t)
    /\ \A c \in Clients : ClientInv(c)
    /\ FlagFollowsEvents

\* Without any race: a task that has ended said so, and a task that was asked
\* to end will.
HeardInv ==
    /\ \A c \in Clients : ~stopped[c] => wpc[c] \notin {"none", "last"}
    /\ \A t \in Tasks : pc[t] = "dcStopWait" =>
         stopped[ws] \/ (~run[ws] /\ wpc[ws] \notin {"none", "begin", "last"})
    /\ \A r \in Races : ~Racing(r)

-----------------------------------------------------------------------------
(* The steps *)

LEMMA ConnectTestKeeps ==
    ASSUME CodeTypeOK, LinkInv, OneInside', NEW t \in Tasks, ConnectTest(t)
    PROVE  LinkInv'
  <1> USE DEF LinkInv, ConnectTest, Step, Tasks
  <1>1. PlaceInv'  BY DEF PlaceInv
  <1>2. StopInv'  BY DEF StopInv
  <1>3. HandleInv'  BY DEF HandleInv, cliVars, NoClientLost
  <1>4. (\A u \in Tasks : WrapperInv(u))'  BY DEF WrapperInv, cliVars
  <1>5. (\A d \in Clients : ClientInv(d))'  BY DEF ClientInv, cliVars
  <1>6. FlagFollowsEvents'  BY DEF FlagFollowsEvents, cliVars
  <1> QED  BY <1>1, <1>2, <1>3, <1>4, <1>5, <1>6

LEMMA DisconnectTestKeeps ==
    ASSUME CodeTypeOK, LinkInv, OneInside', NEW t \in Tasks, DisconnectTest(t)
    PROVE  LinkInv'
  <1> USE DEF LinkInv, DisconnectTest, Step, Tasks
  <1>1. PlaceInv'  BY DEF PlaceInv, AfterConnect, AfterDisconnect
  <1>2. StopInv'  BY DEF StopInv, AfterDisconnect, Disconnecting, CodeTypeOK
  <1>3. HandleInv'  BY DEF HandleInv, cliVars, NoClientLost
  <1>4. (\A u \in Tasks : WrapperInv(u))'  BY DEF WrapperInv, AfterConnect,
        AfterDisconnect, cliVars, Disconnecting, HandleInv, OneInside, Inside
  <1>5. (\A d \in Clients : ClientInv(d))'  BY DEF ClientInv, cliVars
  <1>6. FlagFollowsEvents'  BY DEF FlagFollowsEvents, cliVars
  <1> QED  BY <1>1, <1>2, <1>3, <1>4, <1>5, <1>6

LEMMA ClientStopKeeps ==
    ASSUME CodeTypeOK, LinkInv, OneInside', NEW t \in Tasks, ClientStop(t)
    PROVE  LinkInv'
  <1> USE DEF LinkInv, ClientStop, AskStop, Step, Tasks
  <1>1. PlaceInv'  BY DEF PlaceInv, CodeTypeOK
  <1>2. StopInv'  BY DEF StopInv, Disconnecting, CodeTypeOK
  <1>3. HandleInv'  BY DEF HandleInv, NoClientLost, CodeTypeOK
  <1>4. (\A u \in Tasks : WrapperInv(u))'  BY DEF WrapperInv, CodeTypeOK
  <1>5. (\A d \in Clients : ClientInv(d))'  BY DEF ClientInv, CodeTypeOK
  <1>6. FlagFollowsEvents'  BY DEF FlagFollowsEvents
  <1> QED  BY <1>1, <1>2, <1>3, <1>4, <1>5, <1>6

LEMMA ClientStoppedKeeps ==
    ASSUME CodeTypeOK, LinkInv, OneInside', NEW t \in Tasks, ClientStopped(t)
    PROVE  LinkInv'
  <1> USE DEF LinkInv, ClientStopped, StopSeen, Step, Tasks
  <1>1. PlaceInv'  BY DEF PlaceInv
  <1>2. StopInv'  BY DEF StopInv, Disconnecting
  <1>3. HandleInv'  BY DEF HandleInv, NoClientLost
  <1>4. (\A u \in Tasks : WrapperInv(u))'  BY DEF WrapperInv
  <1>5. (\A d \in Clients : ClientInv(d))'  BY DEF ClientInv, OneInside, Inside,
        Disconnecting
  <1>6. FlagFollowsEvents'  BY DEF FlagFollowsEvents
  <1> QED  BY <1>1, <1>2, <1>3, <1>4, <1>5, <1>6

LEMMA ClientDestroyKeeps ==
    ASSUME CodeTypeOK, LinkInv, OneInside', NEW t \in Tasks, ClientDestroy(t)
    PROVE  LinkInv'
  <1> USE DEF LinkInv, ClientDestroy, AskStop, Step, Tasks
  <1>1. PlaceInv'  BY DEF PlaceInv, CodeTypeOK
  <1>2. StopInv'  BY DEF StopInv, Disconnecting, CodeTypeOK
  <1>3. HandleInv'  BY DEF HandleInv, NoClientLost, CodeTypeOK
  <1>4. (\A u \in Tasks : WrapperInv(u))'  BY DEF WrapperInv, Disconnecting, CodeTypeOK
  <1>5. (\A d \in Clients : ClientInv(d))'  BY DEF ClientInv, CodeTypeOK
  <1>6. FlagFollowsEvents'  BY DEF FlagFollowsEvents
  <1> QED  BY <1>1, <1>2, <1>3, <1>4, <1>5, <1>6

LEMMA ClientDestroyStoppedKeeps ==
    ASSUME CodeTypeOK, LinkInv, OneInside', NEW t \in Tasks, ClientDestroyStopped(t)
    PROVE  LinkInv'
  <1> USE DEF LinkInv, ClientDestroyStopped, StopSeen, Step, Tasks
  <1>1. PlaceInv'  BY DEF PlaceInv
  <1>2. StopInv'  BY DEF StopInv, Disconnecting
  <1>3. HandleInv'  BY DEF HandleInv, NoClientLost
  <1>4. (\A u \in Tasks : WrapperInv(u))'  BY DEF WrapperInv
  <1>5. (\A d \in Clients : ClientInv(d))'  BY DEF ClientInv, WrapperInv
  <1>6. FlagFollowsEvents'  BY DEF FlagFollowsEvents
  <1> QED  BY <1>1, <1>2, <1>3, <1>4, <1>5, <1>6

LEMMA ClientFreeKeeps ==
    ASSUME CodeTypeOK, LinkInv, OneInside', NEW t \in Tasks, ClientFree(t)
    PROVE  LinkInv'
  <1> USE DEF LinkInv, ClientFree, Step, Tasks
  <1>1. PlaceInv'  BY DEF PlaceInv
  <1>2. StopInv'  BY DEF StopInv, Disconnecting
  <1>3. HandleInv'  BY DEF HandleInv, NoClientLost, CodeTypeOK
  <1>4. (\A u \in Tasks : WrapperInv(u))'  BY DEF WrapperInv, Disconnecting, CodeTypeOK,
        OneInside, Inside
  <1>5. (\A d \in Clients : ClientInv(d))'  BY DEF ClientInv, WrapperInv, OneInside,
        Inside, Disconnecting
  <1>6. FlagFollowsEvents'  BY DEF FlagFollowsEvents
  <1> QED  BY <1>1, <1>2, <1>3, <1>4, <1>5, <1>6

LEMMA DisconnectDoneKeeps ==
    ASSUME CodeTypeOK, LinkInv, OneInside', NEW t \in Tasks, DisconnectDone(t)
    PROVE  LinkInv'
  <1> USE DEF LinkInv, DisconnectDone, Step, Tasks
  <1>1. PlaceInv'  BY DEF PlaceInv, AfterConnect, AfterDisconnect
  <1>2. StopInv'  BY DEF StopInv, AfterDisconnect, Disconnecting, CodeTypeOK
  <1>3. HandleInv'  BY LinkAssumption DEF HandleInv, NoClientLost, PlaceInv, WrapperInv,
        ClientInv, CodeTypeOK, OneInside, Inside, Disconnecting, cliVars, taskVars,
        AfterConnect, AfterDisconnect
  <1>4. (\A u \in Tasks : WrapperInv(u))'  BY DEF WrapperInv, AfterConnect,
        AfterDisconnect, Disconnecting, CodeTypeOK, OneInside, Inside
  <1>5. (\A d \in Clients : ClientInv(d))'  BY DEF ClientInv, cliVars, CodeTypeOK
  <1>6. FlagFollowsEvents'  BY DEF FlagFollowsEvents, cliVars, WrapperInv, ClientInv,
        HandleInv, NoClientLost
  <1> QED  BY <1>1, <1>2, <1>3, <1>4, <1>5, <1>6

LEMMA ClientInitKeeps ==
    ASSUME CodeTypeOK, LinkInv, OneInside', NEW t \in Tasks, ClientInit(t)
    PROVE  LinkInv'
  <1> USE DEF LinkInv, ClientInit, Step, Tasks
  <1>1. PlaceInv'  BY DEF PlaceInv
  <1>2. StopInv'  BY DEF StopInv, OneInside, Inside
  <1>3. HandleInv'  BY LinkAssumption DEF HandleInv, NoClientLost, CodeTypeOK, WrapperInv
  <1>4. (\A u \in Tasks : WrapperInv(u))'  BY LinkAssumption DEF WrapperInv, CodeTypeOK,
        ClientInv, HandleInv, OneInside, Inside
  <1>5. (\A d \in Clients : ClientInv(d))'  BY DEF ClientInv
  <1>6. FlagFollowsEvents'  BY DEF FlagFollowsEvents
  <1> QED  BY <1>1, <1>2, <1>3, <1>4, <1>5, <1>6

LEMMA ClientStartKeeps ==
    ASSUME CodeTypeOK, LinkInv, OneInside', NEW t \in Tasks, ClientStart(t)
    PROVE  LinkInv'
  <1> USE DEF LinkInv, ClientStart, Step, Tasks
  <1>1. PlaceInv'  BY DEF PlaceInv
  <1>2. StopInv'  BY DEF StopInv
  <1>3. HandleInv'  BY DEF HandleInv, NoClientLost
  <1>4. (\A u \in Tasks : WrapperInv(u))'  BY DEF WrapperInv, CodeTypeOK, OneInside,
        Inside
  <1>5. (\A d \in Clients : ClientInv(d))'  BY DEF ClientInv, CodeTypeOK, WrapperInv
  <1>6. FlagFollowsEvents'  BY DEF FlagFollowsEvents
  <1> QED  BY <1>1, <1>2, <1>3, <1>4, <1>5, <1>6

LEMMA ClientStartBitsKeeps ==
    ASSUME CodeTypeOK, LinkInv, OneInside', NEW t \in Tasks, ClientStartBits(t)
    PROVE  LinkInv'
  <1> USE DEF LinkInv, ClientStartBits, Step, Tasks
  <1>1. PlaceInv'  BY DEF PlaceInv, AfterConnect
  <1>2. StopInv'  BY DEF StopInv, AfterConnect
  <1>3. HandleInv'  BY DEF HandleInv, NoClientLost
  <1>4. (\A u \in Tasks : WrapperInv(u))'  BY DEF WrapperInv, AfterConnect, Disconnecting,
        CodeTypeOK, OneInside, Inside
  <1>5. (\A d \in Clients : ClientInv(d))'  BY DEF ClientInv, CodeTypeOK, WrapperInv
  <1>6. FlagFollowsEvents'  BY DEF FlagFollowsEvents
  <1> QED  BY <1>1, <1>2, <1>3, <1>4, <1>5, <1>6

LEMMA ClientInitFailsKeeps ==
    ASSUME CodeTypeOK, LinkInv, OneInside', NEW t \in Tasks, ClientInitFails(t)
    PROVE  LinkInv'
  <1> USE DEF LinkInv, ClientInitFails, Step, Tasks
  <1>1. PlaceInv'  BY DEF PlaceInv, AfterConnect
  <1>2. StopInv'  BY DEF StopInv
  <1>3. HandleInv'  BY DEF HandleInv, cliVars, NoClientLost, WrapperInv
  <1>4. (\A u \in Tasks : WrapperInv(u))'  BY DEF WrapperInv, AfterConnect, Disconnecting
  <1>5. (\A d \in Clients : ClientInv(d))'  BY DEF ClientInv, cliVars
  <1>6. FlagFollowsEvents'  BY DEF FlagFollowsEvents, cliVars
  <1> QED  BY <1>1, <1>2, <1>3, <1>4, <1>5, <1>6

LEMMA ClientStartFailsKeeps ==
    ASSUME CodeTypeOK, LinkInv, OneInside', NEW t \in Tasks, ClientStartFails(t)
    PROVE  LinkInv'
  <1> USE DEF LinkInv, ClientStartFails, Step, Tasks
  <1>1. PlaceInv'  BY DEF PlaceInv
  <1>2. StopInv'  BY DEF StopInv
  <1>3. HandleInv'  BY DEF HandleInv, cliVars, NoClientLost
  <1>4. (\A u \in Tasks : WrapperInv(u))'  BY DEF WrapperInv, cliVars
  <1>5. (\A d \in Clients : ClientInv(d))'  BY DEF ClientInv, cliVars
  <1>6. FlagFollowsEvents'  BY DEF FlagFollowsEvents, cliVars
  <1> QED  BY <1>1, <1>2, <1>3, <1>4, <1>5, <1>6

LEMMA StartKeeps ==
    ASSUME CodeTypeOK, LinkInv, OneInside', Start
    PROVE  LinkInv'
  <1> USE DEF LinkInv, Start, Step, Tasks
  <1>1. PlaceInv'  BY DEF PlaceInv
  <1>2. StopInv'  BY DEF StopInv
  <1>3. HandleInv'  BY DEF HandleInv, cliVars, NoClientLost
  <1>4. (\A u \in Tasks : WrapperInv(u))'  BY DEF WrapperInv, cliVars, Disconnecting
  <1>5. (\A d \in Clients : ClientInv(d))'  BY DEF ClientInv, cliVars
  <1>6. FlagFollowsEvents'  BY DEF FlagFollowsEvents, cliVars
  <1> QED  BY <1>1, <1>2, <1>3, <1>4, <1>5, <1>6

LEMMA StartMonitorKeeps ==
    ASSUME CodeTypeOK, LinkInv, OneInside', StartMonitor
    PROVE  LinkInv'
  <1> USE DEF LinkInv, StartMonitor, Step, Tasks
  <1>1. PlaceInv'  BY DEF PlaceInv
  <1>2. StopInv'  BY DEF StopInv
  <1>3. HandleInv'  BY DEF HandleInv, cliVars, NoClientLost, PlaceInv
  <1>4. (\A u \in Tasks : WrapperInv(u))'  BY DEF WrapperInv, cliVars, Disconnecting,
        CodeTypeOK
  <1>5. (\A d \in Clients : ClientInv(d))'  BY DEF ClientInv, cliVars, PlaceInv
  <1>6. FlagFollowsEvents'  BY DEF FlagFollowsEvents, cliVars
  <1> QED  BY <1>1, <1>2, <1>3, <1>4, <1>5, <1>6

LEMMA LoopTestKeeps ==
    ASSUME CodeTypeOK, LinkInv, OneInside', LoopTest
    PROVE  LinkInv'
  <1> USE DEF LinkInv, LoopTest, Step, Tasks
  <1>1. PlaceInv'  BY DEF PlaceInv
  <1>2. StopInv'  BY DEF StopInv
  <1>3. HandleInv'  BY DEF HandleInv, cliVars, NoClientLost
  <1>4. (\A u \in Tasks : WrapperInv(u))'  BY DEF WrapperInv, cliVars, Disconnecting
  <1>5. (\A d \in Clients : ClientInv(d))'  BY DEF ClientInv, cliVars
  <1>6. FlagFollowsEvents'  BY DEF FlagFollowsEvents, cliVars
  <1> QED  BY <1>1, <1>2, <1>3, <1>4, <1>5, <1>6

LEMMA LookModeKeeps ==
    ASSUME CodeTypeOK, LinkInv, OneInside', LookMode
    PROVE  LinkInv'
  <1> USE DEF LinkInv, LookMode, Step, Tasks
  <1>1. PlaceInv'  BY DEF PlaceInv
  <1>2. StopInv'  BY DEF StopInv
  <1>3. HandleInv'  BY DEF HandleInv, cliVars, NoClientLost
  <1>4. (\A u \in Tasks : WrapperInv(u))'  BY DEF WrapperInv, cliVars, Disconnecting
  <1>5. (\A d \in Clients : ClientInv(d))'  BY DEF ClientInv, cliVars
  <1>6. FlagFollowsEvents'  BY DEF FlagFollowsEvents, cliVars
  <1> QED  BY <1>1, <1>2, <1>3, <1>4, <1>5, <1>6

LEMMA LookFlagKeeps ==
    ASSUME CodeTypeOK, LinkInv, OneInside', LookFlag
    PROVE  LinkInv'
  <1> USE DEF LinkInv, LookFlag, Step, Tasks
  <1>1. PlaceInv'  BY DEF PlaceInv, CodeTypeOK
  <1>2. StopInv'  BY DEF StopInv, CodeTypeOK
  <1>3. HandleInv'  BY DEF HandleInv, cliVars, NoClientLost, CodeTypeOK
  <1>4. (\A u \in Tasks : WrapperInv(u))'  BY DEF WrapperInv, cliVars, CodeTypeOK
  <1>5. (\A d \in Clients : ClientInv(d))'  BY DEF ClientInv, cliVars, CodeTypeOK
  <1>6. FlagFollowsEvents'  BY DEF FlagFollowsEvents, cliVars
  <1> QED  BY <1>1, <1>2, <1>3, <1>4, <1>5, <1>6

LEMMA WakeKeeps ==
    ASSUME CodeTypeOK, LinkInv, OneInside', Wake
    PROVE  LinkInv'
  <1> USE DEF LinkInv, Wake, Step, Tasks
  <1>1. PlaceInv'  BY DEF PlaceInv
  <1>2. StopInv'  BY DEF StopInv
  <1>3. HandleInv'  BY DEF HandleInv, cliVars, NoClientLost
  <1>4. (\A u \in Tasks : WrapperInv(u))'  BY DEF WrapperInv, cliVars, Disconnecting
  <1>5. (\A d \in Clients : ClientInv(d))'  BY DEF ClientInv, cliVars
  <1>6. FlagFollowsEvents'  BY DEF FlagFollowsEvents, cliVars
  <1> QED  BY <1>1, <1>2, <1>3, <1>4, <1>5, <1>6

LEMMA LeaveKeeps ==
    ASSUME CodeTypeOK, LinkInv, OneInside', Leave
    PROVE  LinkInv'
  <1> USE DEF LinkInv, Leave, Step, Tasks
  <1>1. PlaceInv'  BY DEF PlaceInv, CodeTypeOK
  <1>2. StopInv'  BY DEF StopInv
  <1>3. HandleInv'  BY DEF HandleInv, cliVars, NoClientLost
  <1>4. (\A u \in Tasks : WrapperInv(u))'  BY DEF WrapperInv, cliVars, Disconnecting
  <1>5. (\A d \in Clients : ClientInv(d))'  BY DEF ClientInv, cliVars
  <1>6. FlagFollowsEvents'  BY DEF FlagFollowsEvents, cliVars
  <1> QED  BY <1>1, <1>2, <1>3, <1>4, <1>5, <1>6

LEMMA StopKeeps ==
    ASSUME CodeTypeOK, LinkInv, OneInside', Stop
    PROVE  LinkInv'
  <1> USE DEF LinkInv, Stop, Step, Tasks
  <1>1. PlaceInv'  BY DEF PlaceInv
  <1>2. StopInv'  BY DEF StopInv, CodeTypeOK
  <1>3. HandleInv'  BY DEF HandleInv, cliVars, NoClientLost
  <1>4. (\A u \in Tasks : WrapperInv(u))'  BY DEF WrapperInv, cliVars, CodeTypeOK
  <1>5. (\A d \in Clients : ClientInv(d))'  BY DEF ClientInv, cliVars
  <1>6. FlagFollowsEvents'  BY DEF FlagFollowsEvents, cliVars
  <1> QED  BY <1>1, <1>2, <1>3, <1>4, <1>5, <1>6

LEMMA StopTestKeeps ==
    ASSUME CodeTypeOK, LinkInv, OneInside', StopTest
    PROVE  LinkInv'
  <1> USE DEF LinkInv, StopTest, Step, Tasks
  <1>1. PlaceInv'  BY DEF PlaceInv
  <1>2. StopInv'  BY DEF StopInv, Disconnecting, PlaceInv
  <1>3. HandleInv'  BY DEF HandleInv, cliVars, NoClientLost
  <1>4. (\A u \in Tasks : WrapperInv(u))'  BY DEF WrapperInv, cliVars, Disconnecting
  <1>5. (\A d \in Clients : ClientInv(d))'  BY DEF ClientInv, cliVars
  <1>6. FlagFollowsEvents'  BY DEF FlagFollowsEvents, cliVars
  <1> QED  BY <1>1, <1>2, <1>3, <1>4, <1>5, <1>6

LEMMA StopDeleteKeeps ==
    ASSUME CodeTypeOK, LinkInv, OneInside', StopDelete
    PROVE  LinkInv'
  <1> USE DEF LinkInv, StopDelete, Step, Tasks
  <1>1. PlaceInv'  BY DEF PlaceInv
  <1>2. StopInv'  BY DEF StopInv, Disconnecting
  <1>3. HandleInv'  BY DEF HandleInv, cliVars, NoClientLost, OneInside, Inside,
        Disconnecting
  <1>4. (\A u \in Tasks : WrapperInv(u))'  BY DEF WrapperInv, cliVars, Disconnecting
  <1>5. (\A d \in Clients : ClientInv(d))'  BY DEF ClientInv, cliVars, OneInside, Inside
  <1>6. FlagFollowsEvents'  BY DEF FlagFollowsEvents, cliVars
  <1> QED  BY <1>1, <1>2, <1>3, <1>4, <1>5, <1>6

LEMMA SendKeeps ==
    ASSUME CodeTypeOK, LinkInv, OneInside', Send
    PROVE  LinkInv'
  <1> USE DEF LinkInv, Send, Step, Tasks
  <1>1. PlaceInv'  BY DEF PlaceInv
  <1>2. StopInv'  BY DEF StopInv
  <1>3. HandleInv'  BY DEF HandleInv, cliVars, NoClientLost
  <1>4. (\A u \in Tasks : WrapperInv(u))'  BY DEF WrapperInv, cliVars, Disconnecting,
        HandleInv, OneInside, Inside
  <1>5. (\A d \in Clients : ClientInv(d))'  BY DEF ClientInv, cliVars
  <1>6. FlagFollowsEvents'  BY DEF FlagFollowsEvents, cliVars
  <1> QED  BY <1>1, <1>2, <1>3, <1>4, <1>5, <1>6

LEMMA SendCallKeeps ==
    ASSUME CodeTypeOK, LinkInv, OneInside', SendCall
    PROVE  LinkInv'
  <1> USE DEF LinkInv, SendCall, Step, Tasks
  <1>1. PlaceInv'  BY DEF PlaceInv, CodeTypeOK
  <1>2. StopInv'  BY DEF StopInv, CodeTypeOK
  <1>3. HandleInv'  BY DEF HandleInv, cliVars, NoClientLost, CodeTypeOK
  <1>4. (\A u \in Tasks : WrapperInv(u))'  BY DEF WrapperInv, cliVars, Disconnecting,
        CodeTypeOK
  <1>5. (\A d \in Clients : ClientInv(d))'  BY DEF ClientInv, cliVars, CodeTypeOK
  <1>6. FlagFollowsEvents'  BY DEF FlagFollowsEvents, cliVars
  <1> QED  BY <1>1, <1>2, <1>3, <1>4, <1>5, <1>6

LEMMA SendOkKeeps ==
    ASSUME CodeTypeOK, LinkInv, OneInside', SendOk
    PROVE  LinkInv'
  <1> USE DEF LinkInv, SendOk, Step, Tasks
  <1>1. PlaceInv'  BY DEF PlaceInv
  <1>2. StopInv'  BY DEF StopInv
  <1>3. HandleInv'  BY DEF HandleInv, cliVars, NoClientLost
  <1>4. (\A u \in Tasks : WrapperInv(u))'  BY DEF WrapperInv, cliVars, Disconnecting,
        CodeTypeOK
  <1>5. (\A d \in Clients : ClientInv(d))'  BY DEF ClientInv, cliVars
  <1>6. FlagFollowsEvents'  BY DEF FlagFollowsEvents, cliVars
  <1> QED  BY <1>1, <1>2, <1>3, <1>4, <1>5, <1>6

LEMMA SendFailsKeeps ==
    ASSUME CodeTypeOK, LinkInv, OneInside', SendFails
    PROVE  LinkInv'
  <1> USE DEF LinkInv, SendFails, Step, Tasks
  <1>1. PlaceInv'  BY DEF PlaceInv
  <1>2. StopInv'  BY DEF StopInv
  <1>3. HandleInv'  BY DEF HandleInv, NoClientLost
  <1>4. (\A u \in Tasks : WrapperInv(u))'  BY DEF WrapperInv, Disconnecting, CodeTypeOK
  <1>5. (\A d \in Clients : ClientInv(d))'  BY DEF ClientInv, CodeTypeOK
  <1>6. FlagFollowsEvents'  BY DEF FlagFollowsEvents, CodeTypeOK, WrapperInv, ClientInv,
        HandleInv, NoClientLost
  <1> QED  BY <1>1, <1>2, <1>3, <1>4, <1>5, <1>6

LEMMA TaskRunsKeeps ==
    ASSUME CodeTypeOK, LinkInv, OneInside', NEW c \in Clients, TaskRuns(c)
    PROVE  LinkInv'
  <1> USE DEF LinkInv, TaskRuns, TaskStep, Tasks
  <1>1. PlaceInv'  BY DEF PlaceInv, taskVars
  <1>2. StopInv'  BY DEF StopInv, taskVars
  <1>3. HandleInv'  BY DEF HandleInv, taskVars, NoClientLost
  <1>4. (\A u \in Tasks : WrapperInv(u))'  BY DEF WrapperInv, taskVars
  <1>5. (\A d \in Clients : ClientInv(d))'  BY DEF ClientInv, taskVars
  <1>6. FlagFollowsEvents'  BY DEF FlagFollowsEvents
  <1> QED  BY <1>1, <1>2, <1>3, <1>4, <1>5, <1>6

LEMMA TaskInitKeeps ==
    ASSUME CodeTypeOK, LinkInv, OneInside', NEW c \in Clients, TaskInit(c)
    PROVE  LinkInv'
  <1> USE DEF LinkInv, TaskInit, TaskStep, Tasks
  <1>1. PlaceInv'  BY DEF PlaceInv, taskVars
  <1>2. StopInv'  BY DEF StopInv, taskVars
  <1>3. HandleInv'  BY DEF HandleInv, taskVars, NoClientLost
  <1>4. (\A u \in Tasks : WrapperInv(u))'  BY DEF WrapperInv, taskVars, Disconnecting,
        ClientInv, OneInside, Inside
  <1>5. (\A d \in Clients : ClientInv(d))'  BY DEF ClientInv, taskVars
  <1>6. FlagFollowsEvents'  BY DEF FlagFollowsEvents, CodeTypeOK, ClientInv
  <1> QED  BY <1>1, <1>2, <1>3, <1>4, <1>5, <1>6

LEMMA BeginConnectKeeps ==
    ASSUME CodeTypeOK, LinkInv, OneInside', NEW c \in Clients, BeginConnect(c)
    PROVE  LinkInv'
  <1> USE DEF LinkInv, BeginConnect, TaskStep, Tasks
  <1>1. PlaceInv'  BY DEF PlaceInv, taskVars
  <1>2. StopInv'  BY DEF StopInv, taskVars
  <1>3. HandleInv'  BY DEF HandleInv, taskVars, NoClientLost
  <1>4. (\A u \in Tasks : WrapperInv(u))'  BY DEF WrapperInv, InState, taskVars
  <1>5. (\A d \in Clients : ClientInv(d))'  BY DEF ClientInv, InState, taskVars,
        FlagFollowsEvents
  <1>6. FlagFollowsEvents'  BY DEF FlagFollowsEvents, InState
  <1> QED  BY <1>1, <1>2, <1>3, <1>4, <1>5, <1>6

LEMMA ConnectedKeeps ==
    ASSUME CodeTypeOK, LinkInv, OneInside', NEW c \in Clients, Connected(c)
    PROVE  LinkInv'
  <1> USE DEF LinkInv, Connected, TaskStep, Tasks
  <1>1. PlaceInv'  BY DEF PlaceInv, taskVars
  <1>2. StopInv'  BY DEF StopInv, taskVars
  <1>3. HandleInv'  BY DEF HandleInv, taskVars, NoClientLost
  <1>4. (\A u \in Tasks : WrapperInv(u))'  BY DEF WrapperInv, taskVars
  <1>5. (\A d \in Clients : ClientInv(d))'  BY DEF ClientInv, taskVars, CodeTypeOK
  <1>6. FlagFollowsEvents'  BY DEF FlagFollowsEvents
  <1> QED  BY <1>1, <1>2, <1>3, <1>4, <1>5, <1>6

LEMMA AbortConnectionKeeps ==
    ASSUME CodeTypeOK, LinkInv, OneInside', NEW c \in Clients, AbortConnection(c)
    PROVE  LinkInv'
  <1> USE DEF LinkInv, AbortConnection, TaskStep, Tasks
  <1>1. PlaceInv'  BY DEF PlaceInv, taskVars
  <1>2. StopInv'  BY DEF StopInv, taskVars
  <1>3. HandleInv'  BY DEF HandleInv, taskVars, NoClientLost
  <1>4. (\A u \in Tasks : WrapperInv(u))'  BY DEF WrapperInv, InState, taskVars,
        CodeTypeOK
  <1>5. (\A d \in Clients : ClientInv(d))'  BY DEF ClientInv, InState, taskVars,
        CodeTypeOK
  <1>6. FlagFollowsEvents'  BY DEF FlagFollowsEvents, InState, CodeTypeOK
  <1> QED  BY <1>1, <1>2, <1>3, <1>4, <1>5, <1>6

LEMMA EventKeeps ==
    ASSUME CodeTypeOK, LinkInv, OneInside', NEW c \in Clients, Event(c)
    PROVE  LinkInv'
  <1> USE DEF LinkInv, Event, TaskStep, Tasks, taskVars
  <1>1. PlaceInv'  BY DEF PlaceInv
  <1>2. StopInv'  BY DEF StopInv
  <1>3. HandleInv'  BY LinkAssumption DEF HandleInv, NoClientLost, ClientInv
  <1>4. (\A u \in Tasks : WrapperInv(u))'  BY DEF WrapperInv, Disconnecting, ClientInv,
        HandleInv, NoClientLost, OneInside, Inside
  <1>5. (\A d \in Clients : ClientInv(d))'  BY DEF ClientInv, CodeTypeOK, HandleInv,
        NoClientLost
  <1>6. FlagFollowsEvents'
    <2>1. \A d \in Clients : wpc'[d] = "loop" => d = c
      BY DEF CodeTypeOK, HandleInv, NoClientLost, ClientInv
    <2>2. CASE wpc[c] = "up"
      <3>1. flag' /\ state' = state /\ state[c] = "CONNECTED"
        BY <2>2 DEF ClientInv
      <3> QED  BY <2>1, <3>1 DEF FlagFollowsEvents
    <2>3. CASE wpc[c] = "down"
      <3>1. ~flag' /\ state' = state /\ state[c] = "WAIT_TIMEOUT"
        BY <2>3 DEF ClientInv
      <3> QED  BY <2>1, <3>1 DEF FlagFollowsEvents
    <2> QED  BY <2>2, <2>3
  <1> QED  BY <1>1, <1>2, <1>3, <1>4, <1>5, <1>6

LEMMA RetryKeeps ==
    ASSUME CodeTypeOK, LinkInv, OneInside', NEW c \in Clients, Retry(c)
    PROVE  LinkInv'
  <1> USE DEF LinkInv, Retry, TaskStep, Tasks
  <1>1. PlaceInv'  BY DEF PlaceInv, taskVars
  <1>2. StopInv'  BY DEF StopInv, taskVars
  <1>3. HandleInv'  BY DEF HandleInv, taskVars, NoClientLost
  <1>4. (\A u \in Tasks : WrapperInv(u))'  BY DEF WrapperInv, InState, taskVars
  <1>5. (\A d \in Clients : ClientInv(d))'  BY DEF ClientInv, InState, taskVars
  <1>6. FlagFollowsEvents'  BY DEF FlagFollowsEvents, InState
  <1> QED  BY <1>1, <1>2, <1>3, <1>4, <1>5, <1>6

LEMMA CloseReceivedKeeps ==
    ASSUME CodeTypeOK, LinkInv, OneInside', NEW c \in Clients, CloseReceived(c)
    PROVE  LinkInv'
  <1> USE DEF LinkInv, CloseReceived, TaskStep, Tasks
  <1>1. PlaceInv'  BY DEF PlaceInv, taskVars
  <1>2. StopInv'  BY DEF StopInv, taskVars
  <1>3. HandleInv'  BY DEF HandleInv, taskVars, NoClientLost
  <1>4. (\A u \in Tasks : WrapperInv(u))'  BY DEF WrapperInv, InState, taskVars
  <1>5. (\A d \in Clients : ClientInv(d))'  BY DEF ClientInv, InState, taskVars
  <1>6. FlagFollowsEvents'  BY DEF FlagFollowsEvents, InState
  <1> QED  BY <1>1, <1>2, <1>3, <1>4, <1>5, <1>6

LEMMA EchoCloseKeeps ==
    ASSUME CodeTypeOK, LinkInv, OneInside', NEW c \in Clients, EchoClose(c)
    PROVE  LinkInv'
  <1> USE DEF LinkInv, EchoClose, TaskStep, Tasks
  <1>1. PlaceInv'  BY DEF PlaceInv, taskVars
  <1>2. StopInv'  BY DEF StopInv, taskVars
  <1>3. HandleInv'  BY DEF HandleInv, taskVars, NoClientLost
  <1>4. (\A u \in Tasks : WrapperInv(u))'  BY DEF WrapperInv, InState, taskVars
  <1>5. (\A d \in Clients : ClientInv(d))'  BY DEF ClientInv, InState, taskVars
  <1>6. FlagFollowsEvents'  BY DEF FlagFollowsEvents, InState
  <1> QED  BY <1>1, <1>2, <1>3, <1>4, <1>5, <1>6

LEMMA ClosedKeeps ==
    ASSUME CodeTypeOK, LinkInv, OneInside', NEW c \in Clients, Closed(c)
    PROVE  LinkInv'
  <1> USE DEF LinkInv, Closed, TaskStep, Tasks
  <1>1. PlaceInv'  BY DEF PlaceInv, taskVars
  <1>2. StopInv'  BY DEF StopInv, taskVars
  <1>3. HandleInv'  BY DEF HandleInv, taskVars, NoClientLost
  <1>4. (\A u \in Tasks : WrapperInv(u))'  BY DEF WrapperInv, InState, taskVars
  <1>5. (\A d \in Clients : ClientInv(d))'  BY DEF ClientInv, InState, taskVars,
        CodeTypeOK
  <1>6. FlagFollowsEvents'  BY DEF FlagFollowsEvents, InState
  <1> QED  BY <1>1, <1>2, <1>3, <1>4, <1>5, <1>6

LEMMA LeaveLoopKeeps ==
    ASSUME CodeTypeOK, LinkInv, OneInside', NEW c \in Clients, LeaveLoop(c)
    PROVE  LinkInv'
  <1> USE DEF LinkInv, LeaveLoop, TaskStep, Tasks
  <1>1. PlaceInv'  BY DEF PlaceInv, taskVars
  <1>2. StopInv'  BY DEF StopInv, taskVars
  <1>3. HandleInv'  BY DEF HandleInv, taskVars, NoClientLost
  <1>4. (\A u \in Tasks : WrapperInv(u))'  BY DEF WrapperInv, taskVars
  <1>5. (\A d \in Clients : ClientInv(d))'  BY DEF ClientInv, taskVars
  <1>6. FlagFollowsEvents'  BY DEF FlagFollowsEvents
  <1> QED  BY <1>1, <1>2, <1>3, <1>4, <1>5, <1>6

LEMMA FinishKeeps ==
    ASSUME CodeTypeOK, LinkInv, OneInside', NEW c \in Clients, Finish(c)
    PROVE  LinkInv'
  <1> USE DEF LinkInv, Finish, TaskStep, Tasks
  <1>1. PlaceInv'  BY DEF PlaceInv, taskVars
  <1>2. StopInv'  BY DEF StopInv, taskVars
  <1>3. HandleInv'  BY DEF HandleInv, taskVars, NoClientLost
  <1>4. (\A u \in Tasks : WrapperInv(u))'  BY DEF WrapperInv, taskVars
  <1>5. (\A d \in Clients : ClientInv(d))'  BY DEF ClientInv, taskVars, CodeTypeOK
  <1>6. FlagFollowsEvents'  BY DEF FlagFollowsEvents
  <1> QED  BY <1>1, <1>2, <1>3, <1>4, <1>5, <1>6

LEMMA TaskEndsKeeps ==
    ASSUME CodeTypeOK, LinkInv, OneInside', NEW c \in Clients, TaskEnds(c)
    PROVE  LinkInv'
  <1> USE DEF LinkInv, TaskEnds, TaskStep, Tasks
  <1>1. PlaceInv'  BY DEF PlaceInv, taskVars
  <1>2. StopInv'  BY DEF StopInv, taskVars
  <1>3. HandleInv'  BY DEF HandleInv, taskVars, NoClientLost
  <1>4. (\A u \in Tasks : WrapperInv(u))'  BY DEF WrapperInv, taskVars
  <1>5. (\A d \in Clients : ClientInv(d))'  BY DEF ClientInv, taskVars
  <1>6. FlagFollowsEvents'  BY DEF FlagFollowsEvents
  <1> QED  BY <1>1, <1>2, <1>3, <1>4, <1>5, <1>6

LEMMA ReclaimKeeps ==
    ASSUME CodeTypeOK, LinkInv, OneInside', NEW c \in Clients, Reclaim(c)
    PROVE  LinkInv'
  <1> USE DEF LinkInv, Reclaim, TaskStep, Tasks
  <1>1. PlaceInv'  BY DEF PlaceInv, taskVars
  <1>2. StopInv'  BY DEF StopInv, taskVars
  <1>3. HandleInv'  BY DEF HandleInv, taskVars, NoClientLost
  <1>4. (\A u \in Tasks : WrapperInv(u))'  BY DEF WrapperInv, taskVars
  <1>5. (\A d \in Clients : ClientInv(d))'  BY DEF ClientInv, taskVars, CodeTypeOK
  <1>6. FlagFollowsEvents'  BY DEF FlagFollowsEvents
  <1> QED  BY <1>1, <1>2, <1>3, <1>4, <1>5, <1>6

LEMMA ChangeModeKeeps ==
    ASSUME LinkInv, ChangeMode
    PROVE  LinkInv'
  <1> USE DEF LinkInv, ChangeMode, linkVars, taskVars, cliVars
  <1>1. OneInside' /\ PlaceInv' /\ StopInv'
    BY DEF OneInside, Inside, PlaceInv, StopInv
  <1>2. HandleInv' /\ FlagFollowsEvents'
    BY DEF HandleInv, NoClientLost, FlagFollowsEvents
  <1>3. (\A u \in Tasks : WrapperInv(u))'  BY DEF WrapperInv
  <1>4. (\A d \in Clients : ClientInv(d))'  BY DEF ClientInv
  <1> QED  BY <1>1, <1>2, <1>3, <1>4

LEMMA RebootKeeps == Reboot => LinkInv'
  <1> SUFFICES ASSUME Reboot PROVE LinkInv'  OBVIOUS
  <1> USE DEF Reboot, Tasks
  <1>1. OneInside' /\ PlaceInv' /\ StopInv'
    BY DEF OneInside, Inside, PlaceInv, StopInv, Disconnecting
  <1>2. HandleInv' /\ FlagFollowsEvents'
    BY DEF HandleInv, NoClientLost, FlagFollowsEvents
  <1>3. (\A u \in Tasks : WrapperInv(u))'  BY DEF WrapperInv, Disconnecting
  <1>4. (\A d \in Clients : ClientInv(d))'  BY DEF ClientInv
  <1> QED  BY <1>1, <1>2, <1>3, <1>4 DEF LinkInv

LEMMA StutterKeeps == LinkInv /\ UNCHANGED vars => LinkInv'
  <1> SUFFICES ASSUME LinkInv, UNCHANGED vars PROVE LinkInv'  OBVIOUS
  <1> USE DEF LinkInv, vars, codeVars, linkVars, taskVars, cliVars
  <1>1. OneInside' /\ PlaceInv' /\ StopInv'
    BY DEF OneInside, Inside, PlaceInv, StopInv
  <1>2. HandleInv' /\ FlagFollowsEvents'
    BY DEF HandleInv, NoClientLost, FlagFollowsEvents
  <1>3. (\A u \in Tasks : WrapperInv(u))'  BY DEF WrapperInv
  <1>4. (\A d \in Clients : ClientInv(d))'  BY DEF ClientInv
  <1> QED  BY <1>1, <1>2, <1>3, <1>4

LEMMA LinkStarts == Init => LinkInv
  <1> SUFFICES ASSUME Init PROVE LinkInv  OBVIOUS
  <1> USE DEF Init, LinkInit, Tasks
  <1>1. OneInside /\ PlaceInv /\ StopInv
    BY DEF OneInside, Inside, PlaceInv, StopInv, Disconnecting
  <1>2. HandleInv /\ FlagFollowsEvents
    BY DEF HandleInv, NoClientLost, FlagFollowsEvents
  <1>3. \A u \in Tasks : WrapperInv(u)  BY DEF WrapperInv, Disconnecting
  <1>4. \A d \in Clients : ClientInv(d)  BY DEF ClientInv
  <1> QED  BY <1>1, <1>2, <1>3, <1>4 DEF LinkInv

\* A step of the code that does not lead both tasks into the wrapper.
LEMMA CodeKeeps ==
    ASSUME CodeTypeOK, LinkInv, OneInside', Code
    PROVE  LinkInv'
  <1>1. CASE \E t \in Tasks : Wrapper(t)
    BY <1>1, ConnectTestKeeps, DisconnectTestKeeps, ClientStopKeeps, ClientStoppedKeeps,
       ClientDestroyKeeps, ClientDestroyStoppedKeeps, ClientFreeKeeps,
       DisconnectDoneKeeps, ClientInitKeeps, ClientStartKeeps, ClientStartBitsKeeps
       DEF Wrapper
  <1>2. CASE \E t \in Tasks : WrapperFails(t)
    BY <1>2, ClientInitFailsKeeps, ClientStartFailsKeeps DEF WrapperFails
  <1>3. CASE \E c \in Clients : ClientTask(c)
    BY <1>3, TaskRunsKeeps, TaskInitKeeps, BeginConnectKeeps, EventKeeps, RetryKeeps,
       EchoCloseKeeps, ClosedKeeps, LeaveLoopKeeps, FinishKeeps, TaskEndsKeeps,
       ReclaimKeeps DEF ClientTask
  <1>4. CASE \E c \in Clients : Network(c)
    BY <1>4, ConnectedKeeps, AbortConnectionKeeps, CloseReceivedKeeps DEF Network
  <1>5. CASE Manager
    BY <1>5, StartMonitorKeeps, LoopTestKeeps, LookModeKeeps, LookFlagKeeps, WakeKeeps,
       LeaveKeeps, StopTestKeeps, StopDeleteKeeps DEF Manager
  <1>6. CASE Start \/ Stop \/ Send \/ SendCall \/ SendOk \/ SendFails
    BY <1>6, StartKeeps, StopKeeps, SendKeeps, SendCallKeeps, SendOkKeeps, SendFailsKeeps
  <1>7. CASE ChangeMode
    BY <1>7, ChangeModeKeeps
  <1> QED  BY <1>1, <1>2, <1>3, <1>4, <1>5, <1>6, <1>7 DEF Code

-----------------------------------------------------------------------------
(* What holds until the first race *)

\* races has the race of the present state.
WrapperRaceInv == CodeTypeOK /\ ("wrapper" \in races \/ LinkInv)

LEMMA WrapperRaceStep == WrapperRaceInv /\ [Next]_vars => WrapperRaceInv'
  <1> SUFFICES ASSUME WrapperRaceInv, [Next]_vars, "wrapper" \notin races'
               PROVE  LinkInv'
    BY CodeTypeStep DEF WrapperRaceInv
  <1>1. CASE Code /\ races' = races \cup {r \in Races : Racing(r)'}
    <2>1. "wrapper" \notin races /\ ~Racing("wrapper")'
      BY <1>1 DEF Races
    <2>2. OneInside'
      BY <2>1 DEF Racing, OneInside
    <2> QED  BY <1>1, <2>1, <2>2, CodeKeeps DEF WrapperRaceInv
  <1>2. CASE Reboot
    BY <1>2, RebootKeeps
  <1>3. CASE UNCHANGED vars
    BY <1>3, StutterKeeps DEF WrapperRaceInv, vars
  <1> QED  BY <1>1, <1>2, <1>3 DEF Next

\* Where the two tasks, the wrapper's variables and the clients' tasks can be,
\* together, until both tasks are inside the wrapper: a task there knows its
\* client.
THEOREM LinkInvariant == Spec => []("wrapper" \in races \/ LinkInv)
  <1>1. Init => WrapperRaceInv
    BY LinkStarts, LinkTypesStart DEF WrapperRaceInv, LinkTypeOK
  <1>2. WrapperRaceInv => ("wrapper" \in races \/ LinkInv)
    BY DEF WrapperRaceInv
  <1> QED  BY <1>1, <1>2, WrapperRaceStep, PTL DEF Spec

\* Connect, disconnect, send and the library's task follow a pointer to a
\* client that esp_websocket_client_destroy has freed only after both tasks
\* have been inside the wrapper.
THEOREM LinkUseAfterFreeNeedsRace == Spec => []UseAfterFreeNeedsRace
  <1>1. LinkInv => NoUseAfterFree
    BY DEF LinkInv, NoUseAfterFree, Uses, WrapperInv, ClientInv
  <1> QED  BY <1>1, LinkInvariant, PTL DEF UseAfterFreeNeedsRace

\* Every client that exists is the one websocket_client points to, until both
\* tasks have been inside the wrapper.
THEOREM LinkLeakNeedsRace == Spec => []LeakNeedsRace
  <1>1. LinkInv => NoClientLost
    BY DEF LinkInv, HandleInv
  <1> QED  BY <1>1, LinkInvariant, PTL DEF LeakNeedsRace

\* is_connected follows the events until both tasks have been inside the
\* wrapper, also after a stop or a start that overtakes the client's task.
THEOREM LinkStaleFlagNeedsRace == Spec => []StaleFlagNeedsRace
  <1>1. LinkInv => FlagFollowsEvents
    BY DEF LinkInv
  <1> QED  BY <1>1, LinkInvariant, PTL DEF StaleFlagNeedsRace

\* server_manager_stop leaves no monitor, no client, no task of one and no
\* flag, wherever it finds the monitor outside the wrapper.
THEOREM LinkLeftoverNeedsRace == Spec => []LeftoverNeedsRace
  <1>1. CodeTypeOK /\ LinkInv => StopLeavesNothing
    BY LinkAssumption DEF LinkInv, StopLeavesNothing, StopInv, HandleInv, NoClientLost,
       ClientInv
  <1>2. LinkTypeOK => CodeTypeOK
    BY DEF LinkTypeOK
  <1> QED  BY <1>1, <1>2, LinkInvariant, LinkTyped, PTL DEF LeftoverNeedsRace

-----------------------------------------------------------------------------
(* Without any race, a stop is heard *)

LEMMA HeardStarts == Init => HeardInv
  BY DEF Init, LinkInit, HeardInv, Racing, Inside, Disconnecting, Waiting, Tasks

LEMMA HeardKeeps ==
    ASSUME CodeTypeOK, LinkInv, HeardInv, OneInside', Code, \A r \in Races : ~Racing(r)'
    PROVE  HeardInv'
  <1> DEFINE Ended == \A c \in Clients : ~stopped[c] => wpc[c] \notin {"none", "last"}
             Asked == \A t \in Tasks : pc[t] = "dcStopWait" =>
                        stopped[ws] \/ (~run[ws] /\ wpc[ws] \notin {"none", "begin", "last"})
  <1> SUFFICES Ended' /\ Asked'
    BY DEF HeardInv
  <1>0. Ended /\ Asked
    BY DEF HeardInv
  <1>1. CASE \E t \in Tasks : ClientStop(t)
    <2> PICK t \in Tasks : ClientStop(t)
      BY <1>1
    <2>1. Ended'
      BY <1>0 DEF ClientStop, AskStop
    <2>2. ~(pc'[t] = "dcStopWait" /\ wpc'[arg'[t]] = "begin")
      BY DEF Racing, Races, Waiting
    <2>3. Asked'
      BY <1>0, <2>2 DEF ClientStop, AskStop, Step, LinkInv, WrapperInv, CodeTypeOK,
         OneInside, Inside, Disconnecting, Tasks
    <2> QED  BY <2>1, <2>3
  <1>2. CASE \E t \in Tasks : ClientStartBits(t)
    <2> PICK t \in Tasks : ClientStartBits(t)
      BY <1>2
    <2>1. wpc[arg[t]] \notin {"none", "last"}
      BY DEF ClientStartBits, Step, HeardInv, Racing, Races
    <2>2. Ended'
      BY <1>0, <2>1 DEF ClientStartBits, CodeTypeOK
    <2>3. Asked'
      BY <1>0 DEF ClientStartBits, Step, AfterConnect, LinkInv, WrapperInv, CodeTypeOK,
         OneInside, Inside, Disconnecting, Tasks
    <2> QED  BY <2>2, <2>3
  <1>3. CASE \E t \in Tasks : ClientStart(t)
    BY <1>0, <1>3 DEF ClientStart, Step, LinkInv, WrapperInv, CodeTypeOK, OneInside,
       Inside, Disconnecting, Tasks
  <1>4. CASE \E t \in Tasks : \/ ConnectTest(t) \/ DisconnectTest(t) \/ ClientStopped(t)
                             \/ ClientStartFails(t) \/ ClientInitFails(t)
    BY <1>0, <1>4 DEF ConnectTest, DisconnectTest, ClientStopped, StopSeen,
       ClientStartFails, ClientInitFails, AfterConnect, AfterDisconnect, Step, LinkInv,
       WrapperInv, CodeTypeOK, cliVars, Tasks
  <1>5. CASE \E t \in Tasks : ClientDestroy(t) \/ ClientDestroyStopped(t) \/ ClientFree(t)
    BY <1>0, <1>5 DEF ClientDestroy, AskStop, ClientDestroyStopped, StopSeen, ClientFree,
       Step, LinkInv, WrapperInv, CodeTypeOK, cliVars, Tasks
  <1>6. CASE \E t \in Tasks : DisconnectDone(t) \/ ClientInit(t)
    BY <1>0, <1>6 DEF DisconnectDone, ClientInit, AfterConnect, AfterDisconnect, Step,
       LinkInv, WrapperInv, CodeTypeOK, OneInside, Inside, Disconnecting, cliVars, Tasks
  <1>7. CASE Start \/ Stop \/ Send \/ SendCall \/ SendOk \/ SendFails
    BY <1>0, <1>7 DEF Start, Stop, Send, SendCall, SendOk, SendFails, Step, CodeTypeOK,
       cliVars, Tasks
  <1>8. CASE Manager
    BY <1>0, <1>8 DEF Manager, StartMonitor, LoopTest, LookMode, LookFlag, Wake, Leave,
       StopTest, StopDelete, Step, CodeTypeOK, cliVars, Tasks
  <1>9. CASE \E c \in Clients : ClientTask(c) \/ Network(c)
    <2> PICK c \in Clients : ClientTask(c) \/ Network(c)
      BY <1>9
    <2>1. CASE Reclaim(c)
      BY <1>0, <2>1, LinkAssumption DEF Reclaim, LinkInv, WrapperInv, taskVars,
         CodeTypeOK, Tasks
    <2>2. CASE BeginConnect(c) \/ Event(c) \/ Retry(c)
               \/ Connected(c) \/ AbortConnection(c) \/ CloseReceived(c)
      BY <1>0, <2>2, LinkAssumption DEF BeginConnect, Event, Retry, Connected,
         AbortConnection, CloseReceived, TaskStep, InState, LinkInv, WrapperInv, taskVars,
         CodeTypeOK, Tasks
    <2>3. CASE TaskRuns(c) \/ TaskInit(c)
      <3>1. UNCHANGED <<pc, ws>> /\ wpc[c] \in {"begin", "begin2"}
        BY <2>3 DEF TaskRuns, TaskInit, TaskStep, taskVars
      <3>2. wpc'[c] \in {"begin2", "loop"} /\ \A d \in Clients : d # c => wpc'[d] = wpc[d]
        BY <2>3 DEF TaskRuns, TaskInit, TaskStep, CodeTypeOK
      <3>3. \A d \in Clients : d # c => stopped'[d] = stopped[d] /\ run'[d] = run[d]
        BY <2>3 DEF TaskRuns, TaskInit, CodeTypeOK
      <3>4. Ended'
        BY <1>0, <3>2, <3>3
      <3>5. (\E t \in Tasks : pc[t] = "dcStopWait") /\ ws = c => ~stopped[c]
        BY <3>1 DEF LinkInv, ClientInv, OneInside, Inside, Disconnecting, Tasks
      <3>6. (\E t \in Tasks : pc[t] = "dcStopWait") => ws \in Clients
        BY DEF LinkInv, WrapperInv, CodeTypeOK
      <3>7. (\E t \in Tasks : pc[t] = "dcStopWait") /\ ws = c =>
              ~run[c] /\ wpc[c] = "begin2"
        BY <1>0, <3>1, <3>5
      <3>8. (\E t \in Tasks : pc[t] = "dcStopWait") /\ ws = c => ~run'[c] /\ wpc'[c] = "loop"
        BY <2>3, <3>7 DEF TaskRuns, TaskInit, TaskStep, CodeTypeOK
      <3>9. Asked'
        BY <1>0, <3>1, <3>2, <3>3, <3>6, <3>8
      <3> QED  BY <3>4, <3>9
    <2>4. CASE EchoClose(c) \/ Closed(c) \/ LeaveLoop(c) \/ Finish(c) \/ TaskEnds(c)
      BY <1>0, <2>4, LinkAssumption DEF EchoClose, Closed, LeaveLoop, Finish, TaskEnds,
         TaskStep, InState, LinkInv, WrapperInv, taskVars, CodeTypeOK, Tasks
    <2> QED  BY <2>1, <2>2, <2>3, <2>4 DEF ClientTask, Network
  <1>10. CASE ChangeMode
    BY <1>0, <1>10 DEF ChangeMode, linkVars, taskVars, cliVars
  <1> QED
    BY <1>1, <1>2, <1>3, <1>4, <1>5, <1>6, <1>7, <1>8, <1>9, <1>10 DEF Code, Wrapper,
       WrapperFails

RaceInv == WrapperRaceInv /\ (races # {} \/ HeardInv)

LEMMA RaceStep == RaceInv /\ [Next]_vars => RaceInv'
  <1> SUFFICES ASSUME RaceInv, [Next]_vars, races' = {}
               PROVE  HeardInv'
    BY WrapperRaceStep DEF RaceInv
  <1>1. CASE Code /\ races' = races \cup {r \in Races : Racing(r)'}
    <2>1. races = {} /\ \A r \in Races : ~Racing(r)'
      BY <1>1
    <2>2. OneInside'
      BY <2>1 DEF Racing, Races, OneInside
    <2> QED  BY <1>1, <2>1, <2>2, HeardKeeps DEF RaceInv, WrapperRaceInv
  <1>2. CASE Reboot
    BY <1>2 DEF Reboot, HeardInv, Racing, Inside, Disconnecting, Waiting, Tasks
  <1>3. CASE UNCHANGED vars
    BY <1>3 DEF RaceInv, HeardInv, Racing, Inside, vars, codeVars, linkVars, taskVars,
       cliVars
  <1> QED  BY <1>1, <1>2, <1>3 DEF Next

\* A task of the wrapper that waits in esp_websocket_client_stop has been
\* heard: the client's task has ended or cannot but end, in every order of the
\* steps that has none of the four races.
THEOREM LinkUnheardNeedsRace == Spec => []UnheardNeedsRace
  <1>1. Init => RaceInv
    BY LinkStarts, LinkTypesStart, HeardStarts DEF RaceInv, WrapperRaceInv, LinkTypeOK
  <1>2. RaceInv => UnheardNeedsRace
    BY DEF RaceInv, WrapperRaceInv, LinkInv, HeardInv, UnheardNeedsRace, StopAnswered,
       WrapperInv, Waiting
  <1> QED  BY <1>1, <1>2, RaceStep, PTL DEF Spec

-----------------------------------------------------------------------------
(* The mode *)

\* What a running mode_switch_set is about to save.
SaveInv ==
    /\ ModeTypeOK
    /\ setPc["app"] = "idle" => BootMode = mode
    /\ setPc["app"] = "write" => setArg["app"] = mode

LEMMA SaveStep ==
    ASSUME ModeFaults = {}, SaveInv, [Next]_vars
    PROVE  SaveInv'
  <1> USE ModeAssumption, LinkAssumption DEF SaveInv, ModeTypeOK, BootMode, Modes
  <1>1. CASE UNCHANGED modeVars
    BY <1>1 DEF modeVars
  <1>2. CASE ModeCall("app")
    BY <1>2 DEF ModeCall, SetMode, OpenNvs, WriteNvs, SetStep
  <1>3. CASE PowerCycle
    BY <1>3 DEF PowerCycle
  <1>4. UNCHANGED modeVars \/ ModeCall("app") \/ PowerCycle
    <2>1. CASE \E t \in Tasks : Wrapper(t) \/ WrapperFails(t)
      BY <2>1 DEF Wrapper, WrapperFails, ConnectTest, DisconnectTest, ClientStop,
         ClientStopped, ClientDestroy, ClientDestroyStopped, AskStop, StopSeen,
         ClientFree, DisconnectDone, ClientInit, ClientStart, ClientStartBits,
         ClientInitFails, ClientStartFails
    <2>2. CASE \E c \in Clients : ClientTask(c) \/ Network(c)
      BY <2>2 DEF ClientTask, Network, TaskRuns, TaskInit, BeginConnect, Event, Retry,
         EchoClose, Closed, LeaveLoop, Finish, TaskEnds, Reclaim, Connected,
         AbortConnection, CloseReceived
    <2>3. CASE Manager \/ Start \/ Stop \/ Send \/ SendCall \/ SendOk \/ SendFails
      BY <2>3 DEF Manager, StartMonitor, LoopTest, LookMode, LookFlag, Wake, Leave,
         StopTest, StopDelete, Start, Stop, Send, SendCall, SendOk, SendFails
    <2> QED  BY <2>1, <2>2, <2>3 DEF Next, Code, ChangeMode, Reboot, vars, codeVars
  <1> QED  BY <1>1, <1>2, <1>3, <1>4

\* Between calls of mode_switch_set, NVS holds what a reboot has to restore,
\* wherever the power went before and whatever the link does, in any timing.
THEOREM LinkModeRemembered ==
    ASSUME ModeFaults = {}
    PROVE  Spec => []ModeRemembered
  <1>1. Init => SaveInv
    BY ModeAssumption, LinkAssumption DEF Init, ModeInit, SaveInv, ModeTypeOK, BootMode,
       Modes
  <1>2. SaveInv => ModeRemembered
    BY LinkAssumption DEF SaveInv, ModeRemembered
  <1> QED  BY <1>1, <1>2, SaveStep, PTL DEF Spec

-----------------------------------------------------------------------------
(* Until both tasks are inside the wrapper, the link implements ClientLife *)

Lives == [c \in Clients |-> Life(c)]
Starting == \E t \in Tasks : pc[t] = "cnStart"

\* A step seen through the map to ClientLife: one client's life goes on, or
\* none does.
LEMMA LifeGoesOn ==
    ASSUME NEW c \in Clients, NEW x, Life(c)' = x,
           \A d \in Clients : d # c => Life(d)' = Life(d)
    PROVE  Lives' = [Lives EXCEPT ![c] = x] /\ Lives[c] = Life(c)
  BY DEF Lives

LEMMA LifeStays ==
    ASSUME \A d \in Clients : Life(d)' = Life(d)
    PROVE  Lives' = Lives
  BY DEF Lives

\* The two tasks, as long as the wrapper's variables stay and nobody passes the
\* start of a client.
LEMMA LifeOfTasks ==
    ASSUME UNCHANGED <<mem, run, wpc>>, Starting' = Starting
    PROVE  Lives' = Lives
  <1>1. \A d \in Clients : Life(d)' = Life(d)
    BY DEF Life, Starting
  <1> QED  BY <1>1, LifeStays

\* A task at the start of a client is alone inside the wrapper.
LEMMA OneStarts ==
    ASSUME LinkInv, NEW t \in Tasks, Inside(t)
    PROVE  \A u \in Tasks : u # t => pc[u] # "cnStart" /\ pc[u] # "cnBits"
  BY DEF LinkInv, OneInside, Inside, Tasks

\* The steps of the two tasks that ClientLife does not see.
LEMMA TaskStepsUnseen ==
    ASSUME CodeTypeOK, LinkInv,
           \/ \E t \in Tasks : \/ ConnectTest(t) \/ DisconnectTest(t) \/ ClientStopped(t)
                               \/ ClientDestroyStopped(t) \/ ClientStartBits(t)
                               \/ ClientInitFails(t)
           \/ ChangeMode \/ Start \/ Stop \/ Send \/ SendCall \/ SendOk \/ Manager
    PROVE  UNCHANGED <<ws, Lives, flag>>
  <1>1. UNCHANGED <<mem, run, wpc, flag>>
    BY DEF ConnectTest, DisconnectTest, ClientStopped, ClientDestroyStopped, StopSeen,
       ClientStartBits, ClientInitFails, ChangeMode, Start, Stop, Send, SendCall, SendOk,
       Manager, StartMonitor, LoopTest, LookMode, LookFlag, Wake, Leave, StopTest,
       StopDelete, linkVars, taskVars, cliVars
  <1>2. UNCHANGED ws
    BY DEF ConnectTest, DisconnectTest, ClientStopped, ClientDestroyStopped, StopSeen,
       ClientStartBits, ClientInitFails, LinkInv, WrapperInv, Step, ChangeMode, Start,
       Stop, Send, SendCall, SendOk, Manager, StartMonitor, LoopTest, LookMode, LookFlag,
       Wake, Leave, StopTest, StopDelete, linkVars, taskVars, cliVars
  <1>3. Starting' = Starting
    <2> USE DEF Step, CodeTypeOK, Starting
    <2>1. CASE \E t \in Tasks :
                 \/ ConnectTest(t) \/ DisconnectTest(t) \/ ClientStopped(t)
                 \/ ClientDestroyStopped(t) \/ ClientStartBits(t) \/ ClientInitFails(t)
      <3>1. PICK t \in Tasks : /\ pc[t] # "cnStart" /\ pc'[t] # "cnStart"
                              /\ \A u \in Tasks : u # t => pc'[u] = pc[u]
        BY <2>1 DEF ConnectTest, DisconnectTest, ClientStopped, ClientDestroyStopped,
           StopSeen, ClientStartBits, ClientInitFails, AfterConnect, AfterDisconnect
      <3> QED  BY <3>1
    <2>2. CASE \/ Start \/ Stop \/ Send \/ SendCall \/ SendOk \/ StopTest
               \/ LoopTest \/ LookMode \/ LookFlag \/ Wake \/ Leave
      <3>1. PICK t \in Tasks : /\ pc[t] # "cnStart" /\ pc'[t] # "cnStart"
                              /\ \A u \in Tasks : u # t => pc'[u] = pc[u]
        BY <2>2 DEF Start, Stop, Send, SendCall, SendOk, StopTest, LoopTest, LookMode,
           LookFlag, Wake, Leave, Tasks
      <3> QED  BY <3>1
    <2>3. CASE StartMonitor
      BY <2>3 DEF StartMonitor, LinkInv, PlaceInv, Tasks
    <2>4. CASE StopDelete
      <3>1. pc["app"] = "stopDelete" /\ pc["mon"] # "cnStart"
        BY <2>4, OneStarts DEF StopDelete, Inside, Tasks
      <3> QED  BY <2>4, <3>1 DEF StopDelete, Tasks
    <2>5. CASE ChangeMode
      BY <2>5 DEF ChangeMode, linkVars, taskVars
    <2> QED  BY <2>1, <2>2, <2>3, <2>4, <2>5 DEF Manager
  <1> QED  BY <1>1, <1>2, <1>3, LifeOfTasks

\* The library's stop asks the client's task to end, or has nothing to ask.
LEMMA AskStopIsAsk ==
    ASSUME CodeTypeOK, LinkInv, NEW t \in Tasks, NEW from, NEW wait, NEW next,
           from # "cnStart", wait # "cnStart", next # "cnStart",
           from \in Disconnecting, AskStop(t, from, wait, next)
    PROVE  CL!Ask \/ UNCHANGED <<ws, Lives, flag>>
  <1> USE DEF AskStop, Step
  <1>1. UNCHANGED <<ws, flag, mem, wpc>>
    OBVIOUS
  <1>2. Starting' = Starting
    BY DEF Starting, CodeTypeOK
  <1>3. CASE ws = NoClient \/ stopped[ws]
    BY <1>1, <1>2, <1>3, LifeOfTasks
  <1>4. CASE ~(ws = NoClient \/ stopped[ws])
    <2>1. ws \in Clients /\ run' = [run EXCEPT ![ws] = FALSE] /\ run \in [Clients -> BOOLEAN]
      BY <1>4 DEF CodeTypeOK
    <2>2. \A d \in Clients : d # ws => Life(d)' = Life(d)
      BY <1>1, <1>2, <2>1 DEF Life, Starting
    <2>3. CASE run[ws] /\ wpc[ws] \notin {"none", "begin", "last"}
      <3>1. Life(ws) = "running" /\ Life(ws)' = "asked"
        BY <1>1, <2>1, <2>3 DEF Life
      <3>2. Lives' = [Lives EXCEPT ![ws] = "asked"] /\ Lives[ws] = "running"
        BY <2>1, <2>2, <3>1, LifeGoesOn
      <3> QED  BY <1>1, <2>1, <3>2 DEF CL!Ask, CL!Become, Lives
    <2>4. CASE ~(run[ws] /\ wpc[ws] \notin {"none", "begin", "last"})
      <3>1. Life(ws)' = Life(ws)
        BY <1>1, <1>2, <2>1, <2>4 DEF Life, Starting
      <3> QED  BY <1>1, <2>2, <3>1, LifeStays
    <2> QED  BY <2>3, <2>4
  <1> QED  BY <1>3, <1>4

\* The wrapper creates, starts, frees and forgets one client.
LEMMA WrapperIsLife ==
    ASSUME CodeTypeOK, LinkInv, OneInside', NEW t \in Tasks,
           \/ ClientInit(t) \/ ClientStart(t) \/ ClientStartFails(t)
           \/ ClientFree(t) \/ DisconnectDone(t)
    PROVE  CL!Next
  <1> USE LinkAssumption DEF LinkInv, CodeTypeOK, Step
  <1>1. \A u \in Tasks : u # t => pc[u] # "cnStart" /\ pc[u] # "cnBits"
    BY OneStarts DEF ClientInit, ClientStart, ClientStartFails, ClientFree,
       DisconnectDone, Inside, Disconnecting
  <1>2. CASE ClientInit(t)
    <2>1. PICK c \in Clients : mem[c] = "unused" /\ mem' = [mem EXCEPT ![c] = "live"] /\ ws' = c
      BY <1>2 DEF ClientInit
    <2>2. ws = NoClient /\ ~flag /\ wpc[c] = "none"
      BY <1>2, <2>1 DEF ClientInit, WrapperInv, ClientInv, HandleInv
    <2>3. UNCHANGED <<flag, wpc, run>> /\ pc'[t] = "cnStart" /\ ~Starting
      BY <1>1, <1>2 DEF ClientInit, Starting
    <2>4. Life(c) = "none" /\ Life(c)' = "made"
      BY <2>1, <2>2, <2>3 DEF Life
    <2>5. \A d \in Clients : d # c => Life(d)' = Life(d)
      BY <2>1, <2>2, <2>3 DEF Life, HandleInv, NoClientLost
    <2>6. Lives' = [Lives EXCEPT ![c] = "made"] /\ Lives[c] = "none"
      BY <2>4, <2>5, LifeGoesOn
    <2> QED  BY <2>1, <2>2, <2>3, <2>6 DEF CL!Next, CL!Create, Lives
  <1>3. CASE ClientStart(t)
    <2>1. PICK c \in Clients : c = ws /\ mem[c] = "live" /\ wpc[c] = "none" /\ pc[t] = "cnStart"
      BY <1>3 DEF ClientStart, WrapperInv
    <2>2. UNCHANGED <<ws, flag, mem, run>> /\ wpc' = [wpc EXCEPT ![c] = "begin"]
      BY <1>3, <2>1 DEF ClientStart
    <2>3. Life(c) = "made" /\ Life(c)' = "running"
      BY <2>1, <2>2 DEF Life
    <2>4. \A d \in Clients : d # c => Life(d)' = Life(d)
      BY <2>1, <2>2 DEF Life, HandleInv, NoClientLost
    <2>5. Lives' = [Lives EXCEPT ![c] = "running"] /\ Lives[c] = "made"
      BY <2>1, <2>3, <2>4, LifeGoesOn
    <2> QED  BY <2>1, <2>2, <2>5 DEF CL!Next, CL!Begin, CL!Become, Lives
  <1>4. CASE ClientStartFails(t)
    <2>1. PICK c \in Clients : c = ws /\ mem[c] = "live" /\ wpc[c] = "none" /\ pc[t] = "cnStart"
      BY <1>4 DEF ClientStartFails, WrapperInv
    <2>2. UNCHANGED <<ws, flag, mem, run, wpc>> /\ pc' = [pc EXCEPT ![t] = "dcDestroy"]
      BY <1>4 DEF ClientStartFails, cliVars
    <2>3. \A u \in Tasks : pc'[u] # "cnStart"
      BY <1>1, <2>2
    <2>4. Life(c) = "made" /\ Life(c)' = "ended"
      BY <2>1, <2>2, <2>3 DEF Life
    <2>5. \A d \in Clients : d # c => Life(d)' = Life(d)
      BY <2>1, <2>2 DEF Life, HandleInv, NoClientLost
    <2>6. Lives' = [Lives EXCEPT ![c] = "ended"] /\ Lives[c] = "made"
      BY <2>1, <2>4, <2>5, LifeGoesOn
    <2> QED  BY <2>1, <2>2, <2>6 DEF CL!Next, CL!GiveUp, CL!Become, Lives
  <1>5. CASE ClientFree(t)
    <2>1. PICK c \in Clients :
            /\ c = ws /\ mem[c] = "live" /\ stopped[c] /\ arg[t] = ws
            /\ pc[t] = "dcFree"
      BY <1>5 DEF ClientFree, WrapperInv
    <2>2. UNCHANGED <<ws, flag, run, wpc>> /\ mem' = [mem EXCEPT ![c] = "freed"]
      BY <1>5, <2>1 DEF ClientFree
    <2>3. wpc[c] \in {"none", "last"}
      BY <1>1, <2>1 DEF ClientInv
    <2>4. \A u \in Tasks : pc[u] # "cnStart"
      BY <1>1, <2>1
    <2>5. Life(c) = "ended" /\ Life(c)' = "none"
      BY <2>1, <2>2, <2>3, <2>4 DEF Life
    <2>6. \A d \in Clients : d # c => Life(d)' = Life(d)
      BY <2>1, <2>2 DEF Life, HandleInv, NoClientLost
    <2>7. Lives' = [Lives EXCEPT ![c] = "none"] /\ Lives[c] = "ended"
      BY <2>1, <2>5, <2>6, LifeGoesOn
    <2> QED  BY <2>1, <2>2, <2>7 DEF CL!Next, CL!Free, CL!Become, Lives
  <1>6. CASE DisconnectDone(t)
    <2>1. ws \in Clients /\ mem[ws] = "freed" /\ pc[t] = "dcNull"
      BY <1>6 DEF DisconnectDone, WrapperInv
    <2>2. UNCHANGED <<mem, run, wpc>> /\ ws' = NoClient
      BY <1>6 DEF DisconnectDone, cliVars
    <2>3. ~flag'
      BY <1>6 DEF DisconnectDone, WrapperInv, Disconnecting
    <2>4. Life(ws) = "none"
      BY <2>1 DEF Life, ClientInv
    <2>5. Starting' = Starting
      BY <1>1, <1>6 DEF DisconnectDone, AfterDisconnect, AfterConnect, Starting
    <2>6. Lives' = Lives /\ Lives[ws] = "none"
      BY <2>1, <2>2, <2>4, <2>5, LifeOfTasks DEF Lives
    <2> QED  BY <2>1, <2>2, <2>3, <2>6 DEF CL!Next, CL!Forget, Lives
  <1> QED  BY <1>2, <1>3, <1>4, <1>5, <1>6

\* The client's task: its turns are not seen, its events and its end are.
LEMMA ClientTaskIsLife ==
    ASSUME CodeTypeOK, LinkInv, NEW c \in Clients, ClientTask(c) \/ Network(c)
    PROVE  CL!Next \/ UNCHANGED <<ws, Lives, flag>>
  <1> USE LinkAssumption DEF LinkInv, CodeTypeOK, TaskStep, InState
  <1>1. CASE \/ TaskRuns(c) \/ TaskInit(c) \/ BeginConnect(c) \/ Retry(c) \/ EchoClose(c)
             \/ LeaveLoop(c) \/ TaskEnds(c) \/ Reclaim(c) \/ Network(c)
    <2> USE <1>1 DEF TaskRuns, TaskInit, BeginConnect, Retry, EchoClose, LeaveLoop, TaskEnds,
            Reclaim, Network, Connected, AbortConnection, CloseReceived, taskVars
    <2>1. UNCHANGED <<ws, flag, pc>>
      OBVIOUS
    <2>2. Life(c)' = Life(c)
      BY <2>1 DEF Life
    <2>3. \A d \in Clients : d # c => Life(d)' = Life(d)
      BY <2>1 DEF Life
    <2> QED  BY <2>1, <2>2, <2>3, LifeStays
  <1>2. CASE Event(c)
    <2>1. /\ UNCHANGED <<mem, run, pc, ws>> /\ flag' = (wpc[c] = "up") /\ ws = c
          /\ wpc[c] \in {"up", "down"} /\ wpc' = [wpc EXCEPT ![c] = "loop"]
      BY <1>2 DEF Event, taskVars, ClientInv, HandleInv, NoClientLost
    <2>2. Life(c)' = Life(c) /\ Life(c) \in {"running", "asked"}
      BY <2>1 DEF Life
    <2>3. \A d \in Clients : Life(d)' = Life(d)
      BY <2>1, <2>2 DEF Life
    <2>4. Lives' = Lives /\ Lives[c] \in {"running", "asked"}
      BY <2>2, <2>3, LifeStays DEF Lives
    <2> QED  BY <2>1, <2>4 DEF CL!Next, CL!ReportUp, CL!ReportDown, Lives
  <1>3. CASE Closed(c)
    <2>1. /\ UNCHANGED <<mem, pc, ws, flag>> /\ ws = c /\ run[c]
          /\ run' = [run EXCEPT ![c] = FALSE]
          /\ wpc[c] = "loop" /\ wpc' = [wpc EXCEPT ![c] = "finish"]
      BY <1>3 DEF Closed, taskVars, ClientInv, HandleInv, NoClientLost
    <2>2. Life(c) = "running" /\ Life(c)' = "asked"
      BY <2>1 DEF Life
    <2>3. \A d \in Clients : d # c => Life(d)' = Life(d)
      BY <2>1 DEF Life
    <2>4. Lives' = [Lives EXCEPT ![c] = "asked"] /\ Lives[c] = "running"
      BY <2>2, <2>3, LifeGoesOn
    <2> QED  BY <2>1, <2>4 DEF CL!Next, CL!Ask, CL!Become, Lives
  <1>4. CASE Finish(c)
    <2>1. /\ UNCHANGED <<mem, pc, run, ws, flag>> /\ ws = c /\ ~run[c] /\ mem[c] = "live"
          /\ wpc[c] = "finish" /\ wpc' = [wpc EXCEPT ![c] = "last"]
      BY <1>4 DEF Finish, taskVars, ClientInv, HandleInv, NoClientLost
    <2>2. \A u \in Tasks : pc[u] # "cnStart"
      BY <2>1 DEF WrapperInv
    <2>3. Life(c) = "asked" /\ Life(c)' = "ended"
      BY <2>1, <2>2 DEF Life
    <2>4. \A d \in Clients : d # c => Life(d)' = Life(d)
      BY <2>1 DEF Life
    <2>5. Lives' = [Lives EXCEPT ![c] = "ended"] /\ Lives[c] = "asked"
      BY <2>3, <2>4, LifeGoesOn
    <2> QED  BY <2>1, <2>5 DEF CL!Next, CL!End, CL!Become, Lives
  <1> QED  BY <1>1, <1>2, <1>3, <1>4 DEF ClientTask

\* A step of the code that does not lead both tasks into the wrapper.
LEMMA CodeIsLife ==
    ASSUME CodeTypeOK, LinkInv, OneInside', Code
    PROVE  CL!Next \/ UNCHANGED <<ws, Lives, flag>>
  <1>1. CASE \E t \in Tasks : ClientStop(t) \/ ClientDestroy(t)
    <2>1. PICK t \in Tasks : ClientStop(t) \/ ClientDestroy(t)
      BY <1>1
    <2>2. CL!Ask \/ UNCHANGED <<ws, Lives, flag>>
      BY <2>1, AskStopIsAsk DEF ClientStop, ClientDestroy, Disconnecting
    <2> QED  BY <2>2 DEF CL!Next
  <1>2. CASE \E t \in Tasks : \/ ClientInit(t) \/ ClientStart(t) \/ ClientStartFails(t)
                             \/ ClientFree(t) \/ DisconnectDone(t)
    BY <1>2, WrapperIsLife
  <1>3. CASE \E c \in Clients : ClientTask(c) \/ Network(c)
    BY <1>3, ClientTaskIsLife
  <1>4. CASE SendFails
    <2>1. UNCHANGED <<ws, mem, run, wpc>> /\ (flag' = flag \/ flag' = FALSE)
      BY <1>4 DEF SendFails
    <2>2. Starting' = Starting
      BY <1>4 DEF SendFails, Step, CodeTypeOK, Starting, Tasks
    <2>3. Lives' = Lives
      BY <2>1, <2>2, LifeOfTasks
    <2> QED  BY <2>1, <2>3 DEF CL!Next, CL!ReportDown, Lives
  <1> QED
    BY <1>1, <1>2, <1>3, <1>4, TaskStepsUnseen DEF Code, Wrapper, WrapperFails

\* The two tasks, the wrapper and the library's tasks together implement
\* ClientLife until both tasks are inside the wrapper: one client at a time,
\* from its creation to its end, in order.
THEOREM LinkLifeUntilRace == Spec => LifeUntilRace
  <1>1. Init => CL!Init /\ WrapperRaceInv
    BY LinkStarts, LinkTypesStart DEF Init, LinkInit, CL!Init, Life, Tasks,
       WrapperRaceInv, LinkTypeOK
  <1>2. WrapperRaceInv /\ [Next]_vars => ["wrapper" \in races' \/ CL!Next]_(CL!vars)
    <2> SUFFICES ASSUME WrapperRaceInv, [Next]_vars, "wrapper" \notin races'
                 PROVE  CL!Next \/ UNCHANGED <<ws, Lives, flag>>
      BY DEF CL!vars, Lives
    <2>1. CASE Code /\ races' = races \cup {r \in Races : Racing(r)'}
      <3>1. "wrapper" \notin races /\ ~Racing("wrapper")'
        BY <2>1 DEF Races
      <3> QED  BY <2>1, <3>1, CodeIsLife DEF WrapperRaceInv, Racing, OneInside
    <2>2. CASE Reboot
      <3>1. Lives' = [c \in Clients |-> "none"]
        BY <2>2 DEF Reboot, Lives, Life, Tasks
      <3> QED  BY <2>2, <3>1 DEF Reboot, CL!Next, CL!PowerCycle, Lives
    <2>3. CASE UNCHANGED vars
      BY <2>3, LifeOfTasks DEF vars, codeVars, linkVars, taskVars, cliVars, Starting
    <2> QED  BY <2>1, <2>2, <2>3 DEF Next
  <1> QED  BY <1>1, <1>2, WrapperRaceStep, PTL DEF Spec, LifeUntilRace
=============================================================================
