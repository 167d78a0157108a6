------------------------------- MODULE WifiAp -------------------------------
(***************************************************************************)
(* The access point (wifi_manager.c): stations join and leave, the WiFi    *)
(* driver posts an event for each, and the handler in the event loop task  *)
(* counts.                                                                 *)
(***************************************************************************)
EXTENDS Integers, Sequences, FiniteSets

CONSTANTS
    MaxStations,  \* .max_connection
    MaxEvents     \* bound on the events between the driver and the handler

ASSUME WifiAssumption == MaxStations \in Nat \ {0} /\ MaxEvents \in Nat

VARIABLES
    stations,         \* stations associated with the access point
    wifiEvents,       \* events on their way to the handler
    connectedClients, \* connected_clients
    clientConnected   \* client_connected

wifiVars == <<stations, wifiEvents, connectedClients, clientConnected>>

WifiInit ==
    /\ stations = 0
    /\ wifiEvents = <<>>
    /\ connectedClients = 0
    /\ clientConnected = FALSE

Post(e) ==
    /\ Len(wifiEvents) < MaxEvents
    /\ wifiEvents' = Append(wifiEvents, e)
    /\ UNCHANGED <<connectedClients, clientConnected>>

StationJoins ==
    /\ stations < MaxStations
    /\ stations' = stations + 1
    /\ Post("staconnected")

StationLeaves ==
    /\ stations > 0
    /\ stations' = stations - 1
    /\ Post("stadisconnected")

\* Take the first event.
Handling(e) ==
    /\ wifiEvents # <<>>
    /\ Head(wifiEvents) = e
    /\ wifiEvents' = Tail(wifiEvents)
    /\ UNCHANGED stations

StaConnected ==
    /\ Handling("staconnected")
    /\ connectedClients' = connectedClients + 1
    /\ clientConnected' = TRUE

\* Mutant: any departure clears the flag.
StaDisconnectedClears ==
    /\ Handling("stadisconnected")
    /\ connectedClients' = IF connectedClients > 0 THEN connectedClients - 1 ELSE 0
    /\ clientConnected' = FALSE

StaDisconnected ==
    /\ Handling("stadisconnected")
    /\ connectedClients' = IF connectedClients > 0 THEN connectedClients - 1 ELSE 0
    /\ clientConnected' = (connectedClients' # 0 /\ clientConnected)

EventLoop == StaConnected \/ StaDisconnected

WifiNext == StationJoins \/ StationLeaves \/ EventLoop

-----------------------------------------------------------------------------
(* Properties *)

WifiEvents == {"staconnected", "stadisconnected"}

\* How many of the first k events of q are e.
Occurrences(e, q, k) == Cardinality({i \in 1..k : q[i] = e})

\* The count once the handler has seen the first k events that wait.
CountAfter(k) ==
    connectedClients + Occurrences("staconnected", wifiEvents, k)
                     - Occurrences("stadisconnected", wifiEvents, k)

\* No station is counted twice or forgotten: the events on their way bring
\* the count to the number of stations, on no way there does it leave
\* 0..MaxStations (so the handler's test for zero never hides an error), and
\* the flag says whether the count is zero (wifi_event_handler).
CountsStations ==
    /\ CountAfter(Len(wifiEvents)) = stations
    /\ \A k \in 0..Len(wifiEvents) : CountAfter(k) \in 0..MaxStations
    /\ clientConnected <=> connectedClients > 0

=============================================================================
