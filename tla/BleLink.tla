------------------------------- MODULE BleLink -------------------------------
(***************************************************************************)
(* The BLE peripheral (ble_manager.c): advertising, the connection of a    *)
(* central, and is_connected, which the GAP listener keeps in the NimBLE   *)
(* host task.  Controller and host are NimBLE, seen through the calls and  *)
(* callbacks of ble_manager.c.                                             *)
(***************************************************************************)
EXTENDS Naturals, Sequences

CONSTANTS
    BleFaults,  \* {"reset", "adv"}: the controller resets, advertising does not start
    MaxHci      \* bound on the events between controller and host

ASSUME BleAssumption == BleFaults \subseteq {"reset", "adv"} /\ MaxHci \in Nat \ {0}

VARIABLES
    synced,       \* host and controller are in sync
    advertising,  \* the controller advertises
    linked,       \* a central is connected to the controller
    hci,          \* controller events the host has not seen
    conn,         \* the host has an entry for the connection
    hostPc,       \* "idle", or the GAP event the listener is called with
    isConnected   \* is_connected

bleVars == <<synced, advertising, linked, hci, conn, hostPc, isConnected>>

BleInit ==
    /\ synced = FALSE /\ advertising = FALSE /\ linked = FALSE
    /\ hci = <<>> /\ conn = FALSE /\ hostPc = "idle"
    /\ isConnected = FALSE

\* Whether ble_gap_adv_start succeeds in a host with sync state s; the result
\* is only logged.
AdvStarts(s) == IF s THEN {TRUE} \union (IF "adv" \in BleFaults THEN {FALSE} ELSE {}) ELSE {FALSE}

RestartAdvertising(s) == \E ok \in AdvStarts(s) : advertising' = (advertising \/ ok)

OnSync ==
    /\ hostPc = "idle" /\ ~synced
    /\ synced' = TRUE
    /\ RestartAdvertising(TRUE)
    /\ UNCHANGED <<linked, hci, conn, hostPc, isConnected>>

\* A central connects, which ends the advertising, and a link is lost.
CentralConnects ==
    /\ advertising /\ Len(hci) < MaxHci
    /\ linked' = TRUE /\ advertising' = FALSE
    /\ hci' = Append(hci, "connect")
    /\ UNCHANGED <<synced, conn, hostPc, isConnected>>
LinkDrops ==
    /\ linked /\ Len(hci) < MaxHci
    /\ linked' = FALSE
    /\ hci' = Append(hci, "disconnect")
    /\ UNCHANGED <<synced, advertising, conn, hostPc, isConnected>>

\* The host takes an event, updates its table and calls the listener.
HostEvent ==
    /\ hostPc = "idle" /\ hci # <<>>
    /\ conn' = (Head(hci) = "connect")
    /\ hostPc' = Head(hci)
    /\ hci' = Tail(hci)
    /\ UNCHANGED <<synced, advertising, linked, isConnected>>

OnConnect ==
    /\ hostPc = "connect"
    /\ isConnected' = TRUE
    /\ hostPc' = "idle"
    /\ UNCHANGED <<synced, advertising, linked, hci, conn>>

\* Mutant: the flag is left as it is.
OnDisconnectKeepsFlag ==
    /\ hostPc = "disconnect"
    /\ RestartAdvertising(synced)
    /\ hostPc' = "idle"
    /\ UNCHANGED <<synced, linked, hci, conn, isConnected>>

\* Mutant: advertising is not restarted.
OnDisconnectSilent ==
    /\ hostPc = "disconnect"
    /\ isConnected' = FALSE
    /\ hostPc' = "idle"
    /\ UNCHANGED <<synced, advertising, linked, hci, conn>>

OnDisconnect ==
    /\ hostPc = "disconnect"
    /\ isConnected' = FALSE
    /\ RestartAdvertising(synced)
    /\ hostPc' = "idle"
    /\ UNCHANGED <<synced, linked, hci, conn>>

\* The host resets: events are dropped, a connection is reported as lost, and
\* ble_app_on_reset logs.
OnReset ==
    /\ "reset" \in BleFaults
    /\ hostPc = "idle" /\ synced
    /\ synced' = FALSE /\ advertising' = FALSE /\ linked' = FALSE
    /\ hci' = <<>> /\ conn' = FALSE
    /\ hostPc' = IF conn THEN "disconnect" ELSE "idle"
    /\ UNCHANGED isConnected

Host == OnSync \/ HostEvent \/ OnConnect \/ OnDisconnect
BleNext == Host \/ OnReset \/ CentralConnects \/ LinkDrops

-----------------------------------------------------------------------------
(* Properties *)

BleTypeOK ==
    /\ {synced, advertising, linked, conn, isConnected} \subseteq BOOLEAN
    /\ hci \in Seq({"connect", "disconnect"}) /\ Len(hci) <= MaxHci
    /\ hostPc \in {"idle", "connect", "disconnect"}

\* The host's entry once it has seen the events in hci.
ConnAfter == IF hci = <<>> THEN conn ELSE hci[Len(hci)] = "connect"

\* is_connected is the host's view of the link between two events, and that
\* view catches up with the link (ble_gap_event_handler).
FlagFollowsLink ==
    /\ ConnAfter = linked
    /\ hostPc = "idle" => isConnected = conn

\* The robot can be reached over BLE: unless a call of ble_gap_adv_start
\* fails, it advertises or has a central whenever nothing is left to handle,
\* after lost links and resets too (restart_advertising, ble_app_on_sync).
Reachable ==
    synced /\ "adv" \notin BleFaults => advertising \/ linked \/ hci # <<>> \/ hostPc = "disconnect"

\* It becomes reachable again after every loss.
StaysReachable == []<>(advertising \/ linked)

=============================================================================
