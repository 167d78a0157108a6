------------------------------ MODULE ClientLife ------------------------------
(***************************************************************************)
(* What the wrapper (websocket_client.c) promises about the library's      *)
(* clients, without saying how: there is one client at most, its task is   *)
(* started at most once and never again after it was asked to end, it is   *)
(* destroyed only after its task has ended, and the connection is reported *)
(* up only while the client has a task.                                    *)
(***************************************************************************)
CONSTANTS Clients, NoClient

VARIABLES
    client,  \* the client the wrapper points to, or NoClient
    life,    \* life[c]: how far c is
    up       \* the connection is reported up

vars == <<client, life, up>>

Init == client = NoClient /\ life = [c \in Clients |-> "none"] /\ up = FALSE

\* The life of the client the wrapper points to goes on.
Become(from, to) ==
    /\ client \in Clients /\ life[client] = from
    /\ life' = [life EXCEPT ![client] = to]
    /\ UNCHANGED <<client, up>>

Create(c) ==
    /\ client = NoClient /\ ~up /\ life[c] = "none"
    /\ client' = c /\ life' = [life EXCEPT ![c] = "made"]
    /\ UNCHANGED up

\* The client's task is created, or cannot be.
Begin == Become("made", "running")
GiveUp == Become("made", "ended")

\* Somebody wants the task to end, or the server has taken its leave.
Ask == Become("running", "asked")

End == Become("asked", "ended")

Free == Become("ended", "none")

\* A client that is no more is forgotten.
Forget ==
    /\ client \in Clients /\ life[client] = "none"
    /\ client' = NoClient /\ up' = FALSE
    /\ UNCHANGED life

ReportUp ==
    /\ client \in Clients /\ life[client] \in {"running", "asked"}
    /\ up' = TRUE
    /\ UNCHANGED <<client, life>>

ReportDown == up' = FALSE /\ UNCHANGED <<client, life>>

PowerCycle == client' = NoClient /\ life' = [c \in Clients |-> "none"] /\ up' = FALSE

Next ==
    \/ \E c \in Clients : Create(c)
    \/ Begin \/ GiveUp \/ Ask \/ End \/ Free \/ Forget
    \/ ReportUp \/ ReportDown \/ PowerCycle

Spec == Init /\ [][Next]_vars
=============================================================================
