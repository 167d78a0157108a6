-------------------------- MODULE UdpControlProofs --------------------------
(***************************************************************************)
(* Proofs about UdpControl for any mailbox, tone length, number of events  *)
(* and faults: the horn leaves the speaker as it found it, is_connected    *)
(* follows the BLE link, the robot stays reachable, and the station count  *)
(* is right once every event has been handled.                             *)
(***************************************************************************)
EXTENDS UdpControl, SequenceTheorems, FiniteSetTheorems, TLAPS

-----------------------------------------------------------------------------
(* The inductive invariant. *)

\* The listener is called with the state of the connection it is told about.
ListenerInv ==
    /\ hostPc = "connect" => conn
    /\ hostPc = "disconnect" => ~conn

BleInv == BleTypeOK /\ FlagFollowsLink /\ ListenerInv /\ Reachable

\* The places of a horn: it switches the speaker on only if it was off, and
\* writes while repeats are left.
HornPlaceInv ==
    /\ pc = "boot" => channel = "none"
    /\ pc = "enable" => ~txEnabled /\ ~wasEnabled
    /\ pc = "write" => repeat < Repeats

ControlInv == ControlTypeOK /\ BleInv /\ HornSafe /\ HornPlaceInv

-----------------------------------------------------------------------------
(* The BLE link. *)

\* What the last event of a queue is after a step of the queue.
LEMMA LastEvent ==
    ASSUME NEW S, NEW q \in Seq(S), NEW e \in S
    PROVE  /\ Append(q, e) \in Seq(S) /\ Append(q, e) # <<>>
           /\ Len(Append(q, e)) = Len(q) + 1
           /\ Append(q, e)[Len(Append(q, e))] = e
           /\ q # <<>> =>
                /\ Head(q) \in S /\ Tail(q) \in Seq(S) /\ Len(Tail(q)) = Len(q) - 1
                /\ Tail(q) = <<>> => Head(q) = q[Len(q)]
                /\ Tail(q) # <<>> => Tail(q)[Len(Tail(q))] = q[Len(q)]
  OBVIOUS

HciEvents == {"connect", "disconnect"}

LEMMA BleInit_Inv == BleInit => BleInv
  <1> SUFFICES ASSUME BleInit PROVE BleInv
    OBVIOUS
  <1>1. hci \in Seq(HciEvents) /\ Len(hci) <= MaxHci
    BY BleAssumption DEF BleInit
  <1> QED
    BY <1>1 DEF BleInit, BleInv, BleTypeOK, FlagFollowsLink, ConnAfter, ListenerInv, Reachable, HciEvents

LEMMA HostEventInv == BleInv /\ HostEvent => BleInv'
  <1> SUFFICES ASSUME BleInv, HostEvent PROVE BleInv'
    OBVIOUS
  <1> USE DEF BleInv, BleTypeOK, HostEvent
  <1>1. /\ Head(hci) \in HciEvents /\ hci' \in Seq(HciEvents) /\ Len(hci') <= MaxHci
        /\ hci' = <<>> => Head(hci) = hci[Len(hci)]
        /\ hci' # <<>> => hci'[Len(hci')] = hci[Len(hci)]
    BY LastEvent, LenProperties, BleAssumption DEF HciEvents
  <1>2. BleTypeOK'
    BY <1>1 DEF HciEvents
  <1>3. FlagFollowsLink'
    BY <1>1 DEF FlagFollowsLink, ConnAfter, HciEvents
  <1>4. ListenerInv'
    BY DEF ListenerInv
  <1>5. Reachable'
    BY <1>1 DEF Reachable, FlagFollowsLink, ConnAfter, HciEvents
  <1> QED  BY <1>2, <1>3, <1>4, <1>5

\* The radio side: both actions add an event.
LEMMA RadioInv == BleInv /\ (CentralConnects \/ LinkDrops) => BleInv'
  <1> SUFFICES ASSUME BleInv, CentralConnects \/ LinkDrops PROVE BleInv'
    OBVIOUS
  <1> USE DEF BleInv, BleTypeOK
  <1>1. PICK e \in HciEvents : hci' = Append(hci, e) /\ linked' = (e = "connect")
    BY DEF CentralConnects, LinkDrops, HciEvents
  <1>2. Len(hci) < MaxHci /\ UNCHANGED <<synced, conn, hostPc, isConnected>> /\ advertising' \in BOOLEAN
    BY DEF CentralConnects, LinkDrops
  <1>3. /\ hci' \in Seq(HciEvents) /\ hci' # <<>> /\ Len(hci') <= MaxHci
        /\ hci'[Len(hci')] = e
    BY <1>1, <1>2, LastEvent, LenProperties, BleAssumption DEF HciEvents
  <1>4. BleTypeOK'
    BY <1>1, <1>2, <1>3 DEF HciEvents
  <1>5. FlagFollowsLink'
    BY <1>1, <1>2, <1>3 DEF FlagFollowsLink, ConnAfter
  <1>6. ListenerInv'
    BY <1>2 DEF ListenerInv
  <1>7. Reachable'
    BY <1>3 DEF Reachable
  <1> QED  BY <1>4, <1>5, <1>6, <1>7

\* The host's other steps leave the queue alone or empty it.
LEMMA HostInv == BleInv /\ (OnSync \/ OnConnect \/ OnDisconnect \/ OnReset) => BleInv'
  <1> SUFFICES ASSUME BleInv, OnSync \/ OnConnect \/ OnDisconnect \/ OnReset PROVE BleInv'
    OBVIOUS
  <1> USE DEF BleInv, OnSync, OnConnect, OnDisconnect, OnReset, RestartAdvertising, AdvStarts
  <1>0. hci' = hci \/ hci' = <<>>
    OBVIOUS
  <1>1. hci' \in Seq(HciEvents) /\ Len(hci') <= MaxHci
    <2>1. hci \in Seq(HciEvents) /\ Len(hci) <= MaxHci
      BY DEF BleTypeOK, HciEvents
    <2>2. <<>> \in Seq(HciEvents) /\ Len(<<>>) <= MaxHci
      BY BleAssumption
    <2> QED  BY <1>0, <2>1, <2>2
  <1>2. BleTypeOK'
    <2>1. {synced, advertising, linked, conn, isConnected}' \subseteq BOOLEAN
      BY DEF BleTypeOK
    <2>2. hostPc' \in {"idle", "connect", "disconnect"}
      OBVIOUS
    <2> QED  BY <1>1, <2>1, <2>2 DEF BleTypeOK, HciEvents
  <1>3. FlagFollowsLink'
    BY DEF BleTypeOK, FlagFollowsLink, ConnAfter, ListenerInv
  <1>4. ListenerInv'
    BY DEF ListenerInv
  <1>5. Reachable'
    BY DEF BleTypeOK, Reachable, FlagFollowsLink, ConnAfter, ListenerInv
  <1> QED  BY <1>2, <1>3, <1>4, <1>5

LEMMA BleStep == BleInv /\ [BleNext]_bleVars => BleInv'
  <1>1. BleInv /\ UNCHANGED bleVars => BleInv'
    BY DEF bleVars, BleInv, BleTypeOK, FlagFollowsLink, ConnAfter, ListenerInv, Reachable
  <1> QED  BY <1>1, HostEventInv, RadioInv, HostInv DEF BleNext, Host

-----------------------------------------------------------------------------
(* The access point: counting over a queue. *)

WifiInv ==
    /\ stations \in 0..MaxStations /\ connectedClients \in Nat
    /\ wifiEvents \in Seq(WifiEvents)
    /\ CountsStations

\* A number it is, and of no events none.
LEMMA OccurrencesFinite ==
    ASSUME NEW q \in Seq(WifiEvents), NEW e \in WifiEvents, NEW k \in 0..Len(q)
    PROVE  IsFiniteSet({i \in 1..k : q[i] = e})
  <1>1. IsFiniteSet(1..k)
    BY FS_Interval
  <1> QED  BY <1>1, FS_Subset

LEMMA OccurrencesType ==
    ASSUME NEW q \in Seq(WifiEvents), NEW e \in WifiEvents, NEW k \in 0..Len(q)
    PROVE  Occurrences(e, q, k) \in Nat
  BY OccurrencesFinite, FS_CardinalityType DEF Occurrences

LEMMA OccurrencesNone ==
    ASSUME NEW q \in Seq(WifiEvents), NEW e \in WifiEvents
    PROVE  Occurrences(e, q, 0) = 0
  <1>1. {i \in 1..0 : q[i] = e} = {}
    OBVIOUS
  <1> QED  BY <1>1, FS_EmptySet DEF Occurrences

\* An event that is added counts last and changes nothing before it.
LEMMA OccurrencesAppend ==
    ASSUME NEW q \in Seq(WifiEvents), NEW x \in WifiEvents, NEW e \in WifiEvents
    PROVE  /\ \A k \in 0..Len(q) : Occurrences(e, Append(q, x), k) = Occurrences(e, q, k)
           /\ Occurrences(e, Append(q, x), Len(q) + 1) =
                Occurrences(e, q, Len(q)) + (IF x = e THEN 1 ELSE 0)
  <1> DEFINE n == Len(q)
             a == Append(q, x)
             P == {i \in 1..n : q[i] = e}
             Q == {i \in 1..(n + 1) : a[i] = e}
  <1>1. n \in Nat /\ (\A i \in 1..n : a[i] = q[i]) /\ a[n + 1] = x
    OBVIOUS
  <1>2. \A k \in 0..n : {i \in 1..k : a[i] = e} = {i \in 1..k : q[i] = e}
    BY <1>1
  <1>3. (x = e => Q = P \cup {n + 1}) /\ (x # e => Q = P) /\ n + 1 \notin P
    BY <1>1
  <1>4. IsFiniteSet(P) /\ Cardinality(P) \in Nat
    <2>1. n \in 0..n
      BY <1>1
    <2>2. IsFiniteSet(P)
      BY <2>1, OccurrencesFinite
    <2> QED  BY <2>2, FS_CardinalityType
  <1>5. Occurrences(e, q, n) = Cardinality(P) /\ Occurrences(e, a, n + 1) = Cardinality(Q)
    BY DEF Occurrences
  <1>6. Cardinality(Q) = Cardinality(P) + (IF x = e THEN 1 ELSE 0)
    <2>1. Cardinality(P \cup {n + 1}) = Cardinality(P) + 1
      <3> HIDE DEF P
      <3> QED  BY <1>3, <1>4, FS_AddElement
    <2>2. CASE x = e
      BY <1>3, <2>1, <2>2, Zenon
    <2>3. CASE x # e
      <3> HIDE DEF P, Q
      <3> QED  BY <1>3, <1>4, <2>3
    <2> QED  BY <2>2, <2>3
  <1> QED  BY <1>2, <1>5, <1>6 DEF Occurrences

\* The first event is one more than the rest has.
LEMMA OccurrencesTail ==
    ASSUME NEW q \in Seq(WifiEvents), q # <<>>, NEW e \in WifiEvents, NEW k \in 0..Len(Tail(q))
    PROVE  Occurrences(e, q, k + 1) =
             Occurrences(e, Tail(q), k) + (IF Head(q) = e THEN 1 ELSE 0)
  <1> DEFINE A == {i \in 1..k : Tail(q)[i] = e}
             B == {i \in 2..(k + 1) : q[i] = e}
             C == {i \in 1..(k + 1) : q[i] = e}
             f == [i \in A |-> i + 1]
  <1>1. /\ Len(q) \in Nat \ {0} /\ Tail(q) \in Seq(WifiEvents) /\ Len(Tail(q)) = Len(q) - 1
        /\ Head(q) = q[1]
        /\ \A i \in 1..Len(Tail(q)) : Tail(q)[i] = q[i + 1]
    OBVIOUS
  <1>2. IsFiniteSet(A) /\ Cardinality(A) \in Nat
    <2>1. IsFiniteSet(A)
      BY <1>1, OccurrencesFinite
    <2> QED  BY <2>1, FS_CardinalityType
  <1>3. f \in Bijection(A, B)
    <2>1. \A i \in A : i + 1 \in B
      BY <1>1
    <2>2. \A j \in B : j - 1 \in A /\ j = (j - 1) + 1
      BY <1>1
    <2>3. \A i \in A : i \in Int
      OBVIOUS
    <2> HIDE DEF A, B
    <2> QED  BY <2>1, <2>2, <2>3 DEF Bijection, Injection, Surjection, IsInjective
  <1>4. IsFiniteSet(B) /\ Cardinality(B) = Cardinality(A)
    <2> HIDE DEF A, B, f
    <2> QED  BY <1>2, <1>3, FS_Bijection DEF ExistsBijection
  <1>5. (Head(q) = e => C = B \cup {1}) /\ (Head(q) # e => C = B) /\ 1 \notin B
    BY <1>1
  <1>6. Cardinality(C) = Cardinality(A) + (IF Head(q) = e THEN 1 ELSE 0)
    <2>1. Cardinality(B \cup {1}) = Cardinality(B) + 1
      <3> HIDE DEF B
      <3> QED  BY <1>4, <1>5, FS_AddElement
    <2>2. CASE Head(q) = e
      BY <1>4, <1>5, <2>1, <2>2, Zenon
    <2>3. CASE Head(q) # e
      <3> HIDE DEF A, B, C
      <3> QED  BY <1>2, <1>4, <1>5, <2>3
    <2> QED  BY <2>2, <2>3
  <1> QED  BY <1>6 DEF Occurrences

LEMMA WifiStarts == WifiInit => WifiInv
  <1> SUFFICES ASSUME WifiInit PROVE WifiInv
    OBVIOUS
  <1>1. wifiEvents \in Seq(WifiEvents) /\ Len(wifiEvents) = 0
    BY DEF WifiInit
  <1>2. \A e \in WifiEvents : Occurrences(e, wifiEvents, 0) = 0
    BY <1>1, OccurrencesNone
  <1>3. MaxStations \in Nat /\ stations = 0 /\ connectedClients = 0 /\ ~clientConnected
    BY WifiAssumption DEF WifiInit
  <1>4. CountAfter(0) = 0
    BY <1>2, <1>3 DEF CountAfter, WifiEvents
  <1>5. CountsStations
    BY <1>1, <1>3, <1>4 DEF CountsStations
  <1> QED  BY <1>1, <1>3, <1>5 DEF WifiInv

\* A station that comes or goes is counted by the event it leaves.
LEMMA PostKeeps ==
    ASSUME WifiInv, StationJoins \/ StationLeaves
    PROVE  WifiInv'
  <1>1. PICK x \in WifiEvents :
          /\ Post(x)
          /\ stations' = (IF x = "staconnected" THEN stations + 1 ELSE stations - 1)
          /\ stations' \in 0..MaxStations
    BY WifiAssumption DEF StationJoins, StationLeaves, WifiEvents, WifiInv
  <1>2. PICK n \in Nat : n = Len(wifiEvents)
    BY DEF WifiInv
  <1>3. /\ wifiEvents \in Seq(WifiEvents) /\ stations \in Int
        /\ wifiEvents' = Append(wifiEvents, x)
        /\ wifiEvents' \in Seq(WifiEvents) /\ Len(wifiEvents') = n + 1
        /\ connectedClients' = connectedClients /\ clientConnected' = clientConnected
        /\ connectedClients \in Nat
    BY <1>1, <1>2 DEF WifiInv, Post
  <1>4. \A k \in 0..n : CountAfter(k)' = CountAfter(k)
    BY <1>2, <1>3, OccurrencesAppend DEF CountAfter, WifiEvents
  <1>5. CountAfter(n + 1)' = CountAfter(n) + (IF x = "staconnected" THEN 1 ELSE -1)
    <2>1. \A e \in WifiEvents :
            Occurrences(e, wifiEvents', n + 1) =
              Occurrences(e, wifiEvents, n) + (IF x = e THEN 1 ELSE 0)
      BY <1>2, <1>3, OccurrencesAppend
    <2>2. \A e \in WifiEvents : Occurrences(e, wifiEvents, n) \in Nat
      BY <1>2, <1>3, OccurrencesType
    <2>3. /\ Occurrences("staconnected", wifiEvents, n) \in Nat
          /\ Occurrences("stadisconnected", wifiEvents, n) \in Nat
      BY <2>2 DEF WifiEvents
    <2>4. CASE x = "staconnected"
      <3>1. /\ Occurrences("staconnected", wifiEvents', n + 1) =
                 Occurrences("staconnected", wifiEvents, n) + 1
            /\ Occurrences("stadisconnected", wifiEvents', n + 1) =
                 Occurrences("stadisconnected", wifiEvents, n)
        BY <2>1, <2>3, <2>4 DEF WifiEvents
      <3> QED  BY <1>3, <2>3, <2>4, <3>1 DEF CountAfter
    <2>5. CASE x = "stadisconnected"
      <3>1. /\ Occurrences("staconnected", wifiEvents', n + 1) =
                 Occurrences("staconnected", wifiEvents, n)
            /\ Occurrences("stadisconnected", wifiEvents', n + 1) =
                 Occurrences("stadisconnected", wifiEvents, n) + 1
        BY <2>1, <2>3, <2>5 DEF WifiEvents
      <3> QED  BY <1>3, <2>3, <2>5, <3>1 DEF CountAfter
    <2> QED  BY <2>4, <2>5 DEF WifiEvents
  <1>6. CountAfter(n) = stations
    BY <1>2 DEF WifiInv, CountsStations
  <1>7. CountAfter(n + 1)' = stations'
    <2>1. CASE x = "staconnected"
      BY <1>1, <1>5, <1>6, <2>1
    <2>2. CASE x # "staconnected"
      BY <1>1, <1>3, <1>5, <1>6, <2>2
    <2> QED  BY <2>1, <2>2
  <1>8. \A k \in 0..(n + 1) : CountAfter(k)' \in 0..MaxStations
    <2> SUFFICES ASSUME NEW k \in 0..(n + 1) PROVE CountAfter(k)' \in 0..MaxStations
      OBVIOUS
    <2>1. CASE k = n + 1
      BY <1>1, <1>7, <2>1
    <2>2. CASE k # n + 1
      <3>1. k \in 0..n
        BY <1>2, <2>2
      <3> QED  BY <1>2, <1>4, <3>1 DEF WifiInv, CountsStations
    <2> QED  BY <2>1, <2>2
  <1>9. CountsStations'
    BY <1>3, <1>7, <1>8 DEF WifiInv, CountsStations
  <1> QED  BY <1>1, <1>3, <1>9 DEF WifiInv

\* The handler takes an event out of the queue and into the count.
LEMMA EventLoopKeeps == WifiInv /\ EventLoop => WifiInv'
  <1> SUFFICES ASSUME WifiInv, EventLoop PROVE WifiInv'
    OBVIOUS
  <1> DEFINE d == IF Head(wifiEvents) = "staconnected" THEN 1 ELSE -1
  <1>1. /\ wifiEvents \in Seq(WifiEvents) /\ wifiEvents # <<>>
        /\ wifiEvents' = Tail(wifiEvents) /\ wifiEvents' \in Seq(WifiEvents)
        /\ Head(wifiEvents) \in WifiEvents /\ stations' = stations
        /\ connectedClients \in Nat
    BY DEF WifiInv, EventLoop, StaConnected, StaDisconnected, Handling
  <1>2. PICK m \in Nat : Len(wifiEvents) = m + 1 /\ Len(wifiEvents') = m
    <2>1. Len(wifiEvents') \in Nat /\ Len(wifiEvents) = Len(wifiEvents') + 1
      BY <1>1
    <2> QED  BY <2>1
  <1>3. \A e \in WifiEvents : \A k \in 0..m :
          /\ Occurrences(e, wifiEvents, k + 1) =
               Occurrences(e, wifiEvents', k) + (IF Head(wifiEvents) = e THEN 1 ELSE 0)
          /\ Occurrences(e, wifiEvents', k) \in Nat
    BY <1>1, <1>2, OccurrencesTail, OccurrencesType
  <1>4. ASSUME NEW k \in 0..m
        PROVE  CountAfter(k + 1) =
                 connectedClients + d + Occurrences("staconnected", wifiEvents', k)
                                      - Occurrences("stadisconnected", wifiEvents', k)
    <2>1. /\ Occurrences("staconnected", wifiEvents', k) \in Nat
          /\ Occurrences("stadisconnected", wifiEvents', k) \in Nat
      BY <1>3 DEF WifiEvents
    <2>2. CASE Head(wifiEvents) = "staconnected"
      <3>1. /\ Occurrences("staconnected", wifiEvents, k + 1) =
                 Occurrences("staconnected", wifiEvents', k) + 1
            /\ Occurrences("stadisconnected", wifiEvents, k + 1) =
                 Occurrences("stadisconnected", wifiEvents', k)
        BY <1>3, <2>1, <2>2 DEF WifiEvents
      <3> QED  BY <1>1, <2>1, <2>2, <3>1 DEF CountAfter
    <2>3. CASE Head(wifiEvents) = "stadisconnected"
      <3>1. /\ Occurrences("staconnected", wifiEvents, k + 1) =
                 Occurrences("staconnected", wifiEvents', k)
            /\ Occurrences("stadisconnected", wifiEvents, k + 1) =
                 Occurrences("stadisconnected", wifiEvents', k) + 1
        BY <1>3, <2>1, <2>3 DEF WifiEvents
      <3> QED  BY <1>1, <2>1, <2>3, <3>1 DEF CountAfter
    <2> QED  BY <1>1, <2>2, <2>3 DEF WifiEvents
  <1>5. connectedClients + d \in 0..MaxStations
    <2>1. CountAfter(1) \in 0..MaxStations
      BY <1>2 DEF WifiInv, CountsStations
    <2>2. /\ Occurrences("staconnected", wifiEvents', 0) = 0
          /\ Occurrences("stadisconnected", wifiEvents', 0) = 0
      BY <1>1, OccurrencesNone DEF WifiEvents
    <2>3. CountAfter(0 + 1) = connectedClients + d + 0 - 0
      BY <1>4, <2>2
    <2> QED  BY <1>1, <2>1, <2>3
  <1>6. connectedClients' = connectedClients + d /\ (clientConnected' <=> connectedClients' > 0)
    <2>1. clientConnected <=> connectedClients > 0
      BY DEF WifiInv, CountsStations
    <2>2. CASE StaConnected
      BY <1>1, <2>2 DEF StaConnected, Handling
    <2>3. CASE StaDisconnected
      <3>1. /\ Head(wifiEvents) = "stadisconnected"
            /\ connectedClients' = IF connectedClients > 0 THEN connectedClients - 1 ELSE 0
            /\ clientConnected' <=> connectedClients' # 0 /\ clientConnected
        BY <2>3 DEF StaDisconnected, Handling
      <3>2. connectedClients > 0
        BY <1>1, <1>5, <3>1
      <3> QED  BY <1>1, <2>1, <3>1, <3>2
    <2> QED  BY <2>2, <2>3 DEF EventLoop
  <1>7. \A k \in 0..m : CountAfter(k)' = CountAfter(k + 1)
    BY <1>4, <1>6 DEF CountAfter
  <1>8. CountsStations'
    <2>1. CountAfter(m)' = stations'
      BY <1>1, <1>2, <1>7 DEF WifiInv, CountsStations
    <2>2. \A k \in 0..m : CountAfter(k)' \in 0..MaxStations
      BY <1>2, <1>7 DEF WifiInv, CountsStations
    <2> QED  BY <1>2, <1>6, <2>1, <2>2 DEF CountsStations
  <1>9. connectedClients' \in Nat
    BY <1>5, <1>6, WifiAssumption
  <1> QED  BY <1>1, <1>8, <1>9 DEF WifiInv

LEMMA WifiStep == WifiInv /\ [WifiNext]_wifiVars => WifiInv'
  <1>1. WifiInv /\ UNCHANGED wifiVars => WifiInv'
    BY DEF wifiVars, WifiInv, CountsStations, CountAfter
  <1> QED  BY <1>1, PostKeeps, EventLoopKeeps DEF WifiNext

-----------------------------------------------------------------------------
(* The whole. *)

LEMMA ControlInit == Init => ControlInv
  <1> SUFFICES ASSUME Init PROVE ControlInv
    OBVIOUS
  <1>1. BleInv
    BY BleInit_Inv DEF Init
  <1>2. mailbox \in Seq(Datagrams) /\ Len(mailbox) <= MailboxSize /\ repeat \in 0..Repeats
    BY ControlAssumption DEF Init
  <1>3. ControlTypeOK
    BY <1>1, <1>2 DEF Init, BleInv, ControlTypeOK
  <1>4. HornSafe /\ HornPlaceInv
    BY DEF Init, HornSafe, HornPlaceInv
  <1> QED  BY <1>1, <1>3, <1>4 DEF ControlInv

\* The types and places of the task and its audio alone.
AudioOK ==
    /\ pc \in {"boot", "recv", "pause", "ble", "notify"} \union HornPcs
    /\ channel \in {"none", "registered", "ready", "running"}
    /\ txEnabled \in BOOLEAN /\ wasEnabled \in BOOLEAN /\ buffer \in BOOLEAN
    /\ repeat \in 0..Repeats
    /\ HornSafe /\ HornPlaceInv

LEMMA AudioParts ==
    ControlInv <=> /\ BleInv /\ AudioOK
                   /\ mailbox \in Seq(Datagrams) /\ Len(mailbox) <= MailboxSize
                   /\ notified \in BOOLEAN
  BY Zenon DEF ControlInv, ControlTypeOK, BleInv, AudioOK

\* The steps that change nothing but the UDP task and the audio.
LEMMA AudioStep ==
    ASSUME ControlInv, AudioI2sInit \/ Horn \/ Pause \/ TestConnected
    PROVE  ControlInv'
  <1>1. UNCHANGED <<wifiVars, bleVars, mailbox, notified>>
    BY DEF Audio, To, AudioI2sInit, Horn, PlayHorn, EnableTx, Malloc, Write, Free, DisableTx,
           DisableTxFails, Pause, TestConnected
  <1>2. BleInv'
    BY <1>1, BleStep DEF ControlInv
  <1>3. AudioOK'
    <2> USE ControlAssumption DEF AudioOK, HornSafe, HornPlaceInv, HornPcs, Audio, To, audioVars
    <2>1. AudioOK
      BY AudioParts
    <2>2. CASE AudioI2sInit
      BY <2>1, <2>2 DEF AudioI2sInit, Outcome
    <2>3. CASE PlayHorn
      BY <2>1, <2>3 DEF PlayHorn
    <2>4. CASE EnableTx
      <3>1. pc = "enable" /\ UNCHANGED <<wasEnabled, buffer, repeat>>
        BY <2>4 DEF EnableTx
      <3>2. CASE channel' = "running" /\ txEnabled' = TRUE /\ pc' = "malloc"
        BY <2>1, <3>1, <3>2
      <3>3. CASE UNCHANGED <<channel, txEnabled>> /\ pc' = "pause"
        BY <2>1, <3>1, <3>3
      <3> QED  BY <2>4, <3>2, <3>3 DEF EnableTx
    <2>5. CASE Malloc
      <3>1. pc = "malloc" /\ repeat' = 0 /\ UNCHANGED <<channel, txEnabled, wasEnabled>>
        BY <2>5 DEF Malloc
      <3>2. CASE buffer' = TRUE /\ pc' = "write"
        <4>1. /\ repeat' \in 0..Repeats /\ repeat' < Repeats
              /\ buffer' \in BOOLEAN /\ pc' \in HornPcs /\ pc' = "write"
          BY <3>1, <3>2
        <4> QED  BY <2>1, <3>1, <3>2, <4>1
      <3>3. CASE buffer' = FALSE /\ pc' = "disable"
        <4>a. buffer' \in BOOLEAN
          BY <3>3, Zenon
        <4>b. repeat' \in 0..Repeats
          BY <3>1
        <4>1. repeat' \in 0..Repeats /\ buffer' \in BOOLEAN /\ pc' \in HornPcs
          BY <3>3, <4>a, <4>b, Zenon
        <4>2. HornSafe'
          BY <2>1, <3>1, <3>3
        <4>3. HornPlaceInv'
          BY <3>3
        <4> HIDE DEF HornSafe, HornPlaceInv
        <4> QED  BY <2>1, <3>1, <4>1, <4>2, <4>3
      <3> QED  BY <2>5, <3>2, <3>3 DEF Malloc, Outcome
    <2>6. CASE Write
      <3>1. pc = "write" /\ repeat' = repeat + 1 /\ UNCHANGED <<channel, txEnabled, wasEnabled, buffer>>
        BY <2>6 DEF Write
      <3>2. (pc' = "write" /\ repeat' < Repeats) \/ pc' = "free"
        BY <2>6 DEF Write
      <3>3. repeat' \in 0..Repeats
        BY <2>1, <3>1
      <3> QED  BY <2>1, <3>1, <3>2, <3>3
    <2>7. CASE Free
      BY <2>1, <2>7 DEF Free
    <2>8. CASE DisableTx
      BY <2>1, <2>8 DEF DisableTx
    <2>9. CASE DisableTxFails
      BY <2>1, <2>9 DEF DisableTxFails
    <2>10. CASE Pause
      BY <2>1, <2>10 DEF Pause
    <2>11. CASE TestConnected
      BY <2>1, <2>11 DEF TestConnected
    <2> QED  BY <2>2, <2>3, <2>4, <2>5, <2>6, <2>7, <2>8, <2>9, <2>10, <2>11 DEF Horn
  <1>4. /\ mailbox' \in Seq(Datagrams) /\ Len(mailbox') <= MailboxSize
        /\ notified' \in BOOLEAN
    BY <1>1, AudioParts
  <1> QED  BY <1>2, <1>3, <1>4, Zenon DEF ControlInv, ControlTypeOK, BleInv, AudioOK

\* The mailbox and the hand-over of a command to NimBLE.
LEMMA MailStep ==
    ASSUME ControlInv, Arrive \/ Receive \/ Notify
    PROVE  ControlInv'
  <1> USE DEF To, Arrive, Receive, Notify, audioVars
  <1>0. UNCHANGED <<bleVars, channel, txEnabled, wasEnabled, buffer, repeat>>
    OBVIOUS
  <1>1. BleInv'
    BY <1>0, BleStep DEF ControlInv
  <1>2. mailbox' \in Seq(Datagrams) /\ Len(mailbox') <= MailboxSize
    <2>1. mailbox \in Seq(Datagrams) /\ Len(mailbox) <= MailboxSize /\ Len(mailbox) \in Nat
      BY DEF ControlInv, ControlTypeOK
    <2>2. mailbox # <<>> => Tail(mailbox) \in Seq(Datagrams) /\ Len(Tail(mailbox)) <= MailboxSize
      BY <2>1, ControlAssumption
    <2>3. \A d \in Datagrams : Len(mailbox) < MailboxSize =>
            Append(mailbox, d) \in Seq(Datagrams) /\ Len(Append(mailbox, d)) <= MailboxSize
      BY <2>1, ControlAssumption
    <2> QED  BY <2>1, <2>2, <2>3
  <1>3. pc' = pc \/ (pc \in {"recv", "notify"} /\ pc' \in {"horn", "ble", "pause"})
    OBVIOUS
  <1>4. notified' \in BOOLEAN
    BY DEF ControlInv, ControlTypeOK, BleTypeOK, Outcome
  <1>5. ControlTypeOK'
    BY <1>0, <1>1, <1>2, <1>3, <1>4 DEF ControlInv, BleInv, ControlTypeOK, HornPcs
  <1>6. HornSafe' /\ HornPlaceInv'
    BY <1>0, <1>3 DEF ControlInv, HornSafe, HornPlaceInv
  <1> QED  BY <1>1, <1>5, <1>6 DEF ControlInv

\* The access point and the BLE link leave the task alone.
LEMMA OtherStep ==
    ASSUME ControlInv, Others, BleNext \/ UNCHANGED bleVars
    PROVE  ControlInv'
  <1>1. BleInv'
    BY BleStep DEF ControlInv
  <1> QED
    BY <1>1 DEF Others, audioVars, ControlInv, BleInv, ControlTypeOK, HornSafe, HornPlaceInv

LEMMA ControlNext == ControlInv /\ [Next]_vars => ControlInv'
  <1>1. UNCHANGED vars => Others /\ UNCHANGED bleVars
    BY DEF vars, Others
  <1> QED  BY <1>1, AudioStep, MailStep, OtherStep DEF Next, UdpTask

\* Where the UDP task, the I2S channel and the BLE link can be, together.
THEOREM ControlInvariant == Spec => []ControlInv
  BY ControlInit, ControlNext, PTL DEF Spec

\* The types: the mailbox never holds more than it has room for, the tone is
\* never longer than its repeats.
THEOREM ControlTyped == Spec => []ControlTypeOK
  <1>1. ControlInv => ControlTypeOK
    BY DEF ControlInv
  <1> QED  BY <1>1, ControlInvariant, PTL

\* tx_enabled is the state of the channel, and the horn writes only to a
\* running channel, from a buffer it frees.
THEOREM ControlHornSafe == Spec => []HornSafe
  <1>1. ControlInv => HornSafe
    BY DEF ControlInv
  <1> QED  BY <1>1, ControlInvariant, PTL

\* A horn leaves the speaker as it found it, whatever call fails.
THEOREM ControlSpeakerRestored == Spec => SpeakerRestored
  <1>1. ControlInv /\ [Next]_vars => [HornEnds /\ pc # "horn" => txEnabled' = wasEnabled \/ DisableTxFails]_vars
    <2> SUFFICES ASSUME ControlInv, Next, HornEnds, pc # "horn"
                 PROVE  txEnabled' = wasEnabled \/ DisableTxFails
      OBVIOUS
    <2>1. pc \in {"enable", "malloc", "write", "free", "disable"} /\ pc' = "pause"
      BY DEF HornEnds, HornPcs
    <2>2. EnableTx \/ DisableTx \/ DisableTxFails
      BY <2>1 DEF Next, UdpTask, Horn, AudioI2sInit, Arrive, Receive, Pause, TestConnected, Notify,
                  PlayHorn, Malloc, Write, Free, Audio, To, Others
    <2>3. CASE EnableTx
      BY <2>1, <2>3 DEF EnableTx, Audio, To, ControlInv, ControlTypeOK, HornPlaceInv
    <2>4. CASE DisableTx
      BY <2>1, <2>4 DEF DisableTx, Audio, To, ControlInv, ControlTypeOK, HornSafe
    <2> QED  BY <2>2, <2>3, <2>4
  <1> QED  BY <1>1, ControlInvariant, PTL DEF Spec, SpeakerRestored

\* is_connected is the host's view of the link, which catches up with it.
THEOREM ControlFlagFollowsLink == Spec => []FlagFollowsLink
  <1>1. ControlInv => FlagFollowsLink
    BY DEF ControlInv, BleInv
  <1> QED  BY <1>1, ControlInvariant, PTL

\* The robot advertises or has a central, or an event is pending that will
\* make it advertise, after any number of lost links and resets.
THEOREM ControlReachable == Spec => []Reachable
  <1>1. ControlInv => Reachable
    BY DEF ControlInv, BleInv
  <1> QED  BY <1>1, ControlInvariant, PTL

\* The access point's counter never loses, doubles or forgets a station, and
\* the flag says whether there is one, for any number of stations and of
\* events that wait for the handler.
THEOREM ControlCountsStations == Spec => []CountsStations
  <1>1. Init => WifiInv
    BY WifiStarts DEF Init
  <1>2. [Next]_vars => [WifiNext]_wifiVars
    BY DEF vars, Next, AudioI2sInit, Arrive, UdpTask, Receive, Pause, TestConnected, Notify,
           Horn, PlayHorn, EnableTx, Malloc, Write, Free, DisableTx, DisableTxFails, Audio, To
  <1>3. WifiInv /\ [Next]_vars => WifiInv'
    BY <1>2, WifiStep
  <1>4. WifiInv => CountsStations
    BY DEF WifiInv
  <1> QED  BY <1>1, <1>3, <1>4, PTL DEF Spec

=============================================================================
