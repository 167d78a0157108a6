------------------------ MODULE LedControllerProofs ------------------------
(***************************************************************************)
(* Proofs about LedController for a single task, as in the firmware, and   *)
(* test sequences of any length: pin by pin, the drive implements Drive,   *)
(* and between calls it drives one direction and knows its extra           *)
(* functions.                                                              *)
(***************************************************************************)
EXTENDS LedController, SequenceTheorems, TLAPS

-----------------------------------------------------------------------------
(* The inductive invariant, for task t. *)

\* The step that ends a pattern.
OffStep == [allOn |-> "allOff", bothOn |-> "bothOff"]

\* In a script, every pattern that drives opposite directions is followed by
\* the step that ends it.
Paired(q) ==
    \A k \in 1..Len(q) : q[k] \in DOMAIN OffStep => k < Len(q) /\ q[k + 1] = OffStep[q[k]]

PairInv(t) ==
    /\ Paired(script[t])
    /\ doing[t] \in DOMAIN OffStep => script[t] # <<>> /\ Head(script[t]) = OffStep[doing[t]]

\* What the step in force leaves on, once it is written.
Motion(t) == Settled(t) \intersect D!Directions
Functions(t) == Settled(t) \intersect D!Extras

MotionInv(t) ==
    /\ doing[t] = "bothOn" => \E d \in D!Directions : Motion(t) \ D!Both \subseteq {d}
    /\ doing[t] \notin DOMAIN OffStep => \E d \in D!Directions : Motion(t) \subseteq {d}

StateInv(t) ==
    /\ doing[t] = "allOff" => Functions(t) = {} /\ (DOMAIN todo[t] = {} => states = {})
    /\ doing[t] \notin {"allOn", "allOff"} => states = Functions(t)

DriveInv == DriveTypeOK /\ \A t \in Tasks : PairInv(t) /\ MotionInv(t) /\ StateInv(t)

-----------------------------------------------------------------------------
(* Scripts. *)

\* Steps of one task.
LEMMA StepNames ==
    /\ D!Directions = {"forward", "backward", "left", "right"}
    /\ D!Extras = {"horn", "lights", "radio"}
    /\ D!Both = {"forward", "backward"}
    /\ Pins = {"forward", "backward", "left", "right", "horn", "lights", "radio"}
    /\ DOMAIN D!OffOf = {"hornOff", "lightsOff", "radioOff"}
    /\ DOMAIN OffStep = {"allOn", "bothOn"}
    /\ Steps = Pins \union {"hornOff", "lightsOff", "radioOff", "stop", "allOn", "allOff",
                            "bothOn", "bothOff", "unknown"}
  BY DEF D!Directions, D!Extras, D!Both, D!OffOf, Pins, OffStep, Steps

LEMMA SingleStep ==
    ASSUME NEW s \in Steps \ DOMAIN OffStep
    PROVE  <<s>> \in Seq(Steps) /\ Paired(<<s>>)
  BY DEF Paired

LEMMA TwoSteps ==
    ASSUME NEW n \in Nat, NEW a \in DOMAIN OffStep
    PROVE  /\ Times(n, <<a, OffStep[a]>>) \in Seq(Steps)
           /\ Paired(Times(n, <<a, OffStep[a]>>))
  <1> DEFINE q == Times(n, <<a, OffStep[a]>>)
  <1>1. a \in Steps /\ OffStep[a] \in Steps \ DOMAIN OffStep
    BY StepNames DEF OffStep
  <1>2. q = [k \in 1..n * 2 |-> <<a, OffStep[a]>>[((k - 1) % 2) + 1]]
    BY DEF Times
  <1>3. \A k \in 1..n * 2 : (k - 1) % 2 = 0 \/ (k - 1) % 2 = 1
    OBVIOUS
  <1>4. q \in Seq(Steps) /\ Len(q) = n * 2
    <2>1. \A k \in 1..n * 2 : q[k] \in Steps
      <3>1. /\ <<a, OffStep[a]>>[1] = a /\ <<a, OffStep[a]>>[2] = OffStep[a]
            /\ 0 + 1 = 1 /\ 1 + 1 = 2
        OBVIOUS
      <3> QED  BY <1>1, <1>2, <1>3, <3>1
    <2>2. n * 2 \in Nat
      OBVIOUS
    <2> HIDE DEF q
    <2> QED  BY <1>2, <2>1, <2>2
  <1>5. ASSUME NEW k \in 1..n * 2, q[k] \in DOMAIN OffStep
        PROVE  k < n * 2 /\ q[k + 1] = OffStep[q[k]]
    <2>1. (k - 1) % 2 = 0 /\ q[k] = a
      BY <1>1, <1>2, <1>3, <1>5
    <2>2. k < n * 2 /\ k % 2 = 1
      BY <2>1
    <2> QED  BY <1>2, <2>1, <2>2
  <1> QED  BY <1>4, <1>5 DEF Paired

LEMMA TestSteps ==
    ASSUME NEW n \in Nat, NEW s \in Seq(Steps), Len(s) # 0, \A k \in 1..Len(s) : s[k] \notin DOMAIN OffStep
    PROVE  Times(n, s) \in Seq(Steps) /\ Paired(Times(n, s))
  <1>1. Len(s) \in Nat \ {0}
    BY LenProperties
  <1>2. n * Len(s) \in Nat
    BY <1>1
  <1>3. \A k \in 1..n * Len(s) : ((k - 1) % Len(s)) + 1 \in 1..Len(s)
    BY <1>1, <1>2
  <1>4. \A k \in 1..n * Len(s) : Times(n, s)[k] \in Steps \ DOMAIN OffStep
    BY <1>2, <1>3, ElementOfSeq DEF Times
  <1>5. Times(n, s) \in Seq(Steps) /\ Len(Times(n, s)) = n * Len(s)
    BY <1>2, <1>4 DEF Times
  <1> QED  BY <1>4, <1>5 DEF Paired

\* Every call starts a script of paired steps.
LEMMA CallFacts ==
    ASSUME DriveInv, NEW t \in Tasks, Command(t)
    PROVE  \E s \in Seq(Steps) : Paired(s) /\ CallScript(t, s)
  <1>1. CASE UdpCmd(t)
    <2>1. PICK id \in 0..6, value \in 0..2 :
            UdpStep(id, value) # "none" /\ CallScript(t, <<UdpStep(id, value)>>)
      BY <1>1 DEF UdpCmd
    <2>2. UdpStep(id, value) \in Steps \ DOMAIN OffStep
      BY <2>1, StepNames DEF UdpStep
    <2> QED  BY <2>1, <2>2, SingleStep
  <1>2. CASE BleCmd(t)
    <2>1. PICK text \in SUBSET D!Directions : CallScript(t, <<Parse(text)>>)
      BY <1>2 DEF BleCmd
    <2>2. Parse(text) \in Steps \ DOMAIN OffStep
      <3>1. CASE text = {}
        BY <3>1, StepNames DEF Parse
      <3>2. CASE text # {}
        <4> DEFINE Is(k) == k \in DOMAIN Words /\ Words[k] \in text /\ \A l \in 1..k - 1 : Words[l] \notin text
        <4>1. DOMAIN Words = 1..4 /\ \A k \in 1..4 : Words[k] \in D!Directions
          BY StepNames DEF Words
        <4>2. \E k \in 1..4 : Words[k] \in text
          <5>1. PICK w \in text : w \in D!Directions
            BY <3>2
          <5>2. Words[1] = "forward" /\ Words[2] = "backward" /\ Words[3] = "left" /\ Words[4] = "right"
            BY DEF Words
          <5> QED  BY <5>1, <5>2, StepNames
        <4>3. \E k \in DOMAIN Words : Words[k] \in text /\ \A l \in 1..k - 1 : Words[l] \notin text
          <5>1. CASE Words[1] \in text  BY <4>1, <5>1
          <5>2. CASE Words[1] \notin text /\ Words[2] \in text  BY <4>1, <5>2
          <5>3. CASE Words[1] \notin text /\ Words[2] \notin text /\ Words[3] \in text  BY <4>1, <5>3
          <5>4. CASE /\ Words[1] \notin text /\ Words[2] \notin text /\ Words[3] \notin text
                     /\ Words[4] \in text
            BY <4>1, <5>4
          <5> QED  BY <4>2, <5>1, <5>2, <5>3, <5>4
        <4> QED  BY <3>2, <4>1, <4>3, StepNames DEF Parse
      <3> QED  BY <3>1, <3>2
    <2> QED  BY <2>1, <2>2, SingleStep
  <1>3. CASE Execute(t)
    BY <1>3, SingleStep, StepNames DEF Execute
  <1>4. CASE TestSequence(t)
    <2> DEFINE s == <<"forward", "backward", "left", "right", "stop", "horn", "hornOff",
                      "lights", "lightsOff", "radio", "radioOff">>
    <2>1. s \in Seq(Steps) /\ Len(s) # 0 /\ \A k \in 1..Len(s) : s[k] \notin DOMAIN OffStep
      <3>1. Len(s) = 11
        OBVIOUS
      <3>2. \A k \in 1..11 : s[k] \in Steps \ DOMAIN OffStep
        BY StepNames
      <3> QED  BY <3>1, <3>2
    <2>2. PICK n \in 0..MaxCount : CallScript(t, Times(n, s))
      BY <1>4 DEF TestSequence
    <2>3. n \in Nat
      BY DriveAssumption
    <2> HIDE DEF s
    <2> QED  BY <2>1, <2>2, <2>3, TestSteps
  <1>5. CASE BlinkAll(t)
    BY <1>5, TwoSteps, StepNames, DriveAssumption DEF BlinkAll, OffStep
  <1>6. CASE BlinkForwardBackward(t)
    BY <1>6, TwoSteps, StepNames, DriveAssumption DEF BlinkForwardBackward, OffStep
  <1> QED  BY <1>1, <1>2, <1>3, <1>4, <1>5, <1>6 DEF Command

-----------------------------------------------------------------------------
(* The outputs a step leaves. *)

\* What step s makes of the outputs m that were on.
After(s, m) == {p \in DOMAIN Writes(s) : Writes(s)[p]} \union (m \ DOMAIN Writes(s))

LEMMA WritesType ==
    ASSUME NEW s \in Steps
    PROVE  DOMAIN Writes(s) \in SUBSET Pins /\ Writes(s) \in [DOMAIN Writes(s) -> BOOLEAN]
  BY StepNames DEF Writes, D!OffOf

LEMMA AfterMove ==
    ASSUME NEW m \in SUBSET Pins, NEW s \in D!Directions \union {"stop"}
    PROVE  /\ After(s, m) \intersect D!Directions = {s} \intersect D!Directions
           /\ After(s, m) \intersect D!Extras = m \intersect D!Extras
  <1>1. Writes(s) = [p \in D!Directions |-> p = s]
    BY StepNames, Zenon DEF Writes
  <1>2. {p \in D!Directions : [q \in D!Directions |-> q = s][p]} = {s} \intersect D!Directions
    OBVIOUS
  <1>3. After(s, m) = ({s} \intersect D!Directions) \union (m \ D!Directions)
    BY <1>1, <1>2 DEF After
  <1>4. D!Directions \intersect D!Extras = {}
    BY StepNames
  <1> QED  BY <1>3, <1>4

LEMMA AfterExtra ==
    ASSUME NEW m \in SUBSET Pins, NEW s \in D!Extras
    PROVE  /\ After(s, m) \intersect D!Directions = m \intersect D!Directions
           /\ After(s, m) \intersect D!Extras = (m \intersect D!Extras) \union {s}
  <1>1. Writes(s) = [p \in {s} |-> TRUE]
    BY StepNames DEF Writes
  <1> QED  BY <1>1, StepNames DEF After

LEMMA AfterOff ==
    ASSUME NEW m \in SUBSET Pins, NEW s \in DOMAIN D!OffOf
    PROVE  /\ D!OffOf[s] \in D!Extras
           /\ After(s, m) \intersect D!Directions = m \intersect D!Directions
           /\ After(s, m) \intersect D!Extras = (m \intersect D!Extras) \ {D!OffOf[s]}
  <1>1. Writes(s) = [p \in {D!OffOf[s]} |-> FALSE]
    BY StepNames DEF Writes
  <1>2. D!OffOf[s] \in D!Extras
    BY DEF D!OffOf, D!Extras
  <1> QED  BY <1>1, <1>2, StepNames DEF After

LEMMA AfterPattern ==
    ASSUME NEW m \in SUBSET Pins
    PROVE  /\ After("allOn", m) = Pins /\ After("allOff", m) = {}
           /\ After("bothOn", m) = m \union D!Both /\ After("bothOff", m) = m \ D!Both
           /\ After("unknown", m) = m
  <1>1. /\ Writes("allOn") = [p \in Pins |-> TRUE] /\ Writes("allOff") = [p \in Pins |-> FALSE]
        /\ Writes("bothOn") = [p \in D!Both |-> TRUE] /\ Writes("bothOff") = [p \in D!Both |-> FALSE]
        /\ Writes("unknown") = <<>>
    BY StepNames DEF Writes
  <1> QED  BY <1>1 DEF After

-----------------------------------------------------------------------------
(* The steps of a task. *)

\* The functions of the tasks, for the only task.
LEMMA TaskTypes ==
    ASSUME DriveTypeOK, NEW t \in Tasks
    PROVE  /\ out \in SUBSET Pins /\ states \in SUBSET D!Extras
           /\ script[t] \in Seq(Steps) /\ doing[t] \in Steps
           /\ DOMAIN todo[t] \in SUBSET Pins /\ todo[t] \in [DOMAIN todo[t] -> BOOLEAN]
           /\ Settled(t) \in SUBSET Pins
  BY DEF DriveTypeOK, Settled

\* Beginning a step.
LEMMA BeginFacts ==
    ASSUME DriveInv, NEW t, Tasks = {t}, Begin(t), NEW s, s = Head(script[t])
    PROVE  /\ s \in Steps /\ doing'[t] = s /\ script'[t] = Tail(script[t])
           /\ script[t] # <<>> /\ todo'[t] = Writes(s) /\ out' = out
           /\ Settled(t) = out /\ Settled(t)' = After(s, out)
           /\ DriveTypeOK'
  <1> USE DEF DriveInv, Begin
  <1>1. s \in Steps /\ Tail(script[t]) \in Seq(Steps)
    BY TaskTypes
  <1>2. doing'[t] = s /\ script'[t] = Tail(script[t]) /\ todo'[t] = Writes(s) /\ out' = out
    BY DEF DriveTypeOK
  <1>3. Settled(t) = out
    BY DEF Settled
  <1>4. Settled(t)' = After(s, out)
    BY <1>2 DEF Settled, After
  <1>5. DriveTypeOK'
    <2>1. states' \subseteq D!Extras
      <3>1. s \in DOMAIN D!OffOf => s \notin D!Extras
        BY StepNames
      <3> QED  BY <3>1 DEF DriveTypeOK
    <2>2. Writes(s) \in UNION {[P -> BOOLEAN] : P \in SUBSET Pins}
      BY <1>1, WritesType
    <2> QED  BY <1>1, <2>1, <2>2 DEF DriveTypeOK
  <1> QED  BY <1>1, <1>2, <1>3, <1>4, <1>5

\* Writing an output brings nothing new: it was pending.
LEMMA WriteFacts ==
    ASSUME DriveInv, NEW t, Tasks = {t}, Write(t)
    PROVE  /\ Settled(t)' = Settled(t) /\ UNCHANGED <<script, doing>>
           /\ DOMAIN todo[t] # {}
           /\ states' = states \/ (doing[t] = "allOff" /\ states' = {})
           /\ doing[t] = "allOff" /\ DOMAIN todo'[t] = {} => states' = {}
           /\ DriveTypeOK'
  <1> USE DEF DriveInv
  <1>1. PICK p \in Pins :
          /\ p \in DOMAIN todo[t]
          /\ out' = IF todo[t][p] THEN out \union {p} ELSE out \ {p}
          /\ todo' = [todo EXCEPT ![t] = [q \in DOMAIN @ \ {p} |-> @[q]]]
          /\ states' = IF doing[t] = "allOff" /\ DOMAIN todo[t] = {p} THEN {} ELSE states
    BY DEF Write, FirstPin
  <1>2. todo'[t] = [q \in DOMAIN todo[t] \ {p} |-> todo[t][q]]
    BY <1>1 DEF DriveTypeOK
  <1>3. Settled(t)' = Settled(t)
    <2>1. \A q : q \in Settled(t)' <=> q \in Settled(t)
      BY <1>1, <1>2 DEF Settled
    <2> QED  BY <2>1
  <1>4. DriveTypeOK'
    <2>1. out' \subseteq Pins /\ states' \subseteq D!Extras
      BY <1>1 DEF DriveTypeOK
    <2>2. [q \in DOMAIN todo[t] \ {p} |-> todo[t][q]] \in UNION {[P -> BOOLEAN] : P \in SUBSET Pins}
      <3>1. todo[t] \in [DOMAIN todo[t] -> BOOLEAN] /\ DOMAIN todo[t] \ {p} \in SUBSET Pins
        BY TaskTypes
      <3>2. [q \in DOMAIN todo[t] \ {p} |-> todo[t][q]] \in [DOMAIN todo[t] \ {p} -> BOOLEAN]
        BY <3>1
      <3> QED  BY <3>1, <3>2
    <2> QED  BY <1>1, <2>1, <2>2 DEF DriveTypeOK, Write
  <1> QED  BY <1>1, <1>2, <1>3, <1>4 DEF Write

-----------------------------------------------------------------------------
(* The invariant holds. *)

\* The first step of a script of paired steps.
LEMMA PairedHead ==
    ASSUME NEW q \in Seq(Steps), q # <<>>, Paired(q)
    PROVE  /\ Paired(Tail(q))
           /\ Head(q) \in DOMAIN OffStep => Tail(q) # <<>> /\ Head(Tail(q)) = OffStep[Head(q)]
  <1>1. /\ Len(q) \in Nat \ {0} /\ Len(Tail(q)) = Len(q) - 1 /\ Head(q) = q[1]
        /\ \A k \in 1..Len(Tail(q)) : Tail(q)[k] = q[k + 1]
        /\ Tail(q) # <<>> <=> Len(q) > 1
        /\ Tail(q) # <<>> => Head(Tail(q)) = q[2]
    <2>1. Len(q) \in Nat \ {0} /\ Len(Tail(q)) = Len(q) - 1 /\ Head(q) = q[1] /\ Tail(q) \in Seq(Steps)
      OBVIOUS
    <2>2. \A k \in 1..Len(Tail(q)) : Tail(q)[k] = q[k + 1]
      OBVIOUS
    <2>3. Tail(q) # <<>> <=> Len(Tail(q)) # 0
      BY <2>1, EmptySeq
    <2>4. Tail(q) # <<>> => Head(Tail(q)) = Tail(q)[1]
      BY <2>1
    <2> QED  BY <2>1, <2>2, <2>3, <2>4
  <1>2. Paired(Tail(q))
    <2> SUFFICES ASSUME NEW k \in 1..Len(Tail(q)), Tail(q)[k] \in DOMAIN OffStep
                 PROVE  k < Len(Tail(q)) /\ Tail(q)[k + 1] = OffStep[Tail(q)[k]]
      BY DEF Paired
    <2>1. k + 1 \in 1..Len(q) /\ q[k + 1] \in DOMAIN OffStep
      BY <1>1
    <2>2. k + 1 < Len(q) /\ q[(k + 1) + 1] = OffStep[q[k + 1]]
      BY <2>1 DEF Paired
    <2>3. k + 1 \in 1..Len(Tail(q)) /\ k < Len(Tail(q))
      BY <1>1, <2>2
    <2> QED  BY <1>1, <2>2, <2>3
  <1>3. Head(q) \in DOMAIN OffStep => 1 < Len(q) /\ q[1 + 1] = OffStep[q[1]]
    BY <1>1 DEF Paired
  <1> QED  BY <1>1, <1>2, <1>3

LEMMA DriveInit_Inv == ASSUME NEW t, Tasks = {t}, LedInit PROVE DriveInv
  <1>1. /\ out = {} /\ states = {} /\ script[t] = <<>> /\ doing[t] = "allOff" /\ todo[t] = <<>>
        /\ DOMAIN todo[t] = {}
    BY DEF LedInit
  <1>2. DriveTypeOK
    <2>1. <<>> \in Seq(Steps) /\ "allOff" \in Steps
      BY StepNames
    <2>2. <<>> \in [{} -> BOOLEAN] /\ {} \in SUBSET Pins
      OBVIOUS
    <2>3. <<>> \in UNION {[P -> BOOLEAN] : P \in SUBSET Pins}
      BY <2>2
    <2> QED  BY <1>1, <2>1, <2>3 DEF LedInit, DriveTypeOK
  <1>3. Settled(t) = {}
    BY <1>1 DEF Settled
  <1>4. PairInv(t)
    BY <1>1, StepNames DEF PairInv, Paired
  <1>5. MotionInv(t) /\ StateInv(t)
    BY <1>1, <1>3, StepNames DEF MotionInv, StateInv, Motion, Functions
  <1> QED  BY <1>2, <1>4, <1>5 DEF DriveInv

LEMMA CallInv == ASSUME DriveInv, NEW t, Tasks = {t}, Command(t) PROVE DriveInv'
  <1>1. PICK s \in Seq(Steps) : Paired(s) /\ CallScript(t, s)
    BY CallFacts
  <1>2. script'[t] = s /\ UNCHANGED <<out, states, doing, todo>> /\ DriveTypeOK'
    BY <1>1 DEF CallScript, DriveInv, DriveTypeOK
  <1>3. doing[t] \notin DOMAIN OffStep
    BY <1>1 DEF DriveInv, PairInv, CallScript, Idle
  <1>4. PairInv(t)'
    BY <1>1, <1>2, <1>3 DEF PairInv
  <1>5. MotionInv(t)' /\ StateInv(t)'
    BY <1>2 DEF DriveInv, MotionInv, StateInv, Motion, Functions, Settled
  <1> QED  BY <1>2, <1>4, <1>5 DEF DriveInv

LEMMA BeginInv == ASSUME DriveInv, NEW t, Tasks = {t}, Begin(t) PROVE DriveInv'
  <1> DEFINE s == Head(script[t])
  <1>1. /\ s \in Steps /\ doing'[t] = s /\ script'[t] = Tail(script[t])
        /\ script[t] # <<>> /\ todo'[t] = Writes(s) /\ out' = out
        /\ Settled(t) = out /\ Settled(t)' = After(s, out)
        /\ DriveTypeOK'
    BY BeginFacts
  <1>2. out \in SUBSET Pins /\ script[t] \in Seq(Steps)
    BY TaskTypes DEF DriveInv
  <1>3. PairInv(t)'
    BY <1>1, <1>2, PairedHead DEF DriveInv, PairInv
  <1>4. /\ doing[t] = "allOn" => s = "allOff"
        /\ doing[t] = "bothOn" => s = "bothOff"
        /\ doing[t] = "allOff" => Functions(t) = {} /\ states = {}
        /\ doing[t] \notin {"allOn", "allOff"} => states = Functions(t)
        /\ states' = CASE s \in D!Extras -> states \union {s}
                       [] s \in DOMAIN D!OffOf -> states \ {D!OffOf[s]}
                       [] OTHER -> states
    <2>1. DOMAIN todo[t] = {}
      BY DEF Begin
    <2> QED  BY <2>1 DEF DriveInv, PairInv, StateInv, Begin, OffStep
  <1>5. /\ doing[t] = "bothOn" => \E d \in D!Directions : Motion(t) \ D!Both \subseteq {d}
        /\ doing[t] \notin {"allOn", "bothOn"} => \E d \in D!Directions : Motion(t) \subseteq {d}
    BY StepNames DEF DriveInv, MotionInv
  <1>6. Motion(t) = out \intersect D!Directions /\ Functions(t) = out \intersect D!Extras
    BY <1>1 DEF Motion, Functions
  <1>7. Motion(t)' = After(s, out) \intersect D!Directions /\ Functions(t)' = After(s, out) \intersect D!Extras
    BY <1>1 DEF Motion, Functions
  <1> HIDE DEF s
  <1>8. MotionInv(t)'
    <2>1. CASE s \in D!Directions \union {"stop"}
      BY <1>1, <1>2, <1>7, <2>1, AfterMove, StepNames DEF MotionInv
    <2>2. CASE s \in D!Extras
      BY <1>1, <1>2, <1>4, <1>5, <1>6, <1>7, <2>2, AfterExtra, StepNames DEF MotionInv
    <2>3. CASE s \in DOMAIN D!OffOf
      BY <1>1, <1>2, <1>4, <1>5, <1>6, <1>7, <2>3, AfterOff, StepNames DEF MotionInv
    <2>4. CASE s \in {"allOn", "allOff"}
      BY <1>1, <1>2, <1>7, <2>4, AfterPattern, StepNames DEF MotionInv
    <2>5. CASE s \in {"bothOn", "bothOff", "unknown"}
      <3>1. D!Both \subseteq D!Directions
        BY StepNames
      <3>2. CASE s = "bothOn"
        BY <1>1, <1>2, <1>4, <1>5, <1>6, <1>7, <3>1, <3>2, AfterPattern, StepNames DEF MotionInv
      <3>3. CASE s = "bothOff"
        BY <1>1, <1>2, <1>4, <1>5, <1>6, <1>7, <3>1, <3>3, AfterPattern, StepNames DEF MotionInv
      <3>4. CASE s = "unknown"
        BY <1>1, <1>2, <1>4, <1>5, <1>6, <1>7, <3>4, AfterPattern, StepNames DEF MotionInv
      <3> QED  BY <2>5, <3>2, <3>3, <3>4
    <2> QED  BY <1>1, <2>1, <2>2, <2>3, <2>4, <2>5, StepNames
  <1>9. StateInv(t)'
    <2>1. CASE s \in D!Directions \union {"stop"}
      BY <1>1, <1>2, <1>4, <1>6, <1>7, <2>1, AfterMove, StepNames DEF StateInv
    <2>2. CASE s \in D!Extras
      BY <1>1, <1>2, <1>4, <1>6, <1>7, <2>2, AfterExtra, StepNames DEF StateInv
    <2>3. CASE s \in DOMAIN D!OffOf
      BY <1>1, <1>2, <1>4, <1>6, <1>7, <2>3, AfterOff, StepNames DEF StateInv
    <2>4. CASE s \in {"allOn", "allOff"}
      <3>1. DOMAIN Writes("allOff") = Pins
        BY StepNames DEF Writes
      <3> QED  BY <1>1, <1>2, <1>7, <2>4, <3>1, AfterPattern, StepNames DEF StateInv
    <2>5. CASE s \in {"bothOn", "bothOff", "unknown"}
      BY <1>1, <1>2, <1>4, <1>6, <1>7, <2>5, AfterPattern, StepNames DEF StateInv
    <2> QED  BY <1>1, <2>1, <2>2, <2>3, <2>4, <2>5, StepNames
  <1> QED  BY <1>1, <1>3, <1>8, <1>9 DEF DriveInv

LEMMA WriteInv == ASSUME DriveInv, NEW t, Tasks = {t}, Write(t) PROVE DriveInv'
  <1>1. PairInv(t)'
    BY WriteFacts DEF DriveInv, PairInv
  <1>2. MotionInv(t)'
    BY WriteFacts DEF DriveInv, MotionInv, Motion
  <1>3. StateInv(t)'
    BY WriteFacts DEF DriveInv, StateInv, Functions
  <1> QED  BY <1>1, <1>2, <1>3, WriteFacts DEF DriveInv

LEMMA DriveNext_Inv == ASSUME NEW t, Tasks = {t}, DriveInv, [LedNext]_ledVars PROVE DriveInv'
  <1>1. CASE UNCHANGED ledVars
    BY <1>1 DEF ledVars, DriveInv, DriveTypeOK, PairInv, MotionInv, StateInv, Motion, Functions, Settled
  <1> QED  BY <1>1, CallInv, BeginInv, WriteInv DEF LedNext, Run

\* Where the outputs, the state variables and what is left to write are.
THEOREM DriveInvariant == ASSUME NEW t, Tasks = {t} PROVE LedSpec => []DriveInv
  <1>1. LedInit => DriveInv
    BY DriveInit_Inv
  <1>2. DriveInv /\ [LedNext]_ledVars => DriveInv'
    BY DriveNext_Inv
  <1> QED  BY <1>1, <1>2, PTL DEF LedSpec

\* Types of outputs, state variables and pending writes.
THEOREM DriveTyped == ASSUME NEW t, Tasks = {t} PROVE LedSpec => []DriveTypeOK
  <1>1. DriveInv => DriveTypeOK
    BY DEF DriveInv
  <1> QED  BY <1>1, DriveInvariant, PTL

\* Between calls at most one direction is driven, whatever commands and test
\* patterns came before.
THEOREM DriveOneDirection == ASSUME NEW t, Tasks = {t} PROVE LedSpec => []OneDirection
  <1>1. DriveInv => OneDirection
    <2> SUFFICES ASSUME DriveInv, Idle(t)
                 PROVE  \E d \in D!Directions : out \intersect D!Directions \subseteq {d}
      BY DEF OneDirection
    <2>1. Settled(t) = out /\ doing[t] \notin DOMAIN OffStep
      BY DEF Idle, Settled, DriveInv, PairInv
    <2> QED  BY <2>1 DEF DriveInv, MotionInv, Motion
  <1> QED  BY <1>1, DriveInvariant, PTL

\* Between calls horn_state, lights_state and radio_state say what is on.
THEOREM DriveStatesAgree == ASSUME NEW t, Tasks = {t} PROVE LedSpec => []StatesAgree
  <1>1. DriveInv => StatesAgree
    <2> SUFFICES ASSUME DriveInv, Idle(t) PROVE states = out \intersect D!Extras
      BY DEF StatesAgree
    <2>1. Settled(t) = out /\ doing[t] \notin DOMAIN OffStep /\ DOMAIN todo[t] = {}
      BY DEF Idle, Settled, DriveInv, PairInv
    <2> QED  BY <2>1, StepNames DEF DriveInv, StateInv, Functions
  <1> QED  BY <1>1, DriveInvariant, PTL

\* Pin by pin, with any number of writes still to come, the drive does what
\* the abstract drive does at once.
THEOREM DriveRefines == ASSUME NEW t, Tasks = {t} PROVE LedSpec => Implements
  <1> USE DEF D!driveVars
  <1>1. Caller = t
    BY DEF Caller
  <1>2. /\ {p \in Settled(Caller) : p \in {"forward", "backward", "left", "right"}} = Motion(t)
        /\ {p \in Settled(Caller) : p \in {"horn", "lights", "radio"}} = Functions(t)
    BY <1>1, StepNames DEF Motion, Functions
  <1>3. LedInit => D!DriveInit
    <2> SUFFICES ASSUME LedInit PROVE D!DriveInit
      OBVIOUS
    <2>1. Settled(t) = {} /\ doing[t] = "allOff"
      BY DEF LedInit, Settled
    <2> QED  BY <1>1, <2>1 DEF D!DriveInit
  <1>4. DriveInv /\ [LedNext]_ledVars => [D!DriveNext]_(D!driveVars)
    <2> SUFFICES ASSUME DriveInv, [LedNext]_ledVars PROVE [D!DriveNext]_(D!driveVars)
      OBVIOUS
    <2>1. CASE UNCHANGED ledVars
      BY <2>1 DEF ledVars, Settled
    <2>2. CASE Command(t)
      BY <2>2, CallFacts DEF CallScript, Settled
    <2>3. CASE Write(t)
      <3>1. Settled(t)' = Settled(t) /\ UNCHANGED doing
        BY <2>3, WriteFacts
      <3> QED  BY <1>1, <3>1
    <2>4. CASE Begin(t)
      <3> DEFINE s == Head(script[t])
                 m == {p \in Settled(Caller) : p \in {"forward", "backward", "left", "right"}}
                 x == {p \in Settled(Caller) : p \in {"horn", "lights", "radio"}}
      <3>1. /\ s \in Steps /\ doing'[t] = s
            /\ Settled(t) = out /\ Settled(t)' = After(s, out)
        BY <2>4, BeginFacts
      <3>2. out \in SUBSET Pins
        BY TaskTypes DEF DriveInv
      <3>3. m = out \intersect D!Directions /\ x = out \intersect D!Extras
        BY <1>1, <3>1, StepNames
      <3>4. m' = After(s, out) \intersect D!Directions /\ x' = After(s, out) \intersect D!Extras
        BY <1>1, <3>1, StepNames
      <3>5. doing[Caller]' = s
        BY <1>1, <3>1
      <3> HIDE DEF s, m, x
      <3>6. CASE s \in D!Directions
        <4>1. m' = {s} /\ x' = x
          BY <3>2, <3>3, <3>4, <3>6, AfterMove
        <4> QED  BY <3>5, <3>6, <4>1 DEF D!DriveNext, D!Move, D!Take, m, x
      <3>7. CASE s = "stop"
        <4>1. m' = {} /\ x' = x
          BY <3>2, <3>3, <3>4, <3>7, AfterMove, StepNames
        <4> QED  BY <3>5, <3>7, <4>1 DEF D!DriveNext, D!Halt, D!Take, m, x
      <3>8. CASE s \in D!Extras
        <4>1. m' = m /\ x' = x \union {s}
          BY <3>2, <3>3, <3>4, <3>8, AfterExtra
        <4> QED  BY <3>5, <3>8, <4>1 DEF D!DriveNext, D!SwitchOn, D!Take, m, x
      <3>9. CASE s \in DOMAIN D!OffOf
        <4>1. m' = m /\ x' = x \ {D!OffOf[s]}
          BY <3>2, <3>3, <3>4, <3>9, AfterOff
        <4> QED  BY <3>5, <3>9, <4>1 DEF D!DriveNext, D!SwitchOff, D!Take, m, x
      <3>10. CASE s \in {"allOn", "allOff", "bothOn", "bothOff"}
        <4>1. /\ s = "allOn" => m' = D!Directions /\ x' = D!Extras
              /\ s = "allOff" => m' = {} /\ x' = {}
              /\ s = "bothOn" => m' = m \union D!Both /\ x' = x
              /\ s = "bothOff" => m' = m \ D!Both /\ x' = x
          BY <3>2, <3>3, <3>4, <3>10, AfterPattern, StepNames
        <4> QED  BY <3>5, <3>10, <4>1 DEF D!DriveNext, D!Pattern, D!Take, m, x
      <3>11. CASE s = "unknown"
        <4>1. m' = m /\ x' = x
          BY <3>2, <3>3, <3>4, <3>11, AfterPattern
        <4> QED  BY <3>5, <3>11, <4>1 DEF D!DriveNext, D!Ignore, D!Take, m, x
      <3> QED  BY <3>1, <3>6, <3>7, <3>8, <3>9, <3>10, <3>11, StepNames
    <2> QED  BY <2>1, <2>2, <2>3, <2>4 DEF LedNext, Run
  <1> QED  BY <1>3, <1>4, DriveInvariant, PTL DEF LedSpec, Implements, D!DriveSpec

=============================================================================
