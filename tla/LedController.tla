---------------------------- MODULE LedController ----------------------------
(***************************************************************************)
(* The drive and its lights (led_controller.c) under the commands of       *)
(* command_handler.c: a command sets its GPIO outputs one after another,   *)
(* in the task of the caller, and there is no lock.                        *)
(***************************************************************************)
EXTENDS Naturals, Sequences

CONSTANTS
    Tasks,     \* tasks that command the drive
    MaxCount   \* bound on the count of a test sequence

ASSUME DriveAssumption == MaxCount \in Nat

VARIABLES
    out,     \* the outputs at level 1
    states,  \* of horn_state, lights_state and radio_state, those that are true
    script,  \* what the call of each task has still to execute
    doing,   \* the step each task executes, or executed last
    todo     \* the levels that step has still to write

ledVars == <<out, states, script, doing, todo>>

\* The outputs once everything is written, with the writes of task t pending.
Settled(t) ==
    {p \in DOMAIN todo[t] : todo[t][p]} \union (out \ DOMAIN todo[t])

\* The abstract drive, with one task to command it.
Caller == CHOOSE t \in Tasks : TRUE
D == INSTANCE Drive WITH
        order <- doing[Caller],
        motion <- {p \in Settled(Caller) : p \in {"forward", "backward", "left", "right"}},
        extras <- {p \in Settled(Caller) : p \in {"horn", "lights", "radio"}}

Pins == D!Directions \union D!Extras
Steps ==
    Pins \union DOMAIN D!OffOf \union {"stop", "allOn", "allOff", "bothOn", "bothOff", "unknown"}

\* Mutant: the turns leave one another on.
WritesHalf(s) ==
    CASE s \in {"left", "right"} -> [p \in D!Both \union {s} |-> p = s]
      [] s \in D!Both \union {"stop"} -> [p \in D!Directions |-> p = s]
      [] s \in D!Extras -> [p \in {s} |-> TRUE]
      [] s \in DOMAIN D!OffOf -> [p \in {D!OffOf[s]} |-> FALSE]
      [] s \in {"allOn", "allOff"} -> [p \in Pins |-> s = "allOn"]
      [] s \in {"bothOn", "bothOff"} -> [p \in D!Both |-> s = "bothOn"]
      [] s = "unknown" -> <<>>

\* The levels a step writes: led_controller_execute, all_on, all_off and
\* blink_forward_backward.
Writes(s) ==
    CASE s \in D!Directions \union {"stop"} -> [p \in D!Directions |-> p = s]
      [] s \in D!Extras -> [p \in {s} |-> TRUE]
      [] s \in DOMAIN D!OffOf -> [p \in {D!OffOf[s]} |-> FALSE]
      [] s \in {"allOn", "allOff"} -> [p \in Pins |-> s = "allOn"]
      [] s \in {"bothOn", "bothOff"} -> [p \in D!Both |-> s = "bothOn"]
      [] s = "unknown" -> <<>>

\* Every function writes its outputs in this order.
Rank == [forward |-> 1, backward |-> 2, left |-> 3, right |-> 4,
         horn |-> 5, lights |-> 6, radio |-> 7]
FirstPin(p, P) == p \in P /\ \A q \in P : Rank[p] <= Rank[q]

\* led_controller_init, before any other task: everything off.
LedInit ==
    /\ out = {} /\ states = {}
    /\ script = [t \in Tasks |-> <<>>]
    /\ doing = [t \in Tasks |-> "allOff"]
    /\ todo = [t \in Tasks |-> <<>>]

Idle(t) == script[t] = <<>> /\ DOMAIN todo[t] = {}

-----------------------------------------------------------------------------
(* Calls *)

CallScript(t, s) ==
    /\ Idle(t)
    /\ script' = [script EXCEPT ![t] = s]
    /\ UNCHANGED <<out, states, doing, todo>>

\* led_controller_execute itself, with a command that may be unknown.
Execute(t) ==
    \E s \in Pins \union DOMAIN D!OffOf \union {"stop", "unknown"} : CallScript(t, <<s>>)

\* command_handler_process_udp_cmd: value 0 of a movement stops.
UdpStep(id, value) ==
    IF value = 0 /\ id <= 4 THEN "stop"
    ELSE CASE id = 1 -> "forward" [] id = 2 -> "backward" [] id = 3 -> "left" [] id = 4 -> "right"
           [] id = 5 -> IF value = 1 THEN "lights" ELSE "lightsOff"
           [] OTHER -> "none"

UdpCmd(t) ==
    \E id \in 0..6, value \in 0..2 :
        UdpStep(id, value) # "none" /\ CallScript(t, <<UdpStep(id, value)>>)

\* command_parse_string: the first of these that the text contains, or a stop.
Words == <<"forward", "backward", "left", "right">>
Parse(text) ==
    IF text = {} THEN "stop"
    ELSE Words[CHOOSE k \in DOMAIN Words : Words[k] \in text /\ \A l \in 1..k - 1 : Words[l] \notin text]

BleCmd(t) == \E text \in SUBSET D!Directions : CallScript(t, <<Parse(text)>>)

\* The steps of s, n times.
Times(n, s) == [k \in 1..n * Len(s) |-> s[((k - 1) % Len(s)) + 1]]

TestSequence(t) ==
    \E n \in 0..MaxCount :
        CallScript(t, Times(n, <<"forward", "backward", "left", "right", "stop", "horn", "hornOff",
                                 "lights", "lightsOff", "radio", "radioOff">>))
BlinkAll(t) == \E n \in 0..MaxCount : CallScript(t, Times(n, <<"allOn", "allOff">>))
BlinkForwardBackward(t) == \E n \in 0..MaxCount : CallScript(t, Times(n, <<"bothOn", "bothOff">>))

-----------------------------------------------------------------------------
(* Steps *)

\* A command changes its state variable before it writes.
Begin(t) ==
    /\ script[t] # <<>> /\ DOMAIN todo[t] = {}
    /\ LET s == Head(script[t])
       IN  /\ todo' = [todo EXCEPT ![t] = Writes(s)]
           /\ doing' = [doing EXCEPT ![t] = s]
           /\ states' = CASE s \in D!Extras -> states \union {s}
                          [] s \in DOMAIN D!OffOf -> states \ {D!OffOf[s]}
                          [] OTHER -> states
    /\ script' = [script EXCEPT ![t] = Tail(@)]
    /\ UNCHANGED out

\* Mutant: all_off leaves the state variables.
WriteKeepsStates(t) ==
    /\ \E p \in Pins :
         /\ FirstPin(p, DOMAIN todo[t])
         /\ out' = IF todo[t][p] THEN out \union {p} ELSE out \ {p}
         /\ todo' = [todo EXCEPT ![t] = [q \in DOMAIN @ \ {p} |-> @[q]]]
    /\ UNCHANGED <<states, script, doing>>

\* gpio_set_level; all_off clears the state variables after its last one.
Write(t) ==
    /\ \E p \in Pins :
         /\ FirstPin(p, DOMAIN todo[t])
         /\ out' = IF todo[t][p] THEN out \union {p} ELSE out \ {p}
         /\ todo' = [todo EXCEPT ![t] = [q \in DOMAIN @ \ {p} |-> @[q]]]
         /\ states' = IF doing[t] = "allOff" /\ DOMAIN todo[t] = {p} THEN {} ELSE states
    /\ UNCHANGED <<script, doing>>

Command(t) ==
    UdpCmd(t) \/ BleCmd(t) \/ Execute(t) \/ TestSequence(t) \/ BlinkAll(t) \/ BlinkForwardBackward(t)
Run(t) == Begin(t) \/ Write(t)
LedNext == \E t \in Tasks : Command(t) \/ Run(t)

LedSpec == LedInit /\ [][LedNext]_ledVars

-----------------------------------------------------------------------------
(* Properties, with one task *)

DriveTypeOK ==
    /\ out \subseteq Pins /\ states \subseteq D!Extras
    /\ script \in [Tasks -> Seq(Steps)] /\ doing \in [Tasks -> Steps]
    /\ todo \in [Tasks -> UNION {[P -> BOOLEAN] : P \in SUBSET Pins}]

\* A command has its whole effect: the outputs are those of the abstract drive
\* as soon as the writes of the step are done (led_controller_execute).
Implements == D!DriveSpec

\* Between calls at most one direction is driven, after test patterns and
\* whatever commands came before (led_controller_execute, blink functions).
OneDirection ==
    (\A t \in Tasks : Idle(t)) => \E d \in D!Directions : out \intersect D!Directions \subseteq {d}

\* Between calls the state variables say what the outputs do (horn_state,
\* lights_state, radio_state; all_on does not set them, all_off clears them).
StatesAgree == (\A t \in Tasks : Idle(t)) => states = out \intersect D!Extras

=============================================================================
