-------------------------------- MODULE Drive --------------------------------
(***************************************************************************)
(* What the drive outputs promise: a command takes effect as a whole, and  *)
(* movement and the extra functions do not disturb one another.  Here for  *)
(* LedController to implement, one pin at a time.                          *)
(***************************************************************************)

Directions == {"forward", "backward", "left", "right"}
Extras == {"horn", "lights", "radio"}
Both == {"forward", "backward"}

\* The commands that end an extra function.
OffOf == [hornOff |-> "horn", lightsOff |-> "lights", radioOff |-> "radio"]

VARIABLES
    order,   \* the command in force, or the test pattern
    motion,  \* directions that are driven
    extras   \* extra functions that are on

driveVars == <<order, motion, extras>>

DriveInit == order = "allOff" /\ motion = {} /\ extras = {}

Take(o, m, x) == order' = o /\ motion' = m /\ extras' = x

Move == \E d \in Directions : Take(d, {d}, extras)
Halt == Take("stop", {}, extras)
SwitchOn == \E x \in Extras : Take(x, motion, extras \union {x})
SwitchOff == \E o \in DOMAIN OffOf : Take(o, motion, extras \ {OffOf[o]})
Ignore == Take("unknown", motion, extras)

\* The patterns of the test functions.
Pattern ==
    \/ Take("allOn", Directions, Extras) \/ Take("allOff", {}, {})
    \/ Take("bothOn", motion \union Both, extras) \/ Take("bothOff", motion \ Both, extras)

DriveNext == Move \/ Halt \/ SwitchOn \/ SwitchOff \/ Ignore \/ Pattern

DriveSpec == DriveInit /\ [][DriveNext]_driveVars

=============================================================================
