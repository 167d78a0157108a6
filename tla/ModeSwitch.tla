------------------------------ MODULE ModeSwitch ------------------------------
(***************************************************************************)
(* The operating mode (mode_switch.c): one variable in RAM, one key in NVS *)
(* that is to bring it back after a reboot.                                *)
(*                                                                         *)
(* mode_switch_set writes RAM first and NVS afterwards, takes no lock, and *)
(* returns ESP_OK whatever NVS answers.  A write to NVS is modelled as     *)
(* all or nothing (the NVS library, external).                             *)
(***************************************************************************)
CONSTANTS
    Callers,    \* the tasks that call mode_switch_set
    ManualBle,  \* MODE_MANUAL_BLE
    AutoServer, \* MODE_AUTO_SERVER
    Others,     \* the modes that behave alike everywhere: {MODE_AUTO_OFFLINE}
    NoMode,     \* the NVS key does not exist
    ModeFaults  \* which faults happen: a subset of {"nvs"}

Modes == {ManualBle, AutoServer} \cup Others

ASSUME ModeAssumption == NoMode \notin Modes /\ ManualBle # AutoServer

VARIABLES
    mode,    \* current_mode
    saved,   \* the value of "current_mode" in NVS
    setPc,   \* setPc[t]: where t is inside mode_switch_set
    setArg   \* setArg[t]: the value t passes to nvs_set_i8 (else ManualBle)

modeVars == <<mode, saved, setPc, setArg>>

ModeInit ==
    /\ mode = ManualBle /\ saved = NoMode
    /\ setPc = [t \in Callers |-> "idle"]
    /\ setArg = [t \in Callers |-> ManualBle]

SetStep(t, from, to) == setPc[t] = from /\ setPc' = [setPc EXCEPT ![t] = to]

\* mode_switch_init: the mode a reboot brings back.
BootMode == IF saved \in Modes THEN saved ELSE ManualBle

\* Mutant: NVS is written only when entering an automatic mode.
SetModeSkips(t, m) ==
    /\ m # mode
    /\ SetStep(t, "idle", IF m = ManualBle THEN "idle" ELSE "open")
    /\ mode' = m
    /\ UNCHANGED <<saved, setArg>>

\* mode_switch_set up to nvs_open.  Asked for the current mode it returns at
\* once, even when NVS holds another one.
SetMode(t, m) ==
    /\ m # mode
    /\ SetStep(t, "idle", "open")
    /\ mode' = m
    /\ UNCHANGED <<saved, setArg>>

\* nvs_open; current_mode is read again for nvs_set_i8.
OpenNvs(t) ==
    /\ SetStep(t, "open", "write")
    /\ setArg' = [setArg EXCEPT ![t] = mode]
    /\ UNCHANGED <<mode, saved>>

\* nvs_set_i8 and nvs_commit.  Any NVS call may have failed: nothing is saved,
\* and the caller gets ESP_OK all the same.
WriteNvs(t) ==
    /\ SetStep(t, "write", "idle")
    /\ saved' \in {setArg[t]} \cup (IF "nvs" \in ModeFaults THEN {saved} ELSE {})
    /\ setArg' = [setArg EXCEPT ![t] = ManualBle]
    /\ UNCHANGED mode

\* The power goes, in the middle of a call or not; mode_switch_init, which
\* stays with the default when NVS cannot be read.
PowerCycle ==
    /\ mode' \in {BootMode} \cup (IF "nvs" \in ModeFaults THEN {ManualBle} ELSE {})
    /\ setPc' = [t \in Callers |-> "idle"]
    /\ setArg' = [t \in Callers |-> ManualBle]
    /\ UNCHANGED saved

ModeCall(t) == (\E m \in Modes : SetMode(t, m)) \/ OpenNvs(t) \/ WriteNvs(t)

ModeNext == PowerCycle \/ \E t \in Callers : ModeCall(t)

ModeSpec == ModeInit /\ [][ModeNext]_modeVars

-----------------------------------------------------------------------------
ModeTypeOK ==
    /\ mode \in Modes /\ saved \in Modes \cup {NoMode}
    /\ setPc \in [Callers -> {"idle", "open", "write"}]
    /\ setArg \in [Callers -> Modes]

\* When no call is running, the mode in force is the one a reboot restores
\* ("to remember the mode after a reboot", mode_switch.c:18).
ModeRemembered == (\A t \in Callers : setPc[t] = "idle") => BootMode = mode

=============================================================================
