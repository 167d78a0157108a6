----------------------------- MODULE UdpControl -----------------------------
(***************************************************************************)
(* Control of the robot as app_main starts it: the UDP command task        *)
(* (main.c) behind the access point, the horn it plays itself on an I2S    *)
(* channel (audio_transport.c), and the BLE link it forwards to.           *)
(*                                                                         *)
(* Datagrams wait in the socket's mailbox; one that finds it full is lost. *)
(* The I2S driver is seen through its calls: a channel is registered,      *)
(* ready or running, and a write to one that is not running fails.         *)
(***************************************************************************)
EXTENDS WifiAp, BleLink

CONSTANTS
    MailboxSize,  \* LWIP_UDP_RECVMBOX_SIZE
    Repeats,      \* repeats
    I2sFaults     \* {"channel", "std", "enable", "write", "disable", "memory"}

ASSUME ControlAssumption ==
    /\ MailboxSize \in Nat \ {0} /\ Repeats \in Nat \ {0}
    /\ I2sFaults \subseteq {"channel", "std", "enable", "write", "disable", "memory"}

VARIABLES
    mailbox,     \* datagrams the socket holds
    pc,          \* the UDP task
    channel,     \* tx_chan: "none", "registered", "ready" or "running"
    txEnabled,   \* tx_enabled
    wasEnabled,  \* was_enabled of the horn
    buffer,      \* t_buf is allocated
    repeat,      \* j of the horn
    notified     \* a command was handed to NimBLE for the central

audioVars == <<channel, txEnabled, wasEnabled, buffer, repeat>>
vars == <<wifiVars, bleVars, mailbox, pc, audioVars, notified>>

\* What a datagram is for: the horn, a branch that only logs or calls a stub,
\* the central, or nothing because it is empty.
Datagrams == {"horn", "log", "ble", "empty"}

\* A call that can fail: TRUE for success.
Outcome(fault) == IF fault \in I2sFaults THEN BOOLEAN ELSE {TRUE}

Init ==
    /\ WifiInit /\ BleInit
    /\ mailbox = <<>>
    /\ pc = "boot"
    /\ channel = "none" /\ txEnabled = FALSE
    /\ wasEnabled = FALSE /\ buffer = FALSE /\ repeat = 0
    /\ notified = FALSE

To(p) == pc' = p /\ UNCHANGED <<wifiVars, bleVars>>
Audio(p) == To(p) /\ UNCHANGED <<mailbox, notified>>

-----------------------------------------------------------------------------
(* app_main and the environment *)

\* audio_i2s_init, whose result app_main ignores: no channel, one that is not
\* configured, or a ready one.  The UDP task starts after it.
AudioI2sInit ==
    /\ pc = "boot"
    /\ \E created \in Outcome("channel"), configured \in Outcome("std") :
         channel' = IF ~created THEN "none" ELSE IF configured THEN "ready" ELSE "registered"
    /\ Audio("recv")
    /\ UNCHANGED <<txEnabled, wasEnabled, buffer, repeat>>

\* An associated station sends a datagram.
Arrive ==
    /\ stations > 0 /\ pc # "boot"
    /\ \E d \in Datagrams :
         mailbox' = IF Len(mailbox) < MailboxSize THEN Append(mailbox, d) ELSE mailbox
    /\ UNCHANGED <<wifiVars, bleVars, pc, audioVars, notified>>

-----------------------------------------------------------------------------
(* udp_command_task *)

Receive ==
    /\ pc = "recv" /\ mailbox # <<>>
    /\ mailbox' = Tail(mailbox)
    /\ To(CASE Head(mailbox) = "horn" -> "horn"
            [] Head(mailbox) = "ble" -> "ble"
            [] OTHER -> "pause")
    /\ UNCHANGED <<audioVars, notified>>

\* The delay of 10 ms at the end of the loop.
Pause == pc = "pause" /\ Audio("recv") /\ UNCHANGED audioVars

(* ble_manager_send_command *)

TestConnected ==
    /\ pc = "ble"
    /\ Audio(IF isConnected THEN "notify" ELSE "pause")
    /\ UNCHANGED audioVars

\* ble_gatts_notify_custom, which finds the host's entry or fails; no buffer
\* for the command, no call.
Notify ==
    /\ pc = "notify"
    /\ \E ok \in Outcome("memory") : notified' = (ok /\ conn)
    /\ To("pause")
    /\ UNCHANGED <<mailbox, audioVars>>

(* audio_play_horn *)

PlayHorn ==
    /\ pc = "horn"
    /\ wasEnabled' = txEnabled
    /\ Audio(IF channel = "none" THEN "pause" ELSE IF txEnabled THEN "malloc" ELSE "enable")
    /\ UNCHANGED <<channel, txEnabled, buffer, repeat>>

\* audio_enable_tx(true): only a ready channel can be enabled.
EnableTx ==
    /\ pc = "enable"
    /\ \E ok \in Outcome("enable") :
         IF ok /\ channel = "ready"
         THEN channel' = "running" /\ txEnabled' = TRUE /\ Audio("malloc")
         ELSE UNCHANGED <<channel, txEnabled>> /\ Audio("pause")
    /\ UNCHANGED <<wasEnabled, buffer, repeat>>

\* Mutant: without memory the horn just returns.
MallocReturns ==
    /\ pc = "malloc"
    /\ buffer' \in Outcome("memory")
    /\ repeat' = 0
    /\ Audio(IF buffer' THEN "write" ELSE "pause")
    /\ UNCHANGED <<channel, txEnabled, wasEnabled>>

Malloc ==
    /\ pc = "malloc"
    /\ buffer' \in Outcome("memory")
    /\ repeat' = 0
    /\ Audio(IF buffer' THEN "write" ELSE "disable")
    /\ UNCHANGED <<channel, txEnabled, wasEnabled>>

\* Mutant: after a failed write the tone begins again.
WriteAgain ==
    /\ pc = "write"
    /\ \E ok \in Outcome("write") :
         /\ repeat' = IF ok THEN repeat + 1 ELSE 0
         /\ Audio(IF repeat' < Repeats THEN "write" ELSE "free")
    /\ UNCHANGED <<channel, txEnabled, wasEnabled, buffer>>

\* One i2s_channel_write; the first that fails or is cut short ends the loop.
Write ==
    /\ pc = "write"
    /\ \E ok \in Outcome("write") :
         /\ repeat' = repeat + 1
         /\ Audio(IF ok /\ repeat' < Repeats THEN "write" ELSE "free")
    /\ UNCHANGED <<channel, txEnabled, wasEnabled, buffer>>

Free ==
    /\ pc = "free"
    /\ buffer' = FALSE
    /\ Audio("disable")
    /\ UNCHANGED <<channel, txEnabled, wasEnabled, repeat>>

\* audio_enable_tx(false), unless the speaker was on before.
DisableTx ==
    /\ pc = "disable"
    /\ IF wasEnabled \/ ~txEnabled
       THEN UNCHANGED <<channel, txEnabled>>
       ELSE channel' = "ready" /\ txEnabled' = FALSE
    /\ Audio("pause")
    /\ UNCHANGED <<wasEnabled, buffer, repeat>>

\* Mutant: the flag is cleared whatever the driver says.
DisableTxFailsCleared ==
    /\ pc = "disable" /\ "disable" \in I2sFaults
    /\ ~wasEnabled /\ txEnabled
    /\ txEnabled' = FALSE
    /\ Audio("pause")
    /\ UNCHANGED <<channel, wasEnabled, buffer, repeat>>

\* i2s_channel_disable fails: channel and flag stay as they are.
DisableTxFails ==
    /\ pc = "disable" /\ "disable" \in I2sFaults
    /\ ~wasEnabled /\ txEnabled
    /\ Audio("pause")
    /\ UNCHANGED audioVars

Horn == PlayHorn \/ EnableTx \/ Malloc \/ Write \/ Free \/ DisableTx \/ DisableTxFails
UdpTask == Receive \/ Pause \/ TestConnected \/ Notify \/ Horn

Others == UNCHANGED <<mailbox, pc, audioVars, notified>>
Next ==
    \/ AudioI2sInit
    \/ Arrive
    \/ UdpTask
    \/ WifiNext /\ UNCHANGED bleVars /\ Others
    \/ BleNext /\ UNCHANGED wifiVars /\ Others

Spec == Init /\ [][Next]_vars

\* The boot, the UDP task and the NimBLE host run when they can.
Fairness ==
    /\ WF_vars(AudioI2sInit)
    /\ WF_vars(UdpTask)
    /\ WF_vars(Host /\ UNCHANGED wifiVars /\ Others)

LiveSpec == Spec /\ Fairness

-----------------------------------------------------------------------------
(* Properties *)

HornPcs == {"horn", "enable", "malloc", "write", "free", "disable"}

ControlTypeOK ==
    /\ BleTypeOK
    /\ mailbox \in Seq(Datagrams) /\ Len(mailbox) <= MailboxSize
    /\ pc \in {"boot", "recv", "pause", "ble", "notify"} \union HornPcs
    /\ channel \in {"none", "registered", "ready", "running"}
    /\ txEnabled \in BOOLEAN /\ wasEnabled \in BOOLEAN /\ buffer \in BOOLEAN /\ notified \in BOOLEAN
    /\ repeat \in 0..Repeats

\* tx_enabled says what the channel does, whatever calls failed, and the horn
\* writes to a running channel from a buffer it frees on every way out
\* (audio_enable_tx, audio_play_horn).
HornSafe ==
    /\ txEnabled <=> channel = "running"
    /\ pc \in {"malloc", "write", "free", "disable"} => txEnabled
    /\ buffer <=> pc \in {"write", "free"}

\* A horn leaves the speaker as it found it, on every way out, unless the
\* driver refuses to stop the channel (audio_play_horn).
HornEnds == pc \in HornPcs /\ pc' = "pause"
SpeakerRestored ==
    [][HornEnds /\ pc # "horn" => txEnabled' = wasEnabled \/ DisableTxFails]_vars

\* A full mailbox does not stay full: whatever a command does, and however
\* long a horn with failing calls lasts, the task comes back for the next
\* one (udp_command_task).
MailboxDrains == Len(mailbox) = MailboxSize ~> Len(mailbox) < MailboxSize

=============================================================================
