------------------------------ MODULE MCSequential ------------------------------
(***************************************************************************)
(* The parts of the firmware that one task executes call by call, in one   *)
(* run: the bring-up of the camera, the marker search, the cutting of      *)
(* frames into datagrams and the drive.  They share no variable, so each   *)
(* behaviour is a behaviour of one of them, and the others wait in an      *)
(* initial state.                                                          *)
(***************************************************************************)
EXTENDS CameraBringUp, JpegScan, WifiStream, LedController

VARIABLE part  \* the part that moves

seqVars == <<bringUpVars, scanVars, streamVars, ledVars, part>>

SeqInit ==
    /\ BringUpInit /\ ScanInit /\ StreamInit /\ LedInit
    /\ part \in IF length = 0 /\ scan = "soi" THEN {"bringUp", "scan", "stream", "drive"}
                ELSE {"scan"}

SeqNext ==
    /\ \/ part = "bringUp" /\ BringUpNext /\ UNCHANGED <<scanVars, streamVars, ledVars>>
       \/ part = "scan" /\ ScanNext /\ UNCHANGED <<bringUpVars, streamVars, ledVars>>
       \/ part = "stream" /\ StreamNext /\ UNCHANGED <<bringUpVars, scanVars, ledVars>>
       \/ part = "drive" /\ LedNext /\ UNCHANGED <<bringUpVars, scanVars, streamVars>>
    /\ UNCHANGED part

\* BringUpLiveSpec's fairness, for the behaviours of the bring-up.
SeqSpec == SeqInit /\ [][SeqNext]_seqVars /\ WF_bringUpVars(part = "bringUp" /\ BringUpNext)

\* When calls stop failing, a retry brings the camera up (ComesUp).
BringUpComesUp == part = "bringUp" => ComesUp

=============================================================================
