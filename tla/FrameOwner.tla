----------------------------- MODULE FrameOwner -----------------------------
(***************************************************************************)
(* What the camera driver promises about its frame buffers, without saying *)
(* how: every buffer has one owner, the DMA engine writes only to a buffer *)
(* the driver owns, a buffer passes from the driver to the frame queue,    *)
(* from there to the application or back, and from the application only    *)
(* back to the driver.                                                     *)
(***************************************************************************)
CONSTANT Frames

VARIABLES
    owner,    \* owner[f]: who may touch frame buffer f
    writing   \* the buffer the DMA engine is writing to, as a set

vars == <<owner, writing>>

Owners == {"driver", "queue", "app"}

Init == /\ owner = [f \in Frames |-> "driver"]
        /\ writing = {}

\* DMA starts (or starts again) on one buffer the driver owns.
StartWrite(f) ==
    /\ owner[f] = "driver"
    /\ writing' = {f}
    /\ UNCHANGED owner

StopWrite ==
    /\ writing' = {}
    /\ UNCHANGED owner

Hand(f, from, to) ==
    /\ owner[f] = from
    /\ owner' = [owner EXCEPT ![f] = to]
    /\ UNCHANGED writing

\* A buffer under DMA is not published.
Publish(f) == f \notin writing /\ Hand(f, "driver", "queue")

Next == \/ StopWrite
        \/ \E f \in Frames :
              \/ StartWrite(f)
              \/ Publish(f)
              \/ Hand(f, "queue", "driver")   \* an old frame makes room for a new one
              \/ Hand(f, "queue", "app")
              \/ Hand(f, "app", "driver")

Spec == Init /\ [][Next]_vars
=============================================================================
