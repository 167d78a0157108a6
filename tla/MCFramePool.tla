---------------------------- MODULE MCFramePool ----------------------------
(* Instances of FramePool for TLC: the values are in the .cfg files. *)
EXTENDS FramePool
=============================================================================
