--------------------------- MODULE MCVideoStream ---------------------------
(***************************************************************************)
(* Instances of VideoStream for TLC.  The firmware starts the camera with  *)
(* one frame buffer (fb_count = 1).                                        *)
(***************************************************************************)
EXTENDS VideoStream, TLC

CONSTANTS c1, c2

MCClients == {c1, c2}
MCSymmetry == Permutations(MCClients)
=============================================================================
