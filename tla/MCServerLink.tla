----------------------------- MODULE MCServerLink -----------------------------
(***************************************************************************)
(* ServerLink for TLC.  The bound: after a race only a reboot is explored. *)
(* Most properties promise nothing from there on; that four of them hold   *)
(* beyond the races "early", "late" and "handle" too is left to the        *)
(* theorems of ServerLinkProofs.                                           *)
(***************************************************************************)
EXTENDS ServerLink

MCNext == Next /\ (races # {} => races' = {})

MCSpec == Init /\ [][MCNext]_vars /\ Fairness
===============================================================================
