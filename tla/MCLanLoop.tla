------------------------------ MODULE MCLanLoop ------------------------------
(***************************************************************************)
(* LanLoop for TLC.  Ticks keep the order of the timeouts of options.h:      *)
(* 5 s < 8 s < 10 s < 30 s < 120 s.                                         *)
(***************************************************************************)
EXTENDS LanLoop
=============================================================================
