---------------------------- MODULE MCConfigStore ----------------------------
(***************************************************************************)
(* ConfigStore for TLC: the sentinels are model values, the configuration *)
(* file names the installations, each by those who work on its             *)
(* configuration.                                                          *)
(***************************************************************************)
EXTENDS ConfigStore
=============================================================================
