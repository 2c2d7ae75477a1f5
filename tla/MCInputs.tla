------------------------------ MODULE MCInputs ------------------------------
(***************************************************************************)
(* Inputs for TLC.  Ticks of about 150 ms keep the order of the times: 150 ms  *)
(* < 300 ms < 600 ms < 1 s < 30 s < 65 s.  The configurations are a contact    *)
(* with an item only, a switch, a switch with a second command, a switch that  *)
(* repeats, the button with all keys, the dimmer of the documentation, and a   *)
(* mixture that leaves every second key out.                                *)
(***************************************************************************)
EXTENDS Inputs

ConfigSet ==
  { {"item"},
    {"item", "scmd", "rcmd"},
    {"scmd", "rcmd", "scmd2"},
    {"scmd", "rcmd", "repeat"},
    Keys \ {"item", "repeat"},
    {"click", "dclick", "tclick", "rpcmd", "rpcmd2", "rpcmd3"},
    {"item", "scmd", "lcmd", "rcmd", "scmd2", "dclick", "tclick"} }
=============================================================================
