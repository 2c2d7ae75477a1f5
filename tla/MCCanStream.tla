----------------------------- MODULE MCCanStream -----------------------------
(***************************************************************************)
(* CanStream for TLC.  The documents are short enough for sequence numbers   *)
(* not to repeat, as they are in the device (65536 frames of 8 bytes).      *)
(***************************************************************************)
EXTENDS CanStream

ASSUME NoRepeat == MaxLen <= FRAME * SEQS
=============================================================================
