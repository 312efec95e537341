---------------------------- MODULE MCAudioPath ----------------------------
(***************************************************************************)
(* Instances of AudioPath for TLC.                                         *)
(***************************************************************************)
EXTENDS AudioPath
=============================================================================
