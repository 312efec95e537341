---------------------------- MODULE MCStreamPath ----------------------------
(***************************************************************************)
(* Instances of StreamPath for TLC.                                        *)
(***************************************************************************)
EXTENDS StreamPath

CONSTANTS alice

OneListener == {alice}

NoFaults   == {}
EveryFault == FaultKinds
=============================================================================
