---------------------------- MODULE MCRelayNode ----------------------------
(***************************************************************************)
(* Instances of RelayNode for TLC.                                         *)
(***************************************************************************)
EXTENDS RelayNode

CONSTANTS broadcaster, listener, jazz

TwoPeers == {broadcaster, listener}
OnePeer  == {broadcaster}
OneTopic == {jazz}

(* The methods the relay command calls, and those the tests call as well.  *)
CommandMethods == {"run", "shutdown"}
AllMethods     == {"run", "wait_for_chunk", "subscribe_stream", "shutdown"}
=============================================================================
