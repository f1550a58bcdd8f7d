--------------------------- MODULE MCBridgeServer --------------------------
(* BridgeServer for model checking: the constants are in the .cfg file. *)
EXTENDS BridgeServer
=============================================================================
