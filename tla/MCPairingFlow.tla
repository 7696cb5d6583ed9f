--------------------------- MODULE MCPairingFlow ---------------------------
(* Instance of PairingFlow for TLC.                                         *)
EXTENDS PairingFlow
=============================================================================
