------------------------- MODULE MCPairingAuthority -------------------------
(* Instance of PairingAuthority for TLC: two peers that may compete for an  *)
(* invitation, invitations that offer a capability or none, a clock that   *)
(* runs past the deadline of each.                                         *)
EXTENDS PairingAuthority
=============================================================================
