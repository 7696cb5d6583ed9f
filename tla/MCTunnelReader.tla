--------------------------- MODULE MCTunnelReader ---------------------------
(* Instance of TunnelReader for TLC: messages of two lengths.               *)
EXTENDS TunnelReader

MCPayload == {<<1>>, <<0, 1>>}
=============================================================================
