--------------------------- MODULE MCIrohSessions ---------------------------
(* Instance of IrohSessions for TLC.                                        *)
EXTENDS IrohSessions
=============================================================================
