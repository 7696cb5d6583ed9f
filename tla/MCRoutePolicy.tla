---------------------------- MODULE MCRoutePolicy ----------------------------
(* Instance of RoutePolicy for TLC.                                         *)
EXTENDS RoutePolicy
=============================================================================
