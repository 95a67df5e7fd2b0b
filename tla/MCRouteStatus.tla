---------------------------- MODULE MCRouteStatus ----------------------------
(***************************************************************************)
(* An instance of RouteStatus for TLC: two listeners the route may name,   *)
(* another controller that writes its entry.                               *)
(***************************************************************************)
EXTENDS RouteStatus
==============================================================================
