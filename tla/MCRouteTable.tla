---------------------------- MODULE MCRouteTable ----------------------------
(***************************************************************************)
(* Small instances of RouteTable for TLC.                                  *)
(***************************************************************************)
EXTENDS RouteTable
=============================================================================
