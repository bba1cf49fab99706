---------------------------- MODULE MCHttpBridge ----------------------------
(***************************************************************************)
(* Small instances of HttpBridge for TLC.                                  *)
(***************************************************************************)
EXTENDS HttpBridge, TLC

\* Requests that no handler uses to stop the server are interchangeable.
Symmetry == Permutations(Requests \ SelfStop)
=============================================================================
