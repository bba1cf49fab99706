-------------------------- MODULE MCServerLifecycle --------------------------
(***************************************************************************)
(* Small instances of ServerLifecycle for TLC.                             *)
(***************************************************************************)
EXTENDS ServerLifecycle, TLC

\* Tasks and apps are interchangeable.
Symmetry == Permutations(Tasks) \cup Permutations(Apps)
=============================================================================
