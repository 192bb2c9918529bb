---------------------------- MODULE MCLifecycle ----------------------------
(***************************************************************************)
(* Lifecycle for TLC: the constant is given by the cfg files.              *)
(***************************************************************************)
EXTENDS Lifecycle
=============================================================================
