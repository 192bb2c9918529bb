---------------------------- MODULE MCTaskSystem ----------------------------
(***************************************************************************)
(* Small instances of TaskSystem for TLC.                                  *)
(***************************************************************************)
EXTENDS TaskSystem

CONSTANTS j1, j2, j3

=============================================================================
