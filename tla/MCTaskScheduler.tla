-------------------------- MODULE MCTaskScheduler --------------------------
(***************************************************************************)
(* Small instances of TaskScheduler for TLC.                               *)
(***************************************************************************)
EXTENDS TaskScheduler, TLC

CONSTANTS a, b, c

(* Renames of one file to a new place.                                     *)
RenameAB == {a :> b}
RenameAC == {a :> c}

=============================================================================
