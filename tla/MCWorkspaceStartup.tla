------------------------- MODULE MCWorkspaceStartup -------------------------
(***************************************************************************)
(* WorkspaceStartup for TLC: the constants are given by the cfg files.     *)
(***************************************************************************)
EXTENDS WorkspaceStartup
=============================================================================
