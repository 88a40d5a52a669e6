---------------------------- MODULE MCWorkspace ----------------------------
(***************************************************************************)
(* Two requests at a time, four in all, on one slug that may be deleted    *)
(* and taken again.                                                        *)
(***************************************************************************)
EXTENDS Workspace
=============================================================================
