---------------------------- MODULE MCSupervisor ----------------------------
(***************************************************************************)
(* Two workers on a stream of two or three events.                         *)
(***************************************************************************)
EXTENDS Supervisor
=============================================================================
