----------------------------- MODULE MCScheduler -----------------------------
(***************************************************************************)
(* Scheduler on small instances; the .cfg files choose the calls and the   *)
(* budget.                                                                 *)
(***************************************************************************)
EXTENDS Scheduler
=============================================================================
