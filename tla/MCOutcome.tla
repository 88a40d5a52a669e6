----------------------------- MODULE MCOutcome -----------------------------
(***************************************************************************)
(* Two requests at a time on one session, three in all.                     *)
(***************************************************************************)
EXTENDS Outcome
=============================================================================
