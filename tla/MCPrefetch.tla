----------------------------- MODULE MCPrefetch -----------------------------
(***************************************************************************)
(* Prefetch on small instances.  The dependencies: kb is templated on what *)
(* the caller says, crm is fetched without a query, pay is not idempotent. *)
(* Two utterances are far apart: a query is near itself only.              *)
(***************************************************************************)
EXTENDS Prefetch

CONSTANTS kb, crm, pay

\* Both utterances are alike to every definition; sound, no liveness is checked with it.
Utterances == Permutations(Queries)

SelfNear == {<<q, q>> : q \in Queries}
=============================================================================
