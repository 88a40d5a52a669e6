----------------------------- MODULE MCTurnFlow -----------------------------
(***************************************************************************)
(* TurnFlow over two small procedures of the same actions and states.      *)
(* trip asks before it books, once the caller is ready: a conversation     *)
(* that has just begun is allowed nothing by its conditions.  desk books   *)
(* before it asks, and may begin at once.                                  *)
(***************************************************************************)
EXTENDS TurnFlow, TLC

CONSTANTS trip, desk, ask, book, ready

Procedures ==
    trip :> [actions |-> {ask, book}, states |-> {ready},
             edges |-> {Edge(ready, ask, "forward"), Edge(ask, book, "forward")}]
    @@
    desk :> [actions |-> {ask, book}, states |-> {ready},
             edges |-> {Edge(ask, book, "backward"), Edge(ready, book, "both")}]

\* No liveness is checked with it.
Repeats == Permutations(Requests)
=============================================================================
