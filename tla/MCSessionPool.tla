--------------------------- MODULE MCSessionPool ---------------------------
(***************************************************************************)
(* SessionPool with a tie between two items, so that two prunes may choose *)
(* different victims, and one better item and one worse.                   *)
(***************************************************************************)
EXTENDS SessionPool, TLC

CONSTANTS turnItem, planA, planB, liveItem

ByKind == [i \in Items |-> CASE i = turnItem -> 2
                             [] i \in {planA, planB} -> 1
                             [] i = liveItem -> 0]

\* The two planned items are alike.
Alike == Permutations({planA, planB})
=============================================================================
