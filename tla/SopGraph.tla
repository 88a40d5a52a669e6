------------------------------ MODULE SopGraph ------------------------------
(***************************************************************************)
(* backend/sopilot/sop_graph.py: which actions a procedure allows, given   *)
(* the actions taken and the user states seen so far.                      *)
(*                                                                         *)
(* A procedure g is a record of its actions, its states, and its edges     *)
(* (records of src, dst and direction).  Lists of names are sets here: the *)
(* code sorts them, and takes the first where nobody asks for another.     *)
(***************************************************************************)

Directions == {"forward", "backward", "both"}

Edge(src, dst, direction) == [src |-> src, dst |-> dst, direction |-> direction]

\* Hard ordering: the actions that must have been taken before a.
ActionPrereqs(g, a) ==
    {e.src : e \in {x \in g.edges : x.direction = "forward" /\ x.dst = a /\ x.src \in g.actions}}
    \cup
    {e.dst : e \in {x \in g.edges : x.direction = "backward" /\ x.src = a /\ x.dst \in g.actions}}

\* Triggers: the states one of which must have been seen, if a has no ordering.
StatePrereqs(g, a) ==
    {e.src : e \in {x \in g.edges :
        x.direction = "forward" /\ x.dst = a /\ x.src \in g.states \ g.actions}}

(***************************************************************************)
(* The actions whose conditions are met.  The ordering decides where there *)
(* is one; only an action without any waits for a trigger.                 *)
(***************************************************************************)
Open(g, visited) ==
    {a \in g.actions :
        IF ActionPrereqs(g, a) # {}
        THEN ActionPrereqs(g, a) \subseteq visited
        ELSE StatePrereqs(g, a) = {} \/ StatePrereqs(g, a) \cap visited # {}}

\* allowed_actions: with no condition met, everything ("never strand the agent").
Allowed(g, visited) ==
    IF Open(g, visited) = {} THEN g.actions ELSE Open(g, visited)

\* visited_from_history: names that g does not know are ignored.
Visited(g, taken, seen) == (taken \cap g.actions) \cup (seen \cap g.states)
=============================================================================
