------------------------------- MODULE Builder -------------------------------
(***************************************************************************)
(* The SOP builder (builder.py): a definition that grows by patches a      *)
(* model writes, and the lint (sop_graph.py) a publication has to pass.    *)
(*                                                                         *)
(* A definition has named actions with the dependencies they reference,    *)
(* named states and dependencies, edges and terminal markers.  A patch     *)
(* names what it changes; it can remove anything but an edge.              *)
(***************************************************************************)
EXTENDS Integers, FiniteSets, FiniteSetsExt, Sequences, SopGraph

CONSTANTS
    ActionNames, StateNames, DepNames,
    Offered,       \* the edges patches may add
    MaxEdges,      \* bounds: edges of a document,
    MaxPatches     \* and turns of refinement

ASSUME BuilderAssumption ==
    /\ IsFiniteSet(ActionNames)
    /\ ActionNames \cap StateNames = {}     \* bound: the code allows a name to be both
    /\ Offered \subseteq [src : ActionNames \cup StateNames, dst : ActionNames \cup StateNames, direction : Directions]
    /\ MaxEdges \in Nat /\ MaxPatches \in Nat \ {0}

VARIABLES
    def,      \* the definition
    patch,    \* history: the last patch
    patches
builderVars == <<def, patch, patches>>

\* What a patch says of a name: nothing, to delete it, or to put it there.
Keep == "keep"
Drop == "delete"
Add == "add"
NoPatch ==
    [actions |-> [a \in ActionNames |-> Keep], refs |-> [a \in ActionNames |-> {}], inline |-> {},
     states |-> [s \in StateNames |-> Keep], deps |-> [d \in DepNames |-> Keep], edges |-> {}, markers |-> {}]

BuilderInit ==
    /\ def = [actions |-> {}, refs |-> [a \in ActionNames |-> {}], states |-> {}, deps |-> {}, edges |-> {}, markers |-> {}]
    /\ patch = NoPatch /\ patches = 0

Adds(entries) == {n \in DOMAIN entries : entries[n] = Add}
Deletes(entries) == {n \in DOMAIN entries : entries[n] = Drop}

\* Mutant of MergeNamed: the list of the patch replaces the current one.
MergeNamedReplacing(current, entries) ==
    IF Adds(entries) \cup Deletes(entries) = {} THEN current ELSE Adds(entries)

\* _merge_named_list
MergeNamed(current, entries) == (current \cup Adds(entries)) \ Deletes(entries)

(***************************************************************************)
(* merge_patch: the lists are merged by name, edges added; then the        *)
(* dependencies that actions brought inline are declared, unless they are. *)
(***************************************************************************)
Merge(d, p) ==
    [actions |-> MergeNamed(d.actions, p.actions),
     refs    |-> [a \in ActionNames |-> IF p.actions[a] = Add THEN p.refs[a]
                                        ELSE IF p.actions[a] = Drop THEN {} ELSE d.refs[a]],
     states  |-> MergeNamed(d.states, p.states),
     deps    |-> MergeNamed(d.deps, p.deps) \cup p.inline,
     edges   |-> d.edges \cup p.edges,
     markers |-> IF p.markers = {} THEN d.markers ELSE p.markers]

\* What a turn asks for: an entry changed or removed, an edge added, the markers set.
PutAction(a, R, I) == [NoPatch EXCEPT !.actions[a] = Add, !.refs[a] = R \cup I, !.inline = I]
Patches ==
    {PutAction(a, R, I) : a \in ActionNames, R \in SUBSET DepNames, I \in SUBSET DepNames}
    \cup {[NoPatch EXCEPT !.actions[a] = Drop] : a \in ActionNames}
    \cup {[NoPatch EXCEPT !.states[s] = x] : s \in StateNames, x \in {Add, Drop}}
    \cup {[NoPatch EXCEPT !.deps[d] = x] : d \in DepNames, x \in {Add, Drop}}
    \cup {[NoPatch EXCEPT !.edges = {e}] : e \in Offered}
    \cup {[NoPatch EXCEPT !.markers = {s}] : s \in StateNames}

\* A whole document: all the names, some edges, dependencies referenced or brought along.
Documents ==
    {[actions |-> [a \in ActionNames |-> Add], refs |-> [a \in ActionNames |-> R], inline |-> I,
      states |-> [s \in StateNames |-> Add], deps |-> NoPatch.deps, edges |-> E, markers |-> K] :
        R \in SUBSET DepNames, I \in SUBSET DepNames, K \in SUBSET StateNames,
        E \in UNION {kSubset(n, Offered) : n \in 0 .. MaxEdges}}

\* ingest_document; one refinement may follow (bound).
Ingest ==
    /\ patches = 0 /\ patches' = MaxPatches - 1
    /\ \E p \in Documents : patch' = p /\ def' = Merge(def, p)

\* build_turn
BuildTurn ==
    /\ patches < MaxPatches /\ patches' = patches + 1
    /\ \E p \in Patches : patch' = p /\ def' = Merge(def, p)

BuilderNext == Ingest \/ BuildTurn
BuilderSpec == BuilderInit /\ [][BuilderNext]_builderVars

-----------------------------------------------------------------------------
(***************************************************************************)
(* lint.                                                                   *)
(***************************************************************************)
Prereqs(a) == ActionPrereqs(def, a)
\* derive_nodes: the names that are declared, and whatever an edge names.
Nodes(d) == d.actions \cup d.states \cup UNION {{e.src, e.dst} : e \in d.edges}

\* 0 for an action not visited, 1 for one on the stack, 2 for one done with.
OnStack(color, a) == color[a] = 1

\* dfs over what is to do, in some order: the colours afterwards, and whether it met a cycle.
DfsCalls == [def.actions -> 0 .. 2] \X SUBSET def.actions
Dfs[x \in DfsCalls] ==
    LET color == x[1]
        todo == x[2]
        a == CHOOSE b \in todo : TRUE
        inner == Dfs[<<[color EXCEPT ![a] = 1], Prereqs(a)>>]
    IN IF todo = {} THEN [color |-> color, cycle |-> FALSE]
       ELSE IF OnStack(color, a) THEN [color |-> color, cycle |-> TRUE]
       ELSE IF color[a] = 2 THEN Dfs[<<color, todo \ {a}>>]
       ELSE IF inner.cycle THEN inner
       ELSE Dfs[<<[inner.color EXCEPT ![a] = 2], todo \ {a}>>]

HasCycle == Dfs[<<[a \in def.actions |-> 0], def.actions>>].cycle

\* Reachability, round by round: the actions that have all their prerequisites among those of the round before.
Executable(done) == {a \in def.actions : Prereqs(a) \subseteq done}
Reached[n \in Nat] == IF n = 0 THEN {} ELSE Reached[n - 1] \cup Executable(Reached[n - 1])

\* A round that adds nothing is the last, so there are no more of them than actions.
Reachable == Reached[Cardinality(def.actions)]

\* Mutant of Problems: edges are taken as they are.
ProblemsOfOrder ==
    (IF HasCycle THEN {<<"cycle">>} ELSE {})
    \cup {<<"unreachable", a>> : a \in def.actions \ Reachable}
    \cup {<<"undeclared", d>> : d \in UNION {def.refs[a] : a \in def.actions} \ def.deps}

Problems ==
    {<<"unknown node", n>> : n \in Nodes(def) \ (def.actions \cup def.states)}
    \cup (IF HasCycle THEN {<<"cycle">>} ELSE {})
    \cup {<<"unreachable", a>> : a \in def.actions \ Reachable}
    \cup (IF def.markers # {} /\ def.states # {} /\ def.states \subseteq def.markers THEN {<<"only terminals">>} ELSE {})
    \cup {<<"marker", s>> : s \in def.markers \ def.states}
    \cup {<<"undeclared", d>> : d \in UNION {def.refs[a] : a \in def.actions} \ def.deps}
Clean == Problems = {}

-----------------------------------------------------------------------------
(***************************************************************************)
(* A definition that passes never strands the agent: whatever has been     *)
(* done so far, in whatever order, and once the states have been seen, an  *)
(* action that is left is open by its own conditions.  And every edge that *)
(* was ever asked for still orders or triggers something that exists: the  *)
(* builder cannot remove an edge, and an action that is deleted while an   *)
(* edge names it keeps the definition from passing.                        *)
(***************************************************************************)
CleanMeansExecutable ==
    Clean =>
        /\ \A done \in SUBSET def.actions : done # def.actions =>
              Open(def, done \cup def.states) \ done # {}
        /\ \A e \in def.edges : {e.src, e.dst} \subseteq def.actions \cup def.states

(***************************************************************************)
(* The two searches of the lint agree: there is a cycle exactly if some    *)
(* action is unreachable.                                                  *)
(***************************************************************************)
SearchesAgree == HasCycle <=> Reachable # def.actions

(***************************************************************************)
(* A patch changes what it names and nothing else: no other action, state, *)
(* dependency or edge is lost or altered, and a dependency that an action  *)
(* brought along can be resolved afterwards.                               *)
(***************************************************************************)
PatchesChangeWhatTheyName ==
    [][/\ \A a \in ActionNames : patch'.actions[a] = Keep =>
             (a \in def'.actions <=> a \in def.actions) /\ def'.refs[a] = def.refs[a]
       /\ \A s \in StateNames : patch'.states[s] = Keep => (s \in def'.states <=> s \in def.states)
       /\ \A d \in DepNames : patch'.deps[d] = Keep => (d \in def.deps => d \in def'.deps)
       /\ def.edges \subseteq def'.edges
       /\ patch'.inline \subseteq def'.deps]_builderVars

(***************************************************************************)
(* The lint can be relied on: its searches agree, and what passes can be   *)
(* carried out.                                                            *)
(***************************************************************************)
LintIsSound == SearchesAgree /\ CleanMeansExecutable
=============================================================================
