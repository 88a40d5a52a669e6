------------------------------ MODULE TurnFlow ------------------------------
(***************************************************************************)
(* The turns of one session (backend/sopilot/api/runtime.py, api/voice.py).*)
(*                                                                         *)
(* Requests for a session are not serialised: a client that times out and  *)
(* sends its turn again, a second tab, a call to /end, all overlap.  Each  *)
(* request runs its statements one by one; between them it awaits language *)
(* models, and other requests commit.  Only the unique constraint on       *)
(* (session_id, turn_index) arbitrates.                                    *)
(*                                                                         *)
(* A request reads the session's row once: later selects of the same row   *)
(* in its database session return the object it already has, unrefreshed   *)
(* (expire_on_commit is off).  What it then knows of the status and of the *)
(* procedure is what it saw on arrival.                                    *)
(***************************************************************************)
EXTENDS SopGraph, FiniteSets, Integers

CONSTANTS
    Sops,       \* procedures, each at its one version
    Graph,      \* Graph[s]: the graph of s, see SopGraph
    Requests,   \* the requests of one session, over its life
    Kinds,      \* the kinds of request that may arrive
    None        \* no procedure, no action, no state

ASSUME SopsAssumption == None \notin Sops
ASSUME GraphAssumption ==
    \A s \in Sops :
        /\ Graph[s].actions # {}
        /\ None \notin Graph[s].actions \cup Graph[s].states
ASSUME RequestsAssumption == IsFiniteSet(Requests)
ASSUME KindsAssumption == Kinds \subseteq {"converse", "advisory", "voice", "plan"}

ActionsOf(s) == Graph[s].actions
StatesOf(s) == Graph[s].states
AllActions == UNION {ActionsOf(s) : s \in Sops}
AllStates == UNION {StatesOf(s) : s \in Sops}
Conditions == {"draft", "published", "deleted"}

VARIABLES
    status,      \* the session's status: "active" or "ended"
    sop,         \* the procedure it is pinned to, None while in intake
    catalog,     \* each procedure: "draft", "published" or "deleted"
    turns,       \* the committed rows of Turn
    switches,    \* the committed RoutingEvents of kind "switch"
    req          \* where each request is, and what it knows

vars == <<status, sop, catalog, turns, switches, req>>

(***************************************************************************)
(* new           not arrived                                               *)
(* intake        converse: no procedure yet                                *)
(* routing       intake: the router model is asked                         *)
(* reading       about to read the turns so far                            *)
(* classifying   the classifier (and in advisory mode the switch router)   *)
(*               is asked                                                  *)
(* switching     the session is to be pinned to req.target                 *)
(* reclassifying advisory: the classifier is asked again, after a switch   *)
(* planning      plan_turn: about to read the turns so far                 *)
(* committing    the turn is about to be inserted with index req.index     *)
(* done, refused (409), rejected (422), failed (500, or died)              *)
(***************************************************************************)
Stages == {"new", "intake", "routing", "reading", "classifying", "switching",
           "reclassifying", "planning", "committing", "done", "refused",
           "rejected", "failed"}

Over == {"done", "refused", "rejected", "failed"}

Idle == [stage |-> "new", kind |-> "converse", sop |-> None, index |-> 0,
         visited |-> {}, candidates |-> {}, target |-> None, state |-> None, action |-> None]

Intake(r) == [index |-> req[r].index, kind |-> "intake", sop |-> None,
              state |-> None, action |-> None, starved |-> req[r].candidates = {}]

TurnOf(r) == [index |-> req[r].index,
              kind |-> IF req[r].kind = "advisory" THEN "advisory" ELSE "gated",
              sop |-> req[r].sop, state |-> req[r].state, action |-> req[r].action,
              starved |-> FALSE]

\* What the turns say of the graph of s, with one more state or none.
VisitedBy(s, T, state) ==
    Visited(Graph[s], {t.action : t \in T}, {t.state : t \in T} \cup {state})

\* The procedures the router may choose.
Published == {s \in Sops : catalog[s] = "published"}

\* The query for the version r works on finds its row (scalar_one fails if not).
Loads(s) == catalog[s] # "deleted"

\* Move r on; the rest of the session stays.
Advance(r, rec) == req' = [req EXCEPT ![r] = rec]

-----------------------------------------------------------------------------
\* A session starts pinned to the procedure its caller names, or in intake.
Init ==
    /\ status = "active"
    /\ sop \in Sops \cup {None}
    /\ catalog \in [Sops -> {"draft", "published"}]
    /\ turns = {} /\ switches = {}
    /\ req = [r \in Requests |-> Idle]

(***************************************************************************)
(* A request reads the session: 409 if it has ended; to the intake if it   *)
(* has no procedure, which only converse knows how to handle (the others   *)
(* fail on scalar_one).                                                    *)
(***************************************************************************)
Arrive(r, kind) ==
    /\ req[r].stage = "new"
    /\ \/ /\ status = "ended"
          /\ Advance(r, [Idle EXCEPT !.stage = "refused"])
       \/ /\ status = "active" /\ sop = None
          /\ Advance(r, IF kind \in {"converse", "advisory"}
                        THEN [Idle EXCEPT !.stage = "intake", !.kind = kind]
                        ELSE [Idle EXCEPT !.stage = "failed"])
       \/ /\ status = "active" /\ sop # None
          /\ Advance(r, [Idle EXCEPT !.stage = IF kind = "plan" THEN "planning" ELSE "reading",
                                     !.kind = kind, !.sop = sop])
    /\ UNCHANGED <<status, sop, catalog, turns, switches>>

\* The intake counts the turns so far and collects the candidates.
ReadIntake(r) ==
    /\ req[r].stage = "intake"
    /\ Advance(r, [req[r] EXCEPT !.stage = "routing", !.index = Cardinality(turns),
                                 !.candidates = Published])
    /\ UNCHANGED <<status, sop, catalog, turns, switches>>

\* From the second turn without a procedure on, the router must choose.
MustChoose(r) == req[r].index >= 1

\* The router chooses s, or is made to take one: routed, in one commit.
RouteInitial(r, s) ==
    /\ req[r].stage = "routing"
    /\ s \in req[r].candidates
    /\ Loads(s)
    /\ sop' = s
    /\ Advance(r, [req[r] EXCEPT !.stage = "reading", !.sop = s])
    /\ UNCHANGED <<status, catalog, turns, switches>>

Taken(index) == \E t \in turns : t.index = index

\* Mutant of InsertTurn: an upsert, so that a turn sent again replaces the first.
InsertTurnOver(r, turn) ==
    turns' = {t \in turns : t.index # turn.index} \cup {turn} /\ Advance(r, [Idle EXCEPT !.stage = "done"])

\* The unique constraint: the turn is added, or the request fails.
InsertTurn(r, turn) ==
    IF Taken(turn.index)
    THEN turns' = turns /\ Advance(r, [Idle EXCEPT !.stage = "failed"])
    ELSE turns' = turns \cup {turn} /\ Advance(r, [Idle EXCEPT !.stage = "done"])

\* The router defers, or there is nothing to choose from: a turn of its own.
Defer(r) ==
    /\ req[r].stage = "routing"
    /\ ~MustChoose(r) \/ req[r].candidates = {}
    /\ InsertTurn(r, Intake(r))
    /\ UNCHANGED <<status, sop, catalog, switches>>

-----------------------------------------------------------------------------
\* Only the advisory turn reads the candidates here.
SwitchCandidates(r) == IF req[r].kind = "advisory" THEN Published ELSE {}

\* Mutant of ReadTurns: an index counted from one.
ReadTurnsFromOne(r) ==
    /\ req[r].stage = "reading"
    /\ Loads(req[r].sop)
    /\ Advance(r, [req[r] EXCEPT !.stage = "classifying", !.index = Cardinality(turns) + 1,
                                 !.candidates = SwitchCandidates(r),
                                 !.visited = VisitedBy(req[r].sop, turns, None)])
    /\ UNCHANGED <<status, sop, catalog, turns, switches>>

(***************************************************************************)
(* The turns so far, the candidates of the switch check, and what the      *)
(* classifier may propose.  An advisory turn takes its index here.         *)
(***************************************************************************)
ReadTurns(r) ==
    /\ req[r].stage = "reading"
    /\ Loads(req[r].sop)
    /\ Advance(r, [req[r] EXCEPT !.stage = "classifying", !.index = Cardinality(turns),
                                 !.candidates = SwitchCandidates(r),
                                 !.visited = VisitedBy(req[r].sop, turns, None)])
    /\ UNCHANGED <<status, sop, catalog, turns, switches>>

\* classify_and_propose returns a state of the procedure, or none.
Classified(s) == StatesOf(s) \cup {None}

(***************************************************************************)
(* Gated: the classifier proposes an allowed action, and plan_turn is      *)
(* called with it.  The switch check of converse asks for a state outside  *)
(* the procedure's vocabulary, which the classifier has already blanked:   *)
(* that branch is never taken.                                             *)
(***************************************************************************)
ClassifyGated(r) ==
    /\ req[r].stage = "classifying" /\ req[r].kind # "advisory"
    /\ \E state \in Classified(req[r].sop),
          action \in Allowed(Graph[req[r].sop], req[r].visited) :
         Advance(r, [req[r] EXCEPT !.stage = "planning", !.state = state, !.action = action])
    /\ UNCHANGED <<status, sop, catalog, turns, switches>>

(***************************************************************************)
(* Advisory: any action of the procedure may be the classifier's; the      *)
(* switch router is asked in parallel, on every turn but the first, if     *)
(* there is another procedure.                                             *)
(***************************************************************************)
SwitchTargets(r) ==
    IF req[r].index = 0 \/ Cardinality(req[r].candidates) <= 1
    THEN {None}
    ELSE {None} \cup (req[r].candidates \ {req[r].sop})

ClassifyAdvisory(r) ==
    /\ req[r].stage = "classifying" /\ req[r].kind = "advisory"
    /\ \E state \in Classified(req[r].sop), action \in ActionsOf(req[r].sop),
          target \in SwitchTargets(r) :
         Advance(r, [req[r] EXCEPT !.stage = IF target = None THEN "committing" ELSE "switching",
                                   !.state = state, !.action = action, !.target = target])
    /\ UNCHANGED <<status, sop, catalog, turns, switches>>

\* The session is pinned to the other procedure, with the RoutingEvent, in one commit.
Switch(r) ==
    /\ req[r].stage = "switching"
    /\ Loads(req[r].target)
    /\ sop' = req[r].target
    /\ switches' = switches \cup {[from |-> req[r].sop, to |-> req[r].target, state |-> req[r].state]}
    /\ Advance(r, [req[r] EXCEPT !.stage = "reclassifying", !.sop = req[r].target, !.target = None])
    /\ UNCHANGED <<status, catalog, turns>>

\* The turn is classified again, under the procedure switched to.
Reclassify(r) ==
    /\ req[r].stage = "reclassifying"
    /\ \E state \in Classified(req[r].sop), action \in ActionsOf(req[r].sop) :
         Advance(r, [req[r] EXCEPT !.stage = "committing", !.state = state, !.action = action])
    /\ UNCHANGED <<status, sop, catalog, turns, switches>>

-----------------------------------------------------------------------------
\* A caller of plan-turn says what it likes of the state and the action.
Requested(r) ==
    IF req[r].kind = "plan" THEN (AllStates \cup {None}) \X (AllActions \cup {None})
                            ELSE {<<req[r].state, req[r].action>>}

(***************************************************************************)
(* plan_turn once it has read the turns T: the action is checked against   *)
(* what they allow (422), or taken from it.                                *)
(***************************************************************************)
PlanAfter(r, T) ==
    /\ req[r].stage = "planning"
    /\ Loads(req[r].sop)
    /\ \E asked \in Requested(r) :
         LET s       == req[r].sop
             allowed == Allowed(Graph[s], VisitedBy(s, T, asked[1]))
         IN  \/ /\ asked[2] \notin allowed \cup {None}
                /\ Advance(r, [req[r] EXCEPT !.stage = "rejected"])
             \/ \E action \in allowed :
                  /\ asked[2] \in {action, None}
                  /\ Advance(r, [req[r] EXCEPT !.stage = "committing", !.index = Cardinality(turns),
                                               !.state = asked[1], !.action = action])
    /\ UNCHANGED <<status, sop, catalog, turns, switches>>

\* Mutant of PlanTurn: the turns that converse has read are used again.
PlanTurnStale(r) == PlanAfter(r, {t \in turns : t.index < req[r].index})

\* Mutant of PlanTurn: only the present state counts.
PlanTurnForgetful(r) == PlanAfter(r, {})

\* The turns are read again; the status is checked again too, but of the row
\* read on arrival.
PlanTurn(r) == PlanAfter(r, turns)

\* The turn, its trace and the audit of its picks are committed, or nothing is.
CommitTurn(r) ==
    /\ req[r].stage = "committing"
    /\ InsertTurn(r, TurnOf(r))
    /\ UNCHANGED <<status, sop, catalog, switches>>

\* A model call or a query fails, the client or the API dies: nothing is committed.
Fail(r) ==
    /\ req[r].stage \notin Over \cup {"new"}
    /\ Advance(r, [Idle EXCEPT !.stage = "failed"])
    /\ UNCHANGED <<status, sop, catalog, turns, switches>>

EndSession ==
    /\ status' = "ended"
    /\ UNCHANGED <<sop, catalog, turns, switches, req>>

\* A procedure gets its first published version.
Publish(s) ==
    /\ catalog[s] = "draft"
    /\ catalog' = [catalog EXCEPT ![s] = "published"]
    /\ UNCHANGED <<status, sop, turns, switches, req>>

\* A procedure is deleted with its versions, whatever sessions run on it.
DeleteSop(s) ==
    /\ Loads(s)
    /\ catalog' = [catalog EXCEPT ![s] = "deleted"]
    /\ UNCHANGED <<status, sop, turns, switches, req>>

-----------------------------------------------------------------------------
Next ==
    \/ \E r \in Requests :
          \/ \E kind \in Kinds : Arrive(r, kind)
          \/ ReadIntake(r)
          \/ \E s \in Sops : RouteInitial(r, s)
          \/ Defer(r)
          \/ ReadTurns(r)
          \/ ClassifyGated(r)   \/ ClassifyAdvisory(r)
          \/ Switch(r)          \/ Reclassify(r)
          \/ PlanTurn(r)        \/ CommitTurn(r)
          \/ Fail(r)
    \/ EndSession
    \/ \E s \in Sops : Publish(s) \/ DeleteSop(s)

Spec == Init /\ [][Next]_vars

-----------------------------------------------------------------------------
TurnRecords ==
    [index : Nat, kind : {"intake", "gated", "advisory"}, sop : Sops \cup {None},
     state : AllStates \cup {None}, action : AllActions \cup {None}, starved : BOOLEAN]

RequestRecords ==
    [stage : Stages, kind : {"converse", "advisory", "voice", "plan"}, sop : Sops \cup {None},
     index : Nat, visited : SUBSET (AllActions \cup AllStates), candidates : SUBSET Sops,
     target : Sops \cup {None}, state : AllStates \cup {None}, action : AllActions \cup {None}]

TypeOK ==
    /\ status \in {"active", "ended"}
    /\ sop \in Sops \cup {None}
    /\ catalog \in [Sops -> Conditions]
    /\ turns \subseteq TurnRecords
    /\ switches \subseteq [from : Sops, to : Sops, state : AllStates \cup {None}]
    /\ req \in [Requests -> RequestRecords]

(***************************************************************************)
(* The turns of a session are numbered 0, 1, 2, ... without a gap or a     *)
(* repetition, whichever requests overlap or fail: the count read as an    *)
(* index is never ahead of what gets committed.                            *)
(***************************************************************************)
NumberedInOrder ==
    /\ {t.index : t \in turns} = 0 .. Cardinality(turns) - 1
    /\ \A t, u \in turns : t.index = u.index => t = u

(***************************************************************************)
(* Every gated turn ran an action that its procedure allowed after the     *)
(* turns numbered before it, though nothing was locked between reading     *)
(* those turns and committing this one.                                    *)
(***************************************************************************)
Earlier(t) == {u \in turns : u.index < t.index}

TurnsAreLegal ==
    \A t \in turns : t.kind = "gated" =>
        t.action \in Allowed(Graph[t.sop], VisitedBy(t.sop, Earlier(t), t.state))

(***************************************************************************)
(* "never loop in intake": over the session's life, and whichever requests *)
(* overlap, at most one turn is spent in intake when there was a procedure *)
(* to choose.                                                              *)
(***************************************************************************)
IntakeNeverLoops ==
    \A t, u \in {x \in turns : x.kind = "intake" /\ ~x.starved} : t = u

(***************************************************************************)
(* plan_turn refuses an action that the classifier chose only where the    *)
(* graph allowed nothing and "never strand the agent" offered everything:  *)
(* turns committed meanwhile, and the state just classified, only open     *)
(* more actions.                                                           *)
(***************************************************************************)
RejectedOnlyWhenStranded ==
    \A r \in Requests :
        req[r].stage = "rejected" /\ req[r].kind \in {"converse", "voice"}
            => Open(Graph[req[r].sop], req[r].visited) = {}

(***************************************************************************)
(* Requests overlap, fail and race for a number, and yet the transcript is *)
(* that of a conversation held turn by turn: an insertion adds the next    *)
(* turn, and that turn is what the turns before it call for, though they   *)
(* were read long before it was committed.  Nothing else touches a turn.   *)
(***************************************************************************)
Transcript == [n \in 1 .. Cardinality(turns) |-> CHOOSE t \in turns : t.index = n - 1]

Talk == INSTANCE Conversation WITH said <- Transcript

TurnsAreSerial == Talk!ConversationSpec

(***************************************************************************)
(* What the documents and comments say and the code does not do.           *)
(***************************************************************************)

\* "pick the next SOP-legal action": what the classifier picks is never refused.
ProposalsAreLegal ==
    \A r \in Requests : req[r].stage = "rejected" => req[r].kind = "plan"
=============================================================================
