--------------------------- MODULE TurnFlowProofs ---------------------------
(***************************************************************************)
(* Proofs about TurnFlow, for any procedures and any finite set of         *)
(* requests of any kinds.                                                  *)
(***************************************************************************)
EXTENDS TurnFlow, FiniteSetTheorems, SequenceTheorems, TLAPS

(***************************************************************************)
(* Types.  A request past the intake knows its procedure, one about to     *)
(* switch knows where to, and is advisory; no advisory one plans.          *)
(***************************************************************************)
Pinned == {"reading", "classifying", "switching", "reclassifying", "planning",
           "committing", "rejected"}

PinnedHaveSop ==
    \A r \in Requests :
        /\ req[r].stage \in Pinned => req[r].sop \in Sops
        /\ req[r].stage = "switching" => req[r].target \in Sops
        /\ req[r].stage \in {"switching", "reclassifying"} => req[r].kind = "advisory"
        /\ req[r].stage = "planning" => req[r].kind # "advisory"

TypeInv == TypeOK /\ PinnedHaveSop /\ IsFiniteSet(turns)

LEMMA GraphTypes ==
    ASSUME NEW s \in Sops
    PROVE  /\ ActionsOf(s) \subseteq AllActions /\ StatesOf(s) \subseteq AllStates
           /\ \A V : Open(Graph[s], V) \subseteq ActionsOf(s)
           /\ \A V : Allowed(Graph[s], V) \subseteq AllActions
           /\ \A T, state : VisitedBy(s, T, state) \subseteq AllActions \cup AllStates
  BY DEF ActionsOf, StatesOf, AllActions, AllStates, Allowed, Open, VisitedBy, Visited

\* What Advance does to a well-typed req.
LEMMA Advanced ==
    ASSUME TypeOK, NEW r \in Requests, NEW rec \in RequestRecords, Advance(r, rec)
    PROVE  /\ req' \in [Requests -> RequestRecords]
           /\ req'[r] = rec
           /\ \A q \in Requests \ {r} : req'[q] = req[q]
  BY DEF TypeOK, Advance

LEMMA IdleType ==
    ASSUME NEW st \in Stages PROVE [Idle EXCEPT !.stage = st] \in RequestRecords
  BY DEF Idle, RequestRecords, Stages

LEMMA InsertedType ==
    ASSUME TypeInv, NEW r \in Requests, NEW turn \in TurnRecords, InsertTurn(r, turn),
           UNCHANGED <<status, sop, catalog, switches>>
    PROVE  TypeInv'
  <1>1. req' \in [Requests -> RequestRecords] /\ req'[r].stage \in {"failed", "done"}
        /\ \A q \in Requests \ {r} : req'[q] = req[q]
    BY IdleType, Advanced DEF TypeInv, InsertTurn, Stages, Idle
  <1>2. turns' \subseteq TurnRecords
    BY DEF TypeInv, TypeOK, InsertTurn
  <1>3. IsFiniteSet(turns')
    BY FS_AddElement DEF TypeInv, InsertTurn
  <1>4. QED BY <1>1, <1>2, <1>3 DEF TypeInv, TypeOK, PinnedHaveSop, Pinned

LEMMA TypeInit == Init => TypeInv
  BY FS_EmptySet DEF Init, Conditions, TypeInv, TypeOK, PinnedHaveSop, Pinned, Idle, RequestRecords, Stages

\* A step of one request that leaves the turns alone and keeps its record well typed.
LEMMA StepType ==
    ASSUME TypeInv, NEW r \in Requests, NEW rec \in RequestRecords, Advance(r, rec),
           rec.stage \in Pinned => rec.sop \in Sops,
           rec.stage = "switching" => rec.target \in Sops,
           rec.stage \in {"switching", "reclassifying"} => rec.kind = "advisory",
           rec.stage = "planning" => rec.kind # "advisory",
           sop' \in Sops \cup {None},
           switches' \subseteq [from : Sops, to : Sops, state : AllStates \cup {None}],
           UNCHANGED <<status, catalog, turns>>
    PROVE  TypeInv'
  BY Advanced DEF TypeInv, TypeOK, PinnedHaveSop

\* What a request knows on arrival.
Admits(r, rec) ==
    /\ Advance(r, rec)
    /\ rec.index = 0
    /\ rec.stage \in {"refused", "intake", "failed", "planning", "reading"}
    /\ rec.stage \in {"planning", "reading"} => rec.sop \in Sops
    /\ rec.stage = "planning" => rec.kind = "plan"

LEMMA ArrivedRecord ==
    ASSUME sop \in Sops \cup {None}, NEW r \in Requests, NEW kind \in Kinds, Arrive(r, kind)
    PROVE  \E rec \in RequestRecords : Admits(r, rec)
  <1> DEFINE refused == [Idle EXCEPT !.stage = "refused"]
             failed  == [Idle EXCEPT !.stage = "failed"]
             intake  == [Idle EXCEPT !.stage = "intake", !.kind = kind]
             begun   == [Idle EXCEPT !.stage = IF kind = "plan" THEN "planning" ELSE "reading",
                                     !.kind = kind, !.sop = sop]
  <1>1. refused \in RequestRecords /\ (Advance(r, refused) => Admits(r, refused))
    BY IdleType DEF Admits, Idle, Stages
  <1>2. failed \in RequestRecords /\ (Advance(r, failed) => Admits(r, failed))
    BY IdleType DEF Admits, Idle, Stages
  <1>3. intake \in RequestRecords /\ (Advance(r, intake) => Admits(r, intake))
    BY KindsAssumption DEF Admits, Idle, RequestRecords, Stages
  <1>4. begun \in RequestRecords /\ (sop # None /\ Advance(r, begun) => Admits(r, begun))
    BY KindsAssumption DEF Admits, Idle, RequestRecords, Stages
  <1>5. \/ Advance(r, refused) \/ Advance(r, failed) \/ Advance(r, intake)
        \/ sop # None /\ Advance(r, begun)
    <2>1. CASE kind \in {"converse", "advisory"}
      BY <2>1 DEF Arrive
    <2>2. CASE kind \notin {"converse", "advisory"}
      BY <2>2 DEF Arrive
    <2>3. QED BY <2>1, <2>2
  <1> HIDE DEF refused, failed, intake, begun
  <1>6. QED BY <1>1, <1>2, <1>3, <1>4, <1>5

LEMMA TypeNext == TypeInv /\ [Next]_vars => TypeInv'
  <1> SUFFICES ASSUME TypeInv, [Next]_vars PROVE TypeInv'
    OBVIOUS
  <1>t. TypeOK /\ PinnedHaveSop
    BY DEF TypeInv
  <1>r. /\ req \in [Requests -> RequestRecords] /\ sop \in Sops \cup {None}
        /\ switches \subseteq [from : Sops, to : Sops, state : AllStates \cup {None}]
        /\ catalog \in [Sops -> Conditions]
    BY DEF TypeInv, TypeOK
  <1>c. Cardinality(turns) \in Nat
    BY FS_CardinalityType DEF TypeInv
  <1>1. ASSUME NEW r \in Requests, NEW kind \in Kinds, Arrive(r, kind) PROVE TypeInv'
    <2>1. PICK rec \in RequestRecords : Admits(r, rec)
      BY <1>1, <1>r, ArrivedRecord
    <2>2. Advance(r, rec) /\ UNCHANGED <<status, sop, catalog, turns, switches>>
          /\ rec.stage # "switching" /\ rec.stage # "reclassifying"
          /\ (rec.stage = "planning" => rec.kind # "advisory")
          /\ (rec.stage \in Pinned => rec.sop \in Sops)
      BY <1>1, <2>1 DEF Arrive, Admits, Pinned
    <2>3. QED BY <1>r, <2>1, <2>2, StepType
  <1>2. ASSUME NEW r \in Requests, ReadIntake(r) PROVE TypeInv'
    <2> DEFINE rec == [req[r] EXCEPT !.stage = "routing", !.index = Cardinality(turns),
                                     !.candidates = Published]
    <2>1. rec \in RequestRecords /\ rec.stage = "routing"
      BY <1>r, <1>c DEF RequestRecords, Stages, Published
    <2>2. Advance(r, rec) /\ UNCHANGED <<status, sop, catalog, turns, switches>>
      BY <1>2 DEF ReadIntake
    <2> HIDE DEF rec
    <2>3. QED BY <1>r, <2>1, <2>2, StepType DEF Pinned
  <1>3. ASSUME NEW r \in Requests, NEW s \in Sops, RouteInitial(r, s) PROVE TypeInv'
    <2> DEFINE rec == [req[r] EXCEPT !.stage = "reading", !.sop = s]
    <2>1. rec \in RequestRecords /\ rec.stage = "reading" /\ rec.sop = s
      BY <1>r DEF RequestRecords, Stages
    <2>2. Advance(r, rec) /\ sop' = s /\ UNCHANGED <<status, catalog, turns, switches>>
      BY <1>3 DEF RouteInitial
    <2> HIDE DEF rec
    <2>3. QED BY <1>r, <2>1, <2>2, StepType
  <1>4. ASSUME NEW r \in Requests, Defer(r) PROVE TypeInv'
    <2>1. Intake(r) \in TurnRecords
      BY <1>r DEF Intake, TurnRecords, RequestRecords
    <2>2. QED BY <1>4, <2>1, InsertedType DEF Defer
  <1>5. ASSUME NEW r \in Requests, ReadTurns(r) PROVE TypeInv'
    <2> DEFINE rec == [req[r] EXCEPT !.stage = "classifying", !.index = Cardinality(turns),
                                     !.candidates = SwitchCandidates(r),
                                     !.visited = VisitedBy(req[r].sop, turns, None)]
    <2>1. req[r].sop \in Sops
      BY <1>5, <1>t DEF ReadTurns, PinnedHaveSop, Pinned
    <2>2. VisitedBy(req[r].sop, turns, None) \in SUBSET (AllActions \cup AllStates)
      BY <2>1, GraphTypes
    <2>3. SwitchCandidates(r) \in SUBSET Sops
      BY <1>r DEF SwitchCandidates, Published
    <2>4. rec \in RequestRecords /\ rec.stage = "classifying" /\ rec.sop \in Sops
      BY <1>r, <1>c, <2>1, <2>2, <2>3 DEF RequestRecords, Stages
    <2>5. Advance(r, rec) /\ UNCHANGED <<status, sop, catalog, turns, switches>>
      BY <1>5 DEF ReadTurns
    <2> HIDE DEF rec
    <2>6. QED BY <1>r, <2>4, <2>5, StepType
  <1>6. ASSUME NEW r \in Requests, ClassifyGated(r) PROVE TypeInv'
    <2>1. req[r].sop \in Sops
      BY <1>6, <1>t DEF ClassifyGated, PinnedHaveSop, Pinned
    <2>2. PICK state \in Classified(req[r].sop),
               action \in Allowed(Graph[req[r].sop], req[r].visited) :
                 Advance(r, [req[r] EXCEPT !.stage = "planning", !.state = state, !.action = action])
      BY <1>6 DEF ClassifyGated
    <2> DEFINE rec == [req[r] EXCEPT !.stage = "planning", !.state = state, !.action = action]
    <2>3. state \in AllStates \cup {None} /\ action \in AllActions
      BY <2>1, GraphTypes DEF Classified
    <2>4. rec \in RequestRecords /\ rec.stage = "planning" /\ rec.sop \in Sops /\ rec.kind # "advisory"
      BY <1>6, <1>r, <2>1, <2>3 DEF ClassifyGated, RequestRecords, Stages
    <2>5. Advance(r, rec) /\ UNCHANGED <<status, sop, catalog, turns, switches>>
      BY <1>6, <2>2 DEF ClassifyGated
    <2> HIDE DEF rec
    <2>6. QED BY <1>r, <2>4, <2>5, StepType
  <1>7. ASSUME NEW r \in Requests, ClassifyAdvisory(r) PROVE TypeInv'
    <2>1. req[r].sop \in Sops
      BY <1>7, <1>t DEF ClassifyAdvisory, PinnedHaveSop, Pinned
    <2>2. PICK state \in Classified(req[r].sop), action \in ActionsOf(req[r].sop),
               target \in SwitchTargets(r) :
            Advance(r, [req[r] EXCEPT !.stage = IF target = None THEN "committing" ELSE "switching",
                                      !.state = state, !.action = action, !.target = target])
      BY <1>7 DEF ClassifyAdvisory
    <2> DEFINE rec == [req[r] EXCEPT !.stage = IF target = None THEN "committing" ELSE "switching",
                                     !.state = state, !.action = action, !.target = target]
    <2>3. state \in AllStates \cup {None} /\ action \in AllActions
      BY <2>1, GraphTypes DEF Classified
    <2>4. target \in Sops \cup {None}
      BY <1>r DEF SwitchTargets, RequestRecords
    <2>5. rec \in RequestRecords /\ rec.sop \in Sops /\ (rec.stage = "switching" => rec.target \in Sops)
          /\ rec.kind = "advisory" /\ rec.stage # "planning"
      BY <1>7, <1>r, <2>1, <2>3, <2>4 DEF RequestRecords, Stages, ClassifyAdvisory
    <2>6. Advance(r, rec) /\ UNCHANGED <<status, sop, catalog, turns, switches>>
      BY <1>7, <2>2 DEF ClassifyAdvisory
    <2> HIDE DEF rec
    <2>7. QED BY <1>r, <2>5, <2>6, StepType
  <1>8. ASSUME NEW r \in Requests, Switch(r) PROVE TypeInv'
    <2> DEFINE rec == [req[r] EXCEPT !.stage = "reclassifying", !.sop = req[r].target, !.target = None]
    <2>1. req[r].sop \in Sops /\ req[r].target \in Sops /\ req[r].kind = "advisory"
      BY <1>8, <1>t DEF Switch, PinnedHaveSop, Pinned
    <2>2. rec \in RequestRecords /\ rec.stage = "reclassifying" /\ rec.sop \in Sops
          /\ rec.kind = "advisory"
      BY <1>r, <2>1 DEF RequestRecords, Stages
    <2>3. [from |-> req[r].sop, to |-> req[r].target, state |-> req[r].state]
            \in [from : Sops, to : Sops, state : AllStates \cup {None}]
      BY <1>r, <2>1 DEF RequestRecords
    <2>4. Advance(r, rec) /\ sop' = req[r].target /\ UNCHANGED <<status, catalog, turns>>
          /\ switches' \subseteq [from : Sops, to : Sops, state : AllStates \cup {None}]
      BY <1>8, <1>r, <2>3 DEF Switch
    <2> HIDE DEF rec
    <2>5. QED BY <1>r, <2>1, <2>2, <2>4, StepType
  <1>9. ASSUME NEW r \in Requests, Reclassify(r) PROVE TypeInv'
    <2>1. req[r].sop \in Sops
      BY <1>9, <1>t DEF Reclassify, PinnedHaveSop, Pinned
    <2>2. PICK state \in Classified(req[r].sop), action \in ActionsOf(req[r].sop) :
            Advance(r, [req[r] EXCEPT !.stage = "committing", !.state = state, !.action = action])
      BY <1>9 DEF Reclassify
    <2> DEFINE rec == [req[r] EXCEPT !.stage = "committing", !.state = state, !.action = action]
    <2>3. state \in AllStates \cup {None} /\ action \in AllActions
      BY <2>1, GraphTypes DEF Classified
    <2>4. rec \in RequestRecords /\ rec.stage = "committing" /\ rec.sop \in Sops
      BY <1>r, <2>1, <2>3 DEF RequestRecords, Stages
    <2>5. Advance(r, rec) /\ UNCHANGED <<status, sop, catalog, turns, switches>>
      BY <1>9, <2>2 DEF Reclassify
    <2> HIDE DEF rec
    <2>6. QED BY <1>r, <2>4, <2>5, StepType
  <1>10. ASSUME NEW r \in Requests, PlanTurn(r) PROVE TypeInv'
    <2>1. req[r].stage = "planning" /\ UNCHANGED <<status, sop, catalog, turns, switches>>
      BY <1>10 DEF PlanTurn, PlanAfter
    <2>2. req[r].sop \in Sops
      BY <2>1, <1>t DEF PinnedHaveSop, Pinned
    <2>3. PICK asked \in Requested(r) :
            \/ Advance(r, [req[r] EXCEPT !.stage = "rejected"])
            \/ \E action \in Allowed(Graph[req[r].sop], VisitedBy(req[r].sop, turns, asked[1])) :
                 Advance(r, [req[r] EXCEPT !.stage = "committing", !.index = Cardinality(turns),
                                           !.state = asked[1], !.action = action])
      BY <1>10 DEF PlanTurn, PlanAfter
    <2>4. asked[1] \in AllStates \cup {None}
      BY <1>r DEF Requested, RequestRecords
    <2>5. CASE Advance(r, [req[r] EXCEPT !.stage = "rejected"])
      <3> DEFINE rec == [req[r] EXCEPT !.stage = "rejected"]
      <3>1. rec \in RequestRecords /\ rec.stage = "rejected" /\ rec.sop \in Sops
        BY <1>r, <2>2 DEF RequestRecords, Stages
      <3>2. Advance(r, rec)
        BY <2>5
      <3> HIDE DEF rec
      <3>3. QED BY <1>r, <2>1, <3>1, <3>2, StepType
    <2>6. ASSUME NEW action \in Allowed(Graph[req[r].sop], VisitedBy(req[r].sop, turns, asked[1])),
                 Advance(r, [req[r] EXCEPT !.stage = "committing", !.index = Cardinality(turns),
                                           !.state = asked[1], !.action = action])
          PROVE  TypeInv'
      <3> DEFINE rec == [req[r] EXCEPT !.stage = "committing", !.index = Cardinality(turns),
                                       !.state = asked[1], !.action = action]
      <3>1. action \in AllActions
        BY <2>2, GraphTypes
      <3>2. rec \in RequestRecords /\ rec.stage = "committing" /\ rec.sop \in Sops
        BY <1>r, <1>c, <2>2, <2>4, <3>1 DEF RequestRecords, Stages
      <3>3. Advance(r, rec)
        BY <2>6
      <3> HIDE DEF rec
      <3>4. QED BY <1>r, <2>1, <3>2, <3>3, StepType
    <2>7. QED BY <2>3, <2>5, <2>6
  <1>11. ASSUME NEW r \in Requests, CommitTurn(r) PROVE TypeInv'
    <2>1. TurnOf(r) \in TurnRecords
      BY <1>r DEF TurnOf, TurnRecords, RequestRecords
    <2>2. QED BY <1>11, <2>1, InsertedType DEF CommitTurn
  <1>12. ASSUME NEW r \in Requests, Fail(r) PROVE TypeInv'
    <2>1. Advance(r, [Idle EXCEPT !.stage = "failed"]) /\ UNCHANGED <<status, sop, catalog, turns, switches>>
      BY <1>12 DEF Fail
    <2>2. [Idle EXCEPT !.stage = "failed"].stage = "failed"
      BY DEF Idle
    <2>3. QED BY <1>r, <2>1, <2>2, IdleType, StepType DEF Stages, Pinned
  <1>13. CASE EndSession
    BY <1>13 DEF EndSession, TypeInv, TypeOK, PinnedHaveSop
  <1>14. ASSUME NEW s \in Sops, Publish(s) \/ DeleteSop(s) PROVE TypeInv'
    BY <1>14 DEF Publish, DeleteSop, Conditions, TypeInv, TypeOK, PinnedHaveSop
  <1>15. CASE UNCHANGED vars
    BY <1>15 DEF vars, TypeInv, TypeOK, PinnedHaveSop
  <1>16. QED
    BY <1>1, <1>2, <1>3, <1>4, <1>5, <1>6, <1>7, <1>8, <1>9, <1>10, <1>11, <1>12, <1>13, <1>14, <1>15
    DEF Next

(***************************************************************************)
(* TypeOK holds of every state.                                            *)
(***************************************************************************)
THEOREM TypeCorrect == Spec => []TypeOK
  <1>1. TypeInv => TypeOK
    BY DEF TypeInv
  <1>2. QED BY <1>1, TypeInit, TypeNext, PTL DEF Spec

-----------------------------------------------------------------------------
(***************************************************************************)
(* The shape of a step: of a request, what the later invariants need of    *)
(* its new record; or an insertion; or nothing of either.                  *)
(***************************************************************************)
Rests == turns' = turns /\ req' = req

\* What an advisory turn says is of its procedure's vocabulary.
Vocabulary(rec) ==
    rec.sop \in Sops /\ rec.action \in ActionsOf(rec.sop) /\ rec.state \in Classified(rec.sop)

Outcome(r, rec) ==
    /\ rec.index \in {0, req[r].index, Cardinality(turns)}
    /\ rec.stage = "committing" /\ rec.kind # "advisory" =>
          /\ rec.index = Cardinality(turns)
          /\ rec.action \in Allowed(Graph[rec.sop], VisitedBy(rec.sop, turns, rec.state))
    /\ rec.stage = "committing" /\ rec.kind = "advisory" => Vocabulary(rec)
    /\ rec.stage = "classifying" => rec.visited = VisitedBy(rec.sop, turns, None)
    /\ rec.stage = "planning" /\ rec.kind # "plan" =>
          /\ req[r].stage = "classifying"
          /\ rec.visited = req[r].visited /\ rec.sop = req[r].sop
          /\ rec.action \in Allowed(Graph[rec.sop], rec.visited)
    /\ rec.stage = "rejected" =>
          /\ req[r].stage = "planning" /\ rec.kind = req[r].kind
          /\ rec.visited = req[r].visited /\ rec.sop = req[r].sop
          /\ rec.kind # "plan" =>
                req[r].action \notin Allowed(Graph[rec.sop], VisitedBy(rec.sop, turns, req[r].state))

Proceeds(r) == turns' = turns /\ \E rec : Advance(r, rec) /\ Outcome(r, rec)

Inserts(r) ==
    \E turn \in TurnRecords :
        /\ InsertTurn(r, turn) /\ turn.index = req[r].index
        /\ turn.kind # "intake" =>
              /\ req[r].stage = "committing" /\ (turn.kind = "advisory" <=> req[r].kind = "advisory")
              /\ turn.sop = req[r].sop /\ turn.action = req[r].action /\ turn.state = req[r].state
        /\ turn.kind = "intake" /\ turn.index >= 1 => turn.starved

LEMMA Shape ==
    ASSUME TypeInv, [Next]_vars
    PROVE  Rests \/ \E r \in Requests : Proceeds(r) \/ Inserts(r)
  <1>r. req \in [Requests -> RequestRecords]
    BY DEF TypeInv, TypeOK
  <1>1. ASSUME NEW r \in Requests, NEW kind \in Kinds, Arrive(r, kind) PROVE Proceeds(r)
    <2>1. PICK rec \in RequestRecords : Admits(r, rec)
      BY <1>1, ArrivedRecord DEF TypeInv, TypeOK
    <2>2. turns' = turns
      BY <1>1 DEF Arrive
    <2>3. QED BY <2>1, <2>2 DEF Proceeds, Outcome, Admits
  <1>2. ASSUME NEW r \in Requests, ReadIntake(r) PROVE Proceeds(r)
    <2> DEFINE rec == [req[r] EXCEPT !.stage = "routing", !.index = Cardinality(turns),
                                     !.candidates = Published]
    <2>1. rec.stage = "routing" /\ rec.index = Cardinality(turns)
      BY <1>r DEF RequestRecords
    <2>2. Advance(r, rec) /\ turns' = turns
      BY <1>2 DEF ReadIntake
    <2> HIDE DEF rec
    <2>3. QED BY <2>1, <2>2 DEF Proceeds, Outcome
  <1>3. ASSUME NEW r \in Requests, NEW s \in Sops, RouteInitial(r, s) PROVE Proceeds(r)
    <2> DEFINE rec == [req[r] EXCEPT !.stage = "reading", !.sop = s]
    <2>1. rec.stage = "reading" /\ rec.index = req[r].index
      BY <1>r DEF RequestRecords
    <2>2. Advance(r, rec) /\ turns' = turns
      BY <1>3 DEF RouteInitial
    <2> HIDE DEF rec
    <2>3. QED BY <2>1, <2>2 DEF Proceeds, Outcome
  <1>4. ASSUME NEW r \in Requests, Defer(r) PROVE Inserts(r)
    <2>1. Intake(r) \in TurnRecords /\ Intake(r).kind = "intake" /\ Intake(r).index = req[r].index
          /\ Intake(r).starved = (req[r].candidates = {})
      BY <1>r DEF Intake, TurnRecords, RequestRecords
    <2>2. InsertTurn(r, Intake(r))
      BY <1>4 DEF Defer
    <2>3. req[r].index >= 1 => req[r].candidates = {}
      BY <1>4 DEF Defer, MustChoose
    <2>4. QED BY <2>1, <2>2, <2>3 DEF Inserts
  <1>5. ASSUME NEW r \in Requests, ReadTurns(r) PROVE Proceeds(r)
    <2> DEFINE rec == [req[r] EXCEPT !.stage = "classifying", !.index = Cardinality(turns),
                                     !.candidates = SwitchCandidates(r),
                                     !.visited = VisitedBy(req[r].sop, turns, None)]
    <2>1. rec.stage = "classifying" /\ rec.index = Cardinality(turns) /\ rec.sop = req[r].sop
          /\ rec.visited = VisitedBy(req[r].sop, turns, None)
      BY <1>r DEF RequestRecords
    <2>2. Advance(r, rec) /\ turns' = turns
      BY <1>5 DEF ReadTurns
    <2> HIDE DEF rec
    <2>3. QED BY <2>1, <2>2 DEF Proceeds, Outcome
  <1>6. ASSUME NEW r \in Requests, ClassifyGated(r) PROVE Proceeds(r)
    <2>1. PICK state \in Classified(req[r].sop),
               action \in Allowed(Graph[req[r].sop], req[r].visited) :
                 Advance(r, [req[r] EXCEPT !.stage = "planning", !.state = state, !.action = action])
      BY <1>6 DEF ClassifyGated
    <2> DEFINE rec == [req[r] EXCEPT !.stage = "planning", !.state = state, !.action = action]
    <2>2. rec.stage = "planning" /\ rec.index = req[r].index /\ rec.visited = req[r].visited
          /\ rec.sop = req[r].sop /\ rec.action = action
      BY <1>r DEF RequestRecords
    <2>3. Advance(r, rec) /\ turns' = turns /\ req[r].stage = "classifying"
      BY <1>6, <2>1 DEF ClassifyGated
    <2> HIDE DEF rec
    <2>4. QED BY <2>1, <2>2, <2>3 DEF Proceeds, Outcome
  <1>7. ASSUME NEW r \in Requests, ClassifyAdvisory(r) PROVE Proceeds(r)
    <2>1. PICK state \in Classified(req[r].sop), action \in ActionsOf(req[r].sop),
               target \in SwitchTargets(r) :
            Advance(r, [req[r] EXCEPT !.stage = IF target = None THEN "committing" ELSE "switching",
                                      !.state = state, !.action = action, !.target = target])
      BY <1>7 DEF ClassifyAdvisory
    <2> DEFINE rec == [req[r] EXCEPT !.stage = IF target = None THEN "committing" ELSE "switching",
                                     !.state = state, !.action = action, !.target = target]
    <2>2. rec.stage \in {"committing", "switching"} /\ rec.kind = "advisory" /\ rec.index = req[r].index
          /\ rec.sop = req[r].sop /\ rec.action = action /\ rec.state = state
      BY <1>7, <1>r DEF RequestRecords, ClassifyAdvisory
    <2>v. Vocabulary(rec)
      BY <1>7, <2>1, <2>2 DEF ClassifyAdvisory, Vocabulary, TypeInv, PinnedHaveSop, Pinned
    <2>3. Advance(r, rec) /\ turns' = turns
      BY <1>7, <2>1 DEF ClassifyAdvisory
    <2> HIDE DEF rec
    <2>4. QED BY <2>2, <2>v, <2>3 DEF Proceeds, Outcome
  <1>8. ASSUME NEW r \in Requests, Switch(r) PROVE Proceeds(r)
    <2> DEFINE rec == [req[r] EXCEPT !.stage = "reclassifying", !.sop = req[r].target, !.target = None]
    <2>1. rec.stage = "reclassifying" /\ rec.index = req[r].index
      BY <1>r DEF RequestRecords
    <2>2. Advance(r, rec) /\ turns' = turns
      BY <1>8 DEF Switch
    <2> HIDE DEF rec
    <2>3. QED BY <2>1, <2>2 DEF Proceeds, Outcome
  <1>9. ASSUME NEW r \in Requests, Reclassify(r) PROVE Proceeds(r)
    <2>1. PICK state \in Classified(req[r].sop), action \in ActionsOf(req[r].sop) :
            Advance(r, [req[r] EXCEPT !.stage = "committing", !.state = state, !.action = action])
      BY <1>9 DEF Reclassify
    <2> DEFINE rec == [req[r] EXCEPT !.stage = "committing", !.state = state, !.action = action]
    <2>2. rec.kind = "advisory" /\ rec.index = req[r].index /\ rec.stage = "committing"
          /\ rec.sop = req[r].sop /\ rec.action = action /\ rec.state = state
      BY <1>9, <1>r DEF RequestRecords, Reclassify, TypeInv, PinnedHaveSop
    <2>v. Vocabulary(rec)
      BY <1>9, <2>1, <2>2 DEF Reclassify, Vocabulary, TypeInv, PinnedHaveSop, Pinned
    <2>3. Advance(r, rec) /\ turns' = turns
      BY <1>9, <2>1 DEF Reclassify
    <2> HIDE DEF rec
    <2>4. QED BY <2>2, <2>v, <2>3 DEF Proceeds, Outcome
  <1>10. ASSUME NEW r \in Requests, PlanTurn(r) PROVE Proceeds(r)
    <2> DEFINE allowed(state) == Allowed(Graph[req[r].sop], VisitedBy(req[r].sop, turns, state))
    <2>1. req[r].stage = "planning" /\ turns' = turns
      BY <1>10 DEF PlanTurn, PlanAfter
    <2>2. PICK asked \in Requested(r) :
            \/ /\ asked[2] \notin allowed(asked[1])
               /\ Advance(r, [req[r] EXCEPT !.stage = "rejected"])
            \/ \E action \in allowed(asked[1]) :
                 Advance(r, [req[r] EXCEPT !.stage = "committing", !.index = Cardinality(turns),
                                           !.state = asked[1], !.action = action])
      BY <1>10 DEF PlanTurn, PlanAfter
    <2>3. req[r].kind # "plan" => asked[1] = req[r].state /\ asked[2] = req[r].action
      BY DEF Requested
    <2> HIDE DEF allowed
    <2>4. CASE asked[2] \notin allowed(asked[1]) /\ Advance(r, [req[r] EXCEPT !.stage = "rejected"])
      <3> DEFINE rec == [req[r] EXCEPT !.stage = "rejected"]
      <3>1. rec.stage = "rejected" /\ rec.kind = req[r].kind /\ rec.visited = req[r].visited
            /\ rec.sop = req[r].sop /\ rec.index = req[r].index
        BY <1>r DEF RequestRecords
      <3>2. Advance(r, rec)
        BY <2>4
      <3> HIDE DEF rec
      <3>3. rec.kind # "plan" => req[r].action \notin allowed(req[r].state)
        BY <2>3, <2>4, <3>1
      <3>4. QED BY <2>1, <3>1, <3>2, <3>3 DEF Proceeds, Outcome, allowed
    <2>5. ASSUME NEW action \in allowed(asked[1]),
                 Advance(r, [req[r] EXCEPT !.stage = "committing", !.index = Cardinality(turns),
                                           !.state = asked[1], !.action = action])
          PROVE  Proceeds(r)
      <3> DEFINE rec == [req[r] EXCEPT !.stage = "committing", !.index = Cardinality(turns),
                                       !.state = asked[1], !.action = action]
      <3>1. rec.stage = "committing" /\ rec.sop = req[r].sop /\ rec.state = asked[1]
            /\ rec.action = action /\ rec.index = Cardinality(turns) /\ rec.kind = req[r].kind
        BY <1>r DEF RequestRecords
      <3>2. Advance(r, rec)
        BY <2>5
      <3> HIDE DEF rec
      <3>3. rec.kind # "advisory"
        BY <2>1, <3>1 DEF TypeInv, PinnedHaveSop
      <3>4. QED BY <2>1, <2>5, <3>1, <3>2, <3>3 DEF Proceeds, Outcome, allowed
    <2>6. QED BY <2>2, <2>4, <2>5
  <1>11. ASSUME NEW r \in Requests, CommitTurn(r) PROVE Inserts(r)
    <2>1. TurnOf(r) \in TurnRecords /\ TurnOf(r).index = req[r].index /\ TurnOf(r).sop = req[r].sop
          /\ TurnOf(r).action = req[r].action /\ TurnOf(r).state = req[r].state
          /\ TurnOf(r).kind = IF req[r].kind = "advisory" THEN "advisory" ELSE "gated"
      BY <1>r DEF TurnOf, TurnRecords, RequestRecords
    <2>2. InsertTurn(r, TurnOf(r)) /\ req[r].stage = "committing"
      BY <1>11 DEF CommitTurn
    <2>3. QED BY <2>1, <2>2 DEF Inserts
  <1>12. ASSUME NEW r \in Requests, Fail(r) PROVE Proceeds(r)
    <2>1. [Idle EXCEPT !.stage = "failed"].stage = "failed" /\ [Idle EXCEPT !.stage = "failed"].index = 0
      BY DEF Idle
    <2>2. QED BY <1>12, <2>1 DEF Fail, Proceeds, Outcome
  <1>13. CASE EndSession \/ (\E s \in Sops : Publish(s) \/ DeleteSop(s)) \/ UNCHANGED vars
    BY <1>13 DEF EndSession, Publish, DeleteSop, vars, Rests
  <1>14. QED
    BY <1>1, <1>2, <1>3, <1>4, <1>5, <1>6, <1>7, <1>8, <1>9, <1>10, <1>11, <1>12, <1>13 DEF Next

-----------------------------------------------------------------------------
(***************************************************************************)
(* Numbering.  An index read is a count of the turns, and turns are only   *)
(* added: it names a turn that exists or the next one.                     *)
(***************************************************************************)
IndexWithin == \A r \in Requests : req[r].index <= Cardinality(turns)

NumInv == NumberedInOrder /\ IndexWithin

LEMMA InsertedNumber ==
    ASSUME TypeInv, NumInv, NEW turn \in TurnRecords, turn.index <= Cardinality(turns),
           ~Taken(turn.index)
    PROVE  /\ turn.index = Cardinality(turns)
           /\ Cardinality(turns \cup {turn}) = Cardinality(turns) + 1
           /\ {t.index : t \in turns \cup {turn}} = 0 .. Cardinality(turns)
           /\ \A t, u \in turns \cup {turn} : t.index = u.index => t = u
  <1> DEFINE n == Cardinality(turns)
  <1>1. n \in Nat /\ turn.index \in Nat /\ turns \subseteq TurnRecords
    BY FS_CardinalityType DEF TypeInv, TypeOK, TurnRecords
  <1>2. {t.index : t \in turns} = 0 .. n - 1
    BY DEF NumInv, NumberedInOrder
  <1>3. turn.index \notin {t.index : t \in turns}
    BY DEF Taken
  <1>4. turn.index = n
    BY <1>1, <1>2, <1>3
  <1>5. turn \notin turns
    BY <1>3
  <1>6. Cardinality(turns \cup {turn}) = n + 1
    BY <1>5, FS_AddElement DEF TypeInv
  <1>7. {t.index : t \in turns \cup {turn}} = (0 .. n - 1) \cup {n}
    BY <1>2, <1>4
  <1>8. (0 .. n - 1) \cup {n} = 0 .. n
    BY <1>1
  <1>9. \A t, u \in turns \cup {turn} : t.index = u.index => t = u
    BY <1>3 DEF NumInv, NumberedInOrder
  <1>10. QED BY <1>4, <1>6, <1>7, <1>8, <1>9

\* A step that leaves the turns alone, and gives r an index it has or the count.
LEMMA StepNumber ==
    ASSUME TypeInv, NumInv, NEW r \in Requests, NEW rec, Advance(r, rec),
           rec.index \in {0, req[r].index, Cardinality(turns)}, turns' = turns
    PROVE  NumInv'
  <1>1. Cardinality(turns) \in Nat /\ req[r].index <= Cardinality(turns)
    BY FS_CardinalityType DEF TypeInv, NumInv, IndexWithin
  <1>2. \A q \in Requests : req'[q] = IF q = r THEN rec ELSE req[q]
    BY DEF Advance, TypeInv, TypeOK
  <1>3. QED BY <1>1, <1>2 DEF NumInv, NumberedInOrder, IndexWithin

LEMMA InsertNumber ==
    ASSUME TypeInv, NumInv, NEW r \in Requests, NEW turn \in TurnRecords, InsertTurn(r, turn),
           turn.index = req[r].index
    PROVE  NumInv'
  <1> DEFINE n == Cardinality(turns)
  <1>1. n \in Nat /\ turn.index <= n
    BY FS_CardinalityType DEF TypeInv, NumInv, IndexWithin
  <1>2. CASE Taken(turn.index)
    <2>1. Advance(r, [Idle EXCEPT !.stage = "failed"]) /\ turns' = turns
      BY <1>2 DEF InsertTurn
    <2>2. [Idle EXCEPT !.stage = "failed"].index = 0
      BY DEF Idle
    <2>3. QED BY <2>1, <2>2, StepNumber
  <1>3. CASE ~Taken(turn.index)
    <2>1. Advance(r, [Idle EXCEPT !.stage = "done"]) /\ turns' = turns \cup {turn}
      BY <1>3 DEF InsertTurn
    <2>2. Cardinality(turns') = n + 1 /\ {t.index : t \in turns'} = 0 .. n
          /\ \A t, u \in turns' : t.index = u.index => t = u
      BY <1>1, <1>3, <2>1, InsertedNumber
    <2>3. 0 .. n = 0 .. (n + 1) - 1
      BY <1>1
    <2>4. \A q \in Requests : req'[q].index <= n + 1
      <3>1. \A q \in Requests : req[q].index \in Nat /\ req[q].index <= n
        BY DEF NumInv, IndexWithin, TypeInv, TypeOK, RequestRecords
      <3>2. \A q \in Requests : req'[q].index \in {0, req[q].index}
        BY <2>1 DEF Advance, Idle, TypeInv, TypeOK
      <3>3. QED BY <1>1, <3>1, <3>2
    <2>5. QED BY <2>2, <2>3, <2>4 DEF NumInv, NumberedInOrder, IndexWithin
  <1>4. QED BY <1>2, <1>3

LEMMA NumInit == Init => NumInv
  BY FS_EmptySet DEF Init, NumInv, NumberedInOrder, IndexWithin, Idle

LEMMA NumNext == TypeInv /\ NumInv /\ [Next]_vars => NumInv'
  <1> SUFFICES ASSUME TypeInv, NumInv, [Next]_vars PROVE NumInv'
    OBVIOUS
  <1>1. CASE Rests
    BY <1>1 DEF Rests, NumInv, NumberedInOrder, IndexWithin
  <1>2. ASSUME NEW r \in Requests, Proceeds(r) PROVE NumInv'
    BY <1>2, StepNumber DEF Proceeds, Outcome
  <1>3. ASSUME NEW r \in Requests, Inserts(r) PROVE NumInv'
    BY <1>3, InsertNumber DEF Inserts
  <1>4. QED BY <1>1, <1>2, <1>3, Shape

(***************************************************************************)
(* The turns of a session are numbered in order, whatever overlaps         *)
(* (api/runtime.py computes turn_index as a count, long before it commits).*)
(***************************************************************************)
THEOREM NumbersInOrder == Spec => []NumberedInOrder
  <1>1. NumInv => NumberedInOrder
    BY DEF NumInv
  <1>2. QED BY <1>1, TypeInit, TypeNext, NumInit, NumNext, PTL DEF Spec

-----------------------------------------------------------------------------
(***************************************************************************)
(* Legality.  The turns that plan_turn has read are those numbered below   *)
(* its index; whoever commits first takes the index, so they are still     *)
(* all of them when it commits.                                            *)
(***************************************************************************)
Before(n) == {t \in turns : t.index < n}

LegalFor(rec, T) == rec.action \in Allowed(Graph[rec.sop], VisitedBy(rec.sop, T, rec.state))

CommitsLegally ==
    \A r \in Requests :
        req[r].stage = "committing" /\ req[r].kind # "advisory"
            => LegalFor(req[r], Before(req[r].index))

LegalInv == TurnsAreLegal /\ CommitsLegally

LEMMA LegalInit == Init => LegalInv
  BY DEF Init, LegalInv, TurnsAreLegal, CommitsLegally, Idle

\* All turns are numbered below their count.
LEMMA BeforeAll ==
    ASSUME TypeInv, NumInv PROVE Before(Cardinality(turns)) = turns
  <1>1. Cardinality(turns) \in Nat
    BY FS_CardinalityType DEF TypeInv
  <1>2. \A t \in turns : t.index \in 0 .. Cardinality(turns) - 1
    BY DEF NumInv, NumberedInOrder
  <1>3. QED BY <1>1, <1>2 DEF Before

LEMMA LegalNext == TypeInv /\ NumInv /\ LegalInv /\ [Next]_vars => LegalInv'
  <1> SUFFICES ASSUME TypeInv, NumInv, LegalInv, [Next]_vars PROVE LegalInv'
    OBVIOUS
  <1>r. req \in [Requests -> RequestRecords] /\ TurnsAreLegal /\ CommitsLegally
    BY DEF TypeInv, TypeOK, LegalInv
  <1>n. Cardinality(turns) \in Nat
    BY FS_CardinalityType DEF TypeInv
  <1>1. CASE Rests
    BY <1>1 DEF Rests, LegalInv, TurnsAreLegal, CommitsLegally, Before, Earlier
  <1>2. ASSUME NEW r \in Requests, Proceeds(r) PROVE LegalInv'
    <2>1. PICK rec : Advance(r, rec) /\ Outcome(r, rec)
      BY <1>2 DEF Proceeds
    <2>2. turns' = turns /\ \A q \in Requests : req'[q] = IF q = r THEN rec ELSE req[q]
      BY <1>2, <1>r, <2>1 DEF Proceeds, Advance
    <2>3. TurnsAreLegal'
      BY <1>r, <2>2 DEF TurnsAreLegal, Earlier
    <2>4. ASSUME NEW q \in Requests, req'[q].stage = "committing", req'[q].kind # "advisory"
          PROVE  LegalFor(req'[q], {t \in turns : t.index < req'[q].index})
      <3>1. CASE q # r
        BY <1>r, <2>2, <2>4, <3>1 DEF CommitsLegally, Before
      <3>2. CASE q = r
        <4>1. rec.index = Cardinality(turns)
              /\ rec.action \in Allowed(Graph[rec.sop], VisitedBy(rec.sop, turns, rec.state))
          BY <2>1, <2>2, <2>4, <3>2 DEF Outcome
        <4>2. QED BY <2>2, <3>2, <4>1, BeforeAll DEF LegalFor, Before
      <3>3. QED BY <3>1, <3>2
    <2>5. QED BY <2>2, <2>3, <2>4 DEF LegalInv, CommitsLegally, LegalFor, Before, VisitedBy
  <1>3. ASSUME NEW r \in Requests, Inserts(r) PROVE LegalInv'
    <2>1. PICK turn \in TurnRecords :
            /\ InsertTurn(r, turn) /\ turn.index = req[r].index
            /\ turn.kind = "gated" =>
                  /\ req[r].stage = "committing" /\ req[r].kind # "advisory"
                  /\ turn.sop = req[r].sop /\ turn.action = req[r].action /\ turn.state = req[r].state
      BY <1>3 DEF Inserts
    <2>2. \A q \in Requests :
            req'[q].stage = "committing" => q # r /\ req'[q] = req[q]
      BY <1>r, <2>1 DEF InsertTurn, Advance, Idle
    <2>3. CASE turns' = turns
      BY <1>r, <2>2, <2>3 DEF LegalInv, TurnsAreLegal, CommitsLegally, Before, Earlier, LegalFor, VisitedBy
    <2>4. CASE ~Taken(turn.index) /\ turns' = turns \cup {turn}
      <3>1. turn.index = Cardinality(turns) /\ \A t \in turns : t.index < turn.index
        <4>1. turn.index <= Cardinality(turns)
          BY <2>1 DEF NumInv, IndexWithin
        <4>2. turn.index = Cardinality(turns)
          BY <2>4, <4>1, InsertedNumber
        <4>3. QED BY <4>2, BeforeAll DEF Before
      <3>2. ASSUME NEW k \in Nat, k <= Cardinality(turns)
            PROVE  {t \in turns' : t.index < k} = {t \in turns : t.index < k}
        BY <1>n, <2>4, <3>1, <3>2
      <3>3. \A t \in turns : t.index \in Nat /\ t.index <= Cardinality(turns)
        BY <1>n, <3>1 DEF TypeInv, TypeOK, TurnRecords
      <3>4. ASSUME NEW t \in turns', t.kind = "gated"
            PROVE  LegalFor(t, {u \in turns' : u.index < t.index})
        <4>1. CASE t \in turns
          <5>1. LegalFor(t, {u \in turns : u.index < t.index})
            BY <1>r, <3>4, <4>1 DEF TurnsAreLegal, Earlier, LegalFor
          <5>2. QED BY <3>2, <3>3, <4>1, <5>1
        <4>2. CASE t = turn
          <5>1. LegalFor(req[r], Before(req[r].index))
            BY <1>r, <2>1, <3>4, <4>2 DEF CommitsLegally
          <5>2. LegalFor(t, {u \in turns : u.index < t.index})
            BY <2>1, <3>4, <4>2, <5>1 DEF LegalFor, Before
          <5>3. t.index \in Nat /\ t.index <= Cardinality(turns)
            BY <1>n, <3>1, <4>2
          <5>4. QED BY <3>2, <5>2, <5>3
        <4>3. QED BY <2>4, <4>1, <4>2
      <3>5. ASSUME NEW q \in Requests, req'[q].stage = "committing", req'[q].kind # "advisory"
            PROVE  LegalFor(req'[q], {u \in turns' : u.index < req'[q].index})
        <4>1. req'[q] = req[q] /\ LegalFor(req[q], {u \in turns : u.index < req[q].index})
          BY <1>r, <2>2, <3>5 DEF CommitsLegally, Before
        <4>2. req[q].index \in Nat /\ req[q].index <= Cardinality(turns)
          BY <1>r DEF RequestRecords, NumInv, IndexWithin
        <4>3. QED BY <3>2, <4>1, <4>2
      <3>6. QED BY <3>4, <3>5 DEF LegalInv, TurnsAreLegal, CommitsLegally, LegalFor, Before, Earlier, VisitedBy
    <2>5. QED BY <2>1, <2>3, <2>4 DEF InsertTurn
  <1>4. QED BY <1>1, <1>2, <1>3, Shape

(***************************************************************************)
(* A gated turn ran an action that its procedure allowed after the turns   *)
(* before it (plan_turn reads, awaits, and commits without a lock).        *)
(***************************************************************************)
THEOREM LegalTurns == Spec => []TurnsAreLegal
  <1>1. LegalInv => TurnsAreLegal
    BY DEF LegalInv
  <1>2. QED BY <1>1, TypeInit, TypeNext, NumInit, NumNext, LegalInit, LegalNext, PTL DEF Spec

-----------------------------------------------------------------------------
(***************************************************************************)
(* "never loop in intake" (api/runtime.py, the intake branch of converse): *)
(* a turn spent there although a procedure could be chosen is the first,   *)
(* and of the requests that all took themselves for the first one only     *)
(* can insert its turn.                                                    *)
(***************************************************************************)
IntakeIsFirst == \A t \in turns : t.kind = "intake" /\ ~t.starved => t.index = 0

THEOREM IntakeEnds == Spec => []IntakeNeverLoops
  <1>1. Init => IntakeIsFirst
    BY DEF Init, IntakeIsFirst
  <1>2. ASSUME TypeInv, IntakeIsFirst, [Next]_vars PROVE IntakeIsFirst'
    <2>1. CASE turns' = turns
      BY <1>2, <2>1 DEF IntakeIsFirst
    <2>2. ASSUME NEW r \in Requests, Inserts(r) PROVE IntakeIsFirst'
      BY <1>2, <2>2 DEF Inserts, InsertTurn, IntakeIsFirst, TurnRecords
    <2>3. QED BY <1>2, <2>1, <2>2, Shape DEF Rests, Proceeds
  <1>3. NumInv /\ IntakeIsFirst => IntakeNeverLoops
    BY DEF NumInv, NumberedInOrder, IntakeIsFirst, IntakeNeverLoops
  <1>4. QED BY <1>1, <1>2, <1>3, TypeInit, TypeNext, NumInit, NumNext, PTL DEF Spec

-----------------------------------------------------------------------------
(***************************************************************************)
(* Refusals.  More turns and more states only open more actions.           *)
(***************************************************************************)
LEMMA OpenGrows ==
    ASSUME NEW g, NEW V, NEW W, V \subseteq W
    PROVE  Open(g, V) \subseteq Open(g, W)
  <1>1. ASSUME NEW a \in Open(g, V) PROVE a \in Open(g, W)
    <2>1. CASE ActionPrereqs(g, a) # {}
      BY <1>1, <2>1 DEF Open
    <2>2. CASE ActionPrereqs(g, a) = {}
      BY <1>1, <2>2 DEF Open
    <2>3. QED BY <2>1, <2>2
  <1>2. QED BY <1>1

LEMMA VisitedGrows ==
    ASSUME NEW s \in Sops, NEW T, NEW U, T \subseteq U, NEW state
    PROVE  VisitedBy(s, T, None) \subseteq VisitedBy(s, U, state)
  BY GraphAssumption DEF VisitedBy, Visited

\* What is read is still so, and what is proposed was allowed by it.
ProposedAllowed ==
    \A r \in Requests :
        /\ req[r].stage = "classifying" =>
              req[r].visited \subseteq VisitedBy(req[r].sop, turns, None)
        /\ req[r].stage = "planning" /\ req[r].kind # "plan" =>
              /\ req[r].visited \subseteq VisitedBy(req[r].sop, turns, None)
              /\ req[r].action \in Allowed(Graph[req[r].sop], req[r].visited)

RejectInv == RejectedOnlyWhenStranded /\ ProposedAllowed

LEMMA RejectInit == Init => RejectInv
  BY DEF Init, RejectInv, RejectedOnlyWhenStranded, ProposedAllowed, Idle

LEMMA RejectNext == TypeInv /\ RejectInv /\ [Next]_vars => RejectInv'
  <1> SUFFICES ASSUME TypeInv, RejectInv, [Next]_vars PROVE RejectInv'
    OBVIOUS
  <1>r. req \in [Requests -> RequestRecords] /\ PinnedHaveSop
        /\ RejectedOnlyWhenStranded /\ ProposedAllowed
    BY DEF TypeInv, TypeOK, RejectInv
  <1>1. CASE Rests
    BY <1>1, <1>r DEF Rests, RejectInv, RejectedOnlyWhenStranded, ProposedAllowed, VisitedBy
  <1>2. ASSUME NEW r \in Requests, Proceeds(r) PROVE RejectInv'
    <2>1. PICK rec : Advance(r, rec) /\ Outcome(r, rec)
      BY <1>2 DEF Proceeds
    <2>2. turns' = turns /\ \A q \in Requests : req'[q] = IF q = r THEN rec ELSE req[q]
      BY <1>2, <1>r, <2>1 DEF Proceeds, Advance
    <2>3. \A s, state : VisitedBy(s, turns, state)' = VisitedBy(s, turns, state)
      BY <2>2 DEF VisitedBy
    <2>4. rec.stage = "rejected" /\ rec.kind # "plan" => Open(Graph[rec.sop], rec.visited) = {}
      <3> SUFFICES ASSUME rec.stage = "rejected", rec.kind # "plan"
                   PROVE  Open(Graph[rec.sop], rec.visited) = {}
        OBVIOUS
      <3> DEFINE now == VisitedBy(rec.sop, turns, req[r].state)
      <3>1. /\ req[r].stage = "planning" /\ req[r].kind # "plan"
            /\ rec.visited = req[r].visited /\ rec.sop = req[r].sop
            /\ req[r].action \notin Allowed(Graph[rec.sop], now)
        BY <2>1 DEF Outcome
      <3>2. rec.sop \in Sops
        BY <1>r, <3>1 DEF PinnedHaveSop, Pinned
      <3>3. /\ rec.visited \subseteq VisitedBy(rec.sop, turns, None)
            /\ req[r].action \in Allowed(Graph[rec.sop], rec.visited)
        BY <1>r, <3>1 DEF ProposedAllowed
      <3>4. rec.visited \subseteq now
        BY <3>2, <3>3, VisitedGrows
      <3>5. Open(Graph[rec.sop], rec.visited) \subseteq Open(Graph[rec.sop], now)
        BY <3>4, OpenGrows
      <3> HIDE DEF now
      <3>6. QED BY <3>1, <3>3, <3>5 DEF Allowed
    <2>5. rec.stage = "planning" /\ rec.kind # "plan" =>
              /\ rec.visited \subseteq VisitedBy(rec.sop, turns, None)
              /\ rec.action \in Allowed(Graph[rec.sop], rec.visited)
      BY <1>r, <2>1 DEF Outcome, ProposedAllowed
    <2>6. rec.stage = "classifying" => rec.visited \subseteq VisitedBy(rec.sop, turns, None)
      BY <2>1 DEF Outcome
    <2>7. RejectedOnlyWhenStranded'
      BY <1>r, <2>2, <2>4 DEF RejectedOnlyWhenStranded
    <2>8. ProposedAllowed'
      BY <1>r, <2>2, <2>3, <2>5, <2>6 DEF ProposedAllowed
    <2>9. QED BY <2>7, <2>8 DEF RejectInv
  <1>3. ASSUME NEW r \in Requests, Inserts(r) PROVE RejectInv'
    <2>1. turns \subseteq turns' /\ \A q \in Requests :
            req'[q].stage \in {"classifying", "planning", "rejected"} => req'[q] = req[q]
      BY <1>3, <1>r DEF Inserts, InsertTurn, Advance, Idle
    <2>2. \A s \in Sops : VisitedBy(s, turns, None) \subseteq VisitedBy(s, turns', None)
      BY <2>1, VisitedGrows
    <2>3. RejectedOnlyWhenStranded'
      BY <1>r, <2>1 DEF RejectedOnlyWhenStranded
    <2>4. ASSUME NEW q \in Requests
          PROVE  /\ req'[q].stage = "classifying" =>
                       req'[q].visited \subseteq VisitedBy(req'[q].sop, turns', None)
                 /\ req'[q].stage = "planning" /\ req'[q].kind # "plan" =>
                       /\ req'[q].visited \subseteq VisitedBy(req'[q].sop, turns', None)
                       /\ req'[q].action \in Allowed(Graph[req'[q].sop], req'[q].visited)
      <3>1. CASE req'[q].stage \in {"classifying", "planning"}
        <4>1. req'[q] = req[q] /\ req[q].sop \in Sops
          BY <1>r, <2>1, <3>1 DEF PinnedHaveSop, Pinned
        <4>2. QED BY <1>r, <2>2, <4>1 DEF ProposedAllowed
      <3>2. QED BY <3>1
    <2>5. ProposedAllowed'
      BY <2>4 DEF ProposedAllowed, VisitedBy
    <2>6. QED BY <2>3, <2>5 DEF RejectInv
  <1>4. QED BY <1>1, <1>2, <1>3, Shape

(***************************************************************************)
(* plan_turn refuses the classifier's own choice only where nothing was    *)
(* open and everything was offered (sop_graph.py allowed_actions, and the  *)
(* 422 of api/runtime.py plan_turn).                                       *)
(***************************************************************************)
THEOREM RefusedOnlyWhenStranded == Spec => []RejectedOnlyWhenStranded
  <1>1. RejectInv => RejectedOnlyWhenStranded
    BY DEF RejectInv
  <1>2. QED BY <1>1, TypeInit, TypeNext, RejectInit, RejectNext, PTL DEF Spec

-----------------------------------------------------------------------------
(***************************************************************************)
(* The transcript.  The turn inserted is the next one, so that the others  *)
(* keep their places, and what it was checked against is what it follows.  *)
(***************************************************************************)
AdvisedFit ==
    \A r \in Requests :
        req[r].stage = "committing" /\ req[r].kind = "advisory" => Vocabulary(req[r])

LEMMA AdvisedInit == Init => AdvisedFit
  BY DEF Init, AdvisedFit, Idle

LEMMA AdvisedNext == TypeInv /\ AdvisedFit /\ [Next]_vars => AdvisedFit'
  <1> SUFFICES ASSUME TypeInv, AdvisedFit, [Next]_vars PROVE AdvisedFit'
    OBVIOUS
  <1>r. req \in [Requests -> RequestRecords]
    BY DEF TypeInv, TypeOK
  <1>1. CASE Rests
    BY <1>1 DEF Rests, AdvisedFit, Vocabulary
  <1>2. ASSUME NEW r \in Requests, Proceeds(r) PROVE AdvisedFit'
    BY <1>2, <1>r DEF Proceeds, Outcome, Advance, AdvisedFit, Vocabulary
  <1>3. ASSUME NEW r \in Requests, Inserts(r) PROVE AdvisedFit'
    <2>1. \A q \in Requests : req'[q].stage = "committing" => req'[q] = req[q]
      BY <1>3, <1>r DEF Inserts, InsertTurn, Advance, Idle
    <2>2. QED BY <2>1 DEF AdvisedFit, Vocabulary
  <1>4. QED BY <1>1, <1>2, <1>3, Shape

\* The places of the transcript hold the turns, each once.
TranscriptFits ==
    /\ Cardinality(turns) \in Nat
    /\ Transcript \in Seq(turns) /\ Len(Transcript) = Cardinality(turns)
    /\ \A n \in 1 .. Cardinality(turns) : Transcript[n] \in turns /\ Transcript[n].index = n - 1
    /\ Talk!SaidTurns = turns

LEMMA TranscriptIs == TypeInv /\ NumInv => TranscriptFits
  <1> SUFFICES ASSUME TypeInv, NumInv PROVE TranscriptFits
    OBVIOUS
  <1>1. Cardinality(turns) \in Nat /\ \A t \in turns : t.index \in Nat
    BY FS_CardinalityType DEF TypeInv, TypeOK, TurnRecords
  <1>2. {t.index : t \in turns} = 0 .. Cardinality(turns) - 1
        /\ \A t, u \in turns : t.index = u.index => t = u
    BY DEF NumInv, NumberedInOrder
  <1>3. ASSUME NEW n \in 1 .. Cardinality(turns)
        PROVE  Transcript[n] \in turns /\ Transcript[n].index = n - 1
    <2>1. n - 1 \in {t.index : t \in turns}
      BY <1>1, <1>2
    <2>2. \E t \in turns : t.index = n - 1
      BY <2>1
    <2>3. Transcript[n] = CHOOSE t \in turns : t.index = n - 1
      BY DEF Transcript
    <2>4. QED BY <2>2, <2>3
  <1>4. DOMAIN Transcript = 1 .. Cardinality(turns)
    BY DEF Transcript
  <1>5. Transcript = [n \in 1 .. Cardinality(turns) |-> Transcript[n]]
    BY DEF Transcript
  <1>6. Transcript \in Seq(turns) /\ Len(Transcript) = Cardinality(turns)
    BY <1>1, <1>3, <1>5
  <1>7. ASSUME NEW t \in turns PROVE \E n \in DOMAIN Transcript : Transcript[n] = t
    <2>1. t.index + 1 \in 1 .. Cardinality(turns)
      BY <1>1, <1>2
    <2>2. Transcript[t.index + 1] \in turns /\ Transcript[t.index + 1].index = t.index
      BY <1>1, <1>3, <2>1
    <2>3. QED BY <1>2, <1>4, <2>1, <2>2
  <1>8. Talk!SaidTurns = turns
    BY <1>3, <1>4, <1>7 DEF Talk!SaidTurns
  <1>9. QED BY <1>1, <1>3, <1>6, <1>8 DEF TranscriptFits

LEMMA TranscriptStillIs == TypeInv' /\ NumInv' => TranscriptFits'
  BY TranscriptIs, PTL

\* A turn added at the end is appended to the transcript.
LEMMA TranscriptGrows ==
    ASSUME TypeInv, TypeInv', NumInv, NumInv', NEW turn \in TurnRecords, turn.index <= Cardinality(turns),
           ~Taken(turn.index), turns' = turns \cup {turn}
    PROVE  Transcript' = Append(Transcript, turn) /\ turn.index = Len(Transcript)
  <1> DEFINE k == Cardinality(turns)
  <1>1. k \in Nat /\ turn.index = k /\ Cardinality(turns') = k + 1
    BY InsertedNumber, TranscriptIs DEF TranscriptFits
  <1>2. /\ Transcript \in Seq(turns) /\ Len(Transcript) = k
        /\ \A n \in 1 .. k : Transcript[n] \in turns /\ Transcript[n].index = n - 1
    BY TranscriptIs DEF TranscriptFits
  <1>3. \A t, u \in turns' : t.index = u.index => t = u
    BY DEF NumInv, NumberedInOrder
  <1>4. ASSUME NEW n \in 1 .. k + 1
        PROVE  Append(Transcript, turn)[n] \in turns' /\ Append(Transcript, turn)[n].index = n - 1
    <2>1. CASE n = k + 1
      BY <1>1, <1>2, <2>1
    <2>2. CASE n # k + 1
      <3>1. n \in 1 .. k
        BY <1>1, <2>2
      <3>2. Append(Transcript, turn)[n] = Transcript[n]
        BY <1>2, <3>1
      <3>3. QED BY <1>2, <3>1, <3>2
    <2>3. QED BY <2>1, <2>2
  <1>5. /\ Transcript' \in Seq(turns') /\ Len(Transcript') = k + 1
        /\ \A n \in 1 .. k + 1 : Transcript'[n] \in turns' /\ Transcript'[n].index = n - 1
    BY <1>1, TranscriptStillIs DEF TranscriptFits
  <1>6. Append(Transcript, turn) \in Seq(turns') /\ Len(Append(Transcript, turn)) = k + 1
    BY <1>1, <1>2
  <1>7. \A n \in 1 .. k + 1 : Transcript'[n] = Append(Transcript, turn)[n]
    BY <1>3, <1>4, <1>5
  <1>8. Transcript' = Append(Transcript, turn)
    BY <1>5, <1>6, <1>7, SeqEqual
  <1>9. QED BY <1>1, <1>2, <1>8

\* Both specifications mean the same by an allowed action.
LEMMA SameGraphs ==
    /\ \A g, V : Talk!Allowed(g, V) = Allowed(g, V)
    /\ \A g, V, W : Talk!Visited(g, V, W) = Visited(g, V, W)
  BY DEF Talk!Allowed, Allowed, Talk!Open, Open, Talk!ActionPrereqs, ActionPrereqs,
         Talk!StatePrereqs, StatePrereqs, Talk!Visited, Visited

\* What is inserted is what the conversation calls for next.
LEMMA InsertSays ==
    ASSUME TypeInv, TypeInv', NumInv, NumInv', LegalInv, AdvisedFit, NEW r \in Requests, Inserts(r)
    PROVE  Talk!ConversationNext \/ UNCHANGED Transcript
  <1>1. PICK turn \in TurnRecords :
          /\ InsertTurn(r, turn) /\ turn.index = req[r].index
          /\ turn.kind # "intake" =>
                /\ req[r].stage = "committing" /\ (turn.kind = "advisory" <=> req[r].kind = "advisory")
                /\ turn.sop = req[r].sop /\ turn.action = req[r].action /\ turn.state = req[r].state
          /\ turn.kind = "intake" /\ turn.index >= 1 => turn.starved
    BY DEF Inserts
  <1>2. CASE turns' = turns
    BY <1>2 DEF Transcript
  <1>3. CASE ~Taken(turn.index) /\ turns' = turns \cup {turn}
    <2>1. turn.index <= Cardinality(turns)
      BY <1>1 DEF NumInv, IndexWithin
    <2>2. Transcript' = Append(Transcript, turn) /\ turn.index = Len(Transcript)
      BY <1>3, <2>1, TranscriptGrows
    <2>3. /\ Transcript \in Seq(turns) /\ Len(Transcript) = Cardinality(turns) /\ Cardinality(turns) \in Nat
          /\ Talk!SaidTurns = turns
      BY TranscriptIs DEF TranscriptFits
    <2>4. ASSUME turn.kind = "intake" PROVE Talk!Undecided(turn)
      <3>1. turn.starved \/ turn.index = 0
        BY <1>1, <2>2, <2>3, <2>4
      <3>2. turn.index = 0 => Transcript = <<>>
        BY <2>2, <2>3
      <3>3. QED BY <2>4, <3>1, <3>2 DEF Talk!Undecided
    <2>5. ASSUME turn.kind = "advisory" PROVE Talk!Advised(turn)
      <3>1. Vocabulary(turn)
        BY <1>1, <2>5 DEF AdvisedFit, Vocabulary
      <3>2. QED BY <2>5, <3>1 DEF Talk!Advised, Vocabulary, ActionsOf, StatesOf, Classified
    <2>6. ASSUME turn.kind = "gated" PROVE Talk!Gated(turn)
      <3>1. /\ req[r].stage = "committing" /\ req[r].kind # "advisory"
            /\ turn.sop = req[r].sop /\ turn.action = req[r].action /\ turn.state = req[r].state
        BY <1>1, <2>6
      <3>2. LegalFor(req[r], Before(Cardinality(turns)))
        BY <1>1, <2>2, <2>3, <3>1 DEF LegalInv, CommitsLegally
      <3>3. turn.action \in Allowed(Graph[turn.sop], VisitedBy(turn.sop, turns, turn.state))
        BY <3>1, <3>2, BeforeAll DEF LegalFor
      <3>4. turn.sop \in Sops
        BY <3>1 DEF TypeInv, PinnedHaveSop, Pinned
      <3>5. Talk!VisitedAt(turn) = VisitedBy(turn.sop, turns, turn.state)
        BY <2>3, SameGraphs DEF Talk!VisitedAt, VisitedBy
      <3>6. QED BY <2>6, <3>3, <3>4, <3>5, SameGraphs DEF Talk!Gated
    <2>7. Talk!Gated(turn) \/ Talk!Advised(turn) \/ Talk!Undecided(turn)
      BY <2>4, <2>5, <2>6 DEF TurnRecords
    <2>8. Talk!Say(turn)
      BY <2>2, <2>7 DEF Talk!Say
    <2>9. Len(Transcript) + 1 \in DOMAIN Transcript' /\ Transcript'[Len(Transcript) + 1] = turn
      BY <2>2, <2>3
    <2>10. QED BY <2>8, <2>9 DEF Talk!ConversationNext
  <1>4. QED BY <1>1, <1>2, <1>3 DEF InsertTurn

(***************************************************************************)
(* The transcript of overlapping requests is that of a conversation held   *)
(* turn by turn (converse, voice-turn and plan-turn, none of which locks   *)
(* the session).                                                           *)
(***************************************************************************)
THEOREM ImplementsConversation == Spec => TurnsAreSerial
  <1>1. Init => Talk!ConversationInit
    <2> SUFFICES ASSUME Init PROVE Transcript = <<>>
      BY DEF Talk!ConversationInit
    <2>1. Len(Transcript) = 0 /\ Transcript \in Seq(turns)
      BY TypeInit, NumInit, TranscriptIs, FS_EmptySet DEF Init, TranscriptFits
    <2>2. QED BY <2>1
  <1>2. TypeInv /\ TypeInv' /\ NumInv /\ NumInv' /\ LegalInv /\ AdvisedFit /\ [Next]_vars
           => [Talk!ConversationNext]_Transcript
    <2> SUFFICES ASSUME TypeInv, TypeInv', NumInv, NumInv', LegalInv, AdvisedFit, [Next]_vars
                 PROVE  Talk!ConversationNext \/ UNCHANGED Transcript
      OBVIOUS
    <2>1. CASE turns' = turns
      BY <2>1 DEF Transcript
    <2>2. QED BY <2>1, Shape, InsertSays DEF Rests, Proceeds
  <1>3. QED
    BY <1>1, <1>2, TypeInit, TypeNext, NumInit, NumNext, LegalInit, LegalNext, AdvisedInit, AdvisedNext, PTL
    DEF Spec, TurnsAreSerial, Talk!ConversationSpec
=============================================================================
