--------------------------- MODULE PrefetchProofs ---------------------------
(***************************************************************************)
(* Proofs about Prefetch, for every value of its constants: any            *)
(* dependencies, utterances, actions, mode and channels, any set of faults *)
(* and any bounds.  What needs the claims to outlive their fetches assumes *)
(* SlowFetches = FALSE.                                                    *)
(*                                                                         *)
(* Four invariants on top of the types, each in a section of its own:      *)
(*   ClaimInv  who stands behind a claim                                   *)
(*   TurnInv   what the turn carries, and what it may be given             *)
(*   RowInv    which audit rows the end may still find open                *)
(*   WaitInv   what each round of consume()'s wait has found out           *)
(***************************************************************************)
EXTENDS Prefetch, FiniteSetTheorems, SequenceTheorems, WellFoundedInduction, TLAPS

-----------------------------------------------------------------------------
(***************************************************************************)
(* The types.  The types alone are not inductive: the item a turn serves   *)
(* is a fetch because the pool's freshest item exists, and it does because *)
(* nothing is pooled that has not landed.                                  *)
(***************************************************************************)
HasLanded(f) == \E i \in DOMAIN landed : landed[i] = f

Searching == lane.stage \in {"lookup", "pollPlan", "pollTurn", "relook"}

LaneMatchesStage ==
    /\ lane.stage # "idle" => turn >= 1
    /\ Searching => lane.dep \in Deps
    /\ lane.stage = "mark" => lane.item \in Fetches
    /\ lane.stage = "live" => /\ lane.dep \in Deps
                              /\ lane.item = <<"live", turn, lane.dep>>

LandedBeforePooled ==
    /\ \A f \in Fetches : fetch[f].ok => HasLanded(f)
    /\ \A f \in pool : HasLanded(f)

TypeInv == TypeOK /\ LaneMatchesStage /\ LandedBeforePooled

LEMMA FetchParts ==
    ASSUME NEW f \in Fetches
    PROVE  /\ f[1] \in {"plan", "turn", "live"}
           /\ f[2] \in Nat
           /\ DepOf(f) \in Deps
           /\ f[1] \in {"turn", "live"} => f[2] \in 1 .. MaxTurns
           /\ f = <<f[1], f[2], f[3]>>
  BY BoundAssumption DEF Fetches, DepOf

LEMMA KeyType ==
    ASSUME TypeOK, NEW f \in Fetches PROVE Key(f) \in Keys
  BY FetchParts DEF TypeOK, Key, Keys, IsTurn, TurnKey, PlanKey, FetchRecords

LEMMA LaunchType ==
    ASSUME NEW s \in Stages, NEW a \in Actions \cup {Advisory}, NEW q \in Queries \cup {None}
    PROVE  /\ Launch(s, a, q) \in FetchRecords
           /\ Launch(s, a, q).stage = s
           /\ Launch(s, a, q).act = a
           /\ Launch(s, a, q).query = q
           /\ Launch(s, a, q).ok = FALSE
  BY DEF Launch, Unused, FetchRecords

LEMMA LandedAppend ==
    ASSUME TypeOK, NEW f \in Fetches, landed' = Append(landed, f)
    PROVE  /\ landed' \in Seq(Fetches)
           /\ \A g : HasLanded(g) => HasLanded(g)'
           /\ HasLanded(f)'
  BY DEF TypeOK, HasLanded

\* A pool with items of a dependency has a freshest one.
LEMMA FreshestExists ==
    ASSUME TypeOK, LandedBeforePooled, NEW d, ItemsFor(d) # {}
    PROVE  Freshest(d) \in ItemsFor(d)
  <1> DEFINE I == {i \in DOMAIN landed : landed[i] \in ItemsFor(d)}
             B == {Len(landed) - i : i \in I}
  <1>1. landed \in Seq(Fetches) /\ DOMAIN landed = 1 .. Len(landed) /\ Len(landed) \in Nat
    BY DEF TypeOK
  <1>2. B \subseteq Nat /\ B # {}
    BY <1>1 DEF LandedBeforePooled, HasLanded, ItemsFor
  <1>3. PICK b \in B : \A c \in B : ~(c < b)
    <2>1. PICK b \in B : \A c \in B : <<c, b>> \notin OpToRel(<, Nat)
      BY <1>2, NatLessThanWellFounded, WFMin, Zenon
    <2>2. QED BY <1>2, <2>1 DEF OpToRel
  <1>4. PICK j \in I : b = Len(landed) - j
    OBVIOUS
  <1>5. \A i \in I : i <= j
    <2>1. TAKE i \in I
    <2>2. Len(landed) - i \in B
      OBVIOUS
    <2>3. ~(Len(landed) - i < Len(landed) - j)
      BY <1>3, <1>4, <2>2
    <2>4. i \in Int /\ j \in Int /\ Len(landed) \in Int
      BY <1>1
    <2> HIDE DEF I, B
    <2>5. QED BY <2>3, <2>4
  <1>6. \A g \in ItemsFor(d) : \E i \in I : landed[i] = g
    BY DEF LandedBeforePooled, HasLanded, ItemsFor
  <1>7. \E f \in ItemsFor(d) : \A g \in ItemsFor(d) : \E i, k \in DOMAIN landed :
            landed[i] = g /\ landed[k] = f /\ i <= k
    <2>1. landed[j] \in ItemsFor(d) /\ j \in DOMAIN landed
      BY <1>4
    <2>2. \A g \in ItemsFor(d) : \E i, k \in DOMAIN landed :
            landed[i] = g /\ landed[k] = landed[j] /\ i <= k
      BY <1>5, <1>6, <2>1
    <2>3. QED BY <2>1, <2>2
  <1>8. QED BY <1>7 DEF Freshest

-----------------------------------------------------------------------------
USE BoundAssumption

LaneRecords ==
    [stage : LaneStages, dep : Deps \cup {None},
     act : Actions \cup {Advisory}, todo : SUBSET Deps,
     utter : Queries \cup {None}, emb : BOOLEAN,
     item : Fetches \cup {<<>>}, why : {"none", "miss", "stale"},
     late : BOOLEAN, pending : SUBSET Fetches]

LEMMA TypeInit == Init => TypeInv
  <1> SUFFICES ASSUME Init PROVE TypeInv
    OBVIOUS
  <1>1. Unused \in FetchRecords /\ Unused.ok = FALSE
    BY DEF Unused, FetchRecords, Stages
  <1>2. Idle \in LaneRecords /\ Idle.stage = "idle"
    BY DEF Idle, LaneRecords, LaneStages
  <1>3. TypeOK
    <2>1. fetch \in [Fetches -> FetchRecords] /\ lane \in LaneRecords
      BY <1>1, <1>2 DEF Init
    <2>2. landed \in Seq(Fetches)
      BY DEF Init
    <2>3. row \in [Fetches -> SUBSET {"written", "consumed", "wasted"}]
      BY DEF Init
    <2>4. /\ 0 \in 0 .. MaxTurns /\ 0 \in 0 .. MaxEnds /\ 0 \in 0 .. MaxCrashes
      OBVIOUS
    <2>5. QED BY <2>1, <2>2, <2>3, <2>4, Zenon DEF Init, TypeOK, LaneRecords
  <1>4. LandedBeforePooled
    BY <1>1 DEF Init, LandedBeforePooled
  <1>5. LaneMatchesStage
    BY <1>2 DEF Init, LaneMatchesStage, Searching
  <1>6. QED BY <1>3, <1>4, <1>5 DEF TypeInv

LEMMA BeginTurnType ==
    ASSUME TypeInv, NEW channel \in Channels, NEW u \in Queries,
           NEW a \in Actions \cup {Advisory}, NEW todo \in SUBSET Deps,
           BeginTurn(channel, u, a, todo)
    PROVE  TypeInv'
  <1>0. Launch("claiming", Advisory, u) \in FetchRecords /\ ~Launch("claiming", Advisory, u).ok
    BY LaunchType DEF Stages
  <1>a. fetch \in [Fetches -> FetchRecords]
    BY DEF TypeInv, TypeOK
  <1>1. /\ fetch' \in [Fetches -> FetchRecords]
        /\ \A f \in Fetches : fetch'[f].ok => fetch[f].ok
    <2>1. fetch' = [f \in Fetches |->
                   IF /\ channel = "converse"
                      /\ IsTurn(f) /\ f[2] = turn + 1 /\ DepOf(f) \in TurnDeps
                   THEN Launch("claiming", Advisory, u) ELSE fetch[f]]
      BY DEF BeginTurn
    <2>2. QED BY <1>0, <1>a, <2>1
  <1>3. LandedBeforePooled'
    BY <1>1 DEF BeginTurn, TypeInv, LandedBeforePooled, HasLanded
  <1>4. lane' \in LaneRecords /\ lane'.stage = "next"
    BY DEF BeginTurn, MayEmbed, Idle, LaneStages, LaneRecords
  <1>5. turn' \in 1 .. MaxTurns
    BY DEF BeginTurn, TypeInv, TypeOK
  <1>6. LaneMatchesStage'
    BY <1>4, <1>5 DEF LaneMatchesStage, Searching
  <1>7. TypeOK'
    BY <1>1, <1>4, <1>5 DEF BeginTurn, TypeInv, TypeOK, endVars, LaneRecords
  <1>8. QED BY <1>3, <1>6, <1>7 DEF TypeInv

LEMMA PlanType ==
    ASSUME TypeInv, NEW f \in Fetches, NEW a \in Actions, NEW q \in Queries \cup {None},
           Plan(f, a, q)
    PROVE  TypeInv'
  <1>0. Launch("fetching", a, q) \in FetchRecords /\ ~Launch("fetching", a, q).ok
    BY LaunchType DEF Stages
  <1>1. fetch' \in [Fetches -> FetchRecords]
        /\ \A g \in Fetches : fetch'[g].ok => fetch[g].ok
    BY <1>0 DEF Plan, TypeInv, TypeOK
  <1>2. claims' \subseteq Keys
    BY FetchParts DEF Plan, TypeInv, TypeOK, Keys, PlanKey
  <1>3. QED
    BY <1>1, <1>2 DEF Plan, TypeInv, TypeOK, endVars, laneVars, LandedBeforePooled, HasLanded,
                      LaneMatchesStage, Searching

(***************************************************************************)
(* What a step of the task of f does to the fetches: f alone moves, from   *)
(* one stage to another, and keeps what it fetches.                        *)
(***************************************************************************)
OnlyMoves(f, stage) ==
    /\ fetch' \in [Fetches -> FetchRecords]
    /\ \A g \in Fetches \ {f} : fetch'[g] = fetch[g]
    /\ fetch'[f].act = fetch[f].act /\ fetch'[f].query = fetch[f].query
    /\ fetch'[f].stage = stage

Keeps(f, ok, emb, saw) ==
    /\ ok  => fetch'[f].ok = fetch[f].ok
    /\ emb => fetch'[f].emb = fetch[f].emb
    /\ saw => fetch'[f].sawEnded = fetch[f].sawEnded

LEMMA RunFetchFacts ==
    ASSUME fetch \in [Fetches -> FetchRecords], NEW f \in Fetches
    PROVE
        /\ ClaimTurnFetch(f) =>
              /\ OnlyMoves(f, IF Key(f) \in claims THEN "done" ELSE "fetching")
              /\ Keeps(f, TRUE, TRUE, TRUE)
        /\ FetchReturns(f) =>
              /\ OnlyMoves(f, "landed")
              /\ Keeps(f, FALSE, TRUE, TRUE)
        /\ ReadStatus(f) =>
              /\ OnlyMoves(f, "checked")
              /\ Keeps(f, TRUE, TRUE, FALSE)
              /\ fetch'[f].sawEnded = (status = "ended")
        /\ WriteAudit(f) =>
              /\ OnlyMoves(f, "recorded")
              /\ Keeps(f, TRUE, TRUE, TRUE)
        /\ AuditFails(f) =>
              /\ OnlyMoves(f, "recorded")
              /\ Keeps(f, TRUE, TRUE, TRUE)
        /\ FinishEmpty(f) =>
              /\ OnlyMoves(f, "done")
              /\ Keeps(f, TRUE, TRUE, TRUE)
        /\ Insert(f) =>
              /\ OnlyMoves(f, IF IsLive(f) THEN "done" ELSE "stored")
              /\ Keeps(f, TRUE, FALSE, TRUE)
        /\ Release(f) =>
              /\ OnlyMoves(f, "done")
              /\ Keeps(f, TRUE, TRUE, TRUE)
        /\ RedisFails(f) =>
              /\ OnlyMoves(f, "dead")
              /\ Keeps(f, TRUE, TRUE, TRUE)
  <1>1. ASSUME ClaimTurnFetch(f)
       PROVE  /\ OnlyMoves(f, IF Key(f) \in claims THEN "done" ELSE "fetching")
              /\ Keeps(f, TRUE, TRUE, TRUE)
    BY <1>1 DEF ClaimTurnFetch, OnlyMoves, Keeps, FetchRecords, Stages
  <1>2. ASSUME FetchReturns(f)
       PROVE  /\ OnlyMoves(f, "landed")
              /\ Keeps(f, FALSE, TRUE, TRUE)
    <2>1. PICK ok \in BOOLEAN : fetch' = [fetch EXCEPT ![f].stage = "landed", ![f].ok = ok]
      BY <1>2 DEF FetchReturns
    <2>2. QED BY <2>1 DEF OnlyMoves, Keeps, FetchRecords, Stages
  <1>3. ASSUME ReadStatus(f)
       PROVE  /\ OnlyMoves(f, "checked")
              /\ Keeps(f, TRUE, TRUE, FALSE)
              /\ fetch'[f].sawEnded = (status = "ended")
    BY <1>3 DEF ReadStatus, OnlyMoves, Keeps, FetchRecords, Stages
  <1>4. ASSUME WriteAudit(f)
       PROVE  /\ OnlyMoves(f, "recorded")
              /\ Keeps(f, TRUE, TRUE, TRUE)
    BY <1>4 DEF WriteAudit, OnlyMoves, Keeps, FetchRecords, Stages
  <1>5. ASSUME AuditFails(f)
       PROVE  /\ OnlyMoves(f, "recorded")
              /\ Keeps(f, TRUE, TRUE, TRUE)
    BY <1>5 DEF AuditFails, OnlyMoves, Keeps, FetchRecords, Stages
  <1>6. ASSUME FinishEmpty(f)
       PROVE  /\ OnlyMoves(f, "done")
              /\ Keeps(f, TRUE, TRUE, TRUE)
    BY <1>6 DEF FinishEmpty, OnlyMoves, Keeps, FetchRecords, Stages
  <1>7. ASSUME Insert(f)
       PROVE  /\ OnlyMoves(f, IF IsLive(f) THEN "done" ELSE "stored")
              /\ Keeps(f, TRUE, FALSE, TRUE)
    <2>1. PICK e \in BOOLEAN :
             fetch' = [fetch EXCEPT ![f].stage = IF IsLive(f) THEN "done" ELSE "stored",
                                    ![f].emb = e]
      BY <1>7 DEF Insert
    <2>2. QED BY <2>1 DEF OnlyMoves, Keeps, FetchRecords, Stages
  <1>8. ASSUME Release(f)
       PROVE  /\ OnlyMoves(f, "done")
              /\ Keeps(f, TRUE, TRUE, TRUE)
    BY <1>8 DEF Release, OnlyMoves, Keeps, FetchRecords, Stages
  <1>9. ASSUME RedisFails(f)
       PROVE  /\ OnlyMoves(f, "dead")
              /\ Keeps(f, TRUE, TRUE, TRUE)
    BY <1>9 DEF RedisFails, OnlyMoves, Keeps, FetchRecords, Stages
  <1>10. QED
    BY <1>1, <1>2, <1>3, <1>4, <1>5, <1>6, <1>7, <1>8, <1>9

Untouched == UNCHANGED <<gone, endVars, laneVars, crashes>>

LEMMA RunFetchType ==
    ASSUME TypeInv, NEW f \in Fetches, RunFetch(f)
    PROVE  TypeInv'
  <1> DEFINE Kept == /\ claims' \subseteq Keys /\ landed' \in Seq(Fetches) /\ pool' \subseteq Fetches
                     /\ row' \in [Fetches -> SUBSET {"written", "consumed", "wasted"}]
                     /\ fetch' \in [Fetches -> FetchRecords]
                     /\ LandedBeforePooled'
                     /\ Untouched
  <1>a. fetch \in [Fetches -> FetchRecords] /\ TypeOK /\ LandedBeforePooled
    BY DEF TypeInv, TypeOK
  <1>b. Key(f) \in Keys
    BY <1>a, KeyType
  <1>1. ASSUME ClaimTurnFetch(f) PROVE Kept
    <2>1. fetch' \in [Fetches -> FetchRecords] /\ \A g \in Fetches : fetch'[g].ok = fetch[g].ok
      BY <1>1, <1>a, RunFetchFacts DEF OnlyMoves, Keeps
    <2>2. QED
      BY <1>1, <1>a, <1>b, <2>1 DEF ClaimTurnFetch, TypeOK, LandedBeforePooled, HasLanded, Untouched
  <1>2. ASSUME FetchReturns(f) PROVE Kept
    <2>1. /\ fetch' \in [Fetches -> FetchRecords]
          /\ \A g \in Fetches : fetch'[g].ok => fetch[g].ok \/ (g = f /\ landed' = Append(landed, f))
          /\ landed' \in {landed, Append(landed, f)}
      <3>1. PICK ok \in BOOLEAN :
               /\ fetch' = [fetch EXCEPT ![f].stage = "landed", ![f].ok = ok]
               /\ landed' = IF ok THEN Append(landed, f) ELSE landed
        BY <1>2 DEF FetchReturns
      <3>2. fetch' \in [Fetches -> FetchRecords] /\ \A g \in Fetches \ {f} : fetch'[g] = fetch[g]
        BY <1>2, <1>a, RunFetchFacts DEF OnlyMoves
      <3>3. fetch'[f].ok = ok
        BY <1>a, <3>1 DEF FetchRecords
      <3>4. QED BY <3>1, <3>2, <3>3
    <2>2. LandedBeforePooled' /\ landed' \in Seq(Fetches)
      <3>1. CASE landed' = landed
        BY <1>2, <1>a, <2>1, <3>1 DEF FetchReturns, LandedBeforePooled, HasLanded, TypeOK
      <3>2. CASE landed' = Append(landed, f)
        BY <1>2, <1>a, <2>1, <3>2, LandedAppend DEF FetchReturns, LandedBeforePooled
      <3>3. QED BY <2>1, <3>1, <3>2
    <2>3. QED
      BY <1>2, <1>a, <2>1, <2>2 DEF FetchReturns, TypeOK, Untouched
  <1>3. ASSUME ReadStatus(f) PROVE Kept
    <2>1. fetch' \in [Fetches -> FetchRecords] /\ \A g \in Fetches : fetch'[g].ok = fetch[g].ok
      BY <1>3, <1>a, RunFetchFacts DEF OnlyMoves, Keeps
    <2>2. QED
      BY <1>3, <1>a, <2>1 DEF ReadStatus, TypeOK, LandedBeforePooled, HasLanded, Untouched
  <1>4. ASSUME WriteAudit(f) PROVE Kept
    <2>1. fetch' \in [Fetches -> FetchRecords] /\ \A g \in Fetches : fetch'[g].ok = fetch[g].ok
      BY <1>4, <1>a, RunFetchFacts DEF OnlyMoves, Keeps
    <2>2. QED
      BY <1>4, <1>a, <2>1 DEF WriteAudit, TypeOK, LandedBeforePooled, HasLanded, Untouched
  <1>5. ASSUME AuditFails(f) PROVE Kept
    <2>1. fetch' \in [Fetches -> FetchRecords] /\ \A g \in Fetches : fetch'[g].ok = fetch[g].ok
      BY <1>5, <1>a, RunFetchFacts DEF OnlyMoves, Keeps
    <2>2. QED
      BY <1>5, <1>a, <2>1 DEF AuditFails, TypeOK, LandedBeforePooled, HasLanded, Untouched
  <1>6. ASSUME FinishEmpty(f) PROVE Kept
    <2>1. fetch' \in [Fetches -> FetchRecords] /\ \A g \in Fetches : fetch'[g].ok = fetch[g].ok
      BY <1>6, <1>a, RunFetchFacts DEF OnlyMoves, Keeps
    <2>2. QED
      BY <1>6, <1>a, <2>1 DEF FinishEmpty, Released, TypeOK, LandedBeforePooled, HasLanded, Untouched
  <1>7. ASSUME Insert(f) PROVE Kept
    <2>1. fetch' \in [Fetches -> FetchRecords] /\ \A g \in Fetches : fetch'[g].ok = fetch[g].ok
      BY <1>7, <1>a, RunFetchFacts DEF OnlyMoves, Keeps
    <2>2. QED
      BY <1>7, <1>a, <2>1 DEF Insert, TypeOK, LandedBeforePooled, HasLanded, Untouched
  <1>8. ASSUME Release(f) PROVE Kept
    <2>1. fetch' \in [Fetches -> FetchRecords] /\ \A g \in Fetches : fetch'[g].ok = fetch[g].ok
      BY <1>8, <1>a, RunFetchFacts DEF OnlyMoves, Keeps
    <2>2. QED
      BY <1>8, <1>a, <2>1 DEF Release, Released, TypeOK, LandedBeforePooled, HasLanded, Untouched
  <1>9. ASSUME RedisFails(f) PROVE Kept
    <2>1. fetch' \in [Fetches -> FetchRecords] /\ \A g \in Fetches : fetch'[g].ok = fetch[g].ok
      BY <1>9, <1>a, RunFetchFacts DEF OnlyMoves, Keeps
    <2>2. QED
      BY <1>9, <1>a, <2>1 DEF RedisFails, TypeOK, LandedBeforePooled, HasLanded, Untouched
  <1>10. Kept
    BY <1>1, <1>2, <1>3, <1>4, <1>5, <1>6, <1>7, <1>8, <1>9 DEF RunFetch
  <1>11. TypeOK'
    BY <1>10, <1>a DEF Untouched, TypeOK, endVars, laneVars
  <1>12. LaneMatchesStage'
    BY <1>10 DEF Untouched, TypeInv, LaneMatchesStage, Searching, laneVars
  <1>13. QED BY <1>10, <1>11, <1>12 DEF TypeInv

\* consume() launches its live fetch: the fetch of this turn for this dependency.
LEMMA FetchLiveType ==
    ASSUME TypeInv, Searching, NEW why \in {"miss", "stale"}, FetchLive(why),
           UNCHANGED <<landed, pool, turn>>
    PROVE  /\ fetch' \in [Fetches -> FetchRecords]
           /\ lane' \in LaneRecords
           /\ served' \subseteq Fetches
           /\ LaneMatchesStage'
           /\ LandedBeforePooled'
  <1> DEFINE q == IF lane.dep \in Templated THEN lane.utter ELSE None
             f == <<"live", turn, lane.dep>>
  <1>1. /\ fetch \in [Fetches -> FetchRecords] /\ lane \in LaneRecords
        /\ turn \in 1 .. MaxTurns /\ lane.dep \in Deps /\ served \subseteq Fetches
    BY DEF TypeInv, TypeOK, LaneRecords, LaneMatchesStage, Searching
  <1>2. f \in Fetches
    BY <1>1 DEF Fetches
  <1>3. q \in Queries \cup {None} /\ lane.act \in Actions \cup {Advisory}
    BY <1>1 DEF LaneRecords
  <1>4. Launch("fetching", lane.act, q) \in FetchRecords /\ ~Launch("fetching", lane.act, q).ok
    BY <1>3, LaunchType DEF Stages
  <1>5. /\ fetch' = [fetch EXCEPT ![f] = Launch("fetching", lane.act, q)]
        /\ lane' = [lane EXCEPT !.stage = "live", !.item = f, !.why = why]
        /\ served' = served
    BY DEF FetchLive
  <1> HIDE DEF f, q
  <1>6. fetch' \in [Fetches -> FetchRecords] /\ \A g \in Fetches : fetch'[g].ok => fetch[g].ok
    BY <1>1, <1>2, <1>4, <1>5
  <1>7. /\ lane' \in LaneRecords /\ lane'.stage = "live" /\ lane'.item = f
        /\ lane'.dep = lane.dep
    BY <1>1, <1>2, <1>5 DEF LaneRecords, LaneStages
  <1>8. LaneMatchesStage'
    BY <1>1, <1>7 DEF LaneMatchesStage, Searching, f
  <1>9. LandedBeforePooled'
    BY <1>6 DEF TypeInv, LandedBeforePooled, HasLanded
  <1>10. QED BY <1>1, <1>5, <1>6, <1>7, <1>8, <1>9

LEMMA ServeType ==
    ASSUME TypeInv, Searching, NEW f \in Fetches, Serve(f),
           UNCHANGED <<landed, pool, turn>>
    PROVE  /\ fetch' \in [Fetches -> FetchRecords]
           /\ lane' \in LaneRecords
           /\ served' \subseteq Fetches
           /\ LaneMatchesStage'
           /\ LandedBeforePooled'
  <1>1. /\ lane \in LaneRecords /\ turn \in 1 .. MaxTurns
    BY DEF TypeInv, TypeOK, LaneRecords, LaneMatchesStage, Searching
  <1>2. lane' \in LaneRecords /\ lane'.stage = "mark" /\ lane'.item = f
    BY <1>1 DEF Serve, LaneRecords, LaneStages
  <1>3. LaneMatchesStage'
    BY <1>1, <1>2 DEF LaneMatchesStage, Searching
  <1>4. QED
    BY <1>2, <1>3 DEF Serve, TypeInv, TypeOK, LandedBeforePooled, HasLanded

LEMMA DecideType ==
    ASSUME TypeInv, Searching, Decide, UNCHANGED <<landed, pool, turn>>
    PROVE  /\ fetch' \in [Fetches -> FetchRecords]
           /\ lane' \in LaneRecords
           /\ served' \subseteq Fetches
           /\ LaneMatchesStage'
           /\ LandedBeforePooled'
  <1>1. ItemsFor(lane.dep) # {} => Freshest(lane.dep) \in Fetches
    BY FreshestExists DEF TypeInv, TypeOK, ItemsFor
  <1>2. \/ FetchLive("miss") \/ FetchLive("stale")
        \/ ItemsFor(lane.dep) # {} /\ Serve(Freshest(lane.dep))
    BY DEF Decide
  <1>3. QED
    BY <1>1, <1>2, FetchLiveType, ServeType

LEMMA ConsumeType ==
    ASSUME TypeInv, Consume \/ Deadline
    PROVE  TypeInv'
  <1>a. lane \in LaneRecords /\ (lane.stage # "idle" => turn \in 1 .. MaxTurns)
    BY DEF TypeInv, TypeOK, LaneRecords, LaneMatchesStage
  <1>b. TypeOK /\ LaneMatchesStage /\ LandedBeforePooled /\ Idle \in LaneRecords
    BY DEF TypeInv, Idle, LaneRecords, LaneStages
  <1> DEFINE Done == /\ fetch' \in [Fetches -> FetchRecords]
                     /\ lane' \in LaneRecords
                     /\ served' \subseteq Fetches
                     /\ row' \in [Fetches -> SUBSET {"written", "consumed", "wasted"}]
                     /\ published' \in BOOLEAN
                     /\ UNCHANGED <<claims, landed, pool, gone, endVars, turn, crashes>>
                     /\ LaneMatchesStage'
                     /\ LandedBeforePooled'
  <1>1. ASSUME NEW d \in Deps, TakeDep(d) PROVE Done
    <2>1. lane' \in LaneRecords /\ lane'.stage = "lookup" /\ lane'.dep = d
      BY <1>1, <1>a DEF TakeDep, LaneRecords, LaneStages
    <2>2. LaneMatchesStage'
      BY <1>1, <1>a, <2>1 DEF TakeDep, LaneMatchesStage, Searching
    <2>3. QED
      BY <1>1, <1>b, <2>1, <2>2 DEF TakeDep, TypeOK, fetchVars, LandedBeforePooled, HasLanded
  <1>2. ASSUME Lookup PROVE Done
    <2>1. Searching /\ UNCHANGED <<claims, landed, pool, gone, row, endVars, turn, published, crashes>>
      BY <1>2 DEF Lookup, Searching
    <2>2. CASE Decide
      BY <1>b, <2>1, <2>2, DecideType DEF TypeOK
    <2>3. CASE /\ lane' = [lane EXCEPT !.stage = "pollPlan", !.pending = InFlight]
               /\ UNCHANGED <<fetch, served>>
      <3>1. lane' \in LaneRecords /\ lane'.stage = "pollPlan" /\ lane'.dep = lane.dep
        BY <1>a, <2>3 DEF LaneRecords, LaneStages, InFlight
      <3>2. LaneMatchesStage'
        BY <1>2, <1>a, <1>b, <3>1 DEF Lookup, LaneMatchesStage, Searching
      <3>3. QED BY <1>b, <2>1, <2>3, <3>1, <3>2 DEF TypeOK, LandedBeforePooled, HasLanded
    <2>4. QED BY <1>2, <2>2, <2>3 DEF Lookup
  <1>3. ASSUME Poll PROVE Done
    <2>1. /\ lane' \in LaneRecords /\ lane'.dep = lane.dep
          /\ lane'.stage \in {"pollPlan", "pollTurn", "relook"}
      BY <1>3, <1>a DEF Poll, LaneRecords, LaneStages
    <2>2. LaneMatchesStage'
      BY <1>3, <1>a, <1>b, <2>1 DEF Poll, LaneMatchesStage, Searching
    <2>3. QED
      BY <1>3, <1>b, <2>1, <2>2 DEF Poll, TypeOK, fetchVars, LandedBeforePooled, HasLanded
  <1>4. ASSUME Deadline PROVE Done
    <2>1. /\ lane' \in LaneRecords /\ lane'.dep = lane.dep /\ lane'.stage = lane.stage
          /\ lane'.item = lane.item
      BY <1>4, <1>a DEF Deadline, LaneRecords
    <2>2. LaneMatchesStage'
      BY <1>4, <1>a, <1>b, <2>1 DEF Deadline, LaneMatchesStage, Searching
    <2>3. QED
      BY <1>4, <1>b, <2>1, <2>2 DEF Deadline, TypeOK, fetchVars, LandedBeforePooled, HasLanded
  <1>5. ASSUME Relook PROVE Done
    <2>1. Searching /\ UNCHANGED <<claims, landed, pool, gone, row, endVars, turn, published, crashes>>
      BY <1>5 DEF Relook, Searching
    <2>2. QED BY <1>5, <1>b, <2>1, DecideType DEF Relook, TypeOK
  <1>6. ASSUME Mark \/ MarkFails \/ LiveDone PROVE Done
    <2>1. /\ lane' \in LaneRecords /\ lane'.stage = "next" /\ lane.stage # "idle"
      BY <1>6, <1>a DEF Mark, MarkFails, LiveDone, NextDep, LaneRecords, LaneStages
    <2>2. UNCHANGED <<claims, fetch, landed, pool, gone, endVars, turn, published, crashes>>
      BY <1>6 DEF Mark, MarkFails, LiveDone, fetchVars
    <2>3. LaneMatchesStage'
      BY <1>a, <2>1, <2>2 DEF LaneMatchesStage, Searching
    <2>4. row' \in [Fetches -> SUBSET {"written", "consumed", "wasted"}]
      BY <1>6, <1>b DEF Mark, MarkFails, LiveDone, fetchVars, TypeOK
    <2>5. served' \subseteq Fetches
      <3>1. lane.stage = "live" => lane.item \in Fetches
        BY <1>a, <1>b DEF LaneMatchesStage, Fetches
      <3>2. QED BY <1>6, <1>b, <3>1 DEF Mark, MarkFails, LiveDone, TypeOK
    <2>6. QED
      BY <1>b, <2>1, <2>2, <2>3, <2>4, <2>5 DEF TypeOK, LandedBeforePooled, HasLanded
  <1>7. ASSUME LiveDies \/ EndTurn PROVE Done
    <2>1. lane' = Idle /\ served' = {} /\ UNCHANGED <<fetchVars, endVars, turn, crashes>>
          /\ published' \in BOOLEAN
      BY <1>7, <1>b DEF LiveDies, EndTurn, TypeOK
    <2>2. LaneMatchesStage'
      <3>1. lane'.stage = "idle"
        BY <2>1 DEF Idle
      <3>2. QED BY <3>1 DEF LaneMatchesStage, Searching
    <2>3. QED
      BY <1>b, <2>1, <2>2 DEF TypeOK, fetchVars, LandedBeforePooled, HasLanded
  <1>8. Done
    BY <1>1, <1>2, <1>3, <1>4, <1>5, <1>6, <1>7 DEF Consume
  <1>9. TypeOK'
    BY <1>8, <1>b DEF TypeOK, LaneRecords, endVars
  <1>10. QED BY <1>8, <1>9 DEF TypeInv

\* The end of the session, and what Redis forgets.
LEMMA EndType ==
    ASSUME TypeInv, EndSession \/ Sweep \/ SweepFails \/ ClearPool
    PROVE  TypeInv'
  <1>1. UNCHANGED <<fetch, landed, lane, turn, claims, served, published, crashes>>
    BY DEF EndSession, Sweep, SweepFails, ClearPool, fetchVars, laneVars
  <1>2. pool' \subseteq pool /\ gone' \subseteq Fetches /\ caught' \subseteq Fetches
    BY DEF EndSession, Sweep, SweepFails, ClearPool, fetchVars, TypeInv, TypeOK
  <1>3. row' \in [Fetches -> SUBSET {"written", "consumed", "wasted"}]
    BY DEF EndSession, Sweep, SweepFails, ClearPool, fetchVars, TypeInv, TypeOK
  <1>4. /\ status' \in {"active", "ended"} /\ ender' \in {"idle", "sweeping", "clearing"}
        /\ swept' \in BOOLEAN /\ ends' \in 0 .. MaxEnds
    <2>1. CASE EndSession
      BY <2>1 DEF EndSession, TypeInv, TypeOK
    <2>2. CASE Sweep \/ SweepFails
      BY <2>2 DEF Sweep, SweepFails, TypeInv, TypeOK
    <2>3. CASE ClearPool
      BY <2>3 DEF ClearPool, TypeInv, TypeOK
    <2>4. QED BY <2>1, <2>2, <2>3
  <1>5. LaneMatchesStage' /\ LandedBeforePooled'
    BY <1>1, <1>2 DEF TypeInv, LaneMatchesStage, Searching, LandedBeforePooled, HasLanded
  <1>6. TypeOK'
    BY <1>1, <1>2, <1>3, <1>4 DEF TypeInv, TypeOK
  <1>7. QED BY <1>5, <1>6 DEF TypeInv

LEMMA ForgetType ==
    ASSUME TypeInv, (\E k \in Keys : ClaimExpires(k)) \/ (\E f \in Fetches : PoolDrops(f))
    PROVE  TypeInv'
  <1>1. UNCHANGED <<fetch, landed, row, endVars, laneVars, crashes>>
    BY DEF ClaimExpires, PoolDrops
  <1>2. pool' \subseteq pool /\ gone' \subseteq Fetches /\ claims' \subseteq claims
    BY DEF ClaimExpires, PoolDrops, TypeInv, TypeOK
  <1>3. LaneMatchesStage' /\ LandedBeforePooled'
    BY <1>1, <1>2 DEF TypeInv, LaneMatchesStage, Searching, LandedBeforePooled, HasLanded, laneVars
  <1>4. TypeOK'
    BY <1>1, <1>2 DEF TypeInv, TypeOK, endVars, laneVars
  <1>5. QED BY <1>3, <1>4 DEF TypeInv

(***************************************************************************)
(* What a crash does to the fetches: those under way that lived in the     *)
(* process are dead, and keep everything else.                             *)
(***************************************************************************)
CrashKills ==
    /\ fetch' \in [Fetches -> FetchRecords]
    /\ \A f \in Fetches :
          /\ fetch'[f].act = fetch[f].act /\ fetch'[f].query = fetch[f].query
          /\ fetch'[f].ok = fetch[f].ok /\ fetch'[f].emb = fetch[f].emb
          /\ \/ fetch'[f] = fetch[f]
             \/ /\ Running(f) \/ fetch[f].stage = "claiming"
                /\ fetch'[f].stage = "dead"

LEMMA CrashFacts ==
    ASSUME TypeOK, WorkerCrash \/ ApiCrash
    PROVE  CrashKills /\ UNCHANGED <<claims, landed, pool, gone, row, status, ends, swept, caught,
                                     turn, published>>
  <1>1. CASE WorkerCrash
    <2>1. fetch' = [f \in Fetches |->
                IF IsPlan(f) /\ (Running(f) \/ fetch[f].stage = "claiming")
                THEN [fetch[f] EXCEPT !.stage = "dead"] ELSE fetch[f]]
      BY <1>1 DEF WorkerCrash, Killed
    <2>2. CrashKills
      BY <2>1 DEF CrashKills, TypeOK, FetchRecords, Stages
    <2>3. QED BY <1>1, <2>2 DEF WorkerCrash, endVars, laneVars
  <1>2. CASE ApiCrash
    <2>1. fetch' = [f \in Fetches |->
                IF ~IsPlan(f) /\ (Running(f) \/ fetch[f].stage = "claiming")
                THEN [fetch[f] EXCEPT !.stage = "dead"] ELSE fetch[f]]
      BY <1>2 DEF ApiCrash, Killed
    <2>2. fetch \in [Fetches -> FetchRecords]
      BY DEF TypeOK
    <2>3. ASSUME NEW f \in Fetches
          PROVE  /\ fetch'[f] \in FetchRecords
                 /\ fetch'[f].act = fetch[f].act /\ fetch'[f].query = fetch[f].query
                 /\ fetch'[f].ok = fetch[f].ok /\ fetch'[f].emb = fetch[f].emb
                 /\ \/ fetch'[f] = fetch[f]
                    \/ /\ Running(f) \/ fetch[f].stage = "claiming"
                       /\ fetch'[f].stage = "dead"
      BY <2>1, <2>2 DEF FetchRecords, Stages
    <2>4. CrashKills
      BY <2>1, <2>3 DEF CrashKills
    <2>5. QED BY <1>2, <2>4 DEF ApiCrash
  <1>3. QED BY <1>1, <1>2

LEMMA CrashType ==
    ASSUME TypeInv, WorkerCrash \/ ApiCrash
    PROVE  TypeInv'
  <1>1. CrashKills /\ UNCHANGED <<claims, landed, pool, gone, row, status, ends, swept, caught,
                                  turn, published>>
    BY CrashFacts DEF TypeInv
  <1>2. LandedBeforePooled'
    BY <1>1 DEF CrashKills, TypeInv, LandedBeforePooled, HasLanded
  <1>3. lane' \in {lane, Idle} /\ served' \in {served, {}} /\ ender' \in {ender, "idle"}
        /\ crashes' \in 0 .. MaxCrashes
    BY DEF WorkerCrash, ApiCrash, laneVars, endVars, TypeInv, TypeOK
  <1>4. LaneMatchesStage' /\ lane' \in LaneRecords
    <2>1. Idle \in LaneRecords /\ Idle.stage = "idle"
      BY DEF Idle, LaneRecords, LaneStages
    <2>2. lane \in LaneRecords /\ LaneMatchesStage
      BY DEF TypeInv, TypeOK, LaneRecords
    <2>3. CASE lane' = lane
      BY <1>1, <2>2, <2>3 DEF LaneMatchesStage, Searching
    <2>4. CASE lane' = Idle
      BY <2>1, <2>4 DEF LaneMatchesStage, Searching
    <2>5. QED BY <1>3, <2>3, <2>4
  <1>5. TypeOK'
    BY <1>1, <1>3, <1>4 DEF CrashKills, TypeInv, TypeOK, LaneRecords
  <1>6. QED BY <1>2, <1>4, <1>5 DEF TypeInv

(***************************************************************************)
(* Every step keeps the types, whatever the sets and the bounds.           *)
(***************************************************************************)
LEMMA TypeNext == TypeInv /\ [Next]_vars => TypeInv'
  <1> SUFFICES ASSUME TypeInv, [Next]_vars PROVE TypeInv'
    OBVIOUS
  <1>1. CASE UNCHANGED vars
    BY <1>1 DEF vars, fetchVars, endVars, laneVars, TypeInv, TypeOK, LaneMatchesStage, Searching,
                LandedBeforePooled, HasLanded
  <1>2. CASE Next
    BY <1>2, BeginTurnType, PlanType, RunFetchType, ConsumeType, EndType, ForgetType, CrashType
       DEF Next
  <1>3. QED BY <1>1, <1>2

(***************************************************************************)
(* The types of every variable, for every value of the constants.          *)
(***************************************************************************)
THEOREM TypeCorrect == Spec => []TypeOK
  <1>1. TypeInv => TypeOK
    BY DEF TypeInv
  <1>2. QED BY <1>1, TypeInit, TypeNext, PTL DEF Spec

-----------------------------------------------------------------------------
(***************************************************************************)
(* The claims.  The two properties hold together: a key leaves the claims  *)
(* only with the one fetch that runs for it, and it is taken only when     *)
(* nothing runs for it.  A turn fetch shares its key with those of other   *)
(* turns, so a turn's fetches must be unused when it begins.               *)
(***************************************************************************)
FutureUnused ==
    \A f \in Fetches : ~IsPlan(f) /\ f[2] > turn => fetch[f].stage = "unused"

OnlyTurnFetchesClaimLate == \A f \in Fetches : fetch[f].stage = "claiming" => IsTurn(f)

ClaimInv == OneFetchPerKey /\ ClaimsHaveOwners /\ FutureUnused /\ OnlyTurnFetchesClaimLate

Speculative(f) == ~IsLive(f)

\* f stands behind its claim: its task runs, or died with it.
Owns(f) == Speculative(f) /\ (Running(f) \/ fetch[f].stage = "dead")

Claimed(k) == \E f \in Fetches : Owns(f) /\ Key(f) = k

LEMMA ClaimFacts ==
    /\ ClaimsHaveOwners <=>
          /\ \A k \in claims : Claimed(k)
          /\ \A f \in Fetches : Speculative(f) /\ Running(f) => Key(f) \in claims
    /\ OneFetchPerKey <=>
          \A f, g \in Fetches :
             Speculative(f) /\ Speculative(g) /\ Running(f) /\ Running(g) /\ Key(f) = Key(g) => f = g
  BY DEF ClaimsHaveOwners, OneFetchPerKey, Claimed, Owns, Speculative

\* The key of a fetch that keeps what it fetches is the same key.
LEMMA SameKey ==
    ASSUME NEW f, fetch'[f].act = fetch[f].act, fetch'[f].query = fetch[f].query
    PROVE  Key(f)' = Key(f)
  BY DEF Key

\* Nobody starts, every owner stays one, and no key of a running fetch goes.
LEMMA ClaimsKept ==
    ASSUME OneFetchPerKey, ClaimsHaveOwners,
           \A f \in Fetches : Owns(f) => Owns(f)' /\ Key(f)' = Key(f),
           \A f \in Fetches : Speculative(f) /\ Running(f)' => Running(f),
           claims' \subseteq claims,
           \A f \in Fetches : Speculative(f) /\ Running(f)' => Key(f) \in claims'
    PROVE  OneFetchPerKey' /\ ClaimsHaveOwners'
  <1>1. \A k \in claims' : Claimed(k)'
    BY ClaimFacts DEF Claimed
  <1>2. \A f \in Fetches : Speculative(f) /\ Running(f) => Owns(f)
    BY DEF Owns
  <1>3. \A f \in Fetches : Speculative(f)' = Speculative(f)
    BY DEF Speculative
  <1>4. \A f \in Fetches : Speculative(f)' /\ Running(f)' => Key(f)' \in claims'
    BY <1>2, <1>3
  <1>5. OneFetchPerKey'
    BY <1>2 DEF OneFetchPerKey, Speculative
  <1>6. ClaimsHaveOwners'
    BY <1>1, <1>4 DEF ClaimsHaveOwners, Claimed, Owns, Speculative
  <1>7. QED BY <1>5, <1>6

\* f starts with a key that nobody had.
LEMMA ClaimTaken ==
    ASSUME OneFetchPerKey, ClaimsHaveOwners, NEW f \in Fetches, Speculative(f),
           ~Owns(f), Running(f)',
           Key(f)' \notin claims, claims' = claims \cup {Key(f)'},
           \A g \in Fetches \ {f} : fetch'[g] = fetch[g]
    PROVE  OneFetchPerKey' /\ ClaimsHaveOwners'
  <1>1. \A g \in Fetches \ {f} : /\ Key(g)' = Key(g)
                                 /\ Running(g)' = Running(g)
                                 /\ Owns(g)' = Owns(g)
    BY DEF Key, Running, Owns, Speculative
  <1>2. \A g \in Fetches : Speculative(g)' = Speculative(g)
    BY DEF Speculative
  <1>3. Owns(f)'
    BY DEF Owns, Speculative
  <1>4. \A k \in claims' : Claimed(k)'
    <2>1. TAKE k \in claims'
    <2>2. CASE k = Key(f)'
      BY <1>3, <2>2 DEF Claimed
    <2>3. CASE k \in claims
      <3>1. PICK g \in Fetches : Owns(g) /\ Key(g) = k
        BY <2>3, ClaimFacts DEF Claimed
      <3>2. g # f
        BY <3>1
      <3>3. QED BY <1>1, <3>1, <3>2 DEF Claimed
    <2>4. QED BY <2>2, <2>3
  <1>5. \A g \in Fetches : Speculative(g) /\ Running(g)' => Key(g)' \in claims'
    BY <1>1, ClaimFacts
  <1>6. \A g \in Fetches \ {f} : Speculative(g) /\ Running(g)' => Key(g)' # Key(f)'
    BY <1>1, ClaimFacts
  <1>7. OneFetchPerKey'
    BY <1>1, <1>6 DEF OneFetchPerKey, Speculative
  <1>8. ClaimsHaveOwners'
    BY <1>4, <1>5 DEF ClaimsHaveOwners, Claimed, Owns, Speculative
  <1>9. QED BY <1>7, <1>8

\* f ends and takes its own key with it.
LEMMA ClaimReleased ==
    ASSUME OneFetchPerKey, ClaimsHaveOwners, NEW f \in Fetches, Speculative(f),
           Running(f), ~Running(f)',
           claims' = claims \ {Key(f)},
           \A g \in Fetches \ {f} : fetch'[g] = fetch[g]
    PROVE  OneFetchPerKey' /\ ClaimsHaveOwners'
  <1>1. \A g \in Fetches \ {f} : /\ Key(g)' = Key(g)
                                 /\ Running(g)' = Running(g)
                                 /\ Owns(g)' = Owns(g)
    BY DEF Key, Running, Owns, Speculative
  <1>2. \A g \in Fetches \ {f} : Speculative(g) /\ Running(g) => Key(g) # Key(f)
    BY DEF OneFetchPerKey, Speculative
  <1>3. \A k \in claims' : Claimed(k)'
    <2>1. TAKE k \in claims'
    <2>2. PICK g \in Fetches : Owns(g) /\ Key(g) = k
      BY <2>1, ClaimFacts DEF Claimed
    <2>3. g # f
      BY <2>1, <2>2
    <2>4. QED BY <1>1, <2>2, <2>3 DEF Claimed
  <1>4. \A g \in Fetches : Speculative(g) /\ Running(g)' => Key(g)' \in claims'
    BY <1>1, <1>2, ClaimFacts
  <1>5. OneFetchPerKey'
    BY <1>1 DEF OneFetchPerKey, Speculative
  <1>6. ClaimsHaveOwners'
    BY <1>3, <1>4 DEF ClaimsHaveOwners, Claimed, Owns, Speculative
  <1>7. QED BY <1>5, <1>6

\* A step of a fetch's task changes nothing that FutureUnused is about.
LEMMA FutureUnusedKept ==
    ASSUME ClaimInv, turn' = turn,
           \A f \in Fetches : \/ fetch'[f] = fetch[f]
                              \/ /\ fetch[f].stage # "unused"
                                 /\ fetch'[f].stage = "claiming" => IsTurn(f)
    PROVE  FutureUnused' /\ OnlyTurnFetchesClaimLate'
  BY DEF ClaimInv, FutureUnused, OnlyTurnFetchesClaimLate, IsPlan, IsTurn

LEMMA BeginTurnClaims ==
    ASSUME TypeInv, ClaimInv, NEW channel \in Channels, NEW u \in Queries,
           NEW a \in Actions \cup {Advisory}, NEW todo \in SUBSET Deps,
           BeginTurn(channel, u, a, todo)
    PROVE  ClaimInv'
  <1>1. /\ claims' = claims /\ turn' = turn + 1 /\ turn \in Nat
        /\ fetch' = [f \in Fetches |->
                   IF /\ channel = "converse"
                      /\ IsTurn(f) /\ f[2] = turn + 1 /\ DepOf(f) \in TurnDeps
                   THEN Launch("claiming", Advisory, u) ELSE fetch[f]]
    BY DEF BeginTurn, TypeInv, TypeOK
  <1>2. Launch("claiming", Advisory, u).stage = "claiming"
    BY DEF Launch, Unused
  <1>3. \A f \in Fetches : \/ fetch'[f] = fetch[f]
                           \/ /\ fetch[f].stage = "unused" /\ fetch'[f].stage = "claiming"
                              /\ IsTurn(f) /\ f[2] = turn + 1
    BY <1>1, <1>2 DEF ClaimInv, FutureUnused, IsTurn, IsPlan
  <1>4. /\ \A f \in Fetches : Owns(f) => Owns(f)' /\ Key(f)' = Key(f)
        /\ \A f \in Fetches : Speculative(f) /\ Running(f)' => Running(f)
    BY <1>3 DEF Owns, Running, Speculative, Key
  <1>5. OneFetchPerKey' /\ ClaimsHaveOwners'
    BY <1>1, <1>4, ClaimsKept, ClaimFacts DEF ClaimInv, Owns
  <1>6. FutureUnused' /\ OnlyTurnFetchesClaimLate'
    BY <1>1, <1>3, FetchParts DEF ClaimInv, FutureUnused, OnlyTurnFetchesClaimLate, IsPlan, IsTurn
  <1>7. QED BY <1>5, <1>6 DEF ClaimInv

LEMMA PlanClaims ==
    ASSUME TypeInv, ClaimInv, NEW f \in Fetches, NEW a \in Actions, NEW q \in Queries \cup {None},
           Plan(f, a, q)
    PROVE  ClaimInv'
  <1>1. /\ IsPlan(f) /\ fetch[f].stage = "unused" /\ turn' = turn
        /\ fetch' = [fetch EXCEPT ![f] = Launch("fetching", a, q)]
        /\ fetch \in [Fetches -> FetchRecords]
        /\ claims' = claims \cup {PlanKey(DepOf(f), a, q)}
        /\ PlanKey(DepOf(f), a, q) \notin claims
    BY DEF Plan, laneVars, TypeInv, TypeOK
  <1>2. fetch'[f] = Launch("fetching", a, q) /\ \A g \in Fetches \ {f} : fetch'[g] = fetch[g]
    BY <1>1
  <1>3. fetch'[f].stage = "fetching" /\ fetch'[f].act = a /\ fetch'[f].query = q
    BY <1>2 DEF Launch, Unused
  <1>4. Speculative(f) /\ ~Owns(f) /\ Running(f)' /\ Key(f)' = PlanKey(DepOf(f), a, q)
    BY <1>1, <1>3 DEF Speculative, Owns, Running, Key, IsPlan, IsLive, IsTurn
  <1>5. OneFetchPerKey' /\ ClaimsHaveOwners'
    BY <1>1, <1>2, <1>4, ClaimTaken DEF ClaimInv
  <1>6. FutureUnused' /\ OnlyTurnFetchesClaimLate'
    BY <1>1, <1>2, <1>3 DEF ClaimInv, FutureUnused, OnlyTurnFetchesClaimLate, IsPlan, IsTurn
  <1>7. QED BY <1>5, <1>6 DEF ClaimInv

\* The stages of a task from its first call to its last, which holds the claim.
LEMMA QuietStepClaims ==
    ASSUME ClaimInv, NEW f \in Fetches, NEW stage,
           OnlyMoves(f, stage), UNCHANGED <<claims, laneVars>>,
           stage \notin {"unused", "claiming"}, fetch[f].stage # "unused",
           \/ IsLive(f)
           \/ ~Running(f) /\ fetch[f].stage # "dead" /\ stage = "done"
           \/ Running(f) /\ stage \in {"landed", "checked", "recorded", "stored", "dead"}
    PROVE  ClaimInv'
  <1>1. \A g \in Fetches : g # f => fetch'[g] = fetch[g]
    BY DEF OnlyMoves
  <1>2. /\ fetch'[f].stage = stage /\ Key(f)' = Key(f)
        /\ fetch'[f].act = fetch[f].act /\ fetch'[f].query = fetch[f].query
    BY SameKey DEF OnlyMoves
  <1>3. \A g \in Fetches : g # f => Owns(g)' = Owns(g) /\ Key(g)' = Key(g) /\ Running(g)' = Running(g)
    BY <1>1 DEF Owns, Speculative, Running, Key
  <1>4. /\ Owns(f) => Owns(f)'
        /\ Speculative(f) /\ Running(f)' => Running(f)
    BY <1>2 DEF Owns, Speculative, Running
  <1>5. OneFetchPerKey' /\ ClaimsHaveOwners'
    <2>1. \A g \in Fetches : Owns(g) => Owns(g)' /\ Key(g)' = Key(g)
      BY <1>2, <1>3, <1>4
    <2>2. \A g \in Fetches : Speculative(g) /\ Running(g)' => Running(g)
      BY <1>3, <1>4
    <2>3. \A g \in Fetches : Speculative(g) /\ Running(g)' => Key(g) \in claims'
      BY <2>2, ClaimFacts DEF ClaimInv
    <2>4. QED BY <2>1, <2>2, <2>3, ClaimsKept DEF ClaimInv
  <1>6. FutureUnused' /\ OnlyTurnFetchesClaimLate'
    BY <1>1, <1>2, FutureUnusedKept DEF laneVars
  <1>7. QED BY <1>5, <1>6 DEF ClaimInv

LEMMA ReleaseStepClaims ==
    ASSUME ClaimInv, NEW f \in Fetches, OnlyMoves(f, "done"), UNCHANGED laneVars,
           claims' = Released(f), Running(f)
    PROVE  ClaimInv'
  <1>1. CASE IsLive(f)
    BY <1>1, QuietStepClaims DEF Released, Running
  <1>2. CASE ~IsLive(f)
    <2>1. ~Running(f)' /\ claims' = claims \ {Key(f)}
      BY <1>2 DEF OnlyMoves, Running, Released
    <2>2. OneFetchPerKey' /\ ClaimsHaveOwners'
      BY <1>2, <2>1, ClaimReleased DEF OnlyMoves, Speculative, ClaimInv
    <2>3. FutureUnused' /\ OnlyTurnFetchesClaimLate'
      BY FutureUnusedKept DEF OnlyMoves, laneVars, Running
    <2>4. QED BY <2>2, <2>3 DEF ClaimInv
  <1>3. QED BY <1>1, <1>2

LEMMA RunFetchClaims ==
    ASSUME TypeInv, ClaimInv, NEW f \in Fetches, RunFetch(f)
    PROVE  ClaimInv'
  <1>a. fetch \in [Fetches -> FetchRecords] /\ ClaimInv
    BY DEF TypeInv, TypeOK
  <1>1. ASSUME ClaimTurnFetch(f) PROVE ClaimInv'
    <2>1. CASE Key(f) \in claims
      <3>1. OnlyMoves(f, "done") /\ UNCHANGED <<claims, laneVars>>
        BY <1>1, <1>a, <2>1, RunFetchFacts DEF ClaimTurnFetch
      <3>2. QED BY <1>1, <3>1, QuietStepClaims DEF ClaimTurnFetch, Running
    <2>2. CASE Key(f) \notin claims
      <3>1. /\ OnlyMoves(f, "fetching") /\ UNCHANGED laneVars
            /\ claims' = claims \cup {Key(f)} /\ fetch[f].stage = "claiming"
        BY <1>1, <1>a, <2>2, RunFetchFacts DEF ClaimTurnFetch
      <3>2. /\ Speculative(f) /\ ~Owns(f) /\ Running(f)' /\ IsTurn(f)
            /\ \A g \in Fetches \ {f} : fetch'[g] = fetch[g]
        BY <3>1 DEF ClaimInv, OnlyTurnFetchesClaimLate, Speculative, Owns, Running, IsTurn, IsLive,
                    OnlyMoves
      <3>3. Key(f)' = Key(f)
        BY <3>1, SameKey DEF OnlyMoves
      <3>4. OneFetchPerKey' /\ ClaimsHaveOwners'
        BY <2>2, <3>1, <3>2, <3>3, ClaimTaken DEF ClaimInv
      <3>5. FutureUnused' /\ OnlyTurnFetchesClaimLate'
        BY <3>1, <3>2, FutureUnusedKept DEF laneVars
      <3>6. QED BY <3>4, <3>5 DEF ClaimInv
    <2>3. QED BY <2>1, <2>2
  <1>2. ASSUME FetchReturns(f) PROVE ClaimInv'
    <2>1. OnlyMoves(f, "landed") /\ UNCHANGED <<claims, laneVars>>
      BY <1>2, <1>a, RunFetchFacts DEF FetchReturns
    <2>2. QED BY <1>2, <2>1, QuietStepClaims DEF FetchReturns, Running, IsLive
  <1>3. ASSUME ReadStatus(f) PROVE ClaimInv'
    <2>1. OnlyMoves(f, "checked") /\ UNCHANGED <<claims, laneVars>>
      BY <1>3, <1>a, RunFetchFacts DEF ReadStatus
    <2>2. QED BY <1>3, <2>1, QuietStepClaims DEF ReadStatus, Running, IsLive
  <1>4. ASSUME WriteAudit(f) PROVE ClaimInv'
    <2>1. OnlyMoves(f, "recorded") /\ UNCHANGED <<claims, laneVars>>
      BY <1>4, <1>a, RunFetchFacts DEF WriteAudit
    <2>2. QED BY <1>4, <2>1, QuietStepClaims DEF WriteAudit, Running, IsLive
  <1>5. ASSUME AuditFails(f) PROVE ClaimInv'
    <2>1. OnlyMoves(f, "recorded") /\ UNCHANGED <<claims, laneVars>>
      BY <1>5, <1>a, RunFetchFacts DEF AuditFails
    <2>2. QED BY <1>5, <2>1, QuietStepClaims DEF AuditFails, Running, IsLive
  <1>6. ASSUME Insert(f) PROVE ClaimInv'
    <2>1. OnlyMoves(f, IF IsLive(f) THEN "done" ELSE "stored") /\ UNCHANGED <<claims, laneVars>>
      BY <1>6, <1>a, RunFetchFacts DEF Insert
    <2>2. QED BY <1>6, <2>1, QuietStepClaims DEF Insert, Running, IsLive
  <1>7. ASSUME RedisFails(f) PROVE ClaimInv'
    <2>1. OnlyMoves(f, "dead") /\ UNCHANGED <<claims, laneVars>>
      BY <1>7, <1>a, RunFetchFacts DEF RedisFails
    <2>2. QED BY <1>7, <2>1, QuietStepClaims DEF RedisFails, Running, IsLive
  <1>8. ASSUME FinishEmpty(f) PROVE ClaimInv'
    <2>1. OnlyMoves(f, "done") /\ UNCHANGED laneVars /\ claims' = Released(f) /\ Running(f)
      BY <1>8, <1>a, RunFetchFacts DEF FinishEmpty, Running
    <2>2. QED BY <1>a, <2>1, ReleaseStepClaims
  <1>9. ASSUME Release(f) PROVE ClaimInv'
    <2>1. OnlyMoves(f, "done") /\ UNCHANGED laneVars /\ claims' = Released(f) /\ Running(f)
      BY <1>9, <1>a, RunFetchFacts DEF Release, Running
    <2>2. QED BY <1>a, <2>1, ReleaseStepClaims
  <1>10. QED
    BY <1>1, <1>2, <1>3, <1>4, <1>5, <1>6, <1>7, <1>8, <1>9 DEF RunFetch

LEMMA ConsumeClaims ==
    ASSUME TypeInv, ClaimInv, Consume \/ Deadline
    PROVE  ClaimInv'
  <1>1. claims' = claims /\ turn' = turn
    BY DEF Consume, TakeDep, Lookup, Poll, Relook, Mark, MarkFails, LiveDone, LiveDies, EndTurn,
           Deadline, fetchVars
  <1>2. \A g \in Fetches : fetch'[g] = fetch[g] \/ (IsLive(g) /\ g[2] = turn /\ fetch'[g].stage = "fetching")
    <2>1. ASSUME NEW why, FetchLive(why)
          PROVE  \A g \in Fetches : \/ fetch'[g] = fetch[g]
                                    \/ IsLive(g) /\ g[2] = turn /\ fetch'[g].stage = "fetching"
      <3>1. PICK q : fetch' = [fetch EXCEPT ![<<"live", turn, lane.dep>>] =
                                  Launch("fetching", lane.act, q)]
        BY <2>1 DEF FetchLive
      <3>2. Launch("fetching", lane.act, q).stage = "fetching"
        BY DEF Launch, Unused
      <3>3. QED BY <3>1, <3>2 DEF TypeInv, TypeOK, IsLive
    <2>2. \/ fetch' = fetch \/ FetchLive("miss") \/ FetchLive("stale")
      BY DEF Consume, TakeDep, Lookup, Poll, Relook, Mark, MarkFails, LiveDone, LiveDies, EndTurn,
             Deadline, fetchVars, Decide, Serve
    <2>3. QED BY <2>1, <2>2
  <1>3. /\ \A f \in Fetches : Owns(f) => Owns(f)' /\ Key(f)' = Key(f)
        /\ \A f \in Fetches : Speculative(f) /\ Running(f)' => Running(f)
    BY <1>2 DEF Owns, Speculative, Running, Key
  <1>4. \A f \in Fetches : Speculative(f) /\ Running(f)' => Key(f) \in claims'
    BY <1>1, <1>3, ClaimFacts DEF ClaimInv
  <1>5. OneFetchPerKey' /\ ClaimsHaveOwners'
    BY <1>1, <1>3, <1>4, ClaimsKept DEF ClaimInv
  <1>6. FutureUnused' /\ OnlyTurnFetchesClaimLate'
    <2>1. turn \in Nat
      BY DEF TypeInv, TypeOK
    <2>2. QED
      BY <1>1, <1>2, <2>1, FetchParts DEF ClaimInv, FutureUnused, OnlyTurnFetchesClaimLate
  <1>7. QED BY <1>5, <1>6 DEF ClaimInv

LEMMA CrashClaims ==
    ASSUME TypeInv, ClaimInv, WorkerCrash \/ ApiCrash
    PROVE  ClaimInv'
  <1>1. CrashKills /\ claims' = claims /\ turn' = turn
    BY CrashFacts DEF TypeInv
  <1>2. \A f \in Fetches : \/ fetch'[f] = fetch[f]
                           \/ /\ Running(f) \/ fetch[f].stage = "claiming"
                              /\ fetch'[f].stage = "dead"
    BY <1>1 DEF CrashKills
  <1>3. \A f \in Fetches : Key(f)' = Key(f)
    BY <1>1 DEF CrashKills, Key
  <1>4. /\ \A f \in Fetches : Owns(f) => Owns(f)' /\ Key(f)' = Key(f)
        /\ \A f \in Fetches : Speculative(f) /\ Running(f)' => Running(f)
    BY <1>2, <1>3 DEF Owns, Speculative, Running
  <1>5. \A f \in Fetches : Speculative(f) /\ Running(f)' => Key(f) \in claims'
    BY <1>1, <1>4, ClaimFacts DEF ClaimInv
  <1>6. OneFetchPerKey' /\ ClaimsHaveOwners'
    BY <1>1, <1>4, <1>5, ClaimsKept DEF ClaimInv
  <1>7. FutureUnused' /\ OnlyTurnFetchesClaimLate'
    BY <1>1, <1>2, FutureUnusedKept DEF Running
  <1>8. QED BY <1>6, <1>7 DEF ClaimInv

\* A claim whose time is up goes only when its fetch is over.
LEMMA ClaimExpiresClaims ==
    ASSUME SlowFetches = FALSE, ClaimInv, NEW k \in Keys, ClaimExpires(k)
    PROVE  ClaimInv'
  <1>1. /\ UNCHANGED <<fetch, turn>> /\ claims' = claims \ {k}
        /\ \A f \in Fetches : Speculative(f) /\ Running(f) => Key(f) # k
    BY DEF ClaimExpires, laneVars, Speculative
  <1>2. /\ \A f \in Fetches : Owns(f) => Owns(f)' /\ Key(f)' = Key(f)
        /\ \A f \in Fetches : Speculative(f) /\ Running(f)' => Running(f)
    BY <1>1 DEF Owns, Speculative, Running, Key
  <1>3. \A f \in Fetches : Speculative(f) /\ Running(f)' => Key(f) \in claims'
    BY <1>1, <1>2, ClaimFacts DEF ClaimInv
  <1>4. OneFetchPerKey' /\ ClaimsHaveOwners'
    BY <1>1, <1>2, <1>3, ClaimsKept DEF ClaimInv
  <1>5. QED BY <1>1, <1>4, FutureUnusedKept DEF ClaimInv

LEMMA ClaimsUntouched ==
    ASSUME ClaimInv, UNCHANGED <<claims, fetch, turn>>
    PROVE  ClaimInv'
  BY DEF ClaimInv, OneFetchPerKey, ClaimsHaveOwners, FutureUnused, OnlyTurnFetchesClaimLate,
         Running, Key

LEMMA ClaimInit == Init => ClaimInv
  BY DEF Init, ClaimInv, OneFetchPerKey, ClaimsHaveOwners, FutureUnused,
         OnlyTurnFetchesClaimLate, Running, Unused

LEMMA ClaimNext ==
    ASSUME SlowFetches = FALSE
    PROVE  TypeInv /\ ClaimInv /\ [Next]_vars => ClaimInv'
  <1> SUFFICES ASSUME TypeInv, ClaimInv, [Next]_vars PROVE ClaimInv'
    OBVIOUS
  <1>1. CASE \/ UNCHANGED vars
             \/ EndSession \/ Sweep \/ SweepFails \/ ClearPool
             \/ \E f \in Fetches : PoolDrops(f)
    <2>1. UNCHANGED <<claims, fetch, turn>>
      BY <1>1 DEF vars, fetchVars, laneVars, EndSession, Sweep, SweepFails, ClearPool, PoolDrops
    <2>2. QED BY <2>1, ClaimsUntouched
  <1>2. QED
    BY <1>1, BeginTurnClaims, PlanClaims, RunFetchClaims, ConsumeClaims, ClaimExpiresClaims,
       CrashClaims DEF Next

(***************************************************************************)
(* While no claim's TTL runs out under its fetch, two speculative fetches  *)
(* of a key never run at once, and a claim stands for exactly one fetch,   *)
(* under way or dead (pool.py try_claim_fetch and release_fetch).          *)
(***************************************************************************)
THEOREM ClaimsCorrect ==
    ASSUME SlowFetches = FALSE
    PROVE  Spec => [](OneFetchPerKey /\ ClaimsHaveOwners)
  <1>1. TypeInv /\ ClaimInv /\ [Next]_vars => ClaimInv'
    BY ClaimNext
  <1>2. ClaimInv => OneFetchPerKey /\ ClaimsHaveOwners
    BY DEF ClaimInv
  <1>3. QED BY <1>1, <1>2, TypeInit, TypeNext, ClaimInit, PTL DEF Spec

(***************************************************************************)
(* Under the same assumption, every claim in Redis stands for exactly one  *)
(* fetch of its key, one that runs, or one that died with its process or   *)
(* with Redis failing (_run_fetch's finally, the crash of a worker): no    *)
(* claim is left behind by a fetch that ended in order.                    *)
(***************************************************************************)
THEOREM ClaimsStandForFetches ==
    ASSUME SlowFetches = FALSE
    PROVE  Spec => []ClaimsHaveOwners
  <1>1. TypeInv /\ ClaimInv /\ [Next]_vars => ClaimInv'
    BY ClaimNext
  <1>2. ClaimInv => ClaimsHaveOwners
    BY DEF ClaimInv
  <1>3. QED BY <1>1, <1>2, TypeInit, TypeNext, ClaimInit, PTL DEF Spec

-----------------------------------------------------------------------------
(***************************************************************************)
(* The turn.  What is served was near the utterance when it was chosen; it *)
(* stays so because an item in the pool or in the agent's hands is never   *)
(* fetched again, and the live fetch of a dependency is used once a turn.  *)
(***************************************************************************)
Settled(f) == fetch[f].stage \in {"stored", "done", "dead"}

LiveUnderTurn ==
    \A f \in Fetches : IsLive(f) /\ Running(f) => lane.stage = "live" /\ lane.item = f

SpeculationIdempotent ==
    \A f \in Fetches : ~IsLive(f) /\ (Running(f) \/ fetch[f].stage = "claiming")
                          => DepOf(f) \in Idempotent

PooledSettled == \A f \in pool \cup served : Settled(f)

LiveStillUnused ==
    \A f \in Fetches :
        /\ IsLive(f) /\ f[2] = turn
        /\ DepOf(f) \in lane.todo \/ (Searching /\ DepOf(f) = lane.dep)
        => fetch[f].stage = "unused"

LaneCarries ==
    /\ lane.stage = "idle" => served = {} /\ lane.todo = {}
    /\ lane.stage # "idle" => lane.utter \in Queries
    /\ Searching => lane.dep \notin lane.todo
    /\ lane.stage = "live" /\ lane.dep \in Templated => fetch[lane.item].query = lane.utter

TurnInv ==
    /\ FutureUnused /\ OnlyTurnFetchesClaimLate
    /\ LiveUnderTurn /\ SpeculationIdempotent
    /\ PooledSettled /\ LiveStillUnused /\ LaneCarries
    /\ ServedFresh

\* What a step of the task of f may change, seen from the turn.
FetchProgress(f) ==
    /\ fetch' \in [Fetches -> FetchRecords]
    /\ \A g \in Fetches \ {f} : fetch'[g] = fetch[g]
    /\ fetch'[f].act = fetch[f].act /\ fetch'[f].query = fetch[f].query
    /\ Running(f) \/ fetch[f].stage = "claiming"
    /\ fetch'[f].stage \notin {"unused", "claiming"}
    /\ fetch[f].stage = "stored" => fetch'[f].stage \in {"done", "dead"} /\ fetch'[f].emb = fetch[f].emb
    /\ \/ pool' = pool
       \/ pool' = pool \cup {f} /\ fetch[f].stage = "recorded" /\ Settled(f)'
    /\ Untouched

LEMMA RunFetchProgress ==
    ASSUME TypeOK, NEW f \in Fetches, RunFetch(f)
    PROVE  FetchProgress(f)
  <1>a. fetch \in [Fetches -> FetchRecords]
    BY DEF TypeOK
  <1>1. CASE ClaimTurnFetch(f)
    <2>1. OnlyMoves(f, IF Key(f) \in claims THEN "done" ELSE "fetching")
      BY <1>1, <1>a, RunFetchFacts
    <2>2. fetch'[f].emb = fetch[f].emb \/ fetch[f].stage = "recorded"
      BY <1>1, <1>a, RunFetchFacts DEF Keeps, Insert
    <2>3. QED
      BY <1>1, <2>1, <2>2 DEF ClaimTurnFetch, OnlyMoves, FetchProgress, Running, Settled, Untouched
  <1>2. CASE FetchReturns(f)
    <2>1. OnlyMoves(f, "landed")
      BY <1>2, <1>a, RunFetchFacts
    <2>2. fetch'[f].emb = fetch[f].emb \/ fetch[f].stage = "recorded"
      BY <1>2, <1>a, RunFetchFacts DEF Keeps, Insert
    <2>3. QED
      BY <1>2, <2>1, <2>2 DEF FetchReturns, OnlyMoves, FetchProgress, Running, Settled, Untouched
  <1>3. CASE ReadStatus(f)
    <2>1. OnlyMoves(f, "checked")
      BY <1>3, <1>a, RunFetchFacts
    <2>2. fetch'[f].emb = fetch[f].emb \/ fetch[f].stage = "recorded"
      BY <1>3, <1>a, RunFetchFacts DEF Keeps, Insert
    <2>3. QED
      BY <1>3, <2>1, <2>2 DEF ReadStatus, OnlyMoves, FetchProgress, Running, Settled, Untouched
  <1>4. CASE WriteAudit(f)
    <2>1. OnlyMoves(f, "recorded")
      BY <1>4, <1>a, RunFetchFacts
    <2>2. fetch'[f].emb = fetch[f].emb \/ fetch[f].stage = "recorded"
      BY <1>4, <1>a, RunFetchFacts DEF Keeps, Insert
    <2>3. QED
      BY <1>4, <2>1, <2>2 DEF WriteAudit, OnlyMoves, FetchProgress, Running, Settled, Untouched
  <1>5. CASE AuditFails(f)
    <2>1. OnlyMoves(f, "recorded")
      BY <1>5, <1>a, RunFetchFacts
    <2>2. fetch'[f].emb = fetch[f].emb \/ fetch[f].stage = "recorded"
      BY <1>5, <1>a, RunFetchFacts DEF Keeps, Insert
    <2>3. QED
      BY <1>5, <2>1, <2>2 DEF AuditFails, OnlyMoves, FetchProgress, Running, Settled, Untouched
  <1>6. CASE FinishEmpty(f)
    <2>1. OnlyMoves(f, "done")
      BY <1>6, <1>a, RunFetchFacts
    <2>2. fetch'[f].emb = fetch[f].emb \/ fetch[f].stage = "recorded"
      BY <1>6, <1>a, RunFetchFacts DEF Keeps, Insert
    <2>3. QED
      BY <1>6, <2>1, <2>2 DEF FinishEmpty, OnlyMoves, FetchProgress, Running, Settled, Untouched
  <1>7. CASE Insert(f)
    <2>1. OnlyMoves(f, IF IsLive(f) THEN "done" ELSE "stored")
      BY <1>7, <1>a, RunFetchFacts
    <2>2. fetch'[f].emb = fetch[f].emb \/ fetch[f].stage = "recorded"
      BY <1>7, <1>a, RunFetchFacts DEF Keeps, Insert
    <2>3. QED
      BY <1>7, <2>1, <2>2 DEF Insert, OnlyMoves, FetchProgress, Running, Settled, Untouched
  <1>8. CASE Release(f)
    <2>1. OnlyMoves(f, "done")
      BY <1>8, <1>a, RunFetchFacts
    <2>2. fetch'[f].emb = fetch[f].emb \/ fetch[f].stage = "recorded"
      BY <1>8, <1>a, RunFetchFacts DEF Keeps, Insert
    <2>3. QED
      BY <1>8, <2>1, <2>2 DEF Release, OnlyMoves, FetchProgress, Running, Settled, Untouched
  <1>9. CASE RedisFails(f)
    <2>1. OnlyMoves(f, "dead")
      BY <1>9, <1>a, RunFetchFacts
    <2>2. fetch'[f].emb = fetch[f].emb \/ fetch[f].stage = "recorded"
      BY <1>9, <1>a, RunFetchFacts DEF Keeps, Insert
    <2>3. QED
      BY <1>9, <2>1, <2>2 DEF RedisFails, OnlyMoves, FetchProgress, Running, Settled, Untouched
  <1>10. QED
    BY <1>1, <1>2, <1>3, <1>4, <1>5, <1>6, <1>7, <1>8, <1>9 DEF RunFetch

LEMMA RunFetchTurn ==
    ASSUME TypeInv, TurnInv, NEW f \in Fetches, RunFetch(f)
    PROVE  TurnInv'
  <1>1. FetchProgress(f) /\ lane' = lane /\ turn' = turn /\ served' = served
    BY RunFetchProgress DEF TypeInv, FetchProgress, Untouched, laneVars
  <1>2. FutureUnused' /\ OnlyTurnFetchesClaimLate'
    BY <1>1 DEF FetchProgress, TurnInv, FutureUnused, OnlyTurnFetchesClaimLate, Running
  <1>3. \A g \in Fetches : Running(g)' \/ fetch'[g].stage = "claiming"
                              => Running(g) \/ fetch[g].stage = "claiming"
    BY <1>1 DEF FetchProgress, Running
  <1>4. \A g \in Fetches : IsLive(g) => fetch[g].stage # "claiming"
    BY DEF TurnInv, OnlyTurnFetchesClaimLate, IsLive, IsTurn
  <1>5. LiveUnderTurn'
    <2>1. \A g \in Fetches : IsLive(g) /\ Running(g)' => Running(g)
      BY <1>3, <1>4
    <2>2. QED BY <1>1, <2>1 DEF TurnInv, LiveUnderTurn, IsLive
  <1>6. SpeculationIdempotent'
    BY <1>3 DEF TurnInv, SpeculationIdempotent, IsLive, DepOf
  <1>7. PooledSettled'
    <2>1. \A g \in pool \cup served : g \in Fetches /\ Settled(g)'
      BY <1>1 DEF FetchProgress, TypeInv, TypeOK, TurnInv, PooledSettled, Settled, Running
    <2>2. QED BY <1>1, <2>1 DEF FetchProgress, PooledSettled
  <1>8. LiveStillUnused'
    <2>1. \A g \in Fetches : fetch[g].stage = "unused" => fetch'[g] = fetch[g]
      BY <1>1 DEF FetchProgress, Running
    <2>2. QED BY <1>1, <2>1 DEF TurnInv, LiveStillUnused, Searching, IsLive, DepOf
  <1>9. LaneCarries'
    <2>1. \A g \in Fetches : fetch'[g].query = fetch[g].query
      BY <1>1 DEF FetchProgress
    <2>2. lane.stage = "live" => lane.item \in Fetches
      BY DEF TypeInv, TypeOK, LaneMatchesStage, Fetches
    <2>3. QED BY <1>1, <2>1, <2>2 DEF TurnInv, LaneCarries, Searching
  <1>10. ServedFresh'
    <2>1. \A g \in served : /\ g \in Fetches
                            /\ fetch'[g].emb = fetch[g].emb /\ fetch'[g].query = fetch[g].query
      BY <1>1 DEF FetchProgress, TypeInv, TypeOK, TurnInv, PooledSettled, Settled, Running
    <2>2. QED BY <1>1, <2>1 DEF TurnInv, ServedFresh
  <1>11. QED BY <1>2, <1>5, <1>6, <1>7, <1>8, <1>9, <1>10 DEF TurnInv

LEMMA BeginTurnTurn ==
    ASSUME TypeInv, TurnInv, NEW channel \in Channels, NEW u \in Queries,
           NEW a \in Actions \cup {Advisory}, NEW todo \in SUBSET Deps,
           BeginTurn(channel, u, a, todo)
    PROVE  TurnInv'
  <1>1. /\ turn' = turn + 1 /\ turn \in Nat /\ lane.stage = "idle"
        /\ pool' = pool /\ served' = served
        /\ fetch' = [f \in Fetches |->
                   IF /\ channel = "converse"
                      /\ IsTurn(f) /\ f[2] = turn + 1 /\ DepOf(f) \in TurnDeps
                   THEN Launch("claiming", Advisory, u) ELSE fetch[f]]
    BY DEF BeginTurn, TypeInv, TypeOK
  <1>2. Launch("claiming", Advisory, u).stage = "claiming"
    BY DEF Launch, Unused
  <1>3. \A f \in Fetches : \/ fetch'[f] = fetch[f]
                           \/ /\ fetch[f].stage = "unused" /\ fetch'[f].stage = "claiming"
                              /\ IsTurn(f) /\ f[2] = turn + 1 /\ DepOf(f) \in TurnDeps
    BY <1>1, <1>2 DEF TurnInv, FutureUnused, IsTurn, IsPlan
  <1>4. /\ lane'.stage = "next" /\ lane'.utter = u
    BY DEF BeginTurn, Idle
  <1>5. FutureUnused' /\ OnlyTurnFetchesClaimLate'
    BY <1>1, <1>3, FetchParts DEF TurnInv, FutureUnused, OnlyTurnFetchesClaimLate, IsPlan, IsTurn
  <1>6. LiveUnderTurn'
    BY <1>1, <1>3 DEF TurnInv, LiveUnderTurn, IsLive, Running
  <1>7. SpeculationIdempotent'
    BY <1>3 DEF TurnInv, SpeculationIdempotent, Running, TurnDeps
  <1>8. PooledSettled' /\ served' = {}
    BY <1>1, <1>3 DEF TurnInv, PooledSettled, Settled, LaneCarries, TypeInv, TypeOK
  <1>9. LiveStillUnused'
    <2>1. \A f \in Fetches : IsLive(f) /\ f[2] = turn' => fetch'[f].stage = "unused"
      BY <1>1, <1>3 DEF TurnInv, FutureUnused, IsLive, IsPlan, IsTurn
    <2>2. QED BY <2>1 DEF LiveStillUnused, IsLive
  <1>10. LaneCarries'
    BY <1>4 DEF LaneCarries, Searching
  <1>11. ServedFresh'
    BY <1>8 DEF ServedFresh
  <1>12. QED BY <1>5, <1>6, <1>7, <1>8, <1>9, <1>10, <1>11 DEF TurnInv

LEMMA PlanTurn ==
    ASSUME TypeInv, TurnInv, NEW f \in Fetches, NEW a \in Actions, NEW q \in Queries \cup {None},
           Plan(f, a, q)
    PROVE  TurnInv'
  <1>1. /\ IsPlan(f) /\ fetch[f].stage = "unused" /\ DepOf(f) \in Idempotent
        /\ UNCHANGED <<lane, turn, served, pool>>
        /\ fetch' = [fetch EXCEPT ![f] = Launch("fetching", a, q)]
        /\ fetch \in [Fetches -> FetchRecords]
    BY DEF Plan, laneVars, TypeInv, TypeOK
  <1>2. fetch'[f] = Launch("fetching", a, q) /\ \A g \in Fetches \ {f} : fetch'[g] = fetch[g]
    BY <1>1
  <1>3. fetch'[f].stage = "fetching" /\ ~IsLive(f) /\ ~IsTurn(f)
    BY <1>1, <1>2 DEF Launch, Unused, IsPlan, IsLive, IsTurn
  <1>4. FutureUnused' /\ OnlyTurnFetchesClaimLate'
    BY <1>1, <1>2, <1>3 DEF TurnInv, FutureUnused, OnlyTurnFetchesClaimLate, IsPlan, IsTurn
  <1>5. LiveUnderTurn' /\ SpeculationIdempotent'
    BY <1>1, <1>2, <1>3 DEF TurnInv, LiveUnderTurn, SpeculationIdempotent, IsLive, Running, DepOf
  <1>6. f \notin pool \cup served
    BY <1>1 DEF TurnInv, PooledSettled, Settled
  <1>7. PooledSettled' /\ ServedFresh'
    BY <1>1, <1>2, <1>6 DEF TurnInv, PooledSettled, Settled, ServedFresh, TypeInv, TypeOK
  <1>8. LiveStillUnused'
    BY <1>1, <1>2, <1>3 DEF TurnInv, LiveStillUnused, IsLive, DepOf, Searching
  <1>9. LaneCarries'
    <2>1. lane.stage = "live" => lane.item \in Fetches /\ lane.item # f
      BY <1>3 DEF TypeInv, TypeOK, LaneMatchesStage, Fetches, IsLive
    <2>2. QED BY <1>1, <1>2, <2>1 DEF TurnInv, LaneCarries, Searching
  <1>10. QED BY <1>4, <1>5, <1>7, <1>8, <1>9 DEF TurnInv

\* What the agent is given is in the pool, and the gate let it through.
LEMMA ServeTurn ==
    ASSUME TypeInv, TurnInv, Searching, NEW f \in pool, Serve(f), ~Stale(f), UNCHANGED <<pool, turn>>
    PROVE  TurnInv'
  <1>1. /\ served' = served \cup {f} /\ fetch' = fetch /\ f \in Fetches /\ lane.stage # "live"
        /\ lane \in LaneRecords
    BY DEF Serve, TypeInv, TypeOK, Searching, LaneRecords
  <1>2. /\ lane'.stage = "mark" /\ lane'.utter = lane.utter /\ lane'.emb = lane.emb
        /\ lane'.todo = lane.todo
    BY <1>1 DEF Serve, LaneRecords
  <1>3. FutureUnused' /\ OnlyTurnFetchesClaimLate'
    BY <1>1 DEF TurnInv, FutureUnused, OnlyTurnFetchesClaimLate
  <1>4. LiveUnderTurn' /\ SpeculationIdempotent'
    BY <1>1 DEF TurnInv, LiveUnderTurn, SpeculationIdempotent, Running
  <1>5. PooledSettled'
    BY <1>1 DEF TurnInv, PooledSettled, Settled
  <1>6. LiveStillUnused'
    BY <1>1, <1>2 DEF TurnInv, LiveStillUnused, Searching
  <1>7. LaneCarries'
    BY <1>1, <1>2 DEF TurnInv, LaneCarries, Searching
  <1>8. ServedFresh'
    BY <1>1, <1>2 DEF TurnInv, ServedFresh, Stale
  <1>9. QED BY <1>3, <1>4, <1>5, <1>6, <1>7, <1>8 DEF TurnInv

LEMMA FetchLiveTurn ==
    ASSUME TypeInv, TurnInv, Searching, NEW why, FetchLive(why), UNCHANGED <<pool, turn>>
    PROVE  TurnInv'
  <1> DEFINE q == IF lane.dep \in Templated THEN lane.utter ELSE None
             f == <<"live", turn, lane.dep>>
  <1>1. /\ fetch \in [Fetches -> FetchRecords] /\ lane \in LaneRecords
        /\ turn \in 1 .. MaxTurns /\ lane.dep \in Deps /\ lane.stage \notin {"idle", "live"}
    BY DEF TypeInv, TypeOK, LaneRecords, LaneMatchesStage, Searching
  <1>2. f \in Fetches /\ IsLive(f) /\ DepOf(f) = lane.dep /\ f[2] = turn
    BY <1>1 DEF Fetches, IsLive, DepOf
  <1>3. /\ fetch' = [fetch EXCEPT ![f] = Launch("fetching", lane.act, q)]
        /\ lane' = [lane EXCEPT !.stage = "live", !.item = f, !.why = why]
        /\ served' = served
    BY DEF FetchLive
  <1>4. fetch[f].stage = "unused"
    BY <1>2 DEF TurnInv, LiveStillUnused
  <1> HIDE DEF f
  <1>5. /\ fetch'[f].stage = "fetching" /\ fetch'[f].query = q
        /\ \A g \in Fetches \ {f} : fetch'[g] = fetch[g]
    BY <1>1, <1>2, <1>3 DEF Launch, Unused
  <1>6. /\ lane'.stage = "live" /\ lane'.utter = lane.utter /\ lane'.emb = lane.emb
        /\ lane'.todo = lane.todo /\ lane'.item = f /\ lane'.dep = lane.dep
    BY <1>1, <1>3 DEF LaneRecords
  <1>7. FutureUnused' /\ OnlyTurnFetchesClaimLate'
    BY <1>1, <1>2, <1>5 DEF TurnInv, FutureUnused, OnlyTurnFetchesClaimLate
  <1>8. LiveUnderTurn' /\ SpeculationIdempotent'
    BY <1>1, <1>2, <1>5, <1>6 DEF TurnInv, LiveUnderTurn, SpeculationIdempotent, Running
  <1>9. f \notin pool \cup served
    BY <1>4 DEF TurnInv, PooledSettled, Settled
  <1>10. PooledSettled' /\ ServedFresh'
    BY <1>3, <1>5, <1>6, <1>9 DEF TurnInv, PooledSettled, Settled, ServedFresh, TypeInv, TypeOK
  <1>11. LiveStillUnused'
    BY <1>1, <1>2, <1>5, <1>6 DEF TurnInv, LiveStillUnused, LaneCarries, Searching
  <1>12. LaneCarries'
    BY <1>1, <1>5, <1>6 DEF TurnInv, LaneCarries, Searching
  <1>13. QED BY <1>7, <1>8, <1>10, <1>11, <1>12 DEF TurnInv

LEMMA DecideTurn ==
    ASSUME TypeInv, TurnInv, Searching, Decide, UNCHANGED <<pool, turn>>
    PROVE  TurnInv'
  <1>1. ItemsFor(lane.dep) # {} => Freshest(lane.dep) \in pool
    BY FreshestExists DEF TypeInv, ItemsFor
  <1>2. \/ FetchLive("miss") \/ FetchLive("stale")
        \/ /\ ItemsFor(lane.dep) # {} /\ ~Stale(Freshest(lane.dep))
           /\ Serve(Freshest(lane.dep))
    BY DEF Decide
  <1>3. QED BY <1>1, <1>2, FetchLiveTurn, ServeTurn

\* The steps of the turn that neither serve from the pool nor fetch.
LaneMoves ==
    /\ UNCHANGED <<fetch, pool, turn>>
    /\ lane'.stage # "live"
    /\ lane.stage = "live" => ~Running(lane.item)
    /\ lane'.stage # "idle" =>
          lane.stage # "idle" /\ lane'.utter = lane.utter /\ lane'.emb = lane.emb
    /\ lane'.stage \in {"lookup", "pollPlan", "pollTurn", "relook"} =>
          /\ lane'.dep \notin lane'.todo
          /\ lane'.dep \in lane.todo \/ (Searching /\ lane'.dep = lane.dep)
    /\ lane'.todo \subseteq lane.todo
    /\ lane'.stage = "idle" => served' = {} /\ lane'.todo = {}

ServedStays ==
    \/ served' \subseteq served
    \/ ServedFresh' /\ PooledSettled'

LEMMA LaneMovesTurn ==
    ASSUME TypeInv, TurnInv, LaneMoves, ServedStays
    PROVE  TurnInv'
  <1>1. FutureUnused' /\ OnlyTurnFetchesClaimLate' /\ SpeculationIdempotent'
    BY DEF LaneMoves, TurnInv, FutureUnused, OnlyTurnFetchesClaimLate, SpeculationIdempotent, Running
  <1>2. LiveUnderTurn'
    BY DEF LaneMoves, TurnInv, LiveUnderTurn, Running
  <1>3. LiveStillUnused'
    BY DEF LaneMoves, TurnInv, LiveStillUnused, Searching
  <1>4. LaneCarries'
    BY DEF LaneMoves, TurnInv, LaneCarries, Searching
  <1>5. PooledSettled' /\ ServedFresh'
    <2>1. CASE served' = {}
      BY <2>1 DEF LaneMoves, ServedStays, TurnInv, PooledSettled, Settled, ServedFresh
    <2>2. CASE lane'.stage # "idle"
      BY <2>2 DEF LaneMoves, ServedStays, TurnInv, PooledSettled, Settled, ServedFresh
    <2>3. QED BY <2>1, <2>2 DEF LaneMoves
  <1>6. QED BY <1>1, <1>2, <1>3, <1>4, <1>5 DEF TurnInv

LEMMA ConsumeTurn ==
    ASSUME TypeInv, TurnInv, Consume \/ Deadline
    PROVE  TurnInv'
  <1>a. lane \in LaneRecords /\ lane' \in LaneRecords
    BY ConsumeType DEF TypeInv, TypeOK, LaneRecords
  <1>b. LaneCarries /\ LaneMatchesStage
    BY DEF TurnInv, TypeInv
  <1>1. ASSUME NEW d \in Deps, TakeDep(d) PROVE TurnInv'
    <2>1. /\ UNCHANGED <<fetch, pool, turn, served>> /\ lane.stage = "next" /\ d \in lane.todo
          /\ lane' = [lane EXCEPT !.stage = "lookup", !.dep = d, !.todo = @ \ {d}]
      BY <1>1 DEF TakeDep, fetchVars
    <2>2. /\ lane'.stage = "lookup" /\ lane'.dep = d /\ lane'.todo = lane.todo \ {d}
          /\ lane'.utter = lane.utter /\ lane'.emb = lane.emb
      BY <1>a, <2>1 DEF LaneRecords
    <2>3. LaneMoves
      BY <2>1, <2>2 DEF LaneMoves
    <2>4. ServedStays
      BY <2>1 DEF ServedStays
    <2>5. QED BY <2>3, <2>4, LaneMovesTurn
  <1>2. ASSUME Lookup PROVE TurnInv'
    <2>1. Searching /\ UNCHANGED <<pool, turn>> /\ lane.stage = "lookup"
      BY <1>2 DEF Lookup, Searching
    <2>2. CASE Decide
      BY <2>1, <2>2, DecideTurn
    <2>3. CASE /\ lane' = [lane EXCEPT !.stage = "pollPlan", !.pending = InFlight]
               /\ UNCHANGED <<fetch, served>>
      <3>1. /\ lane'.stage = "pollPlan" /\ lane'.dep = lane.dep /\ lane'.todo = lane.todo
            /\ lane'.utter = lane.utter /\ lane'.emb = lane.emb
        BY <1>a, <2>3 DEF LaneRecords
      <3>2. LaneMoves
        BY <1>b, <2>1, <2>3, <3>1 DEF LaneMoves, Searching, LaneCarries
      <3>3. ServedStays
        BY <2>3 DEF ServedStays
      <3>4. QED BY <3>2, <3>3, LaneMovesTurn
    <2>4. QED BY <1>2, <2>2, <2>3 DEF Lookup
  <1>3. ASSUME Poll \/ Deadline PROVE TurnInv'
    <2>1. /\ lane.stage \in {"pollPlan", "pollTurn"}
          /\ lane'.stage \in {"pollPlan", "pollTurn", "relook"}
          /\ lane'.dep = lane.dep /\ lane'.todo = lane.todo
          /\ lane'.utter = lane.utter /\ lane'.emb = lane.emb
      BY <1>3, <1>a DEF Poll, Deadline, LaneRecords
    <2>2. UNCHANGED <<fetch, pool, turn, served>>
      BY <1>3 DEF Poll, Deadline, fetchVars
    <2>3. LaneMoves
      BY <1>b, <2>1, <2>2 DEF LaneMoves, Searching, LaneCarries
    <2>4. ServedStays
      BY <2>2 DEF ServedStays
    <2>5. QED BY <2>3, <2>4, LaneMovesTurn
  <1>4. ASSUME Relook PROVE TurnInv'
    <2>1. Searching /\ UNCHANGED <<pool, turn>> /\ Decide
      BY <1>4 DEF Relook, Searching
    <2>2. QED BY <2>1, DecideTurn
  <1>5. ASSUME Mark \/ MarkFails PROVE TurnInv'
    <2>1. /\ lane.stage = "mark" /\ lane' = NextDep
          /\ UNCHANGED <<fetch, pool, turn, served>>
      BY <1>5 DEF Mark, MarkFails, fetchVars
    <2>2. /\ lane'.stage = "next" /\ lane'.todo = lane.todo
          /\ lane'.utter = lane.utter /\ lane'.emb = lane.emb
      BY <1>a, <2>1 DEF NextDep, LaneRecords
    <2>3. LaneMoves
      BY <2>1, <2>2 DEF LaneMoves
    <2>4. ServedStays
      BY <2>1 DEF ServedStays
    <2>5. QED BY <2>3, <2>4, LaneMovesTurn
  <1>6. ASSUME LiveDone PROVE TurnInv'
    <2>1. /\ lane.stage = "live" /\ fetch[lane.item].stage = "done" /\ lane' = NextDep
          /\ served' \in {served, served \cup {lane.item}}
          /\ UNCHANGED <<fetch, pool, turn>>
      BY <1>6 DEF LiveDone, fetchVars
    <2>2. /\ lane'.stage = "next" /\ lane'.todo = lane.todo
          /\ lane'.utter = lane.utter /\ lane'.emb = lane.emb
      BY <1>a, <2>1 DEF NextDep, LaneRecords
    <2>3. DepOf(lane.item) = lane.dep /\ lane.utter \in Queries
      BY <1>b, <2>1 DEF LaneMatchesStage, LaneCarries, DepOf
    <2>4. ServedFresh'
      <3>1. lane.dep \in Templated => <<fetch[lane.item].query, lane.utter>> \in Near
        BY <1>b, <2>1, <2>3, QueryAssumption DEF LaneCarries
      <3>2. QED BY <2>1, <2>2, <2>3, <3>1 DEF TurnInv, ServedFresh
    <2>5. PooledSettled'
      BY <2>1 DEF TurnInv, PooledSettled, Settled
    <2>6. ~Running(lane.item)
      BY <2>1 DEF Running
    <2>7. LaneMoves
      BY <2>1, <2>2, <2>6 DEF LaneMoves
    <2>8. ServedStays
      BY <2>4, <2>5 DEF ServedStays
    <2>9. QED BY <2>7, <2>8, LaneMovesTurn
  <1>7. ASSUME LiveDies \/ EndTurn PROVE TurnInv'
    <2>1. /\ lane' = Idle /\ served' = {} /\ UNCHANGED <<fetch, pool, turn>>
          /\ lane.stage = "live" => fetch[lane.item].stage = "dead"
      BY <1>7 DEF LiveDies, EndTurn, fetchVars
    <2>2. lane'.stage = "idle" /\ lane'.todo = {}
      BY <2>1 DEF Idle
    <2>3. lane.stage = "live" => ~Running(lane.item)
      BY <2>1 DEF Running
    <2>4. LaneMoves
      BY <2>1, <2>2, <2>3 DEF LaneMoves
    <2>5. ServedStays
      BY <2>1 DEF ServedStays
    <2>6. QED BY <2>4, <2>5, LaneMovesTurn
  <1>8. QED
    BY <1>1, <1>2, <1>3, <1>4, <1>5, <1>6, <1>7 DEF Consume

LEMMA PoolShrinksTurn ==
    ASSUME TurnInv, UNCHANGED <<fetch, lane, served, turn>>, pool' \subseteq pool
    PROVE  TurnInv'
  BY DEF TurnInv, FutureUnused, OnlyTurnFetchesClaimLate, LiveUnderTurn, SpeculationIdempotent,
         PooledSettled, Settled, LiveStillUnused, LaneCarries, ServedFresh, Running, Searching

LEMMA CrashTurn ==
    ASSUME TypeInv, TurnInv, WorkerCrash \/ ApiCrash
    PROVE  TurnInv'
  <1>1. CrashKills /\ pool' = pool /\ turn' = turn
    BY CrashFacts DEF TypeInv
  <1>2. \A f \in Fetches : \/ fetch'[f] = fetch[f]
                           \/ /\ Running(f) \/ fetch[f].stage = "claiming"
                              /\ fetch'[f].stage = "dead"
    BY <1>1 DEF CrashKills
  <1>3. FutureUnused' /\ OnlyTurnFetchesClaimLate' /\ SpeculationIdempotent'
    BY <1>1, <1>2 DEF TurnInv, FutureUnused, OnlyTurnFetchesClaimLate, SpeculationIdempotent, Running
  <1>4. \A f \in Fetches : Running(f)' => Running(f)
    BY <1>2 DEF Running
  <1>5. \A f \in pool \cup served : f \in Fetches /\ Settled(f)'
                                    /\ fetch'[f].emb = fetch[f].emb /\ fetch'[f].query = fetch[f].query
    BY <1>1, <1>2 DEF TurnInv, PooledSettled, Settled, TypeInv, TypeOK, CrashKills
  <1>6. \A f \in Fetches : fetch[f].stage = "unused" => fetch'[f].stage = "unused"
    BY <1>2 DEF Running
  <1>7. CASE WorkerCrash
    <2>1. lane' = lane /\ served' = served
      BY <1>7 DEF WorkerCrash, laneVars
    <2>2. LiveUnderTurn' /\ PooledSettled' /\ LiveStillUnused' /\ ServedFresh'
      BY <1>1, <1>4, <1>5, <1>6, <2>1
         DEF TurnInv, LiveUnderTurn, PooledSettled, LiveStillUnused, ServedFresh, Searching
    <2>3. LaneCarries'
      <3>1. lane.stage = "live" => lane.item \in Fetches
        <4>1. lane.stage # "idle" => turn \in 1 .. MaxTurns
          BY DEF TypeInv, TypeOK, LaneMatchesStage
        <4>2. QED BY <4>1 DEF TypeInv, LaneMatchesStage, Fetches
      <3>2. QED BY <1>1, <2>1, <3>1 DEF TurnInv, LaneCarries, CrashKills, Searching
    <2>4. QED BY <1>3, <2>2, <2>3 DEF TurnInv
  <1>8. CASE ApiCrash
    <2>1. lane' = Idle /\ served' = {}
      BY <1>8 DEF ApiCrash
    <2>2. lane'.stage = "idle" /\ lane'.todo = {}
      BY <2>1 DEF Idle
    <2>3. LiveUnderTurn'
      <3>1. fetch' = [f \in Fetches |->
                IF ~IsPlan(f) /\ (Running(f) \/ fetch[f].stage = "claiming")
                THEN [fetch[f] EXCEPT !.stage = "dead"] ELSE fetch[f]]
        BY <1>8 DEF ApiCrash, Killed
      <3>2. \A f \in Fetches : IsLive(f) => ~Running(f)'
        <4>1. TAKE f \in Fetches
        <4>2. CASE IsLive(f) /\ Running(f)
          <5>1. fetch'[f] = [fetch[f] EXCEPT !.stage = "dead"] /\ fetch[f] \in FetchRecords
            BY <3>1, <4>1, <4>2 DEF IsLive, IsPlan, TypeInv, TypeOK
          <5>2. fetch'[f].stage = "dead"
            BY <5>1 DEF FetchRecords
          <5>3. QED BY <5>2 DEF Running
        <4>3. QED BY <1>4, <4>1, <4>2
      <3>3. QED BY <3>2 DEF LiveUnderTurn, IsLive
    <2>4. PooledSettled'
      BY <1>1, <1>5, <2>1 DEF PooledSettled
    <2>5. LiveStillUnused' /\ LaneCarries' /\ ServedFresh'
      BY <2>1, <2>2 DEF LiveStillUnused, LaneCarries, ServedFresh, Searching
    <2>6. QED BY <1>3, <2>3, <2>4, <2>5 DEF TurnInv
  <1>9. QED BY <1>7, <1>8

LEMMA TurnInit == Init => TurnInv
  <1> SUFFICES ASSUME Init PROVE TurnInv
    OBVIOUS
  <1>1. \A f \in Fetches : fetch[f].stage = "unused"
    BY DEF Init, Unused
  <1>2. lane.stage = "idle" /\ lane.todo = {} /\ served = {} /\ pool = {}
    BY DEF Init, Idle
  <1>3. QED
    BY <1>1, <1>2 DEF TurnInv, FutureUnused, OnlyTurnFetchesClaimLate, LiveUnderTurn,
       SpeculationIdempotent, PooledSettled, LiveStillUnused, LaneCarries, ServedFresh, Running,
       Searching

LEMMA TurnNext == TypeInv /\ TurnInv /\ [Next]_vars => TurnInv'
  <1> SUFFICES ASSUME TypeInv, TurnInv, [Next]_vars PROVE TurnInv'
    OBVIOUS
  <1>1. CASE \/ UNCHANGED vars
             \/ EndSession \/ Sweep \/ SweepFails \/ ClearPool
             \/ \E k \in Keys : ClaimExpires(k)
             \/ \E f \in Fetches : PoolDrops(f)
    <2>1. UNCHANGED <<fetch, lane, served, turn>> /\ pool' \subseteq pool
      BY <1>1 DEF vars, fetchVars, laneVars, EndSession, Sweep, SweepFails, ClearPool, PoolDrops,
                  ClaimExpires
    <2>2. QED BY <2>1, PoolShrinksTurn
  <1>2. QED
    BY <1>1, BeginTurnTurn, PlanTurn, RunFetchTurn, ConsumeTurn, CrashTurn DEF Next

(***************************************************************************)
(* D-12, for every run: a templated item is given to the agent only if it  *)
(* was fetched for a query near the utterance (prefetch.py consume), when  *)
(* both have an embedding.                                                 *)
(***************************************************************************)
THEOREM FreshnessGate == Spec => []ServedFresh
  <1>1. TurnInv => ServedFresh
    BY DEF TurnInv
  <1>2. QED BY <1>1, TypeInit, TypeNext, TurnInit, TurnNext, PTL DEF Spec

(***************************************************************************)
(* A dependency that is not idempotent is fetched only by the turn that    *)
(* waits for it (prefetch.py schedule, fetch_turn_deps and consume).       *)
(***************************************************************************)
THEOREM NeverSpeculated == Spec => []NonIdempotentUnderTurn
  <1>1. TurnInv => NonIdempotentUnderTurn
    BY DEF TurnInv, LiveUnderTurn, SpeculationIdempotent, NonIdempotentUnderTurn
  <1>2. QED BY <1>1, TypeInit, TypeNext, TurnInit, TurnNext, PTL DEF Spec

-----------------------------------------------------------------------------
(***************************************************************************)
(* The audit rows.  After the end, a task between reading the status and   *)
(* writing its row has either seen the end, and will write its row wasted, *)
(* or was caught by the end in that place.                                 *)
(***************************************************************************)
EndedWhenSwept == (ender # "idle" \/ swept) => status = "ended"

CaughtOrWarned ==
    status = "ended" =>
        \A f \in Fetches : fetch[f].stage = "checked" /\ ~fetch[f].sawEnded => f \in caught

RowInv == EndedWhenSwept /\ CaughtOrWarned /\ OnlyCaughtRowsStayOpen

\* Steps that write no row and read no status keep the three.
LEMMA RowsKept ==
    ASSUME RowInv, UNCHANGED <<status, swept, caught, row>>, ender' \in {ender, "idle", "clearing"},
           ender' # "idle" => ender # "idle",
           \A f \in Fetches : fetch'[f].stage = "checked" => fetch'[f] = fetch[f]
    PROVE  RowInv'
  BY DEF RowInv, EndedWhenSwept, CaughtOrWarned, OnlyCaughtRowsStayOpen

LEMMA RunFetchRows ==
    ASSUME TypeInv, RowInv, NEW f \in Fetches, RunFetch(f)
    PROVE  RowInv'
  <1>a. fetch \in [Fetches -> FetchRecords] /\ row \in [Fetches -> SUBSET {"written", "consumed", "wasted"}]
    BY DEF TypeInv, TypeOK
  <1>1. UNCHANGED <<status, ender, swept, caught>> /\ fetch' \in [Fetches -> FetchRecords]
        /\ \A g \in Fetches \ {f} : fetch'[g] = fetch[g]
    BY RunFetchProgress DEF TypeInv, FetchProgress, Untouched, endVars
  <1>2. CASE ReadStatus(f)
    <2>1. fetch'[f].sawEnded = (status = "ended") /\ row' = row
      BY <1>2, <1>a, RunFetchFacts DEF ReadStatus
    <2>2. QED BY <1>1, <2>1 DEF RowInv, EndedWhenSwept, CaughtOrWarned, OnlyCaughtRowsStayOpen
  <1>3. CASE WriteAudit(f)
    <2>1. /\ fetch[f].stage = "checked" /\ fetch'[f].stage = "recorded"
          /\ row'[f] = {"written"} \cup IF fetch[f].sawEnded /\ ~IsLive(f) THEN {"wasted"} ELSE {}
          /\ \A g \in Fetches \ {f} : row'[g] = row[g]
      BY <1>3, <1>a, RunFetchFacts DEF WriteAudit, OnlyMoves
    <2>2. swept /\ row'[f] = {"written"} => f \in caught \/ IsLive(f)
      BY <2>1 DEF RowInv, EndedWhenSwept, CaughtOrWarned
    <2>3. QED
      BY <1>1, <2>1, <2>2 DEF RowInv, EndedWhenSwept, CaughtOrWarned, OnlyCaughtRowsStayOpen
  <1>4. CASE ~ReadStatus(f) /\ ~WriteAudit(f)
    <2>1. row' = row
      BY <1>4 DEF RunFetch, ClaimTurnFetch, FetchReturns, AuditFails, FinishEmpty, Insert, Release,
                  RedisFails
    <2>2. fetch'[f].stage # "checked"
      <3>1. ASSUME NEW stage, OnlyMoves(f, stage), stage # "checked" PROVE fetch'[f].stage # "checked"
        BY <3>1 DEF OnlyMoves
      <3>2. QED BY <1>4, <1>a, <3>1, RunFetchFacts DEF RunFetch
    <2>3. QED BY <1>1, <2>1, <2>2, RowsKept
  <1>5. QED BY <1>2, <1>3, <1>4

LEMMA ConsumeRows ==
    ASSUME TypeInv, RowInv, Consume \/ Deadline
    PROVE  RowInv'
  <1>1. UNCHANGED <<status, ender, swept, caught>>
    BY DEF Consume, TakeDep, Lookup, Poll, Relook, Mark, MarkFails, LiveDone, LiveDies, EndTurn,
           Deadline, endVars
  <1>2. \A f \in Fetches : fetch'[f].stage = "checked" => fetch'[f] = fetch[f]
    <2>1. ASSUME NEW why, FetchLive(why)
          PROVE  \A g \in Fetches : fetch'[g] = fetch[g] \/ fetch'[g].stage = "fetching"
      <3>1. PICK q : fetch' = [fetch EXCEPT ![<<"live", turn, lane.dep>>] =
                                  Launch("fetching", lane.act, q)]
        BY <2>1 DEF FetchLive
      <3>2. Launch("fetching", lane.act, q).stage = "fetching"
        BY DEF Launch, Unused
      <3>3. QED BY <3>1, <3>2 DEF TypeInv, TypeOK
    <2>2. \/ fetch' = fetch \/ FetchLive("miss") \/ FetchLive("stale")
      BY DEF Consume, TakeDep, Lookup, Poll, Relook, Mark, MarkFails, LiveDone, LiveDies, EndTurn,
             Deadline, fetchVars, Decide, Serve
    <2>3. QED BY <2>1, <2>2
  <1>3. CASE Mark /\ row[lane.item] # {}
    <2>1. /\ row' = [row EXCEPT ![lane.item] = @ \cup {"consumed"}]
          /\ row \in [Fetches -> SUBSET {"written", "consumed", "wasted"}]
      BY <1>3 DEF Mark, TypeInv, TypeOK
    <2>2. \A f \in Fetches : row'[f] = {"written"} => row[f] = {"written"}
      BY <2>1
    <2>3. QED BY <1>1, <1>2, <2>2 DEF RowInv, EndedWhenSwept, CaughtOrWarned, OnlyCaughtRowsStayOpen
  <1>4. CASE row' = row
    BY <1>1, <1>2, <1>4, RowsKept
  <1>5. row' = row \/ (Mark /\ row[lane.item] # {})
    BY DEF Consume, TakeDep, Lookup, Poll, Relook, Mark, MarkFails, LiveDone, LiveDies, EndTurn,
           Deadline, fetchVars
  <1>6. QED BY <1>3, <1>4, <1>5

LEMMA EndRows ==
    ASSUME TypeInv, RowInv, EndSession \/ Sweep \/ SweepFails \/ ClearPool
    PROVE  RowInv'
  <1>1. CASE EndSession
    BY <1>1 DEF EndSession, fetchVars, RowInv, EndedWhenSwept, CaughtOrWarned,
                OnlyCaughtRowsStayOpen, TypeInv, TypeOK
  <1>2. CASE Sweep
    <2>1. \A f \in Fetches : row'[f] # {"written"}
      BY <1>2 DEF Sweep
    <2>2. QED
      BY <1>2, <2>1 DEF Sweep, RowInv, EndedWhenSwept, CaughtOrWarned, OnlyCaughtRowsStayOpen
  <1>3. CASE SweepFails \/ ClearPool
    <2>1. /\ UNCHANGED <<status, swept, caught, row, fetch>> /\ ender # "idle"
          /\ ender' \in {"clearing", "idle"}
      BY <1>3 DEF SweepFails, ClearPool, fetchVars
    <2>2. QED BY <2>1, RowsKept
  <1>4. QED BY <1>1, <1>2, <1>3

LEMMA LaunchRows ==
    ASSUME TypeInv, RowInv,
           \/ \E channel \in Channels, u \in Queries, a \in Actions \cup {Advisory},
                 todo \in SUBSET Deps : BeginTurn(channel, u, a, todo)
           \/ \E f \in Fetches, a \in Actions, q \in Queries \cup {None} : Plan(f, a, q)
    PROVE  RowInv'
  <1>1. UNCHANGED <<status, ender, swept, caught, row>>
    BY DEF BeginTurn, Plan, endVars
  <1>2. \A a, q : Launch("claiming", a, q).stage = "claiming" /\ Launch("fetching", a, q).stage = "fetching"
    BY DEF Launch, Unused
  <1>3. \A f \in Fetches : fetch'[f].stage = "checked" => fetch'[f] = fetch[f]
    <2>1. fetch \in [Fetches -> FetchRecords]
      BY DEF TypeInv, TypeOK
    <2>2. ASSUME NEW channel \in Channels, NEW u \in Queries, NEW a \in Actions \cup {Advisory},
                 NEW todo \in SUBSET Deps, BeginTurn(channel, u, a, todo)
          PROVE  \A f \in Fetches : fetch'[f].stage = "checked" => fetch'[f] = fetch[f]
      BY <1>2, <2>2 DEF BeginTurn
    <2>3. ASSUME NEW f \in Fetches, NEW a \in Actions, NEW q \in Queries \cup {None}, Plan(f, a, q)
          PROVE  \A g \in Fetches : fetch'[g].stage = "checked" => fetch'[g] = fetch[g]
      BY <1>2, <2>1, <2>3 DEF Plan
    <2>4. QED BY <2>2, <2>3
  <1>4. QED BY <1>1, <1>3, RowsKept

LEMMA RowNext == TypeInv /\ RowInv /\ [Next]_vars => RowInv'
  <1> SUFFICES ASSUME TypeInv, RowInv, [Next]_vars PROVE RowInv'
    OBVIOUS
  <1>1. CASE WorkerCrash \/ ApiCrash
    <2>1. CrashKills /\ UNCHANGED <<row, status, swept, caught>>
      BY <1>1, CrashFacts DEF TypeInv
    <2>2. \A f \in Fetches : fetch'[f].stage = "checked" => fetch'[f] = fetch[f]
      BY <2>1 DEF CrashKills
    <2>3. ender' \in {ender, "idle"}
      BY <1>1 DEF WorkerCrash, ApiCrash, endVars
    <2>4. QED BY <2>1, <2>2, <2>3, RowsKept
  <1>2. CASE \/ UNCHANGED vars
             \/ \E k \in Keys : ClaimExpires(k)
             \/ \E f \in Fetches : PoolDrops(f)
    <2>1. UNCHANGED <<status, ender, swept, caught, row, fetch>>
      BY <1>2 DEF vars, fetchVars, endVars, ClaimExpires, PoolDrops
    <2>2. QED BY <2>1, RowsKept
  <1>3. QED
    BY <1>1, <1>2, LaunchRows, RunFetchRows, ConsumeRows, EndRows DEF Next

(***************************************************************************)
(* After the sweep of the end, the only rows of speculative fetches left   *)
(* neither consumed nor wasted are those the end caught between reading    *)
(* the status and writing (prefetch.py _run_fetch, finalize_session).      *)
(***************************************************************************)
THEOREM RowsSettledButCaught == Spec => []OnlyCaughtRowsStayOpen
  <1>1. Init => RowInv
    BY DEF Init, Unused, RowInv, EndedWhenSwept, CaughtOrWarned, OnlyCaughtRowsStayOpen
  <1>2. RowInv => OnlyCaughtRowsStayOpen
    BY DEF RowInv
  <1>3. QED BY <1>1, <1>2, TypeInit, TypeNext, RowNext, PTL DEF Spec

-----------------------------------------------------------------------------
(***************************************************************************)
(* The wait.  A fetch under way at the lookup holds its claim until its    *)
(* item is in the pool; so a round of the wait that finds its key gone     *)
(* knows that it is over, and the second lookup sees what it left.         *)
(***************************************************************************)
Over(f) == fetch[f].stage \in {"done", "dead"}

\* What landed is in the pool, or has been there.
DoneIsPooled ==
    \A f \in Fetches :
        /\ fetch[f].stage = "claiming" => ~fetch[f].ok
        /\ fetch[f].stage \in {"stored", "done"} /\ fetch[f].ok => f \in pool \cup gone

\* What was under way at the lookup runs, or is over.
PendingLaunched ==
    /\ lane.stage \in {"next", "lookup"} => lane.pending = {}
    /\ lane.stage \in {"next", "lookup"} => ~lane.late /\ lane.why = "none"
    /\ \A f \in lane.pending :
          /\ ~IsLive(f) /\ DepOf(f) = lane.dep
          /\ IsTurn(f) \/ fetch[f].act = lane.act
          /\ Running(f) \/ Over(f)

\* What each half of a round has found out.
RoundKnows ==
    /\ lane.stage = "pollTurn" =>
          \A f \in lane.pending : ~IsTurn(f) /\ fetch[f].query = None => Over(f)
    /\ lane.stage = "relook" /\ ~lane.late =>
          \A f \in lane.pending : Watched(f) => Over(f)

WaitInv == DoneIsPooled /\ PendingLaunched /\ RoundKnows /\ NoRedundantLive

(***************************************************************************)
(* Steps of the fetches, of the pool and of a crash: pending fetches keep  *)
(* what they fetch, and one that is over stays over.                       *)
(***************************************************************************)
LEMMA WaitKept ==
    ASSUME TypeInv, WaitInv, DoneIsPooled', lane' = lane,
           gone \subseteq gone',
           \A f \in lane.pending :
              /\ fetch'[f].act = fetch[f].act /\ fetch'[f].query = fetch[f].query
              /\ Over(f) => fetch'[f] = fetch[f]
              /\ Running(f) => Running(f)' \/ Over(f)'
    PROVE  WaitInv'
  <1>1. PendingLaunched'
    BY DEF WaitInv, PendingLaunched, Running, Over
  <1>2. RoundKnows'
    BY DEF WaitInv, RoundKnows, Watched, Over
  <1>3. NoRedundantLive'
    BY DEF WaitInv, NoRedundantLive, MissedInVain, Watched, CameToNothing, Over
  <1>4. QED BY <1>1, <1>2, <1>3 DEF WaitInv

LEMMA LaunchWait ==
    ASSUME TypeInv, WaitInv,
           \/ \E channel \in Channels, u \in Queries, a \in Actions \cup {Advisory},
                 todo \in SUBSET Deps : BeginTurn(channel, u, a, todo)
           \/ \E f \in Fetches, a \in Actions, q \in Queries \cup {None} : Plan(f, a, q)
    PROVE  WaitInv'
  <1>1. \A a, q : /\ Launch("claiming", a, q).stage = "claiming" /\ ~Launch("claiming", a, q).ok
                  /\ Launch("fetching", a, q).stage = "fetching"
    BY DEF Launch, Unused
  <1>2. ASSUME NEW channel \in Channels, NEW u \in Queries, NEW a \in Actions \cup {Advisory},
               NEW todo \in SUBSET Deps, BeginTurn(channel, u, a, todo)
        PROVE  WaitInv'
    <2>1. DoneIsPooled'
      BY <1>1, <1>2 DEF BeginTurn, WaitInv, DoneIsPooled
    <2>2. lane'.stage = "next" /\ lane'.pending = {} /\ ~lane'.late /\ lane'.why = "none"
      BY <1>2 DEF BeginTurn, Idle
    <2>3. QED
      BY <2>1, <2>2 DEF WaitInv, PendingLaunched, RoundKnows, NoRedundantLive, MissedInVain
  <1>3. ASSUME NEW f \in Fetches, NEW a \in Actions, NEW q \in Queries \cup {None}, Plan(f, a, q)
        PROVE  WaitInv'
    <2>1. /\ fetch'[f].stage = "fetching" /\ \A g \in Fetches \ {f} : fetch'[g] = fetch[g]
          /\ fetch[f].stage = "unused" /\ UNCHANGED <<lane, pool, gone>>
      BY <1>1, <1>3 DEF Plan, laneVars, TypeInv, TypeOK
    <2>2. DoneIsPooled'
      BY <2>1 DEF WaitInv, DoneIsPooled
    <2>3. \A g \in lane.pending : g \in Fetches /\ g # f
      BY <2>1 DEF TypeInv, TypeOK, WaitInv, PendingLaunched, Running, Over
    <2>4. QED BY <2>1, <2>2, <2>3, WaitKept DEF Running
  <1>4. QED BY <1>2, <1>3

LEMMA RunFetchWait ==
    ASSUME TypeInv, WaitInv, NEW f \in Fetches, RunFetch(f)
    PROVE  WaitInv'
  <1>a. fetch \in [Fetches -> FetchRecords]
    BY DEF TypeInv, TypeOK
  <1>1. FetchProgress(f) /\ lane' = lane /\ gone' = gone /\ pool \subseteq pool'
    BY RunFetchProgress DEF TypeInv, FetchProgress, Untouched, laneVars
  <1>2. fetch'[f].stage \in {"stored", "done"} /\ fetch'[f].ok => f \in pool' \cup gone'
    <2>1. CASE ClaimTurnFetch(f)
      <3>1. fetch'[f].ok = fetch[f].ok
        BY <1>a, <2>1, RunFetchFacts DEF Keeps
      <3>2. QED BY <2>1, <3>1 DEF ClaimTurnFetch, WaitInv, DoneIsPooled
    <2>2. CASE FinishEmpty(f)
      <3>1. fetch'[f].ok = fetch[f].ok
        BY <1>a, <2>2, RunFetchFacts DEF Keeps
      <3>2. QED BY <2>2, <3>1 DEF FinishEmpty
    <2>3. CASE Insert(f)
      BY <2>3 DEF Insert
    <2>4. CASE Release(f)
      <3>1. fetch'[f].ok = fetch[f].ok
        BY <1>a, <2>4, RunFetchFacts DEF Keeps
      <3>2. QED BY <1>1, <2>4, <3>1 DEF Release, WaitInv, DoneIsPooled
    <2>5. CASE FetchReturns(f) \/ ReadStatus(f) \/ WriteAudit(f) \/ AuditFails(f) \/ RedisFails(f)
      <3>1. ASSUME NEW stage, OnlyMoves(f, stage), stage \notin {"stored", "done"}
            PROVE  fetch'[f].stage \notin {"stored", "done"}
        BY <3>1 DEF OnlyMoves
      <3>2. QED BY <1>a, <2>5, <3>1, RunFetchFacts
    <2>6. QED BY <2>1, <2>2, <2>3, <2>4, <2>5 DEF RunFetch
  <1>3. DoneIsPooled'
    BY <1>1, <1>2 DEF FetchProgress, WaitInv, DoneIsPooled
  <1>4. Running(f) => Running(f)' \/ Over(f)'
    <2>1. fetch'[f].stage \in Stages
      BY <1>1 DEF FetchProgress, FetchRecords
    <2>2. QED BY <1>1, <2>1 DEF FetchProgress, Running, Over, Stages
  <1>5. ~Over(f)
    BY <1>1 DEF FetchProgress, Running, Over
  <1>6. lane.pending \subseteq Fetches
    BY DEF TypeInv, TypeOK
  <1>7. QED
    BY <1>1, <1>3, <1>4, <1>5, <1>6, WaitKept DEF FetchProgress, Running

\* The deciding step: a live fetch for want of an item is not in vain.
LEMMA DecideWait ==
    ASSUME TypeInv, WaitInv, Searching, Decide, UNCHANGED <<pool, gone>>,
           ~lane.late => \A f \in lane.pending : Watched(f) => Over(f)
    PROVE  WaitInv'
  <1>a. /\ lane \in LaneRecords /\ fetch \in [Fetches -> FetchRecords]
        /\ lane.pending \subseteq Fetches
    BY DEF TypeInv, TypeOK, LaneRecords
  <1>1. CASE ItemsFor(lane.dep) # {} /\ Serve(Freshest(lane.dep))
    <2>1. /\ fetch' = fetch /\ lane'.stage = "mark" /\ lane'.pending = lane.pending
          /\ lane'.dep = lane.dep /\ lane'.act = lane.act
      BY <1>a, <1>1 DEF Serve, LaneRecords
    <2>2. QED
      BY <2>1 DEF WaitInv, DoneIsPooled, PendingLaunched, RoundKnows, NoRedundantLive, MissedInVain,
                  Running, Over
  <1>2. ASSUME NEW why \in {"miss", "stale"}, FetchLive(why), why = "miss" => ItemsFor(lane.dep) = {}
        PROVE  WaitInv'
    <2> DEFINE g == <<"live", turn, lane.dep>>
    <2>1. /\ lane' = [lane EXCEPT !.stage = "live", !.item = g, !.why = why]
          /\ \E q : fetch' = [fetch EXCEPT ![g] = Launch("fetching", lane.act, q)]
      BY <1>2 DEF FetchLive
    <2>2. IsLive(g)
      BY DEF IsLive
    <2> HIDE DEF g
    <2>3. \A f \in Fetches : f # g => fetch'[f] = fetch[f]
      BY <1>a, <2>1
    <2>4. g \in Fetches => fetch'[g].stage = "fetching"
      BY <1>a, <2>1 DEF Launch, Unused
    <2>5. /\ lane'.stage = "live" /\ lane'.pending = lane.pending /\ lane'.why = why
          /\ lane'.dep = lane.dep /\ lane'.act = lane.act /\ lane'.late = lane.late
      BY <1>a, <2>1 DEF LaneRecords
    <2>6. \A f \in lane.pending : f # g /\ fetch'[f] = fetch[f]
      BY <1>a, <2>2, <2>3 DEF WaitInv, PendingLaunched
    <2>7. DoneIsPooled'
      BY <2>3, <2>4 DEF WaitInv, DoneIsPooled
    <2>8. PendingLaunched'
      BY <2>5, <2>6 DEF WaitInv, PendingLaunched, Running, Over
    <2>9. RoundKnows'
      BY <2>5 DEF RoundKnows
    <2>10. NoRedundantLive'
      <3>1. SUFFICES ASSUME why = "miss", ~lane.late, NEW f \in lane.pending, Watched(f)
                     PROVE  CameToNothing(f)'
        BY <2>5, <2>6 DEF NoRedundantLive, MissedInVain, Watched
      <3>2. f \notin pool
        BY <1>2, <3>1 DEF ItemsFor, WaitInv, PendingLaunched
      <3>3. Over(f) /\ f \in Fetches
        BY <1>a, <3>1
      <3>4. QED
        BY <2>6, <3>1, <3>2, <3>3 DEF Over, CameToNothing, WaitInv, DoneIsPooled
    <2>11. QED BY <2>7, <2>8, <2>9, <2>10 DEF WaitInv
  <1>3. QED BY <1>1, <1>2 DEF Decide

\* The steps of the turn that leave the fetches and the pool alone.
LEMMA LaneOnlyWait ==
    ASSUME WaitInv, UNCHANGED <<fetch, pool, gone>>, PendingLaunched', RoundKnows', lane'.stage # "live"
    PROVE  WaitInv'
  BY DEF WaitInv, DoneIsPooled, NoRedundantLive, MissedInVain

\* A running fetch holds its claim, so a key without a claim has none.
LEMMA UnclaimedIsOver ==
    ASSUME ClaimInv, WaitInv, NEW f \in lane.pending, f \in Fetches, Key(f) \notin claims
    PROVE  Over(f)
  BY DEF ClaimInv, ClaimsHaveOwners, WaitInv, PendingLaunched

LEMMA PollWait ==
    ASSUME TypeInv, ClaimInv, WaitInv, Poll
    PROVE  WaitInv'
  <1>a. lane \in LaneRecords /\ lane.pending \subseteq Fetches /\ UNCHANGED <<fetch, pool, gone>>
    BY DEF TypeInv, TypeOK, LaneRecords, Poll, fetchVars
  <1>1. /\ lane'.stage \in {"pollPlan", "pollTurn", "relook"} /\ lane'.pending = lane.pending
        /\ lane'.dep = lane.dep /\ lane'.act = lane.act /\ lane'.late = lane.late
    BY <1>a DEF Poll, LaneRecords
  <1>2. PendingLaunched'
    BY <1>a, <1>1 DEF WaitInv, PendingLaunched, Running, Over
  <1>3. RoundKnows'
    <2>1. CASE lane'.stage = "pollTurn"
      <3>1. PlanKey(lane.dep, lane.act, None) \notin claims
        BY <1>a, <2>1 DEF Poll, LaneRecords
      <3>2. ASSUME NEW f \in lane.pending, ~IsTurn(f), fetch[f].query = None PROVE Over(f)
        <4>1. Key(f) = PlanKey(lane.dep, lane.act, None)
          BY <3>2 DEF WaitInv, PendingLaunched, Key
        <4>2. QED BY <1>a, <3>1, <4>1, UnclaimedIsOver
      <3>3. QED BY <1>a, <1>1, <2>1, <3>2 DEF RoundKnows, Over
    <2>2. CASE lane'.stage = "relook" /\ ~lane.late
      <3>1. lane.stage = "pollTurn" /\ TurnKey(lane.dep) \notin claims
        BY <1>a, <2>2 DEF Poll, LaneRecords
      <3>2. ASSUME NEW f \in lane.pending, Watched(f) PROVE Over(f)
        <4>1. CASE IsTurn(f)
          <5>1. Key(f) = TurnKey(lane.dep)
            BY <4>1 DEF WaitInv, PendingLaunched, Key
          <5>2. QED BY <1>a, <3>1, <5>1, UnclaimedIsOver
        <4>2. CASE ~IsTurn(f)
          BY <3>1, <3>2, <4>2 DEF WaitInv, RoundKnows, Watched
        <4>3. QED BY <4>1, <4>2
      <3>3. QED BY <1>a, <1>1, <2>2, <3>2 DEF RoundKnows, Watched, Over
    <2>3. QED BY <1>1, <2>1, <2>2 DEF RoundKnows
  <1>4. QED BY <1>a, <1>1, <1>2, <1>3, LaneOnlyWait

LEMMA ConsumeWait ==
    ASSUME TypeInv, ClaimInv, WaitInv, Consume \/ Deadline
    PROVE  WaitInv'
  <1>a. lane \in LaneRecords /\ lane.pending \subseteq Fetches
    BY DEF TypeInv, TypeOK, LaneRecords
  <1>1. ASSUME NEW d \in Deps, TakeDep(d) PROVE WaitInv'
    <2>1. /\ UNCHANGED <<fetch, pool, gone>> /\ lane'.stage = "lookup" /\ lane.stage = "next"
          /\ lane'.pending = lane.pending /\ lane'.late = lane.late /\ lane'.why = lane.why
      BY <1>a, <1>1 DEF TakeDep, fetchVars, LaneRecords
    <2>2. QED BY <2>1, LaneOnlyWait DEF WaitInv, PendingLaunched, RoundKnows
  <1>2. ASSUME Lookup PROVE WaitInv'
    <2>1. UNCHANGED <<pool, gone>> /\ lane.stage = "lookup"
      BY <1>2 DEF Lookup
    <2>2. CASE Decide
      BY <2>1, <2>2, DecideWait DEF Searching, WaitInv, PendingLaunched
    <2>3. CASE /\ lane' = [lane EXCEPT !.stage = "pollPlan", !.pending = InFlight]
               /\ UNCHANGED <<fetch, served>>
      <3>1. /\ lane'.stage = "pollPlan" /\ lane'.dep = lane.dep /\ lane'.pending = InFlight
            /\ lane'.act = lane.act
        BY <1>a, <2>3 DEF LaneRecords
      <3>2. PendingLaunched' /\ RoundKnows'
        BY <2>3, <3>1 DEF PendingLaunched, RoundKnows, InFlight, Running
      <3>3. QED BY <2>1, <2>3, <3>1, <3>2, LaneOnlyWait
    <2>4. QED BY <1>2, <2>2, <2>3 DEF Lookup
  <1>3. ASSUME Deadline PROVE WaitInv'
    <2>1. /\ UNCHANGED <<fetch, pool, gone>> /\ lane'.stage = lane.stage /\ lane'.late
          /\ lane.stage \in {"pollPlan", "pollTurn"}
          /\ lane'.pending = lane.pending /\ lane'.dep = lane.dep /\ lane'.act = lane.act
      BY <1>a, <1>3 DEF Deadline, fetchVars, LaneRecords
    <2>2. PendingLaunched' /\ RoundKnows'
      BY <2>1 DEF WaitInv, PendingLaunched, RoundKnows, Running, Over
    <2>3. QED BY <2>1, <2>2, LaneOnlyWait
  <1>4. ASSUME Relook PROVE WaitInv'
    <2>1. UNCHANGED <<pool, gone>> /\ Searching /\ Decide /\ lane.stage = "relook"
      BY <1>4 DEF Relook, Searching
    <2>2. QED BY <2>1, DecideWait DEF WaitInv, RoundKnows
  <1>5. ASSUME Mark \/ MarkFails \/ LiveDone PROVE WaitInv'
    <2>1. UNCHANGED <<fetch, pool, gone>> /\ lane' = NextDep
      BY <1>5 DEF Mark, MarkFails, LiveDone, fetchVars
    <2>2. lane'.stage = "next" /\ lane'.pending = {} /\ ~lane'.late /\ lane'.why = "none"
      BY <1>a, <2>1 DEF NextDep, LaneRecords
    <2>3. QED BY <2>1, <2>2, LaneOnlyWait DEF PendingLaunched, RoundKnows
  <1>6. ASSUME LiveDies \/ EndTurn PROVE WaitInv'
    <2>1. UNCHANGED <<fetch, pool, gone>> /\ lane' = Idle
      BY <1>6 DEF LiveDies, EndTurn, fetchVars
    <2>2. lane'.stage = "idle" /\ lane'.pending = {}
      BY <2>1 DEF Idle
    <2>3. QED BY <2>1, <2>2, LaneOnlyWait DEF PendingLaunched, RoundKnows
  <1>7. QED
    BY <1>1, <1>2, <1>3, <1>4, <1>5, <1>6, PollWait DEF Consume

LEMMA CrashWait ==
    ASSUME TypeInv, WaitInv, WorkerCrash \/ ApiCrash
    PROVE  WaitInv'
  <1>1. CrashKills /\ UNCHANGED <<pool, gone>>
    BY CrashFacts DEF TypeInv
  <1>2. DoneIsPooled'
    BY <1>1 DEF CrashKills, WaitInv, DoneIsPooled
  <1>3. CASE lane' = lane
    <2>1. \A f \in lane.pending :
              /\ f \in Fetches
              /\ fetch'[f].act = fetch[f].act /\ fetch'[f].query = fetch[f].query
              /\ Over(f) => fetch'[f] = fetch[f]
              /\ Running(f) => Running(f)' \/ Over(f)'
      BY <1>1 DEF CrashKills, TypeInv, TypeOK, Over, Running
    <2>2. QED BY <1>1, <1>2, <1>3, <2>1, WaitKept
  <1>4. CASE lane' = Idle
    <2>1. lane'.stage = "idle" /\ lane'.pending = {}
      BY <1>4 DEF Idle
    <2>2. QED
      BY <1>2, <2>1 DEF WaitInv, PendingLaunched, RoundKnows, NoRedundantLive, MissedInVain
  <1>5. QED BY <1>3, <1>4 DEF WorkerCrash, ApiCrash, laneVars

LEMMA WaitNext == TypeInv /\ ClaimInv /\ WaitInv /\ [Next]_vars => WaitInv'
  <1> SUFFICES ASSUME TypeInv, ClaimInv, WaitInv, [Next]_vars PROVE WaitInv'
    OBVIOUS
  <1>1. CASE \/ UNCHANGED vars
             \/ EndSession \/ Sweep \/ SweepFails \/ ClearPool
             \/ \E k \in Keys : ClaimExpires(k)
             \/ \E f \in Fetches : PoolDrops(f)
    <2>1. UNCHANGED <<fetch, lane>> /\ gone \subseteq gone' /\ pool \cup gone \subseteq pool' \cup gone'
      BY <1>1 DEF vars, fetchVars, laneVars, EndSession, Sweep, SweepFails, ClearPool, PoolDrops,
                  ClaimExpires
    <2>2. DoneIsPooled'
      BY <2>1 DEF WaitInv, DoneIsPooled
    <2>3. QED BY <2>1, <2>2, WaitKept DEF Running
  <1>2. QED
    BY <1>1, LaunchWait, RunFetchWait, ConsumeWait, CrashWait DEF Next

(***************************************************************************)
(* While no claim's TTL runs out under its fetch, the wait of consume() is *)
(* never in vain: a live fetch before the deadline repeats no fetch whose  *)
(* key was watched (pool.py release_fetch after insert, prefetch.py        *)
(* consume).                                                               *)
(***************************************************************************)
THEOREM NoFetchTwice ==
    ASSUME SlowFetches = FALSE
    PROVE  Spec => []NoRedundantLive
  <1>1. Init => WaitInv
    BY DEF Init, Unused, Idle, WaitInv, DoneIsPooled, PendingLaunched, RoundKnows, NoRedundantLive,
           MissedInVain
  <1>2. TypeInv /\ ClaimInv /\ [Next]_vars => ClaimInv'
    BY ClaimNext
  <1>3. WaitInv => NoRedundantLive
    BY DEF WaitInv
  <1>4. QED
    BY <1>1, <1>2, <1>3, TypeInit, TypeNext, ClaimInit, WaitNext, PTL DEF Spec
=============================================================================
