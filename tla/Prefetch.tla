------------------------------ MODULE Prefetch ------------------------------
(***************************************************************************)
(* The prefetch manager (prefetch.py) over one session: the supervisor's   *)
(* planned fetches, the current-turn fetches, the live fetches, the claims *)
(* and the pool they share in Redis, their audit rows in Postgres, and the *)
(* consume path of the turns that use what was fetched.                    *)
(*                                                                         *)
(* A fetch is <<kind, n, dep>>: "plan" fetches are launched by a worker    *)
(* from a turn event, "turn" fetches by turn n for its own utterance,      *)
(* "live" fetches by turn n's consume() when the pool cannot serve it.     *)
(* An action is what one coroutine does between two calls to Redis,        *)
(* Postgres, or the fetched system.                                        *)
(***************************************************************************)
EXTENDS Integers, SequencesExt

CONSTANTS
    Deps,          \* the SOP's data dependencies
    Templated,     \* those whose query_template holds {user_text}
    Idempotent,    \* those declared idempotent
    Actions,       \* the SOP's agent actions
    Advisory,      \* "__advisory", the action an advisory turn consumes under
    Queries,       \* utterances, said or predicted, up to rendering
    None,          \* the query of a dependency without a template; no dependency
    Near,          \* pairs of queries with a cosine >= consume_stale_min_cos
    Mode,          \* the scope's subsystems
    Channels,      \* the ways a turn comes in
    SlowFetches,   \* whether a claim's TTL may run out under a running fetch
    Faults,        \* the calls that may fail
    MaxPlans,      \* bound: planned fetches of each dependency
    MaxTurns,      \* bound: turns
    MaxDrops,      \* bound: items that expire or are evicted
    MaxEnds,       \* bound: calls of POST /end
    MaxCrashes     \* bound: process crashes

ASSUME DepsAssumption == Templated \subseteq Deps /\ Idempotent \subseteq Deps
ASSUME QueryAssumption ==
    /\ None \notin Queries
    /\ Near \subseteq Queries \X Queries
    /\ \A q \in Queries : <<q, q>> \in Near      \* a cosine of 1
ASSUME ActionAssumption == Advisory \notin Actions
ASSUME ModeAssumption == Mode \in {"sop", "retrieval", "both", "advisory"}
ASSUME ChannelAssumption == Channels \subseteq {"converse", "voice", "plan"}
ASSUME SlowAssumption == SlowFetches \in BOOLEAN
ASSUME FaultAssumption == Faults \subseteq {"audit", "embed", "redis", "mark", "sweep"}
ASSUME BoundAssumption ==
    /\ MaxPlans \in Nat /\ MaxTurns \in Nat /\ MaxDrops \in Nat
    /\ MaxEnds \in Nat /\ MaxCrashes \in Nat

RetrievalEnabled == Mode # "sop"

Fetches == ({"plan"} \X (1..MaxPlans) \X Deps)
           \cup ({"turn", "live"} \X (1..MaxTurns) \X Deps)

IsPlan(f) == f[1] = "plan"
IsTurn(f) == f[1] = "turn"
IsLive(f) == f[1] = "live"
DepOf(f)  == f[3]

ToFetch(d) == IF d \in Templated THEN Queries ELSE {None}

VARIABLES
    status,     \* ConversationSession.status
    ender,      \* POST /end: "idle", "sweeping", "clearing"
    claims,     \* the in-flight keys in Redis
    fetch,      \* each fetch: its stage, what it fetches, what came of it
    landed,     \* the fetches with a payload, in the order of fetched_at
    pool,       \* the session's pool in Redis
    gone,       \* history: the items the pool no longer has
    row,        \* the audit row of each fetch, as the set of its flags
    lane,       \* the turn being served
    served,     \* history: what the agent of this turn was given
    published,  \* a turn event has been published
    swept,      \* history: a sweep has marked the rows since the end
    caught,     \* history: the fetches between reading the status and writing
                \* their row when it became "ended"
    turn, ends, crashes

fetchVars == <<claims, fetch, landed, pool, gone, row>>
endVars   == <<status, ender, ends, swept, caught>>
laneVars  == <<lane, served, turn, published>>
vars == <<fetchVars, endVars, laneVars, crashes>>

-----------------------------------------------------------------------------
\* fetch_key(dep, action, query_hash) of a planned fetch; turnfetch:dep.
PlanKey(d, a, q) == <<"plan", d, a, q>>
TurnKey(d)       == <<"turn", d>>

Keys == {PlanKey(d, a, q) : d \in Deps, a \in Actions \cup {Advisory},
                            q \in Queries \cup {None}}
        \cup {TurnKey(d) : d \in Deps}

Key(f) == IF IsTurn(f) THEN TurnKey(DepOf(f))
                       ELSE PlanKey(DepOf(f), fetch[f].act, fetch[f].query)

Unused == [stage |-> "unused", act |-> Advisory, query |-> None,
           ok |-> FALSE, emb |-> FALSE, sawEnded |-> FALSE]

\* What _run_fetch still has to do for f; "stored" fetches have only the claim left.
Running(f) == fetch[f].stage \in
                 {"fetching", "landed", "checked", "recorded", "stored"}

Launch(stage, a, q) ==
    [Unused EXCEPT !.stage = stage, !.act = a, !.query = q]

Idle == [stage |-> "idle", dep |-> None, act |-> Advisory, todo |-> {},
         utter |-> None, emb |-> FALSE, item |-> <<>>, why |-> "none",
         late |-> FALSE, pending |-> {}]

Init ==
    /\ status = "active" /\ ender = "idle" /\ ends = 0
    /\ swept = FALSE /\ caught = {}
    /\ claims = {} /\ pool = {} /\ gone = {} /\ landed = <<>>
    /\ fetch = [f \in Fetches |-> Unused]
    /\ row = [f \in Fetches |-> {}]
    /\ lane = Idle /\ served = {} /\ published = FALSE /\ turn = 0
    /\ crashes = 0

-----------------------------------------------------------------------------
(***************************************************************************)
(* Launching fetches.                                                      *)
(***************************************************************************)

\* Mutant of Plan: the idempotency filter is dropped.
PlanAnything(f, a, q) ==
    /\ IsPlan(f) /\ fetch[f].stage = "unused"
    /\ published /\ RetrievalEnabled
    /\ q \in ToFetch(DepOf(f))
    /\ PlanKey(DepOf(f), a, q) \notin claims
    /\ claims' = claims \cup {PlanKey(DepOf(f), a, q)}
    /\ fetch' = [fetch EXCEPT ![f] = Launch("fetching", a, q)]
    /\ UNCHANGED <<landed, pool, gone, row, endVars, laneVars, crashes>>

\* schedule(), one plan item: idempotent, and its claim is free (SET NX).
Plan(f, a, q) ==
    /\ IsPlan(f) /\ fetch[f].stage = "unused"
    /\ published /\ RetrievalEnabled
    /\ DepOf(f) \in Idempotent
    /\ q \in ToFetch(DepOf(f))
    /\ PlanKey(DepOf(f), a, q) \notin claims
    /\ claims' = claims \cup {PlanKey(DepOf(f), a, q)}
    /\ fetch' = [fetch EXCEPT ![f] = Launch("fetching", a, q)]
    /\ UNCHANGED <<landed, pool, gone, row, endVars, laneVars, crashes>>

\* Mutant of ClaimTurnFetch: the claim is set, its answer ignored.
ClaimTurnFetchBlindly(f) ==
    /\ fetch[f].stage = "claiming"
    /\ fetch' = [fetch EXCEPT ![f].stage = "fetching"]
    /\ claims' = claims \cup {Key(f)}
    /\ UNCHANGED <<landed, pool, gone, row, endVars, laneVars, crashes>>

\* The task of a current-turn fetch claims its key, or gives up.
ClaimTurnFetch(f) ==
    /\ fetch[f].stage = "claiming"
    /\ IF Key(f) \in claims
       THEN /\ fetch' = [fetch EXCEPT ![f].stage = "done"]
            /\ UNCHANGED claims
       ELSE /\ fetch' = [fetch EXCEPT ![f].stage = "fetching"]
            /\ claims' = claims \cup {Key(f)}
    /\ UNCHANGED <<landed, pool, gone, row, endVars, laneVars, crashes>>

(***************************************************************************)
(* _run_fetch, common to the three kinds.  An error and an empty payload   *)
(* are the same to it: ok is FALSE.                                        *)
(***************************************************************************)
FetchReturns(f) ==
    /\ fetch[f].stage = "fetching"
    /\ \E ok \in BOOLEAN :
          /\ fetch' = [fetch EXCEPT ![f].stage = "landed", ![f].ok = ok]
          /\ landed' = IF ok THEN Append(landed, f) ELSE landed
    /\ UNCHANGED <<claims, pool, gone, row, endVars, laneVars, crashes>>

\* The audit transaction reads the session's status ...
ReadStatus(f) ==
    /\ fetch[f].stage = "landed"
    /\ fetch' = [fetch EXCEPT ![f].stage = "checked",
                              ![f].sawEnded = (status = "ended")]
    /\ UNCHANGED <<claims, landed, pool, gone, row, endVars, laneVars, crashes>>

\* Mutant of WriteAudit: the status is not looked at.
WriteAuditOpen(f) ==
    /\ fetch[f].stage = "checked"
    /\ fetch' = [fetch EXCEPT ![f].stage = "recorded"]
    /\ row' = [row EXCEPT ![f] = {"written"}]
    /\ UNCHANGED <<claims, landed, pool, gone, endVars, laneVars, crashes>>

\* ... and commits the row, wasted from the start if the session had ended.
WriteAudit(f) ==
    /\ fetch[f].stage = "checked"
    /\ fetch' = [fetch EXCEPT ![f].stage = "recorded"]
    /\ row' = [row EXCEPT ![f] = {"written"} \cup
                 IF fetch[f].sawEnded /\ ~IsLive(f) THEN {"wasted"} ELSE {}]
    /\ UNCHANGED <<claims, landed, pool, gone, endVars, laneVars, crashes>>

AuditFails(f) ==
    /\ "audit" \in Faults
    /\ fetch[f].stage \in {"landed", "checked"}
    /\ fetch' = [fetch EXCEPT ![f].stage = "recorded"]
    /\ UNCHANGED <<claims, landed, pool, gone, row, endVars, laneVars, crashes>>

\* release_fetch deletes the key, whoever set it.
Released(f) == IF IsLive(f) THEN claims ELSE claims \ {Key(f)}

\* Mutant of FinishEmpty: a fetch without a payload keeps its claim.
FinishEmptyHolding(f) ==
    /\ fetch[f].stage = "recorded" /\ ~fetch[f].ok
    /\ fetch' = [fetch EXCEPT ![f].stage = "done"]
    /\ UNCHANGED <<claims, landed, pool, gone, row, endVars, laneVars, crashes>>

FinishEmpty(f) ==
    /\ fetch[f].stage = "recorded" /\ ~fetch[f].ok
    /\ fetch' = [fetch EXCEPT ![f].stage = "done"]
    /\ claims' = Released(f)
    /\ UNCHANGED <<landed, pool, gone, row, endVars, laneVars, crashes>>

\* The rendered query is embedded (or that fails) and the item goes in the pool.
Insert(f) ==
    /\ fetch[f].stage = "recorded" /\ fetch[f].ok
    /\ \E e \in IF "embed" \in Faults THEN BOOLEAN ELSE {TRUE} :
          fetch' = [fetch EXCEPT ![f].stage = IF IsLive(f) THEN "done" ELSE "stored",
                                 ![f].emb = e]
    /\ pool' = pool \cup {f}
    /\ UNCHANGED <<claims, landed, gone, row, endVars, laneVars, crashes>>

\* The claim outlives the insert.
Release(f) ==
    /\ fetch[f].stage = "stored"
    /\ fetch' = [fetch EXCEPT ![f].stage = "done"]
    /\ claims' = Released(f)
    /\ UNCHANGED <<landed, pool, gone, row, endVars, laneVars, crashes>>

\* pool.insert or release_fetch raises: the task ends there, its claim stays.
RedisFails(f) ==
    /\ "redis" \in Faults
    /\ \/ fetch[f].stage = "stored"
       \/ fetch[f].stage = "recorded" /\ (fetch[f].ok \/ ~IsLive(f))
    /\ fetch' = [fetch EXCEPT ![f].stage = "dead"]
    /\ UNCHANGED <<claims, landed, pool, gone, row, endVars, laneVars, crashes>>

-----------------------------------------------------------------------------
(***************************************************************************)
(* A turn.  A converse turn launches the current-turn fetches while it     *)
(* classifies; an advisory one consumes every templated dependency at once *)
(* and has no utterance embedding to give; voice and plan-turn requests    *)
(* consume what the chosen action declares, voice with an embedding.       *)
(* consume() takes the dependencies one by one.                            *)
(***************************************************************************)
TurnDeps == Templated \cap Idempotent

IsAdvisory(channel) == Mode = "advisory" /\ channel = "converse"

\* Whether consume() is given the embedding of the utterance (if there is one).
MayEmbed(channel) ==
    IF IsAdvisory(channel) \/ channel = "plan" THEN {FALSE}
    ELSE IF "embed" \in Faults THEN BOOLEAN ELSE {TRUE}

BeginTurn(channel, u, a, todo) ==
    /\ status = "active" /\ lane.stage = "idle" /\ turn < MaxTurns
    /\ IF IsAdvisory(channel) THEN a = Advisory /\ todo = TurnDeps
                              ELSE a \in Actions
    /\ turn' = turn + 1
    /\ \E e \in MayEmbed(channel) :
          lane' = [Idle EXCEPT !.stage = "next", !.act = a, !.todo = todo,
                               !.utter = u, !.emb = e]
    /\ fetch' = [f \in Fetches |->
                   IF /\ channel = "converse"
                      /\ IsTurn(f) /\ f[2] = turn + 1 /\ DepOf(f) \in TurnDeps
                   THEN Launch("claiming", Advisory, u) ELSE fetch[f]]
    /\ UNCHANGED <<claims, landed, pool, gone, row, endVars, served, published, crashes>>

ItemsFor(d) == {f \in pool : DepOf(f) = d}

\* _pool_lookup: the pool's freshest item of the dependency.
Freshest(d) ==
    CHOOSE f \in ItemsFor(d) :
        \A g \in ItemsFor(d) : \E i, j \in DOMAIN landed :
            landed[i] = g /\ landed[j] = f /\ i <= j

\* D-12: the item's query is far from what the caller said.
Stale(f) == /\ lane.emb /\ fetch[f].emb
            /\ DepOf(f) \in Templated
            /\ <<fetch[f].query, lane.utter>> \notin Near

Serve(f) ==
    /\ served' = served \cup {f}
    /\ lane' = [lane EXCEPT !.stage = "mark", !.item = f]
    /\ UNCHANGED fetch

\* The live fallback renders the template with what the caller said.
FetchLive(why) ==
    LET f == <<"live", turn, lane.dep>> IN
    /\ fetch' = [fetch EXCEPT ![f] = Launch("fetching", lane.act,
                    IF lane.dep \in Templated THEN lane.utter ELSE None)]
    /\ lane' = [lane EXCEPT !.stage = "live", !.item = f, !.why = why]
    /\ UNCHANGED served

\* The dependency is settled; its locals are dead.
NextDep == [lane EXCEPT !.stage = "next", !.dep = None, !.item = <<>>,
                        !.why = "none", !.late = FALSE, !.pending = {}]

\* What consume() does next with what the lookup found.
Decide ==
    IF ItemsFor(lane.dep) = {} THEN FetchLive("miss")
    ELSE IF Stale(Freshest(lane.dep)) THEN FetchLive("stale")
    ELSE Serve(Freshest(lane.dep))

\* The loop takes a dependency.  Only its name moves; the lookup is the next call.
TakeDep(d) ==
    /\ lane.stage = "next" /\ d \in lane.todo
    /\ lane' = [lane EXCEPT !.stage = "lookup", !.dep = d, !.todo = @ \ {d}]
    /\ UNCHANGED <<fetchVars, endVars, served, turn, published, crashes>>

\* Fetches under way that could answer this turn's need for the dependency.
InFlight == {f \in Fetches :
                /\ ~IsLive(f) /\ Running(f) /\ DepOf(f) = lane.dep
                /\ IsTurn(f) \/ fetch[f].act = lane.act}

Lookup ==
    /\ lane.stage = "lookup"
    /\ IF ItemsFor(lane.dep) = {} /\ Mode # "sop"
       THEN /\ lane' = [lane EXCEPT !.stage = "pollPlan", !.pending = InFlight]
            /\ UNCHANGED <<fetch, served>>
       ELSE Decide
    /\ UNCHANGED <<claims, landed, pool, gone, row, endVars, turn, published, crashes>>

\* Mutant of Poll: only the planned key is watched.
PollPlanOnly ==
    /\ lane.stage = "pollPlan"
    /\ lane' = [lane EXCEPT !.stage =
          IF PlanKey(lane.dep, lane.act, None) \in claims /\ ~lane.late
          THEN "pollPlan" ELSE "relook"]
    /\ UNCHANGED <<fetchVars, endVars, served, turn, published, crashes>>

\* Mutant of Poll: the deadline is not looked at.
PollForever ==
    /\ \/ /\ lane.stage = "pollPlan"
          /\ lane' = [lane EXCEPT !.stage =
                IF PlanKey(lane.dep, lane.act, None) \in claims
                THEN "pollPlan" ELSE "pollTurn"]
       \/ /\ lane.stage = "pollTurn"
          /\ lane' = [lane EXCEPT !.stage =
                IF TurnKey(lane.dep) \in claims THEN "pollPlan" ELSE "relook"]
    /\ UNCHANGED <<fetchVars, endVars, served, turn, published, crashes>>

(***************************************************************************)
(* The wait: two EXISTS per round, on the planned key WITHOUT a query hash *)
(* and on the turn key; a round that finds neither ends it.                *)
(***************************************************************************)
Poll ==
    /\ \/ /\ lane.stage = "pollPlan" /\ ~lane.late
          /\ lane' = [lane EXCEPT !.stage =
                IF PlanKey(lane.dep, lane.act, None) \in claims
                THEN "pollPlan" ELSE "pollTurn"]
       \/ /\ lane.stage = "pollPlan" /\ lane.late
          /\ lane' = [lane EXCEPT !.stage = "relook"]
       \/ /\ lane.stage = "pollTurn"
          /\ lane' = [lane EXCEPT !.stage =
                IF TurnKey(lane.dep) \in claims THEN "pollPlan" ELSE "relook"]
    /\ UNCHANGED <<fetchVars, endVars, served, turn, published, crashes>>

\* await_inflight_ms have passed; the loop's condition sees it.
Deadline ==
    /\ lane.stage \in {"pollPlan", "pollTurn"} /\ ~lane.late
    /\ lane' = [lane EXCEPT !.late = TRUE]
    /\ UNCHANGED <<fetchVars, endVars, served, turn, published, crashes>>

\* Mutant of Relook: what the wait brought is served without the gate.
RelookUngated ==
    /\ lane.stage = "relook"
    /\ IF ItemsFor(lane.dep) = {} THEN FetchLive("miss")
                                  ELSE Serve(Freshest(lane.dep))
    /\ UNCHANGED <<claims, landed, pool, gone, row, endVars, turn, published, crashes>>

Relook ==
    /\ lane.stage = "relook"
    /\ Decide
    /\ UNCHANGED <<claims, landed, pool, gone, row, endVars, turn, published, crashes>>

\* UPDATE ... WHERE NOT consumed; an item without a row has nothing to mark.
Mark ==
    /\ lane.stage = "mark"
    /\ lane' = NextDep
    /\ row' = IF row[lane.item] = {} THEN row
              ELSE [row EXCEPT ![lane.item] = @ \cup {"consumed"}]
    /\ UNCHANGED <<claims, fetch, landed, pool, gone, endVars, served, turn, published, crashes>>

MarkFails ==
    /\ "mark" \in Faults
    /\ lane.stage = "mark"
    /\ lane' = NextDep
    /\ UNCHANGED <<fetchVars, endVars, served, turn, published, crashes>>

LiveDone ==
    /\ lane.stage = "live" /\ fetch[lane.item].stage = "done"
    /\ lane' = NextDep
    /\ served' = IF fetch[lane.item].ok THEN served \cup {lane.item} ELSE served
    /\ UNCHANGED <<fetchVars, endVars, turn, published, crashes>>

\* pool.insert raised inside the live fetch: the request fails, no turn is saved.
LiveDies ==
    /\ lane.stage = "live" /\ fetch[lane.item].stage = "dead"
    /\ lane' = Idle /\ served' = {}
    /\ UNCHANGED <<fetchVars, endVars, turn, published, crashes>>

\* The turn is committed and its event published.
EndTurn ==
    /\ lane.stage = "next" /\ lane.todo = {}
    /\ lane' = Idle /\ served' = {}
    /\ published' = TRUE
    /\ UNCHANGED <<fetchVars, endVars, turn, crashes>>

-----------------------------------------------------------------------------
(***************************************************************************)
(* The end of the session: POST /end commits the status, then              *)
(* finalize_session sweeps the rows, then clears the pool.  Nothing stops  *)
(* a second /end, nor a turn under way.                                    *)
(***************************************************************************)
EndSession ==
    /\ ender = "idle" /\ ends < MaxEnds
    /\ status' = "ended" /\ ender' = "sweeping" /\ ends' = ends + 1
    /\ caught' = IF status = "ended" THEN caught
                 ELSE {f \in Fetches : fetch[f].stage = "checked"}
    /\ UNCHANGED <<fetchVars, swept, laneVars, crashes>>

Sweep ==
    /\ ender = "sweeping"
    /\ ender' = "clearing"
    /\ row' = [f \in Fetches |->
                 IF row[f] = {"written"} THEN {"written", "wasted"} ELSE row[f]]
    /\ swept' = TRUE
    /\ UNCHANGED <<claims, fetch, landed, pool, gone, status, ends, caught, laneVars, crashes>>

SweepFails ==
    /\ "sweep" \in Faults
    /\ ender = "sweeping" /\ ender' = "clearing"
    /\ UNCHANGED <<fetchVars, status, ends, swept, caught, laneVars, crashes>>

ClearPool ==
    /\ ender = "clearing"
    /\ ender' = "idle"
    /\ pool' = {} /\ gone' = gone \cup pool
    /\ UNCHANGED <<claims, fetch, landed, row, status, ends, swept, caught, laneVars,
                   crashes>>

-----------------------------------------------------------------------------
(***************************************************************************)
(* Redis forgets.  A claim's TTL outlives the fetch that set it unless     *)
(* SlowFetches; an item leaves the pool when it expires or is evicted.     *)
(***************************************************************************)
ClaimExpires(k) ==
    /\ k \in claims
    /\ SlowFetches \/ \A f \in Fetches : ~IsLive(f) /\ Running(f) => Key(f) # k
    /\ claims' = claims \ {k}
    /\ UNCHANGED <<fetch, landed, pool, gone, row, endVars, laneVars, crashes>>

PoolDrops(f) ==
    /\ f \in pool /\ Cardinality(gone) < MaxDrops
    /\ pool' = pool \ {f} /\ gone' = gone \cup {f}
    /\ UNCHANGED <<claims, fetch, landed, row, endVars, laneVars, crashes>>

\* A process dies with its tasks: planned fetches live in a worker, the rest in the API.
Killed(isHere(_)) ==
    [f \in Fetches |->
        IF isHere(f) /\ (Running(f) \/ fetch[f].stage = "claiming")
        THEN [fetch[f] EXCEPT !.stage = "dead"] ELSE fetch[f]]

WorkerCrash ==
    /\ crashes < MaxCrashes /\ crashes' = crashes + 1
    /\ fetch' = Killed(IsPlan)
    /\ UNCHANGED <<claims, landed, pool, gone, row, endVars, laneVars>>

ApiCrash ==
    /\ crashes < MaxCrashes /\ crashes' = crashes + 1
    /\ fetch' = Killed(LAMBDA f : ~IsPlan(f))
    /\ lane' = Idle /\ served' = {} /\ ender' = "idle"
    /\ UNCHANGED <<claims, landed, pool, gone, row, status, ends, swept, caught, turn,
                   published>>

-----------------------------------------------------------------------------
RunFetch(f) ==
    \/ ClaimTurnFetch(f) \/ FetchReturns(f) \/ ReadStatus(f) \/ WriteAudit(f)
    \/ AuditFails(f) \/ FinishEmpty(f) \/ Insert(f) \/ Release(f) \/ RedisFails(f)

Consume ==
    \/ \E d \in Deps : TakeDep(d)
    \/ Lookup \/ Poll \/ Relook \/ Mark \/ MarkFails \/ LiveDone \/ LiveDies
    \/ EndTurn

Next ==
    \/ \E channel \in Channels, u \in Queries,
          a \in Actions \cup {Advisory}, todo \in SUBSET Deps :
             BeginTurn(channel, u, a, todo)
    \/ \E f \in Fetches, a \in Actions, q \in Queries \cup {None} : Plan(f, a, q)
    \/ \E f \in Fetches : RunFetch(f)
    \/ Consume \/ Deadline
    \/ EndSession \/ Sweep \/ SweepFails \/ ClearPool
    \/ \E k \in Keys : ClaimExpires(k)
    \/ \E f \in Fetches : PoolDrops(f)
    \/ WorkerCrash \/ ApiCrash

Spec == Init /\ [][Next]_vars

(***************************************************************************)
(* The API process runs its coroutines, every fetcher times out, and the   *)
(* wait has a deadline.  Nothing is assumed of workers, callers, expiries. *)
(***************************************************************************)
Fairness ==
    /\ WF_vars(Consume) /\ WF_vars(Deadline)
    /\ \A f \in Fetches : WF_vars(IsLive(f) /\ RunFetch(f))

FairSpec == Spec /\ Fairness

-----------------------------------------------------------------------------
Stages == {"unused", "claiming", "fetching", "landed", "checked", "recorded",
           "stored", "done", "dead"}

FetchRecords ==
    [stage : Stages, act : Actions \cup {Advisory}, query : Queries \cup {None},
     ok : BOOLEAN, emb : BOOLEAN, sawEnded : BOOLEAN]

LaneStages == {"idle", "next", "lookup", "pollPlan", "pollTurn", "relook",
               "mark", "live"}

TypeOK ==
    /\ status \in {"active", "ended"}
    /\ ender \in {"idle", "sweeping", "clearing"}
    /\ claims \subseteq Keys
    /\ fetch \in [Fetches -> FetchRecords]
    /\ landed \in Seq(Fetches)
    /\ pool \subseteq Fetches /\ gone \subseteq Fetches
    /\ row \in [Fetches -> SUBSET {"written", "consumed", "wasted"}]
    /\ lane \in [stage : LaneStages, dep : Deps \cup {None},
                 act : Actions \cup {Advisory}, todo : SUBSET Deps,
                 utter : Queries \cup {None}, emb : BOOLEAN,
                 item : Fetches \cup {<<>>}, why : {"none", "miss", "stale"},
                 late : BOOLEAN, pending : SUBSET Fetches]
    /\ served \subseteq Fetches /\ caught \subseteq Fetches
    /\ swept \in BOOLEAN /\ published \in BOOLEAN
    /\ turn \in 0..MaxTurns /\ ends \in 0..MaxEnds /\ crashes \in 0..MaxCrashes

(***************************************************************************)
(* Two speculative fetches of the same key never run at once, across       *)
(* workers and turns: what try_claim_fetch is for ("so two workers don't   *)
(* fire the same speculative fetch").                                      *)
(***************************************************************************)
OneFetchPerKey ==
    \A f, g \in Fetches :
        /\ ~IsLive(f) /\ ~IsLive(g) /\ Running(f) /\ Running(g)
        /\ Key(f) = Key(g)
        => f = g

(***************************************************************************)
(* A claim stands exactly for a fetch that still runs, or for one whose    *)
(* task died on the way (only the TTL removes that one): no claim is       *)
(* leaked by a fetch that ends, whatever its result, and none is lost      *)
(* while its fetch runs.                                                   *)
(***************************************************************************)
ClaimsHaveOwners ==
    /\ \A k \in claims : \E f \in Fetches :
          ~IsLive(f) /\ Key(f) = k /\ (Running(f) \/ fetch[f].stage = "dead")
    /\ \A f \in Fetches : ~IsLive(f) /\ Running(f) => Key(f) \in claims

(***************************************************************************)
(* "the in-flight claim is released AFTER the pool insert": a live fetch   *)
(* for want of an item, before the deadline, is never redundant.  Every    *)
(* fetch under way at the lookup whose key consume() watches (the turn key *)
(* and the planned key without a query) has since come back empty, or has  *)
(* died, or its item was in the pool and left it.                          *)
(***************************************************************************)
Watched(f) == IsTurn(f) \/ fetch[f].query = None

CameToNothing(f) ==
    \/ fetch[f].stage = "dead"
    \/ fetch[f].stage = "done" /\ (fetch[f].ok => f \in gone)

MissedInVain == lane.stage = "live" /\ lane.why = "miss" /\ ~lane.late

NoRedundantLive ==
    MissedInVain => \A f \in lane.pending : Watched(f) => CameToNothing(f)

(***************************************************************************)
(* D-12: with an embedding on both sides, whatever a templated dependency  *)
(* gives the agent, pooled or live, was fetched for a query near what the  *)
(* caller has just said.                                                   *)
(***************************************************************************)
ServedFresh ==
    \A f \in served :
        lane.emb /\ fetch[f].emb /\ DepOf(f) \in Templated
            => <<fetch[f].query, lane.utter>> \in Near

(***************************************************************************)
(* "non-idempotent deps NEVER fire speculatively": a fetch of one runs     *)
(* only while the turn that needs it waits for it, so never twice at once  *)
(* and never for a turn that is over.                                      *)
(***************************************************************************)
NonIdempotentUnderTurn ==
    \A f \in Fetches :
        DepOf(f) \notin Idempotent /\ Running(f)
            => lane.stage = "live" /\ lane.item = f

(***************************************************************************)
(* Once the end has swept, a row is left open (neither consumed nor        *)
(* wasted) only by a fetch that was between reading the status and writing *)
(* its row at the moment the session ended.                                *)
(***************************************************************************)
OnlyCaughtRowsStayOpen ==
    swept => \A f \in Fetches : row[f] = {"written"} => f \in caught \/ IsLive(f)

\* Every turn ends: consume()'s waits are bounded.
TurnCompletes == lane.stage # "idle" ~> lane.stage = "idle"
=============================================================================
