------------------------------- MODULE Metrics -------------------------------
(***************************************************************************)
(* What the operator is shown of it all: the summary of a project          *)
(* (api/metrics.py), the health of its connectors (api/connectors.py) and  *)
(* the result of an A/B test (abtest.py).  The summary asks query by query *)
(* while rows are written and marked consumed.                             *)
(***************************************************************************)
EXTENDS Integers, FiniteSets, FiniteSetsExt, Functions, Sequences, SequencesExt

CONSTANTS
    Durations,      \* pick_duration_ms
    Scores,         \* what a judge may answer, in thousandths, or Garbage
    MaxRows,        \* bounds: rows in all,
    MaxMeanwhile,   \* changes to them while a summary is made,
    MaxRun          \* and turns of all the sessions of an arm

Garbage == -1
ASSUME MetricsAssumption == Durations \subseteq Nat /\ Scores \subseteq Nat \cup {Garbage} /\ {MaxRows, MaxMeanwhile, MaxRun} \subseteq Nat

VARIABLES
    audit,     \* data_fetches, pool_picks, turns and sessions, in the order they were written
    report,    \* the summary under way: the query it comes to, and its figures
    arm        \* the sessions of an arm of a test, each with the scores of its turns
metricsVars == <<audit, report, arm>>

Tables == {"fetch", "pick", "turn", "session"}
\* The summary's queries, each with its answer.
QueryOrder == <<"fetches", "drafts", "turns", "picks", "picked", "sessions", "done">>
NoReport == [query |-> "idle", figures |-> [query \in Range(QueryOrder) |-> <<>>], late |-> 0, before |-> [t \in Tables |-> 0]]
MetricsInit ==
    /\ audit = [t \in Tables |-> <<>>] /\ report = NoReport /\ arm = <<>>

(***************************************************************************)
(* The rows.  A fetch that cannot resolve its connector is recorded        *)
(* without its name; what failed never gets to the pool, to be consumed.   *)
(***************************************************************************)
Fetches ==
    [kind : {"data"}, speculative : BOOLEAN, consumed : {FALSE}, connector : {"emr"}, error : BOOLEAN]
    \cup [kind : {"data"}, speculative : BOOLEAN, consumed : {FALSE}, connector : {""}, error : {TRUE}]
    \cup [kind : {"instruction"}, speculative : {TRUE}, consumed : {FALSE}, connector : {""}, error : {FALSE}]
RowsOf(t) ==
    CASE t = "fetch" -> Fetches
      [] t = "pick" -> [some : BOOLEAN, ms : Durations]
      [] t = "turn" -> [first : BOOLEAN, hit : BOOLEAN]
      [] t = "session" -> {[status |-> "active", outcome |-> ""]}

Size(tables) == SumFunction([t \in Tables |-> Len(tables[t])])
Idle == report.query = "idle"
Meanwhile ==
    /\ report.query # "done" /\ (Idle \/ report.late < MaxMeanwhile)
    /\ report' = IF Idle THEN report ELSE [report EXCEPT !.late = @ + 1]
    /\ UNCHANGED arm
WriteRow(t) ==
    /\ Size(audit) < MaxRows /\ arm = <<>> /\ Meanwhile
    /\ \E x \in RowsOf(t) : audit' = [audit EXCEPT ![t] = Append(@, x)]

\* What was fetched live is pooled as well, and may serve a later turn.
Pooled(x) == ~x.error

MarkConsumed(i) ==
    /\ Pooled(audit["fetch"][i]) /\ Meanwhile
    /\ audit' = [audit EXCEPT !["fetch"][i].consumed = TRUE]

\* Outcomes are recorded before the session ends, or never.
SessionMoves(i) ==
    /\ audit["session"][i].status = "active" /\ Meanwhile
    /\ \E x \in [status : {"active", "ended"}, outcome : {audit["session"][i].outcome, "success"}] :
          audit' = [audit EXCEPT !["session"][i] = x]

-----------------------------------------------------------------------------
\* COUNT of the rows that pass a test.
Where(t, Test(_)) == Cardinality({i \in DOMAIN audit[t] : Test(audit[t][i])})

\* Mutant of FetchFigures: drafts that were served count with the data.
FetchFiguresAndDrafts ==
    [fetches |-> Where("fetch", LAMBDA x : x.kind # "instruction"),
     hits |-> Where("fetch", LAMBDA x : x.speculative /\ x.consumed),
     live |-> Where("fetch", LAMBDA x : x.kind # "instruction" /\ ~x.speculative)]

FetchFigures ==
    [fetches |-> Where("fetch", LAMBDA x : x.kind # "instruction"),
     hits |-> Where("fetch", LAMBDA x : x.kind # "instruction" /\ x.speculative /\ x.consumed),
     live |-> Where("fetch", LAMBDA x : x.kind # "instruction" /\ ~x.speculative)]
DraftFigures ==
    [drafts |-> Where("fetch", LAMBDA x : x.kind = "instruction"),
     served |-> Where("fetch", LAMBDA x : x.kind = "instruction" /\ x.consumed)]
TurnFigures ==
    [eligible |-> Where("turn", LAMBDA x : ~x.first), turnHits |-> Where("turn", LAMBDA x : ~x.first /\ x.hit)]

\* What comes at position i, from 0, when durations are sorted: the least that more than i do not exceed.
Upto(ms, x) == Cardinality({j \in DOMAIN ms : ms[j] <= x})
AtRank(ms, i) == CHOOSE x \in Range(ms) : Upto(ms, x) > i /\ \A y \in Range(ms) : Upto(ms, y) > i => x <= y

\* pct: the value at q * len, capped at the last; q in percent.
Percentile(ms, q) ==
    LET i == (q * Len(ms)) \div 100 IN
    IF ms = <<>> THEN 0 ELSE AtRank(ms, IF i < Len(ms) THEN i ELSE Len(ms) - 1)

PickFigures ==
    LET ms == [i \in DOMAIN audit["pick"] |-> audit["pick"][i].ms] IN
    [reranks |-> Len(ms), p50 |-> Percentile(ms, 50), p95 |-> Percentile(ms, 95)]
PickedFigures == [picked |-> Where("pick", LAMBDA x : x.some)]

\* An ended session without an outcome has none; an active one is in progress.
LabelOf(x) == IF x.outcome # "" THEN x.outcome ELSE IF x.status = "active" THEN "in_progress" ELSE "no_outcome"
SessionFigures ==
    [l \in {"success", "in_progress", "no_outcome"} |-> Where("session", LAMBDA x : LabelOf(x) = l)]

Answer(query) ==
    CASE query = "fetches" -> FetchFigures
      [] query = "drafts" -> DraftFigures
      [] query = "turns" -> TurnFigures
      [] query = "picks" -> PickFigures
      [] query = "picked" -> PickedFigures
      [] query = "sessions" -> SessionFigures

AskSummary ==
    /\ Idle /\ Size(audit) > 0
    /\ report' = [NoReport EXCEPT !.query = "fetches", !.before = [t \in Tables |-> Len(audit[t])]]
    /\ UNCHANGED <<audit, arm>>
SummaryStep ==
    /\ report.query \notin {"idle", "done"}
    /\ report' = [report EXCEPT !.figures[report.query] = Answer(report.query),
                                !.query = QueryOrder[1 + CHOOSE i \in DOMAIN QueryOrder : QueryOrder[i] = report.query]]
    /\ UNCHANGED <<audit, arm>>

\* list_connectors: one query, by the name recorded.
Health(c) ==
    [fetches |-> Where("fetch", LAMBDA x : x.connector = c),
     errors |-> Where("fetch", LAMBDA x : x.connector = c /\ x.error),
     consumed |-> Where("fetch", LAMBDA x : x.connector = c /\ x.consumed)]

-----------------------------------------------------------------------------
(***************************************************************************)
(* An arm of a test.                                                       *)
(***************************************************************************)
\* _judge_turn: a score within its bounds, the middle if it cannot be read.
Clamped(raw, middle, top) == IF raw = Garbage THEN middle ELSE Min({raw, top})

RunLength == SumFunction([s \in DOMAIN arm |-> Len(arm[s].turns)])

\* _run_arm_session: turn after turn, until a terminal state or the last turn.
JudgeTurn ==
    /\ report = NoReport /\ audit = [t \in Tables |-> <<>>] /\ RunLength < MaxRun
    /\ \E raw \in Scores :
          LET turn == [index |-> 0, accuracy |-> Clamped(raw, 500, 1000)] IN
          \/ arm' = Append(arm, [turns |-> <<turn>>, outcome |-> "abandoned"])
          \/ /\ arm # <<>> /\ Last(arm).outcome = "abandoned"
             /\ arm' = [arm EXCEPT ![Len(arm)].turns = Append(@, [turn EXCEPT !.index = Len(Last(arm).turns)])]
    /\ UNCHANGED <<audit, report>>
Terminal ==
    /\ arm # <<>> /\ Last(arm).outcome = "abandoned"
    /\ \E outcome \in {"success", "failure"} : arm' = [arm EXCEPT ![Len(arm)].outcome = outcome]
    /\ UNCHANGED <<audit, report>>

\* _aggregate: the sessions that got as far as turn i.
ByTurn(i) == {s \in DOMAIN arm : \E t \in DOMAIN arm[s].turns : arm[s].turns[t].index = i}
PerTurn(i) == [n |-> Cardinality(ByTurn(i)),
               sum |-> SumFunction([s \in ByTurn(i) |-> arm[s].turns[i + 1].accuracy])]
Accuracy(turns) == SumFunction([t \in DOMAIN turns |-> turns[t].accuracy])
Overall == [n |-> RunLength,
            sum |-> SumFunction([s \in DOMAIN arm |-> Accuracy(arm[s].turns)])]

MetricsNext ==
    \/ \E t \in Tables : WriteRow(t)
    \/ \E i \in DOMAIN audit["fetch"] : MarkConsumed(i)
    \/ \E i \in DOMAIN audit["session"] : SessionMoves(i)
    \/ AskSummary \/ SummaryStep
    \/ JudgeTurn \/ Terminal
MetricsSpec == MetricsInit /\ [][MetricsNext]_metricsVars

-----------------------------------------------------------------------------
(***************************************************************************)
(* A summary adds up, although its queries see different rows: no rate is  *)
(* above one, and all sessions are under some outcome.  Only pick_rate can *)
(* be, by picks that came between its two queries.                         *)
(***************************************************************************)
SummariesAddUp ==
    report.query = "done" =>
        LET f == report.figures
            late == Len(audit["pick"]) - report.before["pick"] IN
        /\ f.fetches.hits + f.fetches.live <= f.fetches.fetches
        /\ f.drafts.served <= f.drafts.drafts /\ f.turns.turnHits <= f.turns.eligible
        /\ f.picked.picked <= f.picks.reranks + late
        /\ report.before["session"] <= SumFunction(f.sessions)
        /\ SumFunction(f.sessions) <= Len(audit["session"])

(***************************************************************************)
(* A percentile is one of the durations there were, and as many as it says *)
(* are not above it; the 50th is not above the 95th.                       *)
(***************************************************************************)
PercentilesAreDurations ==
    LET f == report.figures.picks
        rows == audit["pick"]
    IN report.query = "done" /\ f.reranks > 0 =>
        /\ {f.p50, f.p95} \subseteq {rows[i].ms : i \in DOMAIN rows}
        /\ f.p50 <= f.p95
        /\ 2 * Cardinality({i \in 1 .. f.reranks : rows[i].ms <= f.p50}) >= f.reranks

(***************************************************************************)
(* The health of a connector adds up: what failed was not consumed, ever.  *)
(***************************************************************************)
HealthAddsUp == LET h == Health("emr") IN h.errors + h.consumed <= h.fetches

(***************************************************************************)
(* The turns of an arm are all in its curve, and once: the samples behind  *)
(* the points sum up to the run, get fewer from turn to turn and give the  *)
(* overall mean; and a judge nobody understands moves no score out of its  *)
(* bounds.                                                                 *)
(***************************************************************************)
CurvesAreWhole ==
    /\ SumFunction([i \in 0 .. MaxRun - 1 |-> PerTurn(i).n]) = Overall.n
    /\ SumFunction([i \in 0 .. MaxRun - 1 |-> PerTurn(i).sum]) = Overall.sum
    /\ \A i \in 1 .. MaxRun - 1 : PerTurn(i).n <= PerTurn(i - 1).n
    /\ Overall.sum <= 1000 * Overall.n

(***************************************************************************)
(* The figures an operator reads fit each other, although each is of a     *)
(* query of its own and the rows change between.                           *)
(***************************************************************************)
FiguresAddUp ==
    /\ SummariesAddUp
    /\ PercentilesAreDurations
    /\ HealthAddsUp
    /\ CurvesAreWhole
=============================================================================
