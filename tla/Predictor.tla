------------------------------ MODULE Predictor ------------------------------
(***************************************************************************)
(* The trajectory predictor (predictor.py): what followed an action in the *)
(* traces of past turns, weighted by how the session ended and pulled      *)
(* towards what follows it in all cohorts; and the plan of fetches and     *)
(* drafts a worker makes of it.                                            *)
(*                                                                         *)
(* A worker asks query by query, while turns are recorded and outcomes     *)
(* rewrite the rewards of earlier ones.  Weights are in units of 0.05 and  *)
(* do not age (recency_half_life_days = 0).                                *)
(***************************************************************************)
EXTENDS Integers, FiniteSets, FiniteSetsExt, Functions, Sequences, SequencesExt

CONSTANTS
    Actions, Cohorts, States,
    Situations,      \* what a turn may look like: its cohort and its state
    DepsOf,          \* the dependencies of each action
    Outcomes,        \* the outcomes that are reported
    Conversations,   \* sessions whose turns are traced
    MinSupporting,   \* predictor_min_supporting
    Kappa,           \* predictor_shrinkage_kappa, in the units of the weights
    MaxPergen,       \* instruction_prefetch_max_pergen
    MaxTraces,       \* bounds: traces in all,
    MaxLate          \* and changes to them while the worker asks

Nothing == "nothing"
Horizon == 2                          \* max_offset is 3; bound
DecayAt == <<741, 549>>               \* exp(-0.3 * offset), in thousandths (the code rounds to four digits)
MinConfidence == 50
Rewards == [success |-> 20, abandoned |-> 5, failure |-> 0]
Neutral == 6
ASSUME PredictorAssumption ==
    /\ MinSupporting \in Nat \ {0} /\ Kappa \in Nat /\ MaxPergen \in Nat \ {0} /\ MaxTraces \in Nat /\ MaxLate \in Nat
    /\ IsFiniteSet(Conversations) /\ Outcomes \subseteq DOMAIN Rewards
    /\ Situations \subseteq [cohort : Cohorts \cup {Nothing}, state : States \cup {Nothing}]
    /\ Nothing \notin Actions \cup Cohorts \cup States

VARIABLES
    traces,   \* the rows of a session, in the order of its turns
    failed,   \* history: some session has been recorded as a failure
    asked,    \* the event: the action and the cohort of a turn
    late,     \* counts the changes under way
    step,     \* the query the worker is about to make, and for which offset
    dist,     \* the answer to the last one: action -> weight
    forecast  \* predictions: action, offset, and the probability as a fraction
predictorVars == <<traces, failed, asked, late, step, dist, forecast>>

PredictorInit ==
    /\ traces = [c \in Conversations |-> <<>>]
    /\ failed = FALSE
    /\ asked = [action |-> Nothing, cohort |-> Nothing]
    /\ late = 0
    /\ step = [query |-> "none", offset |-> 0]
    /\ dist = <<>>
    /\ forecast = {}

Rows == SumFunction([c \in Conversations |-> Len(traces[c])])

\* What happens once the worker is done is of no interest to it.
Changes ==
    /\ step.query # "done"
    /\ step.query # "none" => late < MaxLate
    /\ late' = IF step.query = "none" THEN 0 ELSE late + 1

\* A turn is recorded; its session has no outcome yet.
Record(c, a, x) ==
    /\ Rows < MaxTraces /\ Changes
    /\ traces' = [traces EXCEPT ![c] = Append(@, [action |-> a, cohort |-> x.cohort, state |-> x.state, reward |-> Neutral])]
    /\ UNCHANGED <<failed, asked, step, dist, forecast>>

\* An outcome sets the reward of every trace the session has.
Reward(c, outcome) ==
    /\ traces[c] # <<>> /\ Changes
    /\ traces' = [traces EXCEPT ![c] = [i \in DOMAIN @ |-> [@[i] EXCEPT !.reward = Rewards[outcome]]]]
    /\ failed' = (failed \/ outcome = "failure")
    /\ UNCHANGED <<asked, step, dist, forecast>>

-----------------------------------------------------------------------------
\* The join: the rows k turns after one with the action, in the same session.
Followers(a, k, cohorts) ==
    {<<y[1], y[2] + k>> : y \in
        {x \in Conversations \X (1 .. MaxTraces) :
            /\ x[2] \in DOMAIN traces[x[1]] /\ x[2] + k \in DOMAIN traces[x[1]]
            /\ traces[x[1]][x[2]].action = a /\ traces[x[1]][x[2]].cohort \in cohorts}}

Everyone == Cohorts \cup {Nothing}
Clause(cohort) == IF cohort = Nothing THEN Everyone ELSE {cohort}
Row(x) == traces[x[1]][x[2]]
Weigh(rows) == SumFunction([x \in rows |-> Row(x).reward])
\* GROUP BY the action of the follower: how many rows, and their weight.
Grouped(rows) ==
    [a \in {Row(x).action : x \in rows} |->
        LET of == {x \in rows : Row(x).action = a} IN [count |-> Cardinality(of), weight |-> Weigh(of)]]
Count(d) == SumFunction([a \in DOMAIN d |-> d[a].count])
Mass(d) == SumFunction([a \in DOMAIN d |-> d[a].weight])
WeightOf(d, a) == IF a \in DOMAIN d THEN d[a].weight ELSE 0

\* Mutant of Shrunk: the mass of the prior is not counted in the denominator.
ShrunkTooLittle(d, prior, a) ==
    LET v == Max({Mass(prior), 1}) IN
    [num |-> WeightOf(d, a) * v + Kappa * WeightOf(prior, a), den |-> v * Max({Mass(d), 1})]

\* finalize_probs: (w + kappa * prior) / (W + kappa), the prior normalised unless it has no mass.
Shrunk(d, prior, a) ==
    LET v == Max({Mass(prior), 1})
        m == Mass(d) + Kappa
    IN [num |-> WeightOf(d, a) * v + Kappa * WeightOf(prior, a), den |-> v * Max({m, 1})]

Predicted(d, prior, k) ==
    {[action |-> a, offset |-> k, p |-> Shrunk(d, prior, a)] : a \in DOMAIN d \cup DOMAIN prior}

-----------------------------------------------------------------------------
\* _predict_and_prefetch: the event names the action and the cohort of its turn.
AskPredictor(a, cohort) ==
    /\ step.query = "none"
    /\ asked' = [action |-> a, cohort |-> cohort]
    /\ step' = [query |-> "cohort", offset |-> 1]
    /\ UNCHANGED <<traces, failed, late, dist, forecast>>

NextOffset == IF step.offset = Horizon THEN [query |-> "done", offset |-> Horizon]
              ELSE [query |-> "cohort", offset |-> step.offset + 1]

\* Enough rows, of whichever query: the prior is asked; else the offset has no predictions.
AfterDistribution(d) == IF Count(d) >= MinSupporting THEN [step EXCEPT !.query = "prior"] ELSE NextOffset

\* A cohort with any row at all is not widened, even if its rows are too few.
LookupCohort ==
    /\ step.query = "cohort"
    /\ LET d == Grouped(Followers(asked.action, step.offset, Clause(asked.cohort))) IN
       /\ dist' = d
       /\ step' = IF d = <<>> THEN [step EXCEPT !.query = "wide"] ELSE AfterDistribution(d)
    /\ UNCHANGED <<traces, failed, asked, late, forecast>>

LookupWide ==
    /\ step.query = "wide"
    /\ LET d == Grouped(Followers(asked.action, step.offset, Everyone)) IN
       dist' = d /\ step' = AfterDistribution(d)
    /\ UNCHANGED <<traces, failed, asked, late, forecast>>

Shrink ==
    /\ step.query = "prior"
    /\ LET prior == IF Kappa = 0 THEN <<>> ELSE Grouped(Followers(asked.action, step.offset, Everyone)) IN
       forecast' = forecast \cup Predicted(dist, prior, step.offset)
    /\ step' = NextOffset /\ dist' = <<>>
    /\ UNCHANGED <<traces, failed, asked, late>>

PredictorNext ==
    \/ \E c \in Conversations, a \in Actions, x \in Situations : Record(c, a, x)
    \/ \E c \in Conversations, outcome \in Outcomes : Reward(c, outcome)
    \/ \E a \in Actions, cohort \in Everyone : AskPredictor(a, cohort)
    \/ LookupCohort \/ LookupWide \/ Shrink
PredictorSpec == PredictorInit /\ [][PredictorNext]_predictorVars

-----------------------------------------------------------------------------
Rounded(num, den) == (2 * num + den) \div (2 * den)
ConfidenceOf(f) == Rounded(f.p.num * DecayAt[f.offset], f.p.den)

\* Mutant of Before: the farther turn first.
BeforeByOffset(x, y) == x.offset > y.offset

\* The order of the plan.
Before(x, y) ==
    \/ x.confidence > y.confidence
    \/ x.confidence = y.confidence /\ x.offset < y.offset

\* build_prefetch_plan: the dependencies of the predicted actions; Before says how they are sorted.
BuildPrefetchPlan ==
    UNION {{[dep |-> d, action |-> f.action, offset |-> f.offset, confidence |-> ConfidenceOf(f)]
              : d \in DepsOf[f.action]} : f \in forecast}

\* schedule: the items above the floor whose dependency and action nobody before them has claimed.
Scheduled ==
    LET plan == {i \in BuildPrefetchPlan : i.confidence >= MinConfidence} IN
    {i \in plan : \A j \in plan : j.dep = i.dep /\ j.action = i.action => ~Before(j, i)}

\* next_state_distribution: the states seen a turn after the action, in the cohort or else anywhere.
Heard(cohorts) == {x \in Followers(asked.action, 1, cohorts) : Row(x).state # Nothing}
NextStates ==
    LET rows == IF Heard(Clause(asked.cohort)) # {} THEN Heard(Clause(asked.cohort)) ELSE Heard(Everyone)
    IN [s \in {Row(x).state : x \in rows} |-> Weigh({x \in rows : Row(x).state = s})]

\* The elements of S in an order in which none comes after one it precedes.
Sorted(S, precedes) ==
    CHOOSE seq \in [1 .. Cardinality(S) -> S] :
        \A i, j \in DOMAIN seq : i < j => seq[i] # seq[j] /\ <<seq[j], seq[i]>> \notin precedes
Foremost(seq, n) == SubSeq(seq, 1, Min({n, Len(seq)}))

\* The pairs a worker drafts replies for: two actions by two states, the likeliest of these.
Likelier(f, g) == f.p.num * g.p.den > g.p.num * f.p.den
NextActions ==
    LET S == {f \in forecast : f.offset = 1} IN Foremost(Sorted(S, {x \in S \X S : Likelier(x[1], x[2])}), 2)
HeardStates(weights) ==
    LET S == DOMAIN weights IN Foremost(Sorted(S, {x \in S \X S : weights[x[1]] > weights[x[2]]}), 2)
\* The likelihood of each pair, in thousandths.
Joint(next, heard, weights) ==
    LET mass == Max({1, SumFunction(weights)})
    IN [c \in (DOMAIN next) \X (DOMAIN heard) |->
           Rounded(next[c[1]].p.num * weights[heard[c[2]]] * 1000, next[c[1]].p.den * mass)]
\* The pairs in their order: by likelihood, then by action.
Pairs(joint) ==
    LET S == DOMAIN joint
        first(c, d) ==
            \/ joint[c] > joint[d]
            \/ joint[c] = joint[d] /\ 3 * c[1] + c[2] < 3 * d[1] + d[2]
    IN Sorted(S, {x \in S \X S : first(x[1], x[2])})
Drafted ==
    LET next == NextActions
        weights == NextStates
        heard == HeardStates(weights)
        drafts == Foremost(Pairs(Joint(next, heard, weights)), MaxPergen)
    IN [n \in DOMAIN drafts |-> [action |-> next[drafts[n][1]].action, state |-> heard[drafts[n][2]]]]

-----------------------------------------------------------------------------
(***************************************************************************)
(* The predictions for an offset are a distribution, although its two      *)
(* queries may see different rows and rewards; only failures, which weigh  *)
(* nothing, can leave it short of one.                                     *)
(***************************************************************************)
ProbabilitiesAddUp ==
    \A k \in 1 .. Horizon : LET of == {f \in forecast : f.offset = k} IN
        of # {} =>
            LET total == SumFunction([f \in of |-> f.p.num])
                den == (CHOOSE f \in of : TRUE).p.den
            IN /\ \A f \in of : f.p.den = den
               /\ total <= den
               /\ ~failed => total = den

(***************************************************************************)
(* Nothing is foreseen that has not happened: a predicted action has       *)
(* followed the one of the event, so many turns later and in one session,  *)
(* and there were enough such turns to judge by.                           *)
(***************************************************************************)
ForecastsHavePrecedent ==
    \A f \in forecast :
        /\ \E c \in Conversations : \E i \in DOMAIN traces[c] :
              /\ traces[c][i].action = asked.action
              /\ i + f.offset \in DOMAIN traces[c]
              /\ traces[c][i + f.offset].action = f.action
        /\ Cardinality({x \in Conversations \X (1 .. MaxTraces) :
              /\ x[2] \in DOMAIN traces[x[1]] /\ x[2] + f.offset \in DOMAIN traces[x[1]]
              /\ traces[x[1]][x[2]].action = asked.action}) >= MinSupporting

(***************************************************************************)
(* Of the turns an action is foreseen for, its dependencies are fetched    *)
(* for the likeliest, and once.                                            *)
(***************************************************************************)
LikeliestIsFetched ==
    step.query = "done" =>
        LET scheduled == Scheduled IN
        \A f \in forecast : ConfidenceOf(f) >= MinConfidence =>
            \A d \in DepsOf[f.action] :
                \E i \in scheduled :
                    /\ i.dep = d /\ i.action = f.action /\ i.confidence >= ConfidenceOf(f)
                    /\ \A j \in scheduled : j.dep = d /\ j.action = f.action => j = i

(***************************************************************************)
(* When replies are drafted, the likeliest next action and the likeliest   *)
(* next state are among them, however few drafts there may be and however  *)
(* little speaks for any.                                                  *)
(***************************************************************************)
LikeliestIsDrafted ==
    step.query = "done" =>
        LET drafted == Drafted
            weights == NextStates
        IN drafted # <<>> =>
            /\ \A f \in forecast : f.offset = 1 =>
                  \E n \in DOMAIN drafted : \E g \in forecast :
                      g.offset = 1 /\ g.action = drafted[n].action /\ g.p.num * f.p.den >= f.p.num * g.p.den
            /\ \A s \in DOMAIN weights : \E n \in DOMAIN drafted : weights[drafted[n].state] >= weights[s]

(***************************************************************************)
(* What is foreseen is a distribution over what has happened before,       *)
(* although it is put together of queries that see different rows.         *)
(***************************************************************************)
ForecastsAreSound == ProbabilitiesAddUp /\ ForecastsHavePrecedent

(***************************************************************************)
(* Whatever is cut, claimed by another turn or rounded, the likeliest      *)
(* turn is prepared: its data is fetched and its reply drafted.            *)
(***************************************************************************)
LikeliestComesFirst == LikeliestIsFetched /\ LikeliestIsDrafted
=============================================================================
