------------------------------ MODULE Selection ------------------------------
(***************************************************************************)
(* What a turn makes of its session's pool (rerank.py, pool.py,            *)
(* runtime.py): the data closest to the utterance, without repetitions,    *)
(* and the reply that was drafted for this action and state; and the       *)
(* prompt assembled of them as the mode of the project has it.             *)
(*                                                                         *)
(* The pool is read twice, and items come and expire between.  Embeddings  *)
(* are points on a line: the closer two are, the higher is their cosine.   *)
(***************************************************************************)
EXTENDS Integers, FiniteSets, Sequences, SequencesExt

CONSTANTS
    DataShapes,    \* the data that is fetched: dependency, summary (its prefix), embedding
    Drafts,        \* the pairs of action and state replies are drafted for
    Queries,       \* the embeddings of utterances
    Prefilter,     \* MAX_PREFILTER_CANDIDATES
    MaxPicks,
    MaxPut,        \* bounds: items ever put into the pool,
    MaxTouches        \* and changes to it while a turn is under way

NoEmb == -1
Modes == {"sop", "retrieval", "both", "advisory"}
Nowhere == [action |-> "none", state |-> ""]
ASSUME SelectionAssumption ==
    /\ DataShapes \subseteq [dep : STRING, text : STRING, emb : Nat \cup {NoEmb}]
    /\ Drafts \subseteq [action : STRING, state : STRING \ {""}] /\ Queries \subseteq Nat
    /\ {Prefilter, MaxPut, MaxTouches} \subseteq Nat /\ MaxPicks \in Nat \ {0}

VARIABLES
    pool,    \* the items: when they were put, what they are
    put,     \* how many there have been
    turn     \* the turn under way: where it is, what it has read and made
selectionVars == <<pool, put, turn>>

Blank == [stage |-> "none", mode |-> "sop", at |-> Nowhere, query |-> NoEmb, seen |-> {}, picks |-> {},
          draft |-> 0, asOf |-> 0, late |-> 0, data |-> FALSE, prompt |-> <<>>, block |-> FALSE]
SelectionInit == pool = {} /\ put = 0 /\ turn = Blank

Datum(x) == [id |-> put + 1, kind |-> "data", dep |-> x.dep, text |-> x.text, emb |-> x.emb, at |-> Nowhere]
Reply(x) == [id |-> put + 1, kind |-> "instruction", dep |-> "", text |-> "", emb |-> NoEmb, at |-> x]

\* An item that expires before the turn is as good as never put.
Begun == turn.stage \in {"embed", "draft", "consume"}
Late == turn' = IF Begun THEN [turn EXCEPT !.late = @ + 1] ELSE turn

Put ==
    /\ put < MaxPut /\ (turn.stage = "none" \/ (Begun /\ turn.late < MaxTouches))
    /\ put' = put + 1
    /\ \E item \in {Datum(x) : x \in DataShapes} \cup {Reply(x) : x \in Drafts} : pool' = pool \cup {item}
    /\ Late

Expire ==
    /\ Begun /\ turn.late < MaxTouches
    /\ \E item \in pool : pool' = pool \ {item}
    /\ Late /\ UNCHANGED put

SopEnabled == turn.mode \in {"sop", "both", "advisory"}
RetrievalEnabled == turn.mode \in {"retrieval", "both", "advisory"}

-----------------------------------------------------------------------------
Distance(x, y) == IF x > y THEN x - y ELSE y - x
Near(x, y) == Distance(x, y) <= 1

Data(items) == {p \in items : p.kind = "data"}

(***************************************************************************)
(* _scored: data by its closeness to the utterance, what has no embedding  *)
(* behind it.  The pool lists the newest first, and among equals the order *)
(* of the pool stays.                                                      *)
(***************************************************************************)
Ranks(p, query) == query # NoEmb /\ p.emb # NoEmb
Ahead(p, q, query) ==
    \/ Ranks(p, query) /\ ~Ranks(q, query)
    \/ /\ Ranks(p, query) /\ Ranks(q, query)
       /\ Distance(p.emb, query) < Distance(q.emb, query)
    \/ /\ Ranks(p, query) <=> Ranks(q, query)
       /\ Ranks(p, query) => Distance(p.emb, query) = Distance(q.emb, query)
       /\ p.id > q.id

\* Mutant of Repeats: one item of each dependency is enough.
RepeatsDep(picks, p) == \E x \in picks : x.dep = p.dep

\* The same dependency and summary, or a cosine of 0.95 and more.
Repeats(picks, p) ==
    \E x \in picks :
        \/ x.dep = p.dep /\ x.text = p.text
        \/ p.emb # NoEmb /\ x.emb # NoEmb /\ Near(p.emb, x.emb)

\* _dedup_take_top_k: what is picked of S, whose last is looked at after all others.
Hindmost(S, query) == CHOOSE p \in S : \A q \in S \ {p} : Ahead(q, p, query)
TakeTop(candidates, query) ==
    LET picked[S \in SUBSET candidates] ==
          IF S = {} THEN {}
          ELSE LET p == Hindmost(S, query)
                   before == picked[S \ {p}]
               IN IF Cardinality(before) = MaxPicks \/ Repeats(before, p) THEN before ELSE before \cup {p}
    IN picked[candidates]

\* The first Prefilter of the data.
Candidates(items, query) ==
    {p \in Data(items) : Cardinality({q \in Data(items) : Ahead(q, p, query)}) < Prefilter}
Rerank(items, query) == TakeTop(Candidates(items, query), query)

-----------------------------------------------------------------------------
\* plan_turn, with the action it chose and the state it was told.
BeginTurn(mode, action, state) ==
    /\ turn.stage = "none"
    /\ LET t == [Blank EXCEPT !.mode = mode, !.at = [action |-> action, state |-> state]] IN
       turn' = IF mode = "sop" THEN [t EXCEPT !.stage = "consume"]
               ELSE [t EXCEPT !.stage = "embed", !.seen = pool]
    /\ UNCHANGED <<pool, put>>

\* rerank_pool_for_turn, with the embedding of the utterance, or without if that fails.
Embed ==
    /\ turn.stage = "embed"
    /\ \E query \in Queries \cup {NoEmb} :
          turn' = [turn EXCEPT !.query = query, !.picks = Rerank(turn.seen, query),
                               !.stage = IF SopEnabled THEN "draft" ELSE "consume"]
    /\ UNCHANGED <<pool, put>>

\* Mutant of Matching: drafts of any state serve.
MatchingAction == {x \in pool : x.kind = "instruction" /\ x.at.action = turn.at.action}

\* lookup_instruction: drafted for this action and this state; without a state, for none.
Matching == {x \in pool : x.kind = "instruction" /\ x.at = turn.at /\ turn.at.state # ""}

\* The newest of them; its row is marked consumed.
LookupInstruction ==
    /\ turn.stage = "draft"
    /\ turn' = [turn EXCEPT !.stage = "consume", !.asOf = put,
                            !.draft = IF Matching = {} THEN 0 ELSE (CHOOSE x \in Matching : \A y \in Matching : y.id <= x.id).id]
    /\ UNCHANGED <<pool, put>>

\* The data the action needs, from the pool or live, or none.
Consume ==
    /\ turn.stage = "consume"
    /\ \E data \in BOOLEAN : turn' = [turn EXCEPT !.stage = "plan", !.data = data, !.seen = {}, !.query = NoEmb, !.asOf = 0]
    /\ UNCHANGED <<pool, put>>

Part(name, present) == IF present THEN <<name>> ELSE <<>>

\* assemble_stage_prompt: the parts in their order.
StagePrompt(context) ==
    <<"stage">> \o Part("data", turn.data) \o <<"instructions">> \o Part("context", context)

\* build_plan: the modes it tests are the two and both, not "advisory".
BuildPlan ==
    /\ turn.stage = "plan"
    /\ LET context == turn.mode \in {"retrieval", "both"} /\ turn.picks # {} IN
       turn' = [turn EXCEPT !.stage = "over", !.block = context,
                            !.prompt = CASE turn.mode \notin {"sop", "both"} -> <<>>
                                         [] turn.mode = "both" /\ turn.draft # 0 -> <<"draft">>
                                         [] OTHER -> StagePrompt(context)]
    /\ UNCHANGED <<pool, put>>

SelectionNext ==
    \/ Put \/ Expire
    \/ \E mode \in Modes, action \in {x.action : x \in Drafts}, state \in {x.state : x \in Drafts} \cup {""} :
          BeginTurn(mode, action, state)
    \/ Embed \/ LookupInstruction \/ Consume \/ BuildPlan
SelectionSpec == SelectionInit /\ [][SelectionNext]_selectionVars

-----------------------------------------------------------------------------
(***************************************************************************)
(* No two of the picks say the same thing, be it in the same words or in   *)
(* others; none was drafted, and there are at most MaxPicks.               *)
(***************************************************************************)
PicksAreDistinct ==
    /\ Cardinality(turn.picks) <= MaxPicks
    /\ \A p, q \in turn.picks : p # q =>
          /\ p.dep # q.dep \/ p.text # q.text
          /\ p.emb = NoEmb \/ q.emb = NoEmb \/ ~Near(p.emb, q.emb)

(***************************************************************************)
(* The choice is the best one: a candidate is left out only for picks that *)
(* are at least as close and repeat it, or are as many as there may be.    *)
(* (That what is too far down to be a candidate is left out although all   *)
(* candidates repeat each other is how the code has it.)                   *)
(***************************************************************************)
Closer(p, q) ==
    \/ turn.query = NoEmb \/ q.emb = NoEmb
    \/ p.emb # NoEmb /\ Distance(p.emb, turn.query) <= Distance(q.emb, turn.query)
NothingBetterLeftOut ==
    turn.stage \in {"draft", "consume"} =>
        \A q \in Candidates(turn.seen, turn.query) \ turn.picks :
            \/ \E p \in turn.picks :
                  /\ Closer(p, q)
                  /\ (p.dep = q.dep /\ p.text = q.text) \/ (p.emb # NoEmb /\ q.emb # NoEmb /\ Near(p.emb, q.emb))
            \/ Cardinality(turn.picks) = MaxPicks /\ \A p \in turn.picks : Closer(p, q)

(***************************************************************************)
(* Each mode keeps to itself: a project without retrieval is shown nothing *)
(* speculative, one without procedures is given no instructions.  What is  *)
(* speculative is only ever shown in its frame, which a verbatim draft     *)
(* does without; and a draft that was counted as consumed is served,       *)
(* unless the mode is "advisory" (whose turns are not planned here, but    *)
(* can be).                                                                *)
(***************************************************************************)
ModesAreKept ==
    turn.stage = "over" =>
        /\ turn.mode = "sop" => turn.picks = {} /\ turn.draft = 0 /\ ~turn.block /\ turn.prompt # <<>>
        /\ turn.mode = "retrieval" => turn.prompt = <<>> /\ turn.draft = 0
        /\ turn.mode = "both" => (turn.draft # 0 <=> turn.prompt = <<"draft">>)
        /\ Contains(turn.prompt, "context") => turn.block /\ turn.picks # {}
        /\ turn.block /\ turn.mode = "both" => turn.draft # 0 \/ Last(turn.prompt) = "context"

(***************************************************************************)
(* A draft that is served was made for what has happened: this action and  *)
(* the state the user turned out to be in; of several, the newest.         *)
(***************************************************************************)
DraftsServeTheirTurn ==
    turn.stage = "consume" /\ turn.draft # 0 =>
        /\ turn.at.state # ""
        /\ \A x \in pool : x.id = turn.draft => x.kind = "instruction" /\ x.at = turn.at
        /\ \A x \in pool : x.kind = "instruction" /\ x.at = turn.at => x.id <= turn.draft \/ x.id > turn.asOf

(***************************************************************************)
(* What is shown of the pool is the best of it, each thing once.           *)
(***************************************************************************)
PicksAreBest == PicksAreDistinct /\ NothingBetterLeftOut

(***************************************************************************)
(* What a turn serves is what its mode allows and what was prepared for    *)
(* it, although the pool changes between its reads.                        *)
(***************************************************************************)
TurnsAreServedAsPlanned == ModesAreKept /\ DraftsServeTheirTurn
=============================================================================
