---------------------------- MODULE MCWorkbench ----------------------------
(***************************************************************************)
(* Small instances of the parts; the predictor's conversations and actions *)
(* are interchangeable.                                                    *)
(***************************************************************************)
EXTENDS Workbench

\* Predictor: a turn outside any cohort, and one in the cohort; an action needs one dependency.
MCSituations == {[cohort |-> Nothing, state |-> "s1"], [cohort |-> "c1", state |-> "s2"]}
MCDepsOf == [a \in Actions |-> {"d"}]

\* Selection: two summaries that begin alike, one without an embedding, and two drafts for an action.
Shape(d, t, e) == [dep |-> d, text |-> t, emb |-> e]
MCDataShapes == {Shape("d", "x", 0), Shape("d", "y", 3), Shape("e", "x", 4), Shape("d", "y", NoEmb)}
MCDrafts == {[action |-> "a", state |-> "s"], [action |-> "a", state |-> "t"]}

\* Builder: any edge between actions, those written backwards from one of them, and triggers from states.
MCOffered ==
    [src : ActionNames, dst : ActionNames, direction : {"forward"}]
    \cup [src : {"a"}, dst : ActionNames, direction : {"backward"}]
    \cup [src : StateNames, dst : ActionNames, direction : {"forward"}]

\* Connectors: dependencies that name one, with and without keys of their own, and one that names a secret itself.
MCDependencies ==
    {[connector |-> n, kind |-> "http", url |-> u, secret |-> ""] : n \in ConnectorNames \cup {""}, u \in {"u1", ""}}
    \cup {[connector |-> "", kind |-> "mcp", url |-> "u2", secret |-> s] : s \in SecretNames}
Offer(k, u, x, e) == [kind |-> k, url |-> u, secret |-> x, enabled |-> e]
MCOffers ==
    {Offer("http", "u1", "s1", TRUE), Offer("mcp", "u2", "s1", FALSE),
     Offer("mcp", "u2", "", TRUE), Offer("mock", "", "s1", TRUE)}
\* Entries of a robot: of a connector and not, with each kind of authorization, with a url and without.
MCServers ==
    [connector : {""}, url : {"u1"}, auth : SecretNames \cup {"", "typed"}]
    \cup {[connector |-> n, url |-> x[1], auth |-> x[2]] :
            n \in ConnectorNames, x \in {<<"", "">>, <<"", "s1">>, <<"u1", "typed">>}}
    \cup {[connector |-> "", url |-> "", auth |-> ""]}

\* Corpora: the same document again, with another topic, with another text, and twice in one request.
Doc(k, t, x) == [key |-> k, topic |-> t, text |-> x]
MCUploads ==
    {<<Doc("k", "t", "x")>>, <<Doc("k", "u", "x")>>,
     <<Doc("k", "t", "y"), Doc("m", "t", "x")>>, <<Doc("m", "t", "y"), Doc("m", "u", "x")>>}

\* Metrics: no score, the least, a usual one and one above the scale.
MCScores == {Garbage, 0, 900, 1200}

\* Schemas: no options, the blank one, and two of which one reads as a number.
MCOptionSets == {{}, {""}, {"1", "text"}}

MCSymmetry == Permutations(Conversations) \cup Permutations(Actions)
=============================================================================
