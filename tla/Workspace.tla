------------------------------ MODULE Workspace ------------------------------
(***************************************************************************)
(* A tenant's workspace: the operator's requests and what happens to those *)
(* who work with a key meanwhile.  A behaviour has the operator, ordinary  *)
(* requests, and one of: an A/B test, the MCP bridge, the copilot (a bound *)
(* on what is combined, not a choice of the code).                         *)
(***************************************************************************)
EXTENDS ABTest, Bridge, Copilot

VARIABLE focus
all == <<vars, testVars, bridgeVars, copilotVars, focus>>

WorkspaceInit ==
    /\ Init /\ TestInit /\ BridgeInit /\ CopilotInit
    /\ focus \in {"test", "bridge", "copilot"}
    /\ focus # "bridge" => mount = "server"

KeyIds == 1 .. MaxKeys

Operator(r) ==
    /\ \/ \E kind \in AdminKinds, slug \in Slugs, k \in KeyIds \cup {0} : Ask(r, kind, slug, k)
       \/ Commit(r)
       \/ req[r].kind \in AdminKinds \cup {"write", "test"} /\ Fail(r)
    /\ UNCHANGED <<testVars, bridgeVars, copilotVars, focus>>

\* Ordinary requests with a key, and one test in all.
Caller(r) ==
    /\ focus = "test"
    /\ \/ \E k \in KeyIds, table \in {"projects", "sessions"} : Resolve(r, "write", k, "commit", table)
       \/ /\ test.status = None /\ Waiting({"test"}) = {}
          /\ \E k \in KeyIds : Resolve(r, "test", k, "commit", None)
    /\ UNCHANGED <<testVars, bridgeVars, copilotVars, focus>>

Tests ==
    /\ focus = "test"
    /\ \/ \E r \in Clients : StartTest(r)
       \/ TestStep \/ TestFails \/ TestCrash
    /\ UNCHANGED <<bridgeVars, copilotVars, focus>>

Guides ==
    /\ focus = "bridge"
    /\ \/ \E r \in Clients, c \in Calls : Guide(r, c)
       \/ \E r \in Clients : GuideStep(r)
       \/ BridgeCrash
    /\ UNCHANGED <<testVars, copilotVars, focus>>

Assists ==
    /\ focus = "copilot"
    /\ \/ \E r \in Clients, kind \in CopilotKinds, k \in KeyIds, title \in Titles \cup {None} :
             AskCopilot(r, kind, k, title)
       \/ \E r \in Clients : CopilotStep(r) \/ RollBack(r)
       \/ CopilotCrash
    /\ UNCHANGED <<testVars, bridgeVars, focus>>

Next ==
    \/ \E r \in Clients : Operator(r) \/ Caller(r)
    \/ Tests
    \/ Guides
    \/ Assists

\* The event loop runs every request and the task; nothing has to be asked for or to fail.
Fairness ==
    /\ WF_all(TestStep /\ UNCHANGED <<bridgeVars, copilotVars, focus>>)
    /\ \A r \in Clients :
          WF_all(\/ (Commit(r) /\ UNCHANGED <<testVars, bridgeVars, copilotVars, focus>>)
                 \/ (StartTest(r) /\ UNCHANGED <<bridgeVars, copilotVars, focus>>)
                 \/ (GuideStep(r) /\ UNCHANGED <<testVars, copilotVars, focus>>)
                 \/ (CopilotStep(r) /\ UNCHANGED <<testVars, bridgeVars, focus>>))
Spec == WorkspaceInit /\ [][Next]_all /\ Fairness

(***************************************************************************)
(* Every request ends, those included that wait for another one's thread   *)
(* while the model thinks.                                                 *)
(***************************************************************************)
EveryRequestEnds == \A r \in Clients : ~At(r, "closed") ~> At(r, "closed")

(***************************************************************************)
(* Nothing hangs: the requests and the test all come to their end.         *)
(***************************************************************************)
EverythingEnds == EveryRequestEnds /\ TestsEnd
=============================================================================
