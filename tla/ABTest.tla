------------------------------- MODULE ABTest -------------------------------
(***************************************************************************)
(* A/B tests (api/abtests.py, abtest.py): a background task that drives    *)
(* sessions through the public API with the key of the caller, alternating *)
(* the arms, and keeps its progress on the row of the test.                *)
(***************************************************************************)
EXTENDS Tenancy

CONSTANT Sessions   \* n_sessions, per arm
ASSUME SessionsAssumption == Sessions \in Nat \ {0}

VARIABLES
    test,   \* the row: tenant, status, sessions completed
    task,   \* the task: where it is, its key, the arm sessions it has open
    died    \* history: a crash took the task
testVars == <<test, task, died>>

Arms == <<"A", "B">>
Total == 2 * Sessions
ArmOf(n) == Arms[(n % 2) + 1]

TestInit ==
    /\ test = [tenant |-> 0, status |-> None, done |-> 0]
    /\ task = [stage |-> "none", key |-> 0, ran |-> <<>>, open |-> 0]
    /\ died = FALSE

\* The row the task works on: a deletion of its tenant takes it.
Stored == Row(test.tenant, "ab_tests") \in rows
Running == task.stage \notin {"none", "over"}

\* start_abtest: the row is committed, then the task is created with the caller's key.
StartTest(r) ==
    /\ Is(r, "test", "commit") /\ test.status = None
    /\ Insert(req[r].tenant, "ab_tests")
    /\ test' = [test EXCEPT !.tenant = req[r].tenant, !.status = "running"]
    /\ task' = [task EXCEPT !.stage = "defs", !.key = req[r].key]
    /\ Close(r)
    /\ UNCHANGED <<slugOf, minted, keys, asked, crashes, crowded, died>>

\* The except branch: the row, if it is still there, says that the test failed.
Failed(open) ==
    /\ task' = [task EXCEPT !.stage = "over", !.open = open]
    /\ test' = IF Stored THEN [test EXCEPT !.status = "failed"] ELSE test

\* Every step of the task is a request of its own: the key is resolved again.
Serves == Live(task.key)

ReadArms ==
    /\ task.stage = "defs"
    /\ IF Serves THEN task' = [task EXCEPT !.stage = "arm"] /\ UNCHANGED test ELSE Failed(task.open)
    /\ UNCHANGED <<vars, died>>

StartArm ==
    /\ task.stage = "arm"
    /\ IF Serves
       THEN /\ task' = [task EXCEPT !.stage = "talk", !.open = @ + 1]
            /\ Insert(test.tenant, "sessions") /\ UNCHANGED test
       ELSE Failed(task.open) /\ UNCHANGED <<rows, late>>
    /\ UNCHANGED <<slugOf, minted, keys, req, asked, crashes, crowded, died>>

\* The turns, the outcome and the end of the session.
EndArm ==
    /\ task.stage = "talk"
    /\ IF Serves
       THEN /\ task' = [task EXCEPT !.stage = "progress", !.open = @ - 1,
                                    !.ran = Append(@, ArmOf(Len(@)))]
            /\ UNCHANGED test
       ELSE Failed(task.open)
    /\ UNCHANGED <<vars, died>>

\* Mutant of Progress: a row that is gone ends nothing.
ProgressWaiting ==
    /\ task.stage = "progress" /\ Stored
    /\ test' = [test EXCEPT !.done = Len(task.ran)]
    /\ task' = [task EXCEPT !.stage = IF Len(task.ran) = Total THEN "finish" ELSE "arm"]
    /\ UNCHANGED <<vars, died>>

\* A row that is gone has no progress to set: AttributeError, the except branch.
Progress ==
    /\ task.stage = "progress"
    /\ IF Stored
       THEN /\ test' = [test EXCEPT !.done = Len(task.ran)]
            /\ task' = [task EXCEPT !.stage = IF Len(task.ran) = Total THEN "finish" ELSE "arm"]
       ELSE Failed(task.open)
    /\ UNCHANGED <<vars, died>>

Finish ==
    /\ task.stage = "finish"
    /\ IF Stored
       THEN test' = [test EXCEPT !.status = "done"] /\ task' = [task EXCEPT !.stage = "over"]
       ELSE Failed(task.open)
    /\ UNCHANGED <<vars, died>>

\* The simulator, the agent, the judge or the database fails.
TestFails ==
    /\ Running /\ Failed(task.open)
    /\ UNCHANGED <<vars, died>>

\* The process dies with the task; nothing starts it again.
TestCrash ==
    /\ Crash
    /\ task' = IF Running THEN [task EXCEPT !.stage = "over"] ELSE task
    /\ died' = (died \/ Running)
    /\ UNCHANGED test

TestStep == ReadArms \/ StartArm \/ EndArm \/ Progress \/ Finish

-----------------------------------------------------------------------------
(***************************************************************************)
(* The results of a test that is done compare as many sessions of either   *)
(* arm, each of them ended, whatever was revoked or deleted meanwhile.     *)
(***************************************************************************)
Played(arm) == Cardinality({i \in DOMAIN task.ran : task.ran[i] = arm})
ResultsAreWhole ==
    test.status = "done" =>
        test.done = Total /\ task.open = 0 /\ Played("A") = Sessions /\ Played("B") = Sessions

(***************************************************************************)
(* A test does not stay "running": it is done, failed or deleted in the    *)
(* end, and whole if it is done, unless the process that ran it has died.  *)
(***************************************************************************)
TestsEnd == Running ~> (~Running /\ ResultsAreWhole /\ (test.status # "running" \/ ~Stored \/ died))
=============================================================================
