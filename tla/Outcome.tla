------------------------------- MODULE Outcome -------------------------------
(***************************************************************************)
(* What a session leaves behind: its turns, a precedent trace per turn,    *)
(* and the outcome that is detected or reported and written to all of      *)
(* them (api/runtime.py, api/voice.py).                                    *)
(*                                                                         *)
(* A turn ends in up to three transactions: the plan, the reply, the       *)
(* detected outcome.  Each statement sees what is committed when it runs,  *)
(* a row updated in a transaction stays locked until it ends, and what a   *)
(* request read on arrival is never read again.  The database breaks a     *)
(* deadlock by failing one of its transactions.                            *)
(***************************************************************************)
EXTENDS Integers, Sequences

CONSTANTS
    Requests,
    Outcomes,      \* what may be detected or reported
    Quota,         \* quota_turns_per_min
    MaxRequests    \* bound: requests in all

None == "none"
ASSUME OutcomesAssumption == None \notin Outcomes /\ None \notin Requests
ASSUME BoundsAssumption == Quota \in Nat /\ MaxRequests \in Nat

VARIABLES
    outcome,     \* the session's terminal_outcome
    turns,       \* its turns with their traces: reply, the trace's reply, the trace's outcome
    sessionRow,  \* who holds the lock on the session's row
    traceRows,   \* who holds the locks on the traces
    counted,     \* the tenant's turns counted in this minute
    req,
    asked,
    admitted,    \* history: the turns this minute's quota let pass
    explicit     \* history: the last outcome reported by a request that ran alone
vars == <<outcome, turns, sessionRow, traceRows, counted, req, asked, admitted, explicit>>

Kinds == {"converse", "advisory", "voice", "outcome"}
Stages == {"closed", "count", "plan", "insert", "reply", "detect", "propagate", "commit", "traces", "session"}
Closed == [kind |-> "voice", stage |-> "closed", seen |-> None, value |-> None, number |-> 0, wrote |-> 0, alone |-> TRUE]

Init ==
    /\ outcome = None /\ turns = <<>>
    /\ sessionRow = None /\ traceRows = None
    /\ counted = 0 /\ admitted = 0
    /\ req = [r \in Requests |-> Closed] /\ asked = 0
    /\ explicit = None

At(r, s) == req[r].stage = s
Move(r, s) == req' = [req EXCEPT ![r].stage = s]
Close(r) == req' = [req EXCEPT ![r] = Closed]

Rows == <<outcome, turns>>
Locks == <<sessionRow, traceRows>>
Minute == <<counted, admitted>>

-----------------------------------------------------------------------------
(***************************************************************************)
(* A request arrives and reads the session.  A turn will be classified     *)
(* into a state that is a success marker, a failure marker or neither.     *)
(***************************************************************************)
Arrive(r, kind, value) ==
    /\ At(r, "closed") /\ asked < MaxRequests
    /\ kind = "outcome" => value # None
    /\ asked' = asked + 1
    /\ req' = [q \in Requests |->
                 IF q # r THEN [req[q] EXCEPT !.alone = At(q, "closed")]
                 ELSE [Closed EXCEPT !.kind = kind, !.value = value, !.seen = outcome,
                                     !.alone = \A o \in Requests : At(o, "closed"),
                                     !.stage = CASE kind = "outcome" -> "traces"
                                                 [] kind = "advisory" -> "plan"
                                                 [] OTHER -> "count"]]
    /\ UNCHANGED <<Rows, Locks, Minute, explicit>>

\* One INCR of the tenant's counter; plan_turn refuses what is past the quota (429).
CountTurn(r) ==
    /\ At(r, "count")
    /\ counted' = counted + 1
    /\ IF counted + 1 > Quota
       THEN Close(r) /\ UNCHANGED admitted
       ELSE Move(r, "plan") /\ admitted' = admitted + 1
    /\ UNCHANGED <<Rows, Locks, asked, explicit>>

\* The next minute has a counter of its own.
NextMinute ==
    /\ counted > 0
    /\ counted' = 0 /\ admitted' = 0
    /\ UNCHANGED <<Rows, Locks, req, asked, explicit>>

\* The prior turns are counted; the turn will have their number.
ReadTurns(r) ==
    /\ At(r, "plan")
    /\ req' = [req EXCEPT ![r].stage = "insert", ![r].number = Len(turns)]
    /\ UNCHANGED <<Rows, Locks, Minute, asked, explicit>>

\* What a voice client says was spoken is written to the turn before this one.
Heard(r, n) == req[r].kind = "voice" /\ n = req[r].number

\* Turn and trace, in one transaction; a number that is taken fails it.
InsertTurn(r) ==
    /\ At(r, "insert")
    /\ IF Len(turns) = req[r].number
       THEN /\ \E heard \in BOOLEAN :
                 turns' = Append([n \in DOMAIN turns |->
                                    IF heard /\ Heard(r, n) THEN [turns[n] EXCEPT !.reply = "heard"] ELSE turns[n]],
                                 [reply |-> IF req[r].kind = "advisory" THEN r ELSE None,
                                  traced |-> IF req[r].kind = "advisory" THEN r ELSE None,
                                  outcome |-> None])
            /\ CASE req[r].kind = "converse" -> Move(r, "reply")
                 [] req[r].kind = "advisory" -> Move(r, "detect")
                 [] OTHER -> Close(r)
       ELSE Close(r) /\ UNCHANGED turns
    /\ UNCHANGED <<outcome, Locks, Minute, asked, explicit>>

\* Mutant of CommitReply: the trace is completed in a later transaction, which a crash may lose.
CommitReplyApart(r) ==
    /\ At(r, "reply") /\ traceRows = None
    /\ turns' = [turns EXCEPT ![req[r].number + 1].reply = r]
    /\ Move(r, "detect")
    /\ UNCHANGED <<outcome, Locks, Minute, asked, explicit>>

\* The agent has answered: its reply completes the turn and the trace.
CommitReply(r) ==
    /\ At(r, "reply") /\ traceRows = None
    /\ turns' = [turns EXCEPT ![req[r].number + 1].reply = r, ![req[r].number + 1].traced = r]
    /\ Move(r, "detect")
    /\ UNCHANGED <<outcome, Locks, Minute, asked, explicit>>

-----------------------------------------------------------------------------
(***************************************************************************)
(* A detected outcome: first the session's row, then its traces.           *)
(***************************************************************************)

\* Mutant of Detects: whatever outcome there was is replaced.
DetectsAlways(r) == req[r].value # None

\* terminal and session.terminal_outcome is None, as it was on arrival.
Detects(r) == req[r].value # None /\ req[r].seen = None

UpdateSession(r) ==
    /\ At(r, "detect")
    /\ IF Detects(r)
       THEN sessionRow = None /\ sessionRow' = r /\ Move(r, "propagate")
       ELSE Close(r) /\ UNCHANGED sessionRow
    /\ UNCHANGED <<Rows, traceRows, Minute, asked, explicit>>

\* The traces there are now; a turn committed later stays without an outcome.
Propagate(r) ==
    /\ At(r, "propagate") /\ traceRows = None
    /\ traceRows' = r
    /\ req' = [req EXCEPT ![r].stage = "commit", ![r].wrote = Len(turns)]
    /\ UNCHANGED <<Rows, sessionRow, Minute, asked, explicit>>

Traced(r) ==
    [n \in DOMAIN turns |-> IF n <= req[r].wrote THEN [turns[n] EXCEPT !.outcome = req[r].value] ELSE turns[n]]

Unlock(r) ==
    /\ sessionRow' = IF sessionRow = r THEN None ELSE sessionRow
    /\ traceRows' = IF traceRows = r THEN None ELSE traceRows

CommitDetected(r) ==
    /\ At(r, "commit")
    /\ outcome' = req[r].value /\ turns' = Traced(r)
    /\ explicit' = None
    /\ Unlock(r) /\ Close(r)
    /\ UNCHANGED <<Minute, asked>>

-----------------------------------------------------------------------------
(***************************************************************************)
(* A reported outcome: first the traces, then the session's row, and that  *)
(* only if the value is not the one that was read.                         *)
(***************************************************************************)
UpdateTraces(r) ==
    /\ At(r, "traces") /\ traceRows = None
    /\ traceRows' = IF turns = <<>> THEN None ELSE r
    /\ req' = [req EXCEPT ![r].stage = "session", ![r].wrote = Len(turns)]
    /\ UNCHANGED <<Rows, sessionRow, Minute, asked, explicit>>

CommitOutcome(r) ==
    /\ At(r, "session")
    /\ IF req[r].value = req[r].seen THEN UNCHANGED outcome
       ELSE sessionRow = None /\ outcome' = req[r].value
    /\ turns' = Traced(r)
    /\ explicit' = IF req[r].alone THEN req[r].value ELSE None
    /\ Unlock(r) /\ Close(r)
    /\ UNCHANGED <<Minute, asked>>

-----------------------------------------------------------------------------
\* Whom r waits for.
WaitsFor(r) ==
    CASE At(r, "propagate") \/ At(r, "reply") \/ At(r, "traces") -> traceRows
      [] At(r, "detect") /\ Detects(r) -> sessionRow
      [] At(r, "session") /\ req[r].value # req[r].seen -> sessionRow
      [] OTHER -> None

\* Mutant of Rollback: a failed transaction keeps what it had locked.
RollbackHolding(r) ==
    /\ Close(r)
    /\ UNCHANGED <<Rows, Locks, Minute, asked, explicit>>

Rollback(r) ==
    /\ Unlock(r) /\ Close(r)
    /\ UNCHANGED <<Rows, Minute, asked, explicit>>

\* Two transactions wait for each other: the database fails one.
BreakDeadlock(r) ==
    /\ WaitsFor(r) # None /\ WaitsFor(WaitsFor(r)) = r
    /\ Rollback(r)

\* The process, the model or the connection fails.
Fail(r) == ~At(r, "closed") /\ Rollback(r)

Step(r) ==
    \/ CountTurn(r) \/ ReadTurns(r) \/ InsertTurn(r) \/ CommitReply(r)
    \/ UpdateSession(r) \/ Propagate(r) \/ CommitDetected(r)
    \/ UpdateTraces(r) \/ CommitOutcome(r) \/ BreakDeadlock(r)

Next ==
    \/ \E r \in Requests : Step(r) \/ Fail(r)
    \/ \E r \in Requests, k \in Kinds, v \in Outcomes \cup {None} : Arrive(r, k, v)
    \/ NextMinute

\* The event loop runs every request, and the database breaks every deadlock.
Fairness == \A r \in Requests : WF_vars(Step(r))
Spec == Init /\ [][Next]_vars /\ Fairness

-----------------------------------------------------------------------------
Turn == [reply : Requests \cup {None, "heard"}, traced : Requests \cup {None}, outcome : Outcomes \cup {None}]
RequestRecords ==
    [kind : Kinds, stage : Stages, seen : Outcomes \cup {None}, value : Outcomes \cup {None},
     number : Nat, wrote : Nat, alone : BOOLEAN]

TypeOK ==
    /\ outcome \in Outcomes \cup {None} /\ turns \in Seq(Turn)
    /\ sessionRow \in Requests \cup {None} /\ traceRows \in Requests \cup {None}
    /\ req \in [Requests -> RequestRecords]
    /\ \A r \in Requests :
          /\ req[r].stage \in {"reply", "detect"} => req[r].number < Len(turns)
          /\ req[r].wrote <= Len(turns)
    /\ \A r \in Requests : r \in {sessionRow, traceRows} => ~At(r, "closed")
    /\ counted \in Nat /\ admitted \in Nat /\ asked \in 0 .. MaxRequests

\* However many requests of a tenant are counted at once, no more turns than its quota pass in a minute.
TurnsWithinQuota == admitted <= Quota

(***************************************************************************)
(* What the predictor learns is what was said: a trace has the reply its   *)
(* turn has, crash or not, unless a voice client has corrected the turn.   *)
(***************************************************************************)
TracesTellTheTurns ==
    \A n \in DOMAIN turns : turns[n].reply # "heard" => turns[n].traced = turns[n].reply

(***************************************************************************)
(* "an explicit POST /outcome afterwards still overrides": when it ran     *)
(* beside no other request, the session has its value, and so has every    *)
(* trace that has one, until another outcome is recorded.                  *)
(***************************************************************************)
ExplicitOverrides ==
    explicit # None =>
        /\ outcome = explicit
        /\ \A n \in DOMAIN turns : turns[n].outcome \in {explicit, None}

(***************************************************************************)
(* A detection does not replace an outcome, unless that was recorded while *)
(* its own turn was under way (it was read when the turn began).           *)
(***************************************************************************)
Detected(r) == At(r, "commit") /\ CommitDetected(r)
EarlierOutcomesStay == [][\A r \in Requests : Detected(r) /\ outcome # None => ~req[r].alone]_vars

\* Every request ends, though the two ways of writing an outcome lock in opposite orders.
EveryRequestEnds == \A r \in Requests : ~At(r, "closed") ~> At(r, "closed")

(***************************************************************************)
(* What is recorded agrees: the turns with their quota, the traces with    *)
(* the turns, and everything that has an outcome with the one that was     *)
(* reported.                                                               *)
(***************************************************************************)
RecordsAgree ==
    /\ TypeOK
    /\ TurnsWithinQuota
    /\ TracesTellTheTurns
    /\ ExplicitOverrides
=============================================================================
