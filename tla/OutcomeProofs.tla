---------------------------- MODULE OutcomeProofs ----------------------------
(***************************************************************************)
(* Proofs about Outcome, for any requests, outcomes, quota and bound.      *)
(*                                                                         *)
(* ExplicitOverrides looks back at a request that has ended. AloneInv says *)
(* what holds while one runs beside no other: the others are closed, and   *)
(* the outcome is what it read. DetectInv says who gets as far as          *)
(* recording a detection.                                                  *)
(***************************************************************************)
EXTENDS Outcome, SequenceTheorems, TLAPS

USE OutcomesAssumption, BoundsAssumption

-----------------------------------------------------------------------------
(***************************************************************************)
(* The types.  That a closed request holds no lock is inductive only with  *)
(* the stages in which a request holds one.                                *)
(***************************************************************************)
LocksFit ==
    \A r \in Requests :
        /\ sessionRow = r => req[r].stage \in {"propagate", "commit"}
        /\ traceRows = r => req[r].stage \in {"commit", "session"}

TypeInv == TypeOK /\ LocksFit

\* Every step is one of these.
LEMMA Steps ==
    ASSUME [Next]_vars
    PROVE  \/ \E r \in Requests, k \in Kinds, v \in Outcomes \cup {None} : Arrive(r, k, v)
           \/ \E r \in Requests : CountTurn(r) \/ ReadTurns(r) \/ InsertTurn(r) \/ CommitReply(r)
           \/ \E r \in Requests : UpdateSession(r) \/ Propagate(r) \/ CommitDetected(r)
           \/ \E r \in Requests : UpdateTraces(r) \/ CommitOutcome(r)
           \/ \E r \in Requests : Rollback(r)
           \/ NextMinute
           \/ UNCHANGED vars
  BY DEF Next, Step, BreakDeadlock, Fail

LEMMA ClosedType == Closed \in RequestRecords /\ Closed.stage = "closed" /\ Closed.wrote = 0
  BY DEF Closed, RequestRecords, Kinds, Stages

LEMMA TypeInit == Init => TypeInv
  BY ClosedType DEF Init, TypeInv, TypeOK, LocksFit, At

\* What a step does to the rest: the turns only grow, and all of it stays typed.
Recorded ==
    /\ outcome' \in Outcomes \cup {None} /\ turns' \in Seq(Turn) /\ Len(turns') >= Len(turns)
    /\ counted' \in Nat /\ admitted' \in Nat /\ asked' \in 0 .. MaxRequests

\* What a step of r makes of r, and of the locks.
Becomes(r, q) ==
    /\ q \in RequestRecords /\ req' = [req EXCEPT ![r] = q]
    /\ q.stage \in {"reply", "detect"} => q.number < Len(turns')
    /\ q.wrote <= Len(turns')
    /\ sessionRow' \in {sessionRow, None, r} /\ traceRows' \in {traceRows, None, r}
    /\ sessionRow' = r => q.stage \in {"propagate", "commit"}
    /\ traceRows' = r => q.stage \in {"commit", "session"}

LEMMA RecordedUnchanged ==
    ASSUME TypeInv, UNCHANGED <<outcome, turns, counted, admitted, asked>>
    PROVE  Recorded
  <1>1. Len(turns) \in Nat
    BY LenProperties DEF TypeInv, TypeOK
  <1>2. QED BY <1>1 DEF TypeInv, TypeOK, Recorded

LEMMA SetRequest ==
    ASSUME TypeInv, NEW r \in Requests, NEW q, Recorded, Becomes(r, q)
    PROVE  TypeInv'
  <1>1. \A o \in Requests : req'[o] = IF o = r THEN q ELSE req[o]
    BY DEF TypeInv, TypeOK, Becomes
  <1>2. req' \in [Requests -> RequestRecords]
    BY DEF TypeInv, TypeOK, Becomes
  <1>3. Len(turns) \in Nat /\ Len(turns') \in Nat /\ Len(turns') >= Len(turns)
    BY LenProperties DEF TypeInv, TypeOK, Recorded
  <1>4. \A o \in Requests : req[o].number \in Nat /\ req[o].wrote \in Nat
    BY DEF TypeInv, TypeOK, RequestRecords
  <1>5. \A o \in Requests :
          /\ req'[o].stage \in {"reply", "detect"} => req'[o].number < Len(turns')
          /\ req'[o].wrote <= Len(turns')
    BY <1>1, <1>3, <1>4 DEF TypeInv, TypeOK, Becomes
  <1>6. LocksFit'
    BY <1>1 DEF TypeInv, LocksFit, Becomes
  <1>7. /\ sessionRow' \in Requests \cup {None} /\ traceRows' \in Requests \cup {None}
        /\ \A o \in Requests : o \in {sessionRow', traceRows'} => req'[o].stage # "closed"
    BY <1>6 DEF TypeInv, TypeOK, LocksFit, Becomes
  <1>8. QED BY <1>2, <1>5, <1>6, <1>7 DEF TypeInv, TypeOK, At, Recorded

\* What every action may rely on.
LEMMA Records ==
    ASSUME TypeInv, NEW r \in Requests
    PROVE  /\ req[r] \in RequestRecords /\ req[r].wrote <= Len(turns) /\ Len(turns) \in Nat
           /\ req[r].wrote \in Nat /\ req[r].number \in Nat
           /\ req[r].value \in Outcomes \cup {None}
           /\ \A n \in DOMAIN turns : turns[n] \in Turn
           /\ DOMAIN turns = 1 .. Len(turns)
  <1>1. turns \in Seq(Turn) /\ req[r] \in RequestRecords /\ req[r].wrote <= Len(turns)
    BY DEF TypeInv, TypeOK
  <1>2. QED BY <1>1, LenProperties, ElementOfSeq DEF RequestRecords

\* A record with another stage is still a record.
LEMMA StageType ==
    ASSUME TypeInv, NEW r \in Requests, NEW s \in Stages
    PROVE  LET q == [req[r] EXCEPT !.stage = s]
           IN  /\ q \in RequestRecords /\ q.stage = s /\ q.number = req[r].number
               /\ q.wrote = req[r].wrote /\ q.alone = req[r].alone /\ q.seen = req[r].seen
               /\ q.value = req[r].value
  BY Records DEF RequestRecords

\* Writing outcomes to traces, or a reply to a turn, keeps the turns.
LEMMA TracedType ==
    ASSUME TypeInv, NEW r \in Requests
    PROVE  /\ Traced(r) \in Seq(Turn) /\ Len(Traced(r)) = Len(turns)
           /\ DOMAIN Traced(r) = DOMAIN turns
           /\ \A n \in DOMAIN turns :
                 Traced(r)[n] = IF n <= req[r].wrote THEN [turns[n] EXCEPT !.outcome = req[r].value] ELSE turns[n]
  <1>1. DOMAIN Traced(r) = 1 .. Len(turns)
    BY Records DEF Traced
  <1>2. \A n \in 1 .. Len(turns) : Traced(r)[n] \in Turn
    BY Records DEF Traced, Turn
  <1>3. Traced(r) \in [1 .. Len(turns) -> Turn]
    BY <1>1, <1>2 DEF Traced
  <1>4. Traced(r) \in Seq(Turn) /\ Len(Traced(r)) = Len(turns)
    BY <1>3, Records, IsASeq, LenProperties
  <1>5. QED BY <1>1, <1>4, Records DEF Traced

\* The reply completes one turn.
LEMMA RepliedType ==
    ASSUME TypeInv, NEW r \in Requests, CommitReply(r)
    PROVE  /\ turns' \in Seq(Turn) /\ Len(turns') = Len(turns)
           /\ \A n \in DOMAIN turns :
                 turns'[n] = IF n = req[r].number + 1 THEN [turns[n] EXCEPT !.reply = r, !.traced = r] ELSE turns[n]
  <1> DEFINE m == req[r].number + 1
             new == [turns[m] EXCEPT !.reply = r, !.traced = r]
  <1>1. req[r].number < Len(turns)
    BY DEF CommitReply, At, TypeInv, TypeOK
  <1>2. m \in 1 .. Len(turns) /\ turns \in Seq(Turn) /\ DOMAIN turns = 1 .. Len(turns) /\ Len(turns) \in Nat
    BY <1>1, Records DEF TypeInv, TypeOK
  <1>3. new \in Turn
    BY <1>2, Records DEF Turn
  <1>4. turns' = [turns EXCEPT ![m] = new]
    BY <1>2 DEF CommitReply
  <1> HIDE DEF m, new
  <1>5. turns' \in Seq(Turn) /\ Len(turns') = Len(turns)
    BY <1>2, <1>3, <1>4, ExceptSeq
  <1>6. \A n \in DOMAIN turns : turns'[n] = IF n = m THEN new ELSE turns[n]
    BY <1>2, <1>4
  <1>7. QED BY <1>5, <1>6 DEF m, new

\* A request that arrives holds nothing and has written nothing.
LEMMA ArriveType ==
    ASSUME TypeInv, NEW r \in Requests, NEW k \in Kinds, NEW v \in Outcomes \cup {None}, Arrive(r, k, v)
    PROVE  /\ TypeInv'
           /\ \A o \in Requests \ {r} : req'[o] = [req[o] EXCEPT !.alone = At(o, "closed")]
           /\ /\ req'[r].value = v /\ req'[r].seen = outcome /\ req'[r].wrote = 0
              /\ req'[r].alone = \A o \in Requests : At(o, "closed")
              /\ req'[r].stage \in {"traces", "plan", "count"}
              /\ req'[r].stage = "traces" => v # None
  <1> DEFINE s == CASE k = "outcome" -> "traces" [] k = "advisory" -> "plan" [] OTHER -> "count"
             q == [Closed EXCEPT !.kind = k, !.value = v, !.seen = outcome,
                                 !.alone = \A o \in Requests : At(o, "closed"), !.stage = s]
  <1>1. s \in {"traces", "plan", "count"} /\ s \in Stages /\ (s = "traces" => v # None)
    BY DEF Stages, Arrive
  <1>2. req' = [o \in Requests |-> IF o # r THEN [req[o] EXCEPT !.alone = At(o, "closed")] ELSE q]
    BY DEF Arrive
  <1> HIDE DEF s
  <1>3. /\ q \in RequestRecords /\ q.stage = s /\ q.wrote = 0 /\ q.value = v /\ q.seen = outcome
        /\ q.alone = \A o \in Requests : At(o, "closed")
    BY <1>1, ClosedType DEF RequestRecords, Closed, TypeInv, TypeOK
  <1> HIDE DEF q
  <1>4. \A o \in Requests \ {r} : req'[o] = [req[o] EXCEPT !.alone = At(o, "closed")]
    BY <1>2
  <1>5. req'[r] = q
    BY <1>2
  <1>6. \A o \in Requests \ {r} :
          /\ req'[o] \in RequestRecords /\ req'[o].stage = req[o].stage
          /\ req'[o].number = req[o].number /\ req'[o].wrote = req[o].wrote
    <2>1. TAKE o \in Requests \ {r}
    <2>2. req[o] \in RequestRecords /\ req'[o] = [req[o] EXCEPT !.alone = At(o, "closed")]
      BY <1>4, Records
    <2>3. At(o, "closed") \in BOOLEAN
      BY DEF At
    <2>4. QED BY <2>2, <2>3 DEF RequestRecords
  <1>7. req' \in [Requests -> RequestRecords]
    BY <1>2, <1>3, <1>5, <1>6
  <1>8. /\ UNCHANGED <<outcome, turns, sessionRow, traceRows, counted, admitted>> /\ asked' \in 0 .. MaxRequests
        /\ sessionRow # r /\ traceRows # r
    <2>1. UNCHANGED <<outcome, turns, sessionRow, traceRows, counted, admitted>>
      BY DEF Arrive, Rows, Locks, Minute
    <2>2. asked' \in 0 .. MaxRequests
      <3>1. asked \in 0 .. MaxRequests /\ asked < MaxRequests /\ asked' = asked + 1
        BY DEF Arrive, TypeInv, TypeOK
      <3>2. QED BY <3>1
    <2>3. QED BY <2>1, <2>2 DEF Arrive, TypeInv, LocksFit, At
  <1>9. LocksFit'
    BY <1>6, <1>8 DEF TypeInv, LocksFit
  <1>10. \A o \in Requests :
          /\ req'[o].stage \in {"reply", "detect"} => req'[o].number < Len(turns')
          /\ req'[o].wrote <= Len(turns')
    BY <1>1, <1>3, <1>5, <1>6, <1>8, Records DEF TypeInv, TypeOK
  <1>11. \A o \in Requests : o \in {sessionRow', traceRows'} => req'[o].stage # "closed"
    BY <1>9 DEF LocksFit
  <1>12. TypeInv'
    BY <1>7, <1>8, <1>9, <1>10, <1>11 DEF TypeInv, TypeOK, At
  <1>13. QED BY <1>1, <1>3, <1>4, <1>5, <1>12

\* The turn that is inserted is one more, and those before it stay turns.
LEMMA InsertedType ==
    ASSUME TypeInv, NEW r \in Requests, InsertTurn(r), Len(turns) = req[r].number
    PROVE  /\ turns' \in Seq(Turn) /\ Len(turns') = Len(turns) + 1
           /\ \A n \in 1 .. Len(turns) :
                 turns'[n] \in {turns[n], [turns[n] EXCEPT !.reply = "heard"]}
           /\ \E a \in Requests \cup {None} :
                 turns'[Len(turns) + 1] = [reply |-> a, traced |-> a, outcome |-> None]
  <1> DEFINE a == IF req[r].kind = "advisory" THEN r ELSE None
             new == [reply |-> a, traced |-> a, outcome |-> None]
             old(heard) == [n \in DOMAIN turns |->
                              IF heard /\ Heard(r, n) THEN [turns[n] EXCEPT !.reply = "heard"] ELSE turns[n]]
  <1>1. PICK heard \in BOOLEAN : turns' = Append(old(heard), new)
    BY DEF InsertTurn
  <1>2. new \in Turn /\ a \in Requests \cup {None}
    BY DEF Turn
  <1>3. DOMAIN old(heard) = 1 .. Len(turns) /\ \A n \in 1 .. Len(turns) : old(heard)[n] \in Turn
    BY Records DEF Turn
  <1>4. \A n \in 1 .. Len(turns) : old(heard)[n] \in {turns[n], [turns[n] EXCEPT !.reply = "heard"]}
    BY Records
  <1>5. old(heard) \in [1 .. Len(turns) -> Turn]
    BY <1>3
  <1> HIDE DEF old
  <1>6. old(heard) \in Seq(Turn) /\ Len(old(heard)) = Len(turns)
    BY <1>3, <1>5, Records, IsASeq, LenProperties
  <1>7. turns'[Len(turns) + 1] = new
    BY <1>1, <1>2, <1>6, AppendProperties
  <1> HIDE DEF new
  <1>8. /\ turns' \in Seq(Turn) /\ Len(turns') = Len(turns) + 1
        /\ \A n \in 1 .. Len(turns) : turns'[n] = old(heard)[n]
    BY <1>1, <1>2, <1>6, AppendProperties
  <1>9. QED BY <1>2, <1>4, <1>7, <1>8 DEF new

LEMMA TypeNext == TypeInv /\ [Next]_vars => TypeInv'
  <1> SUFFICES ASSUME TypeInv, [Next]_vars PROVE TypeInv'
    OBVIOUS
  <1>0. /\ outcome \in Outcomes \cup {None} /\ turns \in Seq(Turn) /\ Len(turns) \in Nat
        /\ counted \in Nat /\ admitted \in Nat /\ asked \in 0 .. MaxRequests
        /\ \A r \in Requests : r # None
    BY LenProperties DEF TypeInv, TypeOK
  <1> DEFINE Moved(r, s) == [req[r] EXCEPT !.stage = s]
  <1>a. ASSUME NEW r \in Requests, NEW s \in Stages
        PROVE  Moved(r, s) \in RequestRecords /\ Moved(r, s).stage = s
               /\ Moved(r, s).wrote <= Len(turns) /\ Moved(r, s).number = req[r].number
    BY StageType, Records
  <1>c. Closed \in RequestRecords /\ Closed.stage = "closed" /\ Closed.wrote <= Len(turns)
    BY <1>0, ClosedType
  <1> HIDE DEF Moved
  <1>1. ASSUME NEW r \in Requests, NEW k \in Kinds, NEW v \in Outcomes \cup {None}, Arrive(r, k, v)
        PROVE  TypeInv'
    BY <1>1, ArriveType
  <1>2. ASSUME NEW r \in Requests, CountTurn(r) PROVE TypeInv'
    <2>1. sessionRow # r /\ traceRows # r /\ "plan" \in Stages
      BY <1>2 DEF CountTurn, At, TypeInv, LocksFit, Stages
    <2>2. Recorded /\ UNCHANGED <<turns, sessionRow, traceRows>>
      BY <1>0, <1>2 DEF CountTurn, Rows, Locks, Recorded
    <2>3. req' = [req EXCEPT ![r] = Closed] \/ req' = [req EXCEPT ![r] = Moved(r, "plan")]
      BY <1>2 DEF CountTurn, Close, Move, Moved
    <2>4. Becomes(r, Closed) \/ Becomes(r, Moved(r, "plan"))
      BY <1>a, <1>c, <2>1, <2>2, <2>3 DEF Becomes
    <2>5. QED BY <2>2, <2>4, SetRequest
  <1>3. ASSUME NEW r \in Requests, ReadTurns(r) PROVE TypeInv'
    <2> DEFINE q == [req[r] EXCEPT !.stage = "insert", !.number = Len(turns)]
    <2>1. sessionRow # r /\ traceRows # r /\ "insert" \in Stages
      BY <1>3 DEF ReadTurns, At, TypeInv, LocksFit, Stages
    <2>2. q \in RequestRecords /\ q.stage = "insert" /\ q.wrote <= Len(turns)
      BY <1>0, <2>1, Records DEF RequestRecords
    <2>3. req' = [req EXCEPT ![r] = q]
      BY <1>3 DEF ReadTurns
    <2> HIDE DEF q
    <2>4. Recorded /\ UNCHANGED <<turns, sessionRow, traceRows>>
      BY <1>3, RecordedUnchanged DEF ReadTurns, Rows, Locks, Minute
    <2>5. Becomes(r, q)
      BY <2>1, <2>2, <2>3, <2>4 DEF Becomes
    <2>6. QED BY <2>4, <2>5, SetRequest
  <1>4. ASSUME NEW r \in Requests, InsertTurn(r) PROVE TypeInv'
    <2>1. sessionRow # r /\ traceRows # r /\ {"reply", "detect"} \subseteq Stages
      BY <1>4 DEF InsertTurn, At, TypeInv, LocksFit, Stages
    <2>2. UNCHANGED <<outcome, sessionRow, traceRows, counted, admitted, asked>>
      BY <1>4 DEF InsertTurn, Locks, Minute
    <2>3. CASE Len(turns) = req[r].number
      <3>1. turns' \in Seq(Turn) /\ Len(turns') = Len(turns) + 1
        BY <1>4, <2>3, InsertedType
      <3>2. \/ req' = [req EXCEPT ![r] = Closed]
            \/ \E s \in {"reply", "detect"} : req' = [req EXCEPT ![r] = Moved(r, s)]
        BY <1>4, <2>3 DEF InsertTurn, Close, Move, Moved
      <3>3. Recorded
        BY <1>0, <2>2, <3>1 DEF Recorded
      <3>4. ASSUME req' = [req EXCEPT ![r] = Closed] PROVE Becomes(r, Closed)
        BY <1>0, <1>c, <2>1, <2>2, <3>1, <3>4 DEF Becomes, RequestRecords
      <3>5. ASSUME NEW s \in {"reply", "detect"}, req' = [req EXCEPT ![r] = Moved(r, s)]
            PROVE  Becomes(r, Moved(r, s))
        <4>1. /\ Moved(r, s) \in RequestRecords /\ Moved(r, s).wrote \in Nat
              /\ Moved(r, s).wrote <= Len(turns) /\ Moved(r, s).number = Len(turns)
          BY <1>a, <2>1, <2>3 DEF RequestRecords
        <4>2. QED BY <1>0, <2>1, <2>2, <3>1, <3>5, <4>1 DEF Becomes
      <3>6. QED BY <3>2, <3>3, <3>4, <3>5, SetRequest
    <2>4. CASE Len(turns) # req[r].number
      <3>1. Recorded /\ UNCHANGED turns /\ req' = [req EXCEPT ![r] = Closed]
        BY <1>4, <2>2, <2>4, RecordedUnchanged DEF InsertTurn, Close
      <3>2. Becomes(r, Closed)
        BY <1>c, <2>1, <2>2, <3>1 DEF Becomes
      <3>3. QED BY <3>1, <3>2, SetRequest
    <2>5. QED BY <2>3, <2>4
  <1>5. ASSUME NEW r \in Requests, CommitReply(r) PROVE TypeInv'
    <2>1. /\ sessionRow # r /\ traceRows # r /\ "detect" \in Stages
          /\ req[r].number < Len(turns)
      BY <1>5 DEF CommitReply, At, TypeInv, TypeOK, LocksFit, Stages
    <2>2. turns' \in Seq(Turn) /\ Len(turns') = Len(turns)
      BY <1>5, RepliedType
    <2>3. req' = [req EXCEPT ![r] = Moved(r, "detect")]
      BY <1>5 DEF CommitReply, Move, Moved
    <2>4. UNCHANGED <<outcome, sessionRow, traceRows, counted, admitted, asked>>
      BY <1>5 DEF CommitReply, Locks, Minute
    <2>5. Recorded
      BY <1>0, <2>2, <2>4 DEF Recorded
    <2>6. Becomes(r, Moved(r, "detect"))
      BY <1>a, <2>1, <2>2, <2>3, <2>4 DEF Becomes
    <2>7. QED BY <2>5, <2>6, SetRequest
  <1>6. ASSUME NEW r \in Requests, UpdateSession(r) PROVE TypeInv'
    <2>1. sessionRow # r /\ traceRows # r /\ "propagate" \in Stages
      BY <1>6 DEF UpdateSession, At, TypeInv, LocksFit, Stages
    <2>2. \/ sessionRow' = r /\ req' = [req EXCEPT ![r] = Moved(r, "propagate")]
          \/ sessionRow' = sessionRow /\ req' = [req EXCEPT ![r] = Closed]
      BY <1>6 DEF UpdateSession, Close, Move, Moved
    <2>3. Recorded /\ UNCHANGED <<turns, traceRows>>
      BY <1>6, RecordedUnchanged DEF UpdateSession, Rows, Minute
    <2>4. Becomes(r, Closed) \/ Becomes(r, Moved(r, "propagate"))
      BY <1>a, <1>c, <2>1, <2>2, <2>3 DEF Becomes
    <2>5. QED BY <2>3, <2>4, SetRequest
  <1>7. ASSUME NEW r \in Requests, Propagate(r) PROVE TypeInv'
    <2> DEFINE q == [req[r] EXCEPT !.stage = "commit", !.wrote = Len(turns)]
    <2>1. "commit" \in Stages
      BY DEF Stages
    <2>2. q \in RequestRecords /\ q.stage = "commit" /\ q.wrote = Len(turns)
      BY <1>0, <2>1, Records DEF RequestRecords
    <2>3. req' = [req EXCEPT ![r] = q]
      BY <1>7 DEF Propagate
    <2> HIDE DEF q
    <2>4. Recorded /\ UNCHANGED <<turns, sessionRow>> /\ traceRows' = r
      BY <1>7, RecordedUnchanged DEF Propagate, Rows, Minute
    <2>5. Becomes(r, q)
      BY <1>0, <2>2, <2>3, <2>4 DEF Becomes
    <2>6. QED BY <2>4, <2>5, SetRequest
  <1>8. ASSUME NEW r \in Requests, CommitDetected(r) \/ CommitOutcome(r) PROVE TypeInv'
    <2>1. outcome' \in Outcomes \cup {None} /\ turns' = Traced(r) /\ req' = [req EXCEPT ![r] = Closed]
      BY <1>0, <1>8, Records DEF CommitDetected, CommitOutcome, Close
    <2>2. /\ sessionRow' \in {sessionRow, None} /\ traceRows' \in {traceRows, None}
          /\ sessionRow' # r /\ traceRows' # r
      BY <1>0, <1>8 DEF CommitDetected, CommitOutcome, Unlock
    <2>3. UNCHANGED <<counted, admitted, asked>>
      BY <1>8 DEF CommitDetected, CommitOutcome, Minute
    <2>4. Len(turns') = Len(turns) /\ Recorded
      BY <1>0, <2>1, <2>3, TracedType DEF Recorded
    <2>5. Becomes(r, Closed)
      BY <1>c, <2>1, <2>2, <2>4 DEF Becomes
    <2>6. QED BY <2>4, <2>5, SetRequest
  <1>9. ASSUME NEW r \in Requests, UpdateTraces(r) PROVE TypeInv'
    <2> DEFINE q == [req[r] EXCEPT !.stage = "session", !.wrote = Len(turns)]
    <2>1. sessionRow # r /\ "session" \in Stages
      BY <1>9 DEF UpdateTraces, At, TypeInv, LocksFit, Stages
    <2>2. q \in RequestRecords /\ q.stage = "session" /\ q.wrote = Len(turns)
      BY <1>0, <2>1, Records DEF RequestRecords
    <2>3. req' = [req EXCEPT ![r] = q]
      BY <1>9 DEF UpdateTraces
    <2> HIDE DEF q
    <2>4. Recorded /\ UNCHANGED <<turns, sessionRow>> /\ traceRows' \in {r, None}
      BY <1>9, RecordedUnchanged DEF UpdateTraces, Rows, Minute
    <2>5. Becomes(r, q)
      BY <1>0, <2>1, <2>2, <2>3, <2>4 DEF Becomes
    <2>6. QED BY <2>4, <2>5, SetRequest
  <1>10. ASSUME NEW r \in Requests, Rollback(r) PROVE TypeInv'
    <2>1. req' = [req EXCEPT ![r] = Closed]
      BY <1>10 DEF Rollback, Close
    <2>2. /\ sessionRow' \in {sessionRow, None} /\ traceRows' \in {traceRows, None}
          /\ sessionRow' # r /\ traceRows' # r
      BY <1>0, <1>10 DEF Rollback, Unlock
    <2>3. Recorded /\ UNCHANGED turns
      BY <1>10, RecordedUnchanged DEF Rollback, Rows, Minute
    <2>4. Becomes(r, Closed)
      BY <1>c, <2>1, <2>2, <2>3 DEF Becomes
    <2>5. QED BY <2>3, <2>4, SetRequest
  <1>11. CASE NextMinute \/ UNCHANGED vars
    <2>1. UNCHANGED <<outcome, turns, sessionRow, traceRows, req, asked>> /\ counted' \in Nat /\ admitted' \in Nat
      BY <1>0, <1>11 DEF NextMinute, vars, Rows, Locks
    <2>2. QED BY <2>1 DEF TypeInv, TypeOK, LocksFit, At
  <1>12. QED BY <1>1, <1>2, <1>3, <1>4, <1>5, <1>6, <1>7, <1>8, <1>9, <1>10, <1>11, Steps

(***************************************************************************)
(* Every state has its types: a lock is held by a request that is under    *)
(* way, and a request writes to turns there are.                           *)
(***************************************************************************)
THEOREM TypeCorrect == Spec => []TypeOK
  <1>1. TypeInv => TypeOK
    BY DEF TypeInv
  <1>2. QED BY <1>1, TypeInit, TypeNext, PTL DEF Spec

-----------------------------------------------------------------------------
(***************************************************************************)
(* The quota: no more turns are let pass than were counted.                *)
(***************************************************************************)
QuotaInv == admitted <= counted /\ admitted <= Quota

LEMMA QuotaInit == Init => QuotaInv
  BY DEF Init, QuotaInv

LEMMA QuotaNext == TypeInv /\ QuotaInv /\ [Next]_vars => QuotaInv'
  <1> SUFFICES ASSUME TypeInv, QuotaInv, [Next]_vars PROVE QuotaInv'
    OBVIOUS
  <1>1. counted \in Nat /\ admitted \in Nat
    BY DEF TypeInv, TypeOK
  <1>2. ASSUME NEW r \in Requests, CountTurn(r) PROVE QuotaInv'
    BY <1>1, <1>2 DEF CountTurn, QuotaInv
  <1>3. CASE NextMinute
    BY <1>3 DEF NextMinute, QuotaInv
  <1>4. CASE UNCHANGED <<counted, admitted>>
    BY <1>4 DEF QuotaInv
  <1>5. UNCHANGED Minute => UNCHANGED <<counted, admitted>>
    BY DEF Minute
  <1>6. ASSUME NEW r \in Requests,
               \/ ReadTurns(r) \/ InsertTurn(r) \/ CommitReply(r)
               \/ UpdateSession(r) \/ Propagate(r) \/ CommitDetected(r)
               \/ UpdateTraces(r) \/ CommitOutcome(r) \/ Rollback(r)
        PROVE  QuotaInv'
    BY <1>4, <1>5, <1>6 DEF ReadTurns, InsertTurn, CommitReply, UpdateSession, Propagate, CommitDetected,
                            UpdateTraces, CommitOutcome, Rollback
  <1>7. ASSUME NEW r \in Requests, NEW k \in Kinds, NEW v \in Outcomes \cup {None}, Arrive(r, k, v)
        PROVE  QuotaInv'
    BY <1>4, <1>5, <1>7 DEF Arrive
  <1>8. CASE UNCHANGED vars
    BY <1>4, <1>8 DEF vars
  <1>9. QED BY <1>2, <1>3, <1>6, <1>7, <1>8, Steps

-----------------------------------------------------------------------------
(***************************************************************************)
(* The traces: every transaction that writes a reply writes it to both.    *)
(***************************************************************************)
LEMMA ToldInit == Init => TracesTellTheTurns
  BY DEF Init, TracesTellTheTurns

LEMMA ToldNext == TypeInv /\ TracesTellTheTurns /\ [Next]_vars => TracesTellTheTurns'
  <1> SUFFICES ASSUME TypeInv, TracesTellTheTurns, [Next]_vars PROVE TracesTellTheTurns'
    OBVIOUS
  <1>1. CASE UNCHANGED turns
    BY <1>1 DEF TracesTellTheTurns
  <1>2. ASSUME NEW r \in Requests, InsertTurn(r) PROVE TracesTellTheTurns'
    <2>1. CASE Len(turns) = req[r].number
      <3>1. /\ turns' \in Seq(Turn) /\ Len(turns') = Len(turns) + 1 /\ Len(turns) \in Nat
            /\ DOMAIN turns = 1 .. Len(turns) /\ \A n \in DOMAIN turns : turns[n] \in Turn
        BY <1>2, <2>1, InsertedType, Records
      <3>2. DOMAIN turns' = 1 .. Len(turns) + 1
        BY <3>1, LenProperties
      <3>3. ASSUME NEW n \in 1 .. Len(turns), turns'[n].reply # "heard"
            PROVE  turns'[n].traced = turns'[n].reply
        <4>1. turns'[n] = turns[n] \/ turns'[n] = [turns[n] EXCEPT !.reply = "heard"]
          BY <1>2, <2>1, InsertedType
        <4>2. turns[n] \in Turn
          BY <3>1
        <4>3. turns'[n] = turns[n]
          BY <3>3, <4>1, <4>2 DEF Turn
        <4>4. QED BY <3>1, <3>3, <4>3 DEF TracesTellTheTurns
      <3>4. turns'[Len(turns) + 1].traced = turns'[Len(turns) + 1].reply
        <4>1. PICK a \in Requests \cup {None} :
                 turns'[Len(turns) + 1] = [reply |-> a, traced |-> a, outcome |-> None]
          BY <1>2, <2>1, InsertedType
        <4>2. QED BY <4>1
      <3>5. \A n \in DOMAIN turns' : n \in 1 .. Len(turns) \/ n = Len(turns) + 1
        BY <3>1, <3>2
      <3>6. QED BY <3>3, <3>4, <3>5 DEF TracesTellTheTurns
    <2>2. CASE Len(turns) # req[r].number
      BY <1>1, <1>2, <2>2 DEF InsertTurn
    <2>3. QED BY <2>1, <2>2
  <1>3. ASSUME NEW r \in Requests, CommitReply(r) PROVE TracesTellTheTurns'
    <2>1. DOMAIN turns' = DOMAIN turns /\ \A n \in DOMAIN turns : turns[n] \in Turn
      BY <1>3, RepliedType, Records, LenProperties
    <2>2. ASSUME NEW n \in DOMAIN turns, turns'[n].reply # "heard"
          PROVE  turns'[n].traced = turns'[n].reply
      <3>1. \/ turns'[n] = turns[n]
            \/ turns'[n] = [turns[n] EXCEPT !.reply = r, !.traced = r]
        BY <1>3, RepliedType
      <3>2. CASE turns'[n] = turns[n]
        BY <2>2, <3>2 DEF TracesTellTheTurns
      <3>3. CASE turns'[n] = [turns[n] EXCEPT !.reply = r, !.traced = r]
        BY <2>1, <3>3 DEF Turn
      <3>4. QED BY <3>1, <3>2, <3>3
    <2>3. QED BY <2>1, <2>2 DEF TracesTellTheTurns
  <1>4. ASSUME NEW r \in Requests, CommitDetected(r) \/ CommitOutcome(r) PROVE TracesTellTheTurns'
    <2>1. turns' = Traced(r)
      BY <1>4 DEF CommitDetected, CommitOutcome
    <2>2. DOMAIN turns' = DOMAIN turns /\ \A n \in DOMAIN turns : turns[n] \in Turn
      BY <2>1, TracedType, Records
    <2>3. ASSUME NEW n \in DOMAIN turns
          PROVE  turns'[n].reply = turns[n].reply /\ turns'[n].traced = turns[n].traced
      <3>1. turns'[n] = turns[n] \/ turns'[n] = [turns[n] EXCEPT !.outcome = req[r].value]
        BY <2>1, TracedType
      <3>2. turns[n] \in Turn
        BY <2>2
      <3>3. QED BY <3>1, <3>2 DEF Turn
    <2>4. QED BY <2>2, <2>3 DEF TracesTellTheTurns
  <1>5. UNCHANGED Rows => UNCHANGED turns
    BY DEF Rows
  <1>6. ASSUME NEW r \in Requests,
               \/ CountTurn(r) \/ ReadTurns(r) \/ UpdateSession(r) \/ Propagate(r)
               \/ UpdateTraces(r) \/ Rollback(r)
        PROVE  TracesTellTheTurns'
    BY <1>1, <1>5, <1>6 DEF CountTurn, ReadTurns, UpdateSession, Propagate, UpdateTraces, Rollback
  <1>7. ASSUME NEW r \in Requests, NEW k \in Kinds, NEW v \in Outcomes \cup {None}, Arrive(r, k, v)
        PROVE  TracesTellTheTurns'
    BY <1>1, <1>5, <1>7 DEF Arrive
  <1>8. CASE NextMinute \/ UNCHANGED vars
    BY <1>1, <1>5, <1>8 DEF NextMinute, vars
  <1>9. QED BY <1>2, <1>3, <1>4, <1>6, <1>7, <1>8, Steps

-----------------------------------------------------------------------------
(***************************************************************************)
(* A request that has run alone: nothing has come between what it read and *)
(* what it writes; and an outcome is detected only where none was read.    *)
(***************************************************************************)
AloneInv ==
    \A r \in Requests : ~At(r, "closed") /\ req[r].alone =>
        /\ \A o \in Requests \ {r} : At(o, "closed")
        /\ outcome = req[r].seen
        /\ At(r, "session") => req[r].wrote = Len(turns)

DetectInv == \A r \in Requests : req[r].stage \in {"propagate", "commit"} => req[r].seen = None

ReportInv == AloneInv /\ DetectInv /\ ExplicitOverrides

StepOf(r) ==
    \/ CountTurn(r) \/ ReadTurns(r) \/ InsertTurn(r) \/ CommitReply(r)
    \/ UpdateSession(r) \/ Propagate(r) \/ CommitDetected(r)
    \/ UpdateTraces(r) \/ CommitOutcome(r) \/ Rollback(r)

\* A request that goes on has read what it read, and its outcome is not yet recorded.
GoesOn(r) ==
    /\ ~At(r, "closed") /\ req'[r].stage # "closed"
    /\ req'[r].alone = req[r].alone /\ req'[r].seen = req[r].seen
    /\ UNCHANGED outcome
    /\ req'[r].stage = "session" => req'[r].wrote = Len(turns) /\ UNCHANGED turns
    /\ req'[r].stage \in {"propagate", "commit"} => req[r].seen = None \/ req[r].stage = "propagate"

LEMMA StepGoesOn ==
    ASSUME TypeInv, NEW r \in Requests, StepOf(r)
    PROVE  /\ \A o \in Requests \ {r} : req'[o] = req[o]
           /\ req'[r] = Closed \/ GoesOn(r)
           /\ At(r, "closed") => UNCHANGED <<outcome, turns>>
  <1>0. req \in [Requests -> RequestRecords] /\ req[r] \in RequestRecords
    BY DEF TypeInv, TypeOK
  <1>1. CASE req' = [req EXCEPT ![r] = Closed]
    <2>1. At(r, "closed") => UNCHANGED <<outcome, turns>>
      BY DEF StepOf, CountTurn, ReadTurns, InsertTurn, CommitReply, UpdateSession, Propagate, CommitDetected,
             UpdateTraces, CommitOutcome, Rollback, At, Rows
    <2>2. QED BY <1>0, <1>1, <2>1
  <1>2. ASSUME NEW s \in Stages \ {"closed", "session"}, req' = [req EXCEPT ![r].stage = s], ~At(r, "closed"),
               UNCHANGED outcome, s \in {"propagate", "commit"} => req[r].seen = None
        PROVE  req'[r] = [req[r] EXCEPT !.stage = s] /\ GoesOn(r)
    <2>1. req'[r] = [req[r] EXCEPT !.stage = s]
      BY <1>0, <1>2
    <2>2. QED BY <1>0, <1>2, <2>1 DEF GoesOn, RequestRecords
  <1>3. ASSUME NEW s \in Stages \ {"closed"}, NEW n, req' = [req EXCEPT ![r].stage = s, ![r].wrote = n],
               ~At(r, "closed"), UNCHANGED <<outcome, turns>>, n = Len(turns),
               s \in {"propagate", "commit"} => At(r, "propagate")
        PROVE  GoesOn(r)
    <2>1. req'[r] = [req[r] EXCEPT !.stage = s, !.wrote = n]
      BY <1>0, <1>3
    <2>2. QED BY <1>0, <1>3, <2>1 DEF GoesOn, RequestRecords, At
  <1>4. CASE CountTurn(r) \/ InsertTurn(r) \/ CommitReply(r) \/ UpdateSession(r)
    <2>1. UNCHANGED outcome /\ ~At(r, "closed")
      BY <1>4 DEF CountTurn, InsertTurn, CommitReply, UpdateSession, At, Rows
    <2>2. \/ req' = [req EXCEPT ![r] = Closed]
          \/ \E s \in {"plan", "reply", "detect", "propagate"} :
               /\ req' = [req EXCEPT ![r].stage = s]
               /\ s = "propagate" => req[r].seen = None
      BY <1>4 DEF CountTurn, InsertTurn, CommitReply, UpdateSession, Close, Move, Detects
    <2>3. {"plan", "reply", "detect", "propagate"} \subseteq Stages \ {"closed", "session"}
      BY DEF Stages
    <2>4. CASE \E s \in {"plan", "reply", "detect", "propagate"} :
                 req' = [req EXCEPT ![r].stage = s] /\ (s = "propagate" => req[r].seen = None)
      <3>1. PICK s \in {"plan", "reply", "detect", "propagate"} :
                 req' = [req EXCEPT ![r].stage = s] /\ (s = "propagate" => req[r].seen = None)
        BY <2>4
      <3>2. GoesOn(r)
        BY <1>2, <2>1, <2>3, <3>1
      <3>3. QED BY <1>0, <2>1, <3>1, <3>2
    <2>5. QED BY <1>1, <2>2, <2>4
  <1>5. CASE ReadTurns(r)
    <2>1. req'[r] = [req[r] EXCEPT !.stage = "insert", !.number = Len(turns)]
      BY <1>0, <1>5 DEF ReadTurns
    <2>2. UNCHANGED outcome /\ ~At(r, "closed")
      BY <1>5 DEF ReadTurns, At, Rows
    <2>3. GoesOn(r)
      BY <1>0, <2>1, <2>2 DEF GoesOn, RequestRecords
    <2>4. QED BY <1>0, <1>5, <2>2, <2>3 DEF ReadTurns
  <1>6. CASE Propagate(r) \/ UpdateTraces(r)
    <2>1. UNCHANGED <<outcome, turns>> /\ ~At(r, "closed")
      BY <1>6 DEF Propagate, UpdateTraces, At, Rows
    <2>2. PICK s \in {"commit", "session"} :
            req' = [req EXCEPT ![r].stage = s, ![r].wrote = Len(turns)] /\ (s = "commit" => At(r, "propagate"))
      BY <1>6 DEF Propagate, UpdateTraces
    <2>3. s \in Stages \ {"closed"}
      BY <2>2 DEF Stages
    <2>4. GoesOn(r)
      BY <1>3, <2>1, <2>2, <2>3
    <2>5. QED BY <1>0, <2>1, <2>2, <2>4
  <1>7. CASE CommitDetected(r) \/ CommitOutcome(r) \/ Rollback(r)
    BY <1>1, <1>7 DEF CommitDetected, CommitOutcome, Rollback, Close
  <1>8. QED BY <1>4, <1>5, <1>6, <1>7 DEF StepOf

LEMMA AloneInit == Init => ReportInv
  BY ClosedType DEF Init, ReportInv, AloneInv, DetectInv, ExplicitOverrides, At

LEMMA AloneStep ==
    ASSUME TypeInv, AloneInv, DetectInv, NEW r \in Requests, StepOf(r)
    PROVE  AloneInv' /\ DetectInv'
  <1>1. /\ \A o \in Requests \ {r} : req'[o] = req[o]
        /\ req'[r] = Closed \/ GoesOn(r)
        /\ At(r, "closed") => UNCHANGED <<outcome, turns>>
    BY StepGoesOn
  <1>2. ASSUME NEW p \in Requests, req'[p].stage # "closed", req'[p].alone
        PROVE  /\ \A o \in Requests \ {p} : req'[o].stage = "closed"
               /\ outcome' = req'[p].seen
               /\ req'[p].stage = "session" => req'[p].wrote = Len(turns')
    <2>1. CASE p = r
      <3>1. GoesOn(r)
        BY <1>1, <1>2, <2>1, ClosedType
      <3>2. QED BY <1>1, <1>2, <2>1, <3>1 DEF GoesOn, AloneInv, At
    <2>2. CASE p # r
      <3>1. At(r, "closed") /\ UNCHANGED <<outcome, turns>> /\ req'[p] = req[p]
        BY <1>1, <1>2, <2>2 DEF AloneInv, At
      <3>2. req'[r] = Closed
        BY <1>1, <3>1 DEF GoesOn
      <3>3. QED BY <1>1, <1>2, <2>2, <3>1, <3>2, ClosedType DEF AloneInv, At
    <2>3. QED BY <2>1, <2>2
  <1>3. AloneInv'
    BY <1>2 DEF AloneInv, At
  <1>4. DetectInv'
    BY <1>1, ClosedType DEF DetectInv, GoesOn
  <1>5. QED BY <1>3, <1>4

LEMMA AloneArrive ==
    ASSUME TypeInv, AloneInv, DetectInv, NEW r \in Requests, NEW k \in Kinds, NEW v \in Outcomes \cup {None},
           Arrive(r, k, v)
    PROVE  AloneInv' /\ DetectInv'
  <1>1. /\ \A o \in Requests \ {r} : req'[o] = [req[o] EXCEPT !.alone = At(o, "closed")]
        /\ req'[r].seen = outcome /\ req'[r].stage \in {"traces", "plan", "count"}
        /\ req'[r].alone = \A o \in Requests : At(o, "closed")
    BY ArriveType
  <1>2. UNCHANGED outcome
    BY DEF Arrive, Rows
  <1>3. ASSUME NEW o \in Requests \ {r}
        PROVE  /\ req'[o].alone = At(o, "closed") /\ req'[o].stage = req[o].stage
               /\ req'[o].seen = req[o].seen
    <2>1. req[o] \in RequestRecords /\ req'[o] = [req[o] EXCEPT !.alone = At(o, "closed")]
      BY <1>1, Records
    <2>2. QED BY <2>1 DEF RequestRecords
  <1>4. AloneInv'
    BY <1>1, <1>2, <1>3 DEF AloneInv, At
  <1>5. DetectInv'
    BY <1>1, <1>3 DEF DetectInv
  <1>6. QED BY <1>4, <1>5

\* A reported outcome, written alone, is on the session and on every trace.
LEMMA ReportedAlone ==
    ASSUME TypeInv, AloneInv, NEW r \in Requests, CommitOutcome(r)
    PROVE  ExplicitOverrides'
  <1>1. SUFFICES ASSUME req[r].alone
                 PROVE  outcome' = req[r].value /\ \A n \in DOMAIN turns' : turns'[n].outcome = req[r].value
    BY DEF CommitOutcome, ExplicitOverrides
  <1>2. outcome = req[r].seen /\ req[r].wrote = Len(turns)
    BY <1>1 DEF AloneInv, CommitOutcome, At
  <1>3. outcome' = req[r].value /\ turns' = Traced(r)
    BY <1>2 DEF CommitOutcome
  <1>4. DOMAIN turns' = 1 .. Len(turns) /\ Len(turns) \in Nat
    BY <1>3, TracedType, Records
  <1>5. ASSUME NEW n \in 1 .. Len(turns) PROVE turns'[n].outcome = req[r].value
    <2>1. n \in DOMAIN turns /\ n <= req[r].wrote /\ turns[n] \in Turn
      BY <1>2, <1>4, Records
    <2>2. turns'[n] = [turns[n] EXCEPT !.outcome = req[r].value]
      BY <1>3, <2>1, TracedType
    <2>3. QED BY <2>1, <2>2 DEF Turn
  <1>6. QED BY <1>3, <1>4, <1>5

LEMMA ExplicitStep ==
    ASSUME TypeInv, ReportInv, NEW r \in Requests, StepOf(r)
    PROVE  ExplicitOverrides'
  <1>1. CASE UNCHANGED <<outcome, turns, explicit>>
    BY <1>1 DEF ReportInv, ExplicitOverrides
  <1>2. CASE InsertTurn(r) /\ Len(turns) = req[r].number
    <2>1. /\ turns' \in Seq(Turn) /\ Len(turns') = Len(turns) + 1 /\ Len(turns) \in Nat
          /\ DOMAIN turns = 1 .. Len(turns) /\ UNCHANGED <<outcome, explicit>>
      BY <1>2, InsertedType, Records DEF InsertTurn
    <2>2. DOMAIN turns' = 1 .. Len(turns) + 1
      BY <2>1, LenProperties
    <2>3. ASSUME NEW n \in 1 .. Len(turns) PROVE turns'[n].outcome = turns[n].outcome
      <3>1. turns'[n] = turns[n] \/ turns'[n] = [turns[n] EXCEPT !.reply = "heard"]
        BY <1>2, InsertedType
      <3>2. turns[n] \in Turn
        BY Records
      <3>3. QED BY <3>1, <3>2 DEF Turn
    <2>4. turns'[Len(turns) + 1].outcome = None
      <3>1. PICK a \in Requests \cup {None} :
               turns'[Len(turns) + 1] = [reply |-> a, traced |-> a, outcome |-> None]
        BY <1>2, InsertedType
      <3>2. QED BY <3>1
    <2>5. \A n \in DOMAIN turns' : n \in 1 .. Len(turns) \/ n = Len(turns) + 1
      BY <2>1, <2>2
    <2>6. QED BY <2>1, <2>3, <2>4, <2>5 DEF ReportInv, ExplicitOverrides
  <1>3. CASE CommitReply(r)
    <2>1. DOMAIN turns' = DOMAIN turns /\ UNCHANGED <<outcome, explicit>>
      BY <1>3, RepliedType, Records, LenProperties DEF CommitReply
    <2>2. ASSUME NEW n \in DOMAIN turns PROVE turns'[n].outcome = turns[n].outcome
      <3>1. turns'[n] = turns[n] \/ turns'[n] = [turns[n] EXCEPT !.reply = r, !.traced = r]
        BY <1>3, RepliedType
      <3>2. turns[n] \in Turn
        BY Records
      <3>3. QED BY <3>1, <3>2 DEF Turn
    <2>3. QED BY <2>1, <2>2 DEF ReportInv, ExplicitOverrides
  <1>4. CASE CommitDetected(r)
    BY <1>4 DEF CommitDetected, ExplicitOverrides
  <1>5. CASE CommitOutcome(r)
    BY <1>5, ReportedAlone DEF ReportInv
  <1>6. CASE InsertTurn(r) /\ Len(turns) # req[r].number
    BY <1>1, <1>6 DEF InsertTurn
  <1>7. UNCHANGED Rows => UNCHANGED <<outcome, turns>>
    BY DEF Rows
  <1>8. CASE CountTurn(r) \/ ReadTurns(r) \/ UpdateSession(r) \/ Propagate(r) \/ UpdateTraces(r) \/ Rollback(r)
    BY <1>1, <1>7, <1>8 DEF CountTurn, ReadTurns, UpdateSession, Propagate, UpdateTraces, Rollback
  <1>9. QED BY <1>2, <1>3, <1>4, <1>5, <1>6, <1>8 DEF StepOf

LEMMA AloneNext == TypeInv /\ ReportInv /\ [Next]_vars => ReportInv'
  <1> SUFFICES ASSUME TypeInv, ReportInv, [Next]_vars PROVE ReportInv'
    OBVIOUS
  <1>1. ASSUME NEW r \in Requests, StepOf(r) PROVE ReportInv'
    BY <1>1, AloneStep, ExplicitStep DEF ReportInv
  <1>2. ASSUME NEW r \in Requests, NEW k \in Kinds, NEW v \in Outcomes \cup {None}, Arrive(r, k, v)
        PROVE  ReportInv'
    <2>1. UNCHANGED <<outcome, turns, explicit>>
      BY <1>2 DEF Arrive, Rows
    <2>2. ExplicitOverrides'
      BY <2>1 DEF ReportInv, ExplicitOverrides
    <2>3. QED BY <1>2, <2>2, AloneArrive DEF ReportInv
  <1>3. CASE NextMinute \/ UNCHANGED vars
    <2>1. UNCHANGED <<outcome, turns, explicit, req>>
      BY <1>3 DEF NextMinute, vars, Rows
    <2>2. QED BY <2>1 DEF ReportInv, AloneInv, DetectInv, ExplicitOverrides, At
  <1>4. QED BY <1>1, <1>2, <1>3, Steps DEF StepOf

(***************************************************************************)
(* What is recorded agrees: no more turns pass than the quota, a trace has *)
(* the reply its turn has unless a voice client corrected the turn, and a  *)
(* reported outcome that met no other request is everywhere.               *)
(***************************************************************************)
THEOREM RecordsHold == Spec => []RecordsAgree
  <1> DEFINE Inv == TypeInv /\ QuotaInv /\ TracesTellTheTurns /\ ReportInv
  <1>1. Init => Inv
    BY TypeInit, QuotaInit, ToldInit, AloneInit
  <1>2. Inv /\ [Next]_vars => Inv'
    BY TypeNext, QuotaNext, ToldNext, AloneNext
  <1>3. Inv => RecordsAgree
    BY DEF TypeInv, QuotaInv, ReportInv, RecordsAgree, TurnsWithinQuota
  <1> HIDE DEF Inv
  <1>4. QED BY <1>1, <1>2, <1>3, PTL DEF Spec

(***************************************************************************)
(* A detected outcome replaces another only if that one was recorded while *)
(* the detecting turn was under way.                                       *)
(***************************************************************************)
THEOREM DetectionYields == Spec => EarlierOutcomesStay
  <1> DEFINE Inv == TypeInv /\ ReportInv
  <1>1. Init => Inv
    BY TypeInit, AloneInit
  <1>2. Inv /\ [Next]_vars => Inv'
    BY TypeNext, AloneNext
  <1>3. Inv => \A r \in Requests : Detected(r) /\ outcome # None => ~req[r].alone
    BY DEF ReportInv, AloneInv, DetectInv, Detected, At
  <1>4. Inv /\ [Next]_vars => [\A r \in Requests : Detected(r) /\ outcome # None => ~req[r].alone]_vars
    BY <1>3
  <1> HIDE DEF Inv
  <1>5. QED BY <1>1, <1>2, <1>4, PTL DEF Spec, EarlierOutcomesStay
=============================================================================
