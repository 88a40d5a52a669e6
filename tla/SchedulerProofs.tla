--------------------------- MODULE SchedulerProofs ---------------------------
(***************************************************************************)
(* Proofs about Scheduler, for any finite sets of callers and any budget.  *)
(*                                                                         *)
(* The inductive invariant is the conjunction of Scheduler's own           *)
(* invariants: the accounting of permits needs the types only, but "no     *)
(* wake-up is lost" needs the queue to hold exactly the suspended calls.   *)
(***************************************************************************)
EXTENDS Scheduler, FiniteSetTheorems, SequenceTheorems, TLAPS

IInv ==
    /\ TypeOK
    /\ QueueMatchesStages
    /\ PermitsConserved
    /\ FlagTracksLive
    /\ NoLostWakeup

Queued == In("waitPermit") \cup In("granted")

-----------------------------------------------------------------------------
LEMMA PermitsType == Permits \in Nat \ {0}
  BY BudgetAssumption DEF Permits

\* Every set of speculative calls is finite, so it has a size.
LEMMA SpecSetSize ==
    ASSUME NEW S \in SUBSET SpecCalls
    PROVE  IsFiniteSet(S) /\ Cardinality(S) \in Nat
  BY CallsAssumption, FS_Subset, FS_CardinalityType

LEMMA RemoveAtFacts ==
    ASSUME NEW S, NEW q \in Seq(S), NEW i \in DOMAIN q
    PROVE  /\ RemoveAt(q, i) \in Seq(S)
           /\ Len(RemoveAt(q, i)) = Len(q) - 1
           /\ \A j \in 1 .. Len(q) - 1 :
                 RemoveAt(q, i)[j] = IF j < i THEN q[j] ELSE q[j + 1]
  <1> DEFINE front == SubSeq(q, 1, i - 1)
             back  == SubSeq(q, i + 1, Len(q))
  <1>1. Len(q) \in Nat /\ i \in 1 .. Len(q)
    OBVIOUS
  <1>2. /\ front \in Seq(S) /\ Len(front) = i - 1
        /\ \A j \in 1 .. i - 1 : front[j] = q[j]
    BY <1>1, SubSeqProperties
  <1>3. /\ back \in Seq(S) /\ Len(back) = Len(q) - i
        /\ \A j \in 1 .. Len(q) - i : back[j] = q[i + j]
    BY <1>1, SubSeqProperties
  <1> HIDE DEF front, back
  <1>4. RemoveAt(q, i) = front \o back
    BY DEF RemoveAt, front, back
  <1>5. /\ front \o back \in Seq(S)
        /\ Len(front \o back) = Len(q) - 1
        /\ \A j \in 1 .. Len(q) - 1 :
              (front \o back)[j] = IF j <= i - 1 THEN front[j] ELSE back[j - (i - 1)]
    BY <1>1, <1>2, <1>3, ConcatProperties
  <1>6. ASSUME NEW j \in 1 .. Len(q) - 1
        PROVE  (front \o back)[j] = IF j < i THEN q[j] ELSE q[j + 1]
    <2>1. CASE j < i
      BY <1>1, <1>2, <1>5, <2>1
    <2>2. CASE ~(j < i)
      <3>1. j - (i - 1) \in 1 .. Len(q) - i
        BY <1>1, <2>2
      <3>2. (front \o back)[j] = back[j - (i - 1)]
        BY <1>1, <1>5, <2>2
      <3>3. back[j - (i - 1)] = q[i + (j - (i - 1))]
        BY <1>3, <3>1
      <3>4. QED BY <1>1, <2>2, <3>2, <3>3
    <2>3. QED BY <2>1, <2>2
  <1>7. QED BY <1>4, <1>5, <1>6

\* Taking a queued call out of the queue leaves the others, once each.
LEMMA WithoutFacts ==
    ASSUME TypeOK, QueueMatchesStages, NEW s \in Queued
    PROVE  /\ Without(s) \in Seq(SpecCalls)
           /\ {Without(s)[k] : k \in DOMAIN Without(s)} = Queued \ {s}
           /\ \A k, l \in DOMAIN Without(s) : Without(s)[k] = Without(s)[l] => k = l
  <1> DEFINE i == CHOOSE i \in DOMAIN waiters : waiters[i] = s
             q == RemoveAt(waiters, i)
  <1>1. waiters \in Seq(SpecCalls) /\ i \in DOMAIN waiters /\ waiters[i] = s
    BY DEF TypeOK, QueueMatchesStages, Queued
  <1>2. /\ q \in Seq(SpecCalls)
        /\ Len(q) = Len(waiters) - 1
        /\ \A j \in 1 .. Len(waiters) - 1 :
              q[j] = IF j < i THEN waiters[j] ELSE waiters[j + 1]
    BY <1>1, RemoveAtFacts
  <1> HIDE DEF i, q
  <1>3. DOMAIN waiters = 1 .. Len(waiters) /\ DOMAIN q = 1 .. Len(q) /\ Len(waiters) \in Nat
    BY <1>1, <1>2
  <1>4. \A k, l \in DOMAIN waiters : waiters[k] = waiters[l] => k = l
    BY DEF QueueMatchesStages
  <1>5. \A k \in DOMAIN q : q[k] \in Queued \ {s}
    <2>1. \A k \in DOMAIN waiters : waiters[k] \in Queued
      BY DEF QueueMatchesStages, Queued
    <2>2. TAKE k \in DOMAIN q
    <2>3. CASE k < i
      BY <1>1, <1>2, <1>3, <1>4, <2>1, <2>2, <2>3
    <2>4. CASE ~(k < i)
      BY <1>1, <1>2, <1>3, <1>4, <2>1, <2>2, <2>4
    <2>5. QED BY <2>3, <2>4
  <1>6. \A t \in Queued \ {s} : \E k \in DOMAIN q : q[k] = t
    <2>1. TAKE t \in Queued \ {s}
    <2>2. PICK m \in DOMAIN waiters : waiters[m] = t
      BY DEF QueueMatchesStages, Queued
    <2>3. m # i
      BY <1>1, <2>2
    <2>4. CASE m < i
      BY <1>1, <1>2, <1>3, <2>2, <2>4
    <2>5. CASE m > i
      <3>1. m - 1 \in DOMAIN q /\ q[m - 1] = waiters[m]
        BY <1>1, <1>2, <1>3, <2>2, <2>5
      <3>2. QED BY <2>2, <3>1
    <2>6. QED BY <1>1, <1>3, <2>3, <2>4, <2>5
  <1>7. \A k, l \in DOMAIN q : q[k] = q[l] => k = l
    <2>1. TAKE k, l \in DOMAIN q
    <2> DEFINE Pos(n) == IF n < i THEN n ELSE n + 1
    <2>2. /\ Pos(k) \in DOMAIN waiters /\ q[k] = waiters[Pos(k)]
          /\ Pos(l) \in DOMAIN waiters /\ q[l] = waiters[Pos(l)]
      BY <1>1, <1>2, <1>3, <2>1
    <2>3. Pos(k) = Pos(l) => k = l
      BY <1>1, <1>3, <2>1
    <2>4. QED BY <1>4, <2>2, <2>3
  <1>8. Without(s) = q
    BY DEF Without, q, i
  <1>9. QED BY <1>2, <1>5, <1>6, <1>7, <1>8

-----------------------------------------------------------------------------
(***************************************************************************)
(* What passing permits on does to the stages and to the accounting, seen  *)
(* from the call s that passes them.                                       *)
(***************************************************************************)
LEMMA PassPermitsFacts ==
    ASSUME TypeOK, NEW s \in SpecCalls, NEW stage \in {"out", "waitIdle", "calling"},
           NEW free \in Nat, NEW atMost \in Nat, atMost <= free,
           PassPermits(s, stage, free, atMost)
    PROVE  /\ value' \in Nat
           /\ pc' \in [SpecCalls -> Stages]
           /\ pc'[s] = stage
           /\ In("calling")' = IF stage = "calling" THEN In("calling") \cup {s}
                                                    ELSE In("calling") \ {s}
           /\ (In("waitPermit") \cup In("granted"))' = Queued \ {s}
           /\ value' + Cardinality(Holders') =
                 free + Cardinality(Holders \ {s})
                      + (IF stage = "calling" THEN 1 ELSE 0)
           /\ value' > 0 /\ In("waitPermit")' # {} =>
                 atMost < free /\ (atMost > 0 => In("granted")' # {})
  <1> DEFINE blocked == In("waitPermit") \ {s}
  <1>1. PICK W \in SUBSET blocked :
          /\ Cardinality(W) = SmallerOf(atMost, Cardinality(blocked))
          /\ value' = free - Cardinality(W)
          /\ pc' = [t \in SpecCalls |->
                      IF t = s THEN stage ELSE IF t \in W THEN "granted" ELSE pc[t]]
    BY DEF PassPermits
  <1>2. /\ IsFiniteSet(W) /\ Cardinality(W) \in Nat
        /\ IsFiniteSet(blocked) /\ Cardinality(blocked) \in Nat
    BY SpecSetSize DEF In
  <1>3. value' \in Nat /\ Cardinality(W) <= atMost /\ Cardinality(W) <= Cardinality(blocked)
    BY <1>1, <1>2 DEF SmallerOf
  <1>4. pc \in [SpecCalls -> Stages] /\ pc' \in [SpecCalls -> Stages] /\ pc'[s] = stage
    BY <1>1 DEF TypeOK, Stages
  <1>5. /\ In("waitPermit")' = blocked \ W
        /\ In("granted")' = (In("granted") \ {s}) \cup W
        /\ In("calling")' = IF stage = "calling" THEN In("calling") \cup {s}
                                                 ELSE In("calling") \ {s}
    BY <1>1, <1>4 DEF In
  <1>6. (In("waitPermit") \cup In("granted"))' = Queued \ {s}
    BY <1>1, <1>5 DEF Queued
  <1>7. value' + Cardinality(Holders') =
          free + Cardinality(Holders \ {s}) + (IF stage = "calling" THEN 1 ELSE 0)
    <2> DEFINE rest == (Holders \ {s}) \cup W
    <2>1. (Holders \ {s}) \cap W = {}
      BY <1>1, <1>4 DEF Holders, In
    <2>2. /\ IsFiniteSet(Holders \ {s}) /\ Cardinality(Holders \ {s}) \in Nat
          /\ IsFiniteSet(rest) /\ Cardinality(rest) \in Nat
      BY <1>1, SpecSetSize DEF Holders, In
    <2>3. Cardinality(rest) = Cardinality(Holders \ {s}) + Cardinality(W)
      <3>1. Cardinality(rest) =
              Cardinality(Holders \ {s}) + Cardinality(W) - Cardinality((Holders \ {s}) \cap W)
        BY <1>2, <2>2, FS_Union
      <3>2. Cardinality((Holders \ {s}) \cap W) = 0
        BY <2>1, FS_EmptySet
      <3> HIDE DEF rest
      <3>3. QED BY <1>2, <2>2, <3>1, <3>2
    <2>4. s \notin rest
      BY <1>1
    <2>5. CASE stage = "calling"
      <3>1. Holders' = rest \cup {s}
        BY <1>5, <2>5 DEF Holders
      <3>2. Cardinality(Holders') = Cardinality(rest) + 1
        BY <2>2, <2>4, <3>1, FS_AddElement
      <3>3. QED BY <1>1, <1>2, <2>2, <2>3, <2>5, <3>2
    <2>6. CASE stage # "calling"
      <3>1. Holders' = rest
        BY <1>5, <2>6 DEF Holders
      <3>2. QED BY <1>1, <1>2, <2>2, <2>3, <2>6, <3>1
    <2>7. QED BY <2>5, <2>6
  <1>8. ASSUME value' > 0, In("waitPermit")' # {}
        PROVE  atMost < free /\ (atMost > 0 => In("granted")' # {})
    <2>1. Cardinality(W) # Cardinality(blocked)
      BY <1>1, <1>2, <1>5, <1>8, FS_Subset
    <2>2. Cardinality(W) = atMost
      BY <1>1, <1>2, <2>1 DEF SmallerOf
    <2>3. atMost < free
      BY <1>1, <1>8, <2>2
    <2>4. ASSUME atMost > 0 PROVE W # {}
      BY <2>2, <2>4, FS_EmptySet
    <2>5. QED BY <1>5, <2>3, <2>4
  <1>9. QED BY <1>3, <1>4, <1>5, <1>6, <1>7, <1>8

-----------------------------------------------------------------------------
LEMMA InitEstablishesIInv == Init => IInv
  <1> SUFFICES ASSUME Init PROVE IInv
    OBVIOUS
  <1>1. TypeOK
    BY PermitsType DEF Init, TypeOK, Stages
  <1>2. In("granted") = {} /\ In("calling") = {} /\ In("waitPermit") = {}
    BY DEF Init, In
  <1>3. PermitsConserved
    BY <1>2, PermitsType, FS_EmptySet DEF Init, PermitsConserved, Holders
  <1>4. QueueMatchesStages
    BY <1>2 DEF Init, QueueMatchesStages
  <1>5. FlagTracksLive
    BY FS_EmptySet DEF Init, FlagTracksLive
  <1>6. NoLostWakeup
    BY <1>2 DEF NoLostWakeup
  <1>7. QED BY <1>1, <1>3, <1>4, <1>5, <1>6 DEF IInv

\* The live path touches the flag, the counter and who is woken: nothing else.
LEMMA EnterCriticalPreserves ==
    ASSUME IInv, NEW c \in LiveCalls, EnterCritical(c)
    PROVE  IInv'
  <1> USE DEF IInv
  <1>1. IsFiniteSet(live) /\ Cardinality(live) \in Nat
    BY CallsAssumption, FS_Subset, FS_CardinalityType DEF TypeOK
  <1>2. Cardinality(live') = Cardinality(live) + 1 /\ live' # {}
    BY <1>1, FS_AddElement DEF EnterCritical
  <1>3. TypeOK'
    <2>1. idle' \in BOOLEAN
      BY DEF EnterCritical
    <2>2. /\ live' \subseteq LiveCalls /\ criticalActive' \in Nat
          /\ value' \in Nat /\ waiters' \in Seq(SpecCalls) /\ pc' \in [SpecCalls -> Stages]
      BY DEF TypeOK, EnterCritical
    <2>3. QED BY <2>1, <2>2 DEF TypeOK
  <1>4. FlagTracksLive'
    BY <1>2 DEF FlagTracksLive, EnterCritical
  <1>5. (PermitsConserved /\ QueueMatchesStages /\ NoLostWakeup)'
    <2>1. /\ In("granted")' = In("granted") /\ In("calling")' = In("calling")
          /\ In("waitPermit")' = In("waitPermit") /\ value' = value /\ waiters' = waiters
      BY DEF EnterCritical, In
    <2>2. QED BY <2>1 DEF PermitsConserved, QueueMatchesStages, NoLostWakeup, Holders
  <1>6. QED BY <1>3, <1>4, <1>5

LEMMA ExitCriticalPreserves ==
    ASSUME IInv, NEW c \in LiveCalls, ExitCritical(c)
    PROVE  IInv'
  <1> USE DEF IInv
  <1>1. IsFiniteSet(live) /\ Cardinality(live) \in Nat
    BY CallsAssumption, FS_Subset, FS_CardinalityType DEF TypeOK
  <1>2. /\ IsFiniteSet(live')
        /\ Cardinality(live') = Cardinality(live) - 1
        /\ Cardinality(live') \in Nat
    BY <1>1, FS_RemoveElement, FS_CardinalityType DEF ExitCritical
  <1>3. Cardinality(live') = 0 <=> live' = {}
    BY <1>2, FS_EmptySet
  <1>4. TypeOK'
    <2>1. idle' \in BOOLEAN
      BY DEF TypeOK, ExitCritical
    <2>2. live' \subseteq LiveCalls /\ value' \in Nat /\ waiters' \in Seq(SpecCalls)
      BY DEF TypeOK, ExitCritical
    <2>3. criticalActive' \in Nat
      BY DEF TypeOK, ExitCritical
    <2>4. pc' \in [SpecCalls -> Stages]
      BY DEF TypeOK, Stages, ExitCritical
    <2>5. QED BY <2>1, <2>2, <2>3, <2>4 DEF TypeOK
  <1>5. FlagTracksLive'
    <2>1. CASE criticalActive - 1 <= 0
      BY <1>1, <1>2, <1>3, <2>1 DEF FlagTracksLive, ExitCritical
    <2>2. CASE ~(criticalActive - 1 <= 0)
      <3>1. /\ criticalActive' = criticalActive - 1 /\ idle' = idle
            /\ criticalActive = Cardinality(live) /\ (idle <=> live = {})
        BY <2>2 DEF FlagTracksLive, ExitCritical
      <3>2. live # {} /\ live' # {}
        BY <1>1, <1>2, <1>3, <2>2, <3>1 DEF ExitCritical
      <3>3. QED BY <1>2, <3>1, <3>2 DEF FlagTracksLive
    <2>3. QED BY <2>1, <2>2
  <1>6. /\ In("granted")' = In("granted") /\ In("calling")' = In("calling")
        /\ In("waitPermit")' = In("waitPermit")
    BY DEF ExitCritical, In, TypeOK, Stages
  <1>7. (PermitsConserved /\ QueueMatchesStages /\ NoLostWakeup)'
    BY <1>6 DEF ExitCritical, PermitsConserved, QueueMatchesStages, NoLostWakeup, Holders
  <1>8. QED BY <1>4, <1>5, <1>7

-----------------------------------------------------------------------------
\* A step that only moves s between stages that neither queue nor own a permit.
LEMMA MovePreserves ==
    ASSUME IInv, NEW s \in SpecCalls, NEW stage \in {"out", "waitIdle"},
           pc[s] \in {"out", "waitIdle", "woken"},
           pc' = [pc EXCEPT ![s] = stage],
           UNCHANGED <<live, criticalActive, idle, value, waiters>>
    PROVE  IInv'
  <1>1. pc \in [SpecCalls -> Stages]
    BY DEF IInv, TypeOK
  <1>2. TypeOK'
    BY DEF IInv, TypeOK, Stages
  <1>3. /\ In("granted")' = In("granted") /\ In("calling")' = In("calling")
        /\ In("waitPermit")' = In("waitPermit")
    BY <1>1 DEF In
  <1>4. (PermitsConserved /\ QueueMatchesStages /\ NoLostWakeup /\ FlagTracksLive)'
    BY <1>3 DEF IInv, PermitsConserved, QueueMatchesStages, NoLostWakeup, FlagTracksLive, Holders
  <1>5. QED BY <1>2, <1>4 DEF IInv

\* Asking for a permit: queueing keeps the queue exact; taking one is accounted for.
LEMMA TryPermitPreserves ==
    ASSUME IInv, NEW s \in SpecCalls, pc[s] \in {"out", "woken"}, TryPermit(s)
    PROVE  IInv'
  <1>1. /\ pc \in [SpecCalls -> Stages] /\ waiters \in Seq(SpecCalls) /\ value \in Nat
        /\ UNCHANGED <<live, criticalActive, idle>>
    BY DEF IInv, TypeOK, TryPermit
  <1>2. s \notin Queued /\ s \notin Holders
    BY DEF Queued, Holders, In
  <1>3. CASE Locked
    <2>1. waiters' = Append(waiters, s) /\ pc' = [pc EXCEPT ![s] = "waitPermit"] /\ value' = value
      BY <1>3 DEF TryPermit
    <2>2. /\ In("granted")' = In("granted") /\ In("calling")' = In("calling")
          /\ In("waitPermit")' = In("waitPermit") \cup {s}
      BY <1>1, <2>1 DEF In
    <2>3. TypeOK'
      BY <1>1, <2>1 DEF IInv, TypeOK, Stages
    <2>4. QueueMatchesStages'
      <3>1. /\ DOMAIN waiters = 1 .. Len(waiters) /\ Len(waiters) \in Nat
            /\ DOMAIN waiters' = 1 .. Len(waiters) + 1
            /\ \A k \in DOMAIN waiters : waiters'[k] = waiters[k]
            /\ waiters'[Len(waiters) + 1] = s
        BY <1>1, <2>1
      <3>2. /\ {waiters[k] : k \in DOMAIN waiters} = Queued
            /\ \A k, l \in DOMAIN waiters : waiters[k] = waiters[l] => k = l
        BY DEF IInv, QueueMatchesStages, Queued
      <3>3. {waiters'[k] : k \in DOMAIN waiters'} = Queued \cup {s}
        BY <3>1, <3>2
      <3>4. ASSUME NEW k \in DOMAIN waiters', NEW l \in DOMAIN waiters',
                   waiters'[k] = waiters'[l]
            PROVE  k = l
        <4>1. \A n \in DOMAIN waiters' : waiters'[n] = s <=> n = Len(waiters) + 1
          BY <1>2, <3>1, <3>2
        <4>2. QED BY <3>1, <3>2, <3>4, <4>1
      <3>5. (In("waitPermit") \cup In("granted"))' = Queued \cup {s}
        BY <2>2 DEF Queued
      <3>6. QED BY <3>3, <3>4, <3>5 DEF QueueMatchesStages
    <2>5. PermitsConserved'
      BY <2>1, <2>2 DEF IInv, PermitsConserved, Holders
    <2>6. NoLostWakeup'
      <3>1. ASSUME value > 0 PROVE In("waitPermit") \cup In("granted") # {}
        <4>1. waiters # <<>>
          BY <1>1, <1>3, <3>1 DEF Locked
        <4>2. 1 \in DOMAIN waiters
          BY <1>1, <4>1
        <4>3. QED BY <4>2 DEF IInv, QueueMatchesStages
      <3>2. QED BY <2>1, <2>2, <3>1 DEF IInv, NoLostWakeup
    <2>7. FlagTracksLive'
      BY <1>1 DEF IInv, FlagTracksLive
    <2>8. QED BY <2>3, <2>4, <2>5, <2>6, <2>7 DEF IInv
  <1>4. CASE ~Locked /\ idle
    <2>1. /\ waiters' = waiters /\ pc' = [pc EXCEPT ![s] = "calling"]
          /\ value' = value - 1 /\ value > 0 /\ waiters = <<>>
      BY <1>1, <1>4 DEF TryPermit, Locked
    <2>2. /\ In("granted")' = In("granted") /\ In("calling")' = In("calling") \cup {s}
          /\ In("waitPermit")' = In("waitPermit")
      BY <1>1, <2>1 DEF In
    <2>3. TypeOK'
      <3>1. idle' \in BOOLEAN
        BY <1>1 DEF IInv, TypeOK
      <3>2. /\ live' \subseteq LiveCalls /\ criticalActive' \in Nat /\ value' \in Nat
            /\ waiters' \in Seq(SpecCalls) /\ pc' \in [SpecCalls -> Stages]
        BY <1>1, <2>1 DEF IInv, TypeOK, Stages
      <3>3. QED BY <3>1, <3>2 DEF TypeOK
    <2>4. PermitsConserved'
      <3>1. Holders' = Holders \cup {s}
        BY <2>2 DEF Holders
      <3>2. IsFiniteSet(Holders) /\ Cardinality(Holders) \in Nat
        BY SpecSetSize DEF Holders, In
      <3>3. Cardinality(Holders') = Cardinality(Holders) + 1
        BY <1>2, <3>1, <3>2, FS_AddElement
      <3>4. QED BY <1>1, <2>1, <3>2, <3>3 DEF IInv, PermitsConserved, Permits
    <2>5. In("waitPermit") = {}
      BY <2>1 DEF IInv, QueueMatchesStages
    <2>6. (QueueMatchesStages /\ NoLostWakeup)'
      BY <2>1, <2>2, <2>5 DEF IInv, QueueMatchesStages, NoLostWakeup
    <2>7. FlagTracksLive'
      BY <1>1 DEF IInv, FlagTracksLive
    <2>8. QED BY <2>3, <2>4, <2>6, <2>7 DEF IInv
  <1>5. CASE ~Locked /\ ~idle
    <2>1. /\ UNCHANGED <<live, criticalActive, idle, value, waiters>>
          /\ pc' = [pc EXCEPT ![s] = "waitIdle"]
      BY <1>5 DEF TryPermit
    <2>2. QED BY <2>1, MovePreserves
  <1>6. QED BY <1>3, <1>4, <1>5

-----------------------------------------------------------------------------
(***************************************************************************)
(* A queued call leaves the queue, with or without starting its model      *)
(* call.  free is what it leaves behind: one permit more if it owned one   *)
(* and does not keep it.                                                   *)
(***************************************************************************)
LEMMA LeaveQueuePreserves ==
    ASSUME IInv, NEW s \in Queued, NEW stage \in {"out", "waitIdle", "calling"},
           NEW free \in Nat,
           waiters' = Without(s),
           PassPermits(s, stage, free, free),
           free + (IF stage = "calling" THEN 1 ELSE 0) =
                value + (IF pc[s] = "granted" THEN 1 ELSE 0),
           UNCHANGED <<live, criticalActive, idle>>
    PROVE  IInv'
  <1>1. s \in SpecCalls /\ pc[s] \in {"waitPermit", "granted"}
    BY DEF Queued, In
  <1>2. /\ value' \in Nat
        /\ pc' \in [SpecCalls -> Stages]
        /\ (In("waitPermit") \cup In("granted"))' = Queued \ {s}
        /\ value' + Cardinality(Holders') =
              free + Cardinality(Holders \ {s}) + (IF stage = "calling" THEN 1 ELSE 0)
        /\ ~(value' > 0 /\ In("waitPermit")' # {})
    <2>1. free <= free /\ ~(free < free) /\ TypeOK
      BY DEF IInv
    <2>2. QED BY <1>1, <2>1, PassPermitsFacts, Zenon
  <1>3. /\ waiters' \in Seq(SpecCalls)
        /\ {waiters'[k] : k \in DOMAIN waiters'} = Queued \ {s}
        /\ \A k, l \in DOMAIN waiters' : waiters'[k] = waiters'[l] => k = l
    BY WithoutFacts DEF IInv
  <1>4. TypeOK'
    <2>1. idle' \in BOOLEAN
      BY DEF IInv, TypeOK
    <2>2. live' \subseteq LiveCalls /\ criticalActive' \in Nat
      BY DEF IInv, TypeOK
    <2>3. QED BY <1>2, <1>3, <2>1, <2>2 DEF TypeOK
  <1>5. PermitsConserved'
    <2>1. s \in Holders <=> pc[s] = "granted"
      BY <1>1 DEF Holders, In
    <2>2. IsFiniteSet(Holders) /\ Cardinality(Holders) \in Nat
      BY SpecSetSize DEF Holders, In
    <2>3. Cardinality(Holders \ {s}) =
            IF pc[s] = "granted" THEN Cardinality(Holders) - 1 ELSE Cardinality(Holders)
      BY <2>1, <2>2, FS_RemoveElement
    <2>4. value + Cardinality(Holders) = Permits /\ value \in Nat
      BY DEF IInv, PermitsConserved, TypeOK
    <2>5. value' + Cardinality(Holders') = Permits
      BY <1>2, <2>2, <2>3, <2>4
    <2>6. QED BY <2>5 DEF PermitsConserved, Permits
  <1>6. QueueMatchesStages'
    BY <1>2, <1>3 DEF QueueMatchesStages
  <1>7. NoLostWakeup'
    BY <1>2 DEF NoLostWakeup
  <1>8. FlagTracksLive'
    BY DEF IInv, FlagTracksLive
  <1>9. QED BY <1>4, <1>5, <1>6, <1>7, <1>8 DEF IInv

LEMMA ResumeGrantedPreserves ==
    ASSUME IInv, NEW s \in SpecCalls, ResumeGranted(s)
    PROVE  IInv'
  <1>1. s \in Queued /\ pc[s] = "granted" /\ value \in Nat
    BY DEF ResumeGranted, Queued, In, IInv, TypeOK
  <1>2. CASE idle
    BY <1>1, <1>2, LeaveQueuePreserves DEF ResumeGranted
  <1>3. CASE ~idle
    BY <1>1, <1>3, LeaveQueuePreserves DEF ResumeGranted
  <1>4. QED BY <1>2, <1>3

LEMMA CancelQueuedPreserves ==
    ASSUME IInv, NEW s \in SpecCalls, CancelQueued(s)
    PROVE  IInv'
  <1>1. s \in Queued /\ value \in Nat
    BY DEF CancelQueued, Queued, In, IInv, TypeOK
  <1>2. CASE pc[s] = "granted"
    BY <1>1, <1>2, LeaveQueuePreserves DEF CancelQueued
  <1>3. CASE pc[s] # "granted"
    BY <1>1, <1>3, LeaveQueuePreserves DEF CancelQueued
  <1>4. QED BY <1>2, <1>3

LEMMA ReleaseSpeculativePreserves ==
    ASSUME IInv, NEW s \in SpecCalls, ReleaseSpeculative(s)
    PROVE  IInv'
  <1>1. /\ pc[s] = "calling" /\ value \in Nat
        /\ PassPermits(s, "out", value + 1, 1)
        /\ UNCHANGED <<live, criticalActive, idle, waiters>>
    BY DEF ReleaseSpeculative, IInv, TypeOK
  <1>2. /\ value' \in Nat
        /\ pc' \in [SpecCalls -> Stages]
        /\ (In("waitPermit") \cup In("granted"))' = Queued \ {s}
        /\ value' + Cardinality(Holders') = value + 1 + Cardinality(Holders \ {s})
        /\ (value' > 0 /\ In("waitPermit")' # {} => In("granted")' # {})
    <2>1. value + 1 \in Nat /\ 1 \in Nat /\ 1 <= value + 1 /\ TypeOK
      BY <1>1 DEF IInv
    <2>2. /\ value' \in Nat
          /\ pc' \in [SpecCalls -> Stages]
          /\ (In("waitPermit") \cup In("granted"))' = Queued \ {s}
          /\ value' + Cardinality(Holders') =
                value + 1 + Cardinality(Holders \ {s}) + (IF "out" = "calling" THEN 1 ELSE 0)
          /\ (value' > 0 /\ In("waitPermit")' # {} =>
                  1 < value + 1 /\ (1 > 0 => In("granted")' # {}))
      BY <1>1, <2>1, PassPermitsFacts, Zenon
    <2>3. Cardinality(Holders \ {s}) \in Nat
      BY SpecSetSize DEF Holders, In
    <2>4. QED BY <1>1, <2>2, <2>3
  <1>3. s \notin Queued /\ s \in Holders
    BY <1>1 DEF Queued, Holders, In
  <1>4. TypeOK'
    <2>1. idle' \in BOOLEAN
      BY <1>1 DEF IInv, TypeOK
    <2>2. live' \subseteq LiveCalls /\ criticalActive' \in Nat /\ waiters' \in Seq(SpecCalls)
      BY <1>1 DEF IInv, TypeOK
    <2>3. QED BY <1>2, <2>1, <2>2 DEF TypeOK
  <1>5. PermitsConserved'
    <2>1. IsFiniteSet(Holders) /\ Cardinality(Holders) \in Nat
      BY SpecSetSize DEF Holders, In
    <2>2. Cardinality(Holders \ {s}) = Cardinality(Holders) - 1
      BY <1>3, <2>1, FS_RemoveElement
    <2>3. value + Cardinality(Holders) = Permits
      BY DEF IInv, PermitsConserved
    <2>4. value' + Cardinality(Holders') = Permits
      BY <1>1, <1>2, <2>1, <2>2, <2>3
    <2>5. QED BY <2>4 DEF PermitsConserved, Permits
  <1>6. QueueMatchesStages'
    BY <1>1, <1>2, <1>3 DEF IInv, QueueMatchesStages, Queued
  <1>7. NoLostWakeup'
    BY <1>2 DEF NoLostWakeup
  <1>8. FlagTracksLive'
    BY <1>1 DEF IInv, FlagTracksLive
  <1>9. QED BY <1>4, <1>5, <1>6, <1>7, <1>8 DEF IInv

-----------------------------------------------------------------------------
LEMMA NextPreservesIInv == IInv /\ [Next]_vars => IInv'
  <1> SUFFICES ASSUME IInv, [Next]_vars PROVE IInv'
    OBVIOUS
  <1>1. ASSUME NEW c \in LiveCalls, EnterCritical(c) PROVE IInv'
    BY <1>1, EnterCriticalPreserves
  <1>2. ASSUME NEW c \in LiveCalls, ExitCritical(c) PROVE IInv'
    BY <1>2, ExitCriticalPreserves
  <1>3. ASSUME NEW s \in SpecCalls, HoldForCritical(s) PROVE IInv'
    BY <1>3, MovePreserves DEF HoldForCritical
  <1>4. ASSUME NEW s \in SpecCalls, AcquireSpeculative(s) PROVE IInv'
    BY <1>4, TryPermitPreserves DEF AcquireSpeculative
  <1>5. ASSUME NEW s \in SpecCalls, ResumeFromIdle(s) PROVE IInv'
    BY <1>5, TryPermitPreserves DEF ResumeFromIdle
  <1>6. ASSUME NEW s \in SpecCalls, ResumeGranted(s) PROVE IInv'
    BY <1>6, ResumeGrantedPreserves
  <1>7. ASSUME NEW s \in SpecCalls, ReleaseSpeculative(s) PROVE IInv'
    BY <1>7, ReleaseSpeculativePreserves
  <1>8. ASSUME NEW s \in SpecCalls, CancelIdle(s) PROVE IInv'
    BY <1>8, MovePreserves DEF CancelIdle
  <1>9. ASSUME NEW s \in SpecCalls, CancelQueued(s) PROVE IInv'
    BY <1>9, CancelQueuedPreserves
  <1>10. CASE UNCHANGED vars
    <2>1. TypeOK'
      BY <1>10 DEF IInv, TypeOK, vars
    <2>2. (QueueMatchesStages /\ PermitsConserved /\ FlagTracksLive /\ NoLostWakeup)'
      BY <1>10 DEF IInv, vars, QueueMatchesStages, PermitsConserved, FlagTracksLive,
                   NoLostWakeup, Holders, In
    <2>3. QED BY <2>1, <2>2 DEF IInv
  <1>11. QED
    BY <1>1, <1>2, <1>3, <1>4, <1>5, <1>6, <1>7, <1>8, <1>9, <1>10 DEF Next

(***************************************************************************)
(* The scheduler's invariants hold for every number of callers and every   *)
(* configured budget, zero and negative ones included.                     *)
(***************************************************************************)
THEOREM InductiveInvariant == Spec => []IInv
  <1>1. QED BY InitEstablishesIInv, NextPreservesIInv, PTL DEF Spec

(***************************************************************************)
(* Variables keep their types; in particular the semaphore's counter never *)
(* goes negative and the queue never holds a stranger (scheduler.py 22-66).*)
(***************************************************************************)
THEOREM TypeCorrect == Spec => []TypeOK
  <1>1. IInv => TypeOK
    BY DEF IInv
  <1>2. QED BY <1>1, InductiveInvariant, PTL

(***************************************************************************)
(* Hand-overs, give-backs and cancellations neither lose nor mint permits. *)
(***************************************************************************)
THEOREM PermitsAreConserved == Spec => []PermitsConserved
  <1>1. IInv => PermitsConserved
    BY DEF IInv
  <1>2. QED BY <1>1, InductiveInvariant, PTL

(***************************************************************************)
(* A free permit and a queued call never meet unless a wake-up is already  *)
(* on its way.                                                             *)
(***************************************************************************)
THEOREM WakeupsAreNotLost == Spec => []NoLostWakeup
  <1>1. IInv => NoLostWakeup
    BY DEF IInv
  <1>2. QED BY <1>1, InductiveInvariant, PTL

-----------------------------------------------------------------------------
\* Starting a model call with the flag up is a start the gate allows.
LEMMA StartIsAllowed ==
    ASSUME IInv, NEW s \in SpecCalls, pc[s] # "calling", idle,
           s \in Holders \/ value > 0,
           live' = live,
           In("calling")' = In("calling") \cup {s}
    PROVE  Gate!StartSpeculative(s)
  <1>1. live = {}
    BY DEF IInv, FlagTracksLive
  <1>2. /\ IsFiniteSet(Holders) /\ Cardinality(Holders) \in Nat
        /\ IsFiniteSet(In("calling")) /\ Cardinality(In("calling")) \in Nat
    BY SpecSetSize DEF Holders, In
  <1>3. In("calling") \subseteq Holders /\ s \notin In("calling")
    BY DEF Holders, In
  <1>4. value \in Nat /\ value + Cardinality(Holders) = Permits
    BY DEF IInv, TypeOK, PermitsConserved
  <1>5. Cardinality(In("calling")) <= Cardinality(Holders)
    BY <1>2, <1>3, FS_Subset
  <1>6. Cardinality(In("calling")) < Permits
    <2>1. CASE value > 0
      BY <1>2, <1>4, <1>5, <2>1, PermitsType
    <2>2. CASE s \in Holders
      <3>1. In("calling") # Holders
        BY <1>3, <2>2
      <3>2. Cardinality(In("calling")) # Cardinality(Holders)
        BY <1>2, <1>3, <3>1, FS_Subset
      <3>3. QED BY <1>2, <1>4, <1>5, <3>2, PermitsType
    <2>3. QED BY <2>1, <2>2
  <1>7. /\ s \notin In("calling") /\ live = {} /\ live' = live
        /\ Cardinality(In("calling")) < Permits
        /\ In("calling")' = In("calling") \cup {s}
    BY <1>1, <1>3, <1>6
  <1>8. QED BY ONLY <1>7 DEF Gate!StartSpeculative, Gate!Cardinality, Cardinality

LEMMA TryPermitImplementsGate ==
    ASSUME IInv, NEW s \in SpecCalls, pc[s] \in {"out", "woken"}, TryPermit(s)
    PROVE  Gate!StartSpeculative(s) \/ UNCHANGED Gate!gateVars
  <1>1. /\ pc \in [SpecCalls -> Stages] /\ waiters \in Seq(SpecCalls) /\ value \in Nat
        /\ live' = live
    BY DEF IInv, TypeOK, TryPermit
  <1>2. CASE ~Locked /\ idle
    <2>1. pc' = [pc EXCEPT ![s] = "calling"] /\ value > 0
      BY <1>1, <1>2 DEF TryPermit, Locked
    <2>2. In("calling")' = In("calling") \cup {s}
      BY <1>1, <2>1 DEF In
    <2>3. pc[s] # "calling"
      OBVIOUS
    <2>4. QED BY <1>1, <1>2, <2>1, <2>2, <2>3, StartIsAllowed
  <1>3. CASE ~(~Locked /\ idle)
    <2>1. In("calling")' = In("calling")
      BY <1>1, <1>3 DEF TryPermit, In
    <2>2. QED BY <1>1, <2>1 DEF Gate!gateVars
  <1>4. QED BY <1>2, <1>3

LEMMA ResumeGrantedImplementsGate ==
    ASSUME IInv, NEW s \in SpecCalls, ResumeGranted(s)
    PROVE  Gate!StartSpeculative(s) \/ UNCHANGED Gate!gateVars
  <1>1. /\ pc[s] = "granted" /\ s \in Holders /\ value \in Nat /\ live' = live
        /\ s \notin In("calling") /\ TypeOK
    BY DEF ResumeGranted, Holders, In, IInv, TypeOK
  <1>2. CASE idle
    <2>1. PassPermits(s, "calling", value, value)
      BY <1>2 DEF ResumeGranted
    <2>2. value <= value
      BY <1>1
    <2>3. In("calling")' = In("calling") \cup {s}
      BY <1>1, <2>1, <2>2, PassPermitsFacts, Zenon
    <2>4. pc[s] # "calling"
      BY <1>1
    <2>5. QED BY <1>1, <1>2, <2>3, <2>4, StartIsAllowed
  <1>3. CASE ~idle
    <2>1. PassPermits(s, "waitIdle", value + 1, value + 1)
      BY <1>3 DEF ResumeGranted
    <2>2. value + 1 \in Nat /\ value + 1 <= value + 1
      BY <1>1
    <2>3. In("calling")' = IF "waitIdle" = "calling" THEN In("calling") \cup {s}
                                                    ELSE In("calling") \ {s}
      BY <1>1, <2>1, <2>2, PassPermitsFacts, Zenon
    <2>4. In("calling")' = In("calling")
      BY <1>1, <2>3
    <2>5. QED BY <1>1, <2>4 DEF Gate!gateVars
  <1>4. QED BY <1>2, <1>3

LEMMA ReleaseImplementsGate ==
    ASSUME IInv, NEW s \in SpecCalls, ReleaseSpeculative(s)
    PROVE  Gate!EndSpeculative(s)
  <1>1. /\ s \in In("calling") /\ live' = live /\ TypeOK
        /\ value + 1 \in Nat /\ 1 \in Nat /\ 1 <= value + 1
        /\ PassPermits(s, "out", value + 1, 1)
    BY DEF ReleaseSpeculative, In, IInv, TypeOK
  <1>2. In("calling")' = IF "out" = "calling" THEN In("calling") \cup {s}
                                             ELSE In("calling") \ {s}
    BY <1>1, PassPermitsFacts, Zenon
  <1>3. In("calling")' = In("calling") \ {s}
    BY <1>2
  <1>4. QED BY <1>1, <1>3 DEF Gate!EndSpeculative

LEMMA CancelQueuedImplementsGate ==
    ASSUME IInv, NEW s \in SpecCalls, CancelQueued(s)
    PROVE  UNCHANGED Gate!gateVars
  <1> DEFINE free == IF pc[s] = "granted" THEN value + 1 ELSE value
  <1>1. /\ s \notin In("calling") /\ live' = live /\ TypeOK
        /\ free \in Nat /\ free <= free
        /\ PassPermits(s, "out", free, free)
    BY DEF CancelQueued, In, IInv, TypeOK
  <1> HIDE DEF free
  <1>2. In("calling")' = IF "out" = "calling" THEN In("calling") \cup {s}
                                             ELSE In("calling") \ {s}
    BY <1>1, PassPermitsFacts, Zenon
  <1>3. In("calling")' = In("calling")
    BY <1>1, <1>2
  <1>4. QED BY <1>1, <1>3 DEF Gate!gateVars

(***************************************************************************)
(* The scheduler implements the gate: for every budget and every number of *)
(* callers, at most Permits speculative calls run, and none starts while a *)
(* live call is in progress (scheduler.py 3-6, 57-58).                     *)
(***************************************************************************)
THEOREM ImplementsGate == Spec => GateSafety
  <1>1. Init => Gate!GateInit
    BY DEF Init, Gate!GateInit, In
  <1>2. IInv /\ [Next]_vars => [Gate!GateNext]_(Gate!gateVars)
    <2> SUFFICES ASSUME IInv, [Next]_vars
                 PROVE  Gate!GateNext \/ UNCHANGED Gate!gateVars
      OBVIOUS
    <2>1. ASSUME NEW c \in LiveCalls, EnterCritical(c) PROVE Gate!GateNext
      <3>1. Gate!EnterLive(c)
        BY <2>1 DEF EnterCritical, Gate!EnterLive, In
      <3>2. QED BY <3>1 DEF Gate!GateNext
    <2>2. ASSUME NEW c \in LiveCalls, ExitCritical(c) PROVE Gate!GateNext
      <3>1. In("calling")' = In("calling")
        BY <2>2 DEF ExitCritical, In, IInv, TypeOK, Stages
      <3>2. Gate!ExitLive(c)
        BY <2>2, <3>1 DEF ExitCritical, Gate!ExitLive
      <3>3. QED BY <3>2 DEF Gate!GateNext
    <2>3. ASSUME NEW s \in SpecCalls, HoldForCritical(s) \/ CancelIdle(s)
          PROVE  UNCHANGED Gate!gateVars
      <3>1. In("calling")' = In("calling") /\ live' = live
        BY <2>3 DEF HoldForCritical, CancelIdle, In, IInv, TypeOK, Stages
      <3>2. QED BY <3>1 DEF Gate!gateVars
    <2>4. ASSUME NEW s \in SpecCalls, AcquireSpeculative(s) \/ ResumeFromIdle(s)
          PROVE  Gate!GateNext \/ UNCHANGED Gate!gateVars
      BY <2>4, TryPermitImplementsGate DEF AcquireSpeculative, ResumeFromIdle, Gate!GateNext
    <2>5. ASSUME NEW s \in SpecCalls, ResumeGranted(s)
          PROVE  Gate!GateNext \/ UNCHANGED Gate!gateVars
      BY <2>5, ResumeGrantedImplementsGate DEF Gate!GateNext
    <2>6. ASSUME NEW s \in SpecCalls, ReleaseSpeculative(s) PROVE Gate!GateNext
      BY <2>6, ReleaseImplementsGate DEF Gate!GateNext
    <2>7. ASSUME NEW s \in SpecCalls, CancelQueued(s) PROVE UNCHANGED Gate!gateVars
      BY <2>7, CancelQueuedImplementsGate
    <2>8. CASE UNCHANGED vars
      BY <2>8 DEF vars, Gate!gateVars, In
    <2>9. QED
      BY <2>1, <2>2, <2>3, <2>4, <2>5, <2>6, <2>7, <2>8 DEF Next
  <1>3. QED
    BY <1>1, <1>2, InductiveInvariant, PTL DEF Spec, GateSafety, Gate!GateSpec
=============================================================================
