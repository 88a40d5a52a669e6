-------------------------- MODULE SupervisorProofs --------------------------
(***************************************************************************)
(* Proofs about Supervisor, for any finite set of workers, any pairs, any  *)
(* batch size and any bounds.                                              *)
(*                                                                         *)
(* NoneForgotten is inductive with the types, for no step drops a pending  *)
(* entry that the stream still has. OneFetcher is not: that two workers    *)
(* fetch for different events is known only through the claims             *)
(* (FetchersClaim). DraftsBounded is inductive for each pair: a worker     *)
(* that makes a draft of it leaves the set of those about to.              *)
(***************************************************************************)
EXTENDS Supervisor, FiniteSetTheorems, WellFoundedInduction, TLAPS

-----------------------------------------------------------------------------
(***************************************************************************)
(* The least and the greatest of a set of events.                          *)
(***************************************************************************)
LEMMA EventRange == MaxEvents \in Nat /\ \A e \in Events : e \in Nat /\ 1 <= e /\ e <= MaxEvents
  BY BoundsAssumption DEF Events

LEMMA EventsAreFinite ==
    ASSUME NEW S \in SUBSET Events
    PROVE  IsFiniteSet(S) /\ Cardinality(S) \in Nat
  <1>1. IsFiniteSet(Events)
    BY FS_Interval, BoundsAssumption DEF Events
  <1>2. QED BY <1>1, FS_Subset, FS_CardinalityType

LEMMA LeastEvent ==
    ASSUME NEW S \in SUBSET Events, S # {}
    PROVE  Min(S) \in S /\ \A e \in S : Min(S) <= e
  <1>1. S \in SUBSET Nat
    BY EventRange
  <1>2. PICK e \in S : \A f \in S : <<f, e>> \notin OpToRel(<, Nat)
    BY <1>1, NatLessThanWellFounded, WFMin, Zenon
  <1>3. ASSUME NEW f \in S PROVE e <= f
    <2>1. e \in Nat /\ f \in Nat
      BY <1>1
    <2>2. ~(f < e)
      BY <1>2, <2>1 DEF OpToRel
    <2>3. QED BY <2>1, <2>2
  <1>4. QED BY <1>3 DEF Min

LEMMA GreatestEvent ==
    ASSUME NEW S \in SUBSET Events, S # {}
    PROVE  Max(S) \in S /\ \A e \in S : e <= Max(S)
  <1> DEFINE T == {MaxEvents - e : e \in S}
  <1>1. T \in SUBSET Nat /\ T # {}
    BY EventRange
  <1> HIDE DEF T
  <1>2. PICK t \in T : \A u \in T : <<u, t>> \notin OpToRel(<, Nat)
    BY <1>1, NatLessThanWellFounded, WFMin, Zenon
  <1>3. PICK e \in S : t = MaxEvents - e
    BY DEF T
  <1>4. ASSUME NEW f \in S PROVE f <= e
    <2>1. MaxEvents - f \in T
      BY DEF T
    <2>2. ~(MaxEvents - f < MaxEvents - e)
      BY <1>1, <1>2, <1>3, <2>1 DEF OpToRel
    <2>3. QED BY <2>2, EventRange
  <1>5. QED BY <1>4 DEF Max

\* A batch of S has every member of S that is older than one it has.
LEMMA OldestFirst ==
    ASSUME NEW S \in SUBSET Events
    PROVE  /\ Oldest(S) \subseteq S
           /\ \A e \in S, m \in Oldest(S) : e <= m => e \in Oldest(S)
  <1>1. Oldest(S) \subseteq S
    BY DEF Oldest
  <1>2. ASSUME NEW e \in S, NEW m \in Oldest(S), e <= m PROVE e \in Oldest(S)
    <2> DEFINE Under(n) == {f \in S : f < n}
    <2>1. m \in S /\ Cardinality(Under(m)) < Batch
      BY DEF Oldest
    <2>2. Under(e) \in SUBSET Under(m) /\ Under(m) \in SUBSET Events /\ Under(e) \in SUBSET Events
      <3>1. \A f \in S : f \in Int
        BY EventRange
      <3>2. QED BY <1>2, <2>1, <3>1
    <2>3. Cardinality(Under(e)) <= Cardinality(Under(m))
      BY <2>2, EventsAreFinite, FS_Subset
    <2>4. Cardinality(Under(e)) \in Nat /\ Cardinality(Under(m)) \in Nat /\ Batch \in Nat
      BY <2>2, EventsAreFinite, BatchAssumption
    <2>5. Cardinality(Under(e)) < Batch
      BY <2>1, <2>3, <2>4
    <2>6. QED BY <2>5 DEF Oldest
  <1>3. QED BY <1>1, <1>2

-----------------------------------------------------------------------------
(***************************************************************************)
(* The types, for every value of the constants.                            *)
(***************************************************************************)
LEMMA OffType == Off \in WorkerRecords /\ [Off EXCEPT !.stopping = TRUE] \in WorkerRecords
  BY DEF Off, WorkerRecords, Stages

LEMMA TypeInit == Init => TypeOK
  <1> SUFFICES ASSUME Init PROVE TypeOK
    OBVIOUS
  <1>1. /\ work \in [Workers -> WorkerRecords]
        /\ \A w \in Workers : work[w].stage \notin Handling
    BY OffType DEF Init, Off, Handling
  <1>2. /\ published \in 0 .. MaxEvents /\ delivered \in 0 .. published /\ stream \subseteq 1 .. published
        /\ expiries \in 0 .. MaxExpiries /\ crashes + resets + unacked <= MaxMishaps
    BY BoundsAssumption DEF Init
  <1>3. QED BY <1>1, <1>2 DEF Init, TypeOK

\* A step of one worker leaves a record of the right type.
LEMMA SetWorker ==
    ASSUME TypeOK, NEW w \in Workers, NEW r \in WorkerRecords,
           r.stage \in Handling => r.batch # {},
           work' = [work EXCEPT ![w] = r]
    PROVE  /\ work' \in [Workers -> WorkerRecords]
           /\ \A v \in Workers : work'[v].stage \in Handling => work'[v].batch # {}
  BY DEF TypeOK

LEMMA MoveType ==
    ASSUME TypeOK, NEW w \in Workers, NEW s \in Stages \ Handling, Move(w, s)
    PROVE  /\ work' \in [Workers -> WorkerRecords]
           /\ \A v \in Workers : work'[v].stage \in Handling => work'[v].batch # {}
  <1> DEFINE r == [work[w] EXCEPT !.stage = s]
  <1>1. work[w] \in WorkerRecords
    BY DEF TypeOK
  <1>2. r \in WorkerRecords /\ r.stage = s
    BY <1>1 DEF WorkerRecords
  <1>3. work' = [work EXCEPT ![w] = r]
    BY DEF Move
  <1> HIDE DEF r
  <1>4. QED BY <1>2, <1>3, SetWorker

LEMMA StreamType ==
    ASSUME TypeOK
    PROVE  /\ published \in Nat /\ published <= MaxEvents /\ delivered \in Nat /\ delivered <= published
           /\ stream \in SUBSET Events /\ \A e \in stream : e \in Nat /\ e <= published
  BY BoundsAssumption DEF TypeOK, Events

LEMMA StoppedSize == Cardinality(Stopped) \in Nat
  BY WorkersAssumption, FS_Subset, FS_CardinalityType DEF Stopped

\* The entry in hand of a worker that has one.
LEMMA EntryType ==
    ASSUME TypeOK, NEW w \in Workers, work[w].batch # {}
    PROVE  Entry(w) \in work[w].batch /\ Entry(w) \in Events
  <1>1. work[w].batch \in SUBSET Events
    BY DEF TypeOK, WorkerRecords
  <1>2. QED BY <1>1, LeastEvent DEF Entry

LEMMA HasEntry ==
    ASSUME TypeOK, NEW w \in Workers, At(w, "load") \/ At(w, "draft")
    PROVE  Entry(w) \in work[w].batch /\ Entry(w) \in Events
  BY EntryType DEF At, TypeOK, Handling

\* What a delivery of the batch b does to the worker.
LEMMA DeliveryType ==
    ASSUME TypeOK, NEW w \in Workers, NEW b \in SUBSET Events, NEW c \in Nat, NEW next \in {"claim", "read"},
           work' = [work EXCEPT ![w].batch = b, ![w].then = next, ![w].cursor = c,
                                ![w].stage = IF b = {} THEN next ELSE "load"]
    PROVE  /\ work' \in [Workers -> WorkerRecords]
           /\ \A v \in Workers : work'[v].stage \in Handling => work'[v].batch # {}
  <1> DEFINE s == IF b = {} THEN next ELSE "load"
             r == [work[w] EXCEPT !.batch = b, !.then = next, !.cursor = c, !.stage = s]
  <1>1. work[w] \in WorkerRecords /\ s \in Stages /\ (s \in Handling => b # {})
    BY DEF TypeOK, Stages, Handling
  <1>2. work' = [work EXCEPT ![w] = r]
    OBVIOUS
  <1> HIDE DEF s
  <1>3. r \in WorkerRecords /\ r.stage = s /\ r.batch = b
    BY <1>1 DEF WorkerRecords
  <1> HIDE DEF r
  <1>4. QED BY <1>1, <1>2, <1>3, SetWorker

LEMMA TypeLoop ==
    ASSUME TypeOK, NEW w \in Workers,
           Autoclaim(w) \/ AutoclaimFails(w) \/ ReadGroup(w) \/ ReadFails(w) \/ Start(w)
    PROVE  TypeOK'
  <1>1. CASE Autoclaim(w)
    <2> DEFINE b == Oldest(Stale(w) \cap stream)
               c == IF Cardinality(b) = Batch THEN Max(b) + 1 ELSE 0
    <2>1. Stale(w) \cap stream \in SUBSET Events
      BY StreamType
    <2>2. b \in SUBSET Events
      BY <2>1, OldestFirst
    <2>3. /\ pending' = [e \in Events |-> IF e \in b THEN w
                                         ELSE IF e \in Stale(w) \ stream THEN NoWorker ELSE pending[e]]
          /\ idle' = idle \ (b \cup (Stale(w) \ stream))
          /\ work' = [work EXCEPT ![w].batch = b, ![w].then = "read", ![w].cursor = c,
                                  ![w].stage = IF b = {} THEN "read" ELSE "load"]
      BY <1>1 DEF Autoclaim
    <2> HIDE DEF b
    <2>4. Cardinality(b) = Batch => b # {}
      BY FS_EmptySet, BatchAssumption
    <2>5. c \in Nat
      BY <2>2, <2>4, GreatestEvent, EventRange
    <2> HIDE DEF c
    <2>6. /\ work' \in [Workers -> WorkerRecords]
          /\ \A v \in Workers : work'[v].stage \in Handling => work'[v].batch # {}
      BY <2>2, <2>3, <2>5, DeliveryType
    <2>7. pending' \in [Events -> Workers \cup {NoWorker}] /\ idle' \subseteq Events
      BY <2>3 DEF TypeOK
    <2>8. QED BY <1>1, <2>6, <2>7 DEF TypeOK, Autoclaim, taskVars, limits
  <1>2. CASE ReadGroup(w)
    <2> DEFINE b == Oldest(Fresh)
    <2>1. b \in SUBSET Events /\ b \subseteq stream
      BY StreamType, OldestFirst DEF Fresh
    <2>2. /\ delivered' = IF b = {} THEN delivered ELSE Max(b)
          /\ pending' = [e \in Events |-> IF e \in b THEN w ELSE pending[e]]
          /\ idle' = idle \ b
          /\ work' = [work EXCEPT ![w].batch = b, ![w].then = "claim", ![w].cursor = work[w].cursor,
                                  ![w].stage = IF b = {} THEN "claim" ELSE "load"]
      <3>1. work[w] \in WorkerRecords
        BY DEF TypeOK
      <3>2. [work EXCEPT ![w].batch = b, ![w].then = "claim", ![w].cursor = work[w].cursor,
                         ![w].stage = IF b = {} THEN "claim" ELSE "load"]
            = [work EXCEPT ![w].batch = b, ![w].then = "claim",
                           ![w].stage = IF b = {} THEN "claim" ELSE "load"]
        BY <3>1 DEF WorkerRecords, TypeOK
      <3>3. QED BY <1>2, <3>2 DEF ReadGroup, Deliver
    <2> HIDE DEF b
    <2>3. work[w].cursor \in Nat
      BY DEF TypeOK, WorkerRecords
    <2>4. /\ work' \in [Workers -> WorkerRecords]
          /\ \A v \in Workers : work'[v].stage \in Handling => work'[v].batch # {}
      BY <2>1, <2>2, <2>3, DeliveryType
    <2>5. pending' \in [Events -> Workers \cup {NoWorker}] /\ idle' \subseteq Events
      BY <2>2 DEF TypeOK
    <2>6. delivered' \in 0 .. published
      BY <2>1, <2>2, GreatestEvent, StreamType
    <2>7. QED BY <1>2, <2>4, <2>5, <2>6 DEF TypeOK, ReadGroup, taskVars, limits
  <1>3. CASE AutoclaimFails(w) \/ ReadFails(w) \/ Start(w)
    <2>1. \E s \in Stages \ Handling : Move(w, s)
      BY <1>3 DEF AutoclaimFails, ReadFails, Start, Stages, Handling
    <2>2. QED BY <1>3, <2>1, MoveType DEF TypeOK, AutoclaimFails, ReadFails, Start, busVars, taskVars, limits
  <1>4. QED BY <1>1, <1>2, <1>3

LEMMA TypeHandler ==
    ASSUME TypeOK, NEW w \in Workers, Skip(w) \/ Launch(w) \/ Draft(w) \/ Ack(w)
    PROVE  TypeOK'
  <1>0. work[w] \in WorkerRecords /\ (work[w].stage \in Handling => work[w].batch # {})
    BY DEF TypeOK
  <1>1. CASE Skip(w)
    <2> DEFINE r == [work[w] EXCEPT !.stage = "draft"]
    <2>1. r \in WorkerRecords /\ r.batch # {} /\ work' = [work EXCEPT ![w] = r]
      BY <1>0, <1>1 DEF Skip, At, WorkerRecords, Stages, Handling
    <2> HIDE DEF r
    <2>2. QED BY <1>1, <2>1, SetWorker DEF TypeOK, Skip, busVars, taskVars, limits
  <1>2. CASE Launch(w)
    <2>1. Entry(w) \in Events
      BY <1>2, HasEntry DEF Launch
    <2> DEFINE r == [work[w] EXCEPT !.stage = "draft", !.todo = ToDraft]
    <2>2. r \in WorkerRecords /\ r.batch # {} /\ work' = [work EXCEPT ![w] = r]
      BY <1>0, <1>2 DEF Launch, At, ToDraft, WorkerRecords, Stages, Handling
    <2> HIDE DEF r
    <2>3. /\ work' \in [Workers -> WorkerRecords]
          /\ \A v \in Workers : work'[v].stage \in Handling => work'[v].batch # {}
      BY <2>2, SetWorker
    <2>4. fetching' \in [Workers -> SUBSET Events] /\ claims' \subseteq Events /\ owed' \subseteq Events
      BY <1>2, <2>1 DEF TypeOK, Launch, taskVars
    <2>5. QED BY <1>2, <2>3, <2>4 DEF TypeOK, Launch, busVars, limits
  <1>3. CASE Draft(w)
    <2>1. PICK t \in SUBSET Pairs : work' = [work EXCEPT ![w].todo = t]
      BY <1>0, <1>3 DEF Draft, WorkerRecords
    <2> DEFINE r == [work[w] EXCEPT !.todo = t]
    <2>2. /\ r \in WorkerRecords /\ (r.stage \in Handling => r.batch # {})
          /\ work' = [work EXCEPT ![w] = r]
      BY <1>0, <2>1 DEF WorkerRecords
    <2> HIDE DEF r
    <2>3. /\ work' \in [Workers -> WorkerRecords]
          /\ \A v \in Workers : work'[v].stage \in Handling => work'[v].batch # {}
      BY <2>2, SetWorker
    <2>4. drafts' \in [Pairs -> Nat]
      BY <1>3, <1>0 DEF Draft, TypeOK, WorkerRecords
    <2>5. QED BY <1>3, <2>3, <2>4 DEF TypeOK, Draft, busVars, taskVars, limits
  <1>4. CASE Ack(w)
    <2>1. Entry(w) \in work[w].batch /\ Entry(w) \in Events
      BY <1>4, HasEntry DEF Ack
    <2> DEFINE r == [work[w] EXCEPT !.batch = @ \ {Entry(w)},
                                    !.stage = IF work[w].batch = {Entry(w)} THEN work[w].then ELSE "load"]
    <2>2. /\ r \in WorkerRecords /\ (r.stage \in Handling => r.batch # {})
          /\ work' = [work EXCEPT ![w] = r]
      BY <1>0, <1>4, <2>1 DEF Ack, NextEntry, WorkerRecords, Stages, Handling
    <2> HIDE DEF r
    <2>3. /\ work' \in [Workers -> WorkerRecords]
          /\ \A v \in Workers : work'[v].stage \in Handling => work'[v].batch # {}
      BY <2>2, SetWorker
    <2>4. pending' \in [Events -> Workers \cup {NoWorker}] /\ idle' \subseteq Events /\ handled' \subseteq Events
      BY <1>4, <2>1 DEF TypeOK, Ack
    <2>5. unacked' \in Nat /\ crashes + resets + unacked' <= MaxMishaps
      BY <1>4, StoppedSize, BoundsAssumption DEF TypeOK, Ack, Mishap
    <2>6. QED BY <1>4, <2>3, <2>4, <2>5 DEF TypeOK, Ack, taskVars
  <1>5. QED BY <1>1, <1>2, <1>3, <1>4

LEMMA TypeEnd ==
    ASSUME TypeOK, NEW w \in Workers, Land(w) \/ Stop(w) \/ LeaveLoop(w) \/ Exit(w) \/ Crash(w)
    PROVE  TypeOK'
  <1>1. CASE Land(w)
    BY <1>1 DEF Land, TypeOK, busVars, limits
  <1>2. CASE Stop(w)
    <2> DEFINE r == [work[w] EXCEPT !.stopping = TRUE]
    <2>1. /\ r \in WorkerRecords /\ (r.stage \in Handling => r.batch # {})
          /\ work' = [work EXCEPT ![w] = r]
      BY <1>2 DEF Stop, TypeOK, WorkerRecords
    <2> HIDE DEF r
    <2>2. QED BY <1>2, <2>1, SetWorker DEF Stop, TypeOK, busVars, taskVars, limits
  <1>3. CASE LeaveLoop(w)
    <2>1. "drain" \in Stages \ Handling
      BY DEF Stages, Handling
    <2>2. QED BY <1>3, <2>1, MoveType DEF LeaveLoop, TypeOK, busVars, taskVars, limits
  <1>4. CASE Exit(w)
    <2> DEFINE r == [Off EXCEPT !.stopping = TRUE]
    <2>1. r \in WorkerRecords /\ r.stage \notin Handling /\ work' = [work EXCEPT ![w] = r]
      BY <1>4, OffType DEF Exit, Off, Handling
    <2> HIDE DEF r
    <2>2. QED BY <1>4, <2>1, SetWorker DEF Exit, TypeOK, busVars, taskVars, limits
  <1>5. CASE Crash(w)
    <2>1. Off \in WorkerRecords /\ Off.stage \notin Handling /\ work' = [work EXCEPT ![w] = Off]
      BY <1>5, OffType DEF Crash, Off, Handling
    <2>2. crashes' \in Nat /\ crashes' + resets + unacked <= MaxMishaps
      BY <1>5, StoppedSize, BoundsAssumption DEF Crash, Mishap, TypeOK
    <2>3. fetching' \in [Workers -> SUBSET Events]
      BY <1>5 DEF Crash, TypeOK
    <2>4. QED BY <1>5, <2>1, <2>2, <2>3, SetWorker DEF Crash, TypeOK, busVars
  <1>6. QED BY <1>1, <1>2, <1>3, <1>4, <1>5

LEMMA TypeStream ==
    ASSUME TypeOK, Publish \/ Trim \/ Reset \/ Expire \/ \E e \in Events : GoIdle(e)
    PROVE  TypeOK'
  <1>1. CASE Publish
    <2>1. /\ published' \in 0 .. MaxEvents /\ stream' \subseteq 1 .. published' /\ delivered' \in 0 .. published'
      BY <1>1, BoundsAssumption DEF Publish, TypeOK
    <2>2. QED BY <1>1, <2>1 DEF Publish, TypeOK, taskVars, limits
  <1>2. CASE Trim
    BY <1>2 DEF Trim, TypeOK, taskVars, limits
  <1>3. CASE Reset
    <2>1. resets' \in Nat /\ crashes + resets' + unacked <= MaxMishaps
      BY <1>3, StoppedSize, BoundsAssumption DEF Reset, Mishap, TypeOK
    <2>2. /\ stream' \subseteq 1 .. published /\ delivered' \in 0 .. published
          /\ pending' \in [Events -> Workers \cup {NoWorker}] /\ drafts' \in [Pairs -> Nat]
      BY <1>3, StreamType DEF Reset
    <2>3. QED BY <1>3, <2>1, <2>2 DEF Reset, TypeOK
  <1>4. CASE Expire
    <2>1. expiries' \in 0 .. MaxExpiries
      BY <1>4, BoundsAssumption DEF Expire, TypeOK
    <2>2. drafts' \in [Pairs -> Nat] /\ claims' \subseteq Events
      BY <1>4 DEF Expire, TypeOK
    <2>3. QED BY <1>4, <2>1, <2>2 DEF Expire, TypeOK, busVars
  <1>5. ASSUME NEW e \in Events, GoIdle(e) PROVE TypeOK'
    BY <1>5 DEF GoIdle, TypeOK, taskVars, limits
  <1>6. QED BY <1>1, <1>2, <1>3, <1>4, <1>5

\* Every step is one of these.
LEMMA Steps ==
    ASSUME [Next]_vars
    PROVE  \/ Publish \/ Trim \/ Reset \/ Expire \/ \E e \in Events : GoIdle(e)
           \/ \E w \in Workers : Autoclaim(w) \/ AutoclaimFails(w) \/ ReadGroup(w) \/ ReadFails(w) \/ Start(w)
           \/ \E w \in Workers : Skip(w) \/ Launch(w) \/ Draft(w) \/ Ack(w)
           \/ \E w \in Workers : Land(w) \/ Stop(w) \/ LeaveLoop(w) \/ Exit(w) \/ Crash(w)
           \/ UNCHANGED vars
  BY DEF Next, Step

LEMMA TypeNext == TypeOK /\ [Next]_vars => TypeOK'
  <1> SUFFICES ASSUME TypeOK, [Next]_vars PROVE TypeOK'
    OBVIOUS
  <1>1. CASE UNCHANGED vars
    BY <1>1 DEF TypeOK, vars, busVars, taskVars, limits
  <1>2. QED BY <1>1, Steps, TypeStream, TypeLoop, TypeHandler, TypeEnd

THEOREM TypeCorrect == Spec => []TypeOK
  BY TypeInit, TypeNext, PTL DEF Spec

-----------------------------------------------------------------------------
(***************************************************************************)
(* What is published is not lost.                                          *)
(***************************************************************************)
LEMMA DeliveredNext ==
    ASSUME TypeOK, NoneForgotten, [Next]_vars
    PROVE  NoneForgotten'
  <1>1. CASE Publish
    BY <1>1, StreamType DEF Publish, NoneForgotten, limits
  <1>2. CASE Trim
    BY <1>2 DEF Trim, NoneForgotten, limits
  <1>3. CASE Reset
    <2>1. resets' # 0
      BY <1>3 DEF Reset, TypeOK
    <2>2. QED BY <2>1 DEF NoneForgotten
  <1>4. ASSUME NEW w \in Workers, Autoclaim(w) PROVE NoneForgotten'
    <2>1. \A e \in stream : pending'[e] \in {pending[e], w}
      BY <1>4, StreamType DEF Autoclaim
    <2>2. w # NoWorker
      BY NoWorkerAssumption
    <2>3. QED BY <1>4, <2>1, <2>2 DEF Autoclaim, NoneForgotten, limits
  <1>5. ASSUME NEW w \in Workers, ReadGroup(w) PROVE NoneForgotten'
    <2> DEFINE b == Oldest(Fresh)
    <2>1. Fresh \in SUBSET Events
      BY StreamType DEF Fresh
    <2>2. b \in SUBSET Events
      BY <2>1, OldestFirst
    <2>3. \A e \in Fresh, m \in b : e <= m => e \in b
      BY <2>1, OldestFirst
    <2>4. /\ delivered' = IF b = {} THEN delivered ELSE Max(b)
          /\ \A e \in stream : pending'[e] = IF e \in b THEN w ELSE pending[e]
      BY <1>5, StreamType DEF ReadGroup, Deliver
    <2> HIDE DEF b
    <2>5. ASSUME NEW e \in stream, e <= delivered' PROVE e \in b \/ e <= delivered
      <3>1. CASE b = {}
        BY <2>4, <2>5, <3>1
      <3>2. CASE b # {} /\ e \in Fresh
        <4>1. Max(b) \in b /\ e <= Max(b)
          BY <2>2, <2>4, <2>5, <3>2, GreatestEvent
        <4>2. QED BY <2>3, <3>2, <4>1
      <3>3. CASE e \notin Fresh
        BY <3>3, StreamType DEF Fresh
      <3>4. QED BY <3>1, <3>2, <3>3
    <2>6. w # NoWorker /\ UNCHANGED <<stream, handled, resets>>
      BY <1>5, NoWorkerAssumption DEF ReadGroup, limits
    <2>7. QED BY <2>4, <2>5, <2>6 DEF NoneForgotten
  <1>6. ASSUME NEW w \in Workers, Ack(w) PROVE NoneForgotten'
    <2>1. Entry(w) \in Events
      BY <1>6, HasEntry DEF Ack
    <2>2. \A e \in stream : e # Entry(w) => pending'[e] = pending[e]
      BY <1>6, StreamType DEF Ack, TypeOK
    <2>3. QED BY <1>6, <2>2 DEF Ack, NoneForgotten
  <1>7. CASE \/ Expire \/ \E e \in Events : GoIdle(e)
             \/ \E w \in Workers : \/ AutoclaimFails(w) \/ ReadFails(w) \/ Start(w)
                                  \/ Skip(w) \/ Launch(w) \/ Draft(w)
                                  \/ Land(w) \/ Stop(w) \/ LeaveLoop(w) \/ Exit(w) \/ Crash(w)
             \/ UNCHANGED vars
    <2>1. UNCHANGED <<stream, delivered, pending, handled, resets>>
      BY <1>7 DEF Expire, GoIdle, AutoclaimFails, ReadFails, Start, Skip, Launch, Draft, Land, Stop, LeaveLoop,
                  Exit, Crash, vars, busVars, limits
    <2>2. QED BY <2>1 DEF NoneForgotten
  <1>8. QED BY <1>1, <1>2, <1>3, <1>4, <1>5, <1>6, <1>7, Steps

LEMMA LaunchedNext ==
    ASSUME TypeOK, LostOnlyToCrashes, [Next]_vars
    PROVE  LostOnlyToCrashes'
  <1>1. ASSUME NEW w \in Workers, Launch(w) PROVE LostOnlyToCrashes'
    <2>1. UNCHANGED <<fetching, owed>> \/ /\ fetching' = [fetching EXCEPT ![w] = @ \cup {Entry(w)}]
                                          /\ owed' = owed \cup {Entry(w)}
      BY <1>1 DEF Launch, taskVars
    <2>2. QED BY <1>1, <2>1 DEF Launch, LostOnlyToCrashes, TypeOK, limits
  <1>2. ASSUME NEW w \in Workers, Land(w) PROVE LostOnlyToCrashes'
    <2>1. PICK e \in fetching[w] : fetching' = [fetching EXCEPT ![w] = @ \ {e}] /\ owed' = owed \ {e}
      BY <1>2 DEF Land
    <2>2. QED BY <1>2, <2>1 DEF Land, LostOnlyToCrashes, TypeOK, limits
  <1>3. ASSUME NEW w \in Workers, Crash(w) PROVE LostOnlyToCrashes'
    <2>1. crashes' # 0
      BY <1>3 DEF Crash, TypeOK
    <2>2. QED BY <2>1 DEF LostOnlyToCrashes
  <1>4. CASE \/ Publish \/ Trim \/ Reset \/ Expire \/ \E e \in Events : GoIdle(e)
             \/ \E w \in Workers : \/ Autoclaim(w) \/ AutoclaimFails(w) \/ ReadGroup(w) \/ ReadFails(w)
                                  \/ Start(w) \/ Skip(w) \/ Draft(w) \/ Ack(w)
                                  \/ Stop(w) \/ LeaveLoop(w) \/ Exit(w)
             \/ UNCHANGED vars
    <2>1. UNCHANGED <<fetching, owed, crashes>>
      BY <1>4 DEF Publish, Trim, Reset, Expire, GoIdle, Autoclaim, AutoclaimFails, ReadGroup, ReadFails, Start, Skip,
                  Draft, Ack, Stop, LeaveLoop, Exit, vars, taskVars, limits
    <2>2. QED BY <2>1 DEF LostOnlyToCrashes
  <1>5. QED BY <1>1, <1>2, <1>3, <1>4, Steps

(***************************************************************************)
(* An event that the stream still has and the group has delivered is       *)
(* handled or pending, and a launched fetch runs to its end, unless Redis  *)
(* loses its data or a worker crashes (supervisor.py run, _handle).        *)
(***************************************************************************)
THEOREM EventsAreKept == Spec => []NothingIsLost
  <1>1. Init => NothingIsLost
    <2>1. Init => NoneForgotten /\ LostOnlyToCrashes
      BY DEF Init, NoneForgotten, LostOnlyToCrashes
    <2>2. QED BY <2>1, TypeInit DEF NothingIsLost
  <1>2. NothingIsLost /\ [Next]_vars => NothingIsLost'
    BY TypeNext, DeliveredNext, LaunchedNext DEF NothingIsLost
  <1>3. QED BY <1>1, <1>2, PTL DEF Spec

-----------------------------------------------------------------------------
(***************************************************************************)
(* What two workers do at once.  OneFetcher is not inductive: whoever      *)
(* fetches for an event must hold its claim, or a second worker could      *)
(* launch beside it.                                                       *)
(***************************************************************************)
FetchersClaim == resets = 0 => \A w \in Workers : fetching[w] \subseteq claims

FetchInv == FetchersClaim /\ OneFetcher

LEMMA FetchNext ==
    ASSUME TypeOK, FetchInv, [Next]_vars
    PROVE  FetchInv'
  <1> USE DEF FetchInv, FetchersClaim, OneFetcher
  <1>1. ASSUME NEW w \in Workers, Launch(w) PROVE FetchInv'
    <2>1. CASE Entry(w) \in claims
      BY <1>1, <2>1 DEF Launch, taskVars, limits
    <2>2. CASE Entry(w) \notin claims
      <3>1. /\ \A v \in Workers : fetching'[v] = IF v = w THEN fetching[w] \cup {Entry(w)} ELSE fetching[v]
            /\ claims' = claims \cup {Entry(w)} /\ resets' = resets
        BY <1>1, <2>2 DEF Launch, TypeOK, limits
      <3>2. QED BY <2>2, <3>1
    <2>3. QED BY <2>1, <2>2
  <1>2. ASSUME NEW w \in Workers, Land(w) PROVE FetchInv'
    <2>1. PICK e \in fetching[w] : fetching' = [fetching EXCEPT ![w] = @ \ {e}] /\ claims' = claims \ {e}
      BY <1>2 DEF Land
    <2>2. \A v \in Workers : fetching'[v] = IF v = w THEN fetching[w] \ {e} ELSE fetching[v]
      BY <2>1 DEF TypeOK
    <2>3. resets' = resets
      BY <1>2 DEF Land, limits
    <2>4. QED BY <2>1, <2>2, <2>3
  <1>3. ASSUME NEW w \in Workers, Crash(w) PROVE FetchInv'
    <2>1. \A v \in Workers : fetching'[v] = IF v = w THEN {} ELSE fetching[v]
      BY <1>3 DEF Crash, TypeOK
    <2>2. QED BY <1>3, <2>1 DEF Crash
  <1>4. CASE Reset
    <2>1. resets' # 0
      BY <1>4 DEF Reset, TypeOK
    <2>2. QED BY <2>1
  <1>5. CASE Expire
    BY <1>5 DEF Expire
  <1>6. CASE \/ Publish \/ Trim \/ \E e \in Events : GoIdle(e)
             \/ \E w \in Workers : \/ Autoclaim(w) \/ AutoclaimFails(w) \/ ReadGroup(w) \/ ReadFails(w)
                                  \/ Start(w) \/ Skip(w) \/ Draft(w) \/ Ack(w)
                                  \/ Stop(w) \/ LeaveLoop(w) \/ Exit(w)
             \/ UNCHANGED vars
    <2>1. UNCHANGED <<fetching, claims, resets>>
      BY <1>6 DEF Publish, Trim, GoIdle, Autoclaim, AutoclaimFails, ReadGroup, ReadFails, Start, Skip,
                  Draft, Ack, Stop, LeaveLoop, Exit, vars, taskVars, limits
    <2>2. QED BY <2>1
  <1>7. QED BY <1>1, <1>2, <1>3, <1>4, <1>5, <1>6, Steps

\* The workers about to draft the pair p.
Drafting(p) == {w \in Workers : p \in work[w].todo}

LEMMA DraftingSize ==
    ASSUME NEW S \in SUBSET Workers
    PROVE  /\ IsFiniteSet(S) /\ Cardinality(S) \in Nat
           /\ Cardinality(Workers) \in Nat /\ Cardinality(S) <= Cardinality(Workers)
           /\ \A T \in SUBSET S : Cardinality(T) <= Cardinality(S) /\ Cardinality(T) \in Nat
  <1>1. IsFiniteSet(S) /\ Cardinality(S) <= Cardinality(Workers)
    BY WorkersAssumption, FS_Subset
  <1>2. QED BY <1>1, WorkersAssumption, FS_Subset, FS_CardinalityType

\* No more drafts and no more drafters of p than there were, or no draft at all.
LEMMA FewerDrafts ==
    ASSUME TypeOK, DraftsBounded, NEW p \in Pairs,
           \/ drafts'[p] = 0
           \/ drafts'[p] \in Nat /\ drafts'[p] <= drafts[p] /\ Drafting(p)' \subseteq Drafting(p)
    PROVE  drafts'[p] + Cardinality(Drafting(p)') <= Cardinality(Workers)
  <1>1. /\ Drafting(p)' \in SUBSET Workers /\ Drafting(p) \in SUBSET Workers
        /\ drafts[p] + Cardinality(Drafting(p)) <= Cardinality(Workers)
    BY DEF Drafting, DraftsBounded
  <1>2. CASE drafts'[p] = 0
    BY <1>1, <1>2, DraftingSize
  <1>3. CASE drafts'[p] \in Nat /\ drafts'[p] <= drafts[p] /\ Drafting(p)' \subseteq Drafting(p)
    <2>1. /\ Cardinality(Drafting(p)') <= Cardinality(Drafting(p))
          /\ Cardinality(Drafting(p)') \in Nat /\ Cardinality(Drafting(p)) \in Nat /\ Cardinality(Workers) \in Nat
      BY <1>1, <1>3, DraftingSize
    <2>2. drafts[p] \in Nat
      BY DEF TypeOK
    <2>3. QED BY <1>1, <1>3, <2>1, <2>2
  <1>4. QED BY <1>2, <1>3

\* A step that drafts nothing and adds to nobody's list.
LEMMA NothingDrafted ==
    ASSUME TypeOK, DraftsBounded,
           \A p \in Pairs : drafts'[p] \in Nat /\ drafts'[p] <= drafts[p],
           \A w \in Workers : work'[w].todo \subseteq work[w].todo
    PROVE  DraftsBounded'
  <1>1. ASSUME NEW p \in Pairs PROVE drafts'[p] + Cardinality(Drafting(p)') <= Cardinality(Workers)
    BY FewerDrafts DEF Drafting
  <1>2. QED BY <1>1 DEF DraftsBounded, Drafting

LEMMA DraftsNext ==
    ASSUME TypeOK, DraftsBounded, [Next]_vars
    PROVE  DraftsBounded'
  <1>1. ASSUME NEW w \in Workers, Launch(w) PROVE DraftsBounded'
    <2>1. UNCHANGED drafts /\ \A v \in Workers : work'[v].todo = IF v = w THEN ToDraft ELSE work[v].todo
      BY <1>1 DEF Launch, TypeOK, WorkerRecords
    <2>2. ASSUME NEW p \in Pairs PROVE drafts'[p] + Cardinality(Drafting(p)') <= Cardinality(Workers)
      <3>1. drafts'[p] = drafts[p] /\ drafts[p] \in Nat
        BY <2>1 DEF TypeOK
      <3>2. drafts[p] # 0 => Drafting(p)' \subseteq Drafting(p)
        BY <2>1 DEF Drafting, ToDraft
      <3>3. QED BY <3>1, <3>2, FewerDrafts
    <2>3. QED BY <2>2 DEF DraftsBounded, Drafting
  <1>2. ASSUME NEW w \in Workers, Draft(w) PROVE DraftsBounded'
    <2>1. PICK p \in work[w].todo :
            \/ /\ work' = [work EXCEPT ![w].todo = @ \ {p}]
               /\ drafts' \in {[drafts EXCEPT ![p] = @ + 1], drafts}
            \/ work' = [work EXCEPT ![w].todo = {}] /\ UNCHANGED drafts
      BY <1>2 DEF Draft
    <2>2. p \in Pairs
      BY DEF TypeOK, WorkerRecords
    <2>3. \A v \in Workers : work'[v].todo \subseteq work[v].todo
      BY <2>1 DEF TypeOK, WorkerRecords
    <2>4. CASE UNCHANGED drafts
      BY <2>3, <2>4, NothingDrafted DEF TypeOK
    <2>5. CASE drafts' = [drafts EXCEPT ![p] = @ + 1] /\ work' = [work EXCEPT ![w].todo = @ \ {p}]
      <3>1. \A q \in Pairs : drafts'[q] = IF q = p THEN drafts[p] + 1 ELSE drafts[q]
        BY <2>2, <2>5 DEF TypeOK
      <3>2. ASSUME NEW q \in Pairs, q # p PROVE drafts'[q] + Cardinality(Drafting(q)') <= Cardinality(Workers)
        BY <2>3, <3>1, <3>2, FewerDrafts DEF Drafting, TypeOK
      <3>3. drafts'[p] + Cardinality(Drafting(p)') <= Cardinality(Workers)
        <4>1. Drafting(p)' = Drafting(p) \ {w} /\ w \in Drafting(p)
          BY <2>1, <2>5 DEF Drafting, TypeOK, WorkerRecords
        <4>2. Drafting(p) \in SUBSET Workers
          BY DEF Drafting
        <4>3. Cardinality(Drafting(p)') = Cardinality(Drafting(p)) - 1
          BY <4>1, <4>2, DraftingSize, FS_RemoveElement
        <4>4. drafts[p] + Cardinality(Drafting(p)) <= Cardinality(Workers)
          BY <2>2 DEF DraftsBounded, Drafting
        <4>5. drafts[p] \in Nat /\ Cardinality(Drafting(p)) \in Nat /\ Cardinality(Workers) \in Nat
          BY <2>2, <4>2, DraftingSize DEF TypeOK
        <4>6. QED BY <2>2, <3>1, <4>3, <4>4, <4>5
      <3>4. QED BY <3>2, <3>3 DEF DraftsBounded, Drafting
    <2>6. QED BY <2>1, <2>4, <2>5
  <1>3. CASE Reset
    BY <1>3, NothingDrafted DEF Reset, TypeOK
  <1>4. CASE Expire
    <2>1. \A p \in Pairs : drafts'[p] \in Nat /\ drafts'[p] <= drafts[p]
      BY <1>4 DEF Expire, TypeOK
    <2>2. UNCHANGED work
      BY <1>4 DEF Expire
    <2>3. QED BY <2>1, <2>2, NothingDrafted
  <1>5. ASSUME NEW w \in Workers, Exit(w) \/ Crash(w) PROVE DraftsBounded'
    <2>1. \A v \in Workers : work'[v].todo \subseteq work[v].todo
      BY <1>5 DEF Exit, Crash, Off, TypeOK
    <2>2. UNCHANGED drafts
      BY <1>5 DEF Exit, Crash
    <2>3. QED BY <2>1, <2>2, NothingDrafted DEF TypeOK
  <1>6. ASSUME NEW w \in Workers,
               \/ Autoclaim(w) \/ AutoclaimFails(w) \/ ReadGroup(w) \/ ReadFails(w) \/ Start(w)
               \/ Skip(w) \/ Ack(w) \/ Stop(w) \/ LeaveLoop(w)
        PROVE  DraftsBounded'
    <2>1. UNCHANGED drafts
      BY <1>6 DEF Autoclaim, AutoclaimFails, ReadGroup, ReadFails, Start, Skip, Ack, Stop, LeaveLoop
    <2>2. \A v \in Workers : work'[v].todo = work[v].todo
      BY <1>6 DEF Autoclaim, AutoclaimFails, ReadGroup, Deliver, ReadFails, Start, Skip, Ack, NextEntry, Stop,
                  LeaveLoop, Move, TypeOK, WorkerRecords
    <2>3. QED BY <2>1, <2>2, NothingDrafted DEF TypeOK
  <1>7. CASE \/ Publish \/ Trim \/ \E e \in Events : GoIdle(e)
             \/ \E w \in Workers : Land(w)
             \/ UNCHANGED vars
    <2>1. UNCHANGED <<work, drafts>>
      BY <1>7 DEF Publish, Trim, GoIdle, Land, vars
    <2>2. QED BY <2>1, NothingDrafted DEF TypeOK
  <1>8. QED BY <1>1, <1>2, <1>3, <1>4, <1>5, <1>6, <1>7, Steps

(***************************************************************************)
(* Workers that share an event do not fetch twice for it at once, and      *)
(* leave no more drafts of one reply than there are workers                *)
(* (supervisor.py _pregenerate_instructions, prefetch.py claim).           *)
(***************************************************************************)
THEOREM DuplicatesStayBounded == Spec => []DuplicatesAreBounded
  <1>1. Init => FetchInv /\ DraftsBounded
    <2>1. Init => FetchInv
      BY DEF Init, FetchInv, FetchersClaim, OneFetcher
    <2>2. ASSUME Init, NEW p \in Pairs
          PROVE  drafts[p] + Cardinality(Drafting(p)) <= Cardinality(Workers)
      <3>1. drafts[p] = 0 /\ Drafting(p) = {}
        BY <2>2 DEF Init, Drafting, Off
      <3>2. QED BY <3>1, FS_EmptySet, DraftingSize
    <2>3. QED BY <2>1, <2>2 DEF DraftsBounded, Drafting
  <1>2. TypeOK /\ FetchInv /\ DraftsBounded /\ [Next]_vars => (FetchInv /\ DraftsBounded)'
    BY FetchNext, DraftsNext
  <1>3. FetchInv /\ DraftsBounded => DuplicatesAreBounded
    BY DEF FetchInv, DuplicatesAreBounded
  <1>4. QED BY <1>1, <1>2, <1>3, TypeInit, TypeNext, PTL DEF Spec
=============================================================================
