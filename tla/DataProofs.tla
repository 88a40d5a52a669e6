----------------------------- MODULE DataProofs -----------------------------
(***************************************************************************)
(* Proofs about the data of a project: the pool it is kept in              *)
(* (SessionPool), and the seven parts of the workbench, each with its own  *)
(* variables and its own specification.  In their order:                   *)
(*                                                                         *)
(*   the pool, which may hold only so much (SessionPool);                  *)
(*   the documents the data comes from (Corpora);                          *)
(*   the calls it comes from (Connectors);                                 *)
(*   what a turn takes of the pool (Selection);                            *)
(*   the procedures it is for, and patches to them (Builder);              *)
(*   the schema of its configuration (Schemas);                            *)
(*   sums over finite sets, which the last two are stated in;              *)
(*   the figures an operator reads (Metrics);                              *)
(*   what a worker foresees and prepares (Predictor);                      *)
(*   the workbench as a whole, to which all of this is carried over.       *)
(***************************************************************************)
EXTENDS SessionPool, Workbench, FiniteSetTheorems, SequenceTheorems, WellFoundedInduction, TLAPS

(***************************************************************************)
(* Of a set of positions one is the last.                                  *)
(***************************************************************************)
LEMMA GreatestIndex ==
    ASSUME NEW n \in Nat, NEW I \in SUBSET (1 .. n), I # {}
    PROVE  \E i \in I : \A j \in I : j <= i
  <1> DEFINE T == {n - i : i \in I}
  <1>1. T \in SUBSET Nat /\ T # {}
    <2>1. \A i \in I : n - i \in Nat
      OBVIOUS
    <2>2. PICK i \in I : TRUE
      OBVIOUS
    <2>3. n - i \in T
      OBVIOUS
    <2>4. QED BY <2>1, <2>3
  <1> HIDE DEF T
  <1>2. PICK t \in T : \A u \in T : <<u, t>> \notin OpToRel(<, Nat)
    BY <1>1, NatLessThanWellFounded, WFMin, Zenon
  <1>3. PICK i \in I : t = n - i
    BY DEF T
  <1>4. ASSUME NEW j \in I PROVE j <= i
    <2>1. n - j \in T
      BY DEF T
    <2>2. ~(n - j < n - i)
      BY <1>1, <1>2, <1>3, <2>1 DEF OpToRel
    <2>3. QED BY <2>2
  <1>5. QED BY <1>4

-----------------------------------------------------------------------------
(***************************************************************************)
(* The pool, for any finite set of items, any confidences and any cap.     *)
(*                                                                         *)
(* CapHolds is not inductive: the eviction of one insert is not enough for *)
(* it without what the other prunes under way will evict.  PrunesSuffice   *)
(* counts them in, for every set of prunes that may still finish.          *)
(***************************************************************************)

Pruning == {i \in Items : pc[i] \in {"pruning", "evicting"}}

Chosen(S) == UNION {victims[i] : i \in S}

PrunesSuffice ==
    \A S \in SUBSET Pruning :
        Cardinality(Live \ Chosen(S)) <= MaxItems + Cardinality(Unpruned \ S)

\* The items of the pool at least as good as i, other than i.
Better(i) == {j \in added \ {i} : Confidence[j] >= Confidence[i]}

Inserted == {i \in Items : pc[i] # "new"}

PrunesChooseWorst ==
    /\ store \subseteq added /\ added \subseteq Inserted
    /\ \A i \in Items : stale[i] \subseteq expired /\ victims[i] \subseteq Inserted
    /\ \A i \in Items : \A v \in victims[i] \cap added : Cardinality(Better(v)) >= MaxItems

-----------------------------------------------------------------------------
LEMMA SetSize ==
    ASSUME NEW S \in SUBSET Items
    PROVE  IsFiniteSet(S) /\ Cardinality(S) \in Nat
  BY ItemsAssumption, FS_Subset, FS_CardinalityType

LEMMA SmallerSet ==
    ASSUME NEW T \in SUBSET Items, NEW S \in SUBSET T
    PROVE  Cardinality(S) <= Cardinality(T)
  BY SetSize, FS_Subset

(***************************************************************************)
(* The types, for every value of the constants.                            *)
(***************************************************************************)
LEMMA TypeInit == Init => TypeOK
  BY DEF Init, TypeOK, Stages

LEMMA TypeNext == TypeOK /\ [Next]_vars => TypeOK'
  <1> SUFFICES ASSUME TypeOK, [Next]_vars PROVE TypeOK'
    OBVIOUS
  <1> USE DEF TypeOK, Stages
  <1>1. ASSUME NEW i \in Items, Hset(i) PROVE TypeOK'
    BY <1>1 DEF Hset
  <1>2. ASSUME NEW i \in Items, ExpireKey(i) PROVE TypeOK'
    BY <1>2 DEF ExpireKey
  <1>3. ASSUME NEW i \in Items, Snapshot(i) PROVE TypeOK'
    BY <1>3 DEF Snapshot, Live
  <1>4. ASSUME NEW i \in Items, DropStale(i) PROVE TypeOK'
    BY <1>4 DEF DropStale, Delete
  <1>5. ASSUME NEW i \in Items, Evict(i) PROVE TypeOK'
    BY <1>5 DEF Evict, Delete
  <1>6. ASSUME NEW i \in Items, Fail(i) PROVE TypeOK'
    BY <1>6 DEF Fail
  <1>7. ASSUME NEW i \in Items, ItemExpires(i) PROVE TypeOK'
    BY <1>7 DEF ItemExpires
  <1>8. ASSUME Clear \/ KeyExpires PROVE TypeOK'
    BY <1>8 DEF Clear, KeyExpires
  <1>9. CASE UNCHANGED vars
    BY <1>9 DEF vars
  <1>10. QED
    BY <1>1, <1>2, <1>3, <1>4, <1>5, <1>6, <1>7, <1>8, <1>9 DEF Next

THEOREM TypeCorrect == Spec => []TypeOK
  BY TypeInit, TypeNext, PTL DEF Spec

-----------------------------------------------------------------------------
(***************************************************************************)
(* A pool that will never expire holds only items of inserts between HSET  *)
(* and EXPIRE (pool.py insert).                                            *)
(***************************************************************************)
LEMMA ImmortalNext == TypeOK /\ ImmortalOnlyBetween /\ [Next]_vars => ImmortalOnlyBetween'
  <1> SUFFICES ASSUME TypeOK, ImmortalOnlyBetween, [Next]_vars PROVE ImmortalOnlyBetween'
    OBVIOUS
  <1> USE DEF TypeOK, ImmortalOnlyBetween
  <1>1. ASSUME NEW i \in Items, Hset(i) \/ ExpireKey(i) PROVE ImmortalOnlyBetween'
    BY <1>1 DEF Hset, ExpireKey
  <1>2. ASSUME NEW i \in Items, Snapshot(i) PROVE ImmortalOnlyBetween'
    BY <1>2 DEF Snapshot
  <1>3. ASSUME NEW i \in Items, DropStale(i) PROVE ImmortalOnlyBetween'
    BY <1>3 DEF DropStale, Delete
  <1>4. ASSUME NEW i \in Items, Evict(i) PROVE ImmortalOnlyBetween'
    BY <1>4 DEF Evict, Delete
  <1>5. ASSUME NEW i \in Items, Fail(i) PROVE ImmortalOnlyBetween'
    BY <1>5 DEF Fail
  <1>6. ASSUME NEW i \in Items, ItemExpires(i) PROVE ImmortalOnlyBetween'
    BY <1>6 DEF ItemExpires
  <1>7. ASSUME Clear \/ KeyExpires PROVE ImmortalOnlyBetween'
    BY <1>7 DEF Clear, KeyExpires
  <1>8. CASE UNCHANGED vars
    BY <1>8 DEF vars
  <1>9. QED
    BY <1>1, <1>2, <1>3, <1>4, <1>5, <1>6, <1>7, <1>8 DEF Next

THEOREM NeverImmortal == Spec => []ImmortalOnlyBetween
  <1>1. Init => ImmortalOnlyBetween
    BY DEF Init, ImmortalOnlyBetween
  <1>2. QED BY <1>1, TypeInit, TypeNext, ImmortalNext, PTL DEF Spec

-----------------------------------------------------------------------------
(***************************************************************************)
(* The cap.                                                                *)
(***************************************************************************)

\* The sets the cap is about are sets of items.
LEMMA CapSets ==
    ASSUME TypeOK
    PROVE  /\ Live \in SUBSET Items /\ Unpruned \in SUBSET Items /\ Pruning \in SUBSET Unpruned
           /\ MaxItems \in Nat
  BY MaxItemsAssumption DEF TypeOK, Live, Unpruned, Pruning

\* A step after which S leaves no more items than T did, and no fewer unpruned inserts.
LEMMA CapFrom ==
    ASSUME TypeOK, TypeOK', NEW S \in SUBSET Items, NEW T \in SUBSET Pruning, PrunesSuffice,
           Live' \ Chosen(S)' \subseteq Live \ Chosen(T),
           Unpruned \ T \subseteq Unpruned' \ S
    PROVE  Cardinality(Live' \ Chosen(S)') <= MaxItems + Cardinality(Unpruned' \ S)
  <1>1. Cardinality(Live \ Chosen(T)) <= MaxItems + Cardinality(Unpruned \ T)
    BY DEF PrunesSuffice
  <1>2. /\ Live \ Chosen(T) \in SUBSET Items /\ Live' \ Chosen(S)' \in SUBSET Items
        /\ Unpruned' \ S \in SUBSET Items /\ Unpruned \ T \in SUBSET Items
    BY DEF TypeOK, Live, Unpruned
  <1>3. /\ Cardinality(Live' \ Chosen(S)') <= Cardinality(Live \ Chosen(T))
        /\ Cardinality(Unpruned \ T) <= Cardinality(Unpruned' \ S)
    BY <1>2, SmallerSet
  <1>4. /\ Cardinality(Live \ Chosen(T)) \in Nat /\ Cardinality(Live' \ Chosen(S)') \in Nat
        /\ Cardinality(Unpruned \ T) \in Nat /\ Cardinality(Unpruned' \ S) \in Nat
        /\ MaxItems \in Nat
    BY <1>2, SetSize, CapSets
  <1>5. QED BY <1>1, <1>3, <1>4

\* What a snapshot leaves is within the cap.
LEMMA SnapshotLeavesCap ==
    ASSUME TypeOK, NEW V \in SUBSET Live, Over(Live, V), NEW R \in SUBSET (Live \ V),
           NEW U \in SUBSET Items
    PROVE  Cardinality(R) <= MaxItems + Cardinality(U)
  <1>1. /\ Cardinality(Live \ V) \in Nat /\ Cardinality(R) \in Nat /\ Cardinality(U) \in Nat
        /\ MaxItems \in Nat /\ Cardinality(R) <= Cardinality(Live \ V)
    BY CapSets, SetSize, SmallerSet
  <1>2. Cardinality(Live \ V) <= MaxItems
    <2>1. CASE Cardinality(Live) <= MaxItems
      <3>1. Live \ V = Live
        BY <2>1 DEF Over
      <3>2. QED BY <2>1, <3>1
    <2>2. CASE ~(Cardinality(Live) <= MaxItems)
      BY <1>1, <2>2 DEF Over
    <2>3. QED BY <2>1, <2>2
  <1>3. QED BY <1>1, <1>2

LEMMA HsetCap ==
    ASSUME TypeOK, TypeOK', PrunesSuffice, NEW i \in Items, Hset(i)
    PROVE  PrunesSuffice'
  <1>1. SUFFICES ASSUME NEW S \in SUBSET Pruning'
                 PROVE  Cardinality(Live' \ Chosen(S)') <= MaxItems + Cardinality(Unpruned' \ S)
    BY DEF PrunesSuffice
  <1>2. /\ S \in SUBSET Pruning /\ i \notin S
        /\ Chosen(S)' = Chosen(S) /\ Live' \subseteq Live \cup {i}
        /\ i \notin Unpruned /\ Unpruned' = Unpruned \cup {i}
    BY DEF Hset, TypeOK, Pruning, Chosen, Live, Unpruned
  <1>3. Cardinality(Live \ Chosen(S)) <= MaxItems + Cardinality(Unpruned \ S)
    BY <1>2 DEF PrunesSuffice
  <1> DEFINE seen == Live \ Chosen(S)
             open == Unpruned \ S
             seenAfter == Live' \ Chosen(S)'
             openAfter == Unpruned' \ S
  <1>5. /\ seen \in SUBSET Items /\ open \in SUBSET Items /\ i \notin open
        /\ openAfter = open \cup {i}
        /\ seenAfter \in SUBSET (seen \cup {i}) /\ seen \cup {i} \in SUBSET Items
    BY <1>2, CapSets
  <1>6. Cardinality(seen) <= MaxItems + Cardinality(open)
    BY <1>3
  <1> HIDE DEF seen, open, seenAfter, openAfter
  <1>7. /\ IsFiniteSet(seen) /\ IsFiniteSet(open)
        /\ Cardinality(seen) \in Nat /\ Cardinality(open) \in Nat
        /\ Cardinality(seenAfter) \in Nat /\ Cardinality(seen \cup {i}) \in Nat
    BY <1>5, SetSize
  <1>8. Cardinality(open \cup {i}) = Cardinality(open) + 1
    BY <1>5, <1>7, FS_AddElement
  <1>9. Cardinality(seen \cup {i}) = Cardinality(seen) + 1 \/ Cardinality(seen \cup {i}) = Cardinality(seen)
    BY <1>7, FS_AddElement
  <1>10. Cardinality(seenAfter) <= Cardinality(seen \cup {i})
    BY <1>5, SmallerSet
  <1>11. Cardinality(seenAfter) <= MaxItems + Cardinality(openAfter)
    BY <1>5, <1>6, <1>7, <1>8, <1>9, <1>10, MaxItemsAssumption
  <1>12. QED BY <1>11 DEF seenAfter, openAfter

LEMMA PruneCap ==
    ASSUME TypeOK, TypeOK', PrunesSuffice, NEW i \in Items,
           Snapshot(i) \/ DropStale(i) \/ Evict(i)
    PROVE  PrunesSuffice'
  <1>1. SUFFICES ASSUME NEW S \in SUBSET Pruning'
                 PROVE  Cardinality(Live' \ Chosen(S)') <= MaxItems + Cardinality(Unpruned' \ S)
    BY DEF PrunesSuffice
  <1>a. S \in SUBSET Items /\ Unpruned' \ S \in SUBSET Items
    BY DEF Pruning, Unpruned
  <1>2. CASE Snapshot(i)
    <2>1. PICK V \in SUBSET Live :
             /\ Over(Live, V)
             /\ victims' = [victims EXCEPT ![i] = V]
             /\ pc' = [pc EXCEPT ![i] = IF store \cap expired # {} THEN "pruning"
                                        ELSE IF V # {} THEN "evicting" ELSE "done"]
      BY <1>2 DEF Snapshot
    <2>2. Live' = Live /\ pc[i] = "timed"
      BY <1>2 DEF Snapshot, Live
    <2>3. CASE i \in S
      <3>1. V \subseteq Chosen(S)'
        BY <2>1, <2>3 DEF Chosen, TypeOK
      <3>2. QED BY <1>a, <2>1, <2>2, <3>1, SnapshotLeavesCap
    <2>4. CASE pc'[i] = "done"
      <3>1. V = {}
        BY <2>1, <2>4 DEF TypeOK
      <3>2. QED BY <1>a, <2>1, <2>2, <3>1, SnapshotLeavesCap
    <2>5. CASE i \notin S /\ pc'[i] # "done"
      <3>1. S \in SUBSET Pruning /\ Unpruned' = Unpruned /\ Chosen(S)' = Chosen(S)
        BY <1>a, <2>1, <2>2, <2>5 DEF TypeOK, Pruning, Unpruned, Chosen
      <3>2. QED BY <1>a, <2>2, <3>1, CapFrom
    <2>6. QED BY <2>3, <2>4, <2>5
  <1>3. CASE DropStale(i) /\ pc'[i] = "evicting"
    <2>1. /\ S \in SUBSET Pruning /\ Unpruned' = Unpruned /\ Chosen(S)' = Chosen(S)
          /\ Live' \subseteq Live
      BY <1>3 DEF DropStale, Delete, TypeOK, Pruning, Unpruned, Chosen, Live
    <2>2. QED BY <1>a, <2>1, CapFrom
  <1>4. CASE (DropStale(i) \/ Evict(i)) /\ pc'[i] = "done"
    <2>1. i \in Pruning /\ i \notin S /\ S \cup {i} \in SUBSET Pruning
      BY <1>4 DEF DropStale, Evict, TypeOK, Pruning
    <2>2. Unpruned \ (S \cup {i}) \subseteq Unpruned' \ S
      BY <1>4 DEF DropStale, Evict, TypeOK, Unpruned
    <2>3. Chosen(S)' = Chosen(S)
      <3>1. \A j \in S : j \in Items /\ j # i
        BY <1>a, <2>1
      <3>2. \A j \in S : victims'[j] = victims[j]
        BY <1>4, <3>1 DEF DropStale, Evict, TypeOK
      <3>3. QED BY <3>2 DEF Chosen
    <2>4. Chosen(S \cup {i}) = Chosen(S) \cup victims[i]
      BY DEF Chosen
    <2>5. Live' \subseteq Live \ victims[i]
      BY <1>4 DEF DropStale, Evict, Delete, TypeOK, Live
    <2>6. QED BY <1>a, <2>1, <2>2, <2>3, <2>4, <2>5, CapFrom
  <1>5. (DropStale(i) \/ Evict(i)) => pc'[i] = "done" \/ (DropStale(i) /\ pc'[i] = "evicting")
    BY DEF DropStale, Evict, TypeOK
  <1>6. QED BY <1>2, <1>3, <1>4, <1>5

\* The other steps add no item and end no insert's prune.
LEMMA OtherCap ==
    ASSUME TypeOK, TypeOK', PrunesSuffice, Live' \subseteq Live, Unpruned \subseteq Unpruned',
           Pruning' \subseteq Pruning, \A j \in Pruning' : victims'[j] = victims[j]
    PROVE  PrunesSuffice'
  <1>1. SUFFICES ASSUME NEW S \in SUBSET Pruning'
                 PROVE  Cardinality(Live' \ Chosen(S)') <= MaxItems + Cardinality(Unpruned' \ S)
    BY DEF PrunesSuffice
  <1>2. S \in SUBSET Items /\ S \in SUBSET Pruning /\ Chosen(S)' = Chosen(S)
    BY DEF Chosen, Pruning
  <1>3. QED BY <1>2, CapFrom

LEMMA CapNext == TypeOK /\ PrunesSuffice /\ [Next]_vars => PrunesSuffice'
  <1> SUFFICES ASSUME TypeOK, PrunesSuffice, [Next]_vars PROVE PrunesSuffice'
    OBVIOUS
  <1>1. TypeOK'
    BY TypeNext
  <1>2. ASSUME NEW i \in Items, ExpireKey(i) \/ Fail(i) \/ ItemExpires(i) PROVE PrunesSuffice'
    <2>1. /\ Live' \subseteq Live /\ Unpruned \subseteq Unpruned' /\ Pruning' \subseteq Pruning
          /\ \A j \in Pruning' : victims'[j] = victims[j]
      BY <1>2 DEF ExpireKey, Fail, ItemExpires, TypeOK, Live, Unpruned, Pruning
    <2>2. QED BY <1>1, <2>1, OtherCap
  <1>3. ASSUME Clear \/ KeyExpires \/ UNCHANGED vars PROVE PrunesSuffice'
    <2>1. /\ Live' \subseteq Live /\ Unpruned \subseteq Unpruned' /\ Pruning' \subseteq Pruning
          /\ \A j \in Pruning' : victims'[j] = victims[j]
      BY <1>3 DEF Clear, KeyExpires, vars, TypeOK, Live, Unpruned, Pruning
    <2>2. QED BY <1>1, <2>1, OtherCap
  <1>4. QED
    BY <1>1, <1>2, <1>3, HsetCap, PruneCap DEF Next

(***************************************************************************)
(* However the prunes of racing inserts interleave, readers see at most    *)
(* one item over the cap for each insert that has not finished its prune   *)
(* (pool.py insert, _prune_and_cap).                                       *)
(***************************************************************************)
THEOREM CapCorrect == Spec => []CapHolds
  <1>1. Init => PrunesSuffice
    <2>1. SUFFICES ASSUME Init, NEW S \in SUBSET Pruning
                   PROVE  Cardinality(Live \ Chosen(S)) <= MaxItems + Cardinality(Unpruned \ S)
      BY DEF PrunesSuffice
    <2>2. Live \ Chosen(S) = {} /\ Unpruned \ S = {}
      BY <2>1 DEF Init, Live, Unpruned
    <2>3. QED BY <2>2, FS_EmptySet, MaxItemsAssumption
  <1>2. TypeOK /\ PrunesSuffice => CapHolds
    <2>1. Live \ Chosen({}) = Live /\ Unpruned \ {} = Unpruned
      BY DEF Chosen
    <2>2. {} \in SUBSET Pruning
      OBVIOUS
    <2>3. QED BY <2>1, <2>2 DEF PrunesSuffice, CapHolds
  <1>3. QED BY <1>1, <1>2, TypeInit, TypeNext, CapNext, PTL DEF Spec

-----------------------------------------------------------------------------
(***************************************************************************)
(* What is evicted.                                                        *)
(***************************************************************************)
LEMMA BetterGrows ==
    ASSUME TypeOK, TypeOK', added \subseteq added', NEW v, Cardinality(Better(v)) >= MaxItems
    PROVE  Cardinality(Better(v)') >= MaxItems
  <1>1. Better(v) \in SUBSET Better(v)' /\ Better(v)' \in SUBSET Items
    BY DEF Better, TypeOK
  <1>2. Cardinality(Better(v)) <= Cardinality(Better(v)')
    BY <1>1, SmallerSet
  <1>3. /\ Cardinality(Better(v)) \in Nat /\ Cardinality(Better(v)') \in Nat /\ MaxItems \in Nat
    BY <1>1, SetSize, MaxItemsAssumption
  <1>4. QED BY <1>2, <1>3

LEMMA SnapshotChoosesWorst ==
    ASSUME TypeOK, store \subseteq added, NEW V \in SUBSET Live, Over(Live, V), NEW v \in V
    PROVE  Cardinality(Better(v)) >= MaxItems
  <1>1. Cardinality(Live \ V) = MaxItems /\ \A k \in Live \ V : Confidence[v] <= Confidence[k]
    BY DEF Over
  <1>2. Live \ V \in SUBSET Better(v) /\ Better(v) \in SUBSET Items
    <2>1. \A k \in Live \ V : Confidence[k] \in Nat /\ Confidence[v] \in Nat
      BY ConfidenceAssumption DEF TypeOK, Live
    <2>2. QED BY <1>1, <2>1 DEF Better, Live, TypeOK
  <1>3. /\ Cardinality(Live \ V) <= Cardinality(Better(v))
        /\ Cardinality(Better(v)) \in Nat
    BY <1>2, SmallerSet, SetSize
  <1>4. QED BY <1>1, <1>3, MaxItemsAssumption

LEMMA BestNext ==
    TypeOK /\ PrunesChooseWorst /\ BestKept /\ [Next]_vars => PrunesChooseWorst' /\ BestKept'
  <1> SUFFICES ASSUME TypeOK, PrunesChooseWorst, BestKept, [Next]_vars
               PROVE  PrunesChooseWorst' /\ BestKept'
    OBVIOUS
  <1>a. TypeOK'
    BY TypeNext
  <1>b. BestKept <=> \A i \in added \ (store \cup expired) : Cardinality(Better(i)) >= MaxItems
    BY DEF BestKept, Better
  <1>c. BestKept' <=> \A i \in added' \ (store' \cup expired') : Cardinality(Better(i)') >= MaxItems
    BY DEF BestKept, Better
  <1>1. ASSUME NEW i \in Items, Snapshot(i) PROVE PrunesChooseWorst' /\ BestKept'
    <2>1. PICK V \in SUBSET Live : Over(Live, V) /\ victims' = [victims EXCEPT ![i] = V]
      BY <1>1 DEF Snapshot
    <2>2. /\ UNCHANGED <<store, expired, added>>
          /\ stale' = [stale EXCEPT ![i] = store \cap expired]
      BY <1>1 DEF Snapshot
    <2>3. \A v : Better(v)' = Better(v)
      BY <2>2 DEF Better
    <2>4. \A v \in V : Cardinality(Better(v)) >= MaxItems
      BY <2>1, SnapshotChoosesWorst DEF PrunesChooseWorst
    <2>5. \A j \in Items : \A v \in victims'[j] \cap added' : Cardinality(Better(v)') >= MaxItems
      BY <2>1, <2>2, <2>3, <2>4 DEF PrunesChooseWorst, TypeOK
    <2>6. /\ store' \subseteq added' /\ added' \subseteq Inserted'
          /\ \A j \in Items : stale'[j] \subseteq expired' /\ victims'[j] \subseteq Inserted'
      <3>1. Inserted' = Inserted
        BY <1>1 DEF Snapshot, Inserted, TypeOK
      <3>2. V \subseteq Inserted
        BY DEF PrunesChooseWorst, Live
      <3>3. QED BY <2>1, <2>2, <3>1, <3>2 DEF PrunesChooseWorst, TypeOK
    <2>7. QED BY <1>b, <1>c, <2>2, <2>3, <2>5, <2>6 DEF PrunesChooseWorst
  <1>2. ASSUME Clear \/ KeyExpires PROVE PrunesChooseWorst' /\ BestKept'
    BY <1>2 DEF Clear, KeyExpires, PrunesChooseWorst, BestKept, Inserted
  <1>3. ASSUME /\ added \subseteq added' /\ store' \subseteq added'
               /\ expired \subseteq expired'
               /\ \A i \in Items : stale'[i] \subseteq stale[i] /\ victims'[i] \subseteq victims[i]
               /\ Inserted \subseteq Inserted' /\ added' \subseteq Inserted'
               /\ (added' \ added) \cap Inserted = {}
               /\ \A v \in added' \ (store' \cup expired') :
                     v \in added \ (store \cup expired) \/ \E i \in Items : v \in victims[i] \cap added
        PROVE  PrunesChooseWorst' /\ BestKept'
    <2>1. \A v \in added' \ (store' \cup expired') : Cardinality(Better(v)') >= MaxItems
      <3>1. TAKE v \in added' \ (store' \cup expired')
      <3>2. Cardinality(Better(v)) >= MaxItems
        BY <1>b, <1>3, <3>1 DEF PrunesChooseWorst
      <3>3. QED BY <1>a, <1>3, <3>2, BetterGrows
    <2>2. \A i \in Items : \A v \in victims'[i] \cap added' : Cardinality(Better(v)') >= MaxItems
      <3>1. TAKE i \in Items
      <3>2. TAKE v \in victims'[i] \cap added'
      <3>3. Cardinality(Better(v)) >= MaxItems
        BY <1>3, <3>1, <3>2 DEF PrunesChooseWorst
      <3>4. QED BY <1>a, <1>3, <3>3, BetterGrows
    <2>3. \A i \in Items : victims'[i] \subseteq Inserted'
      BY <1>3 DEF PrunesChooseWorst
    <2>4. QED BY <1>c, <1>3, <2>1, <2>2, <2>3 DEF PrunesChooseWorst
  <1>4. ASSUME NEW i \in Items, Hset(i) PROVE PrunesChooseWorst' /\ BestKept'
    <2>1. /\ i \notin Inserted /\ Inserted' = Inserted \cup {i}
          /\ added' = added \cup {i} /\ store' = store \cup {i}
          /\ UNCHANGED <<expired, stale, victims>>
      BY <1>4 DEF Hset, Inserted, TypeOK
    <2>2. QED BY <1>3, <2>1 DEF PrunesChooseWorst
  <1>5. ASSUME NEW i \in Items, ExpireKey(i) \/ Fail(i) \/ ItemExpires(i)
        PROVE  PrunesChooseWorst' /\ BestKept'
    <2>1. Inserted' = Inserted
      BY <1>5 DEF ExpireKey, Fail, ItemExpires, Inserted, TypeOK
    <2>2. /\ UNCHANGED <<added, store>> /\ expired \subseteq expired'
          /\ \A j \in Items : stale'[j] \subseteq stale[j] /\ victims'[j] \subseteq victims[j]
      BY <1>5 DEF ExpireKey, Fail, ItemExpires, TypeOK
    <2>3. QED BY <1>3, <2>1, <2>2 DEF PrunesChooseWorst
  <1>6. ASSUME NEW i \in Items, DropStale(i) \/ Evict(i) PROVE PrunesChooseWorst' /\ BestKept'
    <2>1. Inserted' = Inserted /\ UNCHANGED <<added, expired>>
      BY <1>6 DEF DropStale, Evict, Inserted, TypeOK
    <2>2. /\ store' \subseteq store
          /\ store \ store' \subseteq stale[i] \cup victims[i]
          /\ \A j \in Items : stale'[j] \subseteq stale[j] /\ victims'[j] \subseteq victims[j]
      BY <1>6 DEF DropStale, Evict, Delete, TypeOK
    <2>3. QED BY <1>3, <2>1, <2>2 DEF PrunesChooseWorst
  <1>7. CASE UNCHANGED vars
    <2>1. UNCHANGED <<added, store, expired, stale, victims, Inserted>>
      BY <1>7 DEF vars, Inserted
    <2>2. QED BY <1>3, <2>1 DEF PrunesChooseWorst
  <1>8. QED
    BY <1>1, <1>2, <1>4, <1>5, <1>6, <1>7 DEF Next

(***************************************************************************)
(* An item evicted before its time was not among the MaxItems best of what *)
(* the pool has held since it was last emptied (pool.py _prune_and_cap).   *)
(***************************************************************************)
THEOREM BestAreKept == Spec => []BestKept
  <1>1. Init => PrunesChooseWorst /\ BestKept
    BY DEF Init, PrunesChooseWorst, BestKept, Inserted
  <1>2. QED BY <1>1, TypeInit, TypeNext, BestNext, PTL DEF Spec

-----------------------------------------------------------------------------
(***************************************************************************)
(* The corpora, for any finite set of keys and uploads of any length.      *)
(*                                                                         *)
(* What CorporaAreFaithful says of a committed row is lost unless it is    *)
(* known, of every upload under way, where each write it has pending read  *)
(* what it is compared with: the first of a key in the row, which others   *)
(* may have replaced since, the later ones in the write before             *)
(* (ReadsChain).                                                           *)
(***************************************************************************)

DocRow == [topic : Topics \cup {"none"}, text : Passages \cup {"none"},
        emb : (Topics \cup {"none"}) \X (Passages \cup {"none"})]
Write == [key : DocKeys, topic : Topics, text : Passages, read : DocRow, own : BOOLEAN]

ReadsChain(u) ==
    /\ \A j \in DOMAIN u.pending : \E i \in Pending(u, u.pending[j].key) : ~u.pending[i].own
    /\ \A i, j \in DOMAIN u.pending :
          /\ ~u.pending[i].own
          /\ u.pending[i].key = u.pending[j].key
          => LET earlier == {m \in Pending(u, u.pending[j].key) : m <= j} IN
             /\ (\A m \in earlier : u.pending[m].topic = u.pending[m].read.topic)
                   => u.pending[j].topic = u.pending[i].read.topic
             /\ (\A m \in earlier : u.pending[m].text = u.pending[m].read.text)
                   => u.pending[j].text = u.pending[i].read.text

UploadFits(u) ==
    /\ u.name \in CorpusNames
    /\ u.todo \in Seq(Document)
    /\ u.pending \in Seq(Write)
    /\ ReadsChain(u)

SearchFits ==
    /\ search.stage \in {"idle", "corpus", "docs", "done"}
    /\ search.stage # "idle" => search.name \in CorpusNames
    /\ search.stage # "done" => search.found = {}
    /\ search.stage # "done" => search.outcome = "none"
    /\ search.stage = "docs" => search.id # 0
    /\ search = [stage |-> search.stage, name |-> search.name, id |-> search.id,
                 found |-> search.found, outcome |-> search.outcome]

CorporaInv ==
    /\ corpus \in [CorpusNames -> [id : Nat, docs : [DocKeys -> DocRow]]]
    /\ created \in Nat
    /\ DOMAIN upload = Uploaders
    /\ \A r \in Uploaders : upload[r] = NoUpload \/ UploadFits(upload[r])
    /\ EmbeddingsFitTheirTexts
    /\ SearchFits /\ SearchesSeeOneCorpus

-----------------------------------------------------------------------------
LEMMA NewestOfKey ==
    ASSUME NEW u, NEW k, u.pending \in Seq(Write), Pending(u, k) # {}
    PROVE  \E i \in Pending(u, k) : Latest(u, k) = u.pending[i] /\ \A j \in Pending(u, k) : j <= i
  <1>1. Pending(u, k) \in SUBSET (1 .. Len(u.pending)) /\ Len(u.pending) \in Nat
    BY DEF Pending
  <1>2. \E i \in Pending(u, k) : \A j \in Pending(u, k) : j <= i
    BY <1>1, GreatestIndex
  <1>3. QED BY <1>2 DEF Latest

LEMMA CurrentIsRow ==
    ASSUME CorporaInv, NEW u, UploadFits(u), NEW k \in DocKeys
    PROVE  Current(u, k) \in DocRow
  <1>1. CASE Pending(u, k) # {}
    <2>1. Latest(u, k) \in Write
      BY <1>1, NewestOfKey DEF UploadFits, Pending
    <2>2. QED BY <1>1, <2>1 DEF Current, DocRow, Write, Embedding
  <1>2. CASE Pending(u, k) = {}
    <2>1. NoDoc \in DocRow
      BY DEF NoDoc, DocRow
    <2>2. corpus[u.name].docs[k] \in DocRow
      BY DEF CorporaInv, UploadFits
    <2>3. QED BY <1>2, <2>1, <2>2 DEF Current
  <1>3. QED BY <1>1, <1>2

LEMMA WriteKeepsChain ==
    ASSUME CorporaInv, NEW u, UploadFits(u), NEW w, NEW v,
           w.key \in DocKeys, w \in Write, w.read = Current(u, w.key), w.own = (Pending(u, w.key) # {}),
           v.pending = Append(u.pending, w)
    PROVE  ReadsChain(v)
  <1> DEFINE n == Len(u.pending) + 1
             p == u.pending
             q == v.pending
  <1>1. n \in Nat /\ DOMAIN p = 1 .. n - 1 /\ DOMAIN q = 1 .. n
    BY DEF UploadFits
  <1>2. q[n] = w /\ \A i \in DOMAIN p : q[i] = p[i] /\ i # n /\ i < n
    BY DEF UploadFits
  <1>3. ASSUME NEW k PROVE Pending(v, k) = Pending(u, k) \cup (IF k = w.key THEN {n} ELSE {})
    BY <1>1, <1>2 DEF Pending
  <1>4. ASSUME NEW j \in DOMAIN q PROVE \E i \in Pending(v, q[j].key) : ~q[i].own
    <2>1. CASE j # n
      <3>1. PICK i \in Pending(u, p[j].key) : ~p[i].own
        BY <1>1, <2>1 DEF UploadFits, ReadsChain
      <3>2. i \in DOMAIN p
        BY DEF Pending
      <3>3. QED BY <1>1, <1>2, <1>3, <2>1, <3>1, <3>2
    <2>2. CASE j = n /\ Pending(u, w.key) = {}
      BY <1>2, <1>3, <2>2
    <2>3. CASE j = n /\ Pending(u, w.key) # {}
      <3>1. PICK l \in Pending(u, w.key) : TRUE
        BY <2>3
      <3>2. l \in DOMAIN p /\ p[l].key = w.key
        BY DEF Pending
      <3>3. PICK i \in Pending(u, w.key) : ~p[i].own
        BY <3>2 DEF UploadFits, ReadsChain
      <3>4. i \in DOMAIN p
        BY DEF Pending
      <3>5. QED BY <1>2, <1>3, <2>3, <3>3, <3>4
    <2>4. QED BY <2>1, <2>2, <2>3
  <1>5. ASSUME NEW i \in DOMAIN q, NEW j \in DOMAIN q, ~q[i].own, q[i].key = q[j].key
        PROVE  LET earlier == {m \in Pending(v, q[j].key) : m <= j} IN
               /\ (\A m \in earlier : q[m].topic = q[m].read.topic) => q[j].topic = q[i].read.topic
               /\ (\A m \in earlier : q[m].text = q[m].read.text) => q[j].text = q[i].read.text
    <2>1. CASE i # n /\ j # n
      <3>1. i \in DOMAIN p /\ j \in DOMAIN p /\ q[i] = p[i] /\ q[j] = p[j]
        BY <1>1, <1>2, <2>1
      <3>2. {m \in Pending(v, q[j].key) : m <= j} = {m \in Pending(u, p[j].key) : m <= j}
        BY <1>1, <1>2, <1>3, <3>1
      <3> DEFINE E == {m \in Pending(u, p[j].key) : m <= j}
      <3>3. \A m \in E : q[m] = p[m]
        BY <1>2 DEF Pending
      <3>4. ~p[i].own /\ p[i].key = p[j].key
        BY <1>5, <3>1
      <3>5. /\ (\A m \in E : p[m].topic = p[m].read.topic) => p[j].topic = p[i].read.topic
            /\ (\A m \in E : p[m].text = p[m].read.text) => p[j].text = p[i].read.text
        BY <3>1, <3>4 DEF UploadFits, ReadsChain
      <3>6. {m \in Pending(v, q[j].key) : m <= j} = E
        BY <3>2
      <3> HIDE DEF E
      <3>7. QED BY <3>1, <3>3, <3>5, <3>6
    <2>2. CASE i = n
      <3>1. Pending(u, w.key) = {}
        BY <1>2, <1>5, <2>2
      <3>2. j = n
        <4>1. j \in DOMAIN p => p[j].key = w.key
          BY <1>2, <1>5, <2>2
        <4>2. j \notin DOMAIN p
          BY <3>1, <4>1 DEF Pending
        <4>3. QED BY <1>1, <4>2
      <3>3. n \in {m \in Pending(v, q[j].key) : m <= j}
        BY <1>1, <1>2, <1>3, <3>2
      <3>4. QED BY <2>2, <3>2, <3>3
    <2>3. CASE i # n /\ j = n
      <3>1. i \in DOMAIN p /\ q[i] = p[i] /\ p[i].key = w.key /\ i \in Pending(u, w.key)
        BY <1>1, <1>2, <1>5, <2>3 DEF Pending
      <3>2. PICK l \in Pending(u, w.key) : Latest(u, w.key) = p[l] /\ \A m \in Pending(u, w.key) : m <= l
        BY <3>1, NewestOfKey DEF UploadFits
      <3>3. l \in DOMAIN p /\ p[l].key = w.key
        BY DEF Pending
      <3>4. w.read.topic = p[l].topic /\ w.read.text = p[l].text
        BY <3>1, <3>2 DEF Current
      <3>5. {m \in Pending(u, p[l].key) : m <= l} = Pending(u, w.key)
        BY <3>2, <3>3
      <3>6. \A m \in Pending(u, w.key) : q[m] = p[m]
        BY <1>2 DEF Pending
      <3>7. /\ n \in {m \in Pending(v, q[j].key) : m <= j}
            /\ Pending(u, w.key) \subseteq {m \in Pending(v, q[j].key) : m <= j}
        <4>1. \A m \in Pending(u, w.key) : m <= n
          BY <1>1, <1>2 DEF Pending
        <4>2. QED BY <1>1, <1>2, <1>3, <2>3, <4>1
      <3>8. ~p[i].own /\ p[i].key = p[l].key
        BY <1>5, <3>1, <3>3
      <3>9. /\ (\A m \in Pending(u, w.key) : p[m].topic = p[m].read.topic) => p[l].topic = p[i].read.topic
            /\ (\A m \in Pending(u, w.key) : p[m].text = p[m].read.text) => p[l].text = p[i].read.text
        BY <3>1, <3>3, <3>5, <3>8 DEF UploadFits, ReadsChain
      <3> DEFINE E == {m \in Pending(v, q[j].key) : m <= j}
                 O == Pending(u, w.key)
      <3>10. n \in E /\ O \subseteq E
        BY <3>7
      <3>11. /\ (\A m \in O : p[m].topic = p[m].read.topic) => p[l].topic = p[i].read.topic
             /\ (\A m \in O : p[m].text = p[m].read.text) => p[l].text = p[i].read.text
        BY <3>9
      <3>12. \A m \in O : q[m] = p[m]
        BY <3>6
      <3> HIDE DEF E, O
      <3>13. /\ (\A m \in E : q[m].topic = q[m].read.topic) => q[j].topic = q[i].read.topic
             /\ (\A m \in E : q[m].text = q[m].read.text) => q[j].text = q[i].read.text
        BY <1>2, <2>3, <3>1, <3>4, <3>10, <3>11, <3>12
      <3>14. QED BY <3>13 DEF E
    <2>4. QED BY <2>1, <2>2, <2>3
  <1>6. QED BY <1>4, <1>5 DEF ReadsChain

\* What an upload leaves of a document fits its text, if the row was still as it had been read.
LEMMA UpsertFits ==
    ASSUME CorporaInv, NEW u, UploadFits(u), NEW k \in DocKeys, Pending(u, k) # {}, NEW row \in DocRow,
           \A i \in Pending(u, k) : ~u.pending[i].own => u.pending[i].read = row
    PROVE  Upserted(u, k, row).emb = <<Upserted(u, k, row).topic, Upserted(u, k, row).text>>
  <1> DEFINE p == u.pending
             x == Upserted(u, k, row)
  <1>1. PICK l \in Pending(u, k) : Latest(u, k) = p[l] /\ \A m \in Pending(u, k) : m <= l
    BY NewestOfKey DEF UploadFits
  <1>2. l \in DOMAIN p /\ p[l].key = k
    BY DEF Pending
  <1>3. PICK i \in Pending(u, k) : ~p[i].own
    BY <1>2 DEF UploadFits, ReadsChain
  <1>4. i \in DOMAIN p /\ p[i].key = k /\ p[i].read = row
    BY <1>3 DEF Pending
  <1>5. {m \in Pending(u, k) : m <= l} = Pending(u, k)
    BY <1>1
  <1>6. /\ (\A m \in Pending(u, k) : p[m].topic = p[m].read.topic) => p[l].topic = row.topic
        /\ (\A m \in Pending(u, k) : p[m].text = p[m].read.text) => p[l].text = row.text
    BY <1>2, <1>3, <1>4, <1>5 DEF UploadFits, ReadsChain
  <1>7. x.topic = p[l].topic
    BY <1>1, <1>6 DEF Upserted, Changed
  <1>8. x.text = p[l].text
    BY <1>1, <1>6 DEF Upserted, Changed
  <1>9. QED BY <1>1, <1>7, <1>8 DEF Upserted, Embedding

LEMMA UpsertIsRow ==
    ASSUME NEW u, UploadFits(u), NEW k \in DocKeys, Pending(u, k) # {}, NEW row \in DocRow
    PROVE  Upserted(u, k, row) \in DocRow
  <1>1. Latest(u, k) \in Write
    BY NewestOfKey DEF UploadFits, Pending
  <1>2. QED BY <1>1 DEF Upserted, Embedding, DocRow, Write

-----------------------------------------------------------------------------
\* The corpora are kept by what leaves them, their number and the uploads alone.
LEMMA CommitDocsCorpora ==
    ASSUME CorporaInv, NEW r \in Uploaders, CommitDocs(r)
    PROVE  /\ corpus' \in [CorpusNames -> [id : Nat, docs : [DocKeys -> DocRow]]]
           /\ EmbeddingsFitTheirTexts'
           /\ \A n \in CorpusNames : corpus'[n].id = corpus[n].id
  <1> DEFINE u == upload[r]
  <1>1. UploadFits(u)
    BY DEF CorporaInv, CommitDocs
  <1>2. CASE Conflicts(u)
    <2>1. UNCHANGED <<corpus, mixed>>
      BY <1>2 DEF CommitDocs
    <2>2. QED BY <2>1 DEF CorporaInv, EmbeddingsFitTheirTexts
  <1>3. CASE ~Conflicts(u)
    <2> DEFINE c == corpus[u.name]
               older == {i \in DOMAIN u.pending : ~u.pending[i].own /\ (c.docs[u.pending[i].key] = u.pending[i].read) = FALSE}
               fresh == {i \in DOMAIN u.pending : ~u.pending[i].own /\ (c.docs[u.pending[i].key] = u.pending[i].read) = TRUE}
               keys(I) == {<<u.name, u.pending[i].key>> : i \in I}
    <2>1. /\ corpus' = [corpus EXCEPT ![u.name].docs = Flushed(u, @)]
          /\ mixed' = (mixed \ keys(fresh)) \cup keys(older)
      BY <1>3 DEF CommitDocs
    <2>2. u.name \in CorpusNames /\ c \in [id : Nat, docs : [DocKeys -> DocRow]]
      BY <1>1 DEF UploadFits, CorporaInv
    <2>3. \A k \in DocKeys : Flushed(u, c.docs)[k] \in DocRow
      BY <1>1, <2>2, UpsertIsRow DEF Flushed
    <2>4. Flushed(u, c.docs) \in [DocKeys -> DocRow]
      BY <2>3 DEF Flushed
    <2>5. /\ corpus'[u.name].id = c.id /\ corpus'[u.name].docs = Flushed(u, c.docs)
          /\ \A n \in CorpusNames \ {u.name} : corpus'[n] = corpus[n]
      BY <2>1, <2>2 DEF CorporaInv
    <2>6. corpus' \in [CorpusNames -> [id : Nat, docs : [DocKeys -> DocRow]]]
      BY <2>1, <2>2, <2>4 DEF CorporaInv
    <2>7. ASSUME NEW n \in CorpusNames, NEW k \in DocKeys, corpus'[n].docs[k] # NoDoc, <<n, k>> \notin mixed'
          PROVE  corpus'[n].docs[k].emb = <<corpus'[n].docs[k].topic, corpus'[n].docs[k].text>>
      <3>1. CASE n = u.name /\ Pending(u, k) # {}
        <4>1. \A i \in Pending(u, k) : ~u.pending[i].own => u.pending[i].read = c.docs[k]
          <5>1. SUFFICES ASSUME NEW i \in Pending(u, k), ~u.pending[i].own, u.pending[i].read # c.docs[k]
                         PROVE FALSE
            OBVIOUS
          <5>2. i \in DOMAIN u.pending /\ u.pending[i].key = k
            BY DEF Pending
          <5>3. i \in older
            BY <5>1, <5>2
          <5>4. <<n, k>> \in keys(older)
            BY <3>1, <5>2, <5>3
          <5>5. QED BY <2>1, <2>7, <5>4
        <4>2. c.docs[k] \in DocRow
          BY <2>2
        <4>3. Upserted(u, k, c.docs[k]).emb
                = <<Upserted(u, k, c.docs[k]).topic, Upserted(u, k, c.docs[k]).text>>
          BY <1>1, <3>1, <4>1, <4>2, UpsertFits
        <4>4. corpus'[n].docs[k] = Upserted(u, k, c.docs[k])
          BY <2>5, <3>1 DEF Flushed
        <4>5. QED BY <4>3, <4>4
      <3>2. CASE ~(n = u.name /\ Pending(u, k) # {})
        <4>1. corpus'[n].docs[k] = corpus[n].docs[k]
          BY <2>5, <3>2 DEF Flushed
        <4>2. <<n, k>> \notin mixed
          <5>1. <<n, k>> \notin keys(fresh)
            BY <3>2 DEF Pending
          <5>2. QED BY <2>1, <2>7, <5>1
        <4>3. QED BY <2>7, <4>1, <4>2 DEF CorporaInv, EmbeddingsFitTheirTexts
      <3>3. QED BY <3>1, <3>2
    <2>8. QED BY <2>5, <2>6, <2>7 DEF EmbeddingsFitTheirTexts
  <1>4. QED BY <1>2, <1>3

\* A search finds no more than it may.
LEMMA FoundAreFew ==
    ASSUME NEW K \in SUBSET DocKeys, NEW id, Cardinality(K) <= TopK
    PROVE  Cardinality({[id |-> id, key |-> k] : k \in K}) <= TopK
  <1> DEFINE T == {[id |-> id, key |-> k] : k \in K}
             f == [k \in K |-> [id |-> id, key |-> k]]
  <1>1. IsFiniteSet(K)
    BY CorporaAssumption, FS_Subset
  <1>2. f \in Surjection(K, T)
    BY DEF Surjection
  <1> HIDE DEF f, T
  <1>3. Cardinality(T) <= Cardinality(K) /\ IsFiniteSet(T)
    BY <1>1, <1>2, FS_Surjection
  <1>4. Cardinality(K) \in Nat /\ Cardinality(T) \in Nat
    BY <1>1, <1>3, FS_CardinalityType
  <1>5. Cardinality(T) <= TopK
    BY <1>3, <1>4, CorporaAssumption
  <1>6. QED BY <1>5 DEF T

LEMMA CorporaInitOk == CorporaInit => CorporaInv
  <1> SUFFICES ASSUME CorporaInit PROVE CorporaInv
    OBVIOUS
  <1>1. NoCorpus \in [id : Nat, docs : [DocKeys -> DocRow]] /\ \A k \in DocKeys : NoCorpus.docs[k] = NoDoc
    BY DEF NoCorpus, NoDoc, DocRow
  <1>2. EmbeddingsFitTheirTexts
    BY <1>1 DEF EmbeddingsFitTheirTexts, CorporaInit
  <1>3. SearchFits
    BY DEF CorporaInit, SearchFits, NoSearch
  <1>4. SearchesSeeOneCorpus
    <2>1. Cardinality(search.found) = 0
      BY FS_EmptySet DEF CorporaInit, NoSearch
    <2>2. QED BY <2>1, CorporaAssumption DEF CorporaInit, NoSearch, SearchesSeeOneCorpus
  <1>5. QED BY <1>1, <1>2, <1>3, <1>4 DEF CorporaInv, CorporaInit

LEMMA CorporaStep ==
    ASSUME CorporaInv, [CorporaNext]_corporaVars
    PROVE  CorporaInv'
  <1>1. CASE \E n \in CorpusNames : CreateCorpus(n)
    <2>1. PICK n \in CorpusNames : CreateCorpus(n)
      BY <1>1
    <2>2. /\ corpus' \in [CorpusNames -> [id : Nat, docs : [DocKeys -> DocRow]]] /\ created' \in Nat
          /\ \A m \in CorpusNames : corpus'[m].docs = corpus[m].docs
      BY <2>1 DEF CreateCorpus, CorporaInv
    <2>3. UNCHANGED <<upload, mixed, search>>
      BY <2>1 DEF CreateCorpus
    <2>4. EmbeddingsFitTheirTexts'
      BY <2>2, <2>3 DEF CorporaInv, EmbeddingsFitTheirTexts
    <2>5. QED
      BY <2>2, <2>3, <2>4 DEF CorporaInv, SearchFits, SearchesSeeOneCorpus
  <1>2. CASE \E n \in CorpusNames : DeleteCorpus(n)
    <2>1. PICK n \in CorpusNames : DeleteCorpus(n)
      BY <1>2
    <2>2. NoCorpus \in [id : Nat, docs : [DocKeys -> DocRow]] /\ \A k \in DocKeys : NoCorpus.docs[k] = NoDoc
      BY DEF NoCorpus, NoDoc, DocRow
    <2>3. /\ corpus' \in [CorpusNames -> [id : Nat, docs : [DocKeys -> DocRow]]]
          /\ corpus'[n] = NoCorpus
          /\ \A m \in CorpusNames \ {n} : corpus'[m] = corpus[m]
          /\ mixed' = {x \in mixed : x[1] # n}
      BY <2>1, <2>2 DEF DeleteCorpus, CorporaInv
    <2>4. UNCHANGED <<upload, created, search>>
      BY <2>1 DEF DeleteCorpus
    <2>5. EmbeddingsFitTheirTexts'
      BY <2>2, <2>3 DEF CorporaInv, EmbeddingsFitTheirTexts
    <2>6. QED
      BY <2>3, <2>4, <2>5 DEF CorporaInv, SearchFits, SearchesSeeOneCorpus
  <1>3. CASE \E r \in Uploaders, n \in CorpusNames, docs \in Uploads : UpsertDocs(r, n, docs)
    <2>1. PICK r \in Uploaders, n \in CorpusNames, docs \in Uploads : UpsertDocs(r, n, docs)
      BY <1>3
    <2> DEFINE v == [name |-> n, id |-> corpus[n].id, todo |-> docs, pending |-> <<>>]
    <2>2. UploadFits(v)
      BY CorporaAssumption DEF UploadFits, ReadsChain
    <2>3. upload' = [upload EXCEPT ![r] = v] /\ UNCHANGED <<corpus, created, mixed, search>>
      BY <2>1 DEF UpsertDocs
    <2> HIDE DEF v
    <2>4. QED BY <2>2, <2>3 DEF CorporaInv, EmbeddingsFitTheirTexts, SearchFits, SearchesSeeOneCorpus
  <1>4. CASE \E r \in Uploaders : EmbedDoc(r)
    <2>1. PICK r \in Uploaders : EmbedDoc(r)
      BY <1>4
    <2> DEFINE u == upload[r]
               d == Head(u.todo)
               w == [key |-> d.key, topic |-> d.topic, text |-> d.text, read |-> Current(u, d.key),
                     own |-> Pending(u, d.key) # {}]
               v == upload'[r]
    <2>2. UploadFits(u) /\ u.todo # <<>>
      BY <2>1 DEF EmbedDoc, CorporaInv, NoUpload
    <2>3. d \in Document /\ Tail(u.todo) \in Seq(Document)
      BY <2>2 DEF UploadFits
    <2>4. w \in Write
      BY <2>2, <2>3, CurrentIsRow DEF Document, Write
    <2>5. /\ v.name = u.name /\ v.todo = Tail(u.todo) /\ v.pending = Append(u.pending, w)
          /\ \A q \in Uploaders \ {r} : upload'[q] = upload[q]
          /\ DOMAIN upload' = Uploaders
      BY <2>1 DEF EmbedDoc, CorporaInv
    <2>6. w.key = d.key /\ w.key \in DocKeys /\ w.read = Current(u, w.key) /\ w.own = (Pending(u, w.key) # {})
      BY <2>3 DEF Document
    <2> HIDE DEF w
    <2>7. ReadsChain(v)
      BY <2>2, <2>4, <2>5, <2>6, WriteKeepsChain
    <2>8. v.pending \in Seq(Write)
      BY <2>2, <2>4, <2>5 DEF UploadFits
    <2>9. UploadFits(v)
      BY <2>2, <2>3, <2>5, <2>7, <2>8 DEF UploadFits
    <2>10. UNCHANGED <<corpus, created, mixed, search>>
      BY <2>1 DEF EmbedDoc
    <2>11. QED BY <2>5, <2>9, <2>10 DEF CorporaInv, EmbeddingsFitTheirTexts, SearchFits, SearchesSeeOneCorpus
  <1>5. CASE \E r \in Uploaders : CommitDocs(r)
    <2>1. PICK r \in Uploaders : CommitDocs(r)
      BY <1>5
    <2>2. upload' = [upload EXCEPT ![r] = NoUpload] /\ UNCHANGED <<created, search>>
      BY <2>1 DEF CommitDocs
    <2>3. QED
      BY <2>1, <2>2, CommitDocsCorpora DEF CorporaInv, SearchFits, SearchesSeeOneCorpus
  <1>6. CASE \E r \in Uploaders : UploadFails(r)
    BY <1>6 DEF UploadFails, CorporaInv, EmbeddingsFitTheirTexts, SearchFits, SearchesSeeOneCorpus
  <1>7. CASE \E n \in CorpusNames, query \in BOOLEAN : Search(n, query)
    <2>1. PICK n \in CorpusNames, query \in BOOLEAN : Search(n, query)
      BY <1>7
    <2>2. SearchFits' /\ search'.found = {} /\ search'.outcome # "data"
      BY <2>1 DEF Search, SearchFits, NoSearch
    <2>3. Cardinality(search'.found) <= TopK
      BY <2>2, FS_EmptySet, CorporaAssumption
    <2>4. UNCHANGED <<corpus, created, upload, mixed>>
      BY <2>1 DEF Search
    <2>5. QED BY <2>2, <2>3, <2>4 DEF CorporaInv, EmbeddingsFitTheirTexts, SearchesSeeOneCorpus
  <1>8. CASE FindCorpus
    <2>1. search'.found = {} /\ search'.outcome # "data"
      BY <1>8 DEF FindCorpus, CorporaInv, SearchFits
    <2>2. SearchFits'
      BY <1>8 DEF FindCorpus, CorporaInv, SearchFits
    <2>3. Cardinality(search'.found) <= TopK
      BY <2>1, FS_EmptySet, CorporaAssumption
    <2>4. UNCHANGED <<corpus, created, upload, mixed>>
      BY <1>8 DEF FindCorpus
    <2>5. QED BY <2>1, <2>2, <2>3, <2>4 DEF CorporaInv, EmbeddingsFitTheirTexts, SearchesSeeOneCorpus
  <1>9. CASE FindDocs
    <2>1. PICK K \in SUBSET Searched :
             /\ Cardinality(K) = TopK \/ (Cardinality(K) < TopK /\ K = Searched)
             /\ search' = [search EXCEPT !.stage = "done", !.outcome = "data",
                               !.found = {[id |-> corpus[search.name].id, key |-> k] : k \in K}]
      BY <1>9 DEF FindDocs
    <2> DEFINE F == {[id |-> corpus[search.name].id, key |-> k] : k \in K}
    <2>2. K \in SUBSET DocKeys
      BY DEF Searched, Stored
    <2>3. Cardinality(K) <= TopK
      <3>1. Cardinality(K) \in Nat
        BY <2>2, CorporaAssumption, FS_Subset, FS_CardinalityType
      <3>2. QED BY <2>1, <3>1, CorporaAssumption
    <2>4. Cardinality(F) <= TopK
      BY <2>2, <2>3, FoundAreFew
    <2>5. \A f \in F : f.id = search.id
      BY DEF Searched
    <2>6. search.stage = "docs" /\ search.id # 0
      BY <1>9 DEF FindDocs, CorporaInv, SearchFits
    <2>7. /\ search'.found = F /\ search'.id = search.id /\ search'.stage = "done"
      BY <2>1 DEF CorporaInv, SearchFits
    <2>8. SearchFits'
      BY <2>1, <2>6, <2>7 DEF CorporaInv, SearchFits
    <2>9. UNCHANGED <<corpus, created, upload, mixed>>
      BY <1>9 DEF FindDocs
    <2> HIDE DEF F
    <2>10. SearchesSeeOneCorpus'
      BY <2>4, <2>5, <2>6, <2>7 DEF SearchesSeeOneCorpus
    <2>11. QED BY <2>8, <2>9, <2>10 DEF CorporaInv, EmbeddingsFitTheirTexts
  <1>10. CASE UNCHANGED corporaVars
    BY <1>10 DEF corporaVars, CorporaInv, EmbeddingsFitTheirTexts, SearchFits, SearchesSeeOneCorpus
  <1>11. QED
    BY <1>1, <1>2, <1>3, <1>4, <1>5, <1>6, <1>7, <1>8, <1>9, <1>10 DEF CorporaNext

(***************************************************************************)
(* Whatever uploads overlap, a row's embedding is that of its own text     *)
(* unless two uploads wrote the row at once, and a search answers from the *)
(* one corpus it looked up (api/corpora.py upload_documents,               *)
(* delete_corpus; fetchers/rag.py).                                        *)
(***************************************************************************)
THEOREM CorporaHold == CorporaSpec => []CorporaAreFaithful
  <1>1. CorporaInv => CorporaAreFaithful
    BY DEF CorporaInv, CorporaAreFaithful
  <1>2. CorporaInv /\ [CorporaNext]_corporaVars => CorporaInv'
    BY CorporaStep
  <1>3. QED BY <1>1, <1>2, CorporaInitOk, PTL DEF CorporaSpec

-----------------------------------------------------------------------------
(***************************************************************************)
(* The connectors, for any names, secrets, endpoints and kinds.            *)
(*                                                                         *)
(* A fetch reads a row, then a secret, then calls, and the registry        *)
(* changes between: FetchReads says that what it calls with comes from one *)
(* row held since it began and from a value that secret has had since;     *)
(* FetchCalls counts what was sent and which session was issued last.  A   *)
(* rendering is halfway through an entry when the registry changes:        *)
(* EntryFits says what is known of the entry it has begun.                 *)
(***************************************************************************)

RegistryRows == RowShape \cup {NoConnector}
SecretOrNone == SecretValues \cup {Unset}
Places == [connector : ConnectorNames \cup {Unset}, kind : Kinds, url : Endpoints \cup {Unset},
           secret : SecretNames \cup {Unset}]

SaveShape == [name : ConnectorNames, read : RegistryRows, row : Offers, gone : BOOLEAN]

RegistryInv ==
    /\ registry \in [ConnectorNames -> RegistryRows]
    /\ vault \in [SecretNames -> SecretOrNone]
    /\ DOMAIN saves = Operators
    /\ \A r \in Operators : saves[r] # NoSave =>
          /\ saves[r] \in SaveShape
          /\ saves[r].read # NoConnector /\ ~saves[r].gone => registry[saves[r].name] # NoConnector
    /\ SecretsStayWithTheirEndpoint

HeldFits == Busy => Now(registry, vault) \subseteq held

CallStages == {"initialize", "initialized", "call"}
SentShape == [method : {"request"} \cup CallStages, url : Endpoints \cup {Unset}, credential : SecretOrNone,
              session : Nat]
FetchType ==
    /\ fetch \in [stage : {"idle", "resolve", "secret", "request", "done"} \cup CallStages,
                  probe : BOOLEAN, dep : Places \cup {Unset}, via : ConnectorNames \cup {Unset}, with : RegistryRows,
                  value : SecretOrNone, session : Nat, issued : Seq(Nat), sent : Seq(SentShape),
                  outcome : {Unset, "data", "hollow", "raised"}]
    /\ fetch.stage \notin {"idle", "done"} => fetch.dep \in Places
    /\ fetch.stage \notin {"idle", "done"} => artifact.stage = "idle"

\* A fetch goes with a row it was allowed to use; a call with a value its secret had.
FetchReads ==
    /\ fetch.stage \in {"secret", "request"} \cup CallStages \/ fetch.sent # <<>> =>
          \E row \in RowsUsable : /\ fetch.with.url = Inherited(fetch.dep.url, row.url)
                                  /\ fetch.with.secret = Inherited(fetch.dep.secret, row.secret)
    /\ fetch.stage \in {"request"} \cup CallStages \/ fetch.sent # <<>> =>
          /\ fetch.with.url # Unset
          /\ IF fetch.with.secret = Unset THEN fetch.value = Unset
             ELSE fetch.value # Unset /\ <<fetch.with.secret, fetch.value>> \in held
    /\ \A i \in DOMAIN fetch.sent : fetch.sent[i].url = fetch.with.url /\ fetch.sent[i].credential = fetch.value

Place(stage) == CASE stage = "initialize" -> 0 [] stage = "initialized" -> 1 [] stage = "call" -> 2

FetchCalls ==
    /\ fetch.stage \in {"idle", "resolve", "secret", "request"} =>
          fetch.sent = <<>> /\ fetch.issued = <<>> /\ fetch.session = 0
    /\ fetch.stage = "request" => fetch.with.kind # "mcp"
    /\ fetch.stage \in CallStages =>
          /\ fetch.with.kind = "mcp"
          /\ Len(fetch.sent) = Place(fetch.stage) /\ Len(fetch.issued) = Len(fetch.sent)
          /\ fetch.session = LastIssued(fetch.issued, Len(fetch.sent) + 1)
    /\ fetch.stage # "done" => fetch.outcome = Unset
    /\ \A j \in DOMAIN fetch.issued : fetch.issued[j] \in {0, j}
    /\ ServersSeeOneSession

FetchInv == FetchType /\ FetchReads /\ FetchCalls

-----------------------------------------------------------------------------
LEMMA ShapesDiffer == NoConnector \notin RowShape /\ NoConnector.kind # "mcp" /\ NoConnector \in RegistryRows
  BY DEF NoConnector, RowShape, Kinds, RegistryRows

LEMMA WrittenIsRow ==
    ASSUME NEW current \in RowShape, NEW s \in SaveShape
    PROVE  /\ Written(current, s) \in RowShape
           /\ \/ Written(current, s).url = current.url /\ Written(current, s).secret = current.secret
              \/ Written(current, s).url = s.row.url /\ Written(current, s).secret = s.row.secret
  <1>1. s.row \in RowShape
    BY ConnectorsAssumption DEF SaveShape
  <1>2. QED BY <1>1 DEF Written, RowShape

LEMMA CommitRegistry ==
    ASSUME RegistryInv, NEW r \in Operators, CommitConnector(r)
    PROVE  RegistryInv'
  <1> DEFINE s == saves[r]
             fails == IF s.read = NoConnector THEN registry[s.name] # NoConnector ELSE s.gone
  <1>1. s \in SaveShape /\ (s.read # NoConnector /\ ~s.gone => registry[s.name] # NoConnector)
    BY DEF RegistryInv, CommitConnector
  <1>2. s.name \in ConnectorNames /\ s.row \in Offers /\ s.row \in RowShape
    BY <1>1, ConnectorsAssumption DEF SaveShape
  <1>3. saves' = [saves EXCEPT ![r] = NoSave] /\ vault' = vault
    BY DEF CommitConnector
  <1>4. CASE fails
    <2>1. registry' = registry
      BY <1>4 DEF CommitConnector
    <2>2. QED BY <1>3, <2>1 DEF RegistryInv, SecretsStayWithTheirEndpoint
  <1>5. CASE ~fails
    <2> DEFINE x == IF s.read = NoConnector THEN s.row ELSE Written(registry[s.name], s)
    <2>1. registry' = [registry EXCEPT ![s.name] = x]
      BY <1>5 DEF CommitConnector
    <2>2. x \in RowShape /\ \E o \in Offers : x.url = o.url /\ x.secret = o.secret
      <3>1. CASE s.read = NoConnector
        BY <1>2, <3>1
      <3>2. CASE s.read # NoConnector
        <4>1. registry[s.name] # NoConnector /\ registry[s.name] \in RowShape
          BY <1>1, <1>2, <1>5, <3>2 DEF RegistryInv, RegistryRows
        <4>2. PICK o \in Offers : registry[s.name].url = o.url /\ registry[s.name].secret = o.secret
          BY <1>2, <4>1 DEF RegistryInv, SecretsStayWithTheirEndpoint
        <4>3. x = Written(registry[s.name], s)
          BY <3>2
        <4>4. QED BY <1>1, <1>2, <4>1, <4>2, <4>3, WrittenIsRow
      <3>3. QED BY <3>1, <3>2
    <2> HIDE DEF x
    <2>3. x # NoConnector /\ x \in RegistryRows
      BY <2>2, ShapesDiffer DEF RegistryRows
    <2>4. registry' \in [ConnectorNames -> RegistryRows] /\ registry'[s.name] = x
          /\ \A n \in ConnectorNames \ {s.name} : registry'[n] = registry[n]
      BY <1>2, <2>1, <2>3 DEF RegistryInv
    <2>5. SecretsStayWithTheirEndpoint'
      BY <2>2, <2>4 DEF RegistryInv, SecretsStayWithTheirEndpoint
    <2>6. ASSUME NEW q \in Operators, saves'[q] # NoSave
          PROVE  /\ saves'[q] \in SaveShape
                 /\ saves'[q].read # NoConnector /\ ~saves'[q].gone => registry'[saves'[q].name] # NoConnector
      <3>1. saves'[q] = saves[q] /\ saves[q] # NoSave
        BY <1>3, <2>6 DEF RegistryInv
      <3>2. saves[q] \in SaveShape /\ saves[q].name \in ConnectorNames
        BY <3>1 DEF RegistryInv, SaveShape
      <3>3. QED BY <2>3, <2>4, <3>1, <3>2 DEF RegistryInv
    <2>7. QED BY <1>3, <2>4, <2>5, <2>6 DEF RegistryInv
  <1>6. QED BY <1>4, <1>5

LEMMA SaveRegistry ==
    ASSUME RegistryInv, NEW r \in Operators, NEW n \in ConnectorNames, NEW x \in Offers, SaveConnector(r, n, x)
    PROVE  RegistryInv'
  <1> DEFINE s == [name |-> n, read |-> registry[n], row |-> x, gone |-> FALSE]
  <1>1. saves' = [saves EXCEPT ![r] = s] /\ registry' = registry /\ vault' = vault
    BY DEF SaveConnector
  <1>2. s \in SaveShape /\ (s.read # NoConnector => registry[s.name] # NoConnector)
    BY DEF SaveShape, RegistryInv
  <1> HIDE DEF s
  <1>3. QED BY <1>1, <1>2 DEF RegistryInv, SecretsStayWithTheirEndpoint

LEMMA DeleteRegistry ==
    ASSUME RegistryInv, NEW n \in ConnectorNames, DeleteConnector(n)
    PROVE  RegistryInv'
  <1>1. /\ registry' = [registry EXCEPT ![n] = NoConnector] /\ vault' = vault
        /\ saves' = [q \in Operators |-> IF saves[q].name = n THEN [saves[q] EXCEPT !.gone = TRUE] ELSE saves[q]]
    BY DEF DeleteConnector
  <1>2. registry' \in [ConnectorNames -> RegistryRows] /\ registry'[n] = NoConnector
        /\ \A m \in ConnectorNames \ {n} : registry'[m] = registry[m]
    BY <1>1, ShapesDiffer DEF RegistryInv
  <1>3. ASSUME NEW q \in Operators, saves'[q] # NoSave
        PROVE  /\ saves'[q] \in SaveShape
               /\ saves'[q].read # NoConnector /\ ~saves'[q].gone => registry'[saves'[q].name] # NoConnector
    <2>1. CASE saves[q] = NoSave
      <3>1. saves[q].name # n
        BY <2>1, ConnectorsAssumption DEF NoSave
      <3>2. QED BY <1>1, <1>3, <2>1, <3>1
    <2>2. CASE saves[q] # NoSave /\ saves[q].name = n
      <3>1. saves[q] \in SaveShape /\ saves'[q] = [saves[q] EXCEPT !.gone = TRUE]
        BY <1>1, <2>2 DEF RegistryInv
      <3>2. QED BY <3>1 DEF SaveShape
    <2>3. CASE saves[q] # NoSave /\ saves[q].name # n
      <3>1. saves[q] \in SaveShape /\ saves'[q] = saves[q]
        BY <1>1, <2>3 DEF RegistryInv
      <3>2. QED BY <1>2, <2>3, <3>1 DEF SaveShape, RegistryInv
    <2>4. QED BY <2>1, <2>2, <2>3
  <1>4. SecretsStayWithTheirEndpoint'
    BY <1>2 DEF RegistryInv, SecretsStayWithTheirEndpoint
  <1>5. QED BY <1>1, <1>2, <1>3, <1>4 DEF RegistryInv

LEMMA PutRegistry ==
    ASSUME RegistryInv, NEW s \in SecretNames, NEW v \in SecretOrNone, PutSecret(s, v)
    PROVE  RegistryInv'
  BY DEF PutSecret, RegistryInv, SecretsStayWithTheirEndpoint

-----------------------------------------------------------------------------
\* What is held only grows while the tables change, and a fetch or a rendering is as it was.
LEMMA SavingHolds ==
    ASSUME HeldFits, Saving
    PROVE  HeldFits' /\ held \subseteq held' /\ UNCHANGED <<fetch, artifact>>
  <1>1. UNCHANGED <<fetch, artifact>>
    BY DEF Saving, SaveConnector, CommitConnector, DeleteConnector, PutSecret, Edit
  <1>2. Busy' = Busy
    BY <1>1 DEF Busy
  <1>3. held' = IF Busy THEN held \cup Now(registry', vault') ELSE held
    BY DEF Saving, SaveConnector, CommitConnector, DeleteConnector, PutSecret, Edit
  <1>4. QED BY <1>1, <1>2, <1>3 DEF HeldFits, Now

LEMMA RowsGrow ==
    ASSUME held \subseteq held', fetch' = fetch
    PROVE  /\ RowsUsable \subseteq RowsUsable'
           /\ \A name : RowsHeld(name) \subseteq RowsHeld(name)'
  <1>1. \A name : RowsHeld(name) \subseteq RowsHeld(name)'
    BY DEF RowsHeld
  <1>2. QED BY <1>1 DEF RowsUsable

LEMMA FetchKept ==
    ASSUME FetchInv, held \subseteq held', fetch' = fetch, artifact'.stage = artifact.stage \/ fetch.stage \in {"idle", "done"}
    PROVE  FetchInv'
  <1>1. FetchType'
    BY DEF FetchInv, FetchType
  <1>2. FetchReads'
    BY RowsGrow DEF FetchInv, FetchReads
  <1>3. FetchCalls'
    BY DEF FetchInv, FetchCalls, ServersSeeOneSession
  <1>4. QED BY <1>1, <1>2, <1>3 DEF FetchInv

-----------------------------------------------------------------------------
LEMMA NothingIssued == LastIssued(<<>>, 1) = 0
  BY DEF LastIssued

LEMMA IssuedBefore ==
    ASSUME NEW issued \in Seq(Nat), NEW id \in Nat, NEW i \in 1 .. Len(issued) + 1
    PROVE  LastIssued(Append(issued, id), i) = LastIssued(issued, i)
  <1> DEFINE A == {j \in 1 .. i - 1 : Append(issued, id)[j] # 0}
             B == {j \in 1 .. i - 1 : issued[j] # 0}
  <1>1. A = B
    OBVIOUS
  <1>2. LastIssued(Append(issued, id), i) = IF A = {} THEN 0 ELSE CHOOSE j \in A : \A k \in A : k <= j
    BY DEF LastIssued
  <1>3. LastIssued(issued, i) = IF B = {} THEN 0 ELSE CHOOSE j \in B : \A k \in B : k <= j
    BY DEF LastIssued
  <1> HIDE DEF A, B
  <1>4. QED BY <1>1, <1>2, <1>3

LEMMA IssuedNext ==
    ASSUME NEW issued \in Seq(Nat), NEW id \in {0, Len(issued) + 1}
    PROVE  LastIssued(Append(issued, id), Len(issued) + 2)
             = IF id = 0 THEN LastIssued(issued, Len(issued) + 1) ELSE id
  <1>0. SUFFICES LastIssued(Append(issued, id), (Len(issued) + 1) + 1)
                   = IF id = 0 THEN LastIssued(issued, Len(issued) + 1) ELSE id
    <2>1. (Len(issued) + 1) + 1 = Len(issued) + 2
      OBVIOUS
    <2>2. QED BY <2>1
  <1> DEFINE n == Len(issued) + 1
             B == {j \in 1 .. n - 1 : issued[j] # 0}
             A == {j \in 1 .. (n + 1) - 1 : Append(issued, id)[j] # 0}
  <1>1. n \in Nat /\ A = B \cup (IF id = 0 THEN {} ELSE {n})
    OBVIOUS
  <1>2. LastIssued(Append(issued, id), n + 1) = IF A = {} THEN 0 ELSE CHOOSE j \in A : \A k \in A : k <= j
    BY DEF LastIssued
  <1>3. LastIssued(issued, n) = IF B = {} THEN 0 ELSE CHOOSE j \in B : \A k \in B : k <= j
    BY DEF LastIssued
  <1>4. CASE id = 0
    <2>1. A = B
      BY <1>1, <1>4
    <2> HIDE DEF A, B
    <2>2. QED BY <1>2, <1>3, <1>4, <2>1
  <1>5. CASE id # 0
    <2>1. n \in A /\ \A k \in A : k \in Nat /\ k <= n
      BY <1>1, <1>5
    <2> HIDE DEF A
    <2>2. \A j \in A : (\A k \in A : k <= j) => j = n
      BY <1>1, <2>1
    <2>3. (CHOOSE j \in A : \A k \in A : k <= j) = n
      BY <2>1, <2>2
    <2>4. QED BY <1>2, <1>5, <2>1, <2>3
  <1>6. QED BY <1>4, <1>5

LEMMA MessageFits ==
    ASSUME FetchType, NEW method \in {"request"} \cup CallStages
    PROVE  Message(method) \in SentShape
  <1>1. fetch.with \in RegistryRows /\ fetch.value \in SecretOrNone /\ fetch.session \in Nat
    BY DEF FetchType
  <1>2. fetch.with.url \in Endpoints \cup {Unset}
    BY <1>1 DEF RegistryRows, RowShape, NoConnector
  <1>3. QED BY <1>1, <1>2 DEF Message, SentShape

LEMMA FetchTypeStep ==
    ASSUME FetchType, RegistryInv, HeldFits,
           \/ \E d \in Dependencies : BeginFetch(d)
           \/ \E n \in ConnectorNames : TestConnector(n)
           \/ ResolveDependency \/ ReadSecret \/ Request \/ Rpc
    PROVE  FetchType' /\ HeldFits' /\ UNCHANGED <<registry, vault, saves, artifact>>
  <1>0. NoFetch \in [stage : {"idle", "resolve", "secret", "request", "done"} \cup CallStages,
                     probe : BOOLEAN, dep : Places \cup {Unset}, via : ConnectorNames \cup {Unset}, with : RegistryRows,
                     value : SecretOrNone, session : Nat, issued : Seq(Nat), sent : Seq(SentShape),
                     outcome : {Unset, "data", "hollow", "raised"}]
    BY ShapesDiffer DEF NoFetch, SecretOrNone
  <1>1. UNCHANGED <<registry, vault, saves, artifact>>
    BY DEF BeginFetch, TestConnector, ResolveDependency, ReadSecret, Request, Rpc, Fetching
  <1>2. CASE \E d \in Dependencies : BeginFetch(d)
    <2>1. PICK d \in Dependencies : BeginFetch(d)
      BY <1>2
    <2>2. d \in Places
      BY ConnectorsAssumption DEF Places
    <2>3. /\ fetch' = [NoFetch EXCEPT !.stage = "resolve", !.dep = d]
          /\ held' = Now(registry, vault) /\ artifact.stage = "idle"
      BY <2>1 DEF BeginFetch, Fetching
    <2>4. FetchType'
      BY <1>0, <1>1, <2>2, <2>3 DEF FetchType
    <2>5. QED BY <1>1, <2>3, <2>4 DEF HeldFits, Now
  <1>3. CASE \E n \in ConnectorNames : TestConnector(n)
    <2>1. PICK n \in ConnectorNames : TestConnector(n)
      BY <1>3
    <2> DEFINE d == [connector |-> n, kind |-> registry[n].kind, url |-> Unset, secret |-> Unset]
    <2>2. d \in Places /\ registry[n] \in RegistryRows
      <3>1. registry[n] \in RowShape
        BY <2>1 DEF TestConnector, RegistryInv, RegistryRows
      <3>2. QED BY <3>1 DEF Places, RowShape, RegistryRows
    <2>3. /\ fetch' = [NoFetch EXCEPT !.stage = "secret", !.probe = TRUE, !.via = n, !.with = registry[n], !.dep = d]
          /\ held' = Now(registry, vault) /\ artifact.stage = "idle"
      BY <2>1 DEF TestConnector, Fetching
    <2> HIDE DEF d
    <2>4. FetchType'
      BY <1>0, <1>1, <2>2, <2>3 DEF FetchType
    <2>5. QED BY <1>1, <2>3, <2>4 DEF HeldFits, Now
  <1>4. CASE ResolveDependency
    <2>1. fetch.stage = "resolve" /\ fetch.dep \in Places /\ artifact.stage = "idle"
      BY <1>4 DEF ResolveDependency, FetchType
    <2> DEFINE d == fetch.dep
               own == [kind |-> d.kind, url |-> d.url, secret |-> d.secret, enabled |-> TRUE]
    <2>2. own \in RegistryRows
      BY <2>1 DEF Places, RegistryRows, RowShape
    <2>3. d.connector # Unset /\ registry[d.connector].enabled =>
             d.connector \in ConnectorNames /\ Merged(registry[d.connector], d) \in RegistryRows
      <3>1. SUFFICES ASSUME d.connector # Unset, registry[d.connector].enabled
                     PROVE  d.connector \in ConnectorNames /\ Merged(registry[d.connector], d) \in RegistryRows
        OBVIOUS
      <3>2. d.connector \in ConnectorNames
        BY <2>1, <3>1 DEF Places
      <3>3. registry[d.connector] \in RowShape
        BY <3>1, <3>2 DEF RegistryInv, RegistryRows, NoConnector
      <3>4. QED BY <2>1, <3>2, <3>3 DEF Places, RowShape, RegistryRows, Merged
    <2>4. /\ fetch' = IF d.connector = Unset THEN [fetch EXCEPT !.stage = "secret", !.with = own]
                      ELSE IF ~registry[d.connector].enabled THEN Finish("raised")
                      ELSE [fetch EXCEPT !.stage = "secret", !.via = d.connector, !.with = Merged(registry[d.connector], d)]
          /\ held' = held
      BY <1>4 DEF ResolveDependency, Fetching
    <2> HIDE DEF own
    <2>5. FetchType'
      BY <1>1, <2>1, <2>2, <2>3, <2>4 DEF FetchType, Finish
    <2>6. HeldFits'
      BY <1>1, <2>1, <2>4 DEF HeldFits, Busy, Now
    <2>7. QED BY <1>1, <2>5, <2>6
  <1>5. CASE ReadSecret
    <2>1. fetch.stage = "secret" /\ fetch.dep \in Places /\ artifact.stage = "idle" /\ held' = held
      BY <1>5 DEF ReadSecret, FetchType
    <2> DEFINE c == fetch.with
               value == IF c.secret = Unset THEN Unset ELSE vault[c.secret]
    <2>2. c \in RegistryRows /\ c.secret \in SecretNames \cup {Unset}
      BY DEF FetchType, RegistryRows, RowShape, NoConnector
    <2>3. value \in SecretOrNone
      BY <2>2 DEF RegistryInv, SecretOrNone
    <2>4. \/ fetch' = Finish("data") \/ fetch' = Finish("hollow")
          \/ fetch' = [fetch EXCEPT !.stage = IF c.kind = "mcp" THEN "initialize" ELSE "request", !.value = value]
      BY <1>5 DEF ReadSecret, Fetching
    <2> HIDE DEF value
    <2>5. FetchType'
      BY <1>1, <2>1, <2>3, <2>4 DEF FetchType, Finish, CallStages
    <2>6. HeldFits'
      BY <1>1, <2>1 DEF HeldFits, Busy, Now
    <2>7. QED BY <1>1, <2>5, <2>6
  <1>6. CASE Request
    <2>1. fetch.stage = "request" /\ fetch.dep \in Places /\ artifact.stage = "idle" /\ held' = held
      BY <1>6 DEF Request, FetchType
    <2>2. Message("request") \in SentShape
      BY MessageFits
    <2>3. PICK ok \in BOOLEAN : fetch' = [Finish(IF ok THEN "data" ELSE "raised") EXCEPT !.sent = <<Message("request")>>]
      BY <1>6 DEF Request, Fetching
    <2>4. <<Message("request")>> \in Seq(SentShape)
      BY <2>2
    <2>5. FetchType'
      BY <1>1, <2>1, <2>3, <2>4 DEF FetchType, Finish
    <2>6. HeldFits'
      BY <1>1, <2>1 DEF HeldFits, Busy, Now
    <2>7. QED BY <1>1, <2>5, <2>6
  <1>7. CASE Rpc
    <2>1. /\ fetch.stage \in CallStages /\ fetch.dep \in Places /\ artifact.stage = "idle" /\ held' = held
      BY <1>7 DEF Rpc, FetchType, Following, CallStages
    <2> DEFINE sent == Append(fetch.sent, Message(fetch.stage))
    <2>2. Message(fetch.stage) \in SentShape
      BY <2>1, MessageFits DEF CallStages
    <2>3. sent \in Seq(SentShape) /\ Len(sent) \in Nat
      BY <2>2 DEF FetchType
    <2>4. Following[fetch.stage] \in {"initialized", "call", "done"}
      BY <2>1 DEF Following, CallStages
    <2>5. \/ \E id \in {0, Len(sent)} :
               fetch' = [fetch EXCEPT !.sent = sent, !.session = Session(id), !.issued = Append(@, id),
                                      !.stage = Following[fetch.stage],
                                      !.outcome = IF fetch.stage = "call" THEN "data" ELSE Unset]
          \/ fetch' = [Finish("raised") EXCEPT !.sent = sent]
      BY <1>7 DEF Rpc, Fetching
    <2> HIDE DEF sent
    <2>6. CASE \E id \in {0, Len(sent)} :
               fetch' = [fetch EXCEPT !.sent = sent, !.session = Session(id), !.issued = Append(@, id),
                                      !.stage = Following[fetch.stage],
                                      !.outcome = IF fetch.stage = "call" THEN "data" ELSE Unset]
      <3>1. PICK id \in {0, Len(sent)} :
               fetch' = [fetch EXCEPT !.sent = sent, !.session = Session(id), !.issued = Append(@, id),
                                      !.stage = Following[fetch.stage],
                                      !.outcome = IF fetch.stage = "call" THEN "data" ELSE Unset]
        BY <2>6
      <3>2. Session(id) \in Nat /\ Append(fetch.issued, id) \in Seq(Nat)
        BY <2>3 DEF Session, FetchType
      <3>3. FetchType'
        BY <1>1, <2>1, <2>3, <2>4, <3>1, <3>2 DEF FetchType, CallStages
      <3>4. HeldFits'
        BY <1>1, <2>1 DEF HeldFits, Busy, Now, CallStages
      <3>5. QED BY <1>1, <3>3, <3>4
    <2>7. CASE fetch' = [Finish("raised") EXCEPT !.sent = sent]
      <3>1. FetchType'
        BY <1>1, <2>1, <2>3, <2>7 DEF FetchType, Finish
      <3>2. HeldFits'
        BY <1>1, <2>1 DEF HeldFits, Busy, Now, CallStages
      <3>3. QED BY <1>1, <3>1, <3>2
    <2>8. QED BY <2>5, <2>6, <2>7
  <1>8. QED BY <1>2, <1>3, <1>4, <1>5, <1>6, <1>7

-----------------------------------------------------------------------------
LEMMA UsableSame ==
    ASSUME fetch'.dep = fetch.dep, fetch'.probe = fetch.probe, held' = held
    PROVE  RowsUsable' = RowsUsable
  BY DEF RowsUsable, RowsHeld

LEMMA HeldNow ==
    ASSUME NEW n \in ConnectorNames, NEW H, Now(registry, vault) \subseteq H
    PROVE  <<n, registry[n]>> \in H
  BY DEF Now

LEMMA TestReads ==
    ASSUME RegistryInv, NEW n \in ConnectorNames, TestConnector(n)
    PROVE  FetchReads'
  <1> DEFINE d == [connector |-> n, kind |-> registry[n].kind, url |-> Unset, secret |-> Unset]
  <1>1. /\ fetch' = [NoFetch EXCEPT !.stage = "secret", !.probe = TRUE, !.via = n, !.with = registry[n], !.dep = d]
        /\ held' = Now(registry, vault)
    BY DEF TestConnector, Fetching
  <1>2. /\ fetch'.stage = "secret" /\ fetch'.probe = TRUE /\ fetch'.with = registry[n] /\ fetch'.dep = d
        /\ fetch'.sent = <<>>
    BY <1>1 DEF NoFetch
  <1>3. n # Unset /\ d.connector = n /\ d.url = Unset /\ d.secret = Unset
    BY ConnectorsAssumption
  <1>4. registry[n] \in RowsUsable'
    <2>1. <<n, registry[n]>> \in held'
      BY <1>1, HeldNow
    <2>2. registry[n] \in RowsHeld(n)'
      BY <2>1 DEF RowsHeld
    <2>3. QED BY <1>2, <1>3, <2>2 DEF RowsUsable
  <1>5. /\ fetch'.with.url = Inherited(d.url, registry[n].url)
        /\ fetch'.with.secret = Inherited(d.secret, registry[n].secret)
    BY <1>2, <1>3 DEF Inherited
  <1>6. QED BY <1>2, <1>4, <1>5 DEF FetchReads, CallStages

LEMMA ResolveReads ==
    ASSUME RegistryInv, FetchInv, HeldFits, ResolveDependency
    PROVE  FetchReads'
  <1> DEFINE d == fetch.dep
             own == [kind |-> d.kind, url |-> d.url, secret |-> d.secret, enabled |-> TRUE]
  <1>1. fetch.stage = "resolve" /\ d \in Places /\ held' = held /\ fetch.sent = <<>>
    BY DEF ResolveDependency, FetchInv, FetchType, FetchCalls
  <1>2. fetch' = IF d.connector = Unset THEN [fetch EXCEPT !.stage = "secret", !.with = own]
                 ELSE IF ~registry[d.connector].enabled THEN Finish("raised")
                 ELSE [fetch EXCEPT !.stage = "secret", !.via = d.connector, !.with = Merged(registry[d.connector], d)]
    BY DEF ResolveDependency, Fetching
  <1>3. CASE d.connector = Unset
    <2>1. fetch'.stage = "secret" /\ fetch'.with = own /\ fetch'.sent = <<>> /\ fetch'.dep = d
      BY <1>1, <1>2, <1>3 DEF FetchInv, FetchType
    <2>2. d \in RowsUsable'
      BY <1>3, <2>1 DEF RowsUsable
    <2>3. own.url = Inherited(d.url, d.url) /\ own.secret = Inherited(d.secret, d.secret)
      BY DEF Inherited
    <2>4. QED BY <2>1, <2>2, <2>3 DEF FetchReads, CallStages
  <1>4. CASE d.connector # Unset /\ ~registry[d.connector].enabled
    <2>1. fetch'.stage = "done" /\ fetch'.sent = <<>>
      BY <1>1, <1>2, <1>4 DEF FetchInv, FetchType, Finish
    <2>2. QED BY <2>1 DEF FetchReads, CallStages
  <1>5. CASE d.connector # Unset /\ registry[d.connector].enabled
    <2> DEFINE row == registry[d.connector]
    <2>1. /\ fetch'.stage = "secret" /\ fetch'.with = Merged(row, d) /\ fetch'.sent = <<>>
          /\ fetch'.dep = d /\ fetch'.probe = fetch.probe
      BY <1>1, <1>2, <1>5 DEF FetchInv, FetchType
    <2>2. d.connector \in ConnectorNames
      BY <1>1, <1>5 DEF Places
    <2>3. row \in RowsUsable'
      <3>1. <<d.connector, row>> \in held'
        BY <1>1, <2>2, HeldNow DEF HeldFits, Busy
      <3>2. row \in RowsHeld(d.connector)'
        BY <2>1, <3>1 DEF RowsHeld
      <3>3. QED BY <1>5, <2>1, <3>2 DEF RowsUsable
    <2>4. row \in RegistryRows
      BY <2>2 DEF RegistryInv
    <2>5. /\ Merged(row, d).url = Inherited(d.url, row.url)
          /\ Merged(row, d).secret = Inherited(d.secret, row.secret)
      BY <2>4 DEF Merged, Inherited, RegistryRows, RowShape, NoConnector
    <2>6. QED BY <2>1, <2>3, <2>5 DEF FetchReads, CallStages
  <1>6. QED BY <1>3, <1>4, <1>5

\* Later steps keep the row the fetch goes with.
LEMMA SameRow ==
    ASSUME FetchReads, fetch'.dep = fetch.dep, fetch'.probe = fetch.probe, held' = held, fetch'.with = fetch.with,
           fetch.stage \in {"secret", "request"} \cup CallStages
    PROVE  \E row \in RowsUsable' : /\ fetch'.with.url = Inherited(fetch'.dep.url, row.url)
                                     /\ fetch'.with.secret = Inherited(fetch'.dep.secret, row.secret)
  BY UsableSame DEF FetchReads

LEMMA SecretReads ==
    ASSUME RegistryInv, FetchInv, HeldFits, ReadSecret
    PROVE  FetchReads'
  <1> DEFINE c == fetch.with
             value == IF c.secret = Unset THEN Unset ELSE vault[c.secret]
  <1>1. fetch.stage = "secret" /\ held' = held /\ fetch.sent = <<>>
    BY DEF ReadSecret, FetchInv, FetchCalls
  <1>2. \/ fetch' = Finish("data") \/ fetch' = Finish("hollow")
        \/ /\ c.kind # "mock" /\ ~(c.url = Unset \/ (c.secret # Unset /\ vault[c.secret] = Unset))
           /\ fetch' = [fetch EXCEPT !.stage = IF c.kind = "mcp" THEN "initialize" ELSE "request", !.value = value]
    BY DEF ReadSecret, Fetching
  <1>3. CASE fetch' = Finish("data") \/ fetch' = Finish("hollow")
    <2>1. fetch'.stage = "done" /\ fetch'.sent = <<>>
      BY <1>1, <1>3 DEF FetchInv, FetchType, Finish
    <2>2. QED BY <2>1 DEF FetchReads, CallStages
  <1>4. CASE /\ c.kind # "mock" /\ ~(c.url = Unset \/ (c.secret # Unset /\ vault[c.secret] = Unset))
             /\ fetch' = [fetch EXCEPT !.stage = IF c.kind = "mcp" THEN "initialize" ELSE "request", !.value = value]
    <2>1. /\ fetch'.dep = fetch.dep /\ fetch'.probe = fetch.probe /\ fetch'.with = c /\ fetch'.value = value
          /\ fetch'.sent = <<>>
      BY <1>1, <1>4 DEF FetchInv, FetchType
    <2>2. c.secret # Unset => c.secret \in SecretNames
      BY DEF FetchInv, FetchType, RegistryRows, RowShape, NoConnector
    <2>3. c.secret # Unset => value # Unset /\ <<c.secret, value>> \in held'
      <3>1. Now(registry, vault) \subseteq held'
        BY <1>1 DEF HeldFits, Busy
      <3>2. QED BY <1>4, <2>2, <3>1 DEF Now
    <2>4. c.secret = Unset => value = Unset
      OBVIOUS
    <2>5. \E row \in RowsUsable' : /\ fetch'.with.url = Inherited(fetch'.dep.url, row.url)
                                    /\ fetch'.with.secret = Inherited(fetch'.dep.secret, row.secret)
      BY <1>1, <2>1, SameRow DEF FetchInv
    <2>6. c.url # Unset
      BY <1>4
    <2> HIDE DEF value
    <2>7. QED BY <2>1, <2>3, <2>4, <2>5, <2>6 DEF FetchReads
  <1>5. QED BY <1>2, <1>3, <1>4

\* A message goes with the row and the value of the fetch.
LEMMA SendReads ==
    ASSUME FetchInv, NEW method, fetch.stage \in {"request"} \cup CallStages, held' = held,
           fetch'.dep = fetch.dep, fetch'.probe = fetch.probe, fetch'.with = fetch.with, fetch'.value = fetch.value,
           fetch'.sent = Append(fetch.sent, Message(method))
    PROVE  FetchReads'
  <1>1. \E row \in RowsUsable' : /\ fetch'.with.url = Inherited(fetch'.dep.url, row.url)
                                  /\ fetch'.with.secret = Inherited(fetch'.dep.secret, row.secret)
    BY SameRow DEF FetchInv
  <1>2. /\ fetch'.with.url # Unset
        /\ IF fetch'.with.secret = Unset THEN fetch'.value = Unset
           ELSE fetch'.value # Unset /\ <<fetch'.with.secret, fetch'.value>> \in held'
    BY DEF FetchInv, FetchReads
  <1>3. ASSUME NEW i \in DOMAIN fetch'.sent
        PROVE  fetch'.sent[i].url = fetch'.with.url /\ fetch'.sent[i].credential = fetch'.value
    <2>1. fetch.sent \in Seq(SentShape)
      BY DEF FetchInv, FetchType
    <2>2. CASE i = Len(fetch.sent) + 1
      BY <2>1, <2>2 DEF Message
    <2>3. CASE i # Len(fetch.sent) + 1
      <3>1. i \in DOMAIN fetch.sent /\ fetch'.sent[i] = fetch.sent[i]
        BY <2>1, <2>3
      <3>2. QED BY <3>1 DEF FetchInv, FetchReads
    <2>4. QED BY <2>2, <2>3
  <1>4. QED BY <1>1, <1>2, <1>3 DEF FetchReads

-----------------------------------------------------------------------------
\* A fetch that has called nothing yet, or nothing of MCP.
LEMMA SilentCalls ==
    ASSUME fetch'.sent = <<>>, fetch'.issued = <<>>, fetch'.session = 0,
           fetch'.stage \in {"resolve", "secret", "done"}, fetch'.stage # "done" => fetch'.outcome = Unset,
           fetch'.with.kind = "mcp" => fetch'.outcome # "data"
    PROVE  FetchCalls'
  BY DEF FetchCalls, ServersSeeOneSession, CallStages

LEMMA SecretCalls ==
    ASSUME FetchInv, ReadSecret
    PROVE  FetchCalls'
  <1> DEFINE c == fetch.with
             value == IF c.secret = Unset THEN Unset ELSE vault[c.secret]
  <1>1. fetch.stage = "secret" /\ fetch.sent = <<>> /\ fetch.issued = <<>> /\ fetch.session = 0 /\ fetch.outcome = Unset
    BY DEF ReadSecret, FetchInv, FetchCalls
  <1>2. \/ c.kind = "mock" /\ fetch' = Finish("data")
        \/ fetch' = Finish("hollow")
        \/ fetch' = [fetch EXCEPT !.stage = IF c.kind = "mcp" THEN "initialize" ELSE "request", !.value = value]
    BY DEF ReadSecret, Fetching
  <1>3. CASE (c.kind = "mock" /\ fetch' = Finish("data")) \/ fetch' = Finish("hollow")
    <2>1. /\ fetch'.stage = "done" /\ fetch'.sent = <<>> /\ fetch'.issued = <<>> /\ fetch'.session = 0
          /\ fetch'.with = c
          /\ c.kind = "mock" \/ fetch'.outcome = "hollow"
      BY <1>1, <1>3 DEF FetchInv, FetchType, Finish
    <2>2. QED BY <2>1, SilentCalls
  <1>4. CASE fetch' = [fetch EXCEPT !.stage = IF c.kind = "mcp" THEN "initialize" ELSE "request", !.value = value]
    <2> HIDE DEF value
    <2>1. /\ fetch'.sent = <<>> /\ fetch'.issued = <<>> /\ fetch'.session = 0 /\ fetch'.outcome = Unset
          /\ fetch'.with = c
          /\ \/ fetch'.stage = "initialize" /\ c.kind = "mcp"
             \/ fetch'.stage = "request" /\ c.kind # "mcp"
      BY <1>1, <1>4 DEF FetchInv, FetchType
    <2>2. Len(fetch'.sent) = 0 /\ Len(fetch'.issued) = 0 /\ DOMAIN fetch'.sent = {} /\ DOMAIN fetch'.issued = {}
      BY <2>1
    <2>3. LastIssued(fetch'.issued, Len(fetch'.sent) + 1) = 0
      BY <2>1, NothingIssued
    <2>4. ServersSeeOneSession'
      BY <2>1, <2>2 DEF ServersSeeOneSession, Unset
    <2>5. QED BY <2>1, <2>2, <2>3, <2>4 DEF FetchCalls, CallStages, Place
  <1>5. QED BY <1>2, <1>3, <1>4

LEMMA RpcCalls ==
    ASSUME FetchInv, Rpc
    PROVE  FetchCalls'
  <1> DEFINE sent == Append(fetch.sent, Message(fetch.stage))
             n == Place(fetch.stage)
             methods == <<"initialize", "initialized", "call">>
  <1>1. fetch.stage \in CallStages /\ fetch.with.kind = "mcp"
    BY DEF Rpc, Following, FetchInv, FetchCalls, CallStages
  <1>2. /\ fetch.sent \in Seq(SentShape) /\ fetch.issued \in Seq(Nat)
        /\ n \in Nat /\ Len(fetch.sent) = n /\ Len(fetch.issued) = n
        /\ fetch.session = LastIssued(fetch.issued, n + 1) /\ methods[n + 1] = fetch.stage
    <2>1. fetch.sent \in Seq(SentShape) /\ fetch.issued \in Seq(Nat)
      BY DEF FetchInv, FetchType
    <2>2. n \in 0 .. 2 /\ methods[n + 1] = fetch.stage
      BY <1>1 DEF CallStages, Place
    <2>3. Len(fetch.sent) = n /\ Len(fetch.issued) = n /\ fetch.session = LastIssued(fetch.issued, Len(fetch.sent) + 1)
      BY <1>1 DEF FetchInv, FetchCalls
    <2> HIDE DEF n, methods
    <2>4. QED BY <2>1, <2>2, <2>3
  <1>3. Len(sent) = n + 1 /\ DOMAIN sent = 1 .. n + 1
    BY <1>2
  <1>4. ASSUME NEW i \in 1 .. n + 1
        PROVE  sent[i].method = methods[i] /\ sent[i].session = LastIssued(fetch.issued, i)
    <2>1. CASE i = n + 1
      BY <1>2, <2>1 DEF Message
    <2>2. CASE i # n + 1
      <3>1. i \in DOMAIN fetch.sent /\ sent[i] = fetch.sent[i]
        BY <1>2, <2>2
      <3>2. QED BY <1>1, <3>1 DEF FetchInv, FetchCalls, ServersSeeOneSession
    <2>3. QED BY <2>1, <2>2
  <1>5. /\ fetch.stage = "initialize" => Following[fetch.stage] = "initialized" /\ n = 0
        /\ fetch.stage = "initialized" => Following[fetch.stage] = "call" /\ n = 1
        /\ fetch.stage = "call" => Following[fetch.stage] = "done" /\ n = 2
    BY DEF Following, Place
  <1>6. \/ \E id \in {0, Len(sent)} :
               fetch' = [fetch EXCEPT !.sent = sent, !.session = Session(id), !.issued = Append(@, id),
                                      !.stage = Following[fetch.stage],
                                      !.outcome = IF fetch.stage = "call" THEN "data" ELSE Unset]
        \/ fetch' = [Finish("raised") EXCEPT !.sent = sent]
    BY DEF Rpc, Fetching
  <1> HIDE DEF sent, n
  <1>7. CASE \E id \in {0, Len(sent)} :
               fetch' = [fetch EXCEPT !.sent = sent, !.session = Session(id), !.issued = Append(@, id),
                                      !.stage = Following[fetch.stage],
                                      !.outcome = IF fetch.stage = "call" THEN "data" ELSE Unset]
    <2>1. PICK id \in {0, Len(sent)} :
               fetch' = [fetch EXCEPT !.sent = sent, !.session = Session(id), !.issued = Append(@, id),
                                      !.stage = Following[fetch.stage],
                                      !.outcome = IF fetch.stage = "call" THEN "data" ELSE Unset]
      BY <1>7
    <2> DEFINE issued == Append(fetch.issued, id)
    <2>2. /\ fetch'.sent = sent /\ fetch'.session = Session(id) /\ fetch'.issued = issued
          /\ fetch'.stage = Following[fetch.stage] /\ fetch'.with = fetch.with
          /\ fetch'.outcome = IF fetch.stage = "call" THEN "data" ELSE Unset
      BY <2>1 DEF FetchInv, FetchType
    <2>3. id \in {0, Len(fetch.issued) + 1} /\ Len(issued) = n + 1 /\ DOMAIN issued = 1 .. n + 1
      BY <1>2, <1>3
    <2>4. ASSUME NEW i \in 1 .. n + 1 PROVE LastIssued(issued, i) = LastIssued(fetch.issued, i)
      BY <1>2, <2>3, IssuedBefore
    <2>5. LastIssued(issued, (n + 1) + 1) = Session(id)
      <3>1. LastIssued(issued, Len(fetch.issued) + 2)
              = IF id = 0 THEN LastIssued(fetch.issued, Len(fetch.issued) + 1) ELSE id
        BY <1>2, <2>3, IssuedNext
      <3>2. Len(fetch.issued) + 2 = (n + 1) + 1
        BY <1>2
      <3>3. QED BY <1>2, <3>1, <3>2 DEF Session
    <2>6. ASSUME NEW j \in 1 .. n + 1 PROVE issued[j] \in {0, j}
      <3>1. CASE j = n + 1
        BY <1>2, <2>3, <3>1
      <3>2. CASE j # n + 1
        <4>1. j \in DOMAIN fetch.issued /\ issued[j] = fetch.issued[j]
          BY <1>2, <3>2
        <4>2. QED BY <4>1 DEF FetchInv, FetchCalls
      <3>3. QED BY <3>1, <3>2
    <2> HIDE DEF issued
    <2>7. ServersSeeOneSession'
      <3>1. fetch'.outcome = "data" => Len(fetch'.sent) = 3
        <4>1. fetch'.outcome = "data" => fetch.stage = "call"
          BY <2>2 DEF Unset
        <4>2. fetch.stage = "call" => Len(sent) = 3
          BY <1>3, <1>5
        <4>3. QED BY <2>2, <4>1, <4>2
      <3>2. QED BY <1>3, <1>4, <2>2, <2>4, <3>1 DEF ServersSeeOneSession
    <2>8. fetch'.stage \in CallStages =>
             /\ fetch'.with.kind = "mcp"
             /\ Len(fetch'.sent) = Place(fetch'.stage) /\ Len(fetch'.issued) = Len(fetch'.sent)
             /\ fetch'.session = LastIssued(fetch'.issued, Len(fetch'.sent) + 1)
      <3>1. fetch'.stage \in CallStages => Place(fetch'.stage) = n + 1
        BY <1>1, <1>5, <2>2 DEF CallStages, Place
      <3>2. QED BY <1>1, <1>3, <2>2, <2>3, <2>5, <3>1
    <2>9. fetch'.stage \in {"initialized", "call", "done"} /\ (fetch'.stage # "done" => fetch'.outcome = Unset)
      BY <1>1, <1>5, <2>2 DEF CallStages
    <2>10. QED BY <2>2, <2>3, <2>6, <2>7, <2>8, <2>9 DEF FetchCalls
  <1>8. CASE fetch' = [Finish("raised") EXCEPT !.sent = sent]
    <2>1. /\ fetch'.sent = sent /\ fetch'.issued = fetch.issued /\ fetch'.stage = "done" /\ fetch'.outcome = "raised"
      BY <1>8 DEF FetchInv, FetchType, Finish
    <2>2. ServersSeeOneSession'
      BY <1>3, <1>4, <2>1 DEF ServersSeeOneSession
    <2>3. QED BY <2>1, <2>2 DEF FetchCalls, CallStages, FetchInv
  <1>9. QED BY <1>6, <1>7, <1>8

LEMMA FetchStep ==
    ASSUME FetchInv, RegistryInv, HeldFits,
           \/ \E d \in Dependencies : BeginFetch(d)
           \/ \E n \in ConnectorNames : TestConnector(n)
           \/ ResolveDependency \/ ReadSecret \/ Request \/ Rpc
    PROVE  FetchInv' /\ HeldFits' /\ UNCHANGED <<registry, vault, saves, artifact>>
  <1>1. FetchType' /\ HeldFits' /\ UNCHANGED <<registry, vault, saves, artifact>>
    BY FetchTypeStep DEF FetchInv
  <1>2. CASE \E d \in Dependencies : BeginFetch(d)
    <2>1. /\ fetch'.stage = "resolve" /\ fetch'.sent = <<>> /\ fetch'.issued = <<>> /\ fetch'.session = 0
          /\ fetch'.outcome = Unset
      BY <1>2 DEF BeginFetch, Fetching, NoFetch
    <2>2. FetchReads'
      BY <2>1 DEF FetchReads, CallStages
    <2>3. FetchCalls'
      BY <2>1, SilentCalls DEF Unset
    <2>4. QED BY <1>1, <2>2, <2>3 DEF FetchInv
  <1>3. CASE \E n \in ConnectorNames : TestConnector(n)
    <2>1. /\ fetch'.stage = "secret" /\ fetch'.sent = <<>> /\ fetch'.issued = <<>> /\ fetch'.session = 0
          /\ fetch'.outcome = Unset
      BY <1>3 DEF TestConnector, Fetching, NoFetch
    <2>2. FetchCalls'
      BY <2>1, SilentCalls DEF Unset
    <2>3. QED BY <1>1, <1>3, <2>2, TestReads DEF FetchInv
  <1>4. CASE ResolveDependency
    <2>1. /\ fetch.stage = "resolve" /\ fetch.sent = <<>> /\ fetch.issued = <<>> /\ fetch.session = 0
          /\ fetch.outcome = Unset
      BY <1>4 DEF ResolveDependency, FetchInv, FetchCalls
    <2>2. /\ fetch'.sent = <<>> /\ fetch'.issued = <<>> /\ fetch'.session = 0
          /\ \/ fetch'.stage = "done" /\ fetch'.outcome = "raised"
             \/ fetch'.stage = "secret" /\ fetch'.outcome = Unset
      BY <1>4, <2>1 DEF ResolveDependency, Fetching, Finish, FetchInv, FetchType
    <2>3. FetchCalls'
      BY <2>2, SilentCalls DEF Unset
    <2>4. QED BY <1>1, <1>4, <2>3, ResolveReads DEF FetchInv
  <1>5. CASE ReadSecret
    BY <1>1, <1>5, SecretReads, SecretCalls DEF FetchInv
  <1>6. CASE Request
    <2>1. /\ fetch.stage = "request" /\ fetch.sent = <<>> /\ fetch.issued = <<>> /\ held' = held
          /\ fetch.with.kind # "mcp"
      BY <1>6 DEF Request, FetchInv, FetchCalls
    <2>2. PICK ok \in BOOLEAN : fetch' = [Finish(IF ok THEN "data" ELSE "raised") EXCEPT !.sent = <<Message("request")>>]
      BY <1>6 DEF Request, Fetching
    <2>3. /\ fetch'.dep = fetch.dep /\ fetch'.probe = fetch.probe /\ fetch'.with = fetch.with
          /\ fetch'.value = fetch.value /\ fetch'.issued = <<>> /\ fetch'.stage = "done"
          /\ fetch'.sent = <<Message("request")>>
      BY <2>1, <2>2 DEF FetchInv, FetchType, Finish
    <2>4. fetch'.sent = Append(fetch.sent, Message("request"))
      BY <2>1, <2>3
    <2>5. FetchReads'
      BY <2>1, <2>3, <2>4, SendReads
    <2>6. FetchCalls'
      BY <2>1, <2>3 DEF FetchCalls, ServersSeeOneSession, CallStages
    <2>7. QED BY <1>1, <2>5, <2>6 DEF FetchInv
  <1>7. CASE Rpc
    <2>1. fetch.stage \in CallStages /\ held' = held
      BY <1>7 DEF Rpc, Following, CallStages
    <2> DEFINE sent == Append(fetch.sent, Message(fetch.stage))
    <2>2. /\ fetch'.dep = fetch.dep /\ fetch'.probe = fetch.probe /\ fetch'.with = fetch.with
          /\ fetch'.value = fetch.value /\ fetch'.sent = sent
      <3>1. \/ \E id \in {0, Len(sent)} :
                 fetch' = [fetch EXCEPT !.sent = sent, !.session = Session(id), !.issued = Append(@, id),
                                        !.stage = Following[fetch.stage],
                                        !.outcome = IF fetch.stage = "call" THEN "data" ELSE Unset]
            \/ fetch' = [Finish("raised") EXCEPT !.sent = sent]
        BY <1>7 DEF Rpc, Fetching
      <3> HIDE DEF sent
      <3>2. QED BY <3>1 DEF FetchInv, FetchType, Finish
    <2>3. FetchReads'
      BY <2>1, <2>2, SendReads
    <2>4. QED BY <1>1, <1>7, <2>3, RpcCalls DEF FetchInv
  <1>8. QED BY <1>2, <1>3, <1>4, <1>5, <1>6, <1>7

-----------------------------------------------------------------------------
ServerShape == [connector : ConnectorNames \cup {Unset}, url : Endpoints \cup {Unset},
                auth : SecretNames \cup {Unset, "typed"}]
OutShape == [at : Nat, url : Endpoints \cup {Unset}, auth : SecretNames \cup {Unset, "typed"}, value : SecretOrNone]

ArtifactType ==
    /\ artifact \in [stage : {"idle", "connector", "secret", "done"}, given : Seq(ServerShape), next : Nat,
                     entry : ServerShape \cup {Unset}, out : SUBSET OutShape,
                     notes : SUBSET ({"connector", "disabled", "secret", "dropped"} \X Nat)]
    /\ IF artifact.stage = "idle" THEN artifact = NoArtifact ELSE fetch.stage = "idle"
    /\ artifact.stage \in {"connector", "secret"} => artifact.next \in DOMAIN artifact.given
    /\ artifact.stage = "secret" => artifact.entry \in ServerShape
    /\ artifact.stage = "done" => artifact.next = Len(artifact.given) + 1

\* The entry in hand, once its connector has been looked up.
EntryFits ==
    LET n == artifact.next
        e == artifact.given[n]
        x == artifact.entry
        rows == RowsHeld(e.connector)
    IN /\ e.auth # Unset => x.auth = e.auth
       /\ x.url = Unset =>
             e.url = Unset /\ (Told("connector", n) \/ e.connector = Unset \/ \E row \in rows : row.url = Unset)
       /\ \/ e.connector = Unset
          \/ Told("connector", n)
          \/ \E row \in rows :
                row.kind = "mcp" /\ (row.url # Unset => x.url = row.url) /\ (row.enabled \/ Told("disabled", n))

ArtifactTells ==
    /\ \A o \in artifact.out : o.at < artifact.next
    /\ \A x \in artifact.notes :
          x[2] < artifact.next \/ (artifact.stage = "secret" /\ x[2] = artifact.next /\ x[1] \in {"connector", "disabled"})
    /\ \A i \in DOMAIN artifact.given : i < artifact.next => Accounted(i)
    /\ artifact.stage = "secret" => EntryFits

ArtifactInv == ArtifactType /\ ArtifactTells

LEMMA AccountedKept ==
    ASSUME NEW i, Accounted(i), held \subseteq held', artifact'.given = artifact.given,
           {o \in artifact'.out : o.at = i} = {o \in artifact.out : o.at = i},
           \A kind : <<kind, i>> \in artifact'.notes <=> <<kind, i>> \in artifact.notes
    PROVE  Accounted(i)'
  <1> DEFINE e == artifact.given[i]
             out == {o \in artifact.out : o.at = i}
             rows == RowsHeld(e.connector)
  <1>1. rows \subseteq rows' /\ out' = out /\ e' = e
    BY DEF RowsHeld
  <1>2. \A kind : Told(kind, i)' <=> Told(kind, i)
    BY DEF Told
  <1>3. /\ Cardinality(out) = IF Told("dropped", i) THEN 0 ELSE 1
        /\ Told("dropped", i) =>
              e.url = Unset /\ (Told("connector", i) \/ e.connector = Unset \/ \E row \in rows : row.url = Unset)
        /\ \A o \in out :
             /\ o.url # Unset
             /\ o.auth \in SecretNames => Told("secret", i) \/ (o.value # Unset /\ <<o.auth, o.value>> \in held)
             /\ e.auth # Unset => o.auth = e.auth
             /\ \/ e.connector = Unset
                \/ Told("connector", i)
                \/ \E row \in rows :
                      row.kind = "mcp" /\ (row.url # Unset => o.url = row.url) /\ (row.enabled \/ Told("disabled", i))
    BY DEF Accounted
  <1> HIDE DEF e, out, rows
  <1>4. /\ Cardinality(out') = IF Told("dropped", i)' THEN 0 ELSE 1
        /\ Told("dropped", i)' =>
              e'.url = Unset /\ (Told("connector", i)' \/ e'.connector = Unset \/ \E row \in rows' : row.url = Unset)
        /\ \A o \in out' :
             /\ o.url # Unset
             /\ o.auth \in SecretNames => Told("secret", i)' \/ (o.value # Unset /\ <<o.auth, o.value>> \in held')
             /\ e'.auth # Unset => o.auth = e'.auth
             /\ \/ e'.connector = Unset
                \/ Told("connector", i)'
                \/ \E row \in rows' :
                      row.kind = "mcp" /\ (row.url # Unset => o.url = row.url) /\ (row.enabled \/ Told("disabled", i)')
    BY <1>1, <1>2, <1>3
  <1>5. QED BY <1>4 DEF Accounted, e, out, rows

LEMMA ArtifactKept ==
    ASSUME ArtifactInv, held \subseteq held', artifact' = artifact, artifact.stage # "idle" => fetch'.stage = "idle"
    PROVE  ArtifactInv'
  <1>1. ArtifactType'
    BY DEF ArtifactInv, ArtifactType
  <1>2. ASSUME NEW i \in DOMAIN artifact.given, i < artifact.next PROVE Accounted(i)'
    BY <1>2, AccountedKept DEF ArtifactInv, ArtifactTells
  <1>3. EntryFits => EntryFits'
    <2> DEFINE e == artifact.given[artifact.next]
               rows == RowsHeld(e.connector)
    <2>1. rows \subseteq rows'
      BY DEF RowsHeld
    <2>2. \A kind : Told(kind, artifact.next)' <=> Told(kind, artifact.next)
      BY DEF Told
    <2> HIDE DEF rows
    <2>3. QED BY <2>1, <2>2 DEF EntryFits, rows
  <1>4. QED BY <1>1, <1>2, <1>3 DEF ArtifactInv, ArtifactTells

LEMMA BeginRenderStep ==
    ASSUME ArtifactInv, RegistryInv, NEW e \in Servers, NEW f \in Servers, BeginRender(<<e, f>>)
    PROVE  ArtifactInv' /\ HeldFits' /\ UNCHANGED <<registry, vault, saves, fetch>>
  <1>1. /\ artifact' = [NoArtifact EXCEPT !.stage = "connector", !.given = <<e, f>>]
        /\ held' = Now(registry, vault) /\ UNCHANGED <<registry, vault, saves, fetch>> /\ fetch.stage = "idle"
    BY DEF BeginRender, Rendering
  <1>2. e \in ServerShape /\ f \in ServerShape
    BY ConnectorsAssumption DEF ServerShape
  <1>3. <<e, f>> \in Seq(ServerShape) /\ Len(<<e, f>>) = 2
    BY <1>2
  <1>4. /\ artifact'.stage = "connector" /\ artifact'.given = <<e, f>> /\ artifact'.next = 1
        /\ artifact'.out = {} /\ artifact'.notes = {}
    BY <1>1 DEF NoArtifact
  <1>5. ArtifactType'
    <2> DEFINE g == <<e, f>>
    <2>1. 1 \in DOMAIN g /\ g \in Seq(ServerShape)
      BY <1>3
    <2>2. artifact' = [stage |-> "connector", given |-> g, next |-> 1, entry |-> Unset, out |-> {}, notes |-> {}]
      BY <1>1 DEF NoArtifact
    <2> HIDE DEF g
    <2>3. artifact' \in [stage : {"idle", "connector", "secret", "done"}, given : Seq(ServerShape), next : Nat,
                         entry : ServerShape \cup {Unset}, out : SUBSET OutShape,
                         notes : SUBSET ({"connector", "disabled", "secret", "dropped"} \X Nat)]
      BY <2>1, <2>2
    <2>4. artifact'.stage = "connector" /\ artifact'.given = g /\ artifact'.next = 1
      BY <2>2
    <2>5. QED BY <1>1, <2>1, <2>3, <2>4 DEF ArtifactType
  <1>6. ArtifactTells'
    BY <1>4 DEF ArtifactTells
  <1>7. HeldFits'
    BY <1>1 DEF HeldFits, Now
  <1>8. QED BY <1>1, <1>5, <1>6, <1>7 DEF ArtifactInv

LEMMA RenderConnectorStep ==
    ASSUME ArtifactInv, RegistryInv, HeldFits, RenderConnector
    PROVE  ArtifactInv' /\ HeldFits' /\ UNCHANGED <<registry, vault, saves, fetch>>
  <1> DEFINE n == artifact.next
             e == artifact.given[n]
             row == IF e.connector = Unset THEN NoConnector ELSE registry[e.connector]
             x == IF row.kind = "mcp" THEN Resolved(e, row) ELSE e
             told == IF e.connector = Unset THEN {}
                     ELSE IF row.kind # "mcp" THEN {<<"connector", n>>}
                     ELSE IF ~row.enabled THEN {<<"disabled", n>>} ELSE {}
  <1>1. /\ UNCHANGED <<registry, vault, saves, fetch>> /\ held' = held /\ artifact.stage = "connector"
        /\ fetch.stage = "idle"
    BY DEF RenderConnector, Rendering, ArtifactInv, ArtifactType
  <1>2. artifact' = [artifact EXCEPT !.stage = "secret", !.entry = x,
                       !.notes = IF e.connector = Unset THEN @
                                 ELSE IF row.kind # "mcp" THEN Note("connector")
                                 ELSE IF ~row.enabled THEN Note("disabled") ELSE @]
    BY DEF RenderConnector, Rendering
  <1>3. n \in DOMAIN artifact.given /\ n \in Nat /\ e \in ServerShape
    BY <1>1 DEF ArtifactInv, ArtifactType
  <1>4. e.connector # Unset => e.connector \in ConnectorNames /\ row = registry[e.connector] /\ row \in RegistryRows
    BY <1>3 DEF ServerShape, RegistryInv
  <1>5. e.connector = Unset => row.kind # "mcp"
    BY ShapesDiffer
  <1>6. e.connector # Unset => row \in RowsHeld(e.connector)
    <2>1. SUFFICES ASSUME e.connector # Unset PROVE row \in RowsHeld(e.connector)
      OBVIOUS
    <2>2. <<e.connector, registry[e.connector]>> \in held
      BY <1>1, <1>4, <2>1, HeldNow DEF HeldFits, Busy
    <2>3. QED BY <1>4, <2>1, <2>2 DEF RowsHeld
  <1>7. row.kind = "mcp" => /\ x \in ServerShape
                            /\ x.url = IF row.url # Unset THEN row.url ELSE e.url
                            /\ e.auth # Unset => x.auth = e.auth
    <2>1. SUFFICES ASSUME row.kind = "mcp"
                   PROVE  /\ Resolved(e, row) \in ServerShape
                          /\ Resolved(e, row).url = IF row.url # Unset THEN row.url ELSE e.url
                          /\ e.auth # Unset => Resolved(e, row).auth = e.auth
      OBVIOUS
    <2>2. row \in RowShape
      BY <1>4, <1>5, <2>1, ShapesDiffer DEF RegistryRows
    <2> HIDE DEF row
    <2>3. QED BY <1>3, <2>2 DEF Resolved, ServerShape, RowShape
  <1>8. row.kind # "mcp" => x = e
    OBVIOUS
  <1>9. x \in ServerShape
    BY <1>3, <1>7, <1>8
  <1>10. /\ artifact'.stage = "secret" /\ artifact'.given = artifact.given /\ artifact'.next = n
         /\ artifact'.entry = x /\ artifact'.out = artifact.out /\ artifact'.notes = artifact.notes \cup told
    BY <1>2 DEF ArtifactInv, ArtifactType, Note
  <1>11. \A t \in told : t[2] = n /\ t[1] \in {"connector", "disabled"} /\ t \in {"connector", "disabled", "secret", "dropped"} \X Nat
    BY <1>3
  <1>12. /\ e.connector # Unset /\ row.kind # "mcp" => <<"connector", n>> \in artifact'.notes
         /\ e.connector # Unset /\ row.kind = "mcp" /\ ~row.enabled => <<"disabled", n>> \in artifact'.notes
    BY <1>10
  <1> HIDE DEF n, row, x, told
  <1>13. ArtifactType'
    <2>1. artifact' = [artifact EXCEPT !.stage = "secret", !.entry = x, !.notes = artifact'.notes]
      BY <1>2, <1>10
    <2>2. artifact'.notes \in SUBSET ({"connector", "disabled", "secret", "dropped"} \X Nat)
      BY <1>10, <1>11 DEF ArtifactInv, ArtifactType
    <2>3. QED BY <1>1, <1>3, <1>9, <1>10, <2>1, <2>2 DEF ArtifactInv, ArtifactType
  <1>14. ASSUME NEW i \in DOMAIN artifact'.given, i < artifact'.next PROVE Accounted(i)'
    <2>1. i \in DOMAIN artifact.given /\ i < n
      BY <1>10, <1>14
    <2>2. Accounted(i)
      BY <2>1 DEF ArtifactInv, ArtifactTells, n
    <2>3. i # n
      BY <1>3, <2>1
    <2>4. \A kind : <<kind, i>> \in artifact'.notes <=> <<kind, i>> \in artifact.notes
      BY <1>10, <1>11, <2>3
    <2>5. {o \in artifact'.out : o.at = i} = {o \in artifact.out : o.at = i}
      BY <1>10
    <2>6. QED BY <1>1, <1>10, <2>2, <2>4, <2>5, AccountedKept
  <1>15. EntryFits'
    <2>1. e' = e /\ n' = n
      BY <1>10 DEF n
    <2>2. RowsHeld(e.connector)' = RowsHeld(e.connector)
      BY <1>1, <2>1 DEF RowsHeld
    <2>3. /\ e.auth # Unset => x.auth = e.auth
          /\ x.url = Unset =>
                e.url = Unset /\ (<<"connector", n>> \in artifact'.notes \/ e.connector = Unset
                                  \/ \E r \in RowsHeld(e.connector) : r.url = Unset)
          /\ \/ e.connector = Unset
             \/ <<"connector", n>> \in artifact'.notes
             \/ \E r \in RowsHeld(e.connector) :
                   r.kind = "mcp" /\ (r.url # Unset => x.url = r.url) /\ (r.enabled \/ <<"disabled", n>> \in artifact'.notes)
      BY <1>5, <1>6, <1>7, <1>8, <1>12
    <2>4. QED BY <1>10, <2>1, <2>2, <2>3 DEF EntryFits, Told, n
  <1>16. ArtifactTells'
    <2>1. \A o \in artifact'.out : o.at < artifact'.next
      BY <1>10 DEF ArtifactInv, ArtifactTells, n
    <2>2. \A t \in artifact.notes : t[2] < n
      BY <1>1 DEF ArtifactInv, ArtifactTells, n
    <2>3. \A t \in artifact'.notes : t[2] < n \/ (t[2] = n /\ t[1] \in {"connector", "disabled"})
      BY <1>10, <1>11, <2>2
    <2>4. QED BY <1>10, <1>14, <1>15, <2>1, <2>3 DEF ArtifactTells
  <1>17. HeldFits'
    BY <1>1 DEF HeldFits, Busy, Now
  <1>18. QED BY <1>1, <1>13, <1>16, <1>17 DEF ArtifactInv

LEMMA RenderSecretStep ==
    ASSUME ArtifactInv, RegistryInv, HeldFits, RenderSecret
    PROVE  ArtifactInv' /\ HeldFits' /\ UNCHANGED <<registry, vault, saves, fetch>>
  <1> DEFINE n == artifact.next
             x == artifact.entry
             e == artifact.given[n]
             reference == x.auth \in SecretNames
             value == IF reference THEN vault[x.auth] ELSE Unset
             missing == IF reference /\ value = Unset THEN {<<"secret", n>>} ELSE {}
             dropped == IF x.url = Unset THEN {<<"dropped", n>>} ELSE {}
             item == [at |-> n, url |-> x.url, auth |-> x.auth, value |-> value]
             gained == IF x.url = Unset THEN {} ELSE {item}
  <1>1. /\ UNCHANGED <<registry, vault, saves, fetch>> /\ held' = held /\ artifact.stage = "secret"
        /\ fetch.stage = "idle"
    BY DEF RenderSecret, Rendering, ArtifactInv, ArtifactType
  <1>2. n \in DOMAIN artifact.given /\ n \in Nat /\ x \in ServerShape
    BY <1>1 DEF ArtifactInv, ArtifactType
  <1>3. /\ artifact'.stage = IF n = Len(artifact.given) THEN "done" ELSE "connector"
        /\ artifact'.next = n + 1 /\ artifact'.given = artifact.given /\ artifact'.entry = Unset
        /\ artifact'.out = artifact.out \cup gained
        /\ artifact'.notes = artifact.notes \cup missing \cup dropped
        /\ artifact' = [artifact EXCEPT !.stage = artifact'.stage, !.next = n + 1, !.entry = Unset,
                                        !.out = artifact'.out, !.notes = artifact'.notes]
    <2> DEFINE notes == IF reference /\ value = Unset THEN Note("secret") ELSE artifact.notes
    <2>1. artifact' = [artifact EXCEPT
                         !.stage = IF n = Len(artifact.given) THEN "done" ELSE "connector",
                         !.next = @ + 1, !.entry = Unset,
                         !.out = IF x.url = Unset THEN @ ELSE @ \cup {item},
                         !.notes = IF x.url = Unset THEN notes \cup Note("dropped") ELSE notes]
      BY DEF RenderSecret, Rendering
    <2>2. notes = artifact.notes \cup missing /\ Note("dropped") = artifact.notes \cup {<<"dropped", n>>}
      BY DEF Note
    <2> HIDE DEF notes, missing, item, reference, value
    <2>3. QED BY <2>1, <2>2 DEF ArtifactInv, ArtifactType
  <1>4. value \in SecretOrNone /\ (reference => value = Unset \/ <<x.auth, value>> \in held)
    <2>1. Now(registry, vault) \subseteq held
      BY <1>1 DEF HeldFits, Busy
    <2>2. QED BY <2>1 DEF Now, RegistryInv, SecretOrNone
  <1>5. /\ \A t \in missing : t[1] = "secret" /\ t[2] = n
        /\ \A t \in dropped : t[1] = "dropped" /\ t[2] = n
        /\ missing \cup dropped \subseteq {"connector", "disabled", "secret", "dropped"} \X Nat
    BY <1>2
  <1>6. \A o \in gained : o = item /\ o \in OutShape /\ o.at = n
    <2>1. item \in OutShape
      BY <1>2, <1>4 DEF OutShape, ServerShape
    <2>2. QED BY <2>1
  <1>7. /\ item.url = x.url /\ item.auth = x.auth /\ item.value = value
        /\ gained = IF x.url = Unset THEN {} ELSE {item}
        /\ x.url = Unset => <<"dropped", n>> \in dropped
        /\ x.url # Unset => dropped = {}
        /\ reference /\ value = Unset => <<"secret", n>> \in missing
    OBVIOUS
  <1>8. /\ \A o \in artifact.out : o.at < n
        /\ \A t \in artifact.notes : t[2] < n \/ (t[2] = n /\ t[1] \in {"connector", "disabled"})
    BY DEF ArtifactInv, ArtifactTells
  <1>9. EntryFits
    BY <1>1 DEF ArtifactInv, ArtifactTells
  <1>10. ArtifactType'
    <2>1. artifact'.out \in SUBSET OutShape
      BY <1>3, <1>6 DEF ArtifactInv, ArtifactType
    <2>2. artifact'.notes \in SUBSET ({"connector", "disabled", "secret", "dropped"} \X Nat)
      BY <1>3, <1>5 DEF ArtifactInv, ArtifactType
    <2>3. artifact.given \in Seq(ServerShape) /\ DOMAIN artifact.given = 1 .. Len(artifact.given)
      BY DEF ArtifactInv, ArtifactType
    <2>4. n + 1 \in Nat /\ (n # Len(artifact.given) => n + 1 \in DOMAIN artifact.given)
      BY <1>2, <2>3
    <2> HIDE DEF n, x, e, value, missing, dropped, item, gained
    <2>5. QED BY <1>1, <1>3, <2>1, <2>2, <2>4 DEF ArtifactInv, ArtifactType
  <1> HIDE DEF missing, dropped, item, gained, value
  <1>11. \A m : m = n => Accounted(m)'
    <2>1. artifact'.given[n] = e
      BY <1>3
    <2>2. {o \in artifact'.out : o.at = n} = gained
      BY <1>2, <1>3, <1>6, <1>8
    <2>3. <<"dropped", n>> \in artifact'.notes <=> x.url = Unset
      BY <1>3, <1>5, <1>7, <1>2, <1>8
    <2>4. /\ <<"connector", n>> \in artifact'.notes <=> <<"connector", n>> \in artifact.notes
          /\ <<"disabled", n>> \in artifact'.notes <=> <<"disabled", n>> \in artifact.notes
      BY <1>3, <1>5
    <2>5. Cardinality(gained) = IF <<"dropped", n>> \in artifact'.notes THEN 0 ELSE 1
      BY <1>7, <2>3, FS_EmptySet, FS_Singleton
    <2> DEFINE rows == RowsHeld(e.connector)
    <2>6. /\ e.auth # Unset => x.auth = e.auth
          /\ x.url = Unset =>
                e.url = Unset /\ (<<"connector", n>> \in artifact.notes \/ e.connector = Unset \/ \E row \in rows : row.url = Unset)
          /\ \/ e.connector = Unset
             \/ <<"connector", n>> \in artifact.notes
             \/ \E row \in rows :
                   row.kind = "mcp" /\ (row.url # Unset => x.url = row.url) /\ (row.enabled \/ <<"disabled", n>> \in artifact.notes)
      BY <1>9 DEF EntryFits, Told
    <2>7. \A o \in gained : o.url = x.url /\ o.auth = x.auth /\ o.value = value /\ x.url # Unset
      BY <1>7
    <2>8. reference => <<"secret", n>> \in artifact'.notes \/ (value # Unset /\ <<x.auth, value>> \in held)
      BY <1>3, <1>4, <1>7
    <2> HIDE DEF rows
    <2>9. \A o \in gained :
             /\ o.url # Unset
             /\ o.auth \in SecretNames => <<"secret", n>> \in artifact'.notes \/ (o.value # Unset /\ <<o.auth, o.value>> \in held)
             /\ e.auth # Unset => o.auth = e.auth
             /\ \/ e.connector = Unset
                \/ <<"connector", n>> \in artifact'.notes
                \/ \E row \in rows :
                      row.kind = "mcp" /\ (row.url # Unset => o.url = row.url) /\ (row.enabled \/ <<"disabled", n>> \in artifact'.notes)
      BY <2>4, <2>6, <2>7, <2>8
    <2>10. <<"dropped", n>> \in artifact'.notes =>
             e.url = Unset /\ (<<"connector", n>> \in artifact'.notes \/ e.connector = Unset \/ \E row \in rows : row.url = Unset)
      BY <2>3, <2>4, <2>6
    <2>11. ASSUME NEW m, NEW d, m = n, d = e PROVE Accounted(m)'
      <3>1. RowsHeld(d.connector)' = rows
        BY <1>1, <2>11 DEF rows, RowsHeld
      <3>2. artifact'.given[m] = d /\ {o \in artifact'.out : o.at = m} = gained
        BY <2>1, <2>2, <2>11
      <3> HIDE DEF n, e, x
      <3>3. \A kind : Told(kind, m)' <=> <<kind, n>> \in artifact'.notes
        BY <2>11 DEF Told
      <3>4. held' = held
        BY <1>1
      <3>5. SUFFICES
              /\ Cardinality(gained) = IF Told("dropped", m)' THEN 0 ELSE 1
              /\ Told("dropped", m)' =>
                    d.url = Unset /\ (Told("connector", m)' \/ d.connector = Unset \/ \E row \in rows : row.url = Unset)
              /\ \A o \in gained :
                   /\ o.url # Unset
                   /\ o.auth \in SecretNames => Told("secret", m)' \/ (o.value # Unset /\ <<o.auth, o.value>> \in held')
                   /\ d.auth # Unset => o.auth = d.auth
                   /\ \/ d.connector = Unset
                      \/ Told("connector", m)'
                      \/ \E row \in rows :
                            row.kind = "mcp" /\ (row.url # Unset => o.url = row.url) /\ (row.enabled \/ Told("disabled", m)')
        BY <3>1, <3>2 DEF Accounted
      <3>6. QED BY <2>5, <2>9, <2>10, <2>11, <3>3, <3>4
    <2>12. QED BY <2>11
  <1>12. ASSUME NEW i \in DOMAIN artifact'.given, i < artifact'.next PROVE Accounted(i)'
    <2>1. CASE i = n
      BY <1>11, <2>1
    <2>2. CASE i # n
      <3>1. artifact.given \in Seq(ServerShape)
        BY DEF ArtifactInv, ArtifactType
      <3>2. i \in DOMAIN artifact.given /\ i < n
        BY <1>2, <1>3, <1>12, <2>2, <3>1
      <3>3. Accounted(i)
        BY <3>2 DEF ArtifactInv, ArtifactTells
      <3>4. \A kind : <<kind, i>> \in artifact'.notes <=> <<kind, i>> \in artifact.notes
        BY <1>3, <1>5, <2>2
      <3>5. {o \in artifact'.out : o.at = i} = {o \in artifact.out : o.at = i}
        BY <1>3, <1>6, <2>2
      <3>6. held \subseteq held' /\ artifact'.given = artifact.given
        BY <1>1, <1>3
      <3>7. QED BY <3>3, <3>4, <3>5, <3>6, AccountedKept
    <2>3. QED BY <2>1, <2>2
  <1>13. ArtifactTells'
    <2>1. \A o \in artifact'.out : o.at < artifact'.next
      <3>1. \A o \in artifact.out : o.at \in Nat
        BY DEF ArtifactInv, ArtifactType, OutShape
      <3>2. QED BY <1>2, <1>3, <1>6, <1>8, <3>1
    <2>2. \A t \in artifact'.notes : t[2] < artifact'.next
      <3>1. \A t \in artifact.notes : t[2] \in Nat
        BY DEF ArtifactInv, ArtifactType
      <3>2. QED BY <1>2, <1>3, <1>5, <1>8, <3>1
    <2>3. artifact'.stage # "secret"
      BY <1>3
    <2>4. QED BY <1>12, <2>1, <2>2, <2>3 DEF ArtifactTells
  <1>14. HeldFits'
    BY <1>1 DEF HeldFits, Busy, Now
  <1>15. QED BY <1>1, <1>10, <1>13, <1>14 DEF ArtifactInv

-----------------------------------------------------------------------------
ConnectorsInv == RegistryInv /\ HeldFits /\ FetchInv /\ ArtifactInv

LEMMA ConnectorsInitOk == ConnectorsInit => ConnectorsInv
  <1> SUFFICES ASSUME ConnectorsInit PROVE ConnectorsInv
    OBVIOUS
  <1>1. RegistryInv
    BY ConnectorsAssumption, ShapesDiffer
       DEF RegistryInv, ConnectorsInit, RegistryRows, SecretOrNone, SecretsStayWithTheirEndpoint
  <1>2. HeldFits
    BY DEF HeldFits, Busy, ConnectorsInit, NoFetch, NoArtifact
  <1>3. FetchInv
    <2>1. /\ fetch.stage = "idle" /\ fetch.sent = <<>> /\ fetch.issued = <<>> /\ fetch.session = 0
          /\ fetch.outcome = Unset
      BY DEF ConnectorsInit, NoFetch
    <2>2. FetchType
      BY ShapesDiffer DEF FetchType, ConnectorsInit, NoFetch, SecretOrNone
    <2>3. FetchReads
      BY <2>1 DEF FetchReads, CallStages
    <2>4. FetchCalls
      <3>1. fetch.with.kind # "mcp"
        BY ShapesDiffer DEF ConnectorsInit, NoFetch
      <3>2. DOMAIN fetch.issued = {}
        BY <2>1
      <3>3. QED BY <2>1, <3>1, <3>2 DEF FetchCalls, ServersSeeOneSession, CallStages
    <2>5. QED BY <2>2, <2>3, <2>4 DEF FetchInv
  <1>4. ArtifactInv
    <2>1. artifact = [stage |-> "idle", given |-> <<>>, next |-> 1, entry |-> Unset, out |-> {}, notes |-> {}]
      BY DEF ConnectorsInit, NoArtifact
    <2>2. ArtifactType
      BY <2>1 DEF ArtifactType, NoArtifact
    <2>3. ArtifactTells
      BY <2>1 DEF ArtifactTells
    <2>4. QED BY <2>2, <2>3 DEF ArtifactInv
  <1>5. QED BY <1>1, <1>2, <1>3, <1>4 DEF ConnectorsInv

LEMMA ConnectorsStep ==
    ASSUME ConnectorsInv, [ConnectorsNext]_connectorVars
    PROVE  ConnectorsInv'
  <1>0. RegistryInv /\ HeldFits /\ FetchInv /\ ArtifactInv
    BY DEF ConnectorsInv
  <1>1. CASE Saving
    <2>1. HeldFits' /\ held \subseteq held' /\ fetch' = fetch /\ artifact' = artifact
      BY <1>0, <1>1, SavingHolds
    <2>2. RegistryInv'
      <3>1. CASE \E r \in Operators, n \in ConnectorNames, x \in Offers : SaveConnector(r, n, x)
        BY <1>0, <3>1, SaveRegistry
      <3>2. CASE \E r \in Operators : CommitConnector(r)
        BY <1>0, <3>2, CommitRegistry
      <3>3. CASE \E n \in ConnectorNames : DeleteConnector(n)
        BY <1>0, <3>3, DeleteRegistry
      <3>4. CASE \E s \in SecretNames, v \in SecretValues \cup {Unset} : PutSecret(s, v)
        BY <1>0, <3>4, PutRegistry DEF SecretOrNone
      <3>5. QED BY <1>1, <3>1, <3>2, <3>3, <3>4 DEF Saving
    <2>3. FetchInv'
      BY <1>0, <2>1, FetchKept
    <2>4. ArtifactInv'
      BY <1>0, <2>1, ArtifactKept DEF ArtifactInv, ArtifactType
    <2>5. QED BY <2>1, <2>2, <2>3, <2>4 DEF ConnectorsInv
  <1>2. CASE \/ \E d \in Dependencies : BeginFetch(d)
             \/ \E n \in ConnectorNames : TestConnector(n)
             \/ ResolveDependency \/ ReadSecret \/ Request \/ Rpc
    <2>1. FetchInv' /\ HeldFits' /\ UNCHANGED <<registry, vault, saves, artifact>>
      BY <1>0, <1>2, FetchStep
    <2>2. RegistryInv'
      BY <1>0, <2>1 DEF RegistryInv, SecretsStayWithTheirEndpoint
    <2>3. artifact.stage = "idle"
      BY <1>0, <1>2
         DEF BeginFetch, TestConnector, ResolveDependency, ReadSecret, Request, Rpc, Following, FetchInv, FetchType
    <2>4. ArtifactInv'
      <3>1. artifact = NoArtifact
        BY <1>0, <2>3 DEF ArtifactInv, ArtifactType
      <3>2. ArtifactType'
        BY <1>0, <2>1, <2>3, <3>1 DEF ArtifactInv, ArtifactType
      <3>3. ArtifactTells'
        BY <2>1, <3>1 DEF ArtifactTells, NoArtifact
      <3>4. QED BY <3>2, <3>3 DEF ArtifactInv
    <2>5. QED BY <2>1, <2>2, <2>4 DEF ConnectorsInv
  <1>3. CASE \E e, f \in Servers : BeginRender(<<e, f>>)
    <2>1. ArtifactInv' /\ HeldFits' /\ UNCHANGED <<registry, vault, saves, fetch>>
      BY <1>0, <1>3, BeginRenderStep
    <2>2. fetch.stage = "idle" /\ fetch.sent = <<>>
      BY <1>0, <1>3 DEF BeginRender, FetchInv, FetchCalls
    <2>3. RegistryInv'
      BY <1>0, <2>1 DEF RegistryInv, SecretsStayWithTheirEndpoint
    <2>4. FetchInv'
      <3>1. FetchType'
        BY <1>0, <2>1, <2>2 DEF FetchInv, FetchType
      <3>2. FetchReads'
        BY <2>1, <2>2 DEF FetchReads, CallStages
      <3>3. FetchCalls'
        BY <1>0, <2>1 DEF FetchInv, FetchCalls, ServersSeeOneSession
      <3>4. QED BY <3>1, <3>2, <3>3 DEF FetchInv
    <2>5. QED BY <2>1, <2>3, <2>4 DEF ConnectorsInv
  <1>4. CASE RenderConnector \/ RenderSecret
    <2>1. ArtifactInv' /\ HeldFits' /\ UNCHANGED <<registry, vault, saves, fetch, held>>
      BY <1>0, <1>4, RenderConnectorStep, RenderSecretStep DEF RenderConnector, RenderSecret
    <2>2. RegistryInv'
      BY <1>0, <2>1 DEF RegistryInv, SecretsStayWithTheirEndpoint
    <2>3. fetch.stage = "idle"
      BY <1>0, <1>4 DEF RenderConnector, RenderSecret, ArtifactInv, ArtifactType
    <2>4. FetchInv'
      BY <1>0, <2>1, <2>3, FetchKept
    <2>5. QED BY <2>1, <2>2, <2>4 DEF ConnectorsInv
  <1>5. CASE UNCHANGED connectorVars
    <2>1. UNCHANGED <<registry, vault, saves, held, fetch, artifact>>
      BY <1>5 DEF connectorVars
    <2>2. RegistryInv' /\ HeldFits'
      BY <1>0, <2>1 DEF RegistryInv, SecretsStayWithTheirEndpoint, HeldFits, Busy, Now
    <2>3. FetchInv'
      BY <1>0, <2>1, FetchKept
    <2>4. ArtifactInv'
      BY <1>0, <2>1, ArtifactKept DEF ArtifactInv, ArtifactType
    <2>5. QED BY <2>2, <2>3, <2>4 DEF ConnectorsInv
  <1>6. QED BY <1>1, <1>2, <1>3, <1>4, <1>5 DEF ConnectorsNext

(***************************************************************************)
(* However connectors and secrets are edited, disabled and deleted under a *)
(* fetch or a rendering, a call carries the secret of the row its url came *)
(* from, a server is spoken to in the session it issued, and every entry   *)
(* of an artifact is in it or has its note (connectors.py,                 *)
(* fetchers/http.py, fetchers/mcp.py, api/connectors.py).                  *)
(***************************************************************************)
THEOREM ConnectorsHold == ConnectorsSpec => []ConnectorsAreFaithful
  <1>1. ConnectorsInv => CallsCarryTheirCredential
    <2> SUFFICES ASSUME FetchReads PROVE CallsCarryTheirCredential
      BY DEF ConnectorsInv, FetchInv
    <2>1. SUFFICES ASSUME NEW i \in DOMAIN fetch.sent
                   PROVE  \E row \in RowsUsable :
                             LET secret == Inherited(fetch.dep.secret, row.secret) IN
                             /\ fetch.sent[i].url = Inherited(fetch.dep.url, row.url) /\ fetch.sent[i].url # Unset
                             /\ IF secret = Unset THEN fetch.sent[i].credential = Unset
                                ELSE fetch.sent[i].credential # Unset /\ <<secret, fetch.sent[i].credential>> \in held
      BY DEF CallsCarryTheirCredential
    <2>2. fetch.sent # <<>>
      BY <2>1
    <2>3. QED BY <2>1, <2>2 DEF FetchReads
  <1>2. ConnectorsInv => RenderingAccountsForEntries
    <2> SUFFICES ASSUME ArtifactInv, artifact.stage = "done", NEW i \in DOMAIN artifact.given PROVE Accounted(i)
      BY DEF ConnectorsInv, RenderingAccountsForEntries
    <2>1. i < artifact.next
      BY DEF ArtifactInv, ArtifactType
    <2>2. QED BY <2>1 DEF ArtifactInv, ArtifactTells
  <1>3. ConnectorsInv => ConnectorsAreFaithful
    BY <1>1, <1>2 DEF ConnectorsInv, RegistryInv, FetchInv, FetchCalls, ConnectorsAreFaithful
  <1>4. ConnectorsInv /\ [ConnectorsNext]_connectorVars => ConnectorsInv'
    BY ConnectorsStep
  <1>5. QED BY <1>3, <1>4, ConnectorsInitOk, PTL DEF ConnectorsSpec

-----------------------------------------------------------------------------
(***************************************************************************)
(* The turn, for any items, drafts, bounds and rankings.                   *)
(*                                                                         *)
(* TurnFits says at which stages and in which modes a turn can hold picks  *)
(* or a draft at all; PoolFits that the newest draft is one of an id.      *)
(***************************************************************************)

PoolFits ==
    /\ put \in Nat
    /\ \A x \in pool : x.id \in 1 .. put
    /\ \A x, y \in pool : x.id = y.id => x = y

\* A record with the fields of a turn.
WholeTurn(t) ==
    [stage |-> t.stage, mode |-> t.mode, at |-> t.at, query |-> t.query, seen |-> t.seen, picks |-> t.picks,
     draft |-> t.draft, asOf |-> t.asOf, late |-> t.late, data |-> t.data, prompt |-> t.prompt, block |-> t.block]

TurnFits ==
    /\ turn = WholeTurn(turn)
    /\ turn.stage \in {"none", "embed", "draft", "consume", "plan", "over"}
    /\ turn.mode \in Modes
    /\ turn.stage \in {"none", "embed"} => turn.picks = {}
    /\ turn.stage \in {"none", "embed", "draft"} => turn.draft = 0
    /\ turn.stage = "embed" => turn.mode # "sop"
    /\ turn.stage = "draft" => turn.mode \in {"both", "advisory"}
    /\ turn.mode = "sop" => turn.picks = {}
    /\ turn.mode \in {"sop", "retrieval"} => turn.draft = 0
    /\ turn.data \in BOOLEAN
    /\ turn.draft \in 0 .. put /\ turn.asOf \in 0 .. put

SelectionInv == PoolFits /\ TurnFits /\ TurnsAreServedAsPlanned

-----------------------------------------------------------------------------
LEMMA PromptOf ==
    ASSUME turn.data \in BOOLEAN, NEW context \in BOOLEAN
    PROVE  /\ StagePrompt(context) # <<>> /\ StagePrompt(context) # <<"draft">>
           /\ Contains(StagePrompt(context), "context") => context
           /\ context => Last(StagePrompt(context)) = "context"
  <1> DEFINE p == StagePrompt(context)
  <1>1. CASE turn.data /\ context
    <2>1. Part("data", turn.data) = <<"data">> /\ Part("context", context) = <<"context">>
      BY <1>1 DEF Part
    <2>2. p = ((<<"stage">> \o <<"data">>) \o <<"instructions">>) \o <<"context">>
      BY <2>1 DEF StagePrompt
    <2>3. Len(p) = 4 /\ p[1] = "stage" /\ p[4] = "context"
      BY <2>2
    <2> HIDE DEF p
    <2>4. p # <<>> /\ p # <<"draft">>
      BY <2>3
    <2>5. QED BY <1>1, <2>3, <2>4 DEF Last, p
  <1>2. CASE ~turn.data /\ context
    <2>1. Part("data", turn.data) = <<>> /\ Part("context", context) = <<"context">>
      BY <1>2 DEF Part
    <2>2. p = ((<<"stage">> \o <<>>) \o <<"instructions">>) \o <<"context">>
      BY <2>1 DEF StagePrompt
    <2>3. Len(p) = 3 /\ p[1] = "stage" /\ p[3] = "context"
      BY <2>2
    <2> HIDE DEF p
    <2>4. p # <<>> /\ p # <<"draft">>
      BY <2>3
    <2>5. QED BY <1>2, <2>3, <2>4 DEF Last, p
  <1>3. CASE turn.data /\ ~context
    <2>1. Part("data", turn.data) = <<"data">> /\ Part("context", context) = <<>>
      BY <1>3 DEF Part
    <2>2. p = ((<<"stage">> \o <<"data">>) \o <<"instructions">>) \o <<>>
      BY <2>1 DEF StagePrompt
    <2>3. Len(p) = 3 /\ p[1] = "stage" /\ p[2] = "data" /\ p[3] = "instructions"
      BY <2>2
    <2> HIDE DEF p
    <2>4. p # <<>> /\ p # <<"draft">>
      BY <2>3
    <2>5. ~Contains(p, "context")
      BY <2>3 DEF Contains
    <2>6. QED BY <1>3, <2>4, <2>5 DEF p
  <1>4. CASE ~turn.data /\ ~context
    <2>1. Part("data", turn.data) = <<>> /\ Part("context", context) = <<>>
      BY <1>4 DEF Part
    <2>2. p = ((<<"stage">> \o <<>>) \o <<"instructions">>) \o <<>>
      BY <2>1 DEF StagePrompt
    <2>3. Len(p) = 2 /\ p[1] = "stage" /\ p[2] = "instructions"
      BY <2>2
    <2> HIDE DEF p
    <2>4. p # <<>> /\ p # <<"draft">>
      BY <2>3
    <2>5. ~Contains(p, "context")
      BY <2>3 DEF Contains
    <2>6. QED BY <1>4, <2>4, <2>5 DEF p
  <1>5. QED BY <1>1, <1>2, <1>3, <1>4

\* The turn keeps what it has read while the pool changes.
LEMMA PutStep ==
    ASSUME SelectionInv, Put
    PROVE  SelectionInv'
  <1>1. PICK item \in {Datum(x) : x \in DataShapes} \cup {Reply(x) : x \in Drafts} : pool' = pool \cup {item}
    BY DEF Put
  <1>2. item.id = put + 1
    <2>1. CASE item \in {Datum(x) : x \in DataShapes}
      <3>1. PICK x \in DataShapes : item = Datum(x)
        BY <2>1
      <3>2. QED BY <3>1 DEF Datum
    <2>2. CASE item \in {Reply(x) : x \in Drafts}
      <3>1. PICK x \in Drafts : item = Reply(x)
        BY <2>2
      <3>2. QED BY <3>1 DEF Reply
    <2>3. QED BY <1>1, <2>1, <2>2
  <1>3. put' = put + 1 /\ Late /\ put \in Nat
    BY DEF Put, SelectionInv, PoolFits
  <1>4. /\ turn'.stage = turn.stage /\ turn'.mode = turn.mode /\ turn'.at = turn.at /\ turn'.picks = turn.picks
        /\ turn'.draft = turn.draft /\ turn'.asOf = turn.asOf /\ turn'.data = turn.data /\ turn'.prompt = turn.prompt
        /\ turn'.block = turn.block
        /\ turn' = WholeTurn(turn')
    BY <1>3 DEF Late, SelectionInv, TurnFits, WholeTurn
  <1>5. PoolFits'
    BY <1>1, <1>2, <1>3 DEF SelectionInv, PoolFits
  <1>6. TurnFits'
    BY <1>3, <1>4 DEF SelectionInv, TurnFits
  <1>7. ModesAreKept'
    BY <1>4 DEF SelectionInv, TurnsAreServedAsPlanned, ModesAreKept
  <1>8. DraftsServeTheirTurn'
    <2>1. SUFFICES ASSUME turn.stage = "consume", turn.draft # 0
                   PROVE  /\ turn.at.state # ""
                          /\ \A x \in pool' : x.id = turn.draft => x.kind = "instruction" /\ x.at = turn.at
                          /\ \A x \in pool' : x.kind = "instruction" /\ x.at = turn.at
                                                 => x.id <= turn.draft \/ x.id > turn.asOf
      BY <1>4 DEF DraftsServeTheirTurn
    <2>2. /\ turn.at.state # ""
          /\ \A x \in pool : x.id = turn.draft => x.kind = "instruction" /\ x.at = turn.at
          /\ \A x \in pool : x.kind = "instruction" /\ x.at = turn.at => x.id <= turn.draft \/ x.id > turn.asOf
      BY <2>1 DEF SelectionInv, TurnsAreServedAsPlanned, DraftsServeTheirTurn
    <2>3. turn.draft \in 0 .. put /\ turn.asOf \in 0 .. put
      BY DEF SelectionInv, TurnFits
    <2>4. item.id > turn.asOf /\ item.id # turn.draft
      BY <1>2, <1>3, <2>3
    <2>5. QED BY <1>1, <2>2, <2>4
  <1>9. QED BY <1>5, <1>6, <1>7, <1>8 DEF SelectionInv, TurnsAreServedAsPlanned

LEMMA ExpireStep ==
    ASSUME SelectionInv, Expire
    PROVE  SelectionInv'
  <1>1. pool' \subseteq pool /\ put' = put /\ Late
    BY DEF Expire
  <1>2. /\ turn'.stage = turn.stage /\ turn'.mode = turn.mode /\ turn'.at = turn.at /\ turn'.picks = turn.picks
        /\ turn'.draft = turn.draft /\ turn'.asOf = turn.asOf /\ turn'.data = turn.data /\ turn'.prompt = turn.prompt
        /\ turn'.block = turn.block
        /\ turn' = WholeTurn(turn')
    BY <1>1 DEF Late, SelectionInv, TurnFits, WholeTurn
  <1>3. PoolFits' /\ TurnFits'
    BY <1>1, <1>2 DEF SelectionInv, PoolFits, TurnFits
  <1>4. ModesAreKept'
    BY <1>2 DEF SelectionInv, TurnsAreServedAsPlanned, ModesAreKept
  <1>5. DraftsServeTheirTurn'
    BY <1>1, <1>2 DEF SelectionInv, TurnsAreServedAsPlanned, DraftsServeTheirTurn
  <1>6. QED BY <1>3, <1>4, <1>5 DEF SelectionInv, TurnsAreServedAsPlanned

LEMMA LookupStep ==
    ASSUME SelectionInv, LookupInstruction
    PROVE  SelectionInv'
  <1> DEFINE x == CHOOSE x \in Matching : \A y \in Matching : y.id <= x.id
             d == IF Matching = {} THEN 0 ELSE x.id
  <1>1. /\ turn.stage = "draft" /\ UNCHANGED <<pool, put>>
        /\ turn' = [turn EXCEPT !.stage = "consume", !.asOf = put, !.draft = d]
    BY DEF LookupInstruction
  <1>2. Matching # {} => x \in Matching /\ \A y \in Matching : y.id <= x.id
    <2> SUFFICES ASSUME Matching # {} PROVE x \in Matching /\ \A y \in Matching : y.id <= x.id
      OBVIOUS
    <2> DEFINE I == {y.id : y \in Matching}
    <2>1. I \in SUBSET (1 .. put) /\ I # {} /\ put \in Nat
      BY DEF Matching, SelectionInv, PoolFits
    <2>2. PICK i \in I : \A j \in I : j <= i
      BY <2>1, GreatestIndex
    <2>3. PICK y \in Matching : y.id = i
      OBVIOUS
    <2>4. \A z \in Matching : z.id <= y.id
      BY <2>2, <2>3
    <2>5. QED BY <2>4
  <1> HIDE DEF x
  <1>3. Matching # {} => x \in pool /\ x.kind = "instruction" /\ x.at = turn.at /\ turn.at.state # ""
    BY <1>2 DEF Matching
  <1>4. d \in 0 .. put /\ put \in Nat
    <2>1. put \in Nat /\ \A y \in pool : y.id \in 1 .. put
      BY DEF SelectionInv, PoolFits
    <2>2. Matching # {} => x.id \in 1 .. put
      BY <1>3, <2>1
    <2>3. CASE Matching = {}
      BY <2>1, <2>3
    <2>4. CASE Matching # {}
      BY <2>1, <2>2, <2>4
    <2>5. QED BY <2>3, <2>4
  <1>5. d # 0 => Matching # {} /\ d = x.id
    OBVIOUS
  <1> HIDE DEF d
  <1>6. /\ turn'.stage = "consume" /\ turn'.mode = turn.mode /\ turn'.at = turn.at /\ turn'.picks = turn.picks
        /\ turn'.draft = d /\ turn'.asOf = put /\ turn'.data = turn.data
        /\ turn' = WholeTurn(turn')
    BY <1>1 DEF SelectionInv, TurnFits, WholeTurn
  <1>7. PoolFits'
    BY <1>1 DEF SelectionInv, PoolFits
  <1>8. TurnFits'
    BY <1>1, <1>4, <1>6 DEF SelectionInv, TurnFits
  <1>9. DraftsServeTheirTurn'
    <2>0. pool' = pool
      BY <1>1
    <2>1. SUFFICES ASSUME d # 0
                   PROVE  /\ turn.at.state # ""
                          /\ \A y \in pool : y.id = d => y.kind = "instruction" /\ y.at = turn.at
                          /\ \A y \in pool : y.kind = "instruction" /\ y.at = turn.at => y.id <= d \/ y.id > put
      BY <2>0, <1>6 DEF DraftsServeTheirTurn
    <2>2. x \in pool /\ x.kind = "instruction" /\ x.at = turn.at /\ turn.at.state # "" /\ d = x.id
      BY <1>3, <1>5, <2>1
    <2>3. \A y \in pool : y.id = d => y = x
      BY <2>2 DEF SelectionInv, PoolFits
    <2>4. \A y \in pool : y.kind = "instruction" /\ y.at = turn.at => y \in Matching
      BY <2>2 DEF Matching
    <2>5. QED BY <1>2, <1>5, <2>1, <2>2, <2>3, <2>4
  <1>10. ModesAreKept'
    BY <1>6 DEF ModesAreKept
  <1>11. QED BY <1>7, <1>8, <1>9, <1>10 DEF SelectionInv, TurnsAreServedAsPlanned

LEMMA BuildStep ==
    ASSUME SelectionInv, BuildPlan
    PROVE  SelectionInv'
  <1> DEFINE context == turn.mode \in {"retrieval", "both"} /\ turn.picks # {}
             prompt == CASE turn.mode \notin {"sop", "both"} -> <<>>
                         [] turn.mode = "both" /\ turn.draft # 0 -> <<"draft">>
                         [] OTHER -> StagePrompt(context)
  <1>1. /\ turn.stage = "plan" /\ UNCHANGED <<pool, put>>
        /\ turn' = [turn EXCEPT !.stage = "over", !.block = context, !.prompt = prompt]
    BY DEF BuildPlan
  <1>2. /\ StagePrompt(context) # <<>> /\ StagePrompt(context) # <<"draft">>
        /\ Contains(StagePrompt(context), "context") => context
        /\ context => Last(StagePrompt(context)) = "context"
    <2>1. turn.data \in BOOLEAN /\ context \in BOOLEAN
      BY DEF SelectionInv, TurnFits
    <2> HIDE DEF context
    <2>2. QED BY <2>1, PromptOf
  <1>3. ~Contains(<<>>, "context") /\ ~Contains(<<"draft">>, "context")
    BY DEF Contains
  <1>4. /\ turn.mode \notin {"sop", "both"} => prompt = <<>>
        /\ turn.mode = "both" /\ turn.draft # 0 => prompt = <<"draft">>
        /\ turn.mode = "sop" \/ (turn.mode = "both" /\ turn.draft = 0) => prompt = StagePrompt(context)
    OBVIOUS
  <1>5. context => turn.picks # {} /\ turn.mode \in {"retrieval", "both"}
    OBVIOUS
  <1> HIDE DEF context, prompt
  <1>6. /\ turn'.stage = "over" /\ turn'.mode = turn.mode /\ turn'.at = turn.at /\ turn'.picks = turn.picks
        /\ turn'.draft = turn.draft /\ turn'.asOf = turn.asOf /\ turn'.data = turn.data /\ turn'.prompt = prompt
        /\ turn'.block = context
        /\ turn' = WholeTurn(turn')
    BY <1>1 DEF SelectionInv, TurnFits, WholeTurn
  <1>7. PoolFits' /\ TurnFits'
    BY <1>1, <1>6 DEF SelectionInv, PoolFits, TurnFits
  <1>8. DraftsServeTheirTurn'
    BY <1>6 DEF DraftsServeTheirTurn
  <1>9. ModesAreKept'
    <2>1. /\ turn.mode = "sop" => turn.picks = {} /\ turn.draft = 0
          /\ turn.mode = "retrieval" => turn.draft = 0
          /\ turn.mode \in Modes
      BY DEF SelectionInv, TurnFits
    <2>2. <<"draft">> # <<>>
      OBVIOUS
    <2>3. QED BY <1>2, <1>3, <1>4, <1>5, <1>6, <2>1, <2>2 DEF ModesAreKept, Modes
  <1>10. QED BY <1>7, <1>8, <1>9 DEF SelectionInv, TurnsAreServedAsPlanned

LEMMA BeginStep ==
    ASSUME SelectionInv, NEW mode \in Modes, NEW action, NEW state, BeginTurn(mode, action, state)
    PROVE  SelectionInv'
  <1>1. /\ turn'.stage = IF mode = "sop" THEN "consume" ELSE "embed"
        /\ turn'.mode = mode /\ turn'.picks = {} /\ turn'.draft = 0 /\ turn'.asOf = 0 /\ turn'.data = FALSE
        /\ turn' = WholeTurn(turn')
        /\ UNCHANGED <<pool, put>>
    BY DEF BeginTurn, Blank, WholeTurn
  <1>2. PoolFits' /\ TurnFits'
    <2>1. PoolFits'
      BY <1>1 DEF SelectionInv, PoolFits
    <2>2. put' \in Nat /\ mode \in Modes
      BY <1>1 DEF SelectionInv, PoolFits
    <2>3. turn'.stage \in {"consume", "embed"} /\ (turn'.stage = "embed" => mode # "sop")
      BY <1>1
    <2>4. turn'.draft \in 0 .. put' /\ turn'.asOf \in 0 .. put' /\ turn'.data \in BOOLEAN
      <3>1. turn'.draft = 0 /\ turn'.asOf = 0 /\ turn'.data = FALSE
        BY <1>1
      <3>2. put \in Nat /\ put' = put
        BY <1>1 DEF SelectionInv, PoolFits
      <3>3. 0 \in 0 .. put
        BY <3>2
      <3>4. QED BY <3>1, <3>2, <3>3
    <2>5. TurnFits'
      BY <1>1, <2>2, <2>3, <2>4 DEF TurnFits
    <2>6. QED BY <2>1, <2>5
  <1>3. QED BY <1>1, <1>2 DEF SelectionInv, TurnsAreServedAsPlanned, ModesAreKept, DraftsServeTheirTurn

LEMMA SelectionStep ==
    ASSUME SelectionInv, [SelectionNext]_selectionVars
    PROVE  SelectionInv'
  <1>1. CASE \E mode \in Modes, action \in {x.action : x \in Drafts}, state \in {x.state : x \in Drafts} \cup {""} :
                BeginTurn(mode, action, state)
    <2>1. PICK mode \in Modes, action \in {x.action : x \in Drafts}, state \in {x.state : x \in Drafts} \cup {""} :
                BeginTurn(mode, action, state)
      BY <1>1
    <2>2. QED BY <2>1, BeginStep
  <1>2. CASE Embed
    <2>1. PICK query \in Queries \cup {NoEmb} :
             turn' = [turn EXCEPT !.query = query, !.picks = Rerank(turn.seen, query),
                                  !.stage = IF SopEnabled THEN "draft" ELSE "consume"]
      BY <1>2 DEF Embed
    <2>2. turn.stage = "embed" /\ UNCHANGED <<pool, put>>
      BY <1>2 DEF Embed
    <2>3. /\ turn'.stage = (IF SopEnabled THEN "draft" ELSE "consume")
          /\ turn'.mode = turn.mode /\ turn'.draft = turn.draft /\ turn'.asOf = turn.asOf /\ turn'.data = turn.data
          /\ turn' = WholeTurn(turn')
      BY <2>1 DEF SelectionInv, TurnFits, WholeTurn
    <2>4. PoolFits' /\ TurnFits' /\ turn'.draft = 0
      BY <2>2, <2>3 DEF SelectionInv, PoolFits, TurnFits, Modes, SopEnabled
    <2>5. QED BY <2>3, <2>4 DEF SelectionInv, TurnsAreServedAsPlanned, ModesAreKept, DraftsServeTheirTurn
  <1>3. CASE Consume
    <2>1. PICK data \in BOOLEAN :
             turn' = [turn EXCEPT !.stage = "plan", !.data = data, !.seen = {}, !.query = NoEmb, !.asOf = 0]
      BY <1>3 DEF Consume
    <2>2. turn.stage = "consume" /\ UNCHANGED <<pool, put>>
      BY <1>3 DEF Consume
    <2>3. /\ turn'.stage = "plan" /\ turn'.mode = turn.mode /\ turn'.draft = turn.draft /\ turn'.asOf = 0
          /\ turn'.data = data /\ turn'.picks = turn.picks
          /\ turn' = WholeTurn(turn')
      BY <2>1 DEF SelectionInv, TurnFits, WholeTurn
    <2>4. PoolFits' /\ TurnFits'
      BY <2>2, <2>3 DEF SelectionInv, PoolFits, TurnFits
    <2>5. QED BY <2>3, <2>4 DEF SelectionInv, TurnsAreServedAsPlanned, ModesAreKept, DraftsServeTheirTurn
  <1>4. CASE UNCHANGED selectionVars
    BY <1>4 DEF selectionVars, SelectionInv, PoolFits, TurnFits, TurnsAreServedAsPlanned, ModesAreKept, DraftsServeTheirTurn
  <1>5. QED
    BY <1>1, <1>2, <1>3, <1>4, PutStep, ExpireStep, LookupStep, BuildStep DEF SelectionNext

LEMMA SelectionInitOk == SelectionInit => SelectionInv
  BY DEF SelectionInit, SelectionInv, PoolFits, TurnFits, TurnsAreServedAsPlanned, ModesAreKept, DraftsServeTheirTurn,
         Blank, Modes, WholeTurn

(***************************************************************************)
(* Whatever is put into the pool or expires between the reads of a turn,   *)
(* the turn serves what its mode allows, and a draft only if it was made   *)
(* for this action and state, the newest of those (runtime.py plan_turn,   *)
(* build_plan; pool.py lookup_instruction).                                *)
(***************************************************************************)
THEOREM TurnsServed == SelectionSpec => []TurnsAreServedAsPlanned
  <1>1. SelectionInv => TurnsAreServedAsPlanned
    BY DEF SelectionInv
  <1>2. SelectionInv /\ [SelectionNext]_selectionVars => SelectionInv'
    BY SelectionStep
  <1>3. QED BY <1>1, <1>2, SelectionInitOk, PTL DEF SelectionSpec

-----------------------------------------------------------------------------
(***************************************************************************)
(* Induction, over a set of numbers.                                       *)
(***************************************************************************)
LEMMA Induct ==
    ASSUME NEW S \in SUBSET Nat, 0 \in S, \A n \in S : n + 1 \in S
    PROVE  S = Nat
  <1> DEFINE T == Nat \ S
  <1>1. SUFFICES ASSUME T # {} PROVE FALSE
    OBVIOUS
  <1>2. PICK t \in T : \A u \in T : <<u, t>> \notin OpToRel(<, Nat)
    BY <1>1, NatLessThanWellFounded, WFMin, Zenon
  <1>3. t # 0 /\ t - 1 \in Nat
    OBVIOUS
  <1>4. t - 1 \notin T
    <2>1. <<t - 1, t>> \in OpToRel(<, Nat)
      BY <1>3 DEF OpToRel
    <2>2. QED BY <1>2, <2>1
  <1>5. t - 1 + 1 \in S
    BY <1>3, <1>4
  <1>6. QED BY <1>3, <1>5

-----------------------------------------------------------------------------
(***************************************************************************)
(* The order of the candidates.  Items of a pool differ in their ids, so   *)
(* one of two is ahead.                                                    *)
(***************************************************************************)
Item(p) == p.id \in Nat /\ p.emb \in Nat \cup {NoEmb}
Orderly(C, query) ==
    /\ IsFiniteSet(C) /\ query \in Nat \cup {NoEmb}
    /\ \A p \in C : Item(p)
    /\ \A p, q \in C : p.id = q.id => p = q

LEMMA AheadOrders ==
    ASSUME NEW C, NEW query, Orderly(C, query)
    PROVE  /\ \A p, q \in C : p # q => Ahead(p, q, query) \/ Ahead(q, p, query)
           /\ \A p, q \in C : Ahead(p, q, query) => p # q /\ ~Ahead(q, p, query)
           /\ \A p, q, r \in C : Ahead(p, q, query) /\ Ahead(q, r, query) => Ahead(p, r, query)
  <1> DEFINE d(p) == Distance(p.emb, query)
             k(p) == Ranks(p, query)
  <1>1. \A p \in C : p.id \in Nat /\ (k(p) => d(p) \in Nat)
    <2> TAKE p \in C
    <2>1. p.id \in Nat /\ p.emb \in Nat \cup {NoEmb} /\ query \in Nat \cup {NoEmb}
      BY DEF Orderly, Item
    <2>2. k(p) => p.emb \in Nat /\ query \in Nat
      BY <2>1 DEF Ranks
    <2>3. QED BY <2>1, <2>2 DEF Distance
  <1>2. \A p, q \in C : p # q => p.id # q.id
    BY DEF Orderly
  <1>3. \A p, q \in C : Ahead(p, q, query) <=>
           \/ k(p) /\ ~k(q)
           \/ k(p) /\ k(q) /\ d(p) < d(q)
           \/ (k(p) <=> k(q)) /\ (k(p) => d(p) = d(q)) /\ p.id > q.id
    BY DEF Ahead
  <1>4. \A p \in C : k(p) \in BOOLEAN
    BY DEF Ranks
  <1> HIDE DEF d, k
  <1>5. \A p, q \in C : p # q => Ahead(p, q, query) \/ Ahead(q, p, query)
    BY <1>1, <1>2, <1>3, <1>4
  <1>6. \A p, q \in C : Ahead(p, q, query) => p # q /\ ~Ahead(q, p, query)
    BY <1>1, <1>3, <1>4
  <1>7. ASSUME NEW p \in C, NEW q \in C, NEW r \in C, Ahead(p, q, query), Ahead(q, r, query)
        PROVE  Ahead(p, r, query)
    BY <1>1, <1>3, <1>4, <1>7
  <1>8. QED BY <1>5, <1>6, <1>7

LEMMA HindmostIs ==
    ASSUME NEW C, NEW query, Orderly(C, query), NEW S \in SUBSET C, S # {}
    PROVE  /\ Hindmost(S, query) \in S
           /\ \A q \in S \ {Hindmost(S, query)} : Ahead(q, Hindmost(S, query), query)
  <1> DEFINE Has(T) == \E p \in T : \A q \in T \ {p} : Ahead(q, p, query)
             N == {n \in Nat : \A T \in SUBSET C : T # {} /\ Cardinality(T) <= n => Has(T)}
  <1>0. \A T \in SUBSET C : IsFiniteSet(T) /\ Cardinality(T) \in Nat
    BY FS_Subset, FS_CardinalityType DEF Orderly
  <1>1. 0 \in N
    <2>1. \A T \in SUBSET C : Cardinality(T) <= 0 => T = {}
      BY <1>0, FS_EmptySet
    <2>2. QED BY <2>1
  <1>2. ASSUME NEW n \in N PROVE n + 1 \in N
    <2>1. ASSUME NEW T \in SUBSET C, T # {}, Cardinality(T) <= n + 1 PROVE Has(T)
      <3>1. PICK x \in T : TRUE
        BY <2>1
      <3> DEFINE R == T \ {x}
      <3>2. R \in SUBSET C /\ Cardinality(R) = Cardinality(T) - 1 /\ Cardinality(T) \in Nat
        BY <1>0, <3>1, FS_RemoveElement
      <3>3. CASE R = {}
        BY <3>1, <3>3
      <3>4. CASE R # {}
        <4>1. Cardinality(R) <= n
          BY <2>1, <3>2
        <4>2. PICK p \in R : \A q \in R \ {p} : Ahead(q, p, query)
          BY <3>2, <3>4, <4>1
        <4>3. x \in C /\ p \in C /\ p # x /\ \A q \in T : q \in C
          BY <3>1
        <4>4. CASE Ahead(p, x, query)
          <5>1. \A q \in R : Ahead(q, x, query)
            BY <4>2, <4>3, <4>4, AheadOrders
          <5>2. QED BY <3>1, <5>1
        <4>5. CASE Ahead(x, p, query)
          BY <4>2, <4>5
        <4>6. QED BY <4>3, <4>4, <4>5, AheadOrders
      <3>5. QED BY <3>3, <3>4
    <2>2. QED BY <2>1
  <1> HIDE DEF N
  <1>3. N = Nat
    <2>1. N \in SUBSET Nat
      BY DEF N
    <2>2. QED BY <1>1, <1>2, <2>1, Induct
  <1>4. Has(S)
    <2>1. Cardinality(S) \in N
      BY <1>0, <1>3
    <2>2. Cardinality(S) <= Cardinality(S)
      BY <1>0
    <2>3. QED BY <2>1, <2>2 DEF N
  <1>5. QED BY <1>4 DEF Hindmost

-----------------------------------------------------------------------------
(***************************************************************************)
(* The loop over the candidates, as a function of those it has looked at.  *)
(***************************************************************************)
Taking(f, S, query) ==
    IF S = {} THEN {}
    ELSE IF Cardinality(f[S \ {Hindmost(S, query)}]) = MaxPicks \/ Repeats(f[S \ {Hindmost(S, query)}], Hindmost(S, query))
         THEN f[S \ {Hindmost(S, query)}]
         ELSE f[S \ {Hindmost(S, query)}] \cup {Hindmost(S, query)}
Smaller(C, n) == {S \in SUBSET C : Cardinality(S) < n}
IsTaking(f, C, n, query) == f = [S \in Smaller(C, n) |-> f[S]] /\ \A S \in Smaller(C, n) : f[S] = Taking(f, S, query)

LEMMA BeforeIsSmaller ==
    ASSUME NEW C, NEW query, Orderly(C, query), NEW S \in SUBSET C
    PROVE  /\ Cardinality(S) \in Nat
           /\ S # {} => S \ {Hindmost(S, query)} \in Smaller(C, Cardinality(S))
  <1>1. IsFiniteSet(S) /\ Cardinality(S) \in Nat
    BY FS_Subset, FS_CardinalityType DEF Orderly
  <1>2. ASSUME S # {} PROVE S \ {Hindmost(S, query)} \in Smaller(C, Cardinality(S))
    <2>1. Hindmost(S, query) \in S
      BY <1>2, HindmostIs
    <2>2. Cardinality(S \ {Hindmost(S, query)}) = Cardinality(S) - 1
      BY <1>1, <2>1, FS_RemoveElement
    <2>3. QED BY <1>1, <2>2 DEF Smaller
  <1>3. QED BY <1>1, <1>2

LEMMA TakingsAgree ==
    ASSUME NEW C, NEW query, Orderly(C, query), NEW S \in SUBSET C, NEW f, NEW g,
           \A T \in Smaller(C, Cardinality(S)) : f[T] = g[T]
    PROVE  Taking(f, S, query) = Taking(g, S, query)
  <1>1. CASE S = {}
    BY <1>1 DEF Taking
  <1>2. CASE S # {}
    <2>1. f[S \ {Hindmost(S, query)}] = g[S \ {Hindmost(S, query)}]
      BY <1>2, BeforeIsSmaller
    <2>2. QED BY <2>1 DEF Taking
  <1>3. QED BY <1>1, <1>2

LEMMA TakingExists ==
    ASSUME NEW C, NEW query, Orderly(C, query)
    PROVE  \A n \in Nat : \E f : IsTaking(f, C, n, query)
  <1> DEFINE N == {n \in Nat : \E f : IsTaking(f, C, n, query)}
  <1>0. \A S \in SUBSET C : Cardinality(S) \in Nat
    BY BeforeIsSmaller
  <1>1. 0 \in N
    <2> DEFINE f == [S \in Smaller(C, 0) |-> {}]
    <2>1. Smaller(C, 0) = {}
      BY <1>0 DEF Smaller
    <2>2. IsTaking(f, C, 0, query)
      BY <2>1 DEF IsTaking
    <2>3. QED BY <2>2
  <1>2. ASSUME NEW n \in N PROVE n + 1 \in N
    <2>1. PICK f : IsTaking(f, C, n, query)
      OBVIOUS
    <2> DEFINE h == [S \in Smaller(C, n + 1) |-> Taking(f, S, query)]
    <2>2. \A S \in Smaller(C, n) : S \in Smaller(C, n + 1) /\ h[S] = f[S]
      BY <1>0, <2>1 DEF Smaller, IsTaking
    <2>3. ASSUME NEW S \in Smaller(C, n + 1) PROVE h[S] = Taking(h, S, query)
      <3>1. S \in SUBSET C /\ h[S] = Taking(f, S, query)
        BY DEF Smaller
      <3>2. \A T \in Smaller(C, Cardinality(S)) : T \in Smaller(C, n)
        BY <1>0, <3>1 DEF Smaller
      <3> HIDE DEF h
      <3>3. \A T \in Smaller(C, Cardinality(S)) : f[T] = h[T]
        BY <2>2, <3>2
      <3>4. QED BY <3>1, <3>3, TakingsAgree
    <2>4. h = [S \in Smaller(C, n + 1) |-> h[S]]
      OBVIOUS
    <2> HIDE DEF h
    <2>5. IsTaking(h, C, n + 1, query)
      BY <2>3, <2>4 DEF IsTaking
    <2>6. QED BY <2>5
  <1> HIDE DEF N
  <1>3. N = Nat
    <2>1. N \in SUBSET Nat
      BY DEF N
    <2>2. QED BY <1>1, <1>2, <2>1, Induct
  <1>4. QED BY <1>3 DEF N

LEMMA TakingIsOne ==
    ASSUME NEW C, NEW query, Orderly(C, query), NEW m \in Nat, NEW n \in Nat, NEW f, NEW g,
           IsTaking(f, C, m, query), IsTaking(g, C, n, query)
    PROVE  \A S \in Smaller(C, m) \cap Smaller(C, n) : f[S] = g[S]
  <1> DEFINE Both == Smaller(C, m) \cap Smaller(C, n)
             N == {k \in Nat : \A S \in Both : Cardinality(S) < k => f[S] = g[S]}
  <1>0. \A S \in Both : S \in SUBSET C /\ Cardinality(S) \in Nat /\ Cardinality(S) < m /\ Cardinality(S) < n
    BY BeforeIsSmaller DEF Smaller
  <1>1. 0 \in N
    BY <1>0
  <1>2. ASSUME NEW k \in N PROVE k + 1 \in N
    <2>1. SUFFICES ASSUME NEW S \in Both, Cardinality(S) < k + 1 PROVE f[S] = g[S]
      OBVIOUS
    <2>2. ASSUME NEW T \in Smaller(C, Cardinality(S)) PROVE f[T] = g[T]
      <3>1. T \in SUBSET C /\ Cardinality(T) \in Nat /\ Cardinality(T) < Cardinality(S)
        BY BeforeIsSmaller DEF Smaller
      <3>2. T \in Both /\ Cardinality(T) < k
        BY <1>0, <2>1, <3>1 DEF Smaller
      <3>3. QED BY <3>2
    <2>3. f[S] = Taking(f, S, query) /\ g[S] = Taking(g, S, query)
      BY DEF IsTaking
    <2>4. Taking(f, S, query) = Taking(g, S, query)
      BY <1>0, <2>2, TakingsAgree
    <2>5. QED BY <2>3, <2>4
  <1> HIDE DEF N
  <1>3. N = Nat
    <2>1. N \in SUBSET Nat
      BY DEF N
    <2>2. QED BY <1>1, <1>2, <2>1, Induct
  <1>4. ASSUME NEW S \in Both PROVE f[S] = g[S]
    <2>1. m \in N /\ Cardinality(S) < m
      BY <1>0, <1>3
    <2>2. QED BY <2>1 DEF N
  <1>5. QED BY <1>4

LoopEquation(f, C, query) == f = [S \in SUBSET C |-> Taking(f, S, query)]

LEMMA LoopEquationHolds ==
    ASSUME NEW C, NEW query, NEW f, LoopEquation(f, C, query)
    PROVE  \A S \in SUBSET C : f[S] = Taking(f, S, query)
  <1> TAKE S \in SUBSET C
  <1> DEFINE e(T) == Taking(f, T, query)
             h == [T \in SUBSET C |-> e(T)]
  <1>1. f = h
    BY DEF LoopEquation
  <1> HIDE DEF e
  <1>2. h[S] = e(S)
    OBVIOUS
  <1> HIDE DEF h
  <1>3. f[S] = e(S)
    BY <1>1, <1>2
  <1>4. QED BY <1>3 DEF e

LEMMA TakeTopIs ==
    ASSUME NEW C, NEW query, Orderly(C, query)
    PROVE  \E f : TakeTop(C, query) = f[C] /\ \A S \in SUBSET C : f[S] = Taking(f, S, query)
  <1> DEFINE g(n) == CHOOSE f : IsTaking(f, C, n, query)
             F == [S \in SUBSET C |-> g(Cardinality(S) + 1)[S]]
  <1>0. \A S \in SUBSET C : Cardinality(S) \in Nat /\ Cardinality(S) + 1 \in Nat /\ S \in Smaller(C, Cardinality(S) + 1)
    <2> TAKE S \in SUBSET C
    <2>1. Cardinality(S) \in Nat
      BY BeforeIsSmaller
    <2>2. Cardinality(S) + 1 \in Nat /\ Cardinality(S) < Cardinality(S) + 1
      BY <2>1
    <2>3. QED BY <2>1, <2>2 DEF Smaller
  <1>1. \A n \in Nat : IsTaking(g(n), C, n, query)
    BY TakingExists
  <1> HIDE DEF g
  <1>2. ASSUME NEW S \in SUBSET C PROVE F[S] = Taking(F, S, query)
    <2> DEFINE n == Cardinality(S) + 1
    <2>1. IsTaking(g(n), C, n, query) /\ F[S] = g(n)[S] /\ S \in Smaller(C, n)
      BY <1>0, <1>1
    <2>2. ASSUME NEW T \in Smaller(C, Cardinality(S)) PROVE g(n)[T] = F[T]
      <3>1. T \in SUBSET C /\ Cardinality(T) < Cardinality(S)
        BY DEF Smaller
      <3>2. T \in Smaller(C, n) /\ T \in Smaller(C, Cardinality(T) + 1) /\ n \in Nat /\ Cardinality(T) + 1 \in Nat
        BY <1>0, <3>1 DEF Smaller
      <3>3. IsTaking(g(Cardinality(T) + 1), C, Cardinality(T) + 1, query)
        BY <1>1, <3>2
      <3>4. F[T] = g(Cardinality(T) + 1)[T]
        BY <3>1
      <3> HIDE DEF n, F
      <3>5. QED BY <2>1, <3>2, <3>3, <3>4, TakingIsOne
    <2> HIDE DEF n, F
    <2>3. Taking(g(n), S, query) = Taking(F, S, query)
      BY <2>2, TakingsAgree
    <2>4. g(n)[S] = Taking(g(n), S, query)
      BY <2>1 DEF IsTaking
    <2>5. QED BY <2>1, <2>3, <2>4
  <1>3. LoopEquation(F, C, query)
    <2>1. F = [S \in SUBSET C |-> F[S]]
      OBVIOUS
    <2> HIDE DEF F
    <2>2. QED BY <1>2, <2>1 DEF LoopEquation
  <1> HIDE DEF F
  <1>4. PICK f : f = (CHOOSE h : LoopEquation(h, C, query))
    OBVIOUS
  <1>5. TakeTop(C, query) = f[C]
    BY <1>4 DEF TakeTop, Taking, LoopEquation
  <1>6. LoopEquation(f, C, query)
    BY <1>3, <1>4
  <1>7. \A S \in SUBSET C : f[S] = Taking(f, S, query)
    BY <1>6, LoopEquationHolds
  <1>8. QED BY <1>5, <1>7

-----------------------------------------------------------------------------
(***************************************************************************)
(* What the loop has picked of the candidates it has looked at.            *)
(***************************************************************************)
Alike(p, q) ==
    \/ p.dep = q.dep /\ p.text = q.text
    \/ p.emb # NoEmb /\ q.emb # NoEmb /\ Near(p.emb, q.emb)
Picked(S, P, query) ==
    /\ P \subseteq S
    /\ Cardinality(P) <= MaxPicks
    /\ \A p, q \in P : p # q => ~Alike(p, q)
    /\ \A q \in S \ P :
          \/ \E p \in P : Ahead(p, q, query) /\ Alike(p, q)
          \/ Cardinality(P) = MaxPicks /\ \A p \in P : Ahead(p, q, query)

LEMMA AlikeBothWays == \A p, q : Item(p) /\ Item(q) /\ Alike(p, q) => Alike(q, p)
  BY DEF Item, Alike, Near, Distance, NoEmb

LEMMA PickStep ==
    ASSUME NEW C, NEW query, Orderly(C, query), NEW f, NEW S \in SUBSET C, f[S] = Taking(f, S, query),
           S # {} => Picked(S \ {Hindmost(S, query)}, f[S \ {Hindmost(S, query)}], query)
    PROVE  Picked(S, f[S], query)
  <1>1. CASE S = {}
    <2>1. f[S] = {}
      BY <1>1 DEF Taking
    <2>2. Cardinality({}) = 0 /\ MaxPicks \in Nat
      BY FS_EmptySet, SelectionAssumption
    <2>3. QED BY <1>1, <2>1, <2>2 DEF Picked
  <1>2. CASE S # {}
    <2> DEFINE l == Hindmost(S, query)
               B == f[S \ {l}]
    <2>1. l \in S /\ l \in C /\ \A q \in S \ {l} : Ahead(q, l, query)
      BY <1>2, HindmostIs
    <2>2. Picked(S \ {l}, B, query)
      BY <1>2
    <2>3. f[S] = IF Cardinality(B) = MaxPicks \/ Repeats(B, l) THEN B ELSE B \cup {l}
      BY <1>2 DEF Taking
    <2> HIDE DEF l, B
    <2>4. \A p \in C : Item(p)
      BY DEF Orderly
    <2>5. Repeats(B, l) <=> \E p \in B : Alike(p, l)
      <3>1. \A p \in B : Item(p) /\ Item(l)
        BY <2>1, <2>2, <2>4 DEF Picked
      <3>2. Repeats(B, l) <=> \E p \in B : Alike(l, p)
        BY DEF Repeats, Alike
      <3>3. QED BY <3>1, <3>2, AlikeBothWays
    <2>6. CASE Cardinality(B) = MaxPicks \/ Repeats(B, l)
      <3>1. f[S] = B
        BY <2>3, <2>6
      <3>2. B \subseteq S
        BY <2>2 DEF Picked
      <3>3. ASSUME NEW q \in S \ B
            PROVE  \/ \E p \in B : Ahead(p, q, query) /\ Alike(p, q)
                   \/ Cardinality(B) = MaxPicks /\ \A p \in B : Ahead(p, q, query)
        <4>1. CASE q = l
          BY <2>1, <2>2, <2>5, <2>6, <4>1 DEF Picked
        <4>2. CASE q # l
          BY <2>2, <4>2 DEF Picked
        <4>3. QED BY <4>1, <4>2
      <3>4. QED BY <2>2, <3>1, <3>2, <3>3 DEF Picked
    <2>7. CASE ~(Cardinality(B) = MaxPicks \/ Repeats(B, l))
      <3>1. f[S] = B \cup {l} /\ B \subseteq S /\ l \notin B
        BY <2>1, <2>2, <2>3, <2>7 DEF Picked
      <3>2. IsFiniteSet(B)
        BY <3>1, FS_Subset DEF Orderly
      <3>3. Cardinality(B \cup {l}) = Cardinality(B) + 1 /\ Cardinality(B) \in Nat
        BY <3>1, <3>2, FS_AddElement, FS_CardinalityType
      <3>4. Cardinality(B \cup {l}) <= MaxPicks
        <4>1. Cardinality(B) <= MaxPicks /\ Cardinality(B) # MaxPicks
          BY <2>2, <2>7 DEF Picked
        <4>2. MaxPicks \in Nat
          BY SelectionAssumption
        <4>3. QED BY <3>3, <4>1, <4>2
      <3>5. \A p, q \in B \cup {l} : p # q => ~Alike(p, q)
        <4>1. \A p \in B : ~Alike(p, l) /\ ~Alike(l, p)
          <5>1. \A p \in B : Item(p) /\ Item(l)
            BY <2>1, <2>4, <3>1
          <5>2. QED BY <2>5, <2>7, <5>1, AlikeBothWays
        <4>2. QED BY <2>2, <4>1 DEF Picked
      <3>6. ASSUME NEW q \in S \ (B \cup {l})
            PROVE  \E p \in B \cup {l} : Ahead(p, q, query) /\ Alike(p, q)
        BY <2>2, <2>7 DEF Picked
      <3>7. QED BY <2>1, <3>1, <3>4, <3>5, <3>6 DEF Picked
    <2>8. QED BY <2>6, <2>7
  <1>3. QED BY <1>1, <1>2

LEMMA TopIsPicked ==
    ASSUME NEW C, NEW query, Orderly(C, query)
    PROVE  Picked(C, TakeTop(C, query), query)
  <1>1. PICK f : TakeTop(C, query) = f[C] /\ \A S \in SUBSET C : f[S] = Taking(f, S, query)
    BY TakeTopIs
  <1> DEFINE N == {n \in Nat : \A S \in SUBSET C : Cardinality(S) < n => Picked(S, f[S], query)}
  <1>2. \A S \in SUBSET C : Cardinality(S) \in Nat
    BY BeforeIsSmaller
  <1>3. 0 \in N
    BY <1>2
  <1>4. ASSUME NEW n \in N PROVE n + 1 \in N
    <2>1. ASSUME NEW S \in SUBSET C, Cardinality(S) < n + 1 PROVE Picked(S, f[S], query)
      <3>1. ASSUME S # {} PROVE Picked(S \ {Hindmost(S, query)}, f[S \ {Hindmost(S, query)}], query)
        <4>1. S \ {Hindmost(S, query)} \in Smaller(C, Cardinality(S))
          BY <3>1, BeforeIsSmaller
        <4>2. S \ {Hindmost(S, query)} \in SUBSET C /\ Cardinality(S \ {Hindmost(S, query)}) < n
          BY <1>2, <2>1, <4>1 DEF Smaller
        <4>3. QED BY <4>2
      <3>2. f[S] = Taking(f, S, query)
        BY <1>1
      <3>3. QED BY <3>1, <3>2, PickStep
    <2>2. QED BY <2>1
  <1> HIDE DEF N
  <1>5. N = Nat
    <2>1. N \in SUBSET Nat
      BY DEF N
    <2>2. QED BY <1>3, <1>4, <2>1, Induct
  <1>6. Picked(C, f[C], query)
    <2>1. C \in SUBSET C /\ Cardinality(C) + 1 \in N /\ Cardinality(C) < Cardinality(C) + 1
      BY <1>2, <1>5
    <2>2. QED BY <2>1 DEF N
  <1>7. QED BY <1>1, <1>6

-----------------------------------------------------------------------------
(***************************************************************************)
(* What a turn was shown, from Embed until it consumes its data, is what   *)
(* the loop picked of the pool it had read.                                *)
(***************************************************************************)
ItemsFit(items) ==
    /\ IsFiniteSet(items)
    /\ \A p \in items : Item(p)
    /\ \A p, q \in items : p.id = q.id => p = q
SeenFits ==
    /\ ItemsFit(turn.seen) /\ turn.query \in Nat \cup {NoEmb}
    /\ turn.stage \in {"none", "embed"} => turn.picks = {}
    /\ turn.stage \in {"draft", "consume"} => Picked(Candidates(turn.seen, turn.query), turn.picks, turn.query)
    /\ PicksAreDistinct
PickInv ==
    /\ put \in Nat /\ ItemsFit(pool) /\ \A p \in pool : p.id <= put
    /\ turn = WholeTurn(turn) /\ SeenFits

LEMMA CandidatesAreOrderly ==
    ASSUME NEW items, ItemsFit(items), NEW query \in Nat \cup {NoEmb}
    PROVE  Orderly(Candidates(items, query), query)
  <1>1. Candidates(items, query) \subseteq items
    BY DEF Candidates, Data
  <1>2. IsFiniteSet(Candidates(items, query))
    BY <1>1, FS_Subset DEF ItemsFit
  <1>3. QED BY <1>1, <1>2 DEF ItemsFit, Orderly

LEMMA PickedAreDistinct ==
    ASSUME NEW S, NEW P, NEW query, Picked(S, P, query), turn'.picks = P
    PROVE  PicksAreDistinct'
  BY DEF Picked, PicksAreDistinct, Alike

LEMMA AheadIsCloser ==
    ASSUME NEW p, NEW q, Item(p), Item(q), turn.query \in Nat \cup {NoEmb}, Ahead(p, q, turn.query)
    PROVE  Closer(p, q)
  <1>1. CASE ~Ranks(q, turn.query)
    BY <1>1 DEF Ranks, Closer
  <1>2. CASE Ranks(q, turn.query)
    <2>1. Ranks(p, turn.query) /\ Distance(p.emb, turn.query) <= Distance(q.emb, turn.query)
      <3>1. Ranks(p, turn.query)
        BY <1>2 DEF Ahead
      <3>2. Distance(p.emb, turn.query) \in Nat /\ Distance(q.emb, turn.query) \in Nat
        BY <1>2, <3>1 DEF Ranks, Item, Distance
      <3>3. QED BY <1>2, <3>1, <3>2 DEF Ahead
    <2>2. QED BY <2>1 DEF Ranks, Closer
  <1>3. QED BY <1>1, <1>2

LEMMA NothingBetter == PickInv => NothingBetterLeftOut
  <1> SUFFICES ASSUME PickInv, turn.stage \in {"draft", "consume"},
                      NEW q \in Candidates(turn.seen, turn.query) \ turn.picks
               PROVE  \/ \E p \in turn.picks : Closer(p, q) /\ Alike(p, q)
                      \/ Cardinality(turn.picks) = MaxPicks /\ \A p \in turn.picks : Closer(p, q)
    BY DEF NothingBetterLeftOut, Alike
  <1>1. Picked(Candidates(turn.seen, turn.query), turn.picks, turn.query)
    BY DEF PickInv, SeenFits
  <1>2. Candidates(turn.seen, turn.query) \subseteq turn.seen
    BY DEF Candidates, Data
  <1>3. \A p \in turn.picks : Item(p) /\ Item(q)
    BY <1>1, <1>2 DEF Picked, PickInv, SeenFits, ItemsFit
  <1>4. \A p \in turn.picks : Ahead(p, q, turn.query) => Closer(p, q)
    BY <1>3, AheadIsCloser DEF PickInv, SeenFits
  <1>5. QED BY <1>1, <1>4 DEF Picked

LEMMA NothingIsFit == ItemsFit({}) /\ Picked(Candidates({}, NoEmb), {}, NoEmb)
  <1>1. Candidates({}, NoEmb) = {}
    BY DEF Candidates, Data
  <1>2. IsFiniteSet({}) /\ Cardinality({}) = 0
    BY FS_EmptySet
  <1>3. 0 <= MaxPicks
    <2>1. MaxPicks \in Nat
      BY SelectionAssumption
    <2>2. QED BY <2>1
  <1>4. QED BY <1>1, <1>2, <1>3 DEF ItemsFit, Picked

LEMMA PickInit == SelectionInit => PickInv
  <1> SUFFICES ASSUME SelectionInit PROVE PickInv
    OBVIOUS
  <1>1. pool = {} /\ put = 0 /\ turn.stage = "none" /\ turn.seen = {} /\ turn.picks = {} /\ turn.query = NoEmb
    BY DEF SelectionInit, Blank
  <1>2. PicksAreDistinct
    BY <1>1, NothingIsFit DEF Picked, PicksAreDistinct
  <1>3. SeenFits
    BY <1>1, <1>2, NothingIsFit DEF SeenFits
  <1>4. turn = WholeTurn(turn)
    BY DEF SelectionInit, Blank, WholeTurn
  <1>5. QED BY <1>1, <1>3, <1>4, NothingIsFit DEF PickInv

\* What is said of the picks is said of these parts of the turn.
LEMMA SameTurn ==
    ASSUME SeenFits, turn'.seen = turn.seen, turn'.query = turn.query, turn'.picks = turn.picks, turn'.stage = turn.stage
    PROVE  SeenFits'
  BY DEF SeenFits, PicksAreDistinct

LEMMA PoolSteps ==
    ASSUME PickInv, Put \/ Expire
    PROVE  PickInv'
  <1>1. turn' = WholeTurn(turn') /\ SeenFits'
    <2>1. Late
      BY DEF Put, Expire
    <2>2. /\ turn'.stage = turn.stage /\ turn'.seen = turn.seen /\ turn'.query = turn.query /\ turn'.picks = turn.picks
          /\ turn' = WholeTurn(turn')
      BY <2>1 DEF Late, PickInv, WholeTurn
    <2>3. QED BY <2>2, SameTurn DEF PickInv
  <1>2. CASE Put
    <2>1. PICK item \in {Datum(x) : x \in DataShapes} \cup {Reply(x) : x \in Drafts} : pool' = pool \cup {item}
      BY <1>2 DEF Put
    <2>2. item.id = put + 1 /\ item.emb \in Nat \cup {NoEmb}
      <3>1. CASE item \in {Datum(x) : x \in DataShapes}
        <4>1. PICK x \in DataShapes : item = Datum(x)
          BY <3>1
        <4>2. x.emb \in Nat \cup {NoEmb}
          BY SelectionAssumption
        <4>3. QED BY <4>1, <4>2 DEF Datum
      <3>2. CASE item \in {Reply(x) : x \in Drafts}
        <4>1. PICK x \in Drafts : item = Reply(x)
          BY <3>2
        <4>2. QED BY <4>1 DEF Reply
      <3>3. QED BY <2>1, <3>1, <3>2
    <2>3. put \in Nat /\ put' = put + 1 /\ put' \in Nat
      BY <1>2 DEF Put, PickInv
    <2>4. IsFiniteSet(pool')
      BY <2>1, FS_AddElement DEF PickInv, ItemsFit
    <2>5. \A p \in pool' : Item(p) /\ p.id <= put'
      <3>1. \A p \in pool : Item(p) /\ p.id <= put'
        BY <2>3 DEF PickInv, ItemsFit, Item
      <3>2. Item(item) /\ item.id <= put'
        BY <2>2, <2>3 DEF Item
      <3>3. QED BY <2>1, <3>1, <3>2
    <2>6. \A p, q \in pool' : p.id = q.id => p = q
      <3>1. \A p \in pool : p.id \in Nat /\ p.id # item.id
        BY <2>2, <2>3 DEF PickInv, ItemsFit, Item
      <3>2. QED BY <2>1, <3>1 DEF PickInv, ItemsFit
    <2>7. QED BY <1>1, <2>3, <2>4, <2>5, <2>6 DEF PickInv, ItemsFit
  <1>3. CASE Expire
    <2>1. put' = put /\ pool' \subseteq pool
      BY <1>3 DEF Expire
    <2>2. IsFiniteSet(pool')
      BY <2>1, FS_Subset DEF PickInv, ItemsFit
    <2>3. QED BY <1>1, <2>1, <2>2 DEF PickInv, ItemsFit
  <1>4. QED BY <1>2, <1>3

LEMMA EmbedPicks ==
    ASSUME PickInv, Embed
    PROVE  PickInv'
  <1>1. PICK query \in Queries \cup {NoEmb} :
           turn' = [turn EXCEPT !.query = query, !.picks = Rerank(turn.seen, query),
                                !.stage = IF SopEnabled THEN "draft" ELSE "consume"]
    BY DEF Embed
  <1>2. query \in Nat \cup {NoEmb}
    BY <1>1, SelectionAssumption
  <1> DEFINE stage == IF SopEnabled THEN "draft" ELSE "consume"
             picks == Rerank(turn.seen, query)
  <1>3. Picked(Candidates(turn.seen, query), picks, query)
    <2>1. Orderly(Candidates(turn.seen, query), query)
      BY <1>2, CandidatesAreOrderly DEF PickInv, SeenFits
    <2>2. QED BY <2>1, TopIsPicked DEF Rerank
  <1>4. stage \in {"draft", "consume"}
    OBVIOUS
  <1> HIDE DEF stage, picks
  <1>5. /\ turn'.query = query /\ turn'.picks = picks /\ turn'.stage = stage /\ turn'.seen = turn.seen
        /\ turn' = WholeTurn(turn')
    BY <1>1 DEF PickInv, WholeTurn, stage, picks
  <1>6. PicksAreDistinct'
    BY <1>3, <1>5, PickedAreDistinct
  <1>7. SeenFits'
    BY <1>2, <1>3, <1>4, <1>5, <1>6 DEF PickInv, SeenFits
  <1>8. pool' = pool /\ put' = put
    BY DEF Embed
  <1>9. QED BY <1>5, <1>7, <1>8 DEF PickInv

LEMMA PickStepOk ==
    ASSUME PickInv, [SelectionNext]_selectionVars
    PROVE  PickInv'
  <1>1. CASE \E mode \in Modes, action \in {x.action : x \in Drafts}, state \in {x.state : x \in Drafts} \cup {""} :
                BeginTurn(mode, action, state)
    <2>1. PICK mode, action, state : BeginTurn(mode, action, state)
      BY <1>1
    <2>2. /\ turn'.query = NoEmb /\ turn'.picks = {}
          /\ \/ turn'.stage = "consume" /\ turn'.seen = {}
             \/ turn'.stage = "embed" /\ turn'.seen = pool
          /\ turn' = WholeTurn(turn')
          /\ pool' = pool /\ put' = put
      BY <2>1 DEF BeginTurn, Blank, WholeTurn
    <2>3. PicksAreDistinct'
      BY <2>2, NothingIsFit, PickedAreDistinct
    <2>4. SeenFits'
      BY <2>2, <2>3, NothingIsFit DEF PickInv, SeenFits
    <2>5. QED BY <2>2, <2>4 DEF PickInv
  <1>2. CASE LookupInstruction
    <2>1. /\ turn'.query = turn.query /\ turn'.picks = turn.picks /\ turn'.seen = turn.seen
          /\ turn.stage = "draft" /\ turn'.stage = "consume"
          /\ turn' = WholeTurn(turn')
          /\ pool' = pool /\ put' = put
      BY <1>2 DEF LookupInstruction, PickInv, WholeTurn
    <2>2. SeenFits'
      BY <2>1 DEF PickInv, SeenFits, PicksAreDistinct
    <2>3. QED BY <2>1, <2>2 DEF PickInv
  <1>3. CASE Consume
    <2>1. /\ turn'.query = NoEmb /\ turn'.picks = turn.picks /\ turn'.seen = {} /\ turn'.stage = "plan"
          /\ turn' = WholeTurn(turn')
          /\ pool' = pool /\ put' = put
      BY <1>3 DEF Consume, PickInv, WholeTurn
    <2>2. SeenFits'
      BY <2>1, NothingIsFit DEF PickInv, SeenFits, PicksAreDistinct
    <2>3. QED BY <2>1, <2>2 DEF PickInv
  <1>4. CASE BuildPlan
    <2>1. /\ turn'.query = turn.query /\ turn'.picks = turn.picks /\ turn'.seen = turn.seen /\ turn'.stage = "over"
          /\ turn' = WholeTurn(turn')
          /\ pool' = pool /\ put' = put
      BY <1>4 DEF BuildPlan, PickInv, WholeTurn
    <2>2. SeenFits'
      BY <2>1 DEF PickInv, SeenFits, PicksAreDistinct
    <2>3. QED BY <2>1, <2>2 DEF PickInv
  <1>5. CASE UNCHANGED selectionVars
    BY <1>5, SameTurn DEF selectionVars, PickInv
  <1>6. QED BY <1>1, <1>2, <1>3, <1>4, <1>5, PoolSteps, EmbedPicks DEF SelectionNext

(***************************************************************************)
(* For any items, queries and bounds, while items come and expire between  *)
(* the reads of a turn: no two of the items it is shown say the same, and  *)
(* none is left out but for as many as there may be, or for one that       *)
(* repeats it, which are as close to the utterance (rerank.py _scored,     *)
(* _dedup_take_top_k).                                                     *)
(***************************************************************************)
THEOREM PicksHold == SelectionSpec => []PicksAreBest
  <1>1. PickInv => PicksAreBest
    BY NothingBetter DEF PickInv, SeenFits, PicksAreBest
  <1>2. PickInv /\ [SelectionNext]_selectionVars => PickInv'
    BY PickStepOk
  <1>3. QED BY <1>1, <1>2, PickInit, PTL DEF SelectionSpec

-----------------------------------------------------------------------------
(***************************************************************************)
(* Reachability.  The rounds are a function that satisfies its equation.   *)
(***************************************************************************)
Round(done) == done \cup Executable(done)
IsRun(g, n) ==
    /\ g \in [0 .. n -> SUBSET def.actions]
    /\ g[0] = {}
    /\ \A i \in 1 .. n : g[i] = Round(g[i - 1])

LEMMA RunExists == \A n \in Nat : \E g : IsRun(g, n)
  <1> DEFINE S == {n \in Nat : \E g : IsRun(g, n)}
  <1>1. 0 \in S
    <2> DEFINE g == [i \in 0 .. 0 |-> {}]
    <2>1. IsRun(g, 0)
      BY DEF IsRun
    <2>2. QED BY <2>1
  <1>2. ASSUME NEW n \in S PROVE n + 1 \in S
    <2>1. PICK g : IsRun(g, n)
      OBVIOUS
    <2> DEFINE h == [i \in 0 .. n + 1 |-> IF i = n + 1 THEN Round(g[n]) ELSE g[i]]
    <2>2. g[n] \in SUBSET def.actions
      BY <2>1 DEF IsRun
    <2>3. Round(g[n]) \in SUBSET def.actions
      BY <2>2 DEF Round, Executable
    <2>4. h \in [0 .. n + 1 -> SUBSET def.actions] /\ h[0] = {}
      BY <2>1, <2>3 DEF IsRun
    <2>5. ASSUME NEW i \in 1 .. n + 1 PROVE h[i] = Round(h[i - 1])
      <3>1. CASE i = n + 1
        BY <3>1
      <3>2. CASE i # n + 1
        <4>1. i \in 1 .. n /\ i - 1 \in 0 .. n /\ i - 1 # n + 1 /\ i \in 0 .. n + 1 /\ i - 1 \in 0 .. n + 1
          BY <3>2
        <4>2. g[i] = Round(g[i - 1])
          BY <2>1, <4>1 DEF IsRun
        <4>3. h[i] = g[i] /\ h[i - 1] = g[i - 1]
          BY <3>2, <4>1
        <4>4. QED BY <4>2, <4>3
      <3>3. QED BY <3>1, <3>2
    <2> HIDE DEF h
    <2>6. IsRun(h, n + 1)
      BY <2>4, <2>5 DEF IsRun
    <2>7. QED BY <2>6
  <1> HIDE DEF S
  <1>3. S = Nat
    <2>1. S \in SUBSET Nat
      BY DEF S
    <2>2. QED BY <1>1, <1>2, <2>1, Induct
  <1>4. QED BY <1>3 DEF S

LEMMA RunsAgree ==
    ASSUME NEW m \in Nat, NEW n \in Nat, NEW g, NEW h, IsRun(g, m), IsRun(h, n)
    PROVE  \A i \in Nat : i <= m /\ i <= n => g[i] = h[i]
  <1> DEFINE S == {i \in Nat : i <= m /\ i <= n => g[i] = h[i]}
  <1>1. 0 \in S
    BY DEF IsRun
  <1>2. ASSUME NEW i \in S PROVE i + 1 \in S
    <2>1. SUFFICES ASSUME i + 1 <= m, i + 1 <= n PROVE g[i + 1] = h[i + 1]
      OBVIOUS
    <2>2. i + 1 \in 1 .. m /\ i + 1 \in 1 .. n /\ i + 1 - 1 = i
      BY <2>1
    <2>3. g[i + 1] = Round(g[i]) /\ h[i + 1] = Round(h[i])
      BY <2>2 DEF IsRun
    <2>4. g[i] = h[i]
      BY <2>1
    <2>5. QED BY <2>3, <2>4
  <1> HIDE DEF S
  <1>3. S = Nat
    <2>1. S \in SUBSET Nat
      BY DEF S
    <2>2. QED BY <1>1, <1>2, <2>1, Induct
  <1>4. QED BY <1>3 DEF S

LEMMA ReachedIs ==
    \A n \in Nat : Reached[n] = IF n = 0 THEN {} ELSE Round(Reached[n - 1])
  <1> DEFINE g(n) == CHOOSE h : IsRun(h, n)
             F == [n \in Nat |-> g(n)[n]]
             Equation(f) == f = [n \in Nat |-> IF n = 0 THEN {} ELSE f[n - 1] \cup Executable(f[n - 1])]
  <1>1. \A n \in Nat : IsRun(g(n), n)
    BY RunExists
  <1> HIDE DEF g
  <1>2. F[0] = {}
    BY <1>1 DEF IsRun
  <1>3. ASSUME NEW n \in Nat, n # 0 PROVE F[n] = F[n - 1] \cup Executable(F[n - 1])
    <2>1. n - 1 \in Nat /\ n \in 1 .. n /\ n - 1 <= n
      BY <1>3
    <2>2. g(n)[n] = Round(g(n)[n - 1])
      BY <1>1, <2>1 DEF IsRun
    <2>3. g(n)[n - 1] = g(n - 1)[n - 1]
      BY <1>1, <2>1, RunsAgree
    <2>4. F[n] = g(n)[n] /\ F[n - 1] = g(n - 1)[n - 1]
      BY <2>1
    <2>5. QED BY <2>2, <2>3, <2>4 DEF Round
  <1>4. Equation(F)
    <2> HIDE DEF F
    <2>1. \A n \in Nat : F[n] = IF n = 0 THEN {} ELSE F[n - 1] \cup Executable(F[n - 1])
      BY <1>2, <1>3
    <2>2. F = [n \in Nat |-> F[n]]
      BY DEF F
    <2>3. QED BY <2>1, <2>2
  <1> HIDE DEF F
  <1>5. Equation(Reached)
    <2>1. Reached = CHOOSE f : Equation(f)
      BY DEF Reached
    <2> HIDE DEF Equation
    <2>2. QED BY <1>4, <2>1
  <1> DEFINE e(n) == IF n = 0 THEN {} ELSE Reached[n - 1] \cup Executable(Reached[n - 1])
  <1>6. Reached = [n \in Nat |-> e(n)]
    BY <1>5
  <1> HIDE DEF e
  <1>7. \A n \in Nat : Reached[n] = e(n)
    BY <1>6
  <1>8. QED BY <1>7 DEF e, Round

LEMMA ReachedEquation ==
    /\ Reached[0] = {}
    /\ \A n \in Nat : Reached[n + 1] = Round(Reached[n])
  <1>1. Reached[0] = {}
    BY ReachedIs
  <1>2. ASSUME NEW n \in Nat PROVE Reached[n + 1] = Round(Reached[n])
    <2>1. n + 1 \in Nat /\ n + 1 # 0 /\ n + 1 - 1 = n
      OBVIOUS
    <2>2. Reached[n + 1] = Round(Reached[n + 1 - 1])
      BY <2>1, ReachedIs
    <2>3. QED BY <2>1, <2>2
  <1>3. QED BY <1>1, <1>2

-----------------------------------------------------------------------------
(***************************************************************************)
(* Whatever is closed under the rounds contains what is reachable; and     *)
(* that is closed itself, since rounds that add something are as many as   *)
(* the actions at most.                                                    *)
(***************************************************************************)
LEMMA PrereqsAreActions == \A a : Prereqs(a) \subseteq def.actions
  BY DEF Prereqs, ActionPrereqs

LEMMA ReachedInClosed ==
    ASSUME NEW done, Executable(done) \subseteq done
    PROVE  \A n \in Nat : Reached[n] \subseteq done
  <1> DEFINE S == {n \in Nat : Reached[n] \subseteq done}
  <1>1. 0 \in S
    BY ReachedEquation
  <1>2. ASSUME NEW n \in S PROVE n + 1 \in S
    <2>1. Reached[n + 1] = Round(Reached[n]) /\ Reached[n] \subseteq done
      BY ReachedEquation
    <2>2. Executable(Reached[n]) \subseteq Executable(done)
      BY <2>1 DEF Executable
    <2>3. QED BY <2>1, <2>2 DEF Round
  <1> HIDE DEF S
  <1>3. S = Nat
    <2>1. S \in SUBSET Nat
      BY DEF S
    <2>2. QED BY <1>1, <1>2, <2>1, Induct
  <1>4. QED BY <1>3 DEF S

LEMMA ReachableIsClosed ==
    ASSUME IsFiniteSet(def.actions)
    PROVE  /\ Cardinality(def.actions) \in Nat
           /\ Reachable \subseteq def.actions
           /\ Executable(Reachable) \subseteq Reachable
  <1> DEFINE N == Cardinality(def.actions)
             Stable(n) == Executable(Reached[n]) \subseteq Reached[n]
             S == {n \in Nat : Stable(n) \/ Cardinality(Reached[n]) >= n}
  <1>1. N \in Nat
    BY FS_CardinalityType
  <1>2. \A n \in Nat : Reached[n] \subseteq def.actions
    BY ReachedInClosed DEF Executable
  <1>3. \A n \in Nat : IsFiniteSet(Reached[n]) /\ Cardinality(Reached[n]) \in Nat /\ Cardinality(Reached[n]) <= N
    BY <1>2, FS_Subset, FS_CardinalityType
  <1>4. 0 \in S
    BY <1>3
  <1>5. ASSUME NEW n \in S PROVE n + 1 \in S
    <2>1. n \in Nat /\ n + 1 \in Nat /\ Reached[n + 1] = Round(Reached[n])
      BY ReachedEquation
    <2>2. CASE Stable(n)
      <3>1. Reached[n + 1] = Reached[n]
        BY <2>1, <2>2 DEF Round
      <3>2. Stable(n + 1)
        BY <2>2, <3>1
      <3>3. QED BY <2>1, <3>2
    <2>3. CASE ~Stable(n)
      <3>1. Reached[n] \subseteq Reached[n + 1] /\ Reached[n] # Reached[n + 1]
        BY <2>1, <2>3 DEF Round
      <3>2. Cardinality(Reached[n]) >= n
        BY <2>3
      <3>3. IsFiniteSet(Reached[n + 1])
        BY <1>3, <2>1
      <3>4. /\ Cardinality(Reached[n]) <= Cardinality(Reached[n + 1])
            /\ Cardinality(Reached[n + 1]) # Cardinality(Reached[n])
        <4>1. Reached[n] \in SUBSET Reached[n + 1] /\ Reached[n + 1] # Reached[n]
          BY <3>1
        <4>2. QED BY <3>3, <4>1, FS_Subset, Zenon
      <3>5. Cardinality(Reached[n]) \in Nat /\ Cardinality(Reached[n + 1]) \in Nat
        BY <1>3, <2>1
      <3>6. Cardinality(Reached[n + 1]) >= n + 1
        BY <2>1, <3>2, <3>4, <3>5
      <3>7. QED BY <2>1, <3>6
    <2>4. QED BY <2>2, <2>3
  <1> HIDE DEF S
  <1>6. N \in S
    <2>1. S \in SUBSET Nat
      BY DEF S
    <2>2. S = Nat
      BY <1>4, <1>5, <2>1, Induct
    <2>3. QED BY <1>1, <2>2
  <1>7. CASE Stable(N)
    BY <1>1, <1>2, <1>7 DEF Reachable
  <1>8. CASE ~Stable(N)
    <2>1. Cardinality(Reached[N]) >= N
      BY <1>6, <1>8 DEF S
    <2>2. Reached[N] \subseteq def.actions /\ Cardinality(Reached[N]) = Cardinality(def.actions)
      BY <1>1, <1>2, <1>3, <2>1
    <2>3. Reached[N] = def.actions
      BY <2>2, FS_Subset
    <2>4. Executable(Reached[N]) \subseteq def.actions
      BY DEF Executable
    <2>5. QED BY <1>1, <2>3, <2>4 DEF Reachable
  <1>9. QED BY <1>7, <1>8

\* What passes the lint can be carried out: a set of actions that opens no other is closed under the rounds.
LEMMA CleanIsExecutable ==
    ASSUME IsFiniteSet(def.actions)
    PROVE  CleanMeansExecutable
  <1>1. SUFFICES ASSUME Clean
                 PROVE  /\ \A done \in SUBSET def.actions : done # def.actions =>
                              Open(def, done \cup def.states) \ done # {}
                        /\ \A e \in def.edges : {e.src, e.dst} \subseteq def.actions \cup def.states
    BY DEF CleanMeansExecutable
  <1>2. def.actions \subseteq Reachable /\ Nodes(def) \subseteq def.actions \cup def.states
    BY <1>1 DEF Clean, Problems
  <1>3. ASSUME NEW done \in SUBSET def.actions, done # def.actions, Open(def, done \cup def.states) \subseteq done
        PROVE  FALSE
    <2>1. ASSUME NEW a \in Executable(done) PROVE a \in done
      <3>1. a \in def.actions /\ ActionPrereqs(def, a) \subseteq done
        BY DEF Executable, Prereqs
      <3>2. StatePrereqs(def, a) \subseteq def.states
        BY DEF StatePrereqs
      <3>3. a \in Open(def, done \cup def.states)
        BY <3>1, <3>2 DEF Open
      <3>4. QED BY <1>3, <3>3
    <2>2. Reachable \subseteq done
      BY <2>1, ReachedInClosed, ReachableIsClosed DEF Reachable
    <2>3. QED BY <1>2, <1>3, <2>2
  <1>4. ASSUME NEW e \in def.edges PROVE {e.src, e.dst} \subseteq def.actions \cup def.states
    BY <1>2 DEF Nodes
  <1>5. QED BY <1>3, <1>4

-----------------------------------------------------------------------------
(***************************************************************************)
(* The search by colours.  Each call is smaller than its caller: it has    *)
(* fewer actions that were not visited, or as many and less to do.         *)
(***************************************************************************)
Colors == [def.actions -> 0 .. 2]
Calls == Colors \X SUBSET def.actions
Results == [color : Colors, cycle : BOOLEAN]
White(color) == {a \in def.actions : color[a] = 0}
Gray(color) == {a \in def.actions : color[a] = 1}
Black(color) == {a \in def.actions : color[a] = 2}

CallSize(x) == (Cardinality(def.actions) + 1) * Cardinality(White(x[1])) + Cardinality(x[2])
Below(n) == {x \in Calls : CallSize(x) < n}

\* The action a call takes, and the calls it makes.
Taken(x) == CHOOSE a \in x[2] : TRUE
Past(x) == <<x[1], x[2] \ {Taken(x)}>>
Into(x) == <<[x[1] EXCEPT ![Taken(x)] = 1], Prereqs(Taken(x))>>
After(x, color) == <<[color EXCEPT ![Taken(x)] = 2], x[2] \ {Taken(x)}>>

\* What a call answers, if f answers the calls it makes.
Visit(f, x) ==
    IF x[2] = {} THEN [color |-> x[1], cycle |-> FALSE]
    ELSE IF x[1][Taken(x)] = 1 THEN [color |-> x[1], cycle |-> TRUE]
    ELSE IF x[1][Taken(x)] = 2 THEN f[Past(x)]
    ELSE IF f[Into(x)].cycle THEN f[Into(x)]
    ELSE f[After(x, f[Into(x)].color)]

LEMMA Product ==
    ASSUME NEW k \in Nat, NEW v \in Nat, NEW w \in Nat, v < w
    PROVE  k * v \in Nat /\ k * w \in Nat /\ k * v + k <= k * w
  <1> DEFINE d == w - v - 1
  <1>1. d \in Nat /\ w = v + 1 + d
    OBVIOUS
  <1> HIDE DEF d
  <1>2. k * d \in Nat
    BY <1>1
  <1>3. k * w = k * v + k + k * d
    BY <1>1
  <1>4. k * v \in Nat /\ k * w \in Nat
    OBVIOUS
  <1>5. QED BY <1>2, <1>3, <1>4

LEMMA Sizes ==
    ASSUME IsFiniteSet(def.actions), NEW x \in Calls
    PROVE  /\ CallSize(x) \in Nat
           /\ \A y \in Calls : White(y[1]) \subseteq White(x[1]) /\ y[2] \subseteq x[2] /\ y[2] # x[2] => CallSize(y) < CallSize(x)
           /\ \A y \in Calls : White(y[1]) \subseteq White(x[1]) /\ White(y[1]) # White(x[1]) => CallSize(y) < CallSize(x)
  <1> DEFINE N == Cardinality(def.actions)
             w(y) == Cardinality(White(y[1]))
             t(y) == Cardinality(y[2])
             k == N + 1
  <1>1. \A S \in SUBSET def.actions : IsFiniteSet(S) /\ Cardinality(S) \in Nat /\ Cardinality(S) <= N
    BY FS_Subset, FS_CardinalityType
  <1>2. N \in Nat /\ k \in Nat
    BY FS_CardinalityType
  <1>3. \A y \in Calls : White(y[1]) \in SUBSET def.actions /\ y[2] \in SUBSET def.actions
    BY DEF Calls, White
  <1>4. \A y \in Calls : w(y) \in Nat /\ t(y) \in Nat /\ t(y) <= N
    BY <1>1, <1>3
  <1>5. \A S, T \in SUBSET def.actions : S \subseteq T =>
           Cardinality(S) <= Cardinality(T) /\ (S # T => Cardinality(S) < Cardinality(T))
    <2> TAKE S, T \in SUBSET def.actions
    <2> HAVE S \subseteq T
    <2>1. IsFiniteSet(T) /\ S \in SUBSET T
      BY <1>1
    <2>2. Cardinality(S) <= Cardinality(T) /\ (Cardinality(T) = Cardinality(S) => T = S)
      BY <2>1, FS_Subset, Zenon
    <2>3. Cardinality(S) \in Nat /\ Cardinality(T) \in Nat
      BY <1>1
    <2>4. QED BY <2>2, <2>3
  <1>6. \A y \in Calls : CallSize(y) = k * w(y) + t(y)
    BY DEF CallSize
  <1> HIDE DEF k, w, t, N
  <1>7. CallSize(x) \in Nat
    <2>1. k * w(x) \in Nat
      BY <1>2, <1>4
    <2>2. QED BY <1>4, <1>6, <2>1
  <1>8. ASSUME NEW y \in Calls, White(y[1]) \subseteq White(x[1]), y[2] \subseteq x[2], y[2] # x[2]
        PROVE  CallSize(y) < CallSize(x)
    <2>1. w(y) <= w(x) /\ t(y) < t(x)
      BY <1>3, <1>5, <1>8 DEF w, t
    <2>2. k * w(y) <= k * w(x) /\ k * w(y) \in Nat /\ k * w(x) \in Nat
      <3>1. CASE w(y) = w(x)
        BY <1>2, <1>4, <3>1
      <3>2. CASE w(y) < w(x)
        BY <1>2, <1>4, <3>2, Product
      <3>3. QED BY <1>4, <2>1, <3>1, <3>2
    <2>3. QED BY <1>4, <1>6, <2>1, <2>2
  <1>9. ASSUME NEW y \in Calls, White(y[1]) \subseteq White(x[1]), White(y[1]) # White(x[1])
        PROVE  CallSize(y) < CallSize(x)
    <2>1. w(y) < w(x)
      BY <1>3, <1>5, <1>9 DEF w
    <2>2. k * w(y) + k <= k * w(x) /\ k * w(y) \in Nat /\ k * w(x) \in Nat
      BY <1>2, <1>4, <2>1, Product
    <2>3. t(y) < k
      BY <1>2, <1>4 DEF k
    <2>4. QED BY <1>2, <1>4, <1>6, <2>2, <2>3
  <1>10. QED BY <1>7, <1>8, <1>9

LEMMA CallsAreSmaller ==
    ASSUME IsFiniteSet(def.actions), NEW x \in Calls, x[2] # {}
    PROVE  /\ Taken(x) \in x[2] /\ Taken(x) \in def.actions /\ x[1][Taken(x)] \in 0 .. 2
           /\ Past(x) \in Below(CallSize(x)) /\ Past(x)[1] = x[1]
           /\ x[1][Taken(x)] = 0 =>
                /\ Into(x) \in Below(CallSize(x)) /\ White(Into(x)[1]) \subseteq White(x[1])
                /\ \A d \in Colors : White(d) \subseteq White(Into(x)[1]) =>
                     After(x, d) \in Below(CallSize(x)) /\ White(After(x, d)[1]) \subseteq White(x[1])
  <1> DEFINE a == Taken(x)
             c == x[1]
  <1>1. a \in x[2]
    BY DEF Taken
  <1> HIDE DEF a
  <1>2. a \in def.actions /\ c \in Colors /\ x[2] \subseteq def.actions /\ c[a] \in 0 .. 2
    BY <1>1 DEF Calls, Colors
  <1>3. Past(x) \in Calls /\ Past(x)[1] = c /\ Past(x)[2] = x[2] \ {a}
    BY <1>2 DEF Past, Calls, a
  <1>4. Past(x) \in Below(CallSize(x))
    <2>1. White(Past(x)[1]) \subseteq White(c) /\ Past(x)[2] \subseteq x[2] /\ Past(x)[2] # x[2]
      BY <1>1, <1>3
    <2>2. QED BY <1>3, <2>1, Sizes DEF Below
  <1>5. ASSUME c[a] = 0
        PROVE  /\ Into(x) \in Below(CallSize(x)) /\ White(Into(x)[1]) \subseteq White(c)
               /\ \A d \in Colors : White(d) \subseteq White(Into(x)[1]) =>
                    After(x, d) \in Below(CallSize(x)) /\ White(After(x, d)[1]) \subseteq White(c)
    <2>1. [c EXCEPT ![a] = 1] \in Colors
      BY <1>2 DEF Colors
    <2>2. Into(x) \in Calls /\ Into(x)[1] = [c EXCEPT ![a] = 1]
      BY <2>1, PrereqsAreActions DEF Into, Calls, a
    <2>3. White(Into(x)[1]) \subseteq White(c) /\ a \notin White(Into(x)[1]) /\ a \in White(c)
      BY <1>2, <1>5, <2>2 DEF White, Colors
    <2>4. Into(x) \in Below(CallSize(x))
      BY <2>2, <2>3, Sizes DEF Below
    <2>5. ASSUME NEW d \in Colors, White(d) \subseteq White(Into(x)[1])
          PROVE  After(x, d) \in Below(CallSize(x)) /\ White(After(x, d)[1]) \subseteq White(c)
      <3>1. [d EXCEPT ![a] = 2] \in Colors
        BY <1>2, <2>5 DEF Colors
      <3>2. After(x, d) \in Calls /\ After(x, d)[1] = [d EXCEPT ![a] = 2]
        BY <1>2, <3>1 DEF After, Calls, a
      <3>3. White(After(x, d)[1]) \subseteq White(d)
        BY <1>2, <3>2 DEF White, Colors
      <3>4. White(After(x, d)[1]) \subseteq White(c) /\ White(After(x, d)[1]) # White(c)
        BY <2>3, <2>5, <3>3
      <3>5. QED BY <3>2, <3>4, Sizes DEF Below
    <2>6. QED BY <2>3, <2>4, <2>5
  <1>6. QED BY <1>1, <1>2, <1>3, <1>4, <1>5 DEF a

\* Functions that agree on the calls a call makes give it the same answer; it never has more left to visit.
LEMMA VisitsAgree ==
    ASSUME IsFiniteSet(def.actions), NEW x \in Calls, NEW f, NEW g,
           \A y \in Below(CallSize(x)) : f[y] = g[y] /\ f[y] \in Results /\ White(f[y].color) \subseteq White(y[1])
    PROVE  Visit(f, x) = Visit(g, x) /\ Visit(f, x) \in Results /\ White(Visit(f, x).color) \subseteq White(x[1])
  <1>1. CASE x[2] = {}
    BY <1>1 DEF Visit, Results, Calls
  <1>2. CASE x[2] # {} /\ x[1][Taken(x)] = 1
    BY <1>2 DEF Visit, Results, Calls
  <1>3. CASE x[2] # {} /\ x[1][Taken(x)] = 2
    <2>1. Past(x) \in Below(CallSize(x)) /\ Past(x)[1] = x[1]
      BY <1>3, CallsAreSmaller
    <2>2. Visit(f, x) = f[Past(x)] /\ Visit(g, x) = g[Past(x)]
      BY <1>3 DEF Visit
    <2>3. QED BY <2>1, <2>2
  <1>4. CASE x[2] # {} /\ x[1][Taken(x)] = 0
    <2> DEFINE i == f[Into(x)]
               y == After(x, i.color)
    <2>1. Into(x) \in Below(CallSize(x)) /\ White(Into(x)[1]) \subseteq White(x[1])
      BY <1>4, CallsAreSmaller
    <2>2. i \in Results /\ i.color \in Colors /\ White(i.color) \subseteq White(Into(x)[1]) /\ g[Into(x)] = i
      BY <2>1 DEF Results
    <2>3. y \in Below(CallSize(x)) /\ White(y[1]) \subseteq White(x[1])
      BY <1>4, <2>2, CallsAreSmaller
    <2>4. f[y] = g[y] /\ f[y] \in Results /\ White(f[y].color) \subseteq White(x[1])
      BY <2>3
    <2>5. Visit(f, x) = IF i.cycle THEN i ELSE f[y]
      BY <1>4 DEF Visit
    <2>6. Visit(g, x) = IF i.cycle THEN i ELSE g[y]
      BY <1>4, <2>2 DEF Visit
    <2> HIDE DEF i, y
    <2>7. QED BY <2>1, <2>2, <2>4, <2>5, <2>6
  <1>5. x[2] = {} \/ x[1][Taken(x)] \in 0 .. 2
    BY CallsAreSmaller
  <1>6. QED BY <1>1, <1>2, <1>3, <1>4, <1>5

IsDfs(f, n) ==
    /\ f \in [Below(n) -> Results]
    /\ \A x \in Below(n) : f[x] = Visit(f, x) /\ White(f[x].color) \subseteq White(x[1])

LEMMA DfsExists ==
    ASSUME IsFiniteSet(def.actions)
    PROVE  \A n \in Nat : \E f : IsDfs(f, n)
  <1> DEFINE S == {n \in Nat : \E f : IsDfs(f, n)}
  <1>0. \A x \in Calls : CallSize(x) \in Nat
    BY Sizes
  <1>1. 0 \in S
    <2> DEFINE f == [x \in Below(0) |-> [color |-> x[1], cycle |-> FALSE]]
    <2>1. Below(0) = {}
      BY <1>0 DEF Below
    <2>2. IsDfs(f, 0)
      BY <2>1 DEF IsDfs
    <2>3. QED BY <2>2
  <1>2. ASSUME NEW n \in S PROVE n + 1 \in S
    <2>1. PICK f : IsDfs(f, n)
      OBVIOUS
    <2> DEFINE h == [x \in Below(n + 1) |-> Visit(f, x)]
    <2>2. ASSUME NEW x \in Below(n + 1), NEW y \in Below(CallSize(x)) PROVE y \in Below(n) /\ y \in Below(n + 1)
      BY <1>0 DEF Below
    <2>3. \A x \in Below(n) : x \in Below(n + 1) /\ h[x] = f[x]
      BY <1>0, <2>1 DEF Below, IsDfs
    <2>4. ASSUME NEW x \in Below(n + 1)
          PROVE  /\ h[x] = Visit(h, x) /\ h[x] \in Results
                 /\ White(h[x].color) \subseteq White(x[1])
      <3>1. x \in Calls /\ h[x] = Visit(f, x)
        BY DEF Below
      <3> HIDE DEF h
      <3>2. \A y \in Below(CallSize(x)) : f[y] = h[y] /\ f[y] \in Results /\ White(f[y].color) \subseteq White(y[1])
        BY <2>1, <2>2, <2>3 DEF IsDfs
      <3>3. QED BY <3>1, <3>2, VisitsAgree
    <2>5. h = [x \in Below(n + 1) |-> h[x]]
      OBVIOUS
    <2> HIDE DEF h
    <2>6. IsDfs(h, n + 1)
      BY <2>4, <2>5 DEF IsDfs
    <2>7. QED BY <2>6
  <1> HIDE DEF S
  <1>3. S = Nat
    <2>1. S \in SUBSET Nat
      BY DEF S
    <2>2. QED BY <1>1, <1>2, <2>1, Induct
  <1>4. QED BY <1>3 DEF S

LEMMA DfsAgree ==
    ASSUME IsFiniteSet(def.actions), NEW m \in Nat, NEW n \in Nat, NEW f, NEW g, IsDfs(f, m), IsDfs(g, n)
    PROVE  \A x \in Below(m) \cap Below(n) : f[x] = g[x]
  <1> DEFINE S == {k \in Nat : \A x \in Below(m) \cap Below(n) : CallSize(x) < k => f[x] = g[x]}
  <1>0. \A x \in Below(m) \cap Below(n) : x \in Calls /\ CallSize(x) \in Nat /\ CallSize(x) < m /\ CallSize(x) < n
    BY Sizes DEF Below
  <1>1. 0 \in S
    BY <1>0
  <1>2. ASSUME NEW k \in S PROVE k + 1 \in S
    <2>1. SUFFICES ASSUME NEW x \in Below(m) \cap Below(n), CallSize(x) < k + 1 PROVE f[x] = g[x]
      OBVIOUS
    <2>2. ASSUME NEW y \in Below(CallSize(x))
          PROVE  f[y] = g[y] /\ f[y] \in Results /\ White(f[y].color) \subseteq White(y[1])
      <3>1. y \in Calls /\ CallSize(y) \in Nat /\ CallSize(y) < CallSize(x)
        BY Sizes DEF Below
      <3>2. y \in Below(m) \cap Below(n) /\ CallSize(y) < k
        BY <1>0, <2>1, <3>1 DEF Below
      <3>3. QED BY <3>2 DEF IsDfs
    <2>3. f[x] = Visit(f, x) /\ g[x] = Visit(g, x)
      BY DEF IsDfs
    <2>4. Visit(f, x) = Visit(g, x)
      BY <1>0, <2>2, VisitsAgree
    <2>5. QED BY <2>3, <2>4
  <1> HIDE DEF S
  <1>3. S = Nat
    <2>1. S \in SUBSET Nat
      BY DEF S
    <2>2. QED BY <1>1, <1>2, <2>1, Induct
  <1>4. QED
    <2>1. ASSUME NEW x \in Below(m) \cap Below(n) PROVE f[x] = g[x]
      <3>1. m \in S /\ CallSize(x) < m
        BY <1>0, <1>3
      <3>2. QED BY <3>1 DEF S
    <2>2. QED BY <2>1

LEMMA DfsIs ==
    ASSUME IsFiniteSet(def.actions)
    PROVE  \A x \in Calls : Dfs[x] = Visit(Dfs, x) /\ Dfs[x] \in Results /\ White(Dfs[x].color) \subseteq White(x[1])
  <1> DEFINE g(n) == CHOOSE f : IsDfs(f, n)
             F == [x \in Calls |-> g(CallSize(x) + 1)[x]]
             Equation(f) == f = [x \in Calls |-> Visit(f, x)]
  <1>0. \A x \in Calls : CallSize(x) \in Nat /\ CallSize(x) + 1 \in Nat /\ x \in Below(CallSize(x) + 1)
    BY Sizes DEF Below
  <1>1. \A n \in Nat : IsDfs(g(n), n)
    BY DfsExists
  <1> HIDE DEF g
  <1>2. ASSUME NEW x \in Calls
        PROVE  F[x] = Visit(F, x) /\ F[x] \in Results /\ White(F[x].color) \subseteq White(x[1])
    <2> DEFINE n == CallSize(x) + 1
    <2>1. IsDfs(g(n), n) /\ F[x] = g(n)[x] /\ x \in Below(n)
      BY <1>0, <1>1
    <2>2. ASSUME NEW y \in Below(CallSize(x))
          PROVE  g(n)[y] = F[y] /\ g(n)[y] \in Results /\ White(g(n)[y].color) \subseteq White(y[1])
      <3>1. y \in Calls /\ CallSize(y) < CallSize(x)
        BY DEF Below
      <3>2. y \in Below(n) /\ y \in Below(CallSize(y) + 1) /\ n \in Nat /\ CallSize(y) + 1 \in Nat
        BY <1>0, <3>1 DEF Below
      <3>3. IsDfs(g(CallSize(y) + 1), CallSize(y) + 1)
        BY <1>1, <3>2
      <3>4. F[y] = g(CallSize(y) + 1)[y]
        BY <3>1
      <3> HIDE DEF n, F
      <3>5. g(n)[y] = g(CallSize(y) + 1)[y]
        BY <2>1, <3>2, <3>3, DfsAgree
      <3>6. QED BY <2>1, <3>2, <3>4, <3>5 DEF IsDfs
    <2> HIDE DEF n, F
    <2>3. Visit(g(n), x) = Visit(F, x)
      BY <2>2, VisitsAgree
    <2>4. g(n)[x] = Visit(g(n), x) /\ g(n)[x] \in Results /\ White(g(n)[x].color) \subseteq White(x[1])
      BY <2>1 DEF IsDfs
    <2>5. QED BY <2>1, <2>3, <2>4
  <1>3. Equation(F)
    <2>1. F = [x \in Calls |-> F[x]]
      OBVIOUS
    <2> HIDE DEF F
    <2>2. QED BY <1>2, <2>1
  <1> HIDE DEF F
  <1>4. Equation(Dfs)
    <2>1. Dfs = CHOOSE f : Equation(f)
      BY DEF Dfs, DfsCalls, Visit, Calls, Colors, Taken, Past, Into, After, OnStack
    <2> HIDE DEF Equation
    <2>2. QED BY <1>3, <2>1
  <1>5. \A x \in Calls : Dfs[x] = Visit(Dfs, x)
    BY <1>4
  <1> DEFINE Bounded(x) == Dfs[x] \in Results /\ White(Dfs[x].color) \subseteq White(x[1])
             S == {k \in Nat : \A x \in Calls : CallSize(x) < k => Bounded(x)}
  <1>6. 0 \in S
    BY <1>0
  <1>7. ASSUME NEW k \in S PROVE k + 1 \in S
    <2>1. ASSUME NEW x \in Calls, CallSize(x) < k + 1 PROVE Bounded(x)
      <3>1. ASSUME NEW y \in Below(CallSize(x)) PROVE Bounded(y)
        <4>1. y \in Calls /\ CallSize(y) \in Nat /\ CallSize(y) < CallSize(x) /\ CallSize(x) \in Nat
          BY <1>0 DEF Below
        <4>2. CallSize(y) < k
          BY <2>1, <4>1
        <4>3. QED BY <4>1, <4>2
      <3>2. Dfs[x] = Visit(Dfs, x)
        BY <1>5
      <3>3. QED BY <3>1, <3>2, VisitsAgree
    <2>2. QED BY <2>1
  <1> HIDE DEF S
  <1>8. S = Nat
    <2>1. S \in SUBSET Nat
      BY DEF S
    <2>2. QED BY <1>6, <1>7, <2>1, Induct
  <1>9. ASSUME NEW x \in Calls PROVE Bounded(x)
    <2>1. CallSize(x) + 1 \in S /\ CallSize(x) < CallSize(x) + 1
      BY <1>0, <1>8
    <2>2. QED BY <2>1 DEF S
  <1>10. QED BY <1>5, <1>9

-----------------------------------------------------------------------------
(***************************************************************************)
(* What a search finds.  The actions on the stack form a chain: each has   *)
(* the next as a prerequisite, and what is left to visit are prerequisites *)
(* of the last.  So one of those that is on the stack closes a trap:       *)
(* actions each of which waits for another of them.  And an action that is *)
(* done with has all its prerequisites done with, so it is reachable.      *)
(***************************************************************************)
Trap(S) == S \subseteq def.actions /\ S # {} /\ \A a \in S : Prereqs(a) \cap S # {}
Chain(color, todo) ==
    Gray(color) # {} => \E top \in Gray(color) :
        /\ todo \subseteq Prereqs(top)
        /\ \A a \in Gray(color) \ {top} : Prereqs(a) \cap Gray(color) # {}
Pre(x) == Chain(x[1], x[2]) /\ Black(x[1]) \subseteq Reachable
Post(x, r) ==
    IF r.cycle THEN \E S : Trap(S)
    ELSE /\ Gray(r.color) = Gray(x[1])
         /\ Black(x[1]) \subseteq Black(r.color)
         /\ x[2] \subseteq Black(r.color)
         /\ Black(r.color) \subseteq Reachable

LEMMA SearchStep ==
    ASSUME IsFiniteSet(def.actions), NEW x \in Calls, Pre(x),
           \A y \in Below(CallSize(x)) : Pre(y) => Post(y, Dfs[y])
    PROVE  Post(x, Dfs[x])
  <1>1. Dfs[x] = Visit(Dfs, x)
    BY DfsIs
  <1>2. CASE x[2] = {}
    BY <1>1, <1>2 DEF Visit, Post, Pre
  <1> DEFINE a == Taken(x)
             c == x[1]
             T == x[2]
  <1>3. T # {} => a \in T /\ a \in def.actions /\ c[a] \in 0 .. 2
    BY CallsAreSmaller
  <1>4. c \in Colors /\ T \subseteq def.actions
    BY DEF Calls
  <1>5. CASE T # {} /\ c[a] = 1
    <2>1. a \in Gray(c) /\ Dfs[x].cycle
      BY <1>1, <1>3, <1>5 DEF Gray, Visit
    <2>2. PICK top \in Gray(c) : T \subseteq Prereqs(top) /\ \A b \in Gray(c) \ {top} : Prereqs(b) \cap Gray(c) # {}
      BY <2>1 DEF Pre, Chain
    <2>3. \A b \in Gray(c) : Prereqs(b) \cap Gray(c) # {}
      BY <1>3, <1>5, <2>1, <2>2
    <2>4. Trap(Gray(c))
      BY <2>1, <2>3 DEF Trap, Gray
    <2>5. QED BY <2>1, <2>4 DEF Post
  <1>6. CASE T # {} /\ c[a] = 2
    <2> DEFINE y == Past(x)
    <2>1. y \in Below(CallSize(x)) /\ y[1] = c /\ y[2] = T \ {a} /\ Dfs[x] = Dfs[y]
      BY <1>1, <1>6, CallsAreSmaller DEF Visit, Past
    <2>2. a \in Black(c)
      BY <1>3, <1>6 DEF Black
    <2> HIDE DEF y, a
    <2>3. Pre(y)
      BY <2>1 DEF Pre, Chain
    <2>4. Post(y, Dfs[y])
      BY <2>1, <2>3
    <2>5. QED BY <2>1, <2>2, <2>4 DEF Post
  <1>7. CASE T # {} /\ c[a] = 0
    <2> DEFINE y == Into(x)
               i == Dfs[y]
               z == After(x, i.color)
    <2>1. y \in Below(CallSize(x)) /\ y \in Calls
      BY <1>7, CallsAreSmaller DEF Below
    <2>2. i \in Results /\ i.color \in Colors /\ White(i.color) \subseteq White(y[1])
      BY <2>1, DfsIs DEF Results
    <2>3. z \in Below(CallSize(x))
      BY <1>7, <2>2, CallsAreSmaller
    <2>4. Dfs[x] = IF i.cycle THEN i ELSE Dfs[z]
      BY <1>1, <1>7 DEF Visit
    <2>5. y[1] = [c EXCEPT ![a] = 1] /\ y[2] = Prereqs(a)
      BY DEF Into
    <2>6. z[1] = [i.color EXCEPT ![a] = 2] /\ z[2] = T \ {a}
      BY DEF After
    <2> HIDE DEF y, z, i, a
    <2>7. Gray(y[1]) = Gray(c) \cup {a} /\ Black(y[1]) = Black(c) /\ a \notin Gray(c)
      BY <1>3, <1>4, <1>7, <2>5 DEF Gray, Black, Colors
    <2>8. Pre(y)
      <3>1. \A b \in Gray(y[1]) \ {a} : Prereqs(b) \cap Gray(y[1]) # {}
        <4>1. SUFFICES ASSUME NEW b \in Gray(c) PROVE Prereqs(b) \cap (Gray(c) \cup {a}) # {}
          BY <2>7
        <4>2. PICK top \in Gray(c) : T \subseteq Prereqs(top) /\ \A d \in Gray(c) \ {top} : Prereqs(d) \cap Gray(c) # {}
          BY DEF Pre, Chain
        <4>3. QED BY <1>3, <1>7, <4>2
      <3>2. Chain(y[1], y[2])
        BY <2>5, <2>7, <3>1 DEF Chain
      <3>3. QED BY <2>7, <3>2 DEF Pre
    <2>9. Post(y, i)
      BY <2>1, <2>8 DEF i
    <2>10. CASE i.cycle
      BY <2>4, <2>9, <2>10 DEF Post
    <2>11. CASE ~i.cycle
      <3>1. /\ Gray(i.color) = Gray(c) \cup {a} /\ Black(c) \subseteq Black(i.color)
            /\ Prereqs(a) \subseteq Reachable /\ Black(i.color) \subseteq Reachable
        BY <2>5, <2>7, <2>9, <2>11 DEF Post
      <3>2. a \in Reachable
        BY <1>3, <1>7, <3>1, ReachableIsClosed DEF Executable
      <3>3. Gray(z[1]) = Gray(i.color) \ {a} /\ Black(z[1]) = Black(i.color) \cup {a}
        BY <1>3, <1>7, <2>2, <2>6 DEF Gray, Black, Colors
      <3>4. Gray(z[1]) = Gray(c)
        BY <2>7, <3>1, <3>3
      <3>5. Pre(z)
        BY <2>6, <3>1, <3>2, <3>3, <3>4 DEF Pre, Chain
      <3>6. Post(z, Dfs[z])
        BY <2>3, <3>5
      <3>7. QED BY <2>4, <2>6, <2>11, <3>1, <3>3, <3>4, <3>6 DEF Post
    <2>12. QED BY <2>10, <2>11
  <1>8. QED BY <1>2, <1>3, <1>5, <1>6, <1>7

LEMMA SearchesAreRight ==
    ASSUME IsFiniteSet(def.actions)
    PROVE  \A x \in Calls : Pre(x) => Post(x, Dfs[x])
  <1> DEFINE Right(x) == Pre(x) => Post(x, Dfs[x])
             S == {k \in Nat : \A x \in Calls : CallSize(x) < k => Right(x)}
  <1>0. \A x \in Calls : CallSize(x) \in Nat
    BY Sizes
  <1>1. 0 \in S
    BY <1>0
  <1>2. ASSUME NEW k \in S PROVE k + 1 \in S
    <2>1. ASSUME NEW x \in Calls, CallSize(x) < k + 1 PROVE Right(x)
      <3>1. ASSUME NEW y \in Below(CallSize(x)) PROVE Right(y)
        <4>1. y \in Calls /\ CallSize(y) \in Nat /\ CallSize(y) < CallSize(x) /\ CallSize(x) \in Nat
          BY <1>0 DEF Below
        <4>2. CallSize(y) < k
          BY <2>1, <4>1
        <4>3. QED BY <4>1, <4>2
      <3>2. QED BY <3>1, SearchStep
    <2>2. QED BY <2>1
  <1> HIDE DEF S
  <1>3. S = Nat
    <2>1. S \in SUBSET Nat
      BY DEF S
    <2>2. QED BY <1>1, <1>2, <2>1, Induct
  <1>4. ASSUME NEW x \in Calls PROVE Right(x)
    <2>1. CallSize(x) + 1 \in S /\ CallSize(x) < CallSize(x) + 1
      BY <1>0, <1>3
    <2>2. QED BY <2>1 DEF S
  <1>5. QED BY <1>4

LEMMA SearchesDoAgree ==
    ASSUME IsFiniteSet(def.actions)
    PROVE  SearchesAgree
  <1> DEFINE c == [a \in def.actions |-> 0]
             x == <<c, def.actions>>
             r == Dfs[x]
  <1>1. c \in Colors /\ x \in Calls /\ x[1] = c /\ x[2] = def.actions
    BY DEF Calls, Colors
  <1>2. Gray(c) = {} /\ Black(c) = {}
    BY DEF Gray, Black
  <1>3. HasCycle = r.cycle
    BY DEF HasCycle
  <1> HIDE DEF r, x, c
  <1>4. Pre(x)
    BY <1>1, <1>2 DEF Pre, Chain
  <1>5. Post(x, r)
    BY <1>1, <1>4, SearchesAreRight DEF r
  <1>6. r.cycle \in BOOLEAN
    BY <1>1, DfsIs DEF r, Results
  <1>7. CASE r.cycle
    <2>1. PICK S : Trap(S)
      BY <1>5, <1>7 DEF Post
    <2>2. Executable(def.actions \ S) \subseteq def.actions \ S
      BY <2>1 DEF Trap, Executable
    <2>3. Reachable \subseteq def.actions \ S
      BY <2>2, ReachedInClosed, ReachableIsClosed DEF Reachable
    <2>4. QED BY <1>3, <1>7, <2>1, <2>3 DEF SearchesAgree, Trap
  <1>8. CASE ~r.cycle
    <2>1. def.actions \subseteq Reachable
      BY <1>1, <1>5, <1>8 DEF Post
    <2>2. QED BY <1>3, <1>8, <2>1, ReachableIsClosed DEF SearchesAgree
  <1>9. QED BY <1>6, <1>7, <1>8

-----------------------------------------------------------------------------
(***************************************************************************)
(* The builder.  What it merges names actions only, so they stay finitely  *)
(* many, whatever is ingested and however it is patched.                   *)
(***************************************************************************)
NamesHold == def.actions \subseteq ActionNames

LEMMA StepsMerge ==
    BuilderNext => \E p \in Documents \cup Patches : patch' = p /\ def' = Merge(def, p)
  BY DEF BuilderNext, Ingest, BuildTurn

LEMMA PatchesNameActions ==
    \A p \in Documents \cup Patches : DOMAIN p.actions = ActionNames
  <1> DEFINE Names(p) == DOMAIN p.actions = ActionNames
  <1>1. ASSUME NEW p \in Documents PROVE Names(p)
    BY DEF Documents
  <1>2. ASSUME NEW p \in Patches PROVE Names(p)
    <2>1. CASE p \in {PutAction(a, R, I) : a \in ActionNames, R \in SUBSET DepNames, I \in SUBSET DepNames}
      <3>1. \A a, R, I : Names(PutAction(a, R, I))
        BY DEF PutAction, NoPatch
      <3> HIDE DEF Names
      <3>2. QED BY <2>1, <3>1
    <2>2. CASE p \in {[NoPatch EXCEPT !.actions[a] = Drop] : a \in ActionNames}
      BY <2>2 DEF NoPatch
    <2>3. CASE p \in {[NoPatch EXCEPT !.states[s] = x] : s \in StateNames, x \in {Add, Drop}}
      BY <2>3 DEF NoPatch
    <2>4. CASE p \in {[NoPatch EXCEPT !.deps[d] = x] : d \in DepNames, x \in {Add, Drop}}
      BY <2>4 DEF NoPatch
    <2>5. CASE p \in {[NoPatch EXCEPT !.edges = {e}] : e \in Offered}
      BY <2>5 DEF NoPatch
    <2>6. CASE p \in {[NoPatch EXCEPT !.markers = {s}] : s \in StateNames}
      BY <2>6 DEF NoPatch
    <2> HIDE DEF Names
    <2>7. QED BY <2>1, <2>2, <2>3, <2>4, <2>5, <2>6 DEF Patches
  <1>3. QED BY <1>1, <1>2

(***************************************************************************)
(* The lint (sop_graph.py) can be relied on, for any definition: its       *)
(* search by colours reports a cycle exactly if its reachability leaves    *)
(* an action out, and what passes it can be carried out in any order.      *)
(***************************************************************************)
THEOREM LintHolds == BuilderSpec => []LintIsSound
  <1>1. BuilderInit => NamesHold
    BY DEF BuilderInit, NamesHold
  <1>2. NamesHold /\ [BuilderNext]_builderVars => NamesHold'
    <2>1. ASSUME NamesHold, NEW p \in Documents \cup Patches, def' = Merge(def, p) PROVE NamesHold'
      <3>1. DOMAIN p.actions = ActionNames
        BY PatchesNameActions
      <3>2. def'.actions = MergeNamed(def.actions, p.actions)
        BY <2>1 DEF Merge
      <3>3. QED BY <2>1, <3>1, <3>2 DEF MergeNamed, Adds, NamesHold
    <2>2. CASE UNCHANGED builderVars
      BY <2>2 DEF builderVars, NamesHold
    <2>3. QED BY <2>1, <2>2, StepsMerge
  <1>3. NamesHold => LintIsSound
    <2>1. NamesHold => IsFiniteSet(def.actions)
      BY BuilderAssumption, FS_Subset DEF NamesHold
    <2>2. QED BY <2>1, SearchesDoAgree, CleanIsExecutable DEF LintIsSound
  <1>4. QED BY <1>1, <1>2, <1>3, PTL DEF BuilderSpec

(***************************************************************************)
(* merge_patch (builder.py): a patch changes what it names, loses no edge, *)
(* and what its actions bring along is declared afterwards.                *)
(***************************************************************************)
THEOREM PatchesKeepTheRest == BuilderSpec => PatchesChangeWhatTheyName
  <1> DEFINE Kept ==
        /\ \A a \in ActionNames : patch'.actions[a] = Keep =>
             (a \in def'.actions <=> a \in def.actions) /\ def'.refs[a] = def.refs[a]
        /\ \A s \in StateNames : patch'.states[s] = Keep => (s \in def'.states <=> s \in def.states)
        /\ \A d \in DepNames : patch'.deps[d] = Keep => (d \in def.deps => d \in def'.deps)
        /\ def.edges \subseteq def'.edges
        /\ patch'.inline \subseteq def'.deps
  <1>1. ASSUME NEW p, patch' = p, def' = Merge(def, p) PROVE Kept
    <2>1. \A E : \A n : E[n] = Keep => n \notin Adds(E) /\ n \notin Deletes(E)
      BY DEF Adds, Deletes, Keep, Add, Drop
    <2>2. \A a \in ActionNames : p.actions[a] = Keep =>
            (a \in def'.actions <=> a \in def.actions) /\ def'.refs[a] = def.refs[a]
      <3>1. def'.actions = MergeNamed(def.actions, p.actions)
        BY <1>1 DEF Merge
      <3>2. \A a \in ActionNames : p.actions[a] = Keep => def'.refs[a] = def.refs[a]
        BY <1>1 DEF Merge, Keep, Add, Drop
      <3>3. QED BY <2>1, <3>1, <3>2 DEF MergeNamed
    <2>3. def'.states = MergeNamed(def.states, p.states) /\ def'.deps = MergeNamed(def.deps, p.deps) \cup p.inline
      BY <1>1 DEF Merge
    <2>4. def.edges \subseteq def'.edges
      BY <1>1 DEF Merge
    <2>5. QED BY <1>1, <2>1, <2>2, <2>3, <2>4 DEF MergeNamed
  <1>2. BuilderNext => Kept
    BY <1>1, StepsMerge
  <1>3. QED BY <1>2, PTL DEF BuilderSpec, PatchesChangeWhatTheyName

-----------------------------------------------------------------------------
(***************************************************************************)
(* The schema of a configuration, for any paths, options and number of     *)
(* fields.                                                                 *)
(*                                                                         *)
(* A schema that was accepted has every path once (FieldsPass), so a       *)
(* configuration can be made of one value for each field (Suited).         *)
(***************************************************************************)
FieldsPass ==
    accepted \in {"saved", "rendered"} =>
        /\ \E n \in Nat : schema \in [1 .. n -> Field]
        /\ \A i \in DOMAIN schema : ~Refused(schema, i)
SchemasInv ==
    /\ FieldsPass
    /\ accepted = "rendered" =>
          rendered.config \in Configurations /\ rendered.notes = Notes(schema, rendered.config)

LEMMA SchemasInitOk == SchemasInit => SchemasInv
  BY DEF SchemasInit, SchemasInv, FieldsPass

LEMMA SchemasStep == SchemasInv /\ [SchemasNext]_schemaVars => SchemasInv'
  <1> SUFFICES ASSUME SchemasInv, [SchemasNext]_schemaVars PROVE SchemasInv'
    OBVIOUS
  <1>1. ASSUME NEW n \in 0 .. MaxFields, NEW fields \in [1 .. n -> Field], SaveSchema(fields) PROVE SchemasInv'
    <2>1. n \in Nat /\ schema' = fields /\ accepted' \in {"refused", "saved"}
      BY <1>1, SchemasAssumption DEF SaveSchema
    <2>2. accepted' = "saved" => \A i \in DOMAIN fields : ~Refused(fields, i)
      BY <1>1 DEF SaveSchema
    <2>3. FieldsPass'
      BY <2>1, <2>2 DEF FieldsPass, Refused
    <2>4. QED BY <2>1, <2>3 DEF SchemasInv
  <1>2. ASSUME NEW config \in Configurations, Render(config) PROVE SchemasInv'
    <2>1. /\ accepted = "saved" /\ accepted' = "rendered" /\ schema' = schema
          /\ rendered'.config = config /\ rendered'.notes = Notes(schema, config)
      BY <1>2 DEF Render
    <2>2. FieldsPass'
      BY <2>1 DEF SchemasInv, FieldsPass, Refused
    <2>3. Configurations' = Configurations /\ Notes(schema, config) = Notes(schema, config)'
      BY <2>1 DEF Configurations, Notes
    <2>4. QED BY <2>1, <2>2, <2>3 DEF SchemasInv
  <1>3. CASE UNCHANGED schemaVars
    <2>1. schema' = schema /\ accepted' = accepted /\ rendered' = rendered
      BY <1>3 DEF schemaVars
    <2>2. FieldsPass'
      BY <2>1 DEF SchemasInv, FieldsPass, Refused
    <2>3. Configurations' = Configurations /\ Notes(schema, rendered.config) = Notes(schema, rendered.config)'
      BY <2>1 DEF Configurations, Notes
    <2>4. QED BY <2>1, <2>2, <2>3 DEF SchemasInv
  <1>4. QED BY <1>1, <1>2, <1>3 DEF SchemasNext

\* Two fields of an accepted schema have two paths.
LEMMA PathsDiffer ==
    ASSUME SchemasInv, accepted \in {"saved", "rendered"}
    PROVE  \A i, j \in DOMAIN schema : schema[i].path = schema[j].path => i = j
  <1> PICK n \in Nat : schema \in [1 .. n -> Field]
    BY DEF SchemasInv, FieldsPass
  <1>1. ASSUME NEW i \in 1 .. n, NEW j \in 1 .. n, i < j PROVE schema[i].path # schema[j].path
    <2>1. i \in 1 .. j - 1 /\ ~Refused(schema, j)
      BY <1>1 DEF SchemasInv, FieldsPass
    <2>2. QED BY <2>1 DEF Refused
  <1>2. QED BY <1>1

\* A value a field takes without a note, if there is any.
Suited(f) ==
    CASE f.type = "number" -> Value("int", "1")
      [] f.type = "boolean" -> Value("bool", "True")
      [] f.type = "enum" /\ f.options \notin {NoOptions, {}} ->
            IF f.options = {""} THEN Nil ELSE Value("str", CHOOSE o \in f.options : o # "")
      [] OTHER -> Value("str", "text")

LEMMA Texts ==
    \A o : o # "" => ~IsUnset(Value("str", o)) /\ Value("str", o).text = o
  <1> TAKE o
  <1> HAVE o # ""
  <1>1. Value("str", o).type = "str" /\ Value("str", o).text = o /\ Nil.type = "none"
    BY DEF Value, Nil
  <1>2. QED BY <1>1 DEF IsUnset

LEMMA SuitedFits ==
    ASSUME NEW f \in Field, ~(f.required /\ f.options = {""})
    PROVE  Suited(f) \in Values /\ NoteOf(f, Suited(f)) = ""
  <1>1. CASE f.type = "number"
    BY <1>1 DEF Suited, Values, NoteOf, IsUnset, Mistyped, Value, Nil
  <1>2. CASE f.type = "boolean"
    BY <1>2 DEF Suited, Values, NoteOf, IsUnset, Mistyped, Value, Nil
  <1>3. CASE f.type = "enum" /\ f.options \notin {NoOptions, {}}
    <2>1. CASE f.options = {""}
      <3>1. Suited(f) = Nil /\ ~f.required
        BY <1>3, <2>1 DEF Suited
      <3>2. QED BY <3>1 DEF NoteOf, IsUnset, Values
    <2>2. CASE f.options # {""}
      <3> DEFINE o == CHOOSE x \in f.options : x # ""
      <3>1. o \in f.options /\ o # ""
        BY <1>3, <2>2
      <3>2. f.options \in OptionSets
        BY <1>3 DEF Field
      <3>3. Suited(f) = Value("str", o)
        BY <1>3, <2>2 DEF Suited
      <3> HIDE DEF o
      <3>4. Suited(f) \in Values
        BY <3>1, <3>2, <3>3 DEF Values
      <3>5. ~IsUnset(Suited(f)) /\ Suited(f).text = o
        BY <3>1, <3>3, Texts
      <3>6. ~Mistyped(f, Suited(f))
        BY <1>3, <3>1, <3>5 DEF Mistyped
      <3>7. QED BY <3>4, <3>5, <3>6 DEF NoteOf
    <2>3. QED BY <2>1, <2>2
  <1>4. CASE ~(f.type = "number") /\ ~(f.type = "boolean") /\ ~(f.type = "enum" /\ f.options \notin {NoOptions, {}})
    <2>1. Suited(f) = Value("str", "text")
      BY <1>4 DEF Suited
    <2>2. ~IsUnset(Suited(f))
      BY <2>1, Texts
    <2>3. ~Mistyped(f, Suited(f))
      BY <1>4 DEF Mistyped
    <2>4. Suited(f) \in Values
      BY <2>1 DEF Values
    <2>5. QED BY <2>2, <2>3, <2>4 DEF NoteOf
  <1>5. QED BY <1>1, <1>2, <1>3, <1>4

LEMMA SchemasCanBeMet == SchemasInv => AcceptedSchemasCanBeMet
  <1> SUFFICES ASSUME SchemasInv, accepted = "saved", ~\E i \in DOMAIN schema : schema[i].required /\ schema[i].options = {""}
               PROVE  \E config \in Configurations : DOMAIN Notes(schema, config) = {}
    BY DEF AcceptedSchemasCanBeMet
  <1> DEFINE paths == {schema[i].path : i \in DOMAIN schema}
             at(p) == CHOOSE i \in DOMAIN schema : schema[i].path = p
             config == [p \in paths |-> Suited(schema[at(p)])]
  <1>1. \A i \in DOMAIN schema : at(schema[i].path) = i
    BY PathsDiffer
  <1>2. \A i \in DOMAIN schema : schema[i] \in Field
    BY DEF SchemasInv, FieldsPass
  <1>3. ASSUME NEW i \in DOMAIN schema
        PROVE  config[schema[i].path] = Suited(schema[i])
    <2>1. schema[i].path \in paths
      OBVIOUS
    <2> HIDE DEF paths, at
    <2>2. QED BY <1>1, <2>1
  <1>4. ASSUME NEW i \in DOMAIN schema
        PROVE  Suited(schema[i]) \in Values /\ NoteOf(schema[i], Suited(schema[i])) = ""
    BY <1>2, SuitedFits
  <1>5. config \in Configurations
    <2>1. \A p \in paths : at(p) \in DOMAIN schema
      OBVIOUS
    <2> HIDE DEF at
    <2>2. \A p \in paths : config[p] \in Values
      BY <1>4, <2>1
    <2>3. QED BY <2>2 DEF Configurations
  <1> HIDE DEF config, at, paths
  <1>6. DOMAIN Notes(schema, config) = {}
    BY <1>3, <1>4 DEF Notes
  <1>7. QED BY <1>5, <1>6

LEMMA EmptyIsNoted == SchemasInv => EmptyConfigurationsLackTheRequired
  <1> SUFFICES ASSUME SchemasInv, accepted = "rendered", \A p \in DOMAIN rendered.config : IsUnset(rendered.config[p])
               PROVE  /\ {rendered.notes[i] : i \in DOMAIN rendered.notes}
                            = {<<schema[i].path, "required">> : i \in {j \in DOMAIN schema : schema[j].required}}
                      /\ \A i, j \in DOMAIN rendered.notes : rendered.notes[i] = rendered.notes[j] => i = j
    BY DEF EmptyConfigurationsLackTheRequired
  <1> DEFINE notes == rendered.notes
             lacking == {j \in DOMAIN schema : schema[j].required}
  <1>1. ASSUME NEW i \in DOMAIN schema
        PROVE  NoteOf(schema[i], rendered.config[schema[i].path]) = IF schema[i].required THEN "required" ELSE ""
    <2>1. schema[i].path \in DOMAIN rendered.config
      BY DEF SchemasInv, Configurations
    <2>2. QED BY <2>1 DEF NoteOf
  <1>2. notes = Notes(schema, rendered.config)
    BY DEF SchemasInv
  <1> HIDE DEF notes
  <1>3. notes = [i \in lacking |-> <<schema[i].path, "required">>]
    BY <1>1, <1>2 DEF Notes
  <1>4. \A i, j \in lacking : schema[i].path = schema[j].path => i = j
    BY PathsDiffer
  <1>5. QED BY <1>3, <1>4 DEF notes

(***************************************************************************)
(* What _validate_schema (api/configtools.py) accepts can be met by some   *)
(* configuration, and one without values lacks exactly what is required.   *)
(***************************************************************************)
THEOREM SchemasHold == SchemasSpec => []SchemasAreFair
  <1>1. SchemasInv => SchemasAreFair
    BY SchemasCanBeMet, EmptyIsNoted DEF SchemasAreFair
  <1>2. QED BY <1>1, SchemasInitOk, SchemasStep, PTL DEF SchemasSpec

-----------------------------------------------------------------------------
(***************************************************************************)
(* Sums over finite sets.  SumFunctionOnSet takes element after element,   *)
(* in an order it does not say; of numbers the sum is the same in each.    *)
(***************************************************************************)
One(S) == CHOOSE x \in S : TRUE
Adding(f, g, S) == IF S = {} THEN 0 ELSE f[One(S)] + g[S \ {One(S)}]
SumEquation(g, f, C) == g = [S \in SUBSET C |-> Adding(f, g, S)]
Sums(g, f, C, n) == \A S \in SUBSET C : Cardinality(S) < n => g[S] = Adding(f, g, S)
Summing(g, f, C) == \A S \in SUBSET C : g[S] = Adding(f, g, S)
IsSumming(g, f, C, n) == g = [S \in Smaller(C, n) |-> g[S]] /\ \A S \in Smaller(C, n) : g[S] = Adding(f, g, S)

LEMMA SumIsChosen ==
    ASSUME NEW f, NEW C
    PROVE  SumFunctionOnSet(f, C) = (CHOOSE g : SumEquation(g, f, C))[C]
  BY DEF SumFunctionOnSet, FoldFunctionOnSet, MapThenFoldSet, SumEquation, Adding, One

LEMMA RestIsSmaller ==
    ASSUME NEW C, IsFiniteSet(C), NEW S \in SUBSET C
    PROVE  /\ IsFiniteSet(S) /\ Cardinality(S) \in Nat
           /\ S # {} => One(S) \in S /\ S \ {One(S)} \in Smaller(C, Cardinality(S))
  <1>1. IsFiniteSet(S) /\ Cardinality(S) \in Nat
    BY FS_Subset, FS_CardinalityType
  <1>2. ASSUME S # {} PROVE One(S) \in S /\ S \ {One(S)} \in Smaller(C, Cardinality(S))
    <2>1. One(S) \in S
      BY <1>2 DEF One
    <2>2. Cardinality(S \ {One(S)}) = Cardinality(S) - 1
      BY <1>1, <2>1, FS_RemoveElement
    <2>3. QED BY <1>1, <2>1, <2>2 DEF Smaller
  <1>3. QED BY <1>1, <1>2

LEMMA SummingsAgree ==
    ASSUME NEW C, IsFiniteSet(C), NEW S \in SUBSET C, NEW f, NEW g, NEW h,
           \A T \in Smaller(C, Cardinality(S)) : g[T] = h[T]
    PROVE  Adding(f, g, S) = Adding(f, h, S)
  <1>1. CASE S = {}
    BY <1>1 DEF Adding
  <1>2. CASE S # {}
    <2>1. g[S \ {One(S)}] = h[S \ {One(S)}]
      BY <1>2, RestIsSmaller
    <2>2. QED BY <2>1 DEF Adding
  <1>3. QED BY <1>1, <1>2

LEMMA SummingExists ==
    ASSUME NEW C, IsFiniteSet(C), NEW f
    PROVE  \A n \in Nat : \E g : IsSumming(g, f, C, n)
  <1> DEFINE N == {n \in Nat : \E g : IsSumming(g, f, C, n)}
  <1>0. \A S \in SUBSET C : Cardinality(S) \in Nat
    BY RestIsSmaller
  <1>1. 0 \in N
    <2> DEFINE g == [S \in Smaller(C, 0) |-> 0]
    <2>1. Smaller(C, 0) = {}
      BY <1>0 DEF Smaller
    <2>2. IsSumming(g, f, C, 0)
      BY <2>1 DEF IsSumming
    <2>3. QED BY <2>2
  <1>2. ASSUME NEW n \in N PROVE n + 1 \in N
    <2>1. PICK g : IsSumming(g, f, C, n)
      OBVIOUS
    <2> DEFINE h == [S \in Smaller(C, n + 1) |-> Adding(f, g, S)]
    <2>2. \A S \in Smaller(C, n) : S \in Smaller(C, n + 1) /\ h[S] = g[S]
      BY <1>0, <2>1 DEF Smaller, IsSumming
    <2>3. ASSUME NEW S \in Smaller(C, n + 1) PROVE h[S] = Adding(f, h, S)
      <3>1. S \in SUBSET C /\ h[S] = Adding(f, g, S)
        BY DEF Smaller
      <3>2. \A T \in Smaller(C, Cardinality(S)) : T \in Smaller(C, n)
        BY <1>0, <3>1 DEF Smaller
      <3> HIDE DEF h
      <3>3. \A T \in Smaller(C, Cardinality(S)) : g[T] = h[T]
        BY <2>2, <3>2
      <3>4. QED BY <3>1, <3>3, SummingsAgree
    <2>4. h = [S \in Smaller(C, n + 1) |-> h[S]]
      OBVIOUS
    <2> HIDE DEF h
    <2>5. IsSumming(h, f, C, n + 1)
      BY <2>3, <2>4 DEF IsSumming
    <2>6. QED BY <2>5
  <1> HIDE DEF N
  <1>3. N = Nat
    <2>1. N \in SUBSET Nat
      BY DEF N
    <2>2. QED BY <1>1, <1>2, <2>1, Induct
  <1>4. QED BY <1>3 DEF N

\* Two summings, of any two sets, agree on what is part of both.
LEMMA SummingIsOne ==
    ASSUME NEW C, IsFiniteSet(C), NEW D, IsFiniteSet(D), NEW f, NEW g, NEW h, NEW m \in Nat, NEW n \in Nat,
           Sums(g, f, C, m), Sums(h, f, D, n)
    PROVE  \A S \in SUBSET (C \cap D) : Cardinality(S) < m /\ Cardinality(S) < n => g[S] = h[S]
  <1> DEFINE Both == {S \in SUBSET (C \cap D) : Cardinality(S) < m /\ Cardinality(S) < n}
             N == {k \in Nat : \A S \in Both : Cardinality(S) < k => g[S] = h[S]}
  <1>0. \A S \in Both : S \in SUBSET C /\ S \in SUBSET D /\ Cardinality(S) \in Nat /\ Cardinality(S) < m /\ Cardinality(S) < n
    BY RestIsSmaller
  <1>1. 0 \in N
    BY <1>0
  <1>2. ASSUME NEW k \in N PROVE k + 1 \in N
    <2>1. SUFFICES ASSUME NEW S \in Both, Cardinality(S) < k + 1 PROVE g[S] = h[S]
      OBVIOUS
    <2> DEFINE I == C \cap D
    <2>2. IsFiniteSet(I) /\ S \in SUBSET I
      BY FS_Subset
    <2>3. ASSUME NEW T \in Smaller(I, Cardinality(S)) PROVE g[T] = h[T]
      <3>1. T \in SUBSET I /\ Cardinality(T) \in Nat /\ Cardinality(T) < Cardinality(S)
        BY <2>2, RestIsSmaller DEF Smaller
      <3>2. T \in Both /\ Cardinality(T) < k
        BY <1>0, <2>1, <3>1
      <3>3. QED BY <3>2
    <2>4. g[S] = Adding(f, g, S) /\ h[S] = Adding(f, h, S)
      BY <1>0 DEF Sums
    <2> HIDE DEF I
    <2>5. Adding(f, g, S) = Adding(f, h, S)
      BY <2>2, <2>3, SummingsAgree
    <2>6. QED BY <2>4, <2>5
  <1> HIDE DEF N
  <1>3. N = Nat
    <2>1. N \in SUBSET Nat
      BY DEF N
    <2>2. QED BY <1>1, <1>2, <2>1, Induct
  <1>4. ASSUME NEW S \in Both PROVE g[S] = h[S]
    <2>1. m \in N /\ Cardinality(S) < m
      BY <1>0, <1>3
    <2>2. QED BY <2>1 DEF N
  <1>5. QED BY <1>4

LEMMA SumEquationHolds ==
    ASSUME NEW g, NEW f, NEW C, SumEquation(g, f, C)
    PROVE  Summing(g, f, C)
  <1> SUFFICES ASSUME NEW S \in SUBSET C PROVE g[S] = Adding(f, g, S)
    BY DEF Summing
  <1> DEFINE e(T) == Adding(f, g, T)
             h == [T \in SUBSET C |-> e(T)]
  <1>1. g = h
    BY DEF SumEquation
  <1> HIDE DEF e
  <1>2. h[S] = e(S)
    OBVIOUS
  <1> HIDE DEF h
  <1>3. g[S] = e(S)
    BY <1>1, <1>2
  <1>4. QED BY <1>3 DEF e

LEMMA SumIsSumming ==
    ASSUME NEW f, NEW C, IsFiniteSet(C)
    PROVE  \E g : SumFunctionOnSet(f, C) = g[C] /\ Summing(g, f, C)
  <1> DEFINE G(n) == CHOOSE g : IsSumming(g, f, C, n)
             F == [S \in SUBSET C |-> G(Cardinality(S) + 1)[S]]
  <1>0. \A S \in SUBSET C : Cardinality(S) \in Nat /\ Cardinality(S) + 1 \in Nat /\ S \in Smaller(C, Cardinality(S) + 1)
    <2> TAKE S \in SUBSET C
    <2>1. Cardinality(S) \in Nat
      BY RestIsSmaller
    <2>2. Cardinality(S) + 1 \in Nat /\ Cardinality(S) < Cardinality(S) + 1
      BY <2>1
    <2>3. QED BY <2>1, <2>2 DEF Smaller
  <1>1. \A n \in Nat : IsSumming(G(n), f, C, n)
    BY SummingExists
  <1> HIDE DEF G
  <1>2. ASSUME NEW S \in SUBSET C PROVE F[S] = Adding(f, F, S)
    <2> DEFINE n == Cardinality(S) + 1
    <2>1. IsSumming(G(n), f, C, n) /\ F[S] = G(n)[S] /\ S \in Smaller(C, n)
      BY <1>0, <1>1
    <2>2. ASSUME NEW T \in Smaller(C, Cardinality(S)) PROVE G(n)[T] = F[T]
      <3> DEFINE k == Cardinality(T) + 1
      <3>1. T \in SUBSET C /\ Cardinality(T) < Cardinality(S)
        BY DEF Smaller
      <3>2. Cardinality(T) < n /\ Cardinality(T) < k /\ n \in Nat /\ k \in Nat
        BY <1>0, <3>1
      <3>3. IsSumming(G(k), f, C, k)
        BY <1>1, <3>2
      <3>4. F[T] = G(k)[T]
        BY <3>1
      <3> HIDE DEF n, k, F
      <3>5. Sums(G(n), f, C, n) /\ Sums(G(k), f, C, k)
        BY <2>1, <3>3 DEF IsSumming, Smaller, Sums
      <3>6. T \in SUBSET (C \cap C)
        BY <3>1
      <3>7. G(n)[T] = G(k)[T]
        BY <3>2, <3>5, <3>6, SummingIsOne
      <3>8. QED BY <3>4, <3>7
    <2> HIDE DEF n, F
    <2>3. Adding(f, G(n), S) = Adding(f, F, S)
      BY <2>2, SummingsAgree
    <2>4. G(n)[S] = Adding(f, G(n), S)
      BY <2>1 DEF IsSumming
    <2>5. QED BY <2>1, <2>3, <2>4
  <1>3. SumEquation(F, f, C)
    <2>1. F = [S \in SUBSET C |-> F[S]]
      OBVIOUS
    <2> HIDE DEF F
    <2>2. QED BY <1>2, <2>1 DEF SumEquation
  <1> HIDE DEF F
  <1>4. PICK g : g = (CHOOSE h : SumEquation(h, f, C))
    OBVIOUS
  <1>5. SumEquation(g, f, C)
    BY <1>3, <1>4
  <1>6. Summing(g, f, C)
    BY <1>5, SumEquationHolds
  <1>7. SumFunctionOnSet(f, C) = g[C]
    BY <1>4, SumIsChosen, Zenon
  <1>8. QED BY <1>6, <1>7, Zenon

\* The sum takes one element, and then is the sum of the rest.
LEMMA SumUnfolds ==
    ASSUME NEW f, NEW C, IsFiniteSet(C)
    PROVE  SumFunctionOnSet(f, C) = IF C = {} THEN 0 ELSE f[One(C)] + SumFunctionOnSet(f, C \ {One(C)})
  <1>1. PICK g : SumFunctionOnSet(f, C) = g[C] /\ Summing(g, f, C)
    BY SumIsSumming
  <1>2. CASE C = {}
    BY <1>1, <1>2 DEF Adding, Summing
  <1>3. CASE C # {}
    <2> DEFINE D == C \ {One(C)}
    <2>1. IsFiniteSet(D) /\ D \in SUBSET C
      BY FS_Subset
    <2>2. PICK h : SumFunctionOnSet(f, D) = h[D] /\ Summing(h, f, D)
      BY <2>1, SumIsSumming
    <2>3. g[D] = h[D]
      <3>1. Cardinality(D) \in Nat /\ Cardinality(D) + 1 \in Nat /\ Cardinality(D) < Cardinality(D) + 1
        BY <2>1, FS_CardinalityType
      <3>2. D \in SUBSET (C \cap D)
        OBVIOUS
      <3> HIDE DEF D
      <3>3. Sums(g, f, C, Cardinality(D) + 1) /\ Sums(h, f, D, Cardinality(D) + 1)
        BY <1>1, <2>2 DEF Sums, Summing
      <3>4. QED BY <2>1, <3>1, <3>2, <3>3, SummingIsOne
    <2>4. g[C] = f[One(C)] + g[D]
      BY <1>1, <1>3 DEF Adding, Summing
    <2> HIDE DEF D
    <2>5. SumFunctionOnSet(f, C) = f[One(C)] + SumFunctionOnSet(f, D)
      BY <1>1, <2>2, <2>3, <2>4
    <2>6. QED BY <1>3, <2>5 DEF D
  <1>4. QED BY <1>2, <1>3

-----------------------------------------------------------------------------
(***************************************************************************)
(* Induction, over the subsets of a finite set.                            *)
(***************************************************************************)
LEMMA Grow ==
    ASSUME NEW C, IsFiniteSet(C), NEW P \in SUBSET SUBSET C, {} \in P,
           \A T \in P : \A x \in C \ T : T \cup {x} \in P
    PROVE  \A T \in SUBSET C : T \in P
  <1> DEFINE N == {n \in Nat : \A T \in SUBSET C : Cardinality(T) <= n => T \in P}
  <1>0. \A T \in SUBSET C : IsFiniteSet(T) /\ Cardinality(T) \in Nat
    BY FS_Subset, FS_CardinalityType
  <1>1. 0 \in N
    <2>1. \A T \in SUBSET C : Cardinality(T) <= 0 => T = {}
      BY <1>0, FS_EmptySet
    <2>2. QED BY <2>1
  <1>2. ASSUME NEW n \in N PROVE n + 1 \in N
    <2>1. ASSUME NEW T \in SUBSET C, Cardinality(T) <= n + 1 PROVE T \in P
      <3>1. CASE T = {}
        BY <3>1
      <3>2. CASE T # {}
        <4>1. PICK x \in T : TRUE
          BY <3>2
        <4> DEFINE R == T \ {x}
        <4>2. R \in SUBSET C /\ Cardinality(R) = Cardinality(T) - 1
          BY <1>0, <4>1, FS_RemoveElement
        <4>3. Cardinality(R) <= n
          BY <1>0, <2>1, <4>2
        <4>4. R \in P /\ x \in C \ R /\ T = R \cup {x}
          BY <4>1, <4>2, <4>3
        <4> HIDE DEF R
        <4>5. QED BY <4>4
      <3>3. QED BY <3>1, <3>2
    <2>2. QED BY <2>1
  <1> HIDE DEF N
  <1>3. N = Nat
    <2>1. N \in SUBSET Nat
      BY DEF N
    <2>2. QED BY <1>1, <1>2, <2>1, Induct
  <1>4. ASSUME NEW T \in SUBSET C PROVE T \in P
    <2>1. Cardinality(T) \in N /\ Cardinality(T) <= Cardinality(T)
      BY <1>0, <1>3
    <2>2. QED BY <2>1 DEF N
  <1>5. QED BY <1>4

LEMMA SumEmpty == \A f : SumFunctionOnSet(f, {}) = 0
  BY SumUnfolds, FS_EmptySet

Numbers(f, S) == \A x \in S : f[x] \in Nat

LEMMA SumNat ==
    ASSUME NEW C, IsFiniteSet(C), NEW f, Numbers(f, C)
    PROVE  SumFunctionOnSet(f, C) \in Nat
  <1> DEFINE N == {n \in Nat : \A T \in SUBSET C : Cardinality(T) <= n => SumFunctionOnSet(f, T) \in Nat}
  <1>0. \A T \in SUBSET C : IsFiniteSet(T) /\ Cardinality(T) \in Nat
    BY FS_Subset, FS_CardinalityType
  <1>1. 0 \in N
    <2>1. \A T \in SUBSET C : Cardinality(T) <= 0 => T = {}
      BY <1>0, FS_EmptySet
    <2>2. QED BY <2>1, SumEmpty
  <1>2. ASSUME NEW n \in N PROVE n + 1 \in N
    <2>1. ASSUME NEW T \in SUBSET C, Cardinality(T) <= n + 1 PROVE SumFunctionOnSet(f, T) \in Nat
      <3>1. CASE T = {}
        BY <3>1, SumEmpty
      <3>2. CASE T # {}
        <4> DEFINE R == T \ {One(T)}
        <4>1. One(T) \in T
          BY <3>2 DEF One
        <4>2. R \in SUBSET C /\ Cardinality(R) <= n
          BY <1>0, <2>1, <4>1, FS_RemoveElement
        <4>3. SumFunctionOnSet(f, R) \in Nat /\ f[One(T)] \in Nat
          BY <4>1, <4>2 DEF Numbers
        <4>4. SumFunctionOnSet(f, T) = f[One(T)] + SumFunctionOnSet(f, R)
          BY <1>0, <3>2, SumUnfolds
        <4>5. QED BY <4>3, <4>4
      <3>3. QED BY <3>1, <3>2
    <2>2. QED BY <2>1
  <1> HIDE DEF N
  <1>3. N = Nat
    <2>1. N \in SUBSET Nat
      BY DEF N
    <2>2. QED BY <1>1, <1>2, <2>1, Induct
  <1>4. Cardinality(C) \in N /\ Cardinality(C) <= Cardinality(C) /\ C \in SUBSET C
    BY <1>0, <1>3
  <1>5. QED BY <1>4 DEF N

\* Any element can be the one that is taken.
LEMMA SumOut ==
    ASSUME NEW C, IsFiniteSet(C), NEW f, Numbers(f, C), NEW x \in C
    PROVE  SumFunctionOnSet(f, C) = f[x] + SumFunctionOnSet(f, C \ {x})
  <1> DEFINE N == {n \in Nat : \A T \in SUBSET C : Cardinality(T) <= n =>
                       \A y \in T : SumFunctionOnSet(f, T) = f[y] + SumFunctionOnSet(f, T \ {y})}
  <1>0. \A T \in SUBSET C : IsFiniteSet(T) /\ Cardinality(T) \in Nat /\ SumFunctionOnSet(f, T) \in Nat
    <2> TAKE T \in SUBSET C
    <2>1. IsFiniteSet(T) /\ Numbers(f, T)
      BY FS_Subset DEF Numbers
    <2>2. QED BY <2>1, FS_CardinalityType, SumNat
  <1>1. 0 \in N
    <2>1. \A T \in SUBSET C : Cardinality(T) <= 0 => T = {}
      BY <1>0, FS_EmptySet
    <2>2. QED BY <2>1
  <1>2. ASSUME NEW n \in N PROVE n + 1 \in N
    <2>1. ASSUME NEW T \in SUBSET C, Cardinality(T) <= n + 1, NEW y \in T
          PROVE SumFunctionOnSet(f, T) = f[y] + SumFunctionOnSet(f, T \ {y})
      <3> DEFINE c == One(T)
      <3>1. c \in T
        BY DEF One
      <3>2. SumFunctionOnSet(f, T) = f[c] + SumFunctionOnSet(f, T \ {c})
        BY <1>0, SumUnfolds
      <3> HIDE DEF c
      <3>3. CASE y = c
        BY <3>2, <3>3
      <3>4. CASE y # c
        <4>1. /\ T \ {c} \in SUBSET C /\ Cardinality(T \ {c}) <= n
              /\ T \ {y} \in SUBSET C /\ Cardinality(T \ {y}) <= n
          BY <1>0, <2>1, <3>1, FS_RemoveElement
        <4>2. y \in T \ {c} /\ c \in T \ {y}
          BY <3>1, <3>4
        <4> DEFINE R == (T \ {c}) \ {y}
        <4>3. SumFunctionOnSet(f, T \ {c}) = f[y] + SumFunctionOnSet(f, R)
          BY <4>1, <4>2
        <4>4. R = (T \ {y}) \ {c} /\ R \in SUBSET C
          OBVIOUS
        <4>5. SumFunctionOnSet(f, T \ {y}) = f[c] + SumFunctionOnSet(f, R)
          BY <4>1, <4>2, <4>4
        <4>6. f[c] \in Nat /\ f[y] \in Nat /\ SumFunctionOnSet(f, R) \in Nat
          BY <1>0, <3>1, <4>4 DEF Numbers
        <4> HIDE DEF R
        <4>7. f[c] + (f[y] + SumFunctionOnSet(f, R)) = f[y] + (f[c] + SumFunctionOnSet(f, R))
          BY <4>6
        <4>8. QED BY <3>2, <4>3, <4>5, <4>7
      <3>5. QED BY <3>3, <3>4
    <2>2. QED BY <2>1
  <1> HIDE DEF N
  <1>3. N = Nat
    <2>1. N \in SUBSET Nat
      BY DEF N
    <2>2. QED BY <1>1, <1>2, <2>1, Induct
  <1>4. Cardinality(C) \in N /\ Cardinality(C) <= Cardinality(C) /\ C \in SUBSET C
    BY <1>0, <1>3
  <1>5. QED BY <1>4 DEF N

LEMMA SumAdd ==
    ASSUME NEW C, IsFiniteSet(C), NEW f, NEW x, x \notin C, Numbers(f, C), f[x] \in Nat
    PROVE  SumFunctionOnSet(f, C \cup {x}) = f[x] + SumFunctionOnSet(f, C)
  <1> DEFINE D == C \cup {x}
  <1>1. IsFiniteSet(D) /\ Numbers(f, D) /\ x \in D /\ D \ {x} = C
    BY FS_AddElement DEF Numbers
  <1> HIDE DEF D
  <1>2. SumFunctionOnSet(f, D) = f[x] + SumFunctionOnSet(f, C)
    BY <1>1, SumOut
  <1>3. QED BY <1>2 DEF D

-----------------------------------------------------------------------------
\* A sum is over the values of a function, whatever it is written as.
LEMMA SumAgree ==
    ASSUME NEW C, IsFiniteSet(C), NEW f, NEW g, Numbers(f, C), \A x \in C : f[x] = g[x]
    PROVE  SumFunctionOnSet(f, C) = SumFunctionOnSet(g, C)
  <1> DEFINE P == {T \in SUBSET C : SumFunctionOnSet(f, T) = SumFunctionOnSet(g, T)}
  <1>1. {} \in P
    BY SumEmpty
  <1>2. ASSUME NEW T \in P, NEW x \in C \ T PROVE T \cup {x} \in P
    <2>1. IsFiniteSet(T) /\ x \notin T /\ Numbers(f, T) /\ Numbers(g, T) /\ f[x] \in Nat /\ g[x] = f[x]
      BY FS_Subset DEF Numbers
    <2>2. /\ SumFunctionOnSet(f, T \cup {x}) = f[x] + SumFunctionOnSet(f, T)
          /\ SumFunctionOnSet(g, T \cup {x}) = f[x] + SumFunctionOnSet(g, T)
      BY <2>1, SumAdd
    <2>3. QED BY <2>2
  <1> HIDE DEF P
  <1>3. C \in P
    <2>1. P \in SUBSET SUBSET C
      BY DEF P
    <2>2. QED BY <1>1, <1>2, <2>1, Grow
  <1>4. QED BY <1>3 DEF P

LEMMA SumPlus ==
    ASSUME NEW C, IsFiniteSet(C), NEW f, NEW g, NEW h, Numbers(f, C), Numbers(g, C), \A x \in C : h[x] = f[x] + g[x]
    PROVE  SumFunctionOnSet(h, C) = SumFunctionOnSet(f, C) + SumFunctionOnSet(g, C)
  <1> DEFINE P == {T \in SUBSET C : SumFunctionOnSet(h, T) = SumFunctionOnSet(f, T) + SumFunctionOnSet(g, T)}
  <1>1. {} \in P
    BY SumEmpty
  <1>2. ASSUME NEW T \in P, NEW x \in C \ T PROVE T \cup {x} \in P
    <2>1. /\ IsFiniteSet(T) /\ x \notin T /\ Numbers(f, T) /\ Numbers(g, T) /\ Numbers(h, T)
          /\ f[x] \in Nat /\ g[x] \in Nat /\ h[x] = f[x] + g[x] /\ h[x] \in Nat
      BY FS_Subset DEF Numbers
    <2>2. /\ SumFunctionOnSet(f, T \cup {x}) = f[x] + SumFunctionOnSet(f, T)
          /\ SumFunctionOnSet(g, T \cup {x}) = g[x] + SumFunctionOnSet(g, T)
          /\ SumFunctionOnSet(h, T \cup {x}) = h[x] + SumFunctionOnSet(h, T)
      BY <2>1, SumAdd
    <2>3. SumFunctionOnSet(f, T) \in Nat /\ SumFunctionOnSet(g, T) \in Nat
      BY <2>1, SumNat
    <2>4. QED BY <2>1, <2>2, <2>3
  <1> HIDE DEF P
  <1>3. C \in P
    <2>1. P \in SUBSET SUBSET C
      BY DEF P
    <2>2. QED BY <1>1, <1>2, <2>1, Grow
  <1>4. QED BY <1>3 DEF P

LEMMA SumTimes ==
    ASSUME NEW C, IsFiniteSet(C), NEW f, NEW h, NEW k \in Nat, Numbers(f, C), \A x \in C : h[x] = k * f[x]
    PROVE  SumFunctionOnSet(h, C) = k * SumFunctionOnSet(f, C)
  <1> DEFINE P == {T \in SUBSET C : SumFunctionOnSet(h, T) = k * SumFunctionOnSet(f, T)}
  <1>1. {} \in P
    BY SumEmpty
  <1>2. ASSUME NEW T \in P, NEW x \in C \ T PROVE T \cup {x} \in P
    <2>1. /\ IsFiniteSet(T) /\ x \notin T /\ Numbers(f, T) /\ f[x] \in Nat /\ h[x] = k * f[x]
      BY FS_Subset DEF Numbers
    <2>2. Numbers(h, T) /\ h[x] \in Nat
      BY <2>1 DEF Numbers
    <2>3. /\ SumFunctionOnSet(f, T \cup {x}) = f[x] + SumFunctionOnSet(f, T)
          /\ SumFunctionOnSet(h, T \cup {x}) = h[x] + SumFunctionOnSet(h, T)
      BY <2>1, <2>2, SumAdd
    <2>4. SumFunctionOnSet(f, T) \in Nat
      BY <2>1, SumNat
    <2>5. \A a, b \in Nat : k * (a + b) = k * a + k * b
      OBVIOUS
    <2>6. QED BY <2>1, <2>3, <2>4, <2>5
  <1> HIDE DEF P
  <1>3. C \in P
    <2>1. P \in SUBSET SUBSET C
      BY DEF P
    <2>2. QED BY <1>1, <1>2, <2>1, Grow
  <1>4. QED BY <1>3 DEF P

LEMMA SumLeq ==
    ASSUME NEW C, IsFiniteSet(C), NEW f, NEW g, Numbers(f, C), Numbers(g, C), \A x \in C : f[x] <= g[x]
    PROVE  SumFunctionOnSet(f, C) <= SumFunctionOnSet(g, C)
  <1> DEFINE P == {T \in SUBSET C : SumFunctionOnSet(f, T) <= SumFunctionOnSet(g, T)}
  <1>1. {} \in P
    BY SumEmpty
  <1>2. ASSUME NEW T \in P, NEW x \in C \ T PROVE T \cup {x} \in P
    <2>1. /\ IsFiniteSet(T) /\ x \notin T /\ Numbers(f, T) /\ Numbers(g, T)
          /\ f[x] \in Nat /\ g[x] \in Nat /\ f[x] <= g[x]
      BY FS_Subset DEF Numbers
    <2>2. /\ SumFunctionOnSet(f, T \cup {x}) = f[x] + SumFunctionOnSet(f, T)
          /\ SumFunctionOnSet(g, T \cup {x}) = g[x] + SumFunctionOnSet(g, T)
      BY <2>1, SumAdd
    <2>3. SumFunctionOnSet(f, T) \in Nat /\ SumFunctionOnSet(g, T) \in Nat
      BY <2>1, SumNat
    <2>4. QED BY <2>1, <2>2, <2>3
  <1> HIDE DEF P
  <1>3. C \in P
    <2>1. P \in SUBSET SUBSET C
      BY DEF P
    <2>2. QED BY <1>1, <1>2, <2>1, Grow
  <1>4. QED BY <1>3 DEF P

\* What weighs nothing need not be summed.
LEMMA SumRestrict ==
    ASSUME NEW C, IsFiniteSet(C), NEW D \in SUBSET C, NEW f, Numbers(f, C), \A x \in C \ D : f[x] = 0
    PROVE  SumFunctionOnSet(f, C) = SumFunctionOnSet(f, D)
  <1> DEFINE P == {T \in SUBSET C : SumFunctionOnSet(f, T) = SumFunctionOnSet(f, T \cap D)}
  <1>1. {} \in P
    <2>1. {} \cap D = {}
      OBVIOUS
    <2>2. QED BY <2>1
  <1>2. ASSUME NEW T \in P, NEW x \in C \ T PROVE T \cup {x} \in P
    <2>1. /\ IsFiniteSet(T) /\ x \notin T /\ Numbers(f, T) /\ f[x] \in Nat
          /\ IsFiniteSet(T \cap D) /\ x \notin T \cap D /\ Numbers(f, T \cap D)
      BY FS_Subset, FS_Intersection DEF Numbers
    <2>2. SumFunctionOnSet(f, T \cup {x}) = f[x] + SumFunctionOnSet(f, T)
      BY <2>1, SumAdd
    <2>3. SumFunctionOnSet(f, T \cap D) \in Nat
      BY <2>1, SumNat
    <2>4. CASE x \in D
      <3>1. (T \cup {x}) \cap D = (T \cap D) \cup {x}
        BY <2>4
      <3>2. SumFunctionOnSet(f, (T \cap D) \cup {x}) = f[x] + SumFunctionOnSet(f, T \cap D)
        BY <2>1, SumAdd
      <3>3. QED BY <2>2, <3>1, <3>2
    <2>5. CASE x \notin D
      <3>1. (T \cup {x}) \cap D = T \cap D /\ f[x] = 0
        BY <2>5
      <3>2. QED BY <2>2, <2>3, <3>1
    <2>6. QED BY <2>4, <2>5
  <1> HIDE DEF P
  <1>3. C \in P
    <2>1. P \in SUBSET SUBSET C
      BY DEF P
    <2>2. QED BY <1>1, <1>2, <2>1, Grow
  <1>4. C \cap D = D
    OBVIOUS
  <1>5. QED BY <1>3, <1>4 DEF P

\* Counting is summing ones.
LEMMA SumOnes ==
    ASSUME NEW C, IsFiniteSet(C), NEW f, \A x \in C : f[x] = 1
    PROVE  SumFunctionOnSet(f, C) = Cardinality(C)
  <1> DEFINE P == {T \in SUBSET C : SumFunctionOnSet(f, T) = Cardinality(T)}
  <1>1. {} \in P
    BY SumEmpty, FS_EmptySet
  <1>2. ASSUME NEW T \in P, NEW x \in C \ T PROVE T \cup {x} \in P
    <2>1. IsFiniteSet(T) /\ x \notin T /\ Numbers(f, T) /\ f[x] \in Nat /\ f[x] = 1
      BY FS_Subset DEF Numbers
    <2>2. SumFunctionOnSet(f, T \cup {x}) = f[x] + SumFunctionOnSet(f, T)
      BY <2>1, SumAdd
    <2>3. Cardinality(T \cup {x}) = Cardinality(T) + 1 /\ Cardinality(T) \in Nat
      BY <2>1, FS_AddElement, FS_CardinalityType
    <2>4. QED BY <2>1, <2>2, <2>3
  <1> HIDE DEF P
  <1>3. C \in P
    <2>1. P \in SUBSET SUBSET C
      BY DEF P
    <2>2. QED BY <1>1, <1>2, <2>1, Grow
  <1>4. QED BY <1>3 DEF P

LEMMA SumMember ==
    ASSUME NEW C, IsFiniteSet(C), NEW f, Numbers(f, C), NEW x \in C
    PROVE  f[x] <= SumFunctionOnSet(f, C)
  <1>1. IsFiniteSet(C \ {x}) /\ Numbers(f, C \ {x})
    BY FS_RemoveElement DEF Numbers
  <1>2. SumFunctionOnSet(f, C \ {x}) \in Nat /\ f[x] \in Nat
    BY <1>1, SumNat DEF Numbers
  <1>3. QED BY <1>2, SumOut

\* A sum over what a set is mapped to, one to one, is a sum over the set.
LEMMA SumImage ==
    ASSUME NEW C, IsFiniteSet(C), NEW m, \A x, y \in C : m[x] = m[y] => x = y,
           NEW f, NEW g, Numbers(f, C), \A x \in C : g[m[x]] = f[x]
    PROVE  SumFunctionOnSet(g, {m[x] : x \in C}) = SumFunctionOnSet(f, C)
  <1> DEFINE Image(T) == {m[x] : x \in T}
             P == {T \in SUBSET C : IsFiniteSet(Image(T)) /\ SumFunctionOnSet(g, Image(T)) = SumFunctionOnSet(f, T)}
  <1>1. {} \in P
    <2>1. Image({}) = {}
      OBVIOUS
    <2> HIDE DEF Image
    <2>2. QED BY <2>1, SumEmpty, FS_EmptySet
  <1>2. ASSUME NEW T \in P, NEW x \in C \ T PROVE T \cup {x} \in P
    <2>1. IsFiniteSet(T) /\ x \notin T /\ Numbers(f, T) /\ f[x] \in Nat
      BY FS_Subset DEF Numbers
    <2>2. Image(T \cup {x}) = Image(T) \cup {m[x]} /\ m[x] \notin Image(T)
      OBVIOUS
    <2>3. Numbers(g, Image(T)) /\ g[m[x]] = f[x]
      BY DEF Numbers
    <2>4. SumFunctionOnSet(f, T \cup {x}) = f[x] + SumFunctionOnSet(f, T)
      BY <2>1, SumAdd
    <2> HIDE DEF Image
    <2>5. IsFiniteSet(Image(T) \cup {m[x]}) /\ SumFunctionOnSet(g, Image(T) \cup {m[x]}) = g[m[x]] + SumFunctionOnSet(g, Image(T))
      BY <2>1, <2>2, <2>3, SumAdd, FS_AddElement
    <2>6. QED BY <2>2, <2>3, <2>4, <2>5
  <1> HIDE DEF P
  <1>3. C \in P
    <2>1. P \in SUBSET SUBSET C
      BY DEF P
    <2>2. QED BY <1>1, <1>2, <2>1, Grow
  <1>4. QED BY <1>3 DEF P

\* A table of numbers, a by rows and b by columns; and the sums of its lines.
IsTable(a, b, C, D) == \A x \in C : Numbers(a[x], D) /\ \A y \in D : b[y][x] = a[x][y]
AreSums(r, a, C, D) == \A x \in C : r[x] = SumFunctionOnSet(a[x], D)

\* Rows or columns first, the whole is the same.
LEMMA SumSwap ==
    ASSUME NEW C, IsFiniteSet(C), NEW D, IsFiniteSet(D), NEW a, NEW b, NEW r, NEW c,
           IsTable(a, b, C, D), AreSums(r, a, C, D), AreSums(c, b, D, C)
    PROVE  SumFunctionOnSet(r, C) = SumFunctionOnSet(c, D)
  <1> USE DEF IsTable, AreSums
  <1> DEFINE k(T) == [y \in D |-> SumFunctionOnSet(b[y], T)]
             P == {T \in SUBSET C : SumFunctionOnSet(r, T) = SumFunctionOnSet(k(T), D)}
  <1>0. \A T \in SUBSET C : IsFiniteSet(T) /\ \A y \in D : Numbers(b[y], T) /\ k(T)[y] \in Nat
    <2> TAKE T \in SUBSET C
    <2>1. IsFiniteSet(T)
      BY FS_Subset
    <2>2. \A y \in D : Numbers(b[y], T)
      BY DEF Numbers
    <2>3. \A y \in D : SumFunctionOnSet(b[y], T) \in Nat
      BY <2>1, <2>2, SumNat
    <2>4. QED BY <2>1, <2>2, <2>3
  <1>1. {} \in P
    <2> DEFINE z == k({})
    <2>1. \A y \in D : z[y] = 0
      BY SumEmpty
    <2> HIDE DEF z
    <2>2. Numbers(z, D) /\ \A y \in D \ {} : z[y] = 0
      BY <2>1 DEF Numbers
    <2>3. {} \in SUBSET D
      OBVIOUS
    <2>4. SumFunctionOnSet(z, D) = SumFunctionOnSet(z, {})
      BY <2>2, <2>3, SumRestrict
    <2>5. QED BY <2>4, SumEmpty DEF z
  <1>2. ASSUME NEW T \in P, NEW x \in C \ T PROVE T \cup {x} \in P
    <2>1. IsFiniteSet(T) /\ x \notin T /\ \A y \in D : Numbers(b[y], T) /\ b[y][x] \in Nat /\ b[y][x] = a[x][y]
      BY <1>0 DEF Numbers
    <2> DEFINE U == T \cup {x}
    <2>2. \A y \in D : SumFunctionOnSet(b[y], U) = b[y][x] + SumFunctionOnSet(b[y], T)
      BY <2>1, SumAdd
    <2>3. \A y \in D : k(U)[y] = a[x][y] + k(T)[y]
      BY <2>1, <2>2
    <2>4. Numbers(k(T), D) /\ Numbers(a[x], D)
      BY <1>0 DEF Numbers
    <2>5. SumFunctionOnSet(a[x], D) \in Nat
      BY <2>4, SumNat
    <2>6. SumFunctionOnSet(k(U), D) = SumFunctionOnSet(a[x], D) + SumFunctionOnSet(k(T), D)
      <3> DEFINE kU == k(U)
                 kT == k(T)
                 ax == a[x]
      <3>1. \A y \in D : kU[y] = ax[y] + kT[y]
        BY <2>3
      <3>2. Numbers(kT, D) /\ Numbers(ax, D)
        BY <2>4
      <3> HIDE DEF kU, kT, ax
      <3>3. SumFunctionOnSet(kU, D) = SumFunctionOnSet(ax, D) + SumFunctionOnSet(kT, D)
        BY <3>1, <3>2, SumPlus
      <3>4. QED BY <3>3 DEF kU, kT, ax
    <2> HIDE DEF k
    <2>7. Numbers(r, T) /\ r[x] = SumFunctionOnSet(a[x], D)
      <3>1. \A t \in T : r[t] = SumFunctionOnSet(a[t], D) /\ Numbers(a[t], D)
        OBVIOUS
      <3>2. QED BY <3>1, SumNat DEF Numbers
    <2>8. SumFunctionOnSet(r, U) = r[x] + SumFunctionOnSet(r, T)
      BY <2>1, <2>5, <2>7, SumAdd
    <2>9. QED BY <2>6, <2>7, <2>8
  <1>3. C \in P
    <2> HIDE DEF P
    <2>1. P \in SUBSET SUBSET C
      BY DEF P
    <2>2. QED BY <1>1, <1>2, <2>1, Grow
  <1>4. SumFunctionOnSet(k(C), D) = SumFunctionOnSet(c, D)
    <2>1. Numbers(k(C), D)
      BY <1>0 DEF Numbers
    <2>2. \A y \in D : k(C)[y] = c[y]
      OBVIOUS
    <2> HIDE DEF k
    <2>3. QED BY <2>1, <2>2, SumAgree
  <1>5. QED BY <1>3, <1>4

Class(R, key, a) == {x \in R : key[x] = a}

\* The classes of a set, by some key, are as many as the set together.
LEMMA SumOfClasses ==
    ASSUME NEW R, IsFiniteSet(R), NEW K, IsFiniteSet(K), NEW key, \A x \in R : key[x] \in K,
           NEW f, \A a \in K : f[a] = Cardinality(Class(R, key, a))
    PROVE  SumFunctionOnSet(f, K) = Cardinality(R)
  <1> DEFINE Of(T) == {x \in R : key[x] \in T}
             P == {T \in SUBSET K : SumFunctionOnSet(f, T) = Cardinality(Of(T))}
  <1>0. \A a \in K : f[a] \in Nat
    <2> TAKE a \in K
    <2>1. IsFiniteSet(Class(R, key, a))
      BY FS_Subset DEF Class
    <2>2. QED BY <2>1, FS_CardinalityType
  <1>1. {} \in P
    <2>1. Of({}) = {}
      OBVIOUS
    <2> HIDE DEF Of
    <2>2. QED BY <2>1, SumEmpty, FS_EmptySet
  <1>2. ASSUME NEW T \in P, NEW a \in K \ T PROVE T \cup {a} \in P
    <2> DEFINE A == Class(R, key, a)
    <2>1. IsFiniteSet(T) /\ a \notin T /\ Numbers(f, T) /\ f[a] \in Nat
      BY <1>0, FS_Subset DEF Numbers
    <2>2. SumFunctionOnSet(f, T \cup {a}) = f[a] + SumFunctionOnSet(f, T)
      BY <2>1, SumAdd
    <2>3. IsFiniteSet(A) /\ IsFiniteSet(Of(T)) /\ Of(T) \cap A = {} /\ Of(T \cup {a}) = Of(T) \cup A /\ f[a] = Cardinality(A)
      <3>1. A \in SUBSET R /\ Of(T) \in SUBSET R
        BY DEF Class
      <3>2. IsFiniteSet(A) /\ IsFiniteSet(Of(T))
        BY <3>1, FS_Subset
      <3>3. Of(T) \cap A = {} /\ Of(T \cup {a}) = Of(T) \cup A
        BY DEF Class
      <3>4. QED BY <3>2, <3>3
    <2> HIDE DEF Of, A
    <2>4. Cardinality(Of(T \cup {a})) = Cardinality(Of(T)) + Cardinality(A)
      <3>1. Cardinality(Of(T) \cup A) = Cardinality(Of(T)) + Cardinality(A) - Cardinality(Of(T) \cap A)
        BY <2>3, FS_Union
      <3>2. Cardinality(Of(T)) \in Nat /\ Cardinality(A) \in Nat /\ Cardinality({}) = 0
        BY <2>3, FS_CardinalityType, FS_EmptySet
      <3>3. Cardinality(Of(T) \cap A) = 0
        BY <2>3, <3>2
      <3>4. Cardinality(Of(T) \cup A) = Cardinality(Of(T)) + Cardinality(A)
        BY <3>1, <3>2, <3>3
      <3> DEFINE U == T \cup {a}
      <3>5. Of(U) = Of(T) \cup A
        BY <2>3
      <3> HIDE DEF U
      <3>6. Cardinality(Of(U)) = Cardinality(Of(T)) + Cardinality(A)
        BY <3>4, <3>5
      <3>7. QED BY <3>6 DEF U
    <2>5. Cardinality(Of(T)) \in Nat /\ Cardinality(A) \in Nat
      BY <2>3, FS_CardinalityType
    <2>6. QED BY <2>2, <2>3, <2>4, <2>5
  <1>3. K \in P
    <2> HIDE DEF P
    <2>1. P \in SUBSET SUBSET K
      BY DEF P
    <2>2. QED BY <1>1, <1>2, <2>1, Grow
  <1>4. Of(K) = R
    OBVIOUS
  <1>5. QED BY <1>3, <1>4

-----------------------------------------------------------------------------
(***************************************************************************)
(* The figures, for any number of rows, turns and sessions.                *)
(*                                                                         *)
(* Each answer is sound of the rows it was given for, and rows are only    *)
(* added and marked, so it stays within what the later answers are given   *)
(* for (FiguresSoFar).                                                     *)
(***************************************************************************)
LEMMA PartsAddUp ==
    ASSUME NEW C, IsFiniteSet(C), NEW A \in SUBSET C, NEW B \in SUBSET C, A \cap B = {}
    PROVE  /\ Cardinality(A) \in Nat /\ Cardinality(B) \in Nat /\ Cardinality(C) \in Nat
           /\ Cardinality(A) + Cardinality(B) <= Cardinality(C)
  <1>1. IsFiniteSet(A) /\ IsFiniteSet(B) /\ A \cup B \in SUBSET C /\ IsFiniteSet(A \cup B)
    BY FS_Subset, FS_Union
  <1>2. /\ Cardinality(A) \in Nat /\ Cardinality(B) \in Nat /\ Cardinality(C) \in Nat
        /\ Cardinality(A \cup B) <= Cardinality(C)
    BY <1>1, FS_CardinalityType, FS_Subset
  <1>3. Cardinality(A \cup B) = Cardinality(A) + Cardinality(B) - Cardinality(A \cap B)
    BY <1>1, FS_Union
  <1>4. Cardinality(A \cap B) = 0
    BY FS_EmptySet
  <1>5. QED BY <1>2, <1>3, <1>4

LEMMA PartIsLess ==
    ASSUME NEW C, IsFiniteSet(C), NEW A \in SUBSET C
    PROVE  Cardinality(A) \in Nat /\ Cardinality(C) \in Nat /\ Cardinality(A) <= Cardinality(C)
  BY FS_Subset, FS_CardinalityType

LEMMA AddedTo ==
    ASSUME NEW R, NEW s \in Seq(R), NEW x \in R
    PROVE  /\ Append(s, x) \in Seq(R) /\ Len(Append(s, x)) = Len(s) + 1 /\ Len(s) \in Nat
           /\ \A i \in DOMAIN s : Append(s, x)[i] = s[i]
           /\ \A i \in DOMAIN Append(s, x) : i \in DOMAIN s \/ Append(s, x)[i] = x
  OBVIOUS

LEMMA MarkedIn ==
    ASSUME NEW R, NEW s \in Seq(R), NEW x \in R, NEW i \in DOMAIN s
    PROVE  [s EXCEPT ![i] = x] \in Seq(R) /\ Len([s EXCEPT ![i] = x]) = Len(s)
  <1>1. Len(s) \in Nat /\ DOMAIN s = 1 .. Len(s) /\ s \in [1 .. Len(s) -> R]
    OBVIOUS
  <1>2. [s EXCEPT ![i] = x] \in [1 .. Len(s) -> R]
    BY <1>1
  <1>3. QED BY <1>1, <1>2, LenProperties, SeqDef

FetchRow == [kind : {"data", "instruction"}, speculative : BOOLEAN, consumed : BOOLEAN, connector : {"emr", ""}, error : BOOLEAN]
PickRow == [some : BOOLEAN, ms : Durations]
TurnRow == [first : BOOLEAN, hit : BOOLEAN]
SessionRow == [status : {"active", "ended"}, outcome : {"", "success"}]
AuditOk ==
    /\ DOMAIN audit = Tables
    /\ audit["fetch"] \in Seq(FetchRow) /\ audit["pick"] \in Seq(PickRow)
    /\ audit["turn"] \in Seq(TurnRow) /\ audit["session"] \in Seq(SessionRow)
    /\ \A i \in DOMAIN audit["fetch"] : audit["fetch"][i].consumed => ~audit["fetch"][i].error

\* Rows are added and marked, never dropped; and the picks are not even marked.
RowsStay ==
    /\ Len(audit["pick"]) <= Len(audit'["pick"]) /\ Len(audit["session"]) <= Len(audit'["session"])
    /\ \A i \in DOMAIN audit["pick"] : audit'["pick"][i] = audit["pick"][i]

LEMMA RowsAreSome ==
    ASSUME AuditOk, NEW t \in Tables
    PROVE  Len(audit[t]) \in Nat /\ DOMAIN audit[t] = 1 .. Len(audit[t]) /\ IsFiniteSet(DOMAIN audit[t])
                /\ Cardinality(DOMAIN audit[t]) = Len(audit[t])
  <1>1. Len(audit[t]) \in Nat /\ DOMAIN audit[t] = 1 .. Len(audit[t])
    BY DEF AuditOk, Tables
  <1>2. QED BY <1>1, FS_Interval

LEMMA AuditInit == MetricsInit => AuditOk
  BY DEF MetricsInit, AuditOk, Tables

LEMMA AuditStep ==
    ASSUME AuditOk, [MetricsNext]_metricsVars
    PROVE  AuditOk' /\ RowsStay
  <1>1. ASSUME NEW t \in Tables, WriteRow(t) PROVE AuditOk' /\ RowsStay
    <2>1. PICK x \in RowsOf(t) : audit' = [audit EXCEPT ![t] = Append(@, x)]
      BY <1>1 DEF WriteRow
    <2>2. CASE t = "fetch"
      <3>1. x \in FetchRow /\ ~x.consumed
        <4>1. x \in Fetches
          BY <2>2 DEF RowsOf
        <4>2. QED BY <4>1 DEF Fetches, FetchRow
      <3>2. audit'["fetch"] = Append(audit["fetch"], x)
        BY <2>1, <2>2 DEF AuditOk, Tables
      <3>3. audit'["fetch"] \in Seq(FetchRow) /\ \A i \in DOMAIN audit'["fetch"] : audit'["fetch"][i].consumed => ~audit'["fetch"][i].error
        BY <3>1, <3>2, AddedTo DEF AuditOk
      <3>4. DOMAIN audit' = Tables /\ \A u \in Tables \ {"fetch"} : audit'[u] = audit[u]
        BY <2>1, <2>2 DEF AuditOk
      <3>5. QED BY <3>3, <3>4, RowsAreSome DEF AuditOk, RowsStay, Tables
    <2>3. CASE t # "fetch"
      <3>1. DOMAIN audit' = Tables /\ \A u \in Tables \ {t} : audit'[u] = audit[u]
        BY <2>1 DEF AuditOk
      <3>2. audit'[t] = Append(audit[t], x)
        BY <2>1 DEF AuditOk
      <3>3. CASE t = "pick"
        <4>1. x \in PickRow /\ audit["pick"] \in Seq(PickRow)
          BY <3>3 DEF RowsOf, AuditOk, PickRow
        <4>2. /\ audit'["pick"] \in Seq(PickRow) /\ Len(audit["pick"]) <= Len(audit'["pick"])
              /\ \A i \in DOMAIN audit["pick"] : audit'["pick"][i] = audit["pick"][i]
          BY <3>2, <3>3, <4>1, AddedTo
        <4>3. QED BY <3>1, <3>3, <4>2, RowsAreSome DEF AuditOk, RowsStay, Tables
      <3>4. CASE t = "turn"
        <4>1. x \in TurnRow /\ audit["turn"] \in Seq(TurnRow)
          BY <3>4 DEF RowsOf, AuditOk, TurnRow
        <4>2. Append(audit["turn"], x) \in Seq(TurnRow)
          BY <4>1, AddedTo
        <4>3. audit'["turn"] \in Seq(TurnRow)
          BY <3>2, <3>4, <4>2
        <4>4. QED BY <3>1, <3>4, <4>3, RowsAreSome DEF AuditOk, RowsStay, Tables
      <3>5. CASE t = "session"
        <4>1. x \in SessionRow /\ audit["session"] \in Seq(SessionRow)
          <5>1. x = [status |-> "active", outcome |-> ""]
            BY <3>5 DEF RowsOf
          <5>2. QED BY <5>1 DEF SessionRow, AuditOk
        <4>2. audit'["session"] \in Seq(SessionRow) /\ Len(audit["session"]) <= Len(audit'["session"])
          BY <3>2, <3>5, <4>1, AddedTo
        <4>3. QED BY <3>1, <3>5, <4>2, RowsAreSome DEF AuditOk, RowsStay, Tables
      <3>6. QED BY <2>3, <3>3, <3>4, <3>5 DEF Tables
    <2>4. QED BY <2>2, <2>3
  <1>2. ASSUME NEW i \in DOMAIN audit["fetch"], MarkConsumed(i) PROVE AuditOk' /\ RowsStay
    <2>1. audit' = [audit EXCEPT !["fetch"][i].consumed = TRUE] /\ ~audit["fetch"][i].error
      BY <1>2 DEF MarkConsumed, Pooled
    <2>2. DOMAIN audit' = Tables /\ \A u \in Tables \ {"fetch"} : audit'[u] = audit[u]
      BY <2>1 DEF AuditOk
    <2>3. audit'["fetch"] = [audit["fetch"] EXCEPT ![i].consumed = TRUE]
      BY <2>1 DEF AuditOk, Tables
    <2>4. /\ audit'["fetch"] \in Seq(FetchRow)
          /\ \A j \in DOMAIN audit'["fetch"] : audit'["fetch"][j].consumed => ~audit'["fetch"][j].error
      <3> DEFINE rows == audit["fetch"]
                 x == [rows[i] EXCEPT !.consumed = TRUE]
      <3>1. rows \in Seq(FetchRow) /\ i \in DOMAIN rows /\ rows[i] \in FetchRow
        BY DEF AuditOk
      <3>2. x \in FetchRow /\ x.error = rows[i].error
        BY <3>1 DEF FetchRow
      <3>3. audit'["fetch"] = [rows EXCEPT ![i] = x]
        BY <2>3
      <3>4. ~x.error /\ \A j \in DOMAIN rows : rows[j].consumed => ~rows[j].error
        BY <2>1, <3>2 DEF AuditOk
      <3> HIDE DEF rows, x
      <3>5. [rows EXCEPT ![i] = x] \in Seq(FetchRow)
        BY <3>1, <3>2, MarkedIn
      <3>6. \A j \in DOMAIN [rows EXCEPT ![i] = x] : [rows EXCEPT ![i] = x][j].consumed => ~[rows EXCEPT ![i] = x][j].error
        BY <3>4
      <3>7. QED BY <3>3, <3>5, <3>6
    <2>5. QED BY <2>2, <2>4, RowsAreSome DEF AuditOk, RowsStay, Tables
  <1>3. ASSUME NEW i \in DOMAIN audit["session"], SessionMoves(i) PROVE AuditOk' /\ RowsStay
    <2>1. PICK x \in [status : {"active", "ended"}, outcome : {audit["session"][i].outcome, "success"}] :
             audit' = [audit EXCEPT !["session"][i] = x]
      BY <1>3 DEF SessionMoves
    <2>2. DOMAIN audit' = Tables /\ \A u \in Tables \ {"session"} : audit'[u] = audit[u]
      BY <2>1 DEF AuditOk
    <2>3. audit'["session"] = [audit["session"] EXCEPT ![i] = x]
      BY <2>1 DEF AuditOk, Tables
    <2>4. x \in SessionRow /\ audit["session"] \in Seq(SessionRow)
      <3>1. audit["session"][i] \in SessionRow /\ audit["session"] \in Seq(SessionRow)
        BY DEF AuditOk
      <3>2. QED BY <3>1 DEF SessionRow
    <2>5. audit'["session"] \in Seq(SessionRow) /\ Len(audit["session"]) = Len(audit'["session"])
      BY <2>3, <2>4, MarkedIn
    <2>6. QED BY <2>2, <2>5, RowsAreSome DEF AuditOk, RowsStay, Tables
  <1>4. CASE UNCHANGED audit
    BY <1>4, RowsAreSome DEF AuditOk, RowsStay, Tables
  <1>5. QED BY <1>1, <1>2, <1>3, <1>4 DEF MetricsNext, metricsVars, AskSummary, SummaryStep, JudgeTurn, Terminal

\* What failed was not consumed, so both are parts of what was fetched.
LEMMA HealthFollows == AuditOk => HealthAddsUp
  <1> SUFFICES ASSUME AuditOk PROVE HealthAddsUp
    OBVIOUS
  <1> DEFINE C == {i \in DOMAIN audit["fetch"] : audit["fetch"][i].connector = "emr"}
             A == {i \in DOMAIN audit["fetch"] : audit["fetch"][i].connector = "emr" /\ audit["fetch"][i].error}
             B == {i \in DOMAIN audit["fetch"] : audit["fetch"][i].connector = "emr" /\ audit["fetch"][i].consumed}
  <1>1. IsFiniteSet(C)
    BY RowsAreSome, FS_Subset DEF Tables
  <1>2. A \in SUBSET C /\ B \in SUBSET C /\ A \cap B = {}
    BY DEF AuditOk
  <1>3. Health("emr").errors = Cardinality(A) /\ Health("emr").consumed = Cardinality(B) /\ Health("emr").fetches = Cardinality(C)
    BY DEF Health, Where
  <1> HIDE DEF A, B, C
  <1>4. Cardinality(A) + Cardinality(B) <= Cardinality(C)
    BY <1>1, <1>2, PartsAddUp
  <1>5. QED BY <1>3, <1>4 DEF HealthAddsUp

-----------------------------------------------------------------------------
\* What has been answered of a summary, query by query.
FirstPicks(n) == [i \in 1 .. n |-> audit["pick"][i].ms]
FetchesFit(f) == f.hits + f.live <= f.fetches
DraftsFit(f) == f.served <= f.drafts
TurnsFit(f) == f.turnHits <= f.eligible
PicksFit(f) ==
    /\ f.reranks \in Nat /\ report.before["pick"] <= f.reranks /\ f.reranks <= Len(audit["pick"])
    /\ f.p50 = Percentile(FirstPicks(f.reranks), 50) /\ f.p95 = Percentile(FirstPicks(f.reranks), 95)
PickedFit(f) == f.picked \in Nat /\ f.picked <= Len(audit["pick"])
SessionsFit(f) ==
    /\ SumFunction(f) \in Nat
    /\ report.before["session"] <= SumFunction(f) /\ SumFunction(f) <= Len(audit["session"])
AllQueries == {"fetches", "drafts", "turns", "picks", "picked", "sessions", "done"}
FiguresSoFar ==
    /\ DOMAIN report = {"query", "figures", "late", "before"} /\ DOMAIN report.figures = AllQueries
    /\ report.query \in {"idle"} \cup AllQueries
    /\ report.query # "idle" =>
          /\ report.before["pick"] \in Nat /\ report.before["pick"] <= Len(audit["pick"])
          /\ report.before["session"] \in Nat /\ report.before["session"] <= Len(audit["session"])
    /\ report.query \in {"drafts", "turns", "picks", "picked", "sessions", "done"} => FetchesFit(report.figures["fetches"])
    /\ report.query \in {"turns", "picks", "picked", "sessions", "done"} => DraftsFit(report.figures["drafts"])
    /\ report.query \in {"picks", "picked", "sessions", "done"} => TurnsFit(report.figures["turns"])
    /\ report.query \in {"picked", "sessions", "done"} => PicksFit(report.figures["picks"])
    /\ report.query \in {"sessions", "done"} => PickedFit(report.figures["picked"])
    /\ report.query = "done" => SessionsFit(report.figures["sessions"])

LEMMA FetchesAnswered == AuditOk => FetchesFit(FetchFigures)
  <1> SUFFICES ASSUME AuditOk PROVE FetchesFit(FetchFigures)
    OBVIOUS
  <1> DEFINE rows == audit["fetch"]
             C == {i \in DOMAIN rows : rows[i].kind # "instruction"}
             A == {i \in DOMAIN rows : rows[i].kind # "instruction" /\ rows[i].speculative /\ rows[i].consumed}
             B == {i \in DOMAIN rows : rows[i].kind # "instruction" /\ ~rows[i].speculative}
  <1>1. IsFiniteSet(C) /\ A \in SUBSET C /\ B \in SUBSET C /\ A \cap B = {}
    BY RowsAreSome, FS_Subset DEF Tables
  <1>2. FetchFigures = [fetches |-> Cardinality(C), hits |-> Cardinality(A), live |-> Cardinality(B)]
    BY DEF FetchFigures, Where
  <1> HIDE DEF A, B, C
  <1>3. Cardinality(A) + Cardinality(B) <= Cardinality(C)
    BY <1>1, PartsAddUp
  <1>4. QED BY <1>2, <1>3 DEF FetchesFit

LEMMA DraftsAnswered == AuditOk => DraftsFit(DraftFigures)
  <1> SUFFICES ASSUME AuditOk PROVE DraftsFit(DraftFigures)
    OBVIOUS
  <1> DEFINE rows == audit["fetch"]
             C == {i \in DOMAIN rows : rows[i].kind = "instruction"}
             A == {i \in DOMAIN rows : rows[i].kind = "instruction" /\ rows[i].consumed}
  <1>1. IsFiniteSet(C) /\ A \in SUBSET C
    BY RowsAreSome, FS_Subset DEF Tables
  <1>2. DraftFigures = [drafts |-> Cardinality(C), served |-> Cardinality(A)]
    BY DEF DraftFigures, Where
  <1> HIDE DEF A, C
  <1>3. Cardinality(A) <= Cardinality(C)
    BY <1>1, PartIsLess
  <1>4. QED BY <1>2, <1>3 DEF DraftsFit

LEMMA TurnsAnswered == AuditOk => TurnsFit(TurnFigures)
  <1> SUFFICES ASSUME AuditOk PROVE TurnsFit(TurnFigures)
    OBVIOUS
  <1> DEFINE rows == audit["turn"]
             C == {i \in DOMAIN rows : ~rows[i].first}
             A == {i \in DOMAIN rows : ~rows[i].first /\ rows[i].hit}
  <1>1. IsFiniteSet(C) /\ A \in SUBSET C
    BY RowsAreSome, FS_Subset DEF Tables
  <1>2. TurnFigures = [eligible |-> Cardinality(C), turnHits |-> Cardinality(A)]
    BY DEF TurnFigures, Where
  <1> HIDE DEF A, C
  <1>3. Cardinality(A) <= Cardinality(C)
    BY <1>1, PartIsLess
  <1>4. QED BY <1>2, <1>3 DEF TurnsFit

LEMMA PicksAnswered ==
    AuditOk /\ report.before["pick"] <= Len(audit["pick"]) => PicksFit(PickFigures)
  <1> SUFFICES ASSUME AuditOk, report.before["pick"] <= Len(audit["pick"]) PROVE PicksFit(PickFigures)
    OBVIOUS
  <1> DEFINE n == Len(audit["pick"])
             ms == [i \in DOMAIN audit["pick"] |-> audit["pick"][i].ms]
  <1>1. n \in Nat /\ DOMAIN audit["pick"] = 1 .. n
    BY RowsAreSome DEF Tables
  <1>2. ms = FirstPicks(n) /\ Len(ms) = n
    BY <1>1 DEF FirstPicks
  <1>3. PickFigures = [reranks |-> Len(ms), p50 |-> Percentile(ms, 50), p95 |-> Percentile(ms, 95)]
    BY DEF PickFigures
  <1> HIDE DEF ms, n
  <1>4. QED BY <1>1, <1>2, <1>3 DEF PicksFit, n

LEMMA PickedAnswered == AuditOk => PickedFit(PickedFigures)
  <1> SUFFICES ASSUME AuditOk PROVE PickedFit(PickedFigures)
    OBVIOUS
  <1> DEFINE A == {i \in DOMAIN audit["pick"] : audit["pick"][i].some}
  <1>1. IsFiniteSet(DOMAIN audit["pick"]) /\ Cardinality(DOMAIN audit["pick"]) = Len(audit["pick"]) /\ A \in SUBSET (DOMAIN audit["pick"])
    BY RowsAreSome DEF Tables
  <1>2. PickedFigures = [picked |-> Cardinality(A)]
    BY DEF PickedFigures, Where
  <1> HIDE DEF A
  <1>3. Cardinality(A) \in Nat /\ Cardinality(A) <= Len(audit["pick"])
    BY <1>1, PartIsLess
  <1>4. QED BY <1>2, <1>3 DEF PickedFit

\* Every session has one label.
LEMMA SessionsAnswered ==
    AuditOk /\ report.before["session"] <= Len(audit["session"]) => SessionsFit(SessionFigures)
  <1> SUFFICES ASSUME AuditOk, report.before["session"] <= Len(audit["session"]) PROVE SessionsFit(SessionFigures)
    OBVIOUS
  <1> DEFINE rows == audit["session"]
             R == DOMAIN rows
             K == {"success", "in_progress", "no_outcome"}
             key == [i \in R |-> LabelOf(rows[i])]
             f == [l \in K |-> Where("session", LAMBDA x : LabelOf(x) = l)]
  <1>1. IsFiniteSet(R) /\ Cardinality(R) = Len(rows) /\ Len(rows) \in Nat
    BY RowsAreSome DEF Tables
  <1>2. \A i \in R : key[i] \in K
    <2> TAKE i \in R
    <2>1. rows[i] \in SessionRow
      BY DEF AuditOk
    <2>2. LabelOf(rows[i]) \in K
      BY <2>1 DEF LabelOf, SessionRow
    <2>3. QED BY <2>2
  <1>3. \A l \in K : f[l] = Cardinality(Class(R, key, l))
    <2> TAKE l \in K
    <2>1. Class(R, key, l) = {i \in R : LabelOf(rows[i]) = l}
      BY DEF Class
    <2>2. f[l] = Cardinality({i \in R : LabelOf(rows[i]) = l})
      BY DEF Where
    <2>3. QED BY <2>1, <2>2
  <1>4. IsFiniteSet(K)
    <2>1. IsFiniteSet({"success"}) /\ IsFiniteSet({"in_progress"}) /\ IsFiniteSet({"no_outcome"})
      BY FS_Singleton
    <2>2. K = ({"success"} \cup {"in_progress"}) \cup {"no_outcome"}
      OBVIOUS
    <2> HIDE DEF K
    <2>3. QED BY <2>1, <2>2, FS_Union
  <1>5. SessionFigures = f /\ DOMAIN f = K
    BY DEF SessionFigures
  <1> HIDE DEF f, key, K, R
  <1>6. SumFunctionOnSet(f, K) = Cardinality(R)
    BY <1>1, <1>2, <1>3, <1>4, SumOfClasses
  <1>7. SumFunction(f) = Len(rows)
    BY <1>1, <1>5, <1>6 DEF SumFunction
  <1>8. QED BY <1>1, <1>5, <1>7 DEF SessionsFit

-----------------------------------------------------------------------------
(***************************************************************************)
(* Percentiles.  The greatest duration exceeds none, so that there is one  *)
(* at each rank; and one of a higher rank is not below one of a lower.     *)
(***************************************************************************)
LEMMA LongestExists ==
    ASSUME NEW n \in Nat \ {0}, NEW ms \in [1 .. n -> Nat]
    PROVE  \E j \in 1 .. n : \A k \in 1 .. n : ms[k] <= ms[j]
  <1> DEFINE C == 1 .. n
             P == {T \in SUBSET C : T = {} \/ \E j \in T : \A k \in T : ms[k] <= ms[j]}
  <1>1. IsFiniteSet(C) /\ {} \in P
    BY FS_Interval
  <1>2. ASSUME NEW T \in P, NEW x \in C \ T PROVE T \cup {x} \in P
    <2>1. CASE T = {}
      BY <2>1
    <2>2. CASE T # {}
      <3>1. PICK j \in T : \A k \in T : ms[k] <= ms[j]
        BY <2>2
      <3>2. CASE ms[x] <= ms[j]
        BY <3>1, <3>2
      <3>3. CASE ms[x] > ms[j]
        <4>1. \A k \in T \cup {x} : ms[k] <= ms[x]
          BY <3>1, <3>3
        <4>2. QED BY <4>1
      <3>4. QED BY <3>2, <3>3
    <2>3. QED BY <2>1, <2>2
  <1>3. C \in P
    <2>1. P \in SUBSET SUBSET C
      OBVIOUS
    <2> HIDE DEF P, C
    <2>2. QED BY <1>1, <1>2, <2>1, Grow
  <1>4. 1 \in C
    OBVIOUS
  <1> HIDE DEF C
  <1>5. C = {} \/ \E j \in C : \A k \in C : ms[k] <= ms[j]
    BY <1>3
  <1>6. QED BY <1>4, <1>5 DEF C

LEMMA UptoCounts ==
    ASSUME NEW n \in Nat, NEW ms \in [1 .. n -> Nat], NEW x
    PROVE  Upto(ms, x) \in Nat /\ Upto(ms, x) <= n /\ ((\A j \in 1 .. n : ms[j] <= x) => Upto(ms, x) = n)
  <1> DEFINE A == {j \in 1 .. n : ms[j] <= x}
  <1>1. Upto(ms, x) = Cardinality(A)
    BY DEF Upto
  <1>2. A \in SUBSET (1 .. n) /\ ((\A j \in 1 .. n : ms[j] <= x) => A = 1 .. n)
    OBVIOUS
  <1>3. IsFiniteSet(1 .. n) /\ Cardinality(1 .. n) = n
    BY FS_Interval
  <1> HIDE DEF A
  <1>4. Cardinality(A) \in Nat /\ Cardinality(A) <= n
    BY <1>2, <1>3, PartIsLess
  <1>5. QED BY <1>1, <1>2, <1>3, <1>4

RanksAbove(ms, i) == {x \in Range(ms) : Upto(ms, x) > i}
LEMMA RankExists ==
    ASSUME NEW n \in Nat \ {0}, NEW ms \in [1 .. n -> Nat], NEW i \in 0 .. n - 1
    PROVE  AtRank(ms, i) \in RanksAbove(ms, i) /\ \A y \in RanksAbove(ms, i) : AtRank(ms, i) <= y
  <1>1. RanksAbove(ms, i) \in SUBSET Nat
    BY DEF RanksAbove, Range
  <1>2. RanksAbove(ms, i) # {}
    <2>1. PICK j \in 1 .. n : \A k \in 1 .. n : ms[k] <= ms[j]
      BY LongestExists
    <2>2. Upto(ms, ms[j]) = n
      BY <2>1, UptoCounts
    <2>3. ms[j] \in Range(ms)
      BY DEF Range
    <2>4. QED BY <2>2, <2>3 DEF RanksAbove
  <1> DEFINE V == RanksAbove(ms, i)
  <1>3. PICK x \in V : \A y \in V : <<y, x>> \notin OpToRel(<, Nat)
    BY <1>1, <1>2, NatLessThanWellFounded, WFMin, Zenon
  <1>4. \A y \in V : x <= y
    <2>1. \A y \in V : ~(y < x)
      BY <1>1, <1>3 DEF OpToRel
    <2>2. QED BY <1>1, <2>1
  <1>5. x \in Range(ms) /\ Upto(ms, x) > i /\ \A y \in Range(ms) : Upto(ms, y) > i => x <= y
    BY <1>4 DEF RanksAbove
  <1>6. AtRank(ms, i) \in Range(ms) /\ Upto(ms, AtRank(ms, i)) > i /\ \A y \in Range(ms) : Upto(ms, y) > i => AtRank(ms, i) <= y
    BY <1>5 DEF AtRank
  <1>7. QED BY <1>6 DEF RanksAbove

\* The position a percentile is at.
Position(n, q) == IF (q * n) \div 100 < n THEN (q * n) \div 100 ELSE n - 1

LEMMA PositionsFit ==
    ASSUME NEW n \in Nat \ {0}
    PROVE  /\ Position(n, 50) \in 0 .. n - 1 /\ Position(n, 95) \in 0 .. n - 1 /\ Position(n, 50) <= Position(n, 95)
           /\ 2 * (Position(n, 50) + 1) >= n
  <1>1. (50 * n) \div 100 \in Nat /\ (95 * n) \div 100 \in Nat /\ (50 * n) \div 100 <= (95 * n) \div 100
    OBVIOUS
  <1>2. 2 * ((50 * n) \div 100 + 1) >= n
    OBVIOUS
  <1>3. QED BY <1>1, <1>2 DEF Position

LEMMA PercentilesFit ==
    ASSUME NEW n \in Nat \ {0}, NEW ms \in [1 .. n -> Nat]
    PROVE  /\ Percentile(ms, 50) \in Range(ms) /\ Percentile(ms, 95) \in Range(ms)
           /\ Percentile(ms, 50) <= Percentile(ms, 95)
           /\ 2 * Upto(ms, Percentile(ms, 50)) >= n
  <1> DEFINE i == Position(n, 50)
             j == Position(n, 95)
  <1>1. i \in 0 .. n - 1 /\ j \in 0 .. n - 1 /\ i <= j /\ 2 * (i + 1) >= n
    BY PositionsFit
  <1>2. Len(ms) = n /\ ms # <<>>
    <2>1. ms \in Seq(Nat) /\ Len(ms) = n
      OBVIOUS
    <2>2. QED BY <2>1
  <1>3. Percentile(ms, 50) = AtRank(ms, i) /\ Percentile(ms, 95) = AtRank(ms, j)
    BY <1>2 DEF Percentile, Position
  <1> HIDE DEF i, j
  <1>4. AtRank(ms, i) \in RanksAbove(ms, i) /\ \A y \in RanksAbove(ms, i) : AtRank(ms, i) <= y
    BY <1>1, RankExists
  <1>5. AtRank(ms, j) \in RanksAbove(ms, j)
    BY <1>1, RankExists
  <1>6. AtRank(ms, i) \in Range(ms) /\ AtRank(ms, j) \in Range(ms) /\ Upto(ms, AtRank(ms, i)) > i /\ Upto(ms, AtRank(ms, j)) > j
    BY <1>4, <1>5 DEF RanksAbove
  <1>7. Upto(ms, AtRank(ms, i)) \in Nat /\ Upto(ms, AtRank(ms, j)) \in Nat
    BY UptoCounts
  <1>8. AtRank(ms, j) \in RanksAbove(ms, i)
    BY <1>1, <1>6, <1>7 DEF RanksAbove
  <1>9. 2 * Upto(ms, AtRank(ms, i)) >= n
    BY <1>1, <1>6, <1>7
  <1>10. QED BY <1>3, <1>4, <1>6, <1>8, <1>9

LEMMA PercentilesFollow == AuditOk /\ FiguresSoFar => PercentilesAreDurations
  <1> SUFFICES ASSUME AuditOk, FiguresSoFar, report.query = "done", report.figures.picks.reranks > 0
               PROVE  /\ {report.figures.picks.p50, report.figures.picks.p95} \subseteq {audit["pick"][i].ms : i \in DOMAIN audit["pick"]}
                      /\ report.figures.picks.p50 <= report.figures.picks.p95
                      /\ 2 * Cardinality({i \in 1 .. report.figures.picks.reranks : audit["pick"][i].ms <= report.figures.picks.p50})
                            >= report.figures.picks.reranks
    BY DEF PercentilesAreDurations
  <1> DEFINE f == report.figures.picks
             n == f.reranks
             ms == FirstPicks(n)
             rows == audit["pick"]
  <1>1. n \in Nat \ {0} /\ n <= Len(rows) /\ f.p50 = Percentile(ms, 50) /\ f.p95 = Percentile(ms, 95)
    BY DEF FiguresSoFar, PicksFit
  <1>2. Len(rows) \in Nat /\ DOMAIN rows = 1 .. Len(rows) /\ \A i \in DOMAIN rows : rows[i] \in PickRow
    BY RowsAreSome DEF AuditOk, Tables
  <1>3. \A i \in 1 .. n : i \in DOMAIN rows /\ rows[i].ms \in Nat
    <2> TAKE i \in 1 .. n
    <2>1. i \in DOMAIN rows
      BY <1>1, <1>2
    <2>2. rows[i] \in PickRow
      BY <1>2, <2>1
    <2>3. rows[i].ms \in Durations
      BY <2>2 DEF PickRow
    <2>4. QED BY <2>1, <2>3, MetricsAssumption
  <1>4. ms \in [1 .. n -> Nat] /\ \A i \in 1 .. n : ms[i] = rows[i].ms
    BY <1>3 DEF FirstPicks
  <1>5. DOMAIN ms = 1 .. n
    BY <1>4
  <1> HIDE DEF ms, n, f, rows
  <1>6. /\ f.p50 \in Range(ms) /\ f.p95 \in Range(ms) /\ f.p50 <= f.p95
        /\ 2 * Upto(ms, f.p50) >= n
    BY <1>1, <1>4, PercentilesFit
  <1>7. Range(ms) \subseteq {rows[i].ms : i \in DOMAIN rows}
    BY <1>3, <1>4, <1>5 DEF Range
  <1>8. Upto(ms, f.p50) = Cardinality({i \in 1 .. n : rows[i].ms <= f.p50})
    <2>1. {i \in DOMAIN ms : ms[i] <= f.p50} = {i \in 1 .. n : rows[i].ms <= f.p50}
      BY <1>4, <1>5
    <2>2. QED BY <2>1 DEF Upto
  <1>9. QED BY <1>6, <1>7, <1>8 DEF f, n, rows

LEMMA SummariesFollow == AuditOk /\ FiguresSoFar => SummariesAddUp
  <1> SUFFICES ASSUME AuditOk, FiguresSoFar, report.query = "done"
               PROVE  LET f == report.figures
                          since == Len(audit["pick"]) - report.before["pick"]
                      IN /\ f.fetches.hits + f.fetches.live <= f.fetches.fetches
                         /\ f.drafts.served <= f.drafts.drafts /\ f.turns.turnHits <= f.turns.eligible
                         /\ f.picked.picked <= f.picks.reranks + since
                         /\ report.before["session"] <= SumFunction(f.sessions)
                         /\ SumFunction(f.sessions) <= Len(audit["session"])
    BY DEF SummariesAddUp
  <1> DEFINE f == report.figures
  <1>1. FetchesFit(f.fetches) /\ DraftsFit(f.drafts) /\ TurnsFit(f.turns) /\ PicksFit(f.picks) /\ PickedFit(f.picked) /\ SessionsFit(f.sessions)
    BY DEF FiguresSoFar
  <1>2. Len(audit["pick"]) \in Nat /\ report.before["pick"] \in Nat
    BY RowsAreSome DEF FiguresSoFar, Tables
  <1> HIDE DEF f
  <1>3. f.picked.picked <= f.picks.reranks + (Len(audit["pick"]) - report.before["pick"])
    BY <1>1, <1>2 DEF PicksFit, PickedFit
  <1>4. QED BY <1>1, <1>3 DEF FetchesFit, DraftsFit, TurnsFit, SessionsFit, f

LEMMA FiguresInit == MetricsInit => FiguresSoFar
  BY DEF MetricsInit, FiguresSoFar, NoReport, AllQueries, QueryOrder, Range

NextQuery(q) == QueryOrder[1 + CHOOSE i \in DOMAIN QueryOrder : QueryOrder[i] = q]
LEMMA QueriesFollow ==
    /\ NextQuery("fetches") = "drafts" /\ NextQuery("drafts") = "turns" /\ NextQuery("turns") = "picks"
    /\ NextQuery("picks") = "picked" /\ NextQuery("picked") = "sessions" /\ NextQuery("sessions") = "done"
  <1>1. DOMAIN QueryOrder = 1 .. 7
    BY DEF QueryOrder
  <1>2. /\ QueryOrder[1] = "fetches" /\ QueryOrder[2] = "drafts" /\ QueryOrder[3] = "turns" /\ QueryOrder[4] = "picks"
        /\ QueryOrder[5] = "picked" /\ QueryOrder[6] = "sessions" /\ QueryOrder[7] = "done"
    BY DEF QueryOrder
  <1>3. ASSUME NEW k \in 1 .. 6 PROVE NextQuery(QueryOrder[k]) = QueryOrder[k + 1]
    <2> DEFINE c == CHOOSE i \in DOMAIN QueryOrder : QueryOrder[i] = QueryOrder[k]
    <2>1. c \in 1 .. 7 /\ QueryOrder[c] = QueryOrder[k]
      BY <1>1
    <2>2. c = k
      <3> HIDE DEF c
      <3>1. QED BY <1>2, <2>1
    <2>3. NextQuery(QueryOrder[k]) = QueryOrder[1 + c]
      BY DEF NextQuery
    <2> HIDE DEF c
    <2>4. QED BY <2>2, <2>3
  <1>4. QED BY <1>2, <1>3

\* What was answered stays right when rows are added and marked.
LEMMA FiguresStay ==
    ASSUME AuditOk, FiguresSoFar, RowsStay, AuditOk',
           report'.query = report.query, report'.figures = report.figures, report'.before = report.before,
           DOMAIN report' = DOMAIN report
    PROVE  FiguresSoFar'
  <1>1. /\ Len(audit["pick"]) \in Nat /\ Len(audit'["pick"]) \in Nat /\ Len(audit["session"]) \in Nat /\ Len(audit'["session"]) \in Nat
        /\ DOMAIN audit["pick"] = 1 .. Len(audit["pick"])
    <2>1. Len(audit["pick"]) \in Nat /\ Len(audit["session"]) \in Nat /\ DOMAIN audit["pick"] = 1 .. Len(audit["pick"])
      BY RowsAreSome DEF Tables
    <2>2. audit'["pick"] \in Seq(PickRow) /\ audit'["session"] \in Seq(SessionRow)
      BY DEF AuditOk
    <2>3. QED BY <2>1, <2>2
  <1>2. \A f : PicksFit(f) => PicksFit(f)'
    <2> SUFFICES ASSUME NEW f, PicksFit(f) PROVE PicksFit(f)'
      OBVIOUS
    <2>1. f.reranks \in Nat /\ f.reranks <= Len(audit["pick"]) /\ f.reranks <= Len(audit'["pick"])
      BY <1>1 DEF PicksFit, RowsStay
    <2>2. \A i \in 1 .. f.reranks : audit'["pick"][i] = audit["pick"][i]
      BY <1>1, <2>1 DEF RowsStay
    <2>3. FirstPicks(f.reranks)' = FirstPicks(f.reranks)
      BY <2>2 DEF FirstPicks
    <2> DEFINE ms == FirstPicks(f.reranks)
    <2>4. f.p50 = Percentile(ms, 50) /\ f.p95 = Percentile(ms, 95) /\ report.before["pick"] <= f.reranks
      BY DEF PicksFit
    <2> HIDE DEF ms
    <2>5. QED BY <2>1, <2>3, <2>4 DEF PicksFit, ms
  <1>3. \A f : PickedFit(f) => PickedFit(f)'
    BY <1>1 DEF PickedFit, RowsStay
  <1>4. \A f : SessionsFit(f) => SessionsFit(f)'
    BY <1>1 DEF SessionsFit, RowsStay
  <1>5. report.query # "idle" => report.before["pick"] <= Len(audit'["pick"]) /\ report.before["session"] <= Len(audit'["session"])
    BY <1>1 DEF FiguresSoFar, RowsStay
  <1>6. \A f : (FetchesFit(f) => FetchesFit(f)') /\ (DraftsFit(f) => DraftsFit(f)') /\ (TurnsFit(f) => TurnsFit(f)')
    BY DEF FetchesFit, DraftsFit, TurnsFit
  <1> HIDE DEF PicksFit, PickedFit, SessionsFit, FetchesFit, DraftsFit, TurnsFit
  <1>7. QED BY <1>2, <1>3, <1>4, <1>5, <1>6 DEF FiguresSoFar

LEMMA FiguresStep ==
    ASSUME AuditOk, FiguresSoFar, [MetricsNext]_metricsVars
    PROVE  FiguresSoFar'
  <1> DEFINE f == report.figures
             q == report.query
  <1>0. AuditOk' /\ RowsStay
    BY AuditStep
  <1>1. CASE Meanwhile
    <2>1. report'.query = report.query /\ report'.figures = report.figures /\ report'.before = report.before /\ DOMAIN report' = DOMAIN report
      BY <1>1 DEF Meanwhile, FiguresSoFar
    <2>2. QED BY <1>0, <2>1, FiguresStay
  <1>2. CASE UNCHANGED report
    BY <1>0, <1>2, FiguresStay
  <1>3. CASE AskSummary
    <2>1. report' = [NoReport EXCEPT !.query = "fetches", !.before = [t \in Tables |-> Len(audit[t])]] /\ audit' = audit
      BY <1>3 DEF AskSummary
    <2>2. /\ DOMAIN report' = {"query", "figures", "late", "before"} /\ DOMAIN report'.figures = AllQueries
          /\ report'.query = "fetches" /\ report'.before["pick"] = Len(audit["pick"]) /\ report'.before["session"] = Len(audit["session"])
      BY <2>1 DEF NoReport, AllQueries, QueryOrder, Range, Tables
    <2>3. Len(audit["pick"]) \in Nat /\ Len(audit["session"]) \in Nat
      BY RowsAreSome DEF Tables
    <2>4. QED BY <2>1, <2>2, <2>3 DEF FiguresSoFar, AllQueries
  <1>4. CASE SummaryStep
    <2>1. q \in AllQueries \ {"done"} /\ audit' = audit
      BY <1>4 DEF SummaryStep, FiguresSoFar
    <2>2. /\ DOMAIN report' = {"query", "figures", "late", "before"}
          /\ report'.query = NextQuery(q) /\ report'.before = report.before
          /\ report'.figures = [f EXCEPT ![q] = Answer(q)]
      BY <1>4 DEF SummaryStep, FiguresSoFar, NextQuery
    <2>3. /\ DOMAIN report'.figures = AllQueries /\ report'.figures[q] = Answer(q)
          /\ \A x \in AllQueries \ {q} : report'.figures[x] = f[x]
      BY <2>1, <2>2 DEF FiguresSoFar
    <2>4. /\ report.before["pick"] \in Nat /\ report.before["pick"] <= Len(audit["pick"])
          /\ report.before["session"] \in Nat /\ report.before["session"] <= Len(audit["session"])
      BY <2>1 DEF FiguresSoFar, AllQueries
    <2>5. \A x : (PicksFit(x) => PicksFit(x)') /\ (PickedFit(x) => PickedFit(x)') /\ (SessionsFit(x) => SessionsFit(x)')
      BY <2>1, <2>2 DEF PicksFit, PickedFit, SessionsFit, FirstPicks
    <2>6. CASE q = "fetches"
      <3>1. FetchesFit(report'.figures["fetches"])
        BY <2>3, <2>6, FetchesAnswered DEF Answer
      <3>2. report'.query = "drafts"
        BY <2>2, <2>6, QueriesFollow
      <3>3. QED BY <2>1, <2>2, <2>3, <2>4, <3>1, <3>2 DEF FiguresSoFar, AllQueries
    <2>7. CASE q = "drafts"
      <3>1. DraftsFit(report'.figures["drafts"])
        BY <2>3, <2>7, DraftsAnswered DEF Answer
      <3>2. report'.query = "turns" /\ FetchesFit(f["fetches"])
        BY <2>2, <2>7, QueriesFollow DEF FiguresSoFar
      <3>3. QED BY <2>1, <2>2, <2>3, <2>4, <2>7, <3>1, <3>2 DEF FiguresSoFar, AllQueries
    <2>8. CASE q = "turns"
      <3>1. TurnsFit(report'.figures["turns"])
        BY <2>3, <2>8, TurnsAnswered DEF Answer
      <3>2. report'.query = "picks" /\ FetchesFit(f["fetches"]) /\ DraftsFit(f["drafts"])
        BY <2>2, <2>8, QueriesFollow DEF FiguresSoFar
      <3>3. QED BY <2>1, <2>2, <2>3, <2>4, <2>8, <3>1, <3>2 DEF FiguresSoFar, AllQueries
    <2>9. CASE q = "picks"
      <3>1. PicksFit(report.figures["picks"])'
        <4>1. Answer(q) = PickFigures /\ PicksFit(PickFigures)
          BY <2>4, <2>9, PicksAnswered DEF Answer
        <4>2. QED BY <2>3, <2>5, <2>9, <4>1
      <3>2. report'.query = "picked" /\ FetchesFit(f["fetches"]) /\ DraftsFit(f["drafts"]) /\ TurnsFit(f["turns"])
        BY <2>2, <2>9, QueriesFollow DEF FiguresSoFar
      <3> HIDE DEF PicksFit
      <3>3. QED BY <2>1, <2>2, <2>3, <2>4, <2>9, <3>1, <3>2 DEF FiguresSoFar, AllQueries
    <2>10. CASE q = "picked"
      <3>1. PickedFit(report.figures["picked"])'
        <4>1. Answer(q) = PickedFigures /\ PickedFit(PickedFigures)
          BY <2>10, PickedAnswered DEF Answer
        <4>2. QED BY <2>3, <2>5, <2>10, <4>1
      <3>2. report'.query = "sessions" /\ FetchesFit(f["fetches"]) /\ DraftsFit(f["drafts"]) /\ TurnsFit(f["turns"]) /\ PicksFit(f["picks"])
        BY <2>2, <2>10, QueriesFollow DEF FiguresSoFar
      <3>3. PicksFit(report.figures["picks"])'
        BY <2>3, <2>5, <2>10, <3>2 DEF AllQueries
      <3>4. QED BY <2>1, <2>2, <2>3, <2>4, <2>10, <3>1, <3>2, <3>3 DEF FiguresSoFar, AllQueries
    <2>11. CASE q = "sessions"
      <3>1. SessionsFit(report.figures["sessions"])'
        <4>1. Answer(q) = SessionFigures /\ SessionsFit(SessionFigures)
          BY <2>4, <2>11, SessionsAnswered DEF Answer
        <4>2. QED BY <2>3, <2>5, <2>11, <4>1
      <3>2. /\ report'.query = "done" /\ FetchesFit(f["fetches"]) /\ DraftsFit(f["drafts"]) /\ TurnsFit(f["turns"])
            /\ PicksFit(f["picks"]) /\ PickedFit(f["picked"])
        BY <2>2, <2>11, QueriesFollow DEF FiguresSoFar
      <3>3. PicksFit(report.figures["picks"])' /\ PickedFit(report.figures["picked"])'
        BY <2>3, <2>5, <2>11, <3>2 DEF AllQueries
      <3>4. QED BY <2>1, <2>2, <2>3, <2>4, <2>11, <3>1, <3>2, <3>3 DEF FiguresSoFar, AllQueries
    <2>12. QED BY <2>1, <2>6, <2>7, <2>8, <2>9, <2>10, <2>11 DEF AllQueries
  <1>5. QED BY <1>1, <1>2, <1>3, <1>4 DEF MetricsNext, metricsVars, WriteRow, MarkConsumed, SessionMoves, JudgeTurn, Terminal

-----------------------------------------------------------------------------
(***************************************************************************)
(* The sessions of an arm, for any scores and any length of the run: a     *)
(* turn is indexed by its place, so a point of the curve is a column of    *)
(* the table of the scores, and the overall mean is of its rows.           *)
(***************************************************************************)
ArmTurn == [index : Nat, accuracy : 0 .. 1000]
ArmRow == [turns : Seq(ArmTurn), outcome : {"abandoned", "success", "failure"}]
InPlace(turns) == Len(turns) >= 1 /\ \A t \in DOMAIN turns : turns[t].index = t - 1
Lengths(a) == [s \in DOMAIN a |-> Len(a[s].turns)]
ArmOk ==
    /\ arm \in Seq(ArmRow)
    /\ \A s \in DOMAIN arm : InPlace(arm[s].turns)
    /\ RunLength <= MaxRun

LEMMA Lengthy ==
    ASSUME NEW a \in Seq(ArmRow)
    PROVE  /\ Len(a) \in Nat /\ DOMAIN a = 1 .. Len(a) /\ IsFiniteSet(DOMAIN a) /\ DOMAIN Lengths(a) = DOMAIN a
           /\ Numbers(Lengths(a), DOMAIN a)
           /\ SumFunction(Lengths(a)) = SumFunctionOnSet(Lengths(a), DOMAIN a) /\ SumFunction(Lengths(a)) \in Nat
  <1>1. Len(a) \in Nat /\ DOMAIN a = 1 .. Len(a) /\ DOMAIN Lengths(a) = DOMAIN a
    BY DEF Lengths
  <1>2. IsFiniteSet(DOMAIN a)
    BY <1>1, FS_Interval
  <1>3. \A s \in DOMAIN a : Lengths(a)[s] \in Nat
    <2> TAKE s \in DOMAIN a
    <2>1. a[s] \in ArmRow
      OBVIOUS
    <2>2. a[s].turns \in Seq(ArmTurn)
      BY <2>1 DEF ArmRow
    <2>3. QED BY <2>2 DEF Lengths
  <1>4. QED BY <1>1, <1>2, <1>3, SumNat DEF SumFunction, Numbers

LEMMA LengthAdded ==
    ASSUME NEW a \in Seq(ArmRow), NEW x \in ArmRow, Len(x.turns) = 1
    PROVE  SumFunction(Lengths(Append(a, x))) = SumFunction(Lengths(a)) + 1
  <1> DEFINE b == Append(a, x)
             n == Len(a)
             f == Lengths(b)
  <1>1. b \in Seq(ArmRow) /\ Len(b) = n + 1 /\ n \in Nat /\ (\A i \in DOMAIN a : b[i] = a[i]) /\ b[n + 1] = x
    OBVIOUS
  <1>2. DOMAIN a = 1 .. n /\ DOMAIN b = 1 .. n + 1
    BY <1>1
  <1> HIDE DEF b, n
  <1>3. DOMAIN b = DOMAIN a \cup {n + 1} /\ n + 1 \notin DOMAIN a
    BY <1>1, <1>2
  <1>4. \A s \in DOMAIN a : Lengths(a)[s] = f[s]
    BY <1>1, <1>3 DEF Lengths
  <1>5. f[n + 1] = 1
    BY <1>1, <1>3 DEF Lengths
  <1> HIDE DEF f
  <1>6. Numbers(Lengths(a), DOMAIN a) /\ IsFiniteSet(DOMAIN a) /\ Numbers(f, DOMAIN a)
    BY <1>4, Lengthy DEF Numbers
  <1>7. SumFunctionOnSet(Lengths(a), DOMAIN a) = SumFunctionOnSet(f, DOMAIN a)
    BY <1>4, <1>6, SumAgree
  <1>8. SumFunctionOnSet(f, DOMAIN a \cup {n + 1}) = f[n + 1] + SumFunctionOnSet(f, DOMAIN a)
    BY <1>3, <1>5, <1>6, SumAdd
  <1>9. SumFunction(f) = SumFunctionOnSet(f, DOMAIN b)
    BY <1>1, Lengthy DEF f
  <1>10. SumFunction(Lengths(a)) = SumFunctionOnSet(Lengths(a), DOMAIN a) /\ SumFunction(Lengths(a)) \in Nat
    BY Lengthy
  <1>11. SumFunction(f) = SumFunction(Lengths(a)) + 1
    BY <1>3, <1>5, <1>7, <1>8, <1>9, <1>10
  <1>12. QED BY <1>11 DEF f, b

LEMMA LengthGrown ==
    ASSUME NEW a \in Seq(ArmRow), NEW b \in Seq(ArmRow), NEW k \in DOMAIN a, DOMAIN b = DOMAIN a,
           \A s \in DOMAIN a \ {k} : b[s].turns = a[s].turns,
           Len(b[k].turns) = Len(a[k].turns) + 1
    PROVE  SumFunction(Lengths(b)) = SumFunction(Lengths(a)) + 1
  <1> DEFINE f == Lengths(a)
             g == Lengths(b)
             C == DOMAIN a
  <1>1. g[k] = f[k] + 1 /\ \A s \in C \ {k} : f[s] = g[s]
    BY DEF Lengths
  <1> HIDE DEF f, g
  <1>2. /\ IsFiniteSet(C) /\ Numbers(f, C) /\ Numbers(g, C)
        /\ SumFunction(f) = SumFunctionOnSet(f, C) /\ SumFunction(g) = SumFunctionOnSet(g, C)
    BY Lengthy DEF f, g
  <1> HIDE DEF C
  <1>3. k \in C
    BY DEF C
  <1> DEFINE R == C \ {k}
  <1>4. IsFiniteSet(R) /\ Numbers(f, R) /\ f[k] \in Nat
    BY <1>2, <1>3, FS_RemoveElement DEF Numbers
  <1>5. SumFunctionOnSet(f, C) = f[k] + SumFunctionOnSet(f, R) /\ SumFunctionOnSet(g, C) = g[k] + SumFunctionOnSet(g, R)
    BY <1>2, <1>3, SumOut
  <1> HIDE DEF R
  <1>6. \A s \in R : f[s] = g[s]
    BY <1>1 DEF R
  <1>7. SumFunctionOnSet(f, R) = SumFunctionOnSet(g, R) /\ SumFunctionOnSet(f, R) \in Nat
    BY <1>4, <1>6, SumAgree, SumNat
  <1>8. SumFunction(g) = SumFunction(f) + 1
    BY <1>1, <1>2, <1>4, <1>5, <1>7
  <1>9. QED BY <1>8 DEF f, g

LEMMA ScoresAreBounded ==
    \A raw \in Scores : Clamped(raw, 500, 1000) \in 0 .. 1000
  <1> TAKE raw \in Scores
  <1>1. raw \in Nat \/ raw = Garbage
    BY MetricsAssumption
  <1>2. CASE raw = Garbage
    BY <1>2 DEF Clamped
  <1>3. CASE raw \in Nat /\ raw # Garbage
    <2> DEFINE m == Min({raw, 1000})
    <2>1. \E x \in {raw, 1000} : \A y \in {raw, 1000} : x <= y
      BY <1>3
    <2>2. m \in {raw, 1000} /\ \A y \in {raw, 1000} : m <= y
      BY <2>1 DEF Min
    <2>3. m \in 0 .. 1000
      <3> HIDE DEF m
      <3>1. QED BY <1>3, <2>2
    <2>4. Clamped(raw, 500, 1000) = m
      BY <1>3 DEF Clamped
    <2>5. QED BY <2>3, <2>4
  <1>4. QED BY <1>1, <1>2, <1>3

LEMMA ArmInit == MetricsInit => ArmOk
  <1> SUFFICES ASSUME MetricsInit PROVE ArmOk
    OBVIOUS
  <1>1. arm = <<>> /\ arm \in Seq(ArmRow) /\ DOMAIN arm = {}
    BY DEF MetricsInit
  <1>2. RunLength = SumFunctionOnSet([s \in DOMAIN arm |-> Len(arm[s].turns)], {})
    BY <1>1 DEF RunLength, SumFunction
  <1>3. RunLength = 0
    BY <1>2, SumEmpty
  <1>4. QED BY <1>1, <1>3, MetricsAssumption DEF ArmOk

LEMMA ArmStep ==
    ASSUME ArmOk, [MetricsNext]_metricsVars
    PROVE  ArmOk'
  <1>0. Len(arm) \in Nat /\ DOMAIN arm = 1 .. Len(arm) /\ RunLength = SumFunction(Lengths(arm)) /\ RunLength \in Nat
        /\ RunLength' = SumFunction(Lengths(arm'))
    BY Lengthy DEF ArmOk, RunLength, Lengths
  <1>1. ASSUME JudgeTurn PROVE ArmOk'
    <2>1. PICK raw \in Scores :
            LET point == [index |-> 0, accuracy |-> Clamped(raw, 500, 1000)] IN
            \/ arm' = Append(arm, [turns |-> <<point>>, outcome |-> "abandoned"])
            \/ /\ arm # <<>> /\ Last(arm).outcome = "abandoned"
               /\ arm' = [arm EXCEPT ![Len(arm)].turns = Append(@, [point EXCEPT !.index = Len(Last(arm).turns)])]
      BY <1>1 DEF JudgeTurn
    <2> DEFINE c == Clamped(raw, 500, 1000)
    <2>2. c \in 0 .. 1000 /\ RunLength < MaxRun /\ MaxRun \in Nat
      <3>1. c \in 0 .. 1000
        BY ScoresAreBounded
      <3>2. RunLength < MaxRun /\ MaxRun \in Nat
        BY <1>1, MetricsAssumption DEF JudgeTurn
      <3>3. QED BY <3>1, <3>2
    <2> HIDE DEF c
    <2>3. CASE arm' = Append(arm, [turns |-> <<[index |-> 0, accuracy |-> c]>>, outcome |-> "abandoned"])
      <3> DEFINE x == [turns |-> <<[index |-> 0, accuracy |-> c]>>, outcome |-> "abandoned"]
      <3>1. x \in ArmRow /\ Len(x.turns) = 1 /\ InPlace(x.turns)
        BY <2>2 DEF ArmRow, ArmTurn, InPlace
      <3> HIDE DEF x
      <3>2. arm \in Seq(ArmRow) /\ \A s \in DOMAIN arm : InPlace(arm[s].turns)
        BY DEF ArmOk
      <3>3. /\ Append(arm, x) \in Seq(ArmRow)
            /\ (\A i \in DOMAIN arm : Append(arm, x)[i] = arm[i])
            /\ \A i \in DOMAIN Append(arm, x) : i \in DOMAIN arm \/ Append(arm, x)[i] = x
        BY <3>1, <3>2, AddedTo
      <3>4. SumFunction(Lengths(Append(arm, x))) = SumFunction(Lengths(arm)) + 1
        BY <3>1, <3>2, LengthAdded
      <3>5. arm' = Append(arm, x)
        BY <2>3 DEF x
      <3>6. RunLength' <= MaxRun
        BY <1>0, <2>2, <3>4, <3>5
      <3>7. \A i \in DOMAIN Append(arm, x) : InPlace(Append(arm, x)[i].turns)
        BY <3>1, <3>2, <3>3
      <3>8. QED BY <3>3, <3>5, <3>6, <3>7 DEF ArmOk
    <2>4. CASE /\ arm # <<>>
               /\ arm' = [arm EXCEPT ![Len(arm)].turns = Append(@, [[index |-> 0, accuracy |-> c] EXCEPT !.index = Len(Last(arm).turns)])]
      <3> DEFINE k == Len(arm)
                 old == arm[k].turns
                 point == [index |-> Len(old), accuracy |-> c]
                 row == [arm[k] EXCEPT !.turns = Append(old, point)]
      <3>1. k \in DOMAIN arm /\ arm[k] \in ArmRow /\ InPlace(old)
        BY <1>0, <2>4 DEF ArmOk
      <3>2. Last(arm) = arm[k]
        BY DEF Last
      <3>3. old \in Seq(ArmTurn) /\ point \in ArmTurn
        BY <2>2, <3>1 DEF ArmRow, ArmTurn
      <3>4. arm' = [arm EXCEPT ![k] = row]
        <4>1. [[index |-> 0, accuracy |-> c] EXCEPT !.index = Len(Last(arm).turns)] = point
          BY <3>2
        <4> HIDE DEF point
        <4>2. arm' = [arm EXCEPT ![k].turns = Append(@, point)]
          BY <2>4, <4>1
        <4>3. QED BY <4>2
      <3> DEFINE new == Append(old, point)
      <3>5. new \in Seq(ArmTurn) /\ Len(new) = Len(old) + 1 /\ Len(old) \in Nat
        BY <3>3, AddedTo
      <3>6. InPlace(new)
        <4>1. \A t \in DOMAIN new : new[t].index = t - 1
          <5> TAKE t \in DOMAIN new
          <5>1. t \in 1 .. Len(old) + 1 /\ DOMAIN old = 1 .. Len(old)
            BY <3>3
          <5>2. CASE t \in DOMAIN old
            BY <3>1, <3>3, <5>2 DEF InPlace
          <5>3. CASE t = Len(old) + 1
            BY <3>3, <5>3
          <5>4. QED BY <5>1, <5>2, <5>3
        <4>2. QED BY <3>5, <4>1 DEF InPlace
      <3>7. row \in ArmRow /\ row.turns = new
        BY <3>1, <3>5 DEF ArmRow
      <3> HIDE DEF new, row, point, old, k
      <3>8. arm \in Seq(ArmRow) /\ [arm EXCEPT ![k] = row] \in Seq(ArmRow)
        BY <3>1, <3>7, MarkedIn DEF ArmOk
      <3>9. DOMAIN arm' = DOMAIN arm /\ arm'[k] = row /\ \A s \in DOMAIN arm \ {k} : arm'[s] = arm[s]
        BY <3>1, <3>4
      <3>10. Len(arm'[k].turns) = Len(arm[k].turns) + 1
        BY <3>5, <3>7, <3>9 DEF old
      <3>11. SumFunction(Lengths(arm')) = SumFunction(Lengths(arm)) + 1
        BY <3>1, <3>4, <3>8, <3>9, <3>10, LengthGrown
      <3>12. \A s \in DOMAIN arm' : InPlace(arm'[s].turns)
        BY <3>6, <3>7, <3>9 DEF ArmOk
      <3>13. QED BY <1>0, <2>2, <3>4, <3>8, <3>11, <3>12 DEF ArmOk
    <2>5. QED BY <2>1, <2>3, <2>4 DEF c
  <1>2. ASSUME Terminal PROVE ArmOk'
    <2>1. PICK o \in {"success", "failure"} : arm' = [arm EXCEPT ![Len(arm)].outcome = o]
      BY <1>2 DEF Terminal
    <2> DEFINE k == Len(arm)
               row == [arm[k] EXCEPT !.outcome = o]
    <2>2. k \in DOMAIN arm /\ arm[k] \in ArmRow /\ arm \in Seq(ArmRow)
      BY <1>0, <1>2 DEF ArmOk, Terminal
    <2>3. row \in ArmRow /\ row.turns = arm[k].turns
      BY <2>2 DEF ArmRow
    <2>8. arm' = [arm EXCEPT ![k] = row]
      BY <2>1
    <2> HIDE DEF k, row
    <2>4. arm' \in Seq(ArmRow)
      BY <2>2, <2>3, <2>8, MarkedIn
    <2>5. DOMAIN arm' = DOMAIN arm /\ \A s \in DOMAIN arm : arm'[s].turns = arm[s].turns
      BY <2>2, <2>3, <2>8
    <2>6. Lengths(arm') = Lengths(arm)
      BY <2>5 DEF Lengths
    <2>7. QED BY <1>0, <2>4, <2>5, <2>6 DEF ArmOk
  <1>3. CASE UNCHANGED arm
    BY <1>3 DEF ArmOk, RunLength
  <1>4. QED BY <1>1, <1>2, <1>3 DEF MetricsNext, metricsVars, WriteRow, MarkConsumed, SessionMoves, Meanwhile, AskSummary, SummaryStep

\* Part of a set, summed as ones and zeros.
LEMMA SumOfPart ==
    ASSUME NEW C, IsFiniteSet(C), NEW T \in SUBSET C, NEW f, \A x \in C : f[x] = IF x \in T THEN 1 ELSE 0
    PROVE  Numbers(f, C) /\ SumFunctionOnSet(f, C) = Cardinality(T)
  <1>1. Numbers(f, C) /\ IsFiniteSet(T) /\ (\A x \in C \ T : f[x] = 0) /\ \A x \in T : f[x] = 1
    BY FS_Subset DEF Numbers
  <1>2. SumFunctionOnSet(f, C) = SumFunctionOnSet(f, T)
    BY <1>1, SumRestrict
  <1>3. SumFunctionOnSet(f, T) = Cardinality(T)
    BY <1>1, SumOnes
  <1>4. QED BY <1>1, <1>2, <1>3

\* A session has at most as many turns as there are points.
LEMMA SessionsAreShort ==
    ASSUME ArmOk, NEW s \in DOMAIN arm
    PROVE  /\ arm[s].turns \in Seq(ArmTurn) /\ InPlace(arm[s].turns)
           /\ Len(arm[s].turns) \in Nat /\ 1 <= Len(arm[s].turns) /\ Len(arm[s].turns) <= MaxRun
           /\ DOMAIN arm[s].turns = 1 .. Len(arm[s].turns)
           /\ \A t \in 1 .. Len(arm[s].turns) : arm[s].turns[t].accuracy \in 0 .. 1000
  <1>1. arm \in Seq(ArmRow) /\ arm[s] \in ArmRow /\ InPlace(arm[s].turns) /\ RunLength <= MaxRun /\ MaxRun \in Nat
    BY MetricsAssumption DEF ArmOk
  <1>2. arm[s].turns \in Seq(ArmTurn)
    BY <1>1 DEF ArmRow
  <1>3. Len(arm[s].turns) \in Nat /\ DOMAIN arm[s].turns = 1 .. Len(arm[s].turns) /\ 1 <= Len(arm[s].turns)
    BY <1>1, <1>2 DEF InPlace
  <1>4. \A t \in 1 .. Len(arm[s].turns) : arm[s].turns[t].accuracy \in 0 .. 1000
    <2> TAKE t \in 1 .. Len(arm[s].turns)
    <2>1. arm[s].turns[t] \in ArmTurn
      BY <1>2
    <2>2. QED BY <2>1 DEF ArmTurn
  <1>5. Lengths(arm)[s] = Len(arm[s].turns)
    BY DEF Lengths
  <1>6. /\ IsFiniteSet(DOMAIN arm) /\ Numbers(Lengths(arm), DOMAIN arm)
        /\ SumFunction(Lengths(arm)) = SumFunctionOnSet(Lengths(arm), DOMAIN arm)
        /\ SumFunction(Lengths(arm)) \in Nat
    BY <1>1, Lengthy
  <1>7. Lengths(arm)[s] <= SumFunctionOnSet(Lengths(arm), DOMAIN arm)
    BY <1>6, SumMember
  <1>8. RunLength = SumFunction(Lengths(arm))
    BY DEF RunLength, Lengths
  <1>9. Len(arm[s].turns) <= MaxRun
    BY <1>1, <1>3, <1>5, <1>6, <1>7, <1>8
  <1>10. QED BY <1>1, <1>2, <1>3, <1>4, <1>9

LEMMA ColumnsAre ==
    ASSUME ArmOk, NEW i \in Nat
    PROVE  /\ ByTurn(i) = {s \in DOMAIN arm : i < Len(arm[s].turns)}
           /\ ByTurn(i) \in SUBSET (DOMAIN arm) /\ IsFiniteSet(DOMAIN arm) /\ IsFiniteSet(ByTurn(i))
  <1>1. ASSUME NEW s \in DOMAIN arm
        PROVE  (\E t \in DOMAIN arm[s].turns : arm[s].turns[t].index = i) <=> i < Len(arm[s].turns)
    <2> DEFINE n == Len(arm[s].turns)
    <2>1. DOMAIN arm[s].turns = 1 .. n /\ n \in Nat /\ \A t \in 1 .. n : arm[s].turns[t].index = t - 1
      BY SessionsAreShort DEF InPlace
    <2> HIDE DEF n
    <2>2. ASSUME i < n PROVE i + 1 \in 1 .. n /\ arm[s].turns[i + 1].index = i
      <3>1. i + 1 \in 1 .. n /\ (i + 1) - 1 = i
        BY <2>1, <2>2
      <3>2. QED BY <2>1, <3>1
    <2>3. ASSUME NEW t \in 1 .. n, arm[s].turns[t].index = i PROVE i < n
      BY <2>1, <2>3
    <2>4. QED BY <2>1, <2>2, <2>3 DEF n
  <1>2. ByTurn(i) = {s \in DOMAIN arm : i < Len(arm[s].turns)}
    BY <1>1 DEF ByTurn
  <1>3. IsFiniteSet(DOMAIN arm)
    BY Lengthy DEF ArmOk
  <1>4. ByTurn(i) \in SUBSET (DOMAIN arm)
    BY <1>2
  <1>5. QED BY <1>2, <1>3, <1>4, FS_Subset

\* The samples of the points are the turns of the sessions.
LEMMA SamplesSwap ==
    ASSUME ArmOk
    PROVE  SumFunction([i \in 0 .. MaxRun - 1 |-> PerTurn(i).n]) = RunLength
  <1> DEFINE C == DOMAIN arm
             D == 0 .. MaxRun - 1
             a == [s \in C |-> [i \in D |-> IF i < Len(arm[s].turns) THEN 1 ELSE 0]]
             b == [i \in D |-> [s \in C |-> IF i < Len(arm[s].turns) THEN 1 ELSE 0]]
             r == Lengths(arm)
             c == [i \in D |-> PerTurn(i).n]
  <1>1. /\ IsFiniteSet(C) /\ IsFiniteSet(D) /\ MaxRun \in Nat /\ D \in SUBSET Nat /\ DOMAIN c = D
        /\ SumFunction(r) = SumFunctionOnSet(r, C)
    <2>1. IsFiniteSet(C) /\ SumFunction(r) = SumFunctionOnSet(r, C)
      BY Lengthy DEF ArmOk
    <2>2. MaxRun \in Nat
      BY MetricsAssumption
    <2>3. IsFiniteSet(D)
      BY <2>2, FS_Interval
    <2>4. QED BY <2>1, <2>2, <2>3
  <1>2. \A s \in C : \A i \in D : a[s][i] = (IF i < Len(arm[s].turns) THEN 1 ELSE 0) /\ b[i][s] = a[s][i]
    OBVIOUS
  <1> HIDE DEF a, b
  <1>3. ASSUME NEW s \in C PROVE Numbers(a[s], D) /\ r[s] = SumFunctionOnSet(a[s], D)
    <2> DEFINE n == Len(arm[s].turns)
               T == 0 .. n - 1
               f == a[s]
    <2>1. n \in Nat /\ n <= MaxRun
      BY SessionsAreShort
    <2>2. T \in SUBSET D /\ \A i \in D : i \in T <=> i < n
      BY <1>1, <2>1
    <2>3. \A i \in D : f[i] = IF i \in T THEN 1 ELSE 0
      BY <1>2, <2>2
    <2>4. Cardinality(T) = n
      BY <2>1, FS_Interval
    <2> HIDE DEF f, T
    <2>5. Numbers(f, D) /\ SumFunctionOnSet(f, D) = Cardinality(T)
      BY <1>1, <2>2, <2>3, SumOfPart
    <2>6. r[s] = n
      BY DEF Lengths
    <2>7. QED BY <2>4, <2>5, <2>6 DEF f
  <1>4. ASSUME NEW i \in D PROVE c[i] = SumFunctionOnSet(b[i], C)
    <2> DEFINE T == ByTurn(i)
               f == b[i]
    <2>1. T = {s \in C : i < Len(arm[s].turns)}
      BY <1>1, ColumnsAre
    <2>2. \A s \in C : f[s] = IF s \in T THEN 1 ELSE 0
      BY <1>2, <2>1
    <2>3. T \in SUBSET C
      BY <2>1
    <2>4. c[i] = Cardinality(T)
      BY DEF PerTurn
    <2> HIDE DEF f, T
    <2>5. SumFunctionOnSet(f, C) = Cardinality(T)
      BY <1>1, <2>2, <2>3, SumOfPart
    <2>6. QED BY <2>4, <2>5 DEF f
  <1> HIDE DEF C, D, r, c
  <1>5. SumFunctionOnSet(r, C) = SumFunctionOnSet(c, D)
    <2>1. IsTable(a, b, C, D)
      BY <1>2, <1>3 DEF IsTable
    <2>2. AreSums(r, a, C, D) /\ AreSums(c, b, D, C)
      BY <1>3, <1>4 DEF AreSums
    <2>3. QED BY <1>1, <2>1, <2>2, SumSwap
  <1>6. RunLength = SumFunction(r)
    BY DEF RunLength, Lengths, r
  <1>7. SumFunction(c) = SumFunctionOnSet(c, D)
    BY <1>1 DEF SumFunction
  <1>8. QED BY <1>1, <1>5, <1>6, <1>7 DEF c, D

Scored(turns) == [t \in DOMAIN turns |-> turns[t].accuracy]
LEMMA AccuracyFits ==
    ASSUME ArmOk, NEW s \in DOMAIN arm
    PROVE  Accuracy(arm[s].turns) \in Nat /\ Accuracy(arm[s].turns) <= 1000 * Len(arm[s].turns)
  <1> DEFINE n == Len(arm[s].turns)
             C == 1 .. n
             f == Scored(arm[s].turns)
             g == [t \in C |-> 1]
             h == [t \in C |-> 1000]
  <1>1. n \in Nat /\ DOMAIN arm[s].turns = C /\ \A t \in C : f[t] \in 0 .. 1000
    <2>1. n \in Nat /\ DOMAIN arm[s].turns = C /\ \A t \in C : arm[s].turns[t].accuracy \in 0 .. 1000
      BY SessionsAreShort
    <2>2. \A t \in C : f[t] = arm[s].turns[t].accuracy
      BY <2>1 DEF Scored
    <2> HIDE DEF f, C
    <2>3. \A t \in C : f[t] \in 0 .. 1000
      BY <2>1, <2>2
    <2>4. QED BY <2>1, <2>3
  <1>2. IsFiniteSet(C) /\ Cardinality(C) = n
    BY <1>1, FS_Interval
  <1>3. (\A t \in C : g[t] = 1) /\ (\A t \in C : h[t] = 1000 * g[t]) /\ (\A t \in C : f[t] <= h[t])
    <2>1. \A t \in C : g[t] = 1 /\ h[t] = 1000
      OBVIOUS
    <2> HIDE DEF C, f, g, h
    <2>2. \A t \in C : h[t] = 1000 * g[t]
      BY <2>1
    <2>3. ASSUME NEW t \in C PROVE f[t] <= h[t]
      <3>1. f[t] \in 0 .. 1000 /\ h[t] = 1000
        BY <1>1, <2>1
      <3>2. QED BY <3>1
    <2>4. QED BY <2>1, <2>2, <2>3
  <1>4. DOMAIN f = C
    BY <1>1 DEF Scored
  <1>5. Accuracy(arm[s].turns) = SumFunction(f)
    BY DEF Accuracy, Scored
  <1>6. Numbers(f, C) /\ Numbers(g, C) /\ Numbers(h, C)
    <2>1. \A t \in C : g[t] = 1 /\ h[t] = 1000
      OBVIOUS
    <2> HIDE DEF C, f, g, h
    <2>2. ASSUME NEW t \in C PROVE f[t] \in Nat
      <3>1. f[t] \in 0 .. 1000
        BY <1>1
      <3>2. QED BY <3>1
    <2>3. QED BY <2>1, <2>2 DEF Numbers
  <1> HIDE DEF C, f, g, h
  <1>7. SumFunctionOnSet(f, C) \in Nat /\ SumFunctionOnSet(f, C) <= SumFunctionOnSet(h, C)
    BY <1>2, <1>3, <1>6, SumNat, SumLeq
  <1>8. 1000 \in Nat /\ SumFunctionOnSet(g, C) = n
    BY <1>2, <1>3, SumOnes
  <1>9. SumFunctionOnSet(h, C) = 1000 * SumFunctionOnSet(g, C)
    <2> DEFINE k == 1000
    <2>1. k \in Nat /\ \A t \in C : h[t] = k * g[t]
      BY <1>3
    <2> HIDE DEF k
    <2>2. SumFunctionOnSet(h, C) = k * SumFunctionOnSet(g, C)
      BY <1>2, <1>6, <2>1, SumTimes
    <2>3. QED BY <2>2 DEF k
  <1>10. QED BY <1>4, <1>5, <1>7, <1>8, <1>9 DEF SumFunction

Accuracies == [s \in DOMAIN arm |-> Accuracy(arm[s].turns)]
LEMMA MeanIsOnScale ==
    ASSUME ArmOk
    PROVE  Overall.sum <= 1000 * Overall.n
  <1> DEFINE C == DOMAIN arm
             f == Accuracies
             g == Lengths(arm)
             h == [s \in C |-> 1000 * Len(arm[s].turns)]
  <1>1. IsFiniteSet(C) /\ Numbers(g, C) /\ SumFunction(g) = SumFunctionOnSet(g, C)
    BY Lengthy DEF ArmOk
  <1>2. ASSUME NEW s \in C PROVE f[s] \in Nat /\ h[s] \in Nat /\ h[s] = 1000 * g[s] /\ f[s] <= h[s]
    <2>1. Len(arm[s].turns) \in Nat
      BY SessionsAreShort
    <2>2. f[s] \in Nat /\ f[s] <= 1000 * Len(arm[s].turns)
      BY AccuracyFits DEF Accuracies
    <2>3. g[s] = Len(arm[s].turns)
      BY DEF Lengths
    <2>4. QED BY <2>1, <2>2, <2>3
  <1>3. Overall.sum = SumFunction(f) /\ SumFunction(f) = SumFunctionOnSet(f, C) /\ Overall.n = SumFunction(g)
    BY DEF Overall, RunLength, SumFunction, Lengths, Accuracies
  <1> HIDE DEF C, f, g, h
  <1>4. Numbers(f, C) /\ Numbers(h, C)
    BY <1>2 DEF Numbers
  <1>5. \A s \in C : f[s] <= h[s]
    BY <1>2
  <1>6. SumFunctionOnSet(f, C) <= SumFunctionOnSet(h, C)
    BY <1>1, <1>4, <1>5, SumLeq
  <1>7. 1000 \in Nat /\ \A s \in C : h[s] = 1000 * g[s]
    BY <1>2
  <1>8. SumFunctionOnSet(h, C) = 1000 * SumFunctionOnSet(g, C)
    BY <1>1, <1>7, SumTimes
  <1>9. QED BY <1>1, <1>3, <1>6, <1>8

\* So are their scores.
LEMMA ScoresSwap ==
    ASSUME ArmOk
    PROVE  SumFunction([i \in 0 .. MaxRun - 1 |-> PerTurn(i).sum]) = Overall.sum
  <1> DEFINE C == DOMAIN arm
             D == 0 .. MaxRun - 1
             w(s, i) == IF i < Len(arm[s].turns) THEN arm[s].turns[i + 1].accuracy ELSE 0
             a == [s \in C |-> [i \in D |-> w(s, i)]]
             b == [i \in D |-> [s \in C |-> w(s, i)]]
             r == Accuracies
             c == [i \in D |-> PerTurn(i).sum]
  <1>1. /\ IsFiniteSet(C) /\ IsFiniteSet(D) /\ MaxRun \in Nat /\ D \in SUBSET Nat /\ DOMAIN c = D /\ DOMAIN r = C
    <2>1. IsFiniteSet(C)
      BY Lengthy DEF ArmOk
    <2>2. MaxRun \in Nat
      BY MetricsAssumption
    <2>3. IsFiniteSet(D)
      BY <2>2, FS_Interval
    <2>4. QED BY <2>1, <2>2, <2>3 DEF Accuracies
  <1>2. \A s \in C : \A i \in D : a[s][i] = w(s, i) /\ b[i][s] = w(s, i)
    OBVIOUS
  <1> HIDE DEF a, b
  <1>3. ASSUME NEW s \in C PROVE Numbers(a[s], D) /\ r[s] = SumFunctionOnSet(a[s], D)
    <2> DEFINE n == Len(arm[s].turns)
               T == 0 .. n - 1
               f == a[s]
               I == 1 .. n
               m == [t \in I |-> t - 1]
               g == Scored(arm[s].turns)
    <2>1. n \in Nat /\ n <= MaxRun /\ DOMAIN arm[s].turns = I /\ \A t \in I : arm[s].turns[t].accuracy \in Nat
      <3>1. n \in Nat /\ n <= MaxRun /\ DOMAIN arm[s].turns = I /\ \A t \in I : arm[s].turns[t].accuracy \in 0 .. 1000
        BY SessionsAreShort
      <3>2. \A x \in 0 .. 1000 : x \in Nat
        OBVIOUS
      <3> HIDE DEF n, I
      <3>3. QED BY <3>1, <3>2
    <2>2. T \in SUBSET D /\ \A i \in D : i \in T <=> i < n
      BY <1>1, <2>1
    <2>3. \A i \in D \ T : f[i] = 0
      BY <1>2, <2>2
    <2>4. \A t \in I : t - 1 \in T /\ f[t - 1] = g[t] /\ m[t] = t - 1 /\ g[t] \in Nat
      <3> TAKE t \in I
      <3>1. t - 1 \in T /\ t - 1 \in D /\ t - 1 < n /\ (t - 1) + 1 = t
        BY <2>1, <2>2
      <3>2. f[t - 1] = arm[s].turns[t].accuracy
        BY <1>2, <3>1
      <3>3. g[t] = arm[s].turns[t].accuracy
        BY <2>1 DEF Scored
      <3>4. QED BY <2>1, <3>1, <3>2, <3>3
    <2>5. T = {m[t] : t \in I}
      <3>1. \A i \in T : i + 1 \in I /\ m[i + 1] = i
        BY <2>1
      <3>2. QED BY <2>4, <3>1
    <2>6. \A x, y \in I : m[x] = m[y] => x = y
      OBVIOUS
    <2>7. IsFiniteSet(I) /\ r[s] = SumFunction(g) /\ SumFunction(g) = SumFunctionOnSet(g, I)
      <3>1. IsFiniteSet(I)
        BY <2>1, FS_Interval
      <3>2. DOMAIN g = I
        BY <2>1 DEF Scored
      <3>3. r[s] = SumFunction(g)
        BY DEF Accuracies, Accuracy, Scored
      <3> HIDE DEF g, I
      <3>4. SumFunction(g) = SumFunctionOnSet(g, I)
        BY <3>2 DEF SumFunction
      <3>5. QED BY <3>1, <3>3, <3>4
    <2>8. \A i \in T : f[i] \in Nat
      <3> TAKE i \in T
      <3>1. i + 1 \in I /\ (i + 1) - 1 = i
        BY <2>1
      <3>2. QED BY <2>4, <3>1
    <2> HIDE DEF f, g, m, T, I
    <2>9. Numbers(g, I) /\ Numbers(f, D)
      BY <2>3, <2>4, <2>8 DEF Numbers
    <2>10. \A t \in I : f[m[t]] = g[t]
      BY <2>4
    <2>11. SumFunctionOnSet(f, {m[t] : t \in I}) = SumFunctionOnSet(g, I)
      BY <2>6, <2>7, <2>9, <2>10, SumImage
    <2>12. SumFunctionOnSet(f, D) = SumFunctionOnSet(f, T)
      BY <1>1, <2>2, <2>3, <2>9, SumRestrict
    <2>13. QED BY <2>5, <2>7, <2>9, <2>11, <2>12 DEF f
  <1>4. ASSUME NEW i \in D PROVE c[i] = SumFunctionOnSet(b[i], C)
    <2> DEFINE T == ByTurn(i)
               f == b[i]
               g == [s \in T |-> arm[s].turns[i + 1].accuracy]
    <2>1. T = {s \in C : i < Len(arm[s].turns)}
      BY <1>1, ColumnsAre
    <2>2. \A s \in C \ T : f[s] = 0
      BY <1>2, <2>1
    <2>3. \A s \in T : f[s] = g[s]
      BY <1>2, <2>1
    <2>4. \A s \in C : f[s] \in Nat
      BY <1>2, <1>3 DEF Numbers
    <2>5. T \in SUBSET C /\ IsFiniteSet(T)
      BY <1>1, <2>1, FS_Subset
    <2>6. c[i] = SumFunction(g) /\ SumFunction(g) = SumFunctionOnSet(g, T)
      BY DEF PerTurn, SumFunction
    <2> HIDE DEF f, g, T
    <2>7. Numbers(f, C) /\ Numbers(f, T)
      BY <2>4, <2>5 DEF Numbers
    <2>8. SumFunctionOnSet(f, C) = SumFunctionOnSet(f, T)
      BY <1>1, <2>2, <2>5, <2>7, SumRestrict
    <2>9. SumFunctionOnSet(f, T) = SumFunctionOnSet(g, T)
      BY <2>3, <2>5, <2>7, SumAgree
    <2>10. QED BY <2>6, <2>8, <2>9 DEF f
  <1> HIDE DEF w
  <1>5. IsTable(a, b, C, D) /\ AreSums(r, a, C, D) /\ AreSums(c, b, D, C)
    BY <1>2, <1>3, <1>4 DEF IsTable, AreSums
  <1> HIDE DEF C, D, r, c
  <1>6. SumFunctionOnSet(r, C) = SumFunctionOnSet(c, D)
    BY <1>1, <1>5, SumSwap
  <1>7. Overall.sum = SumFunction(r)
    BY DEF Overall, Accuracies, r
  <1>8. QED BY <1>1, <1>6, <1>7 DEF c, D, SumFunction

LEMMA CurvesFollow == ArmOk => CurvesAreWhole
  <1> SUFFICES ASSUME ArmOk PROVE CurvesAreWhole
    OBVIOUS
  <1>1. \A i \in 1 .. MaxRun - 1 : PerTurn(i).n <= PerTurn(i - 1).n
    <2> TAKE i \in 1 .. MaxRun - 1
    <2>1. i \in Nat /\ i - 1 \in Nat
      BY MetricsAssumption
    <2>2. /\ ByTurn(i) = {s \in DOMAIN arm : i < Len(arm[s].turns)}
          /\ ByTurn(i - 1) = {s \in DOMAIN arm : i - 1 < Len(arm[s].turns)}
          /\ IsFiniteSet(ByTurn(i - 1))
      BY <2>1, ColumnsAre
    <2>3. \A s \in DOMAIN arm : i < Len(arm[s].turns) => i - 1 < Len(arm[s].turns)
      BY <2>1, SessionsAreShort
    <2>4. ByTurn(i) \in SUBSET ByTurn(i - 1)
      BY <2>2, <2>3
    <2>5. Cardinality(ByTurn(i)) <= Cardinality(ByTurn(i - 1))
      BY <2>2, <2>4, PartIsLess
    <2>6. QED BY <2>5 DEF PerTurn
  <1>2. Overall.n = RunLength
    BY DEF Overall
  <1>3. QED BY <1>1, <1>2, SamplesSwap, ScoresSwap, MeanIsOnScale DEF CurvesAreWhole

(***************************************************************************)
(* What metrics.py, connectors.py and abtest.py report adds up, for any    *)
(* rows, however many are written and marked between its queries, and for  *)
(* any scores and length of a run: no rate above one, percentiles that are *)
(* durations, and curves that hold every turn once.                        *)
(***************************************************************************)
THEOREM FiguresHold == MetricsSpec => []FiguresAddUp
  <1> DEFINE IInv == AuditOk /\ FiguresSoFar /\ ArmOk
  <1>1. MetricsInit => IInv
    BY AuditInit, FiguresInit, ArmInit
  <1>2. IInv /\ [MetricsNext]_metricsVars => IInv'
    BY AuditStep, FiguresStep, ArmStep
  <1>3. IInv => FiguresAddUp
    BY SummariesFollow, PercentilesFollow, HealthFollows, CurvesFollow DEF FiguresAddUp
  <1>4. QED BY <1>1, <1>2, <1>3, PTL DEF MetricsSpec

-----------------------------------------------------------------------------
(***************************************************************************)
(* The predictor, for any finite set of sessions, any traces and rewards,  *)
(* any shrinkage and any floor of support.                                 *)
(***************************************************************************)
LEMMA ImageIsFinite ==
    ASSUME NEW C, IsFiniteSet(C), NEW m
    PROVE  /\ IsFiniteSet({m[x] : x \in C}) /\ Cardinality({m[x] : x \in C}) \in Nat
           /\ Cardinality({m[x] : x \in C}) <= Cardinality(C)
  <1> DEFINE I == {m[x] : x \in C}
             f == [x \in C |-> m[x]]
  <1>1. f \in Surjection(C, I)
    BY DEF Surjection
  <1> HIDE DEF I, f
  <1>2. IsFiniteSet(I) /\ Cardinality(I) <= Cardinality(C)
    BY <1>1, FS_Surjection
  <1>3. QED BY <1>2, FS_CardinalityType DEF I

TraceRow == [action : Actions, cohort : Everyone, state : States \cup {Nothing}, reward : Nat]
TracesOk ==
    /\ traces \in [Conversations -> Seq(TraceRow)]
    /\ Rows <= MaxTraces
    /\ ~failed => \A c \in Conversations : \A i \in DOMAIN traces[c] : traces[c][i].reward > 0

\* A trace is written once; only its reward changes.
TracesStay ==
    \A c \in Conversations : \A i \in DOMAIN traces[c] :
        i \in DOMAIN traces'[c] /\ traces'[c][i].action = traces[c][i].action

LEMMA TracesAre ==
    ASSUME TracesOk, NEW c \in Conversations
    PROVE  /\ traces[c] \in Seq(TraceRow) /\ Len(traces[c]) \in Nat /\ DOMAIN traces[c] = 1 .. Len(traces[c])
           /\ Len(traces[c]) <= MaxTraces
           /\ \A i \in DOMAIN traces[c] : traces[c][i] \in TraceRow
  <1> DEFINE f == [v \in Conversations |-> Len(traces[v])]
  <1>1. \A v \in Conversations : traces[v] \in Seq(TraceRow) /\ f[v] \in Nat
    BY DEF TracesOk
  <1>2. Rows = SumFunction(f) /\ DOMAIN f = Conversations /\ f[c] = Len(traces[c])
    BY DEF Rows
  <1> HIDE DEF f
  <1>3. Numbers(f, Conversations) /\ IsFiniteSet(Conversations) /\ MaxTraces \in Nat
    BY <1>1, PredictorAssumption DEF Numbers
  <1>4. f[c] <= SumFunctionOnSet(f, Conversations) /\ SumFunctionOnSet(f, Conversations) \in Nat
    BY <1>3, SumMember, SumNat
  <1>5. Len(traces[c]) <= MaxTraces
    BY <1>1, <1>2, <1>3, <1>4 DEF TracesOk, SumFunction
  <1>6. QED BY <1>1, <1>5

LEMMA TracesInit == PredictorInit => TracesOk
  <1> SUFFICES ASSUME PredictorInit PROVE TracesOk
    OBVIOUS
  <1> DEFINE f == [c \in Conversations |-> Len(traces[c])]
             z == {}
  <1>1. traces \in [Conversations -> Seq(TraceRow)] /\ \A c \in Conversations : traces[c] = <<>> /\ f[c] = 0
    BY DEF PredictorInit
  <1>2. Rows = SumFunctionOnSet(f, Conversations)
    BY DEF Rows, SumFunction
  <1> HIDE DEF f
  <1>3. IsFiniteSet(Conversations) /\ z \in SUBSET Conversations /\ Numbers(f, Conversations) /\ \A c \in Conversations \ z : f[c] = 0
    BY <1>1, PredictorAssumption DEF Numbers
  <1> HIDE DEF z
  <1>4. SumFunctionOnSet(f, Conversations) = SumFunctionOnSet(f, z)
    BY <1>3, SumRestrict
  <1>5. Rows = 0
    BY <1>2, <1>4, SumEmpty DEF z
  <1>6. QED BY <1>1, <1>5, PredictorAssumption DEF TracesOk

\* One session's rows are added to; the sum is added to as much.
LEMMA RowsAdded ==
    ASSUME TracesOk, NEW c \in Conversations, NEW s \in Seq(TraceRow), NEW k \in Nat,
           Len(s) = Len(traces[c]) + k, traces' = [traces EXCEPT ![c] = s]
    PROVE  Rows' = Rows + k
  <1> DEFINE C == Conversations
             f == [v \in C |-> Len(traces[v])]
             g == [v \in C |-> Len(traces'[v])]
             R == C \ {c}
  <1>1. traces'[c] = s /\ \A v \in R : traces'[v] = traces[v]
    BY DEF TracesOk
  <1>2. \A v \in C : f[v] \in Nat
    BY TracesAre
  <1>3. g[c] = f[c] + k /\ (\A v \in R : f[v] = g[v]) /\ DOMAIN f = C /\ DOMAIN g = C
    BY <1>1
  <1>4. Rows = SumFunction(f) /\ Rows' = SumFunction(g)
    BY DEF Rows
  <1> HIDE DEF f, g
  <1>5. \A v \in C : g[v] \in Nat
    <2> TAKE v \in C
    <2>1. CASE v = c
      BY <1>2, <1>3, <2>1
    <2>2. CASE v # c
      BY <1>2, <1>3, <2>2
    <2>3. QED BY <2>1, <2>2
  <1>6. IsFiniteSet(C) /\ IsFiniteSet(R) /\ Numbers(f, C) /\ Numbers(g, C) /\ Numbers(f, R) /\ c \in C
    BY <1>2, <1>5, PredictorAssumption, FS_RemoveElement DEF Numbers
  <1> HIDE DEF C
  <1>7. SumFunctionOnSet(f, C) = f[c] + SumFunctionOnSet(f, R) /\ SumFunctionOnSet(g, C) = g[c] + SumFunctionOnSet(g, R)
    BY <1>6, SumOut
  <1> HIDE DEF R
  <1>8. SumFunctionOnSet(f, R) = SumFunctionOnSet(g, R) /\ SumFunctionOnSet(f, R) \in Nat
    BY <1>3, <1>6, SumAgree, SumNat
  <1>9. f[c] \in Nat
    BY <1>2, <1>6
  <1>10. SumFunctionOnSet(g, C) = SumFunctionOnSet(f, C) + k
    BY <1>3, <1>7, <1>8, <1>9
  <1>11. QED BY <1>3, <1>4, <1>10 DEF SumFunction

LEMMA TracesStep ==
    ASSUME TracesOk, [PredictorNext]_predictorVars
    PROVE  TracesOk' /\ TracesStay /\ (failed => failed')
  <1>1. ASSUME NEW c \in Conversations, NEW a \in Actions, NEW x \in Situations, Record(c, a, x)
        PROVE  TracesOk' /\ TracesStay /\ (failed => failed')
    <2> DEFINE row == [action |-> a, cohort |-> x.cohort, state |-> x.state, reward |-> Neutral]
               s == Append(traces[c], row)
    <2>1. traces' = [traces EXCEPT ![c] = s] /\ Rows < MaxTraces /\ failed' = failed
      BY <1>1 DEF Record
    <2>2. row \in TraceRow /\ row.reward > 0
      <3>1. x.cohort \in Everyone /\ x.state \in States \cup {Nothing} /\ Neutral \in Nat /\ Neutral > 0
        BY PredictorAssumption DEF Everyone, Neutral
      <3>2. QED BY <3>1 DEF TraceRow
    <2>3. traces[c] \in Seq(TraceRow) /\ Len(traces[c]) \in Nat /\ DOMAIN traces[c] = 1 .. Len(traces[c])
      BY TracesAre
    <2> HIDE DEF row
    <2>4. /\ s \in Seq(TraceRow) /\ Len(s) = Len(traces[c]) + 1 /\ DOMAIN s = 1 .. Len(traces[c]) + 1
          /\ (\A i \in DOMAIN traces[c] : s[i] = traces[c][i]) /\ s[Len(traces[c]) + 1] = row
      BY <2>2, <2>3
    <2> HIDE DEF s
    <2>5. traces' \in [Conversations -> Seq(TraceRow)] /\ traces'[c] = s /\ \A v \in Conversations \ {c} : traces'[v] = traces[v]
      BY <2>1, <2>4 DEF TracesOk
    <2>6. Rows' = Rows + 1
      BY <2>1, <2>4, RowsAdded
    <2>7. Rows' <= MaxTraces
      <3>1. Rows \in Nat /\ MaxTraces \in Nat
        <4> DEFINE f == [v \in Conversations |-> Len(traces[v])]
        <4>1. \A v \in Conversations : f[v] \in Nat
          BY TracesAre
        <4>2. Rows = SumFunctionOnSet(f, Conversations)
          BY DEF Rows, SumFunction
        <4> HIDE DEF f
        <4>3. QED BY <4>1, <4>2, SumNat, PredictorAssumption DEF Numbers
      <3>2. QED BY <2>1, <2>6, <3>1
    <2>8. TracesStay
      <3> SUFFICES ASSUME NEW v \in Conversations, NEW i \in DOMAIN traces[v]
                   PROVE  i \in DOMAIN traces'[v] /\ traces'[v][i].action = traces[v][i].action
        BY DEF TracesStay
      <3>1. CASE v = c
        BY <2>3, <2>4, <2>5, <3>1
      <3>2. CASE v # c
        BY <2>5, <3>2
      <3>3. QED BY <3>1, <3>2
    <2>9. ~failed' => \A v \in Conversations : \A i \in DOMAIN traces'[v] : traces'[v][i].reward > 0
      <3> SUFFICES ASSUME ~failed, NEW v \in Conversations, NEW i \in DOMAIN traces'[v] PROVE traces'[v][i].reward > 0
        BY <2>1
      <3>1. CASE v # c
        BY <2>5, <3>1 DEF TracesOk
      <3>2. CASE v = c /\ i \in DOMAIN traces[c]
        BY <2>4, <2>5, <3>2 DEF TracesOk
      <3>3. CASE v = c /\ i = Len(traces[c]) + 1
        BY <2>2, <2>4, <2>5, <3>3
      <3>4. QED BY <2>3, <2>4, <2>5, <3>1, <3>2, <3>3
    <2>10. QED BY <2>1, <2>5, <2>7, <2>8, <2>9 DEF TracesOk
  <1>2. ASSUME NEW c \in Conversations, NEW o \in Outcomes, Reward(c, o)
        PROVE  TracesOk' /\ TracesStay /\ (failed => failed')
    <2> DEFINE s == [i \in DOMAIN traces[c] |-> [traces[c][i] EXCEPT !.reward = Rewards[o]]]
    <2>1. traces' = [traces EXCEPT ![c] = s] /\ (failed' <=> (failed \/ o = "failure"))
      BY <1>2 DEF Reward
    <2>2. Rewards[o] \in Nat /\ (o # "failure" => Rewards[o] > 0)
      <3>1. o \in {"success", "abandoned", "failure"}
        BY PredictorAssumption DEF Rewards
      <3>2. QED BY <3>1 DEF Rewards
    <2>3. traces[c] \in Seq(TraceRow) /\ Len(traces[c]) \in Nat /\ DOMAIN traces[c] = 1 .. Len(traces[c])
          /\ \A i \in DOMAIN traces[c] : traces[c][i] \in TraceRow
      BY TracesAre
    <2>4. \A i \in DOMAIN traces[c] : s[i] \in TraceRow /\ s[i].reward = Rewards[o] /\ s[i].action = traces[c][i].action
      BY <2>2, <2>3 DEF TraceRow
    <2>5. DOMAIN s = 1 .. Len(traces[c]) /\ s \in Seq(TraceRow) /\ Len(s) = Len(traces[c]) + 0
      <3>1. DOMAIN s = 1 .. Len(traces[c]) /\ s = [i \in 1 .. Len(traces[c]) |-> s[i]]
        BY <2>3
      <3> HIDE DEF s
      <3>2. s \in [1 .. Len(traces[c]) -> TraceRow]
        BY <2>3, <2>4, <3>1
      <3>3. QED BY <2>3, <3>1, <3>2
    <2> HIDE DEF s
    <2>6. traces' \in [Conversations -> Seq(TraceRow)] /\ traces'[c] = s /\ \A v \in Conversations \ {c} : traces'[v] = traces[v]
      BY <2>1, <2>5 DEF TracesOk
    <2>7. Rows' <= MaxTraces
      <3>1. Rows' = Rows + 0 /\ MaxTraces \in Nat /\ Rows <= MaxTraces
        BY <2>1, <2>5, RowsAdded, PredictorAssumption DEF TracesOk
      <3>2. Rows \in Nat
        <4> DEFINE f == [v \in Conversations |-> Len(traces[v])]
        <4>1. \A v \in Conversations : f[v] \in Nat
          BY TracesAre
        <4>2. Rows = SumFunctionOnSet(f, Conversations)
          BY DEF Rows, SumFunction
        <4> HIDE DEF f
        <4>3. QED BY <4>1, <4>2, SumNat, PredictorAssumption DEF Numbers
      <3>3. QED BY <3>1, <3>2
    <2>8. TracesStay
      <3> SUFFICES ASSUME NEW v \in Conversations, NEW i \in DOMAIN traces[v]
                   PROVE  i \in DOMAIN traces'[v] /\ traces'[v][i].action = traces[v][i].action
        BY DEF TracesStay
      <3>1. CASE v = c
        BY <2>3, <2>4, <2>5, <2>6, <3>1
      <3>2. CASE v # c
        BY <2>6, <3>2
      <3>3. QED BY <3>1, <3>2
    <2>9. ~failed' => \A v \in Conversations : \A i \in DOMAIN traces'[v] : traces'[v][i].reward > 0
      <3> SUFFICES ASSUME ~failed, o # "failure", NEW v \in Conversations, NEW i \in DOMAIN traces'[v] PROVE traces'[v][i].reward > 0
        BY <2>1
      <3>1. CASE v # c
        BY <2>6, <3>1 DEF TracesOk
      <3>2. CASE v = c
        BY <2>2, <2>3, <2>4, <2>5, <2>6, <3>2
      <3>3. QED BY <3>1, <3>2
    <2>10. QED BY <2>1, <2>6, <2>7, <2>8, <2>9 DEF TracesOk
  <1>3. ASSUME UNCHANGED <<traces, failed>> PROVE TracesOk' /\ TracesStay /\ (failed => failed')
    <2>1. traces' = traces /\ failed' = failed
      BY <1>3
    <2>2. Rows' = Rows
      BY <2>1 DEF Rows
    <2>3. QED BY <2>1, <2>2 DEF TracesOk, TracesStay
  <1>4. QED BY <1>1, <1>2, <1>3 DEF PredictorNext, predictorVars, AskPredictor, LookupCohort, LookupWide, Shrink

-----------------------------------------------------------------------------
\* The turns an action was taken in, k turns before another.
Leads(a, k) ==
    {x \in Conversations \X (1 .. MaxTraces) :
        /\ x[2] \in DOMAIN traces[x[1]] /\ x[2] + k \in DOMAIN traces[x[1]]
        /\ traces[x[1]][x[2]].action = a}
Precedent(a, k, b) ==
    \E c \in Conversations : \E i \in DOMAIN traces[c] :
        /\ traces[c][i].action = a
        /\ i + k \in DOMAIN traces[c]
        /\ traces[c][i + k].action = b
RowsOk(rows) ==
    /\ IsFiniteSet(rows)
    /\ \A x \in rows : Row(x).reward \in Nat /\ (~failed => Row(x).reward > 0)

LEMMA LeadsAreFinite ==
    ASSUME NEW a, NEW k
    PROVE  IsFiniteSet(Leads(a, k)) /\ Cardinality(Leads(a, k)) \in Nat
  <1>1. IsFiniteSet(Conversations) /\ MaxTraces \in Nat
    BY PredictorAssumption
  <1>2. IsFiniteSet(1 .. MaxTraces)
    BY <1>1, FS_Interval
  <1> DEFINE P == Conversations \X (1 .. MaxTraces)
  <1>3. IsFiniteSet(P)
    BY <1>1, <1>2, FS_Product
  <1>4. Leads(a, k) \in SUBSET P
    BY DEF Leads
  <1> HIDE DEF P
  <1>5. QED BY <1>3, <1>4, FS_Subset, FS_CardinalityType

LEMMA FollowersAre ==
    ASSUME TracesOk, NEW a, NEW k \in Nat, NEW cohorts
    PROVE  /\ RowsOk(Followers(a, k, cohorts))
           /\ Cardinality(Followers(a, k, cohorts)) <= Cardinality(Leads(a, k))
           /\ \A x \in Followers(a, k, cohorts) : Precedent(a, k, Row(x).action)
           /\ Leads(a, k) # {} => Followers(a, k, Everyone) # {}
  <1> DEFINE L == {x \in Conversations \X (1 .. MaxTraces) :
                      /\ x[2] \in DOMAIN traces[x[1]] /\ x[2] + k \in DOMAIN traces[x[1]]
                      /\ traces[x[1]][x[2]].action = a /\ traces[x[1]][x[2]].cohort \in cohorts}
             m == [x \in L |-> <<x[1], x[2] + k>>]
             F == Followers(a, k, cohorts)
  <1>1. L \in SUBSET Leads(a, k)
    BY DEF Leads
  <1>2. F = {m[x] : x \in L}
    BY DEF Followers
  <1>3. ASSUME NEW y \in F
        PROVE  /\ Row(y).reward \in Nat /\ (~failed => Row(y).reward > 0)
               /\ Precedent(a, k, Row(y).action)
    <2>1. PICK x \in L : y = <<x[1], x[2] + k>>
      BY DEF Followers
    <2> DEFINE c == x[1]
               i == x[2]
    <2>2. c \in Conversations /\ i \in DOMAIN traces[c] /\ i + k \in DOMAIN traces[c] /\ traces[c][i].action = a
      OBVIOUS
    <2>3. y[1] = c /\ y[2] = i + k
      BY <2>1
    <2> HIDE DEF c, i
    <2>4. Row(y) = traces[c][i + k] /\ Row(y) \in TraceRow
      BY <2>2, <2>3, TracesAre DEF Row
    <2>5. Row(y).reward \in Nat
      BY <2>4 DEF TraceRow
    <2>6. ~failed => Row(y).reward > 0
      BY <2>2, <2>4 DEF TracesOk
    <2>7. Precedent(a, k, Row(y).action)
      BY <2>2, <2>4 DEF Precedent
    <2>8. QED BY <2>5, <2>6, <2>7
  <1>4. Leads(a, k) # {} => Followers(a, k, Everyone) # {}
    <2> SUFFICES ASSUME NEW x \in Leads(a, k) PROVE Followers(a, k, Everyone) # {}
      OBVIOUS
    <2>1. /\ x \in Conversations \X (1 .. MaxTraces) /\ x[2] \in DOMAIN traces[x[1]] /\ x[2] + k \in DOMAIN traces[x[1]]
          /\ traces[x[1]][x[2]].action = a
      BY DEF Leads
    <2>2. traces[x[1]][x[2]] \in TraceRow
      BY <2>1, TracesAre
    <2>3. traces[x[1]][x[2]].cohort \in Everyone
      BY <2>2 DEF TraceRow
    <2>4. <<x[1], x[2] + k>> \in Followers(a, k, Everyone)
      BY <2>1, <2>3 DEF Followers
    <2>5. QED BY <2>4
  <1>5. IsFiniteSet(Leads(a, k)) /\ Cardinality(Leads(a, k)) \in Nat
    BY LeadsAreFinite
  <1> HIDE DEF L, m, F
  <1>6. IsFiniteSet(L) /\ Cardinality(L) \in Nat /\ Cardinality(L) <= Cardinality(Leads(a, k))
    BY <1>1, <1>5, FS_Subset, FS_CardinalityType
  <1>7. IsFiniteSet({m[x] : x \in L}) /\ Cardinality({m[x] : x \in L}) \in Nat /\ Cardinality({m[x] : x \in L}) <= Cardinality(L)
    BY <1>6, ImageIsFinite
  <1>8. IsFiniteSet(F) /\ Cardinality(F) <= Cardinality(Leads(a, k))
    BY <1>2, <1>5, <1>6, <1>7
  <1>9. QED BY <1>3, <1>4, <1>8 DEF RowsOk, F

LEMMA WeightIs ==
    ASSUME NEW rows, RowsOk(rows)
    PROVE  Weigh(rows) \in Nat /\ (~failed /\ rows # {} => Weigh(rows) > 0)
  <1> DEFINE f == [x \in rows |-> Row(x).reward]
  <1>1. Weigh(rows) = SumFunction(f) /\ DOMAIN f = rows /\ \A x \in rows : f[x] \in Nat /\ (~failed => f[x] > 0)
    BY DEF Weigh, RowsOk
  <1> HIDE DEF f
  <1>2. Numbers(f, rows) /\ IsFiniteSet(rows) /\ Weigh(rows) = SumFunctionOnSet(f, rows)
    BY <1>1 DEF Numbers, RowsOk, SumFunction
  <1>3. SumFunctionOnSet(f, rows) \in Nat /\ \A x \in rows : f[x] <= SumFunctionOnSet(f, rows)
    BY <1>2, SumNat, SumMember
  <1>4. ASSUME ~failed, NEW x \in rows PROVE Weigh(rows) > 0
    BY <1>1, <1>2, <1>3, <1>4
  <1>5. QED BY <1>2, <1>3, <1>4

\* What a query answers: to each action that follows, how often and how heavily.
Dist(d) == IsFiniteSet(DOMAIN d) /\ \A a \in DOMAIN d : d[a].count \in Nat /\ d[a].weight \in Nat

LEMMA GroupedIs ==
    ASSUME NEW rows, RowsOk(rows)
    PROVE  /\ Dist(Grouped(rows)) /\ DOMAIN Grouped(rows) = {Row(x).action : x \in rows}
           /\ Count(Grouped(rows)) = Cardinality(rows)
           /\ Mass(Grouped(rows)) \in Nat /\ (~failed /\ rows # {} => Mass(Grouped(rows)) > 0)
  <1> DEFINE d == Grouped(rows)
             A == {Row(x).action : x \in rows}
             key == [x \in rows |-> Row(x).action]
             of(a) == {x \in rows : Row(x).action = a}
             f == [a \in A |-> d[a].count]
             g == [a \in A |-> d[a].weight]
  <1>1. DOMAIN d = A /\ \A a \in A : d[a].count = Cardinality(of(a)) /\ d[a].weight = Weigh(of(a))
    BY DEF Grouped
  <1>2. ASSUME NEW a \in A PROVE RowsOk(of(a)) /\ of(a) # {} /\ Cardinality(of(a)) \in Nat /\ of(a) = Class(rows, key, a)
    <2>1. of(a) \in SUBSET rows /\ of(a) # {} /\ of(a) = Class(rows, key, a)
      BY DEF Class
    <2> HIDE DEF of
    <2>2. RowsOk(of(a))
      BY <2>1, FS_Subset DEF RowsOk
    <2>3. QED BY <2>1, <2>2, FS_CardinalityType DEF RowsOk
  <1>3. A = {key[x] : x \in rows} /\ \A x \in rows : key[x] \in A
    OBVIOUS
  <1>4. \A a \in A : f[a] = d[a].count /\ g[a] = d[a].weight
    OBVIOUS
  <1>5. Count(d) = SumFunction(f) /\ Mass(d) = SumFunction(g) /\ DOMAIN f = A /\ DOMAIN g = A
    BY <1>1 DEF Count, Mass
  <1>6. rows # {} => A # {}
    OBVIOUS
  <1> HIDE DEF A, key, f, g, of
  <1>7. IsFiniteSet(rows) /\ IsFiniteSet(A)
    BY <1>3, ImageIsFinite DEF RowsOk
  <1>8. \A a \in A : d[a].count \in Nat /\ d[a].weight \in Nat /\ (~failed => d[a].weight > 0)
    <2> TAKE a \in A
    <2>1. RowsOk(of(a)) /\ of(a) # {} /\ Cardinality(of(a)) \in Nat
      BY <1>2
    <2>2. Weigh(of(a)) \in Nat /\ (~failed => Weigh(of(a)) > 0)
      BY <2>1, WeightIs
    <2>3. QED BY <1>1, <2>1, <2>2
  <1>9. \A a \in A : f[a] = Cardinality(Class(rows, key, a))
    BY <1>1, <1>2, <1>4
  <1> HIDE DEF d
  <1>10. SumFunctionOnSet(f, A) = Cardinality(rows)
    BY <1>3, <1>7, <1>9, SumOfClasses
  <1>11. Numbers(g, A)
    BY <1>4, <1>8 DEF Numbers
  <1>12. SumFunctionOnSet(g, A) \in Nat /\ \A a \in A : g[a] <= SumFunctionOnSet(g, A)
    BY <1>7, <1>11, SumNat, SumMember
  <1>13. ASSUME ~failed, NEW a \in A PROVE SumFunctionOnSet(g, A) > 0
    BY <1>4, <1>8, <1>12, <1>13
  <1>14. Dist(d)
    BY <1>1, <1>7, <1>8 DEF Dist
  <1>15. DOMAIN d = {Row(x).action : x \in rows}
    BY <1>1 DEF A
  <1>16. QED BY <1>5, <1>6, <1>10, <1>12, <1>13, <1>14, <1>15 DEF SumFunction, d

-----------------------------------------------------------------------------
\* What is predicted of two answers: fractions of one denominator, which add up to it.
LEMMA TimesIsMonotone == \A k, x, y \in Nat : x <= y => k * x <= k * y
  <1> TAKE k, x, y \in Nat
  <1> HAVE x <= y
  <1>1. PICK z \in Nat : y = x + z
    <2>1. y - x \in Nat /\ y = x + (y - x)
      OBVIOUS
    <2>2. QED BY <2>1
  <1>2. k * z \in Nat /\ k * x \in Nat
    OBVIOUS
  <1>3. k * y = k * x + k * z
    BY <1>1
  <1>4. QED BY <1>2, <1>3

LEMMA TimesIsPositive == \A x, y \in Nat \ {0} : x * y \in Nat \ {0}
  <1> TAKE x, y \in Nat \ {0}
  <1>1. x * 1 <= x * y
    BY TimesIsMonotone
  <1>2. x * 1 = x /\ x * y \in Nat
    OBVIOUS
  <1>3. QED BY <1>1, <1>2

LEMMA AtLeastOne ==
    ASSUME NEW x \in Nat
    PROVE  Max({x, 1}) \in Nat \ {0} /\ x <= Max({x, 1}) /\ (x >= 1 => Max({x, 1}) = x)
  <1> DEFINE S == {x, 1}
             m == Max(S)
  <1>1. \E y \in S : \A z \in S : y >= z
    OBVIOUS
  <1>2. m \in S /\ \A z \in S : m >= z
    BY <1>1 DEF Max
  <1> HIDE DEF m
  <1>3. (m = x \/ m = 1) /\ m >= x /\ m >= 1
    BY <1>2
  <1>4. QED BY <1>3 DEF m

Scale(prior) == Max({Mass(prior), 1})
Denominator(d, prior) == Scale(prior) * Max({Mass(d) + Kappa, 1})

LEMMA MassIs ==
    ASSUME NEW d, Dist(d)
    PROVE  Mass(d) \in Nat
  <1> DEFINE f == [a \in DOMAIN d |-> d[a].weight]
  <1>1. Mass(d) = SumFunction(f) /\ DOMAIN f = DOMAIN d /\ \A a \in DOMAIN d : f[a] \in Nat
    BY DEF Mass, Dist
  <1> HIDE DEF f
  <1>2. Numbers(f, DOMAIN d) /\ IsFiniteSet(DOMAIN d) /\ Mass(d) = SumFunctionOnSet(f, DOMAIN d)
    BY <1>1 DEF Numbers, Dist, SumFunction
  <1>3. QED BY <1>2, SumNat

\* An action that was not answered with weighs nothing.
LEMMA MassOver ==
    ASSUME NEW d, Dist(d), NEW A, IsFiniteSet(A), DOMAIN d \subseteq A, NEW w, \A a \in A : w[a] = WeightOf(d, a)
    PROVE  Numbers(w, A) /\ SumFunctionOnSet(w, A) = Mass(d)
  <1> DEFINE f == [a \in DOMAIN d |-> d[a].weight]
             D == DOMAIN d
  <1>1. Mass(d) = SumFunction(f) /\ DOMAIN f = D /\ \A a \in D : f[a] = d[a].weight
    BY DEF Mass
  <1>2. (\A a \in D : w[a] = d[a].weight /\ w[a] \in Nat) /\ \A a \in A \ D : w[a] = 0
    BY DEF WeightOf, Dist
  <1> HIDE DEF f
  <1>3. \A a \in D : w[a] = f[a]
    BY <1>1, <1>2
  <1>4. Numbers(w, A) /\ Numbers(w, D) /\ IsFiniteSet(D) /\ D \in SUBSET A
    BY <1>2 DEF Numbers, Dist
  <1>5. Mass(d) = SumFunctionOnSet(f, D)
    BY <1>1 DEF SumFunction
  <1> HIDE DEF D
  <1>6. SumFunctionOnSet(w, A) = SumFunctionOnSet(w, D)
    BY <1>2, <1>4, SumRestrict
  <1>7. SumFunctionOnSet(w, D) = SumFunctionOnSet(f, D)
    BY <1>3, <1>4, SumAgree
  <1>8. QED BY <1>4, <1>5, <1>6, <1>7

LEMMA SharesAddUp ==
    ASSUME NEW d, Dist(d), NEW prior, Dist(prior), NEW A, A = DOMAIN d \cup DOMAIN prior,
           NEW h, \A a \in A : h[a] = Shrunk(d, prior, a).num
    PROVE  /\ IsFiniteSet(A) /\ Numbers(h, A)
           /\ SumFunctionOnSet(h, A) = Scale(prior) * Mass(d) + Kappa * Mass(prior)
  <1> DEFINE v == Scale(prior)
             wd == [a \in A |-> WeightOf(d, a)]
             wp == [a \in A |-> WeightOf(prior, a)]
             fd == [a \in A |-> v * wd[a]]
             fp == [a \in A |-> Kappa * wp[a]]
  <1>1. v \in Nat /\ Kappa \in Nat
    BY MassIs, AtLeastOne, PredictorAssumption DEF Scale
  <1>2. IsFiniteSet(A) /\ DOMAIN d \subseteq A /\ DOMAIN prior \subseteq A
    BY FS_Union DEF Dist
  <1>3. (\A a \in A : wd[a] = WeightOf(d, a)) /\ (\A a \in A : wp[a] = WeightOf(prior, a))
    OBVIOUS
  <1> HIDE DEF wd, wp
  <1>4. Numbers(wd, A) /\ SumFunctionOnSet(wd, A) = Mass(d) /\ Numbers(wp, A) /\ SumFunctionOnSet(wp, A) = Mass(prior)
    BY <1>2, <1>3, MassOver
  <1>5. (\A a \in A : fd[a] = v * wd[a]) /\ (\A a \in A : fp[a] = Kappa * wp[a])
    OBVIOUS
  <1>6. \A a \in A : h[a] = fd[a] + fp[a]
    <2> TAKE a \in A
    <2>1. h[a] = wd[a] * v + Kappa * wp[a]
      BY <1>3 DEF Shrunk, Scale
    <2>2. wd[a] \in Nat
      BY <1>4 DEF Numbers
    <2> HIDE DEF v
    <2>3. wd[a] * v = v * wd[a]
      BY <1>1, <2>2
    <2>4. QED BY <1>5, <2>1, <2>3
  <1> HIDE DEF fd, fp, v
  <1>7. Numbers(fd, A) /\ Numbers(fp, A)
    <2>1. \A a \in A : wd[a] \in Nat /\ wp[a] \in Nat
      BY <1>4 DEF Numbers
    <2>2. \A x, y \in Nat : x * y \in Nat
      OBVIOUS
    <2>3. QED BY <1>1, <1>5, <2>1, <2>2 DEF Numbers
  <1>8. SumFunctionOnSet(h, A) = SumFunctionOnSet(fd, A) + SumFunctionOnSet(fp, A)
    BY <1>2, <1>6, <1>7, SumPlus
  <1>9. SumFunctionOnSet(fd, A) = v * SumFunctionOnSet(wd, A)
    BY <1>1, <1>2, <1>4, <1>5, SumTimes
  <1>10. SumFunctionOnSet(fp, A) = Kappa * SumFunctionOnSet(wp, A)
    BY <1>1, <1>2, <1>4, <1>5, SumTimes
  <1>11. Numbers(h, A)
    BY <1>6, <1>7 DEF Numbers
  <1>12. QED BY <1>2, <1>4, <1>8, <1>9, <1>10, <1>11 DEF v

LEMMA SharesFit ==
    ASSUME NEW d, Dist(d), NEW prior, Dist(prior)
    PROVE  /\ Denominator(d, prior) \in Nat \ {0}
           /\ Scale(prior) * Mass(d) + Kappa * Mass(prior) <= Denominator(d, prior)
           /\ Mass(d) > 0 /\ (Kappa = 0 \/ Mass(prior) > 0)
                 => Scale(prior) * Mass(d) + Kappa * Mass(prior) = Denominator(d, prior)
  <1> DEFINE v == Scale(prior)
             m == Mass(d)
             p == Mass(prior)
             n == Max({m + Kappa, 1})
  <1>1. m \in Nat /\ p \in Nat /\ Kappa \in Nat
    BY MassIs, PredictorAssumption
  <1>2. v \in Nat \ {0} /\ p <= v /\ (p >= 1 => v = p)
    BY <1>1, AtLeastOne DEF Scale
  <1>3. n \in Nat \ {0} /\ m + Kappa <= n /\ (m + Kappa >= 1 => n = m + Kappa)
    <2> DEFINE s == m + Kappa
    <2>1. s \in Nat
      BY <1>1
    <2> HIDE DEF s
    <2>2. Max({s, 1}) \in Nat \ {0} /\ s <= Max({s, 1}) /\ (s >= 1 => Max({s, 1}) = s)
      BY <2>1, AtLeastOne
    <2>3. QED BY <2>2 DEF s
  <1>4. Denominator(d, prior) = v * n
    BY DEF Denominator
  <1> HIDE DEF v, m, p, n
  <1>5. Kappa * p <= Kappa * v /\ v * (m + Kappa) <= v * n
    BY <1>1, <1>2, <1>3, TimesIsMonotone
  <1>6. v * (m + Kappa) = v * m + v * Kappa /\ v * Kappa = Kappa * v
    BY <1>1, <1>2
  <1>7. v * m \in Nat /\ Kappa * p \in Nat /\ Kappa * v \in Nat /\ v * n \in Nat
    BY <1>1, <1>2, <1>3
  <1>8. v * m + Kappa * p <= v * n
    BY <1>5, <1>6, <1>7
  <1>9. ASSUME m > 0, Kappa = 0 \/ p > 0 PROVE v * m + Kappa * p = v * n
    <2>1. n = m + Kappa
      BY <1>1, <1>3, <1>9
    <2>2. Kappa * p = Kappa * v
      <3>1. CASE Kappa = 0
        BY <1>1, <1>2, <3>1
      <3>2. CASE p > 0
        BY <1>1, <1>2, <3>2
      <3>3. QED BY <1>9, <3>1, <3>2
    <2>3. QED BY <1>6, <2>1, <2>2
  <1>10. v * n \in Nat \ {0}
    BY <1>2, <1>3, TimesIsPositive
  <1>11. QED BY <1>4, <1>8, <1>9, <1>10 DEF v, m, p

LEMMA PredictedAddsUp ==
    ASSUME NEW d, Dist(d), NEW prior, Dist(prior), NEW k, NEW of, of = Predicted(d, prior, k)
    PROVE  /\ IsFiniteSet(of)
           /\ \A f \in of : f.p.num \in Nat /\ f.p.den = Denominator(d, prior) /\ f.offset = k
                            /\ f.action \in DOMAIN d \cup DOMAIN prior
           /\ \A f, g \in of : f.action = g.action => f = g
           /\ SumFunction([f \in of |-> f.p.num]) = Scale(prior) * Mass(d) + Kappa * Mass(prior)
  <1> DEFINE A == DOMAIN d \cup DOMAIN prior
             m == [a \in A |-> [action |-> a, offset |-> k, p |-> Shrunk(d, prior, a)]]
             h == [a \in A |-> Shrunk(d, prior, a).num]
             g == [f \in of |-> f.p.num]
  <1>1. of = {m[a] : a \in A}
    BY DEF Predicted
  <1>2. \A a \in A : m[a] = [action |-> a, offset |-> k, p |-> Shrunk(d, prior, a)] /\ h[a] = Shrunk(d, prior, a).num
    OBVIOUS
  <1>3. \A a \in A : /\ m[a].action = a /\ m[a].offset = k /\ m[a].p.num = h[a]
                     /\ m[a].p.den = Denominator(d, prior)
    BY <1>2 DEF Shrunk, Denominator, Scale
  <1>4. \A f \in of : g[f] = f.p.num
    OBVIOUS
  <1>5. DOMAIN g = of
    OBVIOUS
  <1>6. \A a \in A : h[a] = Shrunk(d, prior, a).num
    BY <1>2
  <1>7. A = DOMAIN d \cup DOMAIN prior
    OBVIOUS
  <1> HIDE DEF A, m, h, g
  <1>8. IsFiniteSet(A) /\ Numbers(h, A) /\ SumFunctionOnSet(h, A) = Scale(prior) * Mass(d) + Kappa * Mass(prior)
    BY <1>6, <1>7, SharesAddUp
  <1>9. \A x, y \in A : m[x] = m[y] => x = y
    BY <1>3
  <1>10. \A x \in A : g[m[x]] = h[x]
    BY <1>1, <1>3, <1>4
  <1>11. SumFunctionOnSet(g, {m[x] : x \in A}) = SumFunctionOnSet(h, A)
    BY <1>8, <1>9, <1>10, SumImage
  <1>12. IsFiniteSet(of)
    BY <1>1, <1>8, ImageIsFinite
  <1>13. SumFunction(g) = Scale(prior) * Mass(d) + Kappa * Mass(prior)
    BY <1>1, <1>5, <1>8, <1>11 DEF SumFunction
  <1>14. \A f \in of : \E a \in A : f = m[a]
    BY <1>1
  <1>15. ASSUME NEW f \in of
         PROVE  f.p.num \in Nat /\ f.p.den = Denominator(d, prior) /\ f.offset = k /\ f.action \in A
    <2>1. PICK a \in A : f = m[a]
      BY <1>14
    <2>2. h[a] \in Nat
      BY <1>8 DEF Numbers
    <2>3. QED BY <1>3, <2>1, <2>2
  <1>16. ASSUME NEW f \in of, NEW e \in of, f.action = e.action PROVE f = e
    <2>1. PICK a \in A : f = m[a]
      BY <1>14
    <2>2. PICK b \in A : e = m[b]
      BY <1>14
    <2>3. QED BY <1>3, <1>16, <2>1, <2>2
  <1>17. QED BY <1>12, <1>13, <1>15, <1>16 DEF A, g

-----------------------------------------------------------------------------
(***************************************************************************)
(* The worker's queries.  What an answer was judged by only grows, and no  *)
(* failure is taken back; so that what was right of an offset when it was  *)
(* predicted still is (ForecastOk).                                        *)
(***************************************************************************)
ForecastAt(k) == {f \in forecast : f.offset = k}
Supported(k, d) ==
    /\ Dist(d) /\ (~failed => Mass(d) > 0)
    /\ Cardinality(Leads(asked.action, k)) >= MinSupporting
    /\ \A a \in DOMAIN d : Precedent(asked.action, k, a)
PriorOk(k, d) ==
    /\ Dist(d) /\ (~failed => Kappa = 0 \/ Mass(d) > 0)
    /\ \A a \in DOMAIN d : Precedent(asked.action, k, a)
ForecastOk(k) ==
    ForecastAt(k) # {} =>
        \E d, prior : Supported(k, d) /\ PriorOk(k, prior) /\ ForecastAt(k) = Predicted(d, prior, k)
Asking == {"cohort", "wide", "prior"}
WorkerOk ==
    /\ DOMAIN step = {"query", "offset"} /\ step.query \in {"none", "done"} \cup Asking
    /\ step.query = "none" => forecast = {}
    /\ step.query \in Asking => step.offset \in 1 .. Horizon /\ \A f \in forecast : f.offset < step.offset
    /\ \A f \in forecast : f.offset \in 1 .. Horizon
    /\ step.query = "prior" => Supported(step.offset, dist)
    /\ \A k \in 1 .. Horizon : ForecastOk(k)

LEMMA AnswerIs ==
    ASSUME TracesOk, NEW a, NEW k \in Nat, NEW cohorts, NEW d, d = Grouped(Followers(a, k, cohorts))
    PROVE  /\ Dist(d) /\ Count(d) \in Nat /\ Mass(d) \in Nat
           /\ Count(d) <= Cardinality(Leads(a, k)) /\ Cardinality(Leads(a, k)) \in Nat
           /\ \A b \in DOMAIN d : Precedent(a, k, b)
           /\ ~failed /\ Followers(a, k, cohorts) # {} => Mass(d) > 0
           /\ Count(d) > 0 => Followers(a, k, cohorts) # {}
  <1> DEFINE F == Followers(a, k, cohorts)
  <1>1. RowsOk(F) /\ Cardinality(F) <= Cardinality(Leads(a, k)) /\ \A x \in F : Precedent(a, k, Row(x).action)
    BY FollowersAre
  <1> HIDE DEF F
  <1>2. /\ Dist(Grouped(F)) /\ DOMAIN Grouped(F) = {Row(x).action : x \in F} /\ Count(Grouped(F)) = Cardinality(F)
        /\ Mass(Grouped(F)) \in Nat /\ (~failed /\ F # {} => Mass(Grouped(F)) > 0)
    BY <1>1, GroupedIs
  <1>3. Cardinality(F) \in Nat /\ (Cardinality(F) > 0 => F # {})
    BY <1>1, FS_CardinalityType, FS_EmptySet DEF RowsOk
  <1>4. \A b \in {Row(x).action : x \in F} : Precedent(a, k, b)
    BY <1>1
  <1>5. Cardinality(Leads(a, k)) \in Nat
    BY LeadsAreFinite
  <1>6. d = Grouped(F)
    BY DEF F
  <1> HIDE DEF Grouped
  <1>7. QED BY <1>1, <1>2, <1>3, <1>4, <1>5, <1>6 DEF F

\* What was known of the traces remains known.
LEMMA PastStays ==
    ASSUME TracesOk, TracesOk', TracesStay, NEW a, NEW k
    PROVE  /\ Cardinality(Leads(a, k)) <= Cardinality(Leads(a, k)')
           /\ Cardinality(Leads(a, k)) \in Nat /\ Cardinality(Leads(a, k)') \in Nat
           /\ \A b : Precedent(a, k, b) => Precedent(a, k, b)'
  <1>1. Leads(a, k) \subseteq Leads(a, k)'
    BY DEF Leads, TracesStay
  <1>2. IsFiniteSet(Leads(a, k)) /\ Cardinality(Leads(a, k)) \in Nat
    BY LeadsAreFinite
  <1>3. IsFiniteSet(Leads(a, k)')
    <2>1. IsFiniteSet(Conversations) /\ MaxTraces \in Nat
      BY PredictorAssumption
    <2>2. IsFiniteSet(1 .. MaxTraces)
      BY <2>1, FS_Interval
    <2> DEFINE P == Conversations \X (1 .. MaxTraces)
    <2>3. IsFiniteSet(P)
      BY <2>1, <2>2, FS_Product
    <2>4. Leads(a, k)' \in SUBSET P
      BY DEF Leads
    <2> HIDE DEF P
    <2>5. QED BY <2>3, <2>4, FS_Subset
  <1>4. \A b : Precedent(a, k, b) => Precedent(a, k, b)'
    BY DEF Precedent, TracesStay
  <1> DEFINE L == Leads(a, k)'
  <1>5. Leads(a, k) \in SUBSET L /\ IsFiniteSet(L)
    BY <1>1, <1>3
  <1> HIDE DEF L
  <1>6. Cardinality(Leads(a, k)) <= Cardinality(L) /\ Cardinality(L) \in Nat
    BY <1>5, FS_Subset, FS_CardinalityType
  <1>7. QED BY <1>2, <1>4, <1>6 DEF L

LEMMA SupportStays ==
    ASSUME TracesOk, TracesOk', TracesStay, failed => failed', asked' = asked, NEW k, NEW d
    PROVE  (Supported(k, d) => Supported(k, d)') /\ (PriorOk(k, d) => PriorOk(k, d)')
  <1>1. /\ Cardinality(Leads(asked.action, k)) <= Cardinality(Leads(asked.action, k)')
        /\ Cardinality(Leads(asked.action, k)) \in Nat /\ Cardinality(Leads(asked.action, k)') \in Nat
        /\ \A b : Precedent(asked.action, k, b) => Precedent(asked.action, k, b)'
    BY PastStays
  <1>2. MinSupporting \in Nat
    BY PredictorAssumption
  <1>3. QED BY <1>1, <1>2 DEF Supported, PriorOk, Dist, Mass

LEMMA WorkerStays ==
    ASSUME TracesOk, TracesOk', TracesStay, failed => failed', WorkerOk,
           asked' = asked, step' = step, dist' = dist, forecast' = forecast
    PROVE  WorkerOk'
  <1>1. \A k, d : (Supported(k, d) => Supported(k, d)') /\ (PriorOk(k, d) => PriorOk(k, d)')
    BY SupportStays
  <1>2. ASSUME NEW k \in 1 .. Horizon PROVE ForecastOk(k)'
    <2>1. ForecastAt(k)' = ForecastAt(k)
      BY DEF ForecastAt
    <2>2. CASE ForecastAt(k) = {}
      BY <2>1, <2>2 DEF ForecastOk
    <2>3. CASE ForecastAt(k) # {}
      <3>1. PICK d, prior : Supported(k, d) /\ PriorOk(k, prior) /\ ForecastAt(k) = Predicted(d, prior, k)
        BY <2>3 DEF WorkerOk, ForecastOk
      <3>2. Supported(k, d)' /\ PriorOk(k, prior)' /\ ForecastAt(k)' = Predicted(d, prior, k)
        BY <1>1, <2>1, <3>1
      <3>3. QED BY <3>2 DEF ForecastOk
    <2>4. QED BY <2>2, <2>3
  <1>3. step.query = "prior" => Supported(step.offset, dist)'
    <2> SUFFICES ASSUME step.query = "prior" PROVE Supported(step.offset, dist)'
      OBVIOUS
    <2> DEFINE k == step.offset
    <2>1. Supported(k, dist)
      BY DEF WorkerOk
    <2>2. Cardinality(Leads(asked.action, k)) <= Cardinality(Leads(asked.action, k)') /\ Cardinality(Leads(asked.action, k)) \in Nat
          /\ Cardinality(Leads(asked.action, k)') \in Nat /\ \A b : Precedent(asked.action, k, b) => Precedent(asked.action, k, b)'
      BY PastStays
    <2>3. MinSupporting \in Nat
      BY PredictorAssumption
    <2>4. QED BY <2>1, <2>2, <2>3 DEF Supported, Dist, Mass
  <1>4. QED BY <1>2, <1>3 DEF WorkerOk

LEMMA WorkerInit == PredictorInit => WorkerOk
  <1> SUFFICES ASSUME PredictorInit PROVE WorkerOk
    OBVIOUS
  <1>1. forecast = {} /\ step = [query |-> "none", offset |-> 0]
    BY DEF PredictorInit
  <1>2. \A k : ForecastAt(k) = {}
    BY <1>1 DEF ForecastAt
  <1>3. QED BY <1>1, <1>2 DEF WorkerOk, ForecastOk, Asking

\* A query that predicts nothing leaves the predictions as right as they were.
LEMMA LookupKeeps ==
    ASSUME TracesOk, WorkerOk, UNCHANGED <<traces, failed, asked, forecast>>
    PROVE  /\ TracesOk'
           /\ \A k \in 1 .. Horizon : ForecastOk(k)'
           /\ \A k, d : (Supported(k, d) => Supported(k, d)') /\ (PriorOk(k, d) => PriorOk(k, d)')
  <1>1. traces' = traces /\ failed' = failed /\ asked' = asked /\ forecast' = forecast
    OBVIOUS
  <1>2. Rows' = Rows
    BY <1>1 DEF Rows
  <1>3. TracesOk' /\ TracesStay
    BY <1>1, <1>2 DEF TracesOk, TracesStay
  <1>4. \A k, d : (Supported(k, d) => Supported(k, d)') /\ (PriorOk(k, d) => PriorOk(k, d)')
    BY <1>1, <1>3, SupportStays
  <1>5. ASSUME NEW k \in 1 .. Horizon PROVE ForecastOk(k)'
    <2>1. ForecastAt(k)' = ForecastAt(k)
      BY <1>1 DEF ForecastAt
    <2>2. CASE ForecastAt(k) = {}
      BY <2>1, <2>2 DEF ForecastOk
    <2>3. CASE ForecastAt(k) # {}
      <3>1. PICK d, prior : Supported(k, d) /\ PriorOk(k, prior) /\ ForecastAt(k) = Predicted(d, prior, k)
        BY <2>3 DEF WorkerOk, ForecastOk
      <3>2. Supported(k, d)' /\ PriorOk(k, prior)' /\ ForecastAt(k)' = Predicted(d, prior, k)
        BY <1>4, <2>1, <3>1
      <3>3. QED BY <3>2 DEF ForecastOk
    <2>4. QED BY <2>2, <2>3
  <1>6. QED BY <1>3, <1>4, <1>5

LEMMA QueryStep ==
    ASSUME TracesOk, WorkerOk, UNCHANGED <<traces, failed, asked, forecast>>, step.query \in Asking,
           NEW k, k = step.offset, NEW cohorts, NEW d, d = Grouped(Followers(asked.action, k, cohorts)),
           dist' = d, step' = [step EXCEPT !.query = "wide"] \/ step' = AfterDistribution(d)
    PROVE  WorkerOk'
  <1> DEFINE a == asked.action
  <1>1. /\ \A n \in 1 .. Horizon : ForecastOk(n)'
        /\ \A n, e : (Supported(n, e) => Supported(n, e)')
    BY LookupKeeps
  <1>2. k \in 1 .. Horizon /\ k \in Nat /\ Horizon = 2 /\ DOMAIN step = {"query", "offset"}
        /\ (\A f \in forecast : f.offset < k) /\ (\A f \in forecast : f.offset \in 1 .. Horizon)
    BY DEF WorkerOk, Horizon
  <1>3. forecast' = forecast /\ asked' = asked
    OBVIOUS
  <1>4. CASE step' = [step EXCEPT !.query = "wide"]
    <2>1. DOMAIN step' = {"query", "offset"} /\ step'.query = "wide" /\ step'.offset = k
      BY <1>2, <1>4
    <2>2. QED BY <1>1, <1>2, <1>3, <2>1 DEF WorkerOk, Asking
  <1>5. CASE step' = AfterDistribution(d) /\ Count(d) >= MinSupporting
    <2>1. DOMAIN step' = {"query", "offset"} /\ step'.query = "prior" /\ step'.offset = k
      BY <1>2, <1>5 DEF AfterDistribution
    <2>2. MinSupporting \in Nat \ {0}
      BY PredictorAssumption
    <2>3. /\ Dist(d) /\ Count(d) \in Nat /\ Count(d) <= Cardinality(Leads(a, k)) /\ Cardinality(Leads(a, k)) \in Nat
          /\ \A b \in DOMAIN d : Precedent(a, k, b)
          /\ ~failed /\ Followers(a, k, cohorts) # {} => Mass(d) > 0
          /\ Count(d) > 0 => Followers(a, k, cohorts) # {}
      BY <1>2, AnswerIs
    <2>4. Supported(k, d)
      BY <1>5, <2>2, <2>3 DEF Supported
    <2>5. Supported(k, d)'
      BY <1>1, <2>4
    <2>6. Supported(step.offset, dist)'
      BY <2>1, <2>5
    <2>7. QED BY <1>1, <1>2, <1>3, <2>1, <2>6 DEF WorkerOk, Asking
  <1>6. CASE step' = NextOffset
    <2>1. CASE k = Horizon
      <3>1. DOMAIN step' = {"query", "offset"} /\ step'.query = "done"
        BY <1>6, <2>1 DEF NextOffset
      <3>2. QED BY <1>1, <1>2, <1>3, <3>1 DEF WorkerOk, Asking
    <2>2. CASE k # Horizon
      <3>1. DOMAIN step' = {"query", "offset"} /\ step'.query = "cohort" /\ step'.offset = k + 1
        BY <1>6, <2>2 DEF NextOffset
      <3>2. k + 1 \in 1 .. Horizon /\ \A f \in forecast : f.offset < k + 1
        <4>1. k = 1
          BY <1>2, <2>2
        <4>2. \A f \in forecast : f.offset \in 1 .. 2
          BY <1>2
        <4>3. QED BY <1>2, <4>1, <4>2
      <3>3. QED BY <1>1, <1>2, <1>3, <3>1, <3>2 DEF WorkerOk, Asking
    <2>3. QED BY <2>1, <2>2
  <1>7. QED BY <1>4, <1>5, <1>6 DEF AfterDistribution

LEMMA ShrinkStep ==
    ASSUME TracesOk, WorkerOk, Shrink, NEW k, k = step.offset
    PROVE  WorkerOk'
  <1> DEFINE a == asked.action
             prior == IF Kappa = 0 THEN <<>> ELSE Grouped(Followers(asked.action, step.offset, Everyone))
             new == Predicted(dist, prior, k)
  <1>1. /\ step.query = "prior" /\ forecast' = forecast \cup new /\ step' = NextOffset /\ dist' = <<>>
        /\ traces' = traces /\ failed' = failed /\ asked' = asked
    BY DEF Shrink
  <1>2. k \in 1 .. Horizon /\ k \in Nat /\ Horizon = 2
        /\ (\A f \in forecast : f.offset < k) /\ (\A f \in forecast : f.offset \in 1 .. Horizon) /\ Supported(k, dist)
    BY <1>1 DEF WorkerOk, Horizon, Asking
  <1>3. PriorOk(k, prior)
    <2>1. CASE Kappa = 0
      <3>1. prior = <<>> /\ DOMAIN prior = {}
        BY <2>1
      <3>2. IsFiniteSet({})
        BY FS_EmptySet
      <3> HIDE DEF prior
      <3>3. QED BY <2>1, <3>1, <3>2 DEF PriorOk, Dist
    <2>2. CASE Kappa # 0
      <3> DEFINE d == Grouped(Followers(a, k, Everyone))
      <3>1. prior = d
        BY <2>2
      <3>2. Dist(d) /\ (\A b \in DOMAIN d : Precedent(a, k, b)) /\ (~failed /\ Followers(a, k, Everyone) # {} => Mass(d) > 0)
        BY <1>2, AnswerIs
      <3>3. Leads(a, k) # {}
        <4>1. MinSupporting \in Nat \ {0} /\ Cardinality(Leads(a, k)) >= MinSupporting
          BY <1>2, PredictorAssumption DEF Supported
        <4>2. QED BY <4>1, FS_EmptySet
      <3>4. Followers(a, k, Everyone) # {}
        BY <1>2, <3>3, FollowersAre
      <3> HIDE DEF d, prior
      <3>5. QED BY <3>1, <3>2, <3>4 DEF PriorOk
    <2>3. QED BY <2>1, <2>2
  <1>4. \E q : q = prior
    OBVIOUS
  <1> HIDE DEF prior
  <1>5. PICK q : q = prior
    BY <1>4
  <1>6. PICK e : e = dist
    OBVIOUS
  <1>7. forecast' = forecast \cup Predicted(e, q, k) /\ Supported(k, e) /\ PriorOk(k, q)
    BY <1>1, <1>2, <1>3, <1>5, <1>6
  <1>8. \A f \in Predicted(e, q, k) : f.offset = k
    BY DEF Predicted
  <1>9. \A n, d : (Supported(n, d) => Supported(n, d)') /\ (PriorOk(n, d) => PriorOk(n, d)')
    <2>1. Rows' = Rows
      BY <1>1 DEF Rows
    <2>2. TracesOk' /\ TracesStay
      BY <1>1, <2>1 DEF TracesOk, TracesStay
    <2>3. QED BY <1>1, <2>2, SupportStays
  <1>10. ForecastAt(k)' = Predicted(e, q, k)
    BY <1>2, <1>7, <1>8 DEF ForecastAt
  <1>11. ForecastOk(k)'
    BY <1>7, <1>9, <1>10 DEF ForecastOk
  <1>12. ASSUME NEW n \in 1 .. Horizon, n # k PROVE ForecastOk(n)'
    <2>1. ForecastAt(n)' = ForecastAt(n)
      BY <1>7, <1>8, <1>12 DEF ForecastAt
    <2>2. CASE ForecastAt(n) = {}
      BY <2>1, <2>2 DEF ForecastOk
    <2>3. CASE ForecastAt(n) # {}
      <3>1. PICK d, r : Supported(n, d) /\ PriorOk(n, r) /\ ForecastAt(n) = Predicted(d, r, n)
        BY <2>3 DEF WorkerOk, ForecastOk
      <3>2. Supported(n, d)' /\ PriorOk(n, r)' /\ ForecastAt(n)' = Predicted(d, r, n)
        BY <1>9, <2>1, <3>1
      <3>3. QED BY <3>2 DEF ForecastOk
    <2>4. QED BY <2>2, <2>3
  <1>13. \A f \in forecast' : f.offset \in 1 .. Horizon /\ f.offset <= k
    BY <1>2, <1>7, <1>8
  <1>14. CASE k = Horizon
    <2>1. DOMAIN step' = {"query", "offset"} /\ step'.query = "done"
      BY <1>1, <1>14 DEF NextOffset
    <2>2. QED BY <1>11, <1>12, <1>13, <2>1 DEF WorkerOk, Asking
  <1>15. CASE k # Horizon
    <2>1. DOMAIN step' = {"query", "offset"} /\ step'.query = "cohort" /\ step'.offset = k + 1
      BY <1>1, <1>15 DEF NextOffset
    <2>2. k + 1 \in 1 .. Horizon /\ \A f \in forecast' : f.offset < k + 1
      BY <1>2, <1>13, <1>15
    <2>3. QED BY <1>11, <1>12, <1>13, <2>1, <2>2 DEF WorkerOk, Asking
  <1>16. QED BY <1>14, <1>15

LEMMA WorkerStep ==
    ASSUME TracesOk, WorkerOk, [PredictorNext]_predictorVars
    PROVE  WorkerOk'
  <1>1. TracesOk' /\ TracesStay /\ (failed => failed')
    BY TracesStep
  <1>2. CASE UNCHANGED <<asked, step, dist, forecast>>
    <2>1. asked' = asked /\ step' = step /\ dist' = dist /\ forecast' = forecast
      BY <1>2
    <2>2. QED BY <1>1, <2>1, WorkerStays
  <1>3. ASSUME NEW a \in Actions, NEW cohort \in Everyone, AskPredictor(a, cohort) PROVE WorkerOk'
    <2>1. step.query = "none" /\ step' = [query |-> "cohort", offset |-> 1] /\ forecast' = forecast
      BY <1>3 DEF AskPredictor
    <2>2. forecast' = {}
      BY <2>1 DEF WorkerOk
    <2>3. \A n \in 1 .. Horizon : ForecastOk(n)'
      BY <2>2 DEF ForecastOk, ForecastAt
    <2>4. QED BY <2>1, <2>2, <2>3 DEF WorkerOk, Asking, Horizon
  <1>4. ASSUME LookupCohort PROVE WorkerOk'
    <2>1. PICK k : k = step.offset
      OBVIOUS
    <2>2. PICK cohorts : cohorts = Clause(asked.cohort)
      OBVIOUS
    <2>3. PICK d : d = Grouped(Followers(asked.action, k, cohorts))
      OBVIOUS
    <2>4. /\ step.query = "cohort" /\ dist' = d /\ UNCHANGED <<traces, failed, asked, forecast>>
          /\ step' = [step EXCEPT !.query = "wide"] \/ step' = AfterDistribution(d)
      BY <1>4, <2>1, <2>2, <2>3 DEF LookupCohort
    <2>5. step.query \in Asking
      BY <2>4 DEF Asking
    <2>6. QED BY <2>1, <2>3, <2>4, <2>5, QueryStep
  <1>5. ASSUME LookupWide PROVE WorkerOk'
    <2>1. PICK k : k = step.offset
      OBVIOUS
    <2>2. PICK cohorts : cohorts = Everyone
      OBVIOUS
    <2>3. PICK d : d = Grouped(Followers(asked.action, k, cohorts))
      OBVIOUS
    <2>4. /\ step.query = "wide" /\ dist' = d /\ UNCHANGED <<traces, failed, asked, forecast>>
          /\ step' = AfterDistribution(d)
      BY <1>5, <2>1, <2>2, <2>3 DEF LookupWide
    <2>5. step.query \in Asking
      BY <2>4 DEF Asking
    <2>6. QED BY <2>1, <2>3, <2>4, <2>5, QueryStep
  <1>6. ASSUME Shrink PROVE WorkerOk'
    <2>1. PICK k : k = step.offset
      OBVIOUS
    <2>2. QED BY <1>6, <2>1, ShrinkStep
  <1>7. QED BY <1>2, <1>3, <1>4, <1>5, <1>6 DEF PredictorNext, predictorVars, Record, Reward

\* For one offset, what is predicted is a distribution and has happened.
LEMMA ForecastFollows ==
    ASSUME TracesOk, WorkerOk, NEW k \in 1 .. Horizon, NEW of, of = ForecastAt(k), of # {}
    PROVE  LET total == SumFunction([f \in of |-> f.p.num])
               den == (CHOOSE f \in of : TRUE).p.den
           IN /\ \A f \in of : f.p.den = den
              /\ total <= den
              /\ ~failed => total = den
              /\ \A f \in of : Precedent(asked.action, k, f.action) /\ Cardinality(Leads(asked.action, k)) >= MinSupporting
  <1>1. PICK d, prior : Supported(k, d) /\ PriorOk(k, prior) /\ of = Predicted(d, prior, k)
    BY DEF WorkerOk, ForecastOk
  <1> DEFINE total == SumFunction([f \in of |-> f.p.num])
             den == (CHOOSE f \in of : TRUE).p.den
  <1>2. Dist(d) /\ Dist(prior)
    BY <1>1 DEF Supported, PriorOk
  <1>3. /\ \A f \in of : f.p.den = Denominator(d, prior) /\ f.action \in DOMAIN d \cup DOMAIN prior
        /\ total = Scale(prior) * Mass(d) + Kappa * Mass(prior)
    BY <1>1, <1>2, PredictedAddsUp
  <1>4. /\ total <= Denominator(d, prior)
        /\ Mass(d) > 0 /\ (Kappa = 0 \/ Mass(prior) > 0) => total = Denominator(d, prior)
    BY <1>2, <1>3, SharesFit
  <1>5. den = Denominator(d, prior)
    BY <1>3
  <1>6. ~failed => total = den
    BY <1>1, <1>4, <1>5 DEF Supported, PriorOk
  <1>7. \A f \in of : Precedent(asked.action, k, f.action) /\ Cardinality(Leads(asked.action, k)) >= MinSupporting
    BY <1>1, <1>3 DEF Supported, PriorOk
  <1> HIDE DEF total, den
  <1>8. (\A f \in of : f.p.den = den) /\ total <= den
    BY <1>3, <1>4, <1>5
  <1>9. QED BY <1>6, <1>7, <1>8 DEF total, den

LEMMA ForecastsFollow ==
    ASSUME TracesOk, WorkerOk
    PROVE  ForecastsAreSound
  <1>1. ASSUME NEW k \in 1 .. Horizon
        PROVE  LET of == {f \in forecast : f.offset = k} IN
                 of # {} =>
                     LET total == SumFunction([f \in of |-> f.p.num])
                         den == (CHOOSE f \in of : TRUE).p.den
                     IN /\ \A f \in of : f.p.den = den
                        /\ total <= den
                        /\ ~failed => total = den
    <2> DEFINE of == {f \in forecast : f.offset = k}
    <2>1. of = ForecastAt(k)
      BY DEF ForecastAt
    <2> HIDE DEF of
    <2>2. of # {} =>
              LET total == SumFunction([f \in of |-> f.p.num])
                  den == (CHOOSE f \in of : TRUE).p.den
              IN /\ \A f \in of : f.p.den = den
                 /\ total <= den
                 /\ ~failed => total = den
      BY <2>1, ForecastFollows
    <2>3. QED BY <2>2 DEF of
  <1>2. ProbabilitiesAddUp
    BY <1>1 DEF ProbabilitiesAddUp
  <1>3. ASSUME NEW f \in forecast
        PROVE  /\ Precedent(asked.action, f.offset, f.action)
               /\ Cardinality(Leads(asked.action, f.offset)) >= MinSupporting
    <2>1. f.offset \in 1 .. Horizon /\ f \in ForecastAt(f.offset)
      BY DEF WorkerOk, ForecastAt
    <2>2. PICK of : of = ForecastAt(f.offset)
      OBVIOUS
    <2>3. QED BY <2>1, <2>2, ForecastFollows
  <1>4. ForecastsHavePrecedent
    <2> SUFFICES ASSUME NEW f \in forecast
                 PROVE  /\ \E c \in Conversations : \E i \in DOMAIN traces[c] :
                              /\ traces[c][i].action = asked.action
                              /\ i + f.offset \in DOMAIN traces[c]
                              /\ traces[c][i + f.offset].action = f.action
                        /\ Cardinality({x \in Conversations \X (1 .. MaxTraces) :
                              /\ x[2] \in DOMAIN traces[x[1]] /\ x[2] + f.offset \in DOMAIN traces[x[1]]
                              /\ traces[x[1]][x[2]].action = asked.action}) >= MinSupporting
      BY DEF ForecastsHavePrecedent
    <2>1. Precedent(asked.action, f.offset, f.action) /\ Cardinality(Leads(asked.action, f.offset)) >= MinSupporting
      BY <1>3
    <2>2. QED BY <2>1 DEF Precedent, Leads
  <1>5. QED BY <1>2, <1>4 DEF ForecastsAreSound

(***************************************************************************)
(* What the worker foresees is always a distribution over what has         *)
(* happened before, however its queries fall between the turns that are    *)
(* recorded and the outcomes that rewrite their rewards.                   *)
(***************************************************************************)
THEOREM ForecastsHold == PredictorSpec => []ForecastsAreSound
  <1> DEFINE Inv == TracesOk /\ WorkerOk
  <1>1. PredictorInit => Inv
    BY TracesInit, WorkerInit
  <1>2. Inv /\ [PredictorNext]_predictorVars => Inv'
    BY TracesStep, WorkerStep
  <1>3. Inv => ForecastsAreSound
    BY ForecastsFollow
  <1>4. QED BY <1>1, <1>2, <1>3, PTL DEF PredictorSpec

-----------------------------------------------------------------------------
\* The plan: of the at most two turns an action is foreseen for, the likelier is scheduled.
Planned(f, d) == [dep |-> d, action |-> f.action, offset |-> f.offset, confidence |-> ConfidenceOf(f)]

LEMMA RoundedIs == \A n \in Nat, q \in Nat \ {0} : Rounded(n, q) \in Nat
  BY DEF Rounded

LEMMA OffsetIs ==
    ASSUME WorkerOk, NEW k \in 1 .. Horizon, NEW of, of = ForecastAt(k), of # {}
    PROVE  /\ IsFiniteSet(of)
           /\ \E den \in Nat \ {0} : \A x \in of : x.p.num \in Nat /\ x.p.den = den
           /\ \A x, y \in of : x.action = y.action => x = y
  <1>1. PICK d, prior : Supported(k, d) /\ PriorOk(k, prior) /\ of = Predicted(d, prior, k)
    BY DEF WorkerOk, ForecastOk
  <1>2. Dist(d) /\ Dist(prior)
    BY <1>1 DEF Supported, PriorOk
  <1>3. /\ IsFiniteSet(of)
        /\ \A x \in of : x.p.num \in Nat /\ x.p.den = Denominator(d, prior)
        /\ \A x, y \in of : x.action = y.action => x = y
    <2>1. /\ IsFiniteSet(of)
          /\ \A x \in of : x.p.num \in Nat /\ x.p.den = Denominator(d, prior)
          /\ \A x, y \in of : x.action = y.action => x = y
          /\ SumFunction([x \in of |-> x.p.num]) = Scale(prior) * Mass(d) + Kappa * Mass(prior)
      BY <1>1, <1>2, PredictedAddsUp
    <2>2. QED BY <2>1
  <1>4. Denominator(d, prior) \in Nat \ {0}
    BY <1>2, SharesFit
  <1>5. QED BY <1>3, <1>4

LEMMA ForecastIs ==
    ASSUME WorkerOk, NEW f \in forecast
    PROVE  /\ f.offset \in 1 .. 2 /\ f.p.num \in Nat /\ f.p.den \in Nat \ {0} /\ ConfidenceOf(f) \in Nat
           /\ \A g \in forecast : g.offset = f.offset =>
                 g.p.den = f.p.den /\ (g.action = f.action => g = f)
  <1>1. f.offset \in 1 .. Horizon /\ f \in ForecastAt(f.offset) /\ Horizon = 2
    BY DEF WorkerOk, ForecastAt, Horizon
  <1>2. PICK k \in 1 .. Horizon : k = f.offset
    BY <1>1
  <1>3. PICK of : of = ForecastAt(k)
    OBVIOUS
  <1>4. /\ \E den \in Nat \ {0} : \A x \in of : x.p.num \in Nat /\ x.p.den = den
        /\ \A x, y \in of : x.action = y.action => x = y
    BY <1>1, <1>2, <1>3, OffsetIs
  <1>5. f \in of /\ \A g \in forecast : g.offset = f.offset => g \in of
    BY <1>1, <1>2, <1>3 DEF ForecastAt
  <1>6. f.p.num \in Nat /\ f.p.den \in Nat \ {0}
    BY <1>4, <1>5
  <1>7. ConfidenceOf(f) \in Nat
    <2>1. DecayAt[f.offset] \in Nat
      BY <1>1 DEF DecayAt
    <2>2. f.p.num * DecayAt[f.offset] \in Nat
      BY <1>6, <2>1
    <2>3. QED BY <1>6, <2>2, RoundedIs DEF ConfidenceOf
  <1>8. ASSUME NEW g \in forecast, g.offset = f.offset
         PROVE  g.p.den = f.p.den /\ (g.action = f.action => g = f)
    BY <1>4, <1>5, <1>8
  <1>9. f.offset \in 1 .. 2
    BY <1>1
  <1>10. QED BY <1>6, <1>7, <1>8, <1>9

LEMMA FetchedFollows ==
    ASSUME WorkerOk
    PROVE  LikeliestIsFetched
  <1> DEFINE plan == {i \in BuildPrefetchPlan : i.confidence >= MinConfidence}
  <1>1. \A i \in BuildPrefetchPlan : \E f \in forecast : \E d \in DepsOf[f.action] : i = Planned(f, d)
    BY DEF BuildPrefetchPlan, Planned
  <1>2. \A f \in forecast : \A d \in DepsOf[f.action] : Planned(f, d) \in BuildPrefetchPlan
    BY DEF BuildPrefetchPlan, Planned
  <1>3. Scheduled = {i \in plan : \A j \in plan : j.dep = i.dep /\ j.action = i.action => ~Before(j, i)}
    BY DEF Scheduled
  <1>4. plan \subseteq BuildPrefetchPlan /\ \A i \in BuildPrefetchPlan : i.confidence >= MinConfidence => i \in plan
    OBVIOUS
  <1> HIDE DEF plan
  <1>5. ASSUME NEW i \in BuildPrefetchPlan
        PROVE  /\ i.confidence \in Nat /\ i.offset \in 1 .. 2
               /\ \A j \in BuildPrefetchPlan : j.dep = i.dep /\ j.action = i.action /\ j.offset = i.offset => j = i
    <2>1. PICK f \in forecast : \E d \in DepsOf[f.action] : i = Planned(f, d)
      BY <1>1
    <2>2. PICK d \in DepsOf[f.action] : i = Planned(f, d)
      BY <2>1
    <2>3. i.dep = d /\ i.action = f.action /\ i.offset = f.offset /\ i.confidence = ConfidenceOf(f)
      BY <2>2 DEF Planned
    <2>4. ASSUME NEW j \in BuildPrefetchPlan, j.dep = i.dep, j.action = i.action, j.offset = i.offset PROVE j = i
      <3>1. PICK g \in forecast : \E e \in DepsOf[g.action] : j = Planned(g, e)
        BY <1>1
      <3>2. PICK e \in DepsOf[g.action] : j = Planned(g, e)
        BY <3>1
      <3>3. j.dep = e /\ j.action = g.action /\ j.offset = g.offset
        BY <3>2 DEF Planned
      <3>4. g = f /\ e = d
        BY <2>3, <2>4, <3>3, ForecastIs
      <3>5. QED BY <2>2, <3>2, <3>4
    <2>5. QED BY <2>3, <2>4, ForecastIs
  <1>6. \A i, j \in BuildPrefetchPlan :
           j.dep = i.dep /\ j.action = i.action /\ ~Before(j, i) /\ ~Before(i, j) => j = i
    <2> SUFFICES ASSUME NEW i \in BuildPrefetchPlan, NEW j \in BuildPrefetchPlan,
                        j.dep = i.dep, j.action = i.action, ~Before(j, i), ~Before(i, j)
                 PROVE  j = i
      OBVIOUS
    <2>1. i.confidence \in Nat /\ j.confidence \in Nat /\ i.offset \in 1 .. 2 /\ j.offset \in 1 .. 2
      BY <1>5
    <2>2. j.offset = i.offset
      BY <2>1 DEF Before
    <2>3. QED BY <1>5, <2>2
  <1>7. ASSUME NEW i \in Scheduled, NEW j \in Scheduled, j.dep = i.dep, j.action = i.action PROVE j = i
    BY <1>3, <1>4, <1>6, <1>7
  <1>8. ASSUME NEW f \in forecast, ConfidenceOf(f) >= MinConfidence, NEW d \in DepsOf[f.action]
        PROVE  \E i \in Scheduled : i.dep = d /\ i.action = f.action /\ i.confidence >= ConfidenceOf(f)
    <2> DEFINE m == Planned(f, d)
    <2>1. m \in plan /\ m \in BuildPrefetchPlan /\ m.dep = d /\ m.action = f.action /\ m.confidence = ConfidenceOf(f)
      BY <1>2, <1>4, <1>8 DEF Planned
    <2> HIDE DEF m
    <2>2. CASE \A j \in plan : j.dep = m.dep /\ j.action = m.action => ~Before(j, m)
      <3>1. m \in Scheduled /\ m.confidence >= ConfidenceOf(f)
        BY <1>3, <1>5, <2>1, <2>2
      <3>2. QED BY <2>1, <3>1
    <2>3. CASE ~ \A j \in plan : j.dep = m.dep /\ j.action = m.action => ~Before(j, m)
      <3>1. PICK j \in plan : j.dep = m.dep /\ j.action = m.action /\ Before(j, m)
        BY <2>3
      <3>2. /\ m.confidence \in Nat /\ j.confidence \in Nat /\ m.offset \in 1 .. 2 /\ j.offset \in 1 .. 2
            /\ j \in BuildPrefetchPlan
        BY <1>4, <1>5, <2>1, <3>1
      <3>3. j.offset # m.offset
        <4>1. ~Before(m, m)
          BY <3>2 DEF Before
        <4>2. QED BY <1>5, <2>1, <3>1, <3>2, <4>1
      <3>4. j.confidence >= m.confidence /\ ~Before(m, j) /\ ~Before(j, j)
        BY <3>1, <3>2 DEF Before
      <3>5. ASSUME NEW l \in plan, l.dep = j.dep, l.action = j.action PROVE ~Before(l, j)
        <4>1. l \in BuildPrefetchPlan /\ l.offset \in 1 .. 2
          BY <1>4, <1>5
        <4>2. CASE l.offset = m.offset
          <5>1. l = m
            BY <1>5, <2>1, <3>1, <3>5, <4>1, <4>2
          <5>2. QED BY <3>4, <5>1
        <4>3. CASE l.offset = j.offset
          <5>1. l = j
            BY <1>5, <3>2, <3>5, <4>1, <4>3
          <5>2. QED BY <3>4, <5>1
        <4>4. QED BY <3>2, <3>3, <4>1, <4>2, <4>3
      <3>6. j \in Scheduled
        BY <1>3, <3>1, <3>5
      <3>7. QED BY <2>1, <3>1, <3>4, <3>6
    <2>4. QED BY <2>2, <2>3
  <1>9. ASSUME NEW f \in forecast, ConfidenceOf(f) >= MinConfidence, NEW d \in DepsOf[f.action]
        PROVE  \E i \in Scheduled :
                    /\ i.dep = d /\ i.action = f.action /\ i.confidence >= ConfidenceOf(f)
                    /\ \A j \in Scheduled : j.dep = d /\ j.action = f.action => j = i
    BY <1>7, <1>8, <1>9
  <1>10. QED BY <1>9 DEF LikeliestIsFetched

-----------------------------------------------------------------------------
\* Any finite set can be put in order, and its first element is one that no other precedes.
Strict(S, p) ==
    /\ \A x \in S : <<x, x>> \notin p
    /\ \A x, y, z \in S : <<x, y>> \in p /\ <<y, z>> \in p => <<x, z>> \in p
InOrder(seq, n, p) == \A i, j \in 1 .. n : i < j => seq[i] # seq[j] /\ <<seq[j], seq[i]>> \notin p

LEMMA SomeIsLast ==
    ASSUME NEW S, IsFiniteSet(S), NEW p, Strict(S, p), NEW T \in SUBSET S, T # {}
    PROVE  \E x \in T : \A y \in T : <<x, y>> \notin p
  <1> DEFINE P == {Q \in SUBSET S : Q # {} => \E x \in Q : \A y \in Q : <<x, y>> \notin p}
  <1>1. {} \in P
    OBVIOUS
  <1>2. ASSUME NEW Q \in P, NEW z \in S \ Q PROVE Q \cup {z} \in P
    <2>1. Q \cup {z} \in SUBSET S
      OBVIOUS
    <2>2. CASE Q = {}
      BY <2>1, <2>2 DEF Strict
    <2>3. CASE Q # {}
      <3>1. PICK x \in Q : \A y \in Q : <<x, y>> \notin p
        BY <2>3
      <3>2. CASE <<x, z>> \notin p
        <4>1. x \in Q \cup {z} /\ \A y \in Q \cup {z} : <<x, y>> \notin p
          BY <3>1, <3>2
        <4>2. QED BY <2>1, <4>1
      <3>3. CASE <<x, z>> \in p
        <4>1. \A y \in Q : <<z, y>> \notin p
          BY <2>1, <3>1, <3>3 DEF Strict
        <4>2. z \in Q \cup {z} /\ \A y \in Q \cup {z} : <<z, y>> \notin p
          BY <4>1 DEF Strict
        <4>3. QED BY <2>1, <4>2
      <3>4. QED BY <3>2, <3>3
    <2>4. QED BY <2>2, <2>3
  <1>3. P \in SUBSET SUBSET S
    OBVIOUS
  <1>4. \A Q \in P : (Q # {} => \E x \in Q : \A y \in Q : <<x, y>> \notin p)
    OBVIOUS
  <1> HIDE DEF P
  <1>5. T \in P
    BY <1>1, <1>2, <1>3, Grow
  <1>6. QED BY <1>4, <1>5

LEMMA OrderExists ==
    ASSUME NEW S, IsFiniteSet(S), NEW p, Strict(S, p)
    PROVE  \E seq \in [1 .. Cardinality(S) -> S] : InOrder(seq, Cardinality(S), p)
  <1> DEFINE N == {n \in Nat : \A T \in SUBSET S : Cardinality(T) = n => \E seq \in [1 .. n -> T] : InOrder(seq, n, p)}
  <1>0. \A T \in SUBSET S : IsFiniteSet(T) /\ Cardinality(T) \in Nat
    BY FS_Subset, FS_CardinalityType
  <1>1. 0 \in N
    <2> SUFFICES ASSUME NEW T \in SUBSET S PROVE \E seq \in [1 .. 0 -> T] : InOrder(seq, 0, p)
      OBVIOUS
    <2> DEFINE s == [i \in 1 .. 0 |-> i]
    <2>1. s \in [1 .. 0 -> T]
      OBVIOUS
    <2>2. InOrder(s, 0, p)
      BY DEF InOrder
    <2>3. QED BY <2>1, <2>2
  <1>2. ASSUME NEW n \in N PROVE n + 1 \in N
    <2> SUFFICES ASSUME NEW T \in SUBSET S, Cardinality(T) = n + 1
                 PROVE  \E seq \in [1 .. n + 1 -> T] : InOrder(seq, n + 1, p)
      OBVIOUS
    <2>1. n \in Nat /\ IsFiniteSet(T) /\ T # {}
      BY <1>0, FS_EmptySet
    <2>2. PICK x \in T : \A y \in T : <<x, y>> \notin p
      BY <2>1, SomeIsLast
    <2> DEFINE R == T \ {x}
    <2>3. R \in SUBSET S /\ Cardinality(R) = n
      <3>1. Cardinality(R) = Cardinality(T) - 1
        BY <2>1, <2>2, FS_RemoveElement
      <3>2. QED BY <2>1, <3>1
    <2>4. PICK r \in [1 .. n -> R] : InOrder(r, n, p)
      BY <2>3
    <2> DEFINE s == [i \in 1 .. n + 1 |-> IF i = n + 1 THEN x ELSE r[i]]
    <2>5. \A i \in 1 .. n : s[i] = r[i] /\ r[i] \in T /\ r[i] # x
      BY <2>1
    <2>6. s[n + 1] = x
      BY <2>1
    <2>7. \A i \in 1 .. n + 1 : i \in 1 .. n \/ i = n + 1
      BY <2>1
    <2>8. s \in [1 .. n + 1 -> T]
      BY <2>5, <2>6, <2>7
    <2> HIDE DEF s
    <2>9. InOrder(s, n + 1, p)
      <3> SUFFICES ASSUME NEW i \in 1 .. n + 1, NEW j \in 1 .. n + 1, i < j
                   PROVE  s[i] # s[j] /\ <<s[j], s[i]>> \notin p
        BY DEF InOrder
      <3>1. i \in 1 .. n
        BY <2>1
      <3>2. CASE j \in 1 .. n
        BY <2>4, <2>5, <3>1, <3>2 DEF InOrder
      <3>3. CASE j = n + 1
        BY <2>2, <2>5, <2>6, <3>1, <3>3
      <3>4. QED BY <2>7, <3>2, <3>3
    <2>10. QED BY <2>8, <2>9
  <1>3. N \in SUBSET Nat
    OBVIOUS
  <1> HIDE DEF N
  <1>4. N = Nat
    BY <1>1, <1>2, <1>3, Induct
  <1>5. Cardinality(S) \in N /\ S \in SUBSET S
    BY <1>0, <1>4
  <1>6. QED BY <1>5 DEF N

LEMMA SortedIs ==
    ASSUME NEW S, IsFiniteSet(S), NEW p, Strict(S, p), NEW s, s = Sorted(S, p)
    PROVE  /\ s \in [1 .. Cardinality(S) -> S] /\ Cardinality(S) \in Nat
           /\ S # {} => 1 \in 1 .. Cardinality(S) /\ s[1] \in S /\ \A x \in S : <<x, s[1]>> \notin p
  <1> DEFINE n == Cardinality(S)
  <1>1. n \in Nat
    BY FS_CardinalityType
  <1>2. \E seq \in [1 .. n -> S] : \A i, j \in DOMAIN seq : i < j => seq[i] # seq[j] /\ <<seq[j], seq[i]>> \notin p
    <2>1. PICK seq \in [1 .. n -> S] : InOrder(seq, n, p)
      BY OrderExists
    <2>2. QED BY <2>1 DEF InOrder
  <1>3. s \in [1 .. n -> S] /\ \A i, j \in DOMAIN s : i < j => s[i] # s[j] /\ <<s[j], s[i]>> \notin p
    BY <1>2 DEF Sorted
  <1> HIDE DEF n
  <1>4. s \in Injection(1 .. n, S)
    <2>1. DOMAIN s = 1 .. n
      BY <1>3
    <2>2. \A i, j \in 1 .. n : s[i] = s[j] => i = j
      <3> SUFFICES ASSUME NEW i \in 1 .. n, NEW j \in 1 .. n, s[i] = s[j] PROVE i = j
        OBVIOUS
      <3>1. ~(i < j) /\ ~(j < i)
        BY <1>3, <2>1
      <3>2. QED BY <1>1, <3>1
    <2>3. QED BY <1>3, <2>1, <2>2 DEF Injection, IsInjective
  <1>5. IsFiniteSet(1 .. n) /\ Cardinality(1 .. n) = n
    BY <1>1, FS_Interval
  <1>6. s \in Surjection(1 .. n, S)
    BY <1>4, <1>5, FS_Injection DEF n
  <1>7. ASSUME S # {} PROVE 1 \in 1 .. n /\ s[1] \in S /\ \A x \in S : <<x, s[1]>> \notin p
    <2>1. \A x \in S : \E i \in 1 .. n : x = s[i]
      BY <1>6 DEF Surjection
    <2>2. 1 \in 1 .. n
      BY <1>1, <1>7, <2>1
    <2>3. s[1] \in S
      BY <1>3, <2>2
    <2>4. ASSUME NEW x \in S PROVE <<x, s[1]>> \notin p
      <3>1. PICK i \in 1 .. n : x = s[i]
        BY <2>1
      <3>2. CASE i = 1
        BY <2>3, <3>1, <3>2 DEF Strict
      <3>3. CASE i # 1
        <4>1. 1 < i /\ i \in DOMAIN s /\ 1 \in DOMAIN s
          BY <1>1, <1>3, <2>2, <3>3
        <4>2. QED BY <1>3, <3>1, <4>1
      <3>4. QED BY <3>2, <3>3
    <2>5. QED BY <2>2, <2>3, <2>4
  <1>8. QED BY <1>1, <1>3, <1>7 DEF n

LEMMA ForemostIs ==
    ASSUME NEW S, NEW n \in Nat \ {0}, NEW len \in Nat, NEW seq \in [1 .. len -> S], NEW h, h = Foremost(seq, n)
    PROVE  /\ DOMAIN h \subseteq 1 .. len /\ \A i \in DOMAIN h : h[i] = seq[i]
           /\ len # 0 => 1 \in DOMAIN h
           /\ \A i \in DOMAIN h : i \in Nat /\ i >= 1
  <1>1. seq \in Seq(S) /\ Len(seq) = len
    OBVIOUS
  <1> DEFINE m == Min({n, len})
  <1>2. m \in {n, len} /\ m <= n /\ m <= len
    <2>1. \E x \in {n, len} : \A y \in {n, len} : x <= y
      OBVIOUS
    <2>2. QED BY <2>1 DEF Min
  <1> HIDE DEF m
  <1>3. h = SubSeq(seq, 1, m) /\ m \in Nat
    BY <1>1, <1>2 DEF Foremost, m
  <1>4. DOMAIN h = 1 .. m /\ \A i \in 1 .. m : h[i] = seq[i]
    BY <1>1, <1>2, <1>3
  <1>5. QED BY <1>2, <1>3, <1>4

LEMMA RoundedIsMonotone ==
    ASSUME NEW x \in Nat, NEW y \in Nat, NEW q \in Nat \ {0}, x <= y
    PROVE  Rounded(x, q) <= Rounded(y, q)
  <1> DEFINE a == 2 * x + q
             b == 2 * y + q
             r == 2 * q
             u == a \div r
             v == b \div r
  <1>1. a \in Nat /\ b \in Nat /\ a <= b /\ r \in Nat \ {0}
    OBVIOUS
  <1>2. u = Rounded(x, q) /\ v = Rounded(y, q)
    BY DEF Rounded
  <1> HIDE DEF a, b, r
  <1>3. u \in Nat /\ v \in Nat
    BY <1>1
  <1>4. r * u <= a /\ b < r * (v + 1)
    <2>1. \A c \in Nat : c = r * (c \div r) + (c % r) /\ c % r \in 0 .. r - 1 /\ c \div r \in Nat
      BY <1>1
    <2>2. r * u \in Nat /\ r * v \in Nat /\ r * (v + 1) = r * v + r
      BY <1>1, <1>3
    <2>3. a = r * u + (a % r) /\ b = r * v + (b % r) /\ a % r \in 0 .. r - 1 /\ b % r \in 0 .. r - 1
      BY <1>1, <2>1
    <2>4. QED BY <1>1, <2>2, <2>3
  <1> HIDE DEF u, v
  <1>5. u <= v
    <2> SUFFICES ASSUME v + 1 <= u PROVE FALSE
      BY <1>3
    <2>1. r * (v + 1) <= r * u
      BY <1>1, <1>3, TimesIsMonotone
    <2>2. r * (v + 1) \in Nat /\ r * u \in Nat
      BY <1>1, <1>3
    <2>3. QED BY <1>1, <1>4, <2>1, <2>2
  <1>6. QED BY <1>2, <1>5

LEMMA StatesAre ==
    ASSUME TracesOk
    PROVE  /\ IsFiniteSet(DOMAIN NextStates)
           /\ \A s \in DOMAIN NextStates : NextStates[s] \in Nat
           /\ SumFunction(NextStates) \in Nat
  <1>1. \A cohorts : RowsOk(Heard(cohorts))
    <2> TAKE cohorts
    <2> DEFINE F == Followers(asked.action, 1, cohorts)
    <2>1. RowsOk(F)
      BY FollowersAre
    <2>2. Heard(cohorts) \in SUBSET F
      BY DEF Heard
    <2> HIDE DEF F
    <2>3. QED BY <2>1, <2>2, FS_Subset DEF RowsOk
  <1> DEFINE rows == IF Heard(Clause(asked.cohort)) # {} THEN Heard(Clause(asked.cohort)) ELSE Heard(Everyone)
             D == {Row(x).state : x \in rows}
             of(s) == {x \in rows : Row(x).state = s}
             m == [x \in rows |-> Row(x).state]
             w == [s \in D |-> Weigh(of(s))]
  <1>2. RowsOk(rows)
    BY <1>1
  <1>3. NextStates = w
    BY DEF NextStates
  <1>4. DOMAIN w = D /\ \A s \in D : w[s] = Weigh(of(s))
    OBVIOUS
  <1>5. D = {m[x] : x \in rows}
    OBVIOUS
  <1>6. \A s : of(s) \in SUBSET rows
    OBVIOUS
  <1> HIDE DEF rows, D, of, m, w
  <1>7. IsFiniteSet(D)
    BY <1>2, <1>5, ImageIsFinite DEF RowsOk
  <1>8. \A s \in D : w[s] \in Nat
    <2> TAKE s \in D
    <2>1. RowsOk(of(s))
      BY <1>2, <1>6, FS_Subset DEF RowsOk
    <2>2. QED BY <1>4, <2>1, WeightIs
  <1>9. SumFunction(w) \in Nat
    BY <1>4, <1>7, <1>8, SumNat DEF SumFunction, Numbers
  <1>10. QED BY <1>3, <1>4, <1>7, <1>8, <1>9

\* The first of a sorted and cut list is one that nothing precedes.
LEMMA ForemostSorted ==
    ASSUME NEW S, IsFiniteSet(S), NEW p, Strict(S, p), NEW n \in Nat \ {0}, NEW h, h = Foremost(Sorted(S, p), n)
    PROVE  /\ \A i \in DOMAIN h : h[i] \in S /\ i \in Nat /\ i >= 1
           /\ IsFiniteSet(DOMAIN h)
           /\ S = {} => DOMAIN h = {}
           /\ S # {} => 1 \in DOMAIN h /\ h[1] \in S /\ \A x \in S : <<x, h[1]>> \notin p
  <1> DEFINE s == Sorted(S, p)
             len == Cardinality(S)
  <1>1. /\ s \in [1 .. len -> S] /\ len \in Nat
        /\ S # {} => 1 \in 1 .. len /\ s[1] \in S /\ \A x \in S : <<x, s[1]>> \notin p
    BY SortedIs
  <1>2. S = {} => len = 0
    BY FS_EmptySet
  <1> HIDE DEF s, len
  <1>3. h = Foremost(s, n)
    BY DEF s
  <1>4. /\ DOMAIN h \subseteq 1 .. len /\ \A i \in DOMAIN h : h[i] = s[i]
        /\ len # 0 => 1 \in DOMAIN h
        /\ \A i \in DOMAIN h : i \in Nat /\ i >= 1
    BY <1>1, <1>3, ForemostIs
  <1>5. IsFiniteSet(1 .. len)
    BY <1>1, FS_Interval
  <1>6. IsFiniteSet(DOMAIN h)
    BY <1>4, <1>5, FS_Subset
  <1>7. \A i \in DOMAIN h : h[i] \in S
    BY <1>1, <1>4
  <1>8. S = {} => DOMAIN h = {}
    BY <1>1, <1>2, <1>4
  <1>9. ASSUME S # {} PROVE 1 \in DOMAIN h /\ h[1] \in S /\ \A x \in S : <<x, h[1]>> \notin p
    <2>1. len # 0
      BY <1>1, <1>9
    <2>2. 1 \in DOMAIN h /\ h[1] = s[1]
      BY <1>4, <2>1
    <2>3. QED BY <1>1, <1>9, <2>2
  <1>10. QED BY <1>4, <1>6, <1>7, <1>8, <1>9

LEMMA NextActionsAre ==
    ASSUME WorkerOk, NEW next, next = NextActions
    PROVE  /\ \A i \in DOMAIN next : next[i] \in ForecastAt(1) /\ i \in Nat /\ i >= 1
           /\ IsFiniteSet(DOMAIN next)
           /\ ForecastAt(1) = {} => DOMAIN next = {}
           /\ ForecastAt(1) # {} => 1 \in DOMAIN next /\ \A f \in ForecastAt(1) : ~Likelier(f, next[1])
  <1> DEFINE S == {f \in forecast : f.offset = 1}
             p == {x \in S \X S : Likelier(x[1], x[2])}
  <1>1. S = ForecastAt(1) /\ next = Foremost(Sorted(S, p), 2)
    BY DEF ForecastAt, NextActions
  <1>2. IsFiniteSet(ForecastAt(1))
    <2>1. CASE ForecastAt(1) = {}
      BY <2>1, FS_EmptySet
    <2>2. CASE ForecastAt(1) # {}
      <3>1. PICK of : of = ForecastAt(1)
        OBVIOUS
      <3>2. 1 \in 1 .. Horizon
        BY DEF Horizon
      <3>3. QED BY <2>2, <3>1, <3>2, OffsetIs
    <2>3. QED BY <2>1, <2>2
  <1>3. \A x, y \in S : <<x, y>> \in p <=> Likelier(x, y)
    OBVIOUS
  <1>4. \A x, y \in S : x.p.num \in Nat /\ x.p.den \in Nat \ {0} /\ x.p.den = y.p.den
    BY ForecastIs
  <1> HIDE DEF p, S
  <1>5. \A x \in S : ~Likelier(x, x)
    BY <1>4 DEF Likelier
  <1>6. ASSUME NEW x \in S, NEW y \in S, NEW z \in S, Likelier(x, y), Likelier(y, z) PROVE Likelier(x, z)
    <2> DEFINE d == x.p.den
    <2>1. d \in Nat /\ y.p.den = d /\ z.p.den = d /\ x.p.num \in Nat /\ y.p.num \in Nat /\ z.p.num \in Nat
      BY <1>4
    <2>2. x.p.num * d > y.p.num * d /\ y.p.num * d > z.p.num * d
      BY <1>6, <2>1 DEF Likelier
    <2>3. x.p.num * d \in Nat /\ y.p.num * d \in Nat /\ z.p.num * d \in Nat
      BY <2>1
    <2>4. x.p.num * d > z.p.num * d
      BY <2>2, <2>3
    <2>5. QED BY <2>1, <2>4 DEF Likelier
  <1>7. Strict(S, p)
    BY <1>3, <1>5, <1>6 DEF Strict
  <1>8. PICK T, q : T = S /\ q = p
    OBVIOUS
  <1>9. /\ \A i \in DOMAIN next : next[i] \in T /\ i \in Nat /\ i >= 1
        /\ IsFiniteSet(DOMAIN next)
        /\ T = {} => DOMAIN next = {}
        /\ T # {} => 1 \in DOMAIN next /\ next[1] \in T /\ \A x \in T : <<x, next[1]>> \notin q
    <2>1. IsFiniteSet(T) /\ Strict(T, q) /\ next = Foremost(Sorted(T, q), 2) /\ 2 \in Nat \ {0}
      BY <1>1, <1>2, <1>7, <1>8
    <2>2. QED BY <2>1, ForemostSorted
  <1>10. QED BY <1>1, <1>3, <1>8, <1>9

LEMMA HeardStatesAre ==
    ASSUME NEW weights, IsFiniteSet(DOMAIN weights), \A s \in DOMAIN weights : weights[s] \in Nat,
           NEW heard, heard = HeardStates(weights)
    PROVE  /\ \A i \in DOMAIN heard : heard[i] \in DOMAIN weights /\ i \in Nat /\ i >= 1
           /\ IsFiniteSet(DOMAIN heard)
           /\ DOMAIN weights = {} => DOMAIN heard = {}
           /\ DOMAIN weights # {} => 1 \in DOMAIN heard /\ \A s \in DOMAIN weights : weights[s] <= weights[heard[1]]
  <1> DEFINE S == DOMAIN weights
             p == {x \in S \X S : weights[x[1]] > weights[x[2]]}
  <1>1. heard = Foremost(Sorted(S, p), 2)
    BY DEF HeardStates
  <1>2. \A x, y \in S : <<x, y>> \in p <=> weights[x] > weights[y]
    OBVIOUS
  <1> HIDE DEF p, S
  <1>3. IsFiniteSet(S) /\ \A x \in S : weights[x] \in Nat
    BY DEF S
  <1>4. Strict(S, p)
    BY <1>2, <1>3 DEF Strict
  <1>5. /\ \A i \in DOMAIN heard : heard[i] \in S /\ i \in Nat /\ i >= 1
        /\ IsFiniteSet(DOMAIN heard)
        /\ S = {} => DOMAIN heard = {}
        /\ S # {} => 1 \in DOMAIN heard /\ heard[1] \in S /\ \A x \in S : <<x, heard[1]>> \notin p
    <2>1. 2 \in Nat \ {0}
      OBVIOUS
    <2>2. QED BY <1>1, <1>3, <1>4, <2>1, ForemostSorted
  <1>6. ASSUME S # {}, NEW s \in S PROVE weights[s] <= weights[heard[1]]
    <2>1. PICK e \in S : e = heard[1] /\ <<s, e>> \notin p
      BY <1>5, <1>6
    <2>2. ~(weights[s] > weights[e])
      BY <1>2, <2>1
    <2>3. QED BY <1>3, <2>1, <2>2
  <1>7. QED BY <1>5, <1>6 DEF S

LEMMA PairsAre ==
    ASSUME NEW joint, IsFiniteSet(DOMAIN joint), NEW n \in Nat \ {0},
           \A c \in DOMAIN joint : joint[c] \in Nat /\ c[1] \in Nat /\ c[2] \in Nat /\ c[1] >= 1 /\ c[2] >= 1,
           NEW drafts, drafts = Foremost(Pairs(joint), n)
    PROVE  /\ DOMAIN joint = {} => DOMAIN drafts = {}
           /\ DOMAIN joint # {} =>
                 /\ 1 \in DOMAIN drafts /\ drafts[1] \in DOMAIN joint
                 /\ \A c \in DOMAIN joint :
                       /\ joint[c] <= joint[drafts[1]]
                       /\ joint[c] = joint[drafts[1]] => 3 * drafts[1][1] + drafts[1][2] <= 3 * c[1] + c[2]
  <1> DEFINE S == DOMAIN joint
             rank(c) == 3 * c[1] + c[2]
             first(c, d) ==
                \/ joint[c] > joint[d]
                \/ joint[c] = joint[d] /\ 3 * c[1] + c[2] < 3 * d[1] + d[2]
             p == {x \in S \X S : first(x[1], x[2])}
  <1>1. drafts = Foremost(Sorted(S, p), n)
    BY DEF Pairs
  <1>2. \A x, y \in S : <<x, y>> \in p <=> (joint[x] > joint[y] \/ (joint[x] = joint[y] /\ rank(x) < rank(y)))
    OBVIOUS
  <1>3. \A x \in S : joint[x] \in Nat /\ rank(x) \in Nat
    OBVIOUS
  <1> HIDE DEF p, S, rank
  <1>4. IsFiniteSet(S)
    BY DEF S
  <1>5. Strict(S, p)
    BY <1>2, <1>3 DEF Strict
  <1>6. /\ S = {} => DOMAIN drafts = {}
        /\ S # {} => 1 \in DOMAIN drafts /\ drafts[1] \in S /\ \A x \in S : <<x, drafts[1]>> \notin p
    BY <1>1, <1>4, <1>5, ForemostSorted
  <1>7. ASSUME S # {}, NEW c \in S PROVE joint[c] <= joint[drafts[1]] /\ (joint[c] = joint[drafts[1]] => rank(drafts[1]) <= rank(c))
    <2>1. PICK e \in S : e = drafts[1] /\ <<c, e>> \notin p
      BY <1>6, <1>7
    <2>2. ~(joint[c] > joint[e] \/ (joint[c] = joint[e] /\ rank(c) < rank(e)))
      BY <1>2, <2>1
    <2>3. joint[c] <= joint[e] /\ (joint[c] = joint[e] => rank(e) <= rank(c))
      BY <1>3, <2>2
    <2>4. QED BY <2>1, <2>3
  <1>8. QED BY <1>6, <1>7 DEF S, rank

LEMMA LessByNumerator ==
    ASSUME NEW x \in Nat, NEW y \in Nat, NEW d \in Nat \ {0}, ~(x * d > y * d)
    PROVE  x <= y
  <1> SUFFICES ASSUME y + 1 <= x PROVE FALSE
    OBVIOUS
  <1>1. d * (y + 1) <= d * x
    BY TimesIsMonotone
  <1>2. d * (y + 1) = y * d + d /\ d * x = x * d /\ x * d \in Nat /\ y * d \in Nat
    OBVIOUS
  <1>3. QED BY <1>1, <1>2

LEMMA TimesIsMonotoneInBoth ==
    ASSUME NEW x \in Nat, NEW y \in Nat, NEW u \in Nat, NEW v \in Nat, x <= y, u <= v
    PROVE  x * u <= y * v
  <1>1. u * x <= u * y /\ y * u <= y * v
    BY TimesIsMonotone
  <1>2. u * x = x * u /\ u * y = y * u /\ x * u \in Nat /\ y * u \in Nat /\ y * v \in Nat
    OBVIOUS
  <1>3. QED BY <1>1, <1>2

\* The likeliest action in the likeliest state is the first of the pairs.
LEMMA FirstPair ==
    ASSUME WorkerOk, TracesOk, NEW next, next = NextActions, NEW weights, weights = NextStates,
           NEW heard, heard = HeardStates(weights), NEW joint, joint = Joint(next, heard, weights),
           NEW drafts, drafts = Foremost(Pairs(joint), MaxPergen), DOMAIN drafts # {}
    PROVE  /\ 1 \in DOMAIN drafts /\ drafts[1] = <<1, 1>>
           /\ next[1] \in ForecastAt(1) /\ \A f \in ForecastAt(1) : ~Likelier(f, next[1])
           /\ \A s \in DOMAIN weights : weights[s] <= weights[heard[1]]
  <1> DEFINE mass == Max({1, SumFunction(weights)})
             J == (DOMAIN next) \X (DOMAIN heard)
             den == next[1].p.den * mass
             num(c) == next[c[1]].p.num * weights[heard[c[2]]] * 1000
  <1>1. IsFiniteSet(DOMAIN weights) /\ (\A s \in DOMAIN weights : weights[s] \in Nat) /\ SumFunction(weights) \in Nat
    BY StatesAre
  <1>2. /\ \A i \in DOMAIN next : next[i] \in ForecastAt(1) /\ i \in Nat /\ i >= 1
        /\ IsFiniteSet(DOMAIN next)
        /\ ForecastAt(1) = {} => DOMAIN next = {}
        /\ ForecastAt(1) # {} => 1 \in DOMAIN next /\ \A f \in ForecastAt(1) : ~Likelier(f, next[1])
    BY NextActionsAre
  <1>3. /\ \A i \in DOMAIN heard : heard[i] \in DOMAIN weights /\ i \in Nat /\ i >= 1
        /\ IsFiniteSet(DOMAIN heard)
        /\ DOMAIN weights = {} => DOMAIN heard = {}
        /\ DOMAIN weights # {} => 1 \in DOMAIN heard /\ \A s \in DOMAIN weights : weights[s] <= weights[heard[1]]
    BY <1>1, HeardStatesAre
  <1>4. mass \in Nat \ {0}
    <2>1. {1, SumFunction(weights)} = {SumFunction(weights), 1}
      OBVIOUS
    <2>2. QED BY <1>1, <2>1, AtLeastOne
  <1>5. DOMAIN joint = J /\ \A c \in J : joint[c] = Rounded(num(c), next[c[1]].p.den * mass)
    BY DEF Joint
  <1>6. \A f \in ForecastAt(1) : f.p.num \in Nat /\ f.p.den \in Nat \ {0} /\ \A g \in ForecastAt(1) : g.p.den = f.p.den
    BY ForecastIs DEF ForecastAt
  <1>7. IsFiniteSet(J)
    BY <1>2, <1>3, FS_Product
  <1>8. \A c \in J : c[1] \in DOMAIN next /\ c[2] \in DOMAIN heard /\ c = <<c[1], c[2]>>
    OBVIOUS
  <1>9. DOMAIN next # {} /\ DOMAIN heard # {} => <<1, 1>> \in J
    BY <1>2, <1>3
  <1>10. J # {} => DOMAIN next # {} /\ DOMAIN heard # {}
    OBVIOUS
  <1> HIDE DEF J, mass
  <1>11. \A c \in J : /\ next[c[1]] \in ForecastAt(1) /\ heard[c[2]] \in DOMAIN weights
                      /\ c[1] \in Nat /\ c[2] \in Nat /\ c[1] >= 1 /\ c[2] >= 1
    BY <1>2, <1>3, <1>8
  <1>12. \A c \in J : num(c) \in Nat /\ next[c[1]].p.den * mass \in Nat \ {0}
    <2> TAKE c \in J
    <2>1. next[c[1]].p.num \in Nat /\ next[c[1]].p.den \in Nat \ {0} /\ weights[heard[c[2]]] \in Nat
      BY <1>1, <1>6, <1>11
    <2>2. next[c[1]].p.num * weights[heard[c[2]]] \in Nat
      BY <2>1
    <2>3. QED BY <1>4, <2>1, <2>2, TimesIsPositive
  <1> HIDE DEF num
  <1>13. \A c \in J : joint[c] \in Nat
    BY <1>5, <1>12, RoundedIs
  <1>14. MaxPergen \in Nat \ {0}
    BY PredictorAssumption
  <1>15. /\ J = {} => DOMAIN drafts = {}
         /\ J # {} =>
              /\ 1 \in DOMAIN drafts /\ drafts[1] \in J
              /\ \A c \in J :
                    /\ joint[c] <= joint[drafts[1]]
                    /\ joint[c] = joint[drafts[1]] => 3 * drafts[1][1] + drafts[1][2] <= 3 * c[1] + c[2]
    <2>1. IsFiniteSet(DOMAIN joint)
      BY <1>5, <1>7
    <2>2. \A c \in DOMAIN joint : joint[c] \in Nat /\ c[1] \in Nat /\ c[2] \in Nat /\ c[1] >= 1 /\ c[2] >= 1
      BY <1>5, <1>11, <1>13
    <2>3. /\ DOMAIN joint = {} => DOMAIN drafts = {}
          /\ DOMAIN joint # {} =>
                /\ 1 \in DOMAIN drafts /\ drafts[1] \in DOMAIN joint
                /\ \A c \in DOMAIN joint :
                      /\ joint[c] <= joint[drafts[1]]
                      /\ joint[c] = joint[drafts[1]] => 3 * drafts[1][1] + drafts[1][2] <= 3 * c[1] + c[2]
      BY <1>14, <2>1, <2>2, PairsAre
    <2>4. QED BY <1>5, <2>3
  <1>16. J # {} /\ DOMAIN next # {} /\ DOMAIN heard # {} /\ <<1, 1>> \in J
    BY <1>9, <1>10, <1>15
  <1>17. ForecastAt(1) # {} /\ DOMAIN weights # {}
    BY <1>2, <1>3, <1>16
  <1>18. PICK e \in J : e = drafts[1]
    BY <1>15, <1>16
  <1>19. PICK b \in J : b = <<1, 1>>
    BY <1>16
  <1>20. joint[e] <= joint[b]
    <2>1. b[1] = 1 /\ b[2] = 1
      BY <1>19
    <2>2. /\ next[1] \in ForecastAt(1) /\ next[e[1]] \in ForecastAt(1) /\ ~Likelier(next[e[1]], next[1])
          /\ heard[e[2]] \in DOMAIN weights /\ heard[1] \in DOMAIN weights /\ weights[heard[e[2]]] <= weights[heard[1]]
      BY <1>2, <1>3, <1>11, <1>16, <1>17
    <2>3. /\ next[1].p.num \in Nat /\ next[e[1]].p.num \in Nat /\ next[1].p.den \in Nat \ {0} /\ next[e[1]].p.den = next[1].p.den
          /\ weights[heard[e[2]]] \in Nat /\ weights[heard[1]] \in Nat
      BY <1>1, <1>6, <2>2
    <2>4. next[e[1]].p.num <= next[1].p.num
      BY <2>2, <2>3, LessByNumerator DEF Likelier
    <2>5. next[e[1]].p.num * weights[heard[e[2]]] <= next[1].p.num * weights[heard[1]]
      BY <2>2, <2>3, <2>4, TimesIsMonotoneInBoth
    <2>6. next[e[1]].p.num * weights[heard[e[2]]] \in Nat /\ next[1].p.num * weights[heard[1]] \in Nat
      BY <2>3
    <2>7. num(e) <= num(b)
      BY <2>1, <2>5, <2>6 DEF num
    <2>8. next[e[1]].p.den * mass = den /\ next[b[1]].p.den * mass = den
      BY <2>1, <2>3
    <2> HIDE DEF den
    <2>9. joint[e] = Rounded(num(e), den) /\ joint[b] = Rounded(num(b), den)
      BY <1>5, <2>8
    <2>10. num(e) \in Nat /\ num(b) \in Nat /\ den \in Nat \ {0}
      BY <1>12, <2>8
    <2>11. QED BY <2>7, <2>9, <2>10, RoundedIsMonotone
  <1>21. e[1] = 1 /\ e[2] = 1
    <2>1. joint[b] <= joint[e] /\ (joint[b] = joint[e] => 3 * e[1] + e[2] <= 3 * b[1] + b[2])
      BY <1>15, <1>16, <1>18
    <2>2. joint[b] \in Nat /\ joint[e] \in Nat
      BY <1>13
    <2>3. 3 * e[1] + e[2] <= 3 * b[1] + b[2]
      BY <1>20, <2>1, <2>2
    <2>4. b[1] = 1 /\ b[2] = 1
      BY <1>19
    <2>5. e[1] \in Nat /\ e[2] \in Nat /\ e[1] >= 1 /\ e[2] >= 1
      BY <1>11
    <2>6. QED BY <2>3, <2>4, <2>5
  <1>22. e = <<1, 1>>
    BY <1>8, <1>21
  <1>23. QED BY <1>2, <1>3, <1>15, <1>16, <1>17, <1>18, <1>22

LEMMA DraftedFollows ==
    ASSUME TracesOk, WorkerOk
    PROVE  LikeliestIsDrafted
  <1>1. PICK weights : weights = NextStates
    OBVIOUS
  <1>2. PICK next, heard : next = NextActions /\ heard = HeardStates(weights)
    OBVIOUS
  <1>3. PICK joint : joint = Joint(next, heard, weights)
    OBVIOUS
  <1>4. PICK drafts : drafts = Foremost(Pairs(joint), MaxPergen)
    OBVIOUS
  <1>5. PICK drafted : drafted = [n \in DOMAIN drafts |-> [action |-> next[drafts[n][1]].action, state |-> heard[drafts[n][2]]]]
    OBVIOUS
  <1>6. Drafted = drafted
    BY <1>1, <1>2, <1>3, <1>4, <1>5 DEF Drafted
  <1>7. ASSUME drafted # <<>>
        PROVE  /\ \A f \in forecast : f.offset = 1 =>
                     \E n \in DOMAIN drafted : \E g \in forecast :
                         g.offset = 1 /\ g.action = drafted[n].action /\ g.p.num * f.p.den >= f.p.num * g.p.den
               /\ \A s \in DOMAIN weights : \E n \in DOMAIN drafted : weights[drafted[n].state] >= weights[s]
    <2>1. DOMAIN drafts # {}
      <3> SUFFICES ASSUME DOMAIN drafts = {} PROVE FALSE
        OBVIOUS
      <3>1. drafted = [n \in {} |-> [action |-> next[drafts[n][1]].action, state |-> heard[drafts[n][2]]]]
        BY <1>5
      <3>2. drafted = <<>>
        BY <3>1
      <3>3. QED BY <1>7, <3>2
    <2>2. /\ 1 \in DOMAIN drafts /\ drafts[1] = <<1, 1>>
          /\ next[1] \in ForecastAt(1) /\ \A f \in ForecastAt(1) : ~Likelier(f, next[1])
          /\ \A s \in DOMAIN weights : weights[s] <= weights[heard[1]]
      BY <1>1, <1>2, <1>3, <1>4, <2>1, FirstPair
    <2>3. 1 \in DOMAIN drafted /\ drafted[1].action = next[1].action /\ drafted[1].state = heard[1]
      BY <1>5, <2>2
    <2>4. ASSUME NEW f \in forecast, f.offset = 1
          PROVE  \E n \in DOMAIN drafted : \E g \in forecast :
                    g.offset = 1 /\ g.action = drafted[n].action /\ g.p.num * f.p.den >= f.p.num * g.p.den
      <3>1. next[1] \in forecast /\ next[1].offset = 1 /\ f \in ForecastAt(1)
        BY <2>2, <2>4 DEF ForecastAt
      <3>2. PICK g \in forecast : g = next[1]
        BY <3>1
      <3>3. ~(f.p.num * g.p.den > g.p.num * f.p.den)
        BY <2>2, <3>1, <3>2 DEF Likelier
      <3>4. f.p.num \in Nat /\ f.p.den \in Nat /\ g.p.num \in Nat /\ g.p.den \in Nat
        BY ForecastIs
      <3>5. g.p.num * f.p.den >= f.p.num * g.p.den
        <4>1. f.p.num * g.p.den \in Nat /\ g.p.num * f.p.den \in Nat
          BY <3>4
        <4>2. QED BY <3>3, <4>1
      <3>6. QED BY <2>3, <3>1, <3>2, <3>5
    <2>5. ASSUME NEW s \in DOMAIN weights PROVE \E n \in DOMAIN drafted : weights[drafted[n].state] >= weights[s]
      <3>1. weights[s] <= weights[drafted[1].state]
        BY <2>2, <2>3
      <3>2. QED BY <2>3, <3>1
    <2>6. QED BY <2>4, <2>5
  <1>8. QED BY <1>1, <1>6, <1>7 DEF LikeliestIsDrafted

(***************************************************************************)
(* Whatever is cut, claimed or rounded, the likeliest turn is prepared:    *)
(* the plan fetches for it, and a reply is drafted for it.                 *)
(***************************************************************************)
THEOREM LikeliestHolds == PredictorSpec => []LikeliestComesFirst
  <1> DEFINE Inv == TracesOk /\ WorkerOk
  <1>1. PredictorInit => Inv
    BY TracesInit, WorkerInit
  <1>2. Inv /\ [PredictorNext]_predictorVars => Inv'
    BY TracesStep, WorkerStep
  <1>3. Inv => LikeliestComesFirst
    BY FetchedFollows, DraftedFollows DEF LikeliestComesFirst
  <1>4. QED BY <1>1, <1>2, <1>3, PTL DEF PredictorSpec

-----------------------------------------------------------------------------
(***************************************************************************)
(* The parts together.  Each takes its own steps, and those of the others  *)
(* leave its variables alone; so whatever holds of a part holds of the     *)
(* workbench the runs check.                                               *)
(***************************************************************************)

LEMMA StepsAreOfOnePart ==
    [WorkbenchNext]_all =>
        /\ [PredictorNext]_predictorVars /\ [SelectionNext]_selectionVars /\ [BuilderNext]_builderVars
        /\ [ConnectorsNext]_connectorVars /\ [CorporaNext]_corporaVars /\ [MetricsNext]_metricsVars
        /\ [SchemasNext]_schemaVars
  BY DEF WorkbenchNext, all, Predicts, Selects, Builds, Connects, Collects, Measures, Declares

\* Every behaviour of the workbench is one of each of its parts.
THEOREM WorkbenchComposes ==
    WorkbenchSpec =>
        /\ PredictorSpec /\ SelectionSpec /\ BuilderSpec /\ ConnectorsSpec /\ CorporaSpec /\ MetricsSpec /\ SchemasSpec
  <1>1. WorkbenchInit =>
            /\ PredictorInit /\ SelectionInit /\ BuilderInit /\ ConnectorsInit /\ CorporaInit /\ MetricsInit /\ SchemasInit
    BY DEF WorkbenchInit
  <1>2. QED
    BY <1>1, StepsAreOfOnePart, PTL DEF WorkbenchSpec, PredictorSpec, SelectionSpec, BuilderSpec, ConnectorsSpec,
       CorporaSpec, MetricsSpec, SchemasSpec

\* So what is proved of them is proved of what is model-checked: every invariant of the workbench's run.
THEOREM WorkbenchHolds ==
    WorkbenchSpec =>
        /\ []ForecastsAreSound /\ []LikeliestComesFirst /\ []PicksAreBest /\ []TurnsAreServedAsPlanned
        /\ []LintIsSound /\ []ConnectorsAreFaithful /\ []CorporaAreFaithful /\ []FiguresAddUp /\ []SchemasAreFair
        /\ PatchesChangeWhatTheyName
  BY WorkbenchComposes, ForecastsHold, LikeliestHolds, PicksHold, TurnsServed, LintHolds, ConnectorsHold, CorporaHold,
     FiguresHold, SchemasHold, PatchesKeepTheRest, PTL
=============================================================================
