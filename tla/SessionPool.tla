---------------------------- MODULE SessionPool ----------------------------
(***************************************************************************)
(* The session pool (pool.py): one Redis hash of one session, written by   *)
(* many workers with no lock.  An insert is HSET, EXPIRE, then a prune:    *)
(* HGETALL, HDEL of the expired items, HDEL of the items over the cap.     *)
(* Redis runs one command at a time, and every action here is one command: *)
(* between two of them other workers insert, prune and clear.              *)
(***************************************************************************)
EXTENDS Integers, FiniteSets

CONSTANTS
    Items,       \* the items somebody inserts; an item is inserted once
    Confidence,  \* the confidence of each item
    MaxItems     \* pool_max_items

ASSUME ConfidenceAssumption == Confidence \in [Items -> Nat]
ASSUME MaxItemsAssumption   == MaxItems \in Nat \ {0}
ASSUME ItemsAssumption      == IsFiniteSet(Items)

VARIABLES
    store,     \* the fields of the hash; the key exists when there is one
    ttl,       \* the key has a time to live
    expired,   \* the items whose expires_at has passed
    pc,        \* where the insert of each item is
    stale,     \* the expired items each prune found
    victims,   \* the items each prune chose to evict
    added      \* history: the items inserted since the key was last deleted whole

vars == <<store, ttl, expired, pc, stale, victims, added>>

(***************************************************************************)
(* new      not inserted                                                   *)
(* stored   after HSET           timed    after EXPIRE                     *)
(* pruning  expired items to delete                                        *)
(* evicting items over the cap to delete                                   *)
(* done     insert has returned                                            *)
(* lost     failed between HSET and EXPIRE                                 *)
(* failed   failed later                                                   *)
(***************************************************************************)
Stages == {"new", "stored", "timed", "pruning", "evicting", "done", "lost", "failed"}

\* get_pool: what readers see.
Live == store \ expired

Init ==
    /\ store = {} /\ ttl = FALSE /\ expired = {} /\ added = {}
    /\ pc = [i \in Items |-> "new"]
    /\ stale = [i \in Items |-> {}]
    /\ victims = [i \in Items |-> {}]

\* HDEL: a hash without fields is deleted, and its time to live with it.
Delete(S) ==
    /\ store' = store \ S
    /\ ttl' = (ttl /\ store \ S # {})

-----------------------------------------------------------------------------
\* HSET leaves the time to live of the key as it is: a new key has none.
Hset(i) ==
    /\ pc[i] = "new"
    /\ pc' = [pc EXCEPT ![i] = "stored"]
    /\ store' = store \cup {i}
    /\ added' = added \cup {i}
    /\ UNCHANGED <<ttl, expired, stale, victims>>

\* Mutant of ExpireKey: only the insert that creates the key sets its time to live.
ExpireKeyOfFirst(i) ==
    /\ pc[i] = "stored"
    /\ pc' = [pc EXCEPT ![i] = "timed"]
    /\ ttl' = (ttl \/ store = {i})
    /\ UNCHANGED <<store, expired, stale, victims, added>>

\* EXPIRE does nothing to a key that does not exist.
ExpireKey(i) ==
    /\ pc[i] = "stored"
    /\ pc' = [pc EXCEPT ![i] = "timed"]
    /\ ttl' = (store # {})
    /\ UNCHANGED <<store, expired, stale, victims, added>>

\* Mutant of Over: the cap is one item late.
OverLate(live, V) ==
    IF Cardinality(live) <= MaxItems + 1 THEN V = {}
    ELSE /\ Cardinality(live \ V) = MaxItems
         /\ \A v \in V, k \in live \ V : Confidence[v] <= Confidence[k]

\* Mutant of Over: the sort is ascending.
OverAscending(live, V) ==
    IF Cardinality(live) <= MaxItems THEN V = {}
    ELSE /\ Cardinality(live \ V) = MaxItems
         /\ \A v \in V, k \in live \ V : Confidence[v] >= Confidence[k]

(***************************************************************************)
(* items[max_items:] of the live items by falling confidence.  The sort is *)
(* stable, but over HGETALL's order, which is no order.                    *)
(***************************************************************************)
Over(live, V) ==
    IF Cardinality(live) <= MaxItems THEN V = {}
    ELSE /\ Cardinality(live \ V) = MaxItems
         /\ \A v \in V, k \in live \ V : Confidence[v] <= Confidence[k]

\* HGETALL: the prune decides on what it sees now.
Snapshot(i) ==
    /\ pc[i] = "timed"
    /\ \E V \in SUBSET Live :
          /\ Over(Live, V)
          /\ victims' = [victims EXCEPT ![i] = V]
          /\ pc' = [pc EXCEPT ![i] = IF store \cap expired # {} THEN "pruning"
                                     ELSE IF V # {} THEN "evicting" ELSE "done"]
    /\ stale' = [stale EXCEPT ![i] = store \cap expired]
    /\ UNCHANGED <<store, ttl, expired, added>>

\* HDEL of the expired items.
DropStale(i) ==
    /\ pc[i] = "pruning"
    /\ pc' = [pc EXCEPT ![i] = IF victims[i] # {} THEN "evicting" ELSE "done"]
    /\ Delete(stale[i])
    /\ stale' = [stale EXCEPT ![i] = {}]
    /\ UNCHANGED <<expired, victims, added>>

\* HDEL of the items over the cap; insert returns.
Evict(i) ==
    /\ pc[i] = "evicting"
    /\ pc' = [pc EXCEPT ![i] = "done"]
    /\ Delete(victims[i])
    /\ victims' = [victims EXCEPT ![i] = {}]
    /\ UNCHANGED <<expired, stale, added>>

\* The worker dies, or the next command raises: insert goes no further.
Fail(i) ==
    /\ pc[i] \in {"stored", "timed", "pruning", "evicting"}
    /\ pc' = [pc EXCEPT ![i] = IF pc[i] = "stored" THEN "lost" ELSE "failed"]
    /\ stale' = [stale EXCEPT ![i] = {}]
    /\ victims' = [victims EXCEPT ![i] = {}]
    /\ UNCHANGED <<store, ttl, expired, added>>

-----------------------------------------------------------------------------
\* clear(): finalize_session deletes the key, inserts under way or not.
Clear ==
    /\ store # {}
    /\ store' = {} /\ ttl' = FALSE /\ added' = {}
    /\ UNCHANGED <<expired, pc, stale, victims>>

\* session_ttl_s have passed since the last EXPIRE.
KeyExpires == ttl /\ Clear

ItemExpires(i) ==
    /\ pc[i] # "new" /\ i \notin expired
    /\ expired' = expired \cup {i}
    /\ UNCHANGED <<store, ttl, pc, stale, victims, added>>

Next ==
    \/ \E i \in Items :
          \/ Hset(i) \/ ExpireKey(i) \/ Snapshot(i) \/ DropStale(i) \/ Evict(i)
          \/ Fail(i) \/ ItemExpires(i)
    \/ Clear \/ KeyExpires

Spec == Init /\ [][Next]_vars

-----------------------------------------------------------------------------
\* The types, and that a prune forgets what it found once it is over.
TypeOK ==
    /\ store \subseteq Items /\ expired \subseteq Items /\ added \subseteq Items
    /\ ttl \in BOOLEAN
    /\ pc \in [Items -> Stages]
    /\ stale \in [Items -> SUBSET Items]
    /\ victims \in [Items -> SUBSET Items]
    /\ \A i \in Items :
          /\ stale[i] # {} <=> pc[i] = "pruning"
          /\ victims[i] # {} => pc[i] \in {"pruning", "evicting"}

Unpruned == {i \in Items : pc[i] \in {"stored", "timed", "pruning", "evicting",
                                      "lost", "failed"}}

(***************************************************************************)
(* The cap: readers never see more items over it than there are inserts    *)
(* that have not finished their prune, or never will.  So once every       *)
(* insert has returned there are at most MaxItems, however the prunes      *)
(* interleaved.                                                            *)
(***************************************************************************)
CapHolds == Cardinality(Live) <= MaxItems + Cardinality(Unpruned)

(***************************************************************************)
(* "lowest-confidence evicted first", with prunes that race: an item gone  *)
(* before its time has MaxItems others, inserted since the pool was last   *)
(* emptied, of at least its confidence.                                    *)
(***************************************************************************)
BestKept ==
    \A i \in added \ (store \cup expired) :
        Cardinality({j \in added \ {i} : Confidence[j] >= Confidence[i]}) >= MaxItems

(***************************************************************************)
(* "The hash key expires session_ttl_s after the last write": a pool       *)
(* without a time to live holds only items whose insert is between its     *)
(* first two commands, or stopped there.                                   *)
(***************************************************************************)
ImmortalOnlyBetween ==
    ~ttl => \A i \in store : pc[i] \in {"stored", "lost"}
=============================================================================
