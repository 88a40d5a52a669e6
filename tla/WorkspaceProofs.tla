--------------------------- MODULE WorkspaceProofs ---------------------------
(***************************************************************************)
(* Proofs about Workspace, for any slugs, clients, calls, titles and       *)
(* bounds: tenants and the keys of console logins, one session per call,   *)
(* and the copilot's conversation and memory.                              *)
(*                                                                         *)
(* The bound on login keys is not inductive: logins that overlap delete    *)
(* only what each has seen. LoginsAreBounded counts, for every set of      *)
(* logins about to commit, the keys that none of them will delete.         *)
(***************************************************************************)
EXTENDS Workspace, FiniteSetTheorems, SequenceTheorems, TLAPS

USE SlugsAssumption, ClientsAssumption, TenancyBounds

-----------------------------------------------------------------------------
(***************************************************************************)
(* The requests: what each kind of them has read.                          *)
(***************************************************************************)
Fields == {"kind", "stage", "slug", "tenant", "key", "doomed", "arg"}
Creating == {"create", "import"}
Minting == {"create", "login", "issue"}
Held == {"create", "import", "delete", "login", "issue"}
Tenanted == {"delete", "login", "write", "test", "guide"} \cup CopilotKinds

RequestFits(q) ==
    /\ DOMAIN q = Fields
    /\ q.stage \in Stages /\ q.tenant \in 0 .. minted.tenants
    /\ q.stage = "closed" <=> q.kind = None
    /\ q.kind \in Tenanted => q.tenant # 0
    /\ q.kind \in Creating => q.slug \in Slugs
    /\ q.kind \in {"delete", "login"} => q.stage \in {"sweep", "commit"}
    /\ q.kind = "write" => q.arg \in {"projects", "sessions"}
    /\ q.kind = "guide" => q.arg \in Calls /\ q.stage \in {"open", "converse"}
    /\ q.stage \in {"think", "save"} => q.kind \in CopilotKinds
RequestsFit == DOMAIN req = Clients /\ \A r \in Clients : RequestFits(req[r])

\* The requests under way leave room for what they will create.
RoomIsLeft ==
    /\ minted.tenants + Cardinality(Waiting(Creating)) <= MaxTenants
    /\ minted.keys + Cardinality(Waiting(Minting)) <= MaxKeys

(***************************************************************************)
(* A deletion that has swept has noted every row of a listed table, or     *)
(* the tenant is one a row came late for.                                  *)
(***************************************************************************)
SweepsAreNoted ==
    \A o \in Clients : Is(o, "delete", "commit") =>
        \A x \in rows : x.tenant = req[o].tenant /\ x.table \in Listed => x \in req[o].doomed \/ x.tenant \in late

(***************************************************************************)
(* Logins: one that is alone has seen every key it will leave behind, and  *)
(* of the keys that some of those about to commit have not seen there is   *)
(* room for one of each of these.                                          *)
(***************************************************************************)
AloneMeansAlone ==
    \A r \in Clients : req[r].kind = "login" =>
        /\ req[r].arg = "alone" => Beside(r, req[r].tenant) = {}
        /\ req[r].arg # "alone" => req[r].tenant \in crowded
        /\ req[r].arg = "alone" /\ req[r].stage = "commit" => Stale(req[r].tenant) \subseteq req[r].doomed

Committing(t) == {o \in Clients : Is(o, "login", "commit") /\ req[o].tenant = t}
Unseen(t, S) == {k \in Stale(t) : \A o \in S : k \notin req[o].doomed}
LoginsAreBounded ==
    \A t \in Ids : \A S \in SUBSET Committing(t) : Cardinality(Unseen(t, S)) + Cardinality(S) <= Cardinality(Clients)
LoginsSettle == \A t \in Ids : t \notin crowded => Cardinality(Stale(t)) <= 1
LoginsFit == AloneMeansAlone /\ LoginsAreBounded /\ LoginsSettle

TestFits ==
    /\ DOMAIN test = {"tenant", "status", "done"} /\ DOMAIN task = {"stage", "key", "ran", "open"}
    /\ task.stage # "none" => test.tenant \in 1 .. minted.tenants

(***************************************************************************)
(* A call that is not excused has at most one request, and the map has the *)
(* one session that was opened for it, if one was.                         *)
(***************************************************************************)
BridgeFits ==
    /\ scope \in 0 .. minted.tenants /\ DOMAIN session = Calls /\ DOMAIN opened = Calls
    /\ \A c \in Calls \ excused :
          /\ opened[c] \in {0, 1} /\ session[c] = opened[c]
          /\ \A r, o \in Same(c) : r = o
          /\ \A r \in Same(c) : /\ req[r].stage = "open" => opened[c] = 0
                                /\ req[r].stage = "converse" => req[r].key = session[c]

(***************************************************************************)
(* A save that found no fact of its title will make none twice, unless the *)
(* title was looked up beside it.                                          *)
(***************************************************************************)
Messages == [role : {"user", "assistant"}, by : Clients]
SavesFit ==
    /\ \A r, o \in Clients : At(r, "save") /\ At(o, "save") /\ req[r].arg = req[o].arg /\ req[r].arg # None =>
          r = o \/ req[r].arg \in looked
    /\ \A r \in Clients : At(r, "save") /\ req[r].arg # None /\ req[r].doomed = {} =>
          req[r].arg \in looked \/ About(req[r].tenant, req[r].arg) = {}
CopilotFits == messages \in [Ids -> Seq(Messages)] /\ MemoryIsSound /\ SavesFit

SlugsFit ==
    /\ slugOf \in [Ids -> Slugs \cup {None}]
    /\ \A t \in Ids : t > minted.tenants => slugOf[t] = None
    /\ \A s, t \in Ids : slugOf[s] = slugOf[t] /\ slugOf[s] # None => s = t
KeysFit ==
    /\ minted \in [tenants : Ids, keys : 1 .. MaxKeys] /\ keys \subseteq KeyRecords
    /\ \A x \in keys : Exists(x.tenant) /\ x.id <= minted.keys
    /\ \A x, y \in keys : x.id = y.id => x = y
TablesFit == SlugsFit /\ KeysFit /\ rows \subseteq [tenant : Ids, table : Tables]

\* The invariant of the tenants, and that of the whole.
TenancyInv ==
    /\ TablesFit /\ RequestsFit /\ RoomIsLeft
    /\ DeletedLeaveNothing /\ SweepsAreNoted /\ LoginsFit
WorkspaceInv == TenancyInv /\ TestFits /\ BridgeFits /\ CopilotFits

-----------------------------------------------------------------------------
LEMMA Bounds ==
    /\ MaxTenants \in Nat /\ MaxKeys \in Nat /\ MaxRequests \in Nat /\ MaxCrashes \in Nat
    /\ MaxTenants >= 1 /\ MaxKeys >= 1 /\ 1 \in Ids
  BY DEF Ids

LEMMA Minted ==
    ASSUME TablesFit
    PROVE  /\ minted.tenants \in Nat /\ minted.tenants \in Ids /\ minted.tenants <= MaxTenants /\ minted.tenants >= 1
           /\ minted.keys \in Nat /\ minted.keys \in 1 .. MaxKeys
           /\ minted = [tenants |-> minted.tenants, keys |-> minted.keys]
  BY Bounds DEF TablesFit, SlugsFit, KeysFit, Ids

LEMMA KeyType ==
    ASSUME TablesFit, NEW x \in keys
    PROVE  /\ x.id \in Nat /\ x.id <= minted.keys /\ x.tenant \in Ids /\ Exists(x.tenant)
           /\ x.tenant \in 1 .. minted.tenants
           /\ x = [id |-> x.id, tenant |-> x.tenant, label |-> x.label, live |-> x.live]
  <1>1. x \in KeyRecords /\ Exists(x.tenant) /\ x.id <= minted.keys
    BY DEF TablesFit, SlugsFit, KeysFit
  <1>2. x.id \in Nat /\ x.tenant \in Ids
    BY <1>1, Bounds DEF KeyRecords, Ids
  <1>3. x = [id |-> x.id, tenant |-> x.tenant, label |-> x.label, live |-> x.live]
    BY <1>1 DEF KeyRecords
  <1>4. x.tenant \in 1 .. minted.tenants
    BY <1>1, <1>2, Bounds, Minted DEF TablesFit, SlugsFit, KeysFit, Exists, Ids
  <1>5. QED BY <1>1, <1>2, <1>3, <1>4

LEMMA ClosedFits ==
    /\ Closed.kind = None /\ Closed.stage = "closed" /\ Closed.tenant = 0 /\ Closed.arg = None
    /\ DOMAIN Closed = Fields
    /\ None \notin Held \cup Tenanted \cup Creating \cup Minting \cup CopilotKinds \cup AdminKinds
  BY DEF Closed, Fields, Held, Tenanted, Creating, Minting, CopilotKinds, AdminKinds, None

\* A request that fits still does when there are more tenants.
LEMMA StillFits ==
    ASSUME TablesFit, minted'.tenants \in Nat, minted'.tenants >= minted.tenants, NEW q, RequestFits(q)
    PROVE  RequestFits(q)'
  <1>1. q.tenant \in 0 .. minted'.tenants
    BY Minted DEF RequestFits
  <1>2. QED BY <1>1 DEF RequestFits

LEMMA ClosedFitsNext ==
    ASSUME minted'.tenants \in Nat
    PROVE  RequestFits(Closed)'
  <1>1. "closed" \in Stages
    BY DEF Stages
  <1>2. None # "write" /\ None # "guide" /\ None \notin {"delete", "login"}
    BY DEF None
  <1>3. QED BY <1>1, <1>2, ClosedFits DEF RequestFits

LEMMA SetRequest ==
    ASSUME TablesFit, RequestsFit, minted'.tenants \in Nat, minted'.tenants >= minted.tenants,
           NEW r \in Clients, NEW q, RequestFits(q)', req' = [req EXCEPT ![r] = q]
    PROVE  RequestsFit' /\ \A o \in Clients : req'[o] = IF o = r THEN q ELSE req[o]
  <1>1. DOMAIN req' = Clients /\ \A o \in Clients : req'[o] = IF o = r THEN q ELSE req[o]
    BY DEF RequestsFit
  <1>2. ASSUME NEW o \in Clients PROVE RequestFits(req[o])'
    <2>1. PICK x : x = req'[o]
      OBVIOUS
    <2>2. RequestFits(x)'
      <3>1. CASE o = r
        BY <1>1, <2>1, <3>1
      <3>2. CASE o # r
        <4>1. RequestFits(x)
          BY <1>1, <2>1, <3>2 DEF RequestsFit
        <4>2. QED BY <4>1, StillFits
      <3>3. QED BY <3>1, <3>2
    <2>3. QED BY <2>1, <2>2 DEF RequestFits
  <1>3. QED BY <1>1, <1>2 DEF RequestsFit

LEMMA CloseRequest ==
    ASSUME TablesFit, RequestsFit, minted'.tenants \in Nat, minted'.tenants >= minted.tenants,
           NEW r \in Clients, Close(r)
    PROVE  RequestsFit' /\ \A o \in Clients : req'[o] = IF o = r THEN Closed ELSE req[o]
  BY SetRequest, ClosedFitsNext DEF Close

-----------------------------------------------------------------------------
(***************************************************************************)
(* What most steps have in common: of the requests only some kinds change, *)
(* and rows are only added where they are allowed.                         *)
(***************************************************************************)
Kept(kinds) == \A o \in Clients : req'[o] = req[o] \/ req'[o].kind \notin kinds
NoNewSave == \A o \in Clients : req'[o] = req[o] \/ req'[o].stage # "save"
Light == Kept(Held) /\ Kept({"guide"}) /\ NoNewSave

Allowed(x) ==
    /\ x \in [tenant : Ids, table : Tables]
    /\ x.table \in Owned => slugOf'[x.tenant] # None
    /\ x.table \in Listed /\ Gone(x.tenant) => x.tenant \in late'
Written == late \subseteq late' /\ \A x \in rows' : x \in rows \/ Allowed(x)

LEMMA ClosedIsLight ==
    Closed.kind \notin Held /\ Closed.kind \notin {"guide"} /\ Closed.stage # "save"
  BY ClosedFits DEF Held, None

LEMMA ClosingIsLight ==
    ASSUME TablesFit, RequestsFit, minted'.tenants \in Nat, minted'.tenants >= minted.tenants,
           NEW r \in Clients, Close(r)
    PROVE  RequestsFit' /\ Light
  BY CloseRequest, ClosedIsLight DEF Light, Kept, NoNewSave

LEMMA WaitingIsFinite ==
    ASSUME NEW K
    PROVE  IsFiniteSet(Waiting(K)) /\ Cardinality(Waiting(K)) \in Nat
  <1>1. Waiting(K) \in SUBSET Clients
    BY DEF Waiting
  <1>2. QED BY <1>1, FS_Subset, FS_CardinalityType

\* Fewer wait when only other kinds change, and one less when one of them is closed.
LEMMA FewerWait ==
    ASSUME NEW K, Kept(K)
    PROVE  /\ Waiting(K)' \subseteq Waiting(K)
           /\ Cardinality(Waiting(K)') \in Nat /\ Cardinality(Waiting(K)') <= Cardinality(Waiting(K))
           /\ \A r \in Clients : req[r].kind \in K /\ Close(r) /\ DOMAIN req = Clients /\ None \notin K =>
                 Cardinality(Waiting(K)') <= Cardinality(Waiting(K)) - 1
  <1>1. Waiting(K)' \in SUBSET Waiting(K)
    BY DEF Waiting, Kept
  <1>2. Cardinality(Waiting(K)') \in Nat /\ Cardinality(Waiting(K)') <= Cardinality(Waiting(K))
    BY <1>1, WaitingIsFinite, FS_Subset, FS_CardinalityType
  <1>3. ASSUME NEW r \in Clients, req[r].kind \in K, Close(r), DOMAIN req = Clients, None \notin K
        PROVE  Cardinality(Waiting(K)') <= Cardinality(Waiting(K)) - 1
    <2>1. req'[r].kind = None
      BY <1>3, ClosedFits DEF Close
    <2>2. r \in Waiting(K) /\ r \notin Waiting(K)'
      BY <1>3, <2>1 DEF Waiting
    <2>3. Waiting(K)' \in SUBSET (Waiting(K) \ {r})
      BY <1>1, <2>2
    <2>4. IsFiniteSet(Waiting(K) \ {r}) /\ Cardinality(Waiting(K) \ {r}) = Cardinality(Waiting(K)) - 1
      BY <2>2, WaitingIsFinite, FS_RemoveElement
    <2>5. QED BY <2>3, <2>4, FS_Subset
  <1>4. QED BY <1>1, <1>2, <1>3

LEMMA Fewer ==
    ASSUME NEW K, NEW L \in SUBSET K, Kept(K)
    PROVE  Kept(L)
  BY DEF Kept

LEMMA HeldKinds == Creating \in SUBSET Held /\ Minting \in SUBSET Held /\ None \notin Held
  BY DEF Creating, Minting, Held, None

LEMMA RoomStays ==
    ASSUME TablesFit, RoomIsLeft, minted' = minted, Kept(Held)
    PROVE  RoomIsLeft'
  <1>1. Kept(Creating) /\ Kept(Minting)
    BY HeldKinds, Fewer
  <1>2. /\ Cardinality(Waiting(Creating)') \in Nat /\ Cardinality(Waiting(Creating)') <= Cardinality(Waiting(Creating))
        /\ Cardinality(Waiting(Minting)') \in Nat /\ Cardinality(Waiting(Minting)') <= Cardinality(Waiting(Minting))
    BY <1>1, FewerWait
  <1>3. Cardinality(Waiting(Creating)) \in Nat /\ Cardinality(Waiting(Minting)) \in Nat
    BY WaitingIsFinite
  <1>4. Cardinality(Waiting(Creating))' = Cardinality(Waiting(Creating)') /\ Cardinality(Waiting(Minting))' = Cardinality(Waiting(Minting)')
    OBVIOUS
  <1>5. QED BY <1>2, <1>3, <1>4, Minted, Bounds DEF RoomIsLeft

\* Where rows are only added as they may be, deletions stay complete.
LEMMA RowsStay ==
    ASSUME TablesFit, DeletedLeaveNothing, SweepsAreNoted, Written,
           \A t \in Ids : Exists(t) => Exists(t)',
           \A o \in Clients : req'[o] = req[o] \/ req'[o].kind # "delete" \/ req'[o].stage # "commit"
    PROVE  rows' \subseteq [tenant : Ids, table : Tables] /\ DeletedLeaveNothing' /\ SweepsAreNoted'
  <1>1. rows' \subseteq [tenant : Ids, table : Tables]
    BY DEF Written, Allowed, TablesFit, SlugsFit, KeysFit
  <1>2. ASSUME NEW x \in rows', ~Exists(x.tenant)'
        PROVE  x.table \in Unlisted \/ (x.table \in Listed /\ x.tenant \in late')
    <2>1. x.tenant \in Ids /\ x.table \in Tables
      BY <1>1
    <2>2. ~Exists(x.tenant)
      BY <1>2, <2>1
    <2>3. Gone(x.tenant)
      BY <2>2 DEF Gone
    <2>4. CASE x \in rows
      BY <2>2, <2>4 DEF DeletedLeaveNothing, Written
    <2>5. CASE Allowed(x)
      BY <1>2, <2>1, <2>3, <2>5 DEF Allowed, Exists, Tables
    <2>6. QED BY <2>4, <2>5 DEF Written
  <1>3. ASSUME NEW o \in Clients, Is(o, "delete", "commit")', NEW x \in rows',
               x.tenant = req'[o].tenant, x.table \in Listed
        PROVE  x \in req'[o].doomed \/ x.tenant \in late'
    <2>1. req'[o] = req[o] /\ Is(o, "delete", "commit")
      BY <1>3 DEF Is
    <2>2. CASE x \in rows
      BY <1>3, <2>1, <2>2 DEF SweepsAreNoted, Written
    <2>3. CASE Allowed(x)
      <3>1. Gone(x.tenant)
        BY <1>3, <2>1 DEF Gone
      <3>2. QED BY <1>3, <2>3, <3>1 DEF Allowed
    <2>4. QED BY <2>2, <2>3 DEF Written
  <1>4. QED BY <1>1, <1>2, <1>3 DEF DeletedLeaveNothing, SweepsAreNoted

LEMMA InsertIsWritten ==
    ASSUME NEW t \in Ids, NEW table \in Tables, slugOf' = slugOf, Insert(t, table)
    PROVE  Written
  <1>1. Row(t, table) \in [tenant : Ids, table : Tables] /\ Row(t, table).tenant = t /\ Row(t, table).table = table
    BY DEF Row
  <1>2. late \subseteq late' /\ (table \in Listed /\ Gone(t) => t \in late')
    BY DEF Insert
  <1>3. ASSUME NEW x \in rows', x \notin rows PROVE Allowed(x)
    <2>1. x = Row(t, table) /\ ~(table \in Owned /\ ~Exists(t))
      BY <1>3 DEF Insert
    <2>2. table \in Owned => slugOf'[t] # None
      BY <2>1 DEF Exists
    <2>3. QED BY <1>1, <1>2, <2>1, <2>2 DEF Allowed
  <1>4. QED BY <1>2, <1>3 DEF Written

LEMMA CopilotRowIsWritten ==
    ASSUME NEW t \in Ids, late' = late, rows' = rows \cup {Row(t, "copilot")}
    PROVE  Written
  <1>1. "copilot" \in Tables /\ "copilot" \notin Owned /\ "copilot" \notin Listed
    BY DEF Tables, Owned, Listed, Unlisted
  <1>2. Row(t, "copilot") \in [tenant : Ids, table : Tables] /\ Row(t, "copilot").table = "copilot"
    BY <1>1 DEF Row
  <1>3. QED BY <1>1, <1>2 DEF Written, Allowed

LEMMA SameRowsAreWritten ==
    ASSUME late' = late, rows' \subseteq rows
    PROVE  Written
  BY DEF Written

-----------------------------------------------------------------------------
(***************************************************************************)
(* Logins.                                                                 *)
(***************************************************************************)
LEMMA StaleIsFinite ==
    ASSUME TablesFit, NEW t
    PROVE  /\ IsFiniteSet(Stale(t)) /\ Stale(t) \in SUBSET (1 .. minted.keys)
           /\ Cardinality(Stale(t)) \in Nat
  <1>1. ASSUME NEW x \in keys PROVE x.id \in 1 .. minted.keys
    BY <1>1, KeyType, Minted, Bounds DEF TablesFit, SlugsFit, KeysFit, KeyRecords
  <1>2. Stale(t) \in SUBSET (1 .. minted.keys)
    BY <1>1 DEF Stale, Logins
  <1>3. IsFiniteSet(1 .. minted.keys)
    <2>1. 1 \in Int /\ minted.keys \in Int
      BY Minted
    <2>2. QED BY <2>1, FS_Interval
  <1>4. QED BY <1>2, <1>3, FS_Subset, FS_CardinalityType

LEMMA CommittingIsFinite ==
    ASSUME NEW t, NEW S \in SUBSET Committing(t)
    PROVE  IsFiniteSet(S) /\ S \in SUBSET Clients /\ Cardinality(S) \in Nat
           /\ Cardinality(Clients) \in Nat /\ Cardinality(S) <= Cardinality(Clients)
  <1>1. S \in SUBSET Clients
    BY DEF Committing
  <1>2. QED BY <1>1, FS_Subset, FS_CardinalityType

\* Steps that neither make nor turn a login, and make no key of one, leave them as they are.
LEMMA LoginsStay ==
    ASSUME TablesFit, LoginsFit, Kept({"login"}), \A t \in Ids : Stale(t)' \subseteq Stale(t), crowded' = crowded,
           \A r \in Clients : req[r].kind = "login" => req[r].tenant \in Ids
    PROVE  LoginsFit'
  <1>1. AloneMeansAlone'
    <2> SUFFICES ASSUME NEW r \in Clients, req'[r].kind = "login"
                 PROVE  /\ req'[r].arg = "alone" => Beside(r, req[r].tenant)' = {}
                        /\ req'[r].arg # "alone" => req'[r].tenant \in crowded'
                        /\ req'[r].arg = "alone" /\ req'[r].stage = "commit" => Stale(req[r].tenant)' \subseteq req'[r].doomed
                        /\ req'[r] = req[r]
      BY DEF AloneMeansAlone, Beside, Stale, Logins
    <2>1. req'[r] = req[r] /\ req[r].tenant \in Ids
      BY DEF Kept
    <2>2. Beside(r, req[r].tenant)' \subseteq Beside(r, req[r].tenant)
      BY <2>1 DEF Beside, Kept
    <2>3. QED BY <2>1, <2>2 DEF LoginsFit, AloneMeansAlone
  <1>2. LoginsAreBounded'
    <2> SUFFICES ASSUME NEW t \in Ids, NEW S \in SUBSET Committing(t)'
                 PROVE  Cardinality(Unseen(t, S)') + Cardinality(S) <= Cardinality(Clients)
      BY DEF LoginsAreBounded
    <2>1. S \in SUBSET Committing(t) /\ \A o \in S : req'[o] = req[o]
      BY DEF Committing, Is, Kept
    <2>2. Unseen(t, S)' \in SUBSET Unseen(t, S)
      BY <2>1 DEF Unseen
    <2>3. IsFiniteSet(Unseen(t, S))
      <3>1. Unseen(t, S) \in SUBSET Stale(t)
        BY DEF Unseen
      <3>2. QED BY <3>1, StaleIsFinite, FS_Subset
    <2>4. Cardinality(Unseen(t, S)') <= Cardinality(Unseen(t, S)) /\ Cardinality(Unseen(t, S)') \in Nat
          /\ Cardinality(Unseen(t, S)) \in Nat
      BY <2>2, <2>3, FS_Subset, FS_CardinalityType
    <2>5. Cardinality(Unseen(t, S)) + Cardinality(S) <= Cardinality(Clients)
      BY <2>1 DEF LoginsFit, LoginsAreBounded
    <2>6. Cardinality(S) \in Nat /\ Cardinality(Clients) \in Nat
      BY <2>1, CommittingIsFinite
    <2>7. QED BY <2>4, <2>5, <2>6
  <1>3. LoginsSettle'
    <2> SUFFICES ASSUME NEW t \in Ids, t \notin crowded
                 PROVE  Cardinality(Stale(t)') <= 1
      BY DEF LoginsSettle, Stale, Logins
    <2>1. Cardinality(Stale(t)) <= 1 /\ Cardinality(Stale(t)) \in Nat /\ IsFiniteSet(Stale(t))
      BY StaleIsFinite DEF LoginsFit, LoginsSettle
    <2>2. Cardinality(Stale(t)') <= Cardinality(Stale(t)) /\ Cardinality(Stale(t)') \in Nat
      BY <2>1, FS_Subset, FS_CardinalityType
    <2>3. QED BY <2>1, <2>2
  <1>4. QED BY <1>1, <1>2, <1>3 DEF LoginsFit

\* As many keys of console logins as they have ids.
LEMMA LoginsAreTheirIds ==
    ASSUME TablesFit, NEW t
    PROVE  Cardinality(Logins(t)) = Cardinality(Stale(t)) /\ IsFiniteSet(Logins(t))
  <1> DEFINE f == [x \in Logins(t) |-> x.id]
  <1>1. f \in Surjection(Logins(t), Stale(t))
    BY DEF Surjection, Stale
  <1>2. \A x, y \in Logins(t) : f[x] = f[y] => x = y
    BY DEF Logins, TablesFit, SlugsFit, KeysFit
  <1>3. f \in Injection(Logins(t), Stale(t))
    BY <1>1, <1>2 DEF Injection, IsInjective, Surjection
  <1>4. QED BY <1>1, <1>3, StaleIsFinite, FS_Injection

LEMMA LoginsDoNot ==
    ASSUME TablesFit, LoginsFit
    PROVE  LoginsDoNotAccumulate
  <1> SUFFICES ASSUME NEW t \in Ids
               PROVE  /\ Cardinality(Stale(t)) <= Cardinality(Clients)
                      /\ t \notin crowded => Cardinality(Stale(t)) <= 1
    BY LoginsAreTheirIds DEF LoginsDoNotAccumulate
  <1>1. Cardinality(Unseen(t, {})) + Cardinality({}) <= Cardinality(Clients)
    BY DEF LoginsFit, LoginsAreBounded
  <1>2. Unseen(t, {}) = Stale(t) /\ Cardinality({}) = 0
    BY FS_EmptySet DEF Unseen
  <1>3. QED BY <1>1, <1>2, StaleIsFinite DEF LoginsFit, LoginsSettle

-----------------------------------------------------------------------------
(***************************************************************************)
(* The test, the bridge and the copilot when a step leaves them alone.     *)
(***************************************************************************)
LEMMA TestStays ==
    ASSUME TablesFit, TestFits, testVars' = testVars, minted'.tenants \in Nat, minted'.tenants >= minted.tenants
    PROVE  TestFits'
  <1>1. test' = test /\ task' = task
    BY DEF testVars
  <1>2. 1 .. minted.tenants \subseteq 1 .. minted'.tenants
    BY Minted
  <1>3. QED BY <1>1, <1>2 DEF TestFits

LEMMA BridgeStays ==
    ASSUME TablesFit, BridgeFits, bridgeVars' = bridgeVars, Kept({"guide"}),
           minted'.tenants \in Nat, minted'.tenants >= minted.tenants
    PROVE  BridgeFits'
  <1>1. scope' = scope /\ session' = session /\ opened' = opened /\ excused' = excused
    BY DEF bridgeVars
  <1>2. scope' \in 0 .. minted'.tenants
    BY <1>1, Minted DEF BridgeFits
  <1>3. \A c : \A r \in Same(c)' : r \in Same(c) /\ req'[r] = req[r]
    BY DEF Same, Kept
  <1>4. QED BY <1>1, <1>2, <1>3 DEF BridgeFits

LEMMA CopilotStays ==
    ASSUME CopilotFits, copilotVars' = copilotVars, NoNewSave
    PROVE  CopilotFits'
  <1>1. messages' = messages /\ memory' = memory /\ looked' = looked
    BY DEF copilotVars
  <1>2. \A r \in Clients : At(r, "save")' => req'[r] = req[r] /\ At(r, "save")
    BY DEF At, NoNewSave
  <1>3. SavesFit'
    BY <1>1, <1>2 DEF CopilotFits, SavesFit, About, At
  <1>4. QED BY <1>1, <1>3 DEF CopilotFits, MemoryIsSound, AnswersFollowQuestions, TitlesAreUnique

\* The tenant a request works for.
LEMMA TenantOfRequest ==
    ASSUME TablesFit, RequestsFit, NEW r \in Clients
    PROVE  /\ req[r].tenant \in 0 .. minted.tenants /\ req[r].tenant \in Nat
           /\ req[r].kind \in Tenanted => req[r].tenant \in Ids /\ req[r].tenant \in 1 .. minted.tenants
  <1>1. req[r].tenant \in 0 .. minted.tenants /\ (req[r].kind \in Tenanted => req[r].tenant # 0)
    BY DEF RequestsFit, RequestFits
  <1>2. QED BY <1>1, Minted, Bounds DEF Ids

LEMMA LoginsHaveTenants ==
    ASSUME TablesFit, RequestsFit
    PROVE  \A r \in Clients : req[r].kind = "login" => req[r].tenant \in Ids
  BY TenantOfRequest DEF Tenanted

\* A light step that leaves the tables of tenants and keys alone.
LEMMA TablesStay ==
    ASSUME TablesFit, UNCHANGED <<slugOf, minted, keys>>, rows' \subseteq [tenant : Ids, table : Tables]
    PROVE  TablesFit'
  BY DEF TablesFit, SlugsFit, KeysFit, Exists

LEMMA LightStep ==
    ASSUME TenancyInv, UNCHANGED <<slugOf, minted, keys, crowded>>, Written, RequestsFit', Kept(Held)
    PROVE  TenancyInv'
  <1>1. TablesFit /\ RequestsFit /\ RoomIsLeft /\ DeletedLeaveNothing /\ SweepsAreNoted /\ LoginsFit
    BY DEF TenancyInv
  <1>2. rows' \subseteq [tenant : Ids, table : Tables] /\ DeletedLeaveNothing' /\ SweepsAreNoted'
    <2>1. \A o \in Clients : req'[o] = req[o] \/ req'[o].kind # "delete" \/ req'[o].stage # "commit"
      BY DEF Kept, Held
    <2>2. \A t \in Ids : Exists(t) => Exists(t)'
      BY DEF Exists
    <2>3. QED BY <1>1, <2>1, <2>2, RowsStay
  <1>3. TablesFit'
    BY <1>1, <1>2, TablesStay
  <1>4. RoomIsLeft'
    BY <1>1, RoomStays
  <1>5. LoginsFit'
    <2>1. Kept({"login"})
      BY Fewer DEF Held
    <2>2. \A t \in Ids : Stale(t)' \subseteq Stale(t)
      BY DEF Stale, Logins
    <2>3. \A r \in Clients : req[r].kind = "login" => req[r].tenant \in Ids
      BY <1>1, LoginsHaveTenants
    <2>4. QED BY <1>1, <2>1, <2>2, <2>3, LoginsStay
  <1>6. QED BY <1>2, <1>3, <1>4, <1>5 DEF TenancyInv

-----------------------------------------------------------------------------
(***************************************************************************)
(* The operator's requests: what a commit does to tenants and keys.        *)
(***************************************************************************)
Apart == Kept({"guide"}) /\ NoNewSave /\ minted'.tenants \in Nat /\ minted'.tenants >= minted.tenants

\* A commit may create what its request has kept room for.
LEMMA Paid ==
    ASSUME TablesFit, RequestsFit, RoomIsLeft, NEW r \in Clients, Close(r),
           NEW m \in {minted.tenants, minted.tenants + 1}, NEW n \in {minted.keys, minted.keys + 1},
           m # minted.tenants => req[r].kind \in Creating, n # minted.keys => req[r].kind \in Minting,
           minted' = [tenants |-> m, keys |-> n]
    PROVE  /\ RoomIsLeft' /\ minted' \in [tenants : Ids, keys : 1 .. MaxKeys]
           /\ minted'.tenants = m /\ minted'.keys = n
           /\ m \in Ids /\ n \in 1 .. MaxKeys /\ m >= minted.tenants /\ n >= minted.keys
  <1>1. minted'.tenants = m /\ minted'.keys = n
    OBVIOUS
  <1>2. minted'.tenants \in Nat /\ minted'.tenants >= minted.tenants
    BY <1>1, Minted
  <1>3. Kept(Creating) /\ Kept(Minting) /\ DOMAIN req = Clients /\ None \notin Creating /\ None \notin Minting
    BY <1>2, ClosingIsLight, HeldKinds, Fewer DEF Light, RequestsFit
  <1>4. /\ Cardinality(Waiting(Creating)') \in Nat /\ Cardinality(Waiting(Creating)') <= Cardinality(Waiting(Creating))
        /\ Cardinality(Waiting(Minting)') \in Nat /\ Cardinality(Waiting(Minting)') <= Cardinality(Waiting(Minting))
    BY <1>3, FewerWait
  <1>5. /\ m # minted.tenants => Cardinality(Waiting(Creating)') <= Cardinality(Waiting(Creating)) - 1
        /\ n # minted.keys => Cardinality(Waiting(Minting)') <= Cardinality(Waiting(Minting)) - 1
    BY <1>3, FewerWait
  <1>6. Cardinality(Waiting(Creating)) \in Nat /\ Cardinality(Waiting(Minting)) \in Nat
    BY WaitingIsFinite
  <1>7. /\ m + Cardinality(Waiting(Creating)') <= MaxTenants
        /\ n + Cardinality(Waiting(Minting)') <= MaxKeys
    BY <1>4, <1>5, <1>6, Minted DEF RoomIsLeft
  <1>8. m \in Ids /\ n \in 1 .. MaxKeys /\ m >= minted.tenants /\ n >= minted.keys
    BY <1>4, <1>7, Minted, Bounds DEF Ids
  <1>9. RoomIsLeft'
    BY <1>1, <1>7 DEF RoomIsLeft
  <1>10. QED BY <1>1, <1>8, <1>9

LEMMA TenantAdded ==
    ASSUME TablesFit, NEW slug \in Slugs, TenantOf(slug) = {}, NEW n \in Ids, n = minted.tenants + 1,
           slugOf' = [slugOf EXCEPT ![n] = slug], minted'.tenants = n
    PROVE  SlugsFit' /\ Exists(n)' /\ ~Exists(n) /\ \A t \in Ids : Exists(t) => Exists(t)'
  <1>1. n > minted.tenants /\ slugOf[n] = None /\ n \in Nat /\ \A t \in Ids : t \in Nat
    BY Minted, Bounds DEF TablesFit, SlugsFit, Ids
  <1>2. \A t \in Ids : slugOf'[t] = IF t = n THEN slug ELSE slugOf[t]
    BY DEF TablesFit, SlugsFit
  <1>3. slug # None /\ \A t \in Ids : slugOf[t] # slug
    BY DEF TenantOf
  <1>4. slugOf' \in [Ids -> Slugs \cup {None}]
    BY DEF TablesFit, SlugsFit
  <1>5. \A t \in Ids : t > minted'.tenants => slugOf'[t] = None
    <2> SUFFICES ASSUME NEW t \in Ids, t > n PROVE slugOf'[t] = None
      OBVIOUS
    <2>1. t # n /\ t > minted.tenants
      BY <1>1, Minted
    <2>2. QED BY <1>2, <2>1 DEF TablesFit, SlugsFit
  <1>6. \A s, t \in Ids : slugOf'[s] = slugOf'[t] /\ slugOf'[s] # None => s = t
    BY <1>2, <1>3 DEF TablesFit, SlugsFit
  <1>7. QED BY <1>1, <1>2, <1>3, <1>4, <1>5, <1>6 DEF SlugsFit, Exists

LEMMA KeyAdded ==
    ASSUME TablesFit, NEW t \in Ids, NEW label \in {"bootstrap", "console-login", "issued"}, NEW K \in SUBSET keys,
           minted' \in [tenants : Ids, keys : 1 .. MaxKeys], minted'.keys = minted.keys + 1,
           keys' = K \cup {NewKey(t, label)}, Exists(t)', \A s \in Ids : Exists(s) => Exists(s)'
    PROVE  KeysFit'
  <1>1. minted.keys + 1 \in 1 .. MaxKeys /\ minted.keys \in Nat
    BY Minted
  <1>2. /\ NewKey(t, label) \in KeyRecords /\ NewKey(t, label).id = minted.keys + 1 /\ NewKey(t, label).tenant = t
    BY <1>1 DEF NewKey, KeyRecords
  <1>3. \A x \in keys : x \in KeyRecords /\ x.id \in Nat /\ x.id <= minted.keys /\ x.tenant \in Ids /\ Exists(x.tenant)
    BY KeyType DEF TablesFit, KeysFit
  <1>4. \A x \in keys : x.id < minted.keys + 1
    BY <1>1, <1>3
  <1>5. keys' \subseteq KeyRecords
    BY <1>2, <1>3
  <1>6. \A x \in keys' : Exists(x.tenant)' /\ x.id <= minted'.keys
    BY <1>1, <1>2, <1>3, <1>4
  <1>7. \A x, y \in keys' : x.id = y.id => x = y
    BY <1>1, <1>2, <1>3, <1>4 DEF TablesFit, KeysFit
  <1>8. QED BY <1>5, <1>6, <1>7 DEF KeysFit, Exists

\* What a commit leaves of the invariant when it makes no key of a login.
LEMMA CloseStep ==
    ASSUME TenancyInv, NEW r \in Clients, Close(r), minted'.tenants \in Nat, minted'.tenants >= minted.tenants,
           SlugsFit', KeysFit', RoomIsLeft', Written, \A t \in Ids : Exists(t) => Exists(t)',
           \A t \in Ids : Stale(t)' \subseteq Stale(t), crowded' = crowded
    PROVE  TenancyInv' /\ Apart
  <1>1. TablesFit /\ RequestsFit /\ DeletedLeaveNothing /\ SweepsAreNoted /\ LoginsFit
    BY DEF TenancyInv
  <1>2. RequestsFit' /\ Light
    BY <1>1, ClosingIsLight
  <1>3. rows' \subseteq [tenant : Ids, table : Tables] /\ DeletedLeaveNothing' /\ SweepsAreNoted'
    <2>1. \A o \in Clients : req'[o] = req[o] \/ req'[o].kind # "delete" \/ req'[o].stage # "commit"
      BY <1>2 DEF Light, Kept, Held
    <2>2. QED BY <1>1, <2>1, RowsStay
  <1>4. LoginsFit'
    <2>1. Kept({"login"})
      BY <1>2, Fewer DEF Held, Light
    <2>2. QED BY <1>1, <2>1, LoginsHaveTenants, LoginsStay
  <1>5. QED BY <1>2, <1>3, <1>4 DEF TenancyInv, TablesFit, Light, Apart

LEMMA ProjectIsWritten ==
    ASSUME NEW t \in Ids, Exists(t)', late' = late, rows' = rows \cup {Row(t, "projects")}
    PROVE  Written
  <1>1. "projects" \in Tables /\ "projects" \in Owned /\ "projects" \notin Listed
    BY DEF Tables, Owned, Listed, Unlisted
  <1>2. Row(t, "projects") \in [tenant : Ids, table : Tables] /\ Row(t, "projects").table = "projects" /\ Row(t, "projects").tenant = t
    BY <1>1 DEF Row
  <1>3. QED BY <1>1, <1>2 DEF Written, Allowed, Exists

LEMMA NoLoginAdded ==
    ASSUME NEW t, NEW label, label # "console-login", keys' \subseteq keys \cup {NewKey(t, label)}
    PROVE  \A s \in Ids : Stale(s)' \subseteq Stale(s)
  <1>1. NewKey(t, label).label = label
    BY DEF NewKey
  <1>2. QED BY <1>1 DEF Stale, Logins

LEMMA SameTables ==
    ASSUME TablesFit, RoomIsLeft, RequestsFit, UNCHANGED <<slugOf, minted>>, NEW r \in Clients, Close(r)
    PROVE  SlugsFit' /\ RoomIsLeft' /\ minted'.tenants \in Nat /\ minted'.tenants >= minted.tenants
           /\ (\A t \in Ids : Exists(t) => Exists(t)') /\ (keys' = keys => KeysFit')
           /\ \A s \in Ids : keys' = keys => Stale(s)' \subseteq Stale(s)
  <1>1. minted'.tenants \in Nat /\ minted'.tenants >= minted.tenants
    BY Minted
  <1>2. RoomIsLeft'
    BY <1>1, ClosingIsLight, RoomStays DEF Light
  <1>3. SlugsFit' /\ (keys' = keys => KeysFit')
    BY DEF TablesFit, SlugsFit, KeysFit, Exists
  <1>4. \A t \in Ids : Exists(t) => Exists(t)'
    BY DEF Exists
  <1>5. \A s \in Ids : keys' = keys => Stale(s)' \subseteq Stale(s)
    BY DEF Stale, Logins
  <1>6. QED BY <1>1, <1>2, <1>3, <1>4, <1>5

LEMMA CreateStep ==
    ASSUME TenancyInv, NEW r \in Clients, CommitCreate(r)
    PROVE  TenancyInv' /\ Apart
  <1>1. TablesFit /\ RequestsFit /\ RoomIsLeft
    BY DEF TenancyInv
  <1>2. Is(r, "create", "commit") /\ Close(r) /\ crowded' = crowded /\ late' = late
    BY DEF CommitCreate, Rest, History
  <1>3. req[r].slug \in Slugs /\ req[r].kind = "create"
    BY <1>1, <1>2 DEF RequestsFit, RequestFits, Is, Creating
  <1>4. CASE TenantOf(req[r].slug) = {}
    <2> DEFINE n == minted.tenants + 1
    <2>1. /\ slugOf' = [slugOf EXCEPT ![n] = req[r].slug]
          /\ minted' = [tenants |-> n, keys |-> minted.keys + 1]
          /\ keys' = keys \cup {NewKey(n, "bootstrap")} /\ rows' = rows \cup {Row(n, "projects")}
      BY <1>4 DEF CommitCreate
    <2>2. PICK m : m = n
      OBVIOUS
    <2> HIDE DEF n
    <2>3. m \in {minted.tenants, minted.tenants + 1} /\ minted.keys + 1 \in {minted.keys, minted.keys + 1}
      BY <2>2 DEF n
    <2>4. req[r].kind \in Creating /\ req[r].kind \in Minting
      BY <1>3 DEF Creating, Minting
    <2>5. /\ RoomIsLeft' /\ minted' \in [tenants : Ids, keys : 1 .. MaxKeys] /\ minted'.tenants = m
          /\ minted'.keys = minted.keys + 1 /\ m \in Ids /\ m >= minted.tenants
      BY <1>1, <1>2, <2>1, <2>2, <2>3, <2>4, Paid
    <2>6. SlugsFit' /\ Exists(m)' /\ \A t \in Ids : Exists(t) => Exists(t)'
      BY <1>1, <1>3, <1>4, <2>1, <2>2, <2>5, TenantAdded DEF n
    <2>7. KeysFit'
      BY <1>1, <2>1, <2>2, <2>5, <2>6, KeyAdded
    <2>8. Written
      BY <1>2, <2>1, <2>2, <2>5, <2>6, ProjectIsWritten
    <2>9. \A t \in Ids : Stale(t)' \subseteq Stale(t)
      BY <2>1, NoLoginAdded
    <2>10. minted'.tenants \in Nat /\ minted'.tenants >= minted.tenants
      BY <2>5, Bounds DEF Ids
    <2>11. QED BY <1>2, <2>5, <2>6, <2>7, <2>8, <2>9, <2>10, CloseStep
  <1>5. CASE TenantOf(req[r].slug) # {}
    <2>1. UNCHANGED <<slugOf, minted, keys, rows>>
      BY <1>5 DEF CommitCreate
    <2>2. Written
      BY <1>2, <2>1, SameRowsAreWritten
    <2>3. QED BY <1>1, <1>2, <2>1, <2>2, SameTables, CloseStep
  <1>6. QED BY <1>4, <1>5

LEMMA ImportStep ==
    ASSUME TenancyInv, NEW r \in Clients, CommitImport(r)
    PROVE  TenancyInv' /\ Apart
  <1>1. TablesFit /\ RequestsFit /\ RoomIsLeft
    BY DEF TenancyInv
  <1>2. Is(r, "import", "commit") /\ Close(r) /\ crowded' = crowded /\ late' = late /\ keys' = keys
    BY DEF CommitImport, Rest, History
  <1>3. req[r].slug \in Slugs /\ req[r].kind = "import"
    BY <1>1, <1>2 DEF RequestsFit, RequestFits, Is, Creating
  <1>4. CASE req[r].tenant = 0 /\ TenantOf(req[r].slug) = {}
    <2> DEFINE n == minted.tenants + 1
    <2>1. /\ slugOf' = [slugOf EXCEPT ![n] = req[r].slug]
          /\ minted' = [minted EXCEPT !.tenants = n] /\ rows' = rows \cup {Row(n, "projects")}
      <3>1. ~Exists(req[r].tenant)
        BY <1>4, Bounds DEF Exists, Ids
      <3>2. QED BY <1>4, <3>1 DEF CommitImport
    <2>2. PICK m : m = n
      OBVIOUS
    <2>3. minted' = [tenants |-> m, keys |-> minted.keys]
      BY <1>1, <2>1, <2>2, Minted
    <2> HIDE DEF n
    <2>4. m \in {minted.tenants, minted.tenants + 1} /\ minted.keys \in {minted.keys, minted.keys + 1}
      BY <2>2 DEF n
    <2>5. req[r].kind \in Creating
      BY <1>3 DEF Creating
    <2>6. /\ RoomIsLeft' /\ minted' \in [tenants : Ids, keys : 1 .. MaxKeys] /\ minted'.tenants = m
          /\ minted'.keys = minted.keys /\ m \in Ids /\ m >= minted.tenants
      BY <1>1, <1>2, <2>3, <2>4, <2>5, Paid
    <2>7. SlugsFit' /\ Exists(m)' /\ \A t \in Ids : Exists(t) => Exists(t)'
      BY <1>1, <1>3, <1>4, <2>1, <2>2, <2>6, TenantAdded DEF n
    <2>8. KeysFit'
      <3>1. \A x \in keys : Exists(x.tenant)'
        BY <1>1, <2>7, KeyType
      <3>2. QED BY <1>1, <1>2, <2>6, <3>1 DEF TablesFit, KeysFit
    <2>9. Written
      BY <1>2, <2>1, <2>2, <2>6, <2>7, ProjectIsWritten
    <2>10. \A t \in Ids : Stale(t)' \subseteq Stale(t)
      BY <1>2 DEF Stale, Logins
    <2>11. minted'.tenants \in Nat /\ minted'.tenants >= minted.tenants
      BY <2>6, Bounds DEF Ids
    <2>12. QED BY <1>2, <2>6, <2>7, <2>8, <2>9, <2>10, <2>11, CloseStep
  <1>5. CASE ~(req[r].tenant = 0 /\ TenantOf(req[r].slug) = {})
    <2>1. UNCHANGED <<slugOf, minted>> /\ (rows' = rows \/ (Exists(req[r].tenant) /\ rows' = rows \cup {Row(req[r].tenant, "projects")}))
      BY <1>5 DEF CommitImport
    <2>2. Written
      <3>1. CASE rows' = rows
        BY <1>2, <3>1, SameRowsAreWritten
      <3>2. CASE Exists(req[r].tenant) /\ rows' = rows \cup {Row(req[r].tenant, "projects")}
        BY <1>2, <2>1, <3>2, ProjectIsWritten DEF Exists
      <3>3. QED BY <2>1, <3>1, <3>2
    <2>3. QED BY <1>1, <1>2, <2>1, <2>2, SameTables, CloseStep
  <1>6. QED BY <1>4, <1>5

LEMMA IssueStep ==
    ASSUME TenancyInv, NEW r \in Clients, CommitIssue(r)
    PROVE  TenancyInv' /\ Apart
  <1>1. TablesFit /\ RequestsFit /\ RoomIsLeft
    BY DEF TenancyInv
  <1>2. Is(r, "issue", "commit") /\ Close(r) /\ crowded' = crowded /\ late' = late /\ UNCHANGED <<slugOf, rows>>
    BY DEF CommitIssue, Rest, History
  <1>3. Written
    BY <1>2, SameRowsAreWritten
  <1>4. CASE Exists(req[r].tenant)
    <2>1. /\ keys' = keys \cup {NewKey(req[r].tenant, "issued")}
          /\ minted' = [tenants |-> minted.tenants, keys |-> minted.keys + 1]
      BY <1>1, <1>4, Minted DEF CommitIssue
    <2>2. req[r].kind \in Minting
      BY <1>2 DEF Minting, Is
    <2>3. minted.tenants \in {minted.tenants, minted.tenants + 1} /\ minted.keys + 1 \in {minted.keys, minted.keys + 1}
      OBVIOUS
    <2>4. /\ RoomIsLeft' /\ minted' \in [tenants : Ids, keys : 1 .. MaxKeys]
          /\ minted'.tenants = minted.tenants /\ minted'.keys = minted.keys + 1
      BY <1>1, <1>2, <2>1, <2>2, <2>3, Paid
    <2>5. (\A t \in Ids : Exists(t) => Exists(t)') /\ req[r].tenant \in Ids
      BY <1>2, <1>4 DEF Exists
    <2>6. KeysFit'
      <3>1. PICK t \in Ids : t = req[r].tenant
        BY <2>5
      <3>2. Exists(t)'
        BY <1>4, <2>5, <3>1
      <3>3. keys' = keys \cup {NewKey(t, "issued")}
        BY <2>1, <3>1
      <3>4. QED BY <1>1, <2>4, <2>5, <3>2, <3>3, KeyAdded
    <2>7. SlugsFit'
      BY <1>1, <1>2, <2>4 DEF TablesFit, SlugsFit
    <2>8. \A t \in Ids : Stale(t)' \subseteq Stale(t)
      BY <2>1, NoLoginAdded
    <2>9. minted'.tenants \in Nat /\ minted'.tenants >= minted.tenants
      BY <1>1, <2>4, Minted
    <2>10. QED BY <1>2, <1>3, <2>4, <2>5, <2>6, <2>7, <2>8, <2>9, CloseStep
  <1>5. CASE ~Exists(req[r].tenant)
    <2>1. UNCHANGED <<slugOf, minted, keys>>
      BY <1>2, <1>5 DEF CommitIssue
    <2>2. QED BY <1>1, <1>2, <1>3, <2>1, SameTables, CloseStep
  <1>6. QED BY <1>4, <1>5

LEMMA RevokeStep ==
    ASSUME TenancyInv, NEW r \in Clients, CommitRevoke(r)
    PROVE  TenancyInv' /\ Apart
  <1>1. TablesFit /\ RequestsFit /\ RoomIsLeft
    BY DEF TenancyInv
  <1>2. Close(r) /\ crowded' = crowded /\ late' = late /\ UNCHANGED <<slugOf, minted, rows>>
        /\ keys' = {IF x.id = req[r].key THEN [x EXCEPT !.live = FALSE] ELSE x : x \in keys}
    BY DEF CommitRevoke, Rest, History
  <1>3. Written
    BY <1>2, SameRowsAreWritten
  <1> DEFINE g(x) == IF x.id = req[r].key THEN [x EXCEPT !.live = FALSE] ELSE x
  <1>4. \A x \in KeyRecords : g(x) \in KeyRecords /\ g(x).id = x.id /\ g(x).tenant = x.tenant /\ g(x).label = x.label
    <2>1. \A x \in KeyRecords : LET y == [x EXCEPT !.live = FALSE] IN
             y \in KeyRecords /\ y.id = x.id /\ y.tenant = x.tenant /\ y.label = x.label
      BY DEF KeyRecords
    <2>2. QED BY <2>1
  <1>5. \A y \in keys' : \E x \in keys : y = g(x)
    BY <1>2
  <1> HIDE DEF g
  <1>6. \A y \in keys' : y \in KeyRecords /\ \E x \in keys : y.id = x.id /\ y.tenant = x.tenant /\ y.label = x.label
    BY <1>1, <1>4, <1>5 DEF TablesFit, KeysFit
  <1>7. KeysFit'
    <2>1. ASSUME NEW x \in keys', NEW y \in keys', x.id = y.id PROVE x = y
      <3>1. PICK v \in keys : x = g(v)
        BY <1>5
      <3>2. PICK w \in keys : y = g(w)
        BY <1>5
      <3>3. v.id = w.id
        BY <1>1, <1>4, <2>1, <3>1, <3>2 DEF TablesFit, KeysFit
      <3>4. QED BY <1>1, <3>1, <3>2, <3>3 DEF TablesFit, KeysFit
    <2>2. \A x \in keys' : Exists(x.tenant)' /\ x.id <= minted'.keys
      BY <1>1, <1>2, <1>6 DEF TablesFit, KeysFit, Exists
    <2>3. QED BY <1>1, <1>2, <1>6, <2>1, <2>2 DEF TablesFit, KeysFit
  <1>8. \A t \in Ids : Stale(t)' \subseteq Stale(t)
    BY <1>6 DEF Stale, Logins
  <1>9. QED BY <1>1, <1>2, <1>3, <1>7, <1>8, SameTables, CloseStep

LEMMA FailStep ==
    ASSUME TenancyInv, NEW r \in Clients, Close(r), UNCHANGED <<slugOf, minted, keys, rows, late, crowded>>
    PROVE  TenancyInv' /\ Apart
  BY SameTables, SameRowsAreWritten, CloseStep DEF TenancyInv

\* A request closed with a row it has written.
LEMMA WriteStep ==
    ASSUME TenancyInv, NEW r \in Clients, Close(r), UNCHANGED <<slugOf, minted, keys, crowded>>, Written
    PROVE  TenancyInv' /\ Apart
  BY SameTables, CloseStep DEF TenancyInv

\* A request set to something of a kind that holds nothing.
LEMMA SetStep ==
    ASSUME TenancyInv, NEW r \in Clients, NEW q, RequestFits(q), q.kind \notin Held, req' = [req EXCEPT ![r] = q],
           UNCHANGED <<slugOf, minted, keys, crowded>>, Written
    PROVE  /\ TenancyInv' /\ minted'.tenants \in Nat /\ minted'.tenants >= minted.tenants
           /\ \A o \in Clients : req'[o] = IF o = r THEN q ELSE req[o]
  <1>1. TablesFit /\ RequestsFit
    BY DEF TenancyInv
  <1>2. minted'.tenants \in Nat /\ minted'.tenants >= minted.tenants
    BY <1>1, Minted
  <1>3. RequestFits(q)'
    BY <1>1, <1>2, StillFits
  <1>4. RequestsFit' /\ \A o \in Clients : req'[o] = IF o = r THEN q ELSE req[o]
    BY <1>1, <1>2, <1>3, SetRequest
  <1>5. Kept(Held)
    BY <1>4 DEF Kept
  <1>6. QED BY <1>2, <1>4, <1>5, LightStep

LEMMA ResolveStep ==
    ASSUME TenancyInv, NEW r \in Clients, NEW kind \in {"write", "test"} \cup CopilotKinds, NEW k, NEW stage, NEW arg,
           Resolve(r, kind, k, stage, arg), stage \in {"commit", "open", "think"},
           kind = "write" => arg \in {"projects", "sessions"}, stage = "think" => kind \in CopilotKinds
    PROVE  TenancyInv' /\ Apart
  <1>1. PICK x \in keys : req' = [req EXCEPT ![r] = [Closed EXCEPT !.kind = kind, !.tenant = x.tenant, !.key = k,
                                                      !.stage = stage, !.arg = arg]]
    BY DEF Resolve
  <1> DEFINE q == [Closed EXCEPT !.kind = kind, !.tenant = x.tenant, !.key = k, !.stage = stage, !.arg = arg]
  <1>2. UNCHANGED <<slugOf, minted, keys, rows, late, crowded>>
    BY DEF Resolve, Rest, History
  <1>3. /\ DOMAIN q = Fields /\ q.kind = kind /\ q.tenant = x.tenant /\ q.stage = stage /\ q.arg = arg
    BY DEF Closed, Fields
  <1>4. PICK p : p = q
    OBVIOUS
  <1>5. /\ DOMAIN p = Fields /\ p.kind = kind /\ p.tenant = x.tenant /\ p.stage = stage /\ p.arg = arg
        /\ req' = [req EXCEPT ![r] = p]
    BY <1>1, <1>3, <1>4
  <1> HIDE DEF q
  <1>6. x.tenant \in 1 .. minted.tenants
    BY KeyType DEF TenancyInv
  <1>7. x.tenant \in 0 .. minted.tenants /\ x.tenant # 0
    BY <1>6, Minted DEF TenancyInv
  <1>8. kind \notin Held /\ kind # None /\ kind \notin Creating /\ kind \notin {"delete", "login", "guide"}
    BY DEF Held, CopilotKinds, None, Creating
  <1>9. RequestFits(p)
    BY <1>5, <1>7, <1>8 DEF RequestFits, Stages
  <1>10. /\ TenancyInv' /\ minted'.tenants \in Nat /\ minted'.tenants >= minted.tenants
         /\ \A o \in Clients : req'[o] = IF o = r THEN p ELSE req[o]
    BY <1>2, <1>5, <1>8, <1>9, SetStep, SameRowsAreWritten
  <1>11. QED BY <1>5, <1>8, <1>10 DEF Apart, Kept, NoNewSave

LEMMA CrashStep ==
    ASSUME TenancyInv, Crash
    PROVE  TenancyInv' /\ Light /\ minted'.tenants \in Nat /\ minted'.tenants >= minted.tenants
           /\ UNCHANGED <<slugOf, minted, keys, rows>> /\ \A o \in Clients : req'[o] = Closed
  <1>1. UNCHANGED <<slugOf, minted, keys, rows, late, crowded>> /\ req' = [o \in Clients |-> Closed]
    BY DEF Crash, History
  <1>2. minted'.tenants \in Nat /\ minted'.tenants >= minted.tenants
    BY <1>1, Minted DEF TenancyInv
  <1>3. RequestsFit'
    <2>1. PICK q : q = Closed
      OBVIOUS
    <2>2. RequestFits(Closed)'
      BY <1>2, ClosedFitsNext
    <2>3. DOMAIN req' = Clients /\ \A o \in Clients : req'[o] = Closed
      BY <1>1
    <2>4. ASSUME NEW o \in Clients PROVE RequestFits(req[o])'
      BY <2>2, <2>3, ClosedFits DEF RequestFits
    <2>5. QED BY <2>3, <2>4 DEF RequestsFit
  <1>4. Light /\ \A o \in Clients : req'[o] = Closed
    BY <1>1, ClosedIsLight DEF Light, Kept, NoNewSave
  <1>5. TenancyInv'
    BY <1>1, <1>3, <1>4, SameRowsAreWritten, LightStep DEF Light
  <1>6. QED BY <1>1, <1>2, <1>4, <1>5

\* A request that goes on as what it is needs the room it needed.
LEMMA SameRoom ==
    ASSUME RoomIsLeft, minted' = minted, \A o \in Clients : req'[o].kind = req[o].kind
    PROVE  RoomIsLeft'
  <1>1. Waiting(Creating)' = Waiting(Creating) /\ Waiting(Minting)' = Waiting(Minting)
    BY DEF Waiting
  <1>2. QED BY <1>1 DEF RoomIsLeft

\* The statements of a deletion, and of a login, have run.
LEMMA Sweeping ==
    ASSUME TenancyInv, NEW r \in Clients, NEW D, Is(r, "delete", "sweep") \/ Is(r, "login", "sweep"),
           req' = [req EXCEPT ![r].stage = "commit", ![r].doomed = D],
           UNCHANGED <<slugOf, minted, keys, rows, late>>
    PROVE  /\ TablesFit' /\ RequestsFit' /\ RoomIsLeft' /\ DeletedLeaveNothing'
           /\ \A o \in Clients \ {r} : req'[o] = req[o]
           /\ req'[r].kind = req[r].kind /\ req'[r].tenant = req[r].tenant /\ req'[r].arg = req[r].arg
           /\ req'[r].stage = "commit" /\ req'[r].doomed = D /\ Apart
  <1> DEFINE q == [req[r] EXCEPT !.stage = "commit", !.doomed = D]
  <1>1. TablesFit /\ RequestsFit /\ RoomIsLeft /\ DeletedLeaveNothing /\ RequestFits(req[r])
    BY DEF TenancyInv, RequestsFit
  <1>2. req' = [req EXCEPT ![r] = q]
    OBVIOUS
  <1>3. /\ DOMAIN q = Fields /\ q.kind = req[r].kind /\ q.tenant = req[r].tenant /\ q.arg = req[r].arg
        /\ q.slug = req[r].slug /\ q.stage = "commit" /\ q.doomed = D
    BY <1>1 DEF RequestFits, Fields
  <1>4. PICK p : p = q
    OBVIOUS
  <1> HIDE DEF q
  <1>5. req[r].kind \in {"delete", "login"}
    BY DEF Is
  <1>6. RequestFits(p)
    BY <1>1, <1>3, <1>4, <1>5 DEF RequestFits, Creating, None, Stages, CopilotKinds
  <1>7. minted'.tenants \in Nat /\ minted'.tenants >= minted.tenants
    BY <1>1, Minted
  <1>8. RequestFits(p)' /\ req' = [req EXCEPT ![r] = p]
    BY <1>1, <1>2, <1>4, <1>6, <1>7, StillFits
  <1>9. RequestsFit' /\ \A o \in Clients : req'[o] = IF o = r THEN p ELSE req[o]
    BY <1>1, <1>7, <1>8, SetRequest
  <1>10. TablesFit' /\ DeletedLeaveNothing'
    BY <1>1, TablesStay DEF TablesFit, DeletedLeaveNothing, Exists
  <1>11. RoomIsLeft'
    BY <1>1, <1>3, <1>4, <1>9, SameRoom
  <1>12. Apart
    BY <1>3, <1>4, <1>5, <1>7, <1>9 DEF Apart, Kept, NoNewSave
  <1>13. QED BY <1>3, <1>4, <1>9, <1>10, <1>11, <1>12

LEMMA DeleteRowsStep ==
    ASSUME TenancyInv, NEW r \in Clients, DeleteRows(r)
    PROVE  TenancyInv' /\ Apart
  <1> DEFINE D == Swept(req[r].tenant)
  <1>1. /\ Is(r, "delete", "sweep") /\ req' = [req EXCEPT ![r].stage = "commit", ![r].doomed = D]
        /\ UNCHANGED <<slugOf, minted, keys, rows, late, crowded>>
    BY DEF DeleteRows, Rest, History
  <1>2. PICK E : E = D
    OBVIOUS
  <1>3. \A x \in rows : x.tenant = req[r].tenant /\ x.table \in Listed => x \in E
    BY <1>2 DEF Swept
  <1> HIDE DEF D
  <1>4. /\ TablesFit' /\ RequestsFit' /\ RoomIsLeft' /\ DeletedLeaveNothing' /\ Apart
        /\ \A o \in Clients \ {r} : req'[o] = req[o]
        /\ req'[r].kind = req[r].kind /\ req'[r].tenant = req[r].tenant /\ req'[r].doomed = E
    BY <1>1, <1>2, Sweeping
  <1>5. SweepsAreNoted'
    <2> SUFFICES ASSUME NEW o \in Clients, req'[o].kind = "delete", req'[o].stage = "commit", NEW x \in rows,
                        x.tenant = req'[o].tenant, x.table \in Listed
                 PROVE  x \in req'[o].doomed \/ x.tenant \in late
      BY <1>1 DEF SweepsAreNoted, Is
    <2>1. CASE o = r
      BY <1>3, <1>4, <2>1
    <2>2. CASE o # r
      BY <1>4, <2>2 DEF TenancyInv, SweepsAreNoted, Is
    <2>3. QED BY <2>1, <2>2
  <1>6. LoginsFit'
    <2>1. Kept({"login"})
      BY <1>1, <1>4 DEF Kept, Is
    <2>2. \A t \in Ids : Stale(t)' \subseteq Stale(t)
      BY <1>1 DEF Stale, Logins
    <2>3. QED BY <1>1, <2>1, <2>2, LoginsHaveTenants, LoginsStay DEF TenancyInv
  <1>7. QED BY <1>4, <1>5, <1>6 DEF TenancyInv

LEMMA DeleteStep ==
    ASSUME TenancyInv, NEW r \in Clients, CommitDelete(r)
    PROVE  TenancyInv' /\ Apart
  <1> DEFINE v == Victim(r)
  <1>1. TablesFit /\ RequestsFit /\ RoomIsLeft /\ DeletedLeaveNothing /\ SweepsAreNoted /\ LoginsFit
    BY DEF TenancyInv
  <1>2. /\ Is(r, "delete", "commit") /\ Close(r) /\ UNCHANGED <<minted, late, crowded>>
        /\ slugOf' = [t \in Ids |-> IF t = v THEN None ELSE slugOf[t]]
        /\ keys' = {x \in keys : x.tenant # v}
        /\ rows' = {x \in rows \ req[r].doomed : x.tenant = v => x.table \notin Owned}
    BY DEF CommitDelete, Rest, History
  <1>3. v = req[r].tenant
    BY DEF Victim
  <1> HIDE DEF v
  <1>4. minted'.tenants \in Nat /\ minted'.tenants >= minted.tenants
    BY <1>1, <1>2, Minted
  <1>5. RequestsFit' /\ Light
    BY <1>1, <1>2, <1>4, ClosingIsLight
  <1>6. RoomIsLeft'
    BY <1>1, <1>2, <1>5, RoomStays DEF Light
  <1>7. SlugsFit'
    BY <1>1, <1>2 DEF TablesFit, SlugsFit
  <1>8. KeysFit'
    BY <1>1, <1>2 DEF TablesFit, KeysFit, Exists
  <1>9. rows' \subseteq rows /\ rows' \subseteq [tenant : Ids, table : Tables]
    BY <1>1, <1>2 DEF TablesFit
  <1>10. DeletedLeaveNothing'
    <2> SUFFICES ASSUME NEW x \in rows', ~Exists(x.tenant)'
                 PROVE  x.table \in Unlisted \/ (x.table \in Listed /\ x.tenant \in late)
      BY <1>2 DEF DeletedLeaveNothing
    <2>1. x \in rows /\ x \notin req[r].doomed /\ x.table \in Tables /\ x.tenant \in Ids
      BY <1>2, <1>9
    <2>2. CASE x.tenant = v
      <3>1. x.table \notin Owned
        BY <1>2, <2>2
      <3>2. x.table \in Listed => x.tenant \in late
        BY <1>1, <1>2, <1>3, <2>1, <2>2 DEF SweepsAreNoted
      <3>3. QED BY <2>1, <3>1, <3>2 DEF Tables
    <2>3. CASE x.tenant # v
      <3>1. ~Exists(x.tenant)
        BY <1>2, <2>1, <2>3 DEF Exists
      <3>2. QED BY <1>1, <2>1, <3>1 DEF DeletedLeaveNothing
    <2>4. QED BY <2>2, <2>3
  <1>11. SweepsAreNoted'
    <2>1. \A o \in Clients : Is(o, "delete", "commit")' => req'[o] = req[o] /\ Is(o, "delete", "commit")
      BY <1>5 DEF Is, Light, Kept, Held
    <2>2. QED BY <1>1, <1>2, <1>9, <2>1 DEF SweepsAreNoted
  <1>12. LoginsFit'
    <2>1. Kept({"login"})
      BY <1>5, Fewer DEF Light, Held
    <2>2. \A t \in Ids : Stale(t)' \subseteq Stale(t)
      BY <1>2 DEF Stale, Logins
    <2>3. QED BY <1>1, <1>2, <2>1, <2>2, LoginsHaveTenants, LoginsStay
  <1>13. QED BY <1>4, <1>5, <1>6, <1>7, <1>8, <1>9, <1>10, <1>11, <1>12 DEF TenancyInv, TablesFit, Apart, Light

LEMMA DeleteLoginsStep ==
    ASSUME TenancyInv, NEW r \in Clients, DeleteLogins(r)
    PROVE  TenancyInv' /\ Apart
  <1>1. PICK E : E = Stale(req[r].tenant)
    OBVIOUS
  <1>2. /\ Is(r, "login", "sweep") /\ req' = [req EXCEPT ![r].stage = "commit", ![r].doomed = E]
        /\ UNCHANGED <<slugOf, minted, keys, rows, late, crowded>>
    BY <1>1 DEF DeleteLogins, Rest, History
  <1>3. /\ TablesFit' /\ RequestsFit' /\ RoomIsLeft' /\ DeletedLeaveNothing' /\ Apart
        /\ \A o \in Clients \ {r} : req'[o] = req[o]
        /\ req'[r].kind = req[r].kind /\ req'[r].tenant = req[r].tenant /\ req'[r].arg = req[r].arg
        /\ req'[r].stage = "commit" /\ req'[r].doomed = E
    BY <1>2, Sweeping
  <1>4. \A o \in Clients : req'[o].kind = req[o].kind /\ req'[o].tenant = req[o].tenant /\ req'[o].arg = req[o].arg
    BY <1>3
  <1>5. \A t : Stale(t)' = Stale(t)
    BY <1>2 DEF Stale, Logins
  <1>6. SweepsAreNoted'
    <2>1. \A o \in Clients : req'[o].kind = "delete" => req'[o] = req[o]
      BY <1>2, <1>3 DEF Is
    <2>2. QED BY <1>2, <2>1 DEF TenancyInv, SweepsAreNoted, Is
  <1>7. LoginsFit /\ TablesFit
    BY DEF TenancyInv
  <1>8. AloneMeansAlone'
    <2> SUFFICES ASSUME NEW o \in Clients, req'[o].kind = "login"
                 PROVE  /\ req'[o].arg = "alone" => Beside(o, req[o].tenant)' = {}
                        /\ req'[o].arg # "alone" => req'[o].tenant \in crowded
                        /\ req'[o].arg = "alone" /\ req'[o].stage = "commit" => Stale(req[o].tenant)' \subseteq req'[o].doomed
      BY <1>2 DEF AloneMeansAlone
    <2>1. PICK t : t = req[o].tenant
      OBVIOUS
    <2>2. req'[o].tenant = t /\ req[o].kind = "login" /\ req'[o].arg = req[o].arg
      BY <1>4, <2>1
    <2>3. Beside(o, t)' = Beside(o, t)
      BY <1>4 DEF Beside
    <2>4. Beside(o, req[o].tenant)' = Beside(o, t)' /\ Stale(req[o].tenant)' = Stale(t)
      BY <1>5, <2>1, <2>2
    <2>5. req'[o].stage = "commit" /\ o # r => req[o].stage = "commit" /\ req'[o].doomed = req[o].doomed
      BY <1>3
    <2>6. req'[o].arg = "alone" /\ req'[o].stage = "commit" => Stale(t) \subseteq req'[o].doomed
      BY <1>1, <1>3, <1>7, <2>1, <2>2, <2>5 DEF LoginsFit, AloneMeansAlone
    <2>7. QED BY <1>7, <2>1, <2>2, <2>3, <2>4, <2>6 DEF LoginsFit, AloneMeansAlone
  <1>9. LoginsAreBounded'
    <2> SUFFICES ASSUME NEW t \in Ids, NEW S \in SUBSET Committing(t)'
                 PROVE  Cardinality(Unseen(t, S)') + Cardinality(S) <= Cardinality(Clients)
      BY DEF LoginsAreBounded
    <2>1. S \in SUBSET Clients /\ IsFiniteSet(S) /\ Cardinality(S) \in Nat /\ Cardinality(Clients) \in Nat
          /\ Cardinality(S) <= Cardinality(Clients)
      <3>1. S \in SUBSET Clients
        BY DEF Committing
      <3>2. QED BY <3>1, FS_Subset, FS_CardinalityType
    <2>2. CASE r \in S
      <3>1. req[r].tenant = t
        BY <1>3, <2>2 DEF Committing
      <3>2. Unseen(t, S)' = {}
        BY <1>1, <1>3, <1>5, <2>2, <3>1 DEF Unseen
      <3>3. Cardinality({}) = 0
        BY FS_EmptySet
      <3>4. QED BY <2>1, <3>2, <3>3
    <2>3. CASE r \notin S
      <3>1. S \in SUBSET Committing(t)
        BY <1>3, <2>1, <2>3 DEF Committing, Is
      <3>2. Unseen(t, S)' = Unseen(t, S)
        BY <1>3, <1>5, <2>1, <2>3 DEF Unseen
      <3>3. QED BY <1>7, <3>1, <3>2 DEF LoginsFit, LoginsAreBounded
    <2>4. QED BY <2>2, <2>3
  <1>10. LoginsSettle'
    BY <1>2, <1>5, <1>7 DEF LoginsFit, LoginsSettle
  <1>11. QED BY <1>3, <1>6, <1>8, <1>9, <1>10 DEF TenancyInv, LoginsFit

\* What a committing login leaves of the keys of its tenant, and of the others.
LEMMA LoginCommitted ==
    ASSUME NEW t \in Ids, NEW D, NEW n, n = minted.keys + 1,
           keys' = {x \in keys : x.id \notin D} \cup {NewKey(t, "console-login")}
    PROVE  /\ \A s \in Ids \ {t} : Stale(s)' \subseteq Stale(s)
           /\ Stale(t)' \subseteq (Stale(t) \ D) \cup {n}
  <1>1. NewKey(t, "console-login").tenant = t /\ NewKey(t, "console-login").id = n
    BY DEF NewKey
  <1>2. QED BY <1>1 DEF Stale, Logins

LEMMA LoginForNobody ==
    ASSUME TablesFit, NEW t \in Ids, ~Exists(t), keys' = keys
    PROVE  (\A s \in Ids : Stale(s)' \subseteq Stale(s)) /\ Stale(t)' = {}
  <1>1. \A x \in keys : x.tenant # t
    BY KeyType
  <1>2. QED BY <1>1 DEF Stale, Logins

LEMMA LoginLeavesLogins ==
    ASSUME TablesFit, RequestsFit, LoginsFit, NEW r \in Clients, Is(r, "login", "commit"), NEW n, Kept({"login"}), req'[r] = Closed,
           NEW t \in Ids, t = req[r].tenant, NEW D, D = req[r].doomed,
           \A s \in Ids \ {t} : Stale(s)' \subseteq Stale(s), Stale(t)' \subseteq (Stale(t) \ D) \cup {n},
           crowded' = IF req[r].arg = "alone" THEN crowded \ {t} ELSE crowded
    PROVE  LoginsFit'
  <1>1. r \in Committing(t) /\ req[r].kind = "login"
    BY DEF Committing, Is
  <1>2. \A o \in Clients : req'[o].kind = "login" => o # r /\ req'[o] = req[o]
    BY ClosedFits DEF Kept, None
  <1>3. AloneMeansAlone'
    <2> SUFFICES ASSUME NEW o \in Clients, req'[o].kind = "login"
                 PROVE  /\ req'[o].arg = "alone" => Beside(o, req[o].tenant)' = {}
                        /\ req'[o].arg # "alone" => req'[o].tenant \in crowded'
                        /\ req'[o].arg = "alone" /\ req'[o].stage = "commit" => Stale(req[o].tenant)' \subseteq req'[o].doomed
      BY DEF AloneMeansAlone
    <2>1. PICK s \in Ids : s = req[o].tenant
      BY <1>2, LoginsHaveTenants
    <2>2. o # r /\ req'[o] = req[o] /\ req[o].kind = "login" /\ req'[o].tenant = s
      BY <1>2, <2>1
    <2>3. Beside(o, s)' \subseteq Beside(o, s)
      BY <1>2 DEF Beside
    <2>4. s = t => r \in Beside(o, s)
      BY <1>1, <2>2 DEF Beside
    <2>5. s = t => o \in Beside(r, t)
      BY <2>1, <2>2 DEF Beside
    <2>6. req[o].arg = "alone" => s # t /\ Stale(s)' \subseteq Stale(s)
      BY <2>1, <2>2, <2>4 DEF LoginsFit, AloneMeansAlone
    <2>7. req[r].arg = "alone" => s # t
      BY <1>1, <2>5 DEF LoginsFit, AloneMeansAlone
    <2>8. QED BY <2>1, <2>2, <2>3, <2>6, <2>7 DEF LoginsFit, AloneMeansAlone
  <1>4. LoginsAreBounded'
    <2> SUFFICES ASSUME NEW s \in Ids, NEW S \in SUBSET Committing(s)'
                 PROVE  Cardinality(Unseen(s, S)') + Cardinality(S) <= Cardinality(Clients)
      BY DEF LoginsAreBounded
    <2>1. S \in SUBSET Committing(s) /\ r \notin S /\ \A o \in S : req'[o] = req[o]
      BY <1>2 DEF Committing, Is
    <2>2. IsFiniteSet(S) /\ Cardinality(S) \in Nat /\ Cardinality(Clients) \in Nat
      BY <2>1, CommittingIsFinite
    <2>3. ASSUME NEW T PROVE IsFiniteSet(Unseen(s, T)) /\ Cardinality(Unseen(s, T)) \in Nat
      <3>1. Unseen(s, T) \in SUBSET Stale(s)
        BY DEF Unseen
      <3>2. QED BY <3>1, StaleIsFinite, FS_Subset, FS_CardinalityType
    <2>4. CASE s # t
      <3>1. Unseen(s, S)' \in SUBSET Unseen(s, S)
        BY <2>1, <2>4 DEF Unseen
      <3>2. Cardinality(Unseen(s, S)') <= Cardinality(Unseen(s, S)) /\ Cardinality(Unseen(s, S)') \in Nat
        BY <2>3, <3>1, FS_Subset, FS_CardinalityType
      <3>3. Cardinality(Unseen(s, S)) + Cardinality(S) <= Cardinality(Clients)
        BY <2>1 DEF LoginsFit, LoginsAreBounded
      <3>4. QED BY <2>2, <2>3, <3>2, <3>3
    <2>5. CASE s = t
      <3> DEFINE T == S \cup {r}
      <3>1. T \in SUBSET Committing(t) /\ Cardinality(T) = Cardinality(S) + 1
        BY <1>1, <2>1, <2>2, <2>5, FS_AddElement
      <3>2. Unseen(t, S)' \in SUBSET (Unseen(t, T) \cup {n})
        BY <2>1, <2>5 DEF Unseen
      <3>3. IsFiniteSet(Unseen(t, T) \cup {n}) /\ Cardinality(Unseen(t, T) \cup {n}) <= Cardinality(Unseen(t, T)) + 1
            /\ Cardinality(Unseen(t, T) \cup {n}) \in Nat /\ Cardinality(Unseen(t, T)) \in Nat
        <4>1. IsFiniteSet(Unseen(t, T)) /\ Cardinality(Unseen(t, T)) \in Nat
          BY <2>3, <2>5
        <4>2. /\ IsFiniteSet(Unseen(t, T) \cup {n})
              /\ Cardinality(Unseen(t, T) \cup {n}) =
                    IF n \in Unseen(t, T) THEN Cardinality(Unseen(t, T)) ELSE Cardinality(Unseen(t, T)) + 1
          BY <4>1, FS_AddElement
        <4>3. QED BY <4>1, <4>2
      <3>4. Cardinality(Unseen(t, S)') <= Cardinality(Unseen(t, T) \cup {n}) /\ Cardinality(Unseen(t, S)') \in Nat
        BY <3>2, <3>3, FS_Subset, FS_CardinalityType
      <3>5. Cardinality(Unseen(t, T)) + Cardinality(T) <= Cardinality(Clients)
        BY <3>1 DEF LoginsFit, LoginsAreBounded
      <3> HIDE DEF T
      <3>6. Cardinality(Unseen(t, S)') + Cardinality(S) <= Cardinality(Clients)
        BY <2>2, <3>1, <3>3, <3>4, <3>5
      <3>7. QED BY <2>5, <3>6
    <2>6. QED BY <2>4, <2>5
  <1>5. LoginsSettle'
    <2> SUFFICES ASSUME NEW s \in Ids, s \notin crowded'
                 PROVE  Cardinality(Stale(s)') <= 1
      BY DEF LoginsSettle
    <2>1. IsFiniteSet(Stale(s)) /\ Cardinality(Stale(s)) \in Nat
      BY StaleIsFinite
    <2>2. CASE s # t
      <3>1. Cardinality(Stale(s)) <= 1
        BY <2>2 DEF LoginsFit, LoginsSettle
      <3>2. Stale(s)' \in SUBSET Stale(s)
        BY <2>2
      <3>3. Cardinality(Stale(s)') <= Cardinality(Stale(s)) /\ Cardinality(Stale(s)') \in Nat
        BY <2>1, <3>2, FS_Subset, FS_CardinalityType
      <3>4. QED BY <2>1, <3>1, <3>3
    <2>3. CASE s = t
      <3>1. req[r].arg = "alone"
        BY <1>1, <2>3 DEF LoginsFit, AloneMeansAlone
      <3>2. Stale(t) \subseteq D
        BY <1>1, <3>1 DEF LoginsFit, AloneMeansAlone, Is
      <3>3. Stale(s)' \in SUBSET {n}
        BY <2>3, <3>2
      <3>4. IsFiniteSet({n}) /\ Cardinality({n}) = 1
        BY FS_Singleton
      <3>5. QED BY <3>3, <3>4, FS_Subset
    <2>4. QED BY <2>2, <2>3
  <1>6. QED BY <1>3, <1>4, <1>5 DEF LoginsFit

LEMMA LoginStep ==
    ASSUME TenancyInv, NEW r \in Clients, CommitLogin(r)
    PROVE  TenancyInv' /\ Apart
  <1>1. TablesFit /\ RequestsFit /\ RoomIsLeft /\ DeletedLeaveNothing /\ SweepsAreNoted /\ LoginsFit
    BY DEF TenancyInv
  <1>2. /\ Is(r, "login", "commit") /\ Close(r) /\ UNCHANGED <<slugOf, rows, late>>
        /\ crowded' = IF req[r].arg = "alone" THEN crowded \ {req[r].tenant} ELSE crowded
    BY DEF CommitLogin
  <1>3. PICK t \in Ids : t = req[r].tenant
    BY <1>1, <1>2, LoginsHaveTenants DEF Is
  <1>4. /\ SlugsFit' /\ KeysFit' /\ RoomIsLeft' /\ minted'.tenants \in Nat /\ minted'.tenants >= minted.tenants
        /\ \A s \in Ids \ {t} : Stale(s)' \subseteq Stale(s)
        /\ Stale(t)' \subseteq (Stale(t) \ req[r].doomed) \cup {minted.keys + 1}
    <2>1. CASE Exists(req[r].tenant)
      <3>1. /\ keys' = {x \in keys : x.id \notin req[r].doomed} \cup {NewKey(t, "console-login")}
            /\ minted' = [tenants |-> minted.tenants, keys |-> minted.keys + 1] /\ Exists(t)
        BY <1>1, <1>3, <2>1, Minted DEF CommitLogin
      <3>2. req[r].kind \in Minting
        BY <1>2 DEF Minting, Is
      <3>3. minted.tenants \in {minted.tenants, minted.tenants + 1} /\ minted.keys + 1 \in {minted.keys, minted.keys + 1}
        OBVIOUS
      <3>4. /\ RoomIsLeft' /\ minted' \in [tenants : Ids, keys : 1 .. MaxKeys]
            /\ minted'.tenants = minted.tenants /\ minted'.keys = minted.keys + 1
        BY <1>1, <1>2, <3>1, <3>2, <3>3, Paid
      <3>5. Exists(t)' /\ \A s \in Ids : Exists(s) => Exists(s)'
        BY <1>2, <3>1 DEF Exists
      <3>6. {x \in keys : x.id \notin req[r].doomed} \in SUBSET keys
        OBVIOUS
      <3>7. KeysFit'
        BY <1>1, <3>1, <3>4, <3>5, <3>6, KeyAdded
      <3>8. SlugsFit'
        BY <1>1, <1>2, <3>4 DEF TablesFit, SlugsFit
      <3>9. minted'.tenants \in Nat /\ minted'.tenants >= minted.tenants
        BY <1>1, <3>4, Minted
      <3>10. /\ \A s \in Ids \ {t} : Stale(s)' \subseteq Stale(s)
             /\ Stale(t)' \subseteq (Stale(t) \ req[r].doomed) \cup {minted.keys + 1}
        <4>1. PICK D, n : D = req[r].doomed /\ n = minted.keys + 1
          OBVIOUS
        <4>2. keys' = {x \in keys : x.id \notin D} \cup {NewKey(t, "console-login")}
          BY <3>1, <4>1
        <4>3. (\A s \in Ids \ {t} : Stale(s)' \subseteq Stale(s)) /\ Stale(t)' \subseteq (Stale(t) \ D) \cup {n}
          BY <4>1, <4>2, LoginCommitted
        <4>4. QED BY <4>1, <4>3
      <3>11. QED BY <3>4, <3>7, <3>8, <3>9, <3>10
    <2>2. CASE ~Exists(req[r].tenant)
      <3>1. UNCHANGED <<minted, keys>> /\ ~Exists(t)
        BY <1>3, <2>2 DEF CommitLogin
      <3>2. /\ \A s \in Ids \ {t} : Stale(s)' \subseteq Stale(s)
            /\ Stale(t)' \subseteq (Stale(t) \ req[r].doomed) \cup {minted.keys + 1}
        BY <1>1, <3>1, LoginForNobody
      <3>3. QED BY <1>1, <1>2, <3>1, <3>2, SameTables
    <2>3. QED BY <2>1, <2>2
  <1>5. RequestsFit' /\ Light /\ req'[r] = Closed
    BY <1>1, <1>2, <1>4, ClosingIsLight, CloseRequest
  <1>6. LoginsFit'
    <2>1. PICK D : D = req[r].doomed
      OBVIOUS
    <2>2. PICK n : n = minted.keys + 1
      OBVIOUS
    <2>3. /\ \A s \in Ids \ {t} : Stale(s)' \subseteq Stale(s)
          /\ Stale(t)' \subseteq (Stale(t) \ D) \cup {n}
          /\ crowded' = IF req[r].arg = "alone" THEN crowded \ {t} ELSE crowded
      BY <1>2, <1>3, <1>4, <2>1, <2>2
    <2>4. Kept({"login"})
      BY <1>5, Fewer DEF Light, Held
    <2>5. QED BY <1>1, <1>2, <1>3, <1>5, <2>1, <2>3, <2>4, LoginLeavesLogins
  <1>7. rows' \subseteq [tenant : Ids, table : Tables] /\ DeletedLeaveNothing' /\ SweepsAreNoted'
    <2>1. \A o \in Clients : req'[o] = req[o] \/ req'[o].kind # "delete" \/ req'[o].stage # "commit"
      BY <1>5 DEF Light, Kept, Held
    <2>2. Written /\ \A s \in Ids : Exists(s) => Exists(s)'
      BY <1>2, SameRowsAreWritten DEF Exists
    <2>3. QED BY <1>1, <2>1, <2>2, RowsStay
  <1>8. QED BY <1>4, <1>5, <1>6, <1>7 DEF TenancyInv, TablesFit, Apart, Light

\* A request of the operator is read: its tenant, and whether another login of it is under way.
Asked(r, kind, slug, t, q) ==
    /\ kind \notin Creating => t \in Ids
    /\ DOMAIN q = Fields /\ q.kind = kind /\ q.slug = slug /\ q.tenant = t
    /\ q.stage = IF kind \in {"delete", "login"} THEN "sweep" ELSE "commit"
    /\ q.arg = IF kind = "login" /\ Beside(r, t) = {} THEN "alone" ELSE None
    /\ req' = [o \in Clients |->
                 IF o = r THEN q
                 ELSE IF kind = "login" /\ o \in Beside(r, t) THEN [req[o] EXCEPT !.arg = None] ELSE req[o]]
    /\ crowded' = IF kind = "login" /\ Beside(r, t) # {} THEN crowded \cup {t} ELSE crowded

LEMMA AskedFor ==
    ASSUME TenancyInv, NEW r \in Clients, NEW kind \in AdminKinds, NEW slug \in Slugs, NEW k, Ask(r, kind, slug, k)
    PROVE  \E t \in 0 .. minted.tenants : \E q : Asked(r, kind, slug, t, q)
  <1> DEFINE t == IF TenantOf(slug) = {} THEN 0 ELSE CHOOSE x \in TenantOf(slug) : TRUE
             q == [Closed EXCEPT !.kind = kind, !.slug = slug, !.tenant = t, !.key = k,
                                 !.stage = IF kind \in {"delete", "login"} THEN "sweep" ELSE "commit",
                                 !.arg = IF kind = "login" /\ Beside(r, t) = {} THEN "alone" ELSE None]
  <1>1. /\ req' = [o \in Clients |->
                     IF o = r THEN q
                     ELSE IF kind = "login" /\ o \in Beside(r, t) THEN [req[o] EXCEPT !.arg = None] ELSE req[o]]
        /\ crowded' = IF kind = "login" /\ Beside(r, t) # {} THEN crowded \cup {t} ELSE crowded
    BY DEF Ask
  <1>2. /\ DOMAIN q = Fields /\ q.kind = kind /\ q.slug = slug /\ q.tenant = t
        /\ q.stage = IF kind \in {"delete", "login"} THEN "sweep" ELSE "commit"
        /\ q.arg = IF kind = "login" /\ Beside(r, t) = {} THEN "alone" ELSE None
    BY DEF Closed, Fields
  <1>3. TenantOf(slug) # {} => t \in Ids /\ slugOf[t] = slug
    BY DEF TenantOf
  <1>4. t \in 0 .. minted.tenants
    <2>1. CASE TenantOf(slug) = {}
      BY <2>1, Minted DEF TenancyInv
    <2>2. CASE TenantOf(slug) # {}
      <3>1. t \in Ids /\ slugOf[t] # None
        BY <1>3, <2>2
      <3>2. t \in Nat /\ ~(t > minted.tenants)
        BY <3>1, Bounds DEF TenancyInv, TablesFit, SlugsFit, Ids
      <3>3. QED BY <3>2, Minted DEF TenancyInv
    <2>3. QED BY <2>1, <2>2
  <1>5. kind \notin Creating => t \in Ids
    BY <1>3 DEF Ask, Creating
  <1> HIDE DEF t, q
  <1>6. Asked(r, kind, slug, t, q)
    BY <1>1, <1>2, <1>5 DEF Asked
  <1>7. QED BY <1>4, <1>6

\* A login of t is read: it is alone, or neither is it nor are those it runs beside.
LoginRead(r, t, q) ==
    /\ req[r].kind = None /\ req'[r] = q
    /\ q.kind = "login" /\ q.tenant = t /\ q.stage = "sweep"
    /\ q.arg = IF Beside(r, t) = {} THEN "alone" ELSE None
    /\ \A o \in Clients \ {r} :
          /\ req'[o].kind = req[o].kind /\ req'[o].tenant = req[o].tenant /\ req'[o].stage = req[o].stage
          /\ req'[o].doomed = req[o].doomed
          /\ req'[o] = req[o] \/ (o \in Beside(r, t) /\ req'[o].arg = None)
    /\ \A o \in Beside(r, t) : req'[o].arg = None
    /\ \A s : Stale(s)' = Stale(s)
    /\ crowded' = IF Beside(r, t) # {} THEN crowded \cup {t} ELSE crowded

LEMMA LoginAsked ==
    ASSUME LoginsFit, NEW r \in Clients, NEW t, NEW q, LoginRead(r, t, q)
    PROVE  LoginsFit'
  <1> USE DEF LoginRead
  <1>1. None # "alone" /\ None # "login"
    BY DEF None
  <1>2. ASSUME NEW o \in Clients, NEW s PROVE Beside(o, s)' \subseteq Beside(o, s) \cup (IF s = t THEN {r} ELSE {})
    BY DEF Beside
  <1>3. Beside(r, t)' = Beside(r, t)
    BY DEF Beside
  <1>4. AloneMeansAlone'
    <2> SUFFICES ASSUME NEW o \in Clients, req'[o].kind = "login"
                 PROVE  /\ req'[o].arg = "alone" => Beside(o, req[o].tenant)' = {}
                        /\ req'[o].arg # "alone" => req'[o].tenant \in crowded'
                        /\ req'[o].arg = "alone" /\ req'[o].stage = "commit" => Stale(req[o].tenant)' \subseteq req'[o].doomed
      BY DEF AloneMeansAlone
    <2>1. PICK s : s = req'[o].tenant
      OBVIOUS
    <2>2. Beside(o, req[o].tenant)' = Beside(o, s)' /\ Stale(req[o].tenant)' = Stale(s)
      <3>1. \A v : v = s => Stale(v)' = Stale(s)
        OBVIOUS
      <3>2. QED BY <2>1, <3>1 DEF Beside, Stale, Logins
    <2>3. CASE o = r
      BY <1>1, <1>3, <2>1, <2>2, <2>3
    <2>4. CASE o # r /\ o \in Beside(r, t)
      BY <1>1, <2>1, <2>4 DEF Beside
    <2>5. CASE o # r /\ o \notin Beside(r, t)
      <3>1. req'[o] = req[o] /\ s # t
        BY <2>1, <2>5 DEF Beside
      <3>2. Beside(o, s)' \subseteq Beside(o, s) /\ crowded \subseteq crowded'
        BY <1>2, <3>1
      <3>3. QED BY <2>1, <2>2, <3>1, <3>2 DEF LoginsFit, AloneMeansAlone
    <2>6. QED BY <2>3, <2>4, <2>5
  <1>5. LoginsAreBounded'
    <2> SUFFICES ASSUME NEW s \in Ids, NEW S \in SUBSET Committing(s)'
                 PROVE  Cardinality(Unseen(s, S)') + Cardinality(S) <= Cardinality(Clients)
      BY DEF LoginsAreBounded
    <2>1. r \notin S /\ S \subseteq Clients
      BY DEF Committing, Is
    <2>2. S \in SUBSET Committing(s)
      BY <2>1 DEF Committing, Is
    <2>3. Unseen(s, S)' = Unseen(s, S)
      BY <2>1 DEF Unseen
    <2>4. QED BY <2>2, <2>3 DEF LoginsFit, LoginsAreBounded
  <1>6. LoginsSettle'
    BY DEF LoginsFit, LoginsSettle
  <1>7. QED BY <1>4, <1>5, <1>6 DEF LoginsFit

LEMMA AskStep ==
    ASSUME TenancyInv, NEW r \in Clients, NEW kind \in AdminKinds, NEW slug \in Slugs, NEW k, Ask(r, kind, slug, k)
    PROVE  TenancyInv' /\ Apart
  <1>1. TablesFit /\ RequestsFit /\ RoomIsLeft /\ DeletedLeaveNothing /\ SweepsAreNoted /\ LoginsFit
    BY DEF TenancyInv
  <1>t. PICK t \in 0 .. minted.tenants : \E q : Asked(r, kind, slug, t, q)
    BY AskedFor
  <1>a. PICK q : Asked(r, kind, slug, t, q)
    BY <1>t
  <1>2. /\ kind \notin Creating => t \in Ids
        /\ DOMAIN q = Fields /\ q.kind = kind /\ q.slug = slug /\ q.tenant = t
        /\ q.stage = IF kind \in {"delete", "login"} THEN "sweep" ELSE "commit"
        /\ q.arg = IF kind = "login" /\ Beside(r, t) = {} THEN "alone" ELSE None
        /\ req' = [o \in Clients |->
                     IF o = r THEN q
                     ELSE IF kind = "login" /\ o \in Beside(r, t) THEN [req[o] EXCEPT !.arg = None] ELSE req[o]]
        /\ crowded' = IF kind = "login" /\ Beside(r, t) # {} THEN crowded \cup {t} ELSE crowded
    BY <1>a DEF Asked
  <1>3. At(r, "closed") /\ UNCHANGED <<slugOf, minted, keys, rows, late>>
    BY DEF Ask
  <1>4. minted'.tenants \in Nat /\ minted'.tenants >= minted.tenants
    BY <1>1, <1>3, Minted
  <1>5. req[r].kind = None /\ None \notin Held /\ None \notin Creating /\ None \notin Minting
    BY <1>1, <1>3, ClosedFits DEF RequestsFit, RequestFits, At
  <1>6. DOMAIN req' = Clients /\ req'[r] = q
    BY <1>2
  <1>7. ASSUME NEW o \in Clients \ {r}
        PROVE  /\ DOMAIN req'[o] = Fields
               /\ req'[o].kind = req[o].kind /\ req'[o].tenant = req[o].tenant /\ req'[o].stage = req[o].stage
               /\ req'[o].slug = req[o].slug /\ req'[o].key = req[o].key /\ req'[o].doomed = req[o].doomed
               /\ req'[o] = req[o] \/ (kind = "login" /\ o \in Beside(r, t) /\ req'[o].arg = None)
    <2>1. DOMAIN req[o] = Fields
      BY <1>1 DEF RequestsFit, RequestFits
    <2>2. CASE kind = "login" /\ o \in Beside(r, t)
      <3>1. req'[o] = [req[o] EXCEPT !.arg = None]
        BY <1>2, <2>2
      <3>2. QED BY <2>1, <2>2, <3>1 DEF Fields
    <2>3. CASE ~(kind = "login" /\ o \in Beside(r, t))
      <3>1. req'[o] = req[o]
        BY <1>2, <2>3
      <3>2. QED BY <2>1, <3>1
    <2>4. QED BY <2>2, <2>3
  <1>8. RequestsFit'
    <2>1. ASSUME NEW o \in Clients PROVE RequestFits(req[o])'
      <3>1. PICK p : p = req'[o]
        OBVIOUS
      <3>2. CASE o = r
        <4>1. p = q
          BY <1>6, <3>1, <3>2
        <4>2. kind \in {"delete", "login"} => t # 0
          BY <1>2, Bounds DEF Creating, Ids
        <4>3. kind \notin {"write", "test", "guide"} \cup CopilotKinds /\ kind # None
          BY DEF AdminKinds, CopilotKinds, None
        <4>4. RequestFits(q)
          BY <1>2, <4>2, <4>3 DEF RequestFits, Stages, Tenanted
        <4>5. RequestFits(q)'
          BY <1>1, <1>4, <4>4, StillFits
        <4>6. QED BY <3>1, <4>1, <4>5 DEF RequestFits
      <3>3. CASE o # r
        <4>1. RequestFits(req[o])
          BY <1>1 DEF RequestsFit
        <4>2. req'[o] = req[o] \/ req[o].kind = "login"
          BY <1>7, <3>3 DEF Beside
        <4>3. RequestFits(p)
          <5>1. CASE req'[o] = req[o]
            BY <3>1, <4>1, <5>1
          <5>2. CASE req[o].kind = "login"
            BY <1>7, <3>1, <3>3, <4>1, <5>2 DEF RequestFits
          <5>3. QED BY <4>2, <5>1, <5>2
        <4>4. RequestFits(p)'
          BY <1>1, <1>4, <4>3, StillFits
        <4>5. QED BY <3>1, <4>4 DEF RequestFits
      <3>4. QED BY <3>2, <3>3
    <2>2. QED BY <1>6, <2>1 DEF RequestsFit
  <1>9. RoomIsLeft'
    <2>1. ASSUME NEW K, None \notin K
          PROVE  /\ Cardinality(Waiting(K)') \in Nat /\ Cardinality(Waiting(K)) \in Nat
                 /\ Cardinality(Waiting(K)') <= Cardinality(Waiting(K)) + 1
                 /\ kind \notin K => Cardinality(Waiting(K)') = Cardinality(Waiting(K))
      <3>1. Waiting(K)' = IF kind \in K THEN Waiting(K) \cup {r} ELSE Waiting(K)
        <4>1. \A o \in Clients \ {r} : req'[o].kind = req[o].kind
          BY <1>7
        <4>2. req'[r].kind = kind /\ r \notin Waiting(K)
          BY <1>2, <1>5, <1>6, <2>1 DEF Waiting
        <4>3. QED BY <4>1, <4>2 DEF Waiting
      <3>2. IsFiniteSet(Waiting(K)) /\ Cardinality(Waiting(K)) \in Nat
        BY WaitingIsFinite
      <3>3. /\ IsFiniteSet(Waiting(K) \cup {r})
            /\ Cardinality(Waiting(K) \cup {r}) =
                  IF r \in Waiting(K) THEN Cardinality(Waiting(K)) ELSE Cardinality(Waiting(K)) + 1
        BY <3>2, FS_AddElement
      <3>4. QED BY <3>1, <3>2, <3>3
    <2>2. /\ kind \in Creating => minted.tenants + Cardinality(Waiting(Creating)) < MaxTenants
          /\ kind \in Minting => minted.keys + Cardinality(Waiting(Minting)) < MaxKeys
      BY DEF Ask, Creating, Minting
    <2>3. /\ minted.tenants + Cardinality(Waiting(Creating)') <= MaxTenants
          /\ minted.keys + Cardinality(Waiting(Minting)') <= MaxKeys
      <3>1. /\ Cardinality(Waiting(Creating)') \in Nat /\ Cardinality(Waiting(Creating)) \in Nat
            /\ Cardinality(Waiting(Creating)') <= Cardinality(Waiting(Creating)) + 1
            /\ kind \notin Creating => Cardinality(Waiting(Creating)') = Cardinality(Waiting(Creating))
        BY <1>5, <2>1
      <3>2. /\ Cardinality(Waiting(Minting)') \in Nat /\ Cardinality(Waiting(Minting)) \in Nat
            /\ Cardinality(Waiting(Minting)') <= Cardinality(Waiting(Minting)) + 1
            /\ kind \notin Minting => Cardinality(Waiting(Minting)') = Cardinality(Waiting(Minting))
        BY <1>5, <2>1
      <3>3. minted.tenants \in Nat /\ minted.keys \in Nat
        BY <1>1, Minted
      <3>4. QED BY <1>1, <2>2, <3>1, <3>2, <3>3, Bounds DEF RoomIsLeft
    <2>4. QED BY <1>3, <2>3 DEF RoomIsLeft
  <1>10. rows' \subseteq [tenant : Ids, table : Tables] /\ DeletedLeaveNothing' /\ SweepsAreNoted'
    <2>1. ASSUME NEW o \in Clients
          PROVE  req'[o] = req[o] \/ req'[o].kind # "delete" \/ req'[o].stage # "commit"
      <3>1. CASE o = r
        BY <1>2, <1>6, <3>1
      <3>2. CASE o # r
        BY <1>7, <3>2 DEF Beside
      <3>3. QED BY <3>1, <3>2
    <2>2. Written /\ \A s \in Ids : Exists(s) => Exists(s)'
      BY <1>3, SameRowsAreWritten DEF Exists
    <2>3. QED BY <1>1, <2>1, <2>2, RowsStay
  <1>11. TablesFit'
    BY <1>1, <1>3, <1>10, TablesStay
  <1>12. LoginsFit'
    <2>1. \A s : Stale(s)' = Stale(s)
      BY <1>3 DEF Stale, Logins
    <2>2. CASE kind # "login"
      <3>1. Kept({"login"}) /\ crowded' = crowded
        BY <1>2, <1>6, <1>7, <2>2 DEF Kept
      <3>2. QED BY <1>1, <2>1, <3>1, LoginsHaveTenants, LoginsStay
    <2>3. CASE kind = "login"
      <3>1. /\ q.kind = "login" /\ q.tenant = t /\ q.stage = "sweep"
            /\ q.arg = IF Beside(r, t) = {} THEN "alone" ELSE None
            /\ crowded' = IF Beside(r, t) # {} THEN crowded \cup {t} ELSE crowded
        BY <1>2, <2>3
      <3>2. \A o \in Clients \ {r} :
               /\ req'[o].kind = req[o].kind /\ req'[o].tenant = req[o].tenant /\ req'[o].stage = req[o].stage
               /\ req'[o].doomed = req[o].doomed
               /\ req'[o] = req[o] \/ (o \in Beside(r, t) /\ req'[o].arg = None)
        BY <1>7
      <3>3. \A o \in Beside(r, t) : req'[o].arg = None
        <4> SUFFICES ASSUME NEW o \in Beside(r, t) PROVE req'[o].arg = None
          OBVIOUS
        <4>1. o \in Clients \ {r} /\ DOMAIN req[o] = Fields
          BY <1>1 DEF Beside, RequestsFit, RequestFits
        <4>2. req'[o] = [req[o] EXCEPT !.arg = None]
          BY <1>2, <2>3, <4>1
        <4>3. QED BY <4>1, <4>2 DEF Fields
      <3>4. LoginsFit /\ req[r].kind = None /\ req'[r] = q
        BY <1>1, <1>5, <1>6
      <3>5. LoginRead(r, t, q)
        BY <2>1, <3>1, <3>2, <3>3, <3>4 DEF LoginRead
      <3>6. QED BY <3>4, <3>5, LoginAsked
    <2>4. QED BY <2>2, <2>3
  <1>13. Apart
    <2>1. ASSUME NEW o \in Clients
          PROVE  /\ req'[o] = req[o] \/ req'[o].kind \notin {"guide"}
                 /\ req'[o] = req[o] \/ req'[o].stage # "save"
      <3>1. CASE o = r
        BY <1>2, <1>6, <3>1 DEF AdminKinds
      <3>2. CASE o # r /\ req'[o] # req[o]
        <4>1. req[o].kind = "login" /\ req'[o].kind = "login" /\ req'[o].stage = req[o].stage
          BY <1>7, <3>2 DEF Beside
        <4>2. req[o].stage # "save"
          BY <1>1, <4>1 DEF RequestsFit, RequestFits
        <4>3. QED BY <4>1, <4>2
      <3>3. QED BY <3>1, <3>2
    <2>2. QED BY <1>4, <2>1 DEF Apart, Kept, NoNewSave
  <1>14. QED BY <1>8, <1>9, <1>10, <1>11, <1>12, <1>13 DEF TenancyInv

LEMMA NothingAsked ==
    ASSUME TenancyInv, UNCHANGED <<slugOf, minted, keys, crowded, req>>, Written
    PROVE  TenancyInv' /\ Apart
  <1>1. minted'.tenants \in Nat /\ minted'.tenants >= minted.tenants
    BY Minted DEF TenancyInv
  <1>2. RequestsFit' /\ Kept(Held) /\ Kept({"guide"}) /\ NoNewSave
    BY DEF TenancyInv, RequestsFit, RequestFits, Kept, NoNewSave
  <1>3. QED BY <1>1, <1>2, LightStep DEF Apart

\* Steps of the operator, of the callers and of the test leave the rest of the workspace.
LEMMA ApartStep ==
    ASSUME WorkspaceInv, TenancyInv', Apart
    PROVE  /\ testVars' = testVars => TestFits'
           /\ bridgeVars' = bridgeVars => BridgeFits'
           /\ copilotVars' = copilotVars => CopilotFits'
  BY TestStays, BridgeStays, CopilotStays DEF WorkspaceInv, TenancyInv, Apart

LEMMA OperatorStep ==
    ASSUME WorkspaceInv, NEW r \in Clients, Operator(r)
    PROVE  WorkspaceInv'
  <1>1. TenancyInv /\ testVars' = testVars /\ bridgeVars' = bridgeVars /\ copilotVars' = copilotVars
    BY DEF Operator, WorkspaceInv
  <1>2. TenancyInv' /\ Apart
    <2>1. CASE \E kind \in AdminKinds, slug \in Slugs, k \in KeyIds \cup {0} : Ask(r, kind, slug, k)
      BY <1>1, <2>1, AskStep
    <2>2. CASE Commit(r)
      <3>1. CASE CommitCreate(r)
        BY <1>1, <3>1, CreateStep
      <3>2. CASE CommitImport(r)
        BY <1>1, <3>2, ImportStep
      <3>3. CASE DeleteRows(r)
        BY <1>1, <3>3, DeleteRowsStep
      <3>4. CASE CommitDelete(r)
        BY <1>1, <3>4, DeleteStep
      <3>5. CASE DeleteLogins(r)
        BY <1>1, <3>5, DeleteLoginsStep
      <3>6. CASE CommitLogin(r)
        BY <1>1, <3>6, LoginStep
      <3>7. CASE CommitIssue(r)
        BY <1>1, <3>7, IssueStep
      <3>8. CASE CommitRevoke(r)
        BY <1>1, <3>8, RevokeStep
      <3>9. CASE CommitWrite(r)
        <4>1. /\ Is(r, "write", "commit") /\ Insert(req[r].tenant, req[r].arg) /\ Close(r)
              /\ UNCHANGED <<slugOf, minted, keys, crowded>>
          BY <3>9 DEF CommitWrite
        <4>2. req[r].kind \in Tenanted /\ req[r].arg \in {"projects", "sessions"}
          BY <1>1, <4>1 DEF Tenanted, Is, TenancyInv, RequestsFit, RequestFits
        <4>3. req[r].tenant \in Ids /\ req[r].arg \in Tables
          BY <1>1, <4>2, TenantOfRequest DEF TenancyInv, Tables, Owned, Listed
        <4>4. Written
          BY <4>1, <4>3, InsertIsWritten
        <4>5. QED BY <1>1, <4>1, <4>4, WriteStep
      <3>10. QED BY <2>2, <3>1, <3>2, <3>3, <3>4, <3>5, <3>6, <3>7, <3>8, <3>9 DEF Commit
    <2>3. CASE Fail(r)
      BY <1>1, <2>3, FailStep DEF Fail, Rest, History
    <2>4. QED BY <2>1, <2>2, <2>3 DEF Operator
  <1>3. QED BY <1>1, <1>2, ApartStep DEF WorkspaceInv

LEMMA CallerStep ==
    ASSUME WorkspaceInv, NEW r \in Clients, Caller(r)
    PROVE  WorkspaceInv'
  <1>1. TenancyInv /\ testVars' = testVars /\ bridgeVars' = bridgeVars /\ copilotVars' = copilotVars
    BY DEF Caller, WorkspaceInv
  <1>2. TenancyInv' /\ Apart
    <2>1. CASE \E k \in KeyIds, table \in {"projects", "sessions"} : Resolve(r, "write", k, "commit", table)
      <3>1. PICK k \in KeyIds, table \in {"projects", "sessions"} : Resolve(r, "write", k, "commit", table)
        BY <2>1
      <3>2. QED BY <1>1, <3>1, ResolveStep
    <2>2. CASE \E k \in KeyIds : Resolve(r, "test", k, "commit", None)
      <3>1. PICK k \in KeyIds : Resolve(r, "test", k, "commit", None)
        BY <2>2
      <3>2. QED BY <1>1, <3>1, ResolveStep
    <2>3. QED BY <2>1, <2>2 DEF Caller
  <1>3. QED BY <1>1, <1>2, ApartStep DEF WorkspaceInv

-----------------------------------------------------------------------------
(***************************************************************************)
(* The A/B test: rows it writes, and the tenant it goes on for.            *)
(***************************************************************************)
LEMMA FailedTest ==
    ASSUME TestFits, TablesFit, NEW open, Failed(open), task.stage # "none", minted' = minted
    PROVE  TestFits'
  <1>1. DOMAIN test' = DOMAIN test /\ test'.tenant = test.tenant /\ DOMAIN task' = DOMAIN task
    BY DEF Failed, TestFits
  <1>2. test.tenant \in 1 .. minted.tenants
    BY DEF TestFits
  <1>3. QED BY <1>1, <1>2 DEF TestFits

LEMMA TestsStep ==
    ASSUME WorkspaceInv, Tests
    PROVE  WorkspaceInv'
  <1>1. TenancyInv /\ TablesFit /\ TestFits /\ bridgeVars' = bridgeVars /\ copilotVars' = copilotVars
    BY DEF Tests, WorkspaceInv, TenancyInv
  <1>2. TenancyInv' /\ Apart /\ TestFits'
    <2>1. ASSUME NEW r \in Clients, StartTest(r) PROVE TenancyInv' /\ Apart /\ TestFits'
      <3>1. /\ Is(r, "test", "commit") /\ Insert(req[r].tenant, "ab_tests") /\ Close(r)
            /\ UNCHANGED <<slugOf, minted, keys, crowded>>
            /\ test' = [test EXCEPT !.tenant = req[r].tenant, !.status = "running"]
            /\ task' = [task EXCEPT !.stage = "defs", !.key = req[r].key]
        BY <2>1 DEF StartTest
      <3>2. req[r].kind \in Tenanted
        BY <3>1 DEF Tenanted, Is
      <3>3. req[r].tenant \in Ids /\ req[r].tenant \in 1 .. minted.tenants /\ "ab_tests" \in Tables
        BY <1>1, <3>2, TenantOfRequest DEF TenancyInv, Tables, Listed
      <3>4. Written
        BY <3>1, <3>3, InsertIsWritten
      <3>5. TenancyInv' /\ Apart
        BY <1>1, <3>1, <3>4, WriteStep
      <3>6. TestFits'
        BY <1>1, <3>1, <3>3 DEF TestFits
      <3>7. QED BY <3>5, <3>6
    <2>2. ASSUME UNCHANGED vars PROVE TenancyInv' /\ Apart
      BY <1>1, <2>2, NothingAsked, SameRowsAreWritten DEF vars
    <2>3. CASE ReadArms
      <3>1. UNCHANGED vars /\ minted' = minted /\ task.stage # "none"
        BY <2>3 DEF ReadArms, vars
      <3>2. TestFits'
        <4>1. CASE Serves
          BY <1>1, <2>3, <3>1, <4>1 DEF ReadArms, TestFits
        <4>2. CASE ~Serves
          BY <1>1, <2>3, <3>1, <4>2, FailedTest DEF ReadArms
        <4>3. QED BY <4>1, <4>2
      <3>3. QED BY <2>2, <3>1, <3>2
    <2>4. CASE StartArm
      <3>1. UNCHANGED <<slugOf, minted, keys, req, crowded>> /\ task.stage = "arm"
        BY <2>4 DEF StartArm
      <3>2. CASE Serves
        <4>1. /\ task' = [task EXCEPT !.stage = "talk", !.open = @ + 1]
              /\ Insert(test.tenant, "sessions") /\ UNCHANGED test
          BY <2>4, <3>2 DEF StartArm
        <4>2. test.tenant \in Ids /\ "sessions" \in Tables
          BY <1>1, <3>1, Minted, Bounds DEF TestFits, Ids, Tables, Listed
        <4>3. Written
          BY <3>1, <4>1, <4>2, InsertIsWritten
        <4>4. TestFits'
          BY <1>1, <3>1, <4>1 DEF TestFits
        <4>5. QED BY <1>1, <3>1, <4>3, <4>4, NothingAsked
      <3>3. CASE ~Serves
        <4>1. Failed(task.open) /\ UNCHANGED <<rows, late>>
          BY <2>4, <3>3 DEF StartArm
        <4>2. Written
          BY <4>1, SameRowsAreWritten
        <4>3. QED BY <1>1, <3>1, <4>1, <4>2, FailedTest, NothingAsked
      <3>4. QED BY <3>2, <3>3
    <2>5. CASE EndArm
      <3>1. UNCHANGED vars /\ minted' = minted /\ task.stage # "none"
        BY <2>5 DEF EndArm, vars
      <3>2. TestFits'
        <4>1. CASE Serves
          <5>1. task.stage = "talk" /\ UNCHANGED test
                /\ task' = [task EXCEPT !.stage = "progress", !.open = @ - 1, !.ran = Append(@, ArmOf(Len(@)))]
            BY <2>5, <4>1 DEF EndArm
          <5>2. DOMAIN task' = DOMAIN task
            BY <5>1
          <5>3. QED BY <1>1, <3>1, <5>1, <5>2 DEF TestFits
        <4>2. CASE ~Serves
          BY <1>1, <2>5, <3>1, <4>2, FailedTest DEF EndArm
        <4>3. QED BY <4>1, <4>2
      <3>3. QED BY <2>2, <3>1, <3>2
    <2>6. CASE Progress
      <3>1. UNCHANGED vars /\ minted' = minted /\ task.stage # "none"
        BY <2>6 DEF Progress, vars
      <3>2. TestFits'
        <4>1. CASE Stored
          BY <1>1, <2>6, <3>1, <4>1 DEF Progress, TestFits
        <4>2. CASE ~Stored
          BY <1>1, <2>6, <3>1, <4>2, FailedTest DEF Progress
        <4>3. QED BY <4>1, <4>2
      <3>3. QED BY <2>2, <3>1, <3>2
    <2>7. CASE Finish
      <3>1. UNCHANGED vars /\ minted' = minted /\ task.stage # "none"
        BY <2>7 DEF Finish, vars
      <3>2. TestFits'
        <4>1. CASE Stored
          BY <1>1, <2>7, <3>1, <4>1 DEF Finish, TestFits
        <4>2. CASE ~Stored
          BY <1>1, <2>7, <3>1, <4>2, FailedTest DEF Finish
        <4>3. QED BY <4>1, <4>2
      <3>3. QED BY <2>2, <3>1, <3>2
    <2>8. CASE TestFails
      <3>1. UNCHANGED vars /\ minted' = minted /\ Failed(task.open) /\ task.stage # "none"
        BY <2>8 DEF TestFails, Running, vars
      <3>2. QED BY <1>1, <2>2, <3>1, FailedTest
    <2>9. CASE TestCrash
      <3>1. /\ Crash /\ UNCHANGED test
            /\ task' = IF Running THEN [task EXCEPT !.stage = "over"] ELSE task
        BY <2>9 DEF TestCrash
      <3>2. TenancyInv' /\ Light /\ minted'.tenants \in Nat /\ minted'.tenants >= minted.tenants /\ minted' = minted
        BY <1>1, <3>1, CrashStep
      <3>3. TestFits'
        BY <1>1, <3>1, <3>2 DEF TestFits, Running
      <3>4. QED BY <3>2, <3>3 DEF Apart, Light
    <2>10. QED BY <2>1, <2>3, <2>4, <2>5, <2>6, <2>7, <2>8, <2>9 DEF Tests, TestStep
  <1>3. QED BY <1>1, <1>2, ApartStep DEF WorkspaceInv

-----------------------------------------------------------------------------
(***************************************************************************)
(* The bridge: what each step does to a call that is not excused.          *)
(***************************************************************************)
CallFits(c) ==
    c \notin excused =>
        /\ opened[c] \in {0, 1} /\ session[c] = opened[c]
        /\ \A r, o \in Same(c) : r = o
        /\ \A r \in Same(c) : /\ req[r].stage = "open" => opened[c] = 0
                              /\ req[r].stage = "converse" => req[r].key = session[c]

LEMMA CallsFit ==
    BridgeFits <=> /\ scope \in 0 .. minted.tenants /\ DOMAIN session = Calls /\ DOMAIN opened = Calls
                   /\ \A c \in Calls : CallFits(c)
  BY DEF BridgeFits, CallFits

\* A call whose entries and requests are left alone.
LEMMA CallStays ==
    ASSUME NEW c, CallFits(c), c \in excused => c \in excused', session'[c] = session[c], opened'[c] = opened[c],
           \A o \in Clients : req'[o] = req[o] \/ ~(req'[o].kind = "guide" /\ req'[o].arg = c)
    PROVE  CallFits(c)'
  <1>1. \A r \in Same(c)' : r \in Same(c) /\ req'[r] = req[r]
    BY DEF Same
  <1>2. QED BY <1>1 DEF CallFits

LEMMA ServedTenants ==
    ASSUME TablesFit, scope \in 0 .. minted.tenants
    PROVE  Served \subseteq 1 .. minted.tenants
  <1>1. ASSUME NEW x \in keys PROVE x.tenant \in 1 .. minted.tenants
    BY KeyType
  <1>2. scope # 0 => scope \in 1 .. minted.tenants
    BY Minted
  <1>3. QED BY <1>1, <1>2 DEF Served

LEMMA GuideStarts ==
    ASSUME TenancyInv, BridgeFits, NEW r \in Clients, NEW c \in Calls, Guide(r, c)
    PROVE  TenancyInv' /\ NoNewSave /\ BridgeFits'
  <1>1. TablesFit /\ RequestsFit
    BY DEF TenancyInv
  <1>2. /\ At(r, "closed") /\ UNCHANGED <<slugOf, minted, keys, rows, late, crowded, opened>>
    BY DEF Guide, Rest, History
  <1>3. PICK t \in Served \cup {0} :
          /\ t = 0 <=> Served = {}
          /\ scope' = IF mount = "app" /\ t # 0 THEN t ELSE scope
          /\ IF t = 0
             THEN UNCHANGED req /\ session' = [session EXCEPT ![c] = 0]
             ELSE /\ req' = [req EXCEPT ![r] = [Closed EXCEPT !.kind = "guide", !.tenant = t, !.key = Mapped(c), !.arg = c,
                                                  !.stage = IF Mapped(c) = 0 THEN "open" ELSE "converse"]]
                  /\ UNCHANGED session
          /\ excused' = IF t = 0 \/ Same(c) # {} THEN excused \cup {c} ELSE excused
    BY DEF Guide
  <1>4. /\ scope \in 0 .. minted.tenants /\ DOMAIN session = Calls /\ DOMAIN opened = Calls
        /\ \A d \in Calls : CallFits(d)
    BY CallsFit
  <1>5. t \in 0 .. minted.tenants /\ scope' \in 0 .. minted'.tenants
    BY <1>1, <1>2, <1>3, <1>4, ServedTenants, Minted
  <1>6. Written
    BY <1>2, SameRowsAreWritten
  <1>7. CASE t = 0
    <2>1. req' = req /\ session' = [session EXCEPT ![c] = 0] /\ excused' = excused \cup {c}
      BY <1>3, <1>7
    <2>2. TenancyInv' /\ NoNewSave
      <3>1. TenancyInv' /\ Apart
        BY <1>2, <1>6, <2>1, NothingAsked
      <3>2. QED BY <3>1 DEF Apart
    <2>3. ASSUME NEW d \in Calls PROVE CallFits(d)'
      <3>1. CASE d = c
        BY <2>1, <3>1 DEF CallFits
      <3>2. CASE d # c
        BY <1>2, <1>4, <2>1, <3>2, CallStays
      <3>3. QED BY <3>1, <3>2
    <2>4. DOMAIN session' = Calls /\ DOMAIN opened' = Calls
      BY <1>2, <1>4, <2>1
    <2>5. BridgeFits'
      BY <1>5, <2>3, <2>4 DEF BridgeFits, CallFits
    <2>6. QED BY <2>2, <2>5
  <1>8. CASE t # 0
    <2> DEFINE q == [Closed EXCEPT !.kind = "guide", !.tenant = t, !.key = Mapped(c), !.arg = c,
                                   !.stage = IF Mapped(c) = 0 THEN "open" ELSE "converse"]
    <2>1. req' = [req EXCEPT ![r] = q] /\ session' = session
      BY <1>3, <1>8
    <2>2. /\ DOMAIN q = Fields /\ q.kind = "guide" /\ q.tenant = t /\ q.key = Mapped(c) /\ q.arg = c
          /\ q.stage = IF Mapped(c) = 0 THEN "open" ELSE "converse"
      BY DEF Closed, Fields
    <2>3. PICK p : p = q
      OBVIOUS
    <2> HIDE DEF q
    <2>4. /\ DOMAIN p = Fields /\ p.kind = "guide" /\ p.tenant = t /\ p.key = Mapped(c) /\ p.arg = c
          /\ p.stage = IF Mapped(c) = 0 THEN "open" ELSE "converse"
          /\ req' = [req EXCEPT ![r] = p]
      BY <2>1, <2>2, <2>3
    <2>5. RequestFits(p)
      BY <1>5, <1>8, <2>4 DEF RequestFits, Stages, Tenanted, Creating, CopilotKinds, None
    <2>6. p.kind \notin Held
      BY <2>4 DEF Held
    <2>7. TenancyInv' /\ \A o \in Clients : req'[o] = IF o = r THEN p ELSE req[o]
      <3>1. req' = [req EXCEPT ![r] = p] /\ UNCHANGED <<slugOf, minted, keys, crowded>>
        BY <1>2, <2>4
      <3>2. QED BY <1>6, <2>5, <2>6, <3>1, SetStep
    <2>8. NoNewSave
      BY <2>4, <2>7 DEF NoNewSave
    <2>9. ASSUME NEW d \in Calls PROVE CallFits(d)'
      <3>1. CASE d # c
        <4>1. \A o \in Clients : req'[o] = req[o] \/ ~(req'[o].kind = "guide" /\ req'[o].arg = d)
          BY <2>4, <2>7, <3>1
        <4>2. d \in excused => d \in excused'
          BY <1>3
        <4>3. QED BY <1>2, <1>4, <2>1, <4>1, <4>2, CallStays
      <3>2. CASE d = c /\ (c \in excused \/ Same(c) # {})
        BY <1>3, <3>2 DEF CallFits
      <3>3. CASE d = c /\ c \notin excused /\ Same(c) = {}
        <4>1. opened[c] \in {0, 1} /\ session[c] = opened[c]
          BY <1>4, <3>3 DEF CallFits
        <4>2. \A o \in Same(c)' : o = r
          BY <2>7, <3>3 DEF Same
        <4>3. req'[r] = p
          BY <2>7
        <4>4. QED BY <1>2, <2>1, <2>4, <3>3, <4>1, <4>2, <4>3 DEF CallFits, Mapped
      <3>4. QED BY <3>1, <3>2, <3>3
    <2>10. DOMAIN session' = Calls /\ DOMAIN opened' = Calls
      BY <1>2, <1>4, <2>1
    <2>11. BridgeFits'
      BY <1>5, <2>9, <2>10 DEF BridgeFits, CallFits
    <2>12. QED BY <2>7, <2>8, <2>11
  <1>9. QED BY <1>7, <1>8

LEMMA SessionOpens ==
    ASSUME TenancyInv, BridgeFits, NEW r \in Clients, OpenSession(r)
    PROVE  TenancyInv' /\ NoNewSave /\ BridgeFits'
  <1>1. TablesFit /\ RequestsFit /\ RequestFits(req[r])
    BY DEF TenancyInv, RequestsFit
  <1>2. Is(r, "guide", "open") /\ Insert(req[r].tenant, "sessions")
        /\ UNCHANGED <<slugOf, minted, keys, crowded, mount, scope, excused>>
    BY DEF OpenSession
  <1>3. PICK c \in Calls : c = req[r].arg
    BY <1>1, <1>2 DEF RequestFits, Is
  <1> DEFINE q == [req[r] EXCEPT !.stage = "converse", !.key = opened[c] + 1]
  <1>4. /\ opened' = [opened EXCEPT ![c] = @ + 1] /\ session' = [session EXCEPT ![c] = opened[c] + 1]
        /\ req' = [req EXCEPT ![r] = q]
    BY <1>3 DEF OpenSession
  <1>5. /\ DOMAIN q = Fields /\ q.kind = "guide" /\ q.tenant = req[r].tenant /\ q.arg = c /\ q.stage = "converse"
        /\ q.key = opened[c] + 1
    BY <1>1, <1>2, <1>3 DEF RequestFits, Fields, Is
  <1>6. PICK p : p = q
    OBVIOUS
  <1> HIDE DEF q
  <1>7. /\ DOMAIN p = Fields /\ p.kind = "guide" /\ p.tenant = req[r].tenant /\ p.arg = c /\ p.stage = "converse"
        /\ p.key = opened[c] + 1 /\ req' = [req EXCEPT ![r] = p]
    BY <1>4, <1>5, <1>6
  <1>8. req[r].tenant \in 1 .. minted.tenants /\ req[r].tenant \in Ids
    BY <1>1, <1>2, TenantOfRequest DEF Tenanted, Is
  <1>9. RequestFits(p) /\ p.kind \notin Held
    <2>1. p.tenant \in 0 .. minted.tenants /\ p.tenant # 0
      BY <1>1, <1>7, <1>8, Minted
    <2>2. QED BY <1>7, <2>1 DEF RequestFits, Stages, Tenanted, Creating, CopilotKinds, None, Held
  <1>10. Written
    <2>1. "sessions" \in Tables
      BY DEF Tables, Listed
    <2>2. QED BY <1>2, <1>8, <2>1, InsertIsWritten
  <1>11. TenancyInv' /\ \A o \in Clients : req'[o] = IF o = r THEN p ELSE req[o]
    BY <1>2, <1>7, <1>9, <1>10, SetStep
  <1>12. NoNewSave
    BY <1>7, <1>11 DEF NoNewSave
  <1>13. /\ scope \in 0 .. minted.tenants /\ DOMAIN session = Calls /\ DOMAIN opened = Calls
         /\ \A d \in Calls : CallFits(d)
    BY CallsFit
  <1>14. ASSUME NEW d \in Calls PROVE CallFits(d)'
    <2>1. CASE d # c
      <3>1. \A o \in Clients : req'[o] = req[o] \/ ~(req'[o].kind = "guide" /\ req'[o].arg = d)
        BY <1>7, <1>11, <2>1
      <3>2. opened'[d] = opened[d] /\ session'[d] = session[d]
        BY <1>4, <2>1
      <3>3. QED BY <1>2, <1>13, <3>1, <3>2, CallStays
    <2>2. CASE d = c /\ c \notin excused
      <3>1. r \in Same(c) /\ opened[c] = 0
        BY <1>2, <1>3, <1>13, <2>2 DEF Same, Is, CallFits
      <3>2. \A o \in Same(c)' : o = r
        <4>1. \A o \in Same(c)' : o \in Same(c)
          BY <1>11, <3>1 DEF Same
        <4>2. QED BY <1>13, <2>2, <3>1, <4>1 DEF CallFits
      <3>3. opened'[c] = 1 /\ session'[c] = 1 /\ p.key = 1
        BY <1>4, <1>7, <1>13, <3>1
      <3>4. req'[r] = p
        BY <1>11
      <3>5. QED BY <1>7, <2>2, <3>2, <3>3, <3>4 DEF CallFits
    <2>3. CASE d = c /\ c \in excused
      BY <1>2, <2>3 DEF CallFits
    <2>4. QED BY <2>1, <2>2, <2>3
  <1>15. BridgeFits'
    BY <1>2, <1>4, <1>13, <1>14 DEF BridgeFits, CallFits
  <1>16. QED BY <1>11, <1>12, <1>15

LEMMA GuidesStep ==
    ASSUME WorkspaceInv, Guides
    PROVE  WorkspaceInv'
  <1>1. TenancyInv /\ TablesFit /\ RequestsFit /\ TestFits /\ BridgeFits /\ CopilotFits
        /\ testVars' = testVars /\ copilotVars' = copilotVars
    BY DEF Guides, WorkspaceInv, TenancyInv
  <1>2. TenancyInv' /\ NoNewSave /\ BridgeFits' /\ minted' = minted
    <2>1. ASSUME NEW r \in Clients, NEW c \in Calls, Guide(r, c)
          PROVE  TenancyInv' /\ NoNewSave /\ BridgeFits' /\ minted' = minted
      BY <1>1, <2>1, GuideStarts DEF Guide
    <2>2. ASSUME NEW r \in Clients, OpenSession(r) PROVE TenancyInv' /\ NoNewSave /\ BridgeFits' /\ minted' = minted
      BY <1>1, <2>2, SessionOpens DEF OpenSession
    <2>3. ASSUME NEW r \in Clients, Converse(r) PROVE TenancyInv' /\ NoNewSave /\ BridgeFits' /\ minted' = minted
      <3>1. Close(r) /\ UNCHANGED <<slugOf, minted, keys, rows, late, crowded>> /\ bridgeVars' = bridgeVars
        BY <2>3 DEF Converse, Rest, History
      <3>2. TenancyInv' /\ Apart
        BY <1>1, <3>1, FailStep
      <3>3. BridgeFits'
        BY <1>1, <3>1, <3>2, BridgeStays DEF Apart
      <3>4. QED BY <3>1, <3>2, <3>3 DEF Apart
    <2>4. ASSUME NEW r \in Clients, GuideFails(r) PROVE TenancyInv' /\ NoNewSave /\ BridgeFits' /\ minted' = minted
      <3>1. /\ Close(r) /\ UNCHANGED <<slugOf, minted, keys, rows, late, crowded, scope, opened>>
            /\ session' = [session EXCEPT ![req[r].arg] = 0] /\ excused' = excused \cup {req[r].arg}
        BY <2>4 DEF GuideFails, Rest, History
      <3>2. TenancyInv' /\ Apart
        BY <1>1, <3>1, FailStep
      <3>3. PICK c : c = req[r].arg
        OBVIOUS
      <3>4. /\ scope \in 0 .. minted.tenants /\ DOMAIN session = Calls /\ DOMAIN opened = Calls
            /\ \A d \in Calls : CallFits(d)
        BY <1>1, CallsFit
      <3>5. ASSUME NEW d \in Calls PROVE CallFits(d)'
        <4>1. CASE d = c
          BY <3>1, <3>3, <4>1 DEF CallFits
        <4>2. CASE d # c
          <5>1. \A o \in Clients : req'[o] = req[o] \/ ~(req'[o].kind = "guide" /\ req'[o].arg = d)
            BY <3>2 DEF Apart, Kept
          <5>2. session'[d] = session[d]
            BY <3>1, <3>3, <4>2
          <5>3. QED BY <3>1, <3>4, <5>1, <5>2, CallStays
        <4>3. QED BY <4>1, <4>2
      <3>6. BridgeFits'
        BY <3>1, <3>4, <3>5 DEF BridgeFits, CallFits
      <3>7. QED BY <3>1, <3>2, <3>6 DEF Apart
    <2>5. CASE BridgeCrash
      <3>1. Crash /\ scope' = 0 /\ session' = [c \in Calls |-> 0] /\ excused' = Calls /\ opened' = opened
        BY <2>5 DEF BridgeCrash
      <3>2. TenancyInv' /\ Light /\ minted' = minted
        BY <1>1, <3>1, CrashStep
      <3>3. scope' \in 0 .. minted'.tenants
        BY <1>1, <3>1, <3>2, Minted
      <3>4. BridgeFits'
        BY <1>1, <3>1, <3>3 DEF BridgeFits
      <3>5. QED BY <3>2, <3>4 DEF Light
    <2>6. QED BY <2>1, <2>2, <2>3, <2>4, <2>5 DEF Guides, GuideStep
  <1>3. minted'.tenants \in Nat /\ minted'.tenants >= minted.tenants
    BY <1>1, <1>2, Minted
  <1>4. TestFits' /\ CopilotFits'
    BY <1>1, <1>2, <1>3, TestStays, CopilotStays
  <1>5. QED BY <1>2, <1>4 DEF WorkspaceInv

-----------------------------------------------------------------------------
(***************************************************************************)
(* The copilot: the order of the conversation, the facts, the saves.       *)
(***************************************************************************)
Ordered(s) ==
    \A i \in DOMAIN s : s[i].role = "assistant" => i > 1 /\ s[i - 1] = Said("user", s[i].by)
Conversations == messages \in [Ids -> Seq(Messages)] /\ AnswersFollowQuestions
Facts == TitlesAreUnique /\ SavesFit

LEMMA CopilotParts == CopilotFits <=> Conversations /\ Facts
  BY DEF CopilotFits, Conversations, Facts, MemoryIsSound

LEMMA Sayings ==
    ASSUME NEW r \in Clients
    PROVE  /\ Said("user", r) \in Messages /\ Said("user", r).role = "user"
           /\ Said("assistant", r) \in Messages /\ Said("assistant", r).role = "assistant" /\ Said("assistant", r).by = r
  BY DEF Said, Messages

\* A question, or a question with its answer, leaves a conversation in order.
LEMMA QuestionAppended ==
    ASSUME NEW s \in Seq(Messages), Ordered(s), NEW r \in Clients
    PROVE  Append(s, Said("user", r)) \in Seq(Messages) /\ Ordered(Append(s, Said("user", r)))
  <1>1. PICK u : u = Said("user", r)
    OBVIOUS
  <1>2. u \in Messages /\ u.role # "assistant"
    BY <1>1, Sayings
  <1>3. /\ Append(s, u) \in Seq(Messages) /\ DOMAIN Append(s, u) = 1 .. Len(s) + 1 /\ Len(s) \in Nat
        /\ Append(s, u)[Len(s) + 1] = u /\ \A i \in 1 .. Len(s) : Append(s, u)[i] = s[i]
    BY <1>2
  <1>4. ASSUME NEW i \in DOMAIN Append(s, u), Append(s, u)[i].role = "assistant"
        PROVE  i > 1 /\ Append(s, u)[i - 1] = Said("user", Append(s, u)[i].by)
    <2>1. i \in 1 .. Len(s) /\ Append(s, u)[i] = s[i]
      BY <1>2, <1>3, <1>4
    <2>2. i > 1 /\ s[i - 1] = Said("user", s[i].by)
      BY <1>4, <2>1 DEF Ordered
    <2>3. i - 1 \in 1 .. Len(s)
      BY <1>3, <2>1, <2>2
    <2>4. QED BY <1>3, <2>1, <2>2, <2>3
  <1>5. QED BY <1>1, <1>3, <1>4 DEF Ordered

LEMMA AnswerAppended ==
    ASSUME NEW s \in Seq(Messages), Ordered(s), NEW r \in Clients
    PROVE  /\ s \o <<Said("user", r), Said("assistant", r)>> \in Seq(Messages)
           /\ Ordered(s \o <<Said("user", r), Said("assistant", r)>>)
  <1>1. PICK u, a : u = Said("user", r) /\ a = Said("assistant", r)
    OBVIOUS
  <1>2. u \in Messages /\ u.role # "assistant" /\ a \in Messages /\ a.by = r
    BY <1>1, Sayings
  <1>3. <<u, a>> \in Seq(Messages) /\ Len(<<u, a>>) = 2 /\ <<u, a>>[1] = u /\ <<u, a>>[2] = a
    BY <1>2
  <1>4. PICK e : e = s \o <<u, a>>
    OBVIOUS
  <1>5. /\ e \in Seq(Messages) /\ Len(e) = Len(s) + 2 /\ Len(s) \in Nat /\ DOMAIN e = 1 .. Len(s) + 2 /\ DOMAIN s = 1 .. Len(s)
        /\ \A i \in 1 .. Len(s) + 2 : e[i] = IF i <= Len(s) THEN s[i] ELSE <<u, a>>[i - Len(s)]
    <2>1. e \in Seq(Messages) /\ Len(e) = Len(s) + 2
          /\ \A i \in 1 .. Len(s) + 2 : e[i] = IF i <= Len(s) THEN s[i] ELSE <<u, a>>[i - Len(s)]
      BY <1>3, <1>4, ConcatProperties
    <2>2. QED BY <2>1, LenProperties
  <1>6. e[Len(s) + 1] = u /\ e[Len(s) + 2] = a /\ \A i \in 1 .. Len(s) : e[i] = s[i]
    <2>1. Len(s) + 1 \in 1 .. Len(s) + 2 /\ Len(s) + 2 \in 1 .. Len(s) + 2 /\ (Len(s) + 1) - Len(s) = 1 /\ (Len(s) + 2) - Len(s) = 2
          /\ ~(Len(s) + 1 <= Len(s)) /\ ~(Len(s) + 2 <= Len(s)) /\ \A i \in 1 .. Len(s) : i \in 1 .. Len(s) + 2 /\ i <= Len(s)
      BY <1>5
    <2>2. QED BY <1>3, <1>5, <2>1
  <1>7. ASSUME NEW i \in DOMAIN e, e[i].role = "assistant"
        PROVE  i > 1 /\ e[i - 1] = Said("user", e[i].by)
    <2>1. CASE i \in 1 .. Len(s)
      <3>1. e[i] = s[i] /\ i > 1 /\ s[i - 1] = Said("user", s[i].by)
        BY <1>5, <1>6, <1>7, <2>1 DEF Ordered
      <3>2. i - 1 \in 1 .. Len(s)
        BY <1>5, <2>1, <3>1
      <3>3. QED BY <1>6, <3>1, <3>2
    <2>2. CASE i = Len(s) + 1
      BY <1>2, <1>6, <1>7, <2>2
    <2>3. CASE i = Len(s) + 2
      <3>1. i > 1 /\ i - 1 = Len(s) + 1
        BY <1>5, <2>3
      <3>2. QED BY <1>1, <1>2, <1>6, <2>3, <3>1
    <2>4. QED BY <1>5, <2>1, <2>2, <2>3
  <1>8. Ordered(e)
    BY <1>7 DEF Ordered
  <1>9. QED BY <1>1, <1>4, <1>5, <1>8

LEMMA ConversationSet ==
    ASSUME Conversations, NEW t \in Ids, NEW s \in Seq(Messages), Ordered(s), messages' = [messages EXCEPT ![t] = s]
    PROVE  Conversations'
  <1>1. messages' \in [Ids -> Seq(Messages)] /\ messages'[t] = s /\ \A u \in Ids \ {t} : messages'[u] = messages[u]
    BY DEF Conversations
  <1>2. ASSUME NEW u \in Ids PROVE Ordered(messages'[u])
    <2>1. CASE u = t
      BY <1>1, <2>1
    <2>2. CASE u # t
      BY <1>1, <2>2 DEF Conversations, AnswersFollowQuestions, Ordered
    <2>3. QED BY <2>1, <2>2
  <1>3. QED BY <1>1, <1>2 DEF Conversations, AnswersFollowQuestions, Ordered

LEMMA Conversation ==
    ASSUME Conversations, NEW t \in Ids
    PROVE  messages[t] \in Seq(Messages) /\ Ordered(messages[t])
  BY DEF Conversations, AnswersFollowQuestions, Ordered

\* Facts are only forgotten, titles only looked up: what the saves found still stands.
LEMMA FactsStay ==
    ASSUME Facts, memory' \subseteq memory, looked \subseteq looked', NoNewSave
    PROVE  Facts'
  <1>1. TitlesAreUnique'
    BY DEF Facts, TitlesAreUnique
  <1>2. \A r \in Clients : At(r, "save")' => req'[r] = req[r] /\ At(r, "save")
    BY DEF At, NoNewSave
  <1>3. \A r, o \in Clients : At(r, "save")' /\ At(o, "save")' /\ req'[r].arg = req'[o].arg /\ req'[r].arg # None =>
          r = o \/ req'[r].arg \in looked'
    BY <1>2 DEF Facts, SavesFit
  <1>4. \A t, title : About(t, title)' \subseteq About(t, title)
    BY DEF About
  <1>5. ASSUME NEW r \in Clients, At(r, "save")', req'[r].arg # None, req'[r].doomed = {}
        PROVE  req'[r].arg \in looked' \/ About(req[r].tenant, req[r].arg)' = {}
    <2>1. req[r].arg \in looked \/ About(req[r].tenant, req[r].arg) = {}
      BY <1>2, <1>5 DEF Facts, SavesFit
    <2>2. About(req[r].tenant, req[r].arg)' \subseteq About(req[r].tenant, req[r].arg)
      BY <1>2, <1>5 DEF About
    <2>3. QED BY <1>2, <1>5, <2>1, <2>2
  <1>6. QED BY <1>1, <1>3, <1>5 DEF Facts, SavesFit

\* A request of the copilot goes on: to another stage, with what it has found.
LEMMA GoesOn ==
    ASSUME TenancyInv, NEW r \in Clients, req[r].kind \in CopilotKinds, NEW stage \in {"insert", "think", "save"}, NEW D,
           req' = [req EXCEPT ![r] = [req[r] EXCEPT !.stage = stage, !.doomed = D]],
           UNCHANGED <<slugOf, minted, keys, rows, late, crowded>>
    PROVE  /\ TenancyInv' /\ Kept({"guide"}) /\ \A o \in Clients \ {r} : req'[o] = req[o]
           /\ req'[r].stage = stage /\ req'[r].doomed = D /\ req'[r].tenant = req[r].tenant /\ req'[r].arg = req[r].arg
           /\ stage # "save" => NoNewSave
  <1>1. RequestFits(req[r])
    BY DEF TenancyInv, RequestsFit
  <1>2. PICK p : p = [req[r] EXCEPT !.stage = stage, !.doomed = D]
    OBVIOUS
  <1>3. /\ DOMAIN p = Fields /\ p.kind = req[r].kind /\ p.tenant = req[r].tenant /\ p.arg = req[r].arg
        /\ p.slug = req[r].slug /\ p.stage = stage /\ p.doomed = D
    BY <1>1, <1>2 DEF RequestFits, Fields
  <1>4. RequestFits(p) /\ p.kind \notin Held /\ p.kind # "guide"
    BY <1>1, <1>3 DEF RequestFits, CopilotKinds, Held, Creating, None, Stages
  <1>5. Written /\ req' = [req EXCEPT ![r] = p]
    BY <1>2, SameRowsAreWritten
  <1>6. TenancyInv' /\ \A o \in Clients : req'[o] = IF o = r THEN p ELSE req[o]
    BY <1>4, <1>5, SetStep
  <1>7. QED BY <1>3, <1>4, <1>6 DEF Kept, NoNewSave

LEMMA CopilotRequest ==
    ASSUME TenancyInv, NEW r \in Clients, req[r].kind \in CopilotKinds
    PROVE  req[r].tenant \in Ids /\ RequestFits(req[r])
  <1>1. req[r].kind \in Tenanted
    BY DEF Tenanted
  <1>2. QED BY <1>1, TenantOfRequest DEF TenancyInv, RequestsFit

\* What is kept of the rest of the workspace by a step of the copilot.
CopilotKeeps == TenancyInv' /\ Kept({"guide"}) /\ minted' = minted /\ CopilotFits'

LEMMA CopilotCloses ==
    ASSUME TenancyInv, CopilotFits, NEW r \in Clients, Close(r), UNCHANGED <<slugOf, minted, keys, late, crowded>>, Written,
           Conversations', memory' \subseteq memory, looked \subseteq looked'
    PROVE  CopilotKeeps
  <1>1. TenancyInv' /\ Apart
    BY WriteStep
  <1>2. Facts'
    BY <1>1, CopilotParts, FactsStay DEF Apart
  <1>3. Conversations' /\ Facts' => CopilotFits'
    BY DEF CopilotFits, Conversations, Facts, MemoryIsSound
  <1>4. QED BY <1>1, <1>2, <1>3 DEF CopilotKeeps, Apart

LEMMA ConversationsStay ==
    ASSUME Conversations, messages' = messages
    PROVE  Conversations'
  BY DEF Conversations, AnswersFollowQuestions

LEMMA PartsNext == Conversations' /\ Facts' => CopilotFits'
  BY DEF CopilotFits, Conversations, Facts, MemoryIsSound

LEMMA AskCopilotStep ==
    ASSUME TenancyInv, CopilotFits, NEW r \in Clients, NEW kind \in CopilotKinds, NEW k, NEW title,
           AskCopilot(r, kind, k, title)
    PROVE  CopilotKeeps
  <1>1. PICK stage : stage = CASE kind = "assist" -> "open" [] kind = "remember" -> "think" [] OTHER -> "commit"
    OBVIOUS
  <1>2. Resolve(r, kind, k, stage, title) /\ UNCHANGED copilotVars
    BY <1>1 DEF AskCopilot
  <1>3. stage \in {"commit", "open", "think"} /\ kind # "write"
    BY <1>1 DEF CopilotKinds
  <1>4. TenancyInv' /\ Apart
    BY <1>2, <1>3, ResolveStep
  <1>5. CopilotFits'
    BY <1>2, <1>4, CopilotStays DEF Apart
  <1>6. QED BY <1>2, <1>4, <1>5 DEF CopilotKeeps, Apart, Resolve

LEMMA OpenThreadStep ==
    ASSUME TenancyInv, CopilotFits, NEW r \in Clients, OpenThread(r)
    PROVE  CopilotKeeps
  <1>1. PICK stage \in {"insert", "think"} : stage = IF req[r].tenant \in thread THEN "think" ELSE "insert"
    OBVIOUS
  <1>2. /\ req[r].kind \in CopilotKinds /\ UNCHANGED <<slugOf, minted, keys, rows, late, crowded>> /\ copilotVars' = copilotVars
        /\ req' = [req EXCEPT ![r].stage = stage]
    BY <1>1 DEF OpenThread, KeepTenants, Rest, History, Is, CopilotKinds
  <1>3. [req[r] EXCEPT !.stage = stage] = [req[r] EXCEPT !.stage = stage, !.doomed = req[r].doomed]
    BY <1>2, CopilotRequest DEF RequestFits, Fields
  <1>4. req' = [req EXCEPT ![r] = [req[r] EXCEPT !.stage = stage, !.doomed = req[r].doomed]]
    BY <1>2, <1>3
  <1>5. TenancyInv' /\ Kept({"guide"}) /\ NoNewSave
    BY <1>1, <1>2, <1>4, GoesOn
  <1>6. CopilotFits'
    BY <1>2, <1>5, CopilotStays
  <1>7. QED BY <1>2, <1>5, <1>6 DEF CopilotKeeps

LEMMA InsertThreadStep ==
    ASSUME TenancyInv, CopilotFits, NEW r \in Clients, InsertThread(r)
    PROVE  CopilotKeeps
  <1>1. /\ req[r].kind \in CopilotKinds /\ UNCHANGED <<slugOf, minted, keys, rows, late, crowded, messages, memory, looked>>
    BY DEF InsertThread, KeepTenants, Rest, History, Is, CopilotKinds
  <1>2. Conversations /\ Facts
    BY CopilotParts
  <1>3. Conversations' /\ Written
    BY <1>1, <1>2, ConversationsStay, SameRowsAreWritten
  <1>4. CASE Close(r)
    BY <1>1, <1>3, <1>4, CopilotCloses
  <1>5. CASE req' = [req EXCEPT ![r].stage = "think"]
    <2>1. [req[r] EXCEPT !.stage = "think"] = [req[r] EXCEPT !.stage = "think", !.doomed = req[r].doomed]
      BY <1>1, CopilotRequest DEF RequestFits, Fields
    <2>2. req' = [req EXCEPT ![r] = [req[r] EXCEPT !.stage = "think", !.doomed = req[r].doomed]]
      BY <1>5, <2>1
    <2>3. TenancyInv' /\ Kept({"guide"}) /\ NoNewSave
      BY <1>1, <2>2, GoesOn
    <2>4. Facts'
      BY <1>1, <1>2, <2>3, FactsStay
    <2>5. QED BY <1>1, <1>3, <2>3, <2>4, PartsNext DEF CopilotKeeps
  <1>6. QED BY <1>4, <1>5 DEF InsertThread

LEMMA CommitQuestionStep ==
    ASSUME TenancyInv, CopilotFits, NEW r \in Clients, CommitQuestion(r)
    PROVE  CopilotKeeps
  <1>1. PICK t : t = req[r].tenant
    OBVIOUS
  <1>2. /\ req[r].kind \in CopilotKinds /\ Close(r) /\ UNCHANGED <<slugOf, minted, keys, late, crowded, memory, looked>>
        /\ messages' = [messages EXCEPT ![t] = Append(@, Said("user", r))]
        /\ rows' = rows \cup {Row(t, "copilot")}
    BY <1>1 DEF CommitQuestion, KeepTenants, Rest, History, Is, CopilotKinds
  <1>3. t \in Ids
    BY <1>1, <1>2, CopilotRequest
  <1>4. Written
    BY <1>2, <1>3, CopilotRowIsWritten
  <1>5. Conversations'
    <2>1. Conversations /\ messages[t] \in Seq(Messages) /\ Ordered(messages[t])
      BY <1>3, CopilotParts, Conversation
    <2>2. PICK s : s = Append(messages[t], Said("user", r))
      OBVIOUS
    <2>3. s \in Seq(Messages) /\ Ordered(s) /\ messages' = [messages EXCEPT ![t] = s]
      BY <1>2, <2>1, <2>2, QuestionAppended
    <2>4. QED BY <1>3, <2>1, <2>3, ConversationSet
  <1>6. QED BY <1>2, <1>4, <1>5, CopilotCloses

LEMMA RecallStep ==
    ASSUME TenancyInv, CopilotFits, NEW r \in Clients, Recall(r)
    PROVE  CopilotKeeps
  <1>1. PICK D : D = {x.id : x \in Found(r)}
    OBVIOUS
  <1>2. /\ At(r, "think") /\ UNCHANGED <<slugOf, minted, keys, rows, late, crowded, messages, memory>>
        /\ looked' = IF req[r].arg # None /\ \E o \in Clients \ {r} : At(o, "save") /\ req[o].arg = req[r].arg
                     THEN looked \cup {req[r].arg} ELSE looked
        /\ Close(r) \/ req' = [req EXCEPT ![r].stage = "save", ![r].doomed = D]
    BY <1>1 DEF Recall, KeepTenants, Rest, History
  <1>3. req[r].kind \in CopilotKinds
    BY <1>2 DEF TenancyInv, RequestsFit, RequestFits, At
  <1>4. Conversations /\ Facts
    BY CopilotParts
  <1>5. Conversations' /\ Written /\ looked \subseteq looked'
    BY <1>2, <1>4, ConversationsStay, SameRowsAreWritten
  <1>6. CASE Close(r)
    BY <1>2, <1>5, <1>6, CopilotCloses
  <1>7. CASE req' = [req EXCEPT ![r].stage = "save", ![r].doomed = D]
    <2>1. req' = [req EXCEPT ![r] = [req[r] EXCEPT !.stage = "save", !.doomed = D]]
      BY <1>7
    <2>2. /\ TenancyInv' /\ Kept({"guide"}) /\ \A o \in Clients \ {r} : req'[o] = req[o]
          /\ req'[r].stage = "save" /\ req'[r].doomed = D /\ req'[r].tenant = req[r].tenant /\ req'[r].arg = req[r].arg
      BY <1>2, <1>3, <2>1, GoesOn
    <2>3. TitlesAreUnique'
      BY <1>2, <1>4, <1>5 DEF Facts, TitlesAreUnique
    <2>4. SavesFit'
      <3>1. ASSUME NEW o \in Clients, NEW p \in Clients, At(o, "save")', At(p, "save")', req'[o].arg = req'[p].arg,
                   req'[o].arg # None, o # p
            PROVE  req'[o].arg \in looked'
        <4>1. CASE o # r /\ p # r
          BY <1>4, <1>5, <2>2, <3>1, <4>1 DEF Facts, SavesFit, At
        <4>2. CASE o = r /\ p # r
          BY <1>2, <2>2, <3>1, <4>2 DEF At
        <4>3. CASE o # r /\ p = r
          BY <1>2, <2>2, <3>1, <4>3 DEF At
        <4>4. QED BY <3>1, <4>1, <4>2, <4>3
      <3>2. ASSUME NEW o \in Clients, At(o, "save")', req'[o].arg # None, req'[o].doomed = {}
            PROVE  req'[o].arg \in looked' \/ About(req[o].tenant, req[o].arg)' = {}
        <4>1. PICK t, title : t = req'[o].tenant /\ title = req'[o].arg
          OBVIOUS
        <4>2. About(req[o].tenant, req[o].arg)' = About(t, title)
          BY <1>2, <4>1 DEF About
        <4>3. title \in looked' \/ About(t, title) = {}
          <5>1. CASE o = r
            <6>1. Found(r) = {} /\ t = req[r].tenant /\ title = req[r].arg
              BY <1>1, <2>2, <3>2, <4>1, <5>1
            <6>2. QED BY <6>1 DEF Found
          <5>2. CASE o # r
            BY <1>4, <1>5, <2>2, <3>2, <4>1, <5>2 DEF Facts, SavesFit, At
          <5>3. QED BY <5>1, <5>2
        <4>4. QED BY <4>1, <4>2, <4>3
      <3>3. QED BY <3>1, <3>2 DEF SavesFit
    <2>5. QED BY <1>2, <1>5, <2>2, <2>3, <2>4, PartsNext DEF CopilotKeeps, Facts
  <1>8. QED BY <1>2, <1>6, <1>7

\* A fact is remembered: nobody has another of its title, unless it was looked up meanwhile.
LEMMA FactRemembered ==
    ASSUME Facts, NEW r \in Clients, At(r, "save"), req[r].arg # None, req[r].doomed = {}, NEW n,
           memory' = memory \cup {[id |-> n, tenant |-> req[r].tenant, title |-> req[r].arg]},
           looked' = looked, req'[r] = Closed, NoNewSave
    PROVE  Facts'
  <1>1. PICK f : f = [id |-> n, tenant |-> req[r].tenant, title |-> req[r].arg]
    OBVIOUS
  <1>2. f.tenant = req[r].tenant /\ f.title = req[r].arg /\ memory' = memory \cup {f}
    BY <1>1
  <1>3. f.title \in looked \/ About(f.tenant, f.title) = {}
    BY <1>2 DEF Facts, SavesFit
  <1>4. TitlesAreUnique'
    <2> SUFFICES ASSUME NEW x \in memory', NEW y \in memory', x.tenant = y.tenant, x.title = y.title, x # y
                 PROVE  x.title \in looked
      BY DEF TitlesAreUnique
    <2>1. CASE x \in memory /\ y \in memory
      BY <2>1 DEF Facts, TitlesAreUnique
    <2>2. CASE x = f /\ y \in memory
      BY <1>3, <2>2 DEF About
    <2>3. CASE x \in memory /\ y = f
      BY <1>3, <2>3 DEF About
    <2>4. QED BY <1>2, <2>1, <2>2, <2>3
  <1>5. \A o \in Clients : At(o, "save")' => o # r /\ req'[o] = req[o] /\ At(o, "save")
    BY ClosedFits DEF At, NoNewSave
  <1>6. SavesFit'
    <2>1. \A o, p \in Clients : At(o, "save")' /\ At(p, "save")' /\ req'[o].arg = req'[p].arg /\ req'[o].arg # None =>
            o = p \/ req'[o].arg \in looked'
      BY <1>5 DEF Facts, SavesFit
    <2>2. ASSUME NEW o \in Clients, At(o, "save")', req'[o].arg # None, req'[o].doomed = {}
          PROVE  req'[o].arg \in looked' \/ About(req[o].tenant, req[o].arg)' = {}
      <3>1. PICK t, title : t = req'[o].tenant /\ title = req'[o].arg
        OBVIOUS
      <3>2. t = req[o].tenant /\ title = req[o].arg /\ o # r
        BY <1>5, <2>2, <3>1
      <3>3. title \in looked \/ (About(t, title) = {} /\ title # req[r].arg)
        BY <1>5, <2>2, <3>1, <3>2 DEF Facts, SavesFit
      <3>4. About(req[o].tenant, req[o].arg)' = {x \in memory' : x.tenant = t /\ x.title = title}
        BY <3>1 DEF About
      <3>5. title # req[r].arg => {x \in memory' : x.tenant = t /\ x.title = title} = About(t, title)
        BY <1>2 DEF About
      <3>6. QED BY <3>1, <3>3, <3>4, <3>5
    <2>3. QED BY <2>1, <2>2 DEF SavesFit
  <1>7. QED BY <1>4, <1>6 DEF Facts

LEMMA SaveStep ==
    ASSUME TenancyInv, CopilotFits, NEW r \in Clients, Save(r)
    PROVE  CopilotKeeps
  <1>1. PICK t : t = req[r].tenant
    OBVIOUS
  <1>2. At(r, "save") /\ Close(r) /\ UNCHANGED <<slugOf, minted, keys, late, crowded, looked>>
    BY DEF Save, KeepTenants, Rest, History
  <1>3. req[r].kind \in CopilotKinds
    BY <1>2 DEF TenancyInv, RequestsFit, RequestFits, At
  <1>4. t \in Ids
    BY <1>1, <1>3, CopilotRequest
  <1>5. Conversations /\ Facts
    BY CopilotParts
  <1>6. CASE req[r].doomed \subseteq {x.id : x \in memory}
    <2>1. /\ IF req[r].arg # None /\ req[r].doomed = {}
             THEN memory' = memory \cup {[id |-> facts + 1, tenant |-> req[r].tenant, title |-> req[r].arg]}
             ELSE memory' = memory
          /\ IF req[r].kind = "assist"
             THEN messages' = [messages EXCEPT ![t] = @ \o <<Said("user", r), Said("assistant", r)>>]
             ELSE messages' = messages
          /\ rows' = rows \cup {Row(t, "copilot")}
      BY <1>1, <1>6 DEF Save
    <2>2. Written
      BY <1>2, <1>4, <2>1, CopilotRowIsWritten
    <2>3. TenancyInv' /\ Apart /\ req'[r] = Closed
      BY <1>2, <2>2, WriteStep, CloseRequest, Minted DEF TenancyInv
    <2>4. Conversations'
      <3>1. CASE req[r].kind = "assist"
        <4>1. messages[t] \in Seq(Messages) /\ Ordered(messages[t])
          BY <1>4, <1>5, Conversation
        <4>2. PICK s : s = messages[t] \o <<Said("user", r), Said("assistant", r)>>
          OBVIOUS
        <4>3. s \in Seq(Messages) /\ Ordered(s) /\ messages' = [messages EXCEPT ![t] = s]
          BY <2>1, <3>1, <4>1, <4>2, AnswerAppended
        <4>4. QED BY <1>4, <1>5, <4>3, ConversationSet
      <3>2. CASE req[r].kind # "assist"
        BY <1>5, <2>1, <3>2, ConversationsStay
      <3>3. QED BY <3>1, <3>2
    <2>5. Facts'
      <3>1. NoNewSave
        BY <2>3 DEF Apart
      <3>2. CASE req[r].arg # None /\ req[r].doomed = {}
        <4>1. PICK n : n = facts + 1
          OBVIOUS
        <4>2. memory' = memory \cup {[id |-> n, tenant |-> req[r].tenant, title |-> req[r].arg]} /\ looked' = looked
          BY <1>2, <2>1, <3>2, <4>1
        <4>3. QED BY <1>2, <1>5, <2>3, <3>1, <3>2, <4>2, FactRemembered
      <3>3. CASE ~(req[r].arg # None /\ req[r].doomed = {})
        BY <1>2, <1>5, <2>1, <3>1, <3>3, FactsStay
      <3>4. QED BY <3>2, <3>3
    <2>6. QED BY <1>2, <2>3, <2>4, <2>5, PartsNext DEF CopilotKeeps, Apart
  <1>7. CASE ~(req[r].doomed \subseteq {x.id : x \in memory})
    <2>1. UNCHANGED <<memory, messages, rows>>
      BY <1>7 DEF Save
    <2>2. Conversations' /\ Written
      BY <1>2, <1>5, <2>1, ConversationsStay, SameRowsAreWritten
    <2>3. QED BY <1>2, <2>1, <2>2, CopilotCloses
  <1>8. QED BY <1>6, <1>7

LEMMA ClearStep ==
    ASSUME TenancyInv, CopilotFits, NEW r \in Clients, Clear(r)
    PROVE  CopilotKeeps
  <1>1. PICK t : t = req[r].tenant
    OBVIOUS
  <1>2. /\ req[r].kind \in CopilotKinds /\ Close(r) /\ UNCHANGED <<slugOf, minted, keys, rows, late, crowded, memory, looked>>
        /\ messages' = [messages EXCEPT ![t] = <<>>]
    BY <1>1 DEF Clear, KeepTenants, Rest, History, Is, CopilotKinds
  <1>3. t \in Ids /\ Written
    BY <1>1, <1>2, CopilotRequest, SameRowsAreWritten
  <1>4. <<>> \in Seq(Messages) /\ Ordered(<<>>)
    BY DEF Ordered
  <1>5. Conversations'
    BY <1>2, <1>3, <1>4, CopilotParts, ConversationSet
  <1>6. QED BY <1>2, <1>3, <1>5, CopilotCloses

LEMMA ForgetStep ==
    ASSUME TenancyInv, CopilotFits, NEW r \in Clients, Forget(r)
    PROVE  CopilotKeeps
  <1>1. /\ Close(r) /\ UNCHANGED <<slugOf, minted, keys, rows, late, crowded, messages, looked>> /\ memory' \subseteq memory
    BY DEF Forget, KeepTenants, Rest, History
  <1>2. Conversations' /\ Written
    BY <1>1, CopilotParts, ConversationsStay, SameRowsAreWritten
  <1>3. QED BY <1>1, <1>2, CopilotCloses

LEMMA RollBackStep ==
    ASSUME TenancyInv, CopilotFits, NEW r \in Clients, RollBack(r)
    PROVE  CopilotKeeps
  <1>1. Close(r) /\ UNCHANGED <<slugOf, minted, keys, rows, late, crowded, messages, memory, looked>>
    BY DEF RollBack, Fail, Rest, History
  <1>2. Conversations' /\ Written
    BY <1>1, CopilotParts, ConversationsStay, SameRowsAreWritten
  <1>3. QED BY <1>1, <1>2, CopilotCloses

LEMMA AssistsStep ==
    ASSUME WorkspaceInv, Assists
    PROVE  WorkspaceInv'
  <1>1. TenancyInv /\ TablesFit /\ TestFits /\ BridgeFits /\ CopilotFits /\ testVars' = testVars /\ bridgeVars' = bridgeVars
    BY DEF Assists, WorkspaceInv, TenancyInv
  <1>2. CopilotKeeps
    <2>1. CASE \E r \in Clients, kind \in CopilotKinds, k \in KeyIds, title \in Titles \cup {None} :
                  AskCopilot(r, kind, k, title)
      <3>1. PICK r \in Clients, kind \in CopilotKinds, k \in KeyIds, title \in Titles \cup {None} :
                  AskCopilot(r, kind, k, title)
        BY <2>1
      <3>2. QED BY <1>1, <3>1, AskCopilotStep
    <2>2. ASSUME NEW r \in Clients, CopilotStep(r) PROVE CopilotKeeps
      BY <1>1, <2>2, OpenThreadStep, InsertThreadStep, CommitQuestionStep, RecallStep, SaveStep, ClearStep, ForgetStep
         DEF CopilotStep
    <2>3. ASSUME NEW r \in Clients, RollBack(r) PROVE CopilotKeeps
      BY <1>1, <2>3, RollBackStep
    <2>4. CASE CopilotCrash
      <3>1. Crash /\ UNCHANGED <<messages, memory, looked>>
        BY <2>4 DEF CopilotCrash
      <3>2. TenancyInv' /\ Light /\ minted' = minted
        BY <1>1, <3>1, CrashStep
      <3>3. Conversations' /\ Facts'
        BY <1>1, <3>1, <3>2, CopilotParts, ConversationsStay, FactsStay DEF Light
      <3>4. QED BY <3>2, <3>3, PartsNext DEF CopilotKeeps, Light
    <2>5. QED BY <2>1, <2>2, <2>3, <2>4 DEF Assists
  <1>3. TestFits' /\ BridgeFits'
    BY <1>1, <1>2, Minted, TestStays, BridgeStays DEF CopilotKeeps
  <1>4. QED BY <1>2, <1>3 DEF WorkspaceInv, CopilotKeeps

-----------------------------------------------------------------------------
LEMMA TenantsStart ==
    ASSUME Init
    PROVE  TenancyInv
  <1>1. PICK s \in Slugs : slugOf = [t \in Ids |-> IF t = 1 THEN s ELSE None]
    BY DEF Init
  <1>2. PICK k : k = [id |-> 1, tenant |-> 1, label |-> "bootstrap", live |-> TRUE]
    OBVIOUS
  <1>3. /\ minted = [tenants |-> 1, keys |-> 1] /\ keys = {k} /\ rows = {Row(1, "projects")}
        /\ req = [r \in Clients |-> Closed] /\ late = {} /\ crowded = {}
    BY <1>2 DEF Init
  <1>4. minted.tenants = 1 /\ minted.keys = 1 /\ minted \in [tenants : Ids, keys : 1 .. MaxKeys]
    BY <1>3, Bounds
  <1>5. k.id = 1 /\ k.tenant = 1 /\ k.label = "bootstrap" /\ k \in KeyRecords
    BY <1>2, Bounds DEF KeyRecords
  <1>6. s # None /\ Exists(1) /\ \A t \in Ids : t \in Nat /\ (Exists(t) <=> t = 1)
    BY <1>1, Bounds DEF Exists, Ids
  <1>7. Row(1, "projects") \in [tenant : Ids, table : Tables] /\ Row(1, "projects").tenant = 1
    BY Bounds DEF Row, Tables, Owned
  <1>8. TablesFit
    <2>1. SlugsFit
      BY <1>1, <1>4, <1>6 DEF SlugsFit
    <2>2. KeysFit
      BY <1>3, <1>4, <1>5, <1>6 DEF KeysFit
    <2>3. QED BY <1>3, <1>7, <2>1, <2>2 DEF TablesFit
  <1>9. DOMAIN req = Clients /\ \A r \in Clients : req[r] = Closed
    BY <1>3
  <1>10. RequestsFit
    <2>1. RequestFits(Closed)
      BY <1>4, ClosedFits DEF RequestFits, Stages, None
    <2>2. QED BY <1>9, <2>1 DEF RequestsFit
  <1>11. RoomIsLeft
    <2>1. Waiting(Creating) = {} /\ Waiting(Minting) = {}
      BY <1>9, ClosedFits DEF Waiting
    <2>2. QED BY <1>4, <2>1, FS_EmptySet, Bounds DEF RoomIsLeft
  <1>12. DeletedLeaveNothing /\ SweepsAreNoted
    BY <1>3, <1>6, <1>7, <1>9, ClosedFits DEF DeletedLeaveNothing, SweepsAreNoted, Is, None
  <1>13. LoginsFit
    <2>1. AloneMeansAlone
      BY <1>9, ClosedFits DEF AloneMeansAlone, None
    <2>2. \A t : Stale(t) = {} /\ Committing(t) = {} /\ \A S : Unseen(t, S) = {}
      BY <1>3, <1>5, <1>9, ClosedFits DEF Stale, Logins, Committing, Unseen, Is, None
    <2>3. Cardinality({}) = 0 /\ Cardinality(Clients) \in Nat
      BY FS_EmptySet, FS_CardinalityType
    <2>4. LoginsAreBounded
      <3> SUFFICES ASSUME NEW t \in Ids, NEW S \in SUBSET Committing(t)
                   PROVE  Cardinality(Unseen(t, S)) + Cardinality(S) <= Cardinality(Clients)
        BY DEF LoginsAreBounded
      <3>1. S = {} /\ Unseen(t, S) = {}
        BY <2>2
      <3>2. QED BY <2>3, <3>1
    <2>5. LoginsSettle
      BY <2>2, <2>3 DEF LoginsSettle
    <2>6. QED BY <2>1, <2>4, <2>5 DEF LoginsFit
  <1>14. QED BY <1>8, <1>10, <1>11, <1>12, <1>13 DEF TenancyInv

LEMMA WorkspaceStarts == WorkspaceInit => WorkspaceInv
  <1> SUFFICES ASSUME WorkspaceInit PROVE WorkspaceInv
    OBVIOUS
  <1>1. Init /\ TestInit /\ BridgeInit /\ CopilotInit
    BY DEF WorkspaceInit
  <1>2. TenancyInv /\ \A r \in Clients : req[r] = Closed
    BY <1>1, TenantsStart DEF Init
  <1>3. TestFits
    BY <1>1 DEF TestInit, TestFits
  <1>4. BridgeFits
    <2>1. \A c : Same(c) = {}
      BY <1>2, ClosedFits DEF Same, None
    <2>2. 0 \in 0 .. minted.tenants
      BY <1>2, Minted DEF TenancyInv
    <2>3. QED BY <1>1, <2>1, <2>2 DEF BridgeInit, BridgeFits
  <1>5. CopilotFits
    <2>1. <<>> \in Seq(Messages)
      OBVIOUS
    <2>2. Conversations
      BY <1>1, <2>1 DEF CopilotInit, Conversations, AnswersFollowQuestions
    <2>3. \A r \in Clients : ~At(r, "save")
      BY <1>2, ClosedFits DEF At
    <2>4. Facts
      BY <1>1, <2>3 DEF CopilotInit, Facts, TitlesAreUnique, SavesFit
    <2>5. QED BY <2>2, <2>4, CopilotParts
  <1>6. QED BY <1>2, <1>3, <1>4, <1>5 DEF WorkspaceInv

LEMMA WorkspaceStep == WorkspaceInv /\ [Next]_all => WorkspaceInv'
  <1> SUFFICES ASSUME WorkspaceInv, [Next]_all PROVE WorkspaceInv'
    OBVIOUS
  <1>1. CASE \E r \in Clients : Operator(r) \/ Caller(r)
    BY <1>1, OperatorStep, CallerStep
  <1>2. CASE Tests
    BY <1>2, TestsStep
  <1>3. CASE Guides
    BY <1>3, GuidesStep
  <1>4. CASE Assists
    BY <1>4, AssistsStep
  <1>5. CASE UNCHANGED all
    <2>1. UNCHANGED <<slugOf, minted, keys, rows, req, late, crowded>>
          /\ testVars' = testVars /\ bridgeVars' = bridgeVars /\ copilotVars' = copilotVars
      BY <1>5 DEF all, vars
    <2>2. TenancyInv' /\ Apart
      BY <2>1, NothingAsked, SameRowsAreWritten DEF WorkspaceInv
    <2>3. QED BY <2>1, <2>2, ApartStep DEF WorkspaceInv
  <1>6. QED BY <1>1, <1>2, <1>3, <1>4, <1>5 DEF Next

LEMMA WorkspaceHolds == Spec => []WorkspaceInv
  BY WorkspaceStarts, WorkspaceStep, PTL DEF Spec

(***************************************************************************)
(* However requests of the operator overlap, with one another and with     *)
(* those made with a key: a deleted tenant leaves nothing but what came    *)
(* late, and keys of console logins stay as few as logins at once.         *)
(***************************************************************************)
THEOREM TenantsHold == Spec => []TenantsAreSound
  <1>1. WorkspaceInv => TenantsAreSound
    <2> SUFFICES ASSUME WorkspaceInv PROVE TenantsAreSound
      OBVIOUS
    <2>1. TablesFit /\ RequestsFit /\ DeletedLeaveNothing /\ LoginsFit
      BY DEF WorkspaceInv, TenancyInv
    <2>2. TypeOK
      BY <2>1 DEF TypeOK, TablesFit, SlugsFit, KeysFit, RequestsFit, RequestFits
    <2>3. QED BY <2>1, <2>2, LoginsDoNot DEF TenantsAreSound
  <1>2. QED BY <1>1, WorkspaceHolds, PTL

(***************************************************************************)
(* The turns of a call that is not excused stay in one session, the one in *)
(* the map, although the map is read and written in different steps.       *)
(***************************************************************************)
THEOREM CallsHold == Spec => []OneSessionPerCall
  <1>1. WorkspaceInv => OneSessionPerCall
    BY DEF WorkspaceInv, BridgeFits, OneSessionPerCall, At
  <1>2. QED BY <1>1, WorkspaceHolds, PTL

(***************************************************************************)
(* Answers stand behind their questions and titles are unique, unless      *)
(* looked up while a save of them was under way.                           *)
(***************************************************************************)
THEOREM MemoryHolds == Spec => []MemoryIsSound
  <1>1. WorkspaceInv => MemoryIsSound
    BY DEF WorkspaceInv, CopilotFits
  <1>2. QED BY <1>1, WorkspaceHolds, PTL
=============================================================================
