---------------------------- MODULE CatalogProofs ----------------------------
(***************************************************************************)
(* Proofs about Catalog, for any names, definitions, sessions, requests    *)
(* and bound.                                                              *)
(*                                                                         *)
(* A request commits what it read before others committed. CatalogInv      *)
(* says, of each request under way, what is still true of it then          *)
(* (RequestFits); Evolves says all that a step can do to an item, so that  *)
(* each part of CatalogInv is shown once for all of them.                  *)
(***************************************************************************)
EXTENDS Catalog, FiniteSetTheorems, NaturalsInduction, TLAPS

USE NamesAssumption, DefinitionsAssumption, BoundAssumption

-----------------------------------------------------------------------------
(***************************************************************************)
(* What holds of the requests between their read and their commit: a save  *)
(* is for the next version of the row it read, or an older one; a version  *)
(* that was chosen is still there if its row is; and what passed the gate  *)
(* has its blocks released, or brings them.                                *)
(***************************************************************************)
BodyFits(n, body) == body \in IF n \in Sops THEN Definitions ELSE Texts
WasReleased(b) == \E p \in released : p[1] = b

WriteFits(w) ==
    /\ BodyFits(w.name, w.body)
    /\ w.id <= ids /\ w.version >= 1
    /\ w.id = 0 => w.version = 1
    /\ item[w.name].id = w.id => w.version <= item[w.name].latest + 1

Brings(writes, b) == \E v \in writes : v.name = b /\ v.published

SaveFits(writes) ==
    /\ \A w \in writes : WriteFits(w)
    /\ \A v, w \in writes : v.name = w.name => v = w
    /\ \A w \in writes : w.name \in Sops /\ w.published =>
          w.body \in Clean /\ \A b \in BindsOf[w.body] : WasReleased(b) \/ Brings(writes, b)

ChoiceFits(q) ==
    /\ q.id \in 1 .. ids
    /\ item[q.name].id = q.id => \E x \in item[q.name].rows : x.version = q.version /\ x.body = q.body
    /\ q.op = "publish" /\ q.name \in Sops =>
          q.body \in Clean /\ \A b \in BindsOf[q.body] : WasReleased(b)

PointFits(q) == q.version \in 1 .. item[q.name].latest

RequestFits(q) ==
    /\ q.op = "save" => SaveFits(q.writes)
    /\ q.op \in {"gate", "publish"} => ChoiceFits(q)
    /\ q.op = "point" => PointFits(q)

RequestRecords == {Idle} \cup SaveRecords \cup ChosenRecords \cup PointRecords \cup PinRecords

BundleFits ==
    /\ \A x \in bundle : BodyFits(x.name, x.body)
    /\ \A x, y \in bundle : x.name = y.name => x = y

AnswersFit == AnswersAreKept /\ \A a \in answered : a[2] \in 1 .. ids
ReleasesFit == \A b \in Blocks : \A x \in PublishedRows(b) : <<b, item[b].id, x.version>> \in released

CatalogInv ==
    /\ TypeOK /\ VersionsAreContiguous
    /\ \A r \in Requests : RequestFits(req[r])
    /\ BundleFits /\ AnswersFit /\ ReleasesFit
    /\ PublishedPassedTheGate /\ PinsAreReleased

-----------------------------------------------------------------------------
(***************************************************************************)
(* An item, and its newest versions.                                       *)
(***************************************************************************)
RowRecords == [version : Nat, body : Bodies, published : BOOLEAN]

LEMMA ItemType ==
    ASSUME CatalogInv, NEW n \in Items
    PROVE  /\ item[n] \in ItemRecords /\ item[n].id \in Nat /\ item[n].latest \in Nat /\ item[n].pointer \in Nat
           /\ item[n].rows \subseteq RowRecords
           /\ item[n].id <= ids /\ ids \in Nat /\ item[n].pointer <= item[n].latest
           /\ \A x \in item[n].rows :
                 /\ x.version \in 1 .. item[n].latest /\ x.version \in Nat
                 /\ x.published \in BOOLEAN /\ BodyFits(n, x.body) /\ x.body \in Bodies
           /\ Numbers(n) = 1 .. item[n].latest
           /\ \A x, y \in item[n].rows : x.version = y.version => x = y
           /\ Exists(n) <=> item[n].latest > 0
           /\ item[n].id = 0 => item[n].latest = 0
  <1>1. item[n] \in ItemRecords /\ ids \in Nat /\ item[n].id <= ids /\ item[n].pointer <= item[n].latest
    BY DEF CatalogInv, TypeOK
  <1>2. /\ item[n].id \in Nat /\ item[n].latest \in Nat /\ item[n].pointer \in Nat
        /\ item[n].rows \subseteq RowRecords
    BY <1>1 DEF ItemRecords, RowRecords
  <1>3. /\ Numbers(n) = 1 .. item[n].latest /\ (Exists(n) <=> item[n].latest > 0)
        /\ \A x, y \in item[n].rows : x.version = y.version => x = y
    BY DEF CatalogInv, VersionsAreContiguous
  <1>4. ASSUME NEW x \in item[n].rows
        PROVE  /\ x.version \in 1 .. item[n].latest /\ x.version \in Nat
               /\ x.published \in BOOLEAN /\ BodyFits(n, x.body) /\ x.body \in Bodies
    <2>1. x.version \in Numbers(n)
      BY DEF Numbers
    <2>2. x.version \in Nat /\ x.published \in BOOLEAN /\ x.body \in Bodies
      BY <1>2 DEF RowRecords
    <2>3. BodyFits(n, x.body)
      BY DEF CatalogInv, TypeOK, BodyFits
    <2>4. QED BY <1>3, <2>1, <2>2, <2>3
  <1>5. item[n].id = 0 => item[n].latest = 0
    BY <1>2, <1>3 DEF Exists
  <1>6. QED BY <1>1, <1>2, <1>3, <1>4, <1>5

\* Among rows with versions up to a bound there is one with the greatest.
LEMMA GreatestRow ==
    ASSUME NEW T, NEW N \in Nat, T # {}, \A x \in T : x.version \in Nat /\ x.version <= N
    PROVE  \E x \in T : \A y \in T : y.version <= x.version
  <1> DEFINE D == {N - x.version : x \in T}
  <1>1. D \subseteq Nat /\ D # {}
    OBVIOUS
  <1>2. PICK d \in D : \A e \in D : ~(<<e, d>> \in OpToRel(<, Nat))
    BY <1>1, WFMin, NatLessThanWellFounded, Zenon
  <1>3. PICK x \in T : d = N - x.version
    BY <1>2
  <1>4. ASSUME NEW y \in T PROVE y.version <= x.version
    <2>1. ~(N - y.version < N - x.version)
      <3>1. N - y.version \in D /\ N - y.version \in Nat /\ N - x.version \in Nat
        BY <1>1
      <3>2. QED BY <1>2, <1>3, <3>1 DEF OpToRel
    <2>2. QED BY <2>1
  <1>5. QED BY <1>4

\* The newest version is the latest, and the newest published one is published.
LEMMA NewestRow ==
    ASSUME CatalogInv, NEW n \in Items, Exists(n)
    PROVE  Newest(n) \in item[n].rows /\ Newest(n).version = item[n].latest
  <1>1. PICK x \in item[n].rows : x.version = item[n].latest
    <2>1. item[n].latest \in Numbers(n)
      BY ItemType
    <2>2. QED BY <2>1 DEF Numbers
  <1>2. \A y \in item[n].rows : y.version <= x.version
    BY <1>1, ItemType
  <1>3. Newest(n) \in item[n].rows /\ \A y \in item[n].rows : y.version <= Newest(n).version
    BY <1>1, <1>2 DEF Newest
  <1>4. QED BY <1>1, <1>3, ItemType

LEMMA NewestPublishedRow ==
    ASSUME CatalogInv, NEW n \in Items, PublishedRows(n) # {}
    PROVE  NewestPublished(n) \in PublishedRows(n) /\ NewestPublished(n) \in item[n].rows /\ Exists(n)
  <1>1. /\ item[n].latest \in Nat
        /\ \A x \in PublishedRows(n) : x.version \in Nat /\ x.version <= item[n].latest /\ x \in item[n].rows
    BY ItemType DEF PublishedRows
  <1>2. \E x \in PublishedRows(n) : \A y \in PublishedRows(n) : y.version <= x.version
    BY <1>1, GreatestRow
  <1>3. NewestPublished(n) \in PublishedRows(n)
    BY <1>2 DEF NewestPublished
  <1>4. QED BY <1>1, <1>3, ItemType

LEMMA BindsType ==
    ASSUME NEW d \in Definitions
    PROVE  BindsOf[d] \subseteq Blocks /\ BindsOf[d] \subseteq Items
  BY DEF Items

\* A block that resolves has been released; one that is not missing resolves.
LEMMA ResolvedType ==
    ASSUME CatalogInv, NEW names \in SUBSET Blocks
    PROVE  /\ Resolved(names) \subseteq released
           /\ {p[1] : p \in Resolved(names)} = names \ Missing(names)
           /\ \A b \in names \ Missing(names) : WasReleased(b)
  <1>1. ASSUME NEW b \in names, PublishedRows(b) # {}
        PROVE  <<b, item[b].id, NewestPublished(b).version>> \in released
    <2>1. NewestPublished(b) \in PublishedRows(b)
      BY <1>1, NewestPublishedRow DEF Items
    <2>2. QED BY <2>1 DEF CatalogInv, ReleasesFit
  <1>2. Resolved(names) \subseteq released
    BY <1>1 DEF Resolved
  <1>3. {p[1] : p \in Resolved(names)} = names \ Missing(names)
    <2>1. ASSUME NEW p \in Resolved(names) PROVE p[1] \in names \ Missing(names)
      <3>1. PICK b \in names : PublishedRows(b) # {} /\ p = <<b, item[b].id, NewestPublished(b).version>>
        BY DEF Resolved
      <3>2. p[1] = b
        BY <3>1
      <3>3. QED BY <3>1, <3>2 DEF Missing
    <2>2. ASSUME NEW b \in names \ Missing(names) PROVE \E p \in Resolved(names) : p[1] = b
      <3>1. <<b, item[b].id, NewestPublished(b).version>> \in Resolved(names)
        BY DEF Resolved, Missing
      <3>2. QED BY <3>1
    <2>3. QED BY <2>1, <2>2
  <1>4. ASSUME NEW b \in names \ Missing(names) PROVE WasReleased(b)
    <2>1. <<b, item[b].id, NewestPublished(b).version>> \in released
      BY <1>1 DEF Missing
    <2>2. QED BY <2>1 DEF WasReleased
  <1>5. QED BY <1>2, <1>3, <1>4

-----------------------------------------------------------------------------
(***************************************************************************)
(* Every step leaves an item to what it was with newer versions, or        *)
(* deletes it, or creates one under an id that no request has read.  That  *)
(* is all the other requests need.                                         *)
(***************************************************************************)
Evolves(n) ==
    /\ item'[n].latest \in Nat /\ (n \in Configs => item'[n].latest >= item[n].latest)
    /\ \/ /\ item'[n].id = item[n].id /\ item'[n].latest >= item[n].latest
          /\ \A x \in item[n].rows : \E y \in item'[n].rows : y.version = x.version /\ y.body = x.body
       \/ item'[n].id = 0
       \/ item[n].id = 0 /\ item'[n].id > ids

History ==
    /\ \A n \in Items : Evolves(n)
    /\ ids' \in Nat /\ ids' >= ids
    /\ released \subseteq released'

RecordOf(q) ==
    /\ q.op = "save" => q \in SaveRecords
    /\ q.op \in {"gate", "publish"} => q \in ChosenRecords
    /\ q.op = "point" => q \in PointRecords
    /\ q.op \in {"start", "assign"} => q \in PinRecords

LEMMA RecordsByOp ==
    ASSUME NEW q \in RequestRecords
    PROVE  RecordOf(q)
  BY DEF RequestRecords, RecordOf, Idle, SaveRecords, ChosenRecords, PointRecords, PinRecords

LEMMA StillWrites ==
    ASSUME CatalogInv, History, NEW w \in Writes, WriteFits(w)
    PROVE  WriteFits(w)'
  <1>1. w.name \in Items /\ w.id \in Nat /\ w.version \in Nat
    BY DEF Writes
  <1>2. Evolves(w.name) /\ ids \in Nat /\ ids' \in Nat /\ ids' >= ids
    BY <1>1, ItemType DEF History
  <1>3. item[w.name].latest \in Nat /\ item'[w.name].latest \in Nat
    BY <1>1, <1>2, ItemType DEF Evolves
  <1>4. ASSUME item'[w.name].id = w.id PROVE w.version <= item'[w.name].latest + 1
    <2>1. CASE w.id = 0
      BY <1>3, <2>1 DEF WriteFits
    <2>2. CASE w.id # 0
      <3>1. item[w.name].id = w.id /\ item'[w.name].latest >= item[w.name].latest
        BY <1>1, <1>2, <1>4, <2>2 DEF Evolves, WriteFits
      <3>2. QED BY <1>1, <1>3, <3>1 DEF WriteFits
    <2>3. QED BY <2>1, <2>2
  <1>5. QED BY <1>1, <1>2, <1>4 DEF WriteFits, BodyFits

LEMMA StillSaves ==
    ASSUME CatalogInv, History, NEW writes \in SUBSET Writes, SaveFits(writes)
    PROVE  SaveFits(writes)'
  <1>1. \A w \in writes : WriteFits(w)'
    BY StillWrites DEF SaveFits
  <1>2. \A b : WasReleased(b) => WasReleased(b)'
    BY DEF WasReleased, History
  <1>3. ASSUME NEW w \in writes, w.name \in Sops, w.published
        PROVE  /\ w.body \in Clean
               /\ \A b \in BindsOf[w.body] : WasReleased(b)' \/ Brings(writes, b)
    BY <1>2, <1>3 DEF SaveFits
  <1>4. QED BY <1>1, <1>3 DEF SaveFits, Brings

LEMMA StillChosen ==
    ASSUME CatalogInv, History, NEW q \in ChosenRecords, ChoiceFits(q)
    PROVE  ChoiceFits(q)'
  <1>1. q.name \in Items /\ q.id \in Nat
    BY DEF ChosenRecords, Items
  <1>2. Evolves(q.name) /\ ids \in Nat /\ ids' \in Nat /\ ids' >= ids
    BY <1>1, ItemType DEF History
  <1>3. ASSUME item'[q.name].id = q.id
        PROVE  \E x \in item'[q.name].rows : x.version = q.version /\ x.body = q.body
    <2>1. /\ item'[q.name].id = item[q.name].id
          /\ \A x \in item[q.name].rows : \E y \in item'[q.name].rows : y.version = x.version /\ y.body = x.body
      BY <1>1, <1>2, <1>3 DEF Evolves, ChoiceFits
    <2>2. PICK x \in item[q.name].rows : x.version = q.version /\ x.body = q.body
      BY <1>3, <2>1 DEF ChoiceFits
    <2>3. QED BY <2>1, <2>2
  <1>4. \A b : WasReleased(b) => WasReleased(b)'
    BY DEF WasReleased, History
  <1>5. q.id \in 1 .. ids'
    BY <1>1, <1>2 DEF ChoiceFits
  <1>6. QED BY <1>3, <1>4, <1>5 DEF ChoiceFits

LEMMA StillFits ==
    ASSUME CatalogInv, History, NEW q \in RequestRecords, RequestFits(q)
    PROVE  RequestFits(q)'
  <1>1. RecordOf(q)
    BY RecordsByOp
  <1>2. CASE q.op = "save"
    <2>1. q.writes \in SUBSET Writes
      BY <1>1, <1>2 DEF RecordOf, SaveRecords
    <2>2. SaveFits(q.writes)'
      BY <1>2, <2>1, StillSaves DEF RequestFits
    <2>3. QED BY <1>2, <2>2 DEF RequestFits
  <1>3. CASE q.op \in {"gate", "publish"}
    <2>1. ChoiceFits(q)'
      BY <1>1, <1>3, StillChosen DEF RecordOf, RequestFits
    <2>2. QED BY <1>3, <2>1 DEF RequestFits
  <1>4. CASE q.op = "point"
    <2>1. q.name \in Configs /\ q.name \in Items /\ q.version \in Nat
      BY <1>1, <1>4 DEF RecordOf, PointRecords, Items
    <2>2. item[q.name].latest \in Nat /\ item'[q.name].latest \in Nat /\ item'[q.name].latest >= item[q.name].latest
      BY <2>1, ItemType DEF History, Evolves
    <2>3. PointFits(q)'
      BY <1>4, <2>1, <2>2 DEF RequestFits, PointFits
    <2>4. QED BY <1>4, <2>3 DEF RequestFits
  <1>5. QED BY <1>2, <1>3, <1>4 DEF RequestFits

\* The answers stand.
LEMMA StillAnswered ==
    ASSUME CatalogInv, History, NEW a \in answered, item'[a[1]].id = a[2]
    PROVE  \E x \in item'[a[1]].rows : x.version = a[3] /\ x.body = a[4]
  <1>1. a \in Items \X Nat \X Nat \X Bodies
    BY DEF CatalogInv, TypeOK
  <1>2. a[1] \in Items /\ a[2] \in 1 .. ids /\ ids \in Nat
    BY <1>1, ItemType DEF CatalogInv, AnswersFit
  <1>3. Evolves(a[1])
    BY <1>2 DEF History
  <1>4. /\ item'[a[1]].id = item[a[1]].id
        /\ \A x \in item[a[1]].rows : \E y \in item'[a[1]].rows : y.version = x.version /\ y.body = x.body
    BY <1>2, <1>3 DEF Evolves
  <1>5. PICK x \in item[a[1]].rows : x.version = a[3] /\ x.body = a[4]
    BY <1>4 DEF CatalogInv, AnswersFit, AnswersAreKept
  <1>6. QED BY <1>4, <1>5

-----------------------------------------------------------------------------
(***************************************************************************)
(* The parts of the state after a step.                                    *)
(***************************************************************************)
Requested ==
    /\ req' \in [Requests -> RequestRecords] /\ asked' \in 0 .. MaxRequests
    /\ \A r \in Requests : RequestFits(req[r])'
Pinned == session' \in [Sessions -> SessionRecords] /\ PinsAreReleased'
Bundled == bundle' \subseteq [name : Sops \cup Blocks, body : Bodies, published : BOOLEAN] /\ BundleFits'
Kept == UNCHANGED <<item, ids, answered, released>>

LEMMA RequestType ==
    ASSUME CatalogInv, NEW r \in Requests
    PROVE  req[r] \in RequestRecords /\ RequestFits(req[r]) /\ RecordOf(req[r])
  <1>1. req[r] \in RequestRecords /\ RequestFits(req[r])
    BY DEF CatalogInv, TypeOK, RequestRecords
  <1>2. QED BY <1>1, RecordsByOp

LEMMA IdleFits == Idle \in RequestRecords /\ Idle.op = "none" /\ RequestFits(Idle) /\ RequestFits(Idle)'
  BY DEF RequestRecords, Idle, RequestFits

LEMMA KeptHistory == CatalogInv /\ UNCHANGED <<item, ids, released>> => History
  <1> SUFFICES ASSUME CatalogInv, UNCHANGED <<item, ids, released>> PROVE History
    OBVIOUS
  <1>1. \A n \in Items : item[n].latest \in Nat /\ ids \in Nat
    BY ItemType
  <1>2. ids \in Nat
    BY DEF CatalogInv, TypeOK
  <1>3. QED BY <1>1, <1>2 DEF History, Evolves

LEMMA Closes ==
    ASSUME CatalogInv, History, NEW r \in Requests, Close(r)
    PROVE  Requested
  <1>1. req' = [req EXCEPT ![r] = Idle] /\ UNCHANGED asked
    BY DEF Close
  <1>2. req \in [Requests -> RequestRecords] /\ asked \in 0 .. MaxRequests
    BY DEF CatalogInv, TypeOK, RequestRecords
  <1>3. req' \in [Requests -> RequestRecords] /\ asked' \in 0 .. MaxRequests
    BY <1>1, <1>2, IdleFits
  <1>4. ASSUME NEW p \in Requests PROVE RequestFits(req[p])'
    <2>1. CASE p = r
      <3>1. req'[p] = Idle
        BY <1>1, <1>2, <2>1
      <3>2. QED BY <3>1, IdleFits DEF RequestFits
    <2>2. CASE p # r
      <3>1. PICK q \in RequestRecords : q = req[p] /\ RequestFits(q)
        BY RequestType
      <3>2. RequestFits(q)'
        BY <3>1, StillFits
      <3>3. req'[p] = q
        BY <1>1, <1>2, <2>2, <3>1
      <3>4. QED BY <3>2, <3>3 DEF RequestFits, SaveFits, ChoiceFits, PointFits
    <2>3. QED BY <2>1, <2>2
  <1>5. QED BY <1>3, <1>4 DEF Requested

LEMMA Opens ==
    ASSUME CatalogInv, UNCHANGED <<item, ids, released>>, NEW r \in Requests, NEW q \in RequestRecords,
           RequestFits(q), req' = [req EXCEPT ![r] = q], asked' \in 0 .. MaxRequests
    PROVE  Requested
  <1>1. req \in [Requests -> RequestRecords]
    BY DEF CatalogInv, TypeOK, RequestRecords
  <1>2. req' \in [Requests -> RequestRecords]
    BY <1>1
  <1>3. ASSUME NEW p \in Requests PROVE RequestFits(req[p])'
    <2>1. PICK x \in RequestRecords : x = req'[p] /\ RequestFits(x)
      BY <1>1, RequestType
    <2>2. RequestFits(x)'
      BY <2>1, StillFits, KeptHistory
    <2>3. QED BY <2>1, <2>2 DEF RequestFits, SaveFits, ChoiceFits, PointFits
  <1>4. QED BY <1>2, <1>3 DEF Requested

LEMMA PinnedUnchanged == CatalogInv /\ History /\ UNCHANGED session => Pinned
  BY DEF CatalogInv, TypeOK, Pinned, PinsAreReleased, History

LEMMA BundledUnchanged == CatalogInv /\ UNCHANGED bundle => Bundled
  BY DEF CatalogInv, TypeOK, Bundled, BundleFits, BodyFits

\* A step that leaves the items alone.
LEMMA KeptSound ==
    ASSUME CatalogInv, Kept, Requested, Pinned, Bundled
    PROVE  CatalogInv'
  <1>1. TypeOK'
    BY DEF CatalogInv, TypeOK, Kept, Requested, Pinned, Bundled, RequestRecords
  <1>2. VersionsAreContiguous' /\ AnswersFit' /\ ReleasesFit' /\ PublishedPassedTheGate'
    BY DEF CatalogInv, VersionsAreContiguous, AnswersFit, AnswersAreKept, ReleasesFit, PublishedPassedTheGate,
           Kept, Numbers, Exists, PublishedRows
  <1>3. QED BY <1>1, <1>2 DEF CatalogInv, Requested, Pinned, Bundled

LEMMA ReadingSound ==
    ASSUME CatalogInv, NEW r \in Requests, NEW q \in RequestRecords, RequestFits(q), Open(r, q), Reading
    PROVE  CatalogInv'
  <1>1. Kept /\ UNCHANGED <<item, ids, released, session, bundle>>
    BY DEF Reading, Kept
  <1>2. req' = [req EXCEPT ![r] = q] /\ asked' = asked + 1 /\ asked < MaxRequests /\ asked \in 0 .. MaxRequests
    BY DEF Open, CatalogInv, TypeOK
  <1>3. asked' \in 0 .. MaxRequests
    BY <1>2
  <1>4. Requested
    BY <1>1, <1>2, <1>3, Opens
  <1>5. QED BY <1>1, <1>4, KeptSound, KeptHistory, PinnedUnchanged, BundledUnchanged

-----------------------------------------------------------------------------
(***************************************************************************)
(* What a request reads: each fits when it is opened.                      *)
(***************************************************************************)
LEMMA NextVersionFits ==
    ASSUME CatalogInv, NEW n \in Items, NEW body, BodyFits(n, body), NEW p \in BOOLEAN, NEW point \in BOOLEAN
    PROVE  /\ NextVersion(n, body, p, point) \in Writes /\ WriteFits(NextVersion(n, body, p, point))
           /\ NextVersion(n, body, p, point).name = n /\ NextVersion(n, body, p, point).published = p
           /\ NextVersion(n, body, p, point).body = body
  <1> DEFINE w == NextVersion(n, body, p, point)
  <1>1. body \in Bodies
    BY DEF BodyFits, Bodies
  <1>2. /\ w.name = n /\ w.published = p /\ w.body = body
        /\ w.id = item[n].id /\ w.version = item[n].latest + 1
    BY DEF NextVersion
  <1>3. w \in Writes
    BY <1>1, ItemType DEF NextVersion, Writes
  <1>4. item[n].latest \in Nat /\ item[n].id <= ids /\ (item[n].id = 0 => item[n].latest = 0)
    BY ItemType
  <1> HIDE DEF w
  <1>5. WriteFits(w)
    BY <1>2, <1>4 DEF WriteFits
  <1>6. QED BY <1>2, <1>3, <1>5 DEF w

LEMMA SavingFits ==
    ASSUME NEW writes \in SUBSET Writes, SaveFits(writes)
    PROVE  Saving(writes) \in RequestRecords /\ RequestFits(Saving(writes))
  BY DEF Saving, RequestRecords, SaveRecords, RequestFits

LEMMA SaveSound ==
    ASSUME CatalogInv, NEW r \in Requests, NEW n \in Items, NEW body, BodyFits(n, body), NEW point \in BOOLEAN,
           Save(r, n, body, point)
    PROVE  CatalogInv'
  <1> DEFINE w == NextVersion(n, body, FALSE, point)
  <1>1. w \in Writes /\ WriteFits(w) /\ w.published = FALSE
    <2>1. ASSUME NEW p \in BOOLEAN
          PROVE  LET v == NextVersion(n, body, p, point) IN v \in Writes /\ WriteFits(v) /\ v.published = p
      BY NextVersionFits
    <2>2. QED BY <2>1
  <1>2. Open(r, Saving({w})) /\ Reading
    BY DEF Save
  <1> HIDE DEF w
  <1>3. {w} \in SUBSET Writes /\ SaveFits({w})
    BY <1>1 DEF SaveFits
  <1>4. QED BY <1>2, <1>3, SavingFits, ReadingSound

LEMMA ImportSound ==
    ASSUME CatalogInv, NEW r \in Requests, ImportProject(r)
    PROVE  CatalogInv'
  <1> DEFINE p(x) == x.published /\ (x.name \in Sops => ImportGate(x.body))
             w(x) == NextVersion(x.name, x.body, p(x), FALSE)
             writes == {w(x) : x \in bundle}
  <1>1. ASSUME NEW x \in bundle
        PROVE  /\ x.name \in Items /\ x.name \in Sops \cup Blocks /\ BodyFits(x.name, x.body)
               /\ x.published \in BOOLEAN
    BY DEF CatalogInv, TypeOK, BundleFits, Items
  <1>2. \A x \in bundle : p(x) \in BOOLEAN
    BY <1>1
  <1>3. ASSUME NEW x \in bundle
        PROVE  w(x) \in Writes /\ WriteFits(w(x)) /\ w(x).name = x.name /\ w(x).body = x.body /\ w(x).published = p(x)
    <2>1. ASSUME NEW t \in BOOLEAN, NEW f \in BOOLEAN
          PROVE  LET v == NextVersion(x.name, x.body, t, f)
                 IN  v \in Writes /\ WriteFits(v) /\ v.name = x.name /\ v.body = x.body /\ v.published = t
      BY <1>1, NextVersionFits
    <2> HIDE DEF p
    <2>2. QED BY <1>2, <2>1
  <1>4. Open(r, Saving(writes)) /\ Reading
    BY DEF ImportProject
  <1> HIDE DEF w
  <1>5. writes \in SUBSET Writes /\ \A v \in writes : WriteFits(v)
    BY <1>3
  <1>6. ASSUME NEW u \in writes, NEW v \in writes, u.name = v.name PROVE u = v
    <2>1. PICK x \in bundle, y \in bundle : u = w(x) /\ v = w(y)
      OBVIOUS
    <2>2. x.name = y.name
      BY <1>3, <1>6, <2>1
    <2>3. QED BY <2>1, <2>2 DEF CatalogInv, BundleFits
  <1>7. ASSUME NEW v \in writes, v.name \in Sops, v.published
        PROVE  v.body \in Clean /\ \A b \in BindsOf[v.body] : WasReleased(b) \/ Brings(writes, b)
    <2>1. PICK x \in bundle : v = w(x)
      OBVIOUS
    <2>2. x.name \in Sops /\ x.body = v.body /\ p(x)
      BY <1>3, <1>7, <2>1
    <2>3. v.body \in Clean /\ \A b \in Missing(BindsOf[v.body]) : Incoming(b)
      BY <2>2 DEF ImportGate
    <2>4. BindsOf[v.body] \in SUBSET Blocks
      BY <2>3, BindsType
    <2>5. ASSUME NEW b \in BindsOf[v.body], b \in Missing(BindsOf[v.body]) PROVE Brings(writes, b)
      <3>1. PICK y \in bundle : y.name = b /\ y.published
        BY <2>3, <2>5 DEF Incoming
      <3>2. y.name \notin Sops
        BY <2>4, <3>1
      <3>3. w(y).name = b /\ w(y).published /\ w(y) \in writes
        BY <1>3, <3>1, <3>2
      <3>4. QED BY <3>3 DEF Brings
    <2>6. QED BY <2>3, <2>4, <2>5, ResolvedType
  <1> HIDE DEF writes
  <1>8. SaveFits(writes)
    BY <1>5, <1>6, <1>7 DEF SaveFits
  <1>9. QED BY <1>4, <1>5, <1>8, SavingFits, ReadingSound

LEMMA PublishingSound ==
    ASSUME CatalogInv, NEW r \in Requests, NEW n \in Sops \cup Blocks, NEW op \in {"gate", "publish"},
           op = "publish" => n \in Blocks, Exists(n), Open(r, Publishing(op, n)), Reading
    PROVE  CatalogInv'
  <1> DEFINE q == Publishing(op, n)
  <1>1. n \in Items /\ (op = "publish" => n \notin Sops)
    BY DEF Items
  <1>2. Newest(n) \in item[n].rows /\ item[n].id \in Nat /\ item[n].id # 0 /\ item[n].id <= ids /\ ids \in Nat
    BY <1>1, NewestRow, ItemType DEF Exists
  <1>3. Newest(n).version \in Nat /\ Newest(n).body \in Bodies
    BY <1>1, <1>2, ItemType
  <1>4. q \in ChosenRecords
    BY <1>2, <1>3 DEF Publishing, ChosenRecords
  <1>5. /\ q.op = op /\ q.name = n /\ q.id = item[n].id
        /\ q.version = Newest(n).version /\ q.body = Newest(n).body
    BY DEF Publishing
  <1> HIDE DEF q
  <1>6. ChoiceFits(q)
    BY <1>1, <1>2, <1>5 DEF ChoiceFits
  <1>7. q \in RequestRecords /\ RequestFits(q)
    BY <1>4, <1>5, <1>6 DEF RequestRecords, RequestFits
  <1>8. QED BY <1>7, ReadingSound DEF q

LEMMA PointingSound ==
    ASSUME CatalogInv, NEW r \in Requests, NEW c \in Configs, Exists(c), Open(r, Pointing(c)), Reading
    PROVE  CatalogInv'
  <1> DEFINE q == Pointing(c)
  <1>1. item[c].latest \in Nat /\ item[c].pointer \in Nat /\ item[c].latest > 0
    BY ItemType DEF Items
  <1>2. q \in PointRecords /\ q.op = "point" /\ q.version \in 1 .. item[q.name].latest
    BY <1>1 DEF Pointing, PointRecords
  <1> HIDE DEF q
  <1>3. q \in RequestRecords /\ RequestFits(q)
    BY <1>2 DEF RequestRecords, RequestFits, PointFits
  <1>4. QED BY <1>3, ReadingSound DEF q

LEMMA PinSound ==
    ASSUME CatalogInv, NEW r \in Requests, NEW op \in {"start", "assign"}, NEW s \in Sessions, NEW n \in Sops,
           NEW row \in item[n].rows, Open(r, Pin(op, s, n, row)), Reading
    PROVE  CatalogInv'
  <1> DEFINE q == Pin(op, s, n, row)
  <1>1. n \in Items /\ item[n].id \in Nat /\ row.version \in Nat /\ row.body \in Definitions
    BY ItemType DEF Items, BodyFits
  <1>2. q \in PinRecords /\ q.op \in {"start", "assign"}
    BY <1>1 DEF Pin, PinRecords
  <1> HIDE DEF q
  <1>3. q \in RequestRecords /\ RequestFits(q)
    BY <1>2 DEF RequestRecords, RequestFits
  <1>4. QED BY <1>3, ReadingSound DEF q

LEMMA GateSound ==
    ASSUME CatalogInv, NEW r \in Requests, GateSop(r)
    PROVE  CatalogInv'
  <1> DEFINE q == [req[r] EXCEPT !.op = "publish"]
  <1>1. Kept /\ UNCHANGED <<item, ids, released, session, bundle, asked>> /\ req[r].op = "gate"
    BY DEF GateSop, Reading, Kept
  <1>2. req[r] \in ChosenRecords /\ ChoiceFits(req[r])
    BY <1>1, RequestType DEF RecordOf, RequestFits
  <1>3. /\ q \in ChosenRecords /\ q.op = "publish" /\ q.name = req[r].name /\ q.id = req[r].id
        /\ q.version = req[r].version /\ q.body = req[r].body
    BY <1>2 DEF ChosenRecords
  <1>4. req' = [req EXCEPT ![r] = IF Publishable(req[r].body) THEN q ELSE Idle]
    BY DEF GateSop
  <1> HIDE DEF q
  <1>5. asked' \in 0 .. MaxRequests
    BY <1>1 DEF CatalogInv, TypeOK
  <1>6. CASE Publishable(req[r].body)
    <2>1. q.body \in Clean /\ Missing(BindsOf[q.body]) = {}
      BY <1>3, <1>6 DEF Publishable
    <2>2. BindsOf[q.body] \in SUBSET Blocks
      BY <2>1, BindsType
    <2>3. \A b \in BindsOf[q.body] : WasReleased(b)
      BY <2>1, <2>2, ResolvedType
    <2>4. ChoiceFits(q)
      BY <1>2, <1>3, <2>1, <2>3 DEF ChoiceFits
    <2>5. q \in RequestRecords /\ RequestFits(q)
      BY <1>3, <2>4 DEF RequestRecords, RequestFits
    <2>6. Requested
      BY <1>1, <1>4, <1>5, <1>6, <2>5, Opens
    <2>7. QED BY <1>1, <2>6, KeptSound, KeptHistory, PinnedUnchanged, BundledUnchanged
  <1>7. CASE ~Publishable(req[r].body)
    <2>1. Close(r)
      BY <1>1, <1>4, <1>7 DEF Close
    <2>2. Requested
      BY <1>1, <2>1, Closes, KeptHistory
    <2>3. QED BY <1>1, <2>2, KeptSound, KeptHistory, PinnedUnchanged, BundledUnchanged
  <1>8. QED BY <1>6, <1>7

LEMMA AbortSound ==
    ASSUME CatalogInv, NEW r \in Requests, Abort(r)
    PROVE  CatalogInv'
  <1>1. Kept /\ UNCHANGED <<item, ids, released, session, bundle>> /\ Close(r)
    BY DEF Abort, Reading, Kept
  <1>2. Requested
    BY <1>1, Closes, KeptHistory
  <1>3. QED BY <1>1, <1>2, KeptSound, KeptHistory, PinnedUnchanged, BundledUnchanged

-----------------------------------------------------------------------------
(***************************************************************************)
(* Sessions: what is pinned has been released.                             *)
(***************************************************************************)
LEMMA SetSession ==
    ASSUME CatalogInv, NEW s \in Sessions, NEW x \in SessionRecords, UNCHANGED released,
           x.pinned \subseteq released,
           x.sop \in Sops /\ ~x.routed => {p[1] : p \in x.pinned} = BindsOf[x.def],
           session' = [session EXCEPT ![s] = x]
    PROVE  Pinned
  <1>1. session \in [Sessions -> SessionRecords]
    BY DEF CatalogInv, TypeOK
  <1>2. session' \in [Sessions -> SessionRecords]
    BY <1>1
  <1>3. \A t \in Sessions : session'[t] = IF t = s THEN x ELSE session[t]
    BY <1>1
  <1>4. PinsAreReleased'
    BY <1>3 DEF CatalogInv, PinsAreReleased
  <1>5. QED BY <1>2, <1>4 DEF Pinned

LEMMA BindSound ==
    ASSUME CatalogInv, NEW r \in Requests, BindStart(r) \/ AssignSop(r)
    PROVE  CatalogInv'
  <1> DEFINE q == req[r]
             x(routed) == [sop |-> q.name, version |-> q.version, def |-> q.def,
                           pinned |-> Resolved(BindsOf[q.def]), routed |-> routed]
  <1>1. /\ Kept /\ UNCHANGED <<item, ids, released, bundle>> /\ Close(r)
        /\ q.op \in {"start", "assign"}
    BY DEF BindStart, AssignSop, Kept
  <1>2. q \in PinRecords
    BY <1>1, RequestType DEF RecordOf
  <1>3. /\ q.session \in Sessions /\ q.name \in Sops /\ q.version \in Nat /\ q.def \in Definitions
        /\ BindsOf[q.def] \in SUBSET Blocks
    BY <1>2, BindsType DEF PinRecords
  <1>4. Resolved(BindsOf[q.def]) \subseteq released /\ released \subseteq Pinnable
    BY <1>3, ResolvedType DEF CatalogInv, TypeOK
  <1>5. /\ x(TRUE) \in SessionRecords /\ x(TRUE).pinned \subseteq released /\ x(TRUE).routed
        /\ x(FALSE) \in SessionRecords /\ x(FALSE).pinned \subseteq released
        /\ x(FALSE).pinned = Resolved(BindsOf[q.def]) /\ x(FALSE).def = q.def
    BY <1>3, <1>4 DEF SessionRecords
  <1>6. \/ UNCHANGED session
        \/ session' = [session EXCEPT ![q.session] = x(TRUE)]
        \/ Missing(BindsOf[q.def]) = {} /\ session' = [session EXCEPT ![q.session] = x(FALSE)]
    BY DEF BindStart, AssignSop
  <1>7. Missing(BindsOf[q.def]) = {} => {p[1] : p \in Resolved(BindsOf[q.def])} = BindsOf[q.def]
    BY <1>3, ResolvedType
  <1> HIDE DEF x
  <1>8. Pinned
    <2>1. CASE UNCHANGED session
      BY <1>1, <2>1, KeptHistory, PinnedUnchanged
    <2>2. CASE session' = [session EXCEPT ![q.session] = x(TRUE)]
      BY <1>1, <1>3, <1>5, <2>2, SetSession
    <2>3. CASE Missing(BindsOf[q.def]) = {} /\ session' = [session EXCEPT ![q.session] = x(FALSE)]
      <3>1. {p[1] : p \in x(FALSE).pinned} = BindsOf[x(FALSE).def]
        BY <1>5, <1>7, <2>3
      <3>2. QED BY <1>1, <1>3, <1>5, <2>3, <3>1, SetSession
    <2>4. QED BY <1>6, <2>1, <2>2, <2>3
  <1>9. Requested
    BY <1>1, Closes, KeptHistory
  <1>10. QED BY <1>1, <1>8, <1>9, KeptSound, BundledUnchanged

LEMMA RequestedUnchanged == CatalogInv /\ UNCHANGED <<item, ids, released, req, asked>> => Requested
  <1> SUFFICES ASSUME CatalogInv, UNCHANGED <<item, ids, released, req, asked>> PROVE Requested
    OBVIOUS
  <1>1. asked' \in 0 .. MaxRequests /\ req' \in [Requests -> RequestRecords]
    BY DEF CatalogInv, TypeOK, RequestRecords
  <1>2. ASSUME NEW r \in Requests PROVE RequestFits(req[r])'
    <2>1. PICK q \in RequestRecords : q = req[r] /\ RequestFits(q)
      BY RequestType
    <2>2. RequestFits(q)' /\ req'[r] = q
      BY <2>1, StillFits, KeptHistory
    <2>3. QED BY <2>2 DEF RequestFits, SaveFits, ChoiceFits, PointFits
  <1>3. QED BY <1>1, <1>2 DEF Requested

LEMMA IntakeSound ==
    ASSUME CatalogInv, NEW s \in Sessions, StartIntake(s)
    PROVE  CatalogInv'
  <1> DEFINE x == [NoSession EXCEPT !.sop = "intake"]
  <1>1. Kept /\ UNCHANGED <<item, ids, released, bundle, req, asked>>
    BY DEF StartIntake, Kept
  <1>2. x \in SessionRecords /\ x.pinned = {} /\ x.sop = "intake"
    BY DEF NoSession, SessionRecords
  <1>3. session' = [session EXCEPT ![s] = x]
    BY DEF StartIntake
  <1> HIDE DEF x
  <1>4. Pinned
    BY <1>1, <1>2, <1>3, SetSession
  <1>5. QED BY <1>1, <1>4, RequestedUnchanged, KeptSound, BundledUnchanged

LEMMA ExportSound == CatalogInv /\ ExportProject => CatalogInv'
  <1> SUFFICES ASSUME CatalogInv, ExportProject PROVE CatalogInv'
    OBVIOUS
  <1> DEFINE e(n) == [name |-> n, body |-> Newest(n).body, published |-> Newest(n).published]
             names == {m \in Sops \cup Blocks : Exists(m)}
  <1>1. Kept /\ UNCHANGED <<item, ids, released, session, req, asked>> /\ bundle' = {e(n) : n \in names}
    BY DEF ExportProject, Kept
  <1>2. ASSUME NEW n \in names
        PROVE  /\ e(n) \in [name : Sops \cup Blocks, body : Bodies, published : BOOLEAN]
               /\ e(n).name = n /\ BodyFits(n, e(n).body)
    <2>1. n \in Items /\ n \in Sops \cup Blocks /\ Exists(n)
      BY DEF Items
    <2>2. Newest(n).body \in Bodies /\ Newest(n).published \in BOOLEAN /\ BodyFits(n, Newest(n).body)
      BY <2>1, NewestRow, ItemType
    <2>3. QED BY <2>1, <2>2
  <1> HIDE DEF e, names
  <1>3. Bundled
    BY <1>1, <1>2 DEF Bundled, BundleFits, BodyFits
  <1>4. QED BY <1>1, <1>3, RequestedUnchanged, KeptSound, KeptHistory, PinnedUnchanged

-----------------------------------------------------------------------------
(***************************************************************************)
(* Steps that change items: what has to hold of each of them.              *)
(***************************************************************************)
ItemFits(n) ==
    /\ item[n] \in ItemRecords /\ item[n].id <= ids /\ item[n].pointer <= item[n].latest
    /\ \A x \in item[n].rows : BodyFits(n, x.body)
    /\ Numbers(n) = 1 .. item[n].latest
    /\ \A x, y \in item[n].rows : x.version = y.version => x = y
    /\ Exists(n) <=> item[n].latest > 0
    /\ n \in Blocks => \A x \in PublishedRows(n) : <<n, item[n].id, x.version>> \in released
    /\ n \in Sops => \A x \in PublishedRows(n) : x.body \in Clean /\ \A b \in BindsOf[x.body] : WasReleased(b)

LEMMA ItemsFit == CatalogInv => \A n \in Items : ItemFits(n)
  <1> SUFFICES ASSUME CatalogInv, NEW n \in Items PROVE ItemFits(n)
    OBVIOUS
  <1>1. n \in Blocks => \A x \in PublishedRows(n) : <<n, item[n].id, x.version>> \in released
    BY DEF CatalogInv, ReleasesFit
  <1>2. n \in Sops => \A x \in PublishedRows(n) : x.body \in Clean /\ \A b \in BindsOf[x.body] : WasReleased(b)
    BY DEF CatalogInv, PublishedPassedTheGate, WasReleased
  <1>3. QED BY <1>1, <1>2, ItemType DEF ItemFits

LEMMA ItemStays ==
    ASSUME CatalogInv, NEW n \in Items, item'[n] = item[n],
           ids' \in Nat, ids' >= ids, released \subseteq released'
    PROVE  ItemFits(n)' /\ Evolves(n)
  <1>1. ItemFits(n) /\ item[n].id \in Nat /\ item[n].latest \in Nat /\ ids \in Nat
    BY ItemsFit, ItemType
  <1>2. ItemFits(n)'
    BY <1>1 DEF ItemFits, BodyFits, Numbers, Exists, PublishedRows, WasReleased
  <1>3. Evolves(n)
    BY <1>1 DEF Evolves
  <1>4. QED BY <1>2, <1>3

LEMMA ChangedSound ==
    ASSUME CatalogInv, History, Requested, UNCHANGED <<session, bundle>>,
           item' \in [Items -> ItemRecords], \A n \in Items : ItemFits(n)',
           answered' \subseteq Items \X Nat \X Nat \X Bodies, AnswersFit', released' \subseteq Pinnable
    PROVE  CatalogInv'
  <1>1. Pinned /\ Bundled
    BY PinnedUnchanged, BundledUnchanged
  <1>2. TypeOK'
    BY <1>1 DEF TypeOK, History, Requested, Pinned, Bundled, RequestRecords, ItemFits, BodyFits
  <1>3. VersionsAreContiguous'
    BY DEF VersionsAreContiguous, ItemFits
  <1>4. ReleasesFit'
    BY DEF ReleasesFit, ItemFits, Items
  <1>5. PublishedPassedTheGate'
    BY DEF PublishedPassedTheGate, ItemFits, WasReleased, Items
  <1>6. QED BY <1>1, <1>2, <1>3, <1>4, <1>5 DEF CatalogInv, Requested, Pinned, Bundled

\* What was answered still stands, whatever else a step does.
LEMMA AnswersStay ==
    ASSUME CatalogInv, History, UNCHANGED answered
    PROVE  AnswersFit' /\ answered' \subseteq Items \X Nat \X Nat \X Bodies
  <1>1. AnswersAreKept'
    BY StillAnswered DEF AnswersAreKept
  <1>2. ids \in Nat /\ ids' \in Nat /\ ids' >= ids
    BY DEF History, CatalogInv, TypeOK
  <1>3. \A a \in answered : a[2] \in 1 .. ids
    BY DEF CatalogInv, AnswersFit
  <1>4. \A a \in answered' : a[2] \in 1 .. ids'
    BY <1>2, <1>3
  <1>5. QED BY <1>1, <1>4 DEF AnswersFit, CatalogInv, TypeOK

\* One item changes.
LEMMA OneChanged ==
    ASSUME CatalogInv, NEW n \in Items, NEW x \in ItemRecords, item' = [item EXCEPT ![n] = x],
           ids' = ids, released \subseteq released'
    PROVE  /\ item' \in [Items -> ItemRecords] /\ item'[n] = x
           /\ ItemFits(n)' => \A m \in Items : ItemFits(m)'
           /\ Evolves(n) => History
  <1>1. item \in [Items -> ItemRecords] /\ ids \in Nat
    BY DEF CatalogInv, TypeOK
  <1>2. item' \in [Items -> ItemRecords] /\ \A m \in Items : item'[m] = IF m = n THEN x ELSE item[m]
    BY <1>1
  <1>3. ASSUME NEW m \in Items, m # n PROVE ItemFits(m)' /\ Evolves(m)
    <2>1. item'[m] = item[m] /\ ids' \in Nat /\ ids' >= ids
      BY <1>1, <1>2, <1>3
    <2>2. QED BY <2>1, ItemStays
  <1>4. Evolves(n) => History
    BY <1>1, <1>3 DEF History
  <1>5. QED BY <1>2, <1>3, <1>4

LEMMA DeleteSound ==
    ASSUME CatalogInv, NEW n \in Sops \cup Blocks, Delete(n)
    PROVE  CatalogInv'
  <1>1. /\ item' = [item EXCEPT ![n] = Absent] /\ n \in Items /\ n \notin Configs
        /\ UNCHANGED <<ids, session, bundle, req, answered, released>>
    BY DEF Delete, Items
  <1>2. /\ Absent \in ItemRecords /\ Absent.id = 0 /\ Absent.latest = 0 /\ Absent.pointer = 0
        /\ Absent.rows = {}
    BY DEF Absent, ItemRecords
  <1>3. item' \in [Items -> ItemRecords] /\ item'[n] = Absent
    BY <1>1, <1>2, OneChanged
  <1>4. ids \in Nat
    BY DEF CatalogInv, TypeOK
  <1>5. ItemFits(n)'
    BY <1>1, <1>2, <1>3, <1>4 DEF ItemFits, Numbers, Exists, PublishedRows
  <1>6. Evolves(n)
    BY <1>1, <1>2, <1>3 DEF Evolves
  <1>7. History /\ \A m \in Items : ItemFits(m)'
    BY <1>1, <1>2, <1>5, <1>6, OneChanged
  <1>8. Requested
    <2>1. asked' = asked + 1 /\ asked < MaxRequests /\ asked \in 0 .. MaxRequests
      BY DEF Delete, CatalogInv, TypeOK
    <2>2. asked' \in 0 .. MaxRequests /\ req' \in [Requests -> RequestRecords]
      BY <1>1, <2>1 DEF CatalogInv, TypeOK, RequestRecords
    <2>3. ASSUME NEW r \in Requests PROVE RequestFits(req[r])'
      <3>1. PICK q \in RequestRecords : q = req[r] /\ RequestFits(q)
        BY RequestType
      <3>2. RequestFits(q)' /\ req'[r] = q
        BY <1>1, <1>7, <3>1, StillFits
      <3>3. QED BY <3>2 DEF RequestFits, SaveFits, ChoiceFits, PointFits
    <2>4. QED BY <2>2, <2>3 DEF Requested
  <1>9. released' \subseteq Pinnable
    BY <1>1 DEF CatalogInv, TypeOK
  <1>10. QED BY <1>1, <1>3, <1>7, <1>8, <1>9, AnswersStay, ChangedSound

LEMMA PointSound ==
    ASSUME CatalogInv, NEW r \in Requests, CommitPoint(r)
    PROVE  CatalogInv'
  <1> DEFINE q == req[r]
  <1>1. /\ UNCHANGED <<ids, session, bundle, answered, released>> /\ Close(r)
        /\ q.op = "point"
    BY DEF CommitPoint
  <1>2. CASE UNCHANGED item
    <2>1. Kept /\ Requested
      BY <1>1, <1>2, Closes, KeptHistory DEF Kept
    <2>2. QED BY <1>1, <1>2, <2>1, KeptSound, KeptHistory, PinnedUnchanged, BundledUnchanged
  <1>3. CASE item' = [item EXCEPT ![q.name].pointer = q.version]
    <2>1. q.name \in Configs /\ q.name \in Items /\ q.version \in Nat /\ PointFits(q)
      BY <1>1, RequestType DEF RecordOf, RequestFits, PointRecords, Items
    <2>2. PICK n \in Items : n = q.name
      BY <2>1
    <2> DEFINE x == [item[n] EXCEPT !.pointer = q.version]
    <2>3. /\ x \in ItemRecords /\ x.id = item[n].id /\ x.latest = item[n].latest
          /\ x.pointer = q.version /\ x.rows = item[n].rows
      BY <2>1, ItemType DEF ItemRecords
    <2>4. item' = [item EXCEPT ![n] = x]
      BY <1>3, <2>2 DEF CatalogInv, TypeOK
    <2> HIDE DEF x
    <2>5. item' \in [Items -> ItemRecords] /\ item'[n] = x
      BY <1>1, <2>3, <2>4, OneChanged
    <2>6. ItemFits(n) /\ item[n].latest \in Nat /\ item[n].id \in Nat
      BY ItemsFit, ItemType
    <2>7. x.pointer <= x.latest
      BY <2>1, <2>2, <2>3 DEF PointFits
    <2>8. ItemFits(n)'
      BY <1>1, <2>3, <2>5, <2>6, <2>7 DEF ItemFits, BodyFits, Numbers, Exists, PublishedRows, WasReleased
    <2>9. Evolves(n)
      BY <2>3, <2>5, <2>6 DEF Evolves
    <2>10. History /\ \A m \in Items : ItemFits(m)'
      BY <1>1, <2>3, <2>4, <2>8, <2>9, OneChanged
    <2>11. Requested
      BY <1>1, <2>10, Closes
    <2>12. released' \subseteq Pinnable
      BY <1>1 DEF CatalogInv, TypeOK
    <2>13. QED BY <1>1, <2>5, <2>10, <2>11, <2>12, AnswersStay, ChangedSound
  <1>4. QED BY <1>2, <1>3 DEF CommitPoint

LEMMA PublishSound ==
    ASSUME CatalogInv, NEW r \in Requests, CommitPublish(r)
    PROVE  CatalogInv'
  <1> DEFINE q == req[r]
  <1>1. UNCHANGED <<ids, session, bundle, answered>> /\ Close(r) /\ q.op = "publish"
    BY DEF CommitPublish
  <1>2. CASE item[q.name].id # q.id
    <2>1. UNCHANGED <<item, released>>
      BY <1>2 DEF CommitPublish
    <2>2. Kept /\ Requested
      BY <1>1, <2>1, Closes, KeptHistory DEF Kept
    <2>3. QED BY <1>1, <2>1, <2>2, KeptSound, KeptHistory, PinnedUnchanged, BundledUnchanged
  <1>3. CASE item[q.name].id = q.id
    <2>1. q.name \in Sops \cup Blocks /\ q.name \in Items /\ q.version \in Nat /\ q.id \in Nat /\ ChoiceFits(q)
      BY <1>1, RequestType DEF RecordOf, RequestFits, ChosenRecords, Items
    <2>2. PICK n \in Items : n = q.name
      BY <2>1
    <2> DEFINE up(x) == IF x.version = q.version THEN [x EXCEPT !.published = TRUE] ELSE x
               rows == {up(x) : x \in item[n].rows}
               y == [item[n] EXCEPT !.rows = rows]
    <2>3. ASSUME NEW x \in item[n].rows
          PROVE  /\ up(x) \in RowRecords /\ up(x).version = x.version /\ up(x).body = x.body
                 /\ up(x).published => x.published \/ x.version = q.version
      <3>1. x \in RowRecords
        BY ItemType
      <3>2. CASE x.version = q.version
        BY <3>1, <3>2 DEF RowRecords
      <3>3. CASE x.version # q.version
        BY <3>1, <3>3
      <3>4. QED BY <3>2, <3>3
    <2>4. /\ y.id = item[n].id /\ y.latest = item[n].latest /\ y.pointer = item[n].pointer
          /\ y.rows = rows /\ y \in ItemRecords
      <3>1. rows \in SUBSET RowRecords
        BY <2>3
      <3> HIDE DEF rows
      <3>2. QED BY <3>1, ItemType DEF ItemRecords, RowRecords
    <2>5. item' = [item EXCEPT ![n] = y]
      BY <1>3, <2>2 DEF CommitPublish, CatalogInv, TypeOK
    <2>6. released' = released \cup ({<<n, q.id, q.version>>} \cap Pinnable)
      BY <1>3, <2>2 DEF CommitPublish, Pinnable
    <2> HIDE DEF up, rows, y
    <2>7. released \subseteq released' /\ released' \subseteq Pinnable
          /\ (n \in Blocks => <<n, q.id, q.version>> \in released')
      <3>1. n \in Blocks => <<n, q.id, q.version>> \in Pinnable
        BY <2>1 DEF Pinnable
      <3>2. QED BY <2>6, <3>1 DEF CatalogInv, TypeOK
    <2>8. item' \in [Items -> ItemRecords] /\ item'[n] = y
      BY <1>1, <2>4, <2>5, <2>7, OneChanged
    <2>9. ItemFits(n) /\ item[n].latest \in Nat /\ item[n].id \in Nat
      BY ItemsFit, ItemType
    <2>10. Evolves(n)
      BY <2>3, <2>4, <2>8, <2>9 DEF Evolves, rows
    <2>11. /\ \A x \in item'[n].rows : BodyFits(n, x.body)
           /\ \A u, v \in item'[n].rows : u.version = v.version => u = v
      BY <2>3, <2>4, <2>8, <2>9 DEF rows, ItemFits
    <2>12. Numbers(n)' = 1 .. item'[n].latest
      <3>1. {x.version : x \in rows} = {x.version : x \in item[n].rows}
        BY <2>3 DEF rows
      <3>2. QED BY <2>4, <2>8, <2>9, <3>1 DEF Numbers, ItemFits
    <2>13. ASSUME NEW x \in item'[n].rows, x.published
           PROVE  \E z \in item[n].rows :
                     z.version = x.version /\ z.body = x.body /\ (z.published \/ z.version = q.version)
      BY <2>3, <2>4, <2>8, <2>13 DEF rows
    <2>14. ASSUME n \in Blocks, NEW x \in item'[n].rows, x.published
           PROVE  <<n, item'[n].id, x.version>> \in released'
      <3>1. PICK z \in item[n].rows :
                     z.version = x.version /\ z.body = x.body /\ (z.published \/ z.version = q.version)
        BY <2>13, <2>14
      <3>2. CASE z.published
        BY <2>4, <2>7, <2>8, <2>9, <2>14, <3>1, <3>2 DEF ItemFits, PublishedRows
      <3>3. CASE z.version = q.version
        BY <1>3, <2>2, <2>4, <2>7, <2>8, <2>14, <3>1, <3>3
      <3>4. QED BY <3>1, <3>2, <3>3
    <2>15. ASSUME n \in Sops, NEW x \in item'[n].rows, x.published
           PROVE  x.body \in Clean /\ \A b \in BindsOf[x.body] : WasReleased(b)'
      <3>1. PICK z \in item[n].rows :
                     z.version = x.version /\ z.body = x.body /\ (z.published \/ z.version = q.version)
        BY <2>13, <2>15
      <3>2. x.body \in Clean /\ \A b \in BindsOf[x.body] : WasReleased(b)
        <4>1. CASE z.published
          BY <2>9, <2>15, <3>1, <4>1 DEF ItemFits, PublishedRows
        <4>2. CASE z.version = q.version
          <5>1. z.body = q.body
            BY <1>3, <2>1, <2>2, <2>9, <4>2 DEF ChoiceFits, ItemFits
          <5>2. QED BY <1>1, <2>1, <2>2, <2>15, <3>1, <5>1 DEF ChoiceFits
        <4>3. QED BY <3>1, <4>1, <4>2
      <3>3. \A b : WasReleased(b) => WasReleased(b)'
        BY <2>7 DEF WasReleased
      <3>4. QED BY <3>2, <3>3
    <2>16. ItemFits(n)'
      <3>1. item'[n] \in ItemRecords /\ item'[n].id <= ids' /\ item'[n].pointer <= item'[n].latest
            /\ (item'[n].id # 0 <=> item'[n].latest > 0)
        BY <1>1, <2>4, <2>8, <2>9 DEF ItemFits, Exists
      <3>2. QED BY <2>11, <2>12, <2>14, <2>15, <3>1 DEF ItemFits, Exists, PublishedRows, BodyFits
    <2>17. History /\ \A m \in Items : ItemFits(m)'
      BY <1>1, <2>4, <2>5, <2>7, <2>10, <2>16, OneChanged
    <2>18. Requested
      BY <1>1, <2>17, Closes
    <2>19. QED BY <1>1, <2>7, <2>8, <2>17, <2>18, AnswersStay, ChangedSound
  <1>4. QED BY <1>2, <1>3

-----------------------------------------------------------------------------
(***************************************************************************)
(* A save applies as a whole or not at all.  A write that applies is of    *)
(* the version after the latest, so that no number is skipped.             *)
(***************************************************************************)
LEMMA NextIsFree ==
    ASSUME CatalogInv, NEW w \in Writes, WriteFits(w), Applies(w)
    PROVE  /\ w.name \in Items /\ w.id \in Nat /\ item[w.name].id = w.id
           /\ w.version = item[w.name].latest + 1 /\ item[w.name].latest \in Nat
           /\ w.body \in Bodies /\ w.published \in BOOLEAN /\ w.point \in BOOLEAN
           /\ w.id = 0 => item[w.name].rows = {} /\ item[w.name].latest = 0
  <1>1. /\ w.name \in Items /\ w.id \in Nat /\ w.version \in Nat
        /\ w.body \in Bodies /\ w.published \in BOOLEAN /\ w.point \in BOOLEAN
    BY DEF Writes
  <1>2. item[w.name].latest \in Nat /\ Numbers(w.name) = 1 .. item[w.name].latest
    BY <1>1, ItemType
  <1>3. item[w.name].id = w.id /\ w.version \notin 1 .. item[w.name].latest
    BY <1>2 DEF Applies
  <1>4. w.version >= 1 /\ w.version <= item[w.name].latest + 1
    BY <1>3 DEF WriteFits
  <1>5. w.version = item[w.name].latest + 1
    BY <1>1, <1>2, <1>3, <1>4
  <1>6. w.id = 0 => item[w.name].rows = {} /\ item[w.name].latest = 0
    BY <1>1, <1>3, ItemType
  <1>7. QED BY <1>1, <1>2, <1>3, <1>5, <1>6

LEMMA SavedFits ==
    ASSUME CatalogInv, NEW w \in Writes, WriteFits(w), Applies(w), NEW n \in Items, n = w.name, NEW k \in Nat,
           IF w.id = 0 THEN k > ids /\ k <= ids' ELSE k = w.id,
           ids' \in Nat, ids' >= ids, released \subseteq released',
           item'[n] = Saved(n, w, k),
           n \in Blocks /\ w.published => <<n, k, w.version>> \in released',
           n \in Sops /\ w.published => w.body \in Clean /\ \A b \in BindsOf[w.body] : WasReleased(b)'
    PROVE  item'[n] \in ItemRecords /\ ItemFits(n)' /\ Evolves(n)
  <1> DEFINE new == Row(w.version, w.body, w.published)
  <1>1. /\ item'[n].id = k /\ item'[n].latest = w.version
        /\ item'[n].pointer = IF w.point THEN w.version ELSE item[n].pointer
        /\ item'[n].rows = item[n].rows \cup {new}
    BY DEF Saved
  <1>2. /\ new.version = w.version /\ new.body = w.body /\ new.published = w.published
        /\ new \in RowRecords
    BY NextIsFree DEF Row, RowRecords
  <1> HIDE DEF new
  <1>3. /\ ItemFits(n) /\ item[n].id \in Nat /\ item[n].latest \in Nat /\ item[n].pointer \in Nat
        /\ item[n].rows \subseteq RowRecords /\ ids \in Nat
        /\ \A x \in item[n].rows : x.version \in 1 .. item[n].latest
    BY ItemsFit, ItemType
  <1>4. /\ w.id \in Nat /\ item[n].id = w.id /\ w.version = item[n].latest + 1
        /\ w.id = 0 => item[n].rows = {} /\ item[n].latest = 0
    BY NextIsFree
  <1>5. item'[n] \in ItemRecords
    <2>1. item'[n].rows \subseteq RowRecords /\ item'[n].pointer \in Nat /\ w.version \in Nat
      BY <1>1, <1>2, <1>3, <1>4
    <2>2. item'[n] = [id |-> item'[n].id, latest |-> item'[n].latest,
                      pointer |-> item'[n].pointer, rows |-> item'[n].rows]
      BY DEF Saved
    <2>3. QED BY <1>1, <2>1, <2>2 DEF ItemRecords, RowRecords
  <1>6. /\ item'[n].id <= ids' /\ item'[n].pointer <= item'[n].latest
        /\ item'[n].id # 0 /\ item'[n].latest > 0
    BY <1>1, <1>3, <1>4 DEF ItemFits
  <1>7. \A x \in item'[n].rows : BodyFits(n, x.body)
    BY <1>1, <1>2, <1>3 DEF ItemFits, WriteFits
  <1>8. Numbers(n)' = 1 .. item'[n].latest
    <2>1. {x.version : x \in item'[n].rows} = Numbers(n) \cup {w.version}
      BY <1>1, <1>2 DEF Numbers
    <2>2. Numbers(n) = 1 .. item[n].latest
      BY <1>3 DEF ItemFits
    <2>3. (1 .. item[n].latest) \cup {item[n].latest + 1} = 1 .. item[n].latest + 1
      BY <1>3
    <2>4. QED BY <1>1, <1>4, <2>1, <2>2, <2>3 DEF Numbers
  <1>9. \A x, y \in item'[n].rows : x.version = y.version => x = y
    <2>1. \A x \in item[n].rows : x.version # new.version
      BY <1>2, <1>3, <1>4
    <2>2. QED BY <1>1, <1>3, <2>1 DEF ItemFits
  <1>10. ASSUME n \in Blocks, NEW x \in item'[n].rows, x.published
         PROVE  <<n, item'[n].id, x.version>> \in released'
    <2>1. CASE x = new
      BY <1>1, <1>2, <1>10, <2>1
    <2>2. CASE x \in item[n].rows
      <3>1. item'[n].id = item[n].id
        BY <1>1, <1>4, <2>2
      <3>2. <<n, item[n].id, x.version>> \in released
        BY <1>3, <1>10, <2>2 DEF ItemFits, PublishedRows
      <3>3. QED BY <3>1, <3>2
    <2>3. QED BY <1>1, <2>1, <2>2
  <1>11. ASSUME n \in Sops, NEW x \in item'[n].rows, x.published
         PROVE  x.body \in Clean /\ \A b \in BindsOf[x.body] : WasReleased(b)'
    <2>1. CASE x = new
      BY <1>2, <1>11, <2>1
    <2>2. CASE x \in item[n].rows
      BY <1>3, <1>11, <2>2 DEF ItemFits, PublishedRows, WasReleased
    <2>3. QED BY <1>1, <2>1, <2>2
  <1>12. ItemFits(n)'
    BY <1>5, <1>6, <1>7, <1>8, <1>9, <1>10, <1>11 DEF ItemFits, Exists, PublishedRows, BodyFits
  <1>13. Evolves(n)
    <2>1. item'[n].latest \in Nat /\ item'[n].latest >= item[n].latest
      BY <1>1, <1>3, <1>4
    <2>2. CASE w.id = 0
      BY <1>1, <1>4, <2>1, <2>2 DEF Evolves
    <2>3. CASE w.id # 0
      BY <1>1, <1>4, <2>1, <2>3 DEF Evolves
    <2>4. QED BY <2>2, <2>3
  <1>14. QED BY <1>5, <1>12, <1>13

LEMMA NumberingsFresh ==
    ASSUME CatalogInv, NEW writes \in SUBSET Writes, NEW i \in Numberings(writes)
    PROVE  /\ Cardinality(DOMAIN i) \in Nat
           /\ \A w \in writes : w.id = 0 =>
                 i[w.name] \in Nat /\ i[w.name] > ids /\ i[w.name] <= ids + Cardinality(DOMAIN i)
  <1> DEFINE new == {w.name : w \in {x \in writes : x.id = 0}}
  <1>1. new \subseteq Items
    BY DEF Writes
  <1>2. Cardinality(new) \in Nat
    BY <1>1, FS_Subset, FS_CardinalityType
  <1>3. i \in [new -> ids + 1 .. ids + Cardinality(new)]
    BY DEF Numberings
  <1>4. \A w \in writes : w.id = 0 => w.name \in new
    OBVIOUS
  <1> HIDE DEF new
  <1>5. ids \in Nat
    BY DEF CatalogInv, TypeOK
  <1>6. QED BY <1>2, <1>3, <1>4, <1>5

LEMMA SaveApplied ==
    ASSUME CatalogInv, NEW r \in Requests, CommitSave(r), req[r].op = "save",
           NEW i \in Numberings(req[r].writes), \A w \in req[r].writes : Applies(w), Apply(req[r].writes, i)
    PROVE  CatalogInv'
  <1> DEFINE writes == req[r].writes
  <1>1. writes \in SUBSET Writes /\ SaveFits(writes)
    BY RequestType DEF RecordOf, RequestFits, SaveRecords
  <1>2. Close(r) /\ UNCHANGED <<session, bundle>> /\ Apply(writes, i) /\ \A w \in writes : Applies(w)
    BY DEF CommitSave
  <1> HIDE DEF writes
  <1>3. ids \in Nat /\ ids' \in Nat /\ ids' >= ids /\ Cardinality(DOMAIN i) \in Nat /\ ids' = ids + Cardinality(DOMAIN i)
    BY <1>1, <1>2, NumberingsFresh DEF Apply, CatalogInv, TypeOK, writes
  <1>4. ASSUME NEW w \in writes
        PROVE  /\ w \in Writes /\ WriteFits(w) /\ Applies(w) /\ w.name \in Items
               /\ IdOf(i, w) \in Nat /\ IdOf(i, w) \in 1 .. ids'
               /\ IF w.id = 0 THEN IdOf(i, w) > ids /\ IdOf(i, w) <= ids' ELSE IdOf(i, w) = w.id
    <2>1. w \in Writes /\ WriteFits(w) /\ Applies(w)
      BY <1>1, <1>2 DEF SaveFits
    <2>2. w.name \in Items /\ w.id \in Nat /\ w.id <= ids
      BY <2>1, NextIsFree DEF WriteFits
    <2>3. w.id = 0 => i[w.name] \in Nat /\ i[w.name] > ids /\ i[w.name] <= ids'
      BY <1>1, <1>3, NumberingsFresh DEF writes
    <2>4. QED BY <1>3, <2>1, <2>2, <2>3 DEF IdOf
  <1>5. \A w \in writes : WriteOf(writes, w.name) = w
    BY <1>1 DEF WriteOf, SaveFits
  <1>6. /\ \A w \in writes : item'[w.name] = Saved(w.name, w, IdOf(i, w))
        /\ \A n \in Items : (\A w \in writes : w.name # n) => item'[n] = item[n]
    BY <1>2, <1>4, <1>5 DEF Apply
  <1>7. released' = released \cup {<<w.name, IdOf(i, w), w.version>> :
                                   w \in {x \in writes : x.published /\ x.name \in Blocks}}
    BY <1>2 DEF Apply
  <1>8. /\ released \subseteq released'
        /\ \A w \in writes : w.published /\ w.name \in Blocks => <<w.name, IdOf(i, w), w.version>> \in released'
    BY <1>7
  <1>9. \A b \in Blocks : WasReleased(b) \/ Brings(writes, b) => WasReleased(b)'
    <2>1. ASSUME NEW b \in Blocks, Brings(writes, b) PROVE WasReleased(b)'
      <3>1. PICK v \in writes : v.name = b /\ v.published
        BY <2>1 DEF Brings
      <3>2. <<b, IdOf(i, v), v.version>> \in released'
        BY <1>8, <3>1
      <3>3. QED BY <3>2 DEF WasReleased
    <2>2. QED BY <1>8, <2>1 DEF WasReleased
  <1>10. ASSUME NEW n \in Items
         PROVE  item'[n] \in ItemRecords /\ ItemFits(n)' /\ Evolves(n)
    <2>1. CASE \A w \in writes : w.name # n
      BY <1>3, <1>6, <1>8, <2>1, ItemStays, ItemType
    <2>2. CASE \E w \in writes : w.name = n
      <3>1. PICK w \in writes : w.name = n
        BY <2>2
      <3>2. PICK k \in Nat : k = IdOf(i, w)
        BY <1>4
      <3>3. /\ w \in Writes /\ WriteFits(w) /\ Applies(w)
            /\ IF w.id = 0 THEN k > ids /\ k <= ids' ELSE k = w.id
        BY <1>4, <3>2
      <3>4. item'[n] = Saved(n, w, k)
        BY <1>6, <3>1, <3>2
      <3>5. n \in Blocks /\ w.published => <<n, k, w.version>> \in released'
        BY <1>8, <3>1, <3>2
      <3>6. n \in Sops /\ w.published => w.body \in Clean /\ \A b \in BindsOf[w.body] : WasReleased(b)'
        BY <1>1, <1>9, <3>1, BindsType DEF SaveFits
      <3>7. QED BY <1>3, <1>8, <3>1, <3>3, <3>4, <3>5, <3>6, SavedFits
    <2>3. QED BY <2>1, <2>2
  <1>11. History
    BY <1>3, <1>8, <1>10 DEF History
  <1>12. item' \in [Items -> ItemRecords]
    <2>1. item' = [n \in Items |-> item'[n]]
      BY <1>2 DEF Apply
    <2>2. QED BY <1>10, <2>1
  <1>13. answered' = answered \cup {<<w.name, IdOf(i, w), w.version, w.body>> : w \in writes}
    BY <1>2 DEF Apply
  <1>14. ASSUME NEW w \in writes
         PROVE  /\ <<w.name, IdOf(i, w), w.version, w.body>> \in Items \X Nat \X Nat \X Bodies
                /\ \E x \in item'[w.name].rows : x.version = w.version /\ x.body = w.body
    <2>1. w.name \in Items /\ w.version \in Nat /\ w.body \in Bodies /\ IdOf(i, w) \in Nat
      BY <1>4 DEF Writes
    <2>2. Row(w.version, w.body, w.published) \in item'[w.name].rows
      <3>1. \A k : Row(w.version, w.body, w.published) \in Saved(w.name, w, k).rows
        BY DEF Saved
      <3>2. QED BY <1>6, <3>1
    <2>3. Row(w.version, w.body, w.published).version = w.version /\ Row(w.version, w.body, w.published).body = w.body
      BY DEF Row
    <2>4. QED BY <2>1, <2>2, <2>3
  <1>15. answered' \subseteq Items \X Nat \X Nat \X Bodies
    BY <1>13, <1>14 DEF CatalogInv, TypeOK
  <1>16. AnswersFit'
    <2>1. ASSUME NEW a \in answered', item'[a[1]].id = a[2]
          PROVE  \E x \in item'[a[1]].rows : x.version = a[3] /\ x.body = a[4]
      <3>1. CASE a \in answered
        BY <1>11, <2>1, <3>1, StillAnswered
      <3>2. CASE \E w \in writes : a = <<w.name, IdOf(i, w), w.version, w.body>>
        <4>1. PICK w \in writes : a = <<w.name, IdOf(i, w), w.version, w.body>>
          BY <3>2
        <4>2. a[1] = w.name /\ a[3] = w.version /\ a[4] = w.body
          BY <4>1
        <4>3. QED BY <1>14, <4>2
      <3>3. QED BY <1>13, <3>1, <3>2
    <2>2. ASSUME NEW a \in answered' PROVE a[2] \in 1 .. ids'
      <3>1. CASE a \in answered
        BY <1>3, <3>1 DEF CatalogInv, AnswersFit
      <3>2. CASE \E w \in writes : a = <<w.name, IdOf(i, w), w.version, w.body>>
        <4>1. PICK w \in writes : a = <<w.name, IdOf(i, w), w.version, w.body>>
          BY <3>2
        <4>2. a[2] = IdOf(i, w)
          BY <4>1
        <4>3. QED BY <1>4, <4>2
      <3>3. QED BY <1>13, <3>1, <3>2
    <2>3. QED BY <2>1, <2>2 DEF AnswersFit, AnswersAreKept
  <1>17. released' \subseteq Pinnable
    <2>1. \A w \in writes : w.name \in Blocks => <<w.name, IdOf(i, w), w.version>> \in Pinnable
      BY <1>4 DEF Pinnable, Writes
    <2>2. QED BY <1>7, <2>1 DEF CatalogInv, TypeOK
  <1>18. Requested
    BY <1>2, <1>11, Closes
  <1>19. QED BY <1>2, <1>10, <1>11, <1>12, <1>15, <1>16, <1>17, <1>18, ChangedSound

LEMMA CommitSaveSound ==
    ASSUME CatalogInv, NEW r \in Requests, CommitSave(r)
    PROVE  CatalogInv'
  <1>1. CASE Kept
    <2>1. Close(r) /\ UNCHANGED <<item, ids, released, session, bundle>>
      BY <1>1 DEF CommitSave, Kept
    <2>2. Requested
      BY <2>1, Closes, KeptHistory
    <2>3. QED BY <1>1, <2>1, <2>2, KeptSound, KeptHistory, PinnedUnchanged, BundledUnchanged
  <1>2. CASE /\ \A w \in req[r].writes : Applies(w)
             /\ \E i \in Numberings(req[r].writes) : Apply(req[r].writes, i)
    <2>1. req[r].op = "save"
      BY DEF CommitSave
    <2>2. QED BY <1>2, <2>1, SaveApplied
  <1>3. QED BY <1>1, <1>2 DEF CommitSave, Kept

-----------------------------------------------------------------------------
LEMMA CatalogInit == Init => CatalogInv
  <1> SUFFICES ASSUME Init PROVE CatalogInv
    OBVIOUS
  <1> DEFINE M == Cardinality(Sops \cup Blocks)
  <1>1. M \in Nat
    <2>1. IsFiniteSet(Sops \cup Blocks)
      BY FS_Subset DEF Items
    <2>2. QED BY <2>1, FS_CardinalityType
  <1>2. /\ session = [s \in Sessions |-> NoSession] /\ bundle = {} /\ answered = {} /\ asked = 0
        /\ req = [r \in Requests |-> Idle]
    BY DEF Init
  <1>3. /\ \A r \in Requests : RequestFits(req[r]) /\ req[r] = Idle
        /\ BundleFits /\ AnswersFit
    BY <1>2, IdleFits DEF BundleFits, AnswersFit, AnswersAreKept
  <1>4. NoSession \in SessionRecords /\ PinsAreReleased
    <2>1. NoSession \in SessionRecords /\ NoSession.pinned = {} /\ NoSession.sop = "none"
      BY DEF NoSession, SessionRecords
    <2>2. QED BY <1>2, <2>1 DEF PinsAreReleased
  <1>5. /\ req \in [Requests -> {Idle} \cup SaveRecords \cup ChosenRecords \cup PointRecords \cup PinRecords]
        /\ session \in [Sessions -> SessionRecords] /\ asked \in 0 .. MaxRequests
        /\ bundle \subseteq [name : Sops \cup Blocks, body : Bodies, published : BOOLEAN]
        /\ answered \subseteq Items \X Nat \X Nat \X Bodies
    BY <1>2, <1>4
  <1>6. ASSUME item \in [Items -> ItemRecords], ids \in Nat, released \subseteq Pinnable, \A n \in Items : ItemFits(n)
        PROVE  CatalogInv
    <2>1. TypeOK
      BY <1>5, <1>6 DEF TypeOK, ItemFits, BodyFits
    <2>2. VersionsAreContiguous
      BY <1>6 DEF VersionsAreContiguous, ItemFits
    <2>3. ReleasesFit
      BY <1>6 DEF ReleasesFit, ItemFits, Items
    <2>4. PublishedPassedTheGate
      BY <1>6 DEF PublishedPassedTheGate, ItemFits, WasReleased, Items
    <2>5. QED BY <1>3, <1>4, <2>1, <2>2, <2>3, <2>4 DEF CatalogInv
  <1>7. /\ Absent \in ItemRecords /\ Absent.id = 0 /\ Absent.latest = 0 /\ Absent.pointer = 0
        /\ Absent.rows = {}
    BY DEF Absent, ItemRecords
  <1>8. ASSUME NEW n \in Items, item[n] = Absent, ids \in Nat PROVE ItemFits(n)
    BY <1>7, <1>8 DEF ItemFits, Numbers, Exists, PublishedRows
  <1>9. CASE item = [n \in Items |-> Absent] /\ ids = 0 /\ released = {}
    <2>1. item \in [Items -> ItemRecords] /\ ids \in Nat /\ released \subseteq Pinnable /\ \A n \in Items : item[n] = Absent
      BY <1>7, <1>9
    <2>2. QED BY <1>6, <1>8, <2>1
  <1>10. ASSUME NEW number \in [Sops \cup Blocks -> 1 .. M], NEW d \in Clean, NEW t \in Texts,
                item = [n \in Items |-> IF n \in Configs THEN Absent
                                        ELSE Single(number[n], IF n \in Sops THEN d ELSE t)],
                ids = M, released = {<<b, number[b], 1>> : b \in Blocks}
         PROVE  CatalogInv
    <2>1. d \in Definitions /\ BindsOf[d] \subseteq Blocks
      BY BindsType
    <2>2. \A b \in Blocks : WasReleased(b)
      <3>1. \A b \in Blocks : <<b, number[b], 1>> \in released
        BY <1>10
      <3>2. QED BY <3>1 DEF WasReleased
    <2>3. released \subseteq Pinnable
      <3>1. \A b \in Blocks : number[b] \in 1 .. M
        OBVIOUS
      <3>2. \A b \in Blocks : <<b, number[b], 1>> \in Pinnable
        BY <1>1, <3>1 DEF Pinnable
      <3>3. QED BY <1>10, <3>2
    <2>4. ASSUME NEW n \in Sops \cup Blocks PROVE ItemFits(n)
      <3> DEFINE body == IF n \in Sops THEN d ELSE t
      <3>1. number[n] \in 1 .. M /\ number[n] \in Nat /\ number[n] # 0
        BY <1>1
      <3>2. item[n] = Single(number[n], body) /\ n \in Items
        BY <1>10 DEF Items
      <3>3. body \in Bodies /\ BodyFits(n, body)
        BY <2>1 DEF Bodies, BodyFits
      <3> HIDE DEF body
      <3>4. Row(1, body, TRUE) \in RowRecords
        BY <3>3 DEF Row, RowRecords
      <3>5. /\ item[n].id = number[n] /\ item[n].latest = 1 /\ item[n].pointer = 0
            /\ item[n].rows = {Row(1, body, TRUE)} /\ item[n] \in ItemRecords
        <4> DEFINE rows == {Row(1, body, TRUE)}
        <4>1. rows \in SUBSET RowRecords
          BY <3>4
        <4>2. item[n] = [id |-> number[n], latest |-> 1, pointer |-> 0, rows |-> rows]
          BY <3>2 DEF Single
        <4> HIDE DEF rows
        <4>3. item[n] \in ItemRecords
          BY <3>1, <4>1, <4>2 DEF ItemRecords, RowRecords
        <4>4. QED BY <4>2, <4>3 DEF rows
      <3>6. \A x \in item[n].rows : x.version = 1 /\ x.body = body
        BY <3>5 DEF Row
      <3>7. Numbers(n) = 1 .. item[n].latest
        <4>1. Row(1, body, TRUE).version = 1
          BY DEF Row
        <4>2. Numbers(n) = {1}
          BY <3>5, <4>1 DEF Numbers
        <4>3. QED BY <3>5, <4>2
      <3>8. n \in Blocks => \A x \in PublishedRows(n) : <<n, item[n].id, x.version>> \in released
        BY <1>10, <3>5, <3>6 DEF PublishedRows
      <3>9. n \in Sops => \A x \in PublishedRows(n) : x.body \in Clean /\ \A b \in BindsOf[x.body] : WasReleased(b)
        BY <2>1, <2>2, <3>6 DEF PublishedRows, body
      <3>10. /\ item[n].id <= ids /\ item[n].pointer <= item[n].latest
             /\ item[n].id # 0 /\ item[n].latest > 0
        BY <1>1, <1>10, <3>1, <3>5
      <3>11. \A x, y \in item[n].rows : x = y
        BY <3>5
      <3>12. QED BY <3>3, <3>5, <3>6, <3>7, <3>8, <3>9, <3>10, <3>11 DEF ItemFits, Exists
    <2>5. \A n \in Configs : ItemFits(n)
      BY <1>1, <1>8, <1>10 DEF Items
    <2>6. \A n \in Items : ItemFits(n)
      BY <2>4, <2>5 DEF Items
    <2>7. item \in [Items -> ItemRecords]
      BY <1>10, <2>6 DEF ItemFits
    <2>8. QED BY <1>1, <1>6, <1>10, <2>3, <2>6, <2>7
  <1>11. QED BY <1>9, <1>10 DEF Init

LEMMA CatalogNext == CatalogInv /\ [Next]_vars => CatalogInv'
  <1> SUFFICES ASSUME CatalogInv, [Next]_vars PROVE CatalogInv'
    OBVIOUS
  <1>1. ASSUME NEW r \in Requests, Edit(r) PROVE CatalogInv'
    <2>1. ASSUME NEW n \in Sops, NEW d \in Definitions, CreateSop(r, n, d) \/ UpdateSop(r, n, d) \/ Ingest(r, n, d)
          PROVE  CatalogInv'
      <3>1. PICK m \in Sops : Save(r, m, d, FALSE)
        BY <2>1 DEF CreateSop, UpdateSop, Ingest
      <3>2. m \in Items /\ BodyFits(m, d) /\ FALSE \in BOOLEAN
        BY DEF Items, BodyFits
      <3>3. \A p \in BOOLEAN : Save(r, m, d, p) => CatalogInv'
        BY <3>2, SaveSound
      <3>4. QED BY <3>1, <3>3
    <2>2. ASSUME NEW b \in Blocks, NEW t \in Texts, SaveBlock(r, b, t) PROVE CatalogInv'
      <3>1. b \in Items /\ BodyFits(b, t)
        BY DEF Items, BodyFits
      <3>2. \A p \in BOOLEAN : Save(r, b, t, p) => CatalogInv'
        BY <3>1, SaveSound
      <3>3. QED BY <2>2, <3>2 DEF SaveBlock
    <2>3. ASSUME NEW t \in Texts, NEW p \in BOOLEAN,
                 SaveRuleset(r, t, p) \/ SaveAnalysis(r, t, p) \/ SaveDocument(r, t, p)
          PROVE  CatalogInv'
      <3>1. PICK c \in Configs : Save(r, c, t, p)
        BY <2>3 DEF SaveRuleset, SaveAnalysis, SaveDocument, Configs
      <3>2. c \in Items /\ BodyFits(c, t)
        BY DEF Items, BodyFits
      <3>3. QED BY <3>1, <3>2, SaveSound
    <2>4. QED BY <1>1, <2>1, <2>2, <2>3, ImportSound, CommitSaveSound DEF Edit
  <1>2. ASSUME NEW r \in Requests, Release(r) PROVE CatalogInv'
    <2>1. ASSUME NEW n \in Sops, PublishSop(r, n) PROVE CatalogInv'
      BY <2>1, PublishingSound DEF PublishSop
    <2>2. ASSUME NEW b \in Blocks, PublishBlock(r, b) PROVE CatalogInv'
      BY <2>2, PublishingSound DEF PublishBlock
    <2>3. ASSUME PublishRuleset(r) \/ PublishDocument(r) PROVE CatalogInv'
      BY <2>3, PointingSound DEF PublishRuleset, PublishDocument, Configs
    <2>4. QED BY <1>2, <2>1, <2>2, <2>3, GateSound, PublishSound, PointSound DEF Release
  <1>3. ASSUME NEW r \in Requests, Bind(r) PROVE CatalogInv'
    <2>1. ASSUME NEW s \in Sessions, NEW n \in Sops, Route(r, s, n) PROVE CatalogInv'
      <3>1. NewestPublished(n) \in item[n].rows
        BY <2>1, NewestPublishedRow DEF Route, Items
      <3>2. QED BY <2>1, <3>1, PinSound DEF Route
    <2>2. ASSUME NEW s \in Sessions, NEW n \in Sops, NEW v \in {0} \cup Numbers(n), StartSession(r, s, n, v)
          PROVE  CatalogInv'
      <3> DEFINE row == IF v = 0 THEN NewestPublished(n) ELSE CHOOSE x \in item[n].rows : x.version = v
      <3>1. row \in item[n].rows
        <4>1. CASE v = 0
          BY <2>2, <4>1, NewestPublishedRow DEF StartSession, Items
        <4>2. CASE v # 0
          <5>1. \E x \in item[n].rows : x.version = v
            BY <4>2 DEF Numbers
          <5>2. QED BY <4>2, <5>1
        <4>3. QED BY <4>1, <4>2
      <3>2. Open(r, Pin("start", s, n, row)) /\ Reading
        BY <2>2 DEF StartSession
      <3> HIDE DEF row
      <3>3. QED BY <3>1, <3>2, PinSound
    <2>3. QED BY <1>3, <2>1, <2>2, BindSound DEF Bind
  <1>4. CASE ExportProject \/ \E n \in Sops : DeleteSop(n)
    BY <1>4, ExportSound, DeleteSound DEF DeleteSop
  <1>5. CASE (\E b \in Blocks : DeleteBlock(b)) \/ \E s \in Sessions : StartIntake(s)
    BY <1>5, DeleteSound, IntakeSound DEF DeleteBlock
  <1>6. CASE UNCHANGED vars
    <2>1. Kept /\ UNCHANGED <<item, ids, released, session, bundle, req, asked>>
      BY <1>6 DEF vars, Kept
    <2>2. QED BY <2>1, RequestedUnchanged, KeptSound, KeptHistory, PinnedUnchanged, BundledUnchanged
  <1>7. QED BY <1>1, <1>2, <1>3, <1>4, <1>5, <1>6, AbortSound DEF Next

LEMMA Invariant == Spec => []CatalogInv
  BY CatalogInit, CatalogNext, PTL DEF Spec

(***************************************************************************)
(* Whatever overlaps or fails, every item has one row of each version up   *)
(* to its latest, what a save was answered for stands, and every view      *)
(* finds what it names.                                                    *)
(***************************************************************************)
THEOREM CatalogHolds == Spec => []CatalogIsSound
  <1>1. ASSUME CatalogInv PROVE ViewsAreWhole
    <2>1. ASSUME NEW n \in Items, NEW v \in 1 .. item[n].latest PROVE Versions(n, v) # {}
      <3>1. v \in Numbers(n)
        BY <1>1, ItemType
      <3>2. QED BY <3>1 DEF Numbers, Versions
    <2>2. ASSUME NEW n \in Items, Exists(n)
          PROVE  Versions(n, item[n].latest) # {}
      <3>1. item[n].latest \in 1 .. item[n].latest
        BY <1>1, <2>2, ItemType
      <3>2. QED BY <2>1, <3>1
    <2>3. ASSUME NEW n \in Items, Versions(n, item[n].latest) # {} PROVE Exists(n)
      <3>1. PICK x \in item[n].rows : x.version = item[n].latest
        BY <2>3 DEF Versions
      <3>2. item[n].latest > 0
        BY <1>1, <3>1, ItemType
      <3>3. QED BY <1>1, <3>2, ItemType
    <2>4. ListBlocks = {b \in Blocks : Exists(b)}
      BY <2>2, <2>3 DEF ListBlocks, Items
    <2>5. ASSUME NEW n \in Sops, Exists(n) PROVE GetSop(n, 0) # {}
      <3>1. n \in Items /\ Newest(n) \in item[n].rows /\ Newest(n).version = item[n].latest
        BY <1>1, <2>5, NewestRow DEF Items
      <3>2. \A y \in item[n].rows : y.version <= Newest(n).version
        BY <1>1, <3>1, ItemType
      <3>3. QED BY <3>1, <3>2 DEF GetSop
    <2>6. ASSUME NEW c \in Configs
          PROVE  LET x == Profile(c) IN x.exists => x.latest # {} /\ (x.pointer # 0 => x.published # {})
      <3>1. c \in Items /\ item[c].pointer \in Nat /\ item[c].pointer <= item[c].latest
        BY <1>1, ItemType DEF Items
      <3>2. item[c].pointer # 0 => Versions(c, item[c].pointer) # {}
        BY <2>1, <3>1, ItemType, <1>1
      <3>3. QED BY <2>2, <3>1, <3>2 DEF Profile
    <2>7. \A x \in {GetRuleset, GetAnalysis, GetDocument} :
             x.exists => x.latest # {} /\ (x.pointer # 0 => x.published # {})
      BY <2>6 DEF GetRuleset, GetAnalysis, GetDocument, Configs
    <2>8. QED BY <2>4, <2>5, <2>7 DEF ViewsAreWhole
  <1>2. CatalogInv => CatalogIsSound
    BY <1>1 DEF CatalogInv, CatalogIsSound, AnswersFit
  <1>3. QED BY <1>2, Invariant, PTL

(***************************************************************************)
(* A published procedure is lint-clean, and the blocks it binds have been  *)
(* published, whatever ran beside its publication or came in an import.    *)
(***************************************************************************)
THEOREM GateHolds == Spec => []PublishedPassedTheGate
  <1>1. CatalogInv => PublishedPassedTheGate
    BY DEF CatalogInv
  <1>2. QED BY <1>1, Invariant, PTL

(***************************************************************************)
(* What a session has pinned was published, and a session started on a     *)
(* procedure has every block it binds.                                     *)
(***************************************************************************)
THEOREM PinsHold == Spec => []PinsAreReleased
  <1>1. CatalogInv => PinsAreReleased
    BY DEF CatalogInv
  <1>2. QED BY <1>1, Invariant, PTL
=============================================================================
