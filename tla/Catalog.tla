------------------------------- MODULE Catalog -------------------------------
(***************************************************************************)
(* What a project is made of: procedures, prompt blocks and configuration, *)
(* all versioned in one way (api/sops.py, prompt_blocks.py,                *)
(* configtools.py), exported and imported (project_io.py), and bound to    *)
(* the sessions that use them (sessions.py, runtime.py).                   *)
(*                                                                         *)
(* A handler reads, computes and commits; between its read and its commit  *)
(* other requests commit.  The database keeps (parent, version) and names  *)
(* unique, and a commit that breaks that, or that updates a row deleted    *)
(* meanwhile, fails as a whole.                                            *)
(***************************************************************************)
EXTENDS Integers, FiniteSets

CONSTANTS
    Requests,      \* the requests that may be open at once
    Sops, Blocks,  \* the names of procedures and of prompt blocks
    Definitions,   \* the definitions a procedure may have
    Texts,         \* what a block or a configuration may say
    BindsOf,       \* the blocks each definition's stages bind
    Clean,         \* the definitions the linter passes
    Sessions,
    MaxRequests    \* bound: requests in all

Configs == {"ruleset", "analysis", "document"}
Items == Sops \cup Blocks \cup Configs

ASSUME NamesAssumption ==
    /\ IsFiniteSet(Items) /\ Sops \cap Blocks = {} /\ (Sops \cup Blocks) \cap Configs = {}
    /\ {"none", "intake"} \cap Sops = {}
ASSUME DefinitionsAssumption == BindsOf \in [Definitions -> SUBSET Blocks] /\ Clean \subseteq Definitions
ASSUME BoundAssumption == MaxRequests \in Nat

VARIABLES
    item,      \* by name: its row's id (0: no row), latest version, published pointer, version rows
    ids,       \* how many parent rows have been created
    session,   \* each session's procedure, version and pinned blocks
    bundle,    \* the last export
    req,       \* what each open request has read and is about to commit
    asked,     \* how many requests have been made
    answered,  \* history: the versions whose save was answered
    released   \* history: the block versions published, as <<name, id, version>>
vars == <<item, ids, session, bundle, req, asked, answered, released>>

(***************************************************************************)
(* Procedures and blocks have a status on each version; a configuration    *)
(* has one pointer to its published version (0: none) instead.             *)
(***************************************************************************)
Row(v, body, published) == [version |-> v, body |-> body, published |-> published]
Absent == [id |-> 0, latest |-> 0, pointer |-> 0, rows |-> {}]
Single(i, body) == [id |-> i, latest |-> 1, pointer |-> 0, rows |-> {Row(1, body, TRUE)}]

Idle == [op |-> "none"]
NoSession == [sop |-> "none", version |-> 0, def |-> "none", pinned |-> {}, routed |-> FALSE]

\* Either nothing yet, or a project whose blocks and procedures were published before.
Init ==
    /\ \/ item = [n \in Items |-> Absent] /\ ids = 0 /\ released = {}
       \/ \E number \in [Sops \cup Blocks -> 1 .. Cardinality(Sops \cup Blocks)], d \in Clean, t \in Texts :
            /\ \A m, n \in Sops \cup Blocks : m # n => number[m] # number[n]
            /\ item = [n \in Items |-> IF n \in Configs THEN Absent
                                       ELSE Single(number[n], IF n \in Sops THEN d ELSE t)]
            /\ ids = Cardinality(Sops \cup Blocks)
            /\ released = {<<b, number[b], 1>> : b \in Blocks}
    /\ session = [s \in Sessions |-> NoSession]
    /\ bundle = {}
    /\ req = [r \in Requests |-> Idle] /\ asked = 0
    /\ answered = {}

-----------------------------------------------------------------------------
Exists(n) == item[n].id # 0
Numbers(n) == {x.version : x \in item[n].rows}
Newest(n) == CHOOSE x \in item[n].rows : \A y \in item[n].rows : y.version <= x.version
PublishedRows(n) == {x \in item[n].rows : x.published}
NewestPublished(n) == CHOOSE x \in PublishedRows(n) : \A y \in PublishedRows(n) : y.version <= x.version

\* resolve_published_blocks: of each name its newest published version; the others are missing.
Resolved(names) == {<<b, item[b].id, NewestPublished(b).version>> : b \in {c \in names : PublishedRows(c) # {}}}
Missing(names) == {b \in names : PublishedRows(b) = {}}

\* The publish gate: the linter, and every bound block published.
Publishable(def) == def \in Clean /\ Missing(BindsOf[def]) = {}

Open(r, q) ==
    /\ req[r] = Idle /\ asked < MaxRequests
    /\ asked' = asked + 1
    /\ req' = [req EXCEPT ![r] = q]
Close(r) == req' = [req EXCEPT ![r] = Idle] /\ UNCHANGED asked
Reading == UNCHANGED <<item, ids, session, bundle, answered, released>>

-----------------------------------------------------------------------------
(***************************************************************************)
(* Saving.  A save has read the parent row, or that there is none, and     *)
(* will add the next version.                                              *)
(***************************************************************************)
NextVersion(n, body, published, point) ==
    [name |-> n, id |-> item[n].id, version |-> item[n].latest + 1, body |-> body,
     published |-> published, point |-> point]
Saving(writes) == [op |-> "save", writes |-> writes]
Save(r, n, body, point) == Open(r, Saving({NextVersion(n, body, FALSE, point)})) /\ Reading

CreateSop(r, n, d) == ~Exists(n) /\ Save(r, n, d, FALSE)
UpdateSop(r, n, d) == Exists(n) /\ Save(r, n, d, FALSE)

\* A drafted document gets a name of its own when the one it asks for is taken.
Ingest(r, n, d) ==
    \E m \in Sops : ~Exists(m) /\ (Exists(n) \/ m = n) /\ Save(r, m, d, FALSE)

SaveBlock(r, b, t) == Save(r, b, t, FALSE)
SaveRuleset(r, t, publish) == Save(r, "ruleset", t, publish)
SaveAnalysis(r, t, publish) == Save(r, "analysis", t, publish)
SaveDocument(r, t, publish) == Save(r, "document", t, publish)

(***************************************************************************)
(* An import is one transaction: the blocks come first, with the bundle's  *)
(* status; a procedure the bundle calls published passes the gate on top   *)
(* of those, or comes in as a draft.                                       *)
(***************************************************************************)
Incoming(b) == \E x \in bundle : x.name = b /\ x.published
ImportGate(def) == def \in Clean /\ \A b \in Missing(BindsOf[def]) : Incoming(b)
ImportProject(r) ==
    /\ bundle # {}
    /\ Open(r, Saving({NextVersion(x.name, x.body, x.published /\ (x.name \in Sops => ImportGate(x.body)), FALSE) :
                       x \in bundle}))
    /\ Reading

\* The latest version of every procedure and block, with its status.
ExportProject ==
    /\ bundle' = {[name |-> n, body |-> Newest(n).body, published |-> Newest(n).published] :
                  n \in {m \in Sops \cup Blocks : Exists(m)}}
    /\ UNCHANGED <<item, ids, session, req, asked, answered, released>>

\* The parent row is the one that was read, and the number is free.
Applies(w) == item[w.name].id = w.id /\ w.version \notin Numbers(w.name)

\* Mutant of Saved: a draft gives way to the version saved after it.
SavedOverDrafts(n, w, i) ==
    [id |-> i, latest |-> w.version, pointer |-> IF w.point THEN w.version ELSE item[n].pointer,
     rows |-> {x \in item[n].rows : x.published} \cup {Row(w.version, w.body, w.published)}]

Saved(n, w, i) ==
    [id |-> i, latest |-> w.version, pointer |-> IF w.point THEN w.version ELSE item[n].pointer,
     rows |-> item[n].rows \cup {Row(w.version, w.body, w.published)}]

\* The ids the parents that are new get, in any order.
Numberings(writes) ==
    LET new == {w.name : w \in {x \in writes : x.id = 0}} IN
    {f \in [new -> ids + 1 .. ids + Cardinality(new)] : \A m, n \in new : m # n => f[m] # f[n]}

WriteOf(writes, n) == CHOOSE w \in writes : w.name = n
IdOf(i, w) == IF w.id = 0 THEN i[w.name] ELSE w.id

Apply(writes, i) ==
    /\ item' = [n \in Items |-> IF \E w \in writes : w.name = n
                                THEN Saved(n, WriteOf(writes, n), IdOf(i, WriteOf(writes, n))) ELSE item[n]]
    /\ ids' = ids + Cardinality(DOMAIN i)
    /\ answered' = answered \cup {<<w.name, IdOf(i, w), w.version, w.body>> : w \in writes}
    /\ released' = released \cup {<<w.name, IdOf(i, w), w.version>> :
                                  w \in {x \in writes : x.published /\ x.name \in Blocks}}

CommitSave(r) ==
    /\ req[r].op = "save"
    /\ \/ /\ \A w \in req[r].writes : Applies(w)
          /\ \E i \in Numberings(req[r].writes) : Apply(req[r].writes, i)
       \/ (\E w \in req[r].writes : ~Applies(w)) /\ UNCHANGED <<item, ids, answered, released>>
    /\ Close(r)
    /\ UNCHANGED <<session, bundle>>

-----------------------------------------------------------------------------
(***************************************************************************)
(* Publishing.  The newest version is read, checked, and its status        *)
(* updated, if the row is still there.                                     *)
(***************************************************************************)
Publishing(op, n) == [op |-> op, name |-> n, id |-> item[n].id, version |-> Newest(n).version, body |-> Newest(n).body]
PublishSop(r, n) == Exists(n) /\ Open(r, Publishing("gate", n)) /\ Reading
PublishBlock(r, b) == Exists(b) /\ Open(r, Publishing("publish", b)) /\ Reading

\* Mutant of GateSop: the linter alone.
GateSopByLint(r) ==
    /\ req[r].op = "gate"
    /\ req' = [req EXCEPT ![r] = IF req[r].body \in Clean THEN [@ EXCEPT !.op = "publish"] ELSE Idle]
    /\ UNCHANGED asked /\ Reading

GateSop(r) ==
    /\ req[r].op = "gate"
    /\ req' = [req EXCEPT ![r] = IF Publishable(req[r].body) THEN [@ EXCEPT !.op = "publish"] ELSE Idle]
    /\ UNCHANGED asked /\ Reading

CommitPublish(r) ==
    /\ req[r].op = "publish"
    /\ LET q == req[r] IN
       IF item[q.name].id = q.id
       THEN /\ item' = [item EXCEPT ![q.name].rows =
                          {IF x.version = q.version THEN [x EXCEPT !.published = TRUE] ELSE x : x \in @}]
            /\ released' = released \cup ({<<q.name, q.id, q.version>>} \cap (Blocks \X Nat \X Nat))
       ELSE UNCHANGED <<item, released>>
    /\ Close(r)
    /\ UNCHANGED <<ids, session, bundle, answered>>

\* The pointer that was read decides whether an UPDATE is sent at all.
Pointing(n) == [op |-> "point", name |-> n, version |-> item[n].latest, was |-> item[n].pointer]
PublishRuleset(r) == Exists("ruleset") /\ Open(r, Pointing("ruleset")) /\ Reading
PublishDocument(r) == Exists("document") /\ Open(r, Pointing("document")) /\ Reading
CommitPoint(r) ==
    /\ req[r].op = "point"
    /\ item' = IF req[r].version = req[r].was THEN item
               ELSE [item EXCEPT ![req[r].name].pointer = req[r].version]
    /\ Close(r)
    /\ UNCHANGED <<ids, session, bundle, answered, released>>

\* Versions go with their parent; a request that had read it will fail.
Delete(n) ==
    /\ Exists(n) /\ asked < MaxRequests
    /\ asked' = asked + 1
    /\ item' = [item EXCEPT ![n] = Absent]
    /\ UNCHANGED <<ids, session, bundle, req, answered, released>>
DeleteSop(n) == Delete(n)
DeleteBlock(b) == Delete(b)

-----------------------------------------------------------------------------
(***************************************************************************)
(* Sessions pin a version and, by value, the blocks it binds.              *)
(***************************************************************************)
Pin(op, s, n, row) ==
    [op |-> op, session |-> s, name |-> n, id |-> item[n].id, version |-> row.version, def |-> row.body]

\* The newest published version, or version v whatever its status.
StartSession(r, s, n, v) ==
    /\ session[s] = NoSession
    /\ v = 0 => PublishedRows(n) # {}
    /\ LET row == IF v = 0 THEN NewestPublished(n) ELSE CHOOSE x \in item[n].rows : x.version = v
       IN Open(r, Pin("start", s, n, row))
    /\ Reading

\* Without a procedure: a session in intake.
StartIntake(s) ==
    /\ session[s] = NoSession
    /\ session' = [session EXCEPT ![s].sop = "intake"]
    /\ UNCHANGED <<item, ids, bundle, req, asked, answered, released>>

\* Mutant of BindStart: what is missing is left out.
BindStartPartly(r) ==
    /\ req[r].op = "start"
    /\ session' = [session EXCEPT ![req[r].session] =
                     [sop |-> req[r].name, version |-> req[r].version, def |-> req[r].def,
                      pinned |-> Resolved(BindsOf[req[r].def]), routed |-> FALSE]]
    /\ Close(r)
    /\ UNCHANGED <<item, ids, bundle, answered, released>>

BindStart(r) ==
    /\ req[r].op = "start"
    /\ session' = IF Missing(BindsOf[req[r].def]) # {} THEN session
                  ELSE [session EXCEPT ![req[r].session] =
                          [sop |-> req[r].name, version |-> req[r].version, def |-> req[r].def,
                           pinned |-> Resolved(BindsOf[req[r].def]), routed |-> FALSE]]
    /\ Close(r)
    /\ UNCHANGED <<item, ids, bundle, answered, released>>

\* A router has chosen among the procedures with a published version.
Route(r, s, n) ==
    /\ session[s].sop # "none" /\ PublishedRows(n) # {}
    /\ Open(r, Pin("assign", s, n, NewestPublished(n)))
    /\ Reading

\* _assign_sop: the version must still be there, the blocks it binds need not be.
AssignSop(r) ==
    /\ req[r].op = "assign"
    /\ session' = IF item[req[r].name].id # req[r].id THEN session
                  ELSE [session EXCEPT ![req[r].session] =
                          [sop |-> req[r].name, version |-> req[r].version, def |-> req[r].def,
                           pinned |-> Resolved(BindsOf[req[r].def]), routed |-> TRUE]]
    /\ Close(r)
    /\ UNCHANGED <<item, ids, bundle, answered, released>>

\* The process or the connection dies before the commit.
Abort(r) == req[r] # Idle /\ Close(r) /\ Reading

-----------------------------------------------------------------------------
(***************************************************************************)
(* What is shown of all this.                                              *)
(***************************************************************************)
Versions(n, v) == {x \in item[n].rows : x.version = v}
Profile(c) ==
    [exists |-> Exists(c), pointer |-> item[c].pointer,
     latest |-> Versions(c, item[c].latest), published |-> Versions(c, item[c].pointer)]
GetRuleset == Profile("ruleset")
GetAnalysis == Profile("analysis")
GetDocument == Profile("document")

\* One version of a procedure, the newest by default; a join on the latest version of each block.
GetSop(n, v) == IF v = 0 THEN {x \in item[n].rows : \A y \in item[n].rows : y.version <= x.version} ELSE Versions(n, v)
ListBlocks == {b \in Blocks : Versions(b, item[b].latest) # {}}

-----------------------------------------------------------------------------
Edit(r) ==
    \/ \E n \in Sops, d \in Definitions : CreateSop(r, n, d) \/ UpdateSop(r, n, d) \/ Ingest(r, n, d)
    \/ \E b \in Blocks, t \in Texts : SaveBlock(r, b, t)
    \/ \E t \in Texts, p \in BOOLEAN : SaveRuleset(r, t, p) \/ SaveAnalysis(r, t, p) \/ SaveDocument(r, t, p)
    \/ ImportProject(r) \/ CommitSave(r)
Release(r) ==
    \/ \E n \in Sops : PublishSop(r, n)
    \/ \E b \in Blocks : PublishBlock(r, b)
    \/ GateSop(r) \/ CommitPublish(r) \/ PublishRuleset(r) \/ PublishDocument(r) \/ CommitPoint(r)
Bind(r) ==
    \/ \E s \in Sessions, n \in Sops :
          Route(r, s, n) \/ \E v \in {0} \cup Numbers(n) : StartSession(r, s, n, v)
    \/ BindStart(r) \/ AssignSop(r)

Next ==
    \/ \E r \in Requests : Edit(r) \/ Release(r) \/ Bind(r) \/ Abort(r)
    \/ ExportProject
    \/ \E n \in Sops : DeleteSop(n)
    \/ \E b \in Blocks : DeleteBlock(b)
    \/ \E s \in Sessions : StartIntake(s)

Spec == Init /\ [][Next]_vars

-----------------------------------------------------------------------------
Bodies == Definitions \cup Texts
Pinnable == Blocks \X Nat \X Nat
ItemRecords ==
    [id : Nat, latest : Nat, pointer : Nat, rows : SUBSET [version : Nat, body : Bodies, published : BOOLEAN]]
SessionRecords ==
    [sop : Sops \cup {"none", "intake"}, version : Nat, def : Definitions \cup {"none"},
     pinned : SUBSET Pinnable, routed : BOOLEAN]
Writes == [name : Items, id : Nat, version : Nat, body : Bodies, published : BOOLEAN, point : BOOLEAN]
SaveRecords == [op : {"save"}, writes : SUBSET Writes]
ChosenRecords == [op : {"gate", "publish"}, name : Sops \cup Blocks, id : Nat, version : Nat, body : Bodies]
PointRecords == [op : {"point"}, name : Configs, version : Nat, was : Nat]
PinRecords == [op : {"start", "assign"}, session : Sessions, name : Sops, id : Nat, version : Nat, def : Definitions]

TypeOK ==
    /\ item \in [Items -> ItemRecords] /\ session \in [Sessions -> SessionRecords]
    /\ req \in [Requests -> {Idle} \cup SaveRecords \cup ChosenRecords \cup PointRecords \cup PinRecords]
    /\ \A n \in Items :
          /\ item[n].id <= ids /\ item[n].pointer <= item[n].latest
          /\ \A x \in item[n].rows : x.body \in IF n \in Sops THEN Definitions ELSE Texts
    /\ bundle \subseteq [name : Sops \cup Blocks, body : Bodies, published : BOOLEAN]
    /\ ids \in Nat /\ asked \in 0 .. MaxRequests
    /\ answered \subseteq Items \X Nat \X Nat \X Bodies /\ released \subseteq Pinnable

(***************************************************************************)
(* Whatever saves and imports overlap, an item has exactly one row of each *)
(* version from 1 to its latest, and a parent row is never without one:    *)
(* latest_version + 1 is free, and scalar_one() finds one row.             *)
(***************************************************************************)
VersionsAreContiguous ==
    \A n \in Items :
        /\ Numbers(n) = 1 .. item[n].latest
        /\ \A x, y \in item[n].rows : x.version = y.version => x = y
        /\ Exists(n) <=> item[n].latest > 0

\* A version whose save was answered is immutable: it stays as it was saved while its item exists.
AnswersAreKept ==
    \A a \in answered : item[a[1]].id = a[2] => \E x \in item[a[1]].rows : x.version = a[3] /\ x.body = a[4]

(***************************************************************************)
(* Nothing is published past the gate, neither by a publication that ran   *)
(* beside a save or a deletion nor by an import: a published procedure is  *)
(* lint-clean and the blocks it binds have been published.                 *)
(***************************************************************************)
PublishedPassedTheGate ==
    \A n \in Sops : \A x \in PublishedRows(n) :
        x.body \in Clean /\ \A b \in BindsOf[x.body] : \E p \in released : p[1] = b

(***************************************************************************)
(* Nothing in the catalogue is hidden or hollow: every block is listed,    *)
(* every procedure has a version to show, and a configuration is shown     *)
(* with its latest content and, once published, with the published one.    *)
(***************************************************************************)
ViewsAreWhole ==
    /\ ListBlocks = {b \in Blocks : Exists(b)}
    /\ \A n \in Sops : Exists(n) => GetSop(n, 0) # {}
    /\ \A x \in {GetRuleset, GetAnalysis, GetDocument} :
          x.exists => x.latest # {} /\ (x.pointer # 0 => x.published # {})

(***************************************************************************)
(* A session started on a procedure has every block it binds pinned; a     *)
(* routed one may lack some.  What is pinned was published, even if the    *)
(* block has been edited, deleted or created again since.                  *)
(***************************************************************************)
PinsAreReleased ==
    \A s \in Sessions : LET x == session[s] IN
        /\ x.pinned \subseteq released
        /\ x.sop \in Sops /\ ~x.routed => {p[1] : p \in x.pinned} = BindsOf[x.def]

(***************************************************************************)
(* Whatever overlaps or fails, the catalogue is one history per item: its  *)
(* versions are numbered without a gap or a double, what was answered      *)
(* stands as it was saved, and every view finds what it names.             *)
(***************************************************************************)
CatalogIsSound ==
    /\ TypeOK
    /\ VersionsAreContiguous
    /\ AnswersAreKept
    /\ ViewsAreWhole
=============================================================================
