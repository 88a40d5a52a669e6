------------------------------- MODULE Tenancy -------------------------------
(***************************************************************************)
(* Tenants, their API keys and the rows that carry their id: the admin     *)
(* routes (api/admin.py), the resolution of a key (tenancy.py) and the     *)
(* requests made with one.                                                 *)
(*                                                                         *)
(* A request reads, then writes, then commits; what another transaction    *)
(* has not committed is not seen.  Rows of "projects" (and keys, secrets,  *)
(* procedures) reference their tenant: the database refuses one without it *)
(* and deletes them with it.  The other tables hold a plain tenant_id.     *)
(***************************************************************************)
EXTENDS Integers, FiniteSets, Sequences

CONSTANTS
    Slugs,
    Clients,       \* requests in flight
    MaxTenants,    \* bounds: tenants ever created,
    MaxKeys,       \* keys ever minted,
    MaxRequests,   \* requests in all,
    MaxCrashes     \* and crashes of the process

None == "none"
ASSUME SlugsAssumption == None \notin Slugs /\ Slugs # {}
ASSUME ClientsAssumption == IsFiniteSet(Clients)
ASSUME TenancyBounds ==
    {MaxTenants, MaxKeys, MaxRequests, MaxCrashes} \subseteq Nat /\ MaxTenants >= 1 /\ MaxKeys >= 1

VARIABLES
    slugOf,    \* the slug of a tenant, None when there is no such tenant (any more)
    minted,    \* how many tenants and keys there have been
    keys,      \* the keys stored
    rows,      \* which tables hold rows of which tenant
    req,
    asked, crashes,
    late,      \* history: tenants a plain row was written for once their deletion had swept its table
    crowded    \* history: tenants two logins of which overlapped since the last one that ran alone
vars == <<slugOf, minted, keys, rows, req, asked, crashes, late, crowded>>

Ids == 1 .. MaxTenants
Owned == {"projects"}
Listed == {"sessions", "ab_tests"}
Unlisted == {"copilot"}
Tables == Owned \cup Listed \cup Unlisted
AdminKinds == {"create", "import", "delete", "login", "issue", "revoke"}
Stages == {"closed", "read", "sweep", "commit", "open", "insert", "converse", "think", "save"}

Closed == [kind |-> None, stage |-> "closed", slug |-> None, tenant |-> 0, key |-> 0, doomed |-> {}, arg |-> None]
At(r, s) == req[r].stage = s
Is(r, kind, s) == req[r].kind = kind /\ req[r].stage = s
Close(r) == req' = [req EXCEPT ![r] = Closed]

Exists(t) == t \in Ids /\ slugOf[t] # None
TenantOf(slug) == {t \in Ids : slugOf[t] = slug}
Live(k) == \E x \in keys : x.id = k /\ x.live
Row(t, table) == [tenant |-> t, table |-> table]
Logins(t) == {x \in keys : x.tenant = t /\ x.label = "console-login"}

\* create_tenant has run once: the deployment's first tenant, with its admin key and project.
Init ==
    /\ \E s \in Slugs : slugOf = [t \in Ids |-> IF t = 1 THEN s ELSE None]
    /\ minted = [tenants |-> 1, keys |-> 1]
    /\ keys = {[id |-> 1, tenant |-> 1, label |-> "bootstrap", live |-> TRUE]}
    /\ rows = {Row(1, "projects")}
    /\ req = [r \in Clients |-> Closed]
    /\ asked = 0 /\ crashes = 0
    /\ late = {} /\ crowded = {}

History == <<late, crowded>>
Rest == <<crashes, History>>

-----------------------------------------------------------------------------
(***************************************************************************)
(* A request of the operator names a tenant by its slug and reads it; one  *)
(* that is refused (404, 409) does nothing and is left out.                *)
(***************************************************************************)
Waiting(kinds) == {o \in Clients : req[o].kind \in kinds}
Beside(r, t) == {o \in Clients \ {r} : req[o].kind = "login" /\ req[o].tenant = t}

Ask(r, kind, slug, k) ==
    /\ At(r, "closed") /\ asked < MaxRequests
    /\ kind \in {"create", "import"} => minted.tenants + Cardinality(Waiting({"create", "import"})) < MaxTenants
    /\ kind \in {"create", "login", "issue"} => minted.keys + Cardinality(Waiting({"create", "login", "issue"})) < MaxKeys
    /\ kind = "create" => TenantOf(slug) = {}
    /\ kind \notin {"create", "import"} => TenantOf(slug) # {}
    /\ LET t == IF TenantOf(slug) = {} THEN 0 ELSE CHOOSE x \in TenantOf(slug) : TRUE IN
       /\ kind = "revoke" <=> k # 0
       /\ k # 0 => \E x \in keys : x.id = k /\ x.tenant = t
       /\ req' = [q \in Clients |->
                    IF q = r
                    THEN [Closed EXCEPT !.kind = kind, !.slug = slug, !.tenant = t, !.key = k,
                                        !.stage = IF kind \in {"delete", "login"} THEN "sweep" ELSE "commit",
                                        !.arg = IF kind = "login" /\ Beside(r, t) = {} THEN "alone" ELSE None]
                    ELSE IF kind = "login" /\ q \in Beside(r, t) THEN [req[q] EXCEPT !.arg = None] ELSE req[q]]
       /\ crowded' = IF kind = "login" /\ Beside(r, t) # {} THEN crowded \cup {t} ELSE crowded
    /\ asked' = asked + 1
    /\ UNCHANGED <<slugOf, minted, keys, rows, crashes, late>>

\* resolve_tenant, resolve_scope: the key is stored and not revoked, the project is there.
Resolve(r, kind, k, stage, arg) ==
    /\ At(r, "closed") /\ asked < MaxRequests
    /\ Live(k)
    /\ \E x \in keys :
          /\ x.id = k /\ Row(x.tenant, "projects") \in rows
          /\ req' = [req EXCEPT ![r] = [Closed EXCEPT !.kind = kind, !.tenant = x.tenant, !.key = k,
                                          !.stage = stage, !.arg = arg]]
    /\ asked' = asked + 1
    /\ UNCHANGED <<slugOf, minted, keys, rows, Rest>>

-----------------------------------------------------------------------------
NewKey(t, label) == [id |-> minted.keys + 1, tenant |-> t, label |-> label, live |-> TRUE]

\* Tenant, key and project in one transaction; a slug taken meanwhile fails it.
CommitCreate(r) ==
    /\ Is(r, "create", "commit")
    /\ LET t == minted.tenants + 1 IN
       IF TenantOf(req[r].slug) = {}
       THEN /\ slugOf' = [slugOf EXCEPT ![t] = req[r].slug]
            /\ minted' = [tenants |-> t, keys |-> minted.keys + 1]
            /\ keys' = keys \cup {NewKey(t, "bootstrap")}
            /\ rows' = rows \cup {Row(t, "projects")}
       ELSE UNCHANGED <<slugOf, minted, keys, rows>>
    /\ Close(r)
    /\ UNCHANGED <<asked, Rest>>

\* _admin_scope(create=True): a tenant that was missing is made, without a key.
CommitImport(r) ==
    /\ Is(r, "import", "commit")
    /\ LET t == minted.tenants + 1 IN
       CASE req[r].tenant = 0 /\ TenantOf(req[r].slug) = {} ->
               /\ slugOf' = [slugOf EXCEPT ![t] = req[r].slug]
               /\ minted' = [minted EXCEPT !.tenants = t]
               /\ rows' = rows \cup {Row(t, "projects")}
         [] Exists(req[r].tenant) ->
               rows' = rows \cup {Row(req[r].tenant, "projects")} /\ UNCHANGED <<slugOf, minted>>
         [] OTHER -> UNCHANGED <<slugOf, minted, rows>>
    /\ Close(r)
    /\ UNCHANGED <<keys, asked, Rest>>

\* Mutant of Swept: a table is missing in _TENANT_SCOPED_PARENTS.
SweptSessions(t) == {x \in rows : x.tenant = t /\ x.table = "sessions"}

\* _TENANT_SCOPED_PARENTS, as committed when the statements run.
Swept(t) == {x \in rows : x.tenant = t /\ x.table \in Listed}

DeleteRows(r) ==
    /\ Is(r, "delete", "sweep")
    /\ req' = [req EXCEPT ![r].stage = "commit", ![r].doomed = Swept(req[r].tenant)]
    /\ UNCHANGED <<slugOf, minted, keys, rows, asked, Rest>>

Victim(r) == req[r].tenant

CommitDelete(r) ==
    /\ Is(r, "delete", "commit")
    /\ slugOf' = [t \in Ids |-> IF t = Victim(r) THEN None ELSE slugOf[t]]
    /\ keys' = {x \in keys : x.tenant # Victim(r)}
    /\ rows' = {x \in rows \ req[r].doomed : x.tenant = Victim(r) => x.table \notin Owned}
    /\ Close(r)
    /\ UNCHANGED <<minted, asked, Rest>>

\* The console-login keys the DELETE sees.
Stale(t) == {x.id : x \in Logins(t)}

DeleteLogins(r) ==
    /\ Is(r, "login", "sweep")
    /\ req' = [req EXCEPT ![r].stage = "commit", ![r].doomed = Stale(req[r].tenant)]
    /\ UNCHANGED <<slugOf, minted, keys, rows, asked, Rest>>

CommitLogin(r) ==
    /\ Is(r, "login", "commit")
    /\ IF Exists(req[r].tenant)
       THEN /\ keys' = {x \in keys : x.id \notin req[r].doomed} \cup {NewKey(req[r].tenant, "console-login")}
            /\ minted' = [minted EXCEPT !.keys = @ + 1]
       ELSE UNCHANGED <<keys, minted>>
    /\ crowded' = IF req[r].arg = "alone" THEN crowded \ {req[r].tenant} ELSE crowded
    /\ Close(r)
    /\ UNCHANGED <<slugOf, rows, asked, crashes, late>>

CommitIssue(r) ==
    /\ Is(r, "issue", "commit")
    /\ IF Exists(req[r].tenant)
       THEN keys' = keys \cup {NewKey(req[r].tenant, "issued")} /\ minted' = [minted EXCEPT !.keys = @ + 1]
       ELSE UNCHANGED <<keys, minted>>
    /\ Close(r)
    /\ UNCHANGED <<slugOf, rows, asked, Rest>>

\* A key deleted meanwhile (by a login, with its tenant) is not revoked: the request fails.
CommitRevoke(r) ==
    /\ Is(r, "revoke", "commit")
    /\ keys' = {IF x.id = req[r].key THEN [x EXCEPT !.live = FALSE] ELSE x : x \in keys}
    /\ Close(r)
    /\ UNCHANGED <<slugOf, minted, rows, asked, Rest>>

-----------------------------------------------------------------------------
(***************************************************************************)
(* A row written for tenant t.  A plain row needs no tenant: one that is   *)
(* written after the deletion of t has swept its table stays.              *)
(***************************************************************************)
Gone(t) == ~Exists(t) \/ \E o \in Clients : Is(o, "delete", "commit") /\ req[o].tenant = t
Insert(t, table) ==
    /\ rows' = IF table \in Owned /\ ~Exists(t) THEN rows ELSE rows \cup {Row(t, table)}
    /\ late' = IF table \in Listed /\ Gone(t) THEN late \cup {t} ELSE late

\* Any request with a key that writes: projects (create_project), sessions and what belongs to them.
CommitWrite(r) ==
    /\ Is(r, "write", "commit")
    /\ Insert(req[r].tenant, req[r].arg)
    /\ Close(r)
    /\ UNCHANGED <<slugOf, minted, keys, asked, crashes, crowded>>

\* The request fails, or its client is gone: its transaction is rolled back.
Fail(r) ==
    /\ ~At(r, "closed") /\ Close(r)
    /\ UNCHANGED <<slugOf, minted, keys, rows, asked, Rest>>

Crash ==
    /\ crashes < MaxCrashes
    /\ crashes' = crashes + 1
    /\ req' = [r \in Clients |-> Closed]
    /\ UNCHANGED <<slugOf, minted, keys, rows, asked, History>>

Commit(r) ==
    \/ CommitCreate(r) \/ CommitImport(r)
    \/ DeleteRows(r) \/ CommitDelete(r)
    \/ DeleteLogins(r) \/ CommitLogin(r)
    \/ CommitIssue(r) \/ CommitRevoke(r) \/ CommitWrite(r)

-----------------------------------------------------------------------------
KeyRecords == [id : 1 .. MaxKeys, tenant : Ids, label : {"bootstrap", "console-login", "issued"}, live : BOOLEAN]
TypeOK ==
    /\ slugOf \in [Ids -> Slugs \cup {None}]
    /\ minted \in [tenants : Ids, keys : 1 .. MaxKeys] /\ keys \subseteq KeyRecords
    /\ \A t \in Ids : t > minted.tenants => slugOf[t] = None
    /\ \A s, t \in Ids : slugOf[s] = slugOf[t] /\ slugOf[s] # None => s = t
    /\ \A x \in keys : Exists(x.tenant) /\ x.id <= minted.keys
    /\ \A x, y \in keys : x.id = y.id => x = y
    /\ rows \subseteq [tenant : Ids, table : Tables]
    /\ \A r \in Clients : req[r].stage \in Stages /\ req[r].tenant \in 0 .. minted.tenants

(***************************************************************************)
(* "delete cascades everything": of a tenant that was deleted nothing is   *)
(* left but what the copilot keeps (those tables are not in the list) and  *)
(* what a request wrote that had been admitted before the deletion.        *)
(***************************************************************************)
DeletedLeaveNothing ==
    \A x \in rows : ~Exists(x.tenant) => x.table \in Unlisted \/ (x.table \in Listed /\ x.tenant \in late)

(***************************************************************************)
(* Keys of console logins do not pile up: there are never more than there  *)
(* are requests at once, and one that runs beside no other leaves one.     *)
(***************************************************************************)
LoginsDoNotAccumulate ==
    \A t \in Ids :
        /\ Cardinality(Logins(t)) <= Cardinality(Clients)
        /\ t \notin crowded => Cardinality(Logins(t)) <= 1

(***************************************************************************)
(* Tenants come and go under requests of theirs without leaving anything   *)
(* behind, and keys of console logins are replaced, not collected.         *)
(***************************************************************************)
TenantsAreSound ==
    /\ TypeOK
    /\ DeletedLeaveNothing
    /\ LoginsDoNotAccumulate
=============================================================================
