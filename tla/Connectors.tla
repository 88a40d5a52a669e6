------------------------------ MODULE Connectors ------------------------------
(***************************************************************************)
(* The systems data comes from: the registry of connectors and the tenant  *)
(* secrets they name (connectors.py, api/connectors.py, secrets.py), the   *)
(* fetchers that call them (fetchers, mcp_client.py), and the artifact in  *)
(* which they are written out for a deployment (configtools.py).           *)
(*                                                                         *)
(* Everything is read row by row, and an operator saves in between.  A     *)
(* configuration is the endpoint it names and the secret; "" is a key that *)
(* is missing.  What a save does not change it does not write.             *)
(***************************************************************************)
EXTENDS Integers, FiniteSets, Sequences

CONSTANTS
    ConnectorNames, Endpoints,
    SecretNames, SecretValues,
    Offers,          \* the rows operators save
    Dependencies,    \* what procedures ask for: a connector, or a kind and a configuration of their own
    Servers,         \* the mcp_servers entries of configurations: connector, url, authorization
    Operators,       \* the requests that may save connectors
    MaxEdits         \* bound: saves, deletions and secrets in all

Kinds == {"http", "mcp", "mock"}      \* "rag" is in Corpora
Unset == ""
RowShape == [kind : Kinds, url : Endpoints \cup {Unset}, secret : SecretNames \cup {Unset}, enabled : BOOLEAN]
ASSUME ConnectorsAssumption ==
    /\ Unset \notin ConnectorNames \cup Endpoints \cup SecretNames \cup SecretValues
    /\ Offers \subseteq RowShape /\ MaxEdits \in Nat
    /\ Dependencies \subseteq [connector : ConnectorNames \cup {Unset}, kind : Kinds,
                               url : Endpoints \cup {Unset}, secret : SecretNames \cup {Unset}]
    \* the authorization of an entry: nothing, a reference to a secret, or typed in full
    /\ Servers \subseteq [connector : ConnectorNames \cup {Unset}, url : Endpoints \cup {Unset},
                          auth : SecretNames \cup {Unset, "typed"}]

VARIABLES
    registry,   \* the row of each name, if it has one
    vault,      \* the value of each secret, or none
    saves,      \* what each request has read and is about to write
    held,       \* history: the rows and secrets there have been since the fetch or the rendering began
    fetch,      \* the fetch, or the probe, under way
    artifact,   \* the rendering under way
    edits
connectorVars == <<registry, vault, saves, held, fetch, artifact, edits>>

NoConnector == [kind |-> "none", url |-> Unset, secret |-> Unset, enabled |-> FALSE]
NoSave == [name |-> Unset]
NoFetch == [stage |-> "idle", probe |-> FALSE, dep |-> Unset, via |-> Unset, with |-> NoConnector,
            value |-> Unset, session |-> 0, issued |-> <<>>, sent |-> <<>>, outcome |-> Unset]
NoArtifact == [stage |-> "idle", given |-> <<>>, next |-> 1, entry |-> Unset, out |-> {}, notes |-> {}]

ConnectorsInit ==
    /\ registry \in [ConnectorNames -> {NoConnector} \cup Offers]
    /\ vault \in [SecretNames -> SecretValues \cup {Unset}]
    /\ saves = [r \in Operators |-> NoSave]
    /\ held = {} /\ fetch = NoFetch /\ artifact = NoArtifact /\ edits = 0

Busy == fetch.stage \notin {"idle", "done"} \/ artifact.stage \notin {"idle", "done"}
Now(reg, sec) == {<<n, reg[n]>> : n \in ConnectorNames} \cup {<<s, sec[s]>> : s \in SecretNames}
Edit == /\ edits < MaxEdits /\ edits' = edits + 1
        /\ held' = IF Busy THEN held \cup Now(registry', vault') ELSE held
        /\ UNCHANGED <<fetch, artifact>>

-----------------------------------------------------------------------------
(***************************************************************************)
(* Saving: the row is read, and what the request changes of it written.    *)
(***************************************************************************)
SaveConnector(r, n, x) ==
    /\ saves[r] = NoSave
    /\ saves' = [saves EXCEPT ![r] = [name |-> n, read |-> registry[n], row |-> x, gone |-> FALSE]]
    /\ UNCHANGED <<registry, vault>>
    /\ Edit

\* The configuration is one column: both its keys are written, or none.
Written(current, s) ==
    LET same == s.row.url = s.read.url /\ s.row.secret = s.read.secret IN
    [kind    |-> IF s.row.kind = s.read.kind THEN current.kind ELSE s.row.kind,
     url     |-> IF same THEN current.url ELSE s.row.url,
     secret  |-> IF same THEN current.secret ELSE s.row.secret,
     enabled |-> IF s.row.enabled = s.read.enabled THEN current.enabled ELSE s.row.enabled]

\* The insert of a name that has come, and the update of a row that has gone, fail.
CommitConnector(r) ==
    /\ saves[r] # NoSave
    /\ LET s == saves[r]
           fails == IF s.read = NoConnector THEN registry[s.name] # NoConnector ELSE s.gone
       IN /\ registry' = IF fails THEN registry
                         ELSE [registry EXCEPT ![s.name] = IF s.read = NoConnector THEN s.row ELSE Written(@, s)]
    /\ saves' = [saves EXCEPT ![r] = NoSave]
    /\ held' = IF Busy THEN held \cup Now(registry', vault) ELSE held
    /\ UNCHANGED <<vault, fetch, artifact, edits>>

DeleteConnector(n) ==
    /\ registry[n] # NoConnector
    /\ registry' = [registry EXCEPT ![n] = NoConnector]
    /\ saves' = [q \in Operators |-> IF saves[q].name = n THEN [saves[q] EXCEPT !.gone = TRUE] ELSE saves[q]]
    /\ UNCHANGED vault
    /\ Edit

PutSecret(s, v) == vault' = [vault EXCEPT ![s] = v] /\ UNCHANGED <<registry, saves>> /\ Edit

-----------------------------------------------------------------------------
(***************************************************************************)
(* Fetching.                                                               *)
(***************************************************************************)
Fetching(f) == fetch' = f /\ UNCHANGED <<registry, vault, saves, artifact, edits>>
Finish(outcome) == [fetch EXCEPT !.stage = "done", !.outcome = outcome]

BeginFetch(d) ==
    /\ fetch.stage = "idle" /\ artifact.stage = "idle"
    /\ Fetching([NoFetch EXCEPT !.stage = "resolve", !.dep = d])
    /\ held' = Now(registry, vault)

\* test_connector: the row as it is, enabled or not.
TestConnector(n) ==
    /\ fetch.stage = "idle" /\ artifact.stage = "idle" /\ registry[n] # NoConnector
    /\ Fetching([NoFetch EXCEPT !.stage = "secret", !.probe = TRUE, !.via = n, !.with = registry[n],
                                !.dep = [connector |-> n, kind |-> registry[n].kind, url |-> Unset, secret |-> Unset]])
    /\ held' = Now(registry, vault)

\* Mutant of Merged: the connector's configuration wins.
MergedRegistryFirst(row, d) ==
    [row EXCEPT !.url = IF @ # Unset THEN @ ELSE d.url, !.secret = IF @ # Unset THEN @ ELSE d.secret]

\* The keys of the dependency win; the kind is the connector's.
Merged(row, d) ==
    [row EXCEPT !.url = IF d.url # Unset THEN d.url ELSE @, !.secret = IF d.secret # Unset THEN d.secret ELSE @]

ResolveDependency ==
    /\ fetch.stage = "resolve"
    /\ LET d == fetch.dep IN
       Fetching(IF d.connector = Unset
                THEN [fetch EXCEPT !.stage = "secret",
                                   !.with = [kind |-> d.kind, url |-> d.url, secret |-> d.secret, enabled |-> TRUE]]
                ELSE IF ~registry[d.connector].enabled THEN Finish("raised")
                ELSE [fetch EXCEPT !.stage = "secret", !.via = d.connector, !.with = Merged(registry[d.connector], d)])
    /\ UNCHANGED held

\* get_secret, for those that name one; without an endpoint or a value, an outcome without a payload.
ReadSecret ==
    /\ fetch.stage = "secret"
    /\ LET c == fetch.with IN
       Fetching(CASE c.kind = "mock" -> Finish("data")
                  [] c.kind # "mock" /\ (c.url = Unset \/ (c.secret # Unset /\ vault[c.secret] = Unset)) -> Finish("hollow")
                  [] OTHER -> [fetch EXCEPT !.stage = IF c.kind = "mcp" THEN "initialize" ELSE "request",
                                            !.value = IF c.secret = Unset THEN Unset ELSE vault[c.secret]])
    /\ UNCHANGED held

Message(method) == [method |-> method, url |-> fetch.with.url, credential |-> fetch.value, session |-> fetch.session]

\* The HTTP fetcher: one request; a failure, an error status and a timeout raise.
Request ==
    /\ fetch.stage = "request"
    /\ \E ok \in BOOLEAN :
          Fetching([Finish(IF ok THEN "data" ELSE "raised") EXCEPT !.sent = <<Message("request")>>])
    /\ UNCHANGED held

Following == [initialize |-> "initialized", initialized |-> "call", call |-> "done"]

\* The Mcp-Session-Id of a response, if it has one, is sent from then on.
Session(id) == IF id = 0 THEN fetch.session ELSE id

\* _rpc: the server answers, with a session id or without, or anything goes wrong and the fetch with it.
Rpc ==
    /\ fetch.stage \in DOMAIN Following
    /\ LET sent == Append(fetch.sent, Message(fetch.stage)) IN
       \/ \E id \in {0, Len(sent)} :
             Fetching([fetch EXCEPT !.sent = sent, !.session = Session(id), !.issued = Append(@, id),
                                    !.stage = Following[fetch.stage],
                                    !.outcome = IF fetch.stage = "call" THEN "data" ELSE Unset])
       \/ Fetching([Finish("raised") EXCEPT !.sent = sent])
    /\ UNCHANGED held

-----------------------------------------------------------------------------
(***************************************************************************)
(* render_robot: entry by entry, the connector is looked up, then the      *)
(* secret; notes tell what could not be resolved.                          *)
(***************************************************************************)
Rendering(a) == artifact' = a /\ UNCHANGED <<registry, vault, saves, fetch, edits>>
Note(kind) == artifact.notes \cup {<<kind, artifact.next>>}

BeginRender(entries) ==
    /\ fetch.stage = "idle" /\ artifact.stage = "idle"
    /\ Rendering([NoArtifact EXCEPT !.stage = "connector", !.given = entries])
    /\ held' = Now(registry, vault)

\* The connector's endpoint wins; its secret serves where the entry has no authorization.
Resolved(e, row) ==
    [e EXCEPT !.url = IF row.url # Unset THEN row.url ELSE @, !.auth = IF @ = Unset THEN row.secret ELSE @]

RenderConnector ==
    /\ artifact.stage = "connector"
    /\ LET e == artifact.given[artifact.next]
           row == IF e.connector = Unset THEN NoConnector ELSE registry[e.connector]
       IN Rendering([artifact EXCEPT
             !.stage = "secret",
             !.entry = IF row.kind = "mcp" THEN Resolved(e, row) ELSE e,
             !.notes = IF e.connector = Unset THEN @
                       ELSE IF row.kind # "mcp" THEN Note("connector")
                       ELSE IF ~row.enabled THEN Note("disabled") ELSE @])
    /\ UNCHANGED held

\* The value takes the place of the reference; an entry without a url is dropped.
RenderSecret ==
    /\ artifact.stage = "secret"
    /\ LET e == artifact.entry
           reference == e.auth \in SecretNames
           value == IF reference THEN vault[e.auth] ELSE Unset
           notes == IF reference /\ value = Unset THEN Note("secret") ELSE artifact.notes
       IN Rendering([artifact EXCEPT
             !.stage = IF artifact.next = Len(artifact.given) THEN "done" ELSE "connector",
             !.next = @ + 1, !.entry = Unset,
             !.out = IF e.url = Unset THEN @
                     ELSE @ \cup {[at |-> artifact.next, url |-> e.url, auth |-> e.auth, value |-> value]},
             !.notes = IF e.url = Unset THEN notes \cup Note("dropped") ELSE notes])
    /\ UNCHANGED held

Saving ==
    \/ \E r \in Operators, n \in ConnectorNames, x \in Offers : SaveConnector(r, n, x)
    \/ \E r \in Operators : CommitConnector(r)
    \/ \E n \in ConnectorNames : DeleteConnector(n)
    \/ \E s \in SecretNames, v \in SecretValues \cup {Unset} : PutSecret(s, v)
ConnectorsNext ==
    \/ (fetch.stage # "done" /\ artifact.stage # "done" /\ Saving)
    \/ \E d \in Dependencies : BeginFetch(d)
    \/ \E n \in ConnectorNames : TestConnector(n)
    \/ ResolveDependency \/ ReadSecret \/ Request \/ Rpc
    \/ \E e, f \in Servers : BeginRender(<<e, f>>)
    \/ RenderConnector \/ RenderSecret
ConnectorsSpec == ConnectorsInit /\ [][ConnectorsNext]_connectorVars

-----------------------------------------------------------------------------
\* The rows a name has had since the fetch or the rendering began, and those of the dependency a fetch may use.
RowsHeld(name) == {x[2] : x \in {y \in held : y[1] = name}}
RowsUsable ==
    IF fetch.dep.connector = Unset THEN {fetch.dep}
    ELSE {row \in RowsHeld(fetch.dep.connector) : row.enabled \/ fetch.probe}
Inherited(own, key) == IF own # Unset THEN own ELSE key

(***************************************************************************)
(* However the registry changes under a fetch, a call goes out with the    *)
(* endpoint and the secret of one and the same row, which was enabled      *)
(* (or was probed) at some moment of the fetch, the dependency's own keys  *)
(* before the row's; it carries a value the secret had meanwhile, and      *)
(* never goes out without one if a secret is named.                        *)
(***************************************************************************)
CallsCarryTheirCredential ==
    \A i \in DOMAIN fetch.sent : LET m == fetch.sent[i] IN
        \E row \in RowsUsable :
            LET secret == Inherited(fetch.dep.secret, row.secret) IN
            /\ m.url = Inherited(fetch.dep.url, row.url) /\ m.url # Unset
            /\ IF secret = Unset THEN m.credential = Unset
               ELSE m.credential # Unset /\ <<secret, m.credential>> \in held

\* The last session id the server had given before the i-th message, or none.
LastIssued(issued, i) ==
    LET ids == {j \in 1 .. i - 1 : issued[j] # 0} IN
    IF ids = {} THEN 0 ELSE CHOOSE j \in ids : \A k \in ids : k <= j

(***************************************************************************)
(* An MCP server sees one conversation: initialize, then initialized, then *)
(* one call, each under the last session id it gave; and a payload comes   *)
(* of a call that was made.                                                *)
(***************************************************************************)
ServersSeeOneSession ==
    fetch.with.kind = "mcp" =>
        /\ \A i \in DOMAIN fetch.sent :
              /\ fetch.sent[i].method = <<"initialize", "initialized", "call">>[i]
              /\ fetch.sent[i].session = LastIssued(fetch.issued, i)
        /\ fetch.outcome = "data" => Len(fetch.sent) = 3

\* What the artifact and its notes say of the i-th entry.
Told(kind, i) == <<kind, i>> \in artifact.notes
Accounted(i) ==
    LET e == artifact.given[i]
        out == {o \in artifact.out : o.at = i}
        rows == RowsHeld(e.connector)
    IN /\ Cardinality(out) = IF Told("dropped", i) THEN 0 ELSE 1
       /\ Told("dropped", i) =>
             e.url = Unset /\ (Told("connector", i) \/ e.connector = Unset \/ \E row \in rows : row.url = Unset)
       /\ \A o \in out :
            /\ o.url # Unset
            /\ o.auth \in SecretNames => Told("secret", i) \/ (o.value # Unset /\ <<o.auth, o.value>> \in held)
            /\ e.auth # Unset => o.auth = e.auth
            /\ \/ e.connector = Unset
               \/ Told("connector", i)
               \/ \E row \in rows :
                     row.kind = "mcp" /\ (row.url # Unset => o.url = row.url) /\ (row.enabled \/ Told("disabled", i))

(***************************************************************************)
(* A rendering accounts for every entry: it is in the artifact with a url, *)
(* or a note says it was dropped, which is so only if neither it nor its   *)
(* connector had a url.  A reference that is left, or a connector that was *)
(* not used, has its note; what was typed stays, and a value that was      *)
(* filled in is one the secret had while the rendering went on.            *)
(***************************************************************************)
RenderingAccountsForEntries == artifact.stage = "done" => \A i \in DOMAIN artifact.given : Accounted(i)

(***************************************************************************)
(* Saves that cross may leave the kind of one request with the             *)
(* configuration of the other, but an endpoint never gets the secret of    *)
(* another.                                                                *)
(***************************************************************************)
SecretsStayWithTheirEndpoint ==
    \A n \in ConnectorNames : registry[n] # NoConnector =>
        \E o \in Offers : <<registry[n].url, registry[n].secret>> = <<o.url, o.secret>>

(***************************************************************************)
(* However the registry and the secrets change under those who read them,  *)
(* what goes out, or into an artifact, is of one configuration.            *)
(***************************************************************************)
ConnectorsAreFaithful ==
    /\ SecretsStayWithTheirEndpoint
    /\ CallsCarryTheirCredential
    /\ ServersSeeOneSession
    /\ RenderingAccountsForEntries
=============================================================================
