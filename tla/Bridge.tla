------------------------------- MODULE Bridge -------------------------------
(***************************************************************************)
(* The MCP server (mcp_server.py): one session per call, found in a map    *)
(* that is read before an await and written after it.  Mounted in the API  *)
(* it resolves its key once and keeps the scope; on its own it is a client *)
(* of the public API, and every request resolves the key.                  *)
(***************************************************************************)
EXTENDS Tenancy

CONSTANT Calls     \* conversations, each with an id it gives in every request

BridgeKey == 1     \* SOPILOT_API_KEY

VARIABLES
    mount,     \* "app" or "server"
    scope,     \* _SCOPE: the tenant, 0 before the first request
    session,   \* _sessions: 0 or the number of the session
    opened,    \* history: sessions opened for a call
    excused    \* history: calls that had a turn fail, or two turns at once
bridgeVars == <<mount, scope, session, opened, excused>>

BridgeInit ==
    /\ mount \in {"app", "server"}
    /\ scope = 0
    /\ session = [c \in Calls |-> 0]
    /\ opened = [c \in Calls |-> 0]
    /\ excused = {}

\* Mutant of Mapped: the key of the map is the id of the request.
MappedByRequest(c) == 0

\* _conn_key: the id the caller gives.
Mapped(c) == session[c]

\* The tenant a request works for: in the app, the one of the first request, whatever became of the key.
Served ==
    IF mount = "app" /\ scope # 0 THEN {scope}
    ELSE {x.tenant : x \in {k \in keys : k.id = BridgeKey /\ k.live /\ Row(k.tenant, "projects") \in rows}}

Same(c) == {o \in Clients : req[o].kind = "guide" /\ req[o].arg = c}

Guide(r, c) ==
    /\ At(r, "closed") /\ asked < MaxRequests
    /\ asked' = asked + 1
    /\ \E t \in Served \cup {0} :
          /\ t = 0 <=> Served = {}
          /\ scope' = IF mount = "app" /\ t # 0 THEN t ELSE scope
          /\ IF t = 0
             THEN UNCHANGED req /\ session' = [session EXCEPT ![c] = 0]
             ELSE /\ req' = [req EXCEPT ![r] = [Closed EXCEPT !.kind = "guide", !.tenant = t, !.key = Mapped(c), !.arg = c,
                                                  !.stage = IF Mapped(c) = 0 THEN "open" ELSE "converse"]]
                  /\ UNCHANGED session
          /\ excused' = IF t = 0 \/ Same(c) # {} THEN excused \cup {c} ELSE excused
    /\ UNCHANGED <<slugOf, minted, keys, rows, Rest, mount, opened>>

\* start_session, then the map: another request of the call may have written it meanwhile.
OpenSession(r) ==
    /\ Is(r, "guide", "open")
    /\ mount = "server" => Served # {}
    /\ LET c == req[r].arg IN
       /\ opened' = [opened EXCEPT ![c] = @ + 1]
       /\ session' = [session EXCEPT ![c] = opened[c] + 1]
       /\ req' = [req EXCEPT ![r].stage = "converse", ![r].key = opened[c] + 1]
    /\ Insert(req[r].tenant, "sessions")
    /\ UNCHANGED <<slugOf, minted, keys, asked, crashes, crowded, mount, scope, excused>>

Converse(r) ==
    /\ Is(r, "guide", "converse")
    /\ mount = "server" => Served # {}
    /\ Row(req[r].tenant, "sessions") \in rows
    /\ Close(r)
    /\ UNCHANGED <<slugOf, minted, keys, rows, asked, Rest, bridgeVars>>

(***************************************************************************)
(* Any failure (the key, a quota, a timeout, a session that has ended):    *)
(* the caller gets a neutral sentence, and the call's entry is dropped,    *)
(* even if another request has put a newer session there.                  *)
(***************************************************************************)
GuideFails(r) ==
    /\ req[r].kind = "guide" /\ Close(r)
    /\ session' = [session EXCEPT ![req[r].arg] = 0]
    /\ excused' = excused \cup {req[r].arg}
    /\ UNCHANGED <<slugOf, minted, keys, rows, asked, Rest, mount, scope, opened>>

\* The process that holds the map dies.
BridgeCrash ==
    /\ Crash
    /\ scope' = 0 /\ session' = [c \in Calls |-> 0]
    /\ excused' = Calls
    /\ UNCHANGED <<mount, opened>>

GuideStep(r) == OpenSession(r) \/ Converse(r) \/ GuideFails(r)

-----------------------------------------------------------------------------
(***************************************************************************)
(* The turns of a call stay in one session ("one SOPilot session spans a   *)
(* whole call"), unless a turn failed, two turns overlapped or the map was *)
(* lost; and a session that was opened for the call is the one in the map. *)
(***************************************************************************)
OneSessionPerCall ==
    \A c \in Calls : c \notin excused =>
        /\ opened[c] <= 1
        /\ \A r \in Same(c) : At(r, "converse") => req[r].key = session[c]
=============================================================================
