------------------------------- MODULE Copilot -------------------------------
(***************************************************************************)
(* The copilot (api/copilot.py): one thread of messages per project, and a *)
(* memory of titled facts per tenant.  A request holds one transaction     *)
(* open while the model thinks: the thread it has made is not seen by      *)
(* others, who wait for it on the unique constraint.  Nothing makes titles *)
(* unique but a look before the insertion.                                 *)
(***************************************************************************)
EXTENDS Tenancy

CONSTANT Titles    \* what is remembered, or asked to be

VARIABLES
    thread,     \* tenants whose project has a thread
    opener,     \* who has inserted a thread and not yet committed
    messages,   \* the messages of a thread, in the order of their creation
    memory,     \* the facts: number, tenant, title
    facts,      \* how many there have been
    looked      \* history: titles that were looked up while a save of them was under way
copilotVars == <<thread, opener, messages, memory, facts, looked>>

CopilotKinds == {"assist", "remember", "clear", "forget"}

CopilotInit ==
    /\ thread = {}
    /\ opener = [t \in Ids |-> None]
    /\ messages = [t \in Ids |-> <<>>]
    /\ memory = {} /\ facts = 0
    /\ looked = {}

Said(role, r) == [role |-> role, by |-> r]
About(t, title) == {x \in memory : x.tenant = t /\ x.title = title}
FreeThread(r) == opener' = [t \in Ids |-> IF opener[t] = r THEN None ELSE opener[t]]
KeepTenants == UNCHANGED <<slugOf, minted, keys, asked, Rest>>

\* A question, for which the model may remember a fact; a fact to keep; what is to be cleared.
AskCopilot(r, kind, k, title) ==
    /\ kind = "remember" => title # None
    /\ kind \in {"clear", "forget"} => title = None
    /\ Resolve(r, kind, k,
               CASE kind = "assist" -> "open" [] kind = "remember" -> "think" [] OTHER -> "commit", title)
    /\ UNCHANGED copilotVars

\* _get_thread: the thread there is, or one to insert.
OpenThread(r) ==
    /\ Is(r, "assist", "open")
    /\ req' = [req EXCEPT ![r].stage = IF req[r].tenant \in thread THEN "think" ELSE "insert"]
    /\ KeepTenants /\ UNCHANGED <<rows, copilotVars>>

\* The insertion waits for another one to be committed, and then fails.
InsertThread(r) ==
    /\ Is(r, "assist", "insert")
    /\ opener[req[r].tenant] = None
    /\ IF req[r].tenant \in thread
       THEN Close(r) /\ UNCHANGED opener
       ELSE req' = [req EXCEPT ![r].stage = "think"] /\ opener' = [opener EXCEPT ![req[r].tenant] = r]
    /\ KeepTenants /\ UNCHANGED <<rows, thread, messages, memory, facts, looked>>

\* The model fails: the question is kept, without an answer.
CommitQuestion(r) ==
    /\ Is(r, "assist", "think")
    /\ thread' = thread \cup {req[r].tenant}
    /\ messages' = [messages EXCEPT ![req[r].tenant] = Append(@, Said("user", r))]
    /\ rows' = rows \cup {Row(req[r].tenant, "copilot")}
    /\ FreeThread(r) /\ Close(r)
    /\ KeepTenants /\ UNCHANGED <<memory, facts, looked>>

Found(r) == About(req[r].tenant, req[r].arg)

\* The title is looked up; two facts of the same title fail the request (scalar_one_or_none).
Recall(r) ==
    /\ At(r, "think")
    /\ IF Cardinality(Found(r)) > 1
       THEN Close(r) /\ FreeThread(r)
       ELSE req' = [req EXCEPT ![r].stage = "save", ![r].doomed = {x.id : x \in Found(r)}] /\ UNCHANGED opener
    /\ looked' = IF req[r].arg # None /\ \E o \in Clients \ {r} : At(o, "save") /\ req[o].arg = req[r].arg
                 THEN looked \cup {req[r].arg} ELSE looked
    /\ KeepTenants /\ UNCHANGED <<rows, thread, messages, memory, facts>>

\* Mutant of Save: question and answer are committed one after the other.
SaveApart(r) ==
    /\ At(r, "save")
    /\ IF req[r].key = 0
       THEN /\ messages' = [messages EXCEPT ![req[r].tenant] = Append(@, Said("assistant", r))]
            /\ Close(r)
       ELSE /\ messages' = [messages EXCEPT ![req[r].tenant] = Append(@, Said("user", r))]
            /\ req' = [req EXCEPT ![r].key = 0]
    /\ FreeThread(r)
    /\ KeepTenants /\ UNCHANGED <<rows, thread, memory, facts, looked>>

\* Fact, question and answer in one transaction; a fact that was deleted meanwhile fails it.
Save(r) ==
    /\ At(r, "save")
    /\ IF req[r].doomed \subseteq {x.id : x \in memory}
       THEN /\ IF req[r].arg # None /\ req[r].doomed = {}
               THEN /\ memory' = memory \cup {[id |-> facts + 1, tenant |-> req[r].tenant, title |-> req[r].arg]}
                    /\ facts' = facts + 1
               ELSE UNCHANGED <<memory, facts>>
            /\ IF req[r].kind = "assist"
               THEN /\ thread' = thread \cup {req[r].tenant}
                    /\ messages' = [messages EXCEPT ![req[r].tenant] =
                                      @ \o <<Said("user", r), Said("assistant", r)>>]
               ELSE UNCHANGED <<thread, messages>>
            /\ rows' = rows \cup {Row(req[r].tenant, "copilot")}
       ELSE UNCHANGED <<memory, facts, thread, messages, rows>>
    /\ FreeThread(r) /\ Close(r)
    /\ KeepTenants /\ UNCHANGED looked

\* clear_thread keeps the thread and the memory; reset_memory and delete_memory the messages.
Clear(r) ==
    /\ Is(r, "clear", "commit")
    /\ messages' = [messages EXCEPT ![req[r].tenant] = <<>>]
    /\ Close(r)
    /\ KeepTenants /\ UNCHANGED <<rows, thread, opener, memory, facts, looked>>

Forget(r) ==
    /\ Is(r, "forget", "commit")
    /\ memory' = {x \in memory : x.tenant # req[r].tenant}
    /\ Close(r)
    /\ KeepTenants /\ UNCHANGED <<rows, thread, opener, messages, facts, looked>>

CopilotStep(r) ==
    \/ OpenThread(r) \/ InsertThread(r) \/ CommitQuestion(r) \/ Recall(r) \/ Save(r)
    \/ Clear(r) \/ Forget(r)

RollBack(r) ==
    /\ req[r].kind \in CopilotKinds /\ Fail(r) /\ FreeThread(r)
    /\ UNCHANGED <<thread, messages, memory, facts, looked>>

CopilotCrash ==
    /\ Crash
    /\ opener' = [t \in Ids |-> None]
    /\ UNCHANGED <<thread, messages, memory, facts, looked>>

-----------------------------------------------------------------------------
(***************************************************************************)
(* What the model is shown of the conversation makes sense: an answer      *)
(* stands behind the question it answers, however many ask at once,        *)
(* whatever fails and whenever the thread is cleared.                      *)
(***************************************************************************)
AnswersFollowQuestions ==
    \A t \in Ids : \A i \in DOMAIN messages[t] :
        messages[t][i].role = "assistant" => i > 1 /\ messages[t][i - 1] = Said("user", messages[t][i].by)

(***************************************************************************)
(* "dedupe by title": a tenant has two facts of one title only if one was  *)
(* looked up while a save of it was under way (and then no save of that    *)
(* title succeeds until the facts are deleted).                            *)
(***************************************************************************)
TitlesAreUnique ==
    \A x, y \in memory : x.tenant = y.tenant /\ x.title = y.title /\ x # y => x.title \in looked

(***************************************************************************)
(* What the copilot goes by can be trusted: the conversation is in order,  *)
(* and no fact contradicts another of its title.                           *)
(***************************************************************************)
MemoryIsSound == AnswersFollowQuestions /\ TitlesAreUnique
=============================================================================
