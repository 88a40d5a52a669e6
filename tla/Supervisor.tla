----------------------------- MODULE Supervisor -----------------------------
(***************************************************************************)
(* The background lane: the turn-event stream with its consumer group      *)
(* (events.py) and the supervisor workers on it (supervisor.py).           *)
(*                                                                         *)
(* Events are numbered in the order of their stream ids.  A worker handles *)
(* the entries of a batch one after the other; between two of its awaits   *)
(* other workers run, an entry it holds may become idle long enough to be  *)
(* reclaimed, and it may die.  The fetches it launches outlive the event's *)
(* acknowledgement; the replies it drafts do not.                          *)
(***************************************************************************)
EXTENDS Integers, FiniteSets, FiniteSetsExt

CONSTANTS
    Workers,       \* the consumers of the group, by name
    MaxEvents,     \* bound: turn events published
    Pairs,         \* the (action, state) pairs that replies are drafted for
    Batch,         \* supervisor_batch
    MaxLen,        \* the stream's MAXLEN
    MaxMishaps,    \* bound: crashes, stops, losses of Redis's data, failed XACKs
    MaxExpiries    \* bound: drafts and claims that run out

ASSUME WorkersAssumption == IsFiniteSet(Workers)
ASSUME BatchAssumption == Batch \in Nat \ {0}
ASSUME BoundsAssumption ==
    /\ MaxEvents \in Nat /\ MaxLen \in Nat /\ MaxMishaps \in Nat /\ MaxExpiries \in Nat

Events == 1 .. MaxEvents
NoWorker == "none"
ASSUME NoWorkerAssumption == NoWorker \notin Workers

VARIABLES
    group,      \* the consumer group exists
    published,  \* how many events have been published
    stream,     \* the events in the stream
    delivered,  \* the group's last delivered id
    pending,    \* the pending entries list: who has each event, or NoWorker
    idle,       \* the pending entries at rest for autoclaim_idle_ms
    work,       \* each worker: where it is in its loop, its batch, its drafts
    fetching,   \* the events whose fetches each worker is running
    claims,     \* the events whose fetches hold their claims in Redis
    owed,       \* history: the events whose fetches were launched and have not ended
    drafts,     \* how many live drafts the pool holds of each pair
    handled,    \* history: the events handled to the end
    crashes, resets, unacked, expiries

busVars == <<group, published, stream, delivered, pending, idle>>
taskVars == <<fetching, claims, owed>>
limits == <<crashes, resets, unacked, expiries>>
vars == <<busVars, taskVars, work, drafts, handled, limits>>

(***************************************************************************)
(* off       not started, or dead                                          *)
(* claim     about to XAUTOCLAIM                                           *)
(* read      about to XREADGROUP                                           *)
(* load      about to handle the first entry of its batch                  *)
(* draft     its fetches launched, if any: drafting replies for the pairs  *)
(*           in todo, then about to acknowledge the entry                  *)
(* drain     stopped: waiting for its fetches                              *)
(***************************************************************************)
Stages == {"off", "claim", "read", "load", "draft", "drain"}
Handling == {"load", "draft"}

Off == [stage |-> "off", batch |-> {}, then |-> "claim", cursor |-> 0,
        todo |-> {}, stopping |-> FALSE]

At(w, s) == work[w].stage = s
\* A batch is handled in the order of its ids.
Entry(w) == Min(work[w].batch)
Move(w, s) == work' = [work EXCEPT ![w].stage = s]

Init ==
    /\ group = FALSE /\ published = 0 /\ stream = {} /\ delivered = 0
    /\ pending = [e \in Events |-> NoWorker] /\ idle = {}
    /\ work = [w \in Workers |-> Off]
    /\ fetching = [w \in Workers |-> {}] /\ claims = {} /\ owed = {}
    /\ drafts = [p \in Pairs |-> 0]
    /\ handled = {}
    /\ crashes = 0 /\ resets = 0 /\ unacked = 0 /\ expiries = 0

-----------------------------------------------------------------------------
(***************************************************************************)
(* The stream.                                                             *)
(***************************************************************************)

\* A turn publishes its event (XADD); the stream exists from then on.
Publish ==
    /\ published < MaxEvents
    /\ published' = published + 1
    /\ stream' = stream \cup {published + 1}
    /\ UNCHANGED <<group, delivered, pending, idle, taskVars, work, drafts, handled, limits>>

\* XADD's approximate MAXLEN drops the oldest entry, delivered or not.
Trim ==
    /\ Cardinality(stream) > MaxLen
    /\ stream' = stream \ {Min(stream)}
    /\ UNCHANGED <<group, published, delivered, pending, idle, taskVars, work, drafts, handled, limits>>

\* autoclaim_idle_ms have passed since the entry was last delivered.
GoIdle(e) ==
    /\ pending[e] # NoWorker
    /\ idle' = idle \cup {e}
    /\ UNCHANGED <<group, published, stream, delivered, pending, taskVars, work, drafts, handled, limits>>

Stopped == {w \in Workers : work[w].stopping}
Mishap == crashes + resets + unacked + Cardinality(Stopped) < MaxMishaps

\* Redis loses its data: the stream, the group, the claims and the pool.
Reset ==
    /\ Mishap
    /\ resets' = resets + 1
    /\ group' = FALSE /\ stream' = {} /\ delivered' = 0
    /\ pending' = [e \in Events |-> NoWorker] /\ idle' = {}
    /\ claims' = {} /\ drafts' = [p \in Pairs |-> 0]
    /\ UNCHANGED <<published, fetching, owed, work, handled, crashes, unacked, expiries>>

-----------------------------------------------------------------------------
(***************************************************************************)
(* The loop of a worker.                                                   *)
(***************************************************************************)

\* Mutant of Start: the group is created at the stream's end, "$".
StartAtEnd(w) ==
    /\ At(w, "off") /\ ~work[w].stopping
    /\ group' = TRUE
    /\ delivered' = IF group THEN delivered ELSE published
    /\ Move(w, "claim")
    /\ UNCHANGED <<published, stream, pending, idle, taskVars, drafts, handled, limits>>

\* ensure_group: from id 0 on, so that what was published before is delivered.
Start(w) ==
    /\ At(w, "off") /\ ~work[w].stopping
    /\ group' = TRUE
    /\ Move(w, "claim")
    /\ UNCHANGED <<published, stream, delivered, pending, idle, taskVars, drafts, handled, limits>>

\* The entries a call takes: the oldest, as many as a batch may have.
Oldest(S) == {e \in S : Cardinality({f \in S : f < e}) < Batch}

\* The worker owns the entries of b from now on; they are idle no more.
Deliver(w, b, next) ==
    /\ pending' = [e \in Events |-> IF e \in b THEN w ELSE pending[e]]
    /\ idle' = idle \ b
    /\ work' = [work EXCEPT ![w].batch = b, ![w].then = next,
                            ![w].stage = IF b = {} THEN next ELSE "load"]

\* The pending entries the sweep has before it.
Stale(w) == {e \in idle : e >= work[w].cursor}

(***************************************************************************)
(* XAUTOCLAIM: the idle entries from the cursor on, whoever has them.      *)
(* Entries that were trimmed meanwhile leave the pending list instead.     *)
(* The cursor goes on after the batch, or starts again.                    *)
(***************************************************************************)
Autoclaim(w) ==
    /\ At(w, "claim") /\ ~work[w].stopping /\ group
    /\ LET b == Oldest(Stale(w) \cap stream) IN
       /\ pending' = [e \in Events |->
                        IF e \in b THEN w
                        ELSE IF e \in Stale(w) \ stream THEN NoWorker ELSE pending[e]]
       /\ idle' = idle \ (b \cup (Stale(w) \ stream))
       /\ work' = [work EXCEPT ![w].batch = b, ![w].then = "read",
                               ![w].cursor = IF Cardinality(b) = Batch THEN Max(b) + 1 ELSE 0,
                               ![w].stage = IF b = {} THEN "read" ELSE "load"]
    /\ UNCHANGED <<group, published, stream, delivered, taskVars, drafts, handled, limits>>

\* Without the group the sweep fails, and the loop goes on.
AutoclaimFails(w) ==
    /\ At(w, "claim") /\ ~work[w].stopping /\ ~group
    /\ Move(w, "read")
    /\ UNCHANGED <<busVars, taskVars, drafts, handled, limits>>

Fresh == {e \in stream : e > delivered}

\* XREADGROUP: the next entries nobody has had.
ReadGroup(w) ==
    /\ At(w, "read") /\ group
    /\ LET b == Oldest(Fresh) IN
       /\ delivered' = IF b = {} THEN delivered ELSE Max(b)
       /\ Deliver(w, b, "claim")
    /\ UNCHANGED <<group, published, stream, taskVars, drafts, handled, limits>>

\* NOGROUP: the error is logged and the loop backs off; nothing creates the group again.
ReadFails(w) ==
    /\ At(w, "read") /\ ~group
    /\ Move(w, "claim")
    /\ UNCHANGED <<busVars, taskVars, drafts, handled, limits>>

-----------------------------------------------------------------------------
(***************************************************************************)
(* _handle: one entry.                                                     *)
(***************************************************************************)

\* No retrieval, no action, no such procedure, no precedents, or an exception.
Skip(w) ==
    /\ At(w, "load")
    /\ work' = [work EXCEPT ![w].stage = "draft"]
    /\ UNCHANGED <<busVars, taskVars, drafts, handled, limits>>

\* The pool is read once, before the first draft: the pairs it holds are skipped.
ToDraft == {p \in Pairs : drafts[p] = 0}

\* Mutant of Launch: the fetches are launched without claims.
LaunchUnclaimed(w) ==
    /\ At(w, "load")
    /\ fetching' = [fetching EXCEPT ![w] = @ \cup {Entry(w)}]
    /\ claims' = claims \cup {Entry(w)} /\ owed' = owed \cup {Entry(w)}
    /\ work' = [work EXCEPT ![w].stage = "draft", ![w].todo = ToDraft]
    /\ UNCHANGED <<busVars, drafts, handled, limits>>

(***************************************************************************)
(* The procedure is loaded, the predictor asked, its plan scheduled.  The  *)
(* claims keep two workers from fetching for one event at once.            *)
(***************************************************************************)
Launch(w) ==
    /\ At(w, "load")
    /\ IF Entry(w) \in claims
       THEN UNCHANGED taskVars
       ELSE /\ fetching' = [fetching EXCEPT ![w] = @ \cup {Entry(w)}]
            /\ claims' = claims \cup {Entry(w)}
            /\ owed' = owed \cup {Entry(w)}
    /\ work' = [work EXCEPT ![w].stage = "draft", ![w].todo = ToDraft]
    /\ UNCHANGED <<busVars, drafts, handled, limits>>

\* A reply is drafted and pooled, or the model failed, or the pool: then no more are drafted.
Draft(w) ==
    /\ \E p \in work[w].todo :
         \/ /\ work' = [work EXCEPT ![w].todo = @ \ {p}]
            /\ drafts' \in {[drafts EXCEPT ![p] = @ + 1], drafts}
         \/ work' = [work EXCEPT ![w].todo = {}] /\ UNCHANGED drafts
    /\ UNCHANGED <<busVars, taskVars, handled, limits>>

\* The rest of the batch, or the other half of the loop.
NextEntry(w) ==
    work' = [work EXCEPT ![w].batch = @ \ {Entry(w)},
                         ![w].stage = IF work[w].batch = {Entry(w)} THEN work[w].then ELSE "load"]

\* XACK, whoever has the entry now.  If it fails the entry stays pending.
Ack(w) ==
    /\ At(w, "draft") /\ work[w].todo = {}
    /\ \/ /\ pending' = [pending EXCEPT ![Entry(w)] = NoWorker]
          /\ idle' = idle \ {Entry(w)}
          /\ UNCHANGED unacked
       \/ /\ Mishap
          /\ unacked' = unacked + 1
          /\ UNCHANGED <<pending, idle>>
    /\ handled' = handled \cup {Entry(w)}
    /\ NextEntry(w)
    /\ UNCHANGED <<group, published, stream, delivered, taskVars, drafts, crashes, resets, expiries>>

-----------------------------------------------------------------------------
(***************************************************************************)
(* What outlives the handler, and the end of a worker.                     *)
(***************************************************************************)

\* The fetches of an event have run: pooled, empty or failed, and the claim released.
Land(w) ==
    /\ \E e \in fetching[w] :
         /\ fetching' = [fetching EXCEPT ![w] = @ \ {e}]
         /\ claims' = claims \ {e}
         /\ owed' = owed \ {e}
    /\ UNCHANGED <<busVars, work, drafts, handled, limits>>

\* SIGTERM: the loop ends when it comes round.
Stop(w) ==
    /\ Mishap
    /\ work[w].stage \notin {"off", "drain"} /\ ~work[w].stopping
    /\ work' = [work EXCEPT ![w].stopping = TRUE]
    /\ UNCHANGED <<busVars, taskVars, drafts, handled, limits>>

LeaveLoop(w) ==
    /\ At(w, "claim") /\ work[w].stopping
    /\ Move(w, "drain")
    /\ UNCHANGED <<busVars, taskVars, drafts, handled, limits>>

\* Mutant of Exit: the process leaves its fetches behind.
ExitAtOnce(w) ==
    /\ At(w, "drain")
    /\ work' = [work EXCEPT ![w] = [Off EXCEPT !.stopping = TRUE]]
    /\ fetching' = [fetching EXCEPT ![w] = {}]
    /\ UNCHANGED <<busVars, claims, owed, drafts, handled, limits>>

\* The process exits when its fetches have ended.
Exit(w) ==
    /\ At(w, "drain") /\ fetching[w] = {}
    /\ work' = [work EXCEPT ![w] = [Off EXCEPT !.stopping = TRUE]]
    /\ UNCHANGED <<busVars, taskVars, drafts, handled, limits>>

\* A worker dies: its fetches die with it, its entries stay pending.
Crash(w) ==
    /\ Mishap /\ ~At(w, "off")
    /\ crashes' = crashes + 1
    /\ work' = [work EXCEPT ![w] = Off]
    /\ fetching' = [fetching EXCEPT ![w] = {}]
    /\ UNCHANGED <<busVars, claims, owed, drafts, handled, resets, unacked, expiries>>

\* A draft's TTL, or the claim's of a dead worker, runs out.
Expire ==
    /\ expiries < MaxExpiries
    /\ expiries' = expiries + 1
    /\ \/ /\ \E p \in Pairs : drafts[p] > 0 /\ drafts' = [drafts EXCEPT ![p] = @ - 1]
          /\ UNCHANGED claims
       \/ /\ \E e \in claims : /\ \A w \in Workers : e \notin fetching[w]
                               /\ claims' = claims \ {e}
          /\ UNCHANGED drafts
    /\ UNCHANGED <<busVars, fetching, owed, work, handled, crashes, resets, unacked>>

-----------------------------------------------------------------------------
Step(w) ==
    \/ Autoclaim(w) \/ AutoclaimFails(w) \/ ReadGroup(w) \/ ReadFails(w)
    \/ Skip(w) \/ Launch(w) \/ Draft(w) \/ Ack(w) \/ LeaveLoop(w) \/ Exit(w)

Next ==
    \/ Publish \/ Trim \/ Reset \/ Expire
    \/ \E e \in Events : GoIdle(e)
    \/ \E w \in Workers : Step(w) \/ Start(w) \/ Land(w) \/ Stop(w) \/ Crash(w)

(***************************************************************************)
(* The event loop runs whatever is ready, fetches end (they have time-     *)
(* outs), time passes, and the deployment starts its workers, after a      *)
(* crash too.                                                              *)
(***************************************************************************)
Fairness ==
    /\ \A w \in Workers : WF_vars(Step(w)) /\ WF_vars(Start(w)) /\ WF_vars(Land(w))
    /\ \A e \in Events : WF_vars(GoIdle(e))

Spec == Init /\ [][Next]_vars /\ Fairness

-----------------------------------------------------------------------------
WorkerRecords ==
    [stage : Stages, batch : SUBSET Events, then : {"claim", "read"},
     cursor : Nat, todo : SUBSET Pairs, stopping : BOOLEAN]

TypeOK ==
    /\ group \in BOOLEAN /\ published \in 0 .. MaxEvents
    /\ stream \subseteq 1 .. published /\ delivered \in 0 .. published
    /\ pending \in [Events -> Workers \cup {NoWorker}]
    /\ idle \subseteq Events
    /\ work \in [Workers -> WorkerRecords]
    /\ \A w \in Workers : work[w].stage \in Handling => work[w].batch # {}
    /\ fetching \in [Workers -> SUBSET Events]
    /\ claims \subseteq Events /\ owed \subseteq Events
    /\ drafts \in [Pairs -> Nat]
    /\ handled \subseteq Events
    /\ crashes \in Nat /\ resets \in Nat /\ unacked \in Nat
    /\ crashes + resets + unacked <= MaxMishaps /\ expiries \in 0 .. MaxExpiries

(***************************************************************************)
(* "unacked events are reclaimed via XAUTOCLAIM by any worker": an event   *)
(* that is delivered and not handled to its end is pending, so that some sweep   *)
(* finds it.  Only a loss of Redis's data, or of the entry, takes it away. *)
(***************************************************************************)
NoneForgotten ==
    resets = 0 => \A e \in stream : e <= delivered => e \in handled \/ pending[e] # NoWorker

(***************************************************************************)
(* Fetches that were launched have ended or are still running, whether     *)
(* their event is acknowledged or not, unless a worker crashed: stopping   *)
(* one loses nothing.                                                      *)
(***************************************************************************)
LostOnlyToCrashes ==
    crashes = 0 => owed \subseteq UNION {fetching[w] : w \in Workers}

(***************************************************************************)
(* The pool is read once before several drafts, so two events may have the *)
(* same pair drafted; but never more drafts of it are alive, or about to   *)
(* be made, than there are workers.                                        *)
(***************************************************************************)
DraftsBounded ==
    \A p \in Pairs :
        drafts[p] + Cardinality({w \in Workers : p \in work[w].todo}) <= Cardinality(Workers)

\* Two workers never run the fetches of one event at once, if its claim has not been lost.
OneFetcher ==
    resets = 0 => \A v, w \in Workers : v # w => fetching[v] \cap fetching[w] = {}

(***************************************************************************)
(* Every published event is handled in the end, by whatever worker, unless *)
(* every worker has been stopped, the entry was trimmed, or Redis lost its *)
(* data.                                                                   *)
(***************************************************************************)
Gone(e) == e \notin stream \/ resets > 0 \/ \A w \in Workers : work[w].stopping

EventsAreHandled ==
    \A e \in Events : (published >= e) ~> (e \in handled \/ Gone(e))

(***************************************************************************)
(* Of what is published nothing is lost in silence: an event is handled    *)
(* or waits for a sweep, and what was launched for it runs to its end      *)
(* unless its worker dies.                                                 *)
(***************************************************************************)
NothingIsLost ==
    /\ TypeOK
    /\ NoneForgotten
    /\ LostOnlyToCrashes

(***************************************************************************)
(* What workers do twice is bounded, though they share nothing but Redis:  *)
(* no two fetch for one event at a time, and of one reply there are at     *)
(* most as many drafts as workers.                                         *)
(***************************************************************************)
DuplicatesAreBounded == OneFetcher /\ DraftsBounded
=============================================================================
