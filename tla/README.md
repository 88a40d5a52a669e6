# SOPilot: specifications, model checks and proofs

SOPilot steers conversations along standard operating procedures (SOPs) and
hides the latency of data lookups by fetching, ahead of time, what the next turn
will probably need. These TLA+ modules specify the parts of
`backend/sopilot/` whose correctness depends on the order in which concurrent
things happen, check them with TLC on small instances, and prove the main
invariants with TLAPS for instances of every size.

All paths below are relative to the repository's `backend/sopilot/` unless they
start with another directory.

## 1. The system

Two deployables: the **API** (plan-turn, converse, voice-turn, session and
configuration endpoints) and the **supervisor** workers. They share nothing but

- **Redis**: the stream `sopilot:events:turns` (one event per turn), one hash per
  session (the *pool*), one key per fetch in flight (the *claims*), a counter per
  tenant and minute (the quota);
- **Postgres** (READ COMMITTED): sessions, turns, traces, fetch audits, SOP and
  prompt-block versions, configuration, A/B tests.

```
 caller -> converse / voice / plan-turn -> consume() -> pool, claims (Redis)
                 | (turn tasks)               \-> live fetch -> fetchers
                 v                                      \-> audit rows (Postgres)
          turn event (stream) -> supervisor -> predictor -> plan
                                                 \-> schedule() -> claims, fetches -> pool
                                                 \-> speculative_slot -> pre-drafted replies
```

| Component | State | Operations | Hard part | Correct when |
|---|---|---|---|---|
| Speculative scheduler (`scheduler.py`) | flag, semaphore, counter, per process | critical_path, speculative_slot | wake-ups that run late, permits handed over, cancellation | budget kept, no speculative start during a live call, nobody stranded |
| Session pool (`pool.py`) | Redis hash with TTL | insert (+prune), get, clear | four commands, no lock, many writers | cap, worst evicted first, the key always gets a TTL |
| Prefetch manager (`prefetch.py`) | claims, pool, audit rows, tasks | schedule, prefetch_current_turn, consume, finalize_session | claims against crashes and TTLs; races of fetch, turn and end | one fetch per key, no vain wait, fresh data served, rows settled, turns end |
| Turn handlers (`api/runtime.py`, `api/voice.py`, `agent.py`, `runtime.py`) | turns, traces, session columns | plan-turn, converse, voice-turn, outcome | two endpoints compute the legal actions with different inputs; concurrent turns; routing in mid-turn | one turn per index, legal actions only, outcome kept |
| SOP graph (`sop_graph.py`) | none (pure) | allowed_actions, visited, lint | the fallback to all actions | a linted SOP never strands a session |
| Session lifecycle (`api/sessions.py`) | status, bindings | start, end | end during a turn; end twice | nothing happens to an ended session |
| Supervisor, stream (`supervisor.py`, `events.py`) | pending entries, SOP cache | read, reclaim, ack, pre-draft | crash between launch and ack; slow worker reclaimed | every event handled or dropped knowingly |
| Predictor (`predictor.py`) | none (statistics over traces) | predict, build plan, pairs to draft | queries that see different rows; ties, rounding | forecasts are distributions over what has happened, the likeliest turn is prepared |
| Rerank, pool lookups, prompt (`rerank.py`, `pool.py`, `runtime.py`) | none (a snapshot of the pool) | rank, drop repetitions, serve a draft, assemble | the pool changes between two reads; greedy removal | the best is shown once, a draft fits its turn |
| Router (`router.py`) | none | route_initial, route_switch | switch in mid-turn | a session never runs on an unpublished version |
| SOPs, prompt blocks, configuration, bundles (`api/sops.py`, `api/prompt_blocks.py`, `api/configtools.py`, `api/project_io.py`) | version rows, a latest number, a published pointer | create, update, ingest, publish, delete, import, export | read-modify-write without locks | versions contiguous, nothing published past its gate, bindings pinned |
| Configuration schemas (`api/configtools.py`) | none | validate, note | a schema nothing can meet | notes only what is required or wrong |
| Precedent traces, outcomes, quota (`api/runtime.py`, `api/voice.py`) | traces, session row, counter | turn in three transactions, detect, report | opposite lock orders, values read on arrival | traces tell the turns, a report overrides |
| Tenancy, admin (`tenancy.py`, `api/admin.py`) | tenants, keys, rows | create, delete, issue, login, revoke | deletion under requests of the tenant | deleted leaves nothing, logins do not pile up |
| A/B tests (`abtest.py`, `api/abtests.py`) | status row, background task | start, run arm, judge, aggregate | row or key deleted under the task, crash | a test ends, a done one is whole |
| Copilot (`api/copilot.py`) | thread, messages, memory | assist, clear, remember, forget | a transaction open during a model call | answers follow questions, one fact per title |
| MCP server (`mcp_server.py`) | map of sessions, cached scope | guidance | read before an await, written after | one session per call |
| Connectors, secrets, fetchers, rendering (`connectors.py`, `api/connectors.py`, `mcp_client.py`, `fetchers/`, `api/configtools.py`) | registry, vault | save, delete, probe, fetch, render | rows read one by one while they are edited | a call carries the secret of its row |
| Builder (`builder.py`), lint (`sop_graph.py`) | a definition | ingest, patch, lint | patches name what they change | a clean definition can be carried out |
| Corpora, retrieval (`api/corpora.py`, `fetchers/rag.py`) | corpora, documents | create, upsert, delete, search | column-wise updates, names against ids | a search compares what is stored |
| Metrics, health (`api/metrics.py`, `api/connectors.py`) | none (audit rows) | summary, percentiles, health | a query per figure | figures fit each other |
| Model client, wiring, frontend, benchmarks, use case | - | - | - | not modelled (section 5) |

`PROJECT.json` lists every component with its status and every hazard at its
line.

## 2. Modules

### Scheduler (`Scheduler`, abstract `SpeculationGate`)

One `_State` per process. An action is what a coroutine does between two
suspensions. `asyncio.Semaphore` (Python 3.12) is modelled from its behaviour:
`release()` passes the permit to the first waiter *before* that waiter runs, so a
permit is either free (`value`), passed to a call that has not run (`granted`),
or in use (`calling`); a waiter stays in the queue until it runs, which is why
`locked()` is true meanwhile. `idle.wait()` likewise returns *later* than
`set()`, perhaps with the flag down again (`woken`). Cancellation strikes at
every suspension point. Live and speculative calls share a process when the
supervisor is embedded in the API.

`SpeculationGate` is what callers are promised: at most `Limit` speculative
calls, none started while a live call is in progress. `GateSafety` is the
refinement.

### Session pool (`SessionPool`)

One action per Redis command of `insert`: HSET, EXPIRE, HGETALL (with the choice
of victims), HDEL of expired items, HDEL of items over the cap. Any number of
inserts interleave with clears and expiries, and an insert may stop after any
command. Ties in confidence are broken arbitrarily: Python's sort is stable over
HGETALL's order, and a Redis hash table gives none (two prunes with a tie may
therefore evict more items between them than either would alone, and `BestKept`
is stated so that this is allowed while losing a *better* item is not).

### Prefetch (`Prefetch`)

One session. A fetch `<<kind, n, dep>>` runs `_run_fetch` step by step: call the
source, read the session's status, commit the audit row, insert in the pool,
release the claim. `consume()` runs dependency by dependency: lookup, wait
(two EXISTS per round, until a deadline), second lookup, staleness gate, mark,
or live fetch. `POST /end` commits the status, sweeps the rows, clears the pool.
Shared state and where it lives: `claims`, `pool` in Redis; `status`, `row` in
Postgres; `fetch`, `lane` are the locals of coroutines and die with their
process.

| Code | Model |
|---|---|
| `schedule()` one plan item | `Plan` |
| `prefetch_current_turn._go` | `BeginTurn` (task created), `ClaimTurnFetch` |
| `_run_fetch` | `FetchReturns`, `ReadStatus`, `WriteAudit`/`AuditFails`, `FinishEmpty`, `Insert`, `Release`, `RedisFails` |
| `consume()` | `TakeDep`, `Lookup`, `Poll`, `Deadline`, `Relook`, `Mark`/`MarkFails`, `FetchLive` (inside `Decide`), `LiveDone`, `LiveDies` |
| `end_session`, `finalize_session` | `EndSession`, `Sweep`/`SweepFails`, `ClearPool` |
| crash of a worker or of the API | `WorkerCrash`, `ApiCrash` |
| TTLs | `ClaimExpires`, `PoolDrops` |

Abstractions: a query is an utterance (what was said, or what was predicted); the
gate's cosine test is a relation `Near`; payloads are absent; the pool is a set
from which items may vanish (`SessionPool` says how); requests of one session
come one at a time; `fetched_at` orders items by when their fetch returned, so
the hosts' clocks are taken to agree; a dependency is either templated on the
user's words or has no template.

`SlowFetches` says whether a claim's TTL may run out under the fetch that holds
it. The TTLs (at least 30 s and `cache_ttl_s` for planned fetches, 60 s for
current-turn ones) are meant to exceed any fetch, so it is FALSE where exclusion
is claimed, and an assumption of two theorems. The code does not enforce it: an
MCP fetch may take three requests of 30 s, and once a claim has run out a second
fetch of the key starts beside the first, whose end releases the second's claim.
`prefetch_deps` allows slow fetches.

### Turns (`TurnFlow`, operators `SopGraph`, abstract `Conversation`)

One session and any number of overlapping requests: nothing serialises them, and
a client that times out sends its turn again. An action is what a request does
between two suspensions that matter: a read, a model call, a commit. Every model
(router, classifier) answers anything its parser lets through.

| Code | Model |
|---|---|
| `start_session` | `Init` |
| `_get_session`, the 409 | `Arrive` |
| converse: intake, `route_initial`, `_assign_sop` | `ReadIntake`, `RouteInitial`, `Defer` |
| converse and voice-turn: history, `allowed_actions` | `ReadTurns` |
| `classify_and_propose`, gated | `ClassifyGated` |
| advisory: `classify_and_propose` with `route_switch`, the switch | `ClassifyAdvisory`, `Switch`, `Reclassify` |
| `plan_turn`: history, `choose_action`, the 422 | `PlanTurn` |
| the INSERT of a turn under `UNIQUE (session_id, turn_index)` | `CommitTurn`, `Defer` (`InsertTurn`) |
| error, disconnect or crash before the commit | `Fail` |
| `end_session`, `publish_sop`, `delete_sop` | `EndSession`, `Publish`, `DeleteSop` |

What a request knows of the session's row is what it read on arrival: the row is
in its database session's identity map, `expire_on_commit` is off, and a later
SELECT of the same row does not refresh it, so `plan_turn`'s own test of the
status, when converse calls it, tests the old value. Turns and candidates are
read anew.

Abstractions: `sop_graph.py`'s sorted lists are sets, and the first allowed
action, taken when nobody names one, is any allowed action; a procedure is at
one version, and once deleted its version is not found (`Loads`); messages,
replies, prompts, cohorts and moods are left out, the quota, the outcome and the
correction of the previous turn's text are in `Outcome`; a request that was served before the
session was given its procedure fails on `scalar_one` unless it is a converse.
The switch branch of gated converse is left out because it cannot be taken: it
tests for a state outside the procedure's vocabulary, which the classifier has
blanked by then.

`Conversation` is what the reader of a transcript is promised: turn after turn, each
one called for by those before it, nothing changed or taken back. `TurnsAreSerial`
is the refinement, `Transcript` its mapping: the turns in the order of their
numbers.

### Supervisor (`Supervisor`)

The stream, its consumer group and the workers. `stream`, `delivered` and
`pending` are Redis's; a worker's batch, cursor and the fetches it runs
(`fetching`) die with it. `owed` and `handled` are history variables.

| Code | Model |
|---|---|
| `publish_turn_event`, MAXLEN | `Publish`, `Trim` |
| `ensure_group`, start of a worker | `Start` |
| `claim_stale`, `read_events` | `Autoclaim`, `ReadGroup` and their failures |
| `_predict_and_prefetch`: no SOP, or fetches launched | `Skip`, `Launch` |
| `_pregenerate_instructions`, one reply | `Draft` |
| `ack` | `Ack` (which may fail) |
| a fetch task's end, `stop()`, the shutdown's wait | `Land`, `Stop`, `LeaveLoop`, `Exit` |
| idle time, crash, loss of Redis's data, TTLs | `GoIdle`, `Crash`, `Reset`, `Expire` |

How a fetch runs is `Prefetch`'s matter; here one is under way until it lands.

### Catalogue (`Catalog`)

Procedures, prompt blocks and the three configurations share one pattern, so one
`item` per name stands for parent and version rows. A handler opens with its
read (`Save`, `PublishSop`, `ImportProject`, ...), and ends with its commit
(`CommitSave`, `CommitPublish`, `CommitPoint`) or `Abort`; others commit between.
The database refuses a version number or a name that is taken and fails an update
of a row that is gone. `StartSession`, `BindStart`, `Route` and `AssignSop` pin
blocks; `GetSop`, `ListBlocks`, `GetRuleset` and the like are what a reader sees.

### Outcomes (`Outcome`)

One session's turns and traces. A turn counts against the quota (`CountTurn`),
numbers itself (`ReadTurns`), commits its plan (`InsertTurn`), its reply
(`CommitReply`) and perhaps a detected outcome, which locks the session's row and
then its traces (`UpdateSession`, `Propagate`, `CommitDetected`); a reported one
locks in the opposite order (`UpdateTraces`, `CommitOutcome`). `BreakDeadlock` is
PostgreSQL's.

### Workspace (`Tenancy`; `ABTest`, `Bridge`, `Copilot` on top; composed in `Workspace`)

`Tenancy` has tenants, keys and the rows that carry a tenant's id, and every
admin route as a read, a write and a commit. The others act with a key of a
tenant that may be revoked, replaced or deleted under them: the background task
of an A/B test (`ReadArms`, `StartArm`, `EndArm`, `Progress`, `Finish`), the MCP
server (`Guide`, `OpenSession`, `Converse`), the copilot (`OpenThread`,
`CommitQuestion`, `Recall`, `Save`, `Clear`, `Forget`). A behaviour of `Workspace`
has the operator and one of the three.

### Workbench (`Predictor`, `Selection`, `Builder`, `Connectors`, `Corpora`, `Metrics`, `Schemas`; one at a time in `Workbench`)

- `Predictor`: `NextOffset`, `LookupCohort`, `LookupWide` and `Shrink` are the
  queries of `predict()`; traces are written (`Record`) and rewarded (`Reward`)
  between them. Weights are integers in units of 0.05, shares are fractions of a
  whole number; `BuildPrefetchPlan`, `Scheduled` and `Drafted` are what a worker
  makes of the forecast, candidates being kept in sets until the code sorts them
  (`Sorted`).
- `Selection`: `BeginTurn`, `Embed`, `LookupInstruction`, `Consume`, `BuildPlan` of
  a turn over a pool into which items come (`Put`) and from which they expire.
  Embeddings are points on a line, which keeps the order of cosines and the
  threshold, and near is not transitive. The pool and the picks are sets; the order
  of the ranking, ties included, is `Ahead`. At least one pick is allowed (the code
  tests the bound after the first).
- `Builder`: `Ingest` and `BuildTurn` merge patches; `Dfs` and `Reachable` are
  the lint's two searches, `Dfs` a recursive function of the colours and what is
  left to visit.
- `Connectors`: operators save (`SaveConnector`, `CommitConnector`; the ORM writes
  the columns that changed), while a fetch or a probe goes row by row
  (`ResolveDependency`, `ReadSecret`) and message by message (`Request`, `Rpc`), or
  an artifact is rendered entry by entry (`RenderConnector`, `RenderSecret`).
- `Corpora`: `UpsertDocs`, `EmbedDoc` per document, `CommitDocs`; `FindCorpus` and
  `FindDocs` of the fetcher.
- `Metrics`: the summary's six queries, each with its figures, the health of a
  connector, scores and curves of an A/B test. A COUNT is a cardinality, a
  percentile the value with that many rows at or below it (`AtRank`).
- `Schemas`: `SaveSchema` validates, `Render` notes a configuration against it.

They meet in no state, so `Workbench` lets a behaviour move one of them; their
state spaces add up and do not multiply.

## 3. Properties and runs

Passing runs. A property that stands for several is a conjunction of named parts,
each with its own comment in the module.

| Run | Instance | Shows |
|---|---|---|
| `scheduler` | 2 live, 4 speculative calls, 2 permits (3.5 k states) | `NoLostWakeup`, the refinement `GateSafety`, the liveness `SpeculationResumes` |
| `pool` | 4 inserts, cap 2, one tie (3.6 M states) | `CapHolds`, `BestKept`, `ImmortalOnlyBetween` |
| `prefetch_turns` | 1 templated dependency, 2 turns, 1 planned fetch, 2 unlike utterances (1.8 M) | `OneFetchPerKey`, `NoRedundantLive`, `ServedFresh` |
| `prefetch_deps` | an idempotent and a non-idempotent dependency, 2 turns, slow fetches, Redis errors, 1 crash (0.4 M) | `NonIdempotentUnderTurn`, the liveness `TurnCompletes` |
| `prefetch_end` | 1 turn, 1 planned fetch, the end, errors of every kind, 1 crash (3.3 M) | `ClaimsHaveOwners`, `OnlyCaughtRowsStayOpen` |
| `turns` | 3 requests (converse, advisory, plan-turn), 2 procedures (4.4 M) | `NumberedInOrder`, `TurnsAreLegal`, `RejectedOnlyWhenStranded`, the refinement `TurnsAreSerial` |
| `supervisor` | 2 workers, 2 events, batches of 2, a stream trimmed to 1, 1 mishap (crash, failed call or lost data), 1 claim that expires (0.7 M) | `NothingIsLost`, `DuplicatesAreBounded`, the liveness `EventsAreHandled` |
| `catalog` | 2 requests at a time, 4 in all, 1 procedure that binds 1 block, 3 configurations, 1 session (1.5 M) | `CatalogIsSound`, `PublishedPassedTheGate`, `PinsAreReleased` |
| `outcome` | 2 requests at a time, 3 in all, quota 1, 2 outcomes (0.2 M) | `RecordsAgree`, the step property `EarlierOutcomesStay`, the liveness `EveryRequestEnds` |
| `workspace` | 2 clients, 4 requests, 3 tenants of one slug, 4 keys, an A/B test, an MCP call, a copilot thread, 1 crash (0.5 M) | `TenantsAreSound`, `OneSessionPerCall`, `MemoryIsSound`, the liveness `EverythingEnds` |
| `workbench` | the seven parts below, one at a time (2.2 M) | `ForecastsAreSound` and `LikeliestComesFirst` (`Predictor`), `PicksAreBest` and `TurnsAreServedAsPlanned` (`Selection`), `LintIsSound` and `PatchesChangeWhatTheyName` (`Builder`), `ConnectorsAreFaithful`, `CorporaAreFaithful`, `FiguresAddUp` (`Metrics`), `SchemasAreFair` |

Every property of these runs has a mutant: a definition of the code with a
plausible slip (the operator named in `PROJECT.json`, written out after the
definition it replaces), under which the property fails. `TypeOK` of the first four
models, `PermitsConserved`, `FlagTracksLive`, `QueueMatchesStages` and
`IntakeNeverLoops` (a part of `TurnsAreSerial`) are in no run of their own: they are
proved (section 4).

One run refutes what a text of the repository says:

| Run | The code | The text |
|---|---|---|
| `turns_own` | the first turn of a procedure whose actions all wait for something: every action is offered to the classifier, its state opens one, and `plan_turn` answers 422 to the other it chose | `agent.py:79`: "pick the next SOP-legal action" |

### Where the code and its documents differ

Met while modelling. The models follow the code; the properties are stated so that
they hold of it, and each exception they make is one of these.

*Prefetch and turns.*
- Advisory turns pass no embedding to `consume()` (`api/runtime.py:493`), so the
  gate is off and an earlier utterance's data is served; D-12
  (`docs/ARCHITECTURE.md:239`) says "served only if it is fresh for the CURRENT
  utterance". `ServedFresh` excepts advisory turns.
- A converse turn in `sop` mode fetches speculatively and is served from the pool
  (`api/runtime.py:457`); the comment at `api/runtime.py:168` and D-9 say "no
  speculation, no pool".
- The sweep at the end marks live fetches wasted too (`prefetch.py:456`); its
  docstring says "unconsumed speculative fetches".
- A fetch that reads the status before the end and commits its row after the sweep
  is never settled; `prefetch.py:168` says "record it as wasted immediately".
  `OnlyCaughtRowsStayOpen` says that there are no others.
- `consume()` waits on a planned key without the query hash, so a planned fetch
  with a query is never waited for (`docs/ROADMAP.md` item 7 knows it);
  `NoRedundantLive` is stated for the keys that are watched.
- The advisory turn asks the switch router on every turn but the first
  (`api/runtime.py:518`), and the gated check (`:669`) never fires, as the
  classifier blanks undeclared states (`agent.py:126`); D-11
  (`docs/ARCHITECTURE.md:238`) says "only when the tracker loses the thread".
- A request admitted before the end commits its turn after it (`:69`). Two intake
  requests both route, and the later assignment overwrites the earlier (`:401`).
- An advisory turn's plan marks the draft and the data it found as consumed and
  serves an empty prompt; when a draft is served, the consumed data is not in the
  prompt. The cut to eight comes before the removal of repetitions, so that eight
  repetitions crowd out what differs.

*Outcomes and publication.*
- Overlapping writers of an outcome may leave the session with one and its traces
  with another.
- A publication that overlaps another may move the published pointer back.

*Tenants, tests, MCP, copilot.*
- Revocation is not immediate for the MCP mount inside the API: a scope is cached
  for ever (`mcp_server.py`), and rows are written for a deleted tenant;
  `docs/INTEGRATION.md` says the contrary of both. Deleting a tenant leaves the
  copilot's rows.
- Overlapping console logins leave several active login keys. A login deletes the
  key an A/B test runs with, and the test fails. A test whose arm fails leaves the
  arm's session active, one whose process dies stays "running".
- Any failure of an MCP guidance request, a 429 included, drops the call's session
  from the map, and the call goes on in another.
- The copilot's memory has one title per tenant, not per project; titles are looked
  up in full and stored cut to 200 characters; once two saves at once have stored a
  title twice, every later save of it fails. A second first question to the copilot
  waits for the first one's model call, and then fails.
- An import creates a tenant without a key. A secret is looked up by the name as
  typed and stored under the name without blanks.

*Statistics, builder, configuration, retrieval.*
- A cohort with rows, but too few, gets no forecast although the SOP-wide table has
  enough. The "SOP-level marginal" a forecast is shrunk to is conditioned on the
  action. `half_life` is the time of an e-th. A follower is joined without its
  procedure. Precedents that all failed give probabilities of 0.
- Patches cannot remove an edge. An empty definition passes the lint. A name may be
  an action and a state.
- A boolean passes as a number. A path is stripped when validated and looked up as
  typed. An enum whose one option is blank cannot meet a required field, nor can
  paths one of which prefixes the other.
- Two saves of a connector may leave the kind of one with the configuration of the
  other. The failed fetch of an unknown or disabled connector is audited without
  its name, so the errors `connectors.py:11` promises to show are not shown. A probe
  ignores `enabled` and reports failure on any response that starts with "<". A
  missing secret gives an empty payload that counts as no error.
- Overlapping upserts may leave an embedding of neither text. A corpus deleted
  between retrieval's two queries gives an empty success.
- `pick_rate` may exceed 1. A judge's NaN becomes the best score.

### Bounds

*Prefetch, pool, scheduler, turns.* Two permits are the least at which a hand-over,
a give-back and a queue coexist, four callers the least that leaves two queued
behind two holders. Four inserts over a cap of two let two prunes run on
different snapshots while a third item arrives. Two turns are needed for
anything stale; one planned fetch, one current-turn fetch and one live fetch per
turn are all the kinds that can meet at one key, and with two utterances each
query is either near or far. One crash at any step covers every place a claim
can be orphaned; a second crash orphans another claim independently. Three
requests give a turn index two losers and one winner, and a gated turn two
predecessors that may be committed between its reads; the two procedures share
their actions and their state in opposite orders, one starts with nothing open,
the other with an open action. A voice turn is a converse that cannot be in
intake; it is in `turns_own`.

*Supervisor.* Two workers take an event from each other; a second event makes a
batch with an entry behind the one in hand, and a stream trimmed to one entry loses
an entry that is pending. `MaxMishaps` bounds crashes, failed calls and losses of
Redis's data together, `MaxExpiries` the claims that run out.

*Catalogue, outcomes, workspace.* Two requests at a time meet in every pair of
handlers; the others of the `MaxRequests` come before them or after, to build the
versions they race on or to see what they left. Three tenants are one deleted, one
created again under its slug, and one beside them; four keys leave room for two
logins over a first key. Three outcome requests are two turns and a report.

*Workbench.* Two actions, two states and four traces reach both sides of the
support threshold with one trace late; four items over a cut of three, with the
likenesses 0-3-4 on a line where near is not transitive, make the greedy choice
matter; three edges over three actions contain every shape of cycle the lint
distinguishes; two operators make two edits under one reader; two uploads of one
document under one search; four rows written while a summary is put together.

### Deadlock

The scheduler and the session (which can always be ended again) run forever and are
checked for deadlock. The other models stop when their bounded supply of turns,
plans, events, requests and edits is used up, and say `CHECK_DEADLOCK FALSE`. That
nothing stops before is what their liveness properties say.

### Fairness

- Scheduler: the event loop runs every coroutine that is ready and model calls
  end; nothing is assumed of live callers, and `SpeculationResumes` is conditional
  on their stopping.
- Prefetch: the API process runs its coroutines, fetchers have timeouts (15 s
  HTTP, 30 s per MCP request), and `consume()` has a deadline.
- Supervisor: a worker that runs takes its next step, fetches land, an entry that
  nobody touches grows idle, and one that died is started again. The last is an
  assumption about the deployment (services under systemd, `docs/CONFIG_MANAGER_E2E.md:31`),
  made because the code, too, counts on it: what a dead worker held is swept by
  whoever runs next. Nothing need be published, read by a given worker, or trimmed;
  `EventsAreHandled` allows for trimming, lost data and all workers being stopped.
- Outcome and workspace: the event loop runs every request that can go on, and the
  database breaks a deadlock by failing one of the two. A request that waits for a
  row's lock goes on when the lock is free. The A/B test's task runs while its
  process does, and the model answers or times out.

Nothing is assumed of operators, callers, failures or expiries anywhere.

## 4. Proofs

`SchedulerProofs` (about `Scheduler`, for every budget and any finite sets of
calls):

- `TypeCorrect`, `PermitsAreConserved`, `WakeupsAreNotLost`, from the inductive
  invariant `IInv`. Permits alone are not inductive: that the counter stays
  natural needs `value + |Holders| = Permits`, and a hand-over needs that the
  queue and the stages agree (each queued call once, each waiting call queued).
- `ImplementsGate`: every step maps to a step of `SpeculationGate` or a stutter.
  The budget follows from permit conservation, "no start during a live call" from
  `FlagTracksLive`.

`DataProofs`, its first part (about `SessionPool`, for every cap, every set of items
and confidences, any number of inserts):

- `TypeCorrect`, and `NeverImmortal`: an item without an expiry exists only
  between an insert's first two commands. The second needs the first, no more.
- `CapCorrect`. That the live items number at most the cap plus the inserts that
  have not pruned is not inductive: two prunes at work on different snapshots may
  have named the same victims. The strengthening `PrunesSuffice` quantifies over
  every set `S` of prunes under way: what is live, less all that the prunes of
  `S` will still evict, is at most the cap plus the other inserts. With `S` empty
  it is the property; when a prune chooses its victims it joins every `S`.
- `BestAreKept`, from `PrunesChooseWorst`: whatever a prune has named, enough
  items at least as good were live when it looked.

`PrefetchProofs` (about `Prefetch`, for every set of turns, plans, dependencies
and utterances), one inductive invariant per theme, each resting on the ones
before it:

- `TypeInv` gives `TypeCorrect`. A lookup takes the freshest of the pool's items,
  which is only a value of the right type if every pooled fetch has landed.
- `ClaimInv` gives `ClaimsCorrect` and `ClaimsStandForFetches` (`OneFetchPerKey`,
  `ClaimsHaveOwners`): a key under fetch is claimed, by the fetch, and an identity
  not yet used has no claim.
- `TurnInv` gives `FreshnessGate` (`ServedFresh`) and `NeverSpeculated`
  (`NonIdempotentUnderTurn`): what a dependency has found so far passed the gate,
  and no speculative fetch is of a non-idempotent dependency.
- `RowInv` gives `RowsSettledButCaught` (`OnlyCaughtRowsStayOpen`): after the end a
  fetch about to write its row has seen the end, and writes it wasted, or was
  caught by the end between its two steps.
- `WaitInv` gives `NoFetchTwice` (`NoRedundantLive`): a fetch under way at the
  lookup holds its claim until its item is in the pool, so a round of the wait
  that finds the keys free knows that the fetches are over.

`ClaimsCorrect`, `ClaimsStandForFetches` and `NoFetchTwice` assume `SlowFetches = FALSE`: with a TTL that
runs out under a fetch they are false.

`TurnFlowProofs` (about `TurnFlow`, for all procedures and any finite set of
requests):

- The lemma `Shape` sorts every step: the turns rest, or one request goes on, or
  one inserts the turn it has prepared.
- `NumInv` gives `NumbersInOrder`: the indices are an initial segment of the
  naturals and their number is the count, and an index a request has noted is at
  most today's count. An insertion whose index is free therefore extends the
  segment by one. `IntakeEnds` adds that an unneeded intake turn has index 0, and
  so has only one place.
- `LegalInv` gives `LegalTurns`. While a prepared gated turn's index equals the
  count, the turns it was checked against are still all there is; once it is
  smaller, the index is taken and the turn can never be inserted.
- `RejectInv` gives `RefusedOnlyWhenStranded`: what is visited only grows, and
  open actions stay open as it does, so a refusal means that the offer was made
  by the fallback.
- `ImplementsConversation`: every step is a step of `Conversation`, whose one
  variable is what has been said, or a stutter. An insertion takes the next number
  (`NumInv`), so that it appends to the transcript and no other place of it changes
  (`TranscriptGrows`); its turn was checked against all the turns there are
  (`LegalInv`), is of its procedure's vocabulary if it is an advisory one
  (`AdvisedFit`), or opens the conversation if it has no procedure and could have
  had one.

`SupervisorProofs` (about `Supervisor`, for any finite set of workers, any pairs,
batch size and bounds):

- `TypeCorrect` and `EventsAreKept` (`NothingIsLost`). That a delivered event is
  handled or pending, if the stream still has it, is inductive with the types, but only
  because `XAUTOCLAIM` drops no pending entry but those that were trimmed, a read
  delivers the next entries without passing one over, and an acknowledgement comes
  after the handling.
  `LostOnlyToCrashes` needs that a worker that stops waits for its fetches.
- `DuplicatesStayBounded` (`DuplicatesAreBounded`). `OneFetcher` needs
  `FetchersClaim`: a worker's fetches are of events claimed, as long as Redis keeps
  its data. `DraftsBounded` is a count over workers, inductive because a worker that
  makes a draft leaves the sum it was counted in.

`OutcomeProofs` (about `Outcome`, for any requests, outcomes and quota):

- `TypeCorrect`: that a closed request holds no row lock needs the stages at which
  one is held (`LocksFit`).
- `RecordsHold` (`RecordsAgree`). `QuotaInv` compares what was admitted with the
  counter of the minute. `AloneInv`: while a request is alone, every other is
  closed and the outcome is what it read; then what it writes on the session and,
  turn by turn, on the traces is the same value. `DetectInv`: who goes on to
  detect has read no outcome.
- `DetectionYields` (`EarlierOutcomesStay`), a property of steps, from the same two.

`CatalogProofs` (about `Catalog`, for any names, definitions, bindings, sessions and
number of requests): `CatalogHolds`, `GateHolds`, `PinsHold`, from one invariant,
`CatalogInv`. What is read before the commit is the difficulty, so `RequestFits` says
what is still known of it then: a save is for a version at most one above the
latest of the row it read (`SaveFits`), so that either its number is taken, and the
database refuses it, or the numbering stays contiguous; a version chosen for
publication is still there if its row is (`ChoiceFits`), since versions are never
removed but with their parent and a parent created again has a new id; what passed
the gate has its blocks released or brings them along. `Evolves` classifies what
any step does to an item (kept, grown, deleted, created afresh), which is all that
the rest of the invariant has to hear of it.

`WorkspaceProofs` (about `Workspace` whole, for any finite set of clients, any slugs,
calls, titles and bounds):

- `TenantsHold` (`TenantsAreSound`). A deletion that has swept noted every row of a
  listed table, or a request admitted before wrote since (`SweepsAreNoted`). The
  bound on login keys is not inductive: two logins that commit each leave one key
  and delete those they had seen. `LoginsAreBounded` quantifies over every set `S`
  of committing logins: the keys none of `S` has seen, and one more for each of
  `S`, are at most as many as the clients.
- `CallsHold` (`OneSessionPerCall`), from `BridgeFits`: a call that is not excused has
  one request at most, and its session is in the map as soon as it is opened.
- `MemoryHolds` (`MemoryIsSound`), from `SavesFit`: a save that found no fact of its
  title will make none twice, unless the title was looked up beside it.

`DataProofs`, its other parts, each about the specification of its own module:

- `CorporaHold` (`CorporaAreFaithful`; any finite set of keys, uploads of any length).
  An upload commits columns compared with rows it read one by one, and a second
  write of a key in the same request is compared with the first. `ReadsChain` says
  so: the first write of a key read the row, every later one the write before. The
  columns not written are then those of the row as it was read.
- `ConnectorsHold` (`ConnectorsAreFaithful`; any names, secrets, endpoints and kinds).
  `FetchReads`: a fetch's url and secret are of one row held since it began, its
  value one the secret has had since. `FetchCalls`: as many messages are out as its
  stage says, and its session is the last one issued. `EntryFits` describes an
  entry of an artifact that is half rendered, while the registry changes.
- `TurnsServed` (`TurnsAreServedAsPlanned`; any items, drafts, utterances and bounds).
  `TurnFits` says at which stages and in which modes a turn can hold picks or a
  draft; a draft put later has a greater id, so the one found stays the newest as of
  the lookup.

- `LintHolds` (`LintIsSound`; any finite set of names, any edges). The two searches
  are recursive functions, and what they compute is proved by induction: over the
  rounds for `Reachable`, over `CallSize` (what was not visited, then what is left
  to do) for `Dfs`. First that each function exists and satisfies its equation
  (`ReachedIs`, `DfsIs`); then what it finds. `ReachableIsClosed`: rounds that add
  something are no more than the actions. `SearchesAreRight`: the actions on the
  stack form a chain of prerequisites and what is done with is reachable, so a
  search that meets its stack has found a trap, actions each of which waits for
  another of them, and one that does not ends with everything reachable.
- `PicksHold` (`PicksAreBest`; any pool, embeddings and bounds, at least one pick).
  `TakeTop` is a recursive function of the candidates looked at so far; that it
  exists and satisfies its equation is proved by `Induct` again (`TakeTopIs`).
  `Picked` is the invariant of the loop: whoever was looked at is picked, or repeats
  a pick ahead of it, or all picks are ahead of it and are as many as there may be.
  `AheadOrders` and `HindmostIs`: the order has a last element in every set. The turn
  keeps what it was shown while the pool changes.
- `SchemasHold` (`SchemasAreFair`; any paths, options and number of fields). The
  fields of an accepted schema differ in their paths, so one suited value can be
  chosen for each, and the notes on a configuration are as many as the fields that
  deserve one.
- `PatchesKeepTheRest` (`PatchesChangeWhatTheyName`).
- `FiguresHold` (`FiguresAddUp`; any durations, scores and bounds). A figure is given
  in one query and compared with those of later ones, while rows are written and
  marked: `FiguresSoFar` says what is known of each figure once its query is
  answered, in terms of the rows there are *now*, and stays true because rows are
  only added, and a consumed row stays consumed. `RankExists`: of the values of a
  column, one has the rank asked for. The curves need that an arm's sessions are
  numbered through (`ArmOk`), and that a sum over sessions of sums over turns is the
  sum over turns of sums over the sessions that got so far (`ScoresSwap`).
- `ForecastsHold` (`ForecastsAreSound`; any actions, states and finite set of
  conversations). `WorkerOk` says of every offset predicted so far that its support
  was seen and its shares are those of a distribution. The queries see different
  rows, so the support is stated of the traces as they are now: traces only grow
  and a failure is not taken back (`PastStays`, `SupportStays`). `SharesAddUp`: the
  grouped weights of the followers, each over their sum, are a distribution, also
  after they are shrunk towards the prior.
- `LikeliestHolds` (`LikeliestComesFirst`). The plan has at most two turns per action
  and `Before` orders them; every strict order of a finite set can be enumerated
  in its order (`OrderExists`, `SortedIs`), and the first of the enumeration is
  preceded by none. `FirstPair`: pairs are sorted
  by the rounded product of two likelihoods; rounding keeps the order up to ties
  (`RoundedIsMonotone`) and a tie goes to the earlier action and state.
- `WorkbenchComposes`: a step of `Workbench` is a step or a stutter of each of its
  seven parts, so what is proved of a part holds of what the run checks
  (`WorkbenchHolds`).

`SumFunction` takes its elements in an unspecified order. That the order does not
matter, that a sum can be split, regrouped by the value of a function and compared
term by term (`SumOut`, `SumAdd`, `SumSwap`, `SumOfClasses`), is proved by induction
over the size of the set and stands before the last two parts.

The library states induction with an operator as a parameter, which the provers
cannot instantiate. `Induct` states it with a set of numbers instead, and follows
from the well-foundedness of the naturals.

Assumptions: those named in the modules (`BudgetAssumption`, `CallsAssumption`,
`QueryAssumption`, ...), which TLC evaluates in every run: sets that are counted are
finite, bounds are natural numbers (at least one tenant, one key and one pick), and the names
of procedures are none of the markers the model uses beside them. That `Near` is
reflexive is one of them: a query's cosine with itself is 1.

Only model-checked is liveness, which is out of the prover's reach:
`SpeculationResumes`, `TurnCompletes`, `EventsAreHandled`, `EveryRequestEnds` and
`EverythingEnds`. Every safety property of a passing run is a theorem.

## 5. Not modelled

- The model client (`llm.py`), the wiring of the application (`api/app.py`) and the
  settings (`config.py`): HTTP calls and constants. A model's answer is an input of
  every model that needs one, and any answer its parser lets through.
- Benchmarks, the use case, scripts, migrations and the frontend: offline programs
  and a client without state of the server's. They are most of the lines that
  the map leaves out.
- The text of prompts, replies, headings and reports; the parsing of documents,
  bodies and URLs; the listings that are one query each.
- The recency decay of the predictor, and the state hints and moods that no caller
  combines; the introspection of a configured server; the probing of a URL for a
  draft of a connector; renames; the copilot's proposals, which are answered and not
  stored.
- Clock skew: the hosts' clocks are taken to agree where times are compared.
- `Prefetch` has one request of a session at a time and `TurnFlow` many but no
  fetches, and pre-drafted replies are served in `Selection` only, whose pool changes
  under one turn. Their product is too large for TLC.

## 6. Plan

What is left, most important first:

1. An abstract specification of exclusive claims, implemented by `Prefetch` and by
   the launches of `Supervisor`.
2. Turns and fetches together, for two requests of one session.
