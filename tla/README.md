# Verification of beater-memory

TLA+ models of beater-memory, an event-sourced memory store in Rust
(`src/crates/beater-memory`): an append-only ledger in SQLite, a graph of
memories projected from it by a distiller, bitemporal queries over the graph,
and an HTTP service around them. TLC checks the models on small instances;
TLAPS proves the theorems for every instance.

    cd tla
    tlc -config pipeline_heuristic.cfg MCProjectionPipeline.tla
    tlapm ProjectionPipelineProofs.tla

## 1. The system

| Component | State | Operations | What makes it correct |
|---|---|---|---|
| Ledger and projection pipeline (`engine.rs`, `store.rs`) | `ledger_events` with `projected_at`, the graph tables, `distillation_batches`, the locals of each pass | `append_event`, `project_pending`, late replay, `rebuild_projection` (live or from batches) | a row is folded in once; a rebuild loses nothing and gives what increments gave; closures are justified |
| Belief revision (`store.rs`, `engine.rs`) | versions of a family: validity window, closing event, spans, supersedes edges | `upsert_node_with_base_key`, `invalidate_node`, late updates and invalidations | windows of a family do not overlap, history does not change, one current version |
| Distillers (`distill.rs`) | none; a stored batch per row and replay fingerprint | heuristic classification; command provider and validation | targets are neighbours; stored batches can be replayed |
| Query retrieval (`graph.rs`, `text.rs`) | none, reads the store | seeds, visibility, ranking, PageRank or activation, contradictions, watermark | what an answer says agrees with the store, although it is read in pieces |
| Query routing (`route.rs`) | none | modes and weights from markers in the question | a routed mode is an allowed one |
| Active reconstruction (`graph.rs`, `reconstruct.rs`) | frontier, expanded, accepted and pruned nodes, tokens spent | one decision per expanded node, by a policy or a provider | budgets hold, no node is judged twice, what is accepted is connected and explored |
| Command subprocesses (`distill.rs`, `reconstruct.rs`) | child, pipes or files, writer and reader threads, deadline | spawn, feed, poll, kill, join | no call outlives its deadline, no output is half read |
| HTTP requests (`server.rs`) | permits, tasks, counters, the store | authorize, limit, validate, `run_db_task`, answer, audit | permits are conserved, every request ends, acknowledged writes are stored |
| Rate limiter (`server.rs`) | a window per actor | `check` | a span of a window admits a bounded number, Retry-After is honest |
| Audit log (`server.rs`, `store.rs`) | `audit_events` | append, retention | calls leave a row; retention keeps the newest |
| Store lifecycle (`store.rs`) | schema version, database file | open and migrate, health, maintenance, orphan repair, backup, restore (atomic copies) | a crash between two steps leaves a database that opens; what says it is current is upgraded |
| Imports (`imports.rs`) | none, writes the ledger | canonical JSONL, beater.js journals | a file is imported whole or not at all, twice is once, a step only when it has ended |
| Evaluation (`eval.rs`) | an engine in memory, the reports so far | validate a suite; per case ingest, project, query, judge; summarise | cases do not see each other's rows; a report adds up |
| Command line, scripts | none of their own | run the above | |

How they interact. Clients reach the engine through the HTTP service or the
command line. Every database task of the service, and every CLI process,
opens a SQLite connection of its own; connections meet only in the database
(WAL, `BEGIN IMMEDIATE` for the transactions, a busy timeout). A `remember`
inserts a ledger row and then projects up to 100 pending rows in the same
task; `manage` projects what is pending; a rebuild clears the projection and
replays the ledger in one transaction. A query reads the projection with many
statements and may walk the graph with a provider. The service's shared state
is a semaphore of permits for blocking tasks, the limiter and the counters,
each of the last two under a mutex.

What is hard:

- Interleaving: the pending rows, the neighbours of a row and the
  distiller's answer are read outside the write transaction, and late replay
  runs after it, by several workers at once.
- Ordering: rows arrive in another order than they were observed in; ties at
  one observed time are broken by ledger id; stored batches are replayed into
  another projection than the one they were made for.
- Crashes: between the commit of a row and its late replay; in the middle of
  a rebuild; between two statements of a schema upgrade, which is no transaction.
- Timeouts and retries: a request is answered 504 while its task goes on with
  its permit; writers give up after the busy timeout; clients retry; a command
  may ignore its input, fill its pipe, never end, or leave a helper behind.
- Limits: permits that run out, also for the audit row; token budgets;
  Retry-After in whole seconds of a clock that may be set back.

`PROJECT.json` lists each hazard at its line with the properties that cover it.

## 2. Modules

| Module | Models | Code |
|---|---|---|
| `ProjectionPipeline` | ledger, workers, transactions, late replay, batches, rebuilds, crashes | `engine.rs` 183-560, 565-826, 956-1146; `store.rs` 771-1196; `distill.rs` 533-584, 773-815 |
| `ProjectionContract` | what the pipeline promises: a growing ledger, rows folded in once, rebuilds without gaps | abstract specification |
| `VersionFamilies` | versions, windows, closures, updates, late replay, bitemporal visibility | `store.rs` 1029-1196, 1245-1838, 2665-2790; `engine.rs` 565-680, 865-1224 |
| `Routing` | intents to modes, modes to kinds, fallback | `route.rs` 3-188; `model.rs` 10-203 |
| `QueryReads` (extends `Routing`) | `answer_query`, one statement at a time, against a writer | `graph.rs` 22-300, 404-470, 595-916; `store.rs` 1475-1630, 1894-2238 |
| `Reconstruction` | the reconstruction walk and the budgeting of evidence | `graph.rs` 314-593; `reconstruct.rs` 544-584; `model.rs` 822-838 |
| `ProviderCalls` | a decision of a command provider with processes, threads, pipes, files, deadline, repairs | `distill.rs` 307-378, 438-476, 587-658; `reconstruct.rs` 233-455 |
| `Imports` | what a JSONL line or a journal step becomes, and the report | `imports.rs` 23-462 |
| `StoreLifecycle` (extends `Imports`) | a database file over its life: upgrades, imports, backup, restore, repair, retention, kills | `store.rs` 443-789, 2333-2352, 2413-2663, 2861-2925 |
| `RateLimiter` | the fixed-window limiter | `server.rs` 582-641 |
| `ServerRequests` | requests, permits, blocking tasks, timeouts, counters, audit rows | `server.rs` 150-197, 274-457, 649-1380, 1830-1887 |
| `Evaluation` | the evaluation harness | `eval.rs` 21-212, 503-1385 |
| `*Proofs` | theorems about `ProjectionPipeline`, `VersionFamilies`, `QueryReads`, `Reconstruction`, `ProviderCalls`, `StoreLifecycle`, `Evaluation`, and in `ServerProofs` about `RateLimiter` and `ServerRequests` | |

`MC*` modules hold the constants of the runs. "mutant of X" above a definition
marks a variation of X as a plausible bug would have it: with it in place of X,
the property it is meant for fails, which shows that the property can fail.

How the modules meet. `ProjectionPipeline` implements `ProjectionContract`.
`QueryReads` uses the operators of `Routing`, and `StoreLifecycle` those of
`Imports`. The others model one component each and stand for their neighbours by
what these may do: the pipeline's provider may answer whatever
`ProviderCalls` accepts, the writer beside a query does what the pipeline
commits, and a database task of the server ends, fails or goes on for ever.

### ProjectionPipeline

State: `ledger` (the rows by id; a row is its idempotency key, which fixes its
time and text), `db` (projected markers, how often each row was folded in,
claims, closing rows, edges), `batches`, `txn` (the private copy a rebuild works
on and, when open, the write lock), and per worker where it is in
`project_pending` and what it read so far. A short transaction is one action; a
rebuild holds the lock over many steps. Each read that the code does outside a
transaction is an action of its own: `StartPass` (the snapshot of pending rows),
`Distill` (neighbours and answer), `CommitRow`/`DiscardRow` (the transaction
with its recheck), `LateScan`, `LateRead`, `LateApply`. `BusyTimeout` and `Crash`
end a pass anywhere they can. The heuristic distiller's choice of target is a
maximum over a table of overlap scores; the command provider may answer
anything that passes validation, reject a row, or fail.

Deliberately left to `VersionFamilies`: updates inside a family and equal texts.
Left out: several memories per row, entity cues, episodes.

### VersionFamilies

One worker, no crashes. State: `ledger`, `projected`, `graph` (which rows each
version cites, who closed it, supersedes edges) and the late replay in
progress. The revision key of a version (`store.rs` 2767-2790) is a record of
family, time and, for a successor at one time, the row. `Visible(g, t, known)`
is the bitemporal read. `Clock = "coarse"` lets several writes share one
millisecond of `updated_at_unix_ms`, by which the code orders versions.

### Routing and QueryReads

A question is the set of intents whose markers occur in it. A query goes
through the stages of `answer_query`: route, seeds, nodes, what was known of
them, edges and their visibility, the choice of evidence, spans, stale
assumptions, the decision to escalate, the fallback route, a second retrieval
over all modes before a reconstruction, and the freshness check. Each SELECT is
an action; between any two a writer may commit a row with its closures, or a
capped or full rebuild. `copy` is the rows of `memory_nodes` as they were read,
`seen` is history: which memories were projected, open or closed all along. The
score of a candidate is left open: who may be evidence is modelled, who ranks
higher is any choice.

What reading the code this way shows, beyond the properties: the second check of
`require_fresh` (`graph.rs` 202-246) looks at the same copy of the rows as the first,
so it adds something only when `known_at` is given and a rebuild commits in
between; `constrain_modes` never removes anything, since a guess is only made
when all modes are allowed; and a guess that names every mode in another order
counts as a different route and repeats the retrieval (`Differs`). A view of the
past may change when a closure that was observed earlier but ingested later
takes the place of one the reader knew.

### Reconstruction

One query. The graph, the evidence it starts from, the order of equally good
candidates and the policy are all nondeterministic. `Fitting` is what a greedy
pass over some order keeps: any maximal set that fits.

### ProviderCalls

One decision, of a distiller (`style = "pipes"`) or of a reconstruction policy
(`"files"`). The caller starts a command, a thread feeds it, the caller polls
until the command exits or the deadline passes, kills what is left of the
process group, collects the output and judges it; a distiller sends a malformed
answer back, up to `MaxRepairs` times. The command reads, writes, forks and
exits as it likes, and its helper may hold the pipes and leave the group.

The two providers differ, and the model keeps it: the distiller reads its pipe
only after the exit, so an answer longer than the pipe always times out; and after
the exit it waits for the pipes without a deadline, for as long as a helper
holds one. The reconstruction policy uses files and has neither limit.

### Imports and StoreLifecycle

`LineOutcome` and `StepOutcome` say whether an item is ignored, skipped, fails the
file, or which event it is. In `StoreLifecycle` an image is what a database file
holds. A process opens it (identity and version check), runs `migrate` one
statement at a time, and then appends, projects, rebuilds, imports in one
transaction, backs up, restores, repairs orphans or prunes the audit log; it may
be killed or time out anywhere. `torn` and `shared` are history: a reset that
was begun and not ended, and a write while another process was upgrading. The
clock may be set back.

Two things the model makes visible: an import's key does not contain the
environment, so the same file imported into a second environment is all
duplicates; and two processes that open an old database at once may collide on
an `ALTER TABLE`, which fails one of the two opens.

### RateLimiter

`check` under its mutex, in three outcomes (disabled, admitted, denied), with the
sweep of old windows in front. The clock is a variable. `admitted`, `promise`
and `setBack` are history variables for the properties.

### ServerRequests

One action per branch of `begin_request`, of the handlers (live, ready, health,
stats, metrics, audit, remember, manage, query, maintenance; "manage" stands for
"project" too) and of `run_db_task`; blocking tasks are a set, each with its
permit, and go on after their request was answered or dropped. A request may
come with any body of `Bodies`; what a handler refuses before it takes a permit
is `Accepts`. `Config` must pass `MemoryServerConfig::validate`
(`ConfigAssumption`). Maintenance may prune audit rows. What a handler does between two
awaits is one step: a metrics call may in fact see a counter of a request
without its second one. Requests that axum rejects before a handler runs touch
none of this state. What queries and projections do to the store is left to the
other modules.

The checks on timeouts differ: startup compares one provider call with the
database timeout, a query is held to timeout times steps (`FitsProviderBudget`,
`server.rs` 1128), and `remember` and `manage` have no check over all the rows they
project.

### Evaluation

A suite is validated, then its cases run one after another on one engine:
ingest, `project_pending` with a limit of as many rows as were ingested, query,
judge. A case belongs to the project it names or, in an isolated suite, to one
named after a hash of its id (`CaseProject`). Answers are any the case's scope
and time allow. Rows a provider rejected stay pending and take up the limit of
later cases, so a later case's `events_projected` may count rows of earlier
ones. `todo` is what is left of a pass, `offered` is history: the rows it was
given.

Isolation has one exception, which `CasesAreIsolated` spells out: a suite may
name a case's project outright, and nothing stops it from naming the one that
another case is given.

## 3. Runs

| Run | Bounds | Properties |
|---|---|---|
| `pipeline_heuristic` | 2 fair workers, 3 rows, 1 full rebuild, 1 crash | `TypeOK`, `ExactlyOnce`, `ProjectionIsGrounded` (claims are of projected rows, closures justified, edges grounded), `ConvergesUndisturbed` (a projection nobody raced for or crashed in is the one a rebuild gives), `ImplementsFairContract` (every row is folded in) |
| `pipeline_command` | 1 worker, 3 rows, 2 fingerprints, a capped or full rebuild | `BatchesCoverProjected`, `RebuildKeepsProjected`, `ImplementsContract` |
| `families` | 2 texts (an update, an invalidation), 3 times, 4 rows | `FamiliesAreHistories` (`TypeOK`, `FamilyWindowsDisjoint`), `RevisedIsClosed` (`OneCurrentVersion`, `SupersededIsClosed`), `EarliestClosureWins`, `HistoryIsStable` |
| `query` | 4 rows, rebuilds capped at 2 or full, 4 questions | `AnswerIsSound` (`TypeOK`; what was closed all along is not offered as current, what was open not as stale; evidence reconciled and cited), `TimeTravelIsImmune`, `NothingWithheld` |
| `reconstruction_walk` | all graphs on 4 nodes, 3 steps, 2 tokens | `WalkIsBounded` (`TypeOK`, `SpendsWithinBudget`, `JudgedOnce`), `WalkIsConnected` (`AcceptedIsConnected`, `ExploresWhatItAccepts`) |
| `provider` | input 3, output 3, pipe 2, 2 repairs; fair | `TypeOK`, `OutputIsWhole`, `NothingKeepsRunning`, `MetricsAddUp`, `EveryDecisionEnds` |
| `store` | 2 processes, 13 scenarios | `GraphIsWhole` (`TypeOK`, `ProjectedIsInGraph`, `NoOrphans`), `CurrentIsUpgraded`, `ImportsAreFinal` (`ImportIsWhole`, `JournalRowsAreFinal`), `AuditHasNoHoles`, `ForeignIsUntouched` |
| `limiter` | 2 actors, limits 0-2, 4 and 1 admissions, 6 readings of the clock | `LimiterTypeOK`, `SlidingLimit`, `RetryAfterIsHonest` |
| `server_writes` | 2 tries of a write and a maintenance call, 1 permit | `TypeOK`, `PermitsAreConserved`, `RefusedDidNothing`, `AcknowledgedIsStored`, `FirstInsertStands` |
| `server_answers` | a query, a metrics call and both probes, 1 permit; fair | `CountersAddUp`, `EveryRequestEnds` |
| `evaluation` | 10 suites of up to 3 cases, 2 distillers | `OwnRowsAreOffered`, `CasesAreIsolated`, `ReportIsTrue` (`TypeOK`, `PassIsFullScore`, `ReportAddsUp`, `GapNeedsALoss`) |

One of the runs of a module also checks its type invariant.

Why the bounds are enough. A conflict over a row needs two workers, and a lost
late replay the two rows that should have met. Three rows make every case of
target choice: a target, the row that closes it, and a competitor on either side
in time, with every order of arrival. The provider's answers multiply, so
`pipeline_command` has one worker; what it checks is proved for any number
(section 4). Three times and four rows insert a version between two others of
its family and then revise it; both texts of `families` are also stated on their
own when they find no target, so a text that is only ever stated would add no
step. In `query`, one memory has two rows that close it, one of them ingested
after the reader's horizon, and a linked memory of another kind, so each kind of
answer and each order of the closures occurs; one rebuild, capped below the
closing rows or full, falls between any two reads. In `provider` the pipe is smaller
than what goes in and what comes out, so both ends block; two repairs are one more
than a single retry. The scenarios of `store` give each operation the file it is
hard for: an upgrade in two resets and in one, with a kill; a journal that grows
and one that breaks in its last step; a restore from an old version, a newer
one and a foreign program; the clock set back twice under three audit rows. Two
processes suffice for a write during an upgrade and for two upgrades at once. One
permit is the case in which tasks, audit rows and probes all compete. A limit of
two shows a window that is partly used; twice the limit is four admissions. The
second actor of the limiter is there to have a window that is swept; 4096 is
replaced by 1. The readings of the clock lie on both sides of one second and of
one and two windows. The suites have a case that overtakes an earlier one in
observed time, isolated and shared, and one that names another's project.

One run ends in a violation, of a property that a test of the repository states:

| Run | Property | What happens |
|---|---|---|
| `pipeline_late_race` | `RebuildConverges` | two workers: neither row's late replay sees the other row (`engine.rs` 238) |

Further disagreements, each seen by a small change to a configuration. "as
INVARIANT" or "as PROPERTY" means in place of those of the file:

| Property | How to see it fail | What happens |
|---|---|---|
| `RebuildConverges` | `pipeline_heuristic.cfg` with `SPECIFICATION Spec`, `Workers = {"w1"}`, as PROPERTY | a crash after the commit of a row loses its late replay for good |
| `RebuildConverges` | the same with `MaxCrashes = 0` and `Overlap <- MCTwoTargets` | a late row becomes the better target of a row projected before; the target closed before is not reopened (`engine.rs` 1034) |
| `ClaimsAreProjected` | `pipeline_heuristic.cfg` with `SPECIFICATION Spec`, `Caps = {1, 3}`, as INVARIANT | a capped rebuild commits between a late-replay read and its write; the write creates the claim of a row that is pending again (`engine.rs` 1102), against README.md 360-362 of the repository, "Manage/projection is atomic per ledger event" |
| `StoredBatchesReplay` | `pipeline_command.cfg`, as PROPERTY | complete stored batches fail validation in a rebuild, because a late row closed a target earlier (`engine.rs` 518, against README.md 268-271 of the repository) |
| `KnowledgeIsStable` | `families.cfg` with `LateReplay = FALSE`, `Texts = {"a", "x"}`, as PROPERTY | one closure slot for two time axes: a reader as of an earlier ingestion sees a node reopen (`store.rs` 1761, against ARCHITECTURE.md 98-101) |
| `OneCurrentVersion` | `families.cfg` with `Clock = "coarse"`, as INVARIANT | three versions at one time, written within a millisecond: two stay open (`store.rs` 1709) |
| `StatedOnce` | `families.cfg` with `Texts = {"a", "b", "u"}`, as INVARIANT | a late row makes an update's text current in two families (`engine.rs` 1148) |
| `AnsweredIsAudited` | `server_writes.cfg`, as PROPERTY | no permit is free and the audit row is skipped (`server.rs` 1361), against ARCHITECTURE.md 222-223, "included in durable audit detail for authenticated, denied, failed, and throttled calls" |
| `ProjectedIsInGraph` | `store.cfg`, with the condition on `torn` taken out of it | a kill or a busy timeout after the first DELETE of an upgrade's reset leaves rows marked as projected with a partial graph, and the next open records version 5; a full rebuild repairs it. ARCHITECTURE.md 77-79 promises the reset |
| `EdgesAreGrounded` | `pipeline_command.cfg` with `Workers = {"w1", "w2"}`, as INVARIANT | a rebuild under another fingerprint leaves a row pending between the provider's answer and its commit; the relation to it is stored all the same (`engine.rs` 828, `store.rs` 540) |

The same properties hold in the passing runs wherever the cause is absent:
`ConvergesUndisturbed` is `RebuildConverges` for behaviours in which at most one
worker is at work at a time and none crashes; `OneCurrentVersion` holds with a
clock that tells writes apart, `ClaimsAreProjected` with full rebuilds.

Fairness. `pipeline_heuristic` assumes that a worker that has begun a pass or a
rebuild goes on, and that somebody keeps starting passes while rows are pending
(each `remember` does by default). Nothing is assumed of crashes and rebuilds,
which are bounded in the instance; a provider that keeps rejecting rows is left
out, because it may starve the rows behind them. `server_answers` assumes
that handlers run, timers fire and an insert into the audit table ends (at the
latest by the busy timeout of its connection); nothing is assumed of database
tasks, which may never end. `provider` assumes that the caller, its writer thread
and time go on; nothing is assumed of the command and its helper.

Deadlock is not checked: every model may come to a legitimate end (all rows
appended and folded in, all requests answered, the answer given).

## 4. Proofs

TLC shows a property on a small instance, a theorem for every value of the
constants: any number of workers, rows, requests, processes and actors. Few of
the properties are inductive as they stand. Each `*Proofs` module begins with the
strengthening, which TLC checked on the runs of its component before it was proved,
and shows one by one that the actions keep it.

`ProjectionPipelineProofs`, both distillers: `TypeCorrect`, `ExactlyOnceCorrect`,
`BatchesCorrect`, `RebuildKeeps`, and `Implements`, the refinement of
`ProjectionContract`. The invariant
adds to the type: the fingerprint of a worker that may write is a real one
(`FpOK`); `applied` counts once in the committed projection and in a rebuild's
private copy (`Once`, `OnlyRows`); the worker in stage "rebuild" is the one that
holds the open transaction, and its fingerprint covers everything that is
projected (`OwnerOK`); the private copy has no gap in the observed order among
the rows it could replay (`NoGap`); and a rebuild has replayed as many rows as
its cap has shrunk by (`LeftOK`), so that one without a cap has dropped none.
Without them a commit could fold a row twice, or a rebuild could end early.

`GroundedCorrect` (`ProjectionIsGrounded`) has two hypotheses, the heuristic distiller
and full rebuilds, and both are needed: a capped rebuild takes away the row under
a late replay (the table above), and a rebuild under another fingerprint takes
away the target of a relation the provider has just named. For the command
distiller `ProviderGroundedCorrect` has the other two thirds, claims and
closures, capped rebuilds included, because the provider's rows take no part in late
replay. The invariant
`Grounds` says the same of a rebuild's copy, that an answer that waits for its
transaction invalidates only what overlaps (`Prepared`), and that the rows a worker
read for its late replay are still projected (`Replaying`).

`ConvergesCorrect` (`ConvergesUndisturbed`) compares two projections that came
about in different orders. It needs no fold over the ledger: both are shown to be the
same function of it, in which every claim is closed by the first of all rows that
would close it (`Resolved`, `OneResolution`). The one exception is the claim
whose late replay is under way, and its closing row is still among those collected
(`OnCourse`). A row is taken in turn (`InTurn`): of rows of one time the earlier id
comes first, so a claim that is closed when a row arrives was closed before it. Two
workers, or a crash in a late replay, break this, which is why both are
excluded; rebuilds before the last one may be capped, and rows may arrive at any
time. The theorem has two hypotheses, the heuristic distiller and that a text
invalidates that of at most one other row (`OneTarget`); with two targets the
property fails (`MCTwoTargets` in the table above). The scores may be anything else.

`VersionFamiliesProofs`, for any texts, times, operations, with late
replay or without, any number of rows in any order: `FamiliesCorrect` and
`HistoryCorrect`, for either clock. The
strengthening is that all rows a version cites were observed when it begins
(`Timed`); without it the row that founded the next version of a family, which
closes the new one, could be too late. Each write is a function of the graph, and a lemma
says of each that it keeps a sound graph sound and loses no version (`Grows`):
a closure because it only moves earlier, a new version because it is put
between its neighbours (`FitsIn`). History is stable because whatever a row writes
begins or ends when it was observed (`Writes`).

`RevisedCorrect` (`RevisedIsClosed`) and `EarliestClosureCorrect` assume
`Clock = "fine"`: with a coarse one `OneCurrentVersion` is false, as the table
shows. `RInv` says how versions revise one another: rows of one time are projected in the
order of their ids (`TiesInOrder`); of the versions that begin at one time all but the
last are closed by then (`OldClosed`), and a successor cites the row it is named
after (`Named`); whatever is closed when a version begins was closed no later than by its
first row (`HandsOver`); a supersedes edge to an older version explains its
closure (`Explained`); a row whose text invalidates leaves a version of its own
(`Stated`), which is what a late replay finds again; and what a late replay has still to
apply was observed after the version it is about and has not closed it (`QueueOK`).

`QueryReadsProofs`, for any rows, closures, links, questions and rebuilds:
`AnswerIsSoundCorrect`, `TimeTravelCorrect`, `NothingWithheldCorrect`, which are
all that the run checks. A query has no snapshot, so the invariant relates what it
holds to what held all along since it began (`SeenOK`): a copied row cannot
disagree with that (`CopiesOK`), so an active node was not closed all along
(`ActiveOK`), and every edge that passed its check has an older end that the copy shows
as closed (`EdgesOK`). Citations keep up because what is cited was active, and
an active row has spans as long as it is projected (`CitedOK`). For the past,
the copies of a settled store are those of the rows known then, whatever was
written in between (`TravelOK`, `SettledCopy`), and of several closures the
earliest known one decides.

`ReconstructionProofs`, for any graph, evidence, policy and budget:
`TypeCorrect`, `JudgedOnceCorrect`, `WalkIsConnectedCorrect`, `WalkIsBoundedCorrect`. The invariant adds
that what is accepted is selected (`Selected`), that a node the walk starts from
cannot become a candidate (`Begun`), that what the policy is asked about is new and next to
something known (`Offered`), and that the frontier loses nothing unexpanded
(`Queued`). The tokens of a set of nodes are the size of a set of tokens, so that
what was spent follows from the cardinality of a disjoint union instead of an
induction over a sum.

`ProviderCallsProofs`, for any sizes and number of repairs: `TypeCorrect`,
`OutputIsWholeCorrect`, `NothingKeepsRunningCorrect`, `MetricsCorrect`. What was
written is in the pipe or was read, and nothing is read while the command runs, so
an accepted answer fits the pipe (`BytesAreConserved`); a command whose exit was seen
has ended (`ReapedHasExited`); a caller past its loop has seen the exit or killed
the group (`PastTheLoop`); each call is counted once, and starts afresh (`Counted`,
`StartsAfresh`).

`StoreLifecycleProofs`, for any number of processes, files, journals and
operations: `GraphIsWholeCorrect`, `CurrentIsUpgradedCorrect`,
`ImportsAreFinalCorrect`, `AuditHasNoHolesCorrect`, `ForeignIsUntouchedCorrect`. The
invariant (`LifecycleInductive`) has a part for each way the file could go wrong:

- `ImagesOK`: what may be missing from a database or a backup of each version,
  which is less than the properties say while a reset is torn;
- `UpgradesOK`: what a process in the middle of `migrate` has already done. It
  is lost when another process writes or restores, which `shared` records;
- `ImportsOK`: only one process is in a transaction (`MayWrite`), its file is in the ledger
  up to the line it has reached, and only in its own view;
- `JournalOK`: a step in a ledger had ended when it was read, and what has ended
  does not change;
- `AuditOK`: ids are given in order, and as long as the clock is not set back so
  are their times, so the rows that retention keeps are the last ones;
- `ForeignOK`: nobody is at work on a file that was refused.

It assumes that the scenarios start from images an earlier or this version
of the program leaves behind (`AtRest`), and that
the key of a journal step is nobody else's (`JournalAssumption`): beater.js makes its run
ids, and a client that sent one as its own trace id would take the step's place.

`ServerProofs`, for any actors, limits, window and clock of the limiter, set back or
not: `LimiterTypeCorrect`, `RetryAfterCorrect` and `SlidingLimitCorrect`. The first two need
`PromiseCoversWindow`: what a denied actor was told lies at or after the end of
the window it has now, also after windows were swept and begun anew. The
third needs `Grouped`: the admissions of an actor are in order, the last ones are
those of its window, and any two that are twice the limit less one apart are at least a
window apart, since a whole group lies between them (`SpreadOut`).

And for any requests, keys, bodies and number of permits of the service:
`TypeCorrect`, `PermitsCorrect`, `RefusalsCorrect`, `AcknowledgementsCorrect`,
`FirstInsertCorrect` and `CountersCorrect`. Permits are conserved because a task that starts is new:
a request has at most one database task and one audit task (`OneDbTask`,
`AuditTasksAreWaitedFor`), and none before its checks are done (`NotStarted`).
An acknowledgement is stored because the insert comes before the projection and
before the result (`InsertedFirst`). Each counter is the size of a set of requests,
which a step enlarges by the request that takes it (`Counted`).

`EvaluationProofs`, for any suites and either distiller: `OwnRowsCorrect`
(`OwnRowsAreOffered`), `IsolatedCorrect` (`CasesAreIsolated`) and `ReportCorrect`
(`ReportIsTrue`). Three parts are about the pass of a case. The ledger holds the
rows of the cases so far, each under its case's project (`LedgerOK`); a pass takes
as many pending rows as were ingested from the front (`PassOK`); and the rows of a
case that it did not get to are no more than the rows of earlier cases it
took instead (`FairShare`), since two sets of equal size miss equally many of each
other. The rest is about reports: what was found is of the case's project
(`FoundOK`), a verdict agrees with its score and its gate (`ReportsOK`), and each
row of the graph was counted by one case (`CountedOK`).

The sums and averages of a report are folds over finite sets. The induction theorems of
the library cannot be used for them, so `FiniteSteps` states induction with the
set of the subsets that have the property, and rests on the well-foundedness of
inclusion; from it follow that a sum does not depend on the order of the fold
(`SumsAgree`, `FoldSums`), that it keeps bounds, and that the classes of a set
add up to it.

Every proof rests only on the assumptions of the modules, `ConstantsAssumption`,
`ConfigAssumption`, `SizesAssumption`, `JournalAssumption`, `LimiterAssumption` and
`SuitesAssumption`, which TLC evaluates in every run. Apart from those above they
are typing, that "none" is no request, that a pipe holds something, that the
configuration passes the program's own check, and of the suites that the 64-bit
hashes of their case ids do not collide and that a score divides evenly
(`Units` is a multiple of the number of expectations).

Only model-checked:

- liveness (`ImplementsFairContract`, `EveryRequestEnds`, `EveryDecisionEnds`),
  which is out of the prover's reach;
- edges of the command distiller, and closures under a coarse clock (nothing
  speaks against `EarliestClosureWins` there; the proof goes through `RInv`, which does
  not hold then);
- that the operators of `Routing` and `Imports` agree with their tables of markers
  and fields: they are definitions, and the theorems use them as such.

## 5. Not modelled

- Scores: PageRank and spreading activation are floating-point arithmetic. Who
  may be a candidate is modelled, how candidates rank is not.
- Texts: normalisation, stable hashes, token estimates and markers are data.
  Overlap scores and operations are tables the models range over; the
  field-by-field checks of a provider's output are the outcomes valid, malformed
  and rejecting.
- Several memories per row, entity cues and the visibility of relation edges
  between versions (`VersionFamilies`); edges and their visibility are in `QueryReads`.
- Header parsing, request ids, graceful shutdown, sums of latencies and the
  Prometheus text of the service.
- The command line and the scripts keep no state of the program.

## 6. What is left

Every safety and action property of the passing runs has its theorem. Models:
several memories per row in `VersionFamilies`, and with them entity cues.
