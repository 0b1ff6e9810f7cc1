# Verification of mai-team: from a webhook to a Review, and the environments of agents

This directory holds TLA+ models of mai-team (a Rust server that lets agents
review GitHub pull requests in containers), the TLC configurations that model-check them on
small instances, and TLAPS proofs of theorems about them. Paths below are
relative to the repository.

## 1. The system and its parts

mai-team runs one server process per installation (two for a while during a
rolling deployment) over one SQLite database. A *project* is a GitHub
repository. For each open pull request and head the server keeps a review *job*;
a pool worker per project takes the jobs one at a time, gives each a *Reviewer*
agent in a container, and the agent's `github_api_request` tool posts one Review on
GitHub. What happens at GitHub arrives as webhooks through a *relay* server, or is
found by a periodic *discovery*. Agents work in containers that mount the
*references* (documents and repositories) a project is configured with; a changed
configuration replaces the container.

| Component | State it keeps | Operations | Interacts with | Hard behaviour | What makes it correct |
|---|---|---|---|---|---|
| Review job tables: `crates/mai-store/src/review_jobs.rs`, `review_jobs/*.rs`, `review_ci_watches.rs` | jobs, runs, CI watches, cleanup tasks | admission, claim, heartbeat, guarded upsert, intent, receipt, recovery, cancellation, pruning | everything below, one `BEGIN IMMEDIATE` transaction per call | rows saved minutes after they were read; leases judged by a clock reading taken earlier | one active job per pull request; one executor per project; a receipt is never lost |
| Review loop: `projects/review/{worker,job_worker,job_attempt,heartbeat,preflight,singleton,runs}.rs`, `mai-core/src/review/job.rs` | the claimed row, the heartbeat task, the cancellation token, the attempt's run | start and repair, recover, claim, preflight, attempt, decision, reconcile, stop | tables, reviewer agents, thread host, producers | abort in any `await`; lost lease while a turn runs; refused archive | no second review for a submission in doubt; every job and run left behind comes back |
| Producers: `project_automation.rs`, `ci_watch.rs`, `selector.rs`, `relay_selector.rs` | CI watches, delivery ids | webhook signals, discovery candidates, watch evaluation, manual request | tables, worker wake-up | repeated, late and reordered deliveries; two producers and a worker on one pull request | no duplicate job; no signal lost |
| Discovery scheduler: `discovery.rs`, `eligibility.rs`, `selection.rs`, `selector.rs` | next deadline per project, scan in flight | periodic and requested scans, backoff | producers, GitHub | scans that overlap, pages that shift, partial batches | every eligible pull request is admitted in the end |
| Review submission: `facade/project_github.rs` | the intent and receipt columns; GitHub's list of reviews | head check, intent, search by marker, POST, receipt, body-only repetition | tables, GitHub | a POST whose answer is lost; two turns of one job | one Review per job on GitHub |
| Review cleanup: `cleanup.rs`, `review_jobs/cleanup.rs` | cleanup tasks, retention deadlines | claim, delete reviewer/context, complete, prune | agents, tables | tasks of a job that became active again | nothing in use is deleted |
| Reviewer agents and context: `reviewer.rs`, `context.rs`, `cycle.rs`, `target.rs` | agent, container, context files | create, resume, adopt, prepare | worker, thread host, environment leases | the save of a new reviewer is overtaken | one reviewer per job and attempt chain |
| Thread host, canonical history: `thread_host/mod.rs`, `thread_projection/history.rs`, `runtime_agent_traits.rs` | threads, turns, history | queue input, run turn, wait, cancel, archive | reviewers, tools | a wait that ends before the turn does | archive only settled history |
| Environment lease: `crates/mai-references/src/lease.rs`, `lease/lifecycle.rs` | generation, fence and tracked tasks of an agent's container | publish, acquire, revoke, remove | tools, reference applications | a new generation while the old one drains; a dropped publisher | no operation of an old generation runs beside the new one |
| Reference applications: `crates/mai-references/src/{applications,application,admission,application_cleanup,resource_cleanup}.rs`, `mai-store/src/references/*`, `runtime_reference*.rs` | saved configurations, operations with their phase, binding, `agents.container_id`, the gate and the lease in memory, containers and snapshot images | save, request, run, supersede, recover, assemble on first use | leases, Docker, store, turns | supersede during an application, a crash between any two effects, a configuration saved during the first assembly | nothing a turn wrote is lost; a turn sees the configuration; a failure keeps the gate closed |
| Reference sources, catalog, trees, manifests: the other files of `crates/mai-references/src` | catalog rows, immutable trees | register, hash, mount | applications | file I/O | a tree is what its hash says |
| Relay server: `crates/mai-relay/src/*` | delivery queue, current socket | receive, push, replay, acknowledge | GitHub, relay client | replaced sockets, replay beside live pushes | a delivery is acknowledged only when it was processed |
| Relay client and events: `crates/mai-relay-client/src/client.rs`, `mai-server/src/services/relay_events.rs` | connection, event task | reconnect, process, acknowledge | relay, producers | disconnect while an event is processed | at-least-once signals |
| Agents of a tree: `agents/{create,delete,purge,container}.rs`, `runtime_agent_{creation,collaboration,traits}.rs`, `runtime_provisioning.rs`, `runtime_bootstrap.rs` | agent rows, records in memory, lifecycle locks, retirement marks, threads, workspace volumes | spawn a child, register, commit or roll back, delete a subtree, cancel, load a thread | tools of a turn, reference applications, leases, Docker, store | a child born while its parent is deleted; a creation cancelled at any `await`; spawn, application and deletion in one another's way | no orphan; nothing runs that nobody can find; every call ends |
| Project workspaces: `projects/{service,workspace}.rs`, `projects/workspace/*`, `runtime_{project_traits,project_push,workspace,provisioning}.rs`, `mai-store/src/projects.rs` | project row, its summary in memory, two volumes, the maintainer agent | create, clone, update, cancel, delete, resume at the start, sync after a push | agents of a tree, Docker, git, store, reviews | each save writes a whole summary copied earlier; deletion beside the clone; an end of the server at any step | a deletion is final; ready means everything is there |
| Tasks, tools, GitHub clients, Docker, other tables, server, UI, protocol | see `PROJECT.json` | | | mostly external I/O | |

`PROJECT.json` lists every component with its sources and status, and under
"hazards" the places where this code can go wrong in a way a test hardly reaches.

## 2. Modules

| Module | Models |
|---|---|
| `ReviewJobs` | the four tables and every store method that changes them |
| `ReviewLoop` | the workers, heartbeats, Reviewer turns, producers and cleanup on those tables; the properties |
| `MCReviewLoop` | TLC instance: the symmetry of the workers |
| `ReviewLoopProofs` | what each transaction of the tables keeps, what a step of the loop may do, its inductive invariants and its theorems |
| `ReviewSignals` | what webhooks, the CI watch, discovery and the preflight read of GitHub and later write to the tables; extends `ReviewJobs` |
| `ReviewSignalsProofs` | the inductive invariant behind `NoSecondReview`, and its theorem |
| `ReviewSubmission` | the POST of one job's Review, with GitHub's reviews as state |
| `ReviewSubmissionProofs` | the inductive invariants and the theorems of the submission |
| `RelayDelivery` | a webhook's way through the relay, its sockets and the client to the handler |
| `RelayDeliveryProofs` | the inductive invariant and the theorems of the relay |
| `EnvironmentLease` | the lease registry of one agent: changes of generation, holders, tracked processes |
| `LeaseContract` | what that registry promises, as a specification of its own |
| `EnvironmentLeaseProofs` | the registry's inductive invariant; that it implements the contract |
| `ReferenceApplication` | a saved reference configuration on its way into the container of an agent |
| `ReferenceApplicationProofs` | what a step does to operations, gate and containers, the inductive invariants and the theorems |
| `AgentTree` | the agents of one tree: spawn, commit, rollback, deletion of a subtree, cancellation, restart |
| `MCAgentTree` | TLC instance: a root, its child and its grandchild |
| `AgentTreeProofs` | lines of the tree, what each step does to calls and agents, three inductive invariants and the theorems |
| `ProjectLife` | a project from its creation to its deletion: row, summary, volumes, clone, calls, restarts |
| `ProjectLifeProofs` | the inductive invariant and the theorems of the project's life |

`ReviewLoop` and `ReviewSignals` extend `ReviewJobs`: they share the tables and the
transactions, and look at the same system from two sides. `ReviewLoop` has every
step of an attempt and any signal at any time; `ReviewSignals` has GitHub as
state, knows which signal is true, and makes an attempt one step.
`ReviewSubmission` looks into the one call of `ReviewLoop` that posts. `RelayDelivery`
ends where `ReviewSignals` begins, at the handler of a delivery, so what it
promises (each delivery answered, perhaps twice, perhaps late) is what
`HookArrives` assumes. `EnvironmentLease` instantiates `LeaseContract`;
`ReferenceApplication` uses a lease as the contract describes it. `AgentTree` knows of
a lease and an application only that they are there: whose lock an application holds,
whose turn it waits for, and that its gate stays closed after a failure.

### The review loop: how state and actions correspond to the code

- Each public method of the store runs in one `BEGIN IMMEDIATE` transaction
  (`crates/mai-store/src/lib.rs`), so it is one operator of `ReviewJobs` over
  `<<job, run, task, watch>>`, and one step. What a caller does between two
  methods is between two steps, and anybody may act there.
- `worker[w].pc` names the `await` the worker of instance *w* is about to
  resume, `worker[w].copy` the `ProjectReviewJob` it holds in memory. A save
  writes that copy, however old it is, through the guard of `upsert_job`
  (`review_jobs.rs:1184`): the stored row is not terminal and its `updated_at` is
  not later. The clock itself is not modelled: whether a write by somebody else
  was stamped later than the copy is a choice (`overtaken`) made when that write
  happens.
- Time is abstract. A lease is live or lapsed (`live`), a retry is due or not
  (`due`), and `LeaseLapses` and `BecomesDue` may happen whenever they can. The
  worker reads its clock once before recovery and compares leases with that
  reading in the later claim: `expired` holds the leases that had lapsed by then.
- Job and run ids grow in the order of creation. A reviewer is named by the run
  whose attempt created it. `owner` is the worker that holds the lease; a pool
  worker takes a fresh owner name when it starts, so rows of its predecessor
  belong to `Gone`, which nobody is.
- A webhook, a manual request, a discovery candidate and a CI watch each name a
  head that the pull request has or had; a delivery id comes from a small set, so
  the same delivery may come again.
- `Events` bounds what may happen in a run: pushes, late signals (for a head
  that is no longer the current one), discovery, CI watches, skips, submissions,
  cleanup, faults (errors of the store, GitHub, Docker or the thread host),
  crashes, stops. The proofs hold for every value of it.

### The environment lease: how state and actions correspond to the code

- Agents share nothing but the maps of the registry, so one agent is modelled.
  `leases` is its entry in the map (`NoLease`: none), `life` its
  `GenerationLifecycle` objects, which leases of one generation share.
- `change[c]` is a call of `publish`, `revoke` or `remove`. The change lock is
  held only across the drain, so it is held by whoever is "draining": `Locks(c)`
  says nobody is. Setting the fence, cancelling and closing the tracker happen
  without an `await` and are one step (`Revoke`). `Replace` and `DrainFails` are
  the two ends of the drain; `Abandon` drops the future at any `await`.
- A lifecycle is an `Arc`: when nobody refers to it any more its name may be
  used again (`Dropped`). `MaxLives` bounds those in memory, not those ever made.
- `held[h]` is a lease that `acquire` gave to a turn or a tool; it stays there for
  as long as the holder likes, revoked or not. `acquire` reads the map and tests
  the fence in two moments; they are one step, because a lease is revoked before
  it is replaced.
- `task[t]` is a task on the tracker, from `spawn_tracked` to the drop of its
  token: registered, its process running, told to stop. A git sidecar starts its
  process also when its lease was revoked after the registration; a command looks
  again. Cleanup failures are recorded by tracked tasks only.
- Left out: a command task that panics, and a restart of the server, which forgets
  the registry (the reference applications publish again from their bindings).

### The relay: how state and actions correspond to the code

- `row` and `acked` are the table `webhook_deliveries` (its sequence and
  `acked_at`), `counter` the number in memory, `posting[d]` the HTTP request of
  delivery *d* between taking its number, the insert and the push. GitHub may post a
  delivery again.
- A socket has two ends, `server` (the task of `session.rs`) and `client`
  (`connect_once`), and what is between them: `queue` of events, `acks` under way.
  Either end may be gone before the other notices. `connection` is the socket the
  relay pushes to; `Register` and `Replay` are two steps, as in the code, and the end
  of a socket clears `connection` by node id, so it may clear a newer one.
- A replay reads the oldest unacknowledged rows up to its limit (`IsBacklog`). When the
  store refuses the reading (`ReplayFails`) or an acknowledgement (`AckFails`), the
  session only logs it and goes on with the socket (`session.rs:50`, `:88`).
  `socket[s].missed` is what the replay of the socket left behind,
  `socket[s].failed` what was answered to no effect.
- The client hands one event at a time to the handler. `HandlerCommits` is its
  effect (what `ReviewSignals` models), `HandlerReturns` its answer; `SettingsChange`
  closes a socket whose event still drains, `ServerBoots` is a start of mai-server,
  whose socket is open before the handler is installed (`installed`).

### Signals: how state and actions correspond to the code

- `pull[p]` is the pull request at GitHub: open, draft or closed, its head, whether the
  checks of that head are over, and the heads we reviewed. `PullChanges` and
  `CheckCompletes` change it; a webhook tells of it later, or never (`"lost"`).
- `hook`, `watcher`, `scan.found` and `worker.copy` hold an *evaluation*: what one of
  the four read, and what it is about to write. An evaluation is one moment in the
  model; in the code it is several requests to GitHub one after the other.
- `note[p]` is the delivery id of a CI watch. `asked` is a history variable: the
  pull requests a webhook asked a review for, until the wish is granted or void.
- Discovery reads a page, evaluates its pull requests and admits them. A batch is
  admitted one by one, where the code uses one transaction: more interleavings.
- An attempt is the steps `Submits`, `AttemptFindsHeadMoved`, `AttemptFails`. Manual
  requests and projects with automatic review disabled are left out.

### Submission: how state and actions correspond to the code

- `turn[t]` is the call the turn of attempt *t* is making, by the `await` it
  will resume from: head check, read of the row (`had_intent`), record of the
  intent, search by marker, POST, wait for the answer.
- `sent` is every POST a sidecar made, with what GitHub did with it. A POST stays
  `flying` as long as it likes, after the call gave up and after a crash.
- `row` has the columns of the intent, the receipt and the stored failure
  (`misplaced`: a comment was outside the diff). A failed head check changes only
  `stale`. Leases and the archive of the runs are those of `ReviewLoop`; the
  search for the marker reads all pages at one moment.
- `"silent"` in `Events` lets a turn go on although its attempt was cancelled.

### Reference applications: how state and actions correspond to the code

- One agent. A generation names one container: 0 the one of the first use, *o* > 0
  the candidate of operation *o*. `docker[g]` has its state, its writable layer
  (the number of changes turns had made) and its mounts; `image[o]` is the
  snapshot of operation *o*, found again by its label. Docker survives a crash.
- `ops` are the durable operations, `binding` and `row` the two places that name
  the container, `shown` the summary in memory. `mounts[r]` is the fingerprint of
  revision *r*: two revisions may mount the same.
- `holder` is who holds the lifecycle lock of the agent, an operation or an
  assembly: `pc` is the effect it does next and `receipt` its copy of the
  operation, which each `phase` call writes back. `queued` is a claimed
  operation that waits for the lock with the receipt it was claimed with.
- `request` is a configuration or an apply request on its way, under the lock of the
  project. It reads the inventory (`TakeInventory`), commits (`Replace`,
  `RequestApply`), and closes the gates of the agents that were in the inventory
  (`BlockReplaced`, `BlockUnfinished`). An agent whose first container is recorded
  between the reading and the commit gets an operation and no closed gate. No turn is
  admitted while the lock is held.
- An operation that finds its container commits what follows (`FindContainer`) and
  closes the gate in the next step (`BlockFound`). Hence an unfinished
  operation beside an open gate is a reachable state, and `GateIsHeld` is about the
  moment a turn is let in.
- An assembly that adopts a container may fail before the publication or after it
  (`AdoptFails`): it closes the gate, stops the container and then records an operation
  (`RecordIntent`). Any other step of it may fail too (`AssemblyFault`).
- Each effect (snapshot, create, save, rebind, publish, activate, remove, retire)
  is a step; a crash may come between any two. Two pairs are one step because
  nobody can see between them: an operation saves "creating" as it creates,
  "rebinding" as it rebinds.
- `Restart` is the end of the server and its start with `restore_admission`;
  `Recover` runs the latest operation before the server is up.
- `pending` is the gate. `turn` is the container the admitted turn uses, `tools`
  the one its thread was assembled for, `lease` the registered environment.
- Left out: several agents (they share a limit of two applications), clone
  parents, deletion of an agent, a failing compensation call, and a claim taken with
  a receipt of before an earlier claim's end (`runtime_references.rs:321`).

### Agents of a tree: how state and actions correspond to the code

- `rows`, `tombs`, `bound` are what the store says of an agent (its row, its
  tombstone, a container named by the binding or the summary), `containers` and
  `volumes` what Docker has, `listed`, `pending`, `leased`, `threads`, `turn` what the
  server has in memory.
- `creation[a]` is the `await` the call that spawns *a* will resume from:
  `spawn_child_agent`, `create_agent_resource`, `register_prepared_child_agent` and
  `finish_agent_registration` in their order. From "volume" on an
  `AgentCreationLease` rolls back what fails or is dropped: only the resources before
  `include_canonical_runtime` (`Product`), the whole subtree after it (`Canonical`).
- `deletion[d]` is `delete_agent` of a user or of the rollback of agent *d*, or
  `rollback_unregistered_agent`: samples of the tree and marks (`Sample`, `Mark`),
  then for each node, children first, gate and lock, thread, lease, containers and
  volume, row, record. The marks are dropped when it ends.
- Nobody stores who holds a lifecycle lock: `Locked(a)` derives it from who is at a
  step that holds it. An environment that is made again (`Environment`), and the
  assembly of a thread, hold it for one step.
- When a turn is cancelled or its thread closed, each spawn it waits for is dropped
  or goes on by itself: what `pl_core` does with a running tool is its own choice.
  A rollback that fails is tried once more by the drop of its lease; after that the
  agent is `stranded` (a history variable), as after a crash.
- A call is made once in a life of the server. The initial message of a child is one
  of the messages that begin turns (`TurnBegins`).
- Left out: closing a tree that keeps its workspace, the reports of children, the
  end of a session's retirement (after it an id may be used again), agents of Reviews
  and maintainers (they are created without a parent), a thread whose close fails.

### A project's life: how state and actions correspond to the code

- One project. `row` is its row (`Gone` once deleted), `memory` the summary in
  `ProjectRecord`, of which `status`, `clone`, `auto` (automatic review) and `error` decide
  something. `maintainer`, `volumes` and `cloned` are what the clone makes.
- Everybody writes a summary the same way: it is copied under the lock of the summary,
  and `save_project_row` writes the copy later (`Write`), which loses to a deletion
  (`Accepts`). `cloner.copy`, `call[u].copy` and `note` are such copies.
- `cloner` is `start_project_workspace`: its `await`, and the result (`goal`) that
  `set_project_clone_result` is about to report. `Return` is what the startup that
  waits for it makes of its end.
- `call[u]` is an update, a cancellation or a deletion of user *u*; `note` the summary a
  review worker is about to save, which its stop does not prevent; `sync` a push.
- `Attached` derives which volumes Docker refuses to remove. A failed deletion leaves
  the project `Deleting` and may be asked for again.
- `Start` is the load of the records, the removal of orphaned volumes and the
  resumption of an interrupted clone, before any call is served.
- Left out: the steps inside the deletion of an agent (`AgentTree` has them), the lock of
  repository syncs (a push syncs only a project that is ready, so never beside its
  clone), and the deletion of a maintainer by a call of its own.

### Abstractions of the loop to know about

- A discovery batch is admitted pull request by pull request, where the code
  admits the page in one transaction: there are more interleavings, not fewer.
- The reviewer that the singleton repair keeps is any reviewer an active job
  owns; the code orders them by time.
- Each worker has at most one Reviewer turn. The turn outlives the wait of the
  attempt for it, as in the code (finding `silent_turn`).
- What GitHub answers to a POST, and what a search by marker finds, are choices.
- `missing_submission_receipt` recovery of rows written by older versions, and
  the retention of events, logs and orphaned runs, are left out; they touch no
  modelled column of a live job.
- A failed startup repair returns the worker to "off", from where it starts over.

## 3. Properties and runs

`CHECK_DEADLOCK FALSE` is set where the bounds let the system stop (all posts
made, all changes spent). Times are for two TLC workers, without coverage.

| Run | Instance | Shows |
|---|---|---|
| `one_job` | 1 worker, 1 job, 2 runs, a delivery id, all faults and crashes, skips, watches, cleanup | `LoopTypeOK`; `ReceiptIsFinal`: no stale save, recovery or late submission takes a receipt back; `ArchivedBeforeReceipt`: a submitted job lets go of its run only when the history is archived (870k states, 75 s) |
| `retry_recovery` | 1 worker, 2 attempts, discovery, submissions, stops and crashes, fair | `NoSecondAttempt`: an unresolved submission never goes back to a fresh attempt; `RunsBelong`; `EventuallyReleased`, `EventuallyArchived`: jobs and open runs left behind are recovered (261k, 165 s) |
| `late_signals` | 1 worker, 1 pull request, 2 heads, 2 jobs, a delivery id, pushes, late signals, discovery, CI watches and submissions | `SecondJobIsRevived`: no producer and no save gives a pull request a second non-terminal job; only the submission of a turn whose job had ended does (620k, 70 s) |
| `two_workers_prs` | 2 workers, 2 pull requests, 2 jobs, lapsing leases | `OneReviewer`: a waiting job's Reviewer keeps other jobs out; `ClaimWaitsForLeases`: a claim waits for every lease, though it compares them with an old reading of the clock; `SlowWorkerIsHarmless`: a worker whose job was taken over goes on, but writes nothing into it (992k, 120 s) |
| `submission` | 2 attempts, 2 texts, calls begin until 3 POSTs are sent, push, crashes, fair | `OneFullPost`: one POST is not a recovery; `RecoveryAfterRefusal`: a recovery stands only beside refused POSTs; `ReceiptIsReal`; `IntentResolved`: no intent stays open (39k, 10 s) |
| `signals` | 1 pull request, 2 heads, 3 webhooks, 4 changes, CI watch, worker | `AskedIsKept`: a wish a webhook expressed is kept by a job or a watch; `NoSecondReview`: no head gets two Reviews (564k, 60 s) |
| `discovery` | 2 pull requests on pages of one, no webhook, one change, error or crash, fair | `EveryWishAnswered`: a head that wants a review gets it; `ClosedIsForgotten` (134k, 130 s) |
| `relay_delivery` | 2 deliveries, 2 sockets, 2 numbers, replay of one, all events (also replays and acknowledgements the store refuses), fair | `AckedWasHandled`, `SequencesDistinct`; `NothingOutOfReach`: what a working socket lacks is what its replay left behind, so there is no gap between replay and push; `EveryDeliveryAnswered`: a stored delivery is acknowledged unless it waits for a reason `Waits` names |
| `environment_lease` | 2 changers, 2 generations, 2 containers, 1 holder, 2 tasks, 3 lifecycles, fair | `NoStragglers`: no process outlives its environment; `OneGeneration`: whoever holds a valid lease holds the registered one; `FailClosed`: an environment with an unconfirmed cleanup is never replaced; `ChangeEnds`: a change ends; `ContractSpec`: the registry implements `LeaseContract` (167k, 50 s) |
| `references` | 2 saved revisions, 3 operations, 1 request, 1 change by a turn, 1 fault or crash, fair | `EnvironmentKept`: nothing a turn wrote is lost; `GateIsHeld`: no turn is let in after a failure, or ahead of an operation that is still to bring the environment to its revision; `TurnsSeeTheConfiguration`: a turn is let in only with the mounts of the saved configuration; `AppliedOrFailed`: each configuration is applied, replaced or failed (661k, 200 s) |
| `agent_tree` | root and child exist, a grandchild is spawned, 1 user, 1 application, 2 samples at most, 1 fault or crash, fair | `TreeTypeOK`: also, a deletion handles only agents it has marked; `NoOrphan`: a child whose parent has no row is not committed, or left halfway; `NothingLeft`: no container, lease, thread or turn without a record; `CallsSettle`: spawn, application and deletion do not wait for each other (584k, 155 s) |
| `project_life` | 1 user, 3 calls of any kind, a push, a review, 2 faults or ends of the server, fair | `ReadyIsWhole`: a project the store calls ready has a prepared maintainer, both volumes and a whole clone; `DeletionFinal`: no older copy, late result or start takes a deletion back; `DeletionFinishes`: a deletion that failed and is asked for again ends; `CloneSettles`: a creation comes to a result once nothing fails any more (211k, 35 s) |

Configurations that no run of `PROJECT.json` lists, to be run by hand
(`tlc -config X.cfg M`). `project_users` (`ProjectLife`) is the larger instance with
two users, for the types and the two safety properties (2.28M states, 80 s). Each of
the others shows, in seconds, a behaviour section 6 describes:
`revived_job`, `abandoned_run`, `silent_turn` (`MCReviewLoop`), `lost_submission`,
`repeated_recovery`, `two_turns` (`ReviewSubmission`), `failed_delivery`
(`RelayDelivery`), `superseded_candidate`, `unpublished_row` (`ReferenceApplication`),
`orphan_rollback`, `orphan_child`, `orphan_volume`, `outlasting_turn` (`MCAgentTree`),
`late_publish`, `cancelled_clone`, `late_volume`, `regressed_row` (`ProjectLife`).

The type invariant of `ReviewSignals` holds in the instances of its runs but is listed
by none; those of `ReviewSubmission`, `RelayDelivery`, `ReferenceApplication` and
`ProjectLife` are proved.

### Bounds, and why they are enough

Two jobs are the least at which a job can block, replace or outlive another; two
runs the least at which an attempt can be confused with the one before; two
heads the least at which a push supersedes; two workers model the two instances
of a rolling deployment, and only their interleavings need the second one. `late_signals`
and `two_workers_prs` are about jobs, claims and takeovers and have one attempt each.
Every action fires in some passing run. A worker that needs a run id when none
is left waits for ever: liveness is stated up to that (`OutOfRuns`).

In `submission` three POSTs are a full one, a recovery and one more; a call that
has begun may still post after the third. In `signals` four changes make room for a
draft, a push, checks and a close of one pull request; three deliveries for one
webhook of each of the three readers' races. In `discovery` pages of one make the
second pull request shift to the first page when the first one closes. In
`relay_delivery` two sockets are the one replaced and the one that replaces it, and
a replay limit of one makes the limit bite with two deliveries.

For the environment lease two changers are the least at which one waits for the
lock or overtakes one that gave up, two generations the least at which one
replaces another, two tasks the least at which one has left and another has not.
Three lifecycles are the registered one, the one the holder kept and a fresh one.

`MaxRequests <= MaxOperations` and the bound on the recorded operations in the guards of
`ReferenceApplication` (a save, a request, a compensation or an assembly that would
record one more does not happen) are bounds of the model, not of the code. In
`references` the second revision supersedes the first at any step, the third
operation is the one the compensation enqueues behind two others. One fault or
crash hits every step. Also checked were all four properties with saves of metadata only
in the place of stops (341k states), the safety properties with both (1.42M), and all four
with two troubles and no request (503k). The liveness property of `discovery` was also checked
with two changes and one pull request (51k states). The proofs cover all other
sizes of what they state.

In `agent_tree` a chain of three is the least with a subtree below a node that is
itself below the root, so deletions, rollbacks and samples may overlap. The
safety properties were also checked with the child not yet there and two faults
or crashes (2.9M states), and the inductive invariants of the proofs with the child not
yet there (880k states) and with two faults or crashes (1.4M).

In `project_life` one user's call overlaps the clone, the push, the review and the
start; three calls are an update, a deletion that fails and a second one; two faults
are an interrupted clone and a failure after it. With two users, at which an update
overlaps a deletion, the safety properties were checked (`project_users`), and all
four with one fault (1.03M states). The proofs have any number of each.

### Scope of the properties

- `SecondJobIsRevived` has one exception, the submission of a turn whose job had ended:
  there the code breaks the rule of one non-terminal job per pull request
  (`project-review-loop.md:27`), which `revived_job` shows.
- `OneReviewer` is checked without submissions. After one brought an ended job back,
  its pull request has two jobs that may have a Reviewer; the theorem is about every
  event, up to that step.
- `ClaimWaitsForLeases` counts leases, not who is at work. A worker that is slow goes on
  after its lease has lapsed and was taken over (`job_heartbeat.rs:86`), so two workers
  may well be at work on one project, and on one job. `SlowWorkerIsHarmless` says what
  comes of it: nothing in the row of the job, but for the receipt of a Review found on
  GitHub and the end of the run of a job that has ended. It is about the worker; a turn
  that goes on is `silent_turn`.
- `NoSecondAttempt` is checked and proved with one worker: a second instance whose stale
  warning save arrives with an earlier intent may write the row without it.
- That the pointer to an open run is never dropped holds only as long as no archive is
  refused: `abandoned_run` shows the refusal, so no run lists the property.
- `ArchivedBeforeReceipt` is about one instance, as its run and its theorem are. With two
  it fails: the second one archives the run of a worker that is only slow, whose save of
  the run's status then opens the run again (section 6).
- `AskedIsKept` is without discovery (it may admit what it read before the
  webhook), repeated webhooks, checks that run again, pull requests that reopen,
  failing writes and crashes; `EveryWishAnswered` has all of these and no webhook.
- `OneFullPost` is without turns that go on when their attempt was cancelled:
  `two_turns` shows two full POSTs otherwise.
- `AckedWasHandled`, `NothingOutOfReach` and `EveryDeliveryAnswered` name their
  exceptions: a client without a handler answers `Ignored` (`unheard`); a replay that
  met its limit or could not read the table leaves rows behind (`missed`); a handler that
  failed and an acknowledgement the store refused leave a row unacknowledged
  (`failed`). Such a row waits on a socket nothing ends until another one connects.
- `NoOrphan` is without messages to a child before its commit (`orphan_rollback`)
  and without failures after the row was deleted (`orphan_child`); it excepts
  agents that are `stranded`. `NothingLeft` is not about volumes (`orphan_volume`).
- `CallsSettle` is about one user, and without a turn that outlasts the failure of
  an application (`outlasting_turn`).
- `CloneSettles` is about the time after the last fault, and about the first result
  that is shown: a result that could not be saved leaves the project in creation until
  the next start resumes it, and a summary saved or published late may show creation
  again (`regressed_row`, `late_publish`).
- `DeletionFinishes` needs somebody who asks again; it says nothing of a volume made
  after the deletion looked (`late_volume`).
- `AppliedOrFailed` is about an agent with a binding; one that never had an
  environment gets it from its next assembly. `EnvironmentKept` speaks before
  the first binding only of the container the agent came with.

### Fairness

`FairSpec` assumes weak fairness of the worker's own steps, its heartbeat, the
stop procedure, the end of a Reviewer turn, the lapse of a lease nobody renews
and the coming of a due time. The runtime is a multithreaded tokio executor, so
a task that can proceed does; `Start` is justified by the supervisor, the next
signal, project updates and the periodic discovery
(`runtime_product_api.rs:925`, `worker.rs:246`, `runtime_workspace.rs:109`),
leases and due times by the clock. The end of a turn is an assumption: the model
provider is external and a turn has no overall time limit. No choice inside a
step is fair, so every attempt may fail for ever. Liveness is claimed when
crashes eventually cease (`Calm`) and for one instance: two instances may take
lapsing leases from each other without end. `EventuallyArchived` is for runs of
terminal jobs.

`FairSpec` of `EnvironmentLease` assumes strong fairness of a waiting change,
because tokio's mutex hands the lock over in the order of arrival; weak fairness
of what follows the drain; that a registered task starts or fails to start its
process; that a task whose lease is revoked tells its process to stop; and that
a process told to stop ends, as it is killed after a grace period. A process whose
lease is valid may run for ever, and nobody has to request or give up anything.

`FairSpec` of `ReviewSubmission`: a call ends, because a sidecar has a timeout; a turn
ends, as above (strong, as the worker may be between two); the worker goes on; five
minutes pass. GitHub need not answer anything. `FairSpec` of `ReviewSignals`: each task
that can proceed does, a watch that is due gets its turn among the others (strong:
the scheduler takes the one that waited longest), and clocks go on. `FairSpec` of
`RelayDelivery`: tasks proceed, an end that is gone is noticed (pings), the client
reconnects. Nothing obliges GitHub to repeat a delivery or a socket to break.
`FairSpec` of `ReferenceApplication`: claimed operations and assemblies go on (strong:
some of their steps need the lock of the project, which tokio's mutex hands out in the
order of arrival, so requests cannot keep it from them), a request that has begun goes on,
the worker of every second launches operations, turns end, the server comes back
after a crash. Saving, requesting and the cancellation of a turn are free.
`FairSpec` of `AgentTree`: some creation or deletion that can go on does (weaker than
fairness of each), turns end, and so does an application once the turn it waits for has
ended. Nobody has to ask for anything.
`FairSpec` of `ProjectLife`: the clone, a call and the save of a review go on, a push ends, a
server that ended is started, and a user whose deletion failed asks for it again, as
the comment at `service.rs:402` has it.

## 4. What is proved

TLAPS proves, for every value of the constants (any number of workers, jobs,
runs, heads, deliveries, sockets, attempts, POSTs, configurations and operations, and any
`Events` but where the table says otherwise), from the
named assumptions on the constants only (bounds are naturals, `None` and `Gone`
are no member of what they are no member of, users are no agents, and the parents make
no cycle, which the code ensures by creating an agent only under one that exists):

| Theorem | States |
|---|---|
| `LoopTypes`, `ReceiptFinal`, `RunsCounted` | `Spec => []LoopTypeOK`, `Spec => ReceiptIsFinal`, `Spec => []RunsBelong` of `ReviewLoop` |
| `SecondJobComesBack`, `ClaimsWait` | `Spec => SecondJobIsRevived`, `Spec => ClaimWaitsForLeases` |
| `OneReviewerHolds` | `Spec /\ NoRevival => []OneReviewer`, where `NoRevival` says that no submission brings an ended job back |
| `ArchivedFirst`, `NoAttemptTwice` | if all workers are one: `Spec => []ArchivedBeforeReceipt`, `Spec => NoSecondAttempt` |
| `ReviewedOnce` | `Spec => []NoSecondReview` of `ReviewSignals` |
| `SubmissionTypes`, `ReceiptsAreReal`, `RecoveryFollowsRefusal` | `Spec => []TypeOK`, `[]ReceiptIsReal`, `[]RecoveryAfterRefusal` of `ReviewSubmission` |
| `SubmittedOnce` | if `"silent" \notin Events`: `Spec => []OneFullPost` |
| `RelayTypesHold`, `AcknowledgedIsHandled`, `SequencesAreDistinct`, `WorkingSocketHasAll` | `Spec => []RelayTypeOK`, `[]AckedWasHandled`, `[]SequencesDistinct`, `[]NothingOutOfReach` of `RelayDelivery` |
| `LeaseNoStragglers`, `LeaseOneGeneration`, `LeaseFailClosed` | `Spec => []NoStragglers`, `[]OneGeneration`, `FailClosed` of `EnvironmentLease` |
| `LifeTypes`, `ReadyWhole`, `DeletionStays` | `Spec => []LifeTypeOK`, `[]ReadyIsWhole`, `DeletionFinal` of `ProjectLife` |
| `LeaseImplementsContract` | `Spec => Contract!Spec` |
| `TreeTypes`, `NothingIsLeft` | `Spec => []TreeTypeOK`, `[]NothingLeft` of `AgentTree` |
| `NoOrphans` | if `"early" \notin Events` and `"reclaim" \notin Events`: `Spec => []NoOrphan` |
| `ReferenceTypes`, `GateHeld`, `EnvironmentIsKept`, `TurnsSee` | `Spec => []TypeOK`, `GateIsHeld`, `[]EnvironmentKept`, `TurnsSeeTheConfiguration` of `ReferenceApplication` |

The argument for `ReceiptFinal`. A receipt could be lost if some save wrote a
row read before the receipt was recorded. The upsert refuses terminal rows, so
it is enough that a job with a receipt is succeeded (or pruned) in every
reachable state, and that the few writes that do not go through the upsert look
at the receipt or at a terminal status. `LoopInv` states this together with what
makes it inductive: `TablesOK` (types, and `ReceiptRows`: a row with a receipt is
succeeded), `WorkersOK` (the rows in the memory of workers are typed, name a
stored job where the step needs one, and never carry a receipt with another
status), `AgentsOK` (a turn that submits has a job). `ReviewLoopProofs` first shows of
each transaction of `ReviewJobs`, under the row conditions its callers meet, that it
keeps the types and that it keeps receipts, and then goes through the actions in the
groups of `Next`.

The argument for the other properties of the loop. `Next` has some forty actions, most
of them about one job; to read all of them again for each property would hide the
argument. `LoopMove` reads them once: it says of every step what it may do to one row,
one run, one worker and one turn (`Queued`, `Claims`, `Begins`, `Saves`, `Frees`,
`Intends`, `Drops` and so on), and every later invariant is shown by these moves.

- `RunsBelong` speaks of rows, but a row is also written over by copies: no copy in the
  memory of a worker counts more attempts than there are runs (`CopiesCounted`).
- A job that waits to be claimed has no lease (`RowsWait`, `CopiesWait`), and a row in the
  memory of a worker agrees with the stored one in what does not change while the worker
  may still write it (`CopiesMatch`). So a save never brings an ended job back, and only
  the record of an intent can (`Intends`): a step that is none of these leaves a
  pull request with its one active job, which is `SecondJobIsRevived`.
- `OneReviewer` joins three things that need each other (`Exclusive`): what a claim found
  when it looked for executing jobs is still so when it takes the lease (`Swept`), two
  jobs with a lease that execute are one (`OneExecutor`), and an executing job is the only
  active one with a reviewer, as who waits for a retry with its reviewer keeps every
  other job out (`Alone`, `OneKeeper`). A job that is brought back breaks the last two,
  hence `NoRevival`.
- `ClaimWaitsForLeases` compares a claim with a list made before it: `Lapsed` says that a
  lease on a list is over, since a renewed one (a heartbeat may renew that of a succeeded
  job too) ends later than any clock reading a list stands for, and is off every list;
  and that a row in memory that gives up its owner gives up the lease. No move speaks of
  this, so `LeasesMove` reads every action once more. It holds with every event.
- `ArchivedBeforeReceipt` is about the run of the latest attempt: `LatestRuns` says that
  runs are used in order, that rows and copies name the latest, and that it is open while
  the attempt goes on.
- `NoSecondAttempt` looks like a property of claims and recovery, which read the intent;
  the danger is the save of the first attempt's warning, which writes the row in memory,
  with the status "preparing" and without an intent, over the stored one. It is harmless
  when no turn can record an intent meanwhile, and a turn may well be left from before
  the claim. `Lineage` traces every reviewer in a row, a copy, a run or a turn to the run
  that created it, hence to one job; `FirstAttempts` says that the singleton repair before
  the claim ended every turn but that of the reviewer it kept (`KeptTurn`), that this one
  is the reviewer of a job that no producer can write anew (`KeptOwned`), so that a turn
  of the claimed job is left only if its row has a reviewer (`YoungTurn`), and then
  the attempt saves no warning (`Warned`). The clauses are those TLC checked
  over the whole state space of `retry_recovery` before they were proved.

The argument for the signals. `NoSecondReview` says nothing of a job, so its invariant
`ReviewInv` has to find the way from the job to GitHub: the Reviews of a pull request
are of ever later heads (`Ordered`), the worker holds the row it claimed (`Claimed`), and
a job that goes on to its Review is of a head no Review is of (`Afresh`). The last
holds since the worker evaluates the pull request after it claimed the job, and only its
own `Submits` adds a Review; what the other producers read does not matter, so the
theorem is about every choice of `Events`.

The argument for the lease. `NoStragglers` is not inductive by itself: a task may
be registered through any lease that is not revoked, so one must know that only
the registered one is valid (`OnlyOneValid`), and the registered one may go away
only at the end of a drain, which counted the tasks after the fence was set
(`DrainsRevoked`: whoever drains, drains the registered lease, revoked, and is
alone). `LeaseInv` joins these with the types and `TasksOK` (a task has a lease
just when it is live). `LeaseStep` proves of each action at once that it keeps
`LeaseInv`, that it keeps a recorded failure and that it is a step of the contract
or leaves what the contract sees unchanged; the four theorems follow from it.

The argument for the submission. `SubmissionInv` adds to the types what a call
knows at each step (`CallOK`): from the record on its text is the intent's, a call
that posts with an earlier intent recorded does so as a fallback, and a fallback
means that GitHub has refused a POST (`RefusalOK` says the same of the stored
failure, which a call read earlier). Refusals are never taken back, so the stale
reading does no harm. `OneFullPost` needs more (`OnceInv`): only one turn is
calling at a time, and a turn that has yet to post in full holds the only right to
do so, because the intent it recorded was the first. That only one turn calls is true
because a turn ends with its attempt; with `"silent"` it is not, and neither is the
theorem.

The argument for the relay. `AckedWasHandled` follows when every positive
acknowledgement under way is of a delivery that was handled or unheard
(`AcksInv`). `SequencesDistinct` needs that the numbers requests hold are below the
counter and in no row (`SequencesInv`). `NothingOutOfReach` is inductive with the
order of the two steps of a new socket: it is registered before the replay reads the
table (`OpenedFirst`), so a delivery is stored before the reading, and replayed or left
behind by the replay, or its request has yet to push it. What is left behind
is counted (`missed`) at the replay, with the limit it meets or without a reading at all,
and a refused acknowledgement moves a delivery from the wire to `failed`; so the theorem
holds with both failures.

The argument for a project. `ReadyIsWhole` fails as soon as an older copy that says
ready is saved while something is missing, so `WholeOK` speaks of every copy there is
(`SomebodyReady`): as long as the project is not being deleted, nobody says ready while
the clone is being made, and whoever does finds everything there; what the clone has made
stays as it goes on. That calls and reviews have no copies when a clone begins follows
from `BornOK`: before the project is listed, and while the server is down or starting,
there are none. Whoever deletes has marked the row first (`CallsOK`), after which
`WholeOK` promises nothing. `Writes` states once what a save of an old copy may do to the
row; `DeletionFinal` follows from it.

The argument for the references. Four invariants, each resting on those before it.
`Shape` says what the holder of the lifecycle lock has at its step. `GateInv`: only
the latest operation is unfinished, a claim is of that one, the operation that holds the
lock has closed the gate, the gate stays closed after a failure (`FailedHeld`), one that
has published opens it only to what it applied, or beside a configuration whose
request is still to close it (`Applied`, `Window`), and an agent that a request did not
list gets no binding before the request ends (`Unlisted`). `EnvInv`: the lease is of the
container of the binding or of the candidate just before its publication (`Leased`); a
candidate has a snapshot (`Snapshots`), and from the snapshot on no turn goes on and
nothing changes, through failures and restarts too (`Frozen`), so that the candidate
has everything when it is published. `TurnInv`: a candidate mounts what its
operation is to apply and the container of the binding what its revision says; while the
gate is open the leased container has the latest revision, but in that window
(`Current`), runs, and the tools of the thread are made for it (`Resident`). `TurnsSee`
and `GateHeld` need all four: only `TurnBegins` lets a turn in, and not while a request
holds the lock of the project; with the gate open no operation holds the lock between
lease and publication, and an operation recorded ahead of its gate
aims at a revision the binding already has (`TurnHeld`).

The argument for the tree. The line of an agent is the least set with the agent that
has the parents of its members (`Line`), so nothing about it needs a recursion:
`LineThrough` finds on the line to an ancestor a child of that ancestor, and
`LineEnds` says that no agent is on the line of its parent, the one place where
the absence of cycles counts. Three invariants rest on each other.

- `Shape` joins the types with what the record of a deletion holds at each step
  (`Sound`): a node is marked before it is handled, a rollback deletes itself, and one
  that is not canonical yet has no thread to close.
- `LeftInv`: the lifecycle lock has one holder, be it a deletion, an application or
  the creation between container and publication (`Alone`), who is listed (`Busy`);
  the holder of a deletion has stripped its node of thread, lease and containers at the
  step that says so (`Stripped`). Whoever gives an agent one of these holds the lock
  or finds it free (`Gives`), and an agent that is still being created has no thread
  anybody could have loaded, since its registration is pending (`Fresh`): that is why a
  rollback need not close one.
- `OrphanInv`: a row and a record differ only at a step that says why (`Rowed`); until
  it is registered an agent has no turn, hence no child (`Barren`), and its rollback
  handles nobody else (`OwnOnly`). A deletion handles a node when no child of
  its sample is left, and a child that is not of the sample is not settled, because it
  was not listed at the sample or finds its parent marked at the check before the commit
  (`Taken`). So when a row goes, every child with a row is rolled back, undecided or
  left halfway (`Covered`, which is `NoOrphan`). With `"early"` `Barren` fails at the
  first turn of a pending agent, with `"reclaim"` `Rowed` fails when the marks are
  dropped beside a record without a row: the two behaviours of section 6.

`NoOrphan` was first stated with an exception for an agent that some deletion still has
in its sample; the invariant showed that none is needed, and the property
is now the stronger one.

Only model-checked: all liveness, which is out of the prover's reach (`CallsSettle`,
`EveryWishAnswered`, `ClosedIsForgotten` and the others of that kind). Every invariant and
every safety property of a step that some run checks is stated by a theorem, as the
table says, but for `AskedIsKept` and `SlowWorkerIsHarmless`: what they say of everything
somebody read earlier is checked in the instances of their runs. `discovery` has the
events `signals` leaves out (scans, errors, crashes, reruns, pull requests that
reopen), without webhooks: there the wish is found again (`EveryWishAnswered`).

## 5. Plan

| # | Module | Main property | State |
|---|---|---|---|
| 1 | `ReviewJobs`, `ReviewLoop` | safety and liveness of the loop, eight theorems | done |
| 2 | `EnvironmentLease`, `LeaseContract` | generations of an agent's container, a refinement, four theorems | done |
| 3 | `ReviewSubmission` | GitHub as state: one full POST; four theorems | done |
| 4 | `RelayDelivery` | answered, never acknowledged unhandled; four theorems | done |
| 5 | `ReviewSignals` | wishes are kept, granted, and granted once; one theorem | done |
| 6 | `ReferenceApplication` | a binding that survives every crash, a gate that holds; four theorems | done |
| 7 | `AgentTree` | no orphans, nothing left, no circular wait; three theorems | done |
| 8 | `ProjectLife` | a deletion is final, ready means whole; three theorems | done |
| 9 | proofs about `ReviewLoop` and `ReferenceApplication` | `RunsBelong`, `OneReviewer` and four more; `EnvironmentKept`, `GateIsHeld`, `TurnsSeeTheConfiguration` | done |
| 10 | threads of agents: input queue, turns, cancellation, canonical history | a turn that ended is in the history once | open |
| 11 | cleanup tasks versus jobs that become active again; the reviewer's life cycle | | open |

## 6. Findings

Places where the code does something else than a document or comment of the
repository says; each is the shortest behaviour TLC finds.

- `unpublished_row`: the summary names a candidate before the binding
  does (`runtime_reference_host.rs:41`), and keeps it when the candidate was
  superseded and removed. A refused assembly then stores it as the agent's
  container, every later operation takes it as the old container and fails, and
  no assembly is possible after a restart.
  `docs/shared-references/01-实施设计.md:388` publishes memory after the transaction.
- `revived_job`: an intent recorded after a push superseded the job makes the
  superseded job active again beside its replacement (`review_jobs.rs:1012`);
  `docs/project-review-loop.md:27` promises one non-terminal job per pull request.
- `abandoned_run`: after a refused archive a reconciling job clears
  `active_run_id` (`job_worker.rs:147`); the document, line 121, says it is kept.
- `silent_turn`: an attempt cancelled for a lost lease leaves its turn running,
  which may still submit (`runtime_agent_api.rs:461`); the document, line 182,
  says that side effects stop. `two_turns` shows what follows: two full POSTs.
- `lost_submission`: an attempt that ends with an error decides its job by the
  error (`job_worker.rs:187`); a job whose POST got no answer fails and is never
  reconciled.
- `repeated_recovery`: the failure that allows the body-only recovery stays
  stored, so a recovery whose answer was lost is sent again.
- `failed_delivery`: a delivery whose handler failed is sent again only when a
  socket connects. The same becomes of what a replay leaves behind when the store
  refuses the reading (`crates/mai-relay/src/session.rs:50`) and of a row whose
  acknowledgement the store refuses (`session.rs:88`): both are logged, and the socket
  stays in use.
- `superseded_candidate`: a candidate created just before a crash, of an
  operation that is then superseded, is not in its receipt and keeps running
  (`application.rs:434`).
- `orphan_rollback`: the rollback of a child stops at a grandchild that another
  rollback deleted first, and takes the `AgentNotFound` of the grandchild for its own
  (`runtime_agent_creation.rs:145`). The child, whose parent is deleted, stays with
  its container and thread; `agents/delete.rs:46` says that such a child rolls
  itself back and leaves no orphan. It takes a message to the child before its commit.
- `orphan_child`: `delete_agent_from_store` fails after the row is gone
  (`runtime_agent_traits.rs:38`), the marks are dropped with the parent still in
  memory, and a child commits under it; after a restart nobody finds it.
- `orphan_volume`: a workspace volume is synced outside the lock
  (`runtime_provisioning.rs:204`), after a deletion took the agent; the rollback
  finds no agent and leaves the volume until the next start sweeps it.
- `outlasting_turn`: after a failed application a turn may go on without a lease; the
  next application waits for this turn with the lock, and its spawn for the lock
  (`runtime_agent_collaboration.rs:296`, against the comment at line 269), until
  somebody cancels the turn.
- `late_publish`: `set_project_clone_result` looks at the summary, saves its
  copy and then replaces the summary (`runtime_project_traits.rs`); a deletion in
  between is overwritten in memory, so the project is shown in creation or ready while
  it is being deleted.
- `cancelled_clone`: a cancellation stores the project as failed and does not stop
  the clone, whose result makes it ready again.
- `late_volume`: a clone or a push that had looked the project up makes its cache
  volume after the deletion removed it; it stays behind the deleted record until the
  next start.
- `regressed_row`: an update copies the summary, the clone publishes that the project is
  ready, and the copy is saved: the row is in creation again while the summary is ready.
  A start resumes the clone and makes it ready once more.
- Seen while modelling, without a configuration: with two instances, the second one
  takes the job of a worker that is only slow, archives its run and records the receipt;
  the slow one then saves the run with the status it had (`job_attempt.rs:256`;
  `save_project_review_run` deletes the row and writes it anew), and the run of a
  job that is done is open again; a failed operation is enqueued again
  whenever a worker ends, as soon as an older operation is terminal
  (`runtime_references.rs:363`), where the document (line 350) leaves the retry to the
  administrator; a creation dropped while its row is inserted leaves a row nobody owns
  (`agents/create.rs:109`); a run is stored although the upsert that counts the attempt
  matched no row (`review_jobs/attempts.rs:215`).

## 7. Not modelled

Pure I/O and its parsing (Docker, git, GitHub HTTP, HTML and SSE), the UI,
configuration, and the external `pl_core` runtime that executes turns. Where the
models depend on them their outcomes are choices. The sources, catalog and trees of
references are file content; tasks and tools are thin layers around git
and that external runtime. Components with status `not_modelled` in
`PROJECT.json` say why.
