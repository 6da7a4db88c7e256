# TLA+ verification of kanban-tool

kanban-tool is a local task board: one Rust host process owns a SQLite store and serves it
over HTTP; people, agents, a command line, an MCP server, a web page and a desktop shell
are its clients, and a built-in dispatcher hands ready tasks to worker processes. This
directory models the parts where these meet: who holds a task and what every operation may
do to it; the queue that keeps a vector index up with the tasks; maintenance and the import
of snapshots under a lease; the event stream by which the browser follows a board; and the
desktop shell that starts and stops the host. TLC checks the models on small instances, and
TLAPS proves the central invariants for every size.

- [The system](#the-system)
- [The modules](#the-modules)
- [How the models correspond to the code](#how-the-models-correspond-to-the-code)
- [The runs](#the-runs)
- [Fairness](#fairness)
- [The proofs](#the-proofs)
- [Where code and documents disagree](#where-code-and-documents-disagree)
- [What is not modelled](#what-is-not-modelled)
- [Plan](#plan)

## The system

| Part | Code | State | Operations | Modelled |
|---|---|---|---|---|
| State rules | `kanban-core/src/state_machine.rs` | none | initial status, recomputation, promotion and claim guards, retry decision | yes, `ReadinessRules` |
| Task lifecycle, claims, runs | `kanban-service/src/operations/task`, `store_operations/{tasks,lifecycle}` | tables `tasks`, `task_runs` | create, update, specify, promote, claim, heartbeat, release, review, done, block, unblock, reopen, reclaim, sweep, archive | yes, but for the columns named below, `TaskLifecycle` |
| Dependencies | `store_operations/dependencies` | table `task_dependencies` | add, remove | yes, `TaskLifecycle`, `DependencyWalk` |
| Execution plans | `store_operations/steps`, `lifecycle/plan_not_required.rs` | tables `task_execution_plans`, `task_steps` | create, update, remove, complete, skip, reopen a step; plan not required | yes, but for texts and links, `TaskLifecycle` |
| Boards | `store_operations/boards` | `boards.archived_at` | archive | one board, `TaskLifecycle` |
| Dispatcher | `kanban-server/src/dispatcher.rs` | the loop, one worker process, the shutdown signal | poll, sweep, claim, spawn, heartbeat, finish, shut down | yes, `Dispatcher` |
| Vector projection queue | `kanban-service/src/vector.rs`, `operations/vector.rs`, triggers in `schema.rs` | `projection_jobs`, `projection_state`, vectors | enqueue, rebuild, configure, tick (claim, embed, complete, fail, publish), cleanup | partly, `VectorQueue` |
| Maintenance lease and import | `kanban-service/src/maintenance.rs` | `projection_maintenance_owner`, `import_journal` | acquire, renew, release, drop; import, replace, prepare by phases; verification | partly, `MaintenanceLease`, `PortableImport` |
| Event log and SSE | `http/operations/events/stream.rs`, `operation.event` | append-only `task_events`, a cursor for each stream | append, poll, heartbeat | partly, `EventStream` |
| Web sync | `apps/web/src/lib/sync` | epoch, generation, confirmed cursor, recovery stage, anomaly budget | connect, receive, recover, poll, stop | partly, `WebSync` |
| Desktop host | `apps/desktop/src-tauri` | attempts and their fence, sidecar process groups, reaper | start, cancel, quit, reap | partly, `DesktopHost`, `SidecarReaper` |
| Reads and descriptions | search, graph, labels, signals, ontology, comments, attachments, statistics | rows of their own | single-row writes | no |
| Adapters | HTTP routes, client, CLI, MCP | none | translate requests into service commands | as the callers of the actions |

### How the parts interact

All mutations of one host go through the service's `mutation_gate`, an async mutex, and one
immediate SQLite transaction. What is concurrent is therefore not the operations but their
*order*: any client may call any of them at any time, a worker may use its token late, the
sweep may take back a lease just before or after its holder acts, and one operation may
rewrite rows of another task (reopening a parent, adding a dependency). The dispatcher is a
client inside the host: between any two of its awaits everybody else may act, the host may
be stopped or die, and the worker it started lives on in a process group of its own.

The vector queue is fed by triggers of the task tables, so every task operation may enqueue,
and is worked off by the dispatcher's rounds and by callers who ask for it. Maintenance
takes the same gate, and a lease in the database besides, since it must also keep out other
processes. The browser learns of all of this through the event log only; it reads the log by
SSE and by polling and then reloads the board. The desktop shell owns the host as a child
process, or attaches to one that is already there.

### What is hard, and what has to hold

*Claims and runs.* A claim is stored twice: as owner, token, expiry and `current_run_id` in
the task's row and as owner, token, expiry and status in the run's row. A dozen operations
touch both. They have to agree at all times (`ClaimMatchesRun`), or no operation can end the
lease any more, since each of them refuses when the rows differ; that there is always one that
does not refuse is `NoRunIsStuck`. `current_run_id` outlives the run in `review`, `done` and
`blocked`; it must be gone when the task waits again, name one of the task's own runs that
ended the way the task says (`RunMatchesStatus`, of which `WaitingHasNoRun` is the part about
waiting tasks), and never be a way to rewrite a finished run (`FinishedRunsStayFinished`). Seen from outside, all this is a lease: one run at a time,
each run once, its outcome recorded in the step that ends it (`RunLease`,
`ImplementsLease`). Retries are bounded only if every expiry is counted
(`ExpiredRunsAreRetries`).

*Readiness.* `ready` is a stored status computed from facts of other rows (description,
schedule, parents, plan) which may change under it. Whoever invalidates it must take the
task out of it (`ReadyIsNotStranded`); work in progress must not come to depend on
unfinished work except by reopening (`OnlyReopenOvertakesRunning`); nothing may wait for
itself (`AcyclicDependencies`), and the search that makes sure of it, a walk of one query per
task that may fail half way, must add up to one step (`WalksImplementService`). That a task is planned is stored and derived
(`PlanRowMatchesSteps`). No operation touches a task of an archived board, so a board must
be idle when it is archived and stay so (`ArchivedBoardIsIdle`, a part of `NoRunIsStuck`).

*The dispatcher.* It must not go on from a run that is still open (`OpenRunIsTended`). Its
lease may run out while it waits, and others, among them the dispatcher of another host with
the same name, may have the task by the time it goes on: it must end no run but its own and those
its sweep found expired (`OnlyOwnRunIsEnded`). It must not stumble over a claim it
listed for its sweep (`SweepMeetsNoRefusal`), hold a claim exactly while it works on one
(`DispatcherTypeOK`), end when told to (`GracefulShutdownEnds`), and together with the sweep of a later round it must see to it that a lease ends whatever
happened to its holder (`EveryLeaseEnds`).

*The vector queue.* The index is derived: it is right if and only if every change of a task
is queued, and no job is marked done for work on an older version. A projection that is
called ready must be current (`ReadyIsCurrent`); what was enqueued must stay outstanding or
embedded (`NothingIsForgotten`), although the provider is called between two transactions
and the task may change meanwhile. No two hosts may believe they hold one claim, and an answer that comes too late must change
nothing: the row moves as an abstract queue with fences allows (`AnswersAreFenced`,
`FencedQueue`). A job whose
worker died is taken up again (`RunningIsRecovered`) and a queue that falls quiet is
published (`QuietIsPublished`).

*Maintenance and import.* A lease that is renewed without looking at its expiry, released
by a spawned task and taken over by others must still have one holder at a time
(`AtMostOneHolds`), who cannot be ousted while it lasts, nor release another's
(`LeaseIsRespected`), and must not stay behind (`MaintenanceGoesOn`). An import may stop
between any two of its transactions. What it reports must be so (`ReportIsTrue`), it must
not destroy data of which there is no backup (`ReplacedIsBackedUp`), and whatever phase it
stopped in, asking again must finish it (`RetryFinishes`).

*The event stream and the browser.* An event may be lost with its connection, come twice (by
SSE, by polling and by the catch-up of a recovery), come before older ones, or come from a
connection that has been given up. What the browser confirms it will never ask for again, so
it must have applied it (`ConfirmedIsApplied`) and never begin it again. Seen from outside it
follows an append-only log: event after event, each applied before it is confirmed, and the
screen never goes back (`ImplementsFeed`, `EventFeed`). One path leads out of this: a replay
that runs out of time leaves the recovery's stage behind, and from then on the client is
adrift, takes what comes and confirms nothing until a fault makes it begin over
(`ReplayTimesOut`). When the
circuit is open or the client stopped, nothing old may have an effect (`QuietWhenOff`). The
client has four timers and an overlap of two connections: some path must always be left
(`SomethingIsPending`), and the screen must catch up unless the client is adrift (`CatchesUp`).

*The desktop host.* A sidecar is a process group that outlives its leader, started by a
thread that may be cancelled at any point, killed without waiting, and handed from owner to
owner: thread, handle, queue, reaper. Exactly one has it (`OneKeeper`), it is handed on in one
direction and let go only when it is gone (`ImplementsCustody`, `SidecarCustody`), the desktop
process does not end while one is left (`NoOrphan`), and still ends when asked (`QuitEnds`).

## The modules

| Module | What it is |
|---|---|
| `ReadinessRules` | The pure rules, without variables. |
| `RunLease` | The abstract specification: what a claim promises, without tokens, clocks or statuses. |
| `TaskLifecycle` | The service: five tables and a clock, one action for each operation, the safety and action properties, and the refinement mapping to `RunLease`. |
| `TaskLifecycle_proofs` | The theorems about claims, runs and boards, and the refinement. |
| `DependencyWalk` | `add_dependency` query by query: it begins, walks the graph, and writes or rolls back, composed with all the other operations. It implements `TaskLifecycle`. |
| `TaskGraph_proofs` | The theorems about dependencies, the walk and plans. |
| `TaskReadiness_proofs` | The theorems about readiness and retries. |
| `MCTaskLifecycle`, `MCDependencyWalk` | Their instances for TLC (symmetry; the walk's graphs have at most one task that is not plain). |
| `Dispatcher` | The loop, from await to await, composed with all actions of `TaskLifecycle` by the other callers. |
| `Dispatcher_proofs` | The theorems about the loop. |
| `MCDispatcher` | Its instances for TLC. |
| `FencedQueue` | The abstract queue: a job is claimed under a new fence, and only that claim may end it. |
| `VectorQueue` | The projection queue: triggers, enqueue loops, ticks of several hosts, provider calls, publication, crashes; the refinement mapping to `FencedQueue`. |
| `VectorQueue_proofs` | The theorems about it, and the refinement. |
| `MaintenanceLease` | The lease row, the heartbeat, release and the release spawned on drop. |
| `PortableImport` | The operations under the lease, and import, replace and prepare step by step. |
| `PortableImport_proofs` | The theorems about both. |
| `EventStream` | The log of a board and one SSE connection, on the server. |
| `EventFeed` | The abstract client of a log: applies event after event, confirms what is applied; while it is adrift it may skip, and confirms nothing. |
| `WebSync` | The browser's controller and sink, composed with the stream; the refinement mapping to `EventFeed`. |
| `WebSync_proofs` | The theorems about both, and the refinement. |
| `SidecarCustody` | The abstract shell: who has a sidecar, from its start until it is gone. |
| `SidecarReaper` | Process groups, the queue, the reaper threads and the retry pump. |
| `DesktopHost` | Attempts, bootstrap threads, window and exit, composed with the reaper; the refinement mapping to `SidecarCustody`. |
| `DesktopHost_proofs` | The theorems about both, and the refinement. |
| `MCVectorQueue`, `MCPortableImport`, `MCWebSync`, `MCDesktopHost` | Their instances for TLC. |

`Dispatcher` EXTENDS `TaskLifecycle`: the loop's own calls are the very actions of the
service, guards included, and its environment is the disjunction of all of them; and
`DependencyWalk` does with one of these actions what the code does in a row of queries. In
the same way `PortableImport` EXTENDS `MaintenanceLease`, `WebSync` EXTENDS `EventStream` and
`DesktopHost` EXTENDS `SidecarReaper`: the larger module's next-state relation is made of
the smaller one's actions, with what they leave alone.

Some definitions have a neighbour named `<definition>_<what is wrong>`, introduced by
"Mutant:". It is the definition with a bug somebody could plausibly have written. No
specification uses it; put in place of the original it makes TLC report the property it is
meant for, which shows that the property depends on that line of the code.

## How the models correspond to the code

### TaskLifecycle

| Variable | Code |
|---|---|
| `now` | the millisecond clock (`kanban-core/src/clock.rs`); it only moves forward |
| `boardArchived` | `boards.archived_at IS NOT NULL` |
| `task[t]` | the row of `tasks`: `status`; `spec`, whether the description is filled in; `scheduledAt`; `claim`, the columns `claim_token`, `claim_owner`, `claim_expires_at`; `run`, `current_run_id`; `retries`; `maxRetries` |
| `plan[t]` | the row of `task_execution_plans` and the rows of `task_steps`: their ids, which are `required` and which are completed or skipped |
| `deps` | the rows of `task_dependencies`, as pairs of parent and child |
| `runs[r]` | the row of `task_runs`: status, task and claim |

One action is one operation, from its guard (the early returns of `operations/*` and of the
transaction in `store_operations/*`) to all the rows it writes. A call that is rejected
changes nothing and is a step that does not happen. Operations that branch on the status are
two actions (`CompleteRunning`, `CompleteReviewed`; `BlockRunning`, `BlockIdle`;
`ArchiveRunning`, `ArchiveIdle`). PROJECT.json maps each definition to its lines.

The abstractions, and why they are sound for the properties:

- *Atomic operations.* The gate is held from the first read to the commit, and the
  transaction re-reads what it depends on. The exception is kept: `create_task` reads the
  clock before it takes the gate, so `CreateTask` judges the schedule by an earlier
  instant `readAt`.
- *`lock_version`.* Every row carries a version that each update compares and increments.
  Within the gate the version read is the current one. A caller of update may pass the
  version it saw, which can only make the call fail; the model allows the call.
- *Tokens.* Claim token and run id are minted together, so the token is the run's id. A caller
  may present any token that exists or will exist: guessing one is no property of the code.
- *Descriptions.* Of the fields a person edits only those remain that rules look at. Titles,
  priorities, labels, metadata, idempotency keys and the rows of `task_events` are left out;
  step titles, positions and links to other tasks, too.
- *`PathExists`.* `TaskLifecycle` says what the walk of `dependency_path_exists` finds out
  (every closed set with the one task holds the other). `DependencyWalk` has the walk itself,
  one query a step, in any order of tasks, with a rollback at any point. The gate and the
  transaction are held throughout and the clock is read once, so no other operation and no
  tick comes between.
- *The sweep.* `reclaim_expired` lists the expired claims and reclaims each in a transaction
  of its own. `TaskLifecycle` has the action for one of them; `Dispatcher` has the list and
  the gate that is held over it.
- *Time and numbers.* Clock, TTLs and retries are naturals. The code checks the additions for
  overflow and rejects the call.

### Dispatcher

| Variable | Code |
|---|---|
| `pc` | which await the loop is at; `finished`, `failed` and `killed` are the ways it ends |
| `late` | the list of expired claims the sweep is working off |
| `picked` | the task `claim_next_ready` has read and not yet claimed |
| `held`, `mine` | the `ClaimRecord` at hand; all runs claimed since the start (a history variable for a property) |
| `worker` | the child process |
| `nextBeat` | the next tick of the heartbeat interval, 0 while there is none |
| `shutdown` | the watch channel of `router.rs` |
| `faults` | how many crashes, failing calls and signals there have been; bounded by `MaxFaults` |

- The first ready task depends on priorities anybody can edit, so `List` picks any.
- `Refused(call)` is a call whose guard does not hold (`~ENABLED call`); `StoreFails` a
  storage error, which leaves no effect since the transaction rolls back.
- `Claim` treats a refusal as an idle round, as the code does; every other error ends the
  loop with `failed`, and with it the host.
- `Drop` forgets what the loop held. After a crash the worker lives on; what it does with its
  token is among the `Callers`, who may use any token at any time. They are excluded while
  the sweep has the gate and while the host is dead. They are kept while the loop has
  ended and the host shuts down, which allows more than the code does.
- `TimePasses` is enabled wherever the loop is, so it may be kept waiting as long as one
  likes: while a process starts, and while a heartbeat waits for the gate, which the vector
  worker holds across network calls. A lease may therefore run out under a living worker, be
  swept and be taken by somebody else. A renewal comes at any time after its tick; the next
  tick counts from the time it fired (`MissedTickBehavior::Delay`).
- The vector tick at the top of a round takes time and touches nothing modelled here;
  `VectorQueue` has it.

### VectorQueue

| Variable | Code |
|---|---|
| `content[e]` | the version of a task or label atom, 0 before it exists |
| `job[j]` | the row of `projection_jobs` for an entity and an operation (`dedupe_key`): status, attempts, fence, `next_attempt_at` against the clock (`due`), lease against the clock (`expired`) |
| `state[p]` | the rows of `projection_state`: lifecycle and dirty flag |
| `model` | `vector.config` with its fingerprint |
| `vector[e][m]` | `retrieval_vectors`: which version is embedded under which provider |
| `host[h]` | where a host is in a tick or an enqueue loop, and its locals |
| `owed`, `crossed` | history: what has been queued since the provider was configured; what a write of another host met at work |

- A host serves one mutation at a time (the gate), so every host is "idle" or inside one
  call. `Hosts` are processes on one database. ADR 0001 promises one, but the fence and the
  comments beside it are written for others, and so is the model.
- `Edit` is any task operation with its triggers; `Enqueue` the loop of rebuild and sync.
  The provider is called between transactions, so that a job is claimed, read, embedded,
  stored and completed in five steps, and in between its row may be reclaimed, rebuilt or
  deleted and other hosts may write.
- `crossed` excuses what the code does not prevent: another *host's* write to a fact while a
  job for it is at work is merged into that job and lost with its completion. Within one
  host the gate excludes this, which `ReadyIsCurrent` and `NothingIsForgotten` show.
- `fence` stands for the row's id as well: a row that is deleted and enqueued anew gets a new
  one.
- `configure_vector` enqueues nothing, so facts older than the provider are not `owed` until
  they are edited or rebuilt; a host's `put` is what its enqueue loop has done since then.

### MaintenanceLease and PortableImport

| Variable | Code |
|---|---|
| `lease` | `projection_maintenance_owner`: held, its token, and whether its expiry has passed |
| `session[h]` | the `MaintenanceLease` of the operation a host runs, and its heartbeat task |
| `drops` | releases spawned by `Drop` that have not run |
| `facts`, `bare` | the canonical tables, as the snapshot they equal or the number of the write that made them; whether only boards and predicates are there |
| `journal[s]` | `import_journal`: phase and backup |
| `queued` | whether the rebuild was enqueued |
| `job[h]` | the operation and how far it is |
| `told`, `crossed` | history: who was told of success; who worked while another host wrote |

- A token stands for the token and the fence epoch. A new one is borne by nobody who may
  still present it, which is all that a fresh fence means.
- Taking the gate and the lease is one step; while the gate is held nobody else of the host
  gets between. Each transaction of an import is a step, and so is what it does to files.
- `DropRelease` runs whenever the runtime comes to it; the host may by then hold a newer lease.
- `crossed` excuses what the lease does not prevent: `import_with_lease` does not look at its
  lease again between phases, so that a host that stalled past the expiry goes on beside its
  successor. What it *reports* is still fenced, since the release comes before the report.
- A snapshot that was published and then edited is refused by each later import of it
  (`Overtaken`); `RetryFinishes` excludes this, since the code means it.

### EventStream and WebSync

| Variable | Code |
|---|---|
| `log` | `task_events` of one board, numbered by their order |
| `conn` | the SSE connection: the server's cursor and the frames on their way |
| `ctl` | `state`, `lastConfirmedCursor`, `anomalyAttempts` and the flags of the controller |
| `seen`, `applied`, `shown` | `seenIds`; which events the sink was given; the newest event the published model can know |
| `queue` | `ingestTail`; `old` marks a task whose token has been fenced |
| `effect`, `load`, `poll` | the sink's running `onEvent`, the newest reload of the board's query, the page being fed |
| `rec` | the recovery with its buffer and its stage; `step = "stranded"` is a stage without a recovery |
| `startTimer`, `retryTimer` | a scheduled start of the recovery |

- An action is what JavaScript runs between two awaits. `connectionEpoch` and `generation`
  are compared only for equality with the current ones, so a token is current or old.
- All reloads share one query: a reload aborts the one before it, whose await then fails.
  This is what lets the user's refresh end a recovery.
- One board; all events are relevant to it; `switchBoard` is called by nobody outside the tests. The
  trimming of `seenIds` and of the buffer and the byte budgets are left out: they act after
  thousands of events. Polling is a flag and not a timer. `MaxAttempts + 1` is reached
  when two anomalies are counted before the circuit opens.
- `ReplayTimesOut` is the effect timeout in a recovery. `invokeEffect` aborts the effect before it
  rejects it, so `performRecovery` catches `SinkEffectCancelled` and returns: no fence, no
  timer, and the stage stays (`Staging` without `Recovering`). Heartbeats and events are then
  taken in as if all were well, but compared with and committed to that stage. The next
  fence, by a bad frame, a broken or silent connection or the user, drops it. Any other failure of
  a replayed effect schedules a new recovery (`FailRecovery`).
- A recovery is promoted on the connection it opened; nobody closes that without ending the
  recovery, so the branch of `performRecovery` that opens another one is never taken.
- While the circuit is open a poll may see the boundary of a recovery, but cannot commit it
  with this sink.

### SidecarReaper and DesktopHost

| Variable | Code |
|---|---|
| `proc[c]` | the process group of a sidecar: who is up, whether it was asked (SIGINT) or killed |
| `queue`, `registry`, `unsettled` | `REAPER_FALLBACK_QUEUE`, `REAPER_SERVICE`, `REAPER_PENDING_CHILDREN` |
| `service[s]` | a reaper thread with its channel and its tasks |
| `mover[t]` | a thread inside `flush_pending_reapers`, or the retry pump |
| `fence` | `GenerationFence` |
| `worker[w]`, `slot` | the bootstrap threads, and the one in `DesktopHost.worker` |
| `handle` | `DesktopHost.handle` with the state of `shutdown_nonblocking` |
| `ui`, `quit` | what the main thread and the clean-up thread are doing |

- Attempt, bootstrap thread and the sidecar it may start share one name.
- `force_stop` looks, kills the group and looks again; what is left after that may be any part
  of the group, since a killed process takes its time. It is released only when all of it is
  gone, so the polls between are not separate steps.
- Commands, the tray and window events run on the main thread, one after the other. The
  registration gate is the only lock held across a wait. `pending_worker` and
  `installing_worker` are set only while it is held.
- When a reaper thread ends, what it holds is dropped without being killed. The counter keeps
  the desktop process from ending then, and `QuitEnds` excludes it.

## The runs

| Run | Instance | Distinct states | What it shows |
|---|---|---|---|
| `one_task` | 1 task, 2 runs, 1 step, 2 actors, clock to 2 | 222,322 | The rows of a task, its runs and its plan stay consistent under every operation; claims implement the lease. |
| `linked_tasks` | 2 tasks, 2 runs, 1 actor, clock to 1 | 392,716 | What one operation does to *another* task: both may run at the same time, depend on each other, be reopened. No series of edits closes a cycle. |
| `dependency_walk` | 4 tasks, of which at most one is not plain (planned or in another status than todo); no runs, due dates or ticks | 235,764 | Walking first and writing later, with failures in between, is the one step of `TaskLifecycle`. |
| `dispatcher_safety` | 1 task, 2 runs, everybody under the dispatcher's name, clock to 4, 1 fault | 1,264,430 | The loop against all other callers, also when it comes too late. |
| `dispatcher_liveness` | 1 task, 1 run, clock to 3, 2 faults | 82,306 | Leases end and shutdowns end, after crashes and restarts too. |
| `vector_queue` | 2 hosts, 1 task, 1 provider, 2 versions, 2 attempts, 2 calls, 1 fault | 533,323 | Nothing that was queued is forgotten, late workers are fenced, the queue gets done and published. |
| `portable_import` | 2 hosts, 1 snapshot, 4 leases, 2 faults, 1 write | 503,083 | One holder of the lease; an import broken off anywhere is finished by a retry and reported truly, and not done over once it is completed. |
| `web_sync` | 2 events, one of an unknown kind, pages of 1, 2 attempts, 2 waiting tasks, 2 faults | 764,151 | Nothing confirmed is missing on the screen, the client follows the log as an abstract feed does and never gets stuck. |
| `desktop_host` | 2 attempts, 2 reaper threads, 1 fault | 325,910 | No sidecar survives the desktop process, custody goes one way from owner to owner, and the process ends when asked. |
| `ready_refused`, `late_outcome`, `stranded_replay` | as above | | Statements of the documents that the code does not keep, see [below](#where-code-and-documents-disagree). |

Why the bounds are enough for the cases to happen:

- *Two runs* are the fewest with a late holder and its successor. A third claim meets no
  state that the second does not: every operation looks at the current run and the set of
  active ones only. `ExpiredRunsAreRetries` counts to two, the largest limit of `RetryLimits`;
  0 is the limit that is reached at once.
- *Two actors* are an owner and a stranger. In `dispatcher_safety` all callers go by the name of
  the dispatcher, which is the harder case: only the token tells its claim from theirs. *One step* is a plan and its last step;
  required, optional, resolved and open all occur.
- *Two tasks* are a parent and a child, both of which may be running, done, archived or
  waiting. There is one level of children since the operations only touch direct children.
  A cycle of two edges is the shortest; that longer ones do not arise either is proved.
- *Four tasks* in `dependency_walk` are the fewest with a diamond and an edge that closes it:
  a task reached twice, a frontier of two, and a path of three edges. What the walk reads is
  the graph, so plain tasks suffice; one that is not plain is the child whose readiness and
  status the write depends on.
- *The clock* reaches one tick past the only TTL in `one_task`, and past a lease that was
  renewed once in the dispatcher's runs. In `dispatcher_safety` it reaches the end of a second
  lease that is taken when the first has run out. It stops at `MaxTime`; `WithinHorizon` and the last
  conjunct of `Callers` keep the dispatcher's runs from taking leases that could not run out.
- *Faults.* `OpenRunIsTended` concerns the claims since the last start, so one fault at any
  point is what safety needs; liveness has two, so that a restarted host may be hit again.
- *`vector_queue`.* Two hosts are a worker and whoever overtakes it. One task has two jobs, an upsert
  and a rebuild; atoms have jobs of the same kind and are left empty. Two attempts are one
  that is retried and the last; two versions are the one embedded and the one that comes
  meanwhile; two calls are a configuration and a rebuild or a second configuration.
- *`portable_import`.* Four lease names are more than two hosts and a spawned release can
  present at once with the row. Two faults break off a retry, too. `MaxCalls` bounds
  the calls other than the retry of a replace, which is never bounded.
- *`web_sync`.* Two events with pages of one make a catch-up of two pages, a buffer with a gap and
  an event older than the confirmed one. The second is of an unknown kind, which forces a
  recovery. Two faults are one in the recovery from the other; two attempts open the circuit.
- *`desktop_host`.* Two attempts are one that was cancelled and its successor. Two reaper
  threads are one that died and the next, whose channel a slow mover may clear. With two
  faults the invariants and `ImplementsCustody` hold as well, in 1,301,044 states.
- *Symmetry* over tasks, runs, steps and actors: no definition distinguishes one id from
  another. The dispatcher's own actor is not permuted, and the liveness run uses no symmetry.

`CHECK_DEADLOCK FALSE` stands in every configuration because the system really may stop: an
archived board whose runs are over admits no operation, a desktop process exits, and
the bounded clock, edits, calls and faults end.

## Fairness

`TaskLifecycle` states none: nobody has to call anything. `FairDSpec` has

- `WF(Loop)`: tokio keeps polling the loop's task;
- `WF(Collect)`: `select!` polls `child.wait()` along with the heartbeat ticker, and it
  chooses among ready branches at random, so the end of the worker is not starved;
- `WF(WorkerExits)`: workers terminate. The code has no limit on their time, so this is an
  assumption on the operator's commands, and without it `EveryLeaseEnds` would be false: a
  worker that hangs is kept alive for ever;
- `WF(TimePasses)`: the clock moves;
- `WF(Restart)`: a host that went down is started again, by its operator or supervisor.
  The code does not do it. Without a later host a lease of a dead one stays.

Nothing is assumed of the other callers; they need not act at all. The horizon of the clock
does assume one thing of them: nobody renews a lease for ever. A client which does keeps
its lease, as it should.

- `VectorQueue`: a host that is up goes on with its tick and the dispatcher's next round
  starts another; leases and pauses pass. Nothing says that a dead host comes back; the two
  liveness properties assume that some host stays up (`SomeHostStays`).
- `PortableImport`: what the runtime has begun goes on, spawned releases included; time
  passes; a dead host is restarted; and somebody asks for the snapshot again, which only the
  user can do.
- `WebSync`: the server polls its log and sends heartbeats, the browser runs its queue,
  its timers and its requests. Nobody has to write, refresh, retry or stop, and polling is
  not relied on.
- `DesktopHost`: threads go on, killed processes end, time passes, and whoever wants to quit
  asks until it happens: the clean-up thread gives up after 120 attempts. `SF` on the exit
  event says that not every click falls between the end of a clean-up and the event it
  posted, since a click there takes the permission to exit away.

## The proofs

The theorems hold for all values of the constants, under the assumptions of the modules. For
`TaskLifecycle` these are: `NULL` is no number and no id (`NullAssumption`, `IdAssumption`),
schedules and limits are naturals and TTLs positive (`InputAssumption`), `MaxTime` is a
natural (`TimeAssumption`). `QueueAssumption`, `LeaseAssumption` and `ImportAssumption` say
that ids are no nulls and bounds are naturals; `ReaperAssumption` also says that the retry
pump is none of the workers. `StreamAssumption` and `SyncAssumption` say that bounds are naturals,
that a page and the anomaly budget are positive, and that unknown kinds belong to events of the
log. `ProfileAssumption` says that the heartbeat interval is shorter than
the profile's TTL, which is one of the TTLs.

| Theorem | Statement |
|---|---|
| `TypeCorrect` | `Spec => []TypeOK` |
| `ClaimsMatchRuns` | `Spec => []ClaimMatchesRun` |
| `WaitingTasksHaveNoRun` | `Spec => []WaitingHasNoRun` |
| `RunsMatchStatuses` | `Spec => [](WaitingHasNoRun /\ RunMatchesStatus)` |
| `FinishedRunsStay` | `Spec => FinishedRunsStayFinished` |
| `ArchivedBoardStaysIdle` | `Spec => []ArchivedBoardIsIdle` |
| `OpenRunsCanBeEnded` | `Spec => []NoRunIsStuck` |
| `LifecycleImplementsLease` | `Spec => ImplementsLease` |
| `DependenciesAcyclic` | `Spec => []AcyclicDependencies` |
| `PlansMatchSteps` | `Spec => []PlanRowMatchesSteps` |
| `WalksAreRight` | `WSpec => []WalkAnswersRight`: the walk of `DependencyWalk` refuses for a cycle only when there is one, and finds none only when there is none |
| `WalksMoveOn` | `WSpec => WalkMovesOn`: no task is queried twice |
| `TheWalkImplementsTheService` | `WSpec => WalksImplementService`, which is `WSpec => Spec` |
| `ReadyIsBacked` | `Spec => ReadyIsNotStranded` |
| `OnlyReopenOvertakes` | `Spec => OnlyReopenOvertakesRunning` |
| `ExpiredRunsAreCounted` | `Spec => []ExpiredRunsAreRetries` |
| `DispatcherIsTyped` | `DSpec => []DispatcherTypeOK` |
| `OpenRunsAreTended` | `DSpec => []OpenRunIsTended` |
| `DispatcherUsesTheService` | `DSpec => Spec`, the specification of `TaskLifecycle` |
| `DispatcherKeepsLeases` | `DSpec => ImplementsLease /\ []NoRunIsStuck` |
| `SweepsAreNotRefused` | `DSpec => []SweepMeetsNoRefusal` |
| `OnlyOwnRunsAreEnded` | `DSpec => OnlyOwnRunIsEnded` |
| `QueueIsTyped` | `Spec => []TypeOK` of `VectorQueue` |
| `NoClaimIsShared` | `Spec => []ClaimsAreUnique` |
| `NothingIsForgottenEver` | `Spec => []NothingIsForgotten` |
| `PublishedIsCurrent` | `Spec => []ReadyIsCurrent` |
| `TheQueueIsFenced` | `Spec => AnswersAreFenced` |
| `ImportsKeepTheLeaseProtocol` | every step of `PortableImport` is one of `MaintenanceLease` or leaves it alone |
| `OneHolder` | `Spec => []AtMostOneHolds` |
| `LeasesAreRespected` | `Spec => LeaseIsRespected` |
| `ImportsAreTyped` | `Spec => []TypeOK` of `PortableImport` |
| `ReportsAreTrue` | `Spec => ReportIsTrue` |
| `ReplacedAreBackedUp` | `Spec => ReplacedIsBackedUp` |
| `CompletedImportsAreFinal` | `Spec => CompletedIsFinal` |
| `SyncIsTyped` | `Spec => []TypeOK` of `WebSync` |
| `NoEventIsLost` | `Spec => []ConfirmedIsApplied` |
| `SomethingIsAlwaysPending` | `Spec => []SomethingIsPending` |
| `ConfirmedAreNotRepeated` | `Spec => ConfirmedIsNotRepeated` |
| `OffIsQuiet` | `Spec => QuietWhenOff` |
| `TheClientFollowsTheFeed` | `Spec => ImplementsFeed` |
| `NoOrphanIsLeft` | `Spec => []NoOrphan` |
| `OneKeeperAlways` | `Spec => []OneKeeper` |
| `TheShellKeepsCustody` | `Spec => ImplementsCustody` |

Some of these properties are not checked by a run. `WaitingHasNoRun`, `ArchivedBoardIsIdle` and
`ConfirmedIsNotRepeated` follow from `RunMatchesStatus`, `NoRunIsStuck` and `ImplementsFeed`,
which are. `WalkAnswersRight` is half implied by `WalksImplementService`, which catches an edge that
should have been refused but not a refusal without a cycle; that half, `WalkMovesOn`,
`ClaimsAreUnique` and the types of `VectorQueue` and `PortableImport` are proved only.

The argument. None of `ClaimMatchesRun`, `WaitingHasNoRun` and `RunMatchesStatus` is
inductive alone. That a reclaim closes the run of *this* task needs that the current run
names it; that a claim gives no second run to a task needs that a ready task has no active
one; that reviewing leaves the right outcome needs that the run was running. `LeaseInv` is
their conjunction with `TypeOK`, and it is inductive.

The thirty operations are first sorted by what they do to claims (`LeaseSteps`): a step is
`Quiet`, leaving claims and runs alone and moving statuses only among those without a run;
or it `Starts` a run, `Renews` one, or `EndsWith` an outcome. Each operation is put into its
class once (`DescribeIsQuiet`, `WorkOnLeases`, `InterveneLeases`, `PlanIsQuiet`,
`LinkIsQuiet`); each part of the invariant is then proved for four kinds of step and not for
thirty. The refinement uses the same classes: a quiet or renewing step stutters in
`RunLease`, a start is `Acquire`, an end is `End`.

That no cycle arises is proved without any induction over paths. An edge is on no cycle iff
some set of tasks, closed under the edges, holds its child and not its parent. When a task is
created it has no children, so it may be added to any such set. When an edge from `p` to `c`
is added, the code has found that some closed `U` holds `c` and not `p`; the set `S` of an
old edge is then replaced by `S`, by its union or by its intersection with `U`. The
strengthening needed is that edges only join existing tasks (`EdgesExist`), which rests on no
row ever being deleted (`RowsStay`).

The walk that finds `U` is proved by what it keeps of its frontier (`Explored`): what it has
visited can be reached from the child, the parent is not among it, and every task it is done
with has all its children among the visited. With an empty frontier the visited tasks are
themselves the closed set that holds the child and not the parent (`EmptyFrontier`), so that
a commit is exactly the step of `TaskLifecycle`. Since each query moves a task out of the
frontier for good, a call holds the gate for one query per task at most.

`NoRunIsStuck` is the safe half of "every lease ends", and holds without any fairness: the run
of an open lease belongs to a task on a live board whose rows pass the checks of the calls
that end it. It follows from `LeaseInv`, from the idle archived board and from each run having a
task (`RunsHaveTasks`).

*Readiness and retries.* Both action properties ask what a step can take away from a task: its
description, its schedule, a finished parent. `FactSteps` sorts the operations by that. All
but a few keep these facts of every task (`KeepsFacts`); create and specify work on a task
that is not ready (`Founds`), update recomputes the task it edits (`Updates`), and a reopen
unfinishes a task and demotes its ready children in the same transaction. With
`ParentSteps`, what may happen to the parents, it follows that a running task's parents are
unfinished by a reopen only (`OnlyReopenUnfinishes`). For the retries, `CountSteps` shows that a run
expires only in the step that counts it; `RetryInv` carries the count over finite
sets and says that a task not yet created has no runs.

*The dispatcher.* Every step of the loop is an operation of the service or leaves it alone
(`ServiceSteps`), so that `DSpec` implements `Spec` and all that is proved of `TaskLifecycle`
holds under it; `DispatcherKeepsLeases` carries over the two results that matter most. For the
sweep, the invariant is that what is still listed is expiring: while the gate is held, the
only steps are its own, on other tasks, and the clock, which cannot renew a lease. `LoopSteps` says
what a step does to the claim at hand: it keeps it, takes one, gives it up on the way down,
records its outcome, or starts anew. An outcome that is recorded on a task that does not run
finds the run closed already, by `ClaimMatchesRun` (`RecordedIsOver`). For
`OnlyOwnRunIsEnded` the one further fact is that a token names its run (`TokensMatch`): the calls
the loop ends a run with present the token of the run at hand, so whatever they end is that
run, however late they come (`OutcomeEndsHeld`). That a lease does not run out under a living
worker is not claimed; it is a matter of how long the loop waits.

*The vector queue.* `ClaimsAreUnique` is inductive with types, since every claim takes a
fence above the row's. For the other two, `Tracking` follows a fact from its edit to its
embedding: an owed fact is embedded or has an outstanding job (`Tracked`); an enqueue loop
that has passed it has put it down (`Counted`); a worker's locals hold the version it read,
and a fact that was edited since is crossed (`HonestAt`), because an edit within the
worker's own host is impossible. `ReadyIsCurrent` then follows from the look at the queue in the
transaction that publishes. The refinement is shown row by row: each action either keeps
the claim of a job, gives it to a host, or takes it from the one it had.

*Imports.* The lease is proved first, over `MaintenanceLease` alone (`LeaseInv`), and carried
to `PortableImport` by `ImportsKeepTheLeaseProtocol`. `ImportInv` adds, for each host and
step, what the operation relies on there (`Relies(h)`): that the journal names the backup of
the facts it is about to replace, that what it published is still there, and that at every
step after its decision the journal it works at is not completed (`Working`). A write of
another host may break that, and then the host is in `crossed`. `CompletedIsFinal` follows:
whatever changes a journal is one of these steps (`JournalWriter`). The excuse of a crossed
host is needed: TLC finds an operation that stalled past its lease and then published over the
journal that its successor had completed, since `import_with_lease` does not look at its lease
again.

*The browser.* What `ConfirmedIsApplied` needs is that events reach the front of the ingest
queue without a gap, though three sources feed it and each may be cut off. `Gapless` says that
what comes before a live event in the queue, and after the last one taken in (`Base`), is
ahead of it; `Covers` says the same of what the server and a poll are about to send
(`Order`). During a recovery `Stage` takes the place of the queue: what the boundary, the
buffer and the effects already replayed hold is, together, everything between the confirmed cursor and the
stage's (`Kept`), so that promoting it confirms nothing unapplied. Before the boundary is
collected and after a replay that ran out of time the stage may hold less: then it is either
still to be filled, or it is dropped and never promoted. `Loads` relates the
shared reload to the effect that waits for it: the model that is shown is never older than an
effect that has been told it is done. `Modes` says what a fence leaves behind: with the
controller off, only old tasks and a user's refresh. `SyncInv` is their conjunction with the
types; it was model-checked as an invariant of the run's instance before it was proved. For the
refinement, `SyncInv` says enough of what was
applied before the event at work, and `FeedInv` only adds that there is none when nothing is at
work; the client of the feed is adrift exactly while a stage is stranded. The steps are sorted by
what they do to the feed (`FeedSteps`): most are calm, and the others commit, show, begin,
apply or confirm.

*The desktop host.* `GoodStep` sorts all steps by what they do to the owners of sidecars
(`OwnerStep`): a sidecar moves within the reaper (`Keeps`), a thread starts one (`Spawns`) or
parts with its own, to the reaper or the handle (`Loses`), or the handle is emptied of one that
is gone (`Frees`). That these are all rests on `Books`: what the threads' positions say of the
slot, the fence, the handle and the exit, in particular that nobody but the worker in the slot
and the one being installed is alive. `Places` then says where each sidecar is, and that it
is there once, and ties the counter to the reaper's side; every kind of step
preserves it. `Quits` adds that the exit looks at the handle with the counter at zero,
when nothing else can have a sidecar, and that nobody gets one after that. The refinement
needs nothing more: `OwnersFit` reads the owner of a sidecar off its place, and then `Spawns` is
`Start` in `SidecarCustody`, `Loses` is `HandOver`, `Keep` or `GiveUp`, `Frees` is `GiveUp`, and
a move within the reaper changes no owner unless it settles one.

What the provers cannot reach and TLC alone checks is liveness: `EveryLeaseEnds`,
`GracefulShutdownEnds`, `RunningIsRecovered`, `QuietIsPublished`, `MaintenanceGoesOn`,
`RetryFinishes`, `CatchesUp` and `QuitEnds`.

## Where code and documents disagree

Three of these have a run that shows the disagreement (named in brackets). The first four are
sentences of `crates/kanban-core/docs/state_machine.md`.

- *`ready` means it can be claimed* (`ReadyIsClaimable`). `steps/remove.rs` recomputes the
  status without the plan gate: a waiting task whose last step is removed becomes ready
  with no plan, and claim refuses it. The dispatcher, which tries the first ready task only,
  then idles until somebody plans the task or changes the order.
- *The service must not force `ready` because the caller names it* (lines 14 and 15).
  `reclaim_task` takes its `target_status` as it is (`reclaim.rs:62`, `ReclaimTarget`).
- *heartbeat checks the expiry*. It rejects a missing expiry only; an expired lease is renewed
  if the sweep has not been there yet (`Heartbeat` has no conjunct about it). The lease stays
  exclusive: `ClaimMatchesRun` and `ImplementsLease` hold with it.
- *`done` and `block` check owner and token* (`OnlyOwnOutcomeIsRecorded`). They do for a
  running task. For one that is not running, the token passed is ignored, so the dispatcher's
  late outcome for a lost claim blocks a task that waits again, or approves one in review.
- *Live again, and polling stopped, only after the replay is done and the cursor confirmed*
  (`LiveAfterReplay`; `apps/web/docs/sse-invalidation.md:483`, likewise 631 to 634). When a
  replayed effect exceeds its time, the recovery returns at `web-sync-controller.ts:980` with
  nothing scheduled, where the document asks for a new generation (lines 419 to 422). The next
  heartbeat makes the client live. Events of the boundary that were not replayed count as seen
  and are dropped, and nothing is confirmed any more until the connection fails. What was
  confirmed before stays true (`ConfirmedIsApplied`).

ADR 0006 (lines 55 and 56) says of the desktop shell that a sidecar is forced only after a
timeout and that closing the window keeps the host. The code keeps a host that is up, but
closing the window cancels one that is starting, and quitting then kills it at once. The
model does what the code does; no run is about it.

## What is not modelled

Components marked "no" above, with their reasons in PROJECT.json. Within the modelled ones:

- *Tasks:* several boards (tasks of two boards never share a row); the expected version an
  update may pass; idempotent replay of `create_task` and `create_step`; step links; the
  overflow of counters; the content of worker logs and the exact signal sent to a worker.
- *Vector queue:* the dimension and content of vectors, search, the atoms' payloads, and the
  text of errors.
- *Maintenance:* backup, export, checkpoint, vacuum and restore are one kind of operation
  that takes the lease and leaves the facts alone; migration of the schema is left out.
- *Events:* the task filter, argument checks, several boards in one log.
- *Web sync:* `switchBoard`, memory budgets, and the optimistic state of the page.
- *Desktop:* the HTTP probe, the trust checks of the sidecar's file, phases and diagnostics
  shown to the user, panics of bootstrap threads, platforms other than Unix.

Some hazards listed in PROJECT.json have no property because the code promises nothing there:

- the ready list is starved by its first task, and a worker that succeeds without finishing
  its required steps has its task claimed again after each restart;
- `configure_vector` enqueues nothing, so that a quiet queue is published under a provider
  that has embedded nothing;
- triggers revive a job without resetting its attempts, so that an entity edited often enough
  is given up;
- a merge into a database that has other boards is committed and then fails its verification;
- the desktop's main thread may wait for a thread that waits for it (`Jammed`);
- `reclaim` moves a task to the status its caller names.

That the dispatcher's lease outlasts its own delays is not claimed either: a vector tick may hold
the gate for longer. What is shown is that coming late does no harm to another run.

## Plan

What is left: `OptimisticEdit`, the versions passed by callers, and idempotent creation.
