# A TLA+ model of the agent bridge

This directory holds TLA+ modules for the parts of the bridge where the order of
steps decides whether it is correct: the bus worker, the leases that let one task at
a time drive an agent, the ACP adapter, the durable queue, the transports, restarts,
and the commands an operator runs while the bridge is down. TLC checks the modules on
small instances. TLAPS proves the central safety results for every size.

`PROJECT.json` is the index: components, runs, the map from definitions to source
lines, mutants, hazards, findings and theorems. Source paths below are relative to
the repository root, which that file calls `src/`.

## The system

A task enters through Matrix, A2A, the gateway or an operator retry. It becomes rows
in SQLite, which is the source of truth, and an entry in a bounded in-memory channel.
One serial worker takes tasks by priority, dispatches each to its agent, races the
agent against cancellation and deadline, and writes the task's events. An ACP agent
is a child process. The right to drive it is a lease row with a fence. Supervisors
that outlive the worker's own future renew it. Output is spooled to segment files
and delivered to the room.

    Matrix, A2A, gateway, retry ──> admission row + channel ──> worker
                                          │                       │
                                       SQLite <── events ── leased dispatcher ──> ACP agent
                                          │                       │
                            next process: lock, recover      output spool ──> room
                                          │
                            operator commands while no process runs

## Modules

| module | code | state and actions |
|---|---|---|
| `ExecutionLease` | `SqliteRuntimeStore`, `src/runtime/mod.rs` | The lease, continuation, receipt and workspace tables. One action per transaction. Every `Lease` value ever handed out may come back later, so `handles` only grows. |
| `FencedResource` | what the lease table promises | Abstract specification of one resource: who holds it, under which fence. `ExecutionLease` implements it. |
| `LeasedDispatcher` | `LeasedAcpDispatcher`, `src/runtime/mod.rs` | Worker, waiting supervisor, running supervisor, guard cleanup, `/pause` and shutdown as processes over the `pending` and `active` maps and their channels. |
| `AcpBackend` | `src/acp/` | Transport loops, agent processes, the dispatcher's client slot, sessions and turns, the spawn gate and the router that stops them. `tp` is one record per agent process, `call` one per task. |
| `Cancellation` | `src/bus/control.rs` | The three tables of the cancellation handle and the global reason. Recording a reason and bumping the watch are two steps, as in the code. |
| `BusWorker` | `src/bus/`, `src/app/admission.rs`, `SqliteTaskLifecycle` | Submission in four steps, the channel, the priority heap and `process`. `pc` names the await the worker has reached; all other actors run in between. Extends `Cancellation`. |
| `WorkQueue` | `src/storage/reliability.rs` | The durable queue of one endpoint, the workflow envelopes that fill it, and a lease reduced to what the queue's SQL reads. |
| `RuntimeRestart` | `src/app/runtime.rs`, `retry.rs`, `gateway_handoff.rs`, `src/offline_recovery.rs` | Several processes over one database. `inst`, `adm` and `open` survive a crash, the rest is memory. |
| `OutputSpool` | `src/acp/output*.rs`, `src/storage/output_delivery.rs`, `src/app/output_drain.rs` | Segment files, their rows, the quota and the drain to the room, with deaths between a file and its row. |
| `MatrixSync` | `src/matrix/`, `src/app/ingress.rs`, `src/app/outbox.rs` | The sync owner with its component lease, batches, receipts, dispositions, the watermark and the projection outbox. |
| `A2aExchange` | `src/a2a/` | The server's connections and replays, admission and binding, delegated tasks with their polls, content accounting and cleanup. |
| `Gateway` | `src/gateway.rs`, `src/app/gateway_handoff.rs` | The raw consumer, the envelope table, the handoff to the bus, acceptance, cleanup. |
| `StateBackup` | `src/isolated_state_backup/`, the interlock of a start | Each file operation of backup, restore, rollback and cleanup, with a death or an error at each. |
| `OwnerRepair` | owner reconciliation, fixture migration, owner binding | The manifest tools and the owner binding, over a database an old release left behind. |
| `OfflineTools` | the recovery and reconciliation commands | Each command's transaction over the rows of a dead runtime, its refusals, its repeat and its interruption. |

`MC*` modules give constants their values. Five of them are sums: a behaviour is of one
component and leaves the others alone, so that one run covers the components that share
a question. `MCExecution` is the sum of `LeasedDispatcher` and `AcpBackend`,
`MCRuntimeRestart` of `RuntimeRestart` and `OutputSpool`, `MCTransports` of `MatrixSync`,
`A2aExchange` and `Gateway`, `MCOffline` of `StateBackup` and `OwnerRepair`, and
`MCWorkerClose` of the worker, of the cancellation tables alone and of `OfflineTools`. `*_proofs` modules
hold the theorems; `AcpInvariant` is the invariant that two of them share.

Conventions: an action is one committed transaction, or the code between two awaits.
A call that fails a guard rolls back, so it is no step. Strings, logs, reasons and
payloads are left out. A comment `Mutant:` marks a faulty variant of the definition
that follows it; no specification uses it, it shows that a property would notice.

### Reductions worth knowing

- `ExecutionLease`: time is a counter. Workspace paths are reduced to the relation
  `Overlaps`. `acquire` on an expired row is an action of its own because it commits
  `recovery_needed` and then returns an error. Every answered turn adds a receipt, also
  the last one, under the terminal event's id, when `finalize_terminal` closes it.
- `LeasedDispatcher`: the ACP conversation of a turn has a nondeterministic outcome;
  `AcpBackend` has its steps. `lapsed` stands for the clock passing `expires_at`.
- `AcpBackend`: frames are records, not bytes. The lease above the adapter is three
  fields: who holds it, whether it needs recovery, and which turns were closed as
  blocked although their agent was left at work.
- `BusWorker`: an agent may answer, fail or hang in each stage. `Faults` selects the
  outside failures of a run. A deadline may pass at any time.
- `WorkQueue`: `fence = 0` stands for NULL owner columns. `claim_next`, `pause_queue`,
  `resume_queue` and `pause_task_queued` have no caller outside tests today; they are
  public and write the same table, so they are actions.
- `RuntimeRestart`: the lease, continuation and delivery rows of a task are one
  variable, open or closed. The proof that an old owner is gone is an outcome. A
  submission whose future is dropped between its commit and its send is lost to the
  channel (`Lose`, `DropSubmit`), and its row waits for the next process.
- `OutputSpool`: `claim_revision` is left out and a claim may turn stale at any time. A
  graceful stop drops the drain at an await. `MCRuntimeRestart` has a second instance in
  which two outputs share a quota that does not hold both; tokens are used in order.
- `MatrixSync`: only the row of the current batch is kept, the homeserver repeats at
  most one earlier event per response, and an event has one outbox row.
- `A2aExchange`: authentication and reservation are one step, so are measuring and
  claiming expired content. Every content is one byte.
- `Gateway`: a start succeeds only if the rows left over can be enqueued, which is what
  the handoff's match on the runtime token amounts to.
- `StateBackup`, `OwnerRepair`: a digest is the value it digests, and names are abstract.
- `StateBackup`: a start opens the database in WAL mode before it reads the interlock, so
  even a refused start may rewrite `state.db` and make, lengthen or remove its log. A
  database file has therefore several `Forms`; `fs::same` compares device, inode, size,
  owner and mode (`Identity`), which a rewrite keeps; a recorded hash fits one form only. `Touched` lets a start rewrite the main
  file only once its hash is on record, where the difference can be seen. A start that
  changes nothing is not counted against `MaxStarts`.
- `OfflineTools`: a command is one action, because it holds the maintenance lock and
  writes in one immediate transaction. Rows of an earlier release include dispatched work
  without a lease and two tasks on one resource.

## Runs

| run | bounds | shows |
|---|---|---|
| `lease_store` | 2 resources with overlapping workspaces, 2 tasks, 3 tokens, 2 fences, 1 turn, clock to 2 | Fences identify grants, a finished turn holds no lease, turns add up with their receipts, active workspace claims never overlap, and each row implements `FencedResource`. |
| `worker_stages` | 1 task, raced with 2 attempts, or durable and prepared with all faults and an event buffer of 2; 2 cancel calls, or 1 when prepared | The grammar of the event stream, the stream behind the durable log, no dispatch of a task cancelled beforehand, no lost wake-up, and the end of the worker after a close. |
| `worker_close` | 3 tasks of 2 priorities, 2 of them rejected, channel of 2, event buffer of 1; cancellation tables of 2; rows of a dead runtime: 3 tasks, 1 token, 2 decisions, 1 fault | FIFO within a priority across channel and heap, everything accepted is drained at close, the full tables keep the first reason; a task closed offline is closed in all tables, a repeat is recognised, and a lease is never freed without its turn. |
| `restart` | 2 starts, 1 crash, a task of each kind, channel of 2; 2 outputs, 2 tokens, 2 I/O errors | One runtime at a time, channel and rows agree and every admitted task is accounted for, the room shows a prefix of the output, spool, rows and quota agree, a start is refused only over leftovers of `publish_file`, and both shutdown and sealed output are settled. |
| `execution` | 2 tasks, 1 pause; 2 agents, 2 faults, 1 retained transport, channel of 2, pipe of 1 | A valid lease always has a custodian, a pause is acknowledged only for a reaped agent, nothing an agent says reaches another caller, one turn is worked on at a time, the final observation is true, and every call and stop ends. |
| `queue_rows` | 3 rows, 2 tasks, capacity 2, 2 fences, 6 updates per row | Capacity, order and attempts of the queue, claims bound to grants, no row sent twice under one grant, and what was sent returns only through a resume. |
| `transports` | Matrix: 2 events, 2 starts, 2 faults. A2A: 2 connections, 2 epochs, 1 fault. Gateway: 2 runtimes, 3 deliveries, 2 faults | The watermark never passes an unhandled event, effects happen once, a repeated request is one task with one answer, clean stops restart, table, channel and peer agree on a handoff, and batches and expired content end. |
| `offline` | directory: 1 crash, 1 error, 1 start; owners: 2 operations, 2 faults, 2 manifests | The original database is never lost, the log it had never lies beside another database, journals tell the truth and can be adopted, no running owner is stopped, and receipts bind both states. |

The names of the properties are in the `.cfg` files; the comment above each definition
says what it means and which code it is about.

### Why these bounds

Two contenders are what the races need. A third lease token lets the first holder come
back after a takeover. `MaxFence = 2` allows a grant, a takeover and a stale call against
it. `MaxRevision = 6` is the shortest life in which a queue row is claimed, sent, paused,
resumed, claimed and sent again. Capacities are one below the number of contenders so
that a refusal happens. The caps of 1024 in `control.rs` and 256 in `spawn_gate.rs` are 1
or 2 here: a table behaves differently only when it is full. Each component has the
faults that its longest recovery path needs, and a restart after them. That larger
instances change nothing is what the theorems say, where there is one.

### Deadlock

Deadlock is checked in `worker_stages`, `worker_close` and `restart`, where stopping must
be a modelled end. It is off where the bounds end every behaviour (`lease_store`,
`queue_rows`, `transports`, `offline`) and for the dispatchers, which rest once their tasks
are done.

### Fairness

- Worker: weak fairness of the worker and of the wake-up a canceller still owes. The
  worker is a tokio task, and a caller that recorded a reason bumps the watch without
  awaiting. Agents are not fair, and no deadline has to pass.
- Restart: weak fairness of the startup and shutdown code of a process, and of the
  output drain until it has settled. Crashes and new starts are not fair.
- Execution: weak fairness of each spawned task of the dispatcher while somebody waits
  for it; a turn ends within `max_inactivity` and `max_wall_time`. Strong fairness of
  `RunnerExhausts` says that `max_turns` bounds the loop. While the adapter is being
  stopped, its loops, calls and router run, deadlines fire, and no process an agent
  started keeps the agent's stdout open for ever.
- Transports: weak fairness of the sync owner during a batch and of the A2A cleanup.
- Offline: a cleanup that was begun (its markers are on disk) is run again by the operator
  until it is finished; the runtime that holds the lock stops. Nobody has to begin one.

## Findings

Four runs are expected to fail. Each checks one sentence that a comment or a doc of
the repository states, and TLC shows a behaviour of the code that does not keep it.

| run | the text | the code |
|---|---|---|
| `worker_refusal` | `src/bus/worker.rs:715`: only event-write failures stop the worker | A prepared delivery refused before it owns a lease stops it. |
| `restart_handoff` | `src/app/gateway_handoff.rs:7`: startup recovery uses the handoff | The handoff matches the fresh token only, so a gateway admission of an earlier process makes every start fail. |
| `dispatcher_cancel` | `src/bus/worker.rs:1182`: every branch of `process` writes one terminal event or loops | A cancellation that wins after the supervisor's last `select` finds nobody to answer, and the worker stops without the event. |
| `acp_exclusive` | `src/runtime/mod.rs:1`: exclusive execution | A turn that failed after exceeding its output limit is closed as blocked: its agent is left at work while the next turn is prompted. `OneTurnAtWork` is the statement with this case excepted. |

`PROJECT.json` gives the lines of both sides. More places where text and code differ, or
where the code leaves something open, came up while modelling. The modules follow the
code and no run is spent on them:

- `src/bus/control.rs:33` calls the active table bounded by the tasks in flight, but a
  task left as `recovery_needed` is never retired from it (`src/bus/worker.rs:1469`).
- `src/offline_recovery.rs:1` says the path is never used by normal startup, but
  `AppRuntime` calls it when a stale row blocks the start (`src/app/runtime.rs:435`).
- Matrix: a stop or an error within a batch leaves a receipt pending, so later starts are
  held. A full task channel after the commit is reported as a storage error with the
  same effect. A projection row whose drain died stays `sending`.
- Gateway: nothing sets an envelope terminal, so the cleanup finds nothing and retained
  bytes only grow. A crash between handoff and acceptance loses the acceptance.
- A2A: two identical sends at once count retained bytes from a stale value; a replay
  after cleaning inserts content that is not counted; a crash while stopping leaves
  cleanup claims until `recover-runtime`.
- Spool: an error inside `publish_file` leaves a temporary file, and the clean-up of the
  next start refuses the directory (`src/acp/output_files.rs:240`).
- State directory: a start that the interlock refuses half-way through a restore has
  opened the database already. It can leave a log beside the restored copy, or make the
  verification of the copy fail; after a rollback the original log can lie beside a
  rewritten main file until the rollback is verified.
- State directory: a torn `restore.new` stops both directions, and a lock without a
  journal after a power loss refuses every later command.
- Offline commands: the owner of a lease is a fresh token, so the commands that compare
  it with a runtime's token only match rows of an earlier release
  (`src/readonly_tuple.rs:200`, `docs/RELEASE-0.2.6.md:4`).
- Offline commands: the diagnosis passes over dispatched work without a lease
  (`src/lease_owner_diagnostics.rs:221`), which the selector calls conflicting
  (`src/readonly_tuple.rs:211`). Abandoning historical work leaves task and admission
  open, so a start stays blocked; that is what `docs/RELEASE-0.2.19.md:8` promises
  ("without replay, fabricated completion"). The repeat of an orphaned closure is
  recognised only while there is one earlier closure to compare with.

## Proofs

Each theorem holds for every value of the constants, under the assumptions the modules
state: bounds are natural numbers, names such as `None` are no other value, `Overlaps` is
reflexive and symmetric, `Key` is finite. The runs above check the same properties on
small instances, and each inductive invariant was checked by TLC before it was proved.

**Leases (`LeaseGateway_proofs`).** The properties are not inductive by themselves: a
stale `Lease` value may be presented at any time, and an absent continuation may be opened
by it. `IInv` adds `Provenance`: every `Lease` value carries a token that was generated, and
every continuation was opened under a fence its resource has reached. From it follow
`Fencing`, `FinishReleases`, `TurnsAddUp`, the step properties
`FinalRowsNeverChange` and `ExpiryIsFinal`, and `Refinement`: every lease row implements
`FencedResource`. `TurnsStayRecorded` adds `ReceiptInv`: each completed turn of a task has its
receipt, the terminal one included, except a last turn that `finish_with_generation` closed.
`WorkspacesDisjoint` and `ClaimsStaySound` add that active claims belong to
the current grant. `ClaimsStaySound` assumes that a finished turn leaves its claims for
recovery (`FinishStates`); a turn that is not prepared may end otherwise
(`src/runtime/mod.rs:1588`) and is outside that theorem.

**Work queue (`QueueRepair_proofs`).** That one grant never sends a row twice needs to know
why a queued row may be claimed at all. `SendInv` says so: the last send of a queued or
paused row is older than the current grant, or the lease is no longer live. A pause after
a reap keeps this only because `pause_task_after_reap` looks at the lease first. From it:
`ClaimsBoundToGrants`, `ResendsNeedNewGrants`, `SentRowsNotRequeued`. The lemma `Steps` says
what a step does to the rows that exist and gives `QueueBounded`, `QueueOrder` (a resume
ranks rows by their old sequences, and ranks are distinct) and `EnvelopesAtomic`.
`AttemptsUnique` rests on `AttemptsBelow`: an attempt number is below the one the admission
would give next. `QueueStaysSound` combines them.

**Processes (`RuntimeRestart_proofs`).** `RuntimeStaysAlone`: no runtime serves above the open
work of another. `ChannelKeepsAgreeing`: what the channel holds is what the rows say, and an
enqueued row is in the channel, in work, on its way, or known to be lost. The invariant follows one process from its lock to its end and says what a dead one can have
left in `inst` and `adm`.

**Leased dispatcher (`LeasedDispatcher_proofs`).** `LeaseStaysInCustody`, `PausedStaysReaped`,
`BackendStaysWithTurn`. In `DispatchInv` an entry in `pending`, a busy runner and a cleanup each
imply that the row is held by their task, so at most one task is active; and the command
of a `/pause` is in exactly one place: a channel, a supervisor, or its answer.

**ACP adapter (`AcpBackend_proofs`, on `AcpLine_proofs`).** `NothingGoesAstray`,
`OneTurnStaysAtWork`, `QualifiedStaysTrue`. `AcpInv` has two halves. On one line, request ids
grow from the agent's output back through its jobs and the pipe to the channel, and a
response is the last word about its id; so an id names one call for ever. Over all lines,
a prompt an agent may still work on belongs to the turn that holds the lease, at a stage
that will still stop that agent, or its turn overran, or the resource needs recovery. `AcpLine_proofs` treats the loop and the agent,
`AcpBackend_proofs` the calls, the dispatcher and the stop.

**Matrix (`MatrixSync_proofs`).** `WatermarkStaysCovered`: the saved token never passes an
event without a receipt that settles it. `EffectsStayOnce`: no submission, cancellation or
notice is repeated. Both need what a batch row, its receipts and the memory of the running
owner say about one another at each step of the loop.

**A2A (`A2aExchange_proofs`).** `ExchangeStaysOnce` and `CleanStopsStayRestartable`, from one
invariant: a request has one task and one row, a call goes on with the row it read, each
peer was sent one message; content is claimed only when it is over, runs stop in order,
and the first sweeps of a start bring content under the ceiling.

**Gateway (`LeaseGateway_proofs`).** `HandoffStaysKept`: table, channel and peer agree on what was
handed over, whatever crashed between them.

**Owner repair (`QueueRepair_proofs`).** `RepairStaysSound` and `StopsStayReceipted`. A command
begins only when no process runs and then holds the maintenance lock, so no owner is
alive under it, and the database changes only by its own COMMIT. What holds of the
database is therefore stated of any database and shown of the working copy of the
transaction.

### Only model-checked

- Liveness (`SignalEndsTask`, `RacedShutdown`, `RestartSettles`, `ExecutionSettles`,
  `TransportsSettle`, `CleanupCompletes`): the prover handles neither fairness nor ENABLED.
- `BusWorker` and `Cancellation` (`RetriedGrammar`, `DurableStream`, `ArmedNeverDispatched`,
  `FifoWithinPriority`, `DrainedOnExit`, `TablesKeepReason`): they say what filters and
  concatenations of event sequences are, which needs induction over sequences.
- `OutputSpool` (`RoomShowsPrefix`, `OutputSound`, `StartNotRefused`): byte counts are
  recursive sums over sets of segments.
- `StateBackup` (`BackupSound`, `AdoptableUnlessTorn`): the invariant would have to list what
  every prefix of each command's file operations leaves; TLC enumerates them.
- `OfflineTools` (`OfflineCloses`, `ReleaseAccountedFor`): repeats compare cardinalities of sets of rows before and
  after folds over them.

## Inventory

What the repository contains, and where it stands. `PROJECT.json` lists the files and
what is left out of each part.

| part | state |
|---|---|
| Execution leases, workspace claims, continuations | modelled, proved |
| Leased ACP dispatcher and supervisors | modelled, proved |
| ACP transport, client, sessions, dispatcher | modelled, proved |
| ACP output capture, spool and delivery | modelled |
| Bus worker, admission to the bus, cancellation handle | modelled |
| Operator retry | modelled |
| Process start, recovery, stop | partly, proved: the owner evidence is the outcome of a check |
| Durable work queue and workflow envelopes | partly, proved: calls only tests make are left out |
| Matrix sync and ingress | modelled, proved |
| Matrix cutover and recovery, admin commands, projection outbox | partly, within `MatrixSync` and the modules they act on |
| A2A server, store and dispatcher | partly, proved: wire encodings are reduced to what they accept |
| Gateway | partly, proved: functions without a caller are left out |
| Isolated state backup | modelled |
| Owner reconciliation, fixture migration, owner binding | modelled, proved |
| Offline remediation and diagnostics | modelled |
| Durable task lifecycle, event fan-out, endpoint registry, stale-runtime recovery | partly, as the environment of other modules |
| Owner evidence and runtime admission, offline production migration | partly: the interlock of a start with a restore |
| Privileged process proof | not modelled: a verdict only the operating system gives |
| Receipts and dispositions of the repository | not modelled: single-row reads and writes; those that matter are in their callers |
| Health, configuration, models, codecs, mock agent, release tools | not modelled: rendering, parsing and command lines without shared state |
