# PgRelay: a TLA+ verification project

PgRelay is a job queue in PostgreSQL. Applications enqueue jobs inside their own
transactions; asyncio workers lease jobs, keep the leases alive with heartbeats,
execute them, and record attempts; an API and a CLI administer queues, replay and
cancel jobs, and purge old ones. All coordination goes through rows of four
tables (`pgrelay_queue`, `pgrelay_job`, `pgrelay_attempt`, `pgrelay_worker`),
guarded `UPDATE`s and row locks; no process talks to another.

`PROJECT.json` maps every definition to the lines it models, and lists the runs,
mutants, findings, hazards and theorems. Paths below are relative to
`src/src/pgrelay/`.

## The system

| Component | State | Operations | Hard because |
|---|---|---|---|
| Worker runner (`worker/runner.py`, `heartbeat.py`, `recovery.py`) | `_inflight`, `_stopping`; per task: the claimed `JobRow`, a heartbeat task | claim loop, `_execute_job`, `_finish_heartbeat`, `_record_result`, `_return_job_to_pending`, `_shutdown_inflight`, purge loop | everything runs concurrently with other workers; results may be late; cancellation can hit any `await`; commits may be acknowledged late or never |
| Job state transitions (`repositories/job_sql.py`, `job_state.py`) | `status`, `attempt_count`, `locked_by`, `locked_until`, `available_at`, `completed_at`; attempt rows | extend, return, complete, fail, recover, cancel, purge | each is guarded by `(id, locked_by, status)` only; attempt numbers come from the claimed row |
| Claim (`repositories/jobs.py`, `job_sql.py`) | queue rows, row locks, leased counts | recover, lock queues, pick with `SKIP LOCKED`, lease | two statements with two snapshots under READ COMMITTED; the concurrency limit is shared by all workers |
| Enqueue and replay (`services/enqueue.py`, `services/jobs.py`, `sdk/client.py`) | the caller's open transaction; idempotency keys | insert or return the existing job; replay once | callers wait for each other's keys; rows may be purged meanwhile; errors roll the caller back |
| Queue administration (`repositories/queues.py`) | `paused`, `concurrency_limit` | create, pause, resume, set limit | happens while claims are under way |
| Executors (`worker/http_executor.py`, `python_executor.py`, `dispatcher.py`, `backoff.py`) | the request under way, the client's idle connections, the handler call | dispatch, resolve, connect, read a preview, classify, retry delay | the target, the name service and handlers are not under control; timers at two levels and a shutdown end the same execution |
| Connection pool (`config/settings.py`, `db/session.py`) | connections in use and waited for | check out and in | loops, heartbeats and recording share it |
| Worker registry (`repositories/workers.py`) | `last_heartbeat_at` | register, heartbeat, list | a saturated worker writes no heartbeat |
| Purge (`services/purge.py`) | final jobs and their age | delete a batch, with attempts; batches until done | no second look at the status; several purgers |
| Drain (`cli/commands_jobs.py`) | two counts, a deadline | count pending, count leased, decide | two snapshots of a moving queue |
| Doctor (`cli/commands_doctor.py`) | one transaction, two answers | look for stale jobs, then for living workers | two snapshots of a moving system, with a clock that stands still |
| Auth, stats, API, schemas, validation, redaction, logging, metrics, migrations | see "Not modelled" | | |

What makes each correct: a lease is held by one worker at a time, and ends once,
in an attempt row or in a returned attempt; final states are final; every job
reaches one; limits hold across workers; a clean shutdown leaves no lease; a key
names one job; a caller's transaction is the caller's; an execution ends in time
whatever its target does, and its job comes to an end; nobody waits for a
connection until a lease expires; the registry says who is alive.

## Modules

* `JobLifecycle` is the core: job rows, attempt rows, worker processes and their
  tasks. One action is one committed transaction, one completion of an asyncio
  task, or one step of the environment (time, signals, crashes, database errors).
  Statements of `job_sql.py` are functions from a row to a row (`ClaimedRow`,
  `FailedRow`, `RecoveredRow`, ...) and actions apply them under the statement's
  guard (`Owned`, `Claimable`, `IsExpired`, ...). Times are kept as far as WHERE
  clauses tell them apart: a lease is live or expired, a job due or in the future,
  a finished job recent or past its retention. A task carries the `attempt_count`
  of the row that the claim returned (`number`), because `fail_job` and
  `_insert_attempt` use that and not the row. Three ghosts: `claims` numbers the
  leases of a job, `faulted` holds processes that crashed or met a database error,
  and each attempt row has the `outcome` it was recorded for: the status `failed`
  stands for retryable and permanent failures alike, and who may declare a job
  dead depends on which it was. Queues are left to `ClaimTxn`: a claim takes any
  claimable jobs that fit the batch.
* `JobContract` is the promised life of a job without workers, leases or tasks:
  the status machine of `docs/architecture.md`, the count and the history. A job
  with attempts left ends as a dead letter only by a permanent failure; a retryable
  failure, a timeout or an expired lease is retried.
  `JobLifecycle!ImplementsContract` says that the system implements it.
* `ClaimTxn` opens the claim transaction, which `JobLifecycle` takes in one step:
  recovery, the statement that locks the queues, the claim statement with its
  snapshot, its locks and its picks, commit or rollback; around it inserts in
  open transactions (whose foreign key share-locks the queue row), results, and
  queue updates. Queue names are numbers so that `ORDER BY name` is `<`.
* `EnqueueTxn` opens the caller's transaction around `insert_job` and `replay`:
  the unique index that makes an insert wait, the conflict and the second select,
  the foreign key of `replayed_from_job_id`, failing statements and the rollback
  that `insert_job` then does, and what the caller makes of an error.
* `JobCommands` holds the drain and purge commands against tables that live. drain
  counts by two snapshots. purge picks a batch by its snapshot, takes the rows one
  by one in any order, waits where another purger has deleted a row and not yet
  committed, and passes over rows that are gone.
* `Execution` opens what `JobLifecycle` takes in one step (`ExecutionEnds`, with
  any outcome): one job, attempt after attempt, in a worker whose lease does not
  expire before its task has ended. Phases of a request, the timer of each httpx
  operation and the timer around the whole execution, addresses and reused
  connections, the preview, handlers that swallow or raise cancellations,
  shutdowns, and the retry delay with its jitter. Between the end of an execution
  and its recording the task awaits its heartbeat and the database: there
  (`recording`) a shutdown gives the job back with its result lost, and a failing
  heartbeat or commit leaves it `abandoned` until the lease is recovered. The
  ghost `answer` says what became of the last request's success. The module
  implements `JobContract` as well.
* `WorkerProcess` opens the process: which of its loops and tasks waits for or uses
  a connection, its row in `pgrelay_worker`, and the doctor command. A minute is
  one tick; jobs are only free, executing or finishing slots. doctor's statements
  share a transaction: each has its own snapshot, but `now()` is the time at which
  the transaction began. `counted` holds the workers that are alive by that clock:
  those alive at some moment since, whose row is still there. `Watch` keeps it up
  to date in every step, together with the ghost `grounds`.
* `MCJobLifecycle`, `MCClaimTxn` and `MCEnqueueTxn` instantiate them for TLC.
* `JobLifecycleProofs`, `JobTaskProofs`, `JobTimelyProofs`, `ClaimTxnProofs`,
  `EnqueueTxnProofs`, `JobCommandsProofs`, `ExecutionProofs` and
  `WorkerProcessProofs` hold the theorems.

Definitions named `Mut_...` are mutants: forms of the definition below them that
a plausible bug would give it. No specification uses them; `PROJECT.json` pairs
each with the property that must then fail.

How they fit together: `JobContract` is implemented by `JobLifecycle` (all
workers, any outcome of an execution) and by `Execution` (one job, every outcome
derived from the code); `ClaimTxn`, `EnqueueTxn` and `JobCommands` open single
transactions of `JobLifecycle`; `WorkerProcess` justifies its assumption that
heartbeats are not held up by the pool.

### Handlers that cancel themselves

`PythonHandlerExecutor` re-raises `CancelledError`, also one that the handler let
out on its own (an inner task that was cancelled, say). `_execute_job` takes it
for its own cancellation: the job is returned, at once and with its attempt.
`SelfCancelling` says whether handlers do that. `JobRaces` allows it, and so do the
theorems of `JobLifecycleProofs`. `StartsBounded` is false for such handlers, since
`max_attempts` does not bound them; the runs and theorems with timely heartbeats
leave them out. A return that is cut short by a second
cancellation leaves the lease to expire (`ReturnCancelled`); the worker then counts
as `faulted` in `CleanExitReturnsLeases`.

### Timely heartbeats

Much of what PgRelay promises depends on a lease outliving the task that holds
it. The code heartbeats every `max(1, lease // 3)` seconds with `lease >= 5`, but
nothing in it stops an event loop or a database from stalling for longer.
`Timely` is therefore a constant. When it is FALSE a lease may expire at any
moment. When it is TRUE a lease does not expire while a task of its holder runs
with a heartbeat that is alive, or records its result; it still expires after a
crash, a failed heartbeat, a lost acknowledgement or a failed recording. Each
property is checked, and proved, under the weakest assumption with which it holds.

## Runs

| Run | Shows | Bounds |
|---|---|---|
| `JobRaces` | `AttemptLedger`, `SuccessFinal`, `DeadLetterJustified`, `CleanExitReturnsLeases`, `FinalStable`, types; not timely, handlers may cancel themselves | 2 workers, 1 job, 2 attempts, 3 claims |
| `JobTimely` | `FencedResults`, `NoExhaustedPending`, `AttemptsNumbered`, `InflightBound`, `StartsBounded`, `ImplementsContract`; timely | 2 workers (one mortal), 2 jobs in batches of 2, 2 slots, 2 attempts, 3 claims each |
| `JobLiveness` | `Settles`, `StopLeadsToExit`; timely, fair | 1 mortal and 1 immortal worker, 1 job |
| `JobStaleTask` (violation) | `NoExhaustedPending` fails when not timely | 1 worker, 1 job, 2 attempts |
| `ClaimLimits` | `LimitKept`, `ClaimsDisjoint`, `NoWaitCycle`, `PausedIsQuiet`, types, with queues created, paused, resumed and limited at any point | 2 workers, 2 queues, 2 jobs in one of them, limits 1 and 2 |
| `ClaimOpening` (violation) | `NoOversubscription` fails when a queue opens between the two statements | 1 queue, limit 1 |
| `EnqueueKeys` | `SameKeySameJob`, `ReplaysWellFounded`, `OutboxKept`, types and row ownership; callers may go on after errors | 2 callers, 3 ids, 1 key, 2 requests each |
| `EnqueueCatch` (violation) | `OutboxIntact` fails for a caller that catches an error and goes on | 2 callers, 2 ids |
| `Commands` | `DrainReturns` under any traffic, `QuietDrainWasEmpty` when jobs only move forward; `PurgeReturns`, `SoloPurgeComplete`, `PurgeCountsExact` next to a worker that purges | 3 jobs, batches of 2 |
| `DrainRetries` (violation) | `DrainedWasEmpty` fails when leases end in pending | 1 job |
| `Executions` | `EndsInTime`, `PublicPeer`, `DeliveriesCounted`, `BackoffGrows`, `RedeliveredOnlyIfCut`, `ImplementsContract`, `JobEnds`, types | 3 attempts, timers of 1 and 2 (+1) seconds, a preview of a chunk and a half, one public and one private address, answers 200, 302, 429, 500, 1 shutdown, recordings that fail at any time |
| `WorkerPool` | `PoolSuffices`, `SeenAlive`, `AlarmJustified`, `ComesBackAlive` | 2 slots, pools of 3 and 4 connections, alive for 2 ticks, doctor at any point |

`LimitKept`, `OutboxKept` and `QuietDrainWasEmpty` are the parts of
`NoOversubscription`, `OutboxIntact` and `DrainedWasEmpty` that the code does
deliver; the violation runs show that the statements in full do not hold.

Why these bounds are enough to be of use. Job rows interact only through batches
and slots, so late heartbeats are explored with one job and batches with two. Two
attempts give a first, a last and an exhausted attempt.
Three claims of two attempts let a job be returned or recovered and claimed again
by either worker while an old task still lives, which is the case that matters
when heartbeats are late. `Concurrency = 2` lets one worker hold a stale and a
new task of the same job. For limits one needs two claims under way, two jobs in
one queue and a second queue for lock order. For keys, two callers and enough ids
that a key can be used, purged and used again. In `JobLiveness` the bound
`MaxClaims` is not reached: each claim of the job ends in one of two attempts or
in a return by the worker that shuts down, which can happen at most
`Concurrency` times.

In `Executions` three attempts give two delays, of which the second is at the cap;
`MaxTicks` is above every timer, so only a handler that swallows its cancellation
meets it, and `MaxSends` only ends the endless restarts of a handler that cancels
itself (both are left out of the properties that they could touch). In
`Commands` three old jobs make a full batch, a partial one and, with another
purger, an empty one. In `WorkerPool` the pool of 3 is the one that
`validate_runtime` refuses for 2 slots and 4 the smallest that it accepts; other
workers are one row that is missing, old or alive.

`CHECK_DEADLOCK FALSE` stands where the system may stop: all workers down, or no
caller with anything left to ask.

### Fairness

`JobLifecycle!Fairness`: leases expire and delays pass (time); the claim loop, the
start and the shutdown sequence of a process that lives go on (asyncio; every
database call is under `statement_timeout`, `command_timeout` and `lock_timeout`,
`db/session.py`); each task advances (every execution runs under
`asyncio.timeout`, and a cancelled one is awaited). Handlers that block the event
loop or swallow cancellation break this, as they would break the worker. Nothing
is assumed about inserts, cancels, purges, stops, crashes, failures or
heartbeats.

`JobCommands!Fairness`: the commands go on and the clock runs; PostgreSQL hands a
row to a transaction that waits for it (strong fairness: the row may be taken and
released many times), and `lock_timeout` or deadlock detection ends a wait.
Workers need not begin or commit a batch. `Execution!Fairness`: the worker claims
and dispatches, time passes and timers fire, a recording ends one way or the
other, and an abandoned lease is recovered (another worker, or this one's next
claim); target, name service and handler need not do anything.
`WorkerProcess!Fairness`: loops, sessions and executions end; connections are
handed out first come first served, and a worker heartbeat that is tried again and
again succeeds at last (strong fairness for `Checkout` and `Heartbeat`). Starts,
stops, crashes, errors and deletions are never obliged.

## Findings

1. **A stranded job** (`JobStaleTask`; `repositories/job_state.py:99`).
   `should_retry` uses the `attempt_count` of the claimed row. If a lease expires
   under a running task and the *same* worker recovers and claims the job again
   before the old task's next heartbeat, the old task passes the guard
   `(id, locked_by, status)`. On the last attempt its retryable failure makes the
   job `pending` with `attempt_count = max_attempts`: never claimed, recovered or
   purged. `NoStrandedJob` proves that this needs an untimely heartbeat.
2. **A passed limit** (`ClaimOpening`; `repositories/job_sql.py:51`). A queue created
   or resumed between the two statements of a claim is locked only by the second,
   after its snapshot; another worker's leases committed meanwhile are not counted.
3. **A rolled-back caller** (`EnqueueCatch`; `repositories/jobs.py:80`). A failing
   statement rolls back the caller's session; a caller that catches the error and
   commits silently loses what it did before.
4. **Drained, but never empty** (`DrainRetries`; `cli/commands_jobs.py:61`). A lease
   that turns pending between the two counts is in neither.

## Proofs

Every invariant and action property that a passing run checks is also a theorem:
it holds for every set of jobs, workers, queues, callers and ids and every value
of the numeric constants, from the assumptions named in the module that declares
the constants. They say that sets of jobs, queues and slots are finite (the bounds
count them), that "none" values are not members of the sets they stand beside,
that names of the pool's users differ, and that limits, batch sizes and timers are
positive, which the CHECK constraints and `config/settings.py` see to. The bounds
of the models (`MaxClaims`, `MaxOps`, `MaxTicks`, ...) are any natural numbers, so
the theorems do not depend on them.

Each proof module first says what every action does to the rows ("effect" lemmas),
then proves an inductive invariant from that, one step per action, and derives
the properties from it.

### Jobs and workers, without any timing assumption

* `TypeCorrect`, `LedgerBalances` (`JobLifecycleProofs`). Neither is inductive alone:
  that `attempt_count <= max_attempts` survives a recorded attempt needs the ledger,
  and the ledger needs the types of rows and attempts. The inductive invariant is
  `LedgerInv = TypeOK /\ AttemptLedger /\ AbsentUnused`. Each action has a lemma;
  the claim loop, which recovers and claims in one transaction, goes through
  `ClaimEffect` and `ClaimFacts`, which say what it does to one job.
* `FinalStates`, `SuccessOnce`. `NextRowStep` classifies what any step may do to
  one job (`RowStep`: stay, insert, cancel, lease, extend, record, return, recover,
  recover and lease, purge); both theorems then argue about rows only.
* `DeadLettersJustified` (`JobTaskProofs`). A stale task records with an outdated
  `attempt_count`; that this never declares a job dead too early, unless its last
  attempt failed for good (by its outcome, not by its status), rests on
  `NumbersOverdue`: no task believes in more attempts than its job has rows, plus
  its own.
* `InflightBounded`. The claim loop asks for at most the free slots; its batch and
  the tasks under way are different tasks or fewer.
* `CleanExit`. `TendedInv`: tasks belong to processes that run, and every lease of a
  process that met no fault has a task that answers for it (it executes, or records
  or returns). A task that goes takes its lease along, so a process without tasks has
  no leases.

### With timely heartbeats and no handler that cancels itself

`JobTimelyProofs`, `ASSUME Timely, ~ SelfCancelling`. The first assumption is the
subject of "Timely heartbeats" above; `JobStaleTask` shows that it is needed.

* `Fencing`, `NoStrandedJob`, `HistoryNumbered`, `Refinement`. `FencedResults` is not
  inductive: that a vouching task cannot meet a newer lease of its own worker
  holds because its job stays leased and unexpired to that worker until the worker
  cancels its tasks, after which it claims nothing. `TimelyInv` adds this
  discipline (`LeaseDiscipline`: at most one task per lease; every task's worker is
  running; a vouching task owns its lease unless the worker is cancelling). From
  it, a recorded result has the current `attempt_count`, so `should_retry` is right
  and attempts are numbered in order, and each row step is a step of `JobContract`.
* `Starts`. `StartsCounted`: while nobody is asked to stop or killed, no attempt
  is given back, and `attempt_count` is the number of leases granted, until the
  job is purged.

### Claims (`ClaimTxnProofs`)

None of the properties is inductive, since each is about what locks keep from
changing between the statement that reads and the commit that acts. `ClaimInv`
says it for every transaction: the rows it has written are locked by it and as it
found them (`JobsHeld`); it holds the queue rows of the first statement, taken in the
order of their names (`QueuesHeld`); in a queue that it locked in time its snapshot
still covers every lease that will remain, and its picks fit (`SnapshotHolds`).
`Undisturbed` shows that a step of somebody else, who cannot have the same locks,
leaves this alone. From it: `ClaimedOnce`, `PauseHolds`, `LimitHolds` (a claim adds at
most the free slots of its snapshot, and the snapshot counts all leases), and
`WaitsInOrder`, by which names go up along any chain of claims that wait for queue
rows; there is no cycle of any length, of which `NoDeadlock` is the case of two.

### Enqueue and replay (`EnqueueTxnProofs`)

`EnqueueInv`: an uncommitted row belongs to one open transaction; of two rows with
one key only one is live (the unique index); what committed or waiting callers
were answered is still that job, unless it was purged; a replay names a finished
source that is still there (the foreign key), and a replay request that has passed
its check still will, unless the source is gone. From it: `EnqueueTypeCorrect`,
`KeyNamesOneJob`, `ReplaysFounded`. `OutboxHolds` adds `ToldIsWritten`, which speaks of
transactions between and within requests; `OutboxKept` only of those between.

### Drain and purge (`JobCommandsProofs`)

* `QuietDrains`. `QuietInv`: in a queue that nobody feeds a first count of zero stays
  true, so the moment of the second count of zero is the empty one. With leases
  that return to pending the first part is lost (`DrainRetries`).
* `PurgesCounted`. `RowsHeld`: rows that a batch has deleted and not committed are
  still old to everybody else, and the two batches share none; a commit therefore
  adds to the purged jobs exactly the rows that it reports.
* `SoloPurges`. `SoloInv`: jobs that were old when the purge began are old or purged;
  while it is alone its batch loses no row, and is full or holds all that is left of
  those jobs, so a partial batch is the last one.

### Executions (`ExecutionProofs`)

`ExecInv`: types; the job is leased exactly while an execution is under way or its
result is still to be recorded or recovered (`Phased`); attempts are numbered, and
each delay is one that its number allows (`Numbered`). From it:
`ExecutionTypeCorrect`, `DelaysGrow` (arithmetic on `RetryDelays` for every base,
cap and jitter), `ExecutionsEnd`, `PeersPublic`, and `ExecutionRefinement`, the
second implementation of `JobContract`. `DeliveriesBounded` needs
`DeliveriesOwed`, which counts the request that an execution has yet to send, and
`SuccessNotRepeated` needs `AnswerKept`: a success that was not cut is being read,
waits to be recorded, or is recorded. That one that was cut is sent again is what
`docs/production.md` warns of.

### The worker process (`WorkerProcessProofs`)

`PoolIsEnough`: each task has at most one session, because its heartbeat is over
before it records (`OneSessionPerTask`), so sessions map one to one to the two loops
and the slots. `WorkersSeenAlive`: `RowFresh` bounds the age of the worker's row at
each place of its loop. `AlarmsJustified`: `AlarmInv` says that whoever is alive
during doctor's transaction counts, and that once doctor has seen a stale job
either somebody counts or there are grounds. The second can only be lost by a
deletion, because a row does not age by a clock that stands still; with a clock
per statement it would be (the mutant of `AlarmJustified`).

### Only model-checked

Liveness: `Settles`, `StopLeadsToExit`, `DrainReturns`, `PurgeReturns`, `JobEnds` and
`ComesBackAlive`. They rest on weak and strong fairness, whose proof needs ENABLED,
which the prover does not reason about. What the four violation runs refute is, of
course, not provable; the proved parts of those statements are named above.

## Plan

1. Done: all modules, and theorems for all safety properties that the runs check.
2. The safety half of the liveness properties: what keeps `drain` and `purge` from
   standing still (some step of theirs is always possible while they run) stated
   as invariants, without ENABLED.
3. A pause or limit that changes between a claim's statements is covered; claims
   that meet queues which opened in between are not part of `WaitsInOrder`, and the
   limit they may pass is finding 2. Should the code lock queues in one statement,
   `ClaimInv` is where the proof would become simpler.

## Not modelled

* Payloads, headers, URL syntax, allowed hosts and base64 bodies: whether a check
  accepts a request is a choice (`Setups` in `Execution`, the requests of
  `EnqueueTxn`); which strings it accepts is a matter for unit tests. Address checks
  appear as two sets of addresses.
* An unknown job kind in `JobDispatcher`: the table's CHECK constraint excludes it.
* Registration of handlers: it happens before the worker runs; a missing handler is
  modelled.
* Authentication: one header is compared with two fixed sets of tokens.
* Statistics and planner estimates, list and get: they read and decide nothing.
* API routing, request schemas and error rendering: no state beyond the session,
  whose commit and rollback `EnqueueTxn` models.
* Redaction, logging, metrics, migrations, parsing of settings: output and
  installation.
* What doctor's checks of the server version, the tables and the default queue find:
  they ask about the installation, and only end the command early.
* Priorities and ordering only choose among claimable jobs, and the models let any
  of them be chosen; the same goes for the order of purges.
* PostgreSQL, SQLAlchemy's pool, httpx and asyncio are modelled from how the code
  uses them: READ COMMITTED snapshots, row locks, `SKIP LOCKED`, unique index,
  foreign keys, `lock_timeout`; one connection per session; one timer per network
  operation; cancellation at an `await`.
* Two waits that only the database ends have no property: a claim that meets queues
  which opened between its statements (`NoWaitCycle` leaves them out, `Rollback` ends
  the wait) and callers that use several keys in opposite orders (`StatementFails`
  ends it).
