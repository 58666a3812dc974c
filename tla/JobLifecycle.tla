---------------------------- MODULE JobLifecycle ----------------------------
(***************************************************************************)
(* The life of PgRelay jobs: the rows of pgrelay_job and pgrelay_attempt,  *)
(* the worker processes that claim, heartbeat, execute and record them     *)
(* (worker/runner.py, worker/heartbeat.py, worker/recovery.py), and the    *)
(* guarded UPDATE statements through which every transition goes           *)
(* (repositories/job_sql.py, repositories/job_state.py).                   *)
(*                                                                         *)
(* One action is one committed database transaction, one completion of an  *)
(* asyncio task, or one step of the environment (time, signals, crashes,   *)
(* database errors).  Every transaction here touches each job row through  *)
(* a row lock and a re-checked WHERE clause, so it takes effect atomically *)
(* at its commit.  Queues, priorities, concurrency limits and SKIP LOCKED  *)
(* decide WHICH claimable rows a claim takes; here a claim may take any    *)
(* subset that fits the batch.                                             *)
(***************************************************************************)
EXTENDS Integers, Sequences, FiniteSets

CONSTANTS
    Jobs,            \* ids of the jobs that may be enqueued
    Workers,         \* worker ids, one per process ever started
    NoWorker,        \* SQL NULL in locked_by
    Mortal,          \* workers that may be asked to stop or may be killed
    MaxAttempts,     \* max_attempts of every job
    Concurrency,     \* settings.worker_concurrency
    BatchSize,       \* settings.worker_batch_size
    PurgeBatchSize,  \* settings.purge_batch_size
    MaxClaims,       \* bound: how often one job may be claimed (ghost)
    Timely,          \* TRUE: a lease never expires under a live heartbeat
    SelfCancelling   \* TRUE: a handler may let a CancelledError of its own out

ASSUME JobsAssumption == IsFiniteSet(Jobs)
ASSUME NoWorkerAssumption == NoWorker \notin Workers
ASSUME MortalAssumption == Mortal \subseteq Workers
ASSUME MaxAttemptsAssumption == MaxAttempts \in Nat \ {0}
ASSUME BoundsAssumption ==
    /\ Concurrency \in Nat \ {0}
    /\ BatchSize \in Nat \ {0}
    /\ PurgeBatchSize \in Nat \ {0}
    /\ MaxClaims \in Nat
ASSUME TimelyAssumption == Timely \in BOOLEAN
ASSUME SelfCancellingAssumption == SelfCancelling \in BOOLEAN

VARIABLES
    job,       \* job[j]: the pgrelay_job row of j
    attempts,  \* attempts[j]: the pgrelay_attempt rows of j, oldest first, each
               \* with (ghost) the outcome that it was written for
    worker,    \* worker[w]: where WorkerRunner.run of process w stands
    tasks,     \* the _execute_job tasks in every process's _inflight
    claims,    \* ghost: how many leases of j have been granted
    faulted    \* ghost: processes that crashed, met a database error or had
               \* a return of a lease cut short

vars == <<job, attempts, worker, tasks, claims, faulted>>

-----------------------------------------------------------------------------
(* Types *)

Final == {"succeeded", "dead_letter", "cancelled"}

Statuses == {"absent", "pending", "leased", "purged"} \cup Final

\* A row; times are kept only as far as the WHERE clauses tell them apart.
Rows == [status        : Statuses,
         attempt_count : 0..MaxAttempts,
         locked_by     : Workers \cup {NoWorker},
         locked_until  : {"null", "live", "expired"},
         available_at  : {"due", "future"},
         completed_at  : {"null", "recent", "old"}]

AttemptStatuses == {"succeeded", "failed", "timeout", "lease_expired"}

Outcomes == {"succeeded", "retryable_failure", "permanent_failure", "timeout"}

\* The column status says "failed" of a retryable and of a permanent failure
\* alike; the ghost field tells them apart.
Attempt == [number  : 1..MaxAttempts,
            status  : AttemptStatuses,
            outcome : Outcomes \cup {"lease_expired"}]

\* An _execute_job task: "number" is attempt_count in the JobRow that the
\* claim returned; "lease" (ghost) is the lease that the task was made for.
Task == {t \in [worker    : Workers,
                job       : Jobs,
                lease     : Nat,
                number    : 1..MaxAttempts,
                phase     : {"running", "recording", "returning"},
                heartbeat : {"beating", "failed", "lost", "cancelled"},
                outcome   : Outcomes \cup {"none"}] :
         t.phase = "recording" => t.outcome # "none"}

\* up: in the claim loop; stopping: request_stop was called, an iteration may
\* still be under way; closing: that iteration is over; grace and cancelling:
\* before and after the grace period in _shutdown_inflight.
WorkerStates == {"new", "up", "stopping", "closing", "grace", "cancelling", "down"}

-----------------------------------------------------------------------------
(* Statements of the repository, as functions from a row to a row *)

NoRow(status) ==
    [status |-> status, attempt_count |-> 0, locked_by |-> NoWorker,
     locked_until |-> "null", available_at |-> "due", completed_at |-> "null"]

InsertedRow(at) == [NoRow("pending") EXCEPT !.available_at = at]

Mut_Claimable(r) ==
    /\ r.status = "pending"
    /\ r.available_at = "due"
    /\ r.attempt_count <= MaxAttempts

Claimable(r) ==
    /\ r.status = "pending"
    /\ r.available_at = "due"
    /\ r.attempt_count < MaxAttempts

ClaimedRow(r, w) ==
    [r EXCEPT !.status = "leased", !.locked_by = w, !.locked_until = "live",
              !.attempt_count = @ + 1]

\* The guard shared by every statement that a lease holder runs.
Mut_Owned(j, w) == job[j].status # "absent"

Owned(j, w) == job[j].status = "leased" /\ job[j].locked_by = w

ExtendedRow(r) == [r EXCEPT !.locked_until = "live"]

Mut_ReturnedRow(r) ==
    [r EXCEPT !.status = "pending", !.locked_by = NoWorker, !.locked_until = "null"]

ReturnedRow(r) ==
    [r EXCEPT !.status = "pending", !.locked_by = NoWorker, !.locked_until = "null",
              !.attempt_count = IF @ - 1 > 0 THEN @ - 1 ELSE 0]

CompletedRow(r) ==
    [r EXCEPT !.status = "succeeded", !.locked_by = NoWorker, !.locked_until = "null",
              !.completed_at = "recent"]

\* should_retry is computed from the claimed JobRow, not from the row.
Mut_ShouldRetry(t) ==
    /\ t.outcome \in {"retryable_failure", "timeout"}
    /\ t.number <= MaxAttempts

\* Only a timeout is taken for retryable.
Mut_ShouldRetryTimeoutOnly(t) == t.outcome = "timeout" /\ t.number < MaxAttempts

ShouldRetry(t) ==
    /\ t.outcome \in {"retryable_failure", "timeout"}
    /\ t.number < MaxAttempts

FailedRow(r, t) ==
    IF ShouldRetry(t)
    THEN [r EXCEPT !.status = "pending", !.locked_by = NoWorker, !.locked_until = "null",
                   !.available_at = "future"]
    ELSE [r EXCEPT !.status = "dead_letter", !.locked_by = NoWorker,
                   !.locked_until = "null", !.completed_at = "recent"]

\* complete_job or fail_job, by the task's outcome.
RecordedRow(r, t) ==
    IF t.outcome = "succeeded" THEN CompletedRow(r) ELSE FailedRow(r, t)

RecordedAttempt(t) ==
    [number  |-> t.number,
     status  |-> IF t.outcome \in {"succeeded", "timeout"} THEN t.outcome ELSE "failed",
     outcome |-> t.outcome]

IsExpired(r) == r.status = "leased" /\ r.locked_until = "expired"

Exhausted(r) == r.attempt_count >= MaxAttempts

\* Recovery gives the attempt back, as a return does.
Mut_RecoveredRow(r) ==
    IF Exhausted(r)
    THEN [r EXCEPT !.status = "dead_letter", !.locked_by = NoWorker,
                   !.locked_until = "null", !.completed_at = "recent"]
    ELSE ReturnedRow(r)

RecoveredRow(r) ==
    IF Exhausted(r)
    THEN [r EXCEPT !.status = "dead_letter", !.locked_by = NoWorker,
                   !.locked_until = "null", !.completed_at = "recent"]
    ELSE [r EXCEPT !.status = "pending", !.locked_by = NoWorker, !.locked_until = "null"]

ExpiredAttempt(r) ==
    [number |-> r.attempt_count, status |-> "lease_expired", outcome |-> "lease_expired"]

Mut_Cancellable(r) == r.status \in {"pending", "dead_letter"}

Cancellable(r) == r.status = "pending"

CancelledRow(r) == [r EXCEPT !.status = "cancelled", !.completed_at = "recent"]

Purgeable(r) == r.status \in Final /\ r.completed_at = "old"

-----------------------------------------------------------------------------
(* Worker-side helpers *)

Inflight(w) == {t \in tasks : t.worker = w}

Mut_FreeSlots(w) == Concurrency

FreeSlots(w) == Concurrency - Cardinality(Inflight(w))

Claiming(w) == worker[w] \in {"up", "stopping"}

NewTask(w, j, row) ==
    [worker |-> w, job |-> j, lease |-> claims[j] + 1, number |-> row.attempt_count,
     phase |-> "running", heartbeat |-> "beating", outcome |-> "none"]

\* _finish_heartbeat: a heartbeat that is still looping, or that saw the
\* execution finish, counts as owning the lease; one that failed or found
\* the lease gone does not.
Mut_LeaseOwned(t) == TRUE

LeaseOwned(t) == t.heartbeat = "beating"

Replace(t, u) == (tasks \ {t}) \cup {u}

\* A task whose heartbeat still vouches for its lease.
Vouching(t) ==
    \/ t.phase = "running" /\ t.heartbeat = "beating"
    \/ t.phase = "recording"

-----------------------------------------------------------------------------
(* Transactions of the API, the SDK and the purge *)

InsertJob(j) ==
    /\ job[j].status = "absent"
    /\ \E at \in {"due", "future"} : job' = [job EXCEPT ![j] = InsertedRow(at)]
    /\ UNCHANGED <<attempts, worker, tasks, claims, faulted>>

CancelPendingJob(j) ==
    /\ Cancellable(job[j])
    /\ job' = [job EXCEPT ![j] = CancelledRow(@)]
    /\ UNCHANGED <<attempts, worker, tasks, claims, faulted>>

\* The attempts of a deleted job go with it (ON DELETE CASCADE).
PurgeBatch ==
    \E P \in SUBSET {j \in Jobs : Purgeable(job[j])} :
        /\ P # {}
        /\ Cardinality(P) <= PurgeBatchSize
        /\ job' = [j \in Jobs |-> IF j \in P THEN NoRow("purged") ELSE job[j]]
        /\ attempts' = [j \in Jobs |-> IF j \in P THEN <<>> ELSE attempts[j]]
        /\ UNCHANGED <<worker, tasks, claims, faulted>>

-----------------------------------------------------------------------------
(* The worker process *)

StartWorker(w) ==
    /\ worker[w] = "new"
    /\ worker' = [worker EXCEPT ![w] = "up"]
    /\ UNCHANGED <<job, attempts, tasks, claims, faulted>>

\* One iteration of _claim_loop that commits: expired leases R are recovered
\* and jobs C, perhaps just recovered, are claimed in the same transaction.
\* If the commit's answer is lost (acked = FALSE) the loop takes its except
\* branch and no task is made for the rows it leased.  The code computes
\* free_slots before the claim's statements run; until they commit tasks of w
\* can only end, so that number is at most FreeSlots(w) here, and C may be of any
\* smaller size.
ClaimLoop(w) ==
    /\ Claiming(w)
    /\ FreeSlots(w) > 0
    /\ \E R \in SUBSET {j \in Jobs : IsExpired(job[j])} :
       LET row == [j \in Jobs |-> IF j \in R THEN RecoveredRow(job[j]) ELSE job[j]] IN
       \E C \in SUBSET {j \in Jobs : Claimable(row[j]) /\ claims[j] < MaxClaims},
          acked \in BOOLEAN :
        /\ Cardinality(R) <= BatchSize
        /\ Cardinality(C) <= BatchSize
        /\ Cardinality(C) <= FreeSlots(w)
        /\ job' = [j \in Jobs |-> IF j \in C THEN ClaimedRow(row[j], w) ELSE row[j]]
        /\ attempts' = [j \in Jobs |-> IF j \in R
                                       THEN Append(attempts[j], ExpiredAttempt(job[j]))
                                       ELSE attempts[j]]
        /\ claims' = [j \in Jobs |-> IF j \in C THEN claims[j] + 1 ELSE claims[j]]
        /\ tasks' = IF acked
                    THEN tasks \cup {NewTask(w, j, ClaimedRow(row[j], w)) : j \in C}
                    ELSE tasks
        /\ faulted' = IF acked THEN faulted ELSE faulted \cup {w}
    /\ worker' = [worker EXCEPT ![w] = IF @ = "stopping" THEN "closing" ELSE @]

RequestStop(w) ==
    /\ w \in Mortal
    /\ worker[w] = "up"
    /\ worker' = [worker EXCEPT ![w] = "stopping"]
    /\ UNCHANGED <<job, attempts, tasks, claims, faulted>>

\* The loop looks at _stopping only between iterations, and a saturated
\* worker first waits for one of its tasks (_wait_for_one_inflight).
ObserveStop(w) ==
    /\ worker[w] \in {"stopping", "closing"}
    /\ FreeSlots(w) > 0
    /\ worker' = [worker EXCEPT ![w] = "grace"]
    /\ UNCHANGED <<job, attempts, tasks, claims, faulted>>

\* asyncio.wait in _shutdown_inflight times out; what is still pending is
\* cancelled, each task at its own next await (ExecutionCancelled below).
GraceExpires(w) ==
    /\ worker[w] = "grace"
    /\ Inflight(w) # {}
    /\ worker' = [worker EXCEPT ![w] = "cancelling"]
    /\ UNCHANGED <<job, attempts, tasks, claims, faulted>>

Mut_WorkerExit(w) ==
    /\ worker[w] = "cancelling"
    /\ Inflight(w) = {}
    /\ worker' = [worker EXCEPT ![w] = "down"]
    /\ UNCHANGED <<job, attempts, tasks, claims, faulted>>

WorkerExit(w) ==
    /\ worker[w] \in {"grace", "cancelling"}
    /\ Inflight(w) = {}
    /\ worker' = [worker EXCEPT ![w] = "down"]
    /\ UNCHANGED <<job, attempts, tasks, claims, faulted>>

\* The process is killed: its tasks vanish and its leases stay in the table.
Crash(w) ==
    /\ w \in Mortal
    /\ worker[w] \notin {"new", "down"}
    /\ worker' = [worker EXCEPT ![w] = "down"]
    /\ tasks' = tasks \ Inflight(w)
    /\ faulted' = faulted \cup {w}
    /\ UNCHANGED <<job, attempts, claims>>

-----------------------------------------------------------------------------
(* The _execute_job task *)

\* One turn of run_lease_heartbeat: the lease is extended, or it is found
\* gone and the execution is asked to cancel.
Heartbeat(t) ==
    /\ t.phase = "running" /\ t.heartbeat = "beating"
    /\ IF Owned(t.job, t.worker)
       THEN /\ job' = [job EXCEPT ![t.job] = ExtendedRow(@)]
            /\ UNCHANGED tasks
       ELSE /\ tasks' = Replace(t, [t EXCEPT !.heartbeat = "lost"])
            /\ UNCHANGED job
    /\ UNCHANGED <<attempts, worker, claims, faulted>>

\* extend_lease or its commit raises: the heartbeat task is dead and the
\* execution goes on; the UPDATE may have been committed all the same.
HeartbeatFails(t) ==
    /\ t.phase = "running" /\ t.heartbeat = "beating"
    /\ tasks' = Replace(t, [t EXCEPT !.heartbeat = "failed"])
    /\ \/ UNCHANGED job
       \/ /\ Owned(t.job, t.worker)
          /\ job' = [job EXCEPT ![t.job] = ExtendedRow(@)]
    /\ faulted' = faulted \cup {t.worker}
    /\ UNCHANGED <<attempts, worker, claims>>

\* _dispatch_job returns or raises and _finish_heartbeat decides whether the
\* result will be recorded.
ExecutionEnds(t) ==
    /\ t.phase = "running"
    /\ \E o \in Outcomes :
        tasks' = IF LeaseOwned(t)
                 THEN Replace(t, [t EXCEPT !.phase = "recording",
                                           !.heartbeat = "cancelled", !.outcome = o])
                 ELSE tasks \ {t}
    /\ UNCHANGED <<job, attempts, worker, claims, faulted>>

\* CancelledError reaches _execute_job: from the heartbeat that lost the
\* lease, from the handler itself (PythonHandlerExecutor re-raises it), or from
\* _shutdown_inflight, which may also hit _record_result.  In a returning task
\* the heartbeat is over; "cancelled" then tells a task that the shutdown has
\* cancelled from one that got there before.
ExecutionCancelled(t) ==
    /\ \/ t.phase = "running" /\ (t.heartbeat = "lost" \/ SelfCancelling)
       \/ t.phase \in {"running", "recording"} /\ worker[t.worker] = "cancelling"
    /\ tasks' = Replace(t, [t EXCEPT
                !.phase = "returning",
                !.heartbeat = IF worker[t.worker] = "cancelling" THEN "cancelled" ELSE @])
    /\ UNCHANGED <<job, attempts, worker, claims, faulted>>

\* The attempt row is inserted whether or not the UPDATE matched.
Mut_RecordResult(t) ==
    /\ t.phase = "recording"
    /\ job' = [job EXCEPT ![t.job] = IF Owned(t.job, t.worker) THEN RecordedRow(@, t) ELSE @]
    /\ attempts' = [attempts EXCEPT ![t.job] = Append(@, RecordedAttempt(t))]
    /\ tasks' = tasks \ {t}
    /\ UNCHANGED <<worker, claims, faulted>>

\* _record_result: complete_job or fail_job, with its attempt row, commits.
RecordResult(t) ==
    /\ t.phase = "recording"
    /\ IF Owned(t.job, t.worker)
       THEN /\ job' = [job EXCEPT ![t.job] = RecordedRow(@, t)]
            /\ attempts' = [attempts EXCEPT ![t.job] = Append(@, RecordedAttempt(t))]
       ELSE UNCHANGED <<job, attempts>>
    /\ tasks' = tasks \ {t}
    /\ UNCHANGED <<worker, claims, faulted>>

\* _return_job_to_pending commits.
Mut_ReturnToPending(t) ==
    /\ t.phase = "returning"
    /\ tasks' = tasks \ {t}
    /\ UNCHANGED <<job, attempts, worker, claims, faulted>>

ReturnToPending(t) ==
    /\ t.phase = "returning"
    /\ job' = [job EXCEPT ![t.job] = IF Owned(t.job, t.worker) THEN ReturnedRow(@) ELSE @]
    /\ tasks' = tasks \ {t}
    /\ UNCHANGED <<attempts, worker, claims, faulted>>

\* _shutdown_inflight cancels a task that was already in
\* _return_job_to_pending: the return is rolled back.  After a lost heartbeat
\* there was nothing to return; else the lease is left to expire.
ReturnCancelled(t) ==
    /\ t.phase = "returning" /\ t.heartbeat # "cancelled"
    /\ worker[t.worker] = "cancelling"
    /\ tasks' = tasks \ {t}
    /\ faulted' = IF t.heartbeat = "lost" THEN faulted ELSE faulted \cup {t.worker}
    /\ UNCHANGED <<job, attempts, worker, claims>>

\* The recording or returning transaction fails and rolls back: the task
\* ends and the lease is left to expire.
DatabaseFails(t) ==
    /\ t.phase \in {"recording", "returning"}
    /\ tasks' = tasks \ {t}
    /\ faulted' = faulted \cup {t.worker}
    /\ UNCHANGED <<job, attempts, worker, claims>>

-----------------------------------------------------------------------------
(* Time *)

\* locked_until passes.  When Timely, heartbeats every max(1, lease // 3)
\* seconds keep ahead of the lease and recording is quicker than the lease.
LeaseExpires(j) ==
    /\ job[j].status = "leased" /\ job[j].locked_until = "live"
    /\ Timely => ~ \E t \in tasks : /\ t.job = j
                                    /\ t.worker = job[j].locked_by
                                    /\ Vouching(t)
    /\ job' = [job EXCEPT ![j].locked_until = "expired"]
    /\ UNCHANGED <<attempts, worker, tasks, claims, faulted>>

BecomesDue(j) ==
    /\ job[j].status = "pending" /\ job[j].available_at = "future"
    /\ job' = [job EXCEPT ![j].available_at = "due"]
    /\ UNCHANGED <<attempts, worker, tasks, claims, faulted>>

RetentionPasses(j) ==
    /\ job[j].status \in Final /\ job[j].completed_at = "recent"
    /\ job' = [job EXCEPT ![j].completed_at = "old"]
    /\ UNCHANGED <<attempts, worker, tasks, claims, faulted>>

-----------------------------------------------------------------------------
(* The specification *)

Init ==
    /\ job = [j \in Jobs |-> NoRow("absent")]
    /\ attempts = [j \in Jobs |-> <<>>]
    /\ worker = [w \in Workers |-> "new"]
    /\ tasks = {}
    /\ claims = [j \in Jobs |-> 0]
    /\ faulted = {}

JobNext(j) ==
    \/ InsertJob(j) \/ CancelPendingJob(j)
    \/ LeaseExpires(j) \/ BecomesDue(j) \/ RetentionPasses(j)

WorkerNext(w) ==
    \/ StartWorker(w) \/ ClaimLoop(w)
    \/ RequestStop(w) \/ ObserveStop(w) \/ GraceExpires(w) \/ WorkerExit(w) \/ Crash(w)

\* What moves a task towards its end.
TaskAdvances(t) ==
    \/ ExecutionEnds(t) \/ ExecutionCancelled(t)
    \/ RecordResult(t) \/ ReturnToPending(t) \/ ReturnCancelled(t) \/ DatabaseFails(t)

TaskNext(t) == Heartbeat(t) \/ HeartbeatFails(t) \/ TaskAdvances(t)

Next ==
    \/ \E j \in Jobs : JobNext(j)
    \/ \E w \in Workers : WorkerNext(w)
    \/ \E t \in tasks : TaskNext(t)
    \/ PurgeBatch

Spec == Init /\ [][Next]_vars

-----------------------------------------------------------------------------
(* Fairness.  Timers fire; a running task ends, because every execution is *)
(* under asyncio.timeout, a cancelled one is awaited, and database calls   *)
(* are under statement_timeout; the claim loop and the shutdown sequence   *)
(* of a process that lives keep running.  Nothing obliges anyone to        *)
(* enqueue, cancel, stop, crash or fail.                                   *)

Fairness ==
    /\ \A j \in Jobs : WF_vars(LeaseExpires(j)) /\ WF_vars(BecomesDue(j))
    /\ \A w \in Workers :
        /\ WF_vars(StartWorker(w)) /\ WF_vars(ClaimLoop(w))
        /\ WF_vars(ObserveStop(w)) /\ WF_vars(GraceExpires(w)) /\ WF_vars(WorkerExit(w))
    /\ \A w \in Workers, j \in Jobs :
        WF_vars(\E t \in tasks : t.worker = w /\ t.job = j /\ TaskAdvances(t))

LiveSpec == Spec /\ Fairness

-----------------------------------------------------------------------------
(* Properties *)

\* Every variable has its type; in particular attempt_count never passes
\* max_attempts, whoever claims, returns, records and recovers in whatever
\* order (the CHECKs of db/models.py do not state it).
TypeOK ==
    /\ job \in [Jobs -> Rows]
    /\ attempts \in [Jobs -> Seq(Attempt)]
    /\ worker \in [Workers -> WorkerStates]
    /\ tasks \subseteq Task
    /\ claims \in [Jobs -> Nat]
    /\ faulted \subseteq Workers

\* The attempt ledger balances: attempt_count is the number of attempt rows,
\* plus one while a lease is out.  Each lease ends in exactly one of: an
\* attempt row written by its worker, a lease_expired row written by
\* recovery, or a rolled-back claim (return_leased_job_to_pending).
AttemptLedger ==
    \A j \in Jobs :
        job[j].attempt_count = Len(attempts[j]) + (IF job[j].status = "leased" THEN 1 ELSE 0)

\* Success is recorded once and for good: a succeeded attempt is the last
\* attempt of a succeeded job, and a succeeded job has one.  No late result,
\* recovery or retry follows it (COMPLETE_JOB_SQL's guard).
SuccessFinal ==
    \A j \in Jobs :
        /\ \A i \in DOMAIN attempts[j] :
            attempts[j][i].status = "succeeded" =>
                job[j].status = "succeeded" /\ i = Len(attempts[j])
        /\ job[j].status = "succeeded" =>
            /\ attempts[j] # <<>>
            /\ attempts[j][Len(attempts[j])].status = "succeeded"

\* A job is dead-lettered only when its attempts are used up or its last
\* attempt ended in a permanent failure: never after a retryable failure, a
\* timeout or an expired lease with attempts left (fail_job,
\* RECOVER_EXPIRED_LEASES_SQL), even if a task with an outdated attempt_count
\* records the failure.
DeadLetterJustified ==
    \A j \in Jobs :
        job[j].status = "dead_letter" =>
            \/ job[j].attempt_count = MaxAttempts
            \/ /\ attempts[j] # <<>>
               /\ attempts[j][Len(attempts[j])].outcome = "permanent_failure"

\* A worker never runs more than worker_concurrency tasks, the iteration
\* that overlaps request_stop included.
InflightBound == \A w \in Workers : Cardinality(Inflight(w)) <= Concurrency

\* A worker that exits by itself, without a crash, a database error or a return
\* cut short by the shutdown (see faulted), holds no lease: each was recorded,
\* recovered or returned before run() ended (docs/architecture.md, "Leases and
\* Recovery").
CleanExitReturnsLeases ==
    \A w \in Workers :
        worker[w] = "down" /\ w \notin faulted => \A j \in Jobs : ~ Owned(j, w)

\* Final states are final: a finished job keeps its status, its count and
\* its attempts until purge deletes all of them; late results, stale returns,
\* cancels and recovery change nothing.
FinalStable ==
    [][\A j \in Jobs : job[j].status \in Final =>
        \/ /\ job'[j].status = job[j].status
           /\ job'[j].attempt_count = job[j].attempt_count
           /\ attempts'[j] = attempts[j]
        \/ job'[j].status = "purged" /\ attempts'[j] = <<>>]_vars

\* A pending job has an attempt left.  One that has none is never claimed,
\* never recovered and never purged: it stays pending for ever.
NoExhaustedPending ==
    \A j \in Jobs : job[j].status = "pending" => job[j].attempt_count < MaxAttempts

\* Results are fenced: a task whose heartbeat vouches for its lease, and
\* which the guard (id, locked_by, status) would let through, holds the
\* current lease of the job and knows its current attempt_count.
FencedResults ==
    \A t \in tasks :
        Vouching(t) /\ Owned(t.job, t.worker) =>
            /\ t.lease = claims[t.job]
            /\ t.number = job[t.job].attempt_count

\* The attempt history is numbered 1, 2, 3, ... without gap or repetition,
\* although attempt_number comes from the claimed JobRow and no unique
\* constraint protects it.
AttemptsNumbered ==
    \A j \in Jobs : \A i \in DOMAIN attempts[j] : attempts[j][i].number = i

\* As long as nobody is asked to stop or is killed, a job is started at most
\* max_attempts times: only a shutdown gives attempts back (docs/architecture.md: "If
\* shutdown cancels an in-flight job [...] the claim attempt is rolled back").
\* A handler that lets a CancelledError out breaks it: its attempt is given back
\* too, and the job starts again, at once and without end.
StartsBounded ==
    (\A w \in Workers : worker[w] \in {"new", "up"}) =>
        \A j \in Jobs : claims[j] <= MaxAttempts

\* The refinement mapping to the promised life of a job.
Contract == INSTANCE JobContract WITH
    status        <- [j \in Jobs |-> job[j].status],
    attempt_count <- [j \in Jobs |-> job[j].attempt_count],
    history       <- attempts

\* Workers, leases, tasks, crashes and recovery together implement the
\* documented life of a job: each of its steps, whoever takes it, is a step
\* of JobContract.
ImplementsContract == Contract!Spec

\* Every enqueued job reaches a final state as long as one worker keeps
\* running, however often the others stop, crash or lose database calls.
Settles ==
    \A j \in Jobs :
        job[j].status \in {"pending", "leased"} ~> job[j].status \in Final

\* A worker asked to stop exits, also when it is saturated (the claim loop
\* then first waits for a task) or has nothing to cancel.
StopLeadsToExit ==
    \A w \in Workers : worker[w] = "stopping" ~> worker[w] = "down"

=============================================================================
