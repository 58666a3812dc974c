---------------------------- MODULE WorkerProcess ----------------------------
(***************************************************************************)
(* One worker process as the database and the operator see it: the         *)
(* sessions that its claim loop, its purge loop and its job tasks take     *)
(* from one connection pool (worker/runner.py, config/settings.py), its    *)
(* row in pgrelay_worker (repositories/workers.py), and the doctor         *)
(* command, which tells from those rows whether anybody is at work.        *)
(*                                                                         *)
(* One tick is a minute, the longest poll interval: a row counts as alive  *)
(* for two.  The sessions of the claim loop are taken to be quicker than   *)
(* that.  What the sessions do to jobs is the subject of JobLifecycle.     *)
(***************************************************************************)
EXTENDS Integers, FiniteSets

CONSTANTS
    Slots,       \* one per job that may be in flight
    PoolSizes,   \* values of db_pool_size + db_max_overflow
    AliveTicks,  \* '2 minutes'
    ClaimLoop, PurgeLoop,  \* the two loops, as users of the pool
    NoRow        \* no row in pgrelay_worker

Concurrency == Cardinality(Slots)

ASSUME SlotsAssumption == IsFiniteSet(Slots) /\ Slots # {}
ASSUME PoolAssumption == PoolSizes \subseteq Nat \ {0}
ASSUME TicksAssumption == AliveTicks \in Nat \ {0, 1} /\ NoRow \notin Int
ASSUME UsersAssumption ==
    ClaimLoop # PurgeLoop /\ {ClaimLoop, PurgeLoop} \cap (Slots \X {"heartbeat", "finish"}) = {}

\* Those who take connections: the two loops and, for each job, its lease
\* heartbeat and the transaction that records or returns it.
Users == {ClaimLoop, PurgeLoop} \cup (Slots \X {"heartbeat", "finish"})

VARIABLES
    pool,     \* the size of the connection pool
    session,  \* session[u]: whether u has none, waits for or uses a connection
    loop,     \* where run() stands: "down", "register", the claim loop's "heartbeat",
              \* "claim", "saturated" or "sleep", or "shutdown", when that loop is
              \* over and the tasks are awaited
    slept,    \* minutes slept in the claim loop, 0 or 1
    stop,     \* _stopping is set
    slot,     \* slot[s]: free, or a job task that is executing or finishing
    row,      \* pgrelay_worker: none, or minutes since last_heartbeat_at
    others,   \* the other workers' rows: "none", "old", or one is "alive"
    stale,    \* a pending job was due ten minutes before now()
    doctor,   \* where doctor_async stands
    excused,  \* ghost: since its last heartbeat the loop was saturated, met an
              \* error, or lost its row
    counted,  \* whose last_heartbeat_at is later than two minutes before doctor's
              \* now(), a clock that stands still throughout its transaction
    grounds   \* ghost: since doctor began there was a moment with a stale job and
              \* no worker alive, or a row that counts was deleted

vars == <<pool, session, loop, slept, stop, slot, row, others, stale, doctor, excused,
          counted, grounds>>

process == <<pool, session, loop, slept, stop, slot>>

-----------------------------------------------------------------------------
(* Helpers *)

InLoop == loop \in {"heartbeat", "claim", "saturated", "sleep"}

InUse == Cardinality({u \in Users : session[u] = "using"})

Waiting == Cardinality({u \in Users : session[u] = "waiting"})

Saturated(tasks) == \A s \in Slots : tasks[s] # "free"

Alive == row # NoRow /\ row < AliveTicks

\* This worker and the others, by the clock on the wall and by having a row.
AliveOnes == {w \in {"this", "others"} : IF w = "this" THEN Alive ELSE others = "alive"}

Listed == {w \in {"this", "others"} : IF w = "this" THEN row # NoRow ELSE others # "none"}

\* validate_runtime
ValidRuntime == pool >= Concurrency + 2

\* The top of the claim loop, or the way out of it: the purge task is cancelled
\* and awaited.
Iterate(sessions) ==
    IF stop
    THEN /\ loop' = "shutdown"
         /\ session' = [sessions EXCEPT ![ClaimLoop] = "none", ![PurgeLoop] = "none"]
    ELSE /\ loop' = "heartbeat"
         /\ session' = [sessions EXCEPT ![ClaimLoop] = "waiting"]

-----------------------------------------------------------------------------
(* The connection pool *)

Checkout(u) ==
    /\ session[u] = "waiting" /\ InUse < pool
    /\ session' = [session EXCEPT ![u] = "using"]
    /\ UNCHANGED <<pool, loop, slept, stop, slot, row, others, stale, doctor, excused>>

-----------------------------------------------------------------------------
(* run() and the claim loop *)

StartWorker ==
    /\ loop = "down" /\ ~ stop
    /\ ValidRuntime
    /\ loop' = "register"
    /\ session' = [session EXCEPT ![ClaimLoop] = "waiting", ![PurgeLoop] = "waiting"]
    /\ UNCHANGED <<pool, slept, stop, slot, row, others, stale, doctor, excused>>

\* _register_worker commits: INSERT ... ON CONFLICT DO UPDATE.
Register ==
    /\ loop = "register" /\ session[ClaimLoop] = "using"
    /\ row' = 0
    /\ excused' = FALSE
    /\ Iterate(session)
    /\ UNCHANGED <<pool, slept, stop, slot, others, stale, doctor>>

\* A row that is gone stays gone.
Mut_Heartbeat ==
    /\ loop = "heartbeat" /\ session[ClaimLoop] = "using"
    /\ row' = IF row = NoRow THEN row ELSE 0
    /\ excused' = FALSE
    /\ loop' = "claim"
    /\ session' = [session EXCEPT ![ClaimLoop] = "waiting"]
    /\ UNCHANGED <<pool, slept, stop, slot, others, stale, doctor>>

\* The claim loop leaves the heartbeat to _register_worker.
Mut_HeartbeatSkipped ==
    /\ loop = "heartbeat" /\ session[ClaimLoop] = "using"
    /\ loop' = "claim"
    /\ session' = [session EXCEPT ![ClaimLoop] = "waiting"]
    /\ UNCHANGED <<pool, slept, stop, slot, row, others, stale, doctor, excused>>

\* _heartbeat_worker commits; a row that is gone is registered again.  The
\* claim then takes a session of its own.
Heartbeat ==
    /\ loop = "heartbeat" /\ session[ClaimLoop] = "using"
    /\ row' = 0
    /\ excused' = FALSE
    /\ loop' = "claim"
    /\ session' = [session EXCEPT ![ClaimLoop] = "waiting"]
    /\ UNCHANGED <<pool, slept, stop, slot, others, stale, doctor>>

\* Recovery and claim commit, with jobs for some free slots; the loop waits for
\* a task when there is no free slot left, sleeps when it found nothing, or
\* goes round.
Claim(C) ==
    /\ loop = "claim" /\ session[ClaimLoop] = "using"
    /\ \A s \in C : slot[s] = "free"
    /\ slot' = [s \in Slots |-> IF s \in C THEN "executing" ELSE slot[s]]
    /\ IF Saturated(slot') \/ C = {}
       THEN /\ loop' = IF Saturated(slot') THEN "saturated" ELSE "sleep"
            /\ session' = [session EXCEPT ![ClaimLoop] = "none"]
       ELSE Iterate(session)
    /\ excused' = (excused \/ Saturated(slot'))
    /\ slept' = 0
    /\ UNCHANGED <<pool, stop, row, others, stale, doctor>>

\* An error in the worker's heartbeat, the recovery or the claim, or a
\* connection that cannot be had.
LoopFails ==
    /\ loop \in {"heartbeat", "claim"}
    /\ loop' = "sleep"
    /\ session' = [session EXCEPT ![ClaimLoop] = "none"]
    /\ excused' = TRUE
    /\ slept' = 0
    /\ UNCHANGED <<pool, stop, slot, row, others, stale, doctor>>

\* An error in _register_worker ends run(), through its finally clause.
RegisterFails ==
    /\ loop = "register"
    /\ loop' = "shutdown"
    /\ stop' = TRUE
    /\ session' = [session EXCEPT ![ClaimLoop] = "none", ![PurgeLoop] = "none"]
    /\ UNCHANGED <<pool, slept, slot, row, others, stale, doctor, excused>>

\* The sleep is over, or a task has ended (_wait_for_one_inflight).
WakeUp ==
    /\ loop = "sleep" \/ (loop = "saturated" /\ ~ Saturated(slot))
    /\ Iterate(session)
    /\ UNCHANGED <<pool, slept, stop, slot, row, others, stale, doctor, excused>>

RequestStop ==
    /\ ~ stop /\ loop # "down"
    /\ stop' = TRUE
    /\ UNCHANGED <<pool, session, loop, slept, slot, row, others, stale, doctor, excused>>

\* run() returns.  Its row stays in the table.
Exit ==
    /\ loop = "shutdown" /\ \A s \in Slots : slot[s] = "free"
    /\ loop' = "down"
    /\ UNCHANGED <<pool, session, slept, stop, slot, row, others, stale, doctor, excused>>

Crash ==
    /\ loop # "down"
    /\ loop' = "down"
    /\ stop' = TRUE
    /\ session' = [u \in Users |-> "none"]
    /\ slot' = [s \in Slots |-> "free"]
    /\ UNCHANGED <<pool, slept, row, others, stale, doctor, excused>>

-----------------------------------------------------------------------------
(* The purge loop and the job tasks *)

\* One turn of _purge_loop begins, and ends with or without an error.
PurgeBegins ==
    /\ session[PurgeLoop] = "none" /\ (InLoop \/ loop = "register") /\ ~ stop
    /\ session' = [session EXCEPT ![PurgeLoop] = "waiting"]
    /\ UNCHANGED <<pool, loop, slept, stop, slot, row, others, stale, doctor, excused>>

PurgeEnds ==
    /\ session[PurgeLoop] = "using"
    /\ session' = [session EXCEPT ![PurgeLoop] = "none"]
    /\ UNCHANGED <<pool, loop, slept, stop, slot, row, others, stale, doctor, excused>>

\* One turn of run_lease_heartbeat.
LeaseHeartbeatBegins(s) ==
    /\ slot[s] = "executing" /\ session[<<s, "heartbeat">>] = "none"
    /\ session' = [session EXCEPT ![<<s, "heartbeat">>] = "waiting"]
    /\ UNCHANGED <<pool, loop, slept, stop, slot, row, others, stale, doctor, excused>>

LeaseHeartbeatEnds(s) ==
    /\ session[<<s, "heartbeat">>] = "using"
    /\ session' = [session EXCEPT ![<<s, "heartbeat">>] = "none"]
    /\ UNCHANGED <<pool, loop, slept, stop, slot, row, others, stale, doctor, excused>>

\* The heartbeat is cancelled but not awaited.
Mut_ExecutionEnds(s) ==
    /\ slot[s] = "executing"
    /\ slot' = [slot EXCEPT ![s] = "finishing"]
    /\ session' = [session EXCEPT ![<<s, "finish">>] = "waiting"]
    /\ UNCHANGED <<pool, loop, slept, stop, row, others, stale, doctor, excused>>

\* The execution ends or is cancelled.  The heartbeat is cancelled and awaited,
\* and with it its connection, before the result is recorded or the job is
\* returned; without a lease there is nothing to record.
ExecutionEnds(s) ==
    /\ slot[s] = "executing"
    /\ \E owned \in BOOLEAN :
        /\ slot' = [slot EXCEPT ![s] = IF owned THEN "finishing" ELSE "free"]
        /\ session' = [session EXCEPT
                ![<<s, "heartbeat">>] = "none",
                ![<<s, "finish">>] = IF owned THEN "waiting" ELSE "none"]
    /\ UNCHANGED <<pool, loop, slept, stop, row, others, stale, doctor, excused>>

\* _record_result or _return_job_to_pending ends, with or without an error.
Finish(s) ==
    /\ session[<<s, "finish">>] = "using"
    /\ slot' = [slot EXCEPT ![s] = "free"]
    /\ session' = [session EXCEPT ![<<s, "finish">>] = "none"]
    /\ UNCHANGED <<pool, loop, slept, stop, row, others, stale, doctor, excused>>

-----------------------------------------------------------------------------
(* The operator *)

\* doctor_async opens its one transaction, whose start now() returns from then
\* on.  The version, the tables, the migration and the queue are looked at first.
DoctorBegins ==
    /\ doctor = "idle"
    /\ doctor' = "begun"
    /\ UNCHANGED <<process, row, others, stale, excused>>

\* It asks for stale jobs by one snapshot.  Without any, what else it finds is
\* only reported.
DoctorReadsJobs ==
    /\ doctor = "begun"
    /\ doctor' = IF stale THEN "stale" ELSE "idle"
    /\ UNCHANGED <<process, row, others, stale, excused>>

\* Each statement has a clock of its own, as with clock_timestamp() or a
\* transaction for each.
Mut_DoctorReadsWorkers ==
    /\ doctor = "stale"
    /\ doctor' = IF AliveOnes = {} THEN "alarm" ELSE "idle"
    /\ UNCHANGED <<process, row, others, stale, excused>>

\* By a later snapshot, with the same now(), it asks for a worker that is alive.
DoctorReadsWorkers ==
    /\ doctor = "stale"
    /\ doctor' = IF counted = {} THEN "alarm" ELSE "idle"
    /\ UNCHANGED <<process, row, others, stale, excused>>

\* It returns with the alarm, or because one of the first checks failed.
DoctorReturns ==
    /\ doctor \in {"begun", "alarm"}
    /\ doctor' = "idle"
    /\ UNCHANGED <<process, row, others, stale, excused>>

\* Somebody clears pgrelay_worker by hand.
RowDeleted ==
    /\ row # NoRow
    /\ row' = NoRow
    /\ excused' = TRUE
    /\ UNCHANGED <<process, others, stale, doctor>>

\* Other workers start and beat, fall silent, or lose their rows.
OthersChange ==
    /\ \/ others # "alive" /\ others' = "alive"
       \/ others = "alive" /\ others' = "old"
       \/ others # "none" /\ others' = "none"
    /\ UNCHANGED <<process, row, stale, doctor, excused>>

\* Pending jobs grow old, or are returned with their old available_at; stale
\* ones are claimed or cancelled.
JobsChange ==
    /\ stale' = ~ stale
    /\ UNCHANGED <<process, row, others, doctor, excused>>

\* Part of every step: a row counts from the moment it is alive while doctor's
\* transaction runs, and until it is deleted.
Watch ==
    /\ counted' = IF doctor' \in {"begun", "stale"}
                  THEN (counted \cup AliveOnes') \cap Listed'
                  ELSE {}
    /\ grounds' = /\ doctor' # "idle"
                  /\ \/ grounds
                     \/ stale' /\ AliveOnes' = {}
                     \/ ~ (counted \subseteq Listed')

\* A minute passes: no session of the claim loop and no sleep takes longer.
Tick ==
    /\ loop \notin {"register", "heartbeat", "claim"}
    /\ loop = "sleep" => slept = 0
    /\ loop = "saturated" => Saturated(slot)
    /\ slept' = IF loop = "sleep" THEN slept + 1 ELSE slept
    /\ row' = IF row = NoRow \/ row = AliveTicks THEN row ELSE row + 1
    /\ UNCHANGED <<pool, session, loop, stop, slot, others, stale, doctor, excused>>

-----------------------------------------------------------------------------
(* The specification *)

Init ==
    /\ pool \in PoolSizes
    /\ session = [u \in Users |-> "none"]
    /\ loop = "down"
    /\ slept = 0
    /\ stop = FALSE
    /\ slot = [s \in Slots |-> "free"]
    /\ row = NoRow
    /\ others \in {"none", "old", "alive"}
    /\ stale \in BOOLEAN
    /\ doctor = "idle"
    /\ excused = FALSE
    /\ counted = {}
    /\ grounds = FALSE

TaskNext(s) ==
    \/ LeaseHeartbeatBegins(s) \/ LeaseHeartbeatEnds(s) \/ ExecutionEnds(s) \/ Finish(s)

OperatorNext ==
    \/ DoctorBegins \/ DoctorReadsJobs \/ DoctorReadsWorkers \/ DoctorReturns
    \/ RowDeleted \/ OthersChange \/ JobsChange

Step ==
    \/ StartWorker \/ Register \/ RegisterFails \/ Heartbeat \/ LoopFails \/ WakeUp
    \/ \E C \in SUBSET Slots : Claim(C)
    \/ RequestStop \/ Exit \/ Crash \/ PurgeBegins \/ PurgeEnds
    \/ \E u \in Users : Checkout(u)
    \/ \E s \in Slots : TaskNext(s)
    \/ OperatorNext \/ Tick

Next == Step /\ Watch

Spec == Init /\ [][Next]_vars

\* Loops and sessions go on and executions end; heartbeats do not fail for
\* ever.  Nobody obliges anyone to start, stop, crash or fail.
Fairness ==
    /\ WF_vars(Register /\ Watch) /\ WF_vars(WakeUp /\ Watch) /\ WF_vars(Exit /\ Watch)
    /\ SF_vars(Checkout(ClaimLoop) /\ Watch) /\ SF_vars(Heartbeat /\ Watch)
    /\ WF_vars((LoopFails \/ \E C \in SUBSET Slots : Claim(C)) /\ Watch)
    /\ WF_vars(PurgeEnds /\ Watch)
    /\ \A s \in Slots :
        /\ WF_vars(LeaseHeartbeatEnds(s) /\ Watch) /\ WF_vars(ExecutionEnds(s) /\ Watch)
        /\ WF_vars(Finish(s) /\ Watch) /\ SF_vars(Checkout(<<s, "finish">>) /\ Watch)

LiveSpec == Spec /\ Fairness

-----------------------------------------------------------------------------
(* Properties *)

\* Nobody ever waits for a connection: worker_concurrency + 2 of them, which
\* validate_runtime asks for, are one for each loop and one for each task,
\* whose heartbeat has given its own back before the result is recorded.  A
\* lease heartbeat is therefore never late because of the pool.
PoolSuffices == InUse + Waiting <= pool

\* A worker in its claim loop is listed as alive, unless since its last
\* heartbeat it was saturated (it then waits for a task without heartbeats, for
\* as long as the task takes), met an error, or its row was removed.
SeenAlive == InLoop /\ ~ excused => Alive

\* doctor, which reads jobs and workers by two snapshots, raises no alarm that
\* is put together from two different moments: while it was at work there was one
\* when a stale job and no worker alive came together, or else somebody deleted
\* the row of a worker it would have counted.  A worker that falls silent between
\* the two statements does not make an alarm of a stale job that is gone by then.
AlarmJustified == doctor = "alarm" => grounds

\* A worker that is not listed as alive is listed again, unless it stops:
\* tasks end, and a row that is gone is registered anew.
ComesBackAlive == InLoop /\ ~ Alive ~> Alive \/ loop \in {"shutdown", "down"}

=============================================================================
