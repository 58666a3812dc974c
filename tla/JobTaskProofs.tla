---------------------------- MODULE JobTaskProofs ----------------------------
(***************************************************************************)
(* Theorems about the tasks of the workers in JobLifecycle, without any    *)
(* assumption on time: what a stale task may still do to a job, how many   *)
(* tasks a worker has, and who looks after a lease.                        *)
(***************************************************************************)
EXTENDS JobLifecycleProofs, FiniteSetTheorems

USE MaxAttemptsAssumption

-----------------------------------------------------------------------------
(* Where tasks come from *)

\* u continues the task t.
Continues(u, t) ==
    u.worker = t.worker /\ u.job = t.job /\ u.lease = t.lease /\ u.number = t.number

\* u was made by a claim iteration that leased its job to its worker.
MadeByClaim(u) ==
    /\ u.job \in Jobs /\ Claiming(u.worker)
    /\ job'[u.job].status = "leased" /\ u.number = job'[u.job].attempt_count

\* Every task continues an old one or was made for a lease just granted.
LEMMA TaskOrigin ==
    ASSUME LedgerInv, [Next]_vars, NEW u \in tasks'
    PROVE  (\E t \in tasks : Continues(u, t)) \/ MadeByClaim(u)
  <1>0. tasks \subseteq Task
    BY DEF LedgerInv, TypeOK
  <1>1. ASSUME u \in tasks PROVE \E t \in tasks : Continues(u, t)
    BY <1>1 DEF Continues
  <1>2. ASSUME NEW j \in Jobs, JobNext(j) PROVE tasks' = tasks
    BY <1>2 DEF JobNext, InsertJob, CancelPendingJob, LeaseExpires, BecomesDue, RetentionPasses
  <1>3. ASSUME NEW w \in Workers, ClaimLoop(w), u \notin tasks PROVE MadeByClaim(u)
    <2>1. PICK R \in SUBSET Jobs, C \in SUBSET Jobs, acked \in BOOLEAN :
            ClaimEffect(w, R, C, acked)
      BY <1>3, ClaimLoopEffect
    <2>2. PICK j \in C : u = NewTask(w, j, ClaimedRow(Recovered(R)[j], w))
      BY <1>3, <2>1 DEF ClaimEffect
    <2>3. ClaimFacts(w, R, C, j)
      BY <2>1, <2>2, ClaimRows
    <2> QED
      BY <1>3, <2>2, <2>3 DEF ClaimFacts, MadeByClaim, NewTask, ClaimLoop
  <1>4. ASSUME NEW w \in Workers, WorkerNext(w), ~ ClaimLoop(w) PROVE tasks' \subseteq tasks
    BY <1>4 DEF WorkerNext, StartWorker, RequestStop, ObserveStop, GraceExpires, WorkerExit, Crash
  <1>5. ASSUME NEW t \in tasks, TaskNext(t), u \notin tasks PROVE Continues(u, t)
    <2>1. t \in Task
      BY <1>0
    <2>2. CASE Heartbeat(t) \/ HeartbeatFails(t)
      BY <1>5, <2>1, <2>2 DEF Heartbeat, HeartbeatFails, Replace, Continues, Task
    <2>3. CASE ExecutionEnds(t)
      <3>1. PICK o \in Outcomes :
                u = [t EXCEPT !.phase = "recording", !.heartbeat = "cancelled", !.outcome = o]
        BY <1>5, <2>3 DEF ExecutionEnds, Replace
      <3> QED
        BY <2>1, <3>1 DEF Continues, Task
    <2>4. CASE ExecutionCancelled(t)
      BY <1>5, <2>1, <2>4 DEF ExecutionCancelled, Replace, Continues, Task
    <2>5. CASE RecordResult(t) \/ ReturnToPending(t) \/ ReturnCancelled(t) \/ DatabaseFails(t)
      BY <1>5, <2>5 DEF RecordResult, ReturnToPending, ReturnCancelled, DatabaseFails
    <2> QED
      BY <1>5, <2>2, <2>3, <2>4, <2>5 DEF TaskNext, TaskAdvances
  <1>6. CASE PurgeBatch
    BY <1>1, <1>6 DEF PurgeBatch
  <1>7. CASE UNCHANGED vars
    BY <1>1, <1>7 DEF vars
  <1> QED
    BY <1>1, <1>2, <1>3, <1>4, <1>5, <1>6, <1>7 DEF Next, WorkerNext

-----------------------------------------------------------------------------
(* Dead letters *)

\* No task believes in more attempts than its job has used: attempt rows are
\* only ever added, and a returned attempt had none.
NumbersOverdue ==
    \A t \in tasks : job[t.job].status # "purged" => t.number <= Len(attempts[t.job]) + 1

DeadLetterInv == LedgerInv /\ NumbersOverdue /\ DeadLetterJustified

\* What a step leaves of the attempts of a job that is not purged.
LEMMA AttemptsGrow ==
    ASSUME LedgerInv, LedgerInv', [Next]_vars, NEW j \in Jobs, job'[j].status # "purged"
    PROVE  /\ job[j].status # "purged" /\ Len(attempts[j]) \in Nat /\ Len(attempts'[j]) \in Nat
           /\ Len(attempts[j]) <= Len(attempts'[j])
  <1>0. RowStep(j)
    BY NextRowStep
  <1>1. attempts[j] \in Seq(Attempt) /\ attempts'[j] \in Seq(Attempt)
    BY DEF LedgerInv, TypeOK
  <1>2. /\ job[j].status # "purged"
        /\ attempts'[j] = attempts[j] \/ \E e : attempts'[j] = Append(attempts[j], e)
    BY <1>0 DEF RowStep, Quiet, Inserted, Cancelled, Leased, RecordedBy, Owned, Returned, Expired,
                IsExpired, Purged
  <1>3. \A e : Len(Append(attempts[j], e)) = Len(attempts[j]) + 1
    BY <1>1
  <1> QED
    BY <1>1, <1>2, <1>3

LEMMA NextNumbersOverdue ==
    ASSUME LedgerInv, LedgerInv', NumbersOverdue, [Next]_vars
    PROVE  NumbersOverdue'
  <1> SUFFICES ASSUME NEW u \in tasks', job'[u.job].status # "purged"
               PROVE  u.number <= Len(attempts'[u.job]) + 1
    BY DEF NumbersOverdue
  <1>0. u \in Task /\ u.job \in Jobs /\ u.number \in Nat
    BY DEF LedgerInv, TypeOK, Task
  <1>1. /\ job[u.job].status # "purged" /\ Len(attempts[u.job]) \in Nat
        /\ Len(attempts'[u.job]) \in Nat /\ Len(attempts[u.job]) <= Len(attempts'[u.job])
    BY <1>0, AttemptsGrow
  <1>2. CASE \E t \in tasks : Continues(u, t)
    <2>1. u.number <= Len(attempts[u.job]) + 1
      BY <1>1, <1>2 DEF Continues, NumbersOverdue
    <2> QED
      BY <1>0, <1>1, <2>1
  <1>3. CASE MadeByClaim(u)
    <2>1. job'[u.job].attempt_count = Len(attempts'[u.job]) + 1
      BY <1>0, <1>3 DEF MadeByClaim, LedgerInv, AttemptLedger
    <2> QED
      BY <1>0, <1>1, <1>3, <2>1 DEF MadeByClaim
  <1> QED
    BY <1>2, <1>3, TaskOrigin

LEMMA NextDeadLetter ==
    ASSUME DeadLetterInv, LedgerInv', [Next]_vars
    PROVE  DeadLetterJustified'
  <1> SUFFICES ASSUME NEW j \in Jobs, job'[j].status = "dead_letter"
               PROVE  \/ job'[j].attempt_count = MaxAttempts
                      \/ /\ attempts'[j] # <<>>
                         /\ attempts'[j][Len(attempts'[j])].outcome = "permanent_failure"
    BY DEF DeadLetterJustified
  <1>0. /\ LedgerInv /\ RowStep(j) /\ job[j] \in Rows /\ attempts[j] \in Seq(Attempt)
        /\ Len(attempts[j]) \in Nat /\ job'[j].attempt_count \in 0..MaxAttempts
    BY NextRowStep, LedgerFacts DEF DeadLetterInv, LedgerInv, TypeOK, Rows
  <1>1. CASE Quiet(j)
    BY <1>1 DEF Quiet, DeadLetterInv, DeadLetterJustified
  <1>2. ASSUME NEW t \in tasks, RecordedBy(j, t)
        PROVE  \/ job'[j].attempt_count = MaxAttempts
               \/ /\ attempts'[j] # <<>>
                  /\ attempts'[j][Len(attempts'[j])].outcome = "permanent_failure"
    <2>0. /\ t \in Task /\ t.job = j /\ job[j].status = "leased" /\ t.number \in Nat
          /\ t.phase = "recording" /\ job'[j] = RecordedRow(job[j], t)
          /\ attempts'[j] = Append(attempts[j], RecordedAttempt(t))
      BY <1>0, <1>2 DEF RecordedBy, Owned, LedgerInv, TypeOK, Task
    <2>1. t.outcome # "succeeded" /\ ~ ShouldRetry(t)
      BY <1>0, <2>0 DEF RecordedRow, CompletedRow, FailedRow, Rows
    <2>2. job'[j].attempt_count = job[j].attempt_count
      BY <1>0, <2>0 DEF RecordedRow, CompletedRow, FailedRow, Rows
    <2>3. t.number <= job[j].attempt_count
      <3>1. job[j].attempt_count = Len(attempts[j]) + 1
        BY <1>0, <2>0, LedgerFacts
      <3> QED
        BY <2>0, <3>1 DEF DeadLetterInv, NumbersOverdue
    <2>4. CASE t.outcome = "timeout" \/ t.outcome = "retryable_failure"
      BY <1>0, <2>0, <2>1, <2>2, <2>3, <2>4 DEF ShouldRetry
    <2>5. CASE t.outcome \notin {"timeout", "retryable_failure"}
      <3>1. RecordedAttempt(t).outcome = "permanent_failure"
        BY <2>0, <2>1, <2>5 DEF RecordedAttempt, Task, Outcomes
      <3>2. /\ attempts'[j] # <<>> /\ Len(attempts'[j]) = Len(attempts[j]) + 1
            /\ attempts'[j][Len(attempts[j]) + 1] = RecordedAttempt(t)
        BY <1>0, <2>0
      <3> QED
        BY <3>1, <3>2
    <2> QED
      BY <2>4, <2>5
  <1>3. CASE Expired(j)
    <2>1. job'[j] = RecoveredRow(job[j])
      BY <1>3 DEF Expired
    <2>2. Exhausted(job[j]) /\ RecoveredRow(job[j]).attempt_count = job[j].attempt_count
      BY <1>0, <2>1 DEF RecoveredRow, Rows
    <2> QED
      BY <1>0, <2>1, <2>2 DEF Exhausted
  <1> QED
    BY <1>0, <1>1, <1>2, <1>3 DEF RowStep, Inserted, Cancelled, Leased, Returned, Purged

\* A job is dead-lettered only when its attempts are used up or its last one
\* ended in a permanent failure, even when a task with an outdated attempt_count
\* decides (fail_job computes should_retry from the claimed row).
THEOREM DeadLettersJustified == Spec => []DeadLetterJustified
  <1>1. Init => DeadLetterInv
    BY InitLedger DEF Init, NoRow, DeadLetterInv, NumbersOverdue, DeadLetterJustified
  <1>2. DeadLetterInv /\ [Next]_vars => DeadLetterInv'
    BY NextLedger, NextNumbersOverdue, NextDeadLetter DEF DeadLetterInv
  <1>3. DeadLetterInv => DeadLetterJustified
    BY DEF DeadLetterInv
  <1> QED
    BY <1>1, <1>2, <1>3, PTL DEF Spec

-----------------------------------------------------------------------------
(* Tasks in flight *)

InflightInv ==
    \A w \in Workers : IsFiniteSet(Inflight(w)) /\ Cardinality(Inflight(w)) <= Concurrency

\* Fewer tasks stay within the bound.
LEMMA FewerInflight ==
    ASSUME InflightInv, NEW w \in Workers, Inflight(w)' \subseteq Inflight(w)
    PROVE  IsFiniteSet(Inflight(w)') /\ Cardinality(Inflight(w)') <= Concurrency
  <1>1. IsFiniteSet(Inflight(w)) /\ Cardinality(Inflight(w)) <= Concurrency
    BY DEF InflightInv
  <1>2. IsFiniteSet(Inflight(w)') /\ Cardinality(Inflight(w)') <= Cardinality(Inflight(w))
    BY <1>1, FS_Subset
  <1>3. Cardinality(Inflight(w)) \in Nat /\ Cardinality(Inflight(w)') \in Nat
    BY <1>1, <1>2, FS_CardinalityType
  <1> QED
    BY <1>1, <1>2, <1>3, BoundsAssumption

\* A task that moves on takes no second place.
LEMMA ReplacedInflight ==
    ASSUME InflightInv, NEW w \in Workers, NEW t \in Inflight(w), NEW u,
           Inflight(w)' \subseteq (Inflight(w) \ {t}) \cup {u}
    PROVE  IsFiniteSet(Inflight(w)') /\ Cardinality(Inflight(w)') <= Concurrency
  <1> DEFINE S == Inflight(w)
             T == (S \ {t}) \cup {u}
  <1>1. IsFiniteSet(S) /\ Cardinality(S) <= Concurrency
    BY DEF InflightInv
  <1>2. IsFiniteSet(S \ {t}) /\ Cardinality(S \ {t}) = Cardinality(S) - 1
    BY <1>1, FS_RemoveElement
  <1>3. Cardinality(S) \in Nat /\ Cardinality(S \ {t}) \in Nat
    BY <1>1, <1>2, FS_CardinalityType
  <1>4. IsFiniteSet(T) /\ Cardinality(T) <= Cardinality(S)
    <2>1. /\ IsFiniteSet(T)
          /\ Cardinality(T) = IF u \in S \ {t} THEN Cardinality(S \ {t})
                              ELSE Cardinality(S \ {t}) + 1
      BY <1>2, FS_AddElement
    <2> HIDE DEF S, T
    <2> QED
      BY <1>2, <1>3, <2>1
  <1>5. IsFiniteSet(Inflight(w)') /\ Cardinality(Inflight(w)') <= Cardinality(T)
    BY <1>4, FS_Subset
  <1>6. Cardinality(T) \in Nat /\ Cardinality(Inflight(w)') \in Nat
    BY <1>4, <1>5, FS_CardinalityType
  <1> HIDE DEF S, T
  <1> QED
    BY <1>1, <1>3, <1>4, <1>5, <1>6, BoundsAssumption

\* A claim iteration asks for no more jobs than it has slots.
LEMMA ClaimedInflight ==
    ASSUME LedgerInv, InflightInv, NEW w \in Workers, ClaimLoop(w)
    PROVE  IsFiniteSet(Inflight(w)') /\ Cardinality(Inflight(w)') <= Concurrency
  <1>1. PICK R \in SUBSET Jobs, C \in SUBSET Jobs, acked \in BOOLEAN :
          ClaimEffect(w, R, C, acked)
    BY ClaimLoopEffect
  <1> DEFINE S == Inflight(w)
             made == [j \in C |-> NewTask(w, j, ClaimedRow(Recovered(R)[j], w))]
             N == {made[j] : j \in C}
  <1>2. IsFiniteSet(C) /\ Cardinality(C) \in Nat /\ Cardinality(C) <= Concurrency - Cardinality(S)
    <2>1. IsFiniteSet(C)
      BY JobsAssumption, FS_Subset
    <2> QED
      BY <1>1, <2>1, FS_CardinalityType DEF ClaimEffect, FreeSlots
  <1>3. IsFiniteSet(S) /\ Cardinality(S) \in Nat
    BY FS_CardinalityType DEF InflightInv
  <1>4. IsFiniteSet(N) /\ Cardinality(N) <= Cardinality(C)
    <2>1. made \in Surjection(C, N)
      BY DEF Surjection
    <2> QED
      BY <1>2, <2>1, FS_Surjection
  <1>5. IsFiniteSet(S \cup N) /\ Cardinality(S \cup N) <= Cardinality(S) + Cardinality(N)
    <2>1. /\ IsFiniteSet(S \cup N)
          /\ Cardinality(S \cup N) = Cardinality(S) + Cardinality(N) - Cardinality(S \cap N)
      BY <1>3, <1>4, FS_Union
    <2>2. Cardinality(S \cap N) \in Nat /\ Cardinality(N) \in Nat
      BY <1>3, <1>4, FS_CardinalityType, FS_Intersection
    <2> HIDE DEF S, N
    <2> QED
      BY <1>3, <2>1, <2>2
  <1>6. Inflight(w)' \subseteq S \cup N
    <2>1. tasks' \subseteq tasks \cup N
      BY <1>1 DEF ClaimEffect
    <2> HIDE DEF N
    <2> QED
      BY <2>1 DEF Inflight
  <1>7. IsFiniteSet(Inflight(w)') /\ Cardinality(Inflight(w)') <= Cardinality(S \cup N)
    BY <1>5, <1>6, FS_Subset
  <1>8. /\ Cardinality(S \cup N) \in Nat /\ Cardinality(Inflight(w)') \in Nat
        /\ Cardinality(N) \in Nat
    BY <1>4, <1>5, <1>7, FS_CardinalityType
  <1> HIDE DEF S, N
  <1> QED
    BY <1>2, <1>3, <1>4, <1>5, <1>7, <1>8, BoundsAssumption

LEMMA NextInflight ==
    ASSUME LedgerInv, InflightInv, [Next]_vars
    PROVE  InflightInv'
  <1> SUFFICES ASSUME NEW w \in Workers
               PROVE  IsFiniteSet(Inflight(w)') /\ Cardinality(Inflight(w)') <= Concurrency
    BY DEF InflightInv
  <1>0. tasks \subseteq Task
    BY DEF LedgerInv, TypeOK
  <1>1. ASSUME tasks' \subseteq tasks
        PROVE  IsFiniteSet(Inflight(w)') /\ Cardinality(Inflight(w)') <= Concurrency
    BY <1>1, FewerInflight DEF Inflight
  <1>2. ASSUME NEW j \in Jobs, JobNext(j) PROVE tasks' = tasks
    BY <1>2 DEF JobNext, InsertJob, CancelPendingJob, LeaseExpires, BecomesDue, RetentionPasses
  <1>3. ASSUME NEW v \in Workers, ClaimLoop(v)
        PROVE  IsFiniteSet(Inflight(w)') /\ Cardinality(Inflight(w)') <= Concurrency
    <2>1. CASE v = w
      BY <1>3, <2>1, ClaimedInflight
    <2>2. CASE v # w
      <3>1. PICK R \in SUBSET Jobs, C \in SUBSET Jobs, acked \in BOOLEAN :
              ClaimEffect(v, R, C, acked)
        BY <1>3, ClaimLoopEffect
      <3>2. \A u \in tasks' \ tasks : u.worker = v
        BY <3>1 DEF ClaimEffect, NewTask
      <3>3. Inflight(w)' \subseteq Inflight(w)
        BY <2>2, <3>2 DEF Inflight
      <3> QED
        BY <3>3, FewerInflight
    <2> QED
      BY <2>1, <2>2
  <1>4. ASSUME NEW v \in Workers, WorkerNext(v), ~ ClaimLoop(v) PROVE tasks' \subseteq tasks
    BY <1>4 DEF WorkerNext, StartWorker, RequestStop, ObserveStop, GraceExpires, WorkerExit, Crash
  <1>5. ASSUME NEW t \in tasks, TaskNext(t)
        PROVE  IsFiniteSet(Inflight(w)') /\ Cardinality(Inflight(w)') <= Concurrency
    <2>1. t \in Task
      BY <1>0
    <2>2. ASSUME NEW u, u.worker = t.worker, tasks' = Replace(t, u)
          PROVE  IsFiniteSet(Inflight(w)') /\ Cardinality(Inflight(w)') <= Concurrency
      <3>1. CASE t.worker = w
        <4>1. t \in Inflight(w) /\ Inflight(w)' \subseteq (Inflight(w) \ {t}) \cup {u}
          BY <2>2, <3>1 DEF Inflight, Replace
        <4> QED
          BY <4>1, ReplacedInflight
      <3>2. CASE t.worker # w
        <4>1. Inflight(w)' \subseteq Inflight(w)
          BY <2>2, <3>2 DEF Inflight, Replace
        <4> QED
          BY <4>1, FewerInflight
      <3> QED
        BY <3>1, <3>2
    <2>3. CASE Heartbeat(t) \/ HeartbeatFails(t)
      <3>1. \A h : [t EXCEPT !.heartbeat = h].worker = t.worker
        BY <2>1 DEF Task
      <3> QED
        BY <1>1, <2>2, <2>3, <3>1 DEF Heartbeat, HeartbeatFails
    <2>4. CASE ExecutionEnds(t)
      <3>1. PICK o \in Outcomes :
                tasks' = IF LeaseOwned(t)
                         THEN Replace(t, [t EXCEPT !.phase = "recording",
                                                   !.heartbeat = "cancelled", !.outcome = o])
                         ELSE tasks \ {t}
        BY <2>4 DEF ExecutionEnds
      <3>2. [t EXCEPT !.phase = "recording", !.heartbeat = "cancelled", !.outcome = o].worker =
                t.worker
        BY <2>1 DEF Task
      <3> QED
        BY <1>1, <2>2, <3>1, <3>2
    <2>5. CASE ExecutionCancelled(t)
      <3>1. \A h : [t EXCEPT !.phase = "returning", !.heartbeat = h].worker = t.worker
        BY <2>1 DEF Task
      <3> QED
        BY <2>2, <2>5, <3>1 DEF ExecutionCancelled
    <2>6. CASE RecordResult(t) \/ ReturnToPending(t) \/ ReturnCancelled(t) \/ DatabaseFails(t)
      BY <1>1, <2>6 DEF RecordResult, ReturnToPending, ReturnCancelled, DatabaseFails
    <2> QED
      BY <1>5, <2>3, <2>4, <2>5, <2>6 DEF TaskNext, TaskAdvances
  <1>6. CASE PurgeBatch \/ UNCHANGED vars
    BY <1>1, <1>6 DEF PurgeBatch, vars
  <1> QED
    BY <1>1, <1>2, <1>3, <1>4, <1>5, <1>6 DEF Next

\* A worker never runs more than worker_concurrency tasks, with whatever
\* batch size and through the iteration that overlaps request_stop.
THEOREM InflightBounded == Spec => []InflightBound
  <1>1. Init => InflightInv
    <2> SUFFICES ASSUME Init, NEW w \in Workers
                 PROVE  IsFiniteSet(Inflight(w)) /\ Cardinality(Inflight(w)) <= Concurrency
      BY DEF InflightInv
    <2>1. Inflight(w) = {}
      BY DEF Init, Inflight
    <2> QED
      BY <2>1, FS_EmptySet, BoundsAssumption
  <1>2. LedgerInv /\ InflightInv /\ [Next]_vars => InflightInv'
    BY NextInflight
  <1>3. InflightInv => InflightBound
    BY DEF InflightInv, InflightBound
  <1> QED
    BY <1>1, <1>2, <1>3, LedgerInvariant, PTL DEF Spec

-----------------------------------------------------------------------------
(* Who looks after a lease *)

\* A task that will record, return or vouch for its lease, unless something
\* fails: its heartbeat beats, or was ended together with the execution.
Answerable(t) == t.heartbeat = "beating" \/ (t.phase # "running" /\ t.heartbeat = "cancelled")

Tended(j, w) == \E t \in tasks : t.job = j /\ t.worker = w /\ Answerable(t)

\* Tasks belong to processes that run, and every lease of a process that met
\* no fault has a task that answers for it.
TasksAlive == \A t \in tasks : worker[t.worker] \notin {"new", "down"}

LeasesTended ==
    \A j \in Jobs, w \in Workers : Owned(j, w) /\ w \notin faulted => Tended(j, w)

TendedInv == TasksAlive /\ LeasesTended

LEMMA NextTasksAlive ==
    ASSUME LedgerInv, TasksAlive, [Next]_vars
    PROVE  TasksAlive'
  <1> SUFFICES ASSUME NEW u \in tasks' PROVE worker'[u.worker] \notin {"new", "down"}
    BY DEF TasksAlive
  <1>0. worker \in [Workers -> WorkerStates] /\ tasks \subseteq Task
    BY DEF LedgerInv, TypeOK
  <1>1. worker[u.worker] \notin {"new", "down"} /\ u.worker \in Workers
    <2>1. u \in Task
      BY NextLedger DEF LedgerInv, TypeOK
    <2>2. u.worker \in Workers
      BY <2>1 DEF Task
    <2> QED
      BY <2>2, TaskOrigin DEF Continues, MadeByClaim, Claiming, TasksAlive
  <1>2. ASSUME NEW w \in Workers, WorkerNext(w) PROVE worker'[u.worker] \notin {"new", "down"}
    <2>1. CASE WorkerExit(w) \/ Crash(w)
      <3>1. u.worker # w
        BY <2>1 DEF WorkerExit, Crash, Inflight
      <3>2. worker' = [worker EXCEPT ![w] = "down"]
        BY <2>1 DEF WorkerExit, Crash
      <3> QED
        BY <1>0, <1>1, <3>1, <3>2
    <2>2. CASE ClaimLoop(w)
      <3>1. worker' = [worker EXCEPT ![w] = IF @ = "stopping" THEN "closing" ELSE @]
        BY <2>2 DEF ClaimLoop
      <3> QED
        BY <1>0, <1>1, <3>1
    <2>3. CASE ~ (WorkerExit(w) \/ Crash(w) \/ ClaimLoop(w))
      <3>1. \E s \in {"up", "stopping", "grace", "cancelling"} : worker' = [worker EXCEPT ![w] = s]
        BY <1>2, <2>3 DEF WorkerNext, StartWorker, RequestStop, ObserveStop, GraceExpires
      <3> QED
        BY <1>0, <1>1, <3>1
    <2> QED
      BY <2>1, <2>2, <2>3
  <1>3. ASSUME NEW j \in Jobs, JobNext(j) PROVE worker' = worker
    BY <1>3 DEF JobNext, InsertJob, CancelPendingJob, LeaseExpires, BecomesDue, RetentionPasses
  <1>4. ASSUME NEW t \in tasks, TaskNext(t) PROVE worker' = worker
    BY <1>4 DEF TaskNext, TaskAdvances, Heartbeat, HeartbeatFails, ExecutionEnds,
                ExecutionCancelled, RecordResult, ReturnToPending, ReturnCancelled, DatabaseFails
  <1>5. CASE PurgeBatch \/ UNCHANGED vars
    BY <1>1, <1>5 DEF PurgeBatch, vars
  <1> QED
    BY <1>1, <1>2, <1>3, <1>4, <1>5 DEF Next

\* Rows and tasks change hands in a task's own step.
LEMMA TaskNextTended ==
    ASSUME LedgerInv, LeasesTended, NEW t \in tasks, TaskNext(t)
    PROVE  LeasesTended'
  <1> SUFFICES ASSUME NEW j \in Jobs, NEW w \in Workers, Owned(j, w)', w \notin faulted'
               PROVE  Tended(j, w)'
    BY DEF LeasesTended
  <1>0. /\ job \in [Jobs -> Rows] /\ t \in Task /\ t.job \in Jobs /\ t.worker \in Workers
        /\ job[t.job] \in Rows
    BY DEF LedgerInv, TypeOK, Task
  <1>1. faulted \subseteq faulted'
    BY DEF TaskNext, TaskAdvances, Heartbeat, HeartbeatFails, ExecutionEnds,
           ExecutionCancelled, RecordResult, ReturnToPending, ReturnCancelled, DatabaseFails
  <1>2. /\ ExtendedRow(job[t.job]).status = job[t.job].status
        /\ ExtendedRow(job[t.job]).locked_by = job[t.job].locked_by
        /\ RecordedRow(job[t.job], t).status # "leased"
        /\ ReturnedRow(job[t.job]).status # "leased"
    BY <1>0 DEF ExtendedRow, RecordedRow, CompletedRow, FailedRow, ReturnedRow, Rows
  <1>3. Owned(j, w)
    <2>1. CASE j # t.job
      <3>1. job'[j] = job[j]
        BY <1>0, <2>1 DEF TaskNext, TaskAdvances, Heartbeat, HeartbeatFails, ExecutionEnds,
             ExecutionCancelled, RecordResult, ReturnToPending, ReturnCancelled, DatabaseFails
      <3> QED
        BY <3>1 DEF Owned
    <2>2. CASE j = t.job
      <3>1. \/ job'[j] = job[j] \/ job'[j] = ExtendedRow(job[j])
            \/ job'[j] = RecordedRow(job[j], t) \/ job'[j] = ReturnedRow(job[j])
        BY <1>0, <2>2 DEF TaskNext, TaskAdvances, Heartbeat, HeartbeatFails, ExecutionEnds,
             ExecutionCancelled, RecordResult, ReturnToPending, ReturnCancelled, DatabaseFails
      <3> QED
        BY <1>2, <2>2, <3>1 DEF Owned
    <2> QED
      BY <2>1, <2>2
  <1>4. PICK u \in tasks : u.job = j /\ u.worker = w /\ Answerable(u)
    BY <1>1, <1>3 DEF LeasesTended, Tended
  <1>5. ASSUME u \in tasks' PROVE Tended(j, w)'
    BY <1>4, <1>5 DEF Tended, Answerable
  <1>6. ASSUME u \notin tasks' PROVE u = t
    BY <1>4, <1>6 DEF TaskNext, TaskAdvances, Heartbeat, HeartbeatFails, ExecutionEnds,
         ExecutionCancelled, RecordResult, ReturnToPending, ReturnCancelled, DatabaseFails, Replace
  <1>7. CASE u = t
    <2>0. t.job = j /\ t.worker = w /\ Answerable(t) /\ Owned(t.job, t.worker)
      BY <1>3, <1>4, <1>7
    <2>1. CASE Heartbeat(t)
      BY <1>5, <1>7, <2>0, <2>1 DEF Heartbeat
    <2>2. CASE HeartbeatFails(t) \/ DatabaseFails(t)
      BY <2>0, <2>2 DEF HeartbeatFails, DatabaseFails
    <2>3. CASE ExecutionEnds(t)
      <3>1. t.phase = "running" /\ LeaseOwned(t)
        BY <2>0, <2>3 DEF ExecutionEnds, Answerable, LeaseOwned
      <3>2. PICK o \in Outcomes :
              tasks' = Replace(t, [t EXCEPT !.phase = "recording", !.heartbeat = "cancelled",
                                            !.outcome = o])
        BY <2>3, <3>1 DEF ExecutionEnds
      <3> DEFINE v == [t EXCEPT !.phase = "recording", !.heartbeat = "cancelled", !.outcome = o]
      <3>3. v \in tasks' /\ v.job = j /\ v.worker = w /\ Answerable(v)
        BY <1>0, <2>0, <3>2 DEF Replace, Answerable, Task
      <3> HIDE DEF v
      <3> QED
        BY <3>3 DEF Tended, Answerable
    <2>4. CASE ExecutionCancelled(t)
      <3> DEFINE h == IF worker[t.worker] = "cancelling" THEN "cancelled" ELSE t.heartbeat
                 v == [t EXCEPT !.phase = "returning", !.heartbeat = h]
      <3>1. tasks' = Replace(t, v)
        BY <2>4 DEF ExecutionCancelled
      <3>2. v.job = j /\ v.worker = w /\ v.phase = "returning" /\ v.heartbeat = h
        BY <1>0, <2>0 DEF Task
      <3>3. Answerable(v)
        BY <2>0, <3>2 DEF Answerable
      <3> HIDE DEF v
      <3> QED
        BY <3>1, <3>2, <3>3 DEF Tended, Answerable, Replace
    <2>5. CASE RecordResult(t)
      <3>1. job'[j] = RecordedRow(job[j], t)
        BY <1>0, <2>0, <2>5 DEF RecordResult
      <3> QED
        BY <1>2, <2>0, <3>1 DEF Owned
    <2>6. CASE ReturnToPending(t)
      <3>1. job'[j] = ReturnedRow(job[j])
        BY <1>0, <2>0, <2>6 DEF ReturnToPending
      <3> QED
        BY <1>2, <2>0, <3>1 DEF Owned
    <2>7. CASE ReturnCancelled(t)
      BY <2>0, <2>7 DEF ReturnCancelled, Answerable
    <2> QED
      BY <2>1, <2>2, <2>3, <2>4, <2>5, <2>6, <2>7 DEF TaskNext, TaskAdvances
  <1> QED
    BY <1>5, <1>6, <1>7

LEMMA NextTended ==
    ASSUME LedgerInv, LeasesTended, [Next]_vars
    PROVE  LeasesTended'
  <1>0. job \in [Jobs -> Rows]
    BY DEF LedgerInv, TypeOK
  <1>1. ASSUME tasks \subseteq tasks', faulted \subseteq faulted',
               \A j \in Jobs, w \in Workers : Owned(j, w)' => Owned(j, w)
        PROVE  LeasesTended'
    BY <1>1 DEF LeasesTended, Tended, Answerable
  <1>2. ASSUME NEW i \in Jobs, JobNext(i) PROVE LeasesTended'
    <2>1. /\ UNCHANGED <<tasks, faulted>> /\ job[i] \in Rows
          /\ \A j \in Jobs : j # i => job'[j] = job[j]
      BY <1>0, <1>2 DEF JobNext, InsertJob, CancelPendingJob, LeaseExpires, BecomesDue,
                        RetentionPasses
    <2>2. \/ job'[i].status # "leased"
          \/ job'[i].status = job[i].status /\ job'[i].locked_by = job[i].locked_by
      <3>1. CASE InsertJob(i)
        <4>1. \A at : InsertedRow(at).status = "pending"
          BY DEF InsertedRow, NoRow
        <4> QED
          BY <1>0, <3>1, <4>1 DEF InsertJob
      <3>2. CASE CancelPendingJob(i)
        <4>1. job'[i] = CancelledRow(job[i])
          BY <1>0, <3>2 DEF CancelPendingJob
        <4> QED
          BY <2>1, <4>1 DEF CancelledRow, Rows
      <3>3. CASE LeaseExpires(i) \/ BecomesDue(i) \/ RetentionPasses(i)
        BY <1>0, <2>1, <3>3 DEF LeaseExpires, BecomesDue, RetentionPasses, Rows
      <3> QED
        BY <1>2, <3>1, <3>2, <3>3 DEF JobNext
    <2> QED
      BY <1>1, <2>1, <2>2 DEF Owned
  <1>3. ASSUME NEW v \in Workers, ClaimLoop(v) PROVE LeasesTended'
    <2>1. PICK R \in SUBSET Jobs, C \in SUBSET Jobs, acked \in BOOLEAN :
            ClaimEffect(v, R, C, acked)
      BY <1>3, ClaimLoopEffect
    <2>2. \A j \in Jobs : ClaimFacts(v, R, C, j)
      BY <2>1, ClaimRows
    <2>3. tasks \subseteq tasks' /\ faulted \subseteq faulted'
      BY <2>1 DEF ClaimEffect
    <2>4. ASSUME NEW j \in Jobs, NEW w \in Workers, Owned(j, w)', w \notin faulted'
          PROVE  Tended(j, w)'
      <3>1. CASE j \in C
        <4> DEFINE u == NewTask(v, j, ClaimedRow(Recovered(R)[j], v))
        <4>1. job'[j] = ClaimedRow(Recovered(R)[j], v) /\ Recovered(R)[j] \in Rows
          BY <2>2, <3>1 DEF ClaimFacts
        <4>2. w = v
          BY <2>4, <4>1 DEF Owned, ClaimedRow, Rows
        <4>3. acked
          BY <2>1, <2>4, <4>2 DEF ClaimEffect
        <4>4. u \in tasks'
          BY <2>1, <3>1, <4>3 DEF ClaimEffect
        <4>5. u.job = j /\ u.worker = w /\ u.heartbeat = "beating"
          BY <4>2 DEF NewTask
        <4> HIDE DEF u
        <4> QED
          BY <4>4, <4>5 DEF Tended, Answerable
      <3>2. CASE j \notin C
        <4>1. job'[j] = job[j]
          BY <2>2, <2>4, <3>2 DEF ClaimFacts, Owned
        <4>2. Owned(j, w) /\ w \notin faulted
          BY <2>3, <2>4, <4>1 DEF Owned
        <4> QED
          BY <2>3, <4>2 DEF LeasesTended, Tended, Answerable
      <3> QED
        BY <3>1, <3>2
    <2> QED
      BY <2>4 DEF LeasesTended
  <1>4. ASSUME NEW v \in Workers, Crash(v) PROVE LeasesTended'
    BY <1>4 DEF Crash, Inflight, LeasesTended, Tended, Answerable, Owned
  <1>5. ASSUME NEW v \in Workers, WorkerNext(v), ~ ClaimLoop(v), ~ Crash(v) PROVE LeasesTended'
    BY <1>1, <1>5 DEF WorkerNext, StartWorker, RequestStop, ObserveStop, GraceExpires, WorkerExit,
                      Owned
  <1>6. ASSUME NEW t \in tasks, TaskNext(t) PROVE LeasesTended'
    BY <1>6, TaskNextTended
  <1>7. CASE PurgeBatch
    <2>1. \A j \in Jobs : job'[j].status # "leased" \/ job'[j] = job[j]
      BY <1>7 DEF PurgeBatch, NoRow
    <2> QED
      BY <1>1, <1>7, <2>1 DEF PurgeBatch, Owned
  <1>8. CASE UNCHANGED vars
    BY <1>1, <1>8 DEF vars, Owned
  <1> QED
    BY <1>2, <1>3, <1>4, <1>5, <1>6, <1>7, <1>8 DEF Next

\* A worker that exits without a fault holds no lease: run() awaits its tasks,
\* and each of them has recorded its job, returned it, or lost it.
THEOREM CleanExit == Spec => []CleanExitReturnsLeases
  <1>1. Init => TendedInv
    BY DEF Init, NoRow, TendedInv, TasksAlive, LeasesTended, Owned
  <1>2. LedgerInv /\ TendedInv /\ [Next]_vars => TendedInv'
    BY NextTasksAlive, NextTended DEF TendedInv
  <1>3. TendedInv => CleanExitReturnsLeases
    BY DEF TendedInv, TasksAlive, LeasesTended, Tended, CleanExitReturnsLeases
  <1> QED
    BY <1>1, <1>2, <1>3, LedgerInvariant, PTL DEF Spec

=============================================================================
