--------------------------- MODULE JobTimelyProofs ---------------------------
(***************************************************************************)
(* Theorems about JobLifecycle when heartbeats are timely: results are     *)
(* fenced, no pending job is out of attempts, the attempt history is       *)
(* numbered without gaps, and the system implements JobContract.  No       *)
(* handler is taken to let a CancelledError of its own out.                *)
(***************************************************************************)
EXTENDS JobLifecycleProofs

-----------------------------------------------------------------------------
(* The discipline of leases.  FencedResults is not inductive: that a task  *)
(* which vouches for its lease cannot meet a newer lease of its own worker *)
(* holds because its job stays leased, unexpired, to that worker until the *)
(* worker cancels its tasks, after which the worker claims nothing.        *)

TaskDiscipline(t) ==
    /\ worker[t.worker] \notin {"new", "down"}
    /\ t.lease <= claims[t.job]
    /\ worker[t.worker] # "cancelling" =>
        /\ Vouching(t) => Owned(t.job, t.worker)
        /\ t.heartbeat # "lost" /\ t.phase # "returning"
    /\ Vouching(t) /\ Owned(t.job, t.worker) =>
        /\ t.lease = claims[t.job]
        /\ t.number = job[t.job].attempt_count
        /\ job[t.job].locked_until # "expired"

\* No two tasks were made for one lease.
OneTaskPerLease == \A t, u \in tasks : t.job = u.job /\ t.lease = u.lease => t = u

LeaseDiscipline == OneTaskPerLease /\ \A t \in tasks : TaskDiscipline(t)

TimelyInv == LedgerInv /\ LeaseDiscipline

\* A task is not disturbed by a step that keeps its job's ownership, count
\* and claims and lets no lease expire, and that moves its worker neither
\* out of cancelling nor to the end.
LEMMA Undisturbed ==
    ASSUME NEW t, TaskDiscipline(t), claims'[t.job] = claims[t.job],
           job'[t.job].status = job[t.job].status,
           job'[t.job].locked_by = job[t.job].locked_by,
           job'[t.job].attempt_count = job[t.job].attempt_count,
           job'[t.job].locked_until = "expired" => job[t.job].locked_until = "expired",
           worker'[t.worker] \notin {"new", "down"},
           worker[t.worker] = "cancelling" => worker'[t.worker] = "cancelling"
    PROVE  TaskDiscipline(t)'
  BY DEF TaskDiscipline, Vouching, Owned

\* Nor by a step on a job that its worker does not own before or after.
LEMMA NotOwned ==
    ASSUME NEW t \in Task, TaskDiscipline(t), claims'[t.job] \in Nat, claims[t.job] \in Nat,
           claims[t.job] <= claims'[t.job],
           ~ Owned(t.job, t.worker), ~ Owned(t.job, t.worker)',
           worker'[t.worker] \notin {"new", "down"},
           worker[t.worker] = "cancelling" => worker'[t.worker] = "cancelling"
    PROVE  TaskDiscipline(t)'
  <1>1. t.lease <= claims'[t.job]
    BY DEF TaskDiscipline, Task
  <1> QED
    BY <1>1 DEF TaskDiscipline, Vouching

LEMMA JobNextDiscipline ==
    ASSUME Timely, ~ SelfCancelling, TimelyInv, NEW j \in Jobs, JobNext(j)
    PROVE  LeaseDiscipline'
  <1>0. /\ job \in [Jobs -> Rows] /\ job[j] \in Rows /\ claims \in [Jobs -> Nat]
        /\ tasks \subseteq Task /\ tasks' = tasks /\ worker' = worker /\ claims' = claims
    BY DEF JobNext, InsertJob, CancelPendingJob, LeaseExpires, BecomesDue, RetentionPasses,
           TimelyInv, LedgerInv, TypeOK
  <1>1. OneTaskPerLease'
    BY <1>0 DEF TimelyInv, LeaseDiscipline, OneTaskPerLease
  <1>2. ASSUME NEW t \in tasks PROVE TaskDiscipline(t)'
    <2>0. TaskDiscipline(t) /\ t \in Task /\ t.job \in Jobs /\ t.worker \in Workers
      BY <1>0 DEF TimelyInv, LeaseDiscipline, Task
    <2>1. worker'[t.worker] \notin {"new", "down"} /\ claims[t.job] \in Nat
      BY <1>0, <2>0 DEF TaskDiscipline
    <2>2. CASE t.job # j
      <3>1. job'[t.job] = job[t.job]
        BY <1>0, <2>0, <2>2 DEF JobNext, InsertJob, CancelPendingJob, LeaseExpires,
                                BecomesDue, RetentionPasses
      <3> QED
        BY <1>0, <2>0, <2>1, <3>1, Undisturbed
    <2>3. CASE t.job = j /\ LeaseExpires(j)
      <3>1. job' = [job EXCEPT ![j] = [job[j] EXCEPT !.locked_until = "expired"]]
        BY <2>3 DEF LeaseExpires
      <3>2. /\ job'[j].status = job[j].status /\ job'[j].locked_by = job[j].locked_by
            /\ job'[j].attempt_count = job[j].attempt_count
        BY <1>0, <3>1 DEF Rows
      <3>3. ~ (Vouching(t) /\ Owned(t.job, t.worker))
        BY <2>3 DEF LeaseExpires, Owned
      <3> QED
        BY <1>0, <2>0, <2>1, <2>3, <3>2, <3>3 DEF TaskDiscipline, Vouching, Owned
    <2>4. CASE t.job = j /\ ~ LeaseExpires(j)
      <3>1. job[j].status # "leased" /\ job'[j].status # "leased"
        <4>1. CASE InsertJob(j)
          BY <1>0, <4>1 DEF InsertJob, InsertedRow, NoRow
        <4>2. CASE CancelPendingJob(j)
          BY <1>0, <4>2 DEF CancelPendingJob, Cancellable, CancelledRow, Rows
        <4>3. CASE BecomesDue(j)
          BY <1>0, <4>3 DEF BecomesDue, Rows
        <4>4. CASE RetentionPasses(j)
          BY <1>0, <4>4 DEF RetentionPasses, Final, Rows
        <4> QED
          BY <2>4, <4>1, <4>2, <4>3, <4>4 DEF JobNext
      <3>2. ~ Owned(t.job, t.worker) /\ ~ Owned(t.job, t.worker)'
        BY <2>4, <3>1 DEF Owned
      <3> QED
        BY <1>0, <2>0, <2>1, <3>2, NotOwned
    <2> QED
      BY <2>2, <2>3, <2>4
  <1> QED
    BY <1>0, <1>1, <1>2 DEF LeaseDiscipline

LEMMA TaskNextDiscipline ==
    ASSUME Timely, ~ SelfCancelling, TimelyInv, NEW t \in tasks, TaskNext(t)
    PROVE  LeaseDiscipline'
  <1>0. /\ job \in [Jobs -> Rows] /\ claims \in [Jobs -> Nat]
        /\ tasks \subseteq Task /\ t \in Task /\ t.job \in Jobs /\ job[t.job] \in Rows
        /\ worker' = worker /\ claims' = claims
    BY DEF TaskNext, TaskAdvances, Heartbeat, HeartbeatFails, ExecutionEnds,
           ExecutionCancelled, RecordResult, ReturnToPending, ReturnCancelled, DatabaseFails,
           TimelyInv, LedgerInv, TypeOK, Task
  <1>1. \A u \in tasks : /\ TaskDiscipline(u) /\ u \in Task /\ u.job \in Jobs
                         /\ claims[u.job] \in Nat
                         /\ worker'[u.worker] \notin {"new", "down"}
    BY <1>0 DEF TimelyInv, LeaseDiscipline, TaskDiscipline, Task
  <1>2. ASSUME NEW v \in Task, v.job = t.job, v.lease = t.lease,
               tasks' \subseteq Replace(t, v)
        PROVE  OneTaskPerLease'
    BY <1>2 DEF TimelyInv, LeaseDiscipline, OneTaskPerLease, Replace
  <1>3. ASSUME tasks' \subseteq tasks PROVE OneTaskPerLease'
    BY <1>3 DEF TimelyInv, LeaseDiscipline, OneTaskPerLease
  <1>4. CASE Heartbeat(t)
    <2>1. CASE Owned(t.job, t.worker)
      <3>1. tasks' = tasks /\ job' = [job EXCEPT ![t.job] = ExtendedRow(@)]
        BY <1>4, <2>1 DEF Heartbeat
      <3>2. /\ ExtendedRow(job[t.job]).status = job[t.job].status
            /\ ExtendedRow(job[t.job]).locked_by = job[t.job].locked_by
            /\ ExtendedRow(job[t.job]).attempt_count = job[t.job].attempt_count
            /\ ExtendedRow(job[t.job]).locked_until = "live"
        BY <1>0 DEF ExtendedRow, Rows
      <3>3. ASSUME NEW u \in tasks PROVE TaskDiscipline(u)'
        <4>1. CASE u.job = t.job
          BY <1>0, <1>1, <3>1, <3>2, <4>1, Undisturbed
        <4>2. CASE u.job # t.job
          BY <1>0, <1>1, <3>1, <4>2, Undisturbed
        <4> QED
          BY <4>1, <4>2
      <3> QED
        BY <1>3, <3>1, <3>3 DEF LeaseDiscipline
    <2>2. CASE ~ Owned(t.job, t.worker)
      <3> DEFINE v == [t EXCEPT !.heartbeat = "lost"]
      <3>1. tasks' = Replace(t, v) /\ job' = job
        BY <1>4, <2>2 DEF Heartbeat
      <3>2. /\ v \in Task /\ v.worker = t.worker /\ v.job = t.job /\ v.lease = t.lease
            /\ v.heartbeat = "lost" /\ v.phase = "running"
        BY <1>0, <1>4 DEF Task, Heartbeat
      <3>3. worker[t.worker] = "cancelling"
        BY <1>1, <1>4, <2>2 DEF TaskDiscipline, Vouching, Heartbeat
      <3> HIDE DEF v
      <3>4. TaskDiscipline(v)'
        BY <1>0, <1>1, <3>2, <3>3 DEF TaskDiscipline, Vouching
      <3>5. ASSUME NEW u \in tasks PROVE TaskDiscipline(u)'
        BY <1>0, <1>1, <3>1, Undisturbed
      <3> QED
        BY <1>2, <3>1, <3>2, <3>4, <3>5 DEF LeaseDiscipline, Replace
    <2> QED
      BY <2>1, <2>2
  <1>5. CASE HeartbeatFails(t)
    <2> DEFINE v == [t EXCEPT !.heartbeat = "failed"]
    <2>1. tasks' = Replace(t, v)
      BY <1>5 DEF HeartbeatFails
    <2>2. /\ v \in Task /\ v.worker = t.worker /\ v.job = t.job /\ v.lease = t.lease
          /\ v.heartbeat = "failed" /\ v.phase = "running"
      BY <1>0, <1>5 DEF Task, HeartbeatFails
    <2> HIDE DEF v
    <2>3. TaskDiscipline(v)'
      BY <1>0, <1>1, <2>2 DEF TaskDiscipline, Vouching
    <2>4. ASSUME NEW u \in tasks
          PROVE  /\ job'[u.job].status = job[u.job].status
                 /\ job'[u.job].locked_by = job[u.job].locked_by
                 /\ job'[u.job].attempt_count = job[u.job].attempt_count
                 /\ job'[u.job].locked_until = "expired" => job[u.job].locked_until = "expired"
      <3>1. job' = job \/ job' = [job EXCEPT ![t.job] = ExtendedRow(@)]
        BY <1>5 DEF HeartbeatFails
      <3>2. job'[u.job] = job[u.job] \/ job'[u.job] = ExtendedRow(job[u.job])
        BY <1>0, <1>1, <3>1
      <3>3. job[u.job] \in Rows
        BY <1>0, <1>1
      <3> QED
        BY <3>2, <3>3 DEF ExtendedRow, Rows
    <2>5. ASSUME NEW u \in tasks PROVE TaskDiscipline(u)'
      BY <1>0, <1>1, <2>4, Undisturbed
    <2> QED
      BY <1>2, <2>1, <2>2, <2>3, <2>5 DEF LeaseDiscipline, Replace
  <1>6. CASE ExecutionEnds(t)
    <2>0. ASSUME NEW u \in tasks PROVE TaskDiscipline(u)'
      BY <1>0, <1>1, <1>6, Undisturbed DEF ExecutionEnds
    <2>1. PICK o \in Outcomes :
            tasks' = IF LeaseOwned(t)
                     THEN Replace(t, [t EXCEPT !.phase = "recording",
                                               !.heartbeat = "cancelled", !.outcome = o])
                     ELSE tasks \ {t}
      BY <1>6 DEF ExecutionEnds
    <2>2. CASE LeaseOwned(t)
      <3> DEFINE v == [t EXCEPT !.phase = "recording", !.heartbeat = "cancelled", !.outcome = o]
      <3>1. /\ v \in Task /\ v.worker = t.worker /\ v.job = t.job /\ v.lease = t.lease
            /\ v.number = t.number /\ v.heartbeat = "cancelled" /\ v.phase = "recording"
        BY <1>0 DEF Task, Outcomes
      <3>2. tasks' = Replace(t, v)
        BY <2>1, <2>2
      <3>3. Vouching(t)
        BY <1>6, <2>2 DEF ExecutionEnds, LeaseOwned, Vouching
      <3>4. job' = job
        BY <1>6 DEF ExecutionEnds
      <3> HIDE DEF v
      <3>5. TaskDiscipline(v)'
        BY <1>0, <1>1, <3>1, <3>3, <3>4 DEF TaskDiscipline, Owned
      <3> QED
        BY <1>2, <2>0, <3>1, <3>2, <3>5 DEF LeaseDiscipline, Replace
    <2>3. CASE ~ LeaseOwned(t)
      BY <1>3, <2>0, <2>1, <2>3 DEF LeaseDiscipline
    <2> QED
      BY <2>2, <2>3
  <1>7. CASE ExecutionCancelled(t)
    <2> DEFINE v == [t EXCEPT !.phase = "returning", !.heartbeat = "cancelled"]
    <2>1. worker[t.worker] = "cancelling"
      BY <1>1, <1>7 DEF TaskDiscipline, ExecutionCancelled
    <2>2. tasks' = Replace(t, v) /\ job' = job
      BY <1>7, <2>1 DEF ExecutionCancelled
    <2>3. /\ v \in Task /\ v.worker = t.worker /\ v.job = t.job /\ v.lease = t.lease
          /\ v.heartbeat = "cancelled" /\ v.phase = "returning"
      BY <1>0 DEF Task
    <2> HIDE DEF v
    <2>4. TaskDiscipline(v)'
      BY <1>0, <1>1, <2>1, <2>3 DEF TaskDiscipline, Vouching
    <2>5. ASSUME NEW u \in tasks PROVE TaskDiscipline(u)'
      BY <1>0, <1>1, <2>2, Undisturbed
    <2> QED
      BY <1>2, <2>2, <2>3, <2>4, <2>5 DEF LeaseDiscipline, Replace
  <1>8. CASE RecordResult(t)
    <2>1. tasks' = tasks \ {t} /\ Vouching(t)
      BY <1>8 DEF RecordResult, Vouching
    <2>2. ASSUME NEW u \in tasks, u # t PROVE TaskDiscipline(u)'
      <3>1. CASE job'[u.job] = job[u.job]
        BY <1>0, <1>1, <3>1, Undisturbed
      <3>2. CASE job'[u.job] # job[u.job]
        <4>1. u.job = t.job /\ Owned(t.job, t.worker) /\ job'[t.job] = RecordedRow(job[t.job], t)
          BY <1>0, <1>1, <1>8, <3>2 DEF RecordResult
        <4>2. job'[t.job].status # "leased"
          BY <1>0, <4>1 DEF RecordedRow, CompletedRow, FailedRow, Rows
        <4>3. ~ Owned(u.job, u.worker)'
          BY <4>1, <4>2 DEF Owned
        <4>4. ~ (Vouching(u) /\ Owned(u.job, u.worker))
          <5>1. t.lease = claims[t.job]
            BY <1>1, <2>1, <4>1 DEF TaskDiscipline
          <5>2. Vouching(u) /\ Owned(u.job, u.worker) => u.lease = claims[u.job]
            BY <1>1 DEF TaskDiscipline
          <5> QED
            BY <2>2, <4>1, <5>1, <5>2 DEF TimelyInv, LeaseDiscipline, OneTaskPerLease
        <4> QED
          BY <1>0, <1>1, <4>3, <4>4 DEF TaskDiscipline, Vouching
      <3> QED
        BY <3>1, <3>2
    <2> QED
      BY <1>3, <2>1, <2>2 DEF LeaseDiscipline
  <1>9. CASE ReturnToPending(t)
    <2>1. tasks' = tasks \ {t} /\ worker[t.worker] = "cancelling"
      BY <1>1, <1>9 DEF ReturnToPending, TaskDiscipline
    <2>2. ASSUME NEW u \in tasks PROVE TaskDiscipline(u)'
      <3>1. CASE job'[u.job] = job[u.job]
        BY <1>0, <1>1, <3>1, Undisturbed
      <3>2. CASE job'[u.job] # job[u.job]
        <4>1. u.job = t.job /\ Owned(t.job, t.worker) /\ job'[t.job] = ReturnedRow(job[t.job])
          BY <1>0, <1>1, <1>9, <3>2 DEF ReturnToPending
        <4>2. job'[t.job].status # "leased"
          BY <1>0, <4>1 DEF ReturnedRow, Rows
        <4>3. ~ Owned(u.job, u.worker)'
          BY <4>1, <4>2 DEF Owned
        <4>4. CASE u.worker = t.worker
          BY <1>0, <1>1, <2>1, <4>3, <4>4 DEF TaskDiscipline, Vouching
        <4>5. CASE u.worker # t.worker
          <5>1. ~ Owned(u.job, u.worker)
            BY <4>1, <4>5 DEF Owned
          <5> QED
            BY <1>0, <1>1, <4>3, <5>1, NotOwned
        <4> QED
          BY <4>4, <4>5
      <3> QED
        BY <3>1, <3>2
    <2> QED
      BY <1>3, <2>1, <2>2 DEF LeaseDiscipline
  <1>10. CASE ReturnCancelled(t) \/ DatabaseFails(t)
    <2>1. ASSUME NEW u \in tasks PROVE TaskDiscipline(u)'
      BY <1>0, <1>1, <1>10, Undisturbed DEF ReturnCancelled, DatabaseFails
    <2> QED
      BY <1>3, <1>10, <2>1 DEF LeaseDiscipline, ReturnCancelled, DatabaseFails
  <1> QED
    BY <1>4, <1>5, <1>6, <1>7, <1>8, <1>9, <1>10 DEF TaskNext, TaskAdvances

LEMMA ClaimLoopDiscipline ==
    ASSUME Timely, ~ SelfCancelling, TimelyInv, NEW w \in Workers, ClaimLoop(w)
    PROVE  LeaseDiscipline'
  <1>1. PICK R \in SUBSET Jobs, C \in SUBSET Jobs, acked \in BOOLEAN :
          ClaimEffect(w, R, C, acked)
    BY ClaimLoopEffect
  <1>2. \A j \in Jobs : ClaimFacts(w, R, C, j)
    BY <1>1, ClaimRows DEF TimelyInv
  <1>3. /\ job \in [Jobs -> Rows] /\ claims \in [Jobs -> Nat] /\ tasks \subseteq Task
        /\ worker \in [Workers -> WorkerStates]
        /\ worker[w] \in {"up", "stopping"}
        /\ worker' = [worker EXCEPT ![w] = IF @ = "stopping" THEN "closing" ELSE @]
    BY DEF TimelyInv, LedgerInv, TypeOK, ClaimLoop, Claiming
  <1>4. /\ worker'[w] \in {"up", "closing"}
        /\ \A v \in Workers : v # w => worker'[v] = worker[v]
    BY <1>3
  <1>5. \A j \in Jobs : /\ j \in C => claims'[j] = claims[j] + 1
                        /\ j \notin C => claims'[j] = claims[j]
    BY <1>1 DEF ClaimEffect
  <1>6. \A j \in C : /\ job'[j].status = "leased" /\ job'[j].locked_by = w
                     /\ job'[j].locked_until = "live"
    <2> SUFFICES ASSUME NEW j \in C
                 PROVE  /\ job'[j].status = "leased" /\ job'[j].locked_by = w
                        /\ job'[j].locked_until = "live"
      OBVIOUS
    <2>1. job'[j] = ClaimedRow(Recovered(R)[j], w) /\ Recovered(R)[j] \in Rows
      BY <1>2 DEF ClaimFacts
    <2> QED
      BY <2>1 DEF ClaimedRow, Rows
  <1>7. \A j \in Jobs \ C : j \in R => job'[j].status # "leased"
    BY <1>2 DEF ClaimFacts
  <1>8. ASSUME NEW t \in tasks PROVE TaskDiscipline(t)'
    <2>0. TaskDiscipline(t) /\ t \in Task /\ t.job \in Jobs /\ t.worker \in Workers
      BY <1>3 DEF TimelyInv, LeaseDiscipline, Task
    <2>1. /\ worker'[t.worker] \notin {"new", "down"}
          /\ worker[t.worker] = "cancelling" => worker'[t.worker] = "cancelling"
      BY <1>3, <1>4, <2>0 DEF TaskDiscipline
    <2>2. CASE t.job \notin R /\ t.job \notin C
      <3>1. job'[t.job] = job[t.job] /\ claims'[t.job] = claims[t.job]
        BY <1>2, <1>5, <2>0, <2>2 DEF ClaimFacts
      <3> QED
        BY <2>0, <2>1, <3>1, Undisturbed
    <2>3. CASE t.job \in R \/ t.job \in C
      <3>1. ~ (Vouching(t) /\ Owned(t.job, t.worker))
        <4>1. CASE t.job \in R
          BY <1>1, <2>0, <4>1 DEF ClaimEffect, IsExpired, TaskDiscipline
        <4>2. CASE t.job \notin R
          BY <1>2, <2>0, <2>3, <4>2 DEF ClaimFacts, Owned
        <4> QED
          BY <4>1, <4>2
      <3>2. Vouching(t) => worker[t.worker] = "cancelling"
        BY <2>0, <3>1 DEF TaskDiscipline
      <3>3. Vouching(t) => ~ Owned(t.job, t.worker)'
        <4>1. Vouching(t) => t.worker # w
          BY <1>3, <3>2
        <4>2. t.job \in C => job'[t.job].locked_by = w
          BY <1>6
        <4>3. t.job \notin C => job'[t.job].status # "leased"
          BY <1>7, <2>0, <2>3
        <4> QED
          BY <4>1, <4>2, <4>3 DEF Owned
      <3>4. t.lease <= claims'[t.job]
        <4>1. t.lease <= claims[t.job] /\ t.lease \in Nat /\ claims[t.job] \in Nat
          BY <1>3, <2>0 DEF TaskDiscipline, Task
        <4> QED
          BY <1>5, <2>0, <4>1
      <3>5. worker'[t.worker] # "cancelling" => worker[t.worker] # "cancelling"
        BY <2>1
      <3> QED
        BY <2>0, <2>1, <3>2, <3>3, <3>4, <3>5 DEF TaskDiscipline, Vouching
    <2> QED
      BY <2>2, <2>3
  <1> DEFINE New(j) == NewTask(w, j, ClaimedRow(Recovered(R)[j], w))
  <1>9. ASSUME NEW j \in C
        PROVE  /\ New(j).job = j /\ New(j).worker = w /\ New(j).lease = claims[j] + 1
               /\ New(j).number = job'[j].attempt_count
               /\ New(j).phase = "running" /\ New(j).heartbeat = "beating"
    BY <1>2 DEF NewTask, ClaimFacts
  <1>10. tasks' \subseteq tasks \cup {New(j) : j \in C}
    BY <1>1 DEF ClaimEffect
  <1> HIDE DEF New
  <1>11. ASSUME NEW v, NEW j \in C, v = New(j) PROVE TaskDiscipline(v)'
    <2>0. /\ v.job = j /\ v.worker = w /\ v.lease = claims[j] + 1
          /\ v.number = job'[j].attempt_count
          /\ v.phase = "running" /\ v.heartbeat = "beating"
      BY <1>9, <1>11
    <2>1. /\ worker'[v.worker] \notin {"new", "down", "cancelling"}
          /\ claims'[j] = claims[j] + 1 /\ claims[j] \in Nat
      BY <1>3, <1>4, <1>5, <2>0
    <2>2. v.lease <= claims'[v.job] /\ v.lease = claims'[v.job]
      BY <2>0, <2>1
    <2>3. Owned(v.job, v.worker)'
      BY <1>6, <2>0 DEF Owned
    <2>4. job'[v.job].locked_until # "expired" /\ v.number = job'[v.job].attempt_count
      BY <1>6, <2>0
    <2> QED
      BY <2>0, <2>1, <2>2, <2>3, <2>4 DEF TaskDiscipline
  <1>12. OneTaskPerLease'
    <2>1. \A t \in tasks : /\ t.job \in Jobs /\ t.lease \in Nat
                           /\ t.lease <= claims[t.job]
      BY <1>3 DEF TimelyInv, LeaseDiscipline, TaskDiscipline, Task
    <2>2. ASSUME NEW t \in tasks, NEW j \in C, t.job = j PROVE t.lease # New(j).lease
      <3>1. claims[j] \in Nat /\ t.lease \in Nat /\ t.lease <= claims[j]
        BY <1>3, <2>1, <2>2
      <3> QED
        BY <1>9, <3>1
    <2> SUFFICES ASSUME NEW t \in tasks', NEW u \in tasks', t.job = u.job, t.lease = u.lease
                 PROVE  t = u
      BY DEF OneTaskPerLease
    <2>3. CASE t \in tasks /\ u \in tasks
      BY <2>3 DEF TimelyInv, LeaseDiscipline, OneTaskPerLease
    <2>4. ASSUME NEW j \in C, t = New(j), u \in tasks PROVE FALSE
      BY <1>9, <2>2, <2>4
    <2>5. ASSUME NEW j \in C, u = New(j), t \in tasks PROVE FALSE
      BY <1>9, <2>2, <2>5
    <2>6. ASSUME NEW i \in C, NEW j \in C, t = New(i), u = New(j) PROVE t = u
      BY <1>9, <2>6
    <2> QED
      BY <1>10, <2>3, <2>4, <2>5, <2>6
  <1>13. ASSUME NEW t \in tasks' PROVE TaskDiscipline(t)'
    BY <1>8, <1>10, <1>11, <1>13
  <1> QED
    BY <1>12, <1>13 DEF LeaseDiscipline

LEMMA WorkerNextDiscipline ==
    ASSUME Timely, ~ SelfCancelling, TimelyInv, NEW w \in Workers, WorkerNext(w)
    PROVE  LeaseDiscipline'
  <1>1. CASE ClaimLoop(w)
    BY <1>1, ClaimLoopDiscipline
  <1>2. CASE ~ ClaimLoop(w)
    <2>0. /\ job' = job /\ claims' = claims /\ tasks' \subseteq tasks
          /\ worker \in [Workers -> WorkerStates] /\ tasks \subseteq Task
      BY <1>2 DEF WorkerNext, StartWorker, RequestStop, ObserveStop, GraceExpires, WorkerExit,
                  Crash, TimelyInv, LedgerInv, TypeOK
    <2>1. OneTaskPerLease'
      BY <2>0 DEF TimelyInv, LeaseDiscipline, OneTaskPerLease
    <2>2. ASSUME NEW t \in tasks' PROVE TaskDiscipline(t)'
      <3>0. TaskDiscipline(t) /\ t \in tasks /\ t.worker \in Workers
        BY <2>0 DEF TimelyInv, LeaseDiscipline, Task
      <3>1. CASE t.worker # w
        <4>1. worker'[t.worker] = worker[t.worker]
          BY <1>2, <2>0, <3>0, <3>1 DEF WorkerNext, StartWorker, RequestStop, ObserveStop,
                                        GraceExpires, WorkerExit, Crash
        <4> QED
          BY <2>0, <3>0, <4>1, Undisturbed DEF TaskDiscipline
      <3>2. CASE t.worker = w
        <4>1. ~ StartWorker(w) /\ ~ WorkerExit(w) /\ ~ Crash(w)
          BY <2>2, <3>0, <3>2 DEF StartWorker, WorkerExit, Crash, Inflight, TaskDiscipline
        <4>2. /\ worker'[w] \notin {"new", "down"}
              /\ worker[w] # "cancelling"
          BY <1>2, <2>0, <4>1 DEF WorkerNext, RequestStop, ObserveStop, GraceExpires
        <4> QED
          BY <2>0, <3>0, <3>2, <4>2, Undisturbed
      <3> QED
        BY <3>1, <3>2
    <2> QED
      BY <2>1, <2>2 DEF LeaseDiscipline
  <1> QED
    BY <1>1, <1>2

LEMMA PurgeDiscipline ==
    ASSUME Timely, ~ SelfCancelling, TimelyInv, PurgeBatch
    PROVE  LeaseDiscipline'
  <1>1. PICK P \in SUBSET {j \in Jobs : Purgeable(job[j])} :
          /\ job' = [j \in Jobs |-> IF j \in P THEN NoRow("purged") ELSE job[j]]
          /\ UNCHANGED <<worker, tasks, claims, faulted>>
    BY DEF PurgeBatch
  <1>2. OneTaskPerLease'
    BY <1>1 DEF TimelyInv, LeaseDiscipline, OneTaskPerLease
  <1>3. ASSUME NEW t \in tasks PROVE TaskDiscipline(t)'
    <2>0. /\ TaskDiscipline(t) /\ t \in Task /\ t.job \in Jobs /\ claims[t.job] \in Nat
          /\ worker[t.worker] \notin {"new", "down"}
      BY DEF TimelyInv, LeaseDiscipline, LedgerInv, TypeOK, Task, TaskDiscipline
    <2>1. CASE t.job \notin P
      BY <1>1, <2>0, <2>1, Undisturbed
    <2>2. CASE t.job \in P
      <3>1. job[t.job].status # "leased" /\ job'[t.job].status # "leased"
        BY <1>1, <2>0, <2>2 DEF Purgeable, Final, NoRow
      <3>2. ~ Owned(t.job, t.worker) /\ ~ Owned(t.job, t.worker)'
        BY <3>1 DEF Owned
      <3> QED
        BY <1>1, <2>0, <3>2, NotOwned
    <2> QED
      BY <2>1, <2>2
  <1> QED
    BY <1>1, <1>2, <1>3 DEF LeaseDiscipline

LEMMA NextDiscipline ==
    ASSUME Timely, ~ SelfCancelling
    PROVE  TimelyInv /\ [Next]_vars => TimelyInv'
  <1> SUFFICES ASSUME TimelyInv, [Next]_vars PROVE LeaseDiscipline'
    BY NextLedger DEF TimelyInv
  <1>1. ASSUME NEW j \in Jobs, JobNext(j) PROVE LeaseDiscipline'
    BY <1>1, JobNextDiscipline
  <1>2. ASSUME NEW w \in Workers, WorkerNext(w) PROVE LeaseDiscipline'
    BY <1>2, WorkerNextDiscipline
  <1>3. ASSUME NEW t \in tasks, TaskNext(t) PROVE LeaseDiscipline'
    BY <1>3, TaskNextDiscipline
  <1>4. CASE PurgeBatch
    BY <1>4, PurgeDiscipline
  <1>5. CASE UNCHANGED vars
    BY <1>5 DEF vars, TimelyInv, LeaseDiscipline, OneTaskPerLease, TaskDiscipline, Vouching,
                Owned
  <1> QED
    BY <1>1, <1>2, <1>3, <1>4, <1>5 DEF Next

LEMMA TimelyInvariant ==
    ASSUME Timely, ~ SelfCancelling
    PROVE  Spec => []TimelyInv
  <1>1. Init => TimelyInv
    BY InitLedger DEF Init, TimelyInv, LeaseDiscipline, OneTaskPerLease
  <1> QED
    BY <1>1, NextDiscipline, PTL DEF Spec

\* With timely heartbeats a result that passes the guard of its UPDATE comes
\* from the task of the current lease, with the current attempt number.
THEOREM Fencing ==
    ASSUME Timely, ~ SelfCancelling
    PROVE  Spec => []FencedResults
  <1>1. TimelyInv => FencedResults
    BY DEF TimelyInv, LeaseDiscipline, TaskDiscipline, FencedResults
  <1> QED
    BY <1>1, TimelyInvariant, PTL

-----------------------------------------------------------------------------
(* Consequences for rows and attempts.  A recorded result carries the      *)
(* attempt_count of the row it changes, so should_retry and attempt_number *)
(* are right although both come from the claimed JobRow.                   *)

LEMMA RecordedFacts ==
    ASSUME TimelyInv, NEW j \in Jobs, NEW t \in tasks, RecordedBy(j, t)
    PROVE  /\ t \in Task /\ job[j] \in Rows /\ job[j].status = "leased"
           /\ t.number = job[j].attempt_count
           /\ attempts'[j] = Append(attempts[j], RecordedAttempt(t))
           /\ job'[j].attempt_count = job[j].attempt_count
           /\ \/ job'[j].status = "succeeded" /\ t.outcome = "succeeded"
              \/ job'[j].status = "pending" /\ ShouldRetry(t) /\ t.outcome # "succeeded"
              \/ job'[j].status = "dead_letter" /\ ~ ShouldRetry(t) /\ t.outcome # "succeeded"
  <1>1. t \in Task /\ job[j] \in Rows
    BY DEF TimelyInv, LedgerInv, TypeOK
  <1>2. /\ job[j].status = "leased" /\ t.phase = "recording" /\ t.job = j
        /\ Owned(t.job, t.worker)
        /\ job'[j] = RecordedRow(job[j], t)
        /\ attempts'[j] = Append(attempts[j], RecordedAttempt(t))
    BY DEF RecordedBy, Owned
  <1>3. t.number = job[j].attempt_count
    BY <1>2 DEF TimelyInv, LeaseDiscipline, TaskDiscipline, Vouching
  <1>4. RecordedRow(job[j], t).attempt_count = job[j].attempt_count
    BY <1>1 DEF RecordedRow, CompletedRow, FailedRow, Rows
  <1>5. \/ RecordedRow(job[j], t).status = "succeeded" /\ t.outcome = "succeeded"
        \/ /\ RecordedRow(job[j], t).status = "pending" /\ ShouldRetry(t)
           /\ t.outcome # "succeeded"
        \/ /\ RecordedRow(job[j], t).status = "dead_letter" /\ ~ ShouldRetry(t)
           /\ t.outcome # "succeeded"
    BY <1>1 DEF RecordedRow, CompletedRow, FailedRow, Rows
  <1> QED
    BY <1>1, <1>2, <1>3, <1>4, <1>5

LEMMA ExpiredFacts ==
    ASSUME LedgerInv, NEW j \in Jobs, Expired(j)
    PROVE  /\ job[j].status = "leased"
           /\ attempts'[j] = Append(attempts[j], ExpiredAttempt(job[j]))
           /\ \/ /\ job'[j].status = "pending" /\ job[j].attempt_count < MaxAttempts
                 /\ job'[j].attempt_count = job[j].attempt_count
              \/ /\ job'[j].status = "dead_letter" /\ ~ (job[j].attempt_count < MaxAttempts)
                 /\ job'[j].attempt_count = job[j].attempt_count
              \/ /\ job'[j].status = "leased" /\ job[j].attempt_count < MaxAttempts
                 /\ job'[j].attempt_count = job[j].attempt_count + 1
  <1>1. job[j] \in Rows /\ job[j].attempt_count \in 0..MaxAttempts
    BY LedgerFacts
  <1>2. Exhausted(job[j]) <=> ~ (job[j].attempt_count < MaxAttempts)
    BY <1>1, MaxAttemptsAssumption DEF Exhausted
  <1>3. /\ RecoveredRow(job[j]).attempt_count = job[j].attempt_count
        /\ Exhausted(job[j]) => RecoveredRow(job[j]).status = "dead_letter"
        /\ ~ Exhausted(job[j]) => RecoveredRow(job[j]).status = "pending"
    BY <1>1 DEF RecoveredRow, Rows
  <1> QED
    BY <1>2, <1>3 DEF Expired, IsExpired

\* With timely heartbeats a pending job always has an attempt left, so it is
\* claimable as soon as it is due: none is stranded.
THEOREM NoStrandedJob ==
    ASSUME Timely, ~ SelfCancelling
    PROVE  Spec => []NoExhaustedPending
  <1>1. Init => NoExhaustedPending
    BY DEF Init, NoRow, NoExhaustedPending
  <1>2. TimelyInv /\ NoExhaustedPending /\ [Next]_vars => NoExhaustedPending'
    <2> SUFFICES ASSUME TimelyInv, NoExhaustedPending, [Next]_vars, NEW j \in Jobs,
                        job'[j].status = "pending"
                 PROVE  job'[j].attempt_count < MaxAttempts
      BY DEF NoExhaustedPending
    <2>0. RowStep(j) /\ job[j].attempt_count \in 0..MaxAttempts
      BY NextRowStep, LedgerFacts DEF TimelyInv
    <2>1. CASE Quiet(j) \/ Inserted(j) \/ Cancelled(j) \/ Leased(j) \/ Purged(j)
      BY <2>1, MaxAttemptsAssumption DEF Quiet, Inserted, Cancelled, Leased, Purged, NoExhaustedPending
    <2>2. CASE Returned(j)
      BY <2>0, <2>2, MaxAttemptsAssumption DEF Returned
    <2>3. ASSUME NEW t \in tasks, RecordedBy(j, t) PROVE job'[j].attempt_count < MaxAttempts
      BY <2>3, RecordedFacts DEF ShouldRetry
    <2>4. CASE Expired(j)
      BY <2>4, ExpiredFacts DEF TimelyInv
    <2> QED
      BY <2>0, <2>1, <2>2, <2>3, <2>4 DEF RowStep
  <1> QED
    BY <1>1, <1>2, TimelyInvariant, PTL DEF Spec

\* With timely heartbeats attempt rows are numbered 1, 2, 3, ... in order.
THEOREM HistoryNumbered ==
    ASSUME Timely, ~ SelfCancelling
    PROVE  Spec => []AttemptsNumbered
  <1>1. Init => AttemptsNumbered
    BY DEF Init, AttemptsNumbered
  <1>2. TimelyInv /\ AttemptsNumbered /\ [Next]_vars => AttemptsNumbered'
    <2> SUFFICES ASSUME TimelyInv, AttemptsNumbered, [Next]_vars, NEW j \in Jobs
                 PROVE  \A i \in DOMAIN attempts'[j] : attempts'[j][i].number = i
      BY DEF AttemptsNumbered
    <2>0. /\ RowStep(j) /\ attempts[j] \in Seq(Attempt) /\ Len(attempts[j]) \in Nat
          /\ job[j].status = "leased" => job[j].attempt_count = Len(attempts[j]) + 1
      BY NextRowStep, LedgerFacts DEF TimelyInv
    <2>1. CASE attempts'[j] = attempts[j] \/ attempts'[j] = <<>>
      BY <2>1 DEF AttemptsNumbered
    <2>2. ASSUME NEW a, attempts'[j] = Append(attempts[j], a), a.number = Len(attempts[j]) + 1
          PROVE  \A i \in DOMAIN attempts'[j] : attempts'[j][i].number = i
      <3>1. DOMAIN Append(attempts[j], a) = 1..(Len(attempts[j]) + 1)
        BY <2>0
      <3>2. \A i \in 1..Len(attempts[j]) :
              Append(attempts[j], a)[i] = attempts[j][i] /\ i \in DOMAIN attempts[j]
        BY <2>0
      <3>3. Append(attempts[j], a)[Len(attempts[j]) + 1] = a
        BY <2>0
      <3>4. \A i \in 1..(Len(attempts[j]) + 1) :
              i \in 1..Len(attempts[j]) \/ i = Len(attempts[j]) + 1
        BY <2>0
      <3> QED
        BY <2>2, <3>1, <3>2, <3>3, <3>4 DEF AttemptsNumbered
    <2>3. ASSUME NEW t \in tasks, RecordedBy(j, t)
          PROVE  \A i \in DOMAIN attempts'[j] : attempts'[j][i].number = i
      <3>1. RecordedAttempt(t).number = Len(attempts[j]) + 1
        BY <2>0, <2>3, RecordedFacts DEF RecordedAttempt
      <3> QED
        BY <2>2, <2>3, <3>1 DEF RecordedBy
    <2>4. CASE Expired(j)
      <3>1. ExpiredAttempt(job[j]).number = Len(attempts[j]) + 1
        BY <2>0, <2>4 DEF Expired, IsExpired, ExpiredAttempt
      <3> QED
        BY <2>2, <2>4, <3>1 DEF Expired
    <2> QED
      BY <2>0, <2>1, <2>3, <2>4 DEF RowStep, Quiet, Inserted, Cancelled, Leased, Returned,
                                    Purged
  <1> QED
    BY <1>1, <1>2, TimelyInvariant, PTL DEF Spec

-----------------------------------------------------------------------------
(* Starts.  While nobody is asked to stop no attempt is given back, so     *)
(* attempt_count is the number of leases granted until the job is purged.  *)

NobodyStops == \A w \in Workers : worker[w] \in {"new", "up"}

StartsCounted ==
    NobodyStops =>
        \A j \in Jobs : /\ claims[j] <= MaxAttempts
                        /\ job[j].status # "purged" => claims[j] = job[j].attempt_count

\* No worker comes back from stopping.
LEMMA StoppingStays ==
    ASSUME LedgerInv, [Next]_vars, NobodyStops'
    PROVE  NobodyStops
  <1> SUFFICES ASSUME NEW w \in Workers PROVE worker[w] \in {"new", "up"}
    BY DEF NobodyStops
  <1>0. worker \in [Workers -> WorkerStates] /\ worker'[w] \in {"new", "up"}
    BY DEF LedgerInv, TypeOK, NobodyStops
  <1>1. ASSUME NEW v \in Workers, WorkerNext(v) PROVE worker[w] \in {"new", "up"}
    <2>1. CASE ClaimLoop(v)
      <3>1. worker' = [worker EXCEPT ![v] = IF @ = "stopping" THEN "closing" ELSE @]
        BY <2>1 DEF ClaimLoop
      <3> QED
        BY <1>0, <3>1
    <2>2. CASE ~ ClaimLoop(v)
      <3>1. \/ worker[v] = "new" /\ worker' = [worker EXCEPT ![v] = "up"]
            \/ \E s \in {"stopping", "grace", "cancelling", "down"} :
                   worker' = [worker EXCEPT ![v] = s]
        BY <1>1, <2>2 DEF WorkerNext, StartWorker, RequestStop, ObserveStop, GraceExpires,
                          WorkerExit, Crash
      <3> QED
        BY <1>0, <3>1
    <2> QED
      BY <2>1, <2>2
  <1>2. ASSUME NEW j \in Jobs, JobNext(j) PROVE worker' = worker
    BY <1>2 DEF JobNext, InsertJob, CancelPendingJob, LeaseExpires, BecomesDue, RetentionPasses
  <1>3. ASSUME NEW t \in tasks, TaskNext(t) PROVE worker' = worker
    BY <1>3 DEF TaskNext, TaskAdvances, Heartbeat, HeartbeatFails, ExecutionEnds,
                ExecutionCancelled, RecordResult, ReturnToPending, ReturnCancelled, DatabaseFails
  <1>4. CASE PurgeBatch \/ UNCHANGED vars
    BY <1>0, <1>4 DEF PurgeBatch, vars
  <1> QED
    BY <1>0, <1>1, <1>2, <1>3, <1>4 DEF Next

\* Only a claim counts an attempt, and nothing takes one back.
LEMMA CountsKept ==
    ASSUME TimelyInv, NobodyStops, [Next]_vars, NEW j \in Jobs, job'[j].status # "purged",
           \A w \in Workers : ~ ClaimLoop(w)
    PROVE  /\ claims' = claims /\ job[j].status # "purged"
           /\ job'[j].attempt_count = job[j].attempt_count
  <1>0. /\ job \in [Jobs -> Rows] /\ job[j] \in Rows /\ tasks \subseteq Task
        /\ job[j].status = "absent" => job[j].attempt_count = 0
    BY DEF TimelyInv, LedgerInv, TypeOK, AbsentUnused
  <1>1. ASSUME NEW i \in Jobs, JobNext(i)
        PROVE  /\ claims' = claims /\ job[j].status # "purged"
               /\ job'[j].attempt_count = job[j].attempt_count
    <2>1. claims' = claims /\ (i # j => job'[j] = job[j])
      BY <1>0, <1>1 DEF JobNext, InsertJob, CancelPendingJob, LeaseExpires, BecomesDue,
                        RetentionPasses
    <2>2. CASE i = j /\ InsertJob(i)
      <3>1. \A at : InsertedRow(at).attempt_count = 0
        BY DEF InsertedRow, NoRow
      <3> QED
        BY <1>0, <2>1, <2>2, <3>1 DEF InsertJob
    <2>3. CASE i = j /\ CancelPendingJob(i)
      <3>1. job'[j] = CancelledRow(job[j]) /\ job[j].status = "pending"
        BY <1>0, <2>3 DEF CancelPendingJob, Cancellable
      <3> QED
        BY <1>0, <2>1, <3>1 DEF CancelledRow, Rows
    <2>4. CASE i = j /\ (LeaseExpires(i) \/ BecomesDue(i) \/ RetentionPasses(i))
      BY <1>0, <2>1, <2>4 DEF LeaseExpires, BecomesDue, RetentionPasses, Final, Rows
    <2> QED
      BY <1>1, <2>1, <2>2, <2>3, <2>4 DEF JobNext
  <1>2. ASSUME NEW t \in tasks, TaskNext(t)
        PROVE  /\ claims' = claims /\ job[j].status # "purged"
               /\ job'[j].attempt_count = job[j].attempt_count
    <2>0. t \in Task /\ t.worker \in Workers
      BY <1>0 DEF Task
    <2>1. worker[t.worker] \in {"new", "up"}
      BY <2>0 DEF NobodyStops
    <2>2. t.phase # "returning"
      BY <2>1 DEF TimelyInv, LeaseDiscipline, TaskDiscipline
    <2>3. claims' = claims
      BY <1>2 DEF TaskNext, TaskAdvances, Heartbeat, HeartbeatFails, ExecutionEnds,
           ExecutionCancelled, RecordResult, ReturnToPending, ReturnCancelled, DatabaseFails
    <2>4. \/ job'[j] = job[j]
          \/ job[j].status = "leased" /\ job'[j] = ExtendedRow(job[j])
          \/ job[j].status = "leased" /\ job'[j] = RecordedRow(job[j], t)
      BY <1>0, <1>2, <2>2 DEF TaskNext, TaskAdvances, Heartbeat, HeartbeatFails, ExecutionEnds,
           ExecutionCancelled, RecordResult, ReturnToPending, ReturnCancelled, DatabaseFails, Owned
    <2>5. /\ ExtendedRow(job[j]).attempt_count = job[j].attempt_count
          /\ RecordedRow(job[j], t).attempt_count = job[j].attempt_count
      BY <1>0 DEF ExtendedRow, RecordedRow, CompletedRow, FailedRow, Rows
    <2> QED
      BY <2>3, <2>4, <2>5
  <1>3. ASSUME NEW w \in Workers, WorkerNext(w) PROVE UNCHANGED <<job, claims>>
    BY <1>3 DEF WorkerNext, StartWorker, RequestStop, ObserveStop, GraceExpires, WorkerExit, Crash
  <1>4. CASE PurgeBatch
    <2>1. claims' = claims /\ (job'[j] = job[j] \/ job'[j] = NoRow("purged"))
      BY <1>4 DEF PurgeBatch
    <2> QED
      BY <2>1 DEF NoRow
  <1>5. CASE UNCHANGED vars
    BY <1>5 DEF vars
  <1> QED
    BY <1>1, <1>2, <1>3, <1>4, <1>5 DEF Next

\* As long as nobody is asked to stop, no job is started more than
\* max_attempts times, however often its lease expires.
THEOREM Starts ==
    ASSUME Timely, ~ SelfCancelling
    PROVE  Spec => []StartsBounded
  <1>1. Init => StartsCounted
    BY MaxAttemptsAssumption DEF Init, NoRow, StartsCounted
  <1>2. TimelyInv /\ StartsCounted /\ [Next]_vars => StartsCounted'
    <2> SUFFICES ASSUME TimelyInv, StartsCounted, [Next]_vars, NobodyStops', NEW j \in Jobs
                 PROVE  /\ claims'[j] <= MaxAttempts
                        /\ job'[j].status # "purged" => claims'[j] = job'[j].attempt_count
      BY DEF StartsCounted
    <2>0. /\ NobodyStops /\ job[j].attempt_count \in 0..MaxAttempts /\ claims[j] \in Nat
          /\ claims[j] <= MaxAttempts
          /\ job[j].status # "purged" => claims[j] = job[j].attempt_count
      BY StoppingStays, LedgerFacts DEF TimelyInv, LedgerInv, TypeOK, StartsCounted
    <2>1. ASSUME NEW w \in Workers, ClaimLoop(w)
          PROVE  /\ claims'[j] <= MaxAttempts
                 /\ job'[j].status # "purged" => claims'[j] = job'[j].attempt_count
      <3>1. PICK R \in SUBSET Jobs, C \in SUBSET Jobs, acked \in BOOLEAN :
              ClaimEffect(w, R, C, acked)
        BY <2>1, ClaimLoopEffect
      <3>2. ClaimFacts(w, R, C, j)
        BY <3>1, ClaimRows DEF TimelyInv
      <3>3. claims'[j] = IF j \in C THEN claims[j] + 1 ELSE claims[j]
        BY <3>1 DEF ClaimEffect
      <3>4. CASE j \in C
        <4>1. job[j].status # "purged"
          BY <3>2, <3>4 DEF ClaimFacts
        <4> QED
          BY <2>0, <3>2, <3>3, <3>4, <4>1, MaxAttemptsAssumption DEF ClaimFacts
      <3>5. CASE j \notin C
        <4>1. /\ job'[j].attempt_count = job[j].attempt_count
              /\ job'[j].status = "purged" \/ job[j].status # "purged"
          BY <3>2, <3>5 DEF ClaimFacts
        <4> QED
          BY <2>0, <3>3, <3>5, <4>1
      <3> QED
        BY <3>4, <3>5
    <2>2. ASSUME \A w \in Workers : ~ ClaimLoop(w)
          PROVE  /\ claims'[j] <= MaxAttempts
                 /\ job'[j].status # "purged" => claims'[j] = job'[j].attempt_count
      <3>1. claims' = claims
        BY <2>2 DEF Next, vars, JobNext, InsertJob, CancelPendingJob, LeaseExpires, BecomesDue,
             RetentionPasses, WorkerNext, StartWorker, RequestStop, ObserveStop, GraceExpires,
             WorkerExit, Crash, TaskNext, TaskAdvances, Heartbeat, HeartbeatFails, ExecutionEnds,
             ExecutionCancelled, RecordResult, ReturnToPending, ReturnCancelled, DatabaseFails,
             PurgeBatch
      <3> QED
        BY <2>0, <2>2, <3>1, CountsKept
    <2> QED
      BY <2>1, <2>2
  <1>3. TimelyInv /\ StartsCounted => StartsBounded
    BY DEF StartsCounted, NobodyStops, StartsBounded
  <1> QED
    BY <1>1, <1>2, <1>3, TimelyInvariant, PTL DEF Spec

-----------------------------------------------------------------------------
(* The system implements its contract. *)

LEMMA ContractStep ==
    ASSUME TimelyInv, [Next]_vars, NEW j \in Jobs
    PROVE  Contract!JobStep(j)
  <1> USE DEF Contract!JobStep, Contract!Moves
  <1>0. RowStep(j) /\ job[j] \in Rows
    BY NextRowStep, LedgerFacts DEF TimelyInv
  <1>1. CASE Quiet(j)
    BY <1>1 DEF Quiet, Contract!Stays
  <1>2. CASE Inserted(j)
    BY <1>2 DEF Inserted, Contract!Enqueue
  <1>3. CASE Cancelled(j)
    BY <1>3 DEF Cancelled, Contract!Cancel
  <1>4. CASE Leased(j)
    BY <1>4 DEF Leased, Contract!Lease, Contract!Left
  <1>5. CASE Returned(j)
    BY <1>5 DEF Returned, Contract!Return
  <1>6. CASE Purged(j)
    BY <1>6 DEF Purged, Final, Contract!Purge
  <1>7. ASSUME NEW t \in tasks, RecordedBy(j, t) PROVE Contract!JobStep(j)
    <2>1. /\ t \in Task /\ job[j].status = "leased" /\ t.number = job[j].attempt_count
          /\ attempts'[j] = Append(attempts[j], RecordedAttempt(t))
          /\ job'[j].attempt_count = job[j].attempt_count
          /\ \/ job'[j].status = "succeeded" /\ t.outcome = "succeeded"
             \/ job'[j].status = "pending" /\ ShouldRetry(t) /\ t.outcome # "succeeded"
             \/ /\ job'[j].status = "dead_letter" /\ ~ ShouldRetry(t)
                /\ t.outcome # "succeeded"
      BY <1>7, RecordedFacts
    <2>2. t.outcome \in Outcomes
      BY <1>7, <2>1 DEF RecordedBy, Task
    <2>3. attempts'[j] = Contract!Logged(j, t.outcome)
      BY <2>1, <2>2 DEF RecordedAttempt, Contract!Logged, Contract!AttemptStatus, Outcomes
    <2>4. CASE job'[j].status = "succeeded" /\ t.outcome = "succeeded"
      BY <2>1, <2>3, <2>4 DEF Contract!Succeed
    <2>5. CASE job'[j].status = "pending" /\ ShouldRetry(t) /\ t.outcome # "succeeded"
      BY <2>1, <2>3, <2>5 DEF Contract!Retry, Contract!Retryable, Contract!Left,
                                   ShouldRetry
    <2>6. CASE job'[j].status = "dead_letter" /\ ~ ShouldRetry(t) /\ t.outcome # "succeeded"
      <3>1. /\ t.outcome \in Contract!Retryable \cup {"permanent_failure"}
            /\ t.outcome = "permanent_failure" \/ ~ (job[j].attempt_count < MaxAttempts)
        BY <2>1, <2>2, <2>6 DEF ShouldRetry, Outcomes, Contract!Retryable
      <3> QED
        BY <2>1, <2>3, <2>6, <3>1 DEF Contract!DeadLetter, Contract!Left
    <2> QED
      BY <2>1, <2>4, <2>5, <2>6
  <1>8. CASE Expired(j)
    <2>1. attempts'[j] = Contract!Logged(j, "lease_expired")
      BY <1>8, ExpiredFacts DEF TimelyInv, Contract!Logged, Contract!AttemptStatus,
                                      ExpiredAttempt
    <2> QED
      BY <1>8, <2>1, ExpiredFacts DEF TimelyInv, Contract!Retry, Contract!DeadLetter,
                                      Contract!Relet, Contract!Left, Contract!Retryable
  <1> QED
    BY <1>0, <1>1, <1>2, <1>3, <1>4, <1>5, <1>6, <1>7, <1>8 DEF RowStep

\* With timely heartbeats the workers, their tasks, the lease recovery and
\* the purge implement the documented life of every job.
THEOREM Refinement ==
    ASSUME Timely, ~ SelfCancelling
    PROVE  Spec => ImplementsContract
  <1>1. Init => Contract!Init
    BY DEF Init, NoRow, Contract!Init
  <1>2. TimelyInv /\ TimelyInv' /\ [Next]_vars => [Contract!Next]_Contract!cvars
    <2> SUFFICES ASSUME TimelyInv, TimelyInv', [Next]_vars PROVE Contract!Next
      OBVIOUS
    <2>1. DOMAIN attempts' = Jobs
      BY DEF TimelyInv, LedgerInv, TypeOK
    <2> QED
      BY <2>1, ContractStep DEF Contract!Next
  <1> QED
    BY <1>1, <1>2, TimelyInvariant, PTL DEF Spec, ImplementsContract, Contract!Spec

=============================================================================
