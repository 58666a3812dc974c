------------------------- MODULE JobLifecycleProofs -------------------------
(***************************************************************************)
(* Theorems about JobLifecycle, for any sets of jobs and workers and any   *)
(* bounds.                                                                 *)
(***************************************************************************)
EXTENDS JobLifecycle, TLAPS

-----------------------------------------------------------------------------
(* Types and the attempt ledger.                                           *)
(*                                                                         *)
(* Neither TypeOK nor AttemptLedger is inductive alone: that a recovered   *)
(* lease has a positive attempt number follows from the ledger, and the    *)
(* ledger survives a second insertion only because a row that is absent    *)
(* has a zero count.                                                       *)

\* A job that was never inserted has used no attempt.
AbsentUnused == \A j \in Jobs : job[j].status = "absent" => job[j].attempt_count = 0

LedgerInv == TypeOK /\ AttemptLedger /\ AbsentUnused

USE MaxAttemptsAssumption, NoWorkerAssumption

\* The repository's statements map rows to rows.
LEMMA RowTypes ==
    ASSUME NEW r \in Rows, NEW w \in Workers, NEW t \in Task
    PROVE  /\ Claimable(r) => ClaimedRow(r, w) \in Rows
           /\ ExtendedRow(r) \in Rows
           /\ ReturnedRow(r) \in Rows
           /\ RecordedRow(r, t) \in Rows
           /\ RecoveredRow(r) \in Rows
           /\ CancelledRow(r) \in Rows
           /\ NoRow("purged") \in Rows
           /\ NoRow("absent") \in Rows
           /\ \A at \in {"due", "future"} : InsertedRow(at) \in Rows
  <1> USE DEF Rows, Statuses, Final
  <1>1. Claimable(r) => ClaimedRow(r, w) \in Rows
    <2>1. SUFFICES ASSUME Claimable(r) PROVE ClaimedRow(r, w) \in Rows
      OBVIOUS
    <2>2. r.attempt_count \in 0..MaxAttempts /\ r.attempt_count < MaxAttempts
      BY <2>1 DEF Claimable
    <2>3. r.attempt_count + 1 \in 0..MaxAttempts
      BY <2>2 DEF Rows
    <2> QED
      BY <2>3 DEF ClaimedRow
  <1>2. ExtendedRow(r) \in Rows
    BY DEF ExtendedRow
  <1>3. ReturnedRow(r) \in Rows
    <2>1. r.attempt_count \in 0..MaxAttempts
      OBVIOUS
    <2>2. (IF r.attempt_count - 1 > 0 THEN r.attempt_count - 1 ELSE 0) \in 0..MaxAttempts
      BY <2>1
    <2> QED
      BY <2>2 DEF ReturnedRow
  <1>4. RecordedRow(r, t) \in Rows
    BY DEF RecordedRow, CompletedRow, FailedRow
  <1>5. RecoveredRow(r) \in Rows
    BY DEF RecoveredRow
  <1>6. CancelledRow(r) \in Rows
    BY DEF CancelledRow
  <1>7. NoRow("purged") \in Rows /\ NoRow("absent") \in Rows
    BY DEF NoRow
  <1>8. \A at \in {"due", "future"} : InsertedRow(at) \in Rows
    BY DEF InsertedRow, NoRow
  <1> QED
    BY <1>1, <1>2, <1>3, <1>4, <1>5, <1>6, <1>7, <1>8

LEMMA InitLedger == Init => LedgerInv
  <1> SUFFICES ASSUME Init PROVE LedgerInv
    OBVIOUS
  <1>1. NoRow("absent") \in Rows
    BY DEF NoRow, Rows, Statuses
  <1>2. TypeOK
    BY <1>1 DEF Init, TypeOK, WorkerStates
  <1>3. AttemptLedger /\ AbsentUnused
    BY DEF Init, NoRow, AttemptLedger, AbsentUnused
  <1> QED
    BY <1>2, <1>3 DEF LedgerInv

\* What each statement does to the fields that the ledger is about.
LEMMA RowEffects ==
    ASSUME NEW r \in Rows, NEW w \in Workers, NEW t \in Task
    PROVE  /\ ClaimedRow(r, w).status = "leased"
           /\ ClaimedRow(r, w).attempt_count = r.attempt_count + 1
           /\ ExtendedRow(r).status = r.status
           /\ ExtendedRow(r).attempt_count = r.attempt_count
           /\ ReturnedRow(r).status = "pending"
           /\ r.attempt_count > 0 => ReturnedRow(r).attempt_count = r.attempt_count - 1
           /\ RecordedRow(r, t).status \in {"succeeded", "pending", "dead_letter"}
           /\ RecordedRow(r, t).attempt_count = r.attempt_count
           /\ RecoveredRow(r).status \in {"pending", "dead_letter"}
           /\ RecoveredRow(r).attempt_count = r.attempt_count
           /\ CancelledRow(r).status = "cancelled"
           /\ CancelledRow(r).attempt_count = r.attempt_count
  <1>1. r.attempt_count \in 0..MaxAttempts
    BY DEF Rows
  <1>2. /\ ClaimedRow(r, w).status = "leased"
        /\ ClaimedRow(r, w).attempt_count = r.attempt_count + 1
    BY DEF Rows, ClaimedRow
  <1>3. ExtendedRow(r).status = r.status /\ ExtendedRow(r).attempt_count = r.attempt_count
    BY DEF Rows, ExtendedRow
  <1>4. /\ ReturnedRow(r).status = "pending"
        /\ ReturnedRow(r).attempt_count =
              IF r.attempt_count - 1 > 0 THEN r.attempt_count - 1 ELSE 0
    BY DEF Rows, ReturnedRow
  <1>5. r.attempt_count > 0 => ReturnedRow(r).attempt_count = r.attempt_count - 1
    BY <1>1, <1>4
  <1>6. /\ RecordedRow(r, t).status \in {"succeeded", "pending", "dead_letter"}
        /\ RecordedRow(r, t).attempt_count = r.attempt_count
    BY DEF Rows, RecordedRow, CompletedRow, FailedRow
  <1>7. /\ RecoveredRow(r).status \in {"pending", "dead_letter"}
        /\ RecoveredRow(r).attempt_count = r.attempt_count
    BY DEF Rows, RecoveredRow
  <1>8. CancelledRow(r).status = "cancelled" /\ CancelledRow(r).attempt_count = r.attempt_count
    BY DEF Rows, CancelledRow
  <1> QED
    BY <1>2, <1>3, <1>4, <1>5, <1>6, <1>7, <1>8

\* The ledger of one job, without IF.
LEMMA LedgerFacts ==
    ASSUME LedgerInv, NEW j \in Jobs
    PROVE  /\ job[j] \in Rows /\ job[j].attempt_count \in 0..MaxAttempts
           /\ attempts[j] \in Seq(Attempt) /\ Len(attempts[j]) \in Nat
           /\ job[j].status = "leased" => job[j].attempt_count = Len(attempts[j]) + 1
           /\ job[j].status # "leased" => job[j].attempt_count = Len(attempts[j])
           /\ job[j].status = "absent" => job[j].attempt_count = 0
  <1>1. /\ job[j] \in Rows
        /\ attempts[j] \in Seq(Attempt)
    BY DEF LedgerInv, TypeOK
  <1>2. Len(attempts[j]) \in Nat /\ job[j].attempt_count \in 0..MaxAttempts
    BY <1>1 DEF Rows
  <1>3. job[j].attempt_count = Len(attempts[j]) + (IF job[j].status = "leased" THEN 1 ELSE 0)
    BY DEF LedgerInv, AttemptLedger
  <1>4. job[j].status = "absent" => job[j].attempt_count = 0
    BY DEF LedgerInv, AbsentUnused
  <1>5. job[j].status = "leased" => job[j].attempt_count = Len(attempts[j]) + 1
    BY <1>3
  <1>6. job[j].status # "leased" => job[j].attempt_count = Len(attempts[j])
    BY <1>2, <1>3
  <1> QED
    BY <1>1, <1>2, <1>4, <1>5, <1>6

\* A step that rewrites one row and no attempt keeps the ledger if the new
\* row balances.
LEMMA OneRow ==
    ASSUME LedgerInv, NEW j \in Jobs, NEW row \in Rows,
           job' = [job EXCEPT ![j] = row], attempts' = attempts,
           row.status # "absent",
           row.attempt_count = Len(attempts[j]) + (IF row.status = "leased" THEN 1 ELSE 0)
    PROVE  job' \in [Jobs -> Rows] /\ AttemptLedger' /\ AbsentUnused'
  BY DEF LedgerInv, TypeOK, AttemptLedger, AbsentUnused

\* A step that rewrites one leased row and logs an attempt for it keeps the
\* ledger if the new row is not leased and keeps the count.
LEMMA OneRowLogged ==
    ASSUME LedgerInv, NEW j \in Jobs, NEW row \in Rows, NEW a \in Attempt,
           job' = [job EXCEPT ![j] = row],
           attempts' = [attempts EXCEPT ![j] = Append(@, a)],
           job[j].status = "leased", row.status \notin {"absent", "leased"},
           row.attempt_count = job[j].attempt_count
    PROVE  /\ job' \in [Jobs -> Rows] /\ attempts' \in [Jobs -> Seq(Attempt)]
           /\ AttemptLedger' /\ AbsentUnused'
  <1>1. attempts[j] \in Seq(Attempt)
    BY DEF LedgerInv, TypeOK
  <1>2. /\ Append(attempts[j], a) \in Seq(Attempt)
        /\ Len(Append(attempts[j], a)) = Len(attempts[j]) + 1
    BY <1>1
  <1>3. /\ job' \in [Jobs -> Rows] /\ attempts' \in [Jobs -> Seq(Attempt)]
    BY <1>2 DEF LedgerInv, TypeOK
  <1>4. AttemptLedger'
    <2> SUFFICES ASSUME NEW i \in Jobs
                 PROVE  job'[i].attempt_count = Len(attempts'[i])
                            + (IF job'[i].status = "leased" THEN 1 ELSE 0)
      BY DEF AttemptLedger
    <2>1. CASE i = j
      <3>1. job'[i] = row /\ attempts'[i] = Append(attempts[j], a)
        BY <2>1 DEF LedgerInv, TypeOK
      <3>2. job[j].attempt_count = Len(attempts[j]) + 1
        BY DEF LedgerInv, AttemptLedger
      <3>3. Len(attempts'[i]) = Len(attempts[j]) + 1
        BY <3>1, <1>2
      <3>4. job'[i].attempt_count = job[j].attempt_count /\ job'[i].status # "leased"
        BY <3>1
      <3> QED
        BY <3>2, <3>3, <3>4
    <2>2. CASE i # j
      <3>1. job'[i] = job[i] /\ attempts'[i] = attempts[i]
        BY <2>2 DEF LedgerInv, TypeOK
      <3> QED
        BY <3>1 DEF LedgerInv, AttemptLedger
    <2> QED
      BY <2>1, <2>2
  <1>5. AbsentUnused'
    BY DEF LedgerInv, TypeOK, AbsentUnused
  <1> QED
    BY <1>3, <1>4, <1>5

\* Tasks stay tasks when their phase, heartbeat or outcome changes.
LEMMA TaskTypes ==
    ASSUME TypeOK, NEW t \in tasks
    PROVE  /\ t \in Task
           /\ Replace(t, [t EXCEPT !.heartbeat = "lost"]) \subseteq Task
           /\ Replace(t, [t EXCEPT !.heartbeat = "failed"]) \subseteq Task
           /\ \A o \in Outcomes :
                Replace(t, [t EXCEPT !.phase = "recording", !.heartbeat = "cancelled",
                                     !.outcome = o]) \subseteq Task
           /\ tasks \ {t} \subseteq Task
  <1>1. t \in Task /\ tasks \subseteq Task
    BY DEF TypeOK
  <1>2. [t EXCEPT !.heartbeat = "lost"] \in Task /\ [t EXCEPT !.heartbeat = "failed"] \in Task
    BY <1>1 DEF Task
  <1>3. ASSUME NEW o \in Outcomes
        PROVE  [t EXCEPT !.phase = "recording", !.heartbeat = "cancelled", !.outcome = o] \in Task
    BY <1>1 DEF Task, Outcomes
  <1> QED
    BY <1>1, <1>2, <1>3 DEF Replace

LEMMA JobNextLedger ==
    ASSUME LedgerInv, NEW j \in Jobs, JobNext(j)
    PROVE  LedgerInv'
  <1> USE DEF LedgerInv
  <1>0. job[j] \in Rows /\ attempts[j] \in Seq(Attempt)
    BY DEF TypeOK
  <1>1. CASE InsertJob(j)
    <2>1. PICK at \in {"due", "future"} : job' = [job EXCEPT ![j] = InsertedRow(at)]
      BY <1>1 DEF InsertJob
    <2>2. InsertedRow(at) \in Rows
      BY DEF InsertedRow, NoRow, Rows, Statuses
    <2>3. InsertedRow(at).status = "pending" /\ InsertedRow(at).attempt_count = 0
      BY DEF InsertedRow, NoRow
    <2>4. job[j].status = "absent" /\ attempts' = attempts
      BY <1>1 DEF InsertJob
    <2>5. InsertedRow(at).attempt_count =
            Len(attempts[j]) + (IF InsertedRow(at).status = "leased" THEN 1 ELSE 0)
      BY <2>3, <2>4, LedgerFacts
    <2>6. InsertedRow(at).status # "absent"
      BY <2>3
    <2> QED
      BY <2>1, <2>2, <2>4, <2>5, <2>6, <1>1, OneRow DEF InsertJob, TypeOK
  <1>2. CASE CancelPendingJob(j)
    <2>1. /\ CancelledRow(job[j]) \in Rows
          /\ CancelledRow(job[j]).status = "cancelled"
          /\ CancelledRow(job[j]).attempt_count = job[j].attempt_count
      BY <1>0 DEF CancelledRow, Rows, Statuses, Final
    <2>2. job[j].status # "leased"
      BY <1>2 DEF CancelPendingJob, Cancellable
    <2>3. CancelledRow(job[j]).attempt_count =
            Len(attempts[j]) + (IF CancelledRow(job[j]).status = "leased" THEN 1 ELSE 0)
      BY <2>1, <2>2, LedgerFacts
    <2>4. CancelledRow(job[j]).status # "absent"
      BY <2>1
    <2> QED
      BY <2>1, <2>3, <2>4, <1>2, OneRow DEF CancelPendingJob, TypeOK
  <1>3. CASE LeaseExpires(j)
    <2> DEFINE row == [job[j] EXCEPT !.locked_until = "expired"]
    <2>1. row \in Rows /\ row.status = job[j].status /\ row.attempt_count = job[j].attempt_count
      BY <1>0 DEF Rows
    <2>2. job' = [job EXCEPT ![j] = row]
      BY <1>3 DEF LeaseExpires
    <2>3. row.status # "absent"
      BY <2>1, <1>3 DEF LeaseExpires
    <2>4. row.attempt_count = Len(attempts[j]) + (IF row.status = "leased" THEN 1 ELSE 0)
      BY <2>1 DEF AttemptLedger
    <2> HIDE DEF row
    <2> QED
      BY <2>1, <2>2, <2>3, <2>4, <1>3, OneRow DEF LeaseExpires, TypeOK
  <1>4. CASE BecomesDue(j)
    <2> DEFINE row == [job[j] EXCEPT !.available_at = "due"]
    <2>1. row \in Rows /\ row.status = job[j].status /\ row.attempt_count = job[j].attempt_count
      BY <1>0 DEF Rows
    <2>2. job' = [job EXCEPT ![j] = row]
      BY <1>4 DEF BecomesDue
    <2>3. row.status # "absent"
      BY <2>1, <1>4 DEF BecomesDue
    <2>4. row.attempt_count = Len(attempts[j]) + (IF row.status = "leased" THEN 1 ELSE 0)
      BY <2>1 DEF AttemptLedger
    <2> HIDE DEF row
    <2> QED
      BY <2>1, <2>2, <2>3, <2>4, <1>4, OneRow DEF BecomesDue, TypeOK
  <1>5. CASE RetentionPasses(j)
    <2> DEFINE row == [job[j] EXCEPT !.completed_at = "old"]
    <2>1. row \in Rows /\ row.status = job[j].status /\ row.attempt_count = job[j].attempt_count
      BY <1>0 DEF Rows
    <2>2. job' = [job EXCEPT ![j] = row]
      BY <1>5 DEF RetentionPasses
    <2>3. row.status # "absent"
      BY <2>1, <1>5 DEF RetentionPasses, Final
    <2>4. row.attempt_count = Len(attempts[j]) + (IF row.status = "leased" THEN 1 ELSE 0)
      BY <2>1 DEF AttemptLedger
    <2> HIDE DEF row
    <2> QED
      BY <2>1, <2>2, <2>3, <2>4, <1>5, OneRow DEF RetentionPasses, TypeOK
  <1> QED
    BY <1>1, <1>2, <1>3, <1>4, <1>5 DEF JobNext

\* A lease holder's extension, and nothing at all, keep the ledger.
LEMMA ExtensionLedger ==
    ASSUME LedgerInv, NEW j \in Jobs, job[j].status = "leased",
           job' = [job EXCEPT ![j] = ExtendedRow(@)], attempts' = attempts
    PROVE  job' \in [Jobs -> Rows] /\ AttemptLedger' /\ AbsentUnused'
  <1>1. /\ ExtendedRow(job[j]) \in Rows
        /\ ExtendedRow(job[j]).status = "leased"
        /\ ExtendedRow(job[j]).attempt_count = job[j].attempt_count
    BY LedgerFacts DEF ExtendedRow, Rows
  <1>2. ExtendedRow(job[j]).attempt_count =
          Len(attempts[j]) + (IF ExtendedRow(job[j]).status = "leased" THEN 1 ELSE 0)
    BY <1>1, LedgerFacts
  <1>3. ExtendedRow(job[j]).status # "absent"
    BY <1>1
  <1> QED
    BY <1>1, <1>2, <1>3, OneRow

LEMMA TaskNextLedger ==
    ASSUME LedgerInv, NEW t \in tasks, TaskNext(t)
    PROVE  LedgerInv'
  <1> USE DEF LedgerInv
  <1>0. t \in Task /\ t.job \in Jobs /\ t.worker \in Workers
    BY DEF TypeOK, Task
  <1>00. job[t.job] \in Rows
    BY <1>0, LedgerFacts
  <1>1. CASE Heartbeat(t)
    <2>1. CASE Owned(t.job, t.worker)
      <3>1. /\ job' = [job EXCEPT ![t.job] = ExtendedRow(@)] /\ attempts' = attempts
            /\ tasks' = tasks /\ worker' = worker /\ claims' = claims /\ faulted' = faulted
        BY <1>1, <2>1 DEF Heartbeat
      <3>2. job[t.job].status = "leased"
        BY <2>1 DEF Owned
      <3> QED
        BY <3>1, <3>2, <1>0, ExtensionLedger DEF TypeOK
    <2>2. CASE ~ Owned(t.job, t.worker)
      BY <1>1, <2>2, TaskTypes DEF Heartbeat, TypeOK, AttemptLedger, AbsentUnused
    <2> QED
      BY <2>1, <2>2
  <1>2. CASE HeartbeatFails(t)
    <2>0. tasks' \subseteq Task /\ faulted' \subseteq Workers
      BY <1>0, <1>2, TaskTypes DEF HeartbeatFails, TypeOK
    <2>1. CASE job' = job
      BY <1>2, <2>0, <2>1 DEF HeartbeatFails, TypeOK, AttemptLedger, AbsentUnused
    <2>2. CASE job' # job
      <3>1. /\ job' = [job EXCEPT ![t.job] = ExtendedRow(@)] /\ attempts' = attempts
            /\ worker' = worker /\ claims' = claims /\ job[t.job].status = "leased"
        BY <1>2, <2>2 DEF HeartbeatFails, Owned
      <3> QED
        BY <3>1, <2>0, <1>0, ExtensionLedger DEF TypeOK
    <2> QED
      BY <2>1, <2>2
  <1>3. CASE ExecutionEnds(t)
    <2>1. tasks' \subseteq Task
      BY <1>3, TaskTypes DEF ExecutionEnds
    <2> QED
      BY <2>1, <1>3 DEF ExecutionEnds, TypeOK, AttemptLedger, AbsentUnused
  <1>4. CASE ExecutionCancelled(t)
    <2>1. tasks' \subseteq Task
      BY <1>0, <1>4 DEF ExecutionCancelled, Replace, TypeOK, Task
    <2> QED
      BY <2>1, <1>4 DEF ExecutionCancelled, TypeOK, AttemptLedger, AbsentUnused
  <1>5. CASE RecordResult(t)
    <2>0. /\ tasks' \subseteq Task /\ worker' = worker /\ claims' = claims
          /\ faulted' = faulted
      BY <1>5, TaskTypes DEF RecordResult
    <2>1. CASE Owned(t.job, t.worker)
      <3>1. /\ job' = [job EXCEPT ![t.job] = RecordedRow(@, t)]
            /\ attempts' = [attempts EXCEPT ![t.job] = Append(@, RecordedAttempt(t))]
        BY <1>5, <2>1 DEF RecordResult
      <3>2. RecordedAttempt(t) \in Attempt
        BY <1>0, <1>5 DEF RecordResult, RecordedAttempt, Attempt, AttemptStatuses, Task
      <3>3. /\ RecordedRow(job[t.job], t) \in Rows
            /\ RecordedRow(job[t.job], t).status \notin {"absent", "leased"}
            /\ RecordedRow(job[t.job], t).attempt_count = job[t.job].attempt_count
        BY <1>0, <1>00, RowTypes, RowEffects
      <3>4. job[t.job].status = "leased"
        BY <2>1 DEF Owned
      <3> QED
        BY <3>1, <3>2, <3>3, <3>4, <2>0, <1>0, OneRowLogged DEF TypeOK
    <2>2. CASE ~ Owned(t.job, t.worker)
      BY <1>5, <2>0, <2>2 DEF RecordResult, TypeOK, AttemptLedger, AbsentUnused
    <2> QED
      BY <2>1, <2>2
  <1>6. CASE ReturnToPending(t)
    <2>0. /\ tasks' \subseteq Task /\ worker' = worker /\ claims' = claims
          /\ faulted' = faulted /\ attempts' = attempts
      BY <1>6, TaskTypes DEF ReturnToPending
    <2>1. CASE Owned(t.job, t.worker)
      <3>1. job' = [job EXCEPT ![t.job] = ReturnedRow(@)]
        BY <1>6, <2>1 DEF ReturnToPending
      <3>2. job[t.job].attempt_count = Len(attempts[t.job]) + 1 /\ Len(attempts[t.job]) \in Nat
        BY <1>0, <2>1, LedgerFacts DEF Owned
      <3>3. /\ ReturnedRow(job[t.job]) \in Rows
            /\ ReturnedRow(job[t.job]).status = "pending"
            /\ job[t.job].attempt_count > 0 =>
                 ReturnedRow(job[t.job]).attempt_count = job[t.job].attempt_count - 1
        BY <1>0, <1>00, RowTypes, RowEffects
      <3>4. ReturnedRow(job[t.job]).attempt_count = Len(attempts[t.job])
        BY <3>2, <3>3
      <3>5. ReturnedRow(job[t.job]).attempt_count = Len(attempts[t.job])
                + (IF ReturnedRow(job[t.job]).status = "leased" THEN 1 ELSE 0)
        BY <3>2, <3>3, <3>4
      <3>6. ReturnedRow(job[t.job]).status # "absent"
        BY <3>3
      <3> QED
        BY <3>1, <3>3, <3>5, <3>6, <2>0, <1>0, OneRow DEF TypeOK
    <2>2. CASE ~ Owned(t.job, t.worker)
      <3>1. job' = job
        BY <1>0, <1>6, <2>2 DEF ReturnToPending, TypeOK
      <3> QED
        BY <3>1, <2>0 DEF TypeOK, AttemptLedger, AbsentUnused
    <2> QED
      BY <2>1, <2>2
  <1>7. CASE ReturnCancelled(t) \/ DatabaseFails(t)
    BY <1>0, <1>7, TaskTypes DEF ReturnCancelled, DatabaseFails, TypeOK, AttemptLedger, AbsentUnused
  <1> QED
    BY <1>1, <1>2, <1>3, <1>4, <1>5, <1>6, <1>7 DEF TaskNext, TaskAdvances

\* The table after the recovery half of a claim iteration.
Recovered(R) == [j \in Jobs |-> IF j \in R THEN RecoveredRow(job[j]) ELSE job[j]]

\* The sets that one committed claim iteration recovers and claims.
ClaimEffect(w, R, C, acked) ==
    /\ R \subseteq {j \in Jobs : IsExpired(job[j])}
    /\ C \subseteq {j \in Jobs : Claimable(Recovered(R)[j])}
    /\ Cardinality(C) <= FreeSlots(w)
    /\ job' = [j \in Jobs |-> IF j \in C THEN ClaimedRow(Recovered(R)[j], w)
                                         ELSE Recovered(R)[j]]
    /\ attempts' = [j \in Jobs |-> IF j \in R
                                   THEN Append(attempts[j], ExpiredAttempt(job[j]))
                                   ELSE attempts[j]]
    /\ claims' = [j \in Jobs |-> IF j \in C THEN claims[j] + 1 ELSE claims[j]]
    /\ tasks' = IF acked
                THEN tasks \cup {NewTask(w, j, ClaimedRow(Recovered(R)[j], w)) : j \in C}
                ELSE tasks
    /\ faulted' = IF acked THEN faulted ELSE faulted \cup {w}

LEMMA ClaimLoopEffect ==
    ASSUME NEW w \in Workers, ClaimLoop(w)
    PROVE  \E R, C \in SUBSET Jobs, acked \in BOOLEAN : ClaimEffect(w, R, C, acked)
  <1>1. PICK R \in SUBSET {j \in Jobs : IsExpired(job[j])} :
          \E C \in SUBSET {j \in Jobs : Claimable(Recovered(R)[j]) /\ claims[j] < MaxClaims},
             acked \in BOOLEAN : ClaimEffect(w, R, C, acked)
    BY DEF ClaimLoop, ClaimEffect, Recovered
  <1>2. PICK C \in SUBSET {j \in Jobs : Claimable(Recovered(R)[j]) /\ claims[j] < MaxClaims},
             acked \in BOOLEAN : ClaimEffect(w, R, C, acked)
    BY <1>1
  <1>3. R \in SUBSET Jobs /\ C \in SUBSET Jobs
    OBVIOUS
  <1> QED
    BY <1>2, <1>3

\* What a claim iteration makes of the row of j and of its attempts.
ClaimFacts(w, R, C, j) ==
    /\ Recovered(R)[j] \in Rows
    /\ Recovered(R)[j].attempt_count = job[j].attempt_count
    /\ job'[j] \in Rows
    /\ attempts'[j] \in Seq(Attempt)
    /\ j \in R => /\ job[j].status = "leased"
                  /\ Recovered(R)[j] = RecoveredRow(job[j])
                  /\ Recovered(R)[j].status \in {"pending", "dead_letter"}
                  /\ ExpiredAttempt(job[j]) \in Attempt
                  /\ attempts'[j] = Append(attempts[j], ExpiredAttempt(job[j]))
                  /\ Len(attempts'[j]) = Len(attempts[j]) + 1
    /\ j \notin R => Recovered(R)[j] = job[j] /\ attempts'[j] = attempts[j]
    /\ j \in C => /\ job'[j] = ClaimedRow(Recovered(R)[j], w)
                  /\ Recovered(R)[j].status = "pending"
                  /\ Recovered(R)[j].attempt_count < MaxAttempts
                  /\ job'[j].status = "leased"
                  /\ job'[j].attempt_count = job[j].attempt_count + 1
    /\ j \notin C => job'[j] = Recovered(R)[j]

LEMMA ClaimRows ==
    ASSUME LedgerInv, NEW w \in Workers, NEW R \in SUBSET Jobs, NEW C \in SUBSET Jobs,
           NEW acked \in BOOLEAN, ClaimEffect(w, R, C, acked)
    PROVE  \A j \in Jobs : ClaimFacts(w, R, C, j)
  <1> TAKE j \in Jobs
  <1>0. /\ job[j] \in Rows /\ attempts[j] \in Seq(Attempt) /\ Len(attempts[j]) \in Nat
        /\ job[j].attempt_count \in 0..MaxAttempts
        /\ job[j].status = "leased" => job[j].attempt_count = Len(attempts[j]) + 1
    BY LedgerFacts
  <1>1. /\ RecoveredRow(job[j]) \in Rows
        /\ RecoveredRow(job[j]).status \in {"pending", "dead_letter"}
        /\ RecoveredRow(job[j]).attempt_count = job[j].attempt_count
    BY <1>0 DEF RecoveredRow, Rows, Statuses, Final
  <1>2. /\ j \in R => Recovered(R)[j] = RecoveredRow(job[j])
        /\ j \notin R => Recovered(R)[j] = job[j]
    BY DEF Recovered
  <1>3. Recovered(R)[j] \in Rows /\ Recovered(R)[j].attempt_count = job[j].attempt_count
    BY <1>0, <1>1, <1>2
  <1>4. /\ j \in R => attempts'[j] = Append(attempts[j], ExpiredAttempt(job[j]))
        /\ j \notin R => attempts'[j] = attempts[j]
    BY DEF ClaimEffect
  <1>5. ASSUME j \in R
        PROVE  /\ job[j].status = "leased"
               /\ ExpiredAttempt(job[j]) \in Attempt
               /\ attempts'[j] \in Seq(Attempt)
               /\ Len(attempts'[j]) = Len(attempts[j]) + 1
    <2>1. job[j].status = "leased"
      BY <1>5 DEF ClaimEffect, IsExpired
    <2>2. job[j].attempt_count \in 1..MaxAttempts
      BY <1>0, <2>1
    <2>3. ExpiredAttempt(job[j]) \in Attempt
      BY <2>2 DEF ExpiredAttempt, Attempt, AttemptStatuses
    <2>4. /\ Append(attempts[j], ExpiredAttempt(job[j])) \in Seq(Attempt)
          /\ Len(Append(attempts[j], ExpiredAttempt(job[j]))) = Len(attempts[j]) + 1
      BY <1>0, <2>3
    <2> QED
      BY <1>4, <1>5, <2>1, <2>3, <2>4
  <1>6. /\ j \in C => job'[j] = ClaimedRow(Recovered(R)[j], w)
        /\ j \notin C => job'[j] = Recovered(R)[j]
    BY DEF ClaimEffect
  <1>7. ASSUME j \in C
        PROVE  /\ Recovered(R)[j].status = "pending"
               /\ Recovered(R)[j].attempt_count < MaxAttempts
               /\ ClaimedRow(Recovered(R)[j], w) \in Rows
               /\ ClaimedRow(Recovered(R)[j], w).status = "leased"
               /\ ClaimedRow(Recovered(R)[j], w).attempt_count = job[j].attempt_count + 1
    <2>1. Claimable(Recovered(R)[j])
      BY <1>7 DEF ClaimEffect
    <2>2. /\ ClaimedRow(Recovered(R)[j], w).status = "leased"
          /\ ClaimedRow(Recovered(R)[j], w).attempt_count = Recovered(R)[j].attempt_count + 1
      BY <1>3 DEF ClaimedRow, Rows
    <2>3. Recovered(R)[j].attempt_count + 1 \in 0..MaxAttempts
      BY <1>0, <1>3, <2>1 DEF Claimable
    <2>4. ClaimedRow(Recovered(R)[j], w) \in Rows
      BY <1>3, <2>3 DEF ClaimedRow, Rows, Statuses
    <2> QED
      BY <1>3, <2>1, <2>2, <2>4 DEF Claimable
  <1>8. job'[j] \in Rows
    BY <1>3, <1>6, <1>7
  <1>9. attempts'[j] \in Seq(Attempt)
    BY <1>0, <1>4, <1>5
  <1> QED
    BY <1>1, <1>2, <1>3, <1>4, <1>5, <1>6, <1>7, <1>8, <1>9 DEF ClaimFacts

LEMMA ClaimLoopLedger ==
    ASSUME LedgerInv, NEW w \in Workers, ClaimLoop(w)
    PROVE  LedgerInv'
  <1>1. PICK R \in SUBSET Jobs, C \in SUBSET Jobs, acked \in BOOLEAN :
          ClaimEffect(w, R, C, acked)
    BY ClaimLoopEffect
  <1>c. \A j \in Jobs : ClaimFacts(w, R, C, j)
    BY <1>1, ClaimRows
  <1>2. job' \in [Jobs -> Rows]
    <2>1. job' = [j \in Jobs |-> job'[j]]
      BY <1>1 DEF ClaimEffect
    <2>2. \A j \in Jobs : job'[j] \in Rows
      BY <1>c DEF ClaimFacts
    <2> QED
      BY <2>1, <2>2
  <1>3. attempts' \in [Jobs -> Seq(Attempt)]
    <2>1. attempts' = [j \in Jobs |-> attempts'[j]]
      BY <1>1 DEF ClaimEffect
    <2>2. \A j \in Jobs : attempts'[j] \in Seq(Attempt)
      BY <1>c DEF ClaimFacts
    <2> QED
      BY <2>1, <2>2
  <1>4. tasks' \subseteq Task
    <2> SUFFICES ASSUME NEW j \in C
                 PROVE  NewTask(w, j, ClaimedRow(Recovered(R)[j], w)) \in Task
      BY <1>1 DEF ClaimEffect, LedgerInv, TypeOK
    <2>1. j \in Jobs
      BY <1>1
    <2>2. job[j].attempt_count \in 0..MaxAttempts /\ claims[j] \in Nat
      BY <2>1, LedgerFacts DEF LedgerInv, TypeOK
    <2>3. /\ ClaimedRow(Recovered(R)[j], w) \in Rows
          /\ ClaimedRow(Recovered(R)[j], w).attempt_count = job[j].attempt_count + 1
      BY <1>c, <2>1 DEF ClaimFacts
    <2>4. ClaimedRow(Recovered(R)[j], w).attempt_count \in 1..MaxAttempts
      BY <2>2, <2>3 DEF Rows
    <2> QED
      BY <2>1, <2>2, <2>4 DEF NewTask, Task, Outcomes
  <1>5. worker' \in [Workers -> WorkerStates]
    BY DEF ClaimLoop, LedgerInv, TypeOK, WorkerStates
  <1>6. claims' \in [Jobs -> Nat] /\ faulted' \subseteq Workers
    BY <1>1 DEF ClaimEffect, LedgerInv, TypeOK
  <1>7. AttemptLedger'
    <2> SUFFICES ASSUME NEW j \in Jobs
                 PROVE  job'[j].attempt_count = Len(attempts'[j])
                            + (IF job'[j].status = "leased" THEN 1 ELSE 0)
      BY DEF AttemptLedger
    <2>0. /\ Len(attempts[j]) \in Nat /\ job[j].attempt_count \in 0..MaxAttempts
          /\ job[j].status = "leased" => job[j].attempt_count = Len(attempts[j]) + 1
          /\ job[j].status # "leased" => job[j].attempt_count = Len(attempts[j])
      BY LedgerFacts
    <2>1. Recovered(R)[j].status # "leased" => Len(attempts'[j]) = job[j].attempt_count
      BY <1>c, <2>0 DEF ClaimFacts
    <2>2. CASE j \in C
      <3>1. Recovered(R)[j].status = "pending"
        BY <1>c, <2>2 DEF ClaimFacts
      <3>2. /\ job'[j].status = "leased"
            /\ job'[j].attempt_count = job[j].attempt_count + 1
        BY <1>c, <2>2 DEF ClaimFacts
      <3>3. Len(attempts'[j]) = job[j].attempt_count
        BY <2>1, <3>1
      <3> QED
        BY <3>2, <3>3
    <2>3. CASE j \notin C
      <3>1. job'[j] = Recovered(R)[j] /\ job'[j].attempt_count = job[j].attempt_count
        BY <1>c, <2>3 DEF ClaimFacts
      <3>2. CASE job'[j].status = "leased"
        <4>1. j \notin R /\ attempts'[j] = attempts[j] /\ job[j].status = "leased"
          BY <1>c, <3>1, <3>2 DEF ClaimFacts
        <4> QED
          BY <2>0, <3>1, <3>2, <4>1
      <3>3. CASE job'[j].status # "leased"
        <4>1. Len(attempts'[j]) = job[j].attempt_count
          BY <2>1, <3>1, <3>3
        <4> QED
          BY <2>0, <3>1, <3>3, <4>1
      <3> QED
        BY <3>2, <3>3
    <2> QED
      BY <2>2, <2>3
  <1>8. AbsentUnused'
    <2> SUFFICES ASSUME NEW j \in Jobs, job'[j].status = "absent"
                 PROVE  job'[j].attempt_count = 0
      BY DEF AbsentUnused
    <2>1. j \notin C
      BY <1>c DEF ClaimFacts
    <2>2. job'[j] = Recovered(R)[j]
      BY <1>c, <2>1 DEF ClaimFacts
    <2>3. j \notin R /\ job'[j] = job[j]
      BY <1>c, <2>2 DEF ClaimFacts
    <2> QED
      BY <2>3, LedgerFacts
  <1> QED
    BY <1>2, <1>3, <1>4, <1>5, <1>6, <1>7, <1>8 DEF LedgerInv, TypeOK

LEMMA WorkerNextLedger ==
    ASSUME LedgerInv, NEW w \in Workers, WorkerNext(w)
    PROVE  LedgerInv'
  <1> USE DEF LedgerInv, TypeOK, WorkerStates, AttemptLedger, AbsentUnused
  <1>1. CASE StartWorker(w)
    BY <1>1 DEF StartWorker
  <1>2. CASE ClaimLoop(w)
    BY <1>2, ClaimLoopLedger
  <1>3. CASE RequestStop(w)
    BY <1>3 DEF RequestStop
  <1>4. CASE ObserveStop(w)
    BY <1>4 DEF ObserveStop
  <1>5. CASE GraceExpires(w)
    BY <1>5 DEF GraceExpires
  <1>6. CASE WorkerExit(w)
    BY <1>6 DEF WorkerExit
  <1>7. CASE Crash(w)
    BY <1>7 DEF Crash
  <1> QED
    BY <1>1, <1>2, <1>3, <1>4, <1>5, <1>6, <1>7 DEF WorkerNext

LEMMA PurgeLedger ==
    ASSUME LedgerInv, PurgeBatch
    PROVE  LedgerInv'
  <1>1. PICK P \in SUBSET Jobs :
          /\ job' = [j \in Jobs |-> IF j \in P THEN NoRow("purged") ELSE job[j]]
          /\ attempts' = [j \in Jobs |-> IF j \in P THEN <<>> ELSE attempts[j]]
          /\ UNCHANGED <<worker, tasks, claims, faulted>>
    BY DEF PurgeBatch
  <1>2. /\ NoRow("purged") \in Rows
        /\ NoRow("purged").status = "purged" /\ NoRow("purged").attempt_count = 0
    BY DEF NoRow, Rows, Statuses
  <1>3. TypeOK'
    BY <1>1, <1>2 DEF LedgerInv, TypeOK
  <1>4. AttemptLedger'
    <2> SUFFICES ASSUME NEW j \in Jobs
                 PROVE  job'[j].attempt_count = Len(attempts'[j])
                            + (IF job'[j].status = "leased" THEN 1 ELSE 0)
      BY DEF AttemptLedger
    <2>1. CASE j \in P
      <3>1. job'[j] = NoRow("purged") /\ attempts'[j] = <<>>
        BY <1>1, <2>1
      <3>2. job'[j].attempt_count = 0 /\ job'[j].status # "leased" /\ Len(attempts'[j]) = 0
        BY <1>2, <3>1
      <3> QED
        BY <3>2
    <2>2. CASE j \notin P
      BY <1>1, <2>2 DEF LedgerInv, AttemptLedger
    <2> QED
      BY <2>1, <2>2
  <1>5. AbsentUnused'
    BY <1>1, <1>2 DEF LedgerInv, AbsentUnused
  <1> QED
    BY <1>3, <1>4, <1>5 DEF LedgerInv

LEMMA NextLedger == LedgerInv /\ [Next]_vars => LedgerInv'
  <1> SUFFICES ASSUME LedgerInv, [Next]_vars PROVE LedgerInv'
    OBVIOUS
  <1>1. ASSUME NEW j \in Jobs, JobNext(j) PROVE LedgerInv'
    BY <1>1, JobNextLedger
  <1>2. ASSUME NEW w \in Workers, WorkerNext(w) PROVE LedgerInv'
    BY <1>2, WorkerNextLedger
  <1>3. ASSUME NEW t \in tasks, TaskNext(t) PROVE LedgerInv'
    BY <1>3, TaskNextLedger
  <1>4. CASE PurgeBatch
    BY <1>4, PurgeLedger
  <1>5. CASE UNCHANGED vars
    BY <1>5 DEF vars, LedgerInv, TypeOK, AttemptLedger, AbsentUnused
  <1> QED
    BY <1>1, <1>2, <1>3, <1>4, <1>5 DEF Next

LEMMA LedgerInvariant == Spec => []LedgerInv
  BY InitLedger, NextLedger, PTL DEF Spec

\* Rows, attempts and tasks keep their types; no interleaving of claims,
\* returns, recoveries and results takes attempt_count past max_attempts.
THEOREM TypeCorrect == Spec => []TypeOK
  <1>1. LedgerInv => TypeOK
    BY DEF LedgerInv
  <1> QED
    BY <1>1, LedgerInvariant, PTL

\* attempt_count always equals the attempts written plus the lease that is
\* out: no lease is counted twice, no attempt is lost or written twice.
THEOREM LedgerBalances == Spec => []AttemptLedger
  <1>1. LedgerInv => AttemptLedger
    BY DEF LedgerInv
  <1> QED
    BY <1>1, LedgerInvariant, PTL

-----------------------------------------------------------------------------
(* What one step can do to one job.  Every safety property of rows and     *)
(* attempts below follows from this classification.                        *)

\* The row keeps its status and count, and its attempts are left alone.
Quiet(j) ==
    /\ job'[j].status = job[j].status
    /\ job'[j].attempt_count = job[j].attempt_count
    /\ attempts'[j] = attempts[j]

Inserted(j) ==
    /\ job[j].status = "absent" /\ job'[j].status = "pending"
    /\ job'[j].attempt_count = 0 /\ attempts'[j] = attempts[j]

Cancelled(j) ==
    /\ job[j].status = "pending" /\ job'[j].status = "cancelled"
    /\ job'[j].attempt_count = job[j].attempt_count /\ attempts'[j] = attempts[j]

Leased(j) ==
    /\ job[j].status = "pending" /\ job'[j].status = "leased"
    /\ job[j].attempt_count < MaxAttempts
    /\ job'[j].attempt_count = job[j].attempt_count + 1 /\ attempts'[j] = attempts[j]

\* A task records its outcome under the guard of COMPLETE_JOB_SQL or FAIL_JOB_SQL.
RecordedBy(j, t) ==
    /\ t.phase = "recording" /\ t.job = j /\ Owned(j, t.worker)
    /\ job'[j] = RecordedRow(job[j], t)
    /\ attempts'[j] = Append(attempts[j], RecordedAttempt(t))

Returned(j) ==
    /\ job[j].status = "leased" /\ job'[j].status = "pending"
    /\ job[j].attempt_count > 0
    /\ job'[j].attempt_count = job[j].attempt_count - 1 /\ attempts'[j] = attempts[j]

\* The lease is recovered, and perhaps granted again at once.
Expired(j) ==
    /\ IsExpired(job[j])
    /\ attempts'[j] = Append(attempts[j], ExpiredAttempt(job[j]))
    /\ \/ job'[j] = RecoveredRow(job[j])
       \/ /\ job[j].attempt_count < MaxAttempts
          /\ job'[j].status = "leased"
          /\ job'[j].attempt_count = job[j].attempt_count + 1

Purged(j) ==
    /\ job[j].status \in Final /\ job'[j].status = "purged"
    /\ job'[j].attempt_count = 0 /\ attempts'[j] = <<>>

RowStep(j) ==
    \/ Quiet(j) \/ Inserted(j) \/ Cancelled(j) \/ Leased(j)
    \/ \E t \in tasks : RecordedBy(j, t)
    \/ Returned(j) \/ Expired(j) \/ Purged(j)

LEMMA JobNextRowStep ==
    ASSUME LedgerInv, NEW i \in Jobs, JobNext(i), NEW j \in Jobs
    PROVE  RowStep(j)
  <1>0. job \in [Jobs -> Rows] /\ job[i] \in Rows
    BY DEF LedgerInv, TypeOK
  <1>1. ASSUME j # i PROVE Quiet(j)
    BY <1>0, <1>1 DEF JobNext, InsertJob, CancelPendingJob, LeaseExpires, BecomesDue,
                      RetentionPasses, Quiet
  <1>2. CASE j = i /\ InsertJob(i)
    BY <1>0, <1>2 DEF InsertJob, InsertedRow, NoRow, RowStep, Inserted
  <1>3. CASE j = i /\ CancelPendingJob(i)
    BY <1>0, <1>3 DEF CancelPendingJob, Cancellable, CancelledRow, RowStep, Cancelled, Rows
  <1>4. CASE j = i /\ (LeaseExpires(i) \/ BecomesDue(i) \/ RetentionPasses(i))
    BY <1>0, <1>4 DEF LeaseExpires, BecomesDue, RetentionPasses, RowStep, Quiet, Rows
  <1> QED
    BY <1>1, <1>2, <1>3, <1>4 DEF JobNext, RowStep

LEMMA TaskNextRowStep ==
    ASSUME LedgerInv, NEW t \in tasks, TaskNext(t), NEW j \in Jobs
    PROVE  RowStep(j)
  <1>0. /\ job \in [Jobs -> Rows] /\ attempts \in [Jobs -> Seq(Attempt)]
        /\ t \in Task /\ t.job \in Jobs /\ job[t.job] \in Rows
    BY DEF LedgerInv, TypeOK, Task
  <1>1. CASE Heartbeat(t) \/ HeartbeatFails(t)
    <2>1. job' = job \/ job' = [job EXCEPT ![t.job] = ExtendedRow(@)]
      BY <1>1 DEF Heartbeat, HeartbeatFails
    <2>2. job'[j] = job[j] \/ job'[j] = ExtendedRow(job[j])
      BY <1>0, <2>1
    <2>3. /\ ExtendedRow(job[j]).status = job[j].status
          /\ ExtendedRow(job[j]).attempt_count = job[j].attempt_count
      BY <1>0 DEF ExtendedRow, Rows
    <2>4. attempts' = attempts
      BY <1>1 DEF Heartbeat, HeartbeatFails
    <2> QED
      BY <2>2, <2>3, <2>4 DEF RowStep, Quiet
  <1>2. CASE \/ ExecutionEnds(t) \/ ExecutionCancelled(t)
             \/ ReturnCancelled(t) \/ DatabaseFails(t)
    BY <1>2 DEF ExecutionEnds, ExecutionCancelled, ReturnCancelled, DatabaseFails, RowStep, Quiet
  <1>3. CASE RecordResult(t)
    <2>1. CASE Owned(t.job, t.worker) /\ j = t.job
      <3>1. RecordedBy(j, t)
        BY <1>0, <1>3, <2>1 DEF RecordResult, RecordedBy
      <3> QED
        BY <3>1 DEF RowStep
    <2>2. CASE ~ (Owned(t.job, t.worker) /\ j = t.job)
      BY <1>0, <1>3, <2>2 DEF RecordResult, RowStep, Quiet
    <2> QED
      BY <2>1, <2>2
  <1>4. CASE ReturnToPending(t)
    <2>1. CASE Owned(t.job, t.worker) /\ j = t.job
      <3>1. job'[j] = ReturnedRow(job[j]) /\ attempts'[j] = attempts[j]
        BY <1>0, <1>4, <2>1 DEF ReturnToPending
      <3>2. /\ job[j].status = "leased" /\ job[j].attempt_count = Len(attempts[j]) + 1
            /\ Len(attempts[j]) \in Nat /\ job[j] \in Rows
        BY <2>1, LedgerFacts DEF Owned
      <3>3. job[j].attempt_count > 0
        BY <3>2
      <3>4. /\ ReturnedRow(job[j]).status = "pending"
            /\ ReturnedRow(job[j]).attempt_count = job[j].attempt_count - 1
        BY <1>0, <3>2, <3>3, RowEffects DEF Task
      <3>5. Returned(j)
        BY <3>1, <3>2, <3>3, <3>4 DEF Returned
      <3> QED
        BY <3>5 DEF RowStep
    <2>2. CASE ~ (Owned(t.job, t.worker) /\ j = t.job)
      BY <1>0, <1>4, <2>2 DEF ReturnToPending, RowStep, Quiet
    <2> QED
      BY <2>1, <2>2
  <1> QED
    BY <1>1, <1>2, <1>3, <1>4 DEF TaskNext, TaskAdvances

LEMMA WorkerNextRowStep ==
    ASSUME LedgerInv, NEW w \in Workers, WorkerNext(w), NEW j \in Jobs
    PROVE  RowStep(j)
  <1>1. CASE ClaimLoop(w)
    <2>1. PICK R \in SUBSET Jobs, C \in SUBSET Jobs, acked \in BOOLEAN :
            ClaimEffect(w, R, C, acked)
      BY <1>1, ClaimLoopEffect
    <2>2. ClaimFacts(w, R, C, j)
      BY <2>1, ClaimRows
    <2>3. CASE j \in R
      <3>1. IsExpired(job[j]) /\ attempts'[j] = Append(attempts[j], ExpiredAttempt(job[j]))
        BY <2>1, <2>2, <2>3 DEF ClaimEffect, ClaimFacts
      <3>2. CASE j \in C
        BY <2>2, <2>3, <3>1, <3>2 DEF ClaimFacts, RowStep, Expired
      <3>3. CASE j \notin C
        BY <2>2, <2>3, <3>1, <3>3 DEF ClaimFacts, RowStep, Expired
      <3> QED
        BY <3>2, <3>3
    <2>4. CASE j \notin R
      BY <2>2, <2>4 DEF ClaimFacts, RowStep, Quiet, Leased
    <2> QED
      BY <2>3, <2>4
  <1>2. CASE ~ ClaimLoop(w)
    BY <1>2 DEF WorkerNext, StartWorker, RequestStop, ObserveStop, GraceExpires, WorkerExit,
                Crash, RowStep, Quiet
  <1> QED
    BY <1>1, <1>2

\* Every step does one of the nine things above to every job.
LEMMA NextRowStep == LedgerInv /\ [Next]_vars => \A j \in Jobs : RowStep(j)
  <1> SUFFICES ASSUME LedgerInv, [Next]_vars, NEW j \in Jobs PROVE RowStep(j)
    OBVIOUS
  <1>1. ASSUME NEW i \in Jobs, JobNext(i) PROVE RowStep(j)
    BY <1>1, JobNextRowStep
  <1>2. ASSUME NEW w \in Workers, WorkerNext(w) PROVE RowStep(j)
    BY <1>2, WorkerNextRowStep
  <1>3. ASSUME NEW t \in tasks, TaskNext(t) PROVE RowStep(j)
    BY <1>3, TaskNextRowStep
  <1>4. CASE PurgeBatch
    BY <1>4 DEF PurgeBatch, Purgeable, NoRow, RowStep, Quiet, Purged
  <1>5. CASE UNCHANGED vars
    BY <1>5 DEF vars, RowStep, Quiet
  <1> QED
    BY <1>1, <1>2, <1>3, <1>4, <1>5 DEF Next

-----------------------------------------------------------------------------
(* Final states are final, and success is recorded once. *)

LEMMA FinalStep ==
    ASSUME LedgerInv, [Next]_vars, NEW j \in Jobs, job[j].status \in Final
    PROVE  Quiet(j) \/ Purged(j)
  <1>1. RowStep(j)
    BY NextRowStep
  <1> QED
    BY <1>1 DEF RowStep, Inserted, Cancelled, Leased, RecordedBy, Owned, Returned, Expired,
                IsExpired, Final

\* No step of any worker, client or recovery changes a finished job; only
\* purge ends it, together with its attempts.
THEOREM FinalStates == Spec => FinalStable
  <1>1. LedgerInv /\ [Next]_vars =>
          [\A j \in Jobs : job[j].status \in Final =>
              \/ /\ job'[j].status = job[j].status
                 /\ job'[j].attempt_count = job[j].attempt_count
                 /\ attempts'[j] = attempts[j]
              \/ job'[j].status = "purged" /\ attempts'[j] = <<>>]_vars
    BY FinalStep DEF Quiet, Purged
  <1> QED
    BY <1>1, LedgerInvariant, PTL DEF Spec, FinalStable

\* SuccessFinal for one job.
SuccessFinalOf(j) ==
    /\ \A i \in DOMAIN attempts[j] :
        attempts[j][i].status = "succeeded" =>
            job[j].status = "succeeded" /\ i = Len(attempts[j])
    /\ job[j].status = "succeeded" =>
        /\ attempts[j] # <<>>
        /\ attempts[j][Len(attempts[j])].status = "succeeded"

\* Logging an attempt for a job that is not succeeded.
LEMMA LoggedSuccess ==
    ASSUME NEW q \in Seq(Attempt), NEW a \in Attempt, NEW succeeded \in BOOLEAN,
           \A i \in DOMAIN q : q[i].status # "succeeded",
           a.status = "succeeded" <=> succeeded
    PROVE  /\ \A i \in DOMAIN Append(q, a) :
                Append(q, a)[i].status = "succeeded" => succeeded /\ i = Len(Append(q, a))
           /\ succeeded => /\ Append(q, a) # <<>>
                           /\ Append(q, a)[Len(Append(q, a))].status = "succeeded"
  <1>1. /\ Len(q) \in Nat /\ Len(Append(q, a)) = Len(q) + 1
        /\ Append(q, a) \in Seq(Attempt)
        /\ DOMAIN q = 1..Len(q) /\ DOMAIN Append(q, a) = 1..(Len(q) + 1)
    OBVIOUS
  <1>2. Append(q, a)[Len(q) + 1] = a
    BY <1>1
  <1>3. \A i \in 1..Len(q) : Append(q, a)[i] = q[i]
    BY <1>1
  <1>4. ASSUME NEW i \in DOMAIN Append(q, a), Append(q, a)[i].status = "succeeded"
        PROVE  succeeded /\ i = Len(Append(q, a))
    <2>1. i \in 1..Len(q) \/ i = Len(q) + 1
      BY <1>1
    <2>2. i \notin 1..Len(q)
      BY <1>1, <1>3, <1>4
    <2> QED
      BY <1>1, <1>2, <1>4, <2>1, <2>2
  <1>5. Append(q, a) # <<>>
    BY <1>1
  <1> QED
    BY <1>1, <1>2, <1>4, <1>5

LEMMA SuccessStep ==
    ASSUME LedgerInv, LedgerInv', [Next]_vars, NEW j \in Jobs, SuccessFinalOf(j)
    PROVE  SuccessFinalOf(j)'
  <1>0. /\ RowStep(j) /\ job[j] \in Rows /\ attempts[j] \in Seq(Attempt)
        /\ attempts'[j] \in Seq(Attempt)
    BY NextRowStep, LedgerFacts DEF LedgerInv, TypeOK
  <1>1. CASE Quiet(j) \/ Inserted(j) \/ Cancelled(j) \/ Leased(j) \/ Returned(j)
    BY <1>1 DEF Quiet, Inserted, Cancelled, Leased, Returned, SuccessFinalOf
  <1>2. CASE Purged(j)
    BY <1>2 DEF Purged, SuccessFinalOf
  <1>3. ASSUME job[j].status = "leased"
        PROVE  \A i \in DOMAIN attempts[j] : attempts[j][i].status # "succeeded"
    BY <1>3 DEF SuccessFinalOf
  <1>4. ASSUME NEW t \in tasks, RecordedBy(j, t) PROVE SuccessFinalOf(j)'
    <2>1. t \in Task /\ job[j].status = "leased" /\ t.phase = "recording"
      BY <1>4 DEF RecordedBy, Owned, LedgerInv, TypeOK
    <2>2. RecordedAttempt(t) \in Attempt
      BY <2>1 DEF RecordedAttempt, Attempt, AttemptStatuses, Task
    <2>3. RecordedAttempt(t).status = "succeeded" <=> job'[j].status = "succeeded"
      BY <1>0, <1>4, <2>1 DEF RecordedBy, RecordedAttempt, RecordedRow, CompletedRow,
                              FailedRow, Rows
    <2>4. attempts'[j] = Append(attempts[j], RecordedAttempt(t))
      BY <1>4 DEF RecordedBy
    <2> DEFINE s == job'[j].status = "succeeded"
    <2>5. s \in BOOLEAN /\ (RecordedAttempt(t).status = "succeeded" <=> s)
      BY <2>3
    <2>6. /\ \A i \in DOMAIN attempts'[j] :
               attempts'[j][i].status = "succeeded" => s /\ i = Len(attempts'[j])
          /\ s => /\ attempts'[j] # <<>>
                  /\ attempts'[j][Len(attempts'[j])].status = "succeeded"
      <3> HIDE DEF s
      <3> QED
        BY <1>0, <1>3, <2>1, <2>2, <2>4, <2>5, LoggedSuccess
    <2> QED
      BY <2>6 DEF SuccessFinalOf
  <1>5. CASE Expired(j)
    <2>1. job[j].status = "leased" /\ attempts'[j] = Append(attempts[j], ExpiredAttempt(job[j]))
      BY <1>5 DEF Expired, IsExpired
    <2>2. job[j].attempt_count \in 1..MaxAttempts
      BY <2>1, LedgerFacts
    <2>3. /\ ExpiredAttempt(job[j]) \in Attempt
          /\ ~ (ExpiredAttempt(job[j]).status = "succeeded")
      BY <2>2 DEF ExpiredAttempt, Attempt, AttemptStatuses
    <2>4. job'[j].status # "succeeded"
      BY <1>0, <1>5 DEF Expired, RecoveredRow, Rows
    <2>5. \A i \in DOMAIN attempts'[j] : attempts'[j][i].status # "succeeded"
      BY <1>0, <1>3, <2>1, <2>3, LoggedSuccess
    <2> QED
      BY <2>4, <2>5 DEF SuccessFinalOf
  <1> QED
    BY <1>0, <1>1, <1>2, <1>4, <1>5 DEF RowStep

\* A job succeeds at most once and nothing is recorded after its success.
THEOREM SuccessOnce == Spec => []SuccessFinal
  <1>1. Init => SuccessFinal
    BY DEF Init, NoRow, SuccessFinal
  <1>2. LedgerInv /\ LedgerInv' /\ SuccessFinal /\ [Next]_vars => SuccessFinal'
    <2>1. SuccessFinal <=> \A j \in Jobs : SuccessFinalOf(j)
      BY DEF SuccessFinal, SuccessFinalOf
    <2>2. SuccessFinal' <=> \A j \in Jobs : SuccessFinalOf(j)'
      BY DEF SuccessFinal, SuccessFinalOf
    <2> QED
      BY <2>1, <2>2, SuccessStep
  <1> QED
    BY <1>1, <1>2, LedgerInvariant, PTL DEF Spec

=============================================================================
