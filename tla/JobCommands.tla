----------------------------- MODULE JobCommands -----------------------------
(***************************************************************************)
(* The drain and purge commands (cli/commands_jobs.py, services/purge.py)  *)
(* against tables that live.                                               *)
(*                                                                         *)
(* One pass of drain counts the pending jobs of its queue and then the     *)
(* leased ones, by two statements and so, under READ COMMITTED, by two     *)
(* snapshots.  purge deletes old final jobs batch by batch, each in its    *)
(* own transaction, while the purge loop of a worker does the same.  The   *)
(* DELETE picks its rows by a snapshot, without locks, and then takes them *)
(* one by one: it waits for another transaction that is deleting a row and *)
(* passes over it once it is gone.  Jobs live as in JobContract, with the  *)
(* final states merged.                                                    *)
(***************************************************************************)
EXTENDS Integers, FiniteSets, FiniteSetsExt

CONSTANTS
    Jobs,      \* jobs of the drained queue
    BatchSize  \* settings.purge_batch_size

ASSUME JobsAssumption == IsFiniteSet(Jobs)
ASSUME BatchSizeAssumption == BatchSize \in Nat \ {0}

VARIABLES
    command,  \* the command that is run: "drain" or "purge"
    traffic,  \* what else happens while drain runs: jobs are enqueued
              \* (produce), leases end in pending (requeue: a retryable
              \* failure, a returned or a recovered lease)
    job,      \* job[j]: its status; "old" is final and past its retention
    drain,    \* where drain_async stands (at) and what it has counted
    late,     \* the deadline of drain has passed
    batch,    \* batch[p]: the purge transaction of purger p, the rows that it
              \* has still to take and those that it has deleted
    purge,    \* where purge_until_done stands (at) and, per purger, how many
              \* rows its batches have reported (rows)
    emptied,  \* ghost: the queue has been empty since drain started
    before,   \* ghost: the jobs that were old when purge started
    alone     \* ghost: no other purger has been at work since purge started

vars == <<command, traffic, job, drain, late, batch, purge, emptied, before, alone>>

-----------------------------------------------------------------------------
(* Types and helpers *)

JobStatus == {"absent", "pending", "leased", "final", "old", "purged"}

Purgers == {"command", "worker"}

NoBatch == [at |-> "idle", picked |-> {}, deleted |-> {}]

\* list_jobs(...).total
Total(status) == Cardinality({j \in Jobs : job[j] = status})

Open(j) == job[j] \in {"pending", "leased"}

QueueEmpty == ~ \E j \in Jobs : Open(j)

Running == drain.at \in {"polling", "counted_pending", "counted_leased"}

Mut_Drained == drain.pending = 0

Drained == drain.pending + drain.leased = 0

-----------------------------------------------------------------------------
(* drain_async *)

Start ==
    /\ command = "drain" /\ drain.at = "new"
    /\ drain' = [drain EXCEPT !.at = "polling"]
    /\ UNCHANGED <<command, traffic, job, late, batch, purge>>

CountPending ==
    /\ drain.at = "polling"
    /\ drain' = [drain EXCEPT !.at = "counted_pending", !.pending = Total("pending")]
    /\ UNCHANGED <<command, traffic, job, late, batch, purge>>

CountLeased ==
    /\ drain.at = "counted_pending"
    /\ drain' = [drain EXCEPT !.at = "counted_leased", !.leased = Total("leased")]
    /\ UNCHANGED <<command, traffic, job, late, batch, purge>>

\* The deadline is not looked at.
Mut_Decide ==
    /\ drain.at = "counted_leased"
    /\ drain' = [drain EXCEPT !.at = IF Drained THEN "drained" ELSE "polling"]
    /\ UNCHANGED <<command, traffic, job, late, batch, purge>>

\* An empty count wins over a deadline that has passed.
Decide ==
    /\ drain.at = "counted_leased"
    /\ drain' = [drain EXCEPT !.at = IF Drained THEN "drained"
                                     ELSE IF late THEN "timed_out" ELSE "polling"]
    /\ UNCHANGED <<command, traffic, job, late, batch, purge>>

\* list_jobs raises RepositoryError: the command ends with it.
CountFails ==
    /\ drain.at \in {"polling", "counted_pending"}
    /\ drain' = [drain EXCEPT !.at = "failed"]
    /\ UNCHANGED <<command, traffic, job, late, batch, purge>>

DeadlinePasses ==
    /\ Running /\ ~ late
    /\ late' = TRUE
    /\ UNCHANGED <<command, traffic, job, drain, batch, purge>>

-----------------------------------------------------------------------------
(* purge_until_done, and the batches of a worker's _purge_loop *)

Old == {j \in Jobs : job[j] = "old"}

StartPurge ==
    /\ command = "purge" /\ purge.at = "new"
    /\ purge' = [purge EXCEPT !.at = "purging"]
    /\ UNCHANGED <<command, traffic, job, drain, late, batch>>

\* PURGE_JOBS_SQL picks by its snapshot.  The oldest rows come first; ages are
\* not told apart here, so any full batch may be the one.
PickBatch(p) ==
    /\ command = "purge" /\ batch[p].at = "idle"
    /\ p = "command" => purge.at = "purging"
    /\ \E P \in SUBSET Old :
        /\ Cardinality(P) = Min({BatchSize, Cardinality(Old)})
        /\ batch' = [batch EXCEPT ![p] = [at |-> "deleting", picked |-> P, deleted |-> {}]]
    /\ UNCHANGED <<command, traffic, job, drain, late, purge>>

\* Somebody else has deleted j and not yet committed.
Held(p, j) == \E q \in Purgers \ {p} : j \in batch[q].deleted

Mut_DeleteRow(p, j) ==
    /\ j \in batch[p].picked /\ ~ Held(p, j)
    /\ batch' = [batch EXCEPT ![p].picked = @ \ {j}, ![p].deleted = @ \cup {j}]
    /\ UNCHANGED <<command, traffic, job, drain, late, purge>>

\* The order in which rows are taken is the plan's.
DeleteRow(p, j) ==
    /\ j \in batch[p].picked /\ ~ Held(p, j)
    /\ batch' = [batch EXCEPT ![p].picked = @ \ {j},
                              ![p].deleted = IF job[j] = "old" THEN @ \cup {j} ELSE @]
    /\ UNCHANGED <<command, traffic, job, drain, late, purge>>

Mut_LastBatch(total) == total <= BatchSize

Mut_FullBatch(total) == total >= BatchSize

\* result.total < purge_batch_size
LastBatch(total) == total < BatchSize

CommitBatch(p) ==
    /\ batch[p].at = "deleting" /\ batch[p].picked = {}
    /\ LET total == Cardinality(batch[p].deleted) IN
        purge' = [purge EXCEPT
            !.rows[p] = @ + total,
            !.at = IF p = "command" /\ LastBatch(total) THEN "done" ELSE @]
    /\ job' = [j \in Jobs |-> IF j \in batch[p].deleted THEN "purged" ELSE job[j]]
    /\ batch' = [batch EXCEPT ![p] = NoBatch]
    /\ UNCHANGED <<command, traffic, drain, late>>

\* lock_timeout, a deadlock victim, a lost connection.  The batch is rolled
\* back; the command ends with the error, a worker logs it and tries later.
BatchFails(p) ==
    /\ batch[p].at = "deleting"
    /\ batch' = [batch EXCEPT ![p] = NoBatch]
    /\ purge' = [purge EXCEPT !.at = IF p = "command" THEN "failed" ELSE @]
    /\ UNCHANGED <<command, traffic, job, drain, late>>

-----------------------------------------------------------------------------
(* The jobs *)

\* Which status a job may take next; only purges make an old job disappear.
Moves(from) ==
    CASE from = "absent"  -> IF "produce" \in traffic THEN {"pending"} ELSE {}
      [] from = "pending" -> {"leased", "final"}
      [] from = "leased"  -> {"final"} \cup IF "requeue" \in traffic THEN {"pending"} ELSE {}
      [] from = "final"   -> {"old"}
      [] from \in {"old", "purged"} -> {}

Move(j) ==
    /\ \E s \in Moves(job[j]) : job' = [job EXCEPT ![j] = s]
    /\ UNCHANGED <<command, traffic, drain, late, batch, purge>>

-----------------------------------------------------------------------------
(* The specification *)

\* purge is run against jobs that are all final: others do not concern it.
Init ==
    /\ \/ /\ command = "drain"
          /\ traffic \in SUBSET {"produce", "requeue"}
          /\ job \in [Jobs -> {"absent", "pending", "leased", "final"}]
       \/ /\ command = "purge"
          /\ traffic = {}
          /\ job \in [Jobs -> {"final", "old"}]
    /\ drain = [at |-> "new", pending |-> 0, leased |-> 0]
    /\ late = FALSE
    /\ batch = [p \in Purgers |-> NoBatch]
    /\ purge = [at |-> "new", rows |-> [p \in Purgers |-> 0]]
    /\ emptied = FALSE
    /\ before = {}
    /\ alone = TRUE

Step ==
    \/ Start \/ CountPending \/ CountLeased \/ CountFails \/ Decide \/ DeadlinePasses
    \/ StartPurge
    \/ \E p \in Purgers : \/ PickBatch(p) \/ CommitBatch(p) \/ BatchFails(p)
                          \/ \E j \in Jobs : DeleteRow(p, j)
    \/ \E j \in Jobs : Move(j)

Watch ==
    /\ emptied' = (emptied \/ (Running' /\ QueueEmpty'))
    /\ before' = IF purge.at = "new" THEN Old' ELSE before
    /\ alone' = (alone /\ (purge'.at = "purging" => batch'["worker"].at = "idle"))

Next == Step /\ Watch

Spec == Init /\ [][Next]_vars

\* The commands run, time passes, PostgreSQL hands a released row to the
\* transaction that waits for it, and lock_timeout ends the wait.  Nobody
\* obliges the queue to move or a worker to begin or to commit a batch.
Fairness ==
    /\ WF_vars(Next /\ (CountPending \/ CountLeased \/ Decide))
    /\ WF_vars(Next /\ DeadlinePasses)
    /\ WF_vars(Next /\ (PickBatch("command") \/ CommitBatch("command")))
    /\ SF_vars(Next /\ \E j \in Jobs : DeleteRow("command", j))
    /\ WF_vars(Next /\ BatchFails("command") /\ \E j \in batch["command"].picked :
                                                  Held("command", j))

LiveSpec == Spec /\ Fairness

-----------------------------------------------------------------------------
(* Properties *)

\* "Wait until a queue has no pending or leased jobs": when the command says
\* "drained" there was a moment, since it started, without any.
DrainedWasEmpty == drain.at = "drained" => emptied

\* The same, for a queue that nobody feeds and whose leases all end in a final
\* state: a job then moves in the order in which drain_async counts, from
\* pending to leased, and is seen by one of the two counts.
QuietDrainWasEmpty == traffic = {} => DrainedWasEmpty

\* drain comes back, also when the queue never empties: the deadline is
\* looked at in every pass.
DrainReturns == Running ~> drain.at \in {"drained", "timed_out", "failed"}

\* A purge that no other purger disturbs leaves none of the jobs that were old
\* when it started: a batch is partial only when nothing older is left.  (Next
\* to another purge a batch may be partial because rows in it were already
\* gone, and purge_until_done stops with old jobs still there.)
SoloPurgeComplete == purge.at = "done" /\ alone => \A j \in before : job[j] # "old"

\* Whatever two purgers pick, wait for and roll back, together they report
\* each deleted job once: PurgeSummary counts the rows that DELETE returned,
\* not those that were picked.
PurgeCountsExact == purge.rows["command"] + purge.rows["worker"] = Total("purged")

\* purge comes back, with a summary or an error, although another purger may
\* hold rows that it waits for, or wait for rows that it holds.
PurgeReturns == purge.at = "purging" ~> purge.at \in {"done", "failed"}

=============================================================================
