-------------------------- MODULE JobCommandsProofs --------------------------
(***************************************************************************)
(* Theorems about drain and purge for any number of jobs and any batch     *)
(* size: what "drained" means, what a finished purge has deleted, and that *)
(* two purgers count every deleted job once.                               *)
(***************************************************************************)
EXTENDS JobCommands, FiniteSetTheorems, TLAPS

-----------------------------------------------------------------------------
(* Types *)

Batch == [at : {"idle", "deleting"}, picked : SUBSET Jobs, deleted : SUBSET Jobs]

Types ==
    /\ job \in [Jobs -> JobStatus]
    /\ drain \in [at      : {"new", "polling", "counted_pending", "counted_leased", "drained",
                             "timed_out", "failed"},
                  pending : Nat,
                  leased  : Nat]
    /\ batch \in [Purgers -> Batch]
    /\ purge \in [at : {"new", "purging", "done", "failed"}, rows : [Purgers -> Nat]]

LEMMA Counts ==
    ASSUME NEW S \in SUBSET Jobs
    PROVE  /\ IsFiniteSet(S) /\ Cardinality(S) \in Nat
           /\ Cardinality(S) = 0 => S = {}
  BY JobsAssumption, FS_Subset, FS_CardinalityType, FS_EmptySet

LEMMA MinOfTwo ==
    ASSUME NEW a \in Nat, NEW b \in Nat
    PROVE  /\ Min({a, b}) \in {a, b}
           /\ Min({a, b}) <= a /\ Min({a, b}) <= b
  <1>1. \E x \in {a, b} : \A y \in {a, b} : x <= y
    OBVIOUS
  <1>2. Min({a, b}) \in {a, b} /\ \A y \in {a, b} : Min({a, b}) <= y
    BY <1>1 DEF Min
  <1> QED
    BY <1>2

-----------------------------------------------------------------------------
(* What each step does to the tables *)

LEMMA BatchTypes ==
    ASSUME Types, NEW p \in Purgers
    PROVE  /\ batch[p] \in Batch /\ batch[p].at \in {"idle", "deleting"}
           /\ batch[p].picked \subseteq Jobs /\ batch[p].deleted \subseteq Jobs
  <1>1. batch[p] \in Batch
    BY DEF Types
  <1> QED
    BY <1>1 DEF Batch

\* The batch of p becomes b.
LEMMA BatchBecomes ==
    ASSUME Types, NEW p \in Purgers, NEW b \in Batch, batch' = [batch EXCEPT ![p] = b]
    PROVE  /\ batch' \in [Purgers -> Batch] /\ batch'[p] = b
           /\ \A q \in Purgers \ {p} : batch'[q] = batch[q]
  BY DEF Types

\* The steps of drain_async and the deadline.
DrainStep == Start \/ CountPending \/ CountLeased \/ CountFails \/ Decide \/ DeadlinePasses

LEMMA MoveEffect ==
    ASSUME Types, NEW j \in Jobs, Move(j)
    PROVE  /\ UNCHANGED <<traffic, drain, batch, purge>> /\ job' \in [Jobs -> JobStatus]
           /\ \A i \in Jobs \ {j} : job'[i] = job[i]
           /\ job[j] \notin {"old", "purged"} /\ job'[j] # "purged"
           /\ job'[j] = "pending" => traffic # {}
           /\ job'[j] = "leased" => job[j] = "pending"
  <1>0. job[j] \in JobStatus /\ job \in [Jobs -> JobStatus]
    BY DEF Types
  <1>1. PICK s \in Moves(job[j]) : job' = [job EXCEPT ![j] = s]
    BY DEF Move
  <1>2. /\ job[j] \notin {"old", "purged"} /\ s \in JobStatus /\ s # "purged"
        /\ s = "pending" => traffic # {}
        /\ s = "leased" => job[j] = "pending"
    BY <1>0, <1>1 DEF Moves, JobStatus
  <1> QED
    BY <1>0, <1>1, <1>2 DEF Move

LEMMA PickEffect ==
    ASSUME Types, NEW p \in Purgers, PickBatch(p)
    PROVE  \E P \in SUBSET Old :
            /\ Cardinality(P) = Min({BatchSize, Cardinality(Old)})
            /\ UNCHANGED <<traffic, job, drain, purge>>
            /\ p = "command" => purge.at = "purging"
            /\ batch' \in [Purgers -> Batch]
            /\ \A q \in Purgers \ {p} : batch'[q] = batch[q]
            /\ batch'[p].at = "deleting" /\ batch'[p].picked = P /\ batch'[p].deleted = {}
  <1>1. PICK P \in SUBSET Old :
          /\ Cardinality(P) = Min({BatchSize, Cardinality(Old)})
          /\ batch' = [batch EXCEPT ![p] = [at |-> "deleting", picked |-> P, deleted |-> {}]]
    BY DEF PickBatch
  <1> DEFINE b == [at |-> "deleting", picked |-> P, deleted |-> {}]
  <1>2. b \in Batch /\ b.at = "deleting" /\ b.picked = P /\ b.deleted = {}
    BY DEF Batch, Old
  <1> HIDE DEF b
  <1>3. /\ batch' \in [Purgers -> Batch] /\ batch'[p] = b
        /\ \A q \in Purgers \ {p} : batch'[q] = batch[q]
    BY <1>1, <1>2, BatchBecomes DEF b
  <1> QED
    BY <1>1, <1>2, <1>3 DEF PickBatch

LEMMA DeleteEffect ==
    ASSUME Types, NEW p \in Purgers, NEW j \in Jobs, DeleteRow(p, j)
    PROVE  /\ UNCHANGED <<traffic, job, drain, purge>>
           /\ j \in batch[p].picked /\ ~ Held(p, j)
           /\ batch' \in [Purgers -> Batch]
           /\ \A q \in Purgers \ {p} : batch'[q] = batch[q]
           /\ batch'[p].at = batch[p].at /\ batch'[p].picked = batch[p].picked \ {j}
           /\ batch'[p].deleted = IF job[j] = "old" THEN batch[p].deleted \cup {j}
                                  ELSE batch[p].deleted
  <1>0. /\ batch \in [Purgers -> Batch] /\ batch[p] \in Batch
        /\ batch[p].picked \subseteq Jobs /\ batch[p].deleted \subseteq Jobs
    BY BatchTypes DEF Types
  <1> DEFINE K == batch[p].picked \ {j}
             D == IF job[j] = "old" THEN batch[p].deleted \cup {j} ELSE batch[p].deleted
             b == [batch[p] EXCEPT !.picked = K, !.deleted = D]
  <1>1. batch' = [batch EXCEPT ![p] = b]
    BY <1>0 DEF DeleteRow
  <1>2. b \in Batch /\ b.at = batch[p].at /\ b.picked = K /\ b.deleted = D
    <2>1. K \subseteq Jobs /\ D \subseteq Jobs
      BY <1>0
    <2> HIDE DEF K, D
    <2> QED
      BY <1>0, <2>1 DEF Batch
  <1> HIDE DEF b
  <1>3. /\ batch' \in [Purgers -> Batch] /\ batch'[p] = b
        /\ \A q \in Purgers \ {p} : batch'[q] = batch[q]
    BY <1>1, <1>2, BatchBecomes
  <1> QED
    BY <1>2, <1>3 DEF DeleteRow

LEMMA EndBatch ==
    ASSUME Types, NEW p \in Purgers, batch' = [batch EXCEPT ![p] = NoBatch]
    PROVE  /\ batch' \in [Purgers -> Batch]
           /\ \A q \in Purgers \ {p} : batch'[q] = batch[q]
           /\ batch'[p].at = "idle" /\ batch'[p].picked = {} /\ batch'[p].deleted = {}
  <1>1. /\ NoBatch \in Batch /\ NoBatch.at = "idle" /\ NoBatch.picked = {}
        /\ NoBatch.deleted = {}
    BY DEF NoBatch, Batch
  <1> QED
    BY <1>1, BatchBecomes

LEMMA CommitEffect ==
    ASSUME Types, NEW p \in Purgers, CommitBatch(p)
    PROVE  LET total == Cardinality(batch[p].deleted) IN
           /\ UNCHANGED <<traffic, drain>>
           /\ batch[p].at = "deleting" /\ batch[p].picked = {}
           /\ total \in Nat
           /\ job' \in [Jobs -> JobStatus]
           /\ \A j \in Jobs : job'[j] = IF j \in batch[p].deleted THEN "purged" ELSE job[j]
           /\ batch' \in [Purgers -> Batch]
           /\ \A q \in Purgers \ {p} : batch'[q] = batch[q]
           /\ batch'[p].at = "idle" /\ batch'[p].picked = {} /\ batch'[p].deleted = {}
           /\ purge' \in [at : {"new", "purging", "done", "failed"}, rows : [Purgers -> Nat]]
           /\ purge'.rows[p] = purge.rows[p] + total
           /\ \A q \in Purgers \ {p} : purge'.rows[q] = purge.rows[q]
           /\ purge'.at = IF p = "command" /\ LastBatch(total) THEN "done" ELSE purge.at
  <1> DEFINE total == Cardinality(batch[p].deleted)
             at == IF p = "command" /\ LastBatch(total) THEN "done" ELSE purge.at
             rows == [purge.rows EXCEPT ![p] = purge.rows[p] + total]
  <1>0. /\ purge \in [at : {"new", "purging", "done", "failed"}, rows : [Purgers -> Nat]]
        /\ job \in [Jobs -> JobStatus] /\ total \in Nat
    BY BatchTypes, Counts DEF Types
  <1>1. /\ purge.rows \in [Purgers -> Nat] /\ purge.at \in {"new", "purging", "done", "failed"}
        /\ at \in {"new", "purging", "done", "failed"}
    BY <1>0
  <1>2. purge' = [purge EXCEPT !.rows = rows, !.at = at]
    BY <1>0 DEF CommitBatch
  <1> HIDE DEF total, at
  <1>3. /\ rows \in [Purgers -> Nat] /\ rows[p] = purge.rows[p] + total
        /\ \A q \in Purgers \ {p} : rows[q] = purge.rows[q]
    BY <1>0, <1>1
  <1> HIDE DEF rows
  <1>4. /\ purge' \in [at : {"new", "purging", "done", "failed"}, rows : [Purgers -> Nat]]
        /\ purge'.rows = rows /\ purge'.at = at
    BY <1>0, <1>1, <1>2, <1>3
  <1>5. /\ job' = [j \in Jobs |-> IF j \in batch[p].deleted THEN "purged" ELSE job[j]]
        /\ batch' = [batch EXCEPT ![p] = NoBatch]
        /\ UNCHANGED <<traffic, drain>> /\ batch[p].at = "deleting" /\ batch[p].picked = {}
    BY DEF CommitBatch
  <1>6. job' \in [Jobs -> JobStatus]
    BY <1>0, <1>5 DEF JobStatus
  <1> QED
    BY <1>0, <1>3, <1>4, <1>5, <1>6, EndBatch DEF total, at

LEMMA FailEffect ==
    ASSUME Types, NEW p \in Purgers, BatchFails(p)
    PROVE  /\ UNCHANGED <<traffic, job, drain>> /\ batch[p].at = "deleting"
           /\ batch' \in [Purgers -> Batch]
           /\ \A q \in Purgers \ {p} : batch'[q] = batch[q]
           /\ batch'[p].at = "idle" /\ batch'[p].picked = {} /\ batch'[p].deleted = {}
           /\ purge' \in [at : {"new", "purging", "done", "failed"}, rows : [Purgers -> Nat]]
           /\ purge'.rows = purge.rows
           /\ purge'.at = IF p = "command" THEN "failed" ELSE purge.at
  <1>1. purge \in [at : {"new", "purging", "done", "failed"}, rows : [Purgers -> Nat]]
    BY DEF Types
  <1>2. purge' = [purge EXCEPT !.at = IF p = "command" THEN "failed" ELSE @]
    BY DEF BatchFails
  <1>3. /\ purge' \in [at : {"new", "purging", "done", "failed"}, rows : [Purgers -> Nat]]
        /\ purge'.rows = purge.rows
        /\ purge'.at = IF p = "command" THEN "failed" ELSE purge.at
    BY <1>1, <1>2
  <1> QED
    BY <1>3, EndBatch DEF BatchFails

LEMMA StartPurgeEffect ==
    ASSUME Types, StartPurge
    PROVE  /\ UNCHANGED <<traffic, job, drain, batch>>
           /\ purge.at = "new" /\ purge'.at = "purging" /\ purge'.rows = purge.rows
           /\ purge' \in [at : {"new", "purging", "done", "failed"}, rows : [Purgers -> Nat]]
  BY DEF Types, StartPurge

LEMMA DrainEffect ==
    ASSUME Types, DrainStep
    PROVE  /\ UNCHANGED <<traffic, job, batch, purge>>
           /\ drain' \in [at      : {"new", "polling", "counted_pending", "counted_leased",
                                     "drained", "timed_out", "failed"},
                          pending : Nat,
                          leased  : Nat]
           /\ \/ drain' = drain
              \/ drain'.at \in {"polling", "failed", "timed_out"}
              \/ drain'.at = "counted_pending" /\ drain'.pending = Total("pending")
              \/ /\ drain.at = "counted_pending" /\ drain'.at = "counted_leased"
                 /\ drain'.pending = drain.pending /\ drain'.leased = Total("leased")
              \/ drain.at = "counted_leased" /\ Drained /\ drain'.at = "drained"
  <1>0. drain \in [at      : {"new", "polling", "counted_pending", "counted_leased",
                              "drained", "timed_out", "failed"},
                   pending : Nat,
                   leased  : Nat]
    BY DEF Types
  <1>1. \A s : Total(s) \in Nat
    BY Counts DEF Total
  <1>2. UNCHANGED <<traffic, job, batch, purge>>
    BY DEF DrainStep, Start, CountPending, CountLeased, CountFails, Decide, DeadlinePasses
  <1>3. CASE Start \/ CountFails
    BY <1>0, <1>2, <1>3 DEF Start, CountFails
  <1>4. CASE CountPending
    BY <1>0, <1>1, <1>2, <1>4 DEF CountPending
  <1>5. CASE CountLeased
    BY <1>0, <1>1, <1>2, <1>5 DEF CountLeased
  <1>6. CASE Decide
    BY <1>0, <1>2, <1>6 DEF Decide
  <1>7. CASE DeadlinePasses
    BY <1>0, <1>2, <1>7 DEF DeadlinePasses
  <1> QED
    BY <1>3, <1>4, <1>5, <1>6, <1>7 DEF DrainStep

LEMMA InitTypes == Init => Types
  <1> SUFFICES ASSUME Init PROVE Types
    OBVIOUS
  <1>1. NoBatch \in Batch
    BY DEF NoBatch, Batch
  <1>2. job \in [Jobs -> JobStatus]
    BY DEF Init, JobStatus
  <1> QED
    BY <1>1, <1>2 DEF Init, Types

LEMMA NextTypes == Types /\ [Next]_vars => Types'
  <1> SUFFICES ASSUME Types, [Next]_vars PROVE Types'
    OBVIOUS
  <1>0. CASE DrainStep
    BY <1>0, DrainEffect DEF Types
  <1>1. CASE StartPurge
    BY <1>1, StartPurgeEffect DEF Types
  <1>2. ASSUME NEW p \in Purgers, PickBatch(p) PROVE Types'
    BY <1>2, PickEffect DEF Types
  <1>3. ASSUME NEW p \in Purgers, NEW j \in Jobs, DeleteRow(p, j) PROVE Types'
    BY <1>3, DeleteEffect DEF Types
  <1>4. ASSUME NEW p \in Purgers, CommitBatch(p) PROVE Types'
    BY <1>4, CommitEffect DEF Types
  <1>5. ASSUME NEW p \in Purgers, BatchFails(p) PROVE Types'
    BY <1>5, FailEffect DEF Types
  <1>6. ASSUME NEW j \in Jobs, Move(j) PROVE Types'
    BY <1>6, MoveEffect DEF Types
  <1>7. CASE UNCHANGED vars
    BY <1>7 DEF vars, Types
  <1> QED
    BY <1>0, <1>1, <1>2, <1>3, <1>4, <1>5, <1>6, <1>7 DEF Next, Step, DrainStep

-----------------------------------------------------------------------------
(* drain *)

\* What the two counts of a pass are worth in a queue that nobody feeds.  A
\* first count of zero stays true, so that the second one sees what is left.
QuietInv ==
    traffic = {} =>
        /\ drain.at = "counted_pending" /\ drain.pending = 0 =>
              \A j \in Jobs : job[j] # "pending"
        /\ drain.at = "counted_leased" /\ Drained => emptied
        /\ drain.at = "drained" => emptied

LEMMA NextQuiet == Types /\ QuietInv /\ [Next]_vars => QuietInv'
  <1> SUFFICES ASSUME Types, QuietInv, [Next]_vars PROVE QuietInv'
    OBVIOUS
  <1>1. CASE UNCHANGED vars
    BY <1>1 DEF vars, QuietInv, Drained
  <1>2. CASE Next
    <2>0. emptied' = (emptied \/ (Running' /\ QueueEmpty'))
      BY <1>2 DEF Next, Watch
    \* Nothing becomes pending while drain_async stands still.
    <2>1. ASSUME UNCHANGED <<traffic, drain>>,
                 \A j \in Jobs : job'[j] = "pending" => job[j] = "pending" \/ traffic # {}
          PROVE  QuietInv'
      BY <2>0, <2>1 DEF QuietInv, Drained
    <2>2. CASE DrainStep
      <3> SUFFICES ASSUME traffic = {}
                   PROVE  /\ drain'.at = "counted_pending" /\ drain'.pending = 0 =>
                                \A j \in Jobs : job'[j] # "pending"
                          /\ drain'.at = "counted_leased" /\ Drained' => emptied'
                          /\ drain'.at = "drained" => emptied'
        BY <2>2, DrainEffect DEF QuietInv
      <3>1. UNCHANGED job
        BY <2>2, DrainEffect
      <3>2. \A s : Total(s) = 0 => \A j \in Jobs : job[j] # s
        BY Counts DEF Total
      <3>3. CASE drain' = drain
        BY <2>0, <3>1, <3>3 DEF QuietInv, Drained
      <3>4. CASE drain'.at \in {"polling", "failed", "timed_out"}
        BY <3>4
      <3>5. CASE drain'.at = "counted_pending" /\ drain'.pending = Total("pending")
        BY <3>1, <3>2, <3>5
      <3>6. CASE /\ drain.at = "counted_pending" /\ drain'.at = "counted_leased"
                 /\ drain'.pending = drain.pending /\ drain'.leased = Total("leased")
        <4>1. ASSUME Drained' PROVE drain.pending = 0 /\ Total("leased") = 0
          <5>1. drain.pending \in Nat /\ Total("leased") \in Nat
            BY Counts DEF Types, Total
          <5> QED
            BY <3>6, <4>1, <5>1 DEF Drained
        <4>2. ASSUME Drained' PROVE emptied'
          <5>1. \A j \in Jobs : job[j] # "pending" /\ job[j] # "leased"
            BY <3>2, <3>6, <4>1, <4>2 DEF QuietInv
          <5>2. Running' /\ QueueEmpty'
            BY <3>1, <3>6, <5>1 DEF Running, QueueEmpty, Open
          <5> QED
            BY <2>0, <5>2
        <4> QED
          BY <3>6, <4>2
      <3>7. CASE drain.at = "counted_leased" /\ Drained /\ drain'.at = "drained"
        BY <2>0, <3>7 DEF QuietInv
      <3> QED
        BY <2>2, <3>3, <3>4, <3>5, <3>6, <3>7, DrainEffect
    <2>3. CASE StartPurge
      BY <2>1, <2>3, StartPurgeEffect
    <2>4. ASSUME NEW p \in Purgers, PickBatch(p) PROVE QuietInv'
      BY <2>1, <2>4, PickEffect
    <2>5. ASSUME NEW p \in Purgers, NEW j \in Jobs, DeleteRow(p, j) PROVE QuietInv'
      BY <2>1, <2>5, DeleteEffect
    <2>6. ASSUME NEW p \in Purgers, CommitBatch(p) PROVE QuietInv'
      BY <2>1, <2>6, CommitEffect
    <2>7. ASSUME NEW p \in Purgers, BatchFails(p) PROVE QuietInv'
      BY <2>1, <2>7, FailEffect
    <2>8. ASSUME NEW j \in Jobs, Move(j) PROVE QuietInv'
      BY <2>1, <2>8, MoveEffect
    <2> QED
      BY <1>2, <2>2, <2>3, <2>4, <2>5, <2>6, <2>7, <2>8 DEF Next, Step, DrainStep
  <1> QED
    BY <1>1, <1>2

\* The "drained" of drain_async is true of some moment since the command
\* started, for any number of jobs, when nothing is enqueued or given back
\* meanwhile.
THEOREM QuietDrains == Spec => []QuietDrainWasEmpty
  <1>1. Init => QuietInv
    BY DEF Init, QuietInv
  <1>2. QuietInv => QuietDrainWasEmpty
    BY DEF QuietInv, QuietDrainWasEmpty, DrainedWasEmpty
  <1> QED
    BY <1>1, <1>2, InitTypes, NextTypes, NextQuiet, PTL DEF Spec

-----------------------------------------------------------------------------
(* purge: what is deleted is counted *)

Purged == {j \in Jobs : job[j] = "purged"}

\* A row that a batch has deleted and not committed is still an old job to
\* everybody else, and no other batch has deleted it.
RowsHeld ==
    /\ \A p \in Purgers : batch[p].deleted \subseteq Old
    /\ batch["command"].deleted \cap batch["worker"].deleted = {}

LEMMA NextRowsHeld == Types /\ RowsHeld /\ [Next]_vars => RowsHeld'
  <1> SUFFICES ASSUME Types, RowsHeld, [Next]_vars PROVE RowsHeld'
    OBVIOUS
  <1>0. \A p \in Purgers : batch[p].deleted \subseteq Jobs
    BY BatchTypes
  <1>1. CASE UNCHANGED vars
    BY <1>1 DEF vars, RowsHeld, Old
  <1>2. ASSUME UNCHANGED <<job, batch>> PROVE RowsHeld'
    BY <1>2 DEF RowsHeld, Old
  <1>3. CASE DrainStep \/ StartPurge
    BY <1>2, <1>3, DrainEffect, StartPurgeEffect
  <1>4. ASSUME NEW p \in Purgers, PickBatch(p) PROVE RowsHeld'
    <2>1. /\ UNCHANGED job /\ batch'[p].deleted = {}
          /\ \A q \in Purgers \ {p} : batch'[q] = batch[q]
      BY <1>4, PickEffect
    <2> QED
      BY <2>1 DEF RowsHeld, Old, Purgers
  <1>5. ASSUME NEW p \in Purgers, NEW j \in Jobs, DeleteRow(p, j) PROVE RowsHeld'
    <2>1. /\ UNCHANGED job /\ ~ Held(p, j)
          /\ \A q \in Purgers \ {p} : batch'[q] = batch[q]
          /\ batch'[p].deleted = IF job[j] = "old" THEN batch[p].deleted \cup {j}
                                 ELSE batch[p].deleted
      BY <1>5, DeleteEffect
    <2>2. \A q \in Purgers \ {p} : j \notin batch[q].deleted
      BY <2>1 DEF Held
    <2> QED
      BY <2>1, <2>2 DEF RowsHeld, Old, Purgers
  <1>6. ASSUME NEW p \in Purgers, CommitBatch(p) PROVE RowsHeld'
    <2>1. /\ \A j \in Jobs : job'[j] = IF j \in batch[p].deleted THEN "purged" ELSE job[j]
          /\ batch'[p].deleted = {}
          /\ \A q \in Purgers \ {p} : batch'[q] = batch[q]
      BY <1>6, CommitEffect
    <2>2. \A q \in Purgers \ {p} : batch[q].deleted \cap batch[p].deleted = {}
      BY DEF RowsHeld, Purgers
    <2> QED
      BY <2>1, <2>2 DEF RowsHeld, Old, Purgers
  <1>7. ASSUME NEW p \in Purgers, BatchFails(p) PROVE RowsHeld'
    <2>1. /\ UNCHANGED job /\ batch'[p].deleted = {}
          /\ \A q \in Purgers \ {p} : batch'[q] = batch[q]
      BY <1>7, FailEffect
    <2> QED
      BY <2>1 DEF RowsHeld, Old, Purgers
  <1>8. ASSUME NEW j \in Jobs, Move(j) PROVE RowsHeld'
    <2>1. UNCHANGED batch /\ \A i \in Old : job'[i] = job[i]
      BY <1>8, MoveEffect DEF Old
    <2> QED
      BY <2>1 DEF RowsHeld, Old
  <1> QED
    BY <1>1, <1>3, <1>4, <1>5, <1>6, <1>7, <1>8 DEF Next, Step, DrainStep

LEMMA NextCounted ==
    Types /\ RowsHeld /\ PurgeCountsExact /\ [Next]_vars => PurgeCountsExact'
  <1> SUFFICES ASSUME Types, RowsHeld, PurgeCountsExact, [Next]_vars PROVE PurgeCountsExact'
    OBVIOUS
  <1>1. CASE UNCHANGED vars
    BY <1>1 DEF vars, PurgeCountsExact, Total
  <1>2. ASSUME purge'.rows = purge.rows, Purged' = Purged PROVE PurgeCountsExact'
    BY <1>2 DEF PurgeCountsExact, Total, Purged
  <1>3. ASSUME purge'.rows = purge.rows, UNCHANGED job PROVE PurgeCountsExact'
    BY <1>2, <1>3 DEF Purged
  <1>4. CASE DrainStep \/ StartPurge
    BY <1>3, <1>4, DrainEffect, StartPurgeEffect
  <1>5. ASSUME NEW p \in Purgers, PickBatch(p) PROVE PurgeCountsExact'
    BY <1>3, <1>5, PickEffect
  <1>6. ASSUME NEW p \in Purgers, NEW j \in Jobs, DeleteRow(p, j) PROVE PurgeCountsExact'
    BY <1>3, <1>6, DeleteEffect
  <1>7. ASSUME NEW p \in Purgers, BatchFails(p) PROVE PurgeCountsExact'
    BY <1>3, <1>7, FailEffect
  <1>8. ASSUME NEW j \in Jobs, Move(j) PROVE PurgeCountsExact'
    <2>1. /\ UNCHANGED purge /\ \A i \in Jobs \ {j} : job'[i] = job[i]
          /\ job[j] # "purged" /\ job'[j] # "purged"
      BY <1>8, MoveEffect
    <2>2. Purged' = Purged
      BY <2>1 DEF Purged
    <2> QED
      BY <1>2, <2>1, <2>2
  <1>9. ASSUME NEW p \in Purgers, CommitBatch(p) PROVE PurgeCountsExact'
    <2> DEFINE D == batch[p].deleted
    <2>1. /\ \A j \in Jobs : job'[j] = IF j \in D THEN "purged" ELSE job[j]
          /\ purge'.rows[p] = purge.rows[p] + Cardinality(D)
          /\ \A q \in Purgers \ {p} : purge'.rows[q] = purge.rows[q]
      BY <1>9, CommitEffect
    <2>2. D \subseteq Jobs /\ D \subseteq Old
      BY BatchTypes DEF RowsHeld
    <2>3. Purged' = Purged \cup D /\ Purged \cap D = {}
      BY <2>1, <2>2 DEF Purged, Old
    <2> HIDE DEF D
    <2>4. Purged \subseteq Jobs
      BY DEF Purged
    <2>5. Cardinality(Purged \cap D) = 0
      BY <2>3, FS_EmptySet
    <2>6. /\ IsFiniteSet(Purged) /\ IsFiniteSet(D)
          /\ Cardinality(Purged) \in Nat /\ Cardinality(D) \in Nat
      BY <2>2, <2>4, Counts
    <2>7. Cardinality(Purged') = Cardinality(Purged) + Cardinality(D)
      <3>1. Cardinality(Purged \cup D)
              = Cardinality(Purged) + Cardinality(D) - Cardinality(Purged \cap D)
        BY <2>6, FS_Union
      <3> QED
        BY <2>3, <2>5, <2>6, <3>1
    <2>8. purge.rows \in [Purgers -> Nat]
      BY DEF Types
    <2>9. purge.rows["command"] + purge.rows["worker"] = Cardinality(Purged)
      BY DEF PurgeCountsExact, Total, Purged
    <2>10. purge'.rows["command"] + purge'.rows["worker"] = Cardinality(Purged')
      <3>1. CASE p = "command"
        BY <2>1, <2>6, <2>7, <2>8, <2>9, <3>1 DEF Purgers
      <3>2. CASE p = "worker"
        BY <2>1, <2>6, <2>7, <2>8, <2>9, <3>2 DEF Purgers
      <3> QED
        BY <3>1, <3>2 DEF Purgers
    <2> QED
      BY <2>10 DEF PurgeCountsExact, Total, Purged
  <1> QED
    BY <1>1, <1>4, <1>5, <1>6, <1>7, <1>8, <1>9 DEF Next, Step, DrainStep

LEMMA InitRowsHeld == Init => RowsHeld
  BY DEF Init, RowsHeld, NoBatch, Purgers

\* The rows that the purge command and a worker's purge loop report add up to
\* the jobs that are gone, however their batches overlap, wait and roll back.
THEOREM PurgesCounted == Spec => []PurgeCountsExact
  <1>1. Init => PurgeCountsExact
    <2> SUFFICES ASSUME Init PROVE PurgeCountsExact
      OBVIOUS
    <2>1. Purged = {}
      BY DEF Init, Purged
    <2>2. Total("purged") = 0
      BY <2>1, FS_EmptySet DEF Total, Purged
    <2> QED
      BY <2>2 DEF Init, PurgeCountsExact, Purgers
  <1> QED
    BY <1>1, InitTypes, InitRowsHeld, NextTypes, NextRowsHeld, NextCounted, PTL DEF Spec

-----------------------------------------------------------------------------
(* purge: a partial batch is the last one *)

\* The rows that the command's batch was made of, as far as they still count:
\* those that it has yet to take and those that it has deleted.
Mine == batch["command"].picked \cup batch["command"].deleted

\* batch["command"] runs within purge_until_done; the jobs that were old when
\* it started are old or gone; while nobody else purges, its batch loses no
\* row, and is full or holds all that is left of those jobs.
SoloInv ==
    /\ batch["command"].at = "deleting" => purge.at = "purging"
    /\ alone /\ purge.at = "purging" => batch["worker"].at = "idle"
    /\ before \subseteq Jobs
    /\ purge.at # "new" => \A j \in before : job[j] \in {"old", "purged"}
    /\ alone /\ batch["command"].at = "deleting" =>
          /\ Mine \subseteq Old
          /\ Cardinality(Mine) >= BatchSize \/ Old \cap before \subseteq Mine
    /\ SoloPurgeComplete

\* A batch is full, or it is all the old jobs there are.
LEMMA FullOrAll ==
    ASSUME NEW P \in SUBSET Old, Cardinality(P) = Min({BatchSize, Cardinality(Old)})
    PROVE  Cardinality(P) >= BatchSize \/ P = Old
  <1>1. Old \subseteq Jobs
    BY DEF Old
  <1>2. IsFiniteSet(Old) /\ Cardinality(Old) \in Nat /\ BatchSize \in Nat
    BY <1>1, Counts, BatchSizeAssumption
  <1>3. Cardinality(P) = BatchSize \/ Cardinality(P) = Cardinality(Old)
    BY <1>2, MinOfTwo
  <1>4. CASE Cardinality(P) = BatchSize
    BY <1>2, <1>4
  <1>5. CASE Cardinality(P) = Cardinality(Old)
    BY <1>2, <1>5, FS_Subset
  <1> QED
    BY <1>3, <1>4, <1>5

LEMMA NextSolo == Types /\ SoloInv /\ [Next]_vars => SoloInv'
  <1> SUFFICES ASSUME Types, SoloInv, [Next]_vars PROVE SoloInv'
    OBVIOUS
  <1>1. CASE UNCHANGED vars
    BY <1>1 DEF vars, SoloInv, SoloPurgeComplete, Mine, Old
  <1>2. CASE Next
    <2> DEFINE C == batch["command"]
    <2>0. "command" \in Purgers /\ "worker" \in Purgers
      BY DEF Purgers
    <2>1. /\ before' = IF purge.at = "new" THEN Old' ELSE before
          /\ alone' => alone
          /\ alone' /\ purge'.at = "purging" => batch'["worker"].at = "idle"
      BY <1>2 DEF Next, Watch
    <2>2. Old' \subseteq Jobs /\ before' \subseteq Jobs
      BY <2>1 DEF SoloInv, Old
    <2>3. purge.at \in {"new", "purging", "done", "failed"}
      BY DEF Types
    \* No step makes a job old again, or an old job anything but purged.
    <2>4. ASSUME \A j \in Jobs : job[j] \in {"old", "purged"} =>
                                    job'[j] \in {job[j], "purged"}
          PROVE  /\ purge'.at # "new" => \A j \in before' : job'[j] \in {"old", "purged"}
                 /\ purge.at # "new" => Old' \cap before' \subseteq Old \cap before
      <3>1. CASE purge.at = "new"
        BY <2>1, <3>1 DEF Old
      <3>2. CASE purge.at # "new"
        BY <2>1, <2>4, <3>2 DEF SoloInv, Old
      <3> QED
        BY <3>1, <3>2
    \* A step that leaves the command and its batch where they are, and whose
    \* jobs only age, or are purged once the command is no longer alone.
    <2>5. ASSUME batch'["command"] = C, purge'.at = purge.at,
                 \A j \in Jobs : job[j] \in {"old", "purged"} =>
                                    job'[j] \in {job[j], "purged"},
                 alone /\ purge.at = "purging" => Old \subseteq Old'
          PROVE  SoloInv'
      <3>1. C.at = "deleting" => purge.at = "purging"
        BY DEF SoloInv
      <3>2. Mine' = Mine
        BY <2>5 DEF Mine
      <3>3. ASSUME alone', C.at = "deleting"
            PROVE  /\ Mine' \subseteq Old'
                   /\ Cardinality(Mine') >= BatchSize \/ Old' \cap before' \subseteq Mine'
        <4>1. alone /\ purge.at = "purging" /\ purge.at # "new"
          BY <2>1, <3>1, <3>3
        <4>2. /\ Mine \subseteq Old
              /\ Cardinality(Mine) >= BatchSize \/ Old \cap before \subseteq Mine
          BY <3>3, <4>1 DEF SoloInv
        <4>3. Old \subseteq Old' /\ Old' \cap before' \subseteq Old \cap before
          BY <2>4, <2>5, <4>1
        <4> QED
          BY <3>2, <4>2, <4>3
      <3>4. SoloPurgeComplete'
        <4>1. ASSUME purge'.at = "done", alone', NEW j \in before'
              PROVE  job'[j] # "old"
          <5>1. purge.at = "done" /\ alone /\ before' = before
            BY <2>1, <2>5, <4>1
          <5>2. job[j] # "old" /\ job[j] \in {"old", "purged"} /\ j \in Jobs
            BY <4>1, <5>1 DEF SoloInv, SoloPurgeComplete
          <5> QED
            BY <2>5, <5>2
        <4> QED
          BY <4>1 DEF SoloPurgeComplete
      <3> QED
        BY <2>1, <2>2, <2>4, <2>5, <3>1, <3>3, <3>4 DEF SoloInv
    <2>6. CASE DrainStep
      BY <2>5, <2>6, DrainEffect DEF Old
    <2>7. CASE StartPurge
      <3>1. /\ UNCHANGED <<job, batch>> /\ purge.at = "new" /\ purge'.at = "purging"
        BY <2>7, StartPurgeEffect
      <3>2. C.at # "deleting"
        BY <3>1 DEF SoloInv
      <3>3. purge'.at # "new" => \A j \in before' : job'[j] \in {"old", "purged"}
        BY <2>4, <3>1
      <3> QED
        BY <2>1, <2>2, <3>1, <3>2, <3>3 DEF SoloInv, SoloPurgeComplete
    <2>8. ASSUME NEW p \in Purgers, PickBatch(p) PROVE SoloInv'
      <3>1. PICK P \in SUBSET Old :
              /\ Cardinality(P) = Min({BatchSize, Cardinality(Old)})
              /\ UNCHANGED <<job, purge>>
              /\ p = "command" => purge.at = "purging"
              /\ \A q \in Purgers \ {p} : batch'[q] = batch[q]
              /\ batch'[p].at = "deleting" /\ batch'[p].picked = P
              /\ batch'[p].deleted = {}
        BY <2>8, PickEffect
      <3>2. CASE p # "command"
        BY <2>0, <2>5, <3>1, <3>2 DEF Old
      <3>3. CASE p = "command"
        <4>1. Mine' = P /\ Old' = Old
          BY <3>1, <3>3 DEF Mine, Old
        <4>2. /\ Mine' \subseteq Old'
              /\ Cardinality(Mine') >= BatchSize \/ Old' \cap before' \subseteq Mine'
          BY <3>1, <4>1, FullOrAll
        <4>3. SoloPurgeComplete'
          BY <3>1, <3>3 DEF SoloPurgeComplete
        <4>4. purge'.at # "new" => \A j \in before' : job'[j] \in {"old", "purged"}
          BY <2>4, <3>1
        <4> QED
          BY <2>1, <2>2, <3>1, <3>3, <4>2, <4>3, <4>4 DEF SoloInv
      <3> QED
        BY <3>2, <3>3
    <2>9. ASSUME NEW p \in Purgers, NEW j \in Jobs, DeleteRow(p, j) PROVE SoloInv'
      <3>1. /\ UNCHANGED <<job, purge>> /\ j \in batch[p].picked
            /\ \A q \in Purgers \ {p} : batch'[q] = batch[q]
            /\ batch'[p].at = batch[p].at /\ batch'[p].picked = batch[p].picked \ {j}
            /\ batch'[p].deleted = IF job[j] = "old" THEN batch[p].deleted \cup {j}
                                   ELSE batch[p].deleted
        BY <2>9, DeleteEffect
      <3>2. CASE p # "command"
        BY <2>0, <2>5, <3>1, <3>2 DEF Old
      <3>3. CASE p = "command"
        <4>1. Old' = Old
          BY <3>1 DEF Old
        <4>2. ASSUME alone', batch'["command"].at = "deleting"
              PROVE  /\ Mine' \subseteq Old'
                     /\ Cardinality(Mine') >= BatchSize \/ Old' \cap before' \subseteq Mine'
          <5>1. alone /\ C.at = "deleting" /\ purge.at = "purging"
            BY <2>1, <3>1, <3>3, <4>2 DEF SoloInv
          <5>2. /\ Mine \subseteq Old
                /\ Cardinality(Mine) >= BatchSize \/ Old \cap before \subseteq Mine
            BY <5>1 DEF SoloInv
          <5>3. job[j] = "old"
            BY <3>1, <3>3, <5>2 DEF Mine, Old
          <5>4. Mine' = Mine /\ before' = before
            BY <2>1, <3>1, <3>3, <5>1, <5>3 DEF Mine
          <5> QED
            BY <4>1, <5>2, <5>4
        <4>3. SoloPurgeComplete'
          <5>1. ASSUME purge'.at = "done", alone', NEW i \in before' PROVE job'[i] # "old"
            BY <2>1, <3>1, <5>1 DEF SoloInv, SoloPurgeComplete
          <5> QED
            BY <5>1 DEF SoloPurgeComplete
        <4>4. purge'.at # "new" => \A i \in before' : job'[i] \in {"old", "purged"}
          BY <2>4, <3>1
        <4>5. batch'["command"].at = "deleting" => purge'.at = "purging"
          BY <3>1, <3>3 DEF SoloInv
        <4> QED
          BY <2>1, <2>2, <4>2, <4>3, <4>4, <4>5 DEF SoloInv
      <3> QED
        BY <3>2, <3>3
    <2>10. ASSUME NEW p \in Purgers, CommitBatch(p) PROVE SoloInv'
      <3> DEFINE total == Cardinality(batch[p].deleted)
      <3>1. /\ batch[p].at = "deleting" /\ batch[p].picked = {} /\ total \in Nat
            /\ \A j \in Jobs : job'[j] = IF j \in batch[p].deleted THEN "purged" ELSE job[j]
            /\ \A q \in Purgers \ {p} : batch'[q] = batch[q]
            /\ batch'[p].at = "idle"
            /\ purge'.at = IF p = "command" /\ LastBatch(total) THEN "done" ELSE purge.at
        BY <2>10, CommitEffect
      <3> HIDE DEF total
      <3>2. CASE p # "command"
        <4>1. p = "worker"
          BY <3>2 DEF Purgers
        <4>2. ~ (alone /\ purge.at = "purging")
          BY <3>1, <4>1 DEF SoloInv
        <4> QED
          BY <2>0, <2>5, <3>1, <3>2, <4>2
      <3>3. CASE p = "command"
        <4>1. purge.at = "purging" /\ before' = before
          BY <2>1, <3>1, <3>3 DEF SoloInv
        <4>2. purge'.at # "new" => \A j \in before' : job'[j] \in {"old", "purged"}
          BY <2>4, <3>1
        <4>3. ASSUME purge'.at = "done", alone', NEW j \in before' PROVE job'[j] # "old"
          <5>1. /\ Mine \subseteq Old
                /\ Cardinality(Mine) >= BatchSize \/ Old \cap before \subseteq Mine
            BY <2>1, <3>1, <3>3, <4>3 DEF SoloInv
          <5>2. Mine = batch[p].deleted
            BY <3>1, <3>3 DEF Mine
          <5>3. ~ (Cardinality(Mine) >= BatchSize)
            <6>1. LastBatch(total)
              BY <3>1, <4>1, <4>3
            <6>2. total < BatchSize /\ BatchSize \in Nat
              BY <6>1, BatchSizeAssumption DEF LastBatch
            <6> QED
              BY <3>1, <5>2, <6>2 DEF total
          <5>4. j \in Jobs /\ j \in before
            BY <2>2, <4>1, <4>3
          <5>5. CASE j \in batch[p].deleted
            BY <3>1, <5>4, <5>5
          <5>6. CASE j \notin batch[p].deleted
            BY <3>1, <5>1, <5>2, <5>3, <5>4, <5>6 DEF Old
          <5> QED
            BY <5>5, <5>6
        <4>4. SoloPurgeComplete'
          BY <4>3 DEF SoloPurgeComplete
        <4>5. batch'["command"].at # "deleting"
          BY <3>1, <3>3
        <4> QED
          BY <2>1, <2>2, <4>2, <4>4, <4>5 DEF SoloInv
      <3> QED
        BY <3>2, <3>3
    <2>11. ASSUME NEW p \in Purgers, BatchFails(p) PROVE SoloInv'
      <3>1. /\ UNCHANGED job /\ batch'[p].at = "idle"
            /\ \A q \in Purgers \ {p} : batch'[q] = batch[q]
            /\ purge'.at = IF p = "command" THEN "failed" ELSE purge.at
        BY <2>11, FailEffect
      <3>2. CASE p # "command"
        BY <2>0, <2>5, <3>1, <3>2 DEF Old
      <3>3. CASE p = "command"
        <4>1. purge'.at # "new" => \A j \in before' : job'[j] \in {"old", "purged"}
          BY <2>4, <3>1
        <4> QED
          BY <2>1, <2>2, <3>1, <3>3, <4>1 DEF SoloInv, SoloPurgeComplete
      <3> QED
        BY <3>2, <3>3
    <2>12. ASSUME NEW j \in Jobs, Move(j) PROVE SoloInv'
      <3>1. /\ UNCHANGED <<batch, purge>> /\ job[j] \notin {"old", "purged"}
            /\ \A i \in Jobs \ {j} : job'[i] = job[i]
        BY <2>12, MoveEffect
      <3>2. Old \subseteq Old'
        BY <3>1 DEF Old
      <3>3. \A i \in Jobs : job[i] \in {"old", "purged"} => job'[i] \in {job[i], "purged"}
        BY <3>1
      <3> QED
        BY <2>5, <3>1, <3>2, <3>3
    <2> QED
      BY <1>2, <2>6, <2>7, <2>8, <2>9, <2>10, <2>11, <2>12 DEF Next, Step, DrainStep
  <1> QED
    BY <1>1, <1>2

\* purge_until_done may take a partial batch for the last one: undisturbed, it
\* leaves no job that was old when it started, for any number of jobs and any
\* batch size.
THEOREM SoloPurges == Spec => []SoloPurgeComplete
  <1>1. Init => SoloInv
    <2> SUFFICES ASSUME Init PROVE SoloInv
      OBVIOUS
    <2>1. \A p \in Purgers : batch[p].at = "idle"
      BY DEF Init, NoBatch
    <2>2. purge.at = "new" /\ before = {}
      BY DEF Init
    <2> QED
      BY <2>1, <2>2 DEF SoloInv, SoloPurgeComplete, Purgers
  <1>2. SoloInv => SoloPurgeComplete
    BY DEF SoloInv
  <1> QED
    BY <1>1, <1>2, InitTypes, NextTypes, NextSolo, PTL DEF Spec

=============================================================================
