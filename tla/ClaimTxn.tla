------------------------------ MODULE ClaimTxn ------------------------------
(***************************************************************************)
(* The claim transaction, statement by statement, as PostgreSQL runs it    *)
(* under READ COMMITTED: LeaseRecovery.recover, then the two statements of *)
(* JobRepository.claim_jobs, then the commit (worker/runner.py).           *)
(*                                                                         *)
(*   - A statement sees the rows committed when it started, plus what its  *)
(*     own transaction wrote.                                              *)
(*   - FOR UPDATE takes row locks one by one, in ORDER BY name for queues, *)
(*     waits for other holders, and re-checks the WHERE clause on the      *)
(*     newest version; SKIP LOCKED passes over locked rows.                *)
(*   - Locks are kept until commit or rollback.                            *)
(*   - The foreign key of pgrelay_job makes an INSERT hold a share lock on *)
(*     its queue row, which FOR UPDATE waits for, until its caller commits.*)
(*                                                                         *)
(* What is asked is whether concurrency_limit holds across workers, and    *)
(* whether transactions can wait for each other.                           *)
(***************************************************************************)
EXTENDS Integers, FiniteSets, FiniteSetsExt

CONSTANTS
    Workers,    \* worker processes
    Serves,     \* Serves[w]: the queues in settings.get_queue_names()
    Queues,     \* queue names, as numbers so that ORDER BY name is <
    Jobs,       \* jobs
    QueueOf,    \* QueueOf[j]: queue_name of j
    NoOne,      \* a lock that nobody holds
    Limits,     \* values of concurrency_limit that an operator sets
    BatchSize   \* settings.worker_batch_size

ASSUME NoOneAssumption == NoOne \notin Workers
ASSUME QueuesAssumption == Queues \subseteq Nat /\ IsFiniteSet(Queues)
ASSUME JobsAssumption == IsFiniteSet(Jobs) /\ QueueOf \in [Jobs -> Queues]
ASSUME ServesAssumption == Serves \in [Workers -> SUBSET Queues]
ASSUME LimitsAssumption == Limits \subseteq Nat \ {0} /\ BatchSize \in Nat \ {0}

VARIABLES
    queue,  \* queue[q]: the committed pgrelay_queue row
    job,    \* job[j]: the committed status; "inserted" while the caller's
            \* transaction is open
    qlock,  \* qlock[q]: the transaction that holds q FOR UPDATE
    jlock,  \* jlock[j]: the transaction that has locked or updated row j
    txn     \* txn[w]: the claim transaction of worker w

vars == <<queue, job, qlock, jlock, txn>>

-----------------------------------------------------------------------------
(* Types *)

QueueRow == [status : {"absent", "paused", "active"}, limit : Limits]

JobStatus == {"absent", "inserted", "pending", "leased", "done"}

\* at: which statement runs or has run; todo: queue rows still to be locked;
\* early: queues that the first statement selects, and so locks;
\* found: queues that the claim statement has locked and re-checked; leased,
\* pending: what the claim statement's snapshot shows; recovered, claimed:
\* rows that the transaction has written.
Txn == [at        : {"idle", "recovered", "locking", "claiming", "picked"},
        todo      : SUBSET Queues,
        early     : SUBSET Queues,
        found     : SUBSET Queues,
        leased    : SUBSET Jobs,
        pending   : SUBSET Jobs,
        recovered : SUBSET Jobs,
        claimed   : SUBSET Jobs]

NoTxn == [at |-> "idle", todo |-> {}, early |-> {}, found |-> {}, leased |-> {},
          pending |-> {}, recovered |-> {}, claimed |-> {}]

-----------------------------------------------------------------------------
(* Helpers *)

JobsOf(q) == {j \in Jobs : QueueOf[j] = q}

LeasedIn(q) == {j \in JobsOf(q) : job[j] = "leased"}

\* Inserts of jobs of q whose transactions are still open.
Sharing(q) == {j \in JobsOf(q) : job[j] = "inserted"}

Unlocked(j) == jlock[j] = NoOne

\* The queues that a statement of w starting now selects.
Visible(w) == {q \in Serves[w] : queue[q].status = "active"}

\* GREATEST(concurrency_limit - leased_count, 0): the limit is read from the
\* locked row, the count from the statement's snapshot.
Slots(w, q) ==
    LET free == queue[q].limit - Cardinality(txn[w].leased \cap JobsOf(q))
    IN  IF free > 0 THEN free ELSE 0

Release(lock, w) == [x \in DOMAIN lock |-> IF lock[x] = w THEN NoOne ELSE lock[x]]

\* ORDER BY name: the row that a locking statement takes next.
Wanted(w) == Min(txn[w].todo)

-----------------------------------------------------------------------------
(* The claim transaction of worker w *)

\* RECOVER_EXPIRED_LEASES_SQL on expired leases whose jobs have attempts left;
\* a job without any leaves the queue's leases as in EndLease.
Recover(w) ==
    /\ txn[w].at = "idle"
    /\ \E R \in SUBSET {j \in Jobs : job[j] = "leased" /\ Unlocked(j)} :
        /\ Cardinality(R) <= BatchSize
        /\ txn' = [txn EXCEPT ![w].at = "recovered", ![w].recovered = R]
        /\ jlock' = [j \in Jobs |-> IF j \in R THEN w ELSE jlock[j]]
    /\ UNCHANGED <<queue, job, qlock>>

\* lock_claim_queues_statement starts.
LockQueues(w) ==
    /\ txn[w].at = "recovered"
    /\ txn' = [txn EXCEPT ![w].at = "locking", ![w].todo = Visible(w),
                          ![w].early = Visible(w)]
    /\ UNCHANGED <<queue, job, qlock, jlock>>

\* The claim statement does not re-check "paused" on the row it locked.
Mut_Found(w, q) == txn[w].found \cup {q}

\* A row that no longer matches stays locked but is not returned.
Found(w, q) == IF queue[q].status = "active" THEN txn[w].found \cup {q} ELSE txn[w].found

\* A queue row can be locked when nobody else holds or shares it.
Free(w, q) == qlock[q] \in {w, NoOne} /\ Sharing(q) = {}

\* The first statement is a plain SELECT, without FOR UPDATE.
Mut_AcquireLockOnce(w) ==
    /\ txn[w].at \in {"locking", "claiming"} /\ txn[w].todo # {}
    /\ LET q == Wanted(w) IN
        /\ txn[w].at = "locking" \/ Free(w, q)
        /\ qlock' = IF txn[w].at = "locking" THEN qlock ELSE [qlock EXCEPT ![q] = w]
        /\ txn' = [txn EXCEPT ![w].todo = @ \ {q}, ![w].found = Found(w, q)]
    /\ UNCHANGED <<queue, job, jlock>>

\* The statement has no ORDER BY.
Mut_AcquireLockAnyOrder(w) ==
    /\ txn[w].at \in {"locking", "claiming"}
    /\ \E q \in txn[w].todo :
        /\ Free(w, q)
        /\ qlock' = [qlock EXCEPT ![q] = w]
        /\ txn' = [txn EXCEPT ![w].todo = @ \ {q}, ![w].found = Found(w, q)]
    /\ UNCHANGED <<queue, job, jlock>>

AcquireLock(w) ==
    /\ txn[w].at \in {"locking", "claiming"} /\ txn[w].todo # {}
    /\ LET q == Wanted(w) IN
        /\ Free(w, q)
        /\ qlock' = [qlock EXCEPT ![q] = w]
        /\ txn' = [txn EXCEPT ![w].todo = @ \ {q}, ![w].found = Found(w, q)]
    /\ UNCHANGED <<queue, job, jlock>>

\* claim_jobs_statement starts: its snapshot fixes the queues it will lock,
\* the leased count and the pending candidates.
ClaimJobs(w) ==
    /\ txn[w].at = "locking" /\ txn[w].todo = {}
    /\ LET R == txn[w].recovered IN
        txn' = [txn EXCEPT
            ![w].at = "claiming", ![w].todo = Visible(w), ![w].found = {},
            ![w].leased = {j \in Jobs : job[j] = "leased"} \ R,
            ![w].pending = {j \in Jobs : job[j] = "pending"} \cup R]
    /\ UNCHANGED <<queue, job, qlock, jlock>>

\* FOR UPDATE OF j SKIP LOCKED, with the re-check that j is still pending.
Mut_Pickable(w, j) == QueueOf[j] \in txn[w].found /\ j \in txn[w].pending

Pickable(w, j) ==
    /\ QueueOf[j] \in txn[w].found /\ j \in txn[w].pending
    /\ jlock[j] \in {w, NoOne}
    /\ job[j] = "pending" \/ j \in txn[w].recovered

\* The queue rows are locked; jobs are picked and updated.  Which ones, and in
\* which order of priority, is left open; rows that the LATERAL subqueries lock
\* beyond the batch only keep other claims from picking them.
PickJobs(w) ==
    /\ txn[w].at = "claiming" /\ txn[w].todo = {}
    /\ \E C \in SUBSET {j \in Jobs : Pickable(w, j)} :
        /\ Cardinality(C) <= BatchSize
        /\ \A q \in Queues : Cardinality(C \cap JobsOf(q)) <= Slots(w, q)
        /\ txn' = [txn EXCEPT ![w].at = "picked", ![w].claimed = C]
        /\ jlock' = [j \in Jobs |-> IF j \in C THEN w ELSE jlock[j]]
    /\ UNCHANGED <<queue, job, qlock>>

Commit(w) ==
    /\ txn[w].at = "picked"
    /\ job' = [j \in Jobs |-> IF j \in txn[w].claimed THEN "leased"
                              ELSE IF j \in txn[w].recovered THEN "pending" ELSE job[j]]
    /\ qlock' = Release(qlock, w)
    /\ jlock' = Release(jlock, w)
    /\ txn' = [txn EXCEPT ![w] = NoTxn]
    /\ UNCHANGED queue

\* lock_timeout, a deadlock victim, a lost connection: everything is undone,
\* the recovery too.
Rollback(w) ==
    /\ txn[w].at # "idle"
    /\ qlock' = Release(qlock, w)
    /\ jlock' = Release(jlock, w)
    /\ txn' = [txn EXCEPT ![w] = NoTxn]
    /\ UNCHANGED <<queue, job>>

-----------------------------------------------------------------------------
(* Everybody else *)

\* A missing queue row may be created, unless another open transaction is
\* creating it (the unique index makes the second one wait).
MayCreate(q) == queue[q].status = "absent" => Sharing(q) = {}

\* insert_job in a caller's transaction: the foreign key needs the queue row,
\* which upsert_queue creates if it is missing.
InsertJob(j) ==
    /\ job[j] = "absent"
    /\ qlock[QueueOf[j]] = NoOne /\ MayCreate(QueueOf[j])
    /\ job' = [job EXCEPT ![j] = "inserted"]
    /\ UNCHANGED <<queue, qlock, jlock, txn>>

\* The caller commits; a queue row that it created becomes visible with it.
CommitInsert(j) ==
    /\ job[j] = "inserted"
    /\ job' = [job EXCEPT ![j] = "pending"]
    /\ queue' = [queue EXCEPT ![QueueOf[j]].status = IF @ = "absent" THEN "active" ELSE @]
    /\ UNCHANGED <<qlock, jlock, txn>>

\* The caller rolls back: the job and a queue it created were never there.
RollbackInsert(j) ==
    /\ job[j] = "inserted"
    /\ job' = [job EXCEPT ![j] = "absent"]
    /\ UNCHANGED <<queue, qlock, jlock, txn>>

\* A lease ends: a result is recorded, or the job goes back to pending.
EndLease(j) ==
    /\ job[j] = "leased" /\ Unlocked(j)
    /\ \E s \in {"pending", "done"} : job' = [job EXCEPT ![j] = s]
    /\ UNCHANGED <<queue, qlock, jlock, txn>>

\* An operator may set the limit to 0.
Mut_UpdateQueue(q) ==
    /\ qlock[q] = NoOne /\ MayCreate(q)
    /\ \E status \in {"paused", "active"}, limit \in Limits \cup {0} :
        queue' = [queue EXCEPT ![q] = [status |-> status, limit |-> limit]]
    /\ UNCHANGED <<job, qlock, jlock, txn>>

\* update_queue: the row is created if missing, and paused, concurrency_limit
\* or both are written; the UPDATE waits for FOR UPDATE holders but not for
\* open inserts, since it leaves the key alone.
UpdateQueue(q) ==
    /\ qlock[q] = NoOne /\ MayCreate(q)
    /\ \E status \in {"paused", "active"}, limit \in Limits :
        queue' = [queue EXCEPT ![q] = [status |-> status, limit |-> limit]]
    /\ UNCHANGED <<job, qlock, jlock, txn>>

-----------------------------------------------------------------------------
(* The specification *)

Init ==
    /\ \E limit \in [Queues -> Limits] :
        \E status \in [Queues -> {"absent", "paused", "active"}] :
            queue = [q \in Queues |-> [status |-> status[q], limit |-> limit[q]]]
    /\ job = [j \in Jobs |-> "absent"]
    /\ qlock = [q \in Queues |-> NoOne]
    /\ jlock = [j \in Jobs |-> NoOne]
    /\ txn = [w \in Workers |-> NoTxn]

Next ==
    \/ \E w \in Workers :
        \/ Recover(w) \/ LockQueues(w) \/ AcquireLock(w) \/ ClaimJobs(w)
        \/ PickJobs(w) \/ Commit(w) \/ Rollback(w)
    \/ \E j \in Jobs : InsertJob(j) \/ CommitInsert(j) \/ RollbackInsert(j) \/ EndLease(j)
    \/ \E q \in Queues : UpdateQueue(q)

Spec == Init /\ [][Next]_vars

-----------------------------------------------------------------------------
(* Properties *)

\* Every variable has its type; in particular a queue never has the limit 0,
\* with which it could not run anything (ck_pgrelay_queue_concurrency_limit).
TypeOK ==
    /\ queue \in [Queues -> QueueRow]
    /\ job \in [Jobs -> JobStatus]
    /\ qlock \in [Queues -> Workers \cup {NoOne}]
    /\ jlock \in [Jobs -> Workers \cup {NoOne}]
    /\ txn \in [Workers -> Txn]

\* w commits a claim that adds to the leases of q.
ClaimsInto(w, q) ==
    /\ txn[w].at = "picked" /\ txn'[w].at = "idle"
    /\ Cardinality(LeasedIn(q)') > Cardinality(LeasedIn(q))

\* concurrency_limit caps the leased jobs of a queue across workers: no claim
\* that commits leaves more leases than the limit allows.  (Lowering the
\* limit below the number of leases is not a claim.)
NoOversubscription ==
    [][\A w \in Workers, q \in Queues :
        ClaimsInto(w, q) => Cardinality(LeasedIn(q)') <= queue[q].limit]_vars

\* The same, as far as the code gets it: the limit is kept by every claim
\* whose first statement has locked the queue, since leases are then counted
\* by a snapshot taken under the lock; a queue that opens between the two
\* statements is not covered.
LimitKept ==
    [][\A w \in Workers, q \in Queues :
        ClaimsInto(w, q) /\ q \in txn[w].early =>
            Cardinality(LeasedIn(q)') <= queue[q].limit]_vars

\* A job is claimed by one transaction at a time, and is free to be claimed:
\* nobody else holds its row, and it is not out on a lease except for one
\* that the claiming transaction itself has recovered.
ClaimsDisjoint ==
    \A w \in Workers : \A j \in txn[w].claimed :
        /\ \A v \in Workers \ {w} : j \notin txn[v].claimed \cup txn[v].recovered
        /\ job[j] = "pending" \/ (job[j] = "leased" /\ j \in txn[w].recovered)

\* No job is leased out of a paused queue, however pause and claim interleave:
\* the queue was active when the claim committed.
PausedIsQuiet ==
    [][\A j \in Jobs :
        job[j] = "pending" /\ job'[j] = "leased" => queue[QueueOf[j]].status = "active"]_vars

\* w waits for v to release a queue row that its first statement has locked
\* or is about to lock.
WaitsFor(w, v) ==
    /\ txn[w].at \in {"locking", "claiming"} /\ txn[w].todo # {}
    /\ qlock[Wanted(w)] = v
    /\ Wanted(w) \in txn[w].early

\* Two claim transactions never wait for each other: ORDER BY name makes
\* every worker take its queue rows in the same order.  Again a queue that
\* opens between the two statements is not covered: it is locked last,
\* whatever its name.
NoWaitCycle ==
    \A w, v \in Workers : w # v => ~ (WaitsFor(w, v) /\ WaitsFor(v, w))

=============================================================================
