--------------------------- MODULE ClaimTxnProofs ---------------------------
(***************************************************************************)
(* Theorems about the claim transaction: claims are disjoint, the limit of *)
(* a queue that was locked in time is kept, nothing is claimed from a      *)
(* paused queue, and two claims never wait for each other.                 *)
(***************************************************************************)
EXTENDS ClaimTxn, FiniteSetTheorems, WellFoundedInduction, TLAPS

-----------------------------------------------------------------------------
(* Types *)

LEMMA TypesOfTxn ==
    ASSUME TypeOK, NEW w \in Workers
    PROVE  /\ txn[w] \in Txn /\ txn[w].todo \subseteq Queues /\ txn[w].early \subseteq Queues
           /\ txn[w].found \subseteq Queues /\ txn[w].leased \subseteq Jobs
           /\ txn[w].pending \subseteq Jobs /\ txn[w].recovered \subseteq Jobs
           /\ txn[w].claimed \subseteq Jobs
  <1>1. txn[w] \in Txn
    BY DEF TypeOK
  <1> QED
    BY <1>1 DEF Txn

\* ORDER BY name gives the smallest of the rows that are still to be locked.
LEMMA LeastWanted ==
    ASSUME TypeOK, NEW w \in Workers, txn[w].todo # {}
    PROVE  /\ Wanted(w) \in txn[w].todo /\ Wanted(w) \in Queues
           /\ \A q \in txn[w].todo : Wanted(w) <= q
  <1>1. txn[w].todo \subseteq Nat /\ txn[w].todo \subseteq Queues
    BY TypesOfTxn, QueuesAssumption
  <1>2. PICK x \in txn[w].todo : \A y \in txn[w].todo : ~ (<<y, x>> \in OpToRel(<, Nat))
    BY <1>1, NatLessThanWellFounded, WFMin
  <1>3. ASSUME NEW y \in txn[w].todo PROVE x <= y
    <2>1. x \in Nat /\ y \in Nat
      BY <1>1
    <2>2. ~ (y < x)
      BY <1>2, <2>1 DEF OpToRel
    <2> QED
      BY <2>1, <2>2
  <1> QED
    BY <1>1, <1>3 DEF Wanted, Min

LEMMA ReleaseType ==
    ASSUME NEW S, NEW lock \in [S -> Workers \cup {NoOne}], NEW w \in Workers
    PROVE  /\ Release(lock, w) \in [S -> Workers \cup {NoOne}]
           /\ \A x \in S : Release(lock, w)[x] = IF lock[x] = w THEN NoOne ELSE lock[x]
  BY DEF Release

\* The transaction of w becomes r.
LEMMA TxnBecomes ==
    ASSUME TypeOK, NEW w \in Workers, NEW r \in Txn, txn' = [txn EXCEPT ![w] = r]
    PROVE  /\ txn' \in [Workers -> Txn] /\ txn'[w] = r
           /\ \A v \in Workers \ {w} : txn'[v] = txn[v]
  BY DEF TypeOK

\* Only the transaction of w changes.
OnlyTxn(w) == txn' \in [Workers -> Txn] /\ \A v \in Workers \ {w} : txn'[v] = txn[v]

\* The fields that a step of w leaves alone.
SameSnapshot(w) == txn'[w].leased = txn[w].leased /\ txn'[w].pending = txn[w].pending

SameLocks(w) ==
    /\ txn'[w].todo = txn[w].todo /\ txn'[w].early = txn[w].early
    /\ txn'[w].found = txn[w].found

SameWrites(w) == txn'[w].recovered = txn[w].recovered /\ txn'[w].claimed = txn[w].claimed

(* What each statement of the transaction does, field by field. *)

LEMMA RecoverEffect ==
    ASSUME TypeOK, NEW w \in Workers, Recover(w)
    PROVE  \E R \in SUBSET {j \in Jobs : job[j] = "leased" /\ Unlocked(j)} :
            /\ OnlyTxn(w) /\ SameSnapshot(w) /\ SameLocks(w)
            /\ txn'[w].at = "recovered" /\ txn'[w].recovered = R
            /\ txn'[w].claimed = txn[w].claimed
            /\ jlock' = [j \in Jobs |-> IF j \in R THEN w ELSE jlock[j]]
            /\ UNCHANGED <<queue, job, qlock>>
  <1>0. txn[w] \in Txn /\ txn \in [Workers -> Txn]
    BY DEF TypeOK
  <1>1. PICK R \in SUBSET {j \in Jobs : job[j] = "leased" /\ Unlocked(j)} :
          /\ txn' = [txn EXCEPT ![w].at = "recovered", ![w].recovered = R]
          /\ jlock' = [j \in Jobs |-> IF j \in R THEN w ELSE jlock[j]]
    BY DEF Recover
  <1> DEFINE r == [txn[w] EXCEPT !.at = "recovered", !.recovered = R]
  <1>2. /\ r \in Txn /\ r.at = "recovered" /\ r.recovered = R /\ r.claimed = txn[w].claimed
        /\ r.leased = txn[w].leased /\ r.pending = txn[w].pending /\ r.todo = txn[w].todo
        /\ r.early = txn[w].early /\ r.found = txn[w].found
    BY <1>0 DEF Txn
  <1>3. txn' = [txn EXCEPT ![w] = r]
    BY <1>0, <1>1
  <1> HIDE DEF r
  <1>4. txn'[w] = r /\ OnlyTxn(w)
    BY <1>2, <1>3, TxnBecomes DEF OnlyTxn
  <1> QED
    BY <1>1, <1>2, <1>4 DEF Recover, SameSnapshot, SameLocks

LEMMA LockQueuesEffect ==
    ASSUME TypeOK, NEW w \in Workers, LockQueues(w)
    PROVE  /\ OnlyTxn(w) /\ SameSnapshot(w) /\ SameWrites(w)
           /\ txn[w].at = "recovered" /\ txn'[w].at = "locking"
           /\ txn'[w].todo = Visible(w) /\ txn'[w].early = Visible(w)
           /\ txn'[w].found = txn[w].found
           /\ UNCHANGED <<queue, job, qlock, jlock>>
  <1>0. txn[w] \in Txn /\ txn \in [Workers -> Txn] /\ Visible(w) \subseteq Queues
    BY ServesAssumption DEF TypeOK, Visible
  <1> DEFINE r == [txn[w] EXCEPT !.at = "locking", !.todo = Visible(w), !.early = Visible(w)]
  <1>2. /\ r \in Txn /\ r.at = "locking" /\ r.todo = Visible(w) /\ r.early = Visible(w)
        /\ r.leased = txn[w].leased /\ r.pending = txn[w].pending
        /\ r.recovered = txn[w].recovered /\ r.claimed = txn[w].claimed
        /\ r.found = txn[w].found
    BY <1>0 DEF Txn
  <1>3. txn' = [txn EXCEPT ![w] = r]
    BY <1>0 DEF LockQueues
  <1> HIDE DEF r
  <1>4. txn'[w] = r /\ OnlyTxn(w)
    BY <1>2, <1>3, TxnBecomes DEF OnlyTxn
  <1> QED
    BY <1>2, <1>4 DEF LockQueues, SameSnapshot, SameWrites

LEMMA AcquireLockEffect ==
    ASSUME TypeOK, NEW w \in Workers, AcquireLock(w)
    PROVE  \E q \in txn[w].todo :
            /\ q \in Queues /\ \A p \in txn[w].todo : q <= p
            /\ OnlyTxn(w) /\ SameSnapshot(w) /\ SameWrites(w)
            /\ txn[w].at \in {"locking", "claiming"} /\ txn'[w].at = txn[w].at
            /\ txn'[w].todo = txn[w].todo \ {q} /\ txn'[w].early = txn[w].early
            /\ txn'[w].found = Found(w, q)
            /\ qlock[q] \in {w, NoOne} /\ qlock' = [qlock EXCEPT ![q] = w]
            /\ UNCHANGED <<queue, job, jlock>>
  <1>0. txn[w] \in Txn /\ txn \in [Workers -> Txn] /\ txn[w].todo \subseteq Queues
    BY TypesOfTxn DEF TypeOK
  <1> DEFINE q == Wanted(w)
  <1>1. /\ q \in txn[w].todo /\ q \in Queues /\ \A p \in txn[w].todo : q <= p
        /\ Found(w, q) \subseteq Queues
    BY LeastWanted, TypesOfTxn DEF AcquireLock, Found
  <1> DEFINE r == [txn[w] EXCEPT !.todo = @ \ {q}, !.found = Found(w, q)]
  <1>2. /\ r \in Txn /\ r.at = txn[w].at /\ r.todo = txn[w].todo \ {q}
        /\ r.early = txn[w].early /\ r.found = Found(w, q)
        /\ r.leased = txn[w].leased /\ r.pending = txn[w].pending
        /\ r.recovered = txn[w].recovered /\ r.claimed = txn[w].claimed
    <2> HIDE DEF q
    <2> QED
      BY <1>0, <1>1 DEF Txn
  <1>3. txn' = [txn EXCEPT ![w] = r]
    BY <1>0 DEF AcquireLock
  <1> HIDE DEF r
  <1>4. txn'[w] = r /\ OnlyTxn(w)
    BY <1>2, <1>3, TxnBecomes DEF OnlyTxn
  <1> QED
    BY <1>1, <1>2, <1>4 DEF AcquireLock, Free, SameSnapshot, SameWrites

LEMMA ClaimJobsEffect ==
    ASSUME TypeOK, NEW w \in Workers, ClaimJobs(w)
    PROVE  /\ OnlyTxn(w) /\ SameWrites(w)
           /\ txn[w].at = "locking" /\ txn[w].todo = {} /\ txn'[w].at = "claiming"
           /\ txn'[w].todo = Visible(w) /\ txn'[w].early = txn[w].early
           /\ txn'[w].found = {}
           /\ txn'[w].leased = {j \in Jobs : job[j] = "leased"} \ txn[w].recovered
           /\ UNCHANGED <<queue, job, qlock, jlock>>
  <1>0. /\ txn[w] \in Txn /\ txn \in [Workers -> Txn] /\ Visible(w) \subseteq Queues
        /\ txn[w].recovered \subseteq Jobs
    BY ServesAssumption, TypesOfTxn DEF TypeOK, Visible
  <1> DEFINE L == {j \in Jobs : job[j] = "leased"} \ txn[w].recovered
             P == {j \in Jobs : job[j] = "pending"} \cup txn[w].recovered
             r == [txn[w] EXCEPT !.at = "claiming", !.todo = Visible(w), !.found = {},
                                 !.leased = L, !.pending = P]
  <1>1. L \subseteq Jobs /\ P \subseteq Jobs
    BY <1>0
  <1>2. txn' = [txn EXCEPT ![w] = r]
    BY <1>0 DEF ClaimJobs
  <1>3. /\ r \in Txn /\ r.at = "claiming" /\ r.todo = Visible(w) /\ r.early = txn[w].early
        /\ r.found = {} /\ r.leased = L /\ r.recovered = txn[w].recovered
        /\ r.claimed = txn[w].claimed
    <2> HIDE DEF L, P
    <2> QED
      BY <1>0, <1>1 DEF Txn
  <1> HIDE DEF r
  <1>4. txn'[w] = r /\ OnlyTxn(w)
    BY <1>2, <1>3, TxnBecomes DEF OnlyTxn
  <1> QED
    BY <1>3, <1>4 DEF ClaimJobs, SameWrites

LEMMA PickJobsEffect ==
    ASSUME TypeOK, NEW w \in Workers, PickJobs(w)
    PROVE  \E C \in SUBSET {j \in Jobs : Pickable(w, j)} :
            /\ \A q \in Queues : Cardinality(C \cap JobsOf(q)) <= Slots(w, q)
            /\ OnlyTxn(w) /\ SameSnapshot(w) /\ SameLocks(w)
            /\ txn[w].at = "claiming" /\ txn'[w].at = "picked"
            /\ txn'[w].recovered = txn[w].recovered /\ txn'[w].claimed = C
            /\ jlock' = [j \in Jobs |-> IF j \in C THEN w ELSE jlock[j]]
            /\ UNCHANGED <<queue, job, qlock>>
  <1>0. txn[w] \in Txn /\ txn \in [Workers -> Txn]
    BY DEF TypeOK
  <1>1. PICK C \in SUBSET {j \in Jobs : Pickable(w, j)} :
          /\ \A q \in Queues : Cardinality(C \cap JobsOf(q)) <= Slots(w, q)
          /\ txn' = [txn EXCEPT ![w].at = "picked", ![w].claimed = C]
          /\ jlock' = [j \in Jobs |-> IF j \in C THEN w ELSE jlock[j]]
    BY DEF PickJobs
  <1> DEFINE r == [txn[w] EXCEPT !.at = "picked", !.claimed = C]
  <1>2. /\ r \in Txn /\ r.at = "picked" /\ r.recovered = txn[w].recovered /\ r.claimed = C
        /\ r.leased = txn[w].leased /\ r.pending = txn[w].pending /\ r.todo = txn[w].todo
        /\ r.early = txn[w].early /\ r.found = txn[w].found
    BY <1>0 DEF Txn
  <1>3. txn' = [txn EXCEPT ![w] = r]
    BY <1>0, <1>1
  <1> HIDE DEF r
  <1>4. txn'[w] = r /\ OnlyTxn(w)
    BY <1>2, <1>3, TxnBecomes DEF OnlyTxn
  <1> QED
    BY <1>1, <1>2, <1>4 DEF PickJobs, SameSnapshot, SameLocks

\* Commit and rollback release every lock of w and nobody else's.
LEMMA EndEffect ==
    ASSUME TypeOK, NEW w \in Workers, Commit(w) \/ Rollback(w)
    PROVE  /\ OnlyTxn(w) /\ txn'[w] = NoTxn /\ queue' = queue
           /\ qlock' \in [Queues -> Workers \cup {NoOne}]
           /\ jlock' \in [Jobs -> Workers \cup {NoOne}]
           /\ \A q \in Queues : qlock'[q] = IF qlock[q] = w THEN NoOne ELSE qlock[q]
           /\ \A j \in Jobs : jlock'[j] = IF jlock[j] = w THEN NoOne ELSE jlock[j]
  <1>1. /\ qlock' = Release(qlock, w) /\ jlock' = Release(jlock, w) /\ queue' = queue
        /\ txn' = [txn EXCEPT ![w] = NoTxn]
    BY DEF Commit, Rollback
  <1>2. NoTxn \in Txn
    BY DEF NoTxn, Txn
  <1>3. OnlyTxn(w) /\ txn'[w] = NoTxn
    BY <1>1, <1>2, TxnBecomes DEF OnlyTxn
  <1>4. qlock \in [Queues -> Workers \cup {NoOne}] /\ jlock \in [Jobs -> Workers \cup {NoOne}]
    BY DEF TypeOK
  <1> QED
    BY <1>1, <1>3, <1>4, ReleaseType

LEMMA NextType ==
    ASSUME TypeOK, [Next]_vars
    PROVE  TypeOK'
  <1>0. /\ queue \in [Queues -> QueueRow] /\ job \in [Jobs -> JobStatus]
        /\ qlock \in [Queues -> Workers \cup {NoOne}]
        /\ jlock \in [Jobs -> Workers \cup {NoOne}] /\ txn \in [Workers -> Txn]
    BY DEF TypeOK
  <1>1. ASSUME NEW w \in Workers, Recover(w) PROVE TypeOK'
    BY <1>0, <1>1, RecoverEffect DEF OnlyTxn, TypeOK
  <1>2. ASSUME NEW w \in Workers, LockQueues(w) PROVE TypeOK'
    BY <1>0, <1>2, LockQueuesEffect DEF OnlyTxn, TypeOK
  <1>3. ASSUME NEW w \in Workers, AcquireLock(w) PROVE TypeOK'
    BY <1>0, <1>3, AcquireLockEffect DEF OnlyTxn, TypeOK
  <1>4. ASSUME NEW w \in Workers, ClaimJobs(w) PROVE TypeOK'
    BY <1>0, <1>4, ClaimJobsEffect DEF OnlyTxn, TypeOK
  <1>5. ASSUME NEW w \in Workers, PickJobs(w) PROVE TypeOK'
    BY <1>0, <1>5, PickJobsEffect DEF OnlyTxn, TypeOK
  <1>6. ASSUME NEW w \in Workers, Commit(w) \/ Rollback(w) PROVE TypeOK'
    <2>1. job' \in [Jobs -> JobStatus]
      BY <1>0, <1>6 DEF Commit, Rollback, JobStatus
    <2> QED
      BY <1>0, <1>6, <2>1, EndEffect DEF OnlyTxn, TypeOK
  <1>7. ASSUME NEW j \in Jobs, InsertJob(j) \/ RollbackInsert(j) \/ EndLease(j) PROVE TypeOK'
    BY <1>0, <1>7 DEF InsertJob, RollbackInsert, EndLease, TypeOK, JobStatus
  <1>8. ASSUME NEW j \in Jobs, CommitInsert(j) PROVE TypeOK'
    <2>1. QueueOf[j] \in Queues
      BY JobsAssumption
    <2>2. queue' \in [Queues -> QueueRow]
      BY <1>0, <1>8, <2>1 DEF CommitInsert, QueueRow
    <2> QED
      BY <1>0, <1>8, <2>2 DEF CommitInsert, TypeOK, JobStatus
  <1>9. ASSUME NEW q \in Queues, UpdateQueue(q) PROVE TypeOK'
    BY <1>0, <1>9 DEF UpdateQueue, TypeOK, QueueRow
  <1>10. CASE UNCHANGED vars
    BY <1>0, <1>10 DEF vars, TypeOK
  <1> QED
    BY <1>1, <1>2, <1>3, <1>4, <1>5, <1>6, <1>7, <1>8, <1>9, <1>10 DEF Next

LEMMA InitType == Init => TypeOK
  <1> SUFFICES ASSUME Init PROVE TypeOK
    OBVIOUS
  <1>1. queue \in [Queues -> QueueRow]
    BY DEF Init, QueueRow
  <1>2. NoTxn \in Txn
    BY DEF NoTxn, Txn
  <1> QED
    BY <1>1, <1>2 DEF Init, TypeOK, JobStatus

\* Every variable keeps its type; no queue ever has the limit 0.
THEOREM ClaimTypeCorrect == Spec => []TypeOK
  BY InitType, NextType, PTL DEF Spec

-----------------------------------------------------------------------------
(* What a transaction may rely on while it runs.  None of the properties   *)
(* is inductive: each holds because of what the locks keep from changing   *)
(* between the statement that reads and the commit that acts.              *)

\* The rows that w has written are locked by w and are as w has found them.
JobsHeld(w) ==
    /\ \A j \in txn[w].recovered : jlock[j] = w /\ job[j] = "leased"
    /\ \A j \in txn[w].claimed : /\ jlock[j] = w /\ QueueOf[j] \in txn[w].found
                                 /\ job[j] = "pending" \/ j \in txn[w].recovered
    /\ txn[w].at # "picked" => txn[w].claimed = {}

\* The queue rows that w has locked: in the order of their names by the first
\* statement, all of its rows by the second one.
QueuesHeld(w) ==
    /\ txn[w].at \in {"idle", "recovered"} => \A q \in Queues : qlock[q] # w
    /\ txn[w].at = "locking" =>
        /\ txn[w].todo \subseteq txn[w].early
        /\ \A q \in txn[w].early \ txn[w].todo : qlock[q] = w
        /\ \A q \in Queues : qlock[q] = w => \A p \in txn[w].todo : q < p
    /\ txn[w].at \in {"claiming", "picked"} => \A q \in txn[w].early : qlock[q] = w
    /\ \A q \in txn[w].found : qlock[q] = w /\ queue[q].status = "active"

\* In a queue that was locked in time the snapshot still covers every lease
\* that will remain, and the claim fits.
SnapshotHolds(w) ==
    /\ txn[w].at \in {"claiming", "picked"} =>
        \A q \in txn[w].early : LeasedIn(q) \ txn[w].recovered \subseteq txn[w].leased
    /\ txn[w].at = "picked" =>
        \A q \in txn[w].early : Cardinality(txn[w].claimed \cap JobsOf(q)) <= Slots(w, q)

Sound(w) == JobsHeld(w) /\ QueuesHeld(w) /\ SnapshotHolds(w)

ClaimInv == TypeOK /\ \A w \in Workers : Sound(w)

\* A transaction is not disturbed by a step that leaves alone what it has
\* locked and adds no lease to a queue that it has locked.
LEMMA Undisturbed ==
    ASSUME ClaimInv, NEW v \in Workers, txn'[v] = txn[v],
           \A j \in txn[v].recovered \cup txn[v].claimed :
               jlock'[j] = jlock[j] /\ job'[j] = job[j],
           \A q \in Queues : qlock'[q] = v <=> qlock[q] = v,
           \A q \in Queues : qlock[q] = v =>
               /\ queue'[q].limit = queue[q].limit
               /\ queue[q].status = "active" => queue'[q].status = "active"
               /\ LeasedIn(q)' \subseteq LeasedIn(q)
    PROVE  Sound(v)'
  <1>0. /\ JobsHeld(v) /\ QueuesHeld(v) /\ SnapshotHolds(v)
        /\ txn[v].early \subseteq Queues /\ txn[v].found \subseteq Queues
        /\ txn[v].todo \subseteq Queues
    BY TypesOfTxn DEF ClaimInv, Sound
  <1>1. JobsHeld(v)'
    BY <1>0 DEF JobsHeld
  <1>2. QueuesHeld(v)'
    BY <1>0 DEF QueuesHeld
  <1>3. SnapshotHolds(v)'
    <2>1. ASSUME NEW q \in txn[v].early, txn[v].at \in {"claiming", "picked"}
          PROVE  /\ LeasedIn(q)' \ txn[v].recovered \subseteq txn[v].leased
                 /\ Slots(v, q)' = Slots(v, q)
      <3>1. qlock[q] = v /\ q \in Queues
        BY <1>0, <2>1 DEF QueuesHeld
      <3>2. LeasedIn(q)' \subseteq LeasedIn(q) /\ queue'[q].limit = queue[q].limit
        BY <3>1
      <3>3. LeasedIn(q) \ txn[v].recovered \subseteq txn[v].leased
        BY <1>0, <2>1 DEF SnapshotHolds
      <3>4. LeasedIn(q)' \ txn[v].recovered \subseteq txn[v].leased
        BY <3>2, <3>3
      <3>5. Slots(v, q)' = Slots(v, q)
        BY <3>2 DEF Slots, JobsOf
      <3> QED
        BY <3>4, <3>5
    <2>2. \A q : JobsOf(q)' = JobsOf(q)
      BY DEF JobsOf
    <2> QED
      BY <1>0, <2>1, <2>2 DEF SnapshotHolds
  <1> QED
    BY <1>1, <1>2, <1>3 DEF Sound

\* The others, in a step of w that changes neither tables nor their locks.
LEMMA OthersUndisturbed ==
    ASSUME ClaimInv, NEW w \in Workers, OnlyTxn(w), UNCHANGED <<queue, job>>,
           \A j \in Jobs : jlock[j] \in Workers \ {w} => jlock'[j] = jlock[j],
           \A q \in Queues : qlock'[q] # qlock[q] =>
               qlock[q] \in {w, NoOne} /\ qlock'[q] \in {w, NoOne},
           NEW v \in Workers \ {w}
    PROVE  Sound(v)'
  <1>1. txn'[v] = txn[v] /\ v # NoOne
    BY NoOneAssumption DEF OnlyTxn
  <1>2. \A j \in txn[v].recovered \cup txn[v].claimed : jlock'[j] = jlock[j] /\ job'[j] = job[j]
    BY TypesOfTxn DEF ClaimInv, Sound, JobsHeld
  <1>3. \A q \in Queues : qlock'[q] = v <=> qlock[q] = v
    BY <1>1
  <1>4. \A q \in Queues : LeasedIn(q)' = LeasedIn(q)
    BY DEF LeasedIn, JobsOf
  <1> QED
    BY <1>1, <1>2, <1>3, <1>4, Undisturbed

LEMMA RecoverSound ==
    ASSUME ClaimInv, NEW w \in Workers, Recover(w)
    PROVE  \A v \in Workers : Sound(v)'
  <1>1. PICK R \in SUBSET {j \in Jobs : job[j] = "leased" /\ Unlocked(j)} :
          /\ OnlyTxn(w) /\ SameSnapshot(w) /\ SameLocks(w)
          /\ txn'[w].at = "recovered" /\ txn'[w].recovered = R
          /\ txn'[w].claimed = txn[w].claimed
          /\ jlock' = [j \in Jobs |-> IF j \in R THEN w ELSE jlock[j]]
          /\ UNCHANGED <<queue, job, qlock>>
    BY RecoverEffect DEF ClaimInv
  <1>2. Sound(w) /\ txn[w].at = "idle"
    BY DEF ClaimInv, Recover
  <1>3. JobsHeld(w)'
    BY <1>1, <1>2 DEF JobsHeld, Sound
  <1>4. QueuesHeld(w)'
    BY <1>1, <1>2 DEF QueuesHeld, Sound, SameLocks
  <1>5. SnapshotHolds(w)'
    BY <1>1 DEF SnapshotHolds
  <1>6. \A j \in Jobs : jlock[j] \in Workers \ {w} => jlock'[j] = jlock[j]
    BY <1>1, NoOneAssumption DEF Unlocked
  <1>7. \A v \in Workers \ {w} : Sound(v)'
    BY <1>1, <1>6, OthersUndisturbed
  <1> QED
    BY <1>3, <1>4, <1>5, <1>7 DEF Sound

LEMMA LockQueuesSound ==
    ASSUME ClaimInv, NEW w \in Workers, LockQueues(w)
    PROVE  \A v \in Workers : Sound(v)'
  <1>1. /\ OnlyTxn(w) /\ SameSnapshot(w) /\ SameWrites(w)
        /\ txn[w].at = "recovered" /\ txn'[w].at = "locking"
        /\ txn'[w].todo = Visible(w) /\ txn'[w].early = Visible(w)
        /\ txn'[w].found = txn[w].found
        /\ UNCHANGED <<queue, job, qlock, jlock>>
    BY LockQueuesEffect DEF ClaimInv
  <1>2. Sound(w)
    BY DEF ClaimInv
  <1>3. JobsHeld(w)'
    BY <1>1, <1>2 DEF JobsHeld, Sound, SameWrites
  <1>4. QueuesHeld(w)'
    BY <1>1, <1>2 DEF QueuesHeld, Sound
  <1>5. SnapshotHolds(w)'
    BY <1>1 DEF SnapshotHolds
  <1>6. \A v \in Workers \ {w} : Sound(v)'
    BY <1>1, OthersUndisturbed
  <1> QED
    BY <1>3, <1>4, <1>5, <1>6 DEF Sound

LEMMA AcquireLockSound ==
    ASSUME ClaimInv, NEW w \in Workers, AcquireLock(w)
    PROVE  \A v \in Workers : Sound(v)'
  <1>0. /\ TypeOK /\ qlock \in [Queues -> Workers \cup {NoOne}] /\ Sound(w)
        /\ txn[w].todo \subseteq Queues /\ txn[w].early \subseteq Queues
        /\ txn[w].found \subseteq Queues /\ txn[w].todo \subseteq Nat
    BY TypesOfTxn, QueuesAssumption DEF ClaimInv, TypeOK
  <1>1. PICK q \in txn[w].todo :
          /\ q \in Queues /\ \A p \in txn[w].todo : q <= p
          /\ OnlyTxn(w) /\ SameSnapshot(w) /\ SameWrites(w)
          /\ txn[w].at \in {"locking", "claiming"} /\ txn'[w].at = txn[w].at
          /\ txn'[w].todo = txn[w].todo \ {q} /\ txn'[w].early = txn[w].early
          /\ txn'[w].found = Found(w, q)
          /\ qlock[q] \in {w, NoOne} /\ qlock' = [qlock EXCEPT ![q] = w]
          /\ UNCHANGED <<queue, job, jlock>>
    BY <1>0, AcquireLockEffect
  <1>2. qlock'[q] = w /\ \A p \in Queues \ {q} : qlock'[p] = qlock[p]
    BY <1>0, <1>1
  <1>3. JobsHeld(w)'
    BY <1>0, <1>1 DEF JobsHeld, Sound, SameWrites, Found
  <1>4. QueuesHeld(w)'
    <2>1. \A p \in txn'[w].found : qlock'[p] = w /\ queue'[p].status = "active"
      BY <1>0, <1>1, <1>2 DEF QueuesHeld, Sound, Found
    <2>2. CASE txn[w].at = "locking"
      <3>1. \A p \in txn'[w].todo : q < p
        BY <1>0, <1>1
      <3>2. \A r \in Queues : qlock'[r] = w => \A p \in txn'[w].todo : r < p
        BY <1>0, <1>1, <1>2, <2>2, <3>1 DEF QueuesHeld, Sound
      <3>3. \A p \in txn'[w].early \ txn'[w].todo : qlock'[p] = w
        BY <1>0, <1>1, <1>2, <2>2 DEF QueuesHeld, Sound
      <3>4. txn'[w].todo \subseteq txn'[w].early
        BY <1>0, <1>1, <2>2 DEF QueuesHeld, Sound
      <3> QED
        BY <1>1, <2>1, <2>2, <3>2, <3>3, <3>4 DEF QueuesHeld
    <2>3. CASE txn[w].at = "claiming"
      <3>1. \A p \in txn'[w].early : qlock'[p] = w
        BY <1>0, <1>1, <1>2, <2>3 DEF QueuesHeld, Sound
      <3> QED
        BY <1>1, <2>1, <2>3, <3>1 DEF QueuesHeld
    <2> QED
      BY <1>1, <2>2, <2>3
  <1>5. SnapshotHolds(w)'
    BY <1>0, <1>1 DEF SnapshotHolds, Sound, SameSnapshot, SameWrites, LeasedIn, JobsOf
  <1>6. \A v \in Workers \ {w} : Sound(v)'
    BY <1>1, <1>2, OthersUndisturbed
  <1> QED
    BY <1>3, <1>4, <1>5, <1>6 DEF Sound

LEMMA ClaimJobsSound ==
    ASSUME ClaimInv, NEW w \in Workers, ClaimJobs(w)
    PROVE  \A v \in Workers : Sound(v)'
  <1>1. /\ OnlyTxn(w) /\ SameWrites(w)
        /\ txn[w].at = "locking" /\ txn[w].todo = {} /\ txn'[w].at = "claiming"
        /\ txn'[w].early = txn[w].early /\ txn'[w].found = {}
        /\ txn'[w].leased = {j \in Jobs : job[j] = "leased"} \ txn[w].recovered
        /\ UNCHANGED <<queue, job, qlock, jlock>>
    BY ClaimJobsEffect DEF ClaimInv
  <1>2. Sound(w)
    BY DEF ClaimInv
  <1>3. JobsHeld(w)'
    BY <1>1, <1>2 DEF JobsHeld, Sound, SameWrites
  <1>4. QueuesHeld(w)'
    BY <1>1, <1>2 DEF QueuesHeld, Sound
  <1>5. SnapshotHolds(w)'
    BY <1>1 DEF SnapshotHolds, SameWrites, LeasedIn, JobsOf
  <1>6. \A v \in Workers \ {w} : Sound(v)'
    BY <1>1, OthersUndisturbed
  <1> QED
    BY <1>3, <1>4, <1>5, <1>6 DEF Sound

LEMMA PickJobsSound ==
    ASSUME ClaimInv, NEW w \in Workers, PickJobs(w)
    PROVE  \A v \in Workers : Sound(v)'
  <1>0. TypeOK /\ Sound(w) /\ txn[w].early \subseteq Queues
    BY TypesOfTxn DEF ClaimInv
  <1>1. PICK C \in SUBSET {j \in Jobs : Pickable(w, j)} :
          /\ \A q \in Queues : Cardinality(C \cap JobsOf(q)) <= Slots(w, q)
          /\ OnlyTxn(w) /\ SameSnapshot(w) /\ SameLocks(w)
          /\ txn[w].at = "claiming" /\ txn'[w].at = "picked"
          /\ txn'[w].recovered = txn[w].recovered /\ txn'[w].claimed = C
          /\ jlock' = [j \in Jobs |-> IF j \in C THEN w ELSE jlock[j]]
          /\ UNCHANGED <<queue, job, qlock>>
    BY <1>0, PickJobsEffect
  <1>2. txn[w].recovered \subseteq Jobs
    BY <1>0, TypesOfTxn
  <1>3. JobsHeld(w)'
    BY <1>0, <1>1, <1>2 DEF JobsHeld, Sound, SameLocks, Pickable
  <1>4. QueuesHeld(w)'
    BY <1>0, <1>1 DEF QueuesHeld, Sound, SameLocks
  <1>5. SnapshotHolds(w)'
    <2>1. \A q : Slots(w, q)' = Slots(w, q) /\ JobsOf(q)' = JobsOf(q) /\ LeasedIn(q)' = LeasedIn(q)
      BY <1>1 DEF Slots, JobsOf, LeasedIn, SameSnapshot
    <2> QED
      BY <1>0, <1>1, <2>1 DEF SnapshotHolds, Sound, SameSnapshot, SameLocks
  <1>6. \A j \in Jobs : jlock[j] \in Workers \ {w} => jlock'[j] = jlock[j]
    BY <1>1, NoOneAssumption DEF Pickable
  <1>7. \A v \in Workers \ {w} : Sound(v)'
    BY <1>1, <1>6, OthersUndisturbed
  <1> QED
    BY <1>3, <1>4, <1>5, <1>7 DEF Sound

LEMMA EndSound ==
    ASSUME ClaimInv, NEW w \in Workers, Commit(w) \/ Rollback(w)
    PROVE  \A v \in Workers : Sound(v)'
  <1>0. /\ TypeOK /\ Sound(w) /\ w # NoOne /\ txn[w].claimed \subseteq Jobs
        /\ txn[w].recovered \subseteq Jobs /\ txn[w].found \subseteq Queues
    BY TypesOfTxn, NoOneAssumption DEF ClaimInv
  <1>1. /\ OnlyTxn(w) /\ txn'[w] = NoTxn /\ queue' = queue
        /\ \A q \in Queues : qlock'[q] = IF qlock[q] = w THEN NoOne ELSE qlock[q]
        /\ \A j \in Jobs : jlock'[j] = IF jlock[j] = w THEN NoOne ELSE jlock[j]
    BY <1>0, EndEffect
  <1>2. Sound(w)'
    BY <1>0, <1>1 DEF Sound, JobsHeld, QueuesHeld, SnapshotHolds, NoTxn
  <1>3. \A j \in Jobs : j \notin txn[w].claimed \cup txn[w].recovered => job'[j] = job[j]
    BY DEF Commit, Rollback
  <1>4. \A j \in Jobs : job'[j] = "leased" => job[j] = "leased" \/ j \in txn[w].claimed
    BY DEF Commit, Rollback
  <1>5. ASSUME NEW v \in Workers \ {w} PROVE Sound(v)'
    <2>0. txn'[v] = txn[v] /\ v # NoOne /\ Sound(v)
      BY <1>1, NoOneAssumption DEF OnlyTxn, ClaimInv
    <2>1. ASSUME NEW j \in txn[v].recovered \cup txn[v].claimed
          PROVE  jlock'[j] = jlock[j] /\ job'[j] = job[j]
      <3>1. j \in Jobs /\ jlock[j] = v
        BY <1>0, <2>0, TypesOfTxn DEF Sound, JobsHeld
      <3>2. j \notin txn[w].claimed \cup txn[w].recovered
        BY <1>0, <3>1 DEF Sound, JobsHeld
      <3> QED
        BY <1>1, <1>3, <3>1, <3>2
    <2>2. \A q \in Queues : qlock'[q] = v <=> qlock[q] = v
      BY <1>1, <2>0
    <2>3. ASSUME NEW q \in Queues, qlock[q] = v PROVE LeasedIn(q)' \subseteq LeasedIn(q)
      <3>1. \A j \in txn[w].claimed : QueueOf[j] # q
        BY <1>0, <2>3 DEF Sound, JobsHeld, QueuesHeld
      <3> QED
        BY <1>4, <3>1 DEF LeasedIn, JobsOf
    <2> QED
      BY <1>1, <2>0, <2>1, <2>2, <2>3, Undisturbed
  <1> QED
    BY <1>2, <1>5

\* Applications, workers that end leases, and operators.
LEMMA OtherSound ==
    ASSUME ClaimInv, NEW v \in Workers,
           \/ \E j \in Jobs : InsertJob(j) \/ CommitInsert(j) \/ RollbackInsert(j) \/ EndLease(j)
           \/ \E q \in Queues : UpdateQueue(q)
           \/ UNCHANGED vars
    PROVE  Sound(v)'
  <1>0. /\ TypeOK /\ Sound(v) /\ v # NoOne /\ job \in [Jobs -> JobStatus]
        /\ queue \in [Queues -> QueueRow]
        /\ txn[v].claimed \subseteq Jobs /\ txn[v].recovered \subseteq Jobs
    BY TypesOfTxn, NoOneAssumption DEF ClaimInv, TypeOK
  <1>1. \A j \in txn[v].recovered \cup txn[v].claimed :
            job[j] \in {"pending", "leased"} /\ jlock[j] = v /\ j \in Jobs
    BY <1>0 DEF Sound, JobsHeld
  <1>2. ASSUME NEW i \in Jobs, InsertJob(i) \/ RollbackInsert(i) \/ EndLease(i) PROVE Sound(v)'
    <2>1. /\ UNCHANGED <<queue, qlock, jlock, txn>> /\ \A j \in Jobs \ {i} : job'[j] = job[j]
          /\ job'[i] # "leased"
          /\ job[i] \notin {"pending", "leased"} \/ jlock[i] = NoOne
      BY <1>0, <1>2 DEF InsertJob, RollbackInsert, EndLease, Unlocked
    <2>2. \A j \in txn[v].recovered \cup txn[v].claimed : job'[j] = job[j]
      BY <1>0, <1>1, <2>1
    <2>3. \A q \in Queues : LeasedIn(q)' \subseteq LeasedIn(q)
      BY <2>1 DEF LeasedIn, JobsOf
    <2> QED
      BY <2>1, <2>2, <2>3, Undisturbed
  <1>3. ASSUME NEW i \in Jobs, CommitInsert(i) PROVE Sound(v)'
    <2>1. /\ UNCHANGED <<qlock, jlock, txn>> /\ \A j \in Jobs \ {i} : job'[j] = job[j]
          /\ job'[i] = "pending" /\ job[i] = "inserted"
      BY <1>0, <1>3 DEF CommitInsert
    <2>2. \A j \in txn[v].recovered \cup txn[v].claimed : job'[j] = job[j]
      BY <1>0, <1>1, <2>1
    <2>3. \A q \in Queues : LeasedIn(q)' \subseteq LeasedIn(q)
      BY <2>1 DEF LeasedIn, JobsOf
    <2>4. ASSUME NEW q \in Queues
          PROVE  /\ queue'[q].limit = queue[q].limit
                 /\ queue[q].status = "active" => queue'[q].status = "active"
      <3>1. queue[q] \in QueueRow /\ QueueOf[i] \in Queues
        BY <1>0, JobsAssumption
      <3> QED
        BY <1>0, <1>3, <3>1 DEF CommitInsert, QueueRow
    <2> QED
      BY <2>1, <2>2, <2>3, <2>4, Undisturbed
  <1>4. ASSUME NEW p \in Queues, UpdateQueue(p) PROVE Sound(v)'
    <2>1. /\ UNCHANGED <<job, qlock, jlock, txn>> /\ qlock[p] = NoOne
          /\ \A q \in Queues \ {p} : queue'[q] = queue[q]
      BY <1>0, <1>4 DEF UpdateQueue
    <2>2. \A q \in Queues : LeasedIn(q)' = LeasedIn(q)
      BY <2>1 DEF LeasedIn, JobsOf
    <2> QED
      BY <1>0, <2>1, <2>2, Undisturbed
  <1>5. CASE UNCHANGED vars
    <2>1. \A q \in Queues : LeasedIn(q)' = LeasedIn(q)
      BY <1>5 DEF vars, LeasedIn, JobsOf
    <2> QED
      BY <1>5, <2>1, Undisturbed DEF vars
  <1> QED
    BY <1>2, <1>3, <1>4, <1>5

LEMMA ClaimInvariant == Spec => []ClaimInv
  <1>1. Init => ClaimInv
    <2> SUFFICES ASSUME Init, NEW w \in Workers PROVE Sound(w)
      BY InitType DEF ClaimInv
    <2> QED
      BY NoOneAssumption DEF Init, NoTxn, Sound, JobsHeld, QueuesHeld, SnapshotHolds
  <1>2. ASSUME ClaimInv, [Next]_vars PROVE ClaimInv'
    <2>1. \A v \in Workers : Sound(v)'
      <3>1. ASSUME NEW w \in Workers,
                   \/ Recover(w) \/ LockQueues(w) \/ AcquireLock(w) \/ ClaimJobs(w)
                   \/ PickJobs(w) \/ Commit(w) \/ Rollback(w)
            PROVE  \A v \in Workers : Sound(v)'
        BY <1>2, <3>1, RecoverSound, LockQueuesSound, AcquireLockSound, ClaimJobsSound,
           PickJobsSound, EndSound
      <3> QED
        BY <1>2, <3>1, OtherSound DEF Next
    <2> QED
      BY <1>2, <2>1, NextType DEF ClaimInv
  <1> QED
    BY <1>1, <1>2, PTL DEF Spec

-----------------------------------------------------------------------------
(* The properties *)

\* SKIP LOCKED and the re-check under the lock keep two workers from claiming
\* one job, also when one of them has just recovered it.
THEOREM ClaimedOnce == Spec => []ClaimsDisjoint
  <1>1. ClaimInv => ClaimsDisjoint
    BY DEF ClaimInv, Sound, JobsHeld, ClaimsDisjoint
  <1> QED
    BY <1>1, ClaimInvariant, PTL

\* Whoever waits for a queue row wants a row with a smaller name than the one
\* that its holder waits for, so waiting has no cycle of any length.
WaitsAscend ==
    \A w, v, u \in Workers :
        w # v /\ v # u /\ WaitsFor(w, v) /\ WaitsFor(v, u) => Wanted(w) < Wanted(v)

LEMMA Waiting ==
    ASSUME ClaimInv, NEW w \in Workers, NEW v \in Workers, w # v, WaitsFor(w, v)
    PROVE  /\ txn[w].at = "locking" /\ Wanted(w) \in txn[w].todo /\ Wanted(w) \in Nat
           /\ Wanted(w) \in Queues /\ qlock[Wanted(w)] = v
  <1>1. /\ TypeOK /\ QueuesHeld(w) /\ txn[w].todo # {} /\ qlock[Wanted(w)] = v
        /\ txn[w].at \in {"locking", "claiming"} /\ Wanted(w) \in txn[w].early
    BY DEF WaitsFor, ClaimInv, Sound
  <1>2. Wanted(w) \in txn[w].todo /\ Wanted(w) \in Queues /\ Wanted(w) \in Nat
    BY <1>1, LeastWanted, QueuesAssumption
  <1>3. txn[w].at # "claiming"
    BY <1>1 DEF QueuesHeld
  <1> QED
    BY <1>1, <1>2, <1>3

LEMMA Ascending == ClaimInv => WaitsAscend
  <1> SUFFICES ASSUME ClaimInv, NEW w \in Workers, NEW v \in Workers, NEW u \in Workers,
                      w # v, v # u, WaitsFor(w, v), WaitsFor(v, u)
               PROVE  Wanted(w) < Wanted(v)
    BY DEF WaitsAscend
  <1>1. QueuesHeld(v) /\ txn[v].at = "locking" /\ Wanted(v) \in txn[v].todo
    BY Waiting DEF ClaimInv, Sound
  <1>2. Wanted(w) \in Queues /\ qlock[Wanted(w)] = v
    BY Waiting
  <1> QED
    BY <1>1, <1>2 DEF QueuesHeld

\* ORDER BY name in both statements: any number of claims that wait for each
\* other's queue rows wait in the order of the names.
THEOREM WaitsInOrder == Spec => []WaitsAscend
  BY Ascending, ClaimInvariant, PTL

\* In particular two claims never wait for each other.
THEOREM NoDeadlock == Spec => []NoWaitCycle
  <1>1. ASSUME ClaimInv PROVE NoWaitCycle
    <2> SUFFICES ASSUME NEW w \in Workers, NEW v \in Workers, w # v,
                        WaitsFor(w, v), WaitsFor(v, w)
                 PROVE  FALSE
      BY DEF NoWaitCycle
    <2>1. Wanted(w) \in Nat /\ Wanted(v) \in Nat
      BY <1>1, Waiting
    <2>2. Wanted(w) < Wanted(v) /\ Wanted(v) < Wanted(w)
      BY <1>1, Ascending DEF WaitsAscend
    <2> QED
      BY <2>1, <2>2
  <1> QED
    BY <1>1, ClaimInvariant, PTL

\* No job is leased out of a queue that is paused: the claim holds the queue
\* row, which it found active, until it commits.
THEOREM PauseHolds == Spec => PausedIsQuiet
  <1>1. ASSUME ClaimInv, [Next]_vars, NEW j \in Jobs, job[j] = "pending", job'[j] = "leased"
        PROVE  queue[QueueOf[j]].status = "active"
    <2>0. job \in [Jobs -> JobStatus]
      BY <1>1 DEF ClaimInv, TypeOK
    <2>1. PICK w \in Workers : Commit(w)
      BY <1>1, <2>0 DEF Next, vars, Recover, LockQueues, AcquireLock, ClaimJobs, PickJobs,
           Rollback, InsertJob, CommitInsert, RollbackInsert, EndLease, UpdateQueue
    <2>2. j \in txn[w].claimed
      BY <1>1, <2>1 DEF Commit
    <2> QED
      BY <1>1, <2>2 DEF ClaimInv, Sound, JobsHeld, QueuesHeld
  <1>2. ClaimInv /\ [Next]_vars =>
          [\A j \in Jobs : job[j] = "pending" /\ job'[j] = "leased" =>
              queue[QueueOf[j]].status = "active"]_vars
    BY <1>1
  <1> QED
    BY <1>2, ClaimInvariant, PTL DEF Spec, PausedIsQuiet

\* concurrency_limit is kept by every claim whose first statement has locked
\* the queue, whatever is recovered, recorded or updated meanwhile.
THEOREM LimitHolds == Spec => LimitKept
  <1>1. ASSUME ClaimInv, [Next]_vars, NEW w \in Workers, NEW q \in Queues,
               ClaimsInto(w, q), q \in txn[w].early
        PROVE  Cardinality(LeasedIn(q)') <= queue[q].limit
    <2>0. /\ TypeOK /\ Sound(w) /\ txn[w].at = "picked" /\ txn'[w].at = "idle"
          /\ Cardinality(LeasedIn(q)') > Cardinality(LeasedIn(q))
          /\ job \in [Jobs -> JobStatus]
          /\ txn[w].leased \subseteq Jobs /\ txn[w].claimed \subseteq Jobs
          /\ queue[q] \in QueueRow /\ queue[q].limit \in Nat
      BY <1>1, TypesOfTxn, LimitsAssumption DEF ClaimInv, ClaimsInto, TypeOK, QueueRow
    <2>1. Commit(w)
      <3>1. Commit(w) \/ Rollback(w)
        <4>1. ASSUME txn'[w] = txn[w] PROVE FALSE
          BY <2>0, <4>1
        <4>2. ASSUME NEW v \in Workers, v # w, OnlyTxn(v) PROVE txn'[w] = txn[w]
          BY <4>2 DEF OnlyTxn
        <4>3. ASSUME NEW v \in Workers,
                     \/ Recover(v) \/ LockQueues(v) \/ AcquireLock(v) \/ ClaimJobs(v)
                     \/ PickJobs(v) \/ Commit(v) \/ Rollback(v)
              PROVE  OnlyTxn(v)
          BY <2>0, <4>3, RecoverEffect, LockQueuesEffect, AcquireLockEffect, ClaimJobsEffect,
             PickJobsEffect, EndEffect
        <4>4. ASSUME \/ \E j \in Jobs :
                            InsertJob(j) \/ CommitInsert(j) \/ RollbackInsert(j) \/ EndLease(j)
                     \/ \E p \in Queues : UpdateQueue(p)
                     \/ UNCHANGED vars
              PROVE  txn' = txn
          BY <4>4 DEF vars, InsertJob, CommitInsert, RollbackInsert, EndLease, UpdateQueue
        <4>5. ~ (Recover(w) \/ LockQueues(w) \/ AcquireLock(w) \/ ClaimJobs(w) \/ PickJobs(w))
          BY <2>0 DEF Recover, LockQueues, AcquireLock, ClaimJobs, PickJobs
        <4> QED
          BY <1>1, <4>1, <4>2, <4>3, <4>4, <4>5 DEF Next
      <3>2. ASSUME Rollback(w) PROVE FALSE
        <4>1. LeasedIn(q)' = LeasedIn(q)
          BY <3>2 DEF Rollback, LeasedIn, JobsOf
        <4>2. IsFiniteSet(LeasedIn(q))
          BY JobsAssumption, FS_Subset DEF LeasedIn, JobsOf
        <4>3. Cardinality(LeasedIn(q)) \in Nat
          BY <4>2, FS_CardinalityType
        <4> QED
          BY <2>0, <4>1, <4>3
      <3> QED
        BY <3>1, <3>2
    <2> DEFINE A == txn[w].leased \cap JobsOf(q)
               C == txn[w].claimed \cap JobsOf(q)
               L == LeasedIn(q)
               N == LeasedIn(q)'
    <2>2. N \subseteq (L \ txn[w].recovered) \cup C
      BY <2>0, <2>1 DEF Commit, LeasedIn, JobsOf
    <2>3. L \ txn[w].recovered \subseteq A
      BY <1>1, <2>0 DEF Sound, SnapshotHolds, LeasedIn
    <2>4. Cardinality(C) <= Slots(w, q)
      BY <1>1, <2>0 DEF Sound, SnapshotHolds
    <2>5. Slots(w, q) = IF queue[q].limit - Cardinality(A) > 0
                        THEN queue[q].limit - Cardinality(A) ELSE 0
      BY DEF Slots
    <2>6. IsFiniteSet(A) /\ IsFiniteSet(C) /\ IsFiniteSet(L)
      BY <2>0, JobsAssumption, FS_Subset DEF LeasedIn, JobsOf
    <2> HIDE DEF A, C, L, N
    <2>7. Cardinality(A) \in Nat /\ Cardinality(C) \in Nat /\ Cardinality(L) \in Nat
      BY <2>6, FS_CardinalityType
    <2>8. IsFiniteSet(A \cup C) /\ Cardinality(A \cup C) <= Cardinality(A) + Cardinality(C)
      <3>1. /\ IsFiniteSet(A \cup C)
            /\ Cardinality(A \cup C) = Cardinality(A) + Cardinality(C) - Cardinality(A \cap C)
        BY <2>6, FS_Union
      <3>2. Cardinality(A \cap C) \in Nat
        BY <2>6, FS_Intersection, FS_CardinalityType
      <3> QED
        BY <2>7, <3>1, <3>2
    <2>9. /\ IsFiniteSet(N) /\ Cardinality(N) \in Nat /\ Cardinality(A \cup C) \in Nat
          /\ Cardinality(N) <= Cardinality(A \cup C)
      BY <2>2, <2>3, <2>8, FS_Subset, FS_CardinalityType
    <2>10. CASE queue[q].limit - Cardinality(A) > 0
      <3>1. Cardinality(N) <= queue[q].limit
        BY <2>0, <2>4, <2>5, <2>7, <2>8, <2>9, <2>10
      <3> QED
        BY <3>1 DEF N
    <2>11. CASE ~ (queue[q].limit - Cardinality(A) > 0)
      <3>1. C = {}
        BY <2>4, <2>5, <2>6, <2>7, <2>11, FS_EmptySet
      <3>2. N \subseteq L
        BY <2>2, <3>1
      <3>3. Cardinality(N) <= Cardinality(L)
        BY <2>6, <3>2, FS_Subset
      <3>4. Cardinality(N) > Cardinality(L)
        BY <2>0 DEF N, L
      <3> QED
        BY <2>7, <2>9, <3>3, <3>4
    <2> QED
      BY <2>10, <2>11
  <1>2. ClaimInv /\ [Next]_vars =>
          [\A w \in Workers, q \in Queues :
              ClaimsInto(w, q) /\ q \in txn[w].early =>
                  Cardinality(LeasedIn(q)') <= queue[q].limit]_vars
    BY <1>1
  <1> QED
    BY <1>2, ClaimInvariant, PTL DEF Spec, LimitKept

=============================================================================
