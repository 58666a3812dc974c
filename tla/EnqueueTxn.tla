----------------------------- MODULE EnqueueTxn -----------------------------
(***************************************************************************)
(* Enqueue and replay inside a caller's transaction (SDK, API, CLI):       *)
(* services/enqueue.py, services/jobs.py and JobRepository.insert_job.     *)
(* PostgreSQL runs it under READ COMMITTED: the unique index makes an      *)
(* INSERT wait for an open transaction that has inserted the same key,     *)
(* each statement sees what is committed when it starts, and the foreign   *)
(* key of replayed_from_job_id keeps a replayed row from being deleted     *)
(* while the replay is uncommitted.                                        *)
(*                                                                         *)
(* One queue is modelled: idempotency keys are unique per queue.  The      *)
(* queue row and its locks are the subject of ClaimTxn; workers and time   *)
(* appear only as Settle, which ends the life that JobLifecycle describes. *)
(***************************************************************************)
EXTENDS Integers, FiniteSets

CONSTANTS
    Callers,   \* sessions of applications and of the API
    Ids,       \* job ids
    Keys,      \* idempotency keys that callers choose
    NoKey,     \* SQL NULL in idempotency_key
    NoId,      \* SQL NULL in replayed_from_job_id
    MaxOps     \* bound: requests in one transaction

ASSUME NullAssumption ==
    /\ NoKey \notin Keys /\ \A i \in Ids : NoKey # <<"replay", i>>
    /\ NoId \notin Ids
ASSUME OpsAssumption == MaxOps \in Nat

VARIABLES
    row,     \* row[i]: the pgrelay_job row i
    txn,     \* txn[c]: the transaction of caller c
    answers  \* ghost: [key, id] answered to callers that then committed

vars == <<row, txn, answers>>

-----------------------------------------------------------------------------
(* Types *)

\* The replay of job i has the key "replay:<i>".
Mut_ReplayKey(i) == NoKey

ReplayKey(i) == <<"replay", i>>

AnyKey == Keys \cup {NoKey} \cup {ReplayKey(i) : i \in Ids}

\* inserted: by an open transaction; active: pending or leased; dead:
\* dead_letter or cancelled; done: succeeded; gone: purged or rolled back.
Statuses == {"unused", "inserted", "active", "dead", "done", "gone"}

Row == [status : Statuses, key : AnyKey, source : Ids \cup {NoId}]

NoRow(status) == [status |-> status, key |-> NoKey, source |-> NoId]

\* at: between requests (open), before the INSERT, before the SELECT by key,
\* or with an exception on its way to the caller; wrote: rows inserted by the
\* open transaction; told: jobs whose creation was reported to the caller
\* since it began; seen: existing jobs reported to it; undone: one of its
\* statements has failed.
Txn == [at     : {"idle", "open", "inserting", "selecting", "raised"},
        key    : AnyKey,
        source : Ids \cup {NoId},
        wrote  : SUBSET Ids,
        told   : SUBSET Ids,
        seen   : SUBSET [key : AnyKey, id : Ids],
        undone : BOOLEAN,
        ops    : 0..MaxOps]

NoTxn == [at |-> "idle", key |-> NoKey, source |-> NoId, wrote |-> {}, told |-> {},
          seen |-> {}, undone |-> FALSE, ops |-> 0]

-----------------------------------------------------------------------------
(* Helpers *)

Committed(i) == row[i].status \in {"active", "dead", "done"}

\* The unique index holds an INSERT back while another open transaction has
\* inserted the same key.
Mut_Blocked(c) == FALSE

Blocked(c) ==
    /\ txn[c].key # NoKey
    /\ \E d \in Callers \ {c} : \E i \in txn[d].wrote : row[i].key = txn[c].key

\* The row that an INSERT conflicts with, or that the SELECT by key returns.
Existing(c) ==
    {i \in Ids : /\ txn[c].key # NoKey /\ row[i].key = txn[c].key
                 /\ Committed(i) \/ i \in txn[c].wrote}

\* replay: dead_letter and cancelled jobs, and succeeded ones with force.
Replayable(i, force) ==
    row[i].status = "dead" \/ (row[i].status = "done" /\ force)

MayRequest(c) == txn[c].at \in {"idle", "open"} /\ txn[c].ops < MaxOps

\* The foreign key of replayed_from_job_id is satisfied.
SourceThere(c) == txn[c].source # NoId => Committed(txn[c].source)

\* The session is handed back without a rollback.
Mut_Undone(c) == row

\* What a rollback leaves of the rows of c.
Undone(c) == [i \in Ids |-> IF i \in txn[c].wrote THEN NoRow("gone") ELSE row[i]]

-----------------------------------------------------------------------------
(* The caller's transaction *)

\* A request that passes validation; one that does not changes nothing.
Enqueue(c) ==
    /\ MayRequest(c)
    /\ \E k \in Keys \cup {NoKey} :
        txn' = [txn EXCEPT ![c].at = "inserting", ![c].key = k, ![c].source = NoId,
                           ![c].ops = @ + 1]
    /\ UNCHANGED <<row, answers>>

\* JobService.replay has read the source row and found it replayable.
Replay(c) ==
    /\ MayRequest(c)
    /\ \E i \in Ids, force \in BOOLEAN :
        /\ Replayable(i, force)
        /\ txn' = [txn EXCEPT ![c].at = "inserting", ![c].key = ReplayKey(i),
                              ![c].source = i, ![c].ops = @ + 1]
    /\ UNCHANGED <<row, answers>>

\* INSERT ... ON CONFLICT DO NOTHING returns a row.  The foreign key needs the
\* source row to be there still.
Insert(c) ==
    /\ txn[c].at = "inserting"
    /\ ~ Blocked(c) /\ Existing(c) = {}
    /\ SourceThere(c)
    /\ \E i \in Ids :
        /\ row[i].status = "unused"
        /\ row' = [row EXCEPT ![i] = [status |-> "inserted", key |-> txn[c].key,
                                      source |-> txn[c].source]]
        /\ txn' = [txn EXCEPT ![c].at = "open", ![c].wrote = @ \cup {i},
                              ![c].told = @ \cup {i}]
    /\ UNCHANGED answers

\* It returns none: the key is taken.
Conflict(c) ==
    /\ txn[c].at = "inserting"
    /\ ~ Blocked(c) /\ Existing(c) # {}
    /\ txn' = [txn EXCEPT ![c].at = "selecting"]
    /\ UNCHANGED <<row, answers>>

\* A key that is gone is treated like a failed statement.
Mut_SelectExisting(c) ==
    /\ txn[c].at = "selecting"
    /\ \/ \E i \in Existing(c) :
            /\ txn' = [txn EXCEPT ![c].at = "open",
                                  ![c].seen = @ \cup {[key |-> txn[c].key, id |-> i]}]
            /\ UNCHANGED row
       \/ /\ Existing(c) = {}
          /\ row' = Undone(c)
          /\ txn' = [txn EXCEPT ![c].at = "raised", ![c].wrote = {}]
    /\ UNCHANGED answers

\* _get_by_idempotency_key, a new snapshot: the row may have been purged since
\* the INSERT, which raises RepositoryError and rolls nothing back.
SelectExisting(c) ==
    /\ txn[c].at = "selecting"
    /\ \/ \E i \in Existing(c) :
            txn' = [txn EXCEPT ![c].at = "open",
                               ![c].seen = @ \cup {[key |-> txn[c].key, id |-> i]}]
       \/ Existing(c) = {} /\ txn' = [txn EXCEPT ![c].at = "raised"]
    /\ UNCHANGED <<row, answers>>

\* A SQLAlchemyError (lock_timeout, deadlock, foreign key, lost connection):
\* insert_job rolls the caller's session back and raises RepositoryError.
StatementFails(c) ==
    /\ txn[c].at \in {"inserting", "selecting"}
    /\ row' = Undone(c)
    /\ txn' = [txn EXCEPT ![c].at = "raised", ![c].wrote = {}, ![c].undone = TRUE]
    /\ UNCHANGED answers

\* The caller ends its transaction without committing: on an exception
\* (get_session), on its own decision, or because it died.
Abandon(c) ==
    /\ txn[c].at # "idle"
    /\ row' = Undone(c)
    /\ txn' = [txn EXCEPT ![c] = NoTxn]
    /\ UNCHANGED answers

\* The caller catches the exception and goes on with the session.
Catch(c) ==
    /\ txn[c].at = "raised"
    /\ txn' = [txn EXCEPT ![c].at = "open"]
    /\ UNCHANGED <<row, answers>>

Commit(c) ==
    /\ txn[c].at = "open"
    /\ row' = [i \in Ids |-> IF i \in txn[c].wrote THEN [row[i] EXCEPT !.status = "active"]
                             ELSE row[i]]
    /\ answers' = answers \cup txn[c].seen
                          \cup {[key |-> row[i].key, id |-> i] : i \in txn[c].wrote}
    /\ txn' = [txn EXCEPT ![c] = NoTxn]

-----------------------------------------------------------------------------
(* Everybody else *)

\* Workers, recovery or cancel bring the job to a final state.
Settle(i) ==
    /\ row[i].status = "active"
    /\ \E s \in {"dead", "done"} : row' = [row EXCEPT ![i].status = s]
    /\ UNCHANGED <<txn, answers>>

\* The DELETE waits for uncommitted replays of i (they share-lock it) and sets
\* replayed_from_job_id of the committed ones to NULL.
Purge(i) ==
    /\ row[i].status \in {"dead", "done"}
    /\ ~ \E j \in Ids : row[j].status = "inserted" /\ row[j].source = i
    /\ row' = [j \in Ids |-> IF j = i THEN NoRow("gone")
                             ELSE IF row[j].source = i THEN [row[j] EXCEPT !.source = NoId]
                             ELSE row[j]]
    /\ UNCHANGED <<txn, answers>>

-----------------------------------------------------------------------------
(* The specification *)

Init ==
    /\ row = [i \in Ids |-> NoRow("unused")]
    /\ txn = [c \in Callers |-> NoTxn]
    /\ answers = {}

CallerNext(c) ==
    \/ Enqueue(c) \/ Replay(c) \/ Insert(c) \/ Conflict(c) \/ SelectExisting(c)
    \/ StatementFails(c) \/ Catch(c) \/ Abandon(c) \/ Commit(c)

Next ==
    \/ \E c \in Callers : CallerNext(c)
    \/ \E i \in Ids : Settle(i) \/ Purge(i)

Spec == Init /\ [][Next]_vars

-----------------------------------------------------------------------------
(* Properties *)

\* Every variable has its type, and an uncommitted row belongs to one open
\* transaction: a rollback, whoever starts it, leaves none behind.
TypeOK ==
    /\ row \in [Ids -> Row]
    /\ txn \in [Callers -> Txn]
    /\ answers \subseteq [key : AnyKey, id : Ids]
    /\ \A i \in Ids :
        row[i].status = "inserted" <=>
            Cardinality({c \in Callers : i \in txn[c].wrote}) = 1

\* Enqueue is idempotent: two callers that used one key, and committed, were
\* given one job, unless that job has been purged; whoever inserted first,
\* waited, conflicted, rolled back or failed (insert_job).
SameKeySameJob ==
    \A a, b \in answers :
        a.key = b.key /\ a.key # NoKey /\ a.id # b.id =>
            row[a.id].status = "gone" \/ row[b.id].status = "gone"

\* A job has at most one replay at a time, and only a finished job that is
\* still in the table is named as the source of one, however replays, purges
\* and rollbacks interleave (services/jobs.py, replay).
ReplaysWellFounded ==
    \A i \in Ids :
        LET replays == {j \in Ids : row[j].source = i} IN
        /\ Cardinality(replays) <= 1
        /\ replays # {} => row[i].status \in {"dead", "done"}

\* What the caller was told it has enqueued is still part of its transaction:
\* its commit makes all of it visible and its rollback none of it
\* (docs/architecture.md, "commit and rollback decisions stay with the caller").
OutboxIntact ==
    \A c \in Callers : txn[c].at = "open" => txn[c].told = txn[c].wrote

\* The same, as far as the code gets it: jobs reported to the caller leave its
\* transaction only when a statement fails.  A key whose job is purged between
\* the conflict and the SELECT raises an error too, and costs nothing.
OutboxKept ==
    \A c \in Callers :
        txn[c].at = "open" /\ ~ txn[c].undone => txn[c].told = txn[c].wrote

=============================================================================
