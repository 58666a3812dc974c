----------------------------- MODULE JobContract -----------------------------
(***************************************************************************)
(* What PgRelay promises of a job, with no worker, lease holder, task or   *)
(* clock in sight: the status machine of docs/architecture.md ("Job        *)
(* States") and README.md, the attempt count and the attempt history.      *)
(* JobLifecycle implements it when heartbeats are timely.                  *)
(***************************************************************************)
EXTENDS Integers, Sequences

CONSTANTS Jobs, MaxAttempts

VARIABLES
    status,         \* status[j], with "absent" and "purged" around its life
    attempt_count,  \* attempt_count[j]
    history         \* history[j]: the attempts of j, with number, status and the
                    \* outcome, of which the status tells less

cvars == <<status, attempt_count, history>>

Init ==
    /\ status = [j \in Jobs |-> "absent"]
    /\ attempt_count = [j \in Jobs |-> 0]
    /\ history = [j \in Jobs |-> <<>>]

\* j moves from status "from" to status "to", its count to n, its history to h.
Moves(j, from, to, n, h) ==
    /\ status[j] = from /\ status'[j] = to
    /\ attempt_count'[j] = n
    /\ history'[j] = h

\* Both kinds of failure are written down as "failed".
AttemptStatus(o) == IF o \in {"retryable_failure", "permanent_failure"} THEN "failed" ELSE o

Logged(j, o) ==
    Append(history[j], [number  |-> attempt_count[j],
                        status  |-> AttemptStatus(o),
                        outcome |-> o])

Retryable == {"retryable_failure", "timeout", "lease_expired"}

Left(j) == attempt_count[j] < MaxAttempts

Enqueue(j) == Moves(j, "absent", "pending", 0, history[j])

Cancel(j) == Moves(j, "pending", "cancelled", attempt_count[j], history[j])

Lease(j) == Left(j) /\ Moves(j, "pending", "leased", attempt_count[j] + 1, history[j])

Succeed(j) == Moves(j, "leased", "succeeded", attempt_count[j], Logged(j, "succeeded"))

\* An attempt is retried only while one is left, and never after a permanent
\* failure.
Retry(j) ==
    /\ Left(j)
    /\ \E o \in Retryable :
        Moves(j, "leased", "pending", attempt_count[j], Logged(j, o))

\* Only a permanent failure ends a job that has attempts left.
DeadLetter(j) ==
    \E o \in Retryable \cup {"permanent_failure"} :
        /\ o = "permanent_failure" \/ ~ Left(j)
        /\ Moves(j, "leased", "dead_letter", attempt_count[j], Logged(j, o))

\* A cancelled execution gives its attempt back.
Return(j) == Moves(j, "leased", "pending", attempt_count[j] - 1, history[j])

\* An expired lease is recovered and granted again in one transaction.
Relet(j) ==
    Left(j) /\ Moves(j, "leased", "leased", attempt_count[j] + 1, Logged(j, "lease_expired"))

Purge(j) ==
    \E s \in {"succeeded", "dead_letter", "cancelled"} : Moves(j, s, "purged", 0, <<>>)

Stays(j) == Moves(j, status[j], status[j], attempt_count[j], history[j])

JobStep(j) ==
    \/ Enqueue(j) \/ Cancel(j) \/ Lease(j) \/ Succeed(j) \/ Retry(j) \/ DeadLetter(j)
    \/ Return(j) \/ Relet(j) \/ Purge(j) \/ Stays(j)

\* A batch moves many jobs at once, each by a step of its own.
Next ==
    /\ DOMAIN status' = Jobs /\ DOMAIN attempt_count' = Jobs /\ DOMAIN history' = Jobs
    /\ \A j \in Jobs : JobStep(j)

Spec == Init /\ [][Next]_cvars

=============================================================================
