----------------------------- MODULE MCClaimTxn -----------------------------
(***************************************************************************)
(* Instances of ClaimTxn for TLC.                                          *)
(***************************************************************************)
EXTENDS ClaimTxn, TLC

\* Both workers serve every queue.
AllQueues == [w \in Workers |-> Queues]

\* Two jobs share the first queue, so that its limit can be met and passed; the
\* second queue is there for its lock.
TwoJobs == {"a1", "a2"}

TwoJobsQueues == [j \in TwoJobs |-> 1]

WorkerSymmetry == Permutations(Workers)

=============================================================================
