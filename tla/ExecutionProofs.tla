--------------------------- MODULE ExecutionProofs ---------------------------
(***************************************************************************)
(* Theorems about Execution.  What network, handler and timers do to an    *)
(* execution is first reduced to what it does to the job's rows            *)
(* (JobChange); types, numbering, delays and the refinement of JobContract *)
(* then argue about these few cases only.                                  *)
(***************************************************************************)
EXTENDS Execution, FiniteSetTheorems, TLAPS

USE AttemptsAssumption, TimersAssumption, RetryAssumption, PreviewAssumption

-----------------------------------------------------------------------------
(* Numbers *)

\* The smaller and the larger of two numbers.
LEMMA MinOfTwo ==
    \A a, b \in Int : Min({a, b}) = IF a <= b THEN a ELSE b
  BY DEF Min

LEMMA MaxOfTwo ==
    \A a, b \in Int : Max({a, b}) = IF a >= b THEN a ELSE b
  BY DEF Max

\* Powers of two are natural numbers: they count subsets.
LEMMA PowerType == ASSUME NEW n \in Nat PROVE 2^n \in Nat
  <1>1. IsFiniteSet(1..n) /\ Cardinality(1..n) = n
    BY FS_Interval
  <1>2. IsFiniteSet(SUBSET (1..n)) /\ Cardinality(SUBSET (1..n)) = 2^n
    BY <1>1, FS_SUBSET
  <1> QED
    BY <1>2, FS_CardinalityType

LEMMA BaseDelayType == ASSUME NEW n \in Nat PROVE BaseDelay(n) \in Nat
  <1>1. Max({n - 1, 0}) \in Nat
    BY MaxOfTwo
  <1>2. 2^(Max({n - 1, 0})) \in Nat
    BY <1>1, PowerType
  <1>3. RetryBase * 2^(Max({n - 1, 0})) \in Nat
    BY <1>2
  <1> QED
    BY <1>3, MinOfTwo DEF BaseDelay

\* Whatever the jitter, the cap comes last.
LEMMA RetryDelayRange ==
    ASSUME NEW n \in Nat, NEW d \in RetryDelays(n)
    PROVE  d \in 1..RetryMax
  <1>1. PICK x \in ((BaseDelay(n) * (100 - JitterPercent)) \div 100)
                .. ((BaseDelay(n) * (100 + JitterPercent)) \div 100) :
            d = Max({1, Min({RetryMax, x})})
    BY DEF RetryDelays
  <1>2. x \in Int
    OBVIOUS
  <1> QED
    BY <1>1, <1>2, MinOfTwo, MaxOfTwo

\* A base that doubles outgrows a jitter of a third.
LEMMA RetryDelaysGrow ==
    ASSUME NEW m \in Nat, NEW n \in Nat, BaseDelay(n) = 2 * BaseDelay(m),
           3 * JitterPercent <= 100,
           NEW d \in RetryDelays(m), NEW e \in RetryDelays(n)
    PROVE  d <= e
  <1> DEFINE B == BaseDelay(m)
             J == JitterPercent
  <1>0. B \in Nat /\ BaseDelay(n) = 2 * B /\ J \in 0..100
    BY BaseDelayType
  <1>1. PICK x \in ((B * (100 - J)) \div 100) .. ((B * (100 + J)) \div 100) :
            d = Max({1, Min({RetryMax, x})})
    BY DEF RetryDelays
  <1>2. PICK y \in ((2 * B * (100 - J)) \div 100) .. ((2 * B * (100 + J)) \div 100) :
            e = Max({1, Min({RetryMax, y})})
    BY <1>0 DEF RetryDelays
  <1> HIDE DEF B, J
  <1>3. B * (100 + J) <= 2 * B * (100 - J)
    <2>1. B * (3 * J) <= B * 100
      BY <1>0 DEF J
    <2> QED
      BY <1>0, <2>1
  <1>4. \A p, q \in Int : p <= q => p \div 100 <= q \div 100
    OBVIOUS
  <1>5. x \in Int /\ y \in Int /\ x <= y
    BY <1>0, <1>3, <1>4
  <1> QED
    BY <1>1, <1>2, <1>5, MinOfTwo, MaxOfTwo

\* chunk[:remaining] never passes the end of the preview.
LEMMA KeptType ==
    ASSUME exec \in Exec, NEW n \in Nat
    PROVE  Kept(n) \in 0..PreviewBytes
  BY MinOfTwo DEF Kept, Exec

-----------------------------------------------------------------------------
(* What a step does to the rows of the job *)

Connecting == {"claimed", "pooling", "resolving", "connecting"}

Networking == {"pooling", "resolving", "connecting", "exchanging", "reading"}

Resting == {"idle", "recording", "abandoned"}

\* The job is leased exactly while an execution is under way or still to be
\* settled, which has the phases of its kind, no timer counts more than its
\* time, and what is to be recorded has an outcome.
Phased ==
    /\ exec.at = "idle" <=> job.status # "leased"
    /\ exec.at \in {"claimed"} \cup Resting => exec.elapsed = 0 /\ exec.peer = NoPeer
    /\ exec.at \in Networking => setup.kind = "http"
    /\ exec.at = "handling" => setup.kind = "handler"
    /\ exec.at = "recording" => exec.outcome \in Outcomes
    /\ exec.quiet <= exec.elapsed

\* Attempts are numbered in order, the one under way is still missing, and
\* each was followed by a delay that its number allows.
Numbered ==
    /\ Len(attempts) = job.attempt_count - IF job.status = "leased" THEN 1 ELSE 0
    /\ job.status = "absent" => attempts = <<>>
    /\ \A i \in DOMAIN attempts :
        /\ attempts[i].number = i
        /\ attempts[i].delay \in {0} \cup RetryDelays(i)

ExecInv == TypeOK /\ Phased /\ Numbered

\* The cases: nothing happens to the rows, the job is enqueued or claimed, its
\* attempt is recorded by the worker or by the recovery, or given back.
Untouched ==
    /\ UNCHANGED <<job, attempts>>
    /\ exec.at = "idle" <=> exec'.at = "idle"

GivenBack == exec.at # "idle" /\ GiveBack

JobChange == Untouched \/ Enqueue \/ Claim \/ Record \/ Recover \/ GivenBack

\* Every answer and every error of the target has an outcome, and so has
\* every end of a handler.
LEMMA OutcomeTypes ==
    /\ \A status \in Int : ClassifyResponse(status) \in Outcomes
    /\ \A error : ClassifyError(error) \in Outcomes
    /\ \A end \in {"returns", "TimeoutError", "RetryableJobError", "other"} :
        ClassifyHandler(end) \in Outcomes
  BY DEF ClassifyResponse, ClassifyError, ClassifyHandler, Outcomes

LEMMA NextJobChange == ExecInv /\ [Next]_vars => JobChange
  <1> SUFFICES ASSUME ExecInv, [Next]_vars PROVE JobChange
    OBVIOUS
  <1> USE DEF JobChange
  <1>0. exec \in Exec
    BY DEF ExecInv, TypeOK
  \* The end of an execution and its abandonment leave the rows alone.
  <1>01. ASSUME exec.at # "idle", Abandon \/ \E o, p : End(o, p) PROVE Untouched
    BY <1>01 DEF End, Abandon, Idle, Untouched
  <1>1. CASE UNCHANGED vars
    BY <1>1 DEF vars, Untouched
  <1>2. CASE Enqueue \/ Claim \/ Record \/ Recover
    BY <1>2
  <1>3. CASE Reject \/ ResolveFails \/ BodyEnds
    BY <1>01, <1>3 DEF Reject, ResolveFails, BodyEnds
  <1>4. CASE Dispatch
    BY <1>4, <1>0 DEF Dispatch, Untouched, Exec
  <1>5. CASE Reuse \/ Resolve \/ Connected \/ Trickle
    BY <1>5, <1>0 DEF Reuse, Resolve, Connected, Trickle, Untouched, Exec
  <1>6. CASE ReadChunk
    <2>1. CASE Kept(ChunkBytes) >= PreviewBytes
      BY <1>01, <1>6, <2>1 DEF ReadChunk
    <2>2. CASE ~ (Kept(ChunkBytes) >= PreviewBytes)
      BY <1>6, <1>0, <2>2 DEF ReadChunk, Untouched, Exec
    <2> QED
      BY <2>1, <2>2
  <1>7. ASSUME NEW A \in SUBSET (Public \cup Private), Resolved(A) PROVE JobChange
    <2>1. CASE End("permanent_failure", 0)
      BY <1>01, <1>7, <2>1 DEF Resolved
    <2>2. CASE ~ End("permanent_failure", 0)
      BY <1>7, <2>2, <1>0 DEF Resolved, Untouched, Exec
    <2> QED
      BY <2>1, <2>2
  <1>8. ASSUME NEW status \in Answers, Answer(status) PROVE JobChange
    BY <1>8, <1>0 DEF Answer, Untouched, Exec
  <1>9. ASSUME NEW x, NetworkFails(x) \/ HandlerEnds(x) PROVE JobChange
    BY <1>01, <1>9 DEF NetworkFails, HandlerEnds
  <1>10. CASE HttpTimeout
    <2>1. exec.at # "idle"
      BY <1>10 DEF HttpTimeout, OperationDue, ExecutionDue, ExecInv, Phased, Resting
    <2> QED
      BY <1>01, <1>10, <2>1 DEF HttpTimeout
  <1>11. CASE HandlerTimeout \/ RecordingFails
    BY <1>01, <1>11 DEF HandlerTimeout, HandlerDue, RecordingFails
  <1>12. CASE HandlerCancels \/ Shutdown
    BY <1>01, <1>12 DEF HandlerCancels, Shutdown, GivenBack
  <1>13. CASE Tick
    BY <1>13, <1>0 DEF Tick, Untouched, Exec
  <1> QED
    BY <1>1, <1>2, <1>3, <1>4, <1>5, <1>6, <1>7, <1>8, <1>9, <1>10, <1>11, <1>12, <1>13
       DEF Next, HttpNext, HandlerNext

\* Whoever writes an attempt row finds a job that is leased, with an attempt.
LEMMA LeasedFacts ==
    ASSUME ExecInv, exec.at # "idle"
    PROVE  /\ job \in Job /\ job.status = "leased" /\ attempts \in Seq(Attempt)
           /\ job.attempt_count \in 1..MaxAttempts
  <1>1. job \in Job /\ job.status = "leased" /\ attempts \in Seq(Attempt)
    BY DEF ExecInv, TypeOK, Phased
  <1>2. job.attempt_count \in 1..MaxAttempts
    BY <1>1 DEF ExecInv, Numbered, Job
  <1> QED
    BY <1>1, <1>2

\* The attempt row that a step appends: its number is that of the attempt under
\* way, and its delay one that this number allows.
Appended(status, outcome) ==
    \E e \in Attempt :
        /\ attempts' = Append(attempts, e)
        /\ e.number = job.attempt_count /\ e.status = status /\ e.outcome = outcome
        /\ e.delay \in {0} \cup RetryDelays(job.attempt_count)

LEMMA AttemptRowType ==
    ASSUME ExecInv, exec.at # "idle",
           NEW status \in {"succeeded", "failed", "timeout", "lease_expired"},
           NEW outcome \in Outcomes \cup {"lease_expired"}, NEW preview \in 0..PreviewBytes,
           NEW delay \in {0} \cup RetryDelays(job.attempt_count),
           attempts' = Append(attempts, AttemptRow(status, outcome, preview, delay))
    PROVE  Appended(status, outcome)
  <1> DEFINE e == AttemptRow(status, outcome, preview, delay)
  <1>1. job.attempt_count \in 1..MaxAttempts
    BY LeasedFacts
  <1>2. delay \in Nat
    BY <1>1, RetryDelayRange
  <1>3. e \in Attempt
    BY <1>1, <1>2 DEF AttemptRow, Attempt
  <1>4. /\ e.number = job.attempt_count /\ e.status = status /\ e.outcome = outcome
        /\ e.delay = delay
    BY DEF AttemptRow
  <1> HIDE DEF e
  <1> QED
    BY <1>3, <1>4 DEF Appended, e

\* A result that is recorded: the outcome decides the status.
LEMMA RecordFacts ==
    ASSUME ExecInv, Record
    PROVE  /\ exec' = Idle /\ exec.outcome \in Outcomes
           /\ job' \in Job /\ job'.attempt_count = job.attempt_count
           /\ job'.status = IF exec.outcome = "succeeded" THEN "succeeded"
                            ELSE IF ShouldRetry(exec.outcome) THEN "pending" ELSE "dead_letter"
           /\ Appended(IF exec.outcome \in {"succeeded", "timeout"} THEN exec.outcome
                       ELSE "failed", exec.outcome)
  <1> DEFINE status == IF exec.outcome \in {"succeeded", "timeout"} THEN exec.outcome
                       ELSE "failed"
  <1>1. job \in Job /\ exec.at # "idle" /\ exec.outcome \in Outcomes
    BY DEF Record, ExecInv, TypeOK, Phased
  <1>2. exec.size \in 0..PreviewBytes /\ status \in {"succeeded", "failed", "timeout"}
    BY <1>1 DEF ExecInv, TypeOK, Exec, Outcomes
  <1>3. PICK d \in IF ShouldRetry(exec.outcome) THEN RetryDelays(job.attempt_count) ELSE {0} :
            attempts' = Append(attempts, AttemptRow(status, exec.outcome, exec.size, d))
    BY DEF Record
  <1>4. d \in {0} \cup RetryDelays(job.attempt_count)
    BY <1>3
  <1> HIDE DEF status
  <1>5. Appended(status, exec.outcome)
    BY <1>1, <1>2, <1>3, <1>4, AttemptRowType
  <1>6. /\ exec' = Idle /\ job' \in Job /\ job'.attempt_count = job.attempt_count
        /\ job'.status = IF exec.outcome = "succeeded" THEN "succeeded"
                         ELSE IF ShouldRetry(exec.outcome) THEN "pending" ELSE "dead_letter"
    BY <1>1 DEF Record, Job
  <1> QED
    BY <1>1, <1>5, <1>6 DEF status

\* A lease that recovery finds expired.
LEMMA RecoverFacts ==
    ASSUME ExecInv, Recover
    PROVE  /\ exec' = Idle
           /\ job' \in Job /\ job'.attempt_count = job.attempt_count
           /\ job'.status = IF job.attempt_count >= MaxAttempts THEN "dead_letter" ELSE "pending"
           /\ Appended("lease_expired", "lease_expired")
  <1>1. job \in Job /\ exec.at # "idle" /\ 0 \in 0..PreviewBytes
    BY DEF Recover, ExecInv, TypeOK
  <1>2. attempts' = Append(attempts, AttemptRow("lease_expired", "lease_expired", 0, 0))
    BY DEF Recover
  <1>3. Appended("lease_expired", "lease_expired")
    BY <1>1, <1>2, AttemptRowType
  <1>4. /\ exec' = Idle /\ job' \in Job /\ job'.attempt_count = job.attempt_count
        /\ job'.status = IF job.attempt_count >= MaxAttempts THEN "dead_letter" ELSE "pending"
    BY <1>1 DEF Recover, Job
  <1> QED
    BY <1>3, <1>4

\* An execution that is given back takes its attempt with it.
LEMMA GivenBackFacts ==
    ASSUME ExecInv, GivenBack
    PROVE  /\ exec' = Idle /\ job \in Job /\ job.status = "leased" /\ job.attempt_count >= 1
           /\ job' \in Job /\ job'.status = "pending"
           /\ job'.attempt_count = job.attempt_count - 1
           /\ UNCHANGED attempts
  <1>1. job \in Job /\ job.status = "leased" /\ attempts \in Seq(Attempt)
    BY DEF ExecInv, TypeOK, Phased, GivenBack
  <1>2. job.attempt_count \in 1..MaxAttempts
    BY <1>1 DEF ExecInv, Numbered, Job
  <1>3. job' = [status |-> "pending", attempt_count |-> job.attempt_count - 1]
    BY <1>1 DEF GivenBack, GiveBack, Job
  <1>4. job' \in Job
    BY <1>2, <1>3 DEF Job
  <1> QED
    BY <1>1, <1>2, <1>3, <1>4 DEF GivenBack, GiveBack

LEMMA NextNumbered ==
    ASSUME ExecInv, [Next]_vars
    PROVE  /\ job' \in Job /\ attempts' \in Seq(Attempt) /\ Numbered'
           /\ exec'.at = "idle" <=> job'.status # "leased"
  <1>0. /\ job \in Job /\ attempts \in Seq(Attempt) /\ Numbered /\ JobChange
        /\ exec.at = "idle" <=> job.status # "leased"
    BY NextJobChange DEF ExecInv, TypeOK, Phased
  <1>1. CASE Untouched
    BY <1>0, <1>1 DEF Untouched, Numbered
  <1>2. CASE Enqueue
    BY <1>0, <1>2 DEF Enqueue, Numbered, Job
  <1>3. CASE Claim
    <2>1. job' = [status |-> "leased", attempt_count |-> job.attempt_count + 1]
      BY <1>0, <1>3 DEF Claim, Job
    <2>2. job' \in Job /\ exec'.at # "idle" /\ UNCHANGED attempts
      BY <1>0, <1>3, <2>1 DEF Claim, Job, Idle
    <2> QED
      BY <1>0, <1>3, <2>1, <2>2 DEF Claim, Numbered, Job
  <1>4. CASE GivenBack
    BY <1>0, <1>4, GivenBackFacts DEF Numbered, Idle
  <1>5. CASE Record \/ Recover
    <2>1. exec.at # "idle"
      BY <1>5 DEF Record, Recover
    <2>2. job \in Job /\ job.status = "leased" /\ job.attempt_count >= 1
      BY <2>1, LeasedFacts
    <2>3. /\ exec' = Idle
          /\ job' \in Job /\ job'.attempt_count = job.attempt_count
          /\ job'.status \in {"succeeded", "pending", "dead_letter"}
      BY <1>5, RecordFacts, RecoverFacts
    <2>4. PICK e \in Attempt : /\ attempts' = Append(attempts, e)
                               /\ e.number = job.attempt_count
                               /\ e.delay \in {0} \cup RetryDelays(job.attempt_count)
      BY <1>5, RecordFacts, RecoverFacts DEF Appended
    <2>5. Len(attempts) = job.attempt_count - 1 /\ job.attempt_count \in Nat
      BY <1>0, <2>2 DEF Numbered, Job
    <2>6. /\ attempts' \in Seq(Attempt) /\ Len(attempts') = job.attempt_count
          /\ DOMAIN attempts' = 1 .. Len(attempts) + 1
          /\ \A i \in 1 .. Len(attempts) : attempts'[i] = attempts[i]
          /\ attempts'[Len(attempts) + 1] = e
      BY <1>0, <2>4, <2>5
    <2>7. ASSUME NEW i \in DOMAIN attempts'
          PROVE  attempts'[i].number = i /\ attempts'[i].delay \in {0} \cup RetryDelays(i)
      <3>1. CASE i \in 1 .. Len(attempts)
        BY <1>0, <2>6, <3>1 DEF Numbered
      <3>2. CASE i = Len(attempts) + 1
        BY <2>4, <2>5, <2>6, <3>2
      <3> QED
        BY <2>5, <2>6, <2>7, <3>1, <3>2
    <2> QED
      BY <2>3, <2>5, <2>6, <2>7 DEF Numbered, Idle
  <1> QED
    BY <1>0, <1>1, <1>2, <1>3, <1>4, <1>5 DEF JobChange

-----------------------------------------------------------------------------
(* Types and phases *)

ExecTyped ==
    /\ setup \in Setups /\ exec \in Exec
    /\ pooled \in Public \cup Private \cup {NoPeer}
    /\ sent \in Nat /\ cancels \in 0..MaxCancels
    /\ answer \in {"none", "success", "cut"}

ExecPhased ==
    /\ exec.at \in {"claimed"} \cup Resting => exec.elapsed = 0 /\ exec.peer = NoPeer
    /\ exec.at \in Networking => setup.kind = "http"
    /\ exec.at = "handling" => setup.kind = "handler"
    /\ exec.at = "recording" => exec.outcome \in Outcomes
    /\ exec.quiet <= exec.elapsed

\* Facts about the types that the solvers had better not look into.
LEMMA ExecMembers ==
    /\ 0 \in 0..MaxTicks /\ 0 \in 0..PreviewBytes /\ 0 \in Answers \cup {0}
    /\ NoPeer \in Public \cup Private \cup {NoPeer}
    /\ {"claimed", "handling"} \cup Networking \cup Resting \subseteq Phases
    /\ "none" \in Outcomes \cup {"none"}
  BY BoundsAssumption DEF Networking, Resting, Phases

LEMMA ExecFields ==
    ASSUME exec \in Exec
    PROVE  /\ exec.at \in Phases /\ exec.elapsed \in 0..MaxTicks /\ exec.quiet \in 0..MaxTicks
           /\ exec.elapsed \in Nat /\ exec.quiet \in Nat
           /\ exec.peer \in Public \cup Private \cup {NoPeer}
           /\ exec.status \in Answers \cup {0} /\ exec.size \in 0..PreviewBytes
  <1>1. /\ exec.at \in Phases /\ exec.elapsed \in 0..MaxTicks /\ exec.quiet \in 0..MaxTicks
        /\ exec.peer \in Public \cup Private \cup {NoPeer}
        /\ exec.status \in Answers \cup {0} /\ exec.size \in 0..PreviewBytes
    BY DEF Exec
  <1> QED
    BY <1>1, BoundsAssumption

LEMMA IdleTyped == Idle \in Exec
  BY ExecMembers DEF Idle, Exec, Resting

\* An execution comes to rest: nothing runs, and what is to be recorded has an
\* outcome.
Rests ==
    /\ exec' \in Exec /\ exec'.at \in Resting
    /\ exec'.elapsed = 0 /\ exec'.quiet = 0 /\ exec'.peer = NoPeer
    /\ exec'.at = "recording" => exec'.outcome \in Outcomes

LEMMA EndRests ==
    ASSUME NEW o \in Outcomes, NEW p \in 0..PreviewBytes, End(o, p)
    PROVE  Rests /\ exec'.at = "recording" /\ exec'.outcome = o
  <1>1. exec' = [at |-> "recording", elapsed |-> 0, quiet |-> 0, peer |-> NoPeer,
                 status |-> 0, size |-> p, outcome |-> o]
    BY DEF End, Idle
  <1>2. "recording" \in Phases /\ o \in Outcomes \cup {"none"}
    BY DEF Phases
  <1>3. exec' \in Exec
    BY <1>1, <1>2, ExecMembers DEF Exec
  <1> QED
    BY <1>1, <1>3 DEF Rests, Resting

LEMMA IdleRests ==
    ASSUME exec' = Idle \/ Abandon
    PROVE  Rests /\ exec'.at # "recording"
  <1>1. CASE exec' = Idle
    BY <1>1, IdleTyped DEF Rests, Resting, Idle
  <1>2. CASE Abandon
    <2>1. exec' = [Idle EXCEPT !.at = "abandoned"] /\ "abandoned" \in Phases
      BY <1>2 DEF Abandon, Phases
    <2>2. exec' \in Exec
      BY <2>1, IdleTyped DEF Exec
    <2> QED
      BY <2>1, <2>2 DEF Rests, Resting, Idle
  <1> QED
    BY <1>1, <1>2

\* An execution that comes to rest keeps the pooled connection, or replaces it
\* by its own.
LEMMA RestPhased ==
    ASSUME ExecInv, Rests, UNCHANGED setup, pooled' \in {pooled, exec.peer},
           UNCHANGED sent, cancels' \in 0..MaxCancels,
           UNCHANGED answer \/ Interrupted \/ answer' = "success"
    PROVE  ExecTyped' /\ ExecPhased'
  <1>1. exec.peer \in Public \cup Private \cup {NoPeer}
    BY ExecFields DEF ExecInv, TypeOK
  <1>2. pooled' \in Public \cup Private \cup {NoPeer}
    BY <1>1 DEF ExecInv, TypeOK
  <1>3. answer' \in {"none", "success", "cut"}
    BY DEF ExecInv, TypeOK, Interrupted
  <1>4. ExecTyped'
    BY <1>2, <1>3 DEF ExecInv, TypeOK, ExecTyped, Rests
  <1>5. ExecPhased'
    BY DEF ExecPhased, Rests, Resting, Networking
  <1> QED
    BY <1>4, <1>5

LEMMA NextPhased ==
    ASSUME ExecInv, [Next]_vars
    PROVE  ExecTyped' /\ ExecPhased'
  <1>0. ExecTyped /\ ExecPhased
    BY DEF ExecInv, TypeOK, Phased, ExecTyped, ExecPhased
  <1>01. cancels \in 0..MaxCancels
    BY <1>0 DEF ExecTyped
  <1>02. exec \in Exec
    BY <1>0 DEF ExecTyped
  \* A step within an execution: the fields that it may have changed.
  <1>03. ASSUME exec' \in Exec, exec'.elapsed = exec.elapsed, exec'.quiet \in {0, exec.quiet},
                exec'.at \in Networking \cup {"handling"},
                exec'.at = "handling" <=> setup.kind = "handler", UNCHANGED setup,
                pooled' \in Public \cup Private \cup {NoPeer},
                sent' \in Nat, UNCHANGED cancels, answer' \in {"none", "success", "cut"}
         PROVE  ExecTyped' /\ ExecPhased'
    <2>1. exec.elapsed \in Nat /\ exec.quiet \in Nat /\ exec.quiet <= exec.elapsed
      BY <1>0, ExecFields DEF ExecTyped, ExecPhased
    <2>2. setup.kind \in {"http", "handler"}
      BY <1>0 DEF ExecTyped, Setups
    <2>3. ExecPhased'
      BY <1>03, <2>1, <2>2 DEF ExecPhased, Networking, Resting
    <2> QED
      BY <1>0, <1>03, <2>3 DEF ExecTyped
  <1>1. CASE UNCHANGED vars
    BY <1>0, <1>1 DEF vars, ExecTyped, ExecPhased
  <1>2. CASE Enqueue
    BY <1>0, <1>2 DEF Enqueue, ghosts, ExecTyped, ExecPhased
  <1>3. CASE Claim
    <2>1. exec' \in Exec
      BY <1>3, IdleTyped, ExecMembers DEF Claim, Exec
    <2>2. exec'.at = "claimed" /\ exec'.elapsed = 0 /\ exec'.quiet = 0 /\ exec'.peer = NoPeer
      BY <1>3 DEF Claim, Idle
    <2> QED
      BY <1>0, <1>3, <2>1, <2>2 DEF Claim, ghosts, ExecTyped, ExecPhased, Networking, Resting
  <1>04. /\ 0 \in 0..PreviewBytes /\ exec.status \in Int
         /\ {"retryable_failure", "permanent_failure", "timeout"} \subseteq Outcomes
    <2>1. exec.status \in Answers \cup {0}
      BY <1>02 DEF Exec
    <2>2. \A a \in Answers : a \in 200..599
      BY AnswersAssumption
    <2>3. exec.status \in 200..599 \/ exec.status = 0
      BY <2>1, <2>2
    <2> QED
      BY <2>3 DEF Outcomes
  <1>4. CASE Reject
    <2>1. Rests
      BY <1>04, <1>4, EndRests DEF Reject
    <2> QED
      BY <1>4, <1>01, <2>1, RestPhased DEF Reject, End, ghosts
  <1>5. CASE Dispatch
    <2>1. exec' \in Exec /\ exec'.elapsed = exec.elapsed /\ exec'.quiet = exec.quiet
      BY <1>02, <1>5, ExecMembers DEF Dispatch, Exec, Networking
    <2>2. \/ exec'.at = "pooling" /\ setup.kind = "http"
          \/ exec'.at = "handling" /\ setup.kind = "handler"
      BY <1>02, <1>5 DEF Dispatch, Exec
    <2> QED
      BY <1>0, <1>03, <1>5, <2>1, <2>2 DEF Dispatch, ExecTyped, Networking
  <1>6. CASE Reuse \/ Resolve \/ Connected \/ Trickle
    <2>1. pooled \in Public \cup Private \cup {NoPeer}
      BY <1>0 DEF ExecTyped
    <2>2. exec' \in Exec /\ exec'.elapsed = exec.elapsed /\ exec'.quiet = 0
      BY <1>02, <1>6, <2>1, ExecMembers DEF Reuse, Resolve, Connected, Trickle, Exec, Networking
    <2>3. exec'.at \in Networking /\ exec.at \in Networking
      BY <1>02, <1>6 DEF Reuse, Resolve, Connected, Trickle, Exec, Networking
    <2>4. setup.kind = "http"
      BY <1>0, <2>3 DEF ExecPhased
    <2>5. pooled' \in Public \cup Private \cup {NoPeer}
      BY <1>6, <2>1 DEF Reuse, Resolve, Connected, Trickle
    <2>6. sent' \in Nat /\ UNCHANGED <<setup, cancels>>
      BY <1>0, <1>6 DEF Reuse, Resolve, Connected, Trickle, ghosts, ExecTyped
    <2>7. answer' \in {"none", "success", "cut"}
      BY <1>0, <1>6 DEF Reuse, Resolve, Connected, Trickle, ghosts, ExecTyped
    <2> QED
      BY <1>03, <2>2, <2>3, <2>4, <2>5, <2>6, <2>7 DEF Networking
  <1>7. CASE ResolveFails
    <2>1. Rests
      BY <1>04, <1>7, EndRests DEF ResolveFails
    <2> QED
      BY <1>7, <1>01, <2>1, RestPhased DEF ResolveFails, End, ghosts
  <1>8. CASE ReadChunk
    <2>1. CASE Kept(ChunkBytes) >= PreviewBytes
      <3>1. Kept(ChunkBytes) \in 0..PreviewBytes /\ ClassifyResponse(exec.status) \in Outcomes
        BY <1>02, <1>04, KeptType, OutcomeTypes
      <3>2. Rests
        BY <1>8, <2>1, <3>1, EndRests DEF ReadChunk
      <3> QED
        BY <1>8, <1>01, <2>1, <3>2, RestPhased DEF ReadChunk, End, ghosts
    <2>2. CASE ~ (Kept(ChunkBytes) >= PreviewBytes)
      <3>1. Kept(ChunkBytes) \in 0..PreviewBytes
        BY <1>02, KeptType
      <3>2. exec' = [exec EXCEPT !.size = Kept(ChunkBytes), !.quiet = 0] /\ exec.at = "reading"
        BY <1>8, <2>2 DEF ReadChunk
      <3>3. /\ exec' \in Exec /\ exec'.elapsed = exec.elapsed /\ exec'.quiet = 0
            /\ exec'.at = "reading"
        BY <1>02, <3>1, <3>2, ExecMembers DEF Exec
      <3>4. setup.kind = "http"
        BY <1>0, <3>2 DEF ExecPhased, Networking
      <3> QED
        BY <1>0, <1>03, <1>8, <2>2, <3>3, <3>4 DEF ReadChunk, ghosts, ExecTyped, Networking
    <2> QED
      BY <2>1, <2>2
  <1>9. CASE BodyEnds
    <2>1. PICK n \in 0 .. ChunkBytes - 1 : End(ClassifyResponse(exec.status), Kept(n))
      BY <1>9 DEF BodyEnds
    <2>2. Kept(n) \in 0..PreviewBytes /\ ClassifyResponse(exec.status) \in Outcomes
      BY <1>02, <1>04, KeptType, OutcomeTypes
    <2>3. Rests
      BY <2>1, <2>2, EndRests
    <2> QED
      BY <1>9, <1>01, <2>1, <2>3, RestPhased DEF BodyEnds, End, ghosts
  <1>10. ASSUME NEW A \in SUBSET (Public \cup Private), Resolved(A)
         PROVE  ExecTyped' /\ ExecPhased'
    <2>1. CASE End("permanent_failure", 0)
      <3>1. Rests
        BY <1>04, <2>1, EndRests
      <3> QED
        BY <1>10, <1>01, <2>1, <3>1, RestPhased DEF Resolved, End, ghosts
    <2>2. CASE ~ End("permanent_failure", 0)
      <3>1. PICK a \in A : exec' = [exec EXCEPT !.at = "connecting", !.peer = a,
                                             !.quiet = IF setup.block THEN 0 ELSE @]
        BY <1>10, <2>2 DEF Resolved, ConnectTo
      <3>2. a \in Public \cup Private \cup {NoPeer} /\ "connecting" \in Phases
        BY <3>1, ExecMembers DEF Networking
      <3>3. /\ exec' \in Exec /\ exec'.elapsed = exec.elapsed
            /\ exec'.quiet \in {0, exec.quiet} /\ exec'.at = "connecting"
        BY <1>02, <3>1, <3>2, ExecMembers DEF Exec
      <3>4. setup.kind = "http"
        BY <1>0, <1>10 DEF Resolved, ExecPhased, Networking
      <3>5. UNCHANGED <<setup, pooled, sent, cancels, answer>>
        BY <1>10, <2>2 DEF Resolved, ghosts
      <3> QED
        BY <1>0, <1>03, <3>3, <3>4, <3>5 DEF ExecTyped, Networking
    <2> QED
      BY <2>1, <2>2
  <1>11. ASSUME NEW status \in Answers, Answer(status) PROVE ExecTyped' /\ ExecPhased'
    <2>1. status \in Answers \cup {0} /\ "reading" \in Phases
      BY ExecMembers DEF Networking
    <2>2. /\ exec' \in Exec /\ exec'.elapsed = exec.elapsed /\ exec'.quiet = 0
          /\ exec'.at = "reading"
      BY <1>02, <1>11, <2>1, ExecMembers DEF Answer, Exec
    <2>3. setup.kind = "http"
      BY <1>0, <1>11 DEF Answer, ExecPhased, Networking
    <2>4. answer' \in {"none", "success", "cut"}
      BY <1>0, <1>11 DEF Answer, ExecTyped
    <2> QED
      BY <1>0, <1>03, <1>11, <2>2, <2>3, <2>4 DEF Answer, ExecTyped, Networking
  <1>12. ASSUME NEW error, NetworkFails(error) PROVE ExecTyped' /\ ExecPhased'
    <2>1. Rests
      BY <1>04, <1>12, EndRests, OutcomeTypes DEF NetworkFails
    <2> QED
      BY <1>12, <1>01, <2>1, RestPhased DEF NetworkFails, End
  <1>13. CASE HttpTimeout
    <2>1. Rests
      BY <1>04, <1>13, EndRests DEF HttpTimeout
    <2> QED
      BY <1>13, <1>01, <2>1, RestPhased DEF HttpTimeout, End
  <1>14. ASSUME NEW end \in {"returns", "TimeoutError", "RetryableJobError", "other"},
                HandlerEnds(end)
         PROVE  ExecTyped' /\ ExecPhased'
    <2>1. Rests
      BY <1>04, <1>14, EndRests, OutcomeTypes DEF HandlerEnds
    <2> QED
      BY <1>14, <1>01, <2>1, RestPhased DEF HandlerEnds, End
  <1>15. CASE HandlerTimeout
    <2>1. Rests
      BY <1>04, <1>15, EndRests DEF HandlerTimeout
    <2> QED
      BY <1>15, <1>01, <2>1, RestPhased DEF HandlerTimeout, End, ghosts
  <1>16. CASE HandlerCancels \/ Record \/ Recover \/ RecordingFails
    <2>1. Rests
      BY <1>16, IdleRests DEF HandlerCancels, GiveBack, Record, Recover, RecordingFails
    <2> QED
      BY <1>16, <1>01, <2>1, RestPhased DEF HandlerCancels, GiveBack, Abandon, Record, Recover,
         RecordingFails, ghosts
  <1>17. CASE Shutdown
    <2>1. cancels' \in 0..MaxCancels
      BY <1>17, <1>01, BoundsAssumption DEF Shutdown
    <2>2. Rests
      BY <1>17, IdleRests DEF Shutdown, GiveBack
    <2> QED
      BY <1>17, <2>1, <2>2, RestPhased DEF Shutdown, GiveBack, Abandon
  <1>18. CASE Tick
    <2>1. exec.elapsed \in 0..MaxTicks /\ exec.quiet \in 0..MaxTicks /\ exec.quiet <= exec.elapsed
      BY <1>0, ExecFields DEF ExecTyped, ExecPhased
    <2>2. exec.elapsed + 1 \in 0..MaxTicks /\ exec.quiet + 1 \in 0..MaxTicks
      BY <1>18, <2>1, BoundsAssumption DEF Tick
    <2>3. /\ exec' \in Exec /\ exec'.at = exec.at /\ exec'.elapsed = exec.elapsed + 1
          /\ exec'.quiet = exec.quiet + 1
      BY <1>02, <1>18, <2>2 DEF Tick, Exec
    <2> QED
      BY <1>0, <1>18, <2>1, <2>3 DEF Tick, ghosts, ExecTyped, ExecPhased, Resting
  <1> QED
    BY <1>1, <1>2, <1>3, <1>4, <1>5, <1>6, <1>7, <1>8, <1>9, <1>10, <1>11, <1>12, <1>13,
       <1>14, <1>15, <1>16, <1>17, <1>18 DEF Next, HttpNext, HandlerNext

LEMMA ExecInvariant == Spec => []ExecInv
  <1>1. Init => ExecInv
    <2> SUFFICES ASSUME Init PROVE ExecInv
      OBVIOUS
    <2>1. job \in Job /\ attempts \in Seq(Attempt) /\ Numbered
      BY DEF Init, Job, Numbered
    <2>2. ExecTyped /\ ExecPhased
      <3>1. ExecTyped
        <4>1. answer \in {"none", "success", "cut"}
          BY DEF Init
        <4>2. sent \in Nat /\ cancels \in 0..MaxCancels
          BY BoundsAssumption DEF Init
        <4> QED
          BY <4>1, <4>2, IdleTyped, ExecMembers DEF Init, ExecTyped
      <3>2. ExecPhased
        BY DEF Init, ExecPhased, Idle, Networking, Resting
      <3> QED
        BY <3>1, <3>2
    <2> QED
      BY <2>1, <2>2 DEF Init, ExecInv, TypeOK, Phased, ExecTyped, ExecPhased, Idle
  <1>2. ExecInv /\ [Next]_vars => ExecInv'
    BY NextNumbered, NextPhased DEF ExecInv, TypeOK, Phased, ExecTyped, ExecPhased
  <1> QED
    BY <1>1, <1>2, PTL DEF Spec

\* Every variable keeps its type; in particular the response preview never
\* passes RESPONSE_PREVIEW_BYTES and attempt_count never max_attempts.
THEOREM ExecutionTypeCorrect == Spec => []TypeOK
  BY ExecInvariant, PTL DEF ExecInv

-----------------------------------------------------------------------------
(* Backoff *)

\* Delays stay within 1..retry_max_seconds and grow while the base doubles:
\* the i-th attempt row holds a delay of calculate_retry_delay_seconds(i),
\* which returned attempts do not disturb.
THEOREM DelaysGrow == Spec => []BackoffGrows
  <1>1. ExecInv => BackoffGrows
    <2> SUFFICES ASSUME ExecInv, NEW i \in DOMAIN attempts, attempts[i].delay # 0
                 PROVE  /\ attempts[i].delay \in 1..RetryMax
                        /\ i > 1 /\ BaseDelay(i) = 2 * BaseDelay(i - 1)
                              /\ 3 * JitterPercent <= 100 =>
                            attempts[i - 1].delay <= attempts[i].delay
      BY DEF BackoffGrows
    <2>1. attempts \in Seq(Attempt) /\ i \in Nat /\ i \in 1..Len(attempts)
      BY DEF ExecInv, TypeOK
    <2>2. attempts[i].delay \in RetryDelays(i)
      BY DEF ExecInv, Numbered
    <2>3. attempts[i].delay \in 1..RetryMax
      BY <2>1, <2>2, RetryDelayRange
    <2>4. ASSUME i > 1, BaseDelay(i) = 2 * BaseDelay(i - 1), 3 * JitterPercent <= 100
          PROVE  attempts[i - 1].delay <= attempts[i].delay
      <3>1. i - 1 \in Nat /\ i - 1 \in DOMAIN attempts
        BY <2>1, <2>4
      <3>2. attempts[i - 1].delay \in {0} \cup RetryDelays(i - 1)
        BY <3>1 DEF ExecInv, Numbered
      <3>3. CASE attempts[i - 1].delay = 0
        BY <2>3, <3>3
      <3>4. CASE attempts[i - 1].delay \in RetryDelays(i - 1)
        BY <2>1, <2>2, <2>4, <3>1, <3>4, RetryDelaysGrow
      <3> QED
        BY <3>2, <3>3, <3>4
    <2> QED
      BY <2>3, <2>4
  <1> QED
    BY <1>1, ExecInvariant, PTL

-----------------------------------------------------------------------------
(* Timers and peers *)

\* What is fixed stays fixed, only Tick lets time pass, and only a resolved
\* name brings in an address that was not there.
LEMMA ExecStep ==
    ASSUME ExecInv, [Next]_vars
    PROVE  /\ UNCHANGED setup
           /\ Tick \/ exec'.elapsed \in {0, exec.elapsed}
           /\ \/ {exec'.peer, pooled'} \subseteq {exec.peer, pooled, NoPeer}
              \/ \E A \in SUBSET (Public \cup Private) : Resolved(A)
  <1>0. exec \in Exec
    BY DEF ExecInv, TypeOK
  <1>01. Idle.elapsed = 0 /\ Idle.peer = NoPeer
    BY DEF Idle
  <1>1. CASE UNCHANGED vars
    BY <1>1 DEF vars
  <1>2. CASE Enqueue \/ Claim
    BY <1>2 DEF Enqueue, Claim, Idle
  \* An execution that comes to rest has no timer running and no peer.
  <1>02. ASSUME exec' = Idle \/ Abandon \/ \E o, p : End(o, p)
         PROVE  exec'.elapsed = 0 /\ exec'.peer = NoPeer
    <2>1. CASE exec' = Idle
      BY <2>1, <1>01
    <2>2. CASE Abandon
      BY <2>2 DEF Abandon, Idle
    <2>3. ASSUME NEW o, NEW p, End(o, p) PROVE exec'.elapsed = 0 /\ exec'.peer = NoPeer
      BY <2>3 DEF End, Idle
    <2> QED
      BY <1>02, <2>1, <2>2, <2>3
  <1>3. CASE Reject \/ ResolveFails \/ HttpTimeout \/ HandlerTimeout \/ BodyEnds
    <2>1. exec'.elapsed = 0 /\ exec'.peer = NoPeer
      BY <1>02, <1>3 DEF Reject, ResolveFails, HttpTimeout, HandlerTimeout, BodyEnds
    <2> QED
      BY <1>3, <2>1 DEF Reject, ResolveFails, HttpTimeout, HandlerTimeout, BodyEnds, End
  <1>4. ASSUME NEW x, NetworkFails(x) \/ HandlerEnds(x)
        PROVE  UNCHANGED <<setup, pooled>> /\ exec'.elapsed = 0 /\ exec'.peer = NoPeer
    <2>1. exec'.elapsed = 0 /\ exec'.peer = NoPeer
      BY <1>02, <1>4 DEF NetworkFails, HandlerEnds
    <2> QED
      BY <1>4, <2>1 DEF NetworkFails, HandlerEnds, End
  <1>5. CASE HandlerCancels \/ Shutdown \/ Record \/ RecordingFails \/ Recover
    <2>1. exec'.elapsed = 0 /\ exec'.peer = NoPeer
      BY <1>02, <1>5 DEF HandlerCancels, Shutdown, GiveBack, Record, RecordingFails, Recover
    <2> QED
      BY <1>5, <2>1 DEF HandlerCancels, Shutdown, GiveBack, Abandon, Record, RecordingFails,
         Recover
  <1>6. CASE Dispatch \/ Reuse \/ Resolve \/ Connected \/ Trickle
    BY <1>0, <1>6 DEF Dispatch, Reuse, Resolve, Connected, Trickle, Exec
  <1>7. CASE ReadChunk
    <2>1. CASE Kept(ChunkBytes) >= PreviewBytes
      BY <1>02, <1>7, <2>1 DEF ReadChunk, End
    <2>2. CASE ~ (Kept(ChunkBytes) >= PreviewBytes)
      BY <1>0, <1>7, <2>2 DEF ReadChunk, Exec
    <2> QED
      BY <2>1, <2>2
  <1>8. ASSUME NEW status, Answer(status)
        PROVE  UNCHANGED <<setup, pooled>> /\ exec'.elapsed = exec.elapsed /\ exec'.peer = exec.peer
    BY <1>0, <1>8 DEF Answer, Exec
  <1>9. ASSUME NEW A \in SUBSET (Public \cup Private), Resolved(A)
        PROVE  UNCHANGED setup /\ exec'.elapsed \in {0, exec.elapsed}
    <2>1. CASE End("permanent_failure", 0)
      BY <1>02, <2>1 DEF End
    <2>2. CASE ~ End("permanent_failure", 0)
      BY <1>0, <1>9, <2>2 DEF Resolved, Exec
    <2> QED
      BY <2>1, <2>2
  <1>10. CASE Tick
    BY <1>0, <1>10 DEF Tick, Exec
  <1> QED
    BY <1>01, <1>1, <1>2, <1>3, <1>4, <1>5, <1>6, <1>7, <1>8, <1>9, <1>10
       DEF Next, HttpNext, HandlerNext

\* An execution is over one second after its timeout, unless its handler
\* swallows the cancellation: the timer of the whole execution does not care
\* how often the target or the name service is heard of.
THEOREM ExecutionsEnd == Spec => []EndsInTime
  <1>1. Init => EndsInTime
    BY DEF Init, Idle, EndsInTime
  <1>2. ExecInv /\ EndsInTime /\ [Next]_vars => EndsInTime'
    <2> SUFFICES ASSUME ExecInv, EndsInTime, [Next]_vars, setup'.handler # "stubborn"
                 PROVE  exec'.elapsed <= Timeout + 1
      BY DEF EndsInTime
    <2>1. setup' = setup /\ exec.elapsed <= Timeout + 1
      BY ExecStep DEF EndsInTime
    <2>2. CASE exec'.elapsed \in {0, exec.elapsed}
      BY <2>1, <2>2
    <2>3. CASE Tick
      <3>1. exec \in Exec /\ setup \in Setups
        BY DEF ExecInv, TypeOK
      <3>2. exec.elapsed \in Nat /\ exec.at \in Networking \cup {"handling"}
        BY <2>3, <3>1, ExecFields DEF Tick, Phases, Networking
      <3>3. exec'.elapsed = exec.elapsed + 1
        BY <2>3, <3>1 DEF Tick, Exec
      <3>4. CASE exec.at \in Networking
        BY <2>3, <3>2, <3>3, <3>4 DEF Tick, ExecutionDue, ExecInv, Phased
      <3>5. CASE exec.at = "handling"
        BY <2>1, <2>3, <3>2, <3>3, <3>5 DEF Tick, HandlerDue
      <3> QED
        BY <3>2, <3>4, <3>5
    <2> QED
      BY <2>2, <2>3, ExecStep
  <1> QED
    BY <1>1, <1>2, ExecInvariant, PTL DEF Spec

\* With private targets blocked no connection is made to or kept for a blocked
\* address: resolve_public_address refuses the name if any of its addresses
\* is blocked, and the backend connects to the address that was looked at.
THEOREM PeersPublic == Spec => []PublicPeer
  <1>1. Init => PublicPeer
    BY AddressesAssumption DEF Init, Idle, PublicPeer
  <1>2. ExecInv /\ PublicPeer /\ [Next]_vars => PublicPeer'
    <2> SUFFICES ASSUME ExecInv, PublicPeer, [Next]_vars, setup'.block
                 PROVE  exec'.peer \notin Private /\ pooled' \notin Private
      BY DEF PublicPeer
    <2>1. /\ setup.block /\ exec \in Exec /\ NoPeer \notin Private
          /\ exec.peer \notin Private /\ pooled \notin Private
      BY ExecStep, AddressesAssumption DEF PublicPeer, ExecInv, TypeOK
    <2>2. CASE {exec'.peer, pooled'} \subseteq {exec.peer, pooled, NoPeer}
      BY <2>1, <2>2
    <2>3. ASSUME NEW A \in SUBSET (Public \cup Private), Resolved(A)
          PROVE  exec'.peer \notin Private /\ pooled' \notin Private
      <3>1. CASE A = {} \/ A \cap Private # {}
        <4>1. End("permanent_failure", 0) /\ pooled' = pooled
          BY <2>1, <2>3, <3>1 DEF Resolved
        <4> QED
          BY <2>1, <4>1 DEF End, Idle
      <3>2. CASE ~ (A = {} \/ A \cap Private # {})
        BY <2>1, <2>3, <3>2 DEF Resolved, ConnectTo, Exec
      <3> QED
        BY <3>1, <3>2
    <2> QED
      BY <2>2, <2>3, ExecStep
  <1> QED
    BY <1>1, <1>2, ExecInvariant, PTL DEF Spec

-----------------------------------------------------------------------------
(* Deliveries *)

\* Whether the execution under way has yet to send its request or call.
Owing == IF exec.at \in Connecting THEN 1 ELSE 0

\* The inductive form of DeliveriesCounted: what is owed is counted already.
DeliveriesOwed ==
    setup.handler # "cancelling" => sent + Owing <= job.attempt_count + cancels

\* What a step does to the count: it sends what was owed, ends or takes back
\* the execution, claims, or leaves things as they are.
DeliveryStep ==
    \/ /\ exec.at \in Connecting /\ exec'.at \notin Connecting
       /\ sent' = sent + 1 /\ UNCHANGED cancels
       /\ job'.attempt_count = job.attempt_count
    \/ /\ exec'.at \in Connecting => exec.at \in Connecting
       /\ UNCHANGED sent /\ cancels' \in {cancels, cancels + 1}
       /\ job'.attempt_count = job.attempt_count
    \/ /\ exec.at = "idle" /\ UNCHANGED <<sent, cancels>>
       /\ job'.attempt_count = job.attempt_count + 1
    \/ /\ exec'.at = "idle" /\ UNCHANGED sent
       /\ job'.attempt_count = job.attempt_count - 1
       /\ cancels' = cancels + 1 \/ setup.handler = "cancelling"

LEMMA NextDelivery == ExecInv /\ [Next]_vars => DeliveryStep
  <1> SUFFICES ASSUME ExecInv, [Next]_vars PROVE DeliveryStep
    OBVIOUS
  <1>0. exec \in Exec /\ job \in Job /\ (exec.at = "idle" <=> job.status # "leased")
    BY DEF ExecInv, TypeOK, Phased
  <1>01. ASSUME Abandon \/ \E o, p : End(o, p)
         PROVE  exec'.at \notin Connecting /\ job'.attempt_count = job.attempt_count
    BY <1>01 DEF End, Abandon, Idle, Connecting
  <1>02. GiveBack => exec'.at = "idle" /\ job'.attempt_count = job.attempt_count - 1
    BY <1>0 DEF GiveBack, Idle, Job
  <1>03. Record \/ Recover => exec'.at = "idle" /\ job'.attempt_count = job.attempt_count
    BY <1>0 DEF Record, Recover, Idle, Job
  <1> USE DEF DeliveryStep, Connecting
  <1>1. CASE UNCHANGED vars
    BY <1>1 DEF vars
  <1>2. CASE Enqueue
    BY <1>0, <1>2 DEF Enqueue, ghosts, Job
  <1>3. CASE Claim
    BY <1>0, <1>3 DEF Claim, ghosts, Job
  <1>4. CASE Reject \/ ResolveFails \/ HttpTimeout \/ HandlerTimeout \/ BodyEnds
    BY <1>4, <1>01 DEF Reject, ResolveFails, HttpTimeout, HandlerTimeout, BodyEnds, ghosts
  <1>5. ASSUME NEW x, NetworkFails(x) \/ HandlerEnds(x) PROVE DeliveryStep
    BY <1>5, <1>01 DEF NetworkFails, HandlerEnds, ghosts
  <1>6. CASE HandlerCancels \/ Shutdown
    BY <1>6, <1>01, <1>02 DEF HandlerCancels, Shutdown, ghosts
  <1>13. CASE Record \/ Recover \/ RecordingFails
    BY <1>13, <1>01, <1>03 DEF Record, Recover, RecordingFails, ghosts
  <1>7. CASE Dispatch
    BY <1>0, <1>7 DEF Dispatch, Exec
  <1>8. CASE Reuse \/ Connected
    BY <1>0, <1>8 DEF Reuse, Connected, Exec
  <1>9. CASE Resolve \/ Trickle \/ Tick
    BY <1>0, <1>9 DEF Resolve, Trickle, Tick, ghosts, Exec
  <1>10. CASE ReadChunk
    BY <1>0, <1>01, <1>10 DEF ReadChunk, ghosts, Exec
  <1>11. ASSUME NEW status, Answer(status) PROVE DeliveryStep
    BY <1>0, <1>11 DEF Answer, Exec
  <1>12. ASSUME NEW A, Resolved(A) PROVE DeliveryStep
    BY <1>0, <1>01, <1>12 DEF Resolved, ghosts, Exec
  <1> QED
    BY <1>1, <1>2, <1>3, <1>4, <1>5, <1>6, <1>7, <1>8, <1>9, <1>10, <1>11, <1>12, <1>13
       DEF Next, HttpNext, HandlerNext

\* A job is sent at most once per attempt that counts, and once more for each
\* execution that a shutdown took back: no path sends a request twice.
THEOREM DeliveriesBounded == Spec => []DeliveriesCounted
  <1>1. Init => DeliveriesOwed
    BY DEF Init, Idle, DeliveriesOwed, Owing, Connecting
  <1>2. ExecInv /\ ExecInv' /\ DeliveriesOwed /\ [Next]_vars => DeliveriesOwed'
    <2> SUFFICES ASSUME ExecInv, ExecInv', DeliveriesOwed, [Next]_vars,
                        setup.handler # "cancelling"
                 PROVE  sent' + Owing' <= job'.attempt_count + cancels'
      BY ExecStep DEF DeliveriesOwed
    <2>1. /\ sent \in Nat /\ job.attempt_count \in Nat /\ cancels \in Nat
          /\ sent + Owing <= job.attempt_count + cancels
      BY DEF ExecInv, TypeOK, Job, DeliveriesOwed
    <2>2. /\ Owing \in {0, 1} /\ Owing' \in {0, 1}
          /\ Owing = 1 <=> exec.at \in Connecting
          /\ Owing' = 1 <=> exec'.at \in Connecting
          /\ "idle" \notin Connecting
      BY DEF Owing, Connecting
    <2>3. DeliveryStep
      BY NextDelivery
    <2> QED
      BY <2>1, <2>2, <2>3 DEF DeliveryStep
  <1>3. ExecInv /\ DeliveriesOwed => DeliveriesCounted
    <2> SUFFICES ASSUME ExecInv, DeliveriesOwed, setup.handler # "cancelling"
                 PROVE  sent <= job.attempt_count + cancels
      BY DEF DeliveriesCounted
    <2> QED
      BY DEF ExecInv, TypeOK, Job, DeliveriesOwed, Owing
  <1> QED
    BY <1>1, <1>2, <1>3, ExecInvariant, PTL DEF Spec

\* A success that was heard of and not lost is being read, waits to be recorded,
\* or is recorded.
AnswerKept ==
    answer = "success" =>
        \/ job.status = "succeeded"
        \/ exec.at = "reading" /\ exec.status \in 200..299
        \/ exec.at = "recording" /\ exec.outcome = "succeeded"

LEMMA NextAnswerKept ==
    ASSUME ExecInv, AnswerKept, [Next]_vars
    PROVE  AnswerKept' /\ (sent' > sent => answer # "success")
  <1>0. /\ exec \in Exec /\ job \in Job /\ (exec.at = "idle" <=> job.status # "leased")
        /\ sent \in Nat /\ ~ (sent > sent)
    BY DEF ExecInv, TypeOK, Phased
  <1>01. exec.at # "idle" => job.status # "succeeded"
    BY <1>0
  <1>02. exec.status \in 200..299 => ClassifyResponse(exec.status) = "succeeded"
    BY DEF ClassifyResponse
  <1>03. \A p : End("succeeded", p) => exec'.at = "recording" /\ exec'.outcome = "succeeded"
    BY DEF End, Idle
  <1> USE DEF AnswerKept
  <1>1. CASE UNCHANGED vars
    BY <1>0, <1>1 DEF vars
  <1>2. CASE Enqueue \/ Claim
    BY <1>0, <1>2 DEF Enqueue, Claim, ghosts
  <1>3. CASE Reject \/ ResolveFails \/ HandlerTimeout
    BY <1>0, <1>01, <1>3 DEF Reject, ResolveFails, HandlerTimeout, HandlerDue, ghosts
  <1>4. ASSUME NEW x, HandlerEnds(x) PROVE AnswerKept' /\ (sent' > sent => answer # "success")
    BY <1>0, <1>01, <1>03, <1>4 DEF HandlerEnds, ClassifyHandler
  <1>5. CASE HandlerCancels \/ Recover
    BY <1>0, <1>01, <1>5 DEF HandlerCancels, Recover, ghosts
  <1>6. ASSUME exec.at # "idle", Interrupted, UNCHANGED sent
        PROVE  AnswerKept' /\ (sent' > sent => answer # "success")
    BY <1>0, <1>01, <1>6 DEF Interrupted
  <1>7. CASE HttpTimeout
    <2>1. exec.at # "idle"
      BY <1>7 DEF HttpTimeout, OperationDue, ExecutionDue, ExecInv, Phased, Resting
    <2> QED
      BY <1>6, <1>7, <2>1 DEF HttpTimeout
  <1>8. CASE Shutdown \/ RecordingFails
    BY <1>6, <1>8 DEF Shutdown, RecordingFails
  <1>9. ASSUME NEW x, NetworkFails(x) PROVE AnswerKept' /\ (sent' > sent => answer # "success")
    BY <1>6, <1>9 DEF NetworkFails
  <1>10. CASE Dispatch \/ Reuse \/ Connected
    BY <1>0, <1>01, <1>10 DEF Dispatch, Reuse, Connected
  <1>11. CASE Resolve \/ Trickle \/ Tick
    <2>1. /\ exec.at # "recording"
          /\ exec.at = "reading" => exec'.at = "reading" /\ exec'.status = exec.status
      BY <1>0, <1>11 DEF Resolve, Trickle, Tick, Exec
    <2>2. UNCHANGED <<job, sent, answer>> /\ exec.at # "idle"
      BY <1>11 DEF Resolve, Trickle, Tick, ghosts
    <2> QED
      BY <1>0, <1>01, <2>1, <2>2
  <1>12. CASE BodyEnds
    BY <1>0, <1>01, <1>02, <1>03, <1>12 DEF BodyEnds, ghosts
  <1>13. CASE ReadChunk
    <2>1. exec.at = "reading" /\ UNCHANGED <<sent, answer>>
      BY <1>13 DEF ReadChunk, ghosts
    <2>2. CASE Kept(ChunkBytes) >= PreviewBytes
      <3>1. End(ClassifyResponse(exec.status), Kept(ChunkBytes))
        BY <1>13, <2>2 DEF ReadChunk
      <3> QED
        BY <1>0, <1>01, <1>02, <1>03, <2>1, <3>1
    <2>3. CASE ~ (Kept(ChunkBytes) >= PreviewBytes)
      <3>1. exec'.at = exec.at /\ exec'.status = exec.status
        BY <1>0, <1>13, <2>3 DEF ReadChunk, Exec
      <3> QED
        BY <1>0, <1>01, <2>1, <3>1
    <2> QED
      BY <2>2, <2>3
  <1>14. ASSUME NEW status, Answer(status)
         PROVE  AnswerKept' /\ (sent' > sent => answer # "success")
    BY <1>0, <1>01, <1>14 DEF Answer, Exec
  <1>15. ASSUME NEW A, Resolved(A) PROVE AnswerKept' /\ (sent' > sent => answer # "success")
    BY <1>0, <1>01, <1>15 DEF Resolved, ghosts
  <1>16. CASE Record
    <2>1. answer = "success" => exec.outcome = "succeeded"
      BY <1>01, <1>16 DEF Record
    <2>2. exec.outcome = "succeeded" => job'.status = "succeeded"
      BY <1>16, RecordFacts
    <2> QED
      BY <1>0, <1>16, <2>1, <2>2 DEF Record, ghosts
  <1> QED
    BY <1>1, <1>2, <1>3, <1>4, <1>5, <1>7, <1>8, <1>9, <1>10, <1>11, <1>12, <1>13, <1>14, <1>15,
       <1>16 DEF Next, HttpNext, HandlerNext

\* A success that the worker has heard of is followed by another request or call
\* only if it was lost before it was recorded: cut short by the network or a
\* timer, cancelled by a shutdown, in _record_result too, or dropped because the
\* recording failed.
THEOREM SuccessNotRepeated == Spec => RedeliveredOnlyIfCut
  <1>1. Init => AnswerKept
    BY DEF Init, AnswerKept
  <1>2. ExecInv /\ AnswerKept /\ [Next]_vars => AnswerKept'
    BY NextAnswerKept
  <1>3. ExecInv /\ AnswerKept /\ [Next]_vars => [sent' > sent => answer # "success"]_vars
    BY NextAnswerKept
  <1> QED
    BY <1>1, <1>2, <1>3, ExecInvariant, PTL DEF Spec, RedeliveredOnlyIfCut

-----------------------------------------------------------------------------
(* The execution implements the contract of its job. *)

\* The history that the contract sees grows with the attempt rows.
Entry(row) == [number |-> row.number, status |-> row.status, outcome |-> row.outcome]

History(rows) == [i \in DOMAIN rows |-> Entry(rows[i])]

LEMMA HistoryAppended ==
    ASSUME NEW rows \in Seq(Attempt), NEW e \in Attempt
    PROVE  History(Append(rows, e)) = Append(History(rows), Entry(e))
  <1> DEFINE S == [number  : 1..MaxAttempts,
                   status  : {"succeeded", "failed", "timeout", "lease_expired"},
                   outcome : Outcomes \cup {"lease_expired"}]
             r == Entry(e)
  <1>0. Len(rows) \in Nat /\ DOMAIN rows = 1 .. Len(rows)
    OBVIOUS
  <1>1. /\ Append(rows, e) \in Seq(Attempt) /\ DOMAIN Append(rows, e) = 1 .. Len(rows) + 1
        /\ \A i \in 1 .. Len(rows) : Append(rows, e)[i] = rows[i]
        /\ Append(rows, e)[Len(rows) + 1] = e
    OBVIOUS
  <1>2. r \in S /\ \A x \in Attempt : Entry(x) \in S
    BY DEF Attempt, Entry
  <1> HIDE DEF S, r
  <1>3. History(rows) \in Seq(S) /\ Len(History(rows)) = Len(rows)
    <2>1. \A i \in 1 .. Len(rows) : rows[i] \in Attempt
      OBVIOUS
    <2>2. History(rows) \in [1 .. Len(rows) -> S]
      BY <1>0, <1>2, <2>1 DEF History
    <2> QED
      BY <1>0, <2>2
  <1>4. /\ DOMAIN Append(History(rows), r) = 1 .. Len(rows) + 1
        /\ Append(History(rows), r) \in Seq(S)
        /\ \A i \in 1 .. Len(rows) : Append(History(rows), r)[i] = History(rows)[i]
        /\ Append(History(rows), r)[Len(rows) + 1] = r
    BY <1>2, <1>3
  <1>5. History(Append(rows, e)) =
            [i \in 1 .. Len(rows) + 1 |-> Entry(Append(rows, e)[i])]
    BY <1>1 DEF History
  <1>6. ASSUME NEW i \in 1 .. Len(rows) + 1
        PROVE  History(Append(rows, e))[i] = Append(History(rows), r)[i]
    <2>1. CASE i \in 1 .. Len(rows)
      BY <1>0, <1>1, <1>4, <1>5, <2>1 DEF History
    <2>2. CASE i = Len(rows) + 1
      BY <1>1, <1>4, <1>5, <2>2 DEF r
    <2>3. i \in 1 .. Len(rows) \/ i = Len(rows) + 1
      BY <1>0
    <2> QED
      BY <2>1, <2>2, <2>3, Zenon
  <1>7. Append(History(rows), r) = [i \in 1 .. Len(rows) + 1 |-> Append(History(rows), r)[i]]
    <2>1. ASSUME NEW q \in Seq(S), DOMAIN q = 1 .. Len(rows) + 1
          PROVE  q = [i \in 1 .. Len(rows) + 1 |-> q[i]]
      BY <2>1
    <2> QED
      BY <1>4, <2>1
  <1> QED
    BY <1>5, <1>6, <1>7 DEF r

\* Whatever happens to an execution is a step of the contract.
LEMMA ContractStep ==
    ASSUME ExecInv, ExecInv', [Next]_vars
    PROVE  Contract!JobStep("job")
  <1> USE DEF Contract!JobStep, Contract!Moves
  <1>0. job \in Job /\ attempts \in Seq(Attempt) /\ Numbered /\ JobChange
    BY NextJobChange DEF ExecInv, TypeOK
  <1>1. CASE Untouched
    BY <1>1 DEF Untouched, Contract!Stays
  <1>2. CASE Enqueue
    <2>1. attempts = <<>> /\ job.attempt_count = 0 /\ UNCHANGED attempts
      BY <1>0, <1>2 DEF Enqueue, Numbered, Job
    <2>2. job.status = "absent" /\ job'.status = "pending" /\ job'.attempt_count = 0
      BY <1>0, <1>2, <2>1 DEF Enqueue, Job
    <2> QED
      BY <2>1, <2>2 DEF Contract!Enqueue
  <1>3. CASE Claim
    <2>1. /\ job.status = "pending" /\ job.attempt_count < MaxAttempts /\ UNCHANGED attempts
          /\ job'.status = "leased" /\ job'.attempt_count = job.attempt_count + 1
      BY <1>0, <1>3 DEF Claim, Job
    <2> QED
      BY <2>1 DEF Contract!Lease, Contract!Left
  <1>4. CASE GivenBack
    BY <1>4, GivenBackFacts DEF Contract!Return
  <1>5. CASE Record
    <2> DEFINE o == exec.outcome
               s == IF o \in {"succeeded", "timeout"} THEN o ELSE "failed"
    <2>1. /\ o \in Outcomes /\ job.status = "leased" /\ job'.attempt_count = job.attempt_count
          /\ job'.status = IF o = "succeeded" THEN "succeeded"
                           ELSE IF ShouldRetry(o) THEN "pending" ELSE "dead_letter"
      BY <1>5, RecordFacts, LeasedFacts DEF Record
    <2>2. PICK e \in Attempt : /\ attempts' = Append(attempts, e)
                               /\ e.number = job.attempt_count /\ e.status = s /\ e.outcome = o
      BY <1>5, RecordFacts DEF Appended
    <2>3. s = Contract!AttemptStatus(o)
      BY <2>1 DEF Contract!AttemptStatus, Outcomes
    <2> HIDE DEF o, s
    <2>4. History(attempts') = Append(History(attempts),
              [number |-> job.attempt_count, status |-> Contract!AttemptStatus(o), outcome |-> o])
      BY <1>0, <2>2, <2>3, HistoryAppended DEF Entry
    <2>5. CASE o = "succeeded"
      BY <2>1, <2>4, <2>5 DEF Contract!Succeed, Contract!Logged, History, Entry
    <2>6. CASE o # "succeeded" /\ ShouldRetry(o)
      BY <2>1, <2>4, <2>6 DEF Contract!Retry, Contract!Retryable, Contract!Left, Contract!Logged,
         History, Entry, ShouldRetry
    <2>7. CASE o # "succeeded" /\ ~ ShouldRetry(o)
      <3>1. /\ o \in Contract!Retryable \cup {"permanent_failure"}
            /\ o = "permanent_failure" \/ ~ (job.attempt_count < MaxAttempts)
        BY <2>1, <2>7 DEF ShouldRetry, Outcomes, Contract!Retryable
      <3> QED
        BY <2>1, <2>4, <2>7, <3>1 DEF Contract!DeadLetter, Contract!Left, Contract!Logged,
           History, Entry
    <2> QED
      BY <2>5, <2>6, <2>7
  <1>6. CASE Recover
    <2> DEFINE o == "lease_expired"
    <2>1. /\ job.status = "leased" /\ job'.attempt_count = job.attempt_count
          /\ job.attempt_count \in Nat
          /\ job'.status = IF job.attempt_count >= MaxAttempts THEN "dead_letter" ELSE "pending"
      BY <1>6, RecoverFacts, LeasedFacts DEF Recover
    <2>2. PICK e \in Attempt :
            /\ attempts' = Append(attempts, e) /\ e.number = job.attempt_count
            /\ e.status = o /\ e.outcome = o
      BY <1>6, RecoverFacts DEF Appended
    <2>3. o = Contract!AttemptStatus(o) /\ o \in Contract!Retryable
      BY DEF Contract!AttemptStatus, Contract!Retryable
    <2> HIDE DEF o
    <2>4. History(attempts') = Append(History(attempts),
              [number |-> job.attempt_count, status |-> Contract!AttemptStatus(o), outcome |-> o])
      BY <1>0, <2>2, <2>3, HistoryAppended DEF Entry
    <2>5. CASE job.attempt_count >= MaxAttempts
      <3>1. ~ (job.attempt_count < MaxAttempts) /\ job'.status = "dead_letter"
        BY <2>1, <2>5
      <3>2. o \in Contract!Retryable \cup {"permanent_failure"}
        BY <2>3
      <3>3. Contract!DeadLetter("job")
        BY <2>1, <2>4, <3>1, <3>2 DEF Contract!DeadLetter, Contract!Left, Contract!Logged,
           History, Entry
      <3> QED
        BY <3>3
    <2>6. CASE ~ (job.attempt_count >= MaxAttempts)
      <3>1. job.attempt_count < MaxAttempts /\ job'.status = "pending"
        BY <2>1, <2>6
      <3>2. Contract!Retry("job")
        BY <2>1, <2>3, <2>4, <3>1 DEF Contract!Retry, Contract!Left, Contract!Logged,
           History, Entry
      <3> QED
        BY <3>2
    <2> QED
      BY <2>5, <2>6
  <1> QED
    BY <1>0, <1>1, <1>2, <1>3, <1>4, <1>5, <1>6 DEF JobChange

\* Whatever target, name service, handler, timers, shutdowns and failing
\* recordings do, the executions of a job make up a life that JobContract allows:
\* retryable outcomes are retried while an attempt is left, and only a permanent
\* failure ends a job that has any.
THEOREM ExecutionRefinement == Spec => ImplementsContract
  <1>1. Init => Contract!Init
    BY DEF Init, Contract!Init
  <1>2. ExecInv /\ ExecInv' /\ [Next]_vars => [Contract!Next]_Contract!cvars
    BY ContractStep DEF Contract!Next
  <1> QED
    BY <1>1, <1>2, ExecInvariant, PTL DEF Spec, ImplementsContract, Contract!Spec

=============================================================================
