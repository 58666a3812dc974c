------------------------------ MODULE Execution ------------------------------
(***************************************************************************)
(* One job, executed attempt after attempt by a worker whose lease does    *)
(* not expire before its task has ended: _execute_job and _dispatch_job    *)
(* (worker/runner.py), JobDispatcher, the HTTP and the handler executor,   *)
(* and the retry delay (worker/backoff.py).  An execution that has ended   *)
(* is still to be recorded; a shutdown or a failing database may come      *)
(* between.                                                                *)
(*                                                                         *)
(* The target, the name service and the handler do what they like: answer  *)
(* late, drop by drop or never, break off, resolve to other addresses each *)
(* time.  Time is counted in seconds.  httpx limits each single wait on    *)
(* the network, asyncio.timeout the whole execution; time never passes a   *)
(* timer that is due.                                                      *)
(***************************************************************************)
EXTENDS Integers, Sequences, FiniteSetsExt

CONSTANTS
    MaxAttempts,    \* max_attempts of the job
    Timeout,        \* timeout_seconds of the job
    HttpMaxTimeout, \* settings.http_max_timeout_seconds
    RetryBase,      \* settings.retry_base_seconds
    RetryMax,       \* settings.retry_max_seconds
    JitterPercent,  \* settings.retry_jitter_ratio, in percent
    PreviewBytes,   \* RESPONSE_PREVIEW_BYTES
    ChunkBytes,     \* RESPONSE_CHUNK_BYTES
    Answers,        \* status codes that the target may answer with
    Public,         \* addresses that is_blocked_ip_address lets pass
    Private,        \* addresses that it blocks
    NoPeer,         \* not connected
    MaxCancels,     \* bound: cancellations by a shutdown
    MaxSends,       \* bound: requests or calls after which a handler no longer
                    \* cancels itself
    MaxTicks        \* bound: length of one execution

ASSUME AttemptsAssumption == MaxAttempts \in Nat \ {0}
ASSUME TimersAssumption == Timeout \in Nat \ {0} /\ HttpMaxTimeout \in Nat \ {0}
ASSUME RetryAssumption ==
    RetryBase \in Nat \ {0} /\ RetryMax \in Nat \ {0} /\ JitterPercent \in 0..100
ASSUME PreviewAssumption == PreviewBytes \in Nat \ {0} /\ ChunkBytes \in Nat \ {0}
ASSUME AnswersAssumption == Answers \subseteq 200..599
ASSUME AddressesAssumption == NoPeer \notin Public \cup Private /\ Public \cap Private = {}
ASSUME BoundsAssumption == MaxCancels \in Nat /\ MaxSends \in Nat /\ MaxTicks \in Nat

VARIABLES
    setup,    \* what is fixed: the job's kind, its request (http), its handler,
              \* and whether private targets are blocked
    job,      \* the job's status and attempt_count
    exec,     \* the execution under way
    pooled,   \* the peer of the idle connection in the client's pool
    attempts, \* its attempt rows, with the length of response_body_preview and
              \* (ghosts) the outcome and the retry delay, 0 if there is no retry
    sent,     \* ghost: how many requests were sent, or handler calls made
    cancels,  \* ghost: how many executions a shutdown cancelled
    answer    \* ghost: what became of the last request or call: "success" once
              \* its success was heard of, "cut" if that was then forgotten

vars == <<setup, job, exec, pooled, attempts, sent, cancels, answer>>

ghosts == <<sent, cancels, answer>>

-----------------------------------------------------------------------------
(* Types *)

Outcomes == {"succeeded", "retryable_failure", "permanent_failure", "timeout"}

\* request: "malformed" fails HttpJobPayload.model_validate, whose error is not
\* pgrelay's ValidationError; "refused" fails a check on headers, URL, allowed
\* hosts or base64.  handler: "stubborn" may swallow the cancellation at its
\* timeout, "cancelling" lets a CancelledError of its own out.
Setups ==
    [kind : {"http"}, request : {"good", "malformed", "refused"},
     handler : {"none"}, block : BOOLEAN]
    \cup [kind : {"handler"}, request : {"good"},
          handler : {"none", "good", "stubborn", "cancelling"}, block : {FALSE}]

Job == [status        : {"absent", "pending", "leased", "succeeded", "dead_letter"},
        attempt_count : 0..MaxAttempts]

Attempt == [number  : 1..MaxAttempts,
            status  : {"succeeded", "failed", "timeout", "lease_expired"},
            outcome : Outcomes \cup {"lease_expired"},
            preview : 0..PreviewBytes,
            delay   : Nat]

\* recording: the execution has ended, its result is still to be committed;
\* abandoned: its task is gone and has left the lease to expire.
Phases == {"idle", "claimed", "pooling", "resolving", "connecting", "exchanging",
           "reading", "handling", "recording", "abandoned"}

Exec == [at      : Phases,
         elapsed : 0..MaxTicks,   \* since the execution started
         quiet   : 0..MaxTicks,   \* since the network was last heard of
         peer    : Public \cup Private \cup {NoPeer},
         status  : Answers \cup {0},
         size    : 0..PreviewBytes,
         outcome : Outcomes \cup {"none"}]

Idle == [at |-> "idle", elapsed |-> 0, quiet |-> 0, peer |-> NoPeer, status |-> 0,
         size |-> 0, outcome |-> "none"]

-----------------------------------------------------------------------------
(* Classification and backoff *)

RETRYABLE_HTTP_STATUSES == {408, 409, 425, 429}

\* Off by one at 200, and all that is not 3xx or 4xx is tried again.
Mut_ClassifyResponse(status) ==
    IF 200 < status /\ status < 300 THEN "succeeded"
    ELSE IF status \in RETRYABLE_HTTP_STATUSES \/ status \notin 300..499
         THEN "retryable_failure"
    ELSE "permanent_failure"

ClassifyResponse(status) ==
    IF 200 <= status /\ status < 300 THEN "succeeded"
    ELSE IF status \in RETRYABLE_HTTP_STATUSES \/ status >= 500 THEN "retryable_failure"
    ELSE "permanent_failure"

\* The except clauses of HttpJobExecutor.execute, and _exception_result for
\* what they leave out (a body that cannot be decoded, for one).
ClassifyError(error) ==
    IF error = "protocol" THEN "permanent_failure" ELSE "retryable_failure"

\* The except clauses of PythonHandlerExecutor.execute.
ClassifyHandler(end) ==
    CASE end = "returns"           -> "succeeded"
      [] end = "TimeoutError"      -> "timeout"
      [] end = "RetryableJobError" -> "retryable_failure"
      [] end = "other"             -> "permanent_failure"

BaseDelay(n) == Min({RetryBase * 2^(Max({n - 1, 0})), RetryMax})

\* The jitter is added after the cap.
Mut_RetryDelays(n) ==
    {Max({1, d}) : d \in ((BaseDelay(n) * (100 - JitterPercent)) \div 100)
                      .. ((BaseDelay(n) * (100 + JitterPercent)) \div 100)}

\* calculate_retry_delay_seconds, for every value of random.uniform.
RetryDelays(n) ==
    {Max({1, Min({RetryMax, d})}) : d \in ((BaseDelay(n) * (100 - JitterPercent)) \div 100)
                                       .. ((BaseDelay(n) * (100 + JitterPercent)) \div 100)}

-----------------------------------------------------------------------------
(* Timers *)

\* timeout=min(...) of the httpx request: for each wait in its pool, connect,
\* write or read (Trickle restarts it).  SafeAsyncNetworkBackend asks the name
\* service outside of it.
OperationLimit == Min({Timeout, HttpMaxTimeout})

OperationDue ==
    /\ exec.at \in {"pooling", "connecting", "exchanging", "reading"}
                    \cup IF setup.block THEN {} ELSE {"resolving"}
    /\ exec.quiet >= OperationLimit

\* asyncio.timeout(job.timeout_seconds + 1) in _dispatch_job
Mut_ExecutionDue == FALSE

ExecutionDue == setup.kind = "http" /\ exec.elapsed >= Timeout + 1

\* asyncio.timeout(job.timeout_seconds) around the handler
HandlerDue ==
    exec.at = "handling" /\ setup.handler # "stubborn" /\ exec.elapsed >= Timeout

-----------------------------------------------------------------------------
(* The end of an execution, and what is made of it *)

\* The result is there; _finish_heartbeat and _record_result are to follow.
End(outcome, preview) ==
    /\ exec' = [Idle EXCEPT !.at = "recording", !.outcome = outcome, !.size = preview]
    /\ UNCHANGED <<setup, job, attempts>>

Mut_ShouldRetry(outcome) == outcome \in {"retryable_failure", "timeout"}

\* Only a timeout is taken for retryable.
Mut_ShouldRetryTimeoutOnly(outcome) ==
    outcome = "timeout" /\ job.attempt_count < MaxAttempts

ShouldRetry(outcome) ==
    outcome \in {"retryable_failure", "timeout"} /\ job.attempt_count < MaxAttempts

\* The attempt row that complete_job, fail_job or the recovery inserts.
AttemptRow(status, outcome, preview, delay) ==
    [number |-> job.attempt_count, status |-> status, outcome |-> outcome,
     preview |-> preview, delay |-> delay]

\* _record_result commits, its answer heard or not: a cancellation or an error
\* that comes after the commit finds no lease to return.
Record ==
    /\ exec.at = "recording"
    /\ exec' = Idle
    /\ job' = [job EXCEPT !.status = IF exec.outcome = "succeeded" THEN "succeeded"
                                     ELSE IF ShouldRetry(exec.outcome) THEN "pending"
                                     ELSE "dead_letter"]
    /\ \E d \in IF ShouldRetry(exec.outcome) THEN RetryDelays(job.attempt_count) ELSE {0} :
        attempts' = Append(attempts, AttemptRow(
            IF exec.outcome \in {"succeeded", "timeout"} THEN exec.outcome ELSE "failed",
            exec.outcome, exec.size, d))
    /\ UNCHANGED <<setup, pooled, ghosts>>

\* CancelledError leaves the execution: the job goes back to pending, at once
\* and with its attempt.
GiveBack ==
    /\ exec' = Idle
    /\ job' = [job EXCEPT !.status = "pending", !.attempt_count = @ - 1]
    /\ UNCHANGED <<setup, pooled, attempts>>

\* The task ends without having written anything.
Abandon ==
    /\ exec' = [Idle EXCEPT !.at = "abandoned"]
    /\ UNCHANGED <<setup, job, pooled, attempts>>

\* A success that was heard of and not recorded is forgotten.
Interrupted ==
    answer' = IF exec.at \in {"reading", "recording"} /\ answer = "success"
              THEN "cut" ELSE answer

\* The recording rolls back, or the heartbeat had failed and the result is not
\* recorded at all.
RecordingFails ==
    /\ exec.at = "recording"
    /\ Abandon
    /\ Interrupted
    /\ UNCHANGED <<sent, cancels>>

\* The abandoned lease expires and a worker recovers it
\* (RECOVER_EXPIRED_LEASES_SQL); the attempt is not given back.
Recover ==
    /\ exec.at = "abandoned"
    /\ exec' = Idle
    /\ job' = [job EXCEPT !.status = IF job.attempt_count >= MaxAttempts THEN "dead_letter"
                                     ELSE "pending"]
    /\ attempts' = Append(attempts, AttemptRow("lease_expired", "lease_expired", 0, 0))
    /\ UNCHANGED <<setup, pooled, ghosts>>

-----------------------------------------------------------------------------
(* Claim and dispatch *)

Enqueue ==
    /\ job.status = "absent"
    /\ job' = [job EXCEPT !.status = "pending"]
    /\ UNCHANGED <<setup, exec, pooled, attempts, ghosts>>

Claim ==
    /\ job.status = "pending" /\ job.attempt_count < MaxAttempts
    /\ job' = [job EXCEPT !.status = "leased", !.attempt_count = @ + 1]
    /\ exec' = [Idle EXCEPT !.at = "claimed"]
    /\ UNCHANGED <<setup, pooled, attempts, ghosts>>

\* What stands in the way of the request or of the handler is found before
\* anything is sent.
Reject ==
    /\ exec.at = "claimed"
    /\ \/ setup.request = "malformed" /\ End("retryable_failure", 0)
       \/ setup.request = "refused" /\ End("permanent_failure", 0)
       \/ setup.kind = "handler" /\ setup.handler = "none" /\ End("permanent_failure", 0)
    /\ UNCHANGED <<pooled, ghosts>>

Dispatch ==
    /\ exec.at = "claimed" /\ setup.request = "good"
    /\ \/ /\ setup.kind = "http"
          /\ exec' = [exec EXCEPT !.at = "pooling"]
          /\ UNCHANGED <<sent, answer>>
       \/ /\ setup.kind = "handler" /\ setup.handler # "none"
          /\ exec' = [exec EXCEPT !.at = "handling"]
          /\ sent' = sent + 1 /\ answer' = "none"
    /\ UNCHANGED <<setup, job, pooled, attempts, cancels>>

-----------------------------------------------------------------------------
(* HttpJobExecutor.execute *)

\* An idle connection is used again, without asking the name service.
Reuse ==
    /\ exec.at = "pooling" /\ pooled # NoPeer
    /\ exec' = [exec EXCEPT !.at = "exchanging", !.quiet = 0, !.peer = pooled]
    /\ pooled' = NoPeer
    /\ sent' = sent + 1 /\ answer' = "none"
    /\ UNCHANGED <<setup, job, attempts, cancels>>

\* A new connection: there is no idle one, or it is no longer any good.
Resolve ==
    /\ exec.at = "pooling"
    /\ exec' = [exec EXCEPT !.at = "resolving", !.quiet = 0]
    /\ pooled' = NoPeer
    /\ UNCHANGED <<setup, job, attempts, ghosts>>

Mut_ConnectTo(addresses) == Public \cup Private

\* The address that was looked at is the one that is connected to; the name is
\* not resolved again.
ConnectTo(addresses) == addresses

\* getaddrinfo answers: resolve_public_address looks at every address.  Without
\* it one timer covers both the resolution and the connection.
Resolved(addresses) ==
    /\ exec.at = "resolving" /\ (setup.block \/ addresses # {})
    /\ IF setup.block /\ (addresses = {} \/ addresses \cap Private # {})
       THEN End("permanent_failure", 0)
       ELSE /\ \E a \in ConnectTo(addresses) :
                exec' = [exec EXCEPT !.at = "connecting", !.peer = a,
                                     !.quiet = IF setup.block THEN 0 ELSE @]
            /\ UNCHANGED <<setup, job, attempts>>
    /\ UNCHANGED <<pooled, ghosts>>

\* gaierror is an OSError.
ResolveFails ==
    /\ exec.at = "resolving"
    /\ End("retryable_failure", 0)
    /\ UNCHANGED <<pooled, ghosts>>

Connected ==
    /\ exec.at = "connecting"
    /\ exec' = [exec EXCEPT !.at = "exchanging", !.quiet = 0]
    /\ sent' = sent + 1 /\ answer' = "none"
    /\ UNCHANGED <<setup, job, pooled, attempts, cancels>>

Answer(status) ==
    /\ exec.at = "exchanging"
    /\ exec' = [exec EXCEPT !.at = "reading", !.quiet = 0, !.status = status]
    /\ answer' = IF status \in 200..299 THEN "success" ELSE answer
    /\ UNCHANGED <<setup, job, pooled, attempts, sent, cancels>>

\* A chunk is kept whole.
Mut_Kept(n) == exec.size + n

\* chunk[:remaining]
Kept(n) == Min({PreviewBytes, exec.size + n})

\* A full chunk of the body; once the preview is full the rest is not read and
\* the connection is given up.
ReadChunk ==
    /\ exec.at = "reading"
    /\ IF Kept(ChunkBytes) >= PreviewBytes
       THEN End(ClassifyResponse(exec.status), Kept(ChunkBytes))
       ELSE /\ exec' = [exec EXCEPT !.size = Kept(ChunkBytes), !.quiet = 0]
            /\ UNCHANGED <<setup, job, attempts>>
    /\ UNCHANGED <<pooled, ghosts>>

\* Something is heard that completes neither the connection nor the headers nor a
\* chunk, a turn of the TLS handshake or some bytes: httpx starts a new wait.
Trickle ==
    /\ exec.at \in {"connecting", "exchanging", "reading"} /\ exec.quiet > 0
    /\ exec' = [exec EXCEPT !.quiet = 0]
    /\ UNCHANGED <<setup, job, pooled, attempts, ghosts>>

\* The body ends, with what was left in the last chunk; the connection is idle
\* again.
BodyEnds ==
    /\ exec.at = "reading"
    /\ \E n \in 0 .. ChunkBytes - 1 : End(ClassifyResponse(exec.status), Kept(n))
    /\ pooled' = exec.peer
    /\ UNCHANGED ghosts

\* The connection is refused or breaks, the target does not speak HTTP or hangs
\* up without an answer, the body cannot be decoded.
NetworkFails(error) ==
    /\ \/ exec.at \in {"connecting", "exchanging", "reading"} /\ error = "network"
       \/ exec.at \in {"exchanging", "reading"} /\ error = "protocol"
       \/ exec.at = "reading" /\ error = "decoding"
    /\ End(ClassifyError(error), 0)
    /\ Interrupted
    /\ UNCHANGED <<pooled, sent, cancels>>

\* The outer TimeoutError is taken for a cancellation.
Mut_HttpTimeout ==
    /\ OperationDue \/ ExecutionDue
    /\ IF ExecutionDue THEN GiveBack ELSE End("timeout", 0)
    /\ Interrupted
    /\ UNCHANGED <<pooled, sent, cancels>>

\* httpx.TimeoutException, or the outer TimeoutError.
HttpTimeout ==
    /\ OperationDue \/ ExecutionDue
    /\ End("timeout", 0)
    /\ Interrupted
    /\ UNCHANGED <<pooled, sent, cancels>>

-----------------------------------------------------------------------------
(* PythonHandlerExecutor.execute *)

HandlerEnds(end) ==
    /\ exec.at = "handling"
    /\ End(ClassifyHandler(end), 0)
    /\ answer' = IF end = "returns" THEN "success" ELSE answer
    /\ UNCHANGED <<pooled, sent, cancels>>

HandlerTimeout ==
    /\ HandlerDue
    /\ End("timeout", 0)
    /\ UNCHANGED <<pooled, ghosts>>

HandlerCancels ==
    /\ exec.at = "handling" /\ setup.handler = "cancelling" /\ sent < MaxSends
    /\ GiveBack \/ Abandon
    /\ UNCHANGED ghosts

-----------------------------------------------------------------------------
(* Shutdown and time *)

\* The task is cancelled wherever it stands, _record_result included, and
\* returns its lease or fails to.
Shutdown ==
    /\ exec.at \notin {"idle", "abandoned"} /\ cancels < MaxCancels
    /\ GiveBack \/ Abandon
    /\ cancels' = cancels + 1
    /\ Interrupted
    /\ UNCHANGED sent

Tick ==
    /\ exec.at \notin {"idle", "claimed", "recording", "abandoned"} /\ exec.elapsed < MaxTicks
    /\ ~ (OperationDue \/ ExecutionDue \/ HandlerDue)
    /\ exec' = [exec EXCEPT !.elapsed = @ + 1, !.quiet = @ + 1]
    /\ UNCHANGED <<setup, job, pooled, attempts, ghosts>>

-----------------------------------------------------------------------------
(* The specification *)

Init ==
    /\ setup \in Setups
    /\ job = [status |-> "absent", attempt_count |-> 0]
    /\ exec = Idle
    /\ pooled = NoPeer
    /\ attempts = <<>>
    /\ sent = 0
    /\ cancels = 0
    /\ answer = "none"

HttpNext ==
    \/ Reuse \/ Resolve \/ ResolveFails \/ Connected \/ ReadChunk \/ Trickle \/ BodyEnds
    \/ \E addresses \in SUBSET (Public \cup Private) : Resolved(addresses)
    \/ \E status \in Answers : Answer(status)
    \/ \E error \in {"network", "protocol", "decoding"} : NetworkFails(error)

HandlerNext ==
    \/ \E end \in {"returns", "TimeoutError", "RetryableJobError", "other"} : HandlerEnds(end)
    \/ HandlerCancels

Next ==
    \/ Enqueue \/ Claim \/ Reject \/ Dispatch \/ HttpNext \/ HandlerNext
    \/ HttpTimeout \/ HandlerTimeout \/ Record \/ RecordingFails \/ Recover
    \/ Shutdown \/ Tick

Spec == Init /\ [][Next]_vars

\* The worker claims, dispatches and records, or fails to record, time passes,
\* timers fire and expired leases are recovered; nobody obliges target, name
\* service or handler to do anything.
Fairness ==
    /\ WF_vars(Claim) /\ WF_vars(Reject \/ Dispatch) /\ WF_vars(Resolve \/ Reuse)
    /\ WF_vars(Tick) /\ WF_vars(HttpTimeout \/ HandlerTimeout)
    /\ WF_vars(Record \/ RecordingFails) /\ WF_vars(Recover)

LiveSpec == Spec /\ Fairness

-----------------------------------------------------------------------------
(* Properties *)

\* Every variable has its type; in particular the preview that goes into the
\* attempt row never passes RESPONSE_PREVIEW_BYTES, which is not a multiple of
\* the chunk size, and attempts given back never drop below 0.
TypeOK ==
    /\ setup \in Setups
    /\ job \in Job
    /\ exec \in Exec
    /\ pooled \in Public \cup Private \cup {NoPeer}
    /\ attempts \in Seq(Attempt)
    /\ sent \in Nat /\ cancels \in 0..MaxCancels
    /\ answer \in {"none", "success", "cut"}

\* An execution is over one second after its timeout, however slowly the name
\* service answers or the body drips in, although every drop restarts the timer
\* of httpx.  Only a handler that swallows its cancellation goes on.
EndsInTime == setup.handler # "stubborn" => exec.elapsed <= Timeout + 1

\* With block_private_network_targets on, no connection is made to or kept for
\* a blocked address, whatever the name resolves to from one time to the next.
PublicPeer == setup.block => exec.peer \notin Private /\ pooled \notin Private

\* A target or handler whose success the worker has heard of is called again only
\* if that success was lost on the way to the database: the answer cut short by
\* the network or a timer before its preview was read, the execution or the
\* recording cancelled by a shutdown, or the recording failed (the at-least-once
\* delivery of docs/production.md).  A success that is heard of and recorded, or
\* on its way there undisturbed, is never repeated.
RedeliveredOnlyIfCut == [][sent' > sent => answer # "success"]_vars

\* A job is sent at most once per attempt that counts, and once more for each
\* execution that a shutdown took back.
DeliveriesCounted ==
    setup.handler # "cancelling" => sent <= job.attempt_count + cancels

\* Delays stay within 1..retry_max_seconds, and do not shrink from one attempt
\* to the next as long as the base doubles and the jitter is at most a third.
BackoffGrows ==
    \A i \in DOMAIN attempts : attempts[i].delay # 0 =>
        /\ attempts[i].delay \in 1..RetryMax
        /\ i > 1 /\ BaseDelay(i) = 2 * BaseDelay(i - 1) /\ 3 * JitterPercent <= 100 =>
            attempts[i - 1].delay <= attempts[i].delay

\* The one job of this module lives as JobContract promises.
Contract == INSTANCE JobContract WITH
    Jobs          <- {"job"},
    status        <- [j \in {"job"} |-> job.status],
    attempt_count <- [j \in {"job"} |-> job.attempt_count],
    history       <- [j \in {"job"} |->
                        [i \in DOMAIN attempts |-> [number  |-> attempts[i].number,
                                                    status  |-> attempts[i].status,
                                                    outcome |-> attempts[i].outcome]]]

\* What target, name service, handler, timers and failing recordings do to an
\* execution ends in a step that the documented life of a job allows: a timeout, a
\* retryable failure or an expired lease is retried as long as an attempt is left,
\* and only a permanent failure ends a job that has any.
ImplementsContract == Contract!Spec

\* Every enqueued job comes to an end, although nobody else does anything: timers end
\* the executions and attempts run out.  A handler that swallows cancellations
\* may hang, and one that raises CancelledError starts again without end.
JobEnds ==
    job.status = "pending" /\ setup.handler \notin {"stubborn", "cancelling"}
        ~> job.status \in {"succeeded", "dead_letter"}

=============================================================================
