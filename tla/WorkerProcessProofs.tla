------------------------- MODULE WorkerProcessProofs -------------------------
(***************************************************************************)
(* Theorems about WorkerProcess: the pool that validate_runtime asks for   *)
(* suffices for any worker_concurrency, a worker's row tells the truth     *)
(* about it, and doctor raises no alarm put together from two moments.     *)
(***************************************************************************)
EXTENDS WorkerProcess, FiniteSetTheorems, TLAPS

-----------------------------------------------------------------------------
(* Sessions *)

SessionTypes ==
    /\ pool \in Nat
    /\ session \in [Users -> {"none", "waiting", "using"}]
    /\ slot \in [Slots -> {"free", "executing", "finishing"}]

\* A task has at most one session: its heartbeat's while it executes, or the
\* one that records or returns its job while it finishes.
OneSessionPerTask ==
    \A s \in Slots :
        /\ session[<<s, "heartbeat">>] # "none" => slot[s] = "executing"
        /\ session[<<s, "finish">>] # "none" => slot[s] = "finishing"

\* Only a worker that passed validate_runtime takes sessions, and none is left
\* when it is down; the loops have none once they are over.
SessionsWhileUp ==
    /\ loop # "down" => ValidRuntime
    /\ loop = "down" => \A s \in Slots : slot[s] = "free"
    /\ loop \in {"shutdown", "down"} =>
        session[ClaimLoop] = "none" /\ session[PurgeLoop] = "none"

PoolInv == SessionTypes /\ OneSessionPerTask /\ SessionsWhileUp

\* The users of the pool are all different.
LEMMA UserNames ==
    /\ ClaimLoop \in Users /\ PurgeLoop \in Users /\ ClaimLoop # PurgeLoop
    /\ \A s \in Slots : /\ <<s, "heartbeat">> \in Users /\ <<s, "finish">> \in Users
                        /\ <<s, "heartbeat">> # ClaimLoop /\ <<s, "heartbeat">> # PurgeLoop
                        /\ <<s, "finish">> # ClaimLoop /\ <<s, "finish">> # PurgeLoop
                        /\ \A t \in Slots : /\ <<s, "heartbeat">> # <<t, "finish">>
                                            /\ s # t => /\ <<s, "heartbeat">> # <<t, "heartbeat">>
                                                        /\ <<s, "finish">> # <<t, "finish">>
    /\ \A u \in Users : \/ u \in {ClaimLoop, PurgeLoop}
                        \/ \E s \in Slots : u \in {<<s, "heartbeat">>, <<s, "finish">>}
  BY UsersAssumption DEF Users

\* A step that leaves slots alone and changes the sessions of the loops only.
LEMMA LoopSessions ==
    ASSUME PoolInv, UNCHANGED <<pool, slot>>, session' \in [Users -> {"none", "waiting", "using"}],
           \A s \in Slots : /\ session'[<<s, "heartbeat">>] = session[<<s, "heartbeat">>]
                            /\ session'[<<s, "finish">>] = session[<<s, "finish">>],
           loop' # "down" => ValidRuntime,
           loop' = "down" => \A s \in Slots : slot[s] = "free",
           loop' \in {"shutdown", "down"} =>
               session'[ClaimLoop] = "none" /\ session'[PurgeLoop] = "none"
    PROVE  PoolInv'
  BY DEF PoolInv, SessionTypes, OneSessionPerTask, SessionsWhileUp, ValidRuntime

\* The top of the claim loop gives a session to that loop, or takes both.
LEMMA IterateSessions ==
    ASSUME PoolInv, loop # "down", UNCHANGED <<pool, slot>>, Iterate(session)
    PROVE  PoolInv'
  <1>1. session \in [Users -> {"none", "waiting", "using"}] /\ ValidRuntime
    BY DEF PoolInv, SessionTypes, SessionsWhileUp
  <1>2. session' \in [Users -> {"none", "waiting", "using"}]
    BY <1>1 DEF Iterate
  <1>3. \A s \in Slots : /\ session'[<<s, "heartbeat">>] = session[<<s, "heartbeat">>]
                         /\ session'[<<s, "finish">>] = session[<<s, "finish">>]
    BY <1>1, UserNames DEF Iterate
  <1>4. /\ loop' \in {"shutdown", "heartbeat"}
        /\ loop' = "shutdown" => session'[ClaimLoop] = "none" /\ session'[PurgeLoop] = "none"
    BY <1>1, UserNames DEF Iterate
  <1> QED
    BY <1>1, <1>2, <1>3, <1>4, LoopSessions

LEMMA NextPool == PoolInv /\ [Next]_vars => PoolInv'
  <1> SUFFICES ASSUME PoolInv, [Next]_vars PROVE PoolInv'
    OBVIOUS
  <1>0. /\ pool \in Nat /\ session \in [Users -> {"none", "waiting", "using"}]
        /\ slot \in [Slots -> {"free", "executing", "finishing"}]
    BY DEF PoolInv, SessionTypes
  <1>1. CASE UNCHANGED vars
    BY <1>1 DEF vars, PoolInv, SessionTypes, OneSessionPerTask, SessionsWhileUp, ValidRuntime
  <1>2. CASE StartWorker
    BY <1>0, <1>2, UserNames, LoopSessions DEF StartWorker
  <1>3. CASE Register \/ WakeUp
    BY <1>3, IterateSessions DEF Register, WakeUp
  <1>4. CASE RegisterFails \/ Heartbeat \/ LoopFails
    <2>1. loop # "down" /\ loop' # "down" /\ ValidRuntime /\ UNCHANGED <<pool, slot>>
      BY <1>4 DEF RegisterFails, Heartbeat, LoopFails, PoolInv, SessionsWhileUp
    <2>2. /\ session' \in [Users -> {"none", "waiting", "using"}]
          /\ \A s \in Slots : /\ session'[<<s, "heartbeat">>] = session[<<s, "heartbeat">>]
                              /\ session'[<<s, "finish">>] = session[<<s, "finish">>]
          /\ loop' = "shutdown" => session'[ClaimLoop] = "none" /\ session'[PurgeLoop] = "none"
      BY <1>0, <1>4, UserNames DEF RegisterFails, Heartbeat, LoopFails
    <2> QED
      BY <2>1, <2>2, LoopSessions
  <1>5. ASSUME NEW C \in SUBSET Slots, Claim(C) PROVE PoolInv'
    <2>1. /\ slot' \in [Slots -> {"free", "executing", "finishing"}]
          /\ \A s \in Slots : slot[s] # "free" => slot'[s] = slot[s]
      BY <1>0, <1>5 DEF Claim
    <2>2. loop # "down" /\ loop' # "down" /\ ValidRuntime
      BY <1>5 DEF Claim, Iterate, PoolInv, SessionsWhileUp
    <2>3. /\ session' \in [Users -> {"none", "waiting", "using"}]
          /\ \A s \in Slots : /\ session'[<<s, "heartbeat">>] = session[<<s, "heartbeat">>]
                              /\ session'[<<s, "finish">>] = session[<<s, "finish">>]
          /\ loop' = "shutdown" => session'[ClaimLoop] = "none" /\ session'[PurgeLoop] = "none"
      BY <1>0, <1>5, UserNames DEF Claim, Iterate
    <2>4. UNCHANGED pool
      BY <1>5 DEF Claim
    <2> QED
      BY <1>0, <2>1, <2>2, <2>3, <2>4
         DEF PoolInv, SessionTypes, OneSessionPerTask, SessionsWhileUp, ValidRuntime
  <1>6. CASE RequestStop
    BY <1>6 DEF RequestStop, PoolInv, SessionTypes, OneSessionPerTask, SessionsWhileUp,
                ValidRuntime
  <1>7. CASE Exit
    BY <1>7 DEF Exit, PoolInv, SessionTypes, OneSessionPerTask, SessionsWhileUp, ValidRuntime
  <1>8. CASE Crash
    BY <1>0, <1>8, UserNames DEF Crash, PoolInv, SessionTypes, OneSessionPerTask, SessionsWhileUp,
                ValidRuntime
  <1>9. CASE PurgeBegins \/ PurgeEnds
    <2>1. UNCHANGED <<pool, slot, loop>> /\ loop \notin {"shutdown", "down"}
      BY <1>9 DEF PurgeBegins, PurgeEnds, InLoop, PoolInv, SessionsWhileUp
    <2>2. /\ session' \in [Users -> {"none", "waiting", "using"}]
          /\ \A s \in Slots : /\ session'[<<s, "heartbeat">>] = session[<<s, "heartbeat">>]
                              /\ session'[<<s, "finish">>] = session[<<s, "finish">>]
      BY <1>0, <1>9, UserNames DEF PurgeBegins, PurgeEnds
    <2> QED
      BY <2>1, <2>2, LoopSessions DEF PoolInv, SessionsWhileUp
  <1>10. ASSUME NEW u \in Users, Checkout(u) PROVE PoolInv'
    <2>1. session' = [session EXCEPT ![u] = "using"] /\ session[u] = "waiting"
      BY <1>10 DEF Checkout
    <2>2. /\ session' \in [Users -> {"none", "waiting", "using"}]
          /\ \A v \in Users : session'[v] = "none" <=> session[v] = "none"
      BY <1>0, <2>1
    <2> QED
      BY <1>10, <2>2, UserNames DEF Checkout, PoolInv, SessionTypes, OneSessionPerTask,
                                    SessionsWhileUp, ValidRuntime
  <1>11. ASSUME NEW s \in Slots, TaskNext(s) PROVE PoolInv'
    <2>1. CASE LeaseHeartbeatBegins(s) \/ LeaseHeartbeatEnds(s)
      <3>1. /\ slot[s] = "executing" /\ UNCHANGED <<pool, loop, slot>>
            /\ session' \in [Users -> {"none", "waiting", "using"}]
            /\ \A v \in Users : v # <<s, "heartbeat">> => session'[v] = session[v]
        BY <1>0, <2>1, UserNames DEF LeaseHeartbeatBegins, LeaseHeartbeatEnds, PoolInv,
                                     OneSessionPerTask
      <3> QED
        BY <3>1, UserNames DEF PoolInv, SessionTypes, OneSessionPerTask, SessionsWhileUp,
                               ValidRuntime
    <2>2. CASE ExecutionEnds(s)
      <3>1. /\ slot[s] = "executing" /\ UNCHANGED <<pool, loop>>
            /\ slot' \in [Slots -> {"free", "executing", "finishing"}]
            /\ \A t \in Slots : t # s => slot'[t] = slot[t]
            /\ session' \in [Users -> {"none", "waiting", "using"}]
            /\ \A v \in Users : v \notin {<<s, "heartbeat">>, <<s, "finish">>} =>
                   session'[v] = session[v]
            /\ session'[<<s, "heartbeat">>] = "none"
            /\ session'[<<s, "finish">>] # "none" => slot'[s] = "finishing"
        BY <1>0, <2>2, UserNames DEF ExecutionEnds
      <3> QED
        BY <3>1, UserNames DEF PoolInv, SessionTypes, OneSessionPerTask, SessionsWhileUp,
                               ValidRuntime
    <2>3. CASE Finish(s)
      <3>1. /\ slot[s] = "finishing" /\ UNCHANGED <<pool, loop>>
            /\ session[<<s, "heartbeat">>] = "none"
        BY <2>3, UserNames DEF Finish, PoolInv, OneSessionPerTask
      <3>2. /\ slot' \in [Slots -> {"free", "executing", "finishing"}]
            /\ \A t \in Slots : t # s => slot'[t] = slot[t]
            /\ session' \in [Users -> {"none", "waiting", "using"}]
            /\ \A v \in Users : v # <<s, "finish">> => session'[v] = session[v]
            /\ session'[<<s, "finish">>] = "none"
        BY <1>0, <2>3, UserNames DEF Finish
      <3> QED
        BY <3>1, <3>2, UserNames DEF PoolInv, SessionTypes, OneSessionPerTask, SessionsWhileUp,
                                     ValidRuntime
    <2> QED
      BY <1>11, <2>1, <2>2, <2>3 DEF TaskNext
  <1>12. CASE OperatorNext \/ Tick
    BY <1>12 DEF OperatorNext, DoctorBegins, DoctorReadsJobs, DoctorReadsWorkers, DoctorReturns,
                 RowDeleted, OthersChange, JobsChange, Tick, process, PoolInv, SessionTypes, OneSessionPerTask,
                 SessionsWhileUp, ValidRuntime
  <1> QED
    BY <1>1, <1>2, <1>3, <1>4, <1>5, <1>6, <1>7, <1>8, <1>9, <1>10, <1>11, <1>12 DEF Next, Step

LEMMA PoolInvariant == Spec => []PoolInv
  <1>1. Init => PoolInv
    BY PoolAssumption, UserNames DEF Init, PoolInv, SessionTypes, OneSessionPerTask,
                                     SessionsWhileUp
  <1> QED
    BY <1>1, NextPool, PTL DEF Spec

-----------------------------------------------------------------------------
(* The pool *)

\* Whoever has or waits for a session.
Busy == {u \in Users : session[u] # "none"}

\* There are not more of them than loops and tasks: to each belongs a place
\* of its own among the two loops and the finishing sessions.
LEMMA BusyBound ==
    ASSUME PoolInv
    PROVE  IsFiniteSet(Busy) /\ Cardinality(Busy) <= Concurrency + 2
  <1> DEFINE F == Slots \X {"finish"}
             P == (F \cup {ClaimLoop}) \cup {PurgeLoop}
             place == [u \in Busy |-> IF u \in {ClaimLoop, PurgeLoop} THEN u
                                      ELSE <<u[1], "finish">>]
  <1>1. IsFiniteSet(F) /\ Cardinality(F) = Concurrency
    <2>1. IsFiniteSet({"finish"}) /\ Cardinality({"finish"}) = 1
      BY FS_Singleton
    <2>2. IsFiniteSet(F) /\ Cardinality(F) = Cardinality(Slots) * Cardinality({"finish"})
      BY <2>1, SlotsAssumption, FS_Product
    <2> QED
      BY <2>1, <2>2, SlotsAssumption, FS_CardinalityType DEF Concurrency
  <1>2. Concurrency \in Nat
    BY SlotsAssumption, FS_CardinalityType DEF Concurrency
  <1>3. IsFiniteSet(F \cup {ClaimLoop}) /\ Cardinality(F \cup {ClaimLoop}) = Concurrency + 1
    <2>1. ClaimLoop \notin F
      BY UsersAssumption
    <2> QED
      BY <1>1, <2>1, FS_AddElement
  <1>4. IsFiniteSet(P) /\ Cardinality(P) = Concurrency + 2
    <2>1. PurgeLoop \notin F \cup {ClaimLoop}
      BY UsersAssumption
    <2> QED
      BY <1>2, <1>3, <2>1, FS_AddElement
  <1>5. \A u \in Busy : \/ u \in {ClaimLoop, PurgeLoop}
                        \/ \E s \in Slots : u \in {<<s, "heartbeat">>, <<s, "finish">>}
    BY UserNames DEF Busy
  <1>6. place \in [Busy -> P]
    BY <1>5, UserNames
  <1>7. ASSUME NEW u \in Busy, NEW v \in Busy, place[u] = place[v]
        PROVE  u = v
    <2>1. CASE u \in {ClaimLoop, PurgeLoop} \/ v \in {ClaimLoop, PurgeLoop}
      BY <1>5, <1>7, <2>1, UserNames
    <2>2. CASE u \notin {ClaimLoop, PurgeLoop} /\ v \notin {ClaimLoop, PurgeLoop}
      <3>1. PICK s \in Slots : u \in {<<s, "heartbeat">>, <<s, "finish">>}
        BY <1>5, <2>2
      <3>2. PICK t \in Slots : v \in {<<t, "heartbeat">>, <<t, "finish">>}
        BY <1>5, <2>2
      <3>3. s = t
        BY <1>7, <2>2, <3>1, <3>2
      <3>4. ~ (session[<<s, "heartbeat">>] # "none" /\ session[<<s, "finish">>] # "none")
        BY DEF PoolInv, OneSessionPerTask
      <3> QED
        BY <3>1, <3>2, <3>3, <3>4 DEF Busy
    <2> QED
      BY <2>1, <2>2
  <1>8. place \in Injection(Busy, P)
    BY <1>6, <1>7 DEF Injection, IsInjective
  <1> QED
    BY <1>2, <1>4, <1>8, FS_Injection

\* worker_concurrency + 2 connections, which validate_runtime asks for, are
\* enough for every worker_concurrency: nobody ever waits for one.
THEOREM PoolIsEnough == Spec => []PoolSuffices
  <1>1. PoolInv => PoolSuffices
    <2> SUFFICES ASSUME PoolInv PROVE PoolSuffices
      OBVIOUS
    <2> DEFINE U == {u \in Users : session[u] = "using"}
               W == {u \in Users : session[u] = "waiting"}
    <2>1. U \cup W = Busy /\ U \cap W = {}
      BY DEF PoolInv, SessionTypes, Busy
    <2>2. IsFiniteSet(Busy) /\ Cardinality(Busy) <= Concurrency + 2
      BY BusyBound
    <2>3. IsFiniteSet(U) /\ IsFiniteSet(W)
      BY <2>1, <2>2, FS_Subset
    <2>4. Cardinality(Busy) = Cardinality(U) + Cardinality(W)
      <3>1. Cardinality(U \cup W) = Cardinality(U) + Cardinality(W) - Cardinality(U \cap W)
        BY <2>3, FS_Union
      <3>2. Cardinality(U \cap W) = 0
        BY <2>1, FS_EmptySet
      <3>3. Cardinality(U) \in Nat /\ Cardinality(W) \in Nat
        BY <2>3, FS_CardinalityType
      <3> HIDE DEF U, W
      <3> QED
        BY <2>1, <3>1, <3>2, <3>3
    <2>5. Cardinality(Busy) \in Nat /\ Concurrency \in Nat /\ pool \in Nat
      BY <2>2, SlotsAssumption, FS_CardinalityType DEF PoolInv, SessionTypes, Concurrency
    <2>6. CASE loop # "down"
      <3>1. pool >= Concurrency + 2
        BY <2>6 DEF PoolInv, SessionsWhileUp, ValidRuntime
      <3> QED
        BY <2>2, <2>4, <2>5, <3>1 DEF PoolSuffices, InUse, Waiting
    <2>7. CASE loop = "down"
      <3>1. Busy = {}
        BY <2>7, UserNames DEF Busy, PoolInv, OneSessionPerTask, SessionsWhileUp
      <3>2. Cardinality(Busy) = 0
        BY <3>1, FS_EmptySet
      <3> QED
        BY <2>4, <2>5, <3>2 DEF PoolSuffices, InUse, Waiting
    <2> QED
      BY <2>6, <2>7
  <1> QED
    BY <1>1, PoolInvariant, PTL

-----------------------------------------------------------------------------
(* The worker's row *)

\* In an unexcused claim loop the row is at most as old as the last sleep, and
\* fresh when the claim begins.
RowFresh ==
    /\ slept \in Nat /\ slept <= 1
    /\ InLoop /\ ~ excused =>
        /\ row \in {0, 1} /\ loop # "saturated"
        /\ loop = "claim" => row = 0
        /\ loop = "sleep" => row <= slept

LEMMA RowInvariant == Spec => []RowFresh
  <1>1. Init => RowFresh
    BY DEF Init, RowFresh, InLoop
  <1>2. RowFresh /\ [Next]_vars => RowFresh'
    <2> SUFFICES ASSUME RowFresh, [Next]_vars PROVE RowFresh'
      OBVIOUS
    <2> USE DEF RowFresh, InLoop
    <2>1. CASE UNCHANGED vars
      BY <2>1 DEF vars
    <2>2. CASE StartWorker \/ RegisterFails \/ Exit \/ Crash
      BY <2>2 DEF StartWorker, RegisterFails, Exit, Crash
    <2>3. CASE Register \/ WakeUp
      BY <2>3 DEF Register, WakeUp, Iterate
    <2>4. CASE Heartbeat \/ LoopFails
      BY <2>4 DEF Heartbeat, LoopFails
    <2>5. ASSUME NEW C \in SUBSET Slots, Claim(C) PROVE RowFresh'
      <3>1. slept' = 0 /\ row' = row /\ loop = "claim"
        BY <2>5 DEF Claim
      <3>2. CASE Saturated(slot')
        <4>1. excused'
          BY <2>5, <3>2 DEF Claim
        <4> QED
          BY <3>1, <4>1
      <3>3. CASE ~ Saturated(slot')
        <4>1. loop' \in {"sleep", "shutdown", "heartbeat"} /\ (excused' <=> excused)
          BY <2>5, <3>3 DEF Claim, Iterate
        <4> QED
          BY <3>1, <4>1
      <3> QED
        BY <3>2, <3>3
    <2>6. CASE RequestStop \/ PurgeBegins \/ PurgeEnds
      BY <2>6 DEF RequestStop, PurgeBegins, PurgeEnds
    <2>7. ASSUME NEW u \in Users, Checkout(u) PROVE RowFresh'
      BY <2>7 DEF Checkout
    <2>8. ASSUME NEW s \in Slots, TaskNext(s) PROVE RowFresh'
      BY <2>8 DEF TaskNext, LeaseHeartbeatBegins, LeaseHeartbeatEnds, ExecutionEnds, Finish
    <2>9. CASE OperatorNext
      BY <2>9 DEF OperatorNext, DoctorBegins, DoctorReadsJobs, DoctorReadsWorkers, DoctorReturns,
                  RowDeleted, OthersChange, JobsChange, process
    <2>10. CASE Tick
      <3>1. AliveTicks \in Nat /\ NoRow \notin Int
        BY TicksAssumption
      <3> QED
        BY <2>10, <3>1 DEF Tick
    <2> QED
      BY <2>1, <2>2, <2>3, <2>4, <2>5, <2>6, <2>7, <2>8, <2>9, <2>10 DEF Next, Step
  <1> QED
    BY <1>1, <1>2, PTL DEF Spec

LEMMA FreshIsAlive == RowFresh => SeenAlive
  BY TicksAssumption DEF RowFresh, SeenAlive, Alive

\* A worker in its claim loop is listed as alive, unless it is saturated, met
\* an error or lost its row since its last heartbeat.
THEOREM WorkersSeenAlive == Spec => []SeenAlive
  BY RowInvariant, FreshIsAlive, PTL

-----------------------------------------------------------------------------
(* The doctor *)

\* Whoever is alive during doctor's transaction counts; and once it has seen a
\* stale job, somebody counts or there are grounds for an alarm.
AlarmInv ==
    /\ grounds \in BOOLEAN
    /\ doctor \in {"begun", "stale"} => AliveOnes \subseteq counted
    /\ doctor \in {"begun", "stale"} /\ stale /\ AliveOnes = {} => grounds
    /\ doctor = "stale" => grounds \/ counted # {}
    /\ AlarmJustified

\* What a step may do to doctor.
LEMMA DoctorSteps ==
    ASSUME Step
    PROVE  \/ UNCHANGED doctor
           \/ doctor' \in {"idle", "begun"}
           \/ doctor = "begun" /\ doctor' = "stale" /\ stale /\ UNCHANGED <<row, others, stale>>
           \/ doctor = "stale" /\ doctor' = "alarm" /\ counted = {}
  <1>1. CASE OperatorNext
    BY <1>1 DEF OperatorNext, DoctorBegins, DoctorReadsJobs, DoctorReadsWorkers, DoctorReturns,
                RowDeleted, OthersChange, JobsChange
  <1>2. CASE ~ OperatorNext
    BY <1>2 DEF Step, StartWorker, Register, RegisterFails, Heartbeat, LoopFails, WakeUp, Claim,
                RequestStop, Exit, Crash, PurgeBegins, PurgeEnds, Checkout, TaskNext,
                LeaseHeartbeatBegins, LeaseHeartbeatEnds, ExecutionEnds, Finish, Tick
  <1> QED
    BY <1>1, <1>2

\* doctor raises no alarm put together from two different moments: since it
\* began, a stale job and no worker alive came together, or a row that counts
\* was deleted.
THEOREM AlarmsJustified == Spec => []AlarmJustified
  <1>1. Init => AlarmInv
    BY DEF Init, AlarmInv, AlarmJustified
  <1>2. AlarmInv /\ [Next]_vars => AlarmInv'
    <2> SUFFICES ASSUME AlarmInv, [Next]_vars PROVE AlarmInv'
      OBVIOUS
    <2>1. CASE UNCHANGED vars
      BY <2>1 DEF vars, AlarmInv, AlarmJustified, AliveOnes, Alive
    <2>2. CASE Next
      <3>1. AliveOnes' \subseteq Listed'
        BY DEF AliveOnes, Listed, Alive
      <3>2. /\ grounds' \in BOOLEAN
            /\ doctor' \in {"begun", "stale"} => AliveOnes' \subseteq counted'
            /\ doctor' \in {"begun", "stale"} /\ stale' /\ AliveOnes' = {} => grounds'
        BY <2>2, <3>1 DEF Next, Watch
      <3>3. doctor' # "idle" /\ grounds => grounds'
        BY <2>2 DEF Next, Watch
      <3>4. CASE UNCHANGED doctor
        <4>1. doctor' = "stale" => grounds' \/ counted' # {}
          BY <2>2, <3>3, <3>4 DEF Next, Watch, AlarmInv
        <4> QED
          BY <3>2, <3>3, <3>4, <4>1 DEF AlarmInv, AlarmJustified
      <3>5. CASE doctor' \in {"idle", "begun"}
        BY <3>2, <3>5 DEF AlarmInv, AlarmJustified
      <3>6. CASE /\ doctor = "begun" /\ doctor' = "stale" /\ stale
                 /\ UNCHANGED <<row, others, stale>>
        <4>1. AliveOnes' = {} => grounds'
          BY <3>2, <3>6
        <4>2. AliveOnes' # {} => counted' # {}
          BY <3>2, <3>6
        <4> QED
          BY <3>2, <3>6, <4>1, <4>2 DEF AlarmInv, AlarmJustified
      <3>7. CASE doctor = "stale" /\ doctor' = "alarm" /\ counted = {}
        BY <3>2, <3>3, <3>7 DEF AlarmInv, AlarmJustified
      <3> QED
        BY <2>2, <3>4, <3>5, <3>6, <3>7, DoctorSteps DEF Next
    <2> QED
      BY <2>1, <2>2
  <1>3. AlarmInv => AlarmJustified
    BY DEF AlarmInv
  <1> QED
    BY <1>1, <1>2, <1>3, PTL DEF Spec

=============================================================================
