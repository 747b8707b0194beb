---------------------------- MODULE CronJobs_proofs ----------------------------
(***************************************************************************)
(* Proofs about CronJobs, for every set of jobs, schedules, leases and     *)
(* backoffs, and for every number of instances, edits and crashes.         *)
(***************************************************************************)
EXTENDS CronJobs, FiniteSetTheorems, TLAPS

\* The worker has one execution at a time and is busy while it has one.
OneExecution ==
    /\ \A e, f \in execs : e = f
    /\ execs # {} => workerBusy

\* An instance is absent, or it belongs to a job that exists.
RowsHaveJobs ==
    \A i \in Instances :
        IF inst[i].state = "absent" THEN inst[i] = NoInstance
        ELSE inst[i].job \in Jobs /\ Exists(inst[i].job)

\* Ids are given out once: an execution whose row is gone never finds another.
IdsGivenOnce ==
    /\ \A i \in Instances : i > used => inst[i].state = "absent" /\ answered[i] = 0
    /\ \A e \in execs : e.inst <= used

\* The row of an execution is as the execution left it, or deleted.
RowOfExecution ==
    \A e \in execs :
        LET r == inst[e.inst]
        IN  /\ e.attempt >= 1
            /\ \/ r.state = "absent"
               \/ r.state = "leased" /\ e.stage = "leased" /\ r.attempt = e.attempt - 1
               \/ r.state = "running" /\ e.stage # "leased" /\ r.attempt = e.attempt

\* A running row that no execution works on has lost its attempt to a crash; so
\* has every attempt above MaxAttempts.
AttemptsLeft ==
    \A i \in Instances :
        /\ inst[i].attempt <= MaxAttempts + crashes
        /\ inst[i].state \in {"queued", "leased"} => inst[i].attempt < MaxAttempts + crashes
        /\ inst[i].state = "running" /\ (\A e \in execs : e.inst # i) =>
              inst[i].attempt < MaxAttempts + crashes
        /\ inst[i].state = "failed" => inst[i].attempt < MaxAttempts
        /\ inst[i].state = "dead" => inst[i].attempt >= MaxAttempts

\* An instance that may still be asked for has been answered only in attempts a
\* crash has lost.
MayAnswer(i) ==
    \/ inst[i].state \in {"queued", "leased", "failed"}
    \/ inst[i].state = "running" /\ \A e \in execs : e.inst = i => e.stage # "done"
    \/ \E e \in execs : e.inst = i /\ e.stage \notin {"done", "failed"}

AnswersLeft ==
    \A i \in Instances :
        /\ answered[i] <= 1 + crashes
        /\ MayAnswer(i) => answered[i] <= crashes

\* The jobs that exist are finitely many, those of a tick among them.
JobsExist ==
    /\ IsFiniteSet({j \in Jobs : Exists(j)})
    /\ \A n \in DOMAIN tick : Exists(tick[n])

\* ExecutionOwnsInstance is not inductive: what an execution finds depends on
\* ids being given out once, and its attempts on what the crashes have taken.
Ownership ==
    /\ TypeOK
    /\ OneExecution
    /\ RowsHaveJobs
    /\ IdsGivenOnce
    /\ RowOfExecution
    /\ AttemptsLeft
    /\ AnswersLeft
    /\ JobsExist

\* A job whose thread is being spawned has none: nobody else can give it one.
SpawnedOnce ==
    \A e \in execs : e.stage = "spawning" /\ Exists(e.job) => def[e.job].thread = 0

\* Last is a due time of the schedule, and no due time up to it was missed.
Recorded(j) ==
    /\ def[j].schedule.kind = "every" /\ def[j].last # None =>
          /\ def[j].last > def[j].created
          /\ (def[j].last - def[j].created) % def[j].schedule.t = 0
    /\ \A t \in Occurrences(def[j]) : t <= def[j].last => HasInstance(j, t)

TimesKept ==
    /\ \A i, k \in Instances :
          i # k /\ inst[i].state # "absent" /\ inst[i].job = inst[k].job => inst[i].at # inst[k].at
    /\ \A j \in Jobs : Exists(j) /\ j \notin rescheduled => Recorded(j)

-------------------------------------------------------------------------------
(* Types.                                                                  *)

\* The wait before the next attempt is a number of instants.
LEMMA BackoffIsNat ==
  ASSUME NEW attempt \in Nat \ {0}
  PROVE  Backoff(attempt) \in Nat
  <1> DEFINE n == (IF attempt > 10 THEN 10 ELSE attempt) - 1
  <1>1. 2^n \in Nat
    <2>1. n \in 0..9
      OBVIOUS
    <2>2. \/ n = 0 \/ n = 1 \/ n = 2 \/ n = 3 \/ n = 4
          \/ n = 5 \/ n = 6 \/ n = 7 \/ n = 8 \/ n = 9
      BY <2>1
    <2>3. /\ 2^0 \in Nat /\ 2^1 \in Nat /\ 2^2 \in Nat /\ 2^3 \in Nat /\ 2^4 \in Nat
          /\ 2^5 \in Nat /\ 2^6 \in Nat /\ 2^7 \in Nat /\ 2^8 \in Nat /\ 2^9 \in Nat
      OBVIOUS
    <2> HIDE DEF n
    <2> QED
      BY <2>2, <2>3
  <1> HIDE DEF n
  <1>2. RetryBackoff \in Nat /\ RetryBackoffCap \in Nat
    BY CronAssumption
  <1>3. RetryBackoff * 2^n \in Nat
    BY <1>1, <1>2
  <1> QED
    BY <1>2, <1>3 DEF Backoff, n

\* A due time is an instant.
LEMMA DueTimesAreNat ==
  ASSUME NEW d \in Definition, now \in Nat, Horizon \in Nat, MaxPerTick \in Nat
  PROVE  DueTimes(d) \subseteq Nat
  <1> USE DEF Definition, Schedules, Kinds
  <1>1. DueOnce(d) \subseteq Nat
    BY DEF DueOnce
  <1>2. ASSUME d.schedule.kind = "every"
        PROVE  DueEvery(d) \subseteq Nat
    <2>1. Cursor(d) \in Nat /\ d.schedule.t \in Nat
      BY <1>2 DEF Cursor, None
    <2>2. \A n \in 1..MaxPerTick : n * d.schedule.t \in Nat
      BY <2>1
    <2> HIDE DEF Definition
    <2> QED
      BY <2>1, <2>2 DEF DueEvery
  <1>3. DueCron(d) \subseteq Nat
    BY DEF DueCron, CronMatches
  <1> QED
    BY <1>1, <1>2, <1>3 DEF DueTimes

\* A new definition, instance or execution has its type.
LEMMA InitTypes == Init => TypeOK
  <1> SUFFICES ASSUME Init PROVE TypeOK
    OBVIOUS
  <1> USE CronAssumption DEF Init
  <1>1. inst \in [Instances -> Instance]
    BY DEF Instance, NoInstance, InstanceStates, None
  <1>2. /\ now \in 0..Horizon /\ used \in 0..MaxInstances /\ crashes \in 0..MaxCrashes
        /\ edits \in 0..MaxEdits /\ manual \in 0..MaxManual
    OBVIOUS
  <1>3. /\ def \in [Jobs -> Definition \cup {NoDefinition}] /\ tick \in Seq(Jobs)
        /\ execs \subseteq Execution /\ rescheduled \subseteq Jobs
        /\ threads \in Nat /\ asked \in [Instances -> Nat] /\ answered \in [Instances -> Nat]
    OBVIOUS
  <1> QED
    BY <1>1, <1>2, <1>3 DEF TypeOK

\* An insertion keeps the types of the tables.
LEMMA InsertTypes ==
  ASSUME TypeOK, NEW j \in Jobs, NEW t \in Nat, Insert(j, t)
  PROVE  used' \in 0..MaxInstances /\ inst' \in [Instances -> Instance]
  <1>1. used + 1 \in Instances /\ used' \in 0..MaxInstances
    BY CronAssumption DEF TypeOK, Insert, Instances
  <1>2. [NoInstance EXCEPT !.job = j, !.at = t, !.state = "queued"] \in Instance
    BY DEF NoInstance, Instance, InstanceStates, None
  <1> QED
    BY <1>1, <1>2 DEF TypeOK, Insert

\* The clock, a crash and a boot keep the types.
LEMMA ProcessTypes ==
  ASSUME TypeOK, Boot \/ Crash \/ Clock
  PROVE  TypeOK'
  <1> USE CronAssumption DEF TypeOK, tables, memory, seen, budget
  <1>1. CASE Boot
    BY <1>1 DEF Boot
  <1>2. CASE Crash
    <2>1. tick' \in Seq(Jobs) /\ execs' \subseteq Execution /\ crashes' \in 0..MaxCrashes
      BY <1>2 DEF Crash
    <2> QED
      BY <1>2, <2>1 DEF Crash
  <1>3. CASE Clock
    <2>1. now' \in 0..Horizon
      BY <1>3 DEF Clock
    <2> QED
      BY <1>3, <2>1 DEF Clock
  <1> QED
    BY <1>1, <1>2, <1>3

\* Editing jobs keeps the types.
LEMMA EditTypes ==
  ASSUME TypeOK, NEW j \in Jobs,
         \/ \E d \in Drafts : CreateJob(j, d) \/ \E b \in BOOLEAN : UpdateJob(j, d, b)
         \/ DeleteJob(j)
         \/ RunJobNow(j)
  PROVE  TypeOK'
  <1> USE CronAssumption DEF TypeOK
  <1>1. ASSUME NEW d \in Drafts, CreateJob(j, d)
        PROVE  TypeOK'
    <2>1. [exists |-> TRUE, enabled |-> TRUE, mode |-> d.mode, schedule |-> d.schedule,
           last |-> None, created |-> now, thread |-> 0] \in Definition
      BY DEF Definition
    <2>2. def' \in [Jobs -> Definition \cup {NoDefinition}]
      BY <1>1, <2>1 DEF CreateJob
    <2>3. edits' \in 0..MaxEdits /\ rescheduled' \subseteq Jobs
      BY <1>1 DEF CreateJob, Edit
    <2>4. UNCHANGED <<now, inst, used, up, tick, workerBusy, execs, threads, asked, answered,
                      crashes, manual>>
      BY <1>1 DEF CreateJob, memory, seen
    <2> HIDE CronAssumption
    <2> QED
      BY <2>2, <2>3, <2>4
  <1>2. ASSUME NEW d \in Drafts, NEW b \in BOOLEAN, UpdateJob(j, d, b)
        PROVE  TypeOK'
    <2>1. def[j] \in Definition
      BY <1>2 DEF UpdateJob, Exists, NoDefinition
    <2>2. Updated(j, d, b) \in Definition
      BY <2>1 DEF Definition, Updated
    <2>3. def' \in [Jobs -> Definition \cup {NoDefinition}]
      BY <1>2, <2>2 DEF UpdateJob
    <2>4. edits' \in 0..MaxEdits /\ rescheduled' \subseteq Jobs
      BY <1>2 DEF UpdateJob, Edit
    <2>5. UNCHANGED <<now, inst, used, up, tick, workerBusy, execs, threads, asked, answered,
                      crashes, manual>>
      BY <1>2 DEF UpdateJob, memory, seen
    <2> HIDE CronAssumption
    <2> QED
      BY <2>3, <2>4, <2>5
  <1>3. CASE DeleteJob(j)
    <2>1. NoInstance \in Instance
      BY DEF NoInstance, Instance, InstanceStates, None
    <2>2. inst' \in [Instances -> Instance]
      BY <1>3, <2>1 DEF DeleteJob
    <2> QED
      BY <1>3, <2>2 DEF DeleteJob, Edit, memory, seen
  <1>4. CASE RunJobNow(j)
    <2>1. PICK t \in now..now + RunNowOffsets - 1 : Insert(j, t)
      BY <1>4 DEF RunJobNow
    <2>2. t \in Nat
      OBVIOUS
    <2>3. used' \in 0..MaxInstances /\ inst' \in [Instances -> Instance]
      BY <2>1, <2>2, InsertTypes
    <2>4. /\ manual < MaxManual /\ manual' = manual + 1
          /\ UNCHANGED <<now, def, up, memory, threads, seen, rescheduled, crashes, edits>>
      BY <1>4 DEF RunJobNow
    <2>5. manual' \in 0..MaxManual
      BY <2>4
    <2> QED
      BY <2>3, <2>4, <2>5 DEF memory, seen
  <1> QED
    BY <1>1, <1>2, <1>3, <1>4

\* The jobs of a tick that started are jobs that exist.
LEMMA OrdersAreSequences ==
  ASSUME NEW S, IsFiniteSet(S), NEW q \in Orders(S)
  PROVE  q \in Seq(S)
  <1>1. Cardinality(S) \in Nat
    BY FS_CardinalityType
  <1> QED
    BY <1>1 DEF Orders

\* A scheduler tick keeps the types.
LEMMA SchedulerTypes ==
  ASSUME TypeOK, JobsExist, SchedulerTick \/ EnqueueNext \/ RecordEnqueued
  PROVE  TypeOK'
  <1> USE CronAssumption DEF TypeOK
  <1>1. CASE SchedulerTick
    <2>1. IsFiniteSet(DueJobs)
      BY FS_Subset DEF DueJobs, JobsExist
    <2>2. tick' \in Seq(DueJobs)
      BY <1>1, <2>1, OrdersAreSequences DEF SchedulerTick
    <2>3. tick' \in Seq(Jobs)
      BY <2>2 DEF DueJobs
    <2> QED
      BY <1>1, <2>3 DEF SchedulerTick, tables, seen, budget
  <1>2. CASE EnqueueNext \/ RecordEnqueued
    <2>1. tick # <<>> /\ Head(tick) \in Jobs /\ Tail(tick) \in Seq(Jobs)
      BY <1>2 DEF EnqueueNext, RecordEnqueued
    <2>2. def[Head(tick)] \in Definition
      BY <2>1 DEF JobsExist, Exists, NoDefinition
    <2>3. DueTimes(def[Head(tick)]) \subseteq Nat
      BY <2>2, DueTimesAreNat
    <2>4. CASE EnqueueNext
      <3>1. PICK t \in Missing(Head(tick)) : Insert(Head(tick), t)
        BY <2>4 DEF EnqueueNext
      <3>2. t \in Nat
        BY <2>3 DEF Missing
      <3>3. used' \in 0..MaxInstances /\ inst' \in [Instances -> Instance]
        BY <2>1, <3>1, <3>2, InsertTypes
      <3> QED
        BY <2>4, <3>3 DEF EnqueueNext, memory, seen, budget
    <2>5. CASE RecordEnqueued
      <3>1. PICK t \in DueTimes(def[Head(tick)]) : def' = [def EXCEPT ![Head(tick)].last = t]
        BY <2>5 DEF RecordEnqueued
      <3>2. [def[Head(tick)] EXCEPT !.last = t] \in Definition
        BY <2>2, <2>3 DEF Definition
      <3>3. def' \in [Jobs -> Definition \cup {NoDefinition}]
        BY <2>1, <3>1, <3>2
      <3> QED
        BY <2>1, <2>5, <3>3 DEF RecordEnqueued, seen, budget
    <2> QED
      BY <1>2, <2>4, <2>5
  <1> QED
    BY <1>1, <1>2

\* Claiming an instance keeps the types.
LEMMA ClaimTypes == TypeOK /\ RowsHaveJobs /\ Claim => TypeOK'
  <1> SUFFICES ASSUME TypeOK, RowsHaveJobs, Claim PROVE TypeOK'
    OBVIOUS
  <1> USE CronAssumption DEF TypeOK
  <1> DEFINE table == [i \in Instances |-> Reclaimed(i)]
  <1>1. table \in [Instances -> Instance]
    <2>1. ASSUME NEW i \in Instances PROVE Reclaimed(i) \in Instance
      <3>1. inst[i] \in Instance
        OBVIOUS
      <3> HIDE CronAssumption DEF TypeOK
      <3> QED
        BY <3>1 DEF Reclaimed, Instance, InstanceStates
    <2> QED
      BY <2>1
  <1>2. PICK i \in Instances :
           /\ Claimable(table[i])
           /\ inst' = [table EXCEPT ![i].state = "leased", ![i].leaseExpiresAt = now + Lease]
           /\ execs' = execs \cup {[inst |-> i, job |-> table[i].job, stage |-> "leased",
                                    attempt |-> table[i].attempt + 1,
                                    mode |-> def[table[i].job].mode]}
    BY DEF Claim
  <1>3. [table[i] EXCEPT !.state = "leased", !.leaseExpiresAt = now + Lease] \in Instance
    <2>1. table[i] \in Instance /\ now + Lease \in Nat
      BY <1>1
    <2> HIDE DEF table, TypeOK
    <2> QED
      BY <2>1 DEF Instance, InstanceStates
  <1>4. inst' \in [Instances -> Instance]
    BY <1>1, <1>2, <1>3
  <1>5. inst[i].state # "absent" /\ table[i].job = inst[i].job
    BY <1>2 DEF Claimable, Reclaimed, Instance
  <1>6. table[i].job \in Jobs /\ def[table[i].job] \in Definition
    BY <1>5 DEF RowsHaveJobs, Exists, NoDefinition
  <1>7. [inst |-> i, job |-> table[i].job, stage |-> "leased",
         attempt |-> table[i].attempt + 1, mode |-> def[table[i].job].mode] \in Execution
    <2>1. table[i].attempt + 1 \in Nat /\ def[table[i].job].mode \in Modes
      <3>1. table[i] \in Instance
        BY <1>1
      <3> HIDE DEF table, TypeOK
      <3>2. table[i].attempt + 1 \in Nat
        BY <3>1 DEF Instance
      <3>3. def[table[i].job].mode \in Modes
        BY <1>6 DEF Definition
      <3> QED
        BY <3>2, <3>3
    <2> HIDE DEF table, TypeOK
    <2> QED
      BY <1>6, <2>1 DEF Execution, Stages
  <1>8. execs' \subseteq Execution
    BY <1>2, <1>7
  <1> QED
    BY <1>4, <1>8 DEF Claim, seen, budget

\* Moving an execution to another stage keeps its type.
LEMMA MoveTypes ==
  ASSUME TypeOK, NEW e \in execs, NEW stage \in Stages, Move(e, stage)
  PROVE  execs' \subseteq Execution
  <1>1. [e EXCEPT !.stage = stage] \in Execution
    BY DEF TypeOK, Execution
  <1> QED
    BY <1>1 DEF TypeOK, Move

\* The steps of an attempt keep the types.
LEMMA AttemptTypes ==
  ASSUME TypeOK, NEW e \in execs,
         \/ BeginAttempt(e) \/ FirstStep(e) \/ ThreadSpawned(e) \/ SpawnFails(e)
         \/ \E o \in ModuleOutcomes : ModuleEnds(e, o)
         \/ \E o \in {"answered", "error", "queued"} : AgentEnds(e, o)
  PROVE  TypeOK'
  <1>0. e \in Execution /\ e.inst \in Instances /\ e.job \in Jobs
        /\ inst[e.inst] \in Instance /\ e.attempt \in Nat /\ e.mode \in Modes
    BY DEF TypeOK, Execution
  <1> USE DEF TypeOK
  <1>1. CASE BeginAttempt(e)
    <2>1. [inst[e.inst] EXCEPT !.state = "running", !.attempt = e.attempt] \in Instance
      BY <1>0 DEF Instance, InstanceStates
    <2>2. inst' \in [Instances -> Instance]
      BY <1>0, <1>1, <2>1 DEF BeginAttempt
    <2>3. execs' \subseteq Execution
      BY <1>1, MoveTypes DEF BeginAttempt, Stages
    <2> QED
      BY <1>1, <2>2, <2>3 DEF BeginAttempt, seen, budget
  <1>2. CASE FirstStep(e)
    <2>1. execs' \subseteq Execution
      BY <1>2, MoveTypes DEF FirstStep, Ask, Stages
    <2>2. asked' \in [Instances -> Nat]
      BY <1>0, <1>2 DEF FirstStep, Ask
    <2> QED
      BY <1>2, <2>1, <2>2 DEF FirstStep, tables, budget
  <1>3. CASE ThreadSpawned(e)
    <2>1. def' \in [Jobs -> Definition \cup {NoDefinition}]
      <3>1. CASE Exists(e.job)
        <4>1. def[e.job] \in Definition
          BY <1>0, <3>1 DEF Exists, NoDefinition
        <4>2. [def[e.job] EXCEPT !.thread = threads + 1] \in Definition
          <5>1. threads + 1 \in Nat
            OBVIOUS
          <5> HIDE DEF TypeOK
          <5> QED
            BY <4>1, <5>1 DEF Definition
        <4> QED
          BY <1>0, <1>3, <3>1, <4>2 DEF ThreadSpawned
      <3>2. CASE ~Exists(e.job)
        BY <1>3, <3>2 DEF ThreadSpawned
      <3> QED
        BY <3>1, <3>2
    <2>2. execs' \subseteq Execution
      <3>1. CASE Exists(e.job)
        <4>1. def[e.job].mode \in Modes
          <5>1. def[e.job] \in Definition
            BY <1>0, <3>1 DEF Exists, NoDefinition
          <5> HIDE DEF TypeOK
          <5> QED
            BY <5>1 DEF Definition
        <4>2. [e EXCEPT !.stage = "stepping", !.mode = def[e.job].mode] \in Execution
          BY <1>0, <4>1 DEF Execution, Stages
        <4> QED
          BY <1>3, <3>1, <4>2 DEF ThreadSpawned
      <3>2. CASE ~Exists(e.job)
        BY <1>3, <3>2, MoveTypes DEF ThreadSpawned, Stages
      <3> QED
        BY <3>1, <3>2
    <2> QED
      BY <1>3, <2>1, <2>2 DEF ThreadSpawned, seen, budget
  <1>4. CASE SpawnFails(e)
    <2>1. execs' \subseteq Execution
      BY <1>4, MoveTypes DEF SpawnFails, Stages
    <2> QED
      BY <1>4, <2>1 DEF SpawnFails, tables, seen, budget
  <1>5. [inst[e.inst] EXCEPT !.agentInvoked = TRUE] \in Instance
    BY <1>0 DEF Instance
  <1>6. ASSUME NEW o \in ModuleOutcomes, ModuleEnds(e, o)
        PROVE  TypeOK'
    <2>1. execs' \subseteq Execution
      BY <1>6, MoveTypes DEF ModuleEnds, Ask, Stages
    <2>2. asked' \in [Instances -> Nat]
      BY <1>0, <1>6 DEF ModuleEnds, Ask
    <2>3. inst' \in [Instances -> Instance]
      BY <1>0, <1>5, <1>6 DEF ModuleEnds
    <2> QED
      BY <1>6, <2>1, <2>2, <2>3 DEF ModuleEnds, budget
  <1>7. ASSUME NEW o \in {"answered", "error", "queued"}, AgentEnds(e, o)
        PROVE  TypeOK'
    <2>1. execs' \subseteq Execution
      BY <1>7, MoveTypes DEF AgentEnds, Stages
    <2>2. answered' \in [Instances -> Nat]
      BY <1>0, <1>7 DEF AgentEnds
    <2>3. inst' \in [Instances -> Instance]
      BY <1>0, <1>5, <1>7 DEF AgentEnds
    <2> QED
      BY <1>7, <2>1, <2>2, <2>3 DEF AgentEnds, budget
  <1> QED
    BY <1>1, <1>2, <1>3, <1>4, <1>6, <1>7

\* The end of an attempt keeps the types.
LEMMA EndTypes ==
  ASSUME TypeOK, RowOfExecution, NEW e \in execs, EndAttempt(e)
  PROVE  TypeOK'
  <1> USE CronAssumption DEF TypeOK
  <1>1. e.inst \in Instances /\ inst[e.inst] \in Instance /\ e.attempt \in Nat \ {0}
    <2>1. e \in Execution /\ inst \in [Instances -> Instance]
      OBVIOUS
    <2>2. e.attempt >= 1
      BY DEF RowOfExecution
    <2> HIDE CronAssumption DEF TypeOK
    <2> QED
      BY <2>1, <2>2 DEF Execution
  <1>2. now + Backoff(e.attempt) \in Nat
    <2>1. now \in Nat
      OBVIOUS
    <2> HIDE CronAssumption DEF TypeOK
    <2>2. Backoff(e.attempt) \in Nat
      BY <1>1, BackoffIsNat
    <2> QED
      BY <2>1, <2>2
  <1>3. [inst[e.inst] EXCEPT !.state = EndState(e), !.attempt = e.attempt,
                             !.leaseExpiresAt = None,
                             !.nextAttemptAt = IF EndState(e) = "failed"
                                               THEN now + Backoff(e.attempt) ELSE None]
        \in Instance
    <2>1. EndState(e) \in InstanceStates
      BY DEF EndState, InstanceStates
    <2>2. (IF EndState(e) = "failed" THEN now + Backoff(e.attempt) ELSE None) \in Nat \cup {None}
      BY <1>2
    <2> HIDE DEF TypeOK
    <2> QED
      BY <1>1, <2>1, <2>2 DEF Instance
  <1>4. inst' \in [Instances -> Instance]
    BY <1>1, <1>3 DEF EndAttempt
  <1>5. execs' \subseteq Execution
    BY DEF EndAttempt
  <1> QED
    BY <1>4, <1>5 DEF EndAttempt, seen, budget

\* Every step keeps the types.
LEMMA NextTypes == Ownership /\ [Next]_vars => TypeOK'
  <1> SUFFICES ASSUME Ownership, [Next]_vars PROVE TypeOK'
    OBVIOUS
  <1> USE DEF Ownership
  <1>1. CASE UNCHANGED vars
    BY <1>1 DEF vars, TypeOK
  <1>2. CASE Boot \/ Crash \/ Clock
    BY <1>2, ProcessTypes
  <1>3. CASE EditJobs
    BY <1>3, EditTypes DEF EditJobs
  <1>4. CASE SchedulerTick
    BY <1>4, SchedulerTypes
  <1>5. CASE Claim
    BY <1>5, ClaimTypes
  <1>6. CASE Writes
    BY <1>6, SchedulerTypes, AttemptTypes, EndTypes DEF Writes
  <1>7. CASE Answers
    BY <1>7, AttemptTypes DEF Answers
  <1> QED
    BY <1>1, <1>2, <1>3, <1>4, <1>5, <1>6, <1>7 DEF Next

-------------------------------------------------------------------------------
(* Who works on an instance.                                               *)

\* Nothing is owned, attempted or answered at first.
LEMMA InitOwnership == Init => Ownership
  <1> SUFFICES ASSUME Init PROVE Ownership
    OBVIOUS
  <1>1. TypeOK
    BY InitTypes
  <1>2. OneExecution /\ RowsHaveJobs /\ IdsGivenOnce /\ RowOfExecution
    BY DEF Init, OneExecution, RowsHaveJobs, IdsGivenOnce, RowOfExecution, NoInstance
  <1>3. AttemptsLeft /\ AnswersLeft
    BY CronAssumption DEF Init, AttemptsLeft, AnswersLeft, MayAnswer, NoInstance
  <1>4. JobsExist
    <2>1. {j \in Jobs : Exists(j)} = {}
      BY DEF Init, Exists, NoDefinition
    <2>2. IsFiniteSet({})
      BY FS_EmptySet
    <2>3. \A n \in DOMAIN tick : Exists(tick[n])
      BY DEF Init
    <2> QED
      BY <2>1, <2>2, <2>3 DEF JobsExist
  <1> QED
    BY <1>1, <1>2, <1>3, <1>4 DEF Ownership

\* The part of the invariant that says who works on what.
Owned == OneExecution /\ RowsHaveJobs /\ IdsGivenOnce /\ RowOfExecution /\ AttemptsLeft /\ AnswersLeft

\* The numbers the attempts are compared with.
LEMMA AttemptNumbers ==
  ASSUME TypeOK
  PROVE  /\ MaxAttempts \in Nat \ {0} /\ crashes \in Nat
         /\ \A i \in Instances : inst[i].attempt \in Nat /\ answered[i] \in Nat
         /\ \A e \in execs : e.attempt \in Nat /\ e.inst \in Instances /\ e.stage \in Stages
  <1>1. MaxAttempts \in Nat \ {0} /\ crashes \in Nat
    BY CronAssumption DEF TypeOK
  <1>2. /\ inst \in [Instances -> Instance] /\ answered \in [Instances -> Nat]
        /\ execs \subseteq Execution
    BY DEF TypeOK
  <1> QED
    BY <1>1, <1>2 DEF Instance, Execution

\* A step that leaves instances and executions alone and removes no job.
LEMMA QuietSteps ==
  ASSUME Ownership, UNCHANGED <<inst, execs, workerBusy, used, answered, crashes>>,
         \A j \in Jobs : Exists(j) => Exists(j)'
  PROVE  Owned'
  BY DEF Ownership, Owned, OneExecution, RowsHaveJobs, IdsGivenOnce, RowOfExecution,
         AttemptsLeft, AnswersLeft, MayAnswer

\* A new instance has an id that no execution knows.
LEMMA InsertSteps ==
  ASSUME Ownership, TypeOK', NEW j \in Jobs, Exists(j), NEW t \in Nat, Insert(j, t),
         UNCHANGED <<def, execs, workerBusy, answered, crashes>>
  PROVE  Owned'
  <1> USE DEF Ownership, TypeOK
  <1>1. used + 1 \in Instances /\ used \in Nat
    BY CronAssumption DEF Insert, Instances
  <1>2. inst'[used + 1] = [NoInstance EXCEPT !.job = j, !.at = t, !.state = "queued"]
        /\ \A i \in Instances \ {used + 1} : inst'[i] = inst[i]
    BY <1>1 DEF Insert
  <1>3. inst'[used + 1].state = "queued" /\ inst'[used + 1].job = j /\ inst'[used + 1].attempt = 0
    BY <1>2 DEF NoInstance
  <1>4. \A e \in execs : e.inst \in Instances /\ e.inst # used + 1
    <2>1. execs \subseteq Execution /\ \A e \in execs : e.inst <= used
      BY DEF IdsGivenOnce
    <2> HIDE DEF Ownership, TypeOK
    <2> QED
      BY <1>1, <2>1 DEF Execution, Instances
  <1>5. used' = used + 1
    BY DEF Insert
  <1>6. OneExecution' /\ RowOfExecution'
    BY <1>2, <1>4 DEF OneExecution, RowOfExecution
  <1>7. RowsHaveJobs'
    BY <1>2, <1>3 DEF RowsHaveJobs, Exists
  <1>8. IdsGivenOnce'
    <2>1. \A i \in Instances : i > used + 1 => i > used /\ i # used + 1
      BY <1>1 DEF Instances
    <2>2. \A e \in execs : e.inst <= used + 1
      BY <1>1, <1>4 DEF IdsGivenOnce, Instances
    <2> QED
      BY <1>2, <1>5, <2>1, <2>2 DEF IdsGivenOnce
  <1>9. AttemptsLeft'
    <2>1. 0 < MaxAttempts + crashes
      BY AttemptNumbers
    <2> SUFFICES ASSUME NEW i \in Instances
                 PROVE  AttemptsLeft!(i)'
      BY DEF AttemptsLeft
    <2>2. MaxAttempts \in Nat /\ crashes \in Nat /\ crashes' = crashes
      BY AttemptNumbers
    <2> HIDE DEF TypeOK
    <2>3. CASE i = used + 1
      BY <1>3, <2>1, <2>2, <2>3
    <2>4. CASE i # used + 1
      BY <1>2, <2>2, <2>4 DEF AttemptsLeft
    <2> QED
      BY <2>3, <2>4
  <1>10. AnswersLeft'
    <2>1. answered[used + 1] = 0
      BY <1>1 DEF IdsGivenOnce
    <2>2. \A i \in Instances \ {used + 1} : MayAnswer(i)' => MayAnswer(i)
      BY <1>2 DEF MayAnswer
    <2> QED
      BY <1>1, <2>1, <2>2 DEF AnswersLeft
  <1> QED
    BY <1>6, <1>7, <1>8, <1>9, <1>10 DEF Owned

\* Deleting a job takes the rows of its instances, whoever works on them.
LEMMA DeleteSteps ==
  ASSUME Ownership, TypeOK', NEW j \in Jobs, DeleteJob(j)
  PROVE  Owned'
  <1> USE DEF Ownership, TypeOK
  <1>1. UNCHANGED <<execs, workerBusy, used, answered, crashes>>
    BY DEF DeleteJob, memory, seen
  <1>2. \A i \in Instances : \/ inst'[i] = inst[i] /\ inst[i].job # j
                             \/ inst'[i] = NoInstance
    BY DEF DeleteJob
  <1>3. NoInstance.state = "absent" /\ NoInstance.attempt = 0
    BY DEF NoInstance
  <1>4. OneExecution' /\ IdsGivenOnce'
    BY <1>1, <1>2, <1>3 DEF OneExecution, IdsGivenOnce
  <1>5. RowsHaveJobs'
    <2>1. \A k \in Jobs : k # j /\ Exists(k) => Exists(k)'
      BY DEF DeleteJob, Exists
    <2> QED
      BY <1>2, <1>3, <2>1 DEF RowsHaveJobs
  <1>6. RowOfExecution'
    BY <1>1, <1>2, <1>3 DEF RowOfExecution, Execution
  <1>7. AttemptsLeft'
    <2> HIDE DEF TypeOK
    <2> QED
      BY <1>1, <1>2, <1>3, AttemptNumbers DEF AttemptsLeft
  <1>8. AnswersLeft'
    <2>1. \A i \in Instances : MayAnswer(i)' => MayAnswer(i)
      BY <1>1, <1>2, <1>3 DEF MayAnswer
    <2> QED
      BY <1>1, <2>1 DEF AnswersLeft
  <1> QED
    BY <1>4, <1>5, <1>6, <1>7, <1>8 DEF Owned

\* A crash ends every execution and accounts for the attempt it has lost.
LEMMA CrashSteps ==
  ASSUME Ownership, TypeOK', Crash
  PROVE  Owned'
  <1> USE DEF Ownership, TypeOK
  <1>1. execs' = {} /\ crashes' = crashes + 1 /\ UNCHANGED <<inst, used, answered, def>>
    BY DEF Crash, tables, seen
  <1>2. OneExecution' /\ RowsHaveJobs' /\ IdsGivenOnce' /\ RowOfExecution'
    BY <1>1 DEF OneExecution, RowsHaveJobs, IdsGivenOnce, RowOfExecution, Exists
  <1>3. AttemptsLeft'
    <2> HIDE DEF TypeOK
    <2> QED
      BY <1>1, AttemptNumbers DEF AttemptsLeft
  <1>4. AnswersLeft'
    BY <1>1 DEF AnswersLeft
  <1> QED
    BY <1>2, <1>3, <1>4 DEF Owned

\* A claim finds the worker free, so nothing is under way: the rows whose lease
\* has run out are those a crash has left behind.
LEMMA ClaimSteps ==
  ASSUME Ownership, TypeOK', Claim
  PROVE  Owned'
  <1> DEFINE table == [i \in Instances |-> Reclaimed(i)]
  <1>1. execs = {} /\ ~workerBusy
    BY DEF Claim, WorkerFree, Ownership, OneExecution
  <1>2. PICK i \in Instances :
           /\ Claimable(table[i])
           /\ inst' = [table EXCEPT ![i].state = "leased", ![i].leaseExpiresAt = now + Lease]
           /\ execs' = execs \cup {[inst |-> i, job |-> table[i].job, stage |-> "leased",
                                    attempt |-> table[i].attempt + 1,
                                    mode |-> def[table[i].job].mode]}
    BY DEF Claim
  <1>3. workerBusy' /\ UNCHANGED <<def, used, answered, crashes>>
    BY DEF Claim, seen, budget
  <1> DEFINE f == [inst |-> i, job |-> table[i].job, stage |-> "leased",
                   attempt |-> table[i].attempt + 1, mode |-> def[table[i].job].mode]
  <1>4. execs' = {f} /\ f.inst = i /\ f.stage = "leased" /\ f.attempt = table[i].attempt + 1
    BY <1>1, <1>2
  <1>5. \A k \in Instances : inst[k] \in Instance
    BY DEF Ownership, TypeOK
  <1>6. \A k \in Instances :
           /\ table[k].job = inst[k].job /\ table[k].at = inst[k].at
           /\ table[k].attempt = inst[k].attempt
           /\ \/ table[k] = inst[k]
              \/ table[k].state = "queued" /\ inst[k].state \in {"leased", "running"}
    BY <1>5 DEF Reclaimed, Instance
  <1>7. table \in [Instances -> Instance]
    BY <1>5 DEF Reclaimed, Instance, InstanceStates
  <1>8. /\ inst'[i].state = "leased" /\ inst'[i].attempt = inst[i].attempt
        /\ inst'[i].job = inst[i].job
        /\ inst[i].state \in {"queued", "failed", "leased", "running"}
    <2>1. table[i] \in Instance
      BY <1>7
    <2>2. inst'[i] = [table[i] EXCEPT !.state = "leased", !.leaseExpiresAt = now + Lease]
      BY <1>2, <1>7
    <2>3. table[i].state \in {"queued", "failed"}
      BY <1>2 DEF Claimable
    <2> HIDE DEF table
    <2> QED
      BY <1>6, <2>1, <2>2, <2>3 DEF Instance
  <1>9. \A k \in Instances \ {i} :
           /\ inst'[k].job = inst[k].job /\ inst'[k].attempt = inst[k].attempt
           /\ \/ inst'[k] = inst[k]
              \/ inst'[k].state = "queued" /\ inst[k].state \in {"leased", "running"}
    <2>1. \A k \in Instances \ {i} : inst'[k] = table[k]
      BY <1>2, <1>7
    <2> HIDE DEF table
    <2> QED
      BY <1>6, <2>1
  <1>a. f.attempt = inst[i].attempt + 1
    BY <1>4, <1>6
  <1> HIDE DEF table, f
  <1> USE DEF Ownership
  <1>10. OneExecution'
    BY <1>3, <1>4 DEF OneExecution
  <1>11. RowsHaveJobs'
    BY <1>3, <1>8, <1>9 DEF RowsHaveJobs, Exists
  <1>12. IdsGivenOnce'
    <2>1. i <= used
      BY <1>8 DEF IdsGivenOnce, Instances, TypeOK
    <2>2. \A k \in Instances : inst[k].state = "absent" => inst'[k].state = "absent"
      BY <1>8, <1>9
    <2> QED
      BY <1>3, <1>4, <2>1, <2>2 DEF IdsGivenOnce
  <1>13. RowOfExecution'
    BY <1>4, <1>8, <1>a, AttemptNumbers DEF RowOfExecution
  <1>14. AttemptsLeft'
    <2> SUFFICES ASSUME NEW k \in Instances
                 PROVE  AttemptsLeft!(k)'
      BY DEF AttemptsLeft
    <2>1. MaxAttempts \in Nat /\ crashes \in Nat /\ inst[k].attempt \in Nat
      BY AttemptNumbers
    <2>2. inst[k].state \in {"queued", "failed", "leased", "running"} =>
             inst[k].attempt < MaxAttempts + crashes
      BY <1>1, <2>1 DEF AttemptsLeft
    <2>3. CASE k = i
      BY <1>3, <1>8, <2>1, <2>2, <2>3
    <2>4. CASE inst'[k].state = "queued" /\ k # i
      BY <1>3, <1>9, <2>1, <2>2, <2>4
    <2>5. CASE inst'[k] = inst[k]
      BY <1>1, <1>3, <2>5 DEF AttemptsLeft
    <2> QED
      BY <1>9, <2>3, <2>4, <2>5
  <1>15. AnswersLeft'
    <2>1. \A k \in Instances : MayAnswer(k)' => MayAnswer(k)
      <3> SUFFICES ASSUME NEW k \in Instances, MayAnswer(k)' PROVE MayAnswer(k)
        OBVIOUS
      <3>1. CASE k = i
        BY <1>1, <1>8, <3>1 DEF MayAnswer
      <3>2. CASE k # i
        <4>1. \A e \in execs' : e.inst # k
          BY <1>4, <3>2
        <4> QED
          BY <1>1, <1>9, <3>2, <4>1 DEF MayAnswer
      <3> QED
        BY <3>1, <3>2
    <2> QED
      BY <1>3, <2>1 DEF AnswersLeft
  <1> QED
    BY <1>10, <1>11, <1>12, <1>13, <1>14, <1>15 DEF Owned

\* What a step of the attempt e does, f being the execution after it: it moves on,
\* and of the tables it writes nothing but its own row, if that is still there.
\* An answer takes a present row to "done".
AttemptStep(e, f) ==
    /\ execs' = (execs \ {e}) \cup {f}
    /\ f.inst = e.inst /\ f.attempt = e.attempt
    /\ f.stage # "leased" /\ e.stage \notin {"done", "failed"}
    /\ \A i \in Instances \ {e.inst} : inst'[i] = inst[i] /\ answered'[i] = answered[i]
    /\ IF inst[e.inst].state = "absent"
       THEN inst'[e.inst] = inst[e.inst]
       ELSE /\ inst'[e.inst].state = "running" /\ inst'[e.inst].attempt = e.attempt
            /\ inst'[e.inst].job = inst[e.inst].job
    /\ \/ answered'[e.inst] = answered[e.inst]
       \/ /\ answered'[e.inst] = answered[e.inst] + 1
          /\ f.stage = IF inst[e.inst].state = "absent" THEN "failed" ELSE "done"
    /\ UNCHANGED <<workerBusy, used, crashes>>
    /\ \A j \in Jobs : Exists(j) => Exists(j)'

\* Every step of an attempt but its end is such a step.
LEMMA AttemptSteps ==
  ASSUME Ownership, NEW e \in execs,
         \/ BeginAttempt(e) \/ FirstStep(e) \/ ThreadSpawned(e) \/ SpawnFails(e)
         \/ \E o \in ModuleOutcomes : ModuleEnds(e, o)
         \/ \E o \in {"answered", "error", "queued"} : AgentEnds(e, o)
  PROVE  \E f : AttemptStep(e, f)
  <1>0. e \in Execution /\ e.inst \in Instances /\ inst[e.inst] \in Instance
    BY DEF Ownership, TypeOK, Execution
  <1>1. Present(e) /\ e.stage # "leased" =>
           inst[e.inst].state = "running" /\ inst[e.inst].attempt = e.attempt
    BY DEF Ownership, RowOfExecution, Present
  <1>2. \A stage : [e EXCEPT !.stage = stage].inst = e.inst
                   /\ [e EXCEPT !.stage = stage].attempt = e.attempt
                   /\ [e EXCEPT !.stage = stage].stage = stage
    BY <1>0 DEF Execution
  <1> USE DEF AttemptStep, Move
  <1>3. CASE BeginAttempt(e)
    <2> DEFINE stage == IF def[e.job].thread = 0 THEN "spawning" ELSE "stepping"
    <2>1. execs' = (execs \ {e}) \cup {[e EXCEPT !.stage = stage]}
      BY <1>3 DEF BeginAttempt
    <2>2. \A i \in Instances \ {e.inst} : inst'[i] = inst[i]
      BY <1>3, <1>0 DEF BeginAttempt, Ownership, TypeOK
    <2>3. IF inst[e.inst].state = "absent" THEN inst'[e.inst] = inst[e.inst]
          ELSE /\ inst'[e.inst].state = "running" /\ inst'[e.inst].attempt = e.attempt
               /\ inst'[e.inst].job = inst[e.inst].job
      BY <1>3, <1>0 DEF BeginAttempt, Present, Ownership, TypeOK, Instance
    <2>4. UNCHANGED <<answered, workerBusy, used, crashes, def>> /\ e.stage = "leased"
      BY <1>3 DEF BeginAttempt, seen, budget
    <2>5. stage \notin {"leased", "done", "failed"}
      OBVIOUS
    <2> HIDE DEF stage
    <2>6. AttemptStep(e, [e EXCEPT !.stage = stage])
      BY <1>2, <2>1, <2>2, <2>3, <2>4, <2>5 DEF Exists
    <2> QED
      BY <2>6
  <1>4. CASE FirstStep(e) \/ SpawnFails(e)
    <2>1. PICK stage \in Stages \ {"leased"} : execs' = (execs \ {e}) \cup {[e EXCEPT !.stage = stage]}
      BY <1>4 DEF FirstStep, SpawnFails, Ask, Stages
    <2>2. UNCHANGED <<inst, answered, workerBusy, used, crashes, def>>
          /\ e.stage \notin {"leased", "done", "failed"}
      BY <1>4 DEF FirstStep, SpawnFails, tables, seen, budget
    <2>3. AttemptStep(e, [e EXCEPT !.stage = stage])
      BY <1>1, <1>2, <2>1, <2>2 DEF Present, Exists
    <2> QED
      BY <2>3
  <1>5. CASE ThreadSpawned(e)
    <2>1. PICK f : /\ execs' = (execs \ {e}) \cup {f}
                   /\ f.inst = e.inst /\ f.attempt = e.attempt /\ f.stage # "leased"
      <3>1. CASE Exists(e.job)
        <4>1. execs' = (execs \ {e}) \cup {[e EXCEPT !.stage = "stepping", !.mode = def[e.job].mode]}
          BY <1>5, <3>1 DEF ThreadSpawned
        <4> DEFINE f == [e EXCEPT !.stage = "stepping", !.mode = def[e.job].mode]
        <4>2. f.inst = e.inst /\ f.attempt = e.attempt /\ f.stage # "leased"
          BY <1>0 DEF Execution
        <4> HIDE DEF f
        <4> QED
          BY <4>1, <4>2 DEF f
      <3>2. CASE ~Exists(e.job)
        <4>1. execs' = (execs \ {e}) \cup {[e EXCEPT !.stage = "failed"]}
          BY <1>5, <3>2 DEF ThreadSpawned
        <4> QED
          BY <1>2, <4>1
      <3> QED
        BY <3>1, <3>2
    <2>2. UNCHANGED <<inst, answered, workerBusy, used, crashes>> /\ e.stage = "spawning"
      BY <1>5 DEF ThreadSpawned, seen, budget
    <2>3. \A j \in Jobs : Exists(j) => Exists(j)'
      <3>1. def' = def \/ def' = [def EXCEPT ![e.job].thread = threads + 1]
        BY <1>5 DEF ThreadSpawned
      <3>2. def' = def \/ def' = [def EXCEPT ![e.job] = [def[e.job] EXCEPT !.thread = threads + 1]]
        BY <3>1
      <3>3. \A j \in Jobs : def[j].exists => def[j] \in Definition
        BY DEF Ownership, TypeOK, NoDefinition
      <3> QED
        BY <3>2, <3>3 DEF Exists, Ownership, TypeOK, Definition
    <2>4. AttemptStep(e, f)
      BY <1>1, <2>1, <2>2, <2>3 DEF Present
    <2> QED
      BY <2>4
  <1>6. ASSUME NEW o \in ModuleOutcomes, ModuleEnds(e, o)
        PROVE  \E f : AttemptStep(e, f)
    <2>1. PICK stage \in Stages \ {"leased"} : execs' = (execs \ {e}) \cup {[e EXCEPT !.stage = stage]}
      BY <1>6 DEF ModuleEnds, Ask, Stages
    <2>2. UNCHANGED <<answered, workerBusy, used, crashes, def>> /\ e.stage = "module"
      BY <1>6 DEF ModuleEnds, budget
    <2>3. \A i \in Instances \ {e.inst} : inst'[i] = inst[i]
      BY <1>0, <1>6 DEF ModuleEnds, Ownership, TypeOK
    <2>4. /\ inst'[e.inst].state = inst[e.inst].state
          /\ inst'[e.inst].attempt = inst[e.inst].attempt
          /\ inst'[e.inst].job = inst[e.inst].job
          /\ ~Present(e) => inst'[e.inst] = inst[e.inst]
      BY <1>0, <1>6 DEF ModuleEnds, StepInserted, Ownership, TypeOK, Instance
    <2>5. AttemptStep(e, [e EXCEPT !.stage = stage])
      BY <1>1, <1>2, <2>1, <2>2, <2>3, <2>4 DEF Present, Exists
    <2> QED
      BY <2>5
  <1>7. ASSUME NEW o \in {"answered", "error", "queued"}, AgentEnds(e, o)
        PROVE  \E f : AttemptStep(e, f)
    <2> DEFINE stage == IF o = "answered" /\ StepInserted(e) THEN "done" ELSE "failed"
    <2>1. execs' = (execs \ {e}) \cup {[e EXCEPT !.stage = stage]}
      BY <1>7 DEF AgentEnds
    <2>2. UNCHANGED <<workerBusy, used, crashes, def>> /\ e.stage = "asking"
      BY <1>7 DEF AgentEnds, budget
    <2>3. \A i \in Instances \ {e.inst} : inst'[i] = inst[i] /\ answered'[i] = answered[i]
      BY <1>0, <1>7 DEF AgentEnds, Ownership, TypeOK
    <2>4. /\ inst'[e.inst].state = inst[e.inst].state
          /\ inst'[e.inst].attempt = inst[e.inst].attempt
          /\ inst'[e.inst].job = inst[e.inst].job
          /\ ~Present(e) => inst'[e.inst] = inst[e.inst]
      BY <1>0, <1>7 DEF AgentEnds, StepInserted, Ownership, TypeOK, Instance
    <2>5. \/ answered'[e.inst] = answered[e.inst]
          \/ /\ answered'[e.inst] = answered[e.inst] + 1
             /\ stage = IF inst[e.inst].state = "absent" THEN "failed" ELSE "done"
      BY <1>0, <1>7 DEF AgentEnds, StepInserted, Present, Ownership, TypeOK
    <2>6. stage # "leased"
      OBVIOUS
    <2> HIDE DEF stage
    <2>7. AttemptStep(e, [e EXCEPT !.stage = stage])
      BY <1>1, <1>2, <2>1, <2>2, <2>3, <2>4, <2>5, <2>6 DEF Present, Exists
    <2> QED
      BY <2>7
  <1> QED
    BY <1>3, <1>4, <1>5, <1>6, <1>7

\* A step of an attempt keeps its instance its own.
LEMMA AttemptKeeps ==
  ASSUME Ownership, TypeOK', NEW e \in execs, NEW f, AttemptStep(e, f)
  PROVE  Owned'
  <1>1. execs = {e} /\ execs' = {f} /\ workerBusy'
    BY DEF AttemptStep, Ownership, OneExecution
  <1>2. e.inst \in Instances /\ f.inst = e.inst /\ f.attempt = e.attempt /\ e.attempt \in Nat
    BY AttemptNumbers DEF AttemptStep, Ownership
  <1> USE DEF Ownership
  <1>3. OneExecution'
    BY <1>1 DEF OneExecution
  <1>4. RowsHaveJobs'
    BY <1>2 DEF RowsHaveJobs, AttemptStep
  <1>5. IdsGivenOnce'
    <2>1. \A i \in Instances : i > used => i # e.inst
      BY <1>2 DEF IdsGivenOnce, Instances, TypeOK
    <2> QED
      BY <1>1, <1>2, <2>1 DEF IdsGivenOnce, AttemptStep
  <1>6. RowOfExecution'
    BY <1>1, <1>2 DEF RowOfExecution, AttemptStep
  <1>7. AttemptsLeft'
    BY <1>1, <1>2, AttemptNumbers DEF AttemptsLeft, RowOfExecution, AttemptStep
  <1>8. AnswersLeft'
    BY <1>1, <1>2, AttemptNumbers DEF AnswersLeft, MayAnswer, RowOfExecution, AttemptStep
  <1> QED
    BY <1>3, <1>4, <1>5, <1>6, <1>7, <1>8 DEF Owned

\* The end of an attempt leaves its instance final, or failed with an attempt left.
LEMMA EndKeeps ==
  ASSUME Ownership, TypeOK', NEW e \in execs, EndAttempt(e)
  PROVE  Owned'
  <1>1. execs = {e} /\ execs' = {}
    BY DEF EndAttempt, Ownership, OneExecution
  <1>2. e.inst \in Instances /\ e.attempt \in Nat \ {0} /\ MaxAttempts \in Nat
    BY AttemptNumbers DEF Ownership, RowOfExecution
  <1>3. \A i \in Instances \ {e.inst} : inst'[i] = inst[i]
    BY <1>2 DEF EndAttempt, Ownership, TypeOK
  <1>4. IF Present(e)
        THEN /\ inst'[e.inst].state = EndState(e) /\ inst'[e.inst].attempt = e.attempt
             /\ inst'[e.inst].job = inst[e.inst].job
             /\ inst[e.inst].state = "running" /\ inst[e.inst].attempt = e.attempt
        ELSE inst'[e.inst] = inst[e.inst]
    BY <1>2 DEF EndAttempt, Ownership, TypeOK, Instance, RowOfExecution, Present
  <1>5. UNCHANGED <<def, used, answered, crashes>>
    BY DEF EndAttempt, seen, budget
  <1>6. \/ EndState(e) = "completed" /\ e.stage = "done"
        \/ EndState(e) = "failed" /\ e.attempt < MaxAttempts /\ e.stage = "failed"
        \/ EndState(e) = "dead" /\ ~(e.attempt < MaxAttempts) /\ e.stage = "failed"
    BY DEF EndAttempt, EndState, CanRetry
  <1> USE DEF Ownership
  <1>7. OneExecution' /\ RowOfExecution'
    BY <1>1 DEF OneExecution, RowOfExecution
  <1>8. RowsHaveJobs'
    BY <1>2, <1>3, <1>4, <1>5, <1>6 DEF RowsHaveJobs, Exists, Present
  <1>9. IdsGivenOnce'
    BY <1>1, <1>2, <1>3, <1>4, <1>5 DEF IdsGivenOnce, Present
  <1>10. AttemptsLeft'
    BY <1>1, <1>2, <1>3, <1>4, <1>5, <1>6, AttemptNumbers DEF AttemptsLeft, Present
  <1>11. AnswersLeft'
    BY <1>1, <1>2, <1>3, <1>4, <1>5, <1>6, AttemptNumbers DEF AnswersLeft, MayAnswer, Present
  <1> QED
    BY <1>7, <1>8, <1>9, <1>10, <1>11 DEF Owned

\* Jobs come one at a time, and none goes while a tick has it still to handle.
LEMMA JobsSteps ==
  ASSUME Ownership, TypeOK', [Next]_vars
  PROVE  JobsExist'
  <1> USE DEF Ownership
  <1>1. IsFiniteSet({j \in Jobs : Exists(j)})'
    <2>1. \E j : {k \in Jobs : Exists(k)}' \subseteq {k \in Jobs : Exists(k)} \cup {j}
      <3>1. ASSUME NEW j \in Jobs, \A k \in Jobs \ {j} : def'[k] = def[k]
            PROVE  \E l : {k \in Jobs : Exists(k)}' \subseteq {k \in Jobs : Exists(k)} \cup {l}
        <4>1. {k \in Jobs : Exists(k)}' \subseteq {k \in Jobs : Exists(k)} \cup {j}
          BY <3>1 DEF Exists
        <4> QED
          BY <4>1
      <3>2. def' = def \/ \E j \in Jobs : \A k \in Jobs \ {j} : def'[k] = def[k]
        <4>1. CASE RecordEnqueued
          BY <4>1 DEF RecordEnqueued, TypeOK
        <4>2. ASSUME NEW e \in execs, ThreadSpawned(e)
              PROVE  def' = def \/ \E j \in Jobs : \A k \in Jobs \ {j} : def'[k] = def[k]
          BY <4>2 DEF ThreadSpawned, TypeOK, Execution
        <4>3. CASE EditJobs
          BY <4>3 DEF EditJobs, CreateJob, UpdateJob, DeleteJob, RunJobNow, TypeOK
        <4> QED
          BY <4>1, <4>2, <4>3
          DEF Next, vars, Boot, Crash, Clock, SchedulerTick, Claim, Writes, EnqueueNext,
              BeginAttempt, FirstStep, EndAttempt, Answers, SpawnFails, ModuleEnds,
              AgentEnds, tables
      <3>3. CASE def' = def
        BY <3>3 DEF Exists
      <3> QED
        BY <3>1, <3>2, <3>3
    <2>2. PICK j : {k \in Jobs : Exists(k)}' \subseteq {k \in Jobs : Exists(k)} \cup {j}
      BY <2>1
    <2>3. IsFiniteSet({k \in Jobs : Exists(k)} \cup {j})
      BY FS_AddElement DEF JobsExist
    <2> QED
      BY <2>2, <2>3, FS_Subset
  <1>2. (\A n \in DOMAIN tick : Exists(tick[n]))'
    <2>1. CASE SchedulerTick
      <3>1. IsFiniteSet(DueJobs)
        BY FS_Subset DEF DueJobs, JobsExist
      <3>2. tick' \in Seq(DueJobs) /\ def' = def
        BY <2>1, <3>1, OrdersAreSequences DEF SchedulerTick, tables
      <3> QED
        BY <3>2 DEF DueJobs, Exists
    <2>2. CASE tick' = <<>>
      BY <2>2
    <2>3. CASE RecordEnqueued
      <3>1. tick \in Seq(Jobs) /\ tick # <<>> /\ tick' = Tail(tick)
        BY <2>3 DEF RecordEnqueued, TypeOK
      <3>2. \A n \in DOMAIN tick' : n + 1 \in DOMAIN tick /\ tick'[n] = tick[n + 1]
        BY <3>1
      <3>3. \A j \in Jobs : Exists(j) => Exists(j)'
        BY <2>3, <3>1 DEF RecordEnqueued, TypeOK, Exists, Definition
      <3>4. \A n \in DOMAIN tick : tick[n] \in Jobs
        BY <3>1
      <3> QED
        BY <3>2, <3>3, <3>4 DEF JobsExist
    <2>4. CASE tick' = tick /\ \A j \in Jobs : Exists(j) => Exists(j)'
      <3>1. \A n \in DOMAIN tick : tick[n] \in Jobs
        BY DEF TypeOK
      <3> QED
        BY <2>4, <3>1 DEF JobsExist
    <2>5. \/ SchedulerTick \/ tick' = <<>> \/ RecordEnqueued
          \/ tick' = tick /\ \A j \in Jobs : Exists(j) => Exists(j)'
      <3>1. CASE EditJobs
        <4>1. tick' = <<>>
          BY <3>1 DEF EditJobs, CreateJob, UpdateJob, DeleteJob, RunJobNow, Edit, Idle, memory
        <4> QED
          BY <4>1
      <3>2. CASE Answers
        <4>1. tick' = <<>>
          BY <3>2 DEF Answers, ThreadSpawned, SpawnFails, ModuleEnds, AgentEnds, Idle
        <4> QED
          BY <4>1
      <3>3. def' = def => \A j \in Jobs : Exists(j) => Exists(j)'
        BY DEF Exists
      <3> QED
        BY <3>1, <3>2, <3>3
        DEF Next, vars, Boot, Crash, Clock, Claim, Writes, EnqueueNext,
            BeginAttempt, FirstStep, EndAttempt, tables, memory
    <2> QED
      BY <2>1, <2>2, <2>3, <2>4, <2>5
  <1> QED
    BY <1>1, <1>2 DEF JobsExist

\* Every step preserves the invariant.
LEMMA NextOwnership == Ownership /\ [Next]_vars => Ownership'
  <1> SUFFICES ASSUME Ownership, [Next]_vars PROVE Ownership'
    OBVIOUS
  <1>1. TypeOK'
    BY NextTypes
  <1>2. JobsExist'
    BY <1>1, JobsSteps
  <1>3. Owned'
    <2>0. def' = def => \A j \in Jobs : Exists(j) => Exists(j)'
      BY DEF Exists
    <2>1. CASE UNCHANGED vars \/ Boot \/ Clock \/ SchedulerTick
      BY <2>0, <2>1, QuietSteps DEF vars, Boot, Clock, SchedulerTick, tables, memory, seen, budget
    <2>2. CASE RecordEnqueued
      <3>1. \A j \in Jobs : Exists(j) => Exists(j)'
        <4>1. \A j \in Jobs : def[j].exists => def[j] \in Definition
          BY DEF Ownership, TypeOK, NoDefinition
        <4> QED
          BY <2>2, <4>1 DEF RecordEnqueued, Exists, Ownership, TypeOK, Definition
      <3> QED
        BY <2>2, <3>1, QuietSteps DEF RecordEnqueued, seen, budget
    <2>3. CASE Crash
      BY <1>1, <2>3, CrashSteps
    <2>4. ASSUME NEW j \in Jobs, NEW d \in Drafts, CreateJob(j, d)
          PROVE  Owned'
      <3>1. \A k \in Jobs : Exists(k) => Exists(k)'
        BY <2>4 DEF CreateJob, Exists, Ownership, TypeOK
      <3> QED
        BY <2>4, <3>1, QuietSteps DEF CreateJob, memory, seen
    <2>5. ASSUME NEW j \in Jobs, NEW d \in Drafts, NEW b \in BOOLEAN, UpdateJob(j, d, b)
          PROVE  Owned'
      <3>1. \A k \in Jobs : Exists(k) => Exists(k)'
        <4>1. def[j] \in Definition
          BY <2>5 DEF UpdateJob, Exists, Ownership, TypeOK, NoDefinition
        <4> QED
          BY <2>5, <4>1 DEF UpdateJob, Updated, Exists, Ownership, TypeOK, Definition
      <3> QED
        BY <2>5, <3>1, QuietSteps DEF UpdateJob, memory, seen
    <2>6. ASSUME NEW j \in Jobs, DeleteJob(j)
          PROVE  Owned'
      BY <1>1, <2>6, DeleteSteps
    <2>7. ASSUME NEW j \in Jobs, RunJobNow(j)
          PROVE  Owned'
      <3>1. PICK t \in now..now + RunNowOffsets - 1 : Insert(j, t)
        BY <2>7 DEF RunJobNow
      <3>2. t \in Nat
        BY CronAssumption DEF Ownership, TypeOK
      <3>3. Exists(j) /\ UNCHANGED <<def, execs, workerBusy, answered, crashes>>
        BY <2>7 DEF RunJobNow, memory, seen
      <3> QED
        BY <1>1, <3>1, <3>2, <3>3, InsertSteps
    <2>8. CASE EnqueueNext
      <3>1. PICK t \in Missing(Head(tick)) : Insert(Head(tick), t)
        BY <2>8 DEF EnqueueNext
      <3>2. Head(tick) \in Jobs /\ Exists(Head(tick))
        BY <2>8 DEF EnqueueNext, Ownership, TypeOK, JobsExist
      <3>3. def[Head(tick)] \in Definition
        BY <3>2 DEF Ownership, TypeOK, Exists, NoDefinition
      <3>4. t \in Nat
        BY <3>1, <3>3, DueTimesAreNat, CronAssumption DEF Missing, Ownership, TypeOK
      <3>5. UNCHANGED <<def, execs, workerBusy, answered, crashes>>
        BY <2>8 DEF EnqueueNext, memory, seen, budget
      <3> QED
        BY <1>1, <3>1, <3>2, <3>4, <3>5, InsertSteps
    <2>9. CASE Claim
      BY <1>1, <2>9, ClaimSteps
    <2>10. ASSUME NEW e \in execs, EndAttempt(e)
           PROVE  Owned'
      BY <1>1, <2>10, EndKeeps
    <2>11. ASSUME NEW e \in execs,
                  \/ BeginAttempt(e) \/ FirstStep(e) \/ ThreadSpawned(e) \/ SpawnFails(e)
                  \/ \E o \in ModuleOutcomes : ModuleEnds(e, o)
                  \/ \E o \in {"answered", "error", "queued"} : AgentEnds(e, o)
           PROVE  Owned'
      <3>1. PICK f : AttemptStep(e, f)
        BY <2>11, AttemptSteps
      <3> QED
        BY <1>1, <3>1, AttemptKeeps
    <2> QED
      BY <2>1, <2>2, <2>3, <2>4, <2>5, <2>6, <2>7, <2>8, <2>9, <2>10, <2>11
      DEF Next, EditJobs, Writes, Answers
  <1> QED
    BY <1>1, <1>2, <1>3 DEF Ownership, Owned

\* The inductive invariant holds in every reachable state.
LEMMA SpecOwnership == Spec => []Ownership
  BY InitOwnership, NextOwnership, PTL DEF Spec

\* Nobody takes an instance from the execution that works on it, however short
\* its lease; attempts and answers beyond the promised ones are the crashes'.
THEOREM InstancesOwned == Spec => []ExecutionOwnsInstance
  <1>1. Ownership => ExecutionOwnsInstance
    <2> SUFFICES ASSUME Ownership PROVE ExecutionOwnsInstance
      OBVIOUS
    <2> USE DEF Ownership
    <2>1. AttemptsBounded
      BY DEF AttemptsLeft, AnswersLeft, AttemptsBounded
    <2>2. Cardinality(execs) <= 1
      <3>1. CASE execs = {}
        BY <3>1, FS_EmptySet
      <3>2. ASSUME NEW e \in execs
            PROVE  Cardinality(execs) <= 1
        <4>1. execs = {e}
          BY DEF OneExecution
        <4>2. Cardinality({e}) = 1
          BY FS_Singleton
        <4> QED
          BY <4>1, <4>2
      <3> QED
        BY <3>1, <3>2
    <2> QED
      BY <2>1, <2>2 DEF ExecutionOwnsInstance, OneExecution, RowOfExecution
  <1> QED
    BY <1>1, SpecOwnership, PTL

-------------------------------------------------------------------------------
(* Edits under an attempt.                                                 *)

\* A job's thread changes only when it is spawned, or with the job.
LEMMA ThreadsKept ==
  ASSUME Ownership, [Next]_vars, NEW j \in Jobs, Exists(j), Exists(j)',
         \A e \in execs : ThreadSpawned(e) => e.job # j
  PROVE  def'[j].thread = def[j].thread
  <1> USE DEF Ownership, TypeOK
  <1>0. def[j] \in Definition
    BY DEF Exists, NoDefinition
  <1>1. CASE def' = def
    BY <1>1
  <1>2. ASSUME NEW k \in Jobs, NEW d \in Drafts, CreateJob(k, d)
        PROVE  def'[j].thread = def[j].thread
    BY <1>2 DEF CreateJob
  <1>3. ASSUME NEW k \in Jobs, NEW d \in Drafts, NEW b \in BOOLEAN, UpdateJob(k, d, b)
        PROVE  def'[j].thread = def[j].thread
    BY <1>0, <1>3 DEF UpdateJob, Updated, Definition
  <1>4. ASSUME NEW k \in Jobs, DeleteJob(k)
        PROVE  def'[j].thread = def[j].thread
    BY <1>4 DEF DeleteJob, Exists, NoDefinition
  <1>5. CASE RecordEnqueued
    BY <1>0, <1>5 DEF RecordEnqueued, Definition
  <1>6. ASSUME NEW e \in execs, ThreadSpawned(e)
        PROVE  def'[j].thread = def[j].thread
    BY <1>6 DEF ThreadSpawned, Execution
  <1> QED
    BY <1>1, <1>2, <1>3, <1>4, <1>5, <1>6
    DEF Next, vars, EditJobs, RunJobNow, Boot, Crash, Clock, SchedulerTick, Claim, Writes,
        EnqueueNext, BeginAttempt, FirstStep, EndAttempt, Answers, SpawnFails, ModuleEnds,
        AgentEnds, tables

\* Only a job without a thread has one spawned, and only one execution spawns.
LEMMA StepSpawnedOnce ==
  ASSUME Ownership, SpawnedOnce, [Next]_vars
  PROVE  SpawnedOnce'
  <1> SUFFICES ASSUME NEW e \in execs', e.stage = "spawning", Exists(e.job)'
               PROVE  def'[e.job].thread = 0
    BY DEF SpawnedOnce
  <1> USE DEF Ownership
  <1>1. CASE e \in execs
    <2>1. e.job \in Jobs
      BY <1>1 DEF TypeOK, Execution
    <2>2. \A f \in execs : ~ThreadSpawned(f)
      <3> SUFFICES ASSUME NEW f \in execs, ThreadSpawned(f) PROVE FALSE
        OBVIOUS
      <3>1. execs = {f} /\ f \in Execution
        BY DEF OneExecution, TypeOK
      <3>2. \A g \in execs' : g.stage # "spawning"
        BY <3>1 DEF ThreadSpawned, Move, Execution
      <3> QED
        BY <3>2
    <2>3. CASE Exists(e.job)
      BY <1>1, <2>1, <2>2, <2>3, ThreadsKept DEF SpawnedOnce
    <2>4. CASE ~Exists(e.job)
      <3>1. PICK d \in Drafts : CreateJob(e.job, d)
        <4>1. def'[e.job] # def[e.job]
          BY <2>4 DEF Exists
        <4>2. ~RecordEnqueued
          <5> SUFFICES ASSUME RecordEnqueued PROVE FALSE
            OBVIOUS
          <5>1. Head(tick) \in Jobs /\ Exists(Head(tick))
            BY DEF RecordEnqueued, TypeOK, JobsExist
          <5>2. Head(tick) # e.job
            BY <2>4, <5>1
          <5> QED
            BY <2>1, <4>1, <5>1, <5>2 DEF RecordEnqueued, TypeOK
        <4>3. \A j \in Jobs, d \in Drafts : CreateJob(j, d) => j = e.job
          BY <2>1, <4>1 DEF CreateJob, TypeOK
        <4>4. \A j \in Jobs, d \in Drafts, b \in BOOLEAN : UpdateJob(j, d, b) => j = e.job
          BY <2>1, <4>1 DEF UpdateJob, TypeOK
        <4>5. \A j \in Jobs : DeleteJob(j) => j = e.job
          BY <2>1, <4>1 DEF DeleteJob, TypeOK
        <4> QED
          BY <2>2, <2>4, <4>1, <4>2, <4>3, <4>4, <4>5
          DEF Next, vars, EditJobs, RunJobNow, UpdateJob, DeleteJob, Boot, Crash, Clock,
              SchedulerTick, Claim, Writes, EnqueueNext, BeginAttempt, FirstStep, EndAttempt,
              Answers, SpawnFails, ModuleEnds, AgentEnds, tables
      <3> QED
        BY <2>1, <3>1 DEF CreateJob, TypeOK
    <2> QED
      BY <2>3, <2>4
  <1>2. CASE e \notin execs
    <2>1. PICK f \in execs : BeginAttempt(f)
      <3>1. \A g \in execs : g \in Execution
        BY DEF TypeOK
      <3>2. ~Claim
        <4> SUFFICES ASSUME Claim PROVE FALSE
          OBVIOUS
        <4> DEFINE table == [i \in Instances |-> Reclaimed(i)]
        <4>1. PICK i \in Instances :
                 execs' = execs \cup {[inst |-> i, job |-> table[i].job, stage |-> "leased",
                                       attempt |-> table[i].attempt + 1,
                                       mode |-> def[table[i].job].mode]}
          BY DEF Claim
        <4> HIDE DEF table
        <4> QED
          BY <1>2, <4>1
      <3>3. ASSUME NEW g \in execs, NEW stage, Move(g, stage)
            PROVE  stage = "spawning"
        <4>1. e = [g EXCEPT !.stage = stage] /\ g \in Execution
          BY <1>2, <3>1, <3>3 DEF Move
        <4> QED
          BY <4>1 DEF Execution
      <3>4. \A g \in execs :
               /\ ~FirstStep(g) /\ ~SpawnFails(g)
               /\ \A o \in ModuleOutcomes : ~ModuleEnds(g, o)
               /\ \A o \in {"answered", "error", "queued"} : ~AgentEnds(g, o)
        BY <3>3 DEF FirstStep, SpawnFails, ModuleEnds, AgentEnds, Ask
      <3>5. ASSUME NEW g \in execs, ThreadSpawned(g)
            PROVE  FALSE
        <4>1. Exists(g.job)
          BY <3>3, <3>5 DEF ThreadSpawned
        <4>2. execs' = (execs \ {g}) \cup {[g EXCEPT !.stage = "stepping", !.mode = def[g.job].mode]}
          BY <3>5, <4>1 DEF ThreadSpawned
        <4>3. e = [g EXCEPT !.stage = "stepping", !.mode = def[g.job].mode] /\ g \in Execution
          BY <1>2, <3>1, <4>2
        <4> QED
          BY <4>3 DEF Execution
      <3> QED
        BY <1>2, <3>2, <3>4, <3>5
        DEF Next, vars, EditJobs, CreateJob, UpdateJob, DeleteJob, RunJobNow, Boot, Crash, Clock,
            SchedulerTick, Writes, EnqueueNext, RecordEnqueued, EndAttempt, Answers, memory
    <2>2. f \in Execution /\ def' = def
      BY <2>1 DEF TypeOK, BeginAttempt
    <2>3. e.job = f.job /\ def[f.job].thread = 0
      BY <1>2, <2>1, <2>2 DEF BeginAttempt, Move, Execution
    <2> QED
      BY <2>2, <2>3
  <1> QED
    BY <1>1, <1>2

\* No thread is being spawned at first.
LEMMA SpecSpawnedOnce == Spec => []SpawnedOnce
  <1>1. Init => SpawnedOnce
    BY DEF Init, SpawnedOnce
  <1> QED
    BY <1>1, StepSpawnedOnce, SpecOwnership, PTL DEF Spec

\* An attempt whose job was edited or deleted under it asks nobody for an
\* instance that is gone, and gives no job a second thread.
THEOREM StaleAttemptsHarmless == Spec => StaleAttemptsDoNoHarm
  <1> DEFINE Harmless ==
        /\ \A i \in Instances : asked'[i] > asked[i] => inst[i].state # "absent"
        /\ \A j \in Jobs :
             Exists(j) /\ Exists(j)' /\ def[j].thread # 0 => def'[j].thread = def[j].thread
  <1>1. Ownership /\ SpawnedOnce /\ [Next]_vars => [Harmless]_vars
    <2> SUFFICES ASSUME Ownership, SpawnedOnce, [Next]_vars PROVE Harmless
      OBVIOUS
    <2>1. ASSUME NEW i \in Instances, asked'[i] > asked[i]
          PROVE  inst[i].state # "absent"
      <3>1. asked' # asked /\ asked \in [Instances -> Nat] /\ execs \subseteq Execution
        BY <2>1 DEF Ownership, TypeOK
      <3>2. PICK e \in execs : Ask(e) /\ StepInserted(e)
        BY <3>1
        DEF Next, vars, EditJobs, CreateJob, UpdateJob, DeleteJob, RunJobNow, Boot, Crash, Clock,
            SchedulerTick, Claim, Writes, EnqueueNext, RecordEnqueued, BeginAttempt, FirstStep,
            EndAttempt, Answers, ThreadSpawned, SpawnFails, ModuleEnds, AgentEnds, seen
      <3>3. i = e.inst
        BY <2>1, <3>1, <3>2 DEF Ask, Execution
      <3> QED
        BY <3>2, <3>3 DEF StepInserted, Present
    <2>2. ASSUME NEW j \in Jobs, Exists(j), Exists(j)', def[j].thread # 0
          PROVE  def'[j].thread = def[j].thread
      <3>1. \A e \in execs : ThreadSpawned(e) => e.job # j
        BY <2>2 DEF ThreadSpawned, SpawnedOnce
      <3> QED
        BY <2>2, <3>1, ThreadsKept
    <2> QED
      BY <2>1, <2>2
  <1> QED
    BY <1>1, SpecOwnership, SpecSpawnedOnce, PTL DEF Spec, StaleAttemptsDoNoHarm

-------------------------------------------------------------------------------
(* No time of a schedule is skipped or enqueued twice.                     *)

\* A time that the period divides is a number of whole periods.
LEMMA WholePeriods ==
  ASSUME NEW x \in Int, NEW p \in Nat \ {0}, x % p = 0
  PROVE  \E b \in Int : x = b * p
  OBVIOUS

\* Whole periods after an instant that is itself whole periods from the start.
LEMMA PeriodsAdd ==
  ASSUME NEW start \in Int, NEW c \in Int, NEW p \in Nat \ {0}, NEW m \in Int,
         (c - start) % p = 0
  PROVE  ((c + m * p) - start) % p = 0
  <1>1. PICK z \in Int : z = c - start
    OBVIOUS
  <1>2. PICK b \in Int : z = b * p
    BY <1>1
  <1>3. PICK y \in Int : y = m * p
    OBVIOUS
  <1>4. PICK n \in Int : n = b + m
    OBVIOUS
  <1>5. n * p = z + y
    BY <1>2, <1>3, <1>4
  <1>6. (n * p) % p = 0
    OBVIOUS
  <1>7. (c + m * p) - start = n * p
    BY <1>1, <1>3, <1>5
  <1> QED
    BY <1>6, <1>7

\* What a tick takes to be due reaches from where the last one stopped to the
\* latest time it records: no occurrence in between is left out.
LEMMA DueTimesAreComplete ==
  ASSUME TypeOK, NEW d \in Definition,
         d.schedule.kind = "every" /\ d.last # None =>
            d.last > d.created /\ (d.last - d.created) % d.schedule.t = 0,
         NEW last \in DueTimes(d), \A u \in DueTimes(d) : u <= last
  PROVE  /\ \A t \in Occurrences(d) : d.last < t /\ t <= last => t \in DueTimes(d)
         /\ d.schedule.kind = "every" =>
               last > d.created /\ (last - d.created) % d.schedule.t = 0
  <1>1. /\ d.schedule.kind \in Kinds /\ d.schedule.t \in Nat \ {0}
        /\ d.last \in Nat \cup {None} /\ d.created \in Nat
    BY DEF Definition, Schedules
  <1>2. now \in Nat /\ Horizon \in Nat /\ MaxPerTick \in Nat \ {0} /\ now <= Horizon
    BY CronAssumption DEF TypeOK
  <1>3. CASE d.schedule.kind = "at"
    BY <1>1, <1>3 DEF Occurrences, DueTimes, DueOnce
  <1>4. CASE d.schedule.kind = "every"
    <2>1. PICK p \in Nat \ {0}, c \in Nat, start \in Nat :
             p = d.schedule.t /\ c = Cursor(d) /\ start = d.created
      BY <1>1, <1>4 DEF Cursor, None
    <2>2. DueTimes(d) = {t \in {c + n * p : n \in 1..MaxPerTick} : t <= now}
      BY <1>4, <2>1 DEF DueTimes, DueEvery
    <2>3. Occurrences(d) = {t \in 0..Horizon : t > start /\ (t - start) % p = 0}
      BY <1>4, <2>1 DEF Occurrences
    <2>4. c >= start /\ (c - start) % p = 0
      <3>1. CASE d.last = None
        BY <1>1, <1>4, <2>1, <3>1 DEF Cursor
      <3>2. CASE d.last # None
        BY <1>1, <1>4, <2>1, <3>2 DEF Cursor
      <3> QED
        BY <3>1, <3>2
    <2>5. \A t \in Nat : d.last < t /\ t > start => c < t
      BY <1>1, <1>4, <2>1 DEF Cursor
    <2>6. PICK m \in Nat : m \in 1..MaxPerTick /\ last = c + m * p /\ last <= now
      <3>1. last \in {c + n * p : n \in 1..MaxPerTick} /\ last <= now
        BY <2>2, Zenon
      <3>2. PICK n \in 1..MaxPerTick : last = c + n * p
        BY <3>1, Zenon
      <3>3. n \in Nat
        BY <1>2, <3>2
      <3> QED
        BY <3>1, <3>2, <3>3, Zenon
    <2>7. m >= 1 /\ m <= MaxPerTick
      BY <1>2, <2>6
    <2>8. m * p \in Nat /\ m * p > 0
      BY <2>7
    <2>9. last \in Nat /\ last > start
      BY <2>4, <2>6, <2>8
    <2>10. (last - start) % p = 0
      <3>1. start \in Int /\ c \in Int /\ m \in Int
        BY <2>7
      <3>2. ((c + m * p) - start) % p = 0
        BY <2>4, <3>1, PeriodsAdd, Zenon
      <3> QED
        BY <2>6, <3>2
    <2>11. ASSUME NEW t \in Nat, t \in Occurrences(d), d.last < t, t <= last
           PROVE  t \in DueTimes(d)
      <3>1. t > start /\ (t - start) % p = 0
        BY <2>3, <2>11
      <3>2. c < t /\ t <= c + m * p
        BY <2>5, <2>6, <2>11, <3>1
      <3>3. PICK n \in 1..m : t = c + n * p
        <4>1. PICK y \in Int, z \in Int : y = c - start /\ z = t - start
          OBVIOUS
        <4>a. y % p = 0 /\ z % p = 0
          BY <2>4, <3>1, <4>1
        <4>b. PICK b \in Int : y = b * p
          BY <4>a, WholePeriods
        <4>c. PICK a \in Int : z = a * p
          BY <4>a, WholePeriods
        <4>3. PICK n \in Int : n = a - b
          OBVIOUS
        <4>4. n * p = z - y
          BY <4>b, <4>c, <4>3
        <4>5. t = c + n * p
          BY <4>1, <4>4
        <4>6. 0 < n * p /\ n * p <= m * p
          BY <3>2, <4>5
        <4>7. n >= 1 /\ n <= m
          BY <4>6
        <4> QED
          BY <4>5, <4>7
      <3>4. n \in 1..MaxPerTick
        BY <1>2, <2>7
      <3>5. t <= now
        BY <1>2, <2>6, <2>9, <2>11, <3>1
      <3> QED
        BY <2>2, <3>3, <3>4, <3>5
    <2>12. Occurrences(d) \subseteq Nat
      BY <2>3
    <2> QED
      BY <2>1, <2>9, <2>10, <2>11, <2>12
  <1>5. CASE d.schedule.kind = "cron"
    <2> DEFINE after == {t \in CronMatches(d.schedule.t) : Cursor(d) < t /\ t <= now}
    <2>1. DueTimes(d) = {t \in after : Cardinality({u \in after : u <= t}) <= MaxPerTick}
      BY <1>5 DEF DueTimes, DueCron
    <2>2. IsFiniteSet(after)
      <3>1. after \subseteq 0..Horizon
        BY DEF CronMatches
      <3>2. IsFiniteSet(0..Horizon)
        BY <1>2, FS_Interval
      <3> QED
        BY <3>1, <3>2, FS_Subset
    <2>3. ASSUME NEW t \in Occurrences(d), d.last < t, t <= last
          PROVE  t \in DueTimes(d)
      <3>1. t \in CronMatches(d.schedule.t) /\ t >= d.created /\ t \in Nat
        BY <1>5 DEF Occurrences, CronMatches
      <3>2. last \in after /\ last \in Nat /\ last <= now
        BY <2>1 DEF CronMatches
      <3>3. t \in after
        BY <1>1, <1>2, <1>5, <2>3, <3>1, <3>2 DEF Cursor
      <3> HIDE DEF after
      <3>4. {u \in after : u <= t} \subseteq {u \in after : u <= last}
        <4>1. after \subseteq Nat
          BY DEF after, CronMatches
        <4>2. \A u \in Nat : u <= t => u <= last
          BY <2>3, <3>1, <3>2
        <4> QED
          BY <4>1, <4>2
      <3>5. /\ IsFiniteSet({u \in after : u <= last})
            /\ Cardinality({u \in after : u <= t}) <= Cardinality({u \in after : u <= last})
        BY <2>2, <3>4, FS_Subset
      <3>6. /\ Cardinality({u \in after : u <= t}) \in Nat
            /\ Cardinality({u \in after : u <= last}) \in Nat
        BY <2>2, FS_Subset, FS_CardinalityType
      <3>7. Cardinality({u \in after : u <= last}) <= MaxPerTick
        BY <2>1
      <3>8. Cardinality({u \in after : u <= t}) <= MaxPerTick
        BY <1>2, <3>5, <3>6, <3>7
      <3> QED
        BY <2>1, <3>3, <3>8
    <2> QED
      BY <1>5, <2>3
  <1> QED
    BY <1>1, <1>3, <1>4, <1>5 DEF Kinds

\* The occurrences of a schedule, and the last one recorded, can be compared.
LEMMA OccurrencesAreNat ==
  ASSUME NEW d \in Definition
  PROVE  Occurrences(d) \subseteq Nat /\ d.last \in Int
  BY DEF Occurrences, CronMatches, Definition, Schedules, Kinds, None

\* A step that leaves the rows' jobs and times alone and no job new or recorded.
LEMMA TimesStable ==
  ASSUME TimesKept,
         \A i \in Instances : /\ inst'[i].job = inst[i].job /\ inst'[i].at = inst[i].at
                              /\ inst'[i].state # "absent" => inst[i].state # "absent",
         \A j \in Jobs : Exists(j)' /\ j \notin rescheduled' =>
            /\ Exists(j) /\ j \notin rescheduled
            /\ def'[j].schedule = def[j].schedule
            /\ def'[j].last = def[j].last /\ def'[j].created = def[j].created
  PROVE  TimesKept'
  <1>1. \A j \in Jobs : \A t : HasInstance(j, t)' <=> HasInstance(j, t)
    BY DEF HasInstance
  <1>2. ASSUME NEW j \in Jobs, Exists(j)', j \notin rescheduled'
        PROVE  Recorded(j)'
    <2>1. Recorded(j)
      BY <1>2 DEF TimesKept
    <2>2. Occurrences(def[j])' = Occurrences(def[j])
      BY <1>2 DEF Occurrences, CronMatches
    <2> QED
      BY <1>1, <1>2, <2>1, <2>2 DEF Recorded
  <1> QED
    BY <1>2 DEF TimesKept

\* A row inserted for a time that had none.
LEMMA TimesInserted ==
  ASSUME TypeOK, TimesKept, IdsGivenOnce, RowsHaveJobs,
         NEW j \in Jobs, NEW t, Insert(j, t), ~HasInstance(j, t),
         UNCHANGED <<def, rescheduled>>
  PROVE  TimesKept'
  <1>1. used + 1 \in Instances
    BY CronAssumption DEF TypeOK, Insert, Instances
  <1>2. /\ inst'[used + 1].job = j /\ inst'[used + 1].at = t
        /\ \A i \in Instances \ {used + 1} : inst'[i] = inst[i]
    BY <1>1 DEF TypeOK, Insert, NoInstance
  <1>3. inst[used + 1] = NoInstance /\ j # NoJob
    BY <1>1, CronAssumption DEF TypeOK, IdsGivenOnce, RowsHaveJobs
  <1>4. \A k \in Jobs : \A u : HasInstance(k, u) => HasInstance(k, u)'
    <2> SUFFICES ASSUME NEW k \in Jobs, NEW u, HasInstance(k, u)
                 PROVE  HasInstance(k, u)'
      OBVIOUS
    <2>1. PICK i \in Instances : inst[i].job = k /\ inst[i].at = u
      BY DEF HasInstance
    <2>2. i # used + 1
      BY <1>3, <2>1, CronAssumption DEF NoInstance
    <2> QED
      BY <1>2, <2>1, <2>2 DEF HasInstance
  <1>5. \A i, k \in Instances :
           i # k /\ inst'[i].state # "absent" /\ inst'[i].job = inst'[k].job => inst'[i].at # inst'[k].at
    <2> SUFFICES ASSUME NEW i \in Instances, NEW k \in Instances,
                        i # k, inst'[i].state # "absent", inst'[i].job = inst'[k].job
                 PROVE  inst'[i].at # inst'[k].at
      OBVIOUS
    <2>1. CASE i = used + 1
      BY <1>2, <2>1 DEF HasInstance
    <2>2. CASE k = used + 1
      BY <1>2, <2>2 DEF HasInstance
    <2>3. CASE i # used + 1 /\ k # used + 1
      BY <1>2, <2>3 DEF TimesKept
    <2> QED
      BY <2>1, <2>2, <2>3
  <1>6. ASSUME NEW k \in Jobs, Exists(k)', k \notin rescheduled'
        PROVE  Recorded(k)'
    <2>1. Recorded(k) /\ def' = def
      BY <1>6 DEF TimesKept, Exists
    <2>2. Occurrences(def[k])' = Occurrences(def[k])
      BY <2>1 DEF Occurrences, CronMatches
    <2> QED
      BY <1>4, <2>1, <2>2 DEF Recorded
  <1> QED
    BY <1>5, <1>6 DEF TimesKept

\* Recording the latest due time when every due time has its instance.
LEMMA TimesRecorded ==
  ASSUME Ownership, TimesKept, RecordEnqueued
  PROVE  TimesKept'
  <1>1. PICK j \in Jobs : j = Head(tick) /\ Exists(j)
    BY DEF RecordEnqueued, Ownership, TypeOK, JobsExist
  <1>2. def[j] \in Definition
    BY <1>1 DEF Exists, NoDefinition, Ownership, TypeOK
  <1>3. PICK last \in DueTimes(def[j]) :
           /\ \A u \in DueTimes(def[j]) : u <= last
           /\ def' = [def EXCEPT ![j].last = last]
    BY <1>1 DEF RecordEnqueued
  <1>4. UNCHANGED <<inst, rescheduled>>
    BY DEF RecordEnqueued
  <1>5. \A t \in DueTimes(def[j]) : HasInstance(j, t)
    BY <1>1 DEF RecordEnqueued, MayRecord, Missing
  <1>6. /\ def'[j].schedule = def[j].schedule /\ def'[j].created = def[j].created
        /\ def'[j].last = last /\ Exists(j)'
    <2>1. def'[j] = [def[j] EXCEPT !.last = last]
      BY <1>1, <1>3 DEF Ownership, TypeOK
    <2> QED
      BY <1>1, <1>2, <2>1 DEF Definition, Exists
  <1>7. \A k \in Jobs \ {j} : def'[k] = def[k]
    BY <1>3 DEF Ownership, TypeOK
  <1>8. \A k \in Jobs : \A t : HasInstance(k, t)' <=> HasInstance(k, t)
    BY <1>4 DEF HasInstance
  <1>9. ASSUME NEW k \in Jobs, Exists(k)', k \notin rescheduled'
        PROVE  Recorded(k)'
    <2>1. CASE k # j
      <3>1. Recorded(k)
        BY <1>4, <1>7, <1>9, <2>1 DEF TimesKept, Exists
      <3>2. Occurrences(def[k])' = Occurrences(def[k])
        BY <1>7, <2>1 DEF Occurrences, CronMatches
      <3> QED
        BY <1>7, <1>8, <2>1, <3>1, <3>2 DEF Recorded
    <2>2. CASE k = j
      <3>1. Recorded(j)
        BY <1>1, <1>4, <1>9, <2>2 DEF TimesKept
      <3>2. Occurrences(def[j])' = Occurrences(def[j])
        BY <1>6 DEF Occurrences, CronMatches
      <3>3. /\ \A t \in Occurrences(def[j]) : def[j].last < t /\ t <= last => t \in DueTimes(def[j])
            /\ def[j].schedule.kind = "every" =>
                  last > def[j].created /\ (last - def[j].created) % def[j].schedule.t = 0
        BY <1>2, <1>3, <3>1, DueTimesAreComplete DEF Recorded, Ownership
      <3>4. \A t \in Occurrences(def[j]) : t \in Int
        BY <1>2, OccurrencesAreNat
      <3>5. def[j].last \in Int
        BY <1>2, OccurrencesAreNat
      <3>6. \A t \in Occurrences(def[j]) : t <= last => HasInstance(j, t)
        BY <1>5, <3>1, <3>3, <3>4, <3>5 DEF Recorded
      <3> QED
        BY <1>6, <1>8, <2>2, <3>2, <3>3, <3>6 DEF Recorded
    <2> QED
      BY <2>1, <2>2
  <1>10. \A i, k \in Instances :
            i # k /\ inst'[i].state # "absent" /\ inst'[i].job = inst'[k].job => inst'[i].at # inst'[k].at
    BY <1>4 DEF TimesKept
  <1> QED
    BY <1>9, <1>10 DEF TimesKept

\* A job that is created has recorded nothing.
LEMMA TimesCreated ==
  ASSUME TypeOK, TimesKept, NEW j \in Jobs, NEW d \in Drafts, CreateJob(j, d)
  PROVE  TimesKept'
  <1>1. /\ def' = [def EXCEPT ![j] =
                     [exists |-> TRUE, enabled |-> TRUE, mode |-> d.mode, schedule |-> d.schedule,
                      last |-> None, created |-> now, thread |-> 0]]
        /\ rescheduled' = rescheduled \ {j} /\ inst' = inst
    BY DEF CreateJob
  <1>2. \A k \in Jobs \ {j} : def'[k] = def[k]
    BY <1>1 DEF TypeOK
  <1>3. def'[j].last = None /\ def'[j].schedule \in Schedules
    BY <1>1, CronAssumption DEF TypeOK
  <1>4. \A k \in Jobs : \A t : HasInstance(k, t)' <=> HasInstance(k, t)
    BY <1>1 DEF HasInstance
  <1>5. ASSUME NEW k \in Jobs, Exists(k)', k \notin rescheduled'
        PROVE  Recorded(k)'
    <2>1. CASE k # j
      <3>1. Recorded(k)
        BY <1>1, <1>2, <1>5, <2>1 DEF TimesKept, Exists
      <3>2. Occurrences(def[k])' = Occurrences(def[k])
        BY <1>2, <2>1 DEF Occurrences, CronMatches
      <3> QED
        BY <1>2, <1>4, <2>1, <3>1, <3>2 DEF Recorded
    <2>2. CASE k = j
      <3>1. \A t \in Occurrences(def'[j]) : t \in Nat
        BY <1>3 DEF Occurrences, CronMatches, Schedules, Kinds
      <3> QED
        BY <1>3, <2>2, <3>1 DEF Recorded, None
    <2> QED
      BY <2>1, <2>2
  <1> QED
    BY <1>1, <1>5 DEF TimesKept

\* A job that is deleted takes its own instances and no other.
LEMMA TimesDeleted ==
  ASSUME Ownership, TimesKept, NEW j \in Jobs, DeleteJob(j)
  PROVE  TimesKept'
  <1> USE DEF Ownership
  <1>1. /\ def' = [def EXCEPT ![j] = NoDefinition] /\ rescheduled' = rescheduled
        /\ \A i \in Instances : inst'[i] = IF inst[i].job = j THEN NoInstance ELSE inst[i]
    BY DEF DeleteJob
  <1>2. \A k \in Jobs \ {j} : def'[k] = def[k]
    BY <1>1 DEF TypeOK
  <1>3. ~Exists(j)'
    BY <1>1 DEF TypeOK, Exists, NoDefinition
  <1>4. \A k \in Jobs \ {j} : \A t : HasInstance(k, t) => HasInstance(k, t)'
    BY <1>1 DEF HasInstance
  <1>5. ASSUME NEW k \in Jobs, Exists(k)', k \notin rescheduled'
        PROVE  Recorded(k)'
    <2>1. k # j /\ Recorded(k)
      BY <1>1, <1>2, <1>3, <1>5 DEF TimesKept, Exists
    <2>2. Occurrences(def[k])' = Occurrences(def[k])
      BY <1>2, <2>1 DEF Occurrences, CronMatches
    <2> QED
      BY <1>2, <1>4, <2>1, <2>2 DEF Recorded
  <1>6. \A i, k \in Instances :
            i # k /\ inst'[i].state # "absent" /\ inst'[i].job = inst'[k].job => inst'[i].at # inst'[k].at
    <2> SUFFICES ASSUME NEW i \in Instances, NEW k \in Instances,
                        i # k, inst'[i].state # "absent", inst'[i].job = inst'[k].job
                 PROVE  inst'[i].at # inst'[k].at
      OBVIOUS
    <2>1. inst'[i] = inst[i] /\ inst[i].state # "absent" /\ inst[i].job \in Jobs
      BY <1>1 DEF NoInstance, RowsHaveJobs
    <2>2. inst'[k] = inst[k]
      BY <1>1, <2>1, CronAssumption DEF NoInstance
    <2> QED
      BY <2>1, <2>2 DEF TimesKept
  <1> QED
    BY <1>5, <1>6 DEF TimesKept

\* Every step keeps the times of the schedules.
LEMMA StepTimes ==
  ASSUME Ownership, TimesKept, [Next]_vars
  PROVE  TimesKept'
  <1> USE DEF Ownership
  <1>1. CASE UNCHANGED vars
    BY <1>1, TimesStable DEF vars, Exists
  <1>2. ASSUME UNCHANGED <<def, inst, rescheduled>>
        PROVE  TimesKept'
    BY <1>2, TimesStable DEF Exists
  <1>3. ASSUME NEW j \in Jobs, NEW d \in Drafts, CreateJob(j, d)
        PROVE  TimesKept'
    BY <1>3, TimesCreated
  <1>4. ASSUME NEW j \in Jobs, NEW d \in Drafts, NEW b \in BOOLEAN, UpdateJob(j, d, b)
        PROVE  TimesKept'
    <2>1. def[j] \in Definition /\ Exists(j)
      BY <1>4 DEF UpdateJob, Exists, TypeOK, NoDefinition
    <2>2. /\ def' = [def EXCEPT ![j] = Updated(j, d, b)] /\ inst' = inst
          /\ rescheduled' = IF d.schedule = def[j].schedule THEN rescheduled ELSE rescheduled \cup {j}
      BY <1>4 DEF UpdateJob
    <2>3. \A k \in Jobs \ {j} : def'[k] = def[k]
      BY <2>2 DEF TypeOK
    <2>4. /\ def'[j].last = def[j].last /\ def'[j].created = def[j].created
          /\ def'[j].schedule = d.schedule
      BY <2>1, <2>2 DEF Updated, TypeOK, Definition
    <2>5. \A k \in Jobs : Exists(k)' /\ k \notin rescheduled' =>
             /\ Exists(k) /\ k \notin rescheduled
             /\ def'[k].schedule = def[k].schedule
             /\ def'[k].last = def[k].last /\ def'[k].created = def[k].created
      BY <2>1, <2>2, <2>3, <2>4 DEF Exists
    <2> QED
      BY <2>2, <2>5, TimesStable
  <1>5. ASSUME NEW j \in Jobs, DeleteJob(j)
        PROVE  TimesKept'
    BY <1>5, TimesDeleted
  <1>6. ASSUME NEW j \in Jobs, RunJobNow(j)
        PROVE  TimesKept'
    <2>1. PICK t \in now..now + RunNowOffsets - 1 : Insert(j, t) /\ ~HasInstance(j, t)
      BY <1>6 DEF RunJobNow
    <2> QED
      BY <1>6, <2>1, TimesInserted DEF RunJobNow
  <1>7. CASE EnqueueNext
    <2>1. PICK j \in Jobs : j = Head(tick)
      BY <1>7 DEF EnqueueNext, TypeOK
    <2>2. PICK t \in Missing(j) : Insert(j, t)
      BY <1>7, <2>1 DEF EnqueueNext
    <2>3. ~HasInstance(j, t)
      BY DEF Missing
    <2> QED
      BY <1>7, <2>2, <2>3, TimesInserted DEF EnqueueNext
  <1>8. CASE RecordEnqueued
    BY <1>8, TimesRecorded
  <1>9. ASSUME UNCHANGED <<def, rescheduled>>,
               \A i \in Instances : /\ inst'[i].job = inst[i].job /\ inst'[i].at = inst[i].at
                                    /\ inst'[i].state # "absent" => inst[i].state # "absent"
        PROVE  TimesKept'
    BY <1>9, TimesStable DEF Exists
  <1>10. CASE Claim
    <2> DEFINE table == [i \in Instances |-> Reclaimed(i)]
    <2>1. PICK i \in Instances :
             /\ Claimable(table[i])
             /\ inst' = [table EXCEPT ![i].state = "leased", ![i].leaseExpiresAt = now + Lease]
      BY <1>10 DEF Claim
    <2>2. \A k \in Instances : inst[k] \in Instance
      BY DEF TypeOK
    <2>3. table \in [Instances -> Instance]
      BY <2>2 DEF Reclaimed, Instance, InstanceStates
    <2>4. \A k \in Instances : /\ table[k].job = inst[k].job /\ table[k].at = inst[k].at
                               /\ table[k].state # "absent" => inst[k].state # "absent"
      BY <2>2 DEF Reclaimed, Instance
    <2>5. table[i].state # "absent"
      BY <2>1 DEF Claimable
    <2> HIDE DEF table
    <2>6. \A k \in Instances \ {i} : inst'[k] = table[k]
      BY <2>1, <2>3
    <2>7. inst'[i].job = table[i].job /\ inst'[i].at = table[i].at
      BY <2>1, <2>3 DEF Instance
    <2> QED
      BY <1>9, <1>10, <2>4, <2>5, <2>6, <2>7 DEF Claim
  <1>11. ASSUME NEW e \in execs,
                \/ BeginAttempt(e) \/ EndAttempt(e)
                \/ \E o \in ModuleOutcomes : ModuleEnds(e, o)
                \/ \E o \in {"answered", "error", "queued"} : AgentEnds(e, o)
         PROVE  TimesKept'
    <2>1. e.inst \in Instances /\ inst[e.inst] \in Instance
      BY DEF TypeOK, Execution
    <2>2. UNCHANGED <<def, rescheduled>>
      BY <1>11 DEF BeginAttempt, EndAttempt, ModuleEnds, AgentEnds
    <2>3. \A i \in Instances \ {e.inst} : inst'[i] = inst[i]
      BY <1>11, <2>1 DEF BeginAttempt, EndAttempt, ModuleEnds, AgentEnds, TypeOK
    <2>4. /\ inst'[e.inst].job = inst[e.inst].job /\ inst'[e.inst].at = inst[e.inst].at
          /\ inst[e.inst].state = "absent" => inst'[e.inst].state = "absent"
      <3>1. CASE inst' = inst
        BY <3>1
      <3>2. CASE BeginAttempt(e)
        BY <2>1, <3>2 DEF BeginAttempt, Present, TypeOK, Instance
      <3>3. CASE EndAttempt(e)
        BY <2>1, <3>3 DEF EndAttempt, Present, TypeOK, Instance
      <3>4. CASE inst' = [inst EXCEPT ![e.inst].agentInvoked = TRUE]
        BY <2>1, <3>4 DEF TypeOK, Instance
      <3>5. ASSUME NEW o, ModuleEnds(e, o) \/ AgentEnds(e, o)
            PROVE  inst' = inst \/ inst' = [inst EXCEPT ![e.inst].agentInvoked = TRUE]
        BY <3>5 DEF ModuleEnds, AgentEnds
      <3> QED
        BY <1>11, <3>1, <3>2, <3>3, <3>4, <3>5
    <2> QED
      BY <1>9, <2>2, <2>3, <2>4
  <1>12. ASSUME NEW e \in execs, ThreadSpawned(e)
         PROVE  TimesKept'
    <2>1. UNCHANGED <<inst, rescheduled>> /\ e.job \in Jobs
      BY <1>12 DEF ThreadSpawned, TypeOK, Execution
    <2>2. \A k \in Jobs : Exists(k)' =>
             /\ Exists(k)
             /\ def'[k].schedule = def[k].schedule
             /\ def'[k].last = def[k].last /\ def'[k].created = def[k].created
      <3>1. CASE def' = def
        BY <3>1 DEF Exists
      <3>2. CASE Exists(e.job) /\ def' = [def EXCEPT ![e.job].thread = threads + 1]
        <4>1. def[e.job] \in Definition
          BY <2>1, <3>2 DEF Exists, TypeOK, NoDefinition
        <4>2. def'[e.job] = [def[e.job] EXCEPT !.thread = threads + 1]
          BY <2>1, <3>2 DEF TypeOK
        <4>3. \A k \in Jobs \ {e.job} : def'[k] = def[k]
          BY <2>1, <3>2 DEF TypeOK
        <4> QED
          BY <3>2, <4>1, <4>2, <4>3 DEF Exists, Definition
      <3> QED
        BY <1>12, <3>1, <3>2 DEF ThreadSpawned
    <2> QED
      BY <2>1, <2>2, TimesStable
  <1>13. CASE Boot \/ Crash \/ Clock \/ SchedulerTick
    BY <1>2, <1>13 DEF Boot, Crash, Clock, SchedulerTick, tables
  <1>14. ASSUME NEW e \in execs, FirstStep(e) \/ SpawnFails(e)
         PROVE  TimesKept'
    BY <1>2, <1>14 DEF FirstStep, SpawnFails, tables
  <1> QED
    BY <1>1, <1>3, <1>4, <1>5, <1>6, <1>7, <1>8, <1>10, <1>11, <1>12, <1>13, <1>14
    DEF Next, EditJobs, Writes, Answers

\* For every schedule and every limit of a tick: no time is enqueued twice, and
\* none up to the last one recorded is skipped, whatever crashes in between.
THEOREM TimesEnqueuedOnce == Spec => []EnqueuedExactlyOnce
  <1>1. Init => TimesKept
    BY DEF Init, TimesKept, NoInstance, NoDefinition, Exists
  <1>2. Ownership /\ TimesKept /\ [Next]_vars => TimesKept'
    BY StepTimes
  <1>3. TimesKept => EnqueuedExactlyOnce
    BY DEF TimesKept, Recorded, EnqueuedExactlyOnce
  <1> QED
    BY <1>1, <1>2, <1>3, SpecOwnership, PTL DEF Spec
===============================================================================
