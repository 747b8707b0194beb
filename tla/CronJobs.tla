------------------------------- MODULE CronJobs -------------------------------
(***************************************************************************)
(* Scheduled jobs (apps/server/src/backend/cron/): a table of job          *)
(* definitions, a scheduler tick that turns due times into instances, and  *)
(* a worker tick that leases one instance, runs it and records how it      *)
(* ended.  Both ticks are timers of one process; clients edit jobs.        *)
(*                                                                         *)
(* Between two awaits the code is one JavaScript task, but the process can *)
(* die between two of its SQLite writes: such writes are separate steps,   *)
(* and while one is pending (Idle is false) no other task has a step.      *)
(*                                                                         *)
(* Time is counted in units of the schedules, leases and backoffs of an    *)
(* instance.  At Horizon the clock stops and every deadline has passed.    *)
(*                                                                         *)
(* A definition named BUG_... is a plausible mistake in the definition     *)
(* below it.  No action uses it: it stands for the change to the code      *)
(* that the properties have to notice.                                     *)
(***************************************************************************)
EXTENDS Integers, Sequences, FiniteSets

CONSTANTS
    Jobs,            \* ids of job definitions
    NoJob,           \* the job of an instance that does not exist
    Drafts,          \* inputs of createJob and updateJob: a mode, a schedule
    MaxAttempts,     \* max_attempts of every job
    Lease,           \* AGENT_MOCKINGBIRD_CRON_LEASE_MS
    RetryBackoff,    \* retry_backoff_ms of every job
    RetryBackoffCap, \* runtime.cron.retryBackoffCapMs
    MaxPerTick,      \* AGENT_MOCKINGBIRD_CRON_MAX_ENQUEUE_PER_JOB_TICK
    RunNowOffsets,   \* times runJobNow tries (10 in the code)
    Horizon,         \* bound: the last instant
    MaxInstances,    \* bound: instances ever created
    MaxCrashes,      \* bound: times the process dies
    MaxEdits,        \* bound: jobs created, updated and deleted
    MaxManual        \* bound: calls of runJobNow

Modes == {"background", "conditional_agent", "agent"}
Kinds == {"at", "every", "cron"}

\* t is at_iso, every_ms, or the distance of two matches of schedule_expr.
Schedules == [kind : Kinds, t : Nat \ {0}]

ASSUME CronAssumption ==
    /\ NoJob \notin Jobs
    /\ Drafts \subseteq [mode : Modes, schedule : Schedules]
    /\ {MaxAttempts, MaxPerTick, RunNowOffsets} \subseteq Nat \ {0}
    /\ {Lease, RetryBackoff, RetryBackoffCap} \subseteq Nat \ {0}
    /\ {Horizon, MaxInstances, MaxCrashes, MaxEdits, MaxManual} \subseteq Nat

None == -1
Instances == 1..MaxInstances
InstanceStates == {"absent", "queued", "leased", "running", "completed", "failed", "dead"}
Done == {"completed", "dead"}
Stages == {"leased", "spawning", "stepping", "module", "asking", "done", "failed"}
\* Stages the code leaves without giving up the event loop.
Pending == {"leased", "stepping", "done", "failed"}

VARIABLES
    now,
    def,          \* cron_job_definitions
    inst,         \* cron_job_instances
    up,           \* the process runs
    tick,         \* jobs the running scheduler tick has still to handle
    workerBusy,
    execs,        \* calls of executeInstance
    \* what the environment has seen and done
    used,         \* instance ids given out
    threads,      \* sessions spawned for cron threads
    asked,        \* calls of sendUserMessage, per instance
    answered,     \* of them, those the agent answered
    rescheduled,  \* jobs whose schedule has changed since they were created
    crashes, edits, manual

tables == <<def, inst, used>>
memory == <<tick, workerBusy, execs>>
seen == <<asked, answered>>
budget == <<crashes, edits, manual>>
vars == <<now, def, inst, up, tick, workerBusy, execs, used, threads, asked,
          answered, rescheduled, crashes, edits, manual>>

NoDefinition == [exists |-> FALSE]
NoInstance == [job |-> NoJob, at |-> None, state |-> "absent", attempt |-> 0,
               nextAttemptAt |-> None, leaseExpiresAt |-> None, agentInvoked |-> FALSE]

Definition ==
    [exists : {TRUE}, enabled : BOOLEAN, mode : Modes, schedule : Schedules,
     last : Nat \cup {None}, created : Nat, thread : Nat]
Instance ==
    [job : Jobs \cup {NoJob}, at : Nat \cup {None}, state : InstanceStates, attempt : Nat,
     nextAttemptAt : Nat \cup {None}, leaseExpiresAt : Nat \cup {None}, agentInvoked : BOOLEAN]
Execution ==
    [inst : Instances, job : Jobs, stage : Stages, attempt : Nat, mode : Modes]

TypeOK ==
    /\ now \in 0..Horizon
    /\ def \in [Jobs -> Definition \cup {NoDefinition}]
    /\ inst \in [Instances -> Instance]
    /\ up \in BOOLEAN
    /\ tick \in Seq(Jobs)
    /\ workerBusy \in BOOLEAN
    /\ execs \subseteq Execution
    /\ used \in 0..MaxInstances
    /\ threads \in Nat
    /\ asked \in [Instances -> Nat]
    /\ answered \in [Instances -> Nat]
    /\ rescheduled \subseteq Jobs
    /\ crashes \in 0..MaxCrashes
    /\ edits \in 0..MaxEdits
    /\ manual \in 0..MaxManual

Exists(j) == def[j].exists

Init ==
    /\ now = 0
    /\ def = [j \in Jobs |-> NoDefinition]
    /\ inst = [i \in Instances |-> NoInstance]
    /\ up = FALSE
    /\ tick = <<>>
    /\ workerBusy = FALSE
    /\ execs = {}
    /\ used = 0
    /\ threads = 0
    /\ asked = [i \in Instances |-> 0]
    /\ answered = [i \in Instances |-> 0]
    /\ rescheduled = {}
    /\ crashes = 0
    /\ edits = 0
    /\ manual = 0

\* The event loop is free to start another task.
Idle == up /\ tick = <<>> /\ \A e \in execs : e.stage \notin Pending

Passed(t) == t <= now \/ now = Horizon

-------------------------------------------------------------------------------
(* The process and the clock.                                              *)

\* CronService.start: the timers run, nothing else is restored.
Boot ==
    /\ ~up
    /\ up' = TRUE
    /\ UNCHANGED <<now, tables, memory, threads, seen, rescheduled, budget>>

Crash ==
    /\ up
    /\ crashes < MaxCrashes
    /\ crashes' = crashes + 1
    /\ up' = FALSE
    /\ tick' = <<>>
    /\ workerBusy' = FALSE
    /\ execs' = {}
    /\ UNCHANGED <<now, tables, threads, seen, rescheduled, edits, manual>>

\* Time passes; the writes of one task are taken to be instantaneous.
Clock ==
    /\ ~up \/ Idle
    /\ now < Horizon
    /\ now' = now + 1
    /\ UNCHANGED <<tables, up, memory, threads, seen, rescheduled, budget>>

-------------------------------------------------------------------------------
(* Jobs: createJob, updateJob (both by upsertJob too), deleteJob, runJobNow. *)

Edit == Idle /\ edits < MaxEdits /\ edits' = edits + 1

CreateJob(j, d) ==
    /\ Edit
    /\ ~Exists(j)
    /\ def' = [def EXCEPT ![j] =
                 [exists |-> TRUE, enabled |-> TRUE, mode |-> d.mode, schedule |-> d.schedule,
                  last |-> None, created |-> now, thread |-> 0]]
    /\ rescheduled' = rescheduled \ {j}
    /\ UNCHANGED <<now, inst, used, up, memory, threads, seen, crashes, manual>>

BUG_UpdatedForgetsThread(j, d, enabled) ==
    [def[j] EXCEPT !.mode = d.mode, !.schedule = d.schedule, !.enabled = enabled, !.thread = 0]

\* The row updateJob writes keeps created_at, last_enqueued_for and the thread.
Updated(j, d, enabled) ==
    [def[j] EXCEPT !.mode = d.mode, !.schedule = d.schedule, !.enabled = enabled]

UpdateJob(j, d, enabled) ==
    /\ Edit
    /\ Exists(j)
    /\ def' = [def EXCEPT ![j] = Updated(j, d, enabled)]
    /\ rescheduled' = IF d.schedule = def[j].schedule THEN rescheduled ELSE rescheduled \cup {j}
    /\ UNCHANGED <<now, inst, used, up, memory, threads, seen, crashes, manual>>

\* The instances go with the job (ON DELETE CASCADE), even one that is running.
DeleteJob(j) ==
    /\ Edit
    /\ Exists(j)
    /\ def' = [def EXCEPT ![j] = NoDefinition]
    /\ inst' = [i \in Instances |-> IF inst[i].job = j THEN NoInstance ELSE inst[i]]
    /\ UNCHANGED <<now, used, up, memory, threads, seen, rescheduled, crashes, manual>>

BUG_OnlyOpenInstances(j, t) ==
    \E i \in Instances : inst[i].job = j /\ inst[i].at = t /\ inst[i].state \notin Done

\* UNIQUE(job_definition_id, scheduled_for).
HasInstance(j, t) == \E i \in Instances : inst[i].job = j /\ inst[i].at = t

Insert(j, t) ==
    /\ used < MaxInstances
    /\ used' = used + 1
    /\ inst' = [inst EXCEPT ![used + 1] =
                  [NoInstance EXCEPT !.job = j, !.at = t, !.state = "queued"]]

\* The first free time from now on, if it is among the ones tried.
RunJobNow(j) ==
    /\ Idle
    /\ manual < MaxManual
    /\ Exists(j)
    /\ manual' = manual + 1
    /\ \E t \in now..now + RunNowOffsets - 1 :
          /\ ~HasInstance(j, t)
          /\ \A u \in now..t - 1 : HasInstance(j, u)
          /\ Insert(j, t)
    /\ UNCHANGED <<now, def, up, memory, threads, seen, rescheduled, crashes, edits>>

-------------------------------------------------------------------------------
(* schedulerTick.                                                          *)

\* Where computeDueTimesForDefinition starts to look.
Cursor(d) ==
    IF d.last # None THEN d.last
    ELSE IF d.schedule.kind = "cron" THEN d.created - 1 ELSE d.created

CronMatches(period) == {t \in 0..Horizon : t % period = 0}

BUG_OneShotOnlyOnce(d) ==
    {t \in {d.schedule.t} : t <= now /\ d.last = None}

DueOnce(d) == {t \in {d.schedule.t} : t <= now /\ (d.last = None \/ d.last < t)}

DueEvery(d) == {t \in {Cursor(d) + n * d.schedule.t : n \in 1..MaxPerTick} : t <= now}

DueCron(d) ==
    LET after == {t \in CronMatches(d.schedule.t) : Cursor(d) < t /\ t <= now}
    IN  {t \in after : Cardinality({u \in after : u <= t}) <= MaxPerTick}

DueTimes(d) ==
    CASE d.schedule.kind = "at" -> DueOnce(d)
      [] d.schedule.kind = "every" -> DueEvery(d)
      [] d.schedule.kind = "cron" -> DueCron(d)

DueJobs == {j \in Jobs : Exists(j) /\ def[j].enabled /\ DueTimes(def[j]) # {}}

Missing(j) == {t \in DueTimes(def[j]) : ~HasInstance(j, t)}

\* The orders the rows of a query without ORDER BY may come in.
Orders(S) == {q \in [1..Cardinality(S) -> S] : \A m, n \in DOMAIN q : m # n => q[m] # q[n]}

\* A tick reads the enabled jobs; one that finds nothing due changes nothing.
SchedulerTick ==
    /\ Idle
    /\ DueJobs # {}
    /\ used + Cardinality(UNION {{j} \X Missing(j) : j \in DueJobs}) <= MaxInstances
    /\ tick' \in Orders(DueJobs)
    /\ UNCHANGED <<now, tables, up, workerBusy, execs, threads, seen, rescheduled, budget>>

\* One INSERT ... ON CONFLICT DO NOTHING, in the order of the due times.
EnqueueNext ==
    /\ tick # <<>>
    /\ \E t \in Missing(Head(tick)) :
          /\ \A u \in Missing(Head(tick)) : t <= u
          /\ Insert(Head(tick), t)
    /\ UNCHANGED <<now, def, up, memory, threads, seen, rescheduled, budget>>

\* last_enqueued_for is written after the last INSERT of the job.
MayRecord(j) == Missing(j) = {}

RecordEnqueued ==
    /\ tick # <<>>
    /\ MayRecord(Head(tick))
    /\ \E t \in DueTimes(def[Head(tick)]) :
          /\ \A u \in DueTimes(def[Head(tick)]) : u <= t
          /\ def' = [def EXCEPT ![Head(tick)].last = t]
    /\ tick' = Tail(tick)
    /\ UNCHANGED <<now, inst, used, up, workerBusy, execs, threads, seen, rescheduled, budget>>

-------------------------------------------------------------------------------
(* workerTick: claimNextInstance.                                          *)

BUG_ReclaimRunningOnly(i) ==
    IF inst[i].state = "running" /\ inst[i].leaseExpiresAt # None /\ Passed(inst[i].leaseExpiresAt)
    THEN [inst[i] EXCEPT !.state = "queued", !.leaseExpiresAt = None] ELSE inst[i]

\* reclaimExpiredLeases.
Reclaimed(i) ==
    IF /\ inst[i].state \in {"leased", "running"}
       /\ inst[i].leaseExpiresAt # None
       /\ Passed(inst[i].leaseExpiresAt)
    THEN [inst[i] EXCEPT !.state = "queued", !.leaseExpiresAt = None] ELSE inst[i]

Claimable(r) ==
    r.state \in {"queued", "failed"} /\ (r.nextAttemptAt = None \/ Passed(r.nextAttemptAt))

BUG_WorkerNeverBusy == TRUE

WorkerFree == ~workerBusy

\* The claimed instance has a job: deleting the job deletes its instances.
Claim ==
    /\ Idle
    /\ WorkerFree
    /\ workerBusy' = TRUE
    /\ LET table == [i \in Instances |-> Reclaimed(i)]
           ready == {i \in Instances : Claimable(table[i])}
       IN  \E i \in ready :
              /\ \A k \in ready : table[i].at <= table[k].at
              /\ inst' = [table EXCEPT ![i].state = "leased", ![i].leaseExpiresAt = now + Lease]
              /\ execs' = execs \cup {[inst |-> i, job |-> table[i].job, stage |-> "leased",
                                       attempt |-> table[i].attempt + 1,
                                       mode |-> def[table[i].job].mode]}
    /\ UNCHANGED <<now, def, used, up, tick, threads, seen, rescheduled, budget>>

-------------------------------------------------------------------------------
(* executeInstance.                                                        *)

Present(e) == inst[e.inst].state # "absent"

Move(e, stage) == execs' = (execs \ {e}) \cup {[e EXCEPT !.stage = stage]}

\* The lease stays the one of the claim.  A job that has a thread goes on
\* without awaiting anything, another spawns a session first.
BeginAttempt(e) ==
    /\ up
    /\ e.stage = "leased"
    /\ inst' = IF Present(e)
               THEN [inst EXCEPT ![e.inst].state = "running", ![e.inst].attempt = e.attempt]
               ELSE inst
    /\ Move(e, IF def[e.job].thread = 0 THEN "spawning" ELSE "stepping")
    /\ UNCHANGED <<now, def, used, up, tick, workerBusy, threads, seen, rescheduled, budget>>

\* ensureCronThread, when spawnBackgroundSession has answered.  The job may be
\* gone by then, or be another one of the same id.
ThreadSpawned(e) ==
    /\ Idle
    /\ e.stage = "spawning"
    /\ threads' = threads + 1
    /\ IF Exists(e.job)
       THEN /\ def' = [def EXCEPT ![e.job].thread = threads + 1]
            /\ execs' = (execs \ {e}) \cup {[e EXCEPT !.stage = "stepping", !.mode = def[e.job].mode]}
       ELSE /\ Move(e, "failed")
            /\ UNCHANGED def
    /\ UNCHANGED <<now, inst, used, up, tick, workerBusy, seen, rescheduled, budget>>

SpawnFails(e) ==
    /\ Idle
    /\ e.stage = "spawning"
    /\ Move(e, "failed")
    /\ UNCHANGED <<now, tables, up, tick, workerBusy, threads, seen, rescheduled, budget>>

\* insertStep throws when its instance is gone (a foreign key).
StepInserted(e) == Present(e)

Ask(e) ==
    /\ Move(e, "asking")
    /\ asked' = [asked EXCEPT ![e.inst] = @ + 1]

\* The first insertStep, then the agent is asked or the module is started.
FirstStep(e) ==
    /\ up
    /\ e.stage = "stepping"
    /\ IF StepInserted(e) /\ e.mode = "agent"
       THEN Ask(e)
       ELSE /\ Move(e, IF StepInserted(e) THEN "module" ELSE "failed")
            /\ UNCHANGED asked
    /\ UNCHANGED <<now, tables, up, tick, workerBusy, threads, answered, rescheduled, budget>>

\* runModuleStep ends: an error or a timeout, a result, or a result that wants
\* the agent, with a prompt that may turn out to be blank.
ModuleEnds(e, outcome) ==
    /\ Idle
    /\ e.stage = "module"
    /\ LET agentWanted == /\ outcome \in {"ask", "askBlank"}
                          /\ e.mode = "conditional_agent"
                          /\ StepInserted(e)
       IN  /\ IF agentWanted /\ outcome = "ask"
              THEN Ask(e)
              ELSE /\ Move(e, IF outcome = "ok" /\ StepInserted(e) THEN "done" ELSE "failed")
                   /\ UNCHANGED asked
           /\ inst' = IF agentWanted /\ outcome = "askBlank"
                      THEN [inst EXCEPT ![e.inst].agentInvoked = TRUE] ELSE inst
    /\ UNCHANGED <<now, def, used, up, tick, workerBusy, threads, answered, rescheduled, budget>>

\* sendUserMessage returns, throws, or throws because the thread is busy and the
\* message waits in its queue; then insertStep and markAgentInvoked.
AgentEnds(e, outcome) ==
    /\ Idle
    /\ e.stage = "asking"
    /\ answered' = IF outcome = "answered" THEN [answered EXCEPT ![e.inst] = @ + 1] ELSE answered
    /\ inst' = IF StepInserted(e) THEN [inst EXCEPT ![e.inst].agentInvoked = TRUE] ELSE inst
    /\ Move(e, IF outcome = "answered" /\ StepInserted(e) THEN "done" ELSE "failed")
    /\ UNCHANGED <<now, def, used, up, tick, workerBusy, threads, asked, rescheduled, budget>>

\* computeBackoffMs.
Backoff(attempt) ==
    LET wait == RetryBackoff * 2^((IF attempt > 10 THEN 10 ELSE attempt) - 1)
    IN  IF wait < RetryBackoffCap THEN wait ELSE RetryBackoffCap

BUG_RetryOnceMore(attempt) == attempt <= MaxAttempts

CanRetry(attempt) == attempt < MaxAttempts

EndState(e) ==
    IF e.stage = "done" THEN "completed" ELSE IF CanRetry(e.attempt) THEN "failed" ELSE "dead"

\* setInstanceState, which changes no row when the instance is gone.
EndAttempt(e) ==
    /\ up
    /\ e.stage \in {"done", "failed"}
    /\ inst' = IF ~Present(e) THEN inst ELSE
                 [inst EXCEPT ![e.inst].state = EndState(e),
                              ![e.inst].attempt = e.attempt,
                              ![e.inst].leaseExpiresAt = None,
                              ![e.inst].nextAttemptAt =
                                 IF EndState(e) = "failed" THEN now + Backoff(e.attempt) ELSE None]
    /\ execs' = execs \ {e}
    /\ workerBusy' = FALSE
    /\ UNCHANGED <<now, def, used, up, tick, threads, seen, rescheduled, budget>>

-------------------------------------------------------------------------------
EditJobs ==
    \E j \in Jobs :
        \/ \E d \in Drafts : CreateJob(j, d) \/ \E b \in BOOLEAN : UpdateJob(j, d, b)
        \/ DeleteJob(j)
        \/ RunJobNow(j)

\* Writes of a task that has not given up the event loop.
Writes ==
    \/ EnqueueNext \/ RecordEnqueued
    \/ \E e \in execs : BeginAttempt(e) \/ FirstStep(e) \/ EndAttempt(e)

\* awaitConditionalModuleWorker: the module's message, read as a result that may
\* want the agent, with a prompt or a blank one; or an error, the worker's exit or
\* the timeout.
ModuleOutcomes == {"ok", "error", "ask", "askBlank"}

Answers ==
    \E e \in execs :
        \/ ThreadSpawned(e) \/ SpawnFails(e)
        \/ \E o \in ModuleOutcomes : ModuleEnds(e, o)
        \/ \E o \in {"answered", "error", "queued"} : AgentEnds(e, o)

Next ==
    \/ Boot \/ Crash \/ Clock
    \/ EditJobs
    \/ SchedulerTick \/ Claim
    \/ Writes \/ Answers

Spec == Init /\ [][Next]_vars

\* The process is restarted, its timers fire, and each await of an attempt is
\* under a timeout.
Fairness ==
    /\ WF_vars(Boot)
    /\ WF_vars(Clock)
    /\ WF_vars(SchedulerTick)
    /\ WF_vars(Claim)
    /\ WF_vars(Writes)
    /\ WF_vars(Answers)

FairSpec == Spec /\ Fairness

-------------------------------------------------------------------------------
(* Properties.                                                             *)

\* Only a crash, which leaves no result behind, gives an instance an attempt
\* above max_attempts; without one the last attempt is final, and an earlier
\* failed attempt is not.  The agent answers an instance at most once, unless
\* the process died before the answer was recorded.
AttemptsBounded ==
    \A i \in Instances :
        /\ inst[i].attempt <= MaxAttempts + crashes
        /\ inst[i].state = "failed" => inst[i].attempt < MaxAttempts
        /\ inst[i].state = "dead" => inst[i].attempt >= MaxAttempts
        /\ answered[i] <= 1 + crashes

\* Nobody takes an instance from the execution that works on it, although the
\* lease may run out during a long attempt: at most one execution at a time,
\* and its row is as it left it, or deleted with its job; and no instance has more
\* attempts or answers than AttemptsBounded allows.
ExecutionOwnsInstance ==
    /\ TypeOK
    /\ AttemptsBounded
    /\ Cardinality(execs) <= 1
    /\ execs # {} => workerBusy
    /\ \A e \in execs :
          LET r == inst[e.inst]
          IN  \/ r.state = "absent"
              \/ r.state = "leased" /\ e.stage = "leased" /\ r.attempt = e.attempt - 1
              \/ r.state = "running" /\ e.stage # "leased" /\ r.attempt = e.attempt

\* The times a job was to run at, from its creation on.
Occurrences(d) ==
    CASE d.schedule.kind = "at" -> {d.schedule.t}
      [] d.schedule.kind = "every" -> {t \in 0..Horizon : t > d.created /\ (t - d.created) % d.schedule.t = 0}
      [] d.schedule.kind = "cron" -> {t \in CronMatches(d.schedule.t) : t >= d.created}

\* No time of a schedule is skipped or enqueued twice: a crash in the middle of
\* a tick, a late tick, a pause or a manual run leaves one instance for every
\* time up to the last one recorded.
EnqueuedExactlyOnce ==
    /\ \A i, k \in Instances :
          i # k /\ inst[i].state # "absent" /\ inst[i].job = inst[k].job => inst[i].at # inst[k].at
    /\ \A j \in Jobs :
          Exists(j) /\ j \notin rescheduled =>
             \A t \in Occurrences(def[j]) : t <= def[j].last => HasInstance(j, t)

\* An attempt under way when its job is edited or deleted: it sends no prompt
\* once the job is gone, neither for that job nor for a new one with its id,
\* and the thread a job has been given is never replaced.
StaleAttemptsDoNoHarm ==
    [][/\ \A i \in Instances : asked'[i] > asked[i] => inst[i].state # "absent"
       /\ \A j \in Jobs :
            Exists(j) /\ Exists(j)' /\ def[j].thread # 0 => def'[j].thread = def[j].thread]_vars

\* Every instance is completed, dead or deleted in the end, whatever is lost in
\* a crash.
InstanceSettles ==
    \A i \in Instances :
        inst[i].state \notin Done \cup {"absent"} ~> inst[i].state \in Done \cup {"absent"}

\* The job is to run once at t and has not.
AwaitsOnce(j, t) ==
    /\ Exists(j) /\ def[j].enabled
    /\ def[j].schedule = [kind |-> "at", t |-> t]
    /\ def[j].last < t
    /\ ~HasInstance(j, t)

\* A job set for a time it has not passed yet runs then, also when it has run
\* under an earlier schedule.
OneShotFires ==
    \A j \in Jobs : \A t \in 1..Horizon : AwaitsOnce(j, t) ~> ~AwaitsOnce(j, t)
===============================================================================
