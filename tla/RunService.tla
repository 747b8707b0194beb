------------------------------ MODULE RunService ------------------------------
(***************************************************************************)
(* The run service (apps/server/src/backend/run/service.ts): a durable     *)
(* table of runs with an event log per run, and an in-memory dispatcher    *)
(* that hands queued runs to runtime.sendUserMessage, at most              *)
(* MaxConcurrentRuns at once and one per session.                          *)
(*                                                                         *)
(* kick has no await, so it runs as one JavaScript task: while             *)
(* dispatchInFlight holds only its own steps are enabled.  They stay       *)
(* separate steps because the process can die between any two of its       *)
(* SQLite writes.  Run ids are numbered by created_at (rowid on a tie),    *)
(* the order of the index claimNextQueuedRun scans.                        *)
(*                                                                         *)
(* A definition named BUG_... is a plausible mistake in the definition     *)
(* below it.  No action uses it: it stands for the change to the code      *)
(* that the properties have to notice.                                     *)
(***************************************************************************)
EXTENDS Integers, Sequences, FiniteSets

CONSTANTS
    Sessions,           \* rows of the sessions table
    NoSession,          \* session of a row that does not exist
    Keys,               \* idempotency keys clients may send
    NoKey,              \* a request without a key
    MaxRuns,            \* bound: runs created in a behaviour
    MaxConcurrentRuns,  \* RunService.maxConcurrentRuns (8 in the code)
    MaxCrashes,         \* bound: times the process dies
    MaxDbFaults         \* bound: writes of executeRun that throw

ASSUME RunServiceAssumption ==
    /\ NoSession \notin Sessions
    /\ NoKey \notin Keys
    /\ MaxRuns \in Nat
    /\ MaxConcurrentRuns \in Nat \ {0}
    /\ MaxCrashes \in Nat
    /\ MaxDbFaults \in Nat

Runs == 1..MaxRuns
RunStates == {"absent", "queued", "running", "completed", "failed"}
Terminal == {"completed", "failed"}
EventTypes == {"accepted", "started", "recovered", "completed", "failed"}
Phases == {"idle", "claimed", "sending", "settled"}

VARIABLES
    \* SQLite: survives a crash
    row,            \* agent_runs
    events,         \* agent_run_events of each run; the index is seq
    \* memory of the process
    up,             \* the process runs
    dispatchInFlight,
    activeRunIds,
    activeSessionIds,
    phase,          \* where the executeRun call of a run is
    \* what the environment has seen and done
    answers,        \* <<key, run>> createRun has answered with
    sends,          \* calls of sendUserMessage, per run
    crashes,
    dbFaults

table == <<row, events>>
memory == <<dispatchInFlight, activeRunIds, activeSessionIds, phase>>
budget == <<crashes, dbFaults>>
vars == <<row, events, up, dispatchInFlight, activeRunIds, activeSessionIds,
          phase, answers, sends, crashes, dbFaults>>

Row == [state : RunStates, session : Sessions \cup {NoSession},
        key : Keys \cup {NoKey}]

TypeOK ==
    /\ row \in [Runs -> Row]
    /\ events \in [Runs -> Seq(EventTypes)]
    /\ up \in BOOLEAN
    /\ dispatchInFlight \in BOOLEAN
    /\ activeRunIds \subseteq Runs
    /\ activeSessionIds \subseteq Sessions
    /\ phase \in [Runs -> Phases]
    /\ answers \subseteq Keys \X Runs
    /\ sends \in [Runs -> Nat]
    /\ crashes \in 0..MaxCrashes
    /\ dbFaults \in 0..MaxDbFaults

Init ==
    /\ row = [r \in Runs |-> [state |-> "absent", session |-> NoSession, key |-> NoKey]]
    /\ events = [r \in Runs |-> <<>>]
    /\ up = FALSE
    /\ dispatchInFlight = FALSE
    /\ activeRunIds = {}
    /\ activeSessionIds = {}
    /\ phase = [r \in Runs |-> "idle"]
    /\ answers = {}
    /\ sends = [r \in Runs |-> 0]
    /\ crashes = 0
    /\ dbFaults = 0

-------------------------------------------------------------------------------
(* The process comes up and dies.                                          *)

Running == {r \in Runs : row[r].state = "running"}

\* start: ensureRecoveredState puts every running row back in the queue in one
\* transaction, then kick is called.
BUG_RecoverNothing(r) == row[r]

RecoverRow(r) ==
    IF row[r].state = "running" THEN [row[r] EXCEPT !.state = "queued"] ELSE row[r]

Boot ==
    /\ ~up
    /\ up' = TRUE
    /\ row' = [r \in Runs |-> RecoverRow(r)]
    /\ events' = [r \in Runs |->
                    IF r \in Running THEN Append(events[r], "recovered") ELSE events[r]]
    /\ dispatchInFlight' = TRUE
    /\ UNCHANGED <<activeRunIds, activeSessionIds, phase, answers, sends, budget>>

\* A crash, or SIGTERM: RunService.stop does nothing and no run is awaited.
Crash ==
    /\ up
    /\ crashes < MaxCrashes
    /\ crashes' = crashes + 1
    /\ up' = FALSE
    /\ dispatchInFlight' = FALSE
    /\ activeRunIds' = {}
    /\ activeSessionIds' = {}
    /\ phase' = [r \in Runs |-> "idle"]
    /\ UNCHANGED <<table, answers, sends, dbFaults>>

-------------------------------------------------------------------------------
(* createRun.                                                              *)

\* The event loop is free to start another task.
Idle == up /\ ~dispatchInFlight

BUG_KeyOfOpenRunsOnly(k) ==
    {r \in Runs : row[r].state \in {"queued", "running"} /\ row[r].key = k}

RunsWithKey(k) == {r \in Runs : row[r].state # "absent" /\ row[r].key = k}

\* A known key answers with the run it created; nothing is written.
AnswerDuplicate(k) ==
    /\ Idle
    /\ k # NoKey
    /\ \E r \in RunsWithKey(k) : answers' = answers \cup {<<k, r>>}
    /\ UNCHANGED <<table, up, memory, sends, budget>>

NewRow(s, k) == [state |-> "queued", session |-> s, key |-> k]

IsNextId(r) ==
    /\ row[r].state = "absent"
    /\ \A q \in Runs : q < r => row[q].state # "absent"

\* The row and its run.accepted event in one transaction, then kick.
CreateRun(r, s, k) ==
    /\ Idle
    /\ IsNextId(r)
    /\ k = NoKey \/ RunsWithKey(k) = {}
    /\ row' = [row EXCEPT ![r] = NewRow(s, k)]
    /\ events' = [events EXCEPT ![r] = Append(@, "accepted")]
    /\ answers' = IF k = NoKey THEN answers ELSE answers \cup {<<k, r>>}
    /\ dispatchInFlight' = TRUE
    /\ UNCHANGED <<up, activeRunIds, activeSessionIds, phase, sends, budget>>

-------------------------------------------------------------------------------
(* kick: the dispatch loop.                                                *)

BUG_ClaimBusySessions == {r \in Runs : row[r].state = "queued"}

Claimable == {r \in Runs : /\ row[r].state = "queued"
                           /\ row[r].session \notin activeSessionIds}

HasFreeSlot == Cardinality(activeRunIds) < MaxConcurrentRuns

HasRunnableQueuedRuns == HasFreeSlot /\ Claimable # {}

BUG_NewestFirst(r) == r \in Claimable /\ \A q \in Claimable : r >= q

\* ORDER BY created_at ASC LIMIT 1
IsNextQueuedRun(r) == r \in Claimable /\ \A q \in Claimable : r <= q

\* The loop is between two iterations: no claimed run waits for its run.started.
BetweenClaims == up /\ dispatchInFlight /\ \A r \in Runs : phase[r] # "claimed"

Claim(r) ==
    /\ BetweenClaims
    /\ HasFreeSlot
    /\ IsNextQueuedRun(r)
    /\ row' = [row EXCEPT ![r].state = "running"]
    /\ activeRunIds' = activeRunIds \cup {r}
    /\ activeSessionIds' = activeSessionIds \cup {row[r].session}
    /\ phase' = [phase EXCEPT ![r] = "claimed"]
    /\ UNCHANGED <<events, up, dispatchInFlight, answers, sends, budget>>

\* executeRun up to its first await: run.started, then sendUserMessage is called.
Start(r) ==
    /\ up
    /\ phase[r] = "claimed"
    /\ events' = [events EXCEPT ![r] = Append(@, "started")]
    /\ sends' = [sends EXCEPT ![r] = @ + 1]
    /\ phase' = [phase EXCEPT ![r] = "sending"]
    /\ UNCHANGED <<row, up, dispatchInFlight, activeRunIds, activeSessionIds,
                   answers, budget>>

\* The insert of run.started throws: the promise of executeRun is rejected
\* outside its try, so the row stays running and nothing is sent.
StartFails(r) ==
    /\ up
    /\ phase[r] = "claimed"
    /\ dbFaults < MaxDbFaults
    /\ dbFaults' = dbFaults + 1
    /\ phase' = [phase EXCEPT ![r] = "settled"]
    /\ UNCHANGED <<table, up, dispatchInFlight, activeRunIds, activeSessionIds,
                   answers, sends, crashes>>

\* The loop breaks and the finally block kicks again if it left work behind.
EndDispatch ==
    /\ BetweenClaims
    /\ ~HasRunnableQueuedRuns
    /\ dispatchInFlight' = HasRunnableQueuedRuns
    /\ UNCHANGED <<table, up, activeRunIds, activeSessionIds, phase, answers,
                   sends, budget>>

-------------------------------------------------------------------------------
(* executeRun after its await, and the finally block kick chained to it.    *)

BUG_AlwaysLogCompleted(r, state) ==
    /\ row' = [row EXCEPT ![r].state = state]
    /\ events' = [events EXCEPT ![r] = Append(@, "completed")]

\* One transaction: the terminal state and the terminal event.
StoreOutcome(r, state) ==
    /\ row' = [row EXCEPT ![r].state = state]
    /\ events' = [events EXCEPT ![r] = Append(@, state)]

Settling(r) ==
    /\ Idle
    /\ phase[r] = "sending"
    /\ phase' = [phase EXCEPT ![r] = "settled"]
    /\ UNCHANGED <<up, dispatchInFlight, activeRunIds, activeSessionIds, answers,
                   sends, crashes>>

\* sendUserMessage returned, or threw RuntimeContinuationDetachedError or
\* RuntimeSessionQueuedError: all three are stored as completed.
Complete(r) ==
    /\ Settling(r)
    /\ StoreOutcome(r, "completed")
    /\ UNCHANGED dbFaults

\* sendUserMessage threw anything else.
Fail(r) ==
    /\ Settling(r)
    /\ StoreOutcome(r, "failed")
    /\ UNCHANGED dbFaults

\* The message was answered but storing that throws inside the try: the catch
\* block stores the run as failed.
CompleteFails(r) ==
    /\ Settling(r)
    /\ dbFaults < MaxDbFaults
    /\ StoreOutcome(r, "failed")
    /\ dbFaults' = dbFaults + 1

\* The write of the catch block throws: the rejection is swallowed by kick and
\* the row stays running.
OutcomeLost(r) ==
    /\ Settling(r)
    /\ dbFaults < MaxDbFaults
    /\ dbFaults' = dbFaults + 1
    /\ UNCHANGED table

BUG_ReleaseWithoutKick(r) ==
    /\ Idle
    /\ phase[r] = "settled"
    /\ phase' = [phase EXCEPT ![r] = "idle"]
    /\ activeRunIds' = activeRunIds \ {r}
    /\ activeSessionIds' = activeSessionIds \ {row[r].session}
    /\ UNCHANGED <<table, up, dispatchInFlight, answers, sends, budget>>

BUG_ReleaseKeepsSession(r) ==
    /\ Idle
    /\ phase[r] = "settled"
    /\ phase' = [phase EXCEPT ![r] = "idle"]
    /\ activeRunIds' = activeRunIds \ {r}
    /\ dispatchInFlight' = TRUE
    /\ UNCHANGED <<table, up, activeSessionIds, answers, sends, budget>>

\* finally: the slot and the session are freed and kick is called.
Release(r) ==
    /\ Idle
    /\ phase[r] = "settled"
    /\ phase' = [phase EXCEPT ![r] = "idle"]
    /\ activeRunIds' = activeRunIds \ {r}
    /\ activeSessionIds' = activeSessionIds \ {row[r].session}
    /\ dispatchInFlight' = TRUE
    /\ UNCHANGED <<table, up, answers, sends, budget>>

-------------------------------------------------------------------------------
Settle(r) == Complete(r) \/ Fail(r)

Dispatch == EndDispatch \/ \E r \in Runs : Claim(r) \/ Start(r)

Next ==
    \/ Boot
    \/ Crash
    \/ \E k \in Keys : AnswerDuplicate(k)
    \/ \E r \in Runs, s \in Sessions, k \in Keys \cup {NoKey} : CreateRun(r, s, k)
    \/ Dispatch
    \/ \E r \in Runs : StartFails(r) \/ CompleteFails(r) \/ OutcomeLost(r)
    \/ \E r \in Runs : Settle(r) \/ Release(r)

Spec == Init /\ [][Next]_vars

\* The supervisor restarts the process, a started task runs to its end, and
\* sendUserMessage always settles: every await in it is under a timeout.
Fairness ==
    /\ WF_vars(Boot)
    /\ WF_vars(Dispatch)
    /\ \A r \in Runs : WF_vars(Settle(r)) /\ WF_vars(Release(r))

FairSpec == Spec /\ Fairness

-------------------------------------------------------------------------------
(* Properties.                                                             *)

Executing == {r \in Runs : phase[r] # "idle"}

Settled(r) == row[r].state \in Terminal

Occurrences(r, type) == Cardinality({i \in DOMAIN events[r] : events[r][i] = type})

\* Two runs of one session are never in executeRun together, whatever crashed
\* or failed to be written before: the rule of claimNextQueuedRun that a
\* session has one run at a time.
SessionExclusive ==
    \A q, r \in Executing : row[q].session = row[r].session => q = r

\* The two in-memory sets of kick say exactly which executeRun calls exist, so
\* no slot and no session is leaked or freed twice, and the cap is respected.
SlotAccounting ==
    /\ activeRunIds = Executing
    /\ activeSessionIds = {row[r].session : r \in Executing}
    /\ Cardinality(Executing) <= MaxConcurrentRuns

\* Whenever the event loop is free, a queued run waits only for its session or
\* for a slot: no createRun, release or boot loses the wake-up of kick.
NoLostWakeup == Idle => ~HasRunnableQueuedRuns

\* The event log tells the run's story: accepted first, a start only after
\* acceptance or recovery, one terminal event, at the end, that agrees with
\* the state in the table (insertRunEvent and the state share a transaction).
\* A message reaches sendUserMessage once per start in the log, and a second
\* time only after a restart was recorded: at least once, twice only by a crash.
EventLogMatchesState ==
    \A r \in Runs :
        LET log == events[r] IN
        /\ log = <<>> <=> row[r].state = "absent"
        /\ \A i \in DOMAIN log :
            /\ log[i] = "accepted" <=> i = 1
            /\ log[i] = "started" => log[i - 1] \in {"accepted", "recovered"}
            /\ log[i] \in Terminal =>
                /\ i = Len(log)
                /\ log[i - 1] = "started"
                /\ log[i] = row[r].state
        /\ Settled(r) => log[Len(log)] = row[r].state
        /\ sends[r] = Occurrences(r, "started")
        /\ sends[r] <= 1 + Occurrences(r, "recovered")

\* createRun answers an idempotency key with one run for ever, across
\* restarts and after the run has ended.
IdempotentAnswers ==
    \A a, b \in answers : a[1] = b[1] => a[2] = b[2]

\* Every accepted run is eventually completed or failed, however often the
\* process is restarted.  When a write fails it is at least taken up: a run
\* whose outcome could not be stored does not hold back the ones behind it.
EveryRunSettles ==
    \A r \in Runs :
        row[r].state = "queued" ~> 
            \/ Settled(r)
            \/ dbFaults > 0 /\ row[r].state # "queued"

\* A run as its session sees it: worked on from the call of sendUserMessage to
\* the stored outcome.
LifecycleStatus(r) ==
    CASE row[r].state = "absent" -> "none"
      [] Settled(r) -> "done"
      [] phase[r] = "sending" -> "working"
      [] OTHER -> "waiting"

Lifecycle == INSTANCE RunLifecycle WITH
    status <- [r \in Runs |-> LifecycleStatus(r)],
    owner <- [r \in Runs |-> row[r].session]

\* Until a write fails the dispatcher implements the promise of RunLifecycle: a
\* session's runs are worked on one at a time and in the order they were
\* created, also across the restarts that put a running one back.
ImplementsLifecycle ==
    /\ Lifecycle!LifecycleInit
    /\ [][dbFaults' = 0 => [Lifecycle!LifecycleNext]_Lifecycle!lifecycleVars]_vars
===============================================================================
