# Verification of Agent Mockingbird

TLA+ modules about Agent Mockingbird, its server (`src/apps/server`), its command
line and its vendoring scripts (`src/scripts`), the TLC runs that check them on
small instances, and theorems about them that TLAPS proves. Paths below are
relative to `src/apps/server/src/backend` unless they start with `src/`.

## 1. The system

One Bun process serves HTTP, keeps its state in SQLite, in JSON and Markdown files
and in a few in-memory maps, and drives an OpenCode server that talks to the
language models. JavaScript runs one task at a time; what makes the system hard
is what happens between two tasks (every `await`), between two writes (a crash),
and between the two processes (lost events, timeouts, retries).

```
 clients --HTTP--> runRoutes ----> RunService --sendUserMessage--> session lane
    ^                 |  ^             |  table + event log            |   ^ queue
    |                 |  +-- events ---+                               v   |
    +--- SSE streams -+          CronService --sendUserMessage--> prompt delivery
    |                            Heartbeat ---sendUserMessage-->       |   ^ memory
    |                                                                  v   | notes
    +-- configRoutes --> config file, opencode.jsonc -----------> OpenCode server
    +-- agents, MCP, skills --> opencode.jsonc, directories ---->      | event stream
                                                                       v
                                     background runs, message mirror, usage

 command line: package, OpenCode, assets, services     scripts: lock, patches, forks
```

| Component | State | Operations | What is hard |
|---|---|---|---|
| Run service (`run/`) | tables of runs and events; `activeRunIds`, `activeSessionIds`, `dispatchInFlight` | createRun, kick (claim, execute, release), recovery at start | crash between two writes, failing writes, lost wake-ups, order in a session, duplicate requests |
| Session lane (`runtime/opencodeRuntime/coreMethods.ts`, `queue/`) | `busySessions`, `drainingSessions`, queue and mode per session | sendUserMessage, enqueue, drain, wake-up by background runs and idle events | nested `finally` blocks sharing marks, messages taken out before they are sent, overflow, missed wake-ups |
| Cron (`cron/`) | tables of definitions, instances, steps; `workerBusy` | create, update, delete, run now, scheduler tick, worker tick | leases shorter than attempts, crash inside a tick, edits and deletions under an attempt, rescheduling |
| Run event stream (`http/routes/runRoutes.ts`, `http/boundedQueue.ts`) | cursor, bounded queue, timers of each stream | connect, replay, live event, pull, overflow, cancel | replay and live events overlapping, back pressure, closing at the right moment, reconnection |
| Configuration (`config/`, `http/routes/configRoutes.ts`, `runtimeRoutes.ts`) | the configuration file, the executor entry of OpenCode's | patch and replace, plain, safe and by the runtime route | no lock across validation and smoke test, rollback, two files |
| Background runs (`runtime/opencodeRuntime/backgroundMethods.ts`) | table `background_runs`, announcements in flight | spawn, steer, abort, status, events, sync loop, announce | polls racing events, crash during an announcement, abort racing a prompt |
| Message and usage mirror (`db/repository.ts`) | tables of messages, sessions, usage | appendChatExchange, upsertSessionMessages, recordUsageDelta | partial messages, usage counted apart from messages, order of timestamps, answers that overtake each other |
| OpenCode events (`eventMethods.ts`) | the subscription | reconnect loop, handlers | events lost while reconnecting |
| Prompt delivery and memory injection (`promptMethods.ts`, `memoryMethods.ts`) | session bindings, injection notes | send with fallback models and agents, replace a lost session, compact | notes made before the prompt succeeds, a session replaced on the way |
| Memory store and index (`memory/`) | Markdown files, their index and vectors | remember, synchronise, edits by users | read-then-write across awaits, a forced synchronisation that fails |
| Heartbeat (`heartbeat/`) | its row, timer, `inFlight` | tick, run now, ensure session | two spawns at start, restart during a beat |
| Skills (`skills/`, `config/orchestration.ts`) | directories, what OpenCode has loaded | import, enable, disable, delete, defaults of the installer | several moves per request, rollback after an await |
| Agents, MCP servers, skill paths (`agents/opencodeConfig.ts`, `mcp/`, `opencode/managedConfig.ts`) | `opencode.jsonc`, markdown files of agents | hash-checked updates, synchronisation | several writers of one file, several files per update |
| OpenClaw import (`agents/openclawImport.ts`) | the workspace, a cached clone | import with a merge by a model | two awaits between reading AGENTS.md and writing it, a source that moves |
| Command line (`src/apps/server/src/cli/`) | the package, OpenCode, services, assets and the record of them | install, update, onboard, services, uninstall | any program it calls can fail, files edited by users |
| Vendored forks (`src/scripts/`) | lock, patches, clean clone, worktree | export, rebuild, change of commit | several artefacts to keep in line, commits made meanwhile |
| Dashboard stream (`http/sse.ts`) | one bounded queue per client | broadcast, overflow | slow clients |
| Proxies, prompts, schemas, database, contracts | none, or set up once | forwarding, text, migrations | not modelled |

`PROJECT.json` lists every component with its status, and under `hazards` each
place where something can go wrong that a test would hardly reach, with the
property that watches it.

What makes each component correct, in a line:

* run service: one run per session at a time, in order, each ended once and told
  of in the event log; nothing lost in a crash but the answer itself;
* session lane: one prompt at a time; every message in one place until its fate
  is decided; a queue is never forgotten;
* cron: each time of a schedule gives one instance; one execution at a time;
  attempts bounded; a deleted job asks nothing;
* event stream: the client sees the log, from its cursor on, without gaps or
  repetition, and learns the outcome;
* configuration: a change is applied whole or not at all, touches only what was
  asked, and a rejected one does not stay;
* background runs: one announcement per piece of work, none forgotten; a finished
  child's run ends;
* mirror: a message is stored once and its tokens are counted once; what OpenCode
  has completed becomes complete here;
* prompt delivery: what is noted as injected is in the session; an answer knows
  the memories that were found for it;
* memory: the index follows the files; calls that follow one another lose no record;
* heartbeat: one at a time, and not before its time;
* skills, agents, servers: no request undoes another's change, only a delete or the
  undoing of an import loses a text;
* import: nothing that was there when it looked is written over, but AGENTS.md as
  the model was shown it;
* command line: edits of users survive updates; a finished update runs everywhere;
* forks: the lock names the commit the patches are patches to.

## 2. Modules

`*_proofs` modules hold the theorems of the modules they are named for
(`Conversation_proofs` those of MessageMirror and PromptDelivery,
`StoredFiles_proofs` those of the components with files of their own); section 4
says what they prove. `MC*` modules only add model values and inputs for TLC, or put modules side by
side in one run. Definitions named `BUG_...` are plausible mistakes in the
definition below them; no action uses them, and each property is known to fail
when one is put in place of the definition it mutates (`PROJECT.json`,
`mutants`). Variables and record fields commented *history* are not in the code:
properties need them to name what has happened, and no guard of the modelled code
reads them but for the bounds.

### RunLifecycle, RunService

`RunLifecycle` is the abstract promise: accepted runs wait, a session works on
one at a time in order of acceptance, a restart puts the one being worked on
back, done is for good. `RunService` is `run/service.ts`:

| Model | Code |
|---|---|
| `row`, `events` | tables `agent_runs`, `agent_run_events` |
| `up`, `Boot`, `Crash` | process; `start` with `ensureRecoveredState`; death at any step |
| `dispatchInFlight`, `activeRunIds`, `activeSessionIds` | the fields of the same name |
| `phase` | where the `executeRun` promise of a run is: claimed, sending, settled |
| `CreateRun`, `AnswerDuplicate` | `createRun`, new or with a known idempotency key |
| `Claim`, `Start`, `EndDispatch` | turns of the loop of `kick` |
| `Complete`, `Fail` | the answer of `sendUserMessage`, stored with its event |
| `StartFails`, `CompleteFails`, `OutcomeLost` | a write of `executeRun` throws |
| `Release` | `finally` of `kick`: slot and session freed, `kick` again |

`kick` has no `await`: while `dispatchInFlight` holds, only its own steps and a
crash are enabled (`Idle` guards the rest). They are separate steps because each
is a transaction of its own, so the process can die between them. A write that
throws rolls its transaction back; the budget `MaxDbFaults` says how often.
`answers` and `sends` only record what clients were answered and what was sent.

The run `run_service` has three runs, two sessions, two slots, one key, two
crashes and a failing write. It checks exclusion, slots, wake-ups, the event log,
deduplication, that every accepted run ends, and that RunService implements
RunLifecycle, where a run is *working* from the call of `sendUserMessage` to the
stored outcome. Two sessions and three runs are enough for a busy session, a
waiting run behind it, a free session and a slot contended for; the second crash
lets a recovered run be recovered again. The refinement is stated until a write
fails, because a run whose outcome could not be stored stays `running` until the
next restart, and later runs of its session overtake it; the run has exactly those
behaviours too, and `EveryRunSettles` says that they do not block the queue.

Fairness: a supervisor restarts the process (`Boot`), the event loop runs the
tasks it has (`Dispatch`, `Release`), and `sendUserMessage` settles because every
`await` in it is under a timeout (`Settle`). Crashes and faults are never forced.

### SessionLane

One session of the runtime: `sendUserMessage` from its busy check to the end of
its outer `finally`, `LaneQueue`, and `maybeDrainSessionQueue`. A drained message
is sent by a nested `sendUserMessage`, whose own `finally` drains again; each
activation is a frame in `frames` that names the frame awaiting it, with the
stage it is in. `control` is the frame whose microtasks run: between two messages
of OpenCode control passes along the chain of frames and no other task starts,
which is the granularity of the JavaScript event loop. `fate` and `prompts`
record what became of each message.

`PromptEnds` covers everything OpenCode can do to a prompt (answer, error,
timeout). Background runs of the session are a counter, with the two ways they
end: `ChildCompletes` looks at the queue, `ChildEndsSilently` (failure, abort)
does not; `IdleEvent` may come or be lost. Left out: the content of messages,
`clear`, `clearAll` and `setMode`, which nothing calls.

`lane_work` has five messages, one with attachments and one heartbeat, a queue
of two so that overflow and displacement happen, two background runs, and each of
the three modes as an initial state.

Fairness: microtasks run, and a prompt ends, because every `await` of one is under
a timeout. Nothing makes a background run end: one that was created and never
prompted (the thread of a cron job) counts as in flight, and so does one whose
idle event was lost. `IdleEvent` is not fair either. Under this,
`QueuedMessageSettles` holds unless a background run ended silently, or from some
time on always one counts as in flight: then the queue waits as long.

### CronJobs

The tables of definitions and instances, both timers, and an execution `execs`
with the stage its `await`s have reached. Between two awaits the code is one
task, but each SQLite write is a step: `Idle` is false while one is pending.
Time counts units of the schedules, leases and backoffs; at `Horizon` the clock
stops and every deadline counts as passed, so that waiting work is not cut off
by the bound. A cron expression is taken as a period; the worker thread of a
conditional module is a step with any outcome the executor accepts
(`ModuleOutcomes`).

`cron_work` takes a job, agent's or conditional, by schedule and by hand, through
creation, edits, deletion and re-creation under running attempts, with a lease
shorter than an attempt, two attempts, a tick that comes late by more than it may
enqueue, and a crash at any step, also between the inserts and the update of
`last_enqueued_for`. `cron_live` takes one-shot jobs that are rescheduled, under
fairness of restart, clock, timers and answers. A third attempt, job or instance
adds no kind of conflict, since the worker runs one instance at a time and jobs
share nothing else.

### RunEventStream

One run and one client: replay, live events, the bounded queue in front of a
`ReadableStream` that holds one frame, the drain timer, `pull`, the terminal
close and its deadline, overflow, cancel, loss of the stream and reconnection
with the last id seen. `pumpReplay` does not await while it has something to
send, so only its own steps are enabled then. *Rolled back* events are those a
listener was told of inside a transaction that failed (`phantom`). `run_stream`
has a queue of two frames so that a slow client overflows it, a crash, a cancel,
two heartbeats and a rolled back event. Strong fairness stands for the event
loop's queue: a ready task has its turn although `pumpReplay` holds the loop in
between. The client is assumed to read on and to come back until it has learned
the outcome; without that assumption nothing can be promised to it.

### BackgroundRuns

The row of each child session, OpenCode's own status of it, and the three ways
reports reach the row: the events of one subscription, in order (`wire`); the
answers of status calls, which travel apart from the events and are applied to
the row read before the call (`call[w].snap`); and the hydration of a child first
heard of in an event (`hydrating`). Callers spawn, steer, abort and ask for status
(`Callers`, one operation each at a time), beside the loop of `syncBackgroundRuns`
(`round`, `todo`). An announcement reads the transcript (`announcing`), and then
writes the parent's transcript and the row, with a possible crash in between.

`background_runs` has a child, a caller and the sync loop, and a fault: a crash or
a lost subscription. The sync loop and the caller are enough for two answers that
overtake each other and an event between them. `AnnouncedOnce` allows one
announcement per piece of work and one more per crash. `FinishedRunSettles` has an
exception that is a fact about the code: a child of which a report went `astray`
(lost with the subscription, ignored while hydrating, or outdated when applied)
may stay in flight, because an idle child is missing from the status answers and
only events tell of it. `background_spawn` is a finding (section 3).

Fairness: OpenCode ends its turns, answers or times out; the server handles what
has arrived, resumes what it awaited, repeats its loop, subscribes again and is
started again. Events under way are bounded by `MaxWire` at the moment OpenCode
adds one.

### MessageMirror and PromptDelivery

The two ways of a conversation. `MessageMirror` is the copy of one session:
OpenCode writes in a turn the user's message and then one assistant message per
step, blank, partial, complete (`progress`); two writers copy it, the turn that
awaits its prompt (`appendChatExchange`) and the imports, asked for by events and
polls, that bring what OpenCode had when it answered. A level per message stands
for its content, and its `created_at` is kept as the code computes it. The counts
of an import come after its transaction (`uncounted`).

`PromptDelivery` is the other way: the binding of the session to a session of
OpenCode, its replacement when it is lost, the models and agents a prompt is tried
with, compaction, and the injection notes. The memories a search finds are
an arbitrary subset. `adrift` names the sessions whose note is known to
claim too much: a prompt failed after it was noted (also its second attempt, in the
session that replaced a lost one), the note was carried over to a new session, or
the event of a compaction was lost.

`conversation` checks both, side by side (`MCConversation`, they share no
variable): two turns with two imports under way, and a crash, a lost subscription,
a poll or an announcement; three prompts with two memories, two models, two
sessions and two compactions or losses. Two turns make answers overtake each
other across a turn; `transcript_order` has a turn of two assistant messages,
which is what its finding needs. Fairness: OpenCode works and answers, the
subscription reconnects, events are handled and answers imported; nothing makes a
turn fail or a poll happen.

### Components with files of their own

Eight modules share no state with one another and are checked in one run,
`stored_files`: `MCStoredFiles` has a variable `kept` that picks the component
whose steps a behaviour takes, the others staying as they begin. None of them
claims liveness: what they promise is about steps and about ends of operations.

* **ConfigApply**: requests of the three families of routes as records with their
  locals. A step is a stretch of a handler between two awaits (semantic
  validation, smoke test, dispose of the OpenCode instance): an operator from a
  state of affairs to the set of those the stretch may leave, which is how the
  error paths of `applyCandidateConfig` and `respondWithConfigMutation` are
  composed. A configuration has one field for each treatment the code gives:
  validated semantically, copied to OpenCode, or denied to safe requests. Its hash
  is the configuration itself. The policy has its default settings; `author`
  remembers whose candidate is on disk. Two requests of any route, two failing
  writes, the number it takes to fail a change and then its restoration.
* **MemoryIndex**: the Markdown files, the index of them, the marks of superseded
  records and the vectors. Calls of `rememberMemory`, one synchronisation at a
  time (`syncPromise`) and edits of users interleave at every await. A file is
  the set of its records and its hash that set. A call reads the file of the day
  (or takes it for empty when it cannot), opens it, which empties it, and fills it
  from its beginning, in full or in part (`AppendReads`, `AppendOpens`,
  `AppendFills`); others read, open, fill and index it between any two of these,
  and the server may stop. Two calls that remember the same content, an old record
  that one of them supersedes, two synchronisations, two models of different
  dimensions, an edit, and a fault: a read, a write or an embedding that fails, or
  a crash.
* **Installer**: the command line, one command at a time, each of whose steps may
  be its last. Contents of files are numbers. `assetRecord` is the record of the
  last synchronisation of assets, which tells edits from old versions;
  `service` is what runs, as opposed to what is installed (`home`). Three
  releases, of which the second drops a file the third brings back, three
  commands, one of which stops half-way.
* **VendorSync**: both scripts over lock, patches, clone and worktree; any command
  they call can fail, and developers commit at any moment. A tree is a commit of
  upstream and a set of changes; `Clashes` says which patches do not cross
  which commit. Three commits, two changes, four scripts.
* **Skills**: the enabled and the disabled copy of each skill, what OpenCode has
  loaded, the requests that await OpenCode and what they will undo if it fails;
  and the installer, which looks, and enables defaults under the revision it saw.
  OpenCode forgets (`OpencodeForgets`) before its answer arrives
  (`InstanceDisposed`) or fails to (`DisposeFails`), and anything may come between.
  `untold` says that a request has ended whose changes OpenCode has not been told
  of since: an import undone while an answer to another request was under way
  leaves OpenCode with a set that nobody corrects. Two skills, the first of which
  may be there to begin with, three requests, a move that fails, a crash.
* **ManagedConfig**: every writer of `opencode.jsonc`: agents under a hash and
  their markdown files, MCP servers with and without a hash, the executor entry,
  and the synchronisation of skill paths with what OpenCode has loaded. An agent
  without an entry in the file has its built-in definition, if there is one
  (`Effective`). An entry for a server has a form: one the program would write,
  one with fields it does not know, one it cannot parse; what it reads is what it
  can parse of them (`Parsed`), and what it writes takes the place of all
  (`Wanted`). Three agents, of which two are built in and one of these may not be
  deleted, so that a refused request can have removed a file before it came to that
  one; two agents to a request; two servers, two changes, two synchronisations at
  once. A behaviour begins with any set of markdown files.
* **Heartbeat**: timer, row, session, the session's creation beside the timer,
  runs by hand, stops, starts and a reset of the database. Five intervals, three
  sessions, two starts.
* **OpenclawImport**: two imports of one source into one workspace; an import
  holds the event loop between its awaits (`loop`), of which there are two, both
  in the merge of AGENTS.md by a model. Other programs need no event loop: they
  write the workspace between the look at a target (`Looks`) and the copy
  (`CopyEnds`) too, and a write may fail half-way (`Cut`). A git source is a clone
  the imports share and each checks out anew; a local one changes at any moment.
  Two files of a source may have one target (`TargetOf`): `CLAUDE.md` in upper and
  lower case, a skill in both directories. Two trees of the source with a pair of
  such files each, a workspace with or without an AGENTS.md of its own, and one edit
  of it or one failed write.

Two requests, calls, or imports are enough for every conflict of a pair, and what
each awaits is the same whoever the third is.

### The runs

| Run | Module | Properties |
|---|---|---|
| `run_service` | MCRunService | SessionExclusive, SlotAccounting, NoLostWakeup, EventLogMatchesState, IdempotentAnswers, EveryRunSettles, ImplementsLifecycle |
| `lane_work` | MCSessionLane | OnePromptPerSession, MarksMatchWork, EachMessageOnce, QueuedMessageSettles |
| `cron_work` | MCCronJobs | ExecutionOwnsInstance, EnqueuedExactlyOnce, StaleAttemptsDoNoHarm |
| `cron_live` | MCCronJobs | InstanceSettles, OneShotFires |
| `run_stream` | MCRunEventStream | StreamMatchesLog, EndTellsOutcome, ClientLearnsOutcome |
| `background_runs` | MCBackgroundRuns | AnnouncedOnce, AnnouncementMade, FinishedRunSettles |
| `conversation` | MCConversation | CountedOnce, InjectedIsKnown, MirrorCatchesUp, AnswerKnowsMemories |
| `stored_files` | MCStoredFiles | RejectedNeedsOverlap, ExecutorEntryFollows, AloneIsAtomic, OnlyOwnFieldsChange; AppendsKeepRecords, SyncMakesFresh, VectorsFollowIndex; EditsSurviveUpdates, CommandsTakeHold; LockFitsPatches; SkillsAreKept; WritersKeepOthers; HeartbeatsKeepPace; ImportsWriteOverNothing |
| `config_rollback` | MCConfigApply | InForceWasAccepted (violated) |
| `background_spawn` | MCBackgroundRuns | SpawnedWithPromptRuns (violated) |
| `transcript_order` | MCMessageMirror | TurnsStayInOrder (violated) |
| `superseded_memory` | MCMemoryIndex | SupersededStaysSo (violated) |

The type invariant of a module is a conjunct of one of its properties
(`TypeOK` in `MarksMatchWork`, `ManagedTypeOK'` in `WritersKeepOthers`, and so on).

## 3. What the runs found

Four runs are expected to fail: each checks what the repository says and TLC
finds a behaviour of the code that contradicts it.

* `config_rollback`: two overlapping safe requests can both be answered
  `rolledBack: true` while the configuration of one of them stays in force. The
  rollback writes the configuration read before the smoke test, which may be
  the other's candidate. `RejectedNeedsOverlap` shows that overlap is needed.
* `background_spawn`: `POST /api/background` with a prompt creates the child and
  then calls `promptBackgroundAsync` detached from its object, which throws: the
  child is never prompted. The test of it passes because its runtime consists of
  functions that need no object.
* `transcript_order`: in a turn of two assistant messages the exchange is dated by
  the end of the answer, so the first assistant message, imported with its own
  time, is listed before the user's message.
* `superseded_memory`: when a file is indexed again its records are made anew
  without `superseded_by`, so one that a record of another file supersedes is
  active again.

Some properties carry an exception in their statement, which is itself a fact
about the code: a background run that fails or is aborted does not wake the
queue (`silentEnd`); in collect mode a failing prompt drops the messages drained
with it when one has attachments (`EachMessageOnce`); a crash lets an instance of
a job exceed `max_attempts` (`AttemptsBounded`); an event rolled back after
listeners were told hides the next one from a connected client (`phantom`); an
overflow ends a stream in the same way as completion (`EndTellsOutcome`);
configuration requests that overlap lose each other's changes (`alone`); so do
calls of `rememberMemory` (`missed`), and one that could not read the file of the
day loses what was in it (`unread`), one that is cut off while it writes whatever
it has not written back (`AppendsKeepRecords` names all three); a request for skills
that fails leaves OpenCode with another set than is enabled (`untold`); a change of
servers drops entries that cannot be parsed, hash or no hash, and a refused change
of agents may have removed markdown files it names (`WritersKeepOthers`); an import
writes over what came after it looked (`stale`); a report that went astray leaves a
background run in flight (`astray`); a crash between an import and its counts
leaves usage uncounted (`forgotten`); a failed prompt, a replaced session or a
lost event leaves a note that claims too much (`adrift`); a failed forced
synchronisation leaves files without vectors, or with those of a model that is
given up again (`bare`).

Reading the code for the models also showed the following, which no run checks
because nothing in the repository says otherwise, or only in passing:

* Runs and cron: enqueued instances run although their job has been disabled
  since.
* Agents: the hash of a PATCH does not cover disabled agents; markdown files are
  removed before a later agent of the same request is refused; a PATCH disposes
  only the instance of the configuration directory. `PUT /api/mockingbird/mcp`
  takes no hash and can drop the executor's entry until the next start.
* Skills: an import of a skill that is disabled already fails, and its rollback
  deletes the disabled copy, and with it what other requests have made of the skill
  during the await; with both copies present every PUT of the enabled set
  fails; DELETE answers `removed: false` after removing when the dispose fails.
* Heartbeat: the first start spawns two sessions, and a failed spawn writes the
  old session back; the row's session and its background run can be of different
  spawns.
* OpenClaw import: `keep_source` and a missing AGENTS.md are copied without the
  validation a merge gets; an edit of AGENTS.md during the model's answer is
  overwritten; a second import of the same repository moves the files under a
  first one.
* Memory: a failed embedding leaves a record written and not logged, unlike
  docs/memory-runtime-contract.md suggests.
* Command line: the shim exports the version of OpenCode it was written for, so
  that updates through it never change OpenCode; `update` without a version
  reinstalls the running one; an edit that an update found in a file it had
  nothing new for is recorded as applied and overwritten silently by the next.
* Forks: `--ref` compares the worktree with the patches on the target commit, so
  it refuses when the tree is of the old one; `--rebuild-only` discards commits not
  yet exported; a manual rebase exports upstream's commits among the patches; the
  executor's `--export-patches` without a worktree deletes the patches.

## 4. What is proved

Every property of a passing run that is not a liveness property is a theorem of
its specification: it holds for every number of sessions, runs, messages, files,
requests, crashes and faults, and not only for those of the run.

Assumptions: the `ASSUME` of each module, on the constants only (natural numbers,
finite sets, disjoint null values, at least one slot, skill and asset file, trees and merges of the type
the import expects); TLC evaluates them in the runs. One theorem has a hypothesis
of its own: `RefinesLifecycle` assumes `MaxDbFaults = 0`, that no write of the run
service fails. After one that did, the service does not implement RunLifecycle, for
the reason given in section 2; `ImplementsPromise` proves the property that the run
checks, which is that it does until then, with any budget of failing writes.

All arguments have one shape: an inductive invariant, a lemma that the initial
states satisfy it, one lemma per action or group of actions that preserves it, and
the property from it, or for an action property from the invariant before (and
after) the step. Where several actions do the same to what an invariant speaks of,
a lemma says so first (`SlotSteps`, `RowSteps`, `RequestSteps`), and the invariant
is shown to survive these effects.

| Module | Theorem | Property | Invariant |
|---|---|---|---|
| `RunService_proofs` | `TypeCorrect`, `OneRunPerSession`, `SlotsAccountedFor` | TypeOK, SessionExclusive, SlotAccounting | `Exclusion`, `CapRespected` |
| | `KeysAnsweredOnce` | IdempotentAnswers | `KeysKnown` |
| | `WakeupsNotLost` | NoLostWakeup | `WakeupKept` |
| | `LogsMatchStates` | EventLogMatchesState | `LogKept` |
| | `ImplementsPromise`, `RefinesLifecycle` | ImplementsLifecycle, `RunLifecycle!LifecycleSpec` | `Ordered` |
| `RunLifecycle_proofs` | `SpecInOrder`, `SpecOneAtATime` | of the abstract module | `LifecycleInv` |
| `SessionLane_proofs` | `PromptsDoNotOverlap`, `MarksAreOfWork` | OnePromptPerSession, MarksMatchWork | `Chain` |
| | `MessagesHeldOnce` | EachMessageOnce | `Lane` |
| `CronJobs_proofs` | `InstancesOwned`, `StaleAttemptsHarmless` | ExecutionOwnsInstance, StaleAttemptsDoNoHarm | `Ownership`, `SpawnedOnce` |
| | `TimesEnqueuedOnce` | EnqueuedExactlyOnce | `TimesKept` |
| `RunEventStream_proofs` | `StreamsMatchLogs`, `EndsTellOutcomes` | StreamMatchesLog, EndTellsOutcome | `Streaming` |
| `BackgroundRuns_proofs` | `AnnouncementsCounted` | AnnouncedOnce | `Announcing` |
| `Conversation_proofs` | `InjectionsAreKnown`, `AnswersKnowMemories` | InjectedIsKnown, AnswerKnowsMemories | `Delivery` |
| | `MessagesCountedOnce` | CountedOnce | `Mirrored` |
| `StoredFiles_proofs` | `RejectedGivesWay`, `ExecutorFollows`, `LoneRequestsAreAtomic`, `OwnFieldsOnly` | RejectedNeedsOverlap, ExecutorEntryFollows, AloneIsAtomic, OnlyOwnFieldsChange | `Configuring` |
| | `RecordsAreKept`, `SyncsMakeFresh`, `VectorsFollow` | AppendsKeepRecords, SyncMakesFresh, VectorsFollowIndex | `Remembering` |
| | `EditsAreSpared`, `UpdatesTakeHold` | EditsSurviveUpdates, CommandsTakeHold | `Installing` |
| | `LocksFitPatches` | LockFitsPatches | `Vendoring` |
| | `TextsAreKept` | SkillsAreKept | `Skilled` |
| | `OthersAreKept` | WritersKeepOthers | `Managing` |
| | `HeartbeatsPaced` | HeartbeatsKeepPace | `Beating` |
| | `NothingWrittenOver` | ImportsWriteOverNothing | `Importing` |

Why the invariants say more than the properties:

* **Runs.** `Claim` consults `activeSessionIds`, not the rows. `Exclusion` adds
  what makes that right: rows belong to sessions, the state of a row and the phase
  of its call agree, a dead process executes nothing, and both sets are exactly
  those of the executing runs. Slots are counted: every action has one of four
  effects on the set. For the refinement, `Ordered` adds that rows are created in
  the order of their numbers and, while no write has failed, that a running row
  has its `executeRun` and that a session's run is taken up only when its earlier
  ones have ended; `Claim` takes the oldest queued row, which then is the one
  whose turn it is in RunLifecycle.
* **Session lane.** An inner `finally` clears marks that an outer activation
  still counts on, so the marks carry nothing by themselves. What does is the shape
  of the activations: a chain in which every frame but the last awaits the next
  (`OneActive`, `Awaited`). Messages are then followed through the queue and the
  lists the drains have taken out, which have to be disjoint; more than one piece
  is taken out only in collect mode with an attachment (`Taken`).
* **Cron.** What an execution finds on return depends on ids being given out once
  (`IdsGivenOnce`), and the bound of its attempts on which of them a crash has
  taken (`AttemptsLeft`, `AnswersLeft`: an instance that may still be asked for has
  been answered only in attempts that were lost). That no time is skipped needs the
  arithmetic of the schedule: `last` is a due time, and every one up to it has its
  instance (`Recorded`), also after a tick that enqueues only the latest few.
* **Event stream.** A frame passes from the bounded queue to the `ReadableStream`
  to the client; the invariant orders the frames in the three places, up to the
  cursor behind which they were produced, and says that none is missing
  (`Contiguous`) unless an event was rolled back after listeners were told.
* **Background runs.** An announcement is owed only while the row has no summary;
  only a prompt takes the summary away, and one announcement at a time is in flight.
* **Prompts.** A note justifies leaving memories out by its keys and its fingerprint
  together; the invariant asks that both are covered by what is in the session or
  on its way, except in sessions known to be `adrift`.
* **Mirror.** A message is counted, or its count is to come, or a crash took it; one
  that a crash took is of a turn before the one awaited, so no later exchange
  counts it after all (`LeftBehind`). `message_count` is a sum over the stored
  messages, kept by lemmas about cardinalities.
* **Configuration.** For each stage of a request that nobody has overtaken: what
  both files hold (`Fits`). For whose configuration is in force: the author on disk
  and the one each request remembers for its rollback are both applied or going to
  be (`AuthorsFit`). A stretch between two awaits is an operator on a state of
  affairs; lemmas say what it may change, so that the proof does not walk
  through its error paths anew for each property.
* **Memory.** Whatever a call that is filling or was cut off has read, and whatever
  one that has opened the file has missed or could not read, is spoken for
  (`Accounted`); a record that was written is in the file, discarded or spoken for
  (`Safe`), and no step takes it out of all of these (`RecordsStand`); what a synchronisation has been through is as it found
  it unless touched (`FilesStand`); vectors are of the model last synchronised with
  or, in a forced synchronisation, of its own as far as it has come
  (`VectorsStand`).
* **Command line.** An entry of the record tells what is in place unless a user
  has written since (`EntryTells`), and so do the entries that a synchronisation
  has yet to write (`SyncTells`); an edit that has not been seen differs from every
  entry (`EditsKnown`).
* **Forks, skills, agents, heartbeat, import.** The steps of a script bind its target,
  the patches and the worktree to each other (`ScriptShape`, `Based`). Requests for
  skills have numbers of their own, so that a failure undoes its own import; what
  OpenCode has loaded is what is enabled unless a request has yet to tell it or ended
  without (`LoadedFits`); the revision is current only while no skill is enabled
  (`LookFits`). The servers a request found are, as far as they can be parsed, still
  there unless another wrote beside it (`FoundStands`). The
  row of the heartbeat knows when the last was over. What an import listed is still
  so unless the source moved (`ListedStands`), and a target that an import has looked
  at is as it saw it unless the import is `stale`.

Trying to prove them has corrected the models in three places where the small
instances were too small to show it. A note left claiming too much by a retried
attempt in a replaced session was missing from `adrift` (`conversation` has had
three prompts since then, which show it). Files left with vectors of another model
were missing from `bare`: the model changes, a forced synchronisation fails
half-way, the model changes back, and the next one is not forced, since
`memory_meta` never changed; it skips the files whose text is the same, and with
them the vectors of the other model (`memory/service.ts:947-967`). And the import
of a workspace was not bound to trees and merges of a definite type.

Only model-checked, because fairness and ENABLED are out of the prover's reach: the
liveness properties EveryRunSettles, QueuedMessageSettles, InstanceSettles,
OneShotFires, ClientLearnsOutcome, AnnouncementMade, FinishedRunSettles and
MirrorCatchesUp. RunLifecycle accordingly promises steps, and that a run which is
accepted ends is for EveryRunSettles to say. No module uses a RECURSIVE operator.

## 5. What is not modelled, and why

* Text and numbers: prompts, ranking of memories, chunking, the cache of
  embeddings, templates, migrations of documents, matching of cron expressions.
  Pure functions of one input, covered by unit tests, or caches of one.
* I/O without state: proxies, SDK wrappers, logging, `check-ship` and the other
  scripts that only check, dashboards and usage reports, which only read.
* SQLite, the file system, git, systemd and OpenCode themselves: transactions are
  atomic, a rename replaces a file at once, a command succeeds or fails, OpenCode
  answers in any way or not at all.
* The executor under the command line, which is installed and restarted as
  OpenCode is; streamed parts, permissions and questions, which are forwarded to
  dashboards; the stream to dashboards, whose bounded queue is the one of
  RunEventStream; the health probe, which uses a session of its own.
* Code that runs in a workspace or in OpenCode: cron modules, plugins, skills.

Places where the code can go wrong that no property watches, because they lie
between two components modelled apart, or because the code leaves open what is
right:

* `cron/executor.ts:147`: a cron thread that is busy queues the message and the
  attempt fails, although the message is answered later.
* `cron/service.ts:561`: instances are claimed without a look at whether their job
  has been disabled since they were enqueued. CronJobs has this step.
* `backgroundMethods.ts:634`, `coreMethods.ts:464`: a failed announcement, or the
  start of a prompt, writes a status over one that has become terminal meanwhile.
  BackgroundRuns has these steps; no property forbids them, since a child may be
  steered after its end.
* `db/repository.ts:732`: the tokens of a message imported while it is being
  written are counted as of then.

## 6. Plan

The components with state are modelled, and their safety is proved. What is left:

1. Composition of RunService with SessionLane: a run whose message is answered
   *queued* is stored as completed before it is prompted; CronJobs with SessionLane,
   where a busy thread fails the attempt.
2. RunLifecycle as the promise of the composition, and an abstract specification of
   a lane (a queue, and one message at work) for SessionLane to implement.
3. The lemmas that several proof modules state for themselves (finite subsets,
   sums, prefixes of sequences) in a module of their own.

## 7. Running

```
tlc -workers 2 -config RunService.cfg MCRunService.tla   # likewise for each run
tlapm RunService_proofs.tla                              # likewise for each *_proofs module
```

The largest run, `stored_files`, has 4.2 million distinct states and takes about
four minutes on two workers; the others take less. Runs whose system really
may stop, because the bounded inputs are used up, turn the deadlock check off;
that nothing is stuck is then what the liveness properties and `NoLostWakeup` say.
