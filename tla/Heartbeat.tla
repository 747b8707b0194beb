------------------------------- MODULE Heartbeat -------------------------------
(***************************************************************************)
(* HeartbeatRuntimeService (heartbeat/runtimeService.ts, service.ts and    *)
(* state.ts): a timer runs a heartbeat, a message to a session of its own, *)
(* when the interval has passed since the last one, and keeps a row about  *)
(* it.  Starting the service also creates the session, beside the timer.   *)
(*                                                                         *)
(* Time is counted in the intervals of the timer.  Sessions are numbers,   *)
(* each also the number of the background run it was spawned by.           *)
(***************************************************************************)
EXTENDS Naturals, FiniteSets

CONSTANTS
    Interval,       \* between heartbeats
    MaxNow,         \* bound: time
    MaxSpawned,     \* bound: sessions
    MaxStarts       \* bound: starts of the server

ASSUME HeartbeatAssumption ==
    /\ Interval \in Nat \ {0}
    /\ MaxNow \in Nat
    /\ MaxSpawned \in Nat
    /\ MaxStarts \in Nat \ {0}

VARIABLES
    heartbeatState, \* the row heartbeat_runtime_state
    enabled,        \* the settings enable heartbeats
    alive,          \* sessions in the database
    ensuring,       \* start awaits ensureHeartbeatSession
    beat,           \* the heartbeat under way, inFlight
    now,
    spawned, starts,    \* history: how many so far
    lastEnd,        \* history: when the last heartbeat the row knows was over, or Never
    cut             \* history: the server was stopped during the last heartbeat

heartbeatVars == <<heartbeatState, enabled, alive, ensuring, beat, now, spawned, starts,
                   lastEnd, cut>>

Sessions == 1 .. MaxSpawned
Never == MaxNow + Interval + 1

\* 0 stands for null.
HeartbeatRow == [session : Sessions \cup {0}, run : Sessions \cup {0}, running : BOOLEAN,
                 lastRunAt : 0 .. Never, lastResult : {"idle", "skipped", "answered", "error"}]
NoHeartbeatRow == [session |-> 0, run |-> 0, running |-> FALSE, lastRunAt |-> Never,
                   lastResult |-> "idle"]

\* before: the session of the row when the heartbeat began.
Beat == [at : {"none", "spawning", "sending"}, manual : BOOLEAN,
         before : Sessions \cup {0}, session : Sessions \cup {0}]
NoBeat == [at |-> "none", manual |-> FALSE, before |-> 0, session |-> 0]

HeartbeatTypeOK ==
    /\ heartbeatState \in HeartbeatRow
    /\ enabled \in BOOLEAN
    /\ alive \subseteq Sessions
    /\ ensuring \in {"stopped", "spawning", "done"}
    /\ beat \in Beat
    /\ now \in 0 .. MaxNow
    /\ spawned \in 0 .. MaxSpawned
    /\ starts \in 0 .. MaxStarts
    /\ lastEnd \in 0 .. Never
    /\ cut \in BOOLEAN

HeartbeatInit ==
    /\ heartbeatState = NoHeartbeatRow
    /\ enabled \in BOOLEAN
    /\ alive = {}
    /\ ensuring = "stopped"
    /\ beat = NoBeat
    /\ now = 0
    /\ spawned = 0 /\ starts = 0
    /\ lastEnd = Never /\ cut = FALSE

-------------------------------------------------------------------------------
(* The session.                                                            *)

SessionThere == heartbeatState.session \in alive

\* spawnBackgroundSession has answered: the row names what has been spawned.
Spawns(state) == [state EXCEPT !.session = spawned + 1, !.run = spawned + 1]

\* start: ensureHeartbeatSession is called and not waited for, and then tick.
StartsHeartbeats ==
    /\ ensuring = "stopped" /\ starts < MaxStarts
    /\ starts' = starts + 1
    /\ ensuring' = IF SessionThere THEN "done" ELSE "spawning"
    /\ UNCHANGED <<heartbeatState, enabled, alive, beat, now, spawned, lastEnd, cut>>

StartSpawned ==
    /\ ensuring = "spawning"
    /\ ensuring' = "done"
    /\ \/ /\ spawned < MaxSpawned
          /\ spawned' = spawned + 1 /\ alive' = alive \cup {spawned + 1}
          /\ heartbeatState' = Spawns(heartbeatState)
       \/ UNCHANGED <<heartbeatState, alive, spawned>>
    /\ UNCHANGED <<enabled, beat, now, starts, lastEnd, cut>>

-------------------------------------------------------------------------------
(* A heartbeat.                                                            *)

BUG_DueAt(state) == state.lastRunAt + Interval
\* computeNextDueAt; Never for null, which is due at once.
DueAt(state) ==
    IF state.running \/ state.lastRunAt = Never THEN Never ELSE state.lastRunAt + Interval

Due == DueAt(heartbeatState) = Never \/ DueAt(heartbeatState) <= now

\* runHeartbeat up to its first await: the row is marked once the session is there.
Beats(manual) ==
    /\ beat' = [at |-> IF SessionThere THEN "sending" ELSE "spawning", manual |-> manual,
                before |-> heartbeatState.session,
                session |-> IF SessionThere THEN heartbeatState.session ELSE 0]
    /\ heartbeatState' = IF SessionThere THEN [heartbeatState EXCEPT !.running = TRUE]
                         ELSE heartbeatState

\* A tick while one is in flight joins it, so does runNow.
HeartbeatTicks ==
    /\ ensuring # "stopped" /\ beat.at = "none"
    /\ enabled /\ Due
    /\ Beats(FALSE)
    /\ UNCHANGED <<enabled, alive, ensuring, now, spawned, starts, lastEnd, cut>>

RunsNow ==
    /\ ensuring # "stopped" /\ beat.at = "none"
    /\ Beats(TRUE)
    /\ UNCHANGED <<enabled, alive, ensuring, now, spawned, starts, lastEnd, cut>>

BeatSpawned ==
    /\ beat.at = "spawning" /\ spawned < MaxSpawned
    /\ spawned' = spawned + 1 /\ alive' = alive \cup {spawned + 1}
    /\ heartbeatState' = [Spawns(heartbeatState) EXCEPT !.running = TRUE]
    /\ beat' = [beat EXCEPT !.at = "sending", !.session = spawned + 1]
    /\ UNCHANGED <<enabled, ensuring, now, starts, lastEnd, cut>>

\* executeHeartbeat has an answer, has been skipped (it is not an active hour, the
\* session is busy) or has failed; what cannot get a session has failed too, and
\* writes back the session it found.
BeatEnds(result) ==
    /\ beat.at # "none"
    /\ beat.at = "spawning" => result = "error"
    /\ heartbeatState' = [heartbeatState EXCEPT
            !.session = IF beat.at = "sending" THEN beat.session ELSE beat.before,
            !.running = FALSE, !.lastRunAt = now, !.lastResult = result]
    /\ beat' = NoBeat
    /\ lastEnd' = now
    /\ cut' = FALSE
    /\ UNCHANGED <<enabled, alive, ensuring, now, spawned, starts>>

-------------------------------------------------------------------------------
(* The rest of the world.                                                  *)

TimePasses ==
    /\ now < MaxNow
    /\ now' = now + 1
    /\ UNCHANGED <<heartbeatState, enabled, alive, ensuring, beat, spawned, starts, lastEnd, cut>>

ChangesSettings ==
    /\ enabled' = ~enabled
    /\ UNCHANGED <<heartbeatState, alive, ensuring, beat, now, spawned, starts, lastEnd, cut>>

\* resetDatabaseToDefaults, run by a program of its own (db/wipe.ts): the row goes
\* with the sessions, and a heartbeat under way writes it again.
ResetsDatabase ==
    /\ alive # {} \/ heartbeatState # NoHeartbeatRow
    /\ alive' = {}
    /\ heartbeatState' = NoHeartbeatRow
    /\ lastEnd' = Never
    /\ UNCHANGED <<enabled, ensuring, beat, now, spawned, starts, cut>>

\* The row stays as it is.
HeartbeatCrash ==
    /\ ensuring # "stopped"
    /\ ensuring' = "stopped"
    /\ beat' = NoBeat
    /\ cut' = (cut \/ beat.at # "none")
    /\ UNCHANGED <<heartbeatState, enabled, alive, now, spawned, starts, lastEnd>>

HeartbeatNext ==
    \/ StartsHeartbeats \/ StartSpawned
    \/ HeartbeatTicks \/ RunsNow \/ BeatSpawned
    \/ \E result \in {"skipped", "answered", "error"} : BeatEnds(result)
    \/ TimePasses \/ ChangesSettings \/ ResetsDatabase \/ HeartbeatCrash

HeartbeatSpec == HeartbeatInit /\ [][HeartbeatNext]_heartbeatVars

-------------------------------------------------------------------------------
(* Properties.                                                             *)

\* The timer starts a heartbeat only when the interval has passed since the last one
\* was over, whoever asked for that one and although the session was spawned twice or
\* the database reset meanwhile, which forgets it; unless the server was stopped during
\* one: then the row still says that it runs, and the next is due at once when the
\* server is back; no other heartbeat leaves it saying so
\* (HeartbeatRuntimeService.tick, computeNextDueAt).
HeartbeatsKeepPace ==
    [][/\ HeartbeatTypeOK'
       /\ beat.at = "none" /\ beat'.at # "none" /\ ~beat'.manual =>
            cut \/ lastEnd = Never \/ now >= lastEnd + Interval
       /\ heartbeatState.running /\ beat.at = "none" => cut /\ Due]_heartbeatVars
===============================================================================
