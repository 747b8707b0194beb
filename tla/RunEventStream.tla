---------------------------- MODULE RunEventStream ----------------------------
(***************************************************************************)
(* GET /api/runs/:id/events/stream (apps/server/src/backend/http/routes/   *)
(* runRoutes.ts over http/boundedQueue.ts): the events of one run as       *)
(* server-sent events, replayed from the event log and then live, through  *)
(* a bounded queue in front of a ReadableStream that holds one frame.  A   *)
(* client that loses the stream comes back with the last id it has seen.   *)
(*                                                                         *)
(* RunService models the log; here a run only settles, perhaps after       *)
(* restarts, and tells its subscribers of each event inside the            *)
(* transaction that stores it.                                             *)
(*                                                                         *)
(* pumpReplay runs without an await until it has sent everything: while it *)
(* does, only its own steps are enabled.                                   *)
(*                                                                         *)
(* A definition named BUG_... is a plausible mistake in the definition     *)
(* below it.  No action uses it: it stands for the change to the code      *)
(* that the properties have to notice.                                     *)
(***************************************************************************)
EXTENDS Integers, Sequences

CONSTANTS
    MaxQueued,     \* RUN_STREAM_MAX_QUEUED_FRAMES (256 in the code)
    MaxCrashes,    \* bound: times the process dies
    MaxCancels,    \* bound: times the client drops the stream
    MaxBeats,      \* bound: heartbeat frames
    MaxRollbacks   \* bound: commits of a terminal event that fail

ASSUME StreamAssumption ==
    /\ MaxQueued \in Nat \ {0}
    /\ {MaxCrashes, MaxCancels, MaxBeats, MaxRollbacks} \subseteq Nat

Terminal == {"completed", "failed"}
EventTypes == {"accepted", "started", "recovered"} \cup Terminal
Frames == [seq : Nat, type : EventTypes \cup {"heartbeat"}]
Heartbeat == [seq |-> 0, type |-> "heartbeat"]

VARIABLES
    log,        \* agent_run_events of the run; the index is seq
    state,      \* its agent_runs.state
    up,         \* the process runs
    s,          \* the stream, both ends, and what the client has received
    ended,      \* whether the client has seen the stream end, or lost it
    phantom,    \* a subscriber was told of an event that was then rolled back
    crashes, cancels, beats, rollbacks

run == <<log, state>>
budget == <<crashes, cancels, beats, rollbacks>>
vars == <<log, state, up, s, ended, phantom, crashes, cancels, beats, rollbacks>>

Stream ==
    [open : BOOLEAN,            \* ~closed; the subscription lives as long
     started : BOOLEAN,         \* start() has resolved: pull() may be called
     cursor : Nat,
     queue : Seq(Frames),       \* outboundQueue
     held : Seq(Frames),        \* frames in the ReadableStream
     reading : BOOLEAN,         \* the client awaits a read
     pump : {"idle", "running", "waiting"},
     late : BOOLEAN,            \* the pump is past its deadline
     timers : BOOLEAN,          \* replayTimer and heartbeatTimer are set
     terminalDrain : BOOLEAN,
     overflow : BOOLEAN,
     got : Seq(Frames)]         \* what the client has received, heartbeats aside

TypeOK ==
    /\ log \in Seq(EventTypes)
    /\ state \in {"queued", "running"} \cup Terminal
    /\ up \in BOOLEAN
    /\ s \in Stream
    /\ ended \in {"no", "end", "lost"}
    /\ phantom \in BOOLEAN
    /\ crashes \in 0..MaxCrashes
    /\ cancels \in 0..MaxCancels
    /\ beats \in 0..MaxBeats
    /\ rollbacks \in 0..MaxRollbacks

Init ==
    /\ log = <<"accepted">>
    /\ state = "queued"
    /\ up = TRUE
    /\ s = [open |-> FALSE, started |-> FALSE, cursor |-> 0, queue |-> <<>>, held |-> <<>>,
            reading |-> FALSE, pump |-> "idle", late |-> FALSE, timers |-> FALSE,
            terminalDrain |-> FALSE, overflow |-> FALSE, got |-> <<>>]
    /\ ended = "lost"
    /\ phantom = FALSE
    /\ crashes = 0
    /\ cancels = 0
    /\ beats = 0
    /\ rollbacks = 0

\* The event loop is free to start another task.
Idle == up /\ s.pump # "running"

-------------------------------------------------------------------------------
(* What the closures of the route do to the stream c.                      *)

Received(got, f) == IF f = Heartbeat THEN got ELSE Append(got, f)

\* Ends the timers and the subscription, and forgets what is still queued.
Closed(c) == [c EXCEPT !.open = FALSE, !.queue = <<>>, !.timers = FALSE]

\* BoundedQueue.drain: a frame that meets a waiting read is received at once,
\* another goes into the ReadableStream if that is empty.  What is left waits
\* for the drain timer.
Drained(c) ==
    LET a == IF c.reading /\ c.queue # <<>>
             THEN [c EXCEPT !.got = Received(@, Head(c.queue)), !.queue = Tail(@), !.reading = FALSE]
             ELSE c
    IN  IF a.queue # <<>> /\ a.held = <<>> /\ ~a.reading
        THEN [a EXCEPT !.held = <<Head(a.queue)>>, !.queue = Tail(@)]
        ELSE a

\* BoundedQueue.enqueue; onOverflow closes the stream as if it were at its end.
Enqueued(c, f) ==
    IF Len(c.queue) >= MaxQueued
    THEN [Closed(c) EXCEPT !.overflow = TRUE]
    ELSE Drained([c EXCEPT !.queue = Append(@, f)])

BUG_CloseAtOnce(c) == Closed(Drained(c))

\* requestTerminalClose.
TerminalClose(c) ==
    IF ~c.open THEN c ELSE
    LET d == Drained([c EXCEPT !.terminalDrain = TRUE])
    IN  IF d.queue = <<>> THEN Closed(d) ELSE d

BUG_CursorStays(c, f) ==
    IF ~c.open \/ f.seq <= c.cursor THEN c ELSE
    LET d == Enqueued([c EXCEPT !.cursor = IF c.pump = "idle" THEN @ ELSE f.seq], f)
    IN  IF f.type \in Terminal THEN TerminalClose(d) ELSE d

\* emit.
Emitted(c, f) ==
    IF ~c.open \/ f.seq <= c.cursor THEN c ELSE
    LET d == Enqueued([c EXCEPT !.cursor = f.seq], f)
    IN  IF f.type \in Terminal THEN TerminalClose(d) ELSE d

BUG_PullDrainsOnly(c) == IF c.open /\ c.started THEN Drained(c) ELSE c

\* pull, called when the ReadableStream has room, but never before start ends.
Pulled(c) ==
    IF ~c.open \/ ~c.started THEN c ELSE
    LET d == Drained(c)
    IN  IF d.terminalDrain /\ d.queue = <<>> THEN Closed(d) ELSE d

\* The client is gone, and what was in the stream with it.
Lost(c) == [Closed(c) EXCEPT !.held = <<>>, !.reading = FALSE, !.pump = "idle"]

-------------------------------------------------------------------------------
(* The run.                                                                *)

\* insertRunEvent of the next event, in a transaction that commits.
Record(type) ==
    /\ log' = Append(log, type)
    /\ s' = Emitted(s, [seq |-> Len(log) + 1, type |-> type])

Start ==
    /\ Idle
    /\ state = "queued"
    /\ state' = "running"
    /\ Record("started")
    /\ UNCHANGED <<up, ended, phantom, budget>>

Settle(type) ==
    /\ Idle
    /\ state = "running"
    /\ state' = type
    /\ Record(type)
    /\ UNCHANGED <<up, ended, phantom, budget>>

\* The transaction of run.completed fails after its listeners have been told.
\* executeRun may then store run.failed, under the same seq, or leave the run
\* as it is until the next start of the process.
SettleRolledBack(caught) ==
    /\ Idle
    /\ state = "running"
    /\ rollbacks < MaxRollbacks
    /\ rollbacks' = rollbacks + 1
    /\ phantom' = (phantom \/ s.open)
    /\ LET told == Emitted(s, [seq |-> Len(log) + 1, type |-> "completed"])
       IN  IF caught
           THEN /\ state' = "failed"
                /\ log' = Append(log, "failed")
                /\ s' = Emitted(told, [seq |-> Len(log) + 1, type |-> "failed"])
           ELSE /\ s' = told
                /\ UNCHANGED run
    /\ UNCHANGED <<up, ended, crashes, cancels, beats>>

Crash ==
    /\ up
    /\ crashes < MaxCrashes
    /\ crashes' = crashes + 1
    /\ up' = FALSE
    /\ s' = Lost(s)
    /\ ended' = "lost"
    /\ UNCHANGED <<run, phantom, cancels, beats, rollbacks>>

Boot ==
    /\ ~up
    /\ up' = TRUE
    /\ IF state = "running"
       THEN state' = "queued" /\ log' = Append(log, "recovered")
       ELSE UNCHANGED run
    /\ UNCHANGED <<s, ended, phantom, budget>>

-------------------------------------------------------------------------------
(* The server end of the stream.                                           *)

\* pumpReplay returns.  In start() that ends start: the timers are set if the
\* run is still going, and the ReadableStream asks for more.
PumpEnds(c, settled) ==
    LET d == [c EXCEPT !.pump = "idle"]
    IN  IF c.started THEN d
        ELSE LET t == [d EXCEPT !.started = TRUE, !.timers = c.open /\ ~settled]
             IN  IF t.held = <<>> THEN Pulled(t) ELSE t

\* A step of pumpReplay: the next event of the log, or else a look at the run.
\* The pages it reads the log in follow each other without an await.
PumpStep ==
    /\ up
    /\ s.pump = "running"
    /\ s' = IF ~s.open THEN PumpEnds(s, TRUE)
            ELSE IF s.cursor < Len(log)
            THEN Emitted(s, [seq |-> s.cursor + 1, type |-> log[s.cursor + 1]])
            ELSE IF state \notin Terminal THEN PumpEnds(s, FALSE)
            ELSE IF s.late THEN PumpEnds(TerminalClose(s), TRUE)
            ELSE [s EXCEPT !.pump = "waiting"]
    /\ UNCHANGED <<run, up, ended, phantom, budget>>

\* The pump looks again after 25 ms, for a second at most.
PumpWakes(late) ==
    /\ Idle
    /\ s.pump = "waiting"
    /\ s' = [s EXCEPT !.pump = "running", !.late = late]
    /\ UNCHANGED <<run, up, ended, phantom, budget>>

ReplayTimer ==
    /\ Idle
    /\ s.timers
    /\ s.pump = "idle"
    /\ s' = [s EXCEPT !.pump = "running", !.late = FALSE]
    /\ UNCHANGED <<run, up, ended, phantom, budget>>

HeartbeatTimer ==
    /\ Idle
    /\ s.timers
    /\ beats < MaxBeats
    /\ beats' = beats + 1
    /\ s' = Enqueued(s, Heartbeat)
    /\ UNCHANGED <<run, up, ended, phantom, crashes, cancels, rollbacks>>

\* The timer of the bounded queue, which is set whenever frames are left in it.
DrainTimer ==
    /\ Idle
    /\ s.open
    /\ s.queue # <<>>
    /\ s' = Drained(s)
    /\ UNCHANGED <<run, up, ended, phantom, budget>>

-------------------------------------------------------------------------------
(* The client.                                                             *)

LastSeen == IF s.got = <<>> THEN 0 ELSE s.got[Len(s.got)].seq

Connect ==
    /\ Idle
    /\ ended # "no"
    /\ ended' = "no"
    /\ s' = [s EXCEPT !.open = TRUE, !.started = FALSE, !.cursor = LastSeen, !.pump = "running",
                      !.late = FALSE, !.terminalDrain = FALSE, !.overflow = FALSE]
    /\ UNCHANGED <<run, up, phantom, budget>>

\* A read takes the frame the stream holds, or waits; either way there is room.
ClientReads ==
    /\ Idle
    /\ ended = "no"
    /\ ~s.reading
    /\ s.held # <<>> \/ s.open
    /\ s' = Pulled(IF s.held # <<>>
                   THEN [s EXCEPT !.got = Received(@, Head(s.held)), !.held = <<>>]
                   ELSE [s EXCEPT !.reading = TRUE])
    /\ UNCHANGED <<run, up, ended, phantom, budget>>

\* The pump of a closed stream has nothing left to do but return.
ClientSeesEnd ==
    /\ Idle
    /\ ended = "no"
    /\ ~s.open
    /\ s.held = <<>>
    /\ s.pump = "idle"
    /\ ended' = "end"
    /\ s' = [s EXCEPT !.reading = FALSE]
    /\ UNCHANGED <<run, up, phantom, budget>>

\* The client goes away: cancel.
Cancel ==
    /\ Idle
    /\ s.open
    /\ cancels < MaxCancels
    /\ cancels' = cancels + 1
    /\ ended' = "lost"
    /\ s' = Lost(s)
    /\ UNCHANGED <<run, up, phantom, crashes, beats, rollbacks>>

-------------------------------------------------------------------------------
RunSteps == Start \/ (\E t \in Terminal : Settle(t)) \/ (\E b \in BOOLEAN : SettleRolledBack(b))
Timers == (\E b \in BOOLEAN : PumpWakes(b)) \/ ReplayTimer \/ HeartbeatTimer \/ DrainTimer

Next ==
    \/ RunSteps \/ Crash \/ Boot
    \/ PumpStep \/ Timers
    \/ Connect \/ ClientReads \/ ClientSeesEnd \/ Cancel

Spec == Init /\ [][Next]_vars

\* The client has seen how the run ended.
Informed == s.got # <<>> /\ s.got[Len(s.got)].type \in Terminal

\* Timers fire, after some waits of 25 ms a second has passed, and the client
\* reads on, and comes back until it is informed.  Strong fairness: a task that
\* is ready has its turn although the pump holds the event loop in between.
Fairness ==
    /\ WF_vars(Boot)
    /\ WF_vars(PumpStep)
    /\ SF_vars(PumpWakes(TRUE))
    /\ SF_vars(ReplayTimer)
    /\ SF_vars(DrainTimer)
    /\ SF_vars(ClientReads)
    /\ SF_vars(ClientSeesEnd)
    /\ SF_vars(~Informed /\ Connect)

FairSpec == Spec /\ Fairness

-------------------------------------------------------------------------------
(* Properties.                                                             *)

\* The client receives the events of the log, from the first on, each once and
\* in order, across replay, live events, lost streams and restarts.  Only an
\* event that was announced and then rolled back breaks that.
StreamMatchesLog ==
    /\ TypeOK
    /\ ~phantom => \A n \in DOMAIN s.got :
                    n \in DOMAIN log /\ s.got[n] = [seq |-> n, type |-> log[n]]

\* A stream that comes to an end has told the client how the run ended, unless
\* the client was too slow: an overflow ends the stream in the same way.
EndTellsOutcome ==
    ended = "end" => Informed \/ s.overflow

\* A client that keeps reading and coming back learns how the run ended, and
\* that its stream is over.
ClientLearnsOutcome == state \in Terminal ~> Informed /\ ended # "no"
===============================================================================
