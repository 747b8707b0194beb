------------------------------ MODULE SessionLane ------------------------------
(***************************************************************************)
(* One session of the OpenCode runtime: sendUserMessage with its busy and  *)
(* draining marks (runtime/opencodeRuntime/coreMethods.ts), the in-memory  *)
(* queue of messages that found the session busy (queue/service.ts) and    *)
(* the two places that drain it, the finally block of sendUserMessage and  *)
(* maybeDrainSessionQueue.  Sessions share nothing here, so one is enough. *)
(*                                                                         *)
(* A drained message is sent by a nested sendUserMessage whose own finally *)
(* block drains again, so the activations form chains; each is a frame     *)
(* that names the frame awaiting it.  Between two messages of OpenCode the *)
(* code only runs microtasks: control passes from frame to frame and no    *)
(* other task starts.                                                      *)
(***************************************************************************)
EXTENDS Integers, Sequences, FiniteSets, SequencesExt

CONSTANTS
    Msgs,           \* messages submitted to the session
    Attached,       \* those with file or text parts
    Heartbeats,     \* those with metadata.heartbeat
    Modes,          \* queue modes the configuration may select
    QueueEnabled,   \* runtime.queue.enabled
    MaxDepth,       \* runtime.queue.maxDepth
    MaxChildren,    \* bound: background runs of the session in flight at once
    MaxSpawns       \* bound: background runs of the session in a behaviour

ASSUME SessionLaneAssumption ==
    /\ IsFiniteSet(Msgs)
    /\ Attached \subseteq Msgs
    /\ Heartbeats \subseteq Msgs
    /\ Modes \subseteq {"collect", "followup", "replace"} /\ Modes # {}
    /\ QueueEnabled \in BOOLEAN
    /\ MaxDepth \in Nat \ {0}
    /\ MaxChildren \in Nat
    /\ MaxSpawns \in Nat

VARIABLES
    mode,       \* the mode of the lane; nothing in the program changes it
    queue,      \* LaneQueue.pending of the session
    busy,       \* the session is in busySessions
    draining,   \* the session is in drainingSessions
    frames,     \* activations of sendUserMessage and maybeDrainSessionQueue
    control,    \* the frame whose code runs now, 0 when the event loop is free
    children,   \* inFlightBackgroundChildRunCount
    spawns,     \* background runs started so far
    fate,       \* what has become of each message
    silentEnd,  \* a background run ended without the queue being looked at
    prompts     \* times each message was handed to OpenCode

vars == <<mode, queue, busy, draining, frames, control, children, spawns, fate,
          silentEnd, prompts>>

\* A message as the queue holds it: one message, or the several that
\* coalesceMessages made into one.
Batches == (SUBSET Msgs) \ {{}}

\* Every frame has a message of its own, or is the one maybeDrain activation.
FrameIds == 1..(Cardinality(Msgs) + 1)

Stages == {"prompt", "finally", "loop", "handler", "waiting", "exit"}

Frame == [kind : {"send", "maybe"}, stage : Stages, ok : BOOLEAN,
          todo : Seq(Batches), parent : {0} \cup FrameIds]

NoFrame == [kind |-> "none"]

Fates == {"new", "rejected", "queued", "prompted", "displaced", "dropped"}

TypeOK ==
    /\ mode \in Modes
    /\ queue \in Seq(Batches)
    /\ busy \in BOOLEAN
    /\ draining \in BOOLEAN
    /\ frames \in [FrameIds -> Frame \cup {NoFrame}]
    /\ control \in {0} \cup FrameIds
    /\ children \in 0..MaxChildren
    /\ spawns \in 0..MaxSpawns
    /\ fate \in [Msgs -> Fates]
    /\ silentEnd \in BOOLEAN
    /\ prompts \in [Msgs -> Nat]

Init ==
    /\ mode \in Modes
    /\ queue = <<>>
    /\ busy = FALSE
    /\ draining = FALSE
    /\ frames = [f \in FrameIds |-> NoFrame]
    /\ control = 0
    /\ children = 0
    /\ spawns = 0
    /\ fate = [m \in Msgs |-> "new"]
    /\ silentEnd = FALSE
    /\ prompts = [m \in Msgs |-> 0]

-------------------------------------------------------------------------------
(* LaneQueue                                                               *)

HasAttachments(q) == \E i \in DOMAIN q : q[i] \cap Attached # {}

\* enqueue: replace keeps the newest message, the other modes shift the oldest
\* one out of a full queue.
Enqueued(b) ==
    IF mode = "replace" THEN <<b>>
    ELSE IF Len(queue) >= MaxDepth THEN Append(Tail(queue), b)
    ELSE Append(queue, b)

DisplacedByEnqueue ==
    IF mode = "replace" THEN UNION ToSet(queue)
    ELSE IF Len(queue) >= MaxDepth THEN Head(queue)
    ELSE {}

\* drainAndExecute: the messages it processes now, and what it puts back.
ToProcess ==
    IF mode = "collect" /\ Len(queue) > 1 /\ ~HasAttachments(queue)
    THEN <<UNION ToSet(queue)>>
    ELSE IF mode = "followup" THEN <<Head(queue)>>
    ELSE queue

BUG_PutBackEverything == IF mode = "followup" THEN queue ELSE <<>>

PutBack == IF mode = "followup" THEN Tail(queue) ELSE <<>>

-------------------------------------------------------------------------------
(* sendUserMessage                                                         *)

Free(f) == frames[f] = NoFrame

IsNewFrame(f) == Free(f) /\ \A g \in FrameIds : g < f => ~Free(g)

BUG_IgnoreBusyMark(isDrain) == children > 0 \/ (draining /\ ~isDrain)

\* The test at the head of sendUserMessage; isDrain is __queueDrain.
SessionBusy(isDrain) == busy \/ children > 0 \/ (draining /\ ~isDrain)

SendFrame(parent) == [kind |-> "send", stage |-> "prompt", ok |-> TRUE,
                      todo |-> <<>>, parent |-> parent]

SetFate(ms, value) == [m \in Msgs |-> IF m \in ms THEN value ELSE fate[m]]

\* A busy session keeps the message in the queue (RuntimeSessionQueuedError).
Park(b) ==
    /\ queue' = Enqueued(b)
    /\ fate' = [m \in Msgs |->
                  IF m \in b THEN "queued"
                  ELSE IF m \in DisplacedByEnqueue THEN "displaced" ELSE fate[m]]
    /\ UNCHANGED prompts

\* The part of sendUserMessage up to its first await, for a session not busy.
HandOver(b) ==
    /\ busy' = TRUE
    /\ fate' = SetFate(b, "prompted")
    /\ prompts' = [m \in Msgs |-> prompts[m] + (IF m \in b THEN 1 ELSE 0)]

\* A caller outside the drain (a run, a cron job, a heartbeat) sends m.
SubmitIdle(m) ==
    /\ control = 0
    /\ fate[m] = "new"
    /\ ~SessionBusy(FALSE)
    /\ HandOver({m})
    /\ \E f \in FrameIds : /\ IsNewFrame(f)
                           /\ frames' = [frames EXCEPT ![f] = SendFrame(0)]
    /\ UNCHANGED <<mode, silentEnd, queue, draining, control, children, spawns>>

SubmitBusy(m) ==
    /\ control = 0
    /\ fate[m] = "new"
    /\ SessionBusy(FALSE)
    /\ QueueEnabled /\ m \notin Heartbeats
    /\ Park({m})
    /\ UNCHANGED <<mode, silentEnd, busy, draining, frames, control, children,
                   spawns>>

\* RuntimeSessionBusyError: heartbeats are not queued.
SubmitRejected(m) ==
    /\ control = 0
    /\ fate[m] = "new"
    /\ SessionBusy(FALSE)
    /\ ~QueueEnabled \/ m \in Heartbeats
    /\ fate' = SetFate({m}, "rejected")
    /\ UNCHANGED <<mode, silentEnd, queue, busy, draining, frames, control,
                   children, spawns, prompts>>

\* The try block ends: an answer, or any error, a timeout included.
PromptEnds(f, ok) ==
    /\ control = 0
    /\ frames[f] # NoFrame
    /\ frames[f].stage = "prompt"
    /\ frames' = [frames EXCEPT ![f].stage = "finally", ![f].ok = ok]
    /\ control' = f
    /\ UNCHANGED <<mode, silentEnd, queue, busy, draining, children, spawns,
                   fate, prompts>>

\* The frame f has control and is at the given stage.
At(f, stage) == control = f /\ frames[f] # NoFrame /\ frames[f].stage = stage

Goto(f, stage) == frames' = [frames EXCEPT ![f].stage = stage]

\* The finally block: drain only if no background run of the session is in flight.
Finally(f) ==
    /\ At(f, "finally")
    /\ IF queue # <<>> /\ children = 0
       THEN /\ draining' = TRUE
            /\ busy' = FALSE
            /\ Goto(f, "loop")
       ELSE /\ Goto(f, "exit")
            /\ UNCHANGED <<busy, draining>>
    /\ UNCHANGED <<mode, silentEnd, queue, control, children, spawns, fate,
                   prompts>>

-------------------------------------------------------------------------------
(* The drain loop, shared by the finally block and maybeDrainSessionQueue.  *)

LoopEnds(f) ==
    /\ At(f, "loop")
    /\ queue = <<>>
    /\ Goto(f, "exit")
    /\ UNCHANGED <<mode, silentEnd, queue, busy, draining, control, children,
                   spawns, fate, prompts>>

\* drainAndExecute takes the messages out before the handler has sent any.
Drain(f) ==
    /\ At(f, "loop")
    /\ queue # <<>>
    /\ frames' = [frames EXCEPT ![f].stage = "handler", ![f].todo = ToProcess]
    /\ queue' = PutBack
    /\ UNCHANGED <<mode, silentEnd, busy, draining, control, children, spawns,
                   fate, prompts>>

\* The handler is through its messages: back to the head of the loop.
HandlerEnds(f) ==
    /\ At(f, "handler")
    /\ frames[f].todo = <<>>
    /\ Goto(f, "loop")
    /\ UNCHANGED <<mode, silentEnd, queue, busy, draining, control, children,
                   spawns, fate, prompts>>

\* The handler sends the next message and awaits it.
SendDrained(f) ==
    /\ At(f, "handler")
    /\ frames[f].todo # <<>>
    /\ ~SessionBusy(TRUE)
    /\ HandOver(Head(frames[f].todo))
    /\ \E g \in FrameIds :
        /\ IsNewFrame(g)
        /\ frames' = [frames EXCEPT ![f].stage = "waiting", ![f].todo = Tail(@),
                                    ![g] = SendFrame(f)]
    /\ control' = 0
    /\ UNCHANGED <<mode, silentEnd, queue, draining, children, spawns>>

\* The session is busy again (a background run appeared): the message goes
\* back to the queue, the error ends the handler and the loop, and the other
\* messages taken out with it are gone.
ParkDrained(f) ==
    /\ At(f, "handler")
    /\ frames[f].todo # <<>>
    /\ SessionBusy(TRUE)
    /\ LET b == Head(frames[f].todo)
           others == UNION ToSet(Tail(frames[f].todo))
       IN /\ queue' = Enqueued(b)
          /\ fate' = [m \in Msgs |->
                        IF m \in b THEN "queued"
                        ELSE IF m \in others THEN "dropped"
                        ELSE IF m \in DisplacedByEnqueue THEN "displaced" ELSE fate[m]]
    /\ frames' = [frames EXCEPT ![f].stage = "exit", ![f].todo = <<>>]
    /\ UNCHANGED <<mode, silentEnd, busy, draining, control, children, spawns,
                   prompts>>

BUG_ClearsBusyOnSuccess(f) == frames[f].kind = "send" /\ frames[f].ok

\* Only the finally block of sendUserMessage clears the busy mark.
ClearsBusy(f) == frames[f].kind = "send"

\* The last finally block: both marks are cleared and the promise settles.
\* A rejected send ends the handler awaiting it, with the messages it had left.
Exit(f) ==
    /\ At(f, "exit")
    /\ draining' = FALSE
    /\ busy' = (busy /\ ~ClearsBusy(f))
    /\ LET p == frames[f].parent
       IN IF p = 0
          THEN /\ frames' = [frames EXCEPT ![f] = NoFrame]
               /\ UNCHANGED fate
          ELSE IF frames[f].ok
          THEN /\ frames' = [frames EXCEPT ![f] = NoFrame, ![p].stage = "handler"]
               /\ UNCHANGED fate
          ELSE /\ frames' = [frames EXCEPT ![f] = NoFrame, ![p].stage = "exit",
                                           ![p].todo = <<>>]
               /\ fate' = SetFate(UNION ToSet(frames[p].todo), "dropped")
    /\ control' = frames[f].parent
    /\ UNCHANGED <<mode, silentEnd, queue, children, spawns, prompts>>

-------------------------------------------------------------------------------
(* Background runs of the session, and maybeDrainSessionQueue.              *)

MaybeFrame == [kind |-> "maybe", stage |-> "loop", ok |-> TRUE,
               todo |-> <<>>, parent |-> 0]

MayDrain(childrenNow) ==
    ~busy /\ ~draining /\ childrenNow = 0 /\ queue # <<>>

\* maybeDrainSessionQueue up to its first await, with childrenNow runs in flight.
MaybeDrain(childrenNow) ==
    IF MayDrain(childrenNow)
    THEN /\ draining' = TRUE
         /\ \E f \in FrameIds : /\ IsNewFrame(f)
                                /\ frames' = [frames EXCEPT ![f] = MaybeFrame]
                                /\ control' = f
    ELSE UNCHANGED <<draining, frames, control>>

\* A background run of the session appears: spawned, or found by the
\* synchronisation loop after the agent started a subtask.
SpawnChild ==
    /\ control = 0
    /\ children < MaxChildren /\ spawns < MaxSpawns
    /\ children' = children + 1
    /\ spawns' = spawns + 1
    /\ UNCHANGED <<mode, silentEnd, queue, busy, draining, frames, control,
                   fate, prompts>>

BUG_ChildCompletesWithoutDrain ==
    /\ control = 0
    /\ children > 0
    /\ children' = children - 1
    /\ UNCHANGED <<mode, silentEnd, queue, busy, draining, frames, control,
                   spawns, fate, prompts>>

\* applyOpencodeBackgroundStatus completes a run and drains the parent's queue.
ChildCompletes ==
    /\ control = 0
    /\ children > 0
    /\ children' = children - 1
    /\ MaybeDrain(children - 1)
    /\ UNCHANGED <<mode, silentEnd, queue, busy, spawns, fate, prompts>>

\* markBackgroundRunFailed and abortBackground do not drain.
ChildEndsSilently ==
    /\ control = 0
    /\ children > 0
    /\ children' = children - 1
    /\ silentEnd' = (silentEnd \/ queue # <<>>)
    /\ UNCHANGED <<mode, queue, busy, draining, frames, control, spawns, fate, prompts>>

\* session.idle for the session itself.
IdleEvent ==
    /\ control = 0
    /\ MayDrain(children)
    /\ MaybeDrain(children)
    /\ UNCHANGED <<mode, silentEnd, queue, busy, children, spawns, fate, prompts>>

-------------------------------------------------------------------------------
Submit(m) == SubmitIdle(m) \/ SubmitBusy(m) \/ SubmitRejected(m)

\* The microtasks between two tasks of the event loop.
Microtask ==
    \E f \in FrameIds :
        \/ Finally(f) \/ LoopEnds(f) \/ Drain(f) \/ HandlerEnds(f)
        \/ SendDrained(f) \/ ParkDrained(f) \/ Exit(f)

Next ==
    \/ \E m \in Msgs : Submit(m)
    \/ \E f \in FrameIds, ok \in BOOLEAN : PromptEnds(f, ok)
    \/ Microtask
    \/ SpawnChild \/ ChildCompletes \/ ChildEndsSilently \/ IdleEvent

Spec == Init /\ [][Next]_vars

\* Microtasks run, and every await of a prompt is under a timeout.  Nothing makes a
\* background run end: the thread of a cron job stays "created" until it is used
\* (cron/executor.ts:70-75), and the event that ends a run may be lost.
Fairness ==
    /\ WF_vars(Microtask)
    /\ WF_vars(\E f \in FrameIds, ok \in BOOLEAN : PromptEnds(f, ok))

FairSpec == Spec /\ Fairness

-------------------------------------------------------------------------------
(* Properties.                                                             *)

Prompting == {f \in FrameIds : frames[f] # NoFrame /\ frames[f].stage = "prompt"}

\* A session never has two prompts at OpenCode, although nested drains clear
\* the busy and draining marks that outer ones still rely on.
OnePromptPerSession == \A f, g \in Prompting : f = g

\* Whenever another task can run, the busy mark says whether a prompt is in
\* flight, and without an activation no mark is left that would lock the
\* session: every path through the nested finally blocks clears its marks.
MarksMatchWork ==
    /\ TypeOK
    /\ control = 0 =>
        /\ busy <=> Prompting # {}
        /\ draining => \E f \in FrameIds : ~Free(f) /\ frames[f].stage = "waiting"

\* The batches held for m, in the queue or taken out by a drain.
HeldInQueue(m) == {i \in DOMAIN queue : m \in queue[i]}
HeldByFrame(m, f) ==
    IF Free(f) THEN {} ELSE {i \in DOMAIN frames[f].todo : m \in frames[f].todo[i]}
Holders(m) == {<<0, i>> : i \in HeldInQueue(m)}
              \cup UNION {{<<f, i>> : i \in HeldByFrame(m, f)} : f \in FrameIds}

\* A message told to be queued is held in exactly one place until it is handed
\* over, displaced or dropped, and no message is handed over twice, whatever
\* coalescing, putting back and re-queueing during a drain does.  A drain loses
\* messages it has taken out only in collect mode and only when attachments
\* kept it from coalescing them into one.
EachMessageOnce ==
    \A m \in Msgs :
        /\ Cardinality(Holders(m)) = IF fate[m] = "queued" THEN 1 ELSE 0
        /\ prompts[m] = IF fate[m] = "prompted" THEN 1 ELSE 0
        /\ fate[m] = "dropped" => mode = "collect" /\ \E a \in Attached : fate[a] # "new"

\* Every queued message is handed over, displaced or dropped in the end: no
\* order of prompts ending, background runs ending and messages arriving loses
\* the wake-up.  The exceptions are a run that ends in one of the two ways that
\* do not drain (runtime/opencodeRuntime/backgroundMethods.ts:747-764), and a
\* session of which, from some time on, always some run counts as in flight
\* (backgroundMethods.ts:715-727): its queue waits as long.
QueuedMessageSettles ==
    \/ \A m \in Msgs : fate[m] = "queued" ~> (fate[m] # "queued" \/ silentEnd)
    \/ <>[](children > 0)
===============================================================================
