---------------------------- MODULE BackgroundRuns ----------------------------
(***************************************************************************)
(* Background runs: child sessions of OpenCode that work for a session of  *)
(* the server (runtime/opencodeRuntime/backgroundMethods.ts, the           *)
(* background operations of coreMethods.ts, the session events of          *)
(* eventMethods.ts, the rows of db/repository.ts and                       *)
(* http/routes/backgroundRoutes.ts).                                       *)
(*                                                                         *)
(* A row per child follows what OpenCode reports of it.  Reports come      *)
(* three ways: events in order on one subscription, answers of status      *)
(* calls, which travel apart from the events and are applied to a row read *)
(* before the call, and the hydration of a child first heard of in an      *)
(* event.  A completed run is announced once in its parent's transcript.   *)
(* OpenCode is external; its actions are what the code relies on.          *)
(***************************************************************************)
EXTENDS Integers, Sequences, FiniteSets, SequencesExt

CONSTANTS
    Children,       \* child sessions OpenCode may create
    Callers,        \* callers of the background routes
    Sync,           \* the background sync loop
    Ops,            \* bound: the operations the callers use
    MaxSteers,      \* bound: prompts sent to a child by callers
    MaxFaults,      \* bound: crashes of the server and lost subscriptions
    MaxWire         \* bound: events under way when OpenCode adds one

ASSUME BackgroundAssumption ==
    /\ IsFiniteSet(Children)
    /\ IsFiniteSet(Callers) /\ Sync \notin Callers
    /\ Ops \subseteq {"status", "steer", "abort", "spawn", "spawnWithPrompt"}
    /\ {MaxSteers, MaxFaults, MaxWire} \subseteq Nat

VARIABLES
    row,        \* background_runs, a row per child
    announced,  \* announcements of each child in its parent's transcript
    session,    \* external: OpenCode's status of each child, "unused" before
                \* its first turn
    wire,       \* events under way to the server
    connected,  \* the event subscription is open
    call,       \* the operation each caller and the sync loop is in
    round,      \* what the sync loop is doing
    todo,       \* children the sync loop has still to look at
    announcing, \* announceBackgroundRunIfNeeded of each child
    hydrating,  \* hydrateBackgroundRunFromSessionId of each child
    steers,     \* history: prompts sent to each child by callers
    crashes,    \* history: crashes so far
    drops,      \* history: subscriptions lost so far
    astray      \* history: children a report of which was missed, ignored,
                \* outdated when applied, or awaited although none will come

rows == <<row, announced>>
counts == <<steers, crashes, drops>>
quiet == <<call, round, todo, announcing, hydrating>>
vars == <<row, announced, session, wire, connected, call,
          round, todo, announcing, hydrating, steers, crashes, drops, astray>>

Workers == Callers \cup {Sync}
\* "running" stands for running and retrying, and "busy" for OpenCode's busy and
\* retry: the code treats them alike but for the text of the error.
InFlight == {"created", "running", "idle"}
Terminal == {"completed", "failed", "aborted"}
Reports == {"busy", "idle"}
EventTypes == Reports \cup {"created", "updated", "error"}

Row == [status : {"absent"} \cup InFlight \cup Terminal,
        started : BOOLEAN, summary : BOOLEAN]
NoRow == [status |-> "absent", started |-> FALSE, summary |-> FALSE]

\* An operation under way: the child, where it waits, the row it read, the
\* status OpenCode answered ("none": the call failed or the child, being idle,
\* is missing from the answer).
Operations == {"status", "steer", "abort", "spawn", "spawnWithPrompt"}
Call == [op : Operations, child : Children,
         at : {"preparing", "sending", "asked", "answered", "announcing"},
         snap : Row, reply : {"none", "busy"}]
NoCall == [op |-> "none"]

TypeOK ==
    /\ row \in [Children -> Row]
    /\ announced \in [Children -> Nat]
    /\ session \in [Children -> {"none", "unused"} \cup Reports]
    /\ wire \in Seq([child : Children, type : EventTypes])
    /\ connected \in BOOLEAN
    /\ call \in [Workers -> Call \cup {NoCall}]
    /\ round \in {"resting", "asking", "announcing"}
    /\ todo \subseteq Children
    /\ announcing \in [Children -> {"no", "reading"}]
    /\ hydrating \in [Children -> {"no", "bare"} \cup Reports]
    /\ steers \in [Children -> Nat] /\ crashes \in Nat /\ drops \in Nat
    /\ astray \subseteq Children

Init ==
    /\ row = [c \in Children |-> NoRow]
    /\ announced = [c \in Children |-> 0]
    /\ session = [c \in Children |-> "none"]
    /\ wire = <<>>
    /\ connected = FALSE
    /\ call = [w \in Workers |-> NoCall]
    /\ round = "resting"
    /\ todo = {}
    /\ announcing = [c \in Children |-> "no"]
    /\ hydrating = [c \in Children |-> "no"]
    /\ steers = [c \in Children |-> 0]
    /\ crashes = 0
    /\ drops = 0
    /\ astray = {}

-------------------------------------------------------------------------------
(* Rows.                                                                   *)

\* createBackgroundRun with status "created": a new row, or the old one set
\* back to "created" unless it is terminal.
Ensured(r) ==
    IF r.status \in Terminal THEN r ELSE [r EXCEPT !.status = "created"]

BUG_StatusForRunning(run, report) ==
    IF run.status \in {"aborted", "failed"} THEN "keep"
    ELSE IF report = "busy" THEN "running"
    ELSE IF run.status = "running" THEN "completed"
    ELSE IF ~run.started THEN "idle"
    ELSE "keep"

\* applyOpencodeBackgroundStatus: the status it writes for the row it was
\* given, or "keep".
StatusFor(run, report) ==
    IF run.status \in {"aborted", "failed"} THEN "keep"
    ELSE IF report = "busy" THEN "running"
    ELSE IF ~run.started /\ run.status = "created" THEN "idle"
    ELSE IF run.status # "completed" THEN "completed"
    ELSE "keep"

\* The row after the update, whose other fields are those of the row as it is
\* now.
Applied(current, run, report) ==
    LET next == StatusFor(run, report)
    IN IF next = "keep" THEN current
       ELSE [current EXCEPT !.status = next,
                            !.started = @ \/ report # "idle"]

BUG_AnnouncesAgain(r) == r.status = "completed"

\* announceBackgroundRunIfNeeded looks at the row as it is now.
NeedsAnnouncement(r) == r.status = "completed" /\ ~r.summary

Write(c, r) == row' = [row EXCEPT ![c] = r]

\* Writes the row of c and starts its announcement when asked to and needed.
WriteAndAnnounce(c, r, wanted) ==
    /\ Write(c, r)
    /\ announcing' = [announcing EXCEPT ![c] =
           IF wanted /\ @ = "no" /\ NeedsAnnouncement(r) THEN "reading" ELSE @]

\* A report applied to run: a completion starts the announcement.
Apply(c, current, run, report) ==
    LET r == Applied(current, run, report)
    IN WriteAndAnnounce(c, r, StatusFor(run, report) = "completed")

\* A late report that work goes on, when nothing more will be heard of c.
Outdated(c, report) ==
    /\ report = "busy"
    /\ session[c] = "idle"
    /\ ~\E i \in DOMAIN wire : wire[i] = [child |-> c, type |-> "idle"]

-------------------------------------------------------------------------------
(* OpenCode, external.                                                     *)

Sent(c, types) == [i \in DOMAIN types |-> [child |-> c, type |-> types[i]]]

\* Events reach the server only over an open subscription.
Emit(c, types) ==
    /\ wire' = IF connected THEN wire \o Sent(c, types) ELSE wire
    /\ astray' = IF connected THEN astray ELSE astray \cup {c}

Room == Len(wire) <= MaxWire

\* A tool of the parent's agent starts a child.
SubagentStarts(c) ==
    /\ Room /\ session[c] = "none"
    /\ session' = [session EXCEPT ![c] = "busy"]
    /\ Emit(c, <<"created", "busy">>)
    /\ UNCHANGED <<rows, quiet, connected, counts>>

\* Title or summary of the child changes.
SessionUpdated(c) ==
    /\ wire = <<>> /\ session[c] # "none"
    /\ Emit(c, <<"updated">>)
    /\ UNCHANGED <<rows, quiet, session, connected, counts>>

\* A turn ends, with an error or without: session.status and session.idle
\* both say idle.
TurnEnds(c) ==
    /\ Room /\ session[c] = "busy"
    /\ session' = [session EXCEPT ![c] = "idle"]
    /\ \/ Emit(c, <<"idle", "idle">>)
       \/ Emit(c, <<"error", "idle", "idle">>)
    /\ UNCHANGED <<rows, quiet, connected, steers, crashes, drops>>

-------------------------------------------------------------------------------
(* Events.                                                                 *)

\* applyBackgroundStatusBySessionId: a child without a row is hydrated, unless
\* it is being hydrated already.
HandleStatus(c, report) ==
    IF row[c].status # "absent"
    THEN Apply(c, row[c], row[c], report) /\ UNCHANGED <<hydrating, astray>>
    ELSE /\ UNCHANGED <<row, announcing>>
         /\ IF hydrating[c] = "no"
            THEN hydrating' = [hydrating EXCEPT ![c] = report] /\ UNCHANGED astray
            ELSE astray' = astray \cup {c} /\ UNCHANGED hydrating

\* session.created and session.updated.
HandleSession(c) ==
    /\ Write(c, Ensured(row[c]))
    /\ UNCHANGED <<announcing, hydrating, astray>>

\* markBackgroundRunFailed, for session.error.
HandleError(c) ==
    /\ Write(c, IF row[c].status \in {"absent", "aborted", "completed"}
                THEN row[c] ELSE [row[c] EXCEPT !.status = "failed"])
    /\ hydrating' = [hydrating EXCEPT ![c] =
           IF row[c].status = "absent" /\ @ = "no" THEN "bare" ELSE @]
    /\ UNCHANGED <<announcing, astray>>

\* handleOpencodeEvent, one event of the stream at a time.
HandleEvent ==
    /\ connected /\ wire # <<>>
    /\ LET e == Head(wire)
       IN IF e.type \in Reports THEN HandleStatus(e.child, e.type)
          ELSE IF e.type = "error" THEN HandleError(e.child)
          ELSE HandleSession(e.child)
    /\ wire' = Tail(wire)
    /\ UNCHANGED <<announced, session, connected, call, round, todo, counts>>

\* hydrateBackgroundRunFromSessionId: session.get has answered.  The report it
\* was started for is applied now.
HydrationEnds(c) ==
    /\ hydrating[c] # "no"
    /\ LET r == Ensured(row[c]) IN
       IF hydrating[c] = "bare" THEN Write(c, r) /\ UNCHANGED <<announcing, astray>>
       ELSE /\ Apply(c, r, r, hydrating[c])
            /\ astray' = IF Outdated(c, hydrating[c]) THEN astray \cup {c} ELSE astray
    /\ hydrating' = [hydrating EXCEPT ![c] = "no"]
    /\ UNCHANGED <<announced, session, wire, connected, call, round, todo, counts>>

HydrationFails(c) ==
    /\ hydrating[c] # "no"
    /\ astray' = astray \cup {c}
    /\ hydrating' = [hydrating EXCEPT ![c] = "no"]
    /\ UNCHANGED <<rows, session, wire, connected, call, round, todo,
                   announcing, counts>>

\* runEventSyncLoop: a second after a stream ended it subscribes again; events
\* sent in between are gone.
Connect ==
    /\ ~connected
    /\ connected' = TRUE
    /\ UNCHANGED <<rows, session, wire, quiet, counts, astray>>

OnWire == {wire[i].child : i \in DOMAIN wire}

Disconnect ==
    /\ connected /\ crashes + drops < MaxFaults
    /\ connected' = FALSE
    /\ wire' = <<>>
    /\ drops' = drops + 1
    /\ astray' = astray \cup OnWire
    /\ UNCHANGED <<rows, session, quiet, steers, crashes>>

-------------------------------------------------------------------------------
(* announceBackgroundRunIfNeeded.                                          *)

\* The messages of the child are there: the announcement is appended to the
\* parent and the row is written, whatever has become of it meanwhile.
Announce(c) ==
    /\ announcing[c] = "reading"
    /\ announced' = [announced EXCEPT ![c] = @ + 1]
    /\ Write(c, [row[c] EXCEPT !.status = "completed", !.summary = TRUE])
    /\ announcing' = [announcing EXCEPT ![c] = "no"]
    /\ UNCHANGED <<session, wire, connected, call, round, todo, hydrating,
                   counts, astray>>

\* The request for the messages fails: so does the run.
AnnounceFails(c) ==
    /\ announcing[c] = "reading"
    /\ Write(c, [row[c] EXCEPT !.status = "failed"])
    /\ announcing' = [announcing EXCEPT ![c] = "no"]
    /\ UNCHANGED <<announced, session, wire, connected, call, round, todo,
                   hydrating, counts, astray>>

-------------------------------------------------------------------------------
(* Operations.                                                             *)

Started(op, c, at) ==
    [op |-> op, child |-> c, at |-> at, snap |-> NoRow, reply |-> "none"]

\* getBackgroundStatus reads the row, then asks OpenCode.
StatusCall(c) ==
    [Started("status", c, "asked") EXCEPT
        !.snap = [row[c] EXCEPT !.summary = FALSE]]

Doing(w, op, at) == call[w].op = op /\ call[w].at = at

Become(w, k) == call' = [call EXCEPT ![w] = k]

\* The operations a caller may begin: the status of a run, a prompt for it, its
\* abortion, and a new child, with or without a prompt for it.
Offers(c) ==
    LET known == row[c].status # "absent"
    IN {k \in {StatusCall(c), Started("abort", c, "asked")} : known}
       \cup {k \in {Started("steer", c, "preparing")} : known /\ steers[c] < MaxSteers}
       \cup {k \in {Started("spawn", c, "asked"), Started("spawnWithPrompt", c, "asked")} :
                 session[c] = "none"}

\* promptBackgroundAsync prepares the prompt before it touches the row.
Begin(w, c) ==
    /\ call[w] = NoCall
    /\ \E k \in Offers(c) : k.op \in Ops /\ Become(w, k)
    /\ UNCHANGED <<rows, session, wire, connected, round, todo, announcing,
                   hydrating, counts, astray>>

\* session.status: OpenCode lists the sessions that are not idle.
StatusAnswered(w) ==
    /\ Doing(w, "status", "asked")
    /\ \E s \in {"none"} \cup ({session[call[w].child]} \cap {"busy"}) :
           Become(w, [call[w] EXCEPT !.at = "answered", !.reply = s])
    /\ UNCHANGED <<rows, session, wire, connected, round, todo, announcing,
                   hydrating, counts, astray>>

\* getBackgroundStatus applies the answer to the row it read before asking, and
\* waits for the announcement if it starts one.
StatusEnds(w) ==
    /\ Doing(w, "status", "answered")
    /\ LET k == call[w]
           c == call[w].child
       IN /\ IF k.reply = "none"
             THEN /\ WriteAndAnnounce(c, row[c], k.snap.status = "completed")
                  /\ UNCHANGED astray
             ELSE /\ Apply(c, row[c], k.snap, k.reply)
                  /\ astray' = IF /\ Outdated(c, k.reply)
                                  /\ StatusFor(k.snap, k.reply) # "keep"
                               THEN astray \cup {c} ELSE astray
          /\ Become(w, IF announcing' = announcing THEN NoCall
                       ELSE Started("status", c, "announcing"))
    /\ UNCHANGED <<announced, session, wire, connected, round, todo,
                   hydrating, counts>>

AnnouncementAwaited(w) ==
    /\ Doing(w, "status", "announcing")
    /\ announcing[call[w].child] = "no"
    /\ Become(w, NoCall)
    /\ UNCHANGED <<rows, session, wire, connected, round, todo, announcing,
                   hydrating, counts, astray>>

\* promptBackgroundAsync: the run is running from here, whatever it has become
\* since it was read.
SteerRuns(w) ==
    /\ Doing(w, "steer", "preparing")
    /\ LET c == call[w].child
       IN /\ Write(c, [status |-> "running", started |-> TRUE, summary |-> FALSE])
          /\ steers' = [steers EXCEPT ![c] = @ + 1]
    /\ Become(w, [call[w] EXCEPT !.at = "sending"])
    /\ UNCHANGED <<announced, session, wire, connected, round, todo,
                   announcing, hydrating, crashes, drops, astray>>

\* OpenCode takes the prompt: it starts a turn or adds to the one it is in,
\* except for a prompt without reply, of which it reports nothing.
SteerTaken(w) ==
    /\ Room /\ Doing(w, "steer", "sending")
    /\ LET c == call[w].child IN
       \/ /\ astray' = IF session[c] # "busy" THEN astray \cup {c} ELSE astray
          /\ UNCHANGED <<session, wire>>
       \/ /\ session' = [session EXCEPT ![c] = "busy"]
          /\ Emit(c, <<"busy">>)
    /\ Become(w, [call[w] EXCEPT !.at = "answered"])
    /\ UNCHANGED <<rows, connected, round, todo, announcing, hydrating, counts>>

\* ... and its answer arrives: the call goes on as a status call.
SteerAnswered(w) ==
    /\ Doing(w, "steer", "answered")
    /\ Become(w, StatusCall(call[w].child))
    /\ UNCHANGED <<rows, session, wire, connected, round, todo, announcing,
                   hydrating, counts, astray>>

\* The request fails, before OpenCode took the prompt or after.
SteerFails(w) ==
    /\ Doing(w, "steer", "sending") \/ Doing(w, "steer", "answered")
    /\ LET c == call[w].child IN Write(c, [row[c] EXCEPT !.status = "failed"])
    /\ Become(w, NoCall)
    /\ UNCHANGED <<announced, session, wire, connected, round, todo,
                   announcing, hydrating, counts, astray>>

\* abortBackground: OpenCode stops the turn, if there is one ...
AbortTaken(w) ==
    /\ Doing(w, "abort", "asked")
    /\ LET c == call[w].child IN
       IF session[c] = "busy"
       THEN /\ session' = [session EXCEPT ![c] = "idle"]
            /\ Emit(c, <<"error", "idle", "idle">>)
       ELSE UNCHANGED <<session, wire, astray>>
    /\ Become(w, [call[w] EXCEPT !.at = "answered"])
    /\ UNCHANGED <<rows, connected, round, todo, announcing, hydrating,
                   counts>>

\* ... and the run is aborted, whatever it has become.
AbortEnds(w) ==
    /\ Doing(w, "abort", "answered")
    /\ LET c == call[w].child IN Write(c, [row[c] EXCEPT !.status = "aborted"])
    /\ Become(w, NoCall)
    /\ UNCHANGED <<announced, session, wire, connected, round, todo,
                   announcing, hydrating, counts, astray>>

Spawning(w, at) == Doing(w, "spawn", at) \/ Doing(w, "spawnWithPrompt", at)

\* spawnBackgroundSession: OpenCode creates the child ...
SpawnTaken(w) ==
    /\ Spawning(w, "asked") /\ session[call[w].child] = "none"
    /\ session' = [session EXCEPT ![call[w].child] = "unused"]
    /\ Emit(call[w].child, <<"created">>)
    /\ Become(w, [call[w] EXCEPT !.at = "answered"])
    /\ UNCHANGED <<rows, connected, round, todo, announcing, hydrating,
                   counts>>

\* ... and its row is written.  For a prompt the route then calls
\* promptBackgroundAsync detached from the runtime it is a method of: it throws
\* before its first step, and the route answers with an error.
SpawnEnds(w) ==
    /\ Spawning(w, "answered")
    /\ LET c == call[w].child IN Write(c, Ensured(row[c]))
    /\ Become(w, NoCall)
    /\ UNCHANGED <<announced, session, wire, connected, round, todo,
                   announcing, hydrating, counts, astray>>

\* A request of a steer in preparation, an abort or a spawn fails.
CallFails(w) ==
    /\ \/ Doing(w, "steer", "preparing")
       \/ call[w].op \in {"abort", "spawn", "spawnWithPrompt"}
    /\ Become(w, NoCall)
    /\ UNCHANGED <<rows, session, wire, connected, round, todo, announcing,
                   hydrating, counts, astray>>

-------------------------------------------------------------------------------
(* syncBackgroundRuns, every few seconds.                                  *)

Known == {c \in Children : session[c] # "none"}

\* reconcileBackgroundChildrenFromParents: every child OpenCode lists is
\* ensured, or the request fails; then the runs in flight are listed.
SyncReconciles ==
    /\ round = "resting"
    /\ \/ row' = [c \in Children |-> IF c \in Known THEN Ensured(row[c]) ELSE row[c]]
       \/ row' = row
    /\ round' = "asking"
    /\ todo' = {c \in Children : row'[c].status \in InFlight}
    /\ UNCHANGED <<announced, session, wire, connected, call, announcing,
                   hydrating, counts, astray>>

\* refreshInFlightBackgroundRuns, one status call after the other.
SyncAsks(c) ==
    /\ round = "asking" /\ call[Sync] = NoCall /\ c \in todo
    /\ Become(Sync, StatusCall(c))
    /\ todo' = todo \ {c}
    /\ UNCHANGED <<rows, session, wire, connected, round, announcing,
                   hydrating, counts, astray>>

BUG_SyncForgetsPending ==
    /\ round = "asking" /\ call[Sync] = NoCall /\ todo = {}
    /\ round' = "announcing"
    /\ UNCHANGED <<rows, session, wire, connected, call, todo, announcing,
                   hydrating, counts, astray>>

SyncListsPending ==
    /\ round = "asking" /\ call[Sync] = NoCall /\ todo = {}
    /\ round' = "announcing"
    /\ todo' = {c \in Children : NeedsAnnouncement(row[c])}
    /\ UNCHANGED <<rows, session, wire, connected, call, announcing,
                   hydrating, counts, astray>>

\* processPendingBackgroundAnnouncements.
SyncAnnounces(c) ==
    /\ round = "announcing" /\ call[Sync] = NoCall /\ c \in todo
    /\ WriteAndAnnounce(c, row[c], TRUE)
    /\ Become(Sync, IF announcing' = announcing THEN NoCall
                    ELSE Started("status", c, "announcing"))
    /\ todo' = todo \ {c}
    /\ UNCHANGED <<announced, session, wire, connected, round, hydrating,
                   counts, astray>>

SyncRests ==
    /\ round = "announcing" /\ call[Sync] = NoCall /\ todo = {}
    /\ round' = "resting"
    /\ UNCHANGED <<rows, session, wire, connected, call, todo, announcing,
                   hydrating, counts, astray>>

-------------------------------------------------------------------------------
(* Crash and restart.                                                      *)

\* The server crashes and is started again; while it is down OpenCode's events
\* are lost as they are without a subscription.  Nothing in memory survives.  The
\* announcement is two writes: a crash between them leaves it in the parent's
\* transcript and the row as it was.
Crash ==
    /\ crashes + drops < MaxFaults
    /\ \/ UNCHANGED announced
       \/ \E c \in Children : /\ announcing[c] = "reading"
                               /\ announced' = [announced EXCEPT ![c] = @ + 1]
    /\ connected' = FALSE
    /\ wire' = <<>>
    /\ call' = [w \in Workers |-> NoCall]
    /\ round' = "resting"
    /\ todo' = {}
    /\ announcing' = [c \in Children |-> "no"]
    /\ hydrating' = [c \in Children |-> "no"]
    /\ crashes' = crashes + 1
    /\ astray' = astray \cup OnWire \cup {c \in Children :
           hydrating[c] # "no" \/ \E w \in Workers : Doing(w, "steer", "sending") /\ call[w].child = c}
    /\ UNCHANGED <<row, session, steers, drops>>

-------------------------------------------------------------------------------
(* Behaviours and properties.                                              *)

ServerWork(c) ==
    \/ HydrationEnds(c)
    \/ HydrationFails(c)
    \/ Announce(c)
    \/ AnnounceFails(c)

CallStep(w) ==
    \/ StatusAnswered(w)
    \/ StatusEnds(w)
    \/ AnnouncementAwaited(w)
    \/ SteerRuns(w)
    \/ SteerTaken(w)
    \/ SteerAnswered(w)
    \/ SteerFails(w)
    \/ AbortTaken(w)
    \/ AbortEnds(w)
    \/ SpawnTaken(w)
    \/ SpawnEnds(w)
    \/ CallFails(w)

SyncStep ==
    \/ SyncReconciles
    \/ \E c \in Children : SyncAsks(c)
    \/ SyncListsPending
    \/ \E c \in Children : SyncAnnounces(c)
    \/ SyncRests

Next ==
    \/ \E c \in Children : SubagentStarts(c)
    \/ \E c \in Children : SessionUpdated(c)
    \/ \E c \in Children : TurnEnds(c)
    \/ HandleEvent
    \/ Connect
    \/ Disconnect
    \/ \E c \in Children : ServerWork(c)
    \/ \E w \in Callers, c \in Children : Begin(w, c)
    \/ \E w \in Workers : CallStep(w)
    \/ SyncStep
    \/ Crash

Spec == Init /\ [][Next]_vars

\* OpenCode ends its turns and answers requests or they time out; the server
\* handles what has arrived, resumes what it awaited, repeats its sync loop,
\* subscribes again after a loss and is started again after a crash.
FairSpec ==
    /\ Spec
    /\ WF_vars(HandleEvent) /\ WF_vars(Connect)
    /\ WF_vars(SyncStep)
    /\ \A c \in Children : WF_vars(TurnEnds(c)) /\ WF_vars(ServerWork(c))
    /\ \A w \in Workers : WF_vars(CallStep(w))

\* A run is announced at most once per piece of work it was given: once for
\* the child and once more for every prompt sent to it later, whoever notices
\* its completion (an event, a status call, the sync loop) and however often.
\* Only a crash between the two writes of an announcement repeats it.
AnnouncedOnce ==
    /\ TypeOK
    /\ \A c \in Children : announced[c] <= 1 + steers[c] + crashes

\* A completed run does not wait for its announcement for ever: it is announced,
\* or its announcement fails and it with it, or it is running or aborted again.
\* After a crash only the sync loop knows of it.
AnnouncementMade ==
    \A c \in Children :
        NeedsAnnouncement(row[c]) ~> ~NeedsAnnouncement(row[c])

\* When the last turn of a child has ended its row becomes terminal, although
\* the sync loop and session.updated keep setting it back to "created" and an
\* idle child is missing from the status answers: only the events tell.  The
\* exceptions are the children of which a report went astray.
FinishedRunSettles ==
    \A c \in Children :
        (session[c] = "idle")
            ~> (row[c].status \in Terminal \/ session[c] # "idle" \/ c \in astray)

\* A background session that POST /api/background created with a prompt is
\* running when the route answers (integration/backend-core.test.ts:1391).
SpawnedWithPromptRuns ==
    [][\A w \in Callers :
           (Doing(w, "spawnWithPrompt", "answered")
                /\ row'[call[w].child] # row[call[w].child] /\ call'[w] = NoCall)
               => row'[call[w].child].status = "running"]_vars
===============================================================================
