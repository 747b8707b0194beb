----------------------------- MODULE MessageMirror -----------------------------
(***************************************************************************)
(* The copy the server keeps of one session of OpenCode: the messages, the *)
(* count of them and the usage they cost (db/repository.ts, the syncs of   *)
(* runtime/opencodeRuntime/backgroundMethods.ts, the message events of     *)
(* eventMethods.ts and the end of sendUserMessage in coreMethods.ts).      *)
(*                                                                         *)
(* Two writers fill it: the turn that awaits its prompt appends the        *)
(* exchange, and requests for messages, begun by events and polls, import  *)
(* what they read, whenever their answers arrive.  OpenCode is external:   *)
(* in a turn it writes the user's message and then one assistant message   *)
(* per step, each blank at first, then partial, then complete.             *)
(***************************************************************************)
EXTENDS Integers, Sequences, FiniteSets, SequencesExt

CONSTANTS
    Steps,          \* assistant messages OpenCode writes in a turn
    MaxTurns,       \* bound: turns of the session
    MaxFetches,     \* bound: requests for messages under way at once
    MaxAsides,      \* bound: crashes of the server, lost subscriptions, polls of
                    \* the session and announcements appended to it, together
    MaxWire         \* bound: events under way when OpenCode adds one

ASSUME MirrorAssumption ==
    /\ Steps \in Nat \ {0}
    /\ {MaxTurns, MaxFetches, MaxAsides, MaxWire} \subseteq Nat

VARIABLES
    asked,      \* turns OpenCode has been asked for
    progress,   \* external: what OpenCode has written, in steps of its work
    wire,       \* events under way to the server
    connected,  \* the event subscription is open
    turn,       \* the turn sendUserMessage awaits (busySessions), 0: none
    fetch,      \* requests for messages under way
    recent,     \* the session was synchronised less than the interval ago
    stored,     \* messages: how much of each has been stored
    at,         \* messages: created_at
    count,      \* sessions.message_count
    notes,      \* announcements in the transcript
    usage,      \* usage_events: what was known of a message when counted
    uncounted,  \* messages an import has inserted and not counted yet
    asides,     \* history: crashes, lost subscriptions, polls, announcements
    missed,     \* history: turns a report of which was lost or failed, or in
                \* which an older answer replaced a newer one
    forgotten   \* history: messages a crash kept from being counted

rows == <<stored, at, count, notes, usage>>
mirrorVars == <<asked, progress, wire, connected, turn, fetch, recent, stored,
                at, count, notes, usage, uncounted, asides, missed, forgotten>>

Turns == 1 .. MaxTurns
\* <<t, 0>> is the user's message of turn t, <<t, i>> its i-th assistant message.
Messages == Turns \X (0 .. Steps)
FromAssistant == {m \in Messages : m[2] > 0}
TurnsOf(messages) == {m[1] : m \in messages}
Answer(t) == <<t, Steps>>

\* How much of a message there is.
Absent == 0
Blank == 1
Partial == 2
Complete == 3
Levels == Absent .. Complete

\* OpenCode's work on a turn: the user's message, then three steps for each
\* assistant message.
Span == 1 + 3 * Steps
Level(p, m) ==
    LET done == p - (m[1] - 1) * Span
        own == done - 1 - 3 * (m[2] - 1)
    IN IF m[2] = 0 THEN (IF done > 0 THEN Complete ELSE Absent)
       ELSE IF own < Absent THEN Absent
       ELSE IF own > Complete THEN Complete
       ELSE own

\* info.time of OpenCode's messages.
CreatedAt(m) == m[1] * (Steps + 2) + m[2]
CompletedAt(t) == t * (Steps + 2) + Steps + 1
Times == 0 .. (MaxTurns + 1) * (Steps + 2)

Event == [type : {"updated"}, of : FromAssistant] \cup [type : {"idle"}, of : Turns]
\* A request names the messages it asks for: one, or those of the session.
Fetch == [for : SUBSET Messages, at : {"asked", "answered"}, read : Nat]

MirrorTypeOK ==
    /\ asked \in 0 .. MaxTurns
    /\ progress \in 0 .. MaxTurns * Span
    /\ wire \in Seq(Event)
    /\ connected \in BOOLEAN
    /\ turn \in 0 .. MaxTurns
    /\ fetch \subseteq Fetch
    /\ recent \in BOOLEAN
    /\ stored \in [Messages -> Levels]
    /\ at \in [Messages -> Times]
    /\ count \in Nat
    /\ notes \in Nat
    /\ usage \in [Messages -> Levels]
    /\ uncounted \subseteq FromAssistant
    /\ asides \in 0 .. MaxAsides
    /\ missed \subseteq Turns
    /\ forgotten \subseteq FromAssistant

MirrorInit ==
    /\ asked = 0
    /\ progress = 0
    /\ wire = <<>>
    /\ connected = FALSE
    /\ turn = 0
    /\ fetch = {}
    /\ recent = FALSE
    /\ stored = [m \in Messages |-> Absent]
    /\ at = [m \in Messages |-> 0]
    /\ count = 0
    /\ notes = 0
    /\ usage = [m \in Messages |-> Absent]
    /\ uncounted = {}
    /\ asides = 0
    /\ missed = {}
    /\ forgotten = {}

-------------------------------------------------------------------------------
(* External: OpenCode and its events.                                      *)

\* The events of OpenCode's p-th step: an assistant message that begins or is
\* complete, and the end of a turn.
EventsOf(p) ==
    LET t == ((p - 1) \div Span) + 1
        touched == {m \in FromAssistant : Level(p, m) # Level(p - 1, m)
                                          /\ Level(p, m) \in {Blank, Complete}}
    IN SetToSeq({[type |-> "updated", of |-> m] : m \in touched})
       \o (IF p % Span = 0 THEN <<[type |-> "idle", of |-> t]>> ELSE <<>>)

\* The turns whose messages the loss of events may leave behind.
Behind(events) ==
    LET TurnOf(e) == IF e.type = "idle" THEN e.of ELSE e.of[1]
    IN {TurnOf(events[i]) : i \in DOMAIN events}

OpencodeWorks ==
    /\ uncounted = {}
    /\ progress < asked * Span
    /\ Len(wire) <= MaxWire
    /\ progress' = progress + 1
    /\ IF connected
       THEN wire' = wire \o EventsOf(progress + 1) /\ UNCHANGED missed
       ELSE missed' = missed \cup Behind(EventsOf(progress + 1)) /\ UNCHANGED wire
    /\ UNCHANGED <<asked, connected, turn, fetch, recent, rows, uncounted, asides, forgotten>>

\* A turn somebody else asked OpenCode for.
ForeignTurn ==
    /\ uncounted = {}
    /\ asked < MaxTurns
    /\ asked' = asked + 1
    /\ UNCHANGED <<progress, wire, connected, turn, fetch, recent, rows, uncounted,
                   asides, missed, forgotten>>

MirrorConnects ==
    /\ ~connected
    /\ uncounted = {}
    /\ connected' = TRUE
    /\ UNCHANGED <<asked, progress, wire, turn, fetch, recent, rows, uncounted,
                   asides, missed, forgotten>>

MirrorDisconnects ==
    /\ connected /\ asides < MaxAsides
    /\ uncounted = {}
    /\ connected' = FALSE
    /\ wire' = <<>>
    /\ missed' = missed \cup Behind(wire)
    /\ asides' = asides + 1
    /\ UNCHANGED <<asked, progress, turn, fetch, recent, rows, uncounted, forgotten>>

-------------------------------------------------------------------------------
(* The rows.                                                               *)

Kept(rowsOf) == Cardinality({m \in Messages : rowsOf[m] # Absent})

BUG_ExchangeCounts(rowsOf) == count + 2

\* appendChatExchange counts the messages of the session anew.
ExchangeCounts(rowsOf) == Kept(rowsOf) + notes

\* recordUsageDelta: a row there is keeps its counts.
Counted(m, level) == usage' = [usage EXCEPT ![m] = IF @ = Absent THEN level ELSE @]

\* appendChatExchange: inserts what is not there, leaves content that is not
\* blank, and puts the user's message no later than the answer.
AppendExchange(t) ==
    LET user == <<t, 0>>
        answer == Answer(t)
        hasUser == stored[user] # Absent
        hasAnswer == stored[answer] # Absent
        later == IF at[user] > CompletedAt(t) THEN at[user] ELSE CompletedAt(t)
        answerAt == IF hasAnswer THEN at[answer]
                    ELSE IF hasUser THEN later
                    ELSE CompletedAt(t)
        userAt == IF hasUser /\ at[user] < answerAt THEN at[user] ELSE answerAt
    IN /\ stored' = [stored EXCEPT ![user] = IF hasUser THEN @ ELSE Complete,
                                   ![answer] = IF hasAnswer THEN @ ELSE Complete]
       /\ at' = [at EXCEPT ![user] = userAt, ![answer] = answerAt]
       /\ count' = ExchangeCounts(stored')
       /\ Counted(answer, Complete)
       /\ UNCHANGED notes

\* The messages an answer holds content of: blank ones are left out.
Imported(what, read) == {m \in what : Level(read, m) \in {Partial, Complete}}

\* upsertSessionMessages: inserts what is not there and replaces content that
\* differs, whichever is the newer.
Upsert(imported, read) ==
    LET inserted == {m \in imported : stored[m] = Absent}
    IN /\ stored' = [m \in Messages |-> IF m \in imported THEN Level(read, m) ELSE stored[m]]
       /\ at' = [m \in Messages |-> IF m \in inserted THEN CreatedAt(m) ELSE at[m]]
       /\ count' = IF inserted = {} THEN count ELSE Kept(stored') + notes
       /\ uncounted' = inserted \cap FromAssistant
       /\ missed' = missed \cup TurnsOf({m \in imported : Level(read, m) < stored[m]})
       /\ UNCHANGED <<notes, usage>>

-------------------------------------------------------------------------------
(* The turn of sendUserMessage.                                            *)

Send ==
    /\ uncounted = {}
    /\ turn = 0 /\ asked < MaxTurns
    /\ asked' = asked + 1
    /\ turn' = asked + 1
    /\ UNCHANGED <<progress, wire, connected, fetch, recent, rows, uncounted,
                   asides, missed, forgotten>>

\* The prompt's answer has arrived, and the title has been synchronised.
TurnAnswered ==
    /\ uncounted = {}
    /\ turn # 0 /\ progress >= turn * Span
    /\ AppendExchange(turn)
    /\ turn' = 0
    /\ UNCHANGED <<asked, progress, wire, connected, fetch, recent, uncounted,
                   asides, missed, forgotten>>

\* The prompt fails, times out or is answered with an error.
TurnFails ==
    /\ uncounted = {}
    /\ turn # 0
    /\ turn' = 0
    /\ UNCHANGED <<asked, progress, wire, connected, fetch, recent, rows, uncounted,
                   asides, missed, forgotten>>

\* appendAssistantMessage: an announcement, which no import will bring.
AppendNote ==
    /\ uncounted = {}
    /\ asides < MaxAsides
    /\ asides' = asides + 1
    /\ notes' = notes + 1
    /\ count' = count + 1
    /\ UNCHANGED <<asked, progress, wire, connected, turn, fetch, recent, stored, at,
                   usage, uncounted, missed, forgotten>>

-------------------------------------------------------------------------------
(* Synchronisation.                                                        *)

Asks(what) ==
    /\ Cardinality(fetch) < MaxFetches
    /\ fetch' = fetch \cup {[for |-> what, at |-> "asked", read |-> 0]}

BUG_Answers(e) == turn = 0

\* Which events are answered with a request for messages: message.updated only
\* while the session is not busy.
Answers(e) == e.type = "updated" => turn = 0

Deliver ==
    /\ uncounted = {}
    /\ wire # <<>>
    /\ wire' = Tail(wire)
    /\ LET e == Head(wire)
       IN IF ~Answers(e) THEN UNCHANGED <<fetch, recent>>
          ELSE /\ Asks(IF e.type = "idle" THEN Messages ELSE {e.of})
               /\ recent' = (recent \/ e.type = "idle")
    /\ UNCHANGED <<asked, progress, connected, turn, rows, uncounted, asides,
                   missed, forgotten>>

\* syncBackgroundSessionMessages: polled, and not more often than the interval.
Poll ==
    /\ uncounted = {}
    /\ asides < MaxAsides /\ ~recent
    /\ asides' = asides + 1
    /\ recent' = TRUE
    /\ Asks(Messages)
    /\ UNCHANGED <<asked, progress, wire, connected, turn, rows, uncounted,
                   missed, forgotten>>

IntervalPasses ==
    /\ uncounted = {}
    /\ recent
    /\ recent' = FALSE
    /\ UNCHANGED <<asked, progress, wire, connected, turn, fetch, rows, uncounted,
                   asides, missed, forgotten>>

\* External: OpenCode reads what it will answer.
OpencodeAnswers(f) ==
    /\ uncounted = {}
    /\ f.at = "asked"
    /\ fetch' = (fetch \ {f}) \cup {[f EXCEPT !.at = "answered", !.read = progress]}
    /\ UNCHANGED <<asked, progress, wire, connected, turn, recent, rows, uncounted,
                   asides, missed, forgotten>>

\* The answer arrives: syncLocalSessionFromOpencode from there to the counts.
Import(f) ==
    /\ uncounted = {}
    /\ f.at = "answered"
    /\ Upsert(Imported(f.for, f.read), f.read)
    /\ fetch' = fetch \ {f}
    \* syncMessageById calls the synchronisation with the message it has read.
    /\ recent' = (recent \/ f.for # Messages)
    /\ UNCHANGED <<asked, progress, wire, connected, turn, asides, forgotten>>

\* recordUsageDelta for one of the messages inserted.  Nothing runs between the
\* import and its counts, but a crash may come.
CountInserted(m) ==
    /\ m \in uncounted
    /\ uncounted' = uncounted \ {m}
    /\ Counted(m, stored[m])
    /\ UNCHANGED <<asked, progress, wire, connected, turn, fetch, recent, stored, at,
                   count, notes, asides, missed, forgotten>>

FetchFails(f) ==
    /\ uncounted = {}
    /\ fetch' = fetch \ {f}
    /\ missed' = missed \cup TurnsOf(f.for)
    /\ UNCHANGED <<asked, progress, wire, connected, turn, recent, rows, uncounted,
                   asides, forgotten>>

MirrorCrash ==
    /\ asides < MaxAsides
    /\ asides' = asides + 1
    /\ turn' = 0
    /\ fetch' = {}
    /\ recent' = FALSE
    /\ wire' = <<>>
    /\ connected' = FALSE
    /\ uncounted' = {}
    /\ forgotten' = forgotten \cup uncounted
    /\ missed' = missed \cup 1 .. asked
    /\ UNCHANGED <<asked, progress, rows>>

MirrorNext ==
    \/ OpencodeWorks \/ ForeignTurn
    \/ MirrorConnects \/ MirrorDisconnects
    \/ Send \/ TurnAnswered \/ TurnFails \/ AppendNote
    \/ Deliver \/ IntervalPasses \/ MirrorCrash
    \/ Poll
    \/ \E f \in fetch : OpencodeAnswers(f) \/ Import(f) \/ FetchFails(f)
    \/ \E m \in FromAssistant : CountInserted(m)

MirrorSpec == MirrorInit /\ [][MirrorNext]_mirrorVars

\* OpenCode works and answers, the subscription reconnects, events are handled and
\* answers are imported; nothing makes a turn fail or a poll happen.
MirrorFairness ==
    /\ WF_mirrorVars(OpencodeWorks)
    /\ WF_mirrorVars(MirrorConnects)
    /\ WF_mirrorVars(Deliver)
    /\ WF_mirrorVars(TurnAnswered)
    /\ WF_mirrorVars(\E f \in fetch : OpencodeAnswers(f) \/ Import(f))
    /\ WF_mirrorVars(\E m \in FromAssistant : CountInserted(m))

-------------------------------------------------------------------------------
(* Properties.                                                             *)

\* A message of an assistant is counted in the usage if and only if it is in the
\* transcript, whichever of the two writers brought it first, but for a crash
\* between an import and its counts; and message_count is the number of messages
\* (appendChatExchange, appendAssistantMessage, upsertSessionMessages).
CountedOnce ==
    /\ MirrorTypeOK
    /\ \A m \in FromAssistant :
           (usage[m] # Absent) <=> (stored[m] # Absent /\ m \notin uncounted \cup forgotten)
    /\ count = Kept(stored) + notes

\* What OpenCode has completed is complete in the transcript in the end, although
\* events are ignored while the session is busy and partial content is left alone
\* by appendChatExchange, unless a report was lost or answers overtook each other
\* (handleMessageUpdatedEvent, handleSessionIdleEvent).
MirrorCatchesUp ==
    \A m \in Messages :
        <>[](Level(progress, m) = Complete => stored[m] = Complete \/ m[1] \in missed)

\* No assistant message of a turn is shown before the user's message of the turn
\* (listMessagesForSession orders by created_at, the user's message first).
TurnsStayInOrder ==
    \A m \in FromAssistant :
        stored[m] # Absent /\ stored[<<m[1], 0>>] # Absent => at[<<m[1], 0>>] <= at[m]
===============================================================================
