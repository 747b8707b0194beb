---------------------------- MODULE PromptDelivery ----------------------------
(***************************************************************************)
(* How a prompt of a session reaches OpenCode, and the memories with it    *)
(* (sendUserMessage and compactSession of coreMethods.ts,                  *)
(* sendPromptWithModelFallback and what it calls in promptMethods.ts,      *)
(* buildPromptInputWithMemory and the injection states of                  *)
(* memoryMethods.ts, all under runtime/opencodeRuntime).                   *)
(*                                                                         *)
(* The session of the server is bound to a session of OpenCode, which may  *)
(* be lost and replaced by a new one.  The server notes which memories it  *)
(* has put into a session of OpenCode, so as not to repeat them.  OpenCode *)
(* is external: it keeps a context per session, forgets it when it         *)
(* compacts the session, and tells so in an event.                         *)
(***************************************************************************)
EXTENDS Integers, FiniteSets

CONSTANTS
    Memories,       \* memories a search may find relevant
    Models,         \* the number of models tried: the chosen one, the fallbacks
    MaxSessions,    \* bound: sessions of OpenCode created for the session
    MaxPrompts,     \* bound: prompts sent by callers
    MaxUpsets       \* bound: compactions and losses of a session, together

ASSUME PromptAssumption ==
    /\ IsFiniteSet(Memories)
    /\ Models \in Nat \ {0}
    /\ {MaxSessions, MaxPrompts, MaxUpsets} \subseteq Nat

VARIABLES
    bound,      \* the binding of the session, 0: none
    made,       \* sessions of OpenCode created so far
    note,       \* memoryInjectionStateBySessionId
    prompt,     \* the prompt under way
    compact,    \* the call of compactSession under way
    context,    \* external: the memories in the context of each session
    lost,       \* external: sessions OpenCode no longer knows
    announcedCompact,   \* external: sessions whose session.compacted is under way
    prompts,    \* history: prompts so far
    upsets,     \* history: compactions and losses so far
    adrift      \* history: sessions noted to hold memories that did not reach
                \* them: a prompt failed, or its first attempt with a new session
                \* did; the session got the note of a lost one; or the event of
                \* its compaction was lost

promptVars == <<bound, made, note, prompt, compact, context, lost, announcedCompact,
                prompts, upsets, adrift>>
external == <<context, lost, announcedCompact>>
history == <<prompts, upsets, adrift>>

Sessions == 1 .. MaxSessions

\* An injection state: the fingerprint of the memories injected last, whether the
\* next are to be injected whatever it is, and the memories injected since the
\* last compaction.
Note == [there : BOOLEAN, print : SUBSET Memories, force : BOOLEAN, keys : SUBSET Memories]
NoNote == [there |-> FALSE, print |-> {}, force |-> FALSE, keys |-> {}]

\* The prompt under way: the session it is for, the memories found, those chosen
\* to be injected (memoryContextFingerprint), those in its parts, the model and
\* the agent it is tried with, and
\*   retried: this attempt is the one after a lost session has been replaced;
\*   stale: history, the note it was built from, or the parts it is tried with,
\*   are not those of its session as it is now.
Stages == {"idle", "resolving", "creating", "searching", "sending", "recreating",
           "answered"}
Prompt == [at : Stages, session : 0 .. MaxSessions, found : SUBSET Memories,
           chosen : SUBSET Memories, parts : SUBSET Memories, model : 1 .. Models,
           agent : {"given", "none", "primary"}, retried : BOOLEAN, stale : BOOLEAN]
NoPrompt == [at |-> "idle", session |-> 0, found |-> {}, chosen |-> {}, parts |-> {},
             model |-> 1, agent |-> "given", retried |-> FALSE, stale |-> FALSE]
Compact == [at : {"idle", "creating", "asking", "answered"}, session : 0 .. MaxSessions,
            again : BOOLEAN]
NoCompact == [at |-> "idle", session |-> 0, again |-> FALSE]

PromptTypeOK ==
    /\ bound \in 0 .. MaxSessions
    /\ made \in 0 .. MaxSessions
    /\ note \in [Sessions -> Note]
    /\ prompt \in Prompt
    /\ compact \in Compact
    /\ context \in [Sessions -> SUBSET Memories]
    /\ lost \subseteq Sessions
    /\ announcedCompact \subseteq Sessions
    /\ prompts \in 0 .. MaxPrompts
    /\ upsets \in 0 .. MaxUpsets
    /\ adrift \subseteq Sessions

PromptInit ==
    /\ bound = 0
    /\ made = 0
    /\ note = [s \in Sessions |-> NoNote]
    /\ prompt = NoPrompt
    /\ compact = NoCompact
    /\ context = [s \in Sessions |-> {}]
    /\ lost = {}
    /\ announcedCompact = {}
    /\ prompts = 0
    /\ upsets = 0
    /\ adrift = {}

-------------------------------------------------------------------------------
(* Building the prompt.                                                    *)

\* The memories chosen of those found relevant: all of them without
\* deduplication, else the ones not noted, or the best when all are noted and the
\* fallback applies.
Candidates(n, relevant, dedupe, fallback) ==
    IF ~dedupe THEN {relevant}
    ELSE IF relevant \ n.keys # {} THEN {relevant \ n.keys}
    ELSE IF fallback THEN {{m} : m \in relevant}
    ELSE {{}}

\* Whether they are put into the prompt: not when they are those of the last time.
Injects(n, relevant, candidates, dedupe) ==
    /\ candidates # {}
    /\ \/ dedupe /\ relevant \subseteq n.keys
       \/ n.force
       \/ n.print # candidates

\* The note after the prompt has been built.
Noted(n, candidates, injects) ==
    [there |-> TRUE, force |-> FALSE,
     print |-> IF injects THEN candidates ELSE n.print,
     keys |-> IF injects THEN n.keys \cup candidates ELSE n.keys]

\* clearMemoryInjectionState: without a note nothing is claimed of the session.
Clears(s) ==
    /\ note' = [note EXCEPT ![s] = NoNote]
    /\ adrift' = adrift \ {s}

\* The search fails, finds nothing relevant, or is not made at all: a blank query
\* clears the note.
BuildBare ==
    /\ prompt.at = "searching"
    /\ prompt' = [prompt EXCEPT !.at = "sending"]
    /\ \/ Clears(prompt.session)
       \/ UNCHANGED <<note, adrift>>
    /\ UNCHANGED <<bound, made, compact, external, prompts, upsets>>

BuildWithMemories ==
    /\ prompt.at = "searching"
    /\ \E relevant \in (SUBSET Memories) \ {{}}, dedupe, fallback \in BOOLEAN :
       LET s == prompt.session
           n == note[s]
       IN \E candidates \in Candidates(n, relevant, dedupe, fallback) :
          LET injects == Injects(n, relevant, candidates, dedupe)
          IN /\ note' = [note EXCEPT ![s] = Noted(n, candidates, injects)]
             /\ prompt' = [prompt EXCEPT
                    !.at = "sending",
                    !.parts = IF injects THEN candidates ELSE {},
                    !.found = relevant,
                    !.chosen = candidates,
                    !.stale = s \in announcedCompact \cup adrift]
    /\ UNCHANGED <<bound, made, compact, external, history>>

-------------------------------------------------------------------------------
(* Sending it.                                                             *)

SendUserMessage ==
    /\ prompt.at = "idle" /\ prompts < MaxPrompts
    /\ prompts' = prompts + 1
    /\ prompt' = [NoPrompt EXCEPT !.at = "resolving"]
    /\ UNCHANGED <<bound, made, note, compact, external, upsets, adrift>>

\* getRuntimeSessionBinding.
HasBinding == bound # 0

\* resolveOrCreateOpencodeSession.
ResolvePrompt ==
    /\ prompt.at = "resolving"
    /\ prompt' = IF HasBinding THEN [prompt EXCEPT !.at = "searching", !.session = bound]
                 ELSE [prompt EXCEPT !.at = "creating"]
    /\ UNCHANGED <<bound, made, note, compact, external, history>>

\* createOpencodeSession.
Create ==
    /\ made < MaxSessions
    /\ made' = made + 1
    /\ bound' = made + 1

PromptSessionCreated ==
    /\ prompt.at = "creating"
    /\ Create
    /\ prompt' = [prompt EXCEPT !.at = "searching", !.session = made + 1]
    /\ UNCHANGED <<note, compact, external, history>>

BUG_Payload == prompt.parts

\* The memories the attempt carries.
Payload == IF prompt.retried THEN prompt.found ELSE prompt.parts

\* An attempt with session, model and agent reaches OpenCode and is answered.
Answered ==
    /\ prompt.at = "sending" /\ prompt.session \notin lost
    /\ context' = [context EXCEPT ![prompt.session] = @ \cup Payload]
    /\ prompt' = [NoPrompt EXCEPT !.at = "answered"]
    /\ UNCHANGED <<bound, made, note, compact, lost, announcedCompact, history>>

\* The title is synchronised, and the exchange appended (MessageMirror).
PromptEnds ==
    /\ prompt.at = "answered"
    /\ prompt' = NoPrompt
    /\ UNCHANGED <<bound, made, note, compact, external, history>>

\* OpenCode refuses the agent: the prompt is tried without it, and then with the
\* primary agent, if there is one.
AgentRefused ==
    /\ prompt.at = "sending" /\ prompt.session \notin lost
    /\ prompt.agent # "primary"
    /\ prompt' = [prompt EXCEPT !.agent = IF @ = "given" THEN "none" ELSE "primary"]
    /\ UNCHANGED <<bound, made, note, compact, external, history>>

\* OpenCode does not know the session: a new one is created, once per model.
SessionLost ==
    /\ prompt.at = "sending" /\ prompt.session \in lost
    /\ ~prompt.retried
    /\ prompt' = [prompt EXCEPT !.at = "recreating"]
    /\ UNCHANGED <<bound, made, note, compact, external, history>>

\* The note of the lost session is carried over to the new one, and the prompt
\* is sent with all the memories found.
Recreated ==
    /\ prompt.at = "recreating"
    /\ Create
    /\ LET old == note[prompt.session]
           new == made + 1
       IN /\ note' = [note EXCEPT ![new] =
                 IF prompt.chosen # {}
                 THEN [there |-> TRUE, print |-> prompt.chosen, force |-> FALSE, keys |-> old.keys]
                 ELSE old]
          /\ prompt' = [prompt EXCEPT !.at = "sending", !.session = new,
                                      !.retried = TRUE, !.agent = "given"]
          /\ adrift' = IF old.keys # {} \/ (prompt.chosen = {} /\ old.print # {})
                       THEN adrift \cup {new} ELSE adrift
    /\ UNCHANGED <<compact, external, prompts, upsets>>

\* The attempt fails with an error other models are tried for, after OpenCode has
\* taken the prompt into the context or before.  The next model gets the parts
\* for the session as it was, although it may have been replaced.
ModelFails ==
    /\ prompt.at = "sending" /\ prompt.model < Models
    /\ prompt.session \notin lost
    /\ \E taken \in BOOLEAN :
           /\ context' = [context EXCEPT ![prompt.session] = @ \cup (IF taken THEN Payload ELSE {})]
           /\ adrift' = IF prompt.retried /\ ~taken THEN adrift \cup {prompt.session} ELSE adrift
    /\ prompt' = [prompt EXCEPT !.model = @ + 1, !.agent = "given", !.retried = FALSE,
                                !.stale = @ \/ prompt.retried]
    /\ UNCHANGED <<bound, made, note, compact, lost, announcedCompact, prompts, upsets>>

\* The prompt fails: the last model, an error nothing is tried for, a session
\* that cannot be created or is lost again.  What was noted stays noted.
PromptFails ==
    /\ prompt.at \in {"creating", "sending", "recreating"}
    /\ prompt' = NoPrompt
    /\ adrift' = IF prompt.at # "creating" THEN adrift \cup {prompt.session} ELSE adrift
    /\ \E taken \in BOOLEAN :
           context' = IF taken /\ prompt.at = "sending" /\ prompt.session \notin lost
                      THEN [context EXCEPT ![prompt.session] = @ \cup Payload]
                      ELSE context
    /\ UNCHANGED <<bound, made, note, compact, lost, announcedCompact, prompts, upsets>>

-------------------------------------------------------------------------------
(* Compaction.                                                             *)

BUG_Reinject(n) == [n EXCEPT !.there = TRUE, !.force = TRUE]

\* markMemoryInjectionStateForReinject.
Reinject(n) == [n EXCEPT !.there = TRUE, !.force = TRUE, !.keys = {}]

\* With its keys gone, the note claims nothing of the session any more.
Marks(s) ==
    /\ note' = [note EXCEPT ![s] = Reinject(@)]
    /\ adrift' = adrift \ {s}

CompactSession ==
    /\ compact.at = "idle" /\ upsets < MaxUpsets
    /\ upsets' = upsets + 1
    /\ compact' = IF HasBinding THEN [NoCompact EXCEPT !.at = "asking", !.session = bound]
                  ELSE [NoCompact EXCEPT !.at = "creating"]
    /\ UNCHANGED <<bound, made, note, prompt, external, prompts, adrift>>

CompactSessionCreated ==
    /\ compact.at = "creating"
    /\ Create
    /\ compact' = [compact EXCEPT !.at = "asking", !.session = made + 1]
    /\ UNCHANGED <<note, prompt, external, history>>

\* A lost session is replaced, once; this time nothing is carried over.
CompactFindsLost ==
    /\ compact.at = "asking" /\ compact.session \in lost
    /\ compact' = IF compact.again THEN NoCompact
                  ELSE [compact EXCEPT !.at = "creating", !.again = TRUE]
    /\ UNCHANGED <<bound, made, note, prompt, external, history>>

\* External: OpenCode compacts a session, asked to or on its own.
OpencodeCompacts(s) ==
    /\ s <= made /\ s \notin lost
    /\ context' = [context EXCEPT ![s] = {}]
    /\ announcedCompact' = announcedCompact \cup {s}
    /\ prompt' = IF prompt.session = s THEN [prompt EXCEPT !.stale = TRUE] ELSE prompt
    /\ \/ /\ compact.at = "asking" /\ compact.session = s
          /\ compact' = [compact EXCEPT !.at = "answered"]
          /\ UNCHANGED upsets
       \/ /\ upsets < MaxUpsets
          /\ upsets' = upsets + 1
          /\ UNCHANGED compact
    /\ UNCHANGED <<bound, made, note, lost, prompts, adrift>>

CompactAnswered ==
    /\ compact.at = "answered"
    /\ Marks(compact.session)
    /\ compact' = NoCompact
    /\ UNCHANGED <<bound, made, prompt, external, prompts, upsets>>

CompactFails ==
    /\ compact.at # "idle"
    /\ compact' = NoCompact
    /\ UNCHANGED <<bound, made, note, prompt, external, history>>

\* handleSessionCompactedEvent.
CompactedEvent(s) ==
    /\ announcedCompact' = announcedCompact \ {s}
    /\ Marks(s)
    /\ UNCHANGED <<bound, made, prompt, compact, context, lost, prompts, upsets>>

\* The subscription is lost, and the event with it.
CompactedEventLost(s) ==
    /\ announcedCompact' = announcedCompact \ {s}
    /\ adrift' = adrift \cup {s}
    /\ UNCHANGED <<bound, made, note, prompt, compact, context, lost, prompts, upsets>>

\* External: OpenCode loses a session.
OpencodeLoses(s) ==
    /\ s <= made /\ s \notin lost
    /\ upsets < MaxUpsets
    /\ upsets' = upsets + 1
    /\ lost' = lost \cup {s}
    /\ UNCHANGED <<bound, made, note, prompt, compact, context, announcedCompact, prompts, adrift>>

\* pruneMemoryInjectionState: a note too old, or one too many.
NotePruned(s) ==
    /\ note[s].there
    /\ Clears(s)
    /\ UNCHANGED <<bound, made, prompt, compact, external, prompts, upsets>>

PromptNext ==
    \/ SendUserMessage \/ ResolvePrompt \/ PromptSessionCreated
    \/ BuildBare \/ BuildWithMemories
    \/ Answered \/ PromptEnds \/ AgentRefused \/ SessionLost \/ Recreated \/ ModelFails \/ PromptFails
    \/ CompactSession \/ CompactSessionCreated \/ CompactFindsLost
    \/ CompactAnswered \/ CompactFails
    \/ \E s \in Sessions : OpencodeCompacts(s) \/ OpencodeLoses(s) \/ NotePruned(s)
    \/ \E s \in announcedCompact : CompactedEvent(s) \/ CompactedEventLost(s)

PromptSpec == PromptInit /\ [][PromptNext]_promptVars

-------------------------------------------------------------------------------
(* Properties.                                                             *)

\* What the note of a session claims to have been injected since the last
\* compaction is in the session's context or in the prompt on its way there,
\* unless a report of a compaction is under way, or the session is adrift
\* (memoryMethods.ts; docs/memory-runtime-contract.md: the keys are tracked per
\* generation of a session and reset on compaction).
InjectedIsKnown ==
    /\ PromptTypeOK
    /\ \A s \in Sessions \ (adrift \cup announcedCompact \cup lost) :
           note[s].keys \subseteq context[s]
               \cup (IF prompt.at = "sending" /\ prompt.session = s THEN Payload ELSE {})

\* A prompt that is answered found in the context, or brought along, every memory
\* its search found relevant, even when its session was lost and replaced on the
\* way; unless the session was compacted since, or an earlier failure left its
\* note wrong (with deduplication restricted or not).
AnswerKnowsMemories ==
    [][(prompt.at = "sending" /\ prompt'.at = "answered" /\ ~prompt.stale)
       => prompt.found \subseteq context'[prompt.session]]_promptVars
===============================================================================
