-------------------------- MODULE Conversation_proofs --------------------------
(***************************************************************************)
(* Theorems of PromptDelivery and MessageMirror for every value of their   *)
(* constants.                                                              *)
(*                                                                         *)
(* Of prompts: what the note of a session claims is in the session's       *)
(* context or on its way there, and an answered prompt has its memories    *)
(* with it.  A note claims two things, the keys injected since the last    *)
(* compaction and, unless the next memories are to be injected whatever    *)
(* they are, the fingerprint of the memories injected last; only both      *)
(* together justify leaving memories out of a prompt.                      *)
(*                                                                         *)
(* Of messages: every message of an assistant is counted once.  What       *)
(* carries this over a crash is that a message the crash kept from being   *)
(* counted is of a turn before any that can still append an exchange.      *)
(***************************************************************************)
EXTENDS MessageMirror, PromptDelivery, FiniteSetTheorems, TLAPS

-------------------------------------------------------------------------------
(* Prompts: the invariant.                                                 *)

\* The memories the prompt under way carries to s.
Way(s) == IF prompt.at = "sending" /\ prompt.session = s THEN Payload ELSE {}

\* What a note claims of a session is known there.
ClaimsKnown(n, known) == n.keys \subseteq known /\ (~n.force => n.print \subseteq known)

Trusted(s) == s \notin adrift \cup announcedCompact \cup lost

Covered == \A s \in Sessions : Trusted(s) => ClaimsKnown(note[s], context[s] \cup Way(s))

\* Memories that are to be injected whatever they are follow a compaction.
Forced == \A s \in Sessions : note[s].force => note[s].keys = {}

\* A prompt has a session once it searches, and memories only after it.
PromptShape ==
    /\ prompt.at \in {"searching", "sending", "recreating"} => prompt.session \in Sessions
    /\ prompt.at \in {"idle", "resolving", "creating", "searching"} =>
            ~prompt.retried /\ prompt.found = {} /\ prompt.chosen = {} /\ prompt.parts = {}
    /\ prompt.chosen \subseteq prompt.found

\* The note of a session that replaced a lost one has no keys of its own yet.
RetriedBare ==
    prompt.at = "sending" /\ prompt.retried /\ prompt.session \notin adrift =>
        note[prompt.session].keys = {}

\* A prompt that is not outdated has what its search found in the context or
\* brings it along.
FoundKnown ==
    prompt.at = "sending" /\ ~prompt.stale /\ ~prompt.retried /\ prompt.session \notin lost =>
        prompt.found \subseteq context[prompt.session] \cup prompt.parts

Delivery ==
    PromptTypeOK /\ Covered /\ Forced /\ PromptShape /\ RetriedBare /\ FoundKnown

-------------------------------------------------------------------------------
(* Prompts: types.                                                         *)

LEMMA PromptTypes ==
    ASSUME PromptTypeOK
    PROVE  /\ MaxSessions \in Nat /\ MaxPrompts \in Nat /\ MaxUpsets \in Nat /\ Models \in Nat \ {0}
           /\ bound \in 0 .. MaxSessions /\ made \in 0 .. MaxSessions
           /\ note \in [Sessions -> Note] /\ \A s \in Sessions : note[s] \in Note
           /\ prompt \in Prompt /\ compact \in Compact
           /\ context \in [Sessions -> SUBSET Memories]
           /\ \A s \in Sessions : context[s] \subseteq Memories
           /\ lost \subseteq Sessions /\ announcedCompact \subseteq Sessions /\ adrift \subseteq Sessions
           /\ prompts \in 0 .. MaxPrompts /\ upsets \in 0 .. MaxUpsets
           /\ \A s \in Sessions : s \in Nat /\ s # 0 /\ s \in 0 .. MaxSessions
           /\ Sessions = 1 .. MaxSessions
  BY PromptAssumption DEF PromptTypeOK, Sessions

LEMMA PromptFields ==
    ASSUME NEW p \in Prompt
    PROVE  /\ p.at \in Stages /\ p.session \in 0 .. MaxSessions /\ p.found \subseteq Memories
           /\ p.chosen \subseteq Memories /\ p.parts \subseteq Memories /\ p.model \in 1 .. Models
           /\ p.agent \in {"given", "none", "primary"} /\ p.retried \in BOOLEAN /\ p.stale \in BOOLEAN
  BY DEF Prompt

LEMMA NoteFields ==
    ASSUME NEW n \in Note
    PROVE  /\ n.there \in BOOLEAN /\ n.print \subseteq Memories /\ n.force \in BOOLEAN
           /\ n.keys \subseteq Memories
           /\ Reinject(n) \in Note /\ Reinject(n).keys = {} /\ Reinject(n).force
  BY DEF Note, Reinject

LEMMA Blanks ==
    /\ NoNote \in Note /\ NoNote.keys = {} /\ NoNote.print = {} /\ ~NoNote.force /\ ~NoNote.there
    /\ NoPrompt \in Prompt /\ NoPrompt.at = "idle" /\ NoPrompt.session = 0 /\ NoPrompt.found = {}
    /\ NoPrompt.chosen = {} /\ NoPrompt.parts = {} /\ ~NoPrompt.retried
    /\ NoCompact \in Compact /\ NoCompact.at = "idle"
  <1>1. 0 \in 0 .. MaxSessions /\ 1 \in 1 .. Models
    BY PromptAssumption
  <1> QED  BY <1>1 DEF NoNote, Note, NoPrompt, Prompt, Stages, NoCompact, Compact

\* A session is created: it is the next one.
LEMMA Creates ==
    ASSUME PromptTypeOK, Create
    PROVE  /\ made + 1 \in Sessions /\ made' = made + 1 /\ bound' = made + 1
           /\ bound' \in 0 .. MaxSessions /\ made' \in 0 .. MaxSessions
  BY PromptTypes DEF Create

LEMMA PayloadTypes ==
    ASSUME PromptTypeOK
    PROVE  Payload \subseteq Memories
  BY PromptTypes, PromptFields DEF Payload

-------------------------------------------------------------------------------
(* Prompts: what keeps the claims of the notes.                            *)

\* Nothing is claimed anew, and nothing known is forgotten.
LEMMA CoveredKept ==
    ASSUME Covered, note' = note,
           \A s \in Sessions : Trusted(s)' => Trusted(s) /\ context[s] \cup Way(s)
                                                            \subseteq context'[s] \cup Way(s)'
    PROVE  Covered'
  BY DEF Covered, ClaimsKnown

\* A note that claims nothing.
Empty(n) == n.keys = {} /\ (~n.force => n.print = {})

\* The note of a session is emptied: the session can be trusted again.
LEMMA CoveredEmptied ==
    ASSUME PromptTypeOK, Covered, NEW s \in Sessions, NEW n, Empty(n),
           note' = [note EXCEPT ![s] = n], adrift' = adrift \ {s},
           context' = context, lost' = lost,
           announcedCompact' = announcedCompact \/ announcedCompact' = announcedCompact \ {s},
           \A r \in Sessions : r # s => Way(r) \subseteq Way(r)'
    PROVE  Covered'
  <1>1. note'[s] = n /\ \A r \in Sessions : r # s => note'[r] = note[r]
    BY PromptTypes
  <1>2. \A r \in Sessions : r # s /\ Trusted(r)' => Trusted(r)
    BY DEF Trusted
  <1> QED  BY <1>1, <1>2 DEF Covered, ClaimsKnown, Empty

\* An action that leaves the notes, the sessions and OpenCode alone.
LEMMA QuietPromptStep ==
    ASSUME Delivery, PromptTypeOK', PromptShape',
           UNCHANGED <<note, context, lost, announcedCompact, adrift>>,
           \/ UNCHANGED prompt
           \/ prompt.at # "sending" /\ prompt'.at # "sending"
           \/ prompt.at = "sending" /\ prompt'.at # "sending" /\ prompt.session \in lost
           \/ /\ prompt'.at = prompt.at /\ prompt'.session = prompt.session
              /\ prompt'.found = prompt.found /\ prompt'.parts = prompt.parts
              /\ prompt'.retried = prompt.retried /\ prompt'.stale = prompt.stale
    PROVE  Delivery'
  <1>1. Covered'
    <2>1. \A s \in Sessions : Trusted(s)' => Trusted(s) /\ Way(s) \subseteq Way(s)'
      BY DEF Trusted, Way, Payload
    <2> QED  BY <2>1, CoveredKept DEF Delivery
  <1>2. Forced' /\ RetriedBare' /\ FoundKnown'
    BY DEF Delivery, Forced, RetriedBare, FoundKnown
  <1> QED  BY <1>1, <1>2 DEF Delivery

-------------------------------------------------------------------------------
(* Prompts: the steps.                                                     *)

\* The actions that leave the notes, the sessions and OpenCode alone.
LEMMA QuietPromptActions ==
    ASSUME Delivery,
           \/ SendUserMessage \/ ResolvePrompt \/ PromptSessionCreated
           \/ PromptEnds \/ AgentRefused \/ SessionLost
    PROVE  Delivery'
  <1> USE PromptTypes, PromptFields DEF history, external
  <1>t. PromptTypeOK /\ PromptShape
    BY DEF Delivery
  <1>p. prompt \in Prompt
    BY <1>t
  <1>1. CASE SendUserMessage
    <2>1. prompt' \in Prompt /\ PromptShape' /\ prompt.at # "sending" /\ prompt'.at # "sending"
      BY <1>1, <1>p, Blanks DEF SendUserMessage, PromptShape, Prompt, Stages, NoPrompt
    <2>2. prompts' \in 0 .. MaxPrompts
      BY <1>1, <1>t DEF SendUserMessage
    <2>3. PromptTypeOK'
      BY <1>1, <1>t, <2>1, <2>2 DEF SendUserMessage, PromptTypeOK, Sessions
    <2> QED  BY <1>1, <2>1, <2>3, QuietPromptStep DEF SendUserMessage
  <1>2. CASE ResolvePrompt
    <2>b. bound \in 0 .. MaxSessions /\ (bound # 0 => bound \in Sessions)
      BY <1>t DEF Sessions
    <2>1. prompt' \in Prompt /\ prompt.at # "sending" /\ prompt'.at # "sending"
      BY <1>2, <1>p, <2>b DEF ResolvePrompt, Prompt, Stages
    <2>2. PromptShape'
      BY <1>2, <1>t, <1>p, <2>b DEF ResolvePrompt, HasBinding, PromptShape, Prompt, Sessions
    <2>3. PromptTypeOK'
      BY <1>2, <1>t, <2>1 DEF ResolvePrompt, PromptTypeOK, Sessions
    <2> QED  BY <1>2, <2>1, <2>2, <2>3, QuietPromptStep DEF ResolvePrompt
  <1>3. CASE PromptSessionCreated
    <2>c. made + 1 \in Sessions /\ made + 1 \in 0 .. MaxSessions
          /\ bound' \in 0 .. MaxSessions /\ made' \in 0 .. MaxSessions
      BY <1>3, <1>t, Creates DEF PromptSessionCreated
    <2>1. prompt' \in Prompt /\ PromptShape' /\ prompt.at # "sending" /\ prompt'.at # "sending"
      BY <1>3, <1>t, <1>p, <2>c DEF PromptSessionCreated, PromptShape, Prompt, Stages
    <2>3. PromptTypeOK'
      BY <1>3, <1>t, <2>1, <2>c DEF PromptSessionCreated, PromptTypeOK, Sessions
    <2> QED  BY <1>3, <2>1, <2>3, QuietPromptStep DEF PromptSessionCreated
  <1>4. CASE PromptEnds
    <2>1. prompt' \in Prompt /\ PromptShape' /\ prompt.at # "sending" /\ prompt'.at # "sending"
      BY <1>4, <1>p, Blanks DEF PromptEnds, PromptShape
    <2>3. PromptTypeOK'
      BY <1>4, <1>t, <2>1 DEF PromptEnds, PromptTypeOK, Sessions
    <2> QED  BY <1>4, <2>1, <2>3, QuietPromptStep DEF PromptEnds
  <1>5. CASE AgentRefused
    <2>0. prompt' \in Prompt
      BY <1>5, <1>p DEF AgentRefused, Prompt
    <2>1. /\ prompt'.at = prompt.at /\ prompt'.session = prompt.session
          /\ prompt'.found = prompt.found /\ prompt'.parts = prompt.parts
          /\ prompt'.chosen = prompt.chosen
          /\ prompt'.retried = prompt.retried /\ prompt'.stale = prompt.stale
      BY <1>5, <1>p DEF AgentRefused, Prompt
    <2>2. PromptShape'
      BY <1>t, <2>1 DEF PromptShape, Sessions
    <2>3. PromptTypeOK'
      BY <1>5, <1>t, <2>0 DEF AgentRefused, PromptTypeOK, Sessions
    <2> QED  BY <1>5, <2>1, <2>2, <2>3, QuietPromptStep DEF AgentRefused
  <1>6. CASE SessionLost
    <2>0. prompt' \in Prompt
      BY <1>6, <1>p DEF SessionLost, Prompt, Stages
    <2>1. /\ prompt.at = "sending" /\ prompt'.at = "recreating" /\ prompt'.session = prompt.session
          /\ prompt'.found = prompt.found /\ prompt'.chosen = prompt.chosen
          /\ prompt.session \in lost
      BY <1>6, <1>p DEF SessionLost, Prompt
    <2>2. PromptShape'
      BY <1>t, <2>1 DEF PromptShape, Sessions
    <2>3. PromptTypeOK'
      BY <1>6, <1>t, <2>0 DEF SessionLost, PromptTypeOK, Sessions
    <2> QED  BY <1>6, <2>1, <2>2, <2>3, QuietPromptStep DEF SessionLost
  <1> QED  BY <1>1, <1>2, <1>3, <1>4, <1>5, <1>6

\* So do those of compactSession that ask OpenCode for nothing.
LEMMA QuietCompactActions ==
    ASSUME Delivery,
           CompactSession \/ CompactSessionCreated \/ CompactFindsLost \/ CompactFails
    PROVE  Delivery'
  <1> USE PromptTypes DEF history, external
  <1>t. PromptTypeOK /\ PromptShape /\ PromptShape'
    BY DEF Delivery, PromptShape, CompactSession, CompactSessionCreated, CompactFindsLost,
           CompactFails, Sessions
  <1>p. compact \in Compact
    BY <1>t
  <1>1. CASE CompactSession
    <2>b. bound \in 0 .. MaxSessions /\ NoCompact \in Compact
      BY <1>t, Blanks
    <2>1. compact' \in Compact
      BY <1>1, <2>b DEF CompactSession, Compact
    <2>2. upsets' \in 0 .. MaxUpsets
      BY <1>1, <1>t DEF CompactSession
    <2>3. PromptTypeOK'
      BY <1>1, <1>t, <2>1, <2>2 DEF CompactSession, PromptTypeOK, Sessions
    <2> QED  BY <1>1, <1>t, <2>3, QuietPromptStep DEF CompactSession
  <1>2. CASE CompactSessionCreated
    <2>c. made + 1 \in 0 .. MaxSessions /\ bound' \in 0 .. MaxSessions /\ made' \in 0 .. MaxSessions
      BY <1>2, <1>t, Creates DEF CompactSessionCreated
    <2>1. compact' \in Compact
      BY <1>2, <1>p, <2>c DEF CompactSessionCreated, Compact
    <2>3. PromptTypeOK'
      BY <1>2, <1>t, <2>1, <2>c DEF CompactSessionCreated, PromptTypeOK, Sessions
    <2> QED  BY <1>2, <1>t, <2>3, QuietPromptStep DEF CompactSessionCreated
  <1>3. CASE CompactFindsLost
    <2>1. compact' \in Compact
      BY <1>3, <1>p, Blanks DEF CompactFindsLost, Compact
    <2>3. PromptTypeOK'
      BY <1>3, <1>t, <2>1 DEF CompactFindsLost, PromptTypeOK, Sessions
    <2> QED  BY <1>3, <1>t, <2>3, QuietPromptStep DEF CompactFindsLost
  <1>4. CASE CompactFails
    <2>3. PromptTypeOK'
      BY <1>4, <1>t, Blanks DEF CompactFails, PromptTypeOK, Sessions
    <2> QED  BY <1>4, <1>t, <2>3, QuietPromptStep DEF CompactFails
  <1> QED  BY <1>1, <1>2, <1>3, <1>4

\* A note emptied is well formed, and no prompt is disturbed by it.
LEMMA EmptiedNotes ==
    ASSUME Delivery, NEW s \in Sessions, NEW n \in Note, n.keys = {},
           note' = [note EXCEPT ![s] = n]
    PROVE  note' \in [Sessions -> Note] /\ Forced' /\ \A r \in Sessions :
               note[r].keys = {} => note'[r].keys = {}
  <1>1. note'[s] = n /\ \A r \in Sessions : r # s => note'[r] = note[r]
    BY PromptTypes DEF Delivery
  <1>2. note' \in [Sessions -> Note]
    BY PromptTypes DEF Delivery
  <1> QED  BY <1>1, <1>2 DEF Delivery, Forced

LEMMA BuildBareStep ==
    ASSUME Delivery, BuildBare
    PROVE  Delivery'
  <1> USE DEF external
  <1>t. PromptTypeOK /\ PromptShape /\ Covered /\ Forced /\ prompt \in Prompt
    BY PromptTypes DEF Delivery
  <1>1. /\ prompt.at = "searching" /\ prompt'.at = "sending" /\ prompt'.session = prompt.session
        /\ prompt.session \in Sessions /\ prompt' \in Prompt
        /\ ~prompt'.retried /\ prompt'.found = {} /\ prompt'.chosen = {}
    BY <1>t DEF BuildBare, PromptShape, Prompt, Stages
  <1>2. PromptShape' /\ RetriedBare' /\ FoundKnown'
    BY <1>1 DEF PromptShape, RetriedBare, FoundKnown, Sessions
  <1>3. \A r \in Sessions : Way(r) \subseteq Way(r)'
    BY <1>1 DEF Way
  <1>4. CASE Clears(prompt.session)
    <2>1. note' \in [Sessions -> Note] /\ Forced'
      BY <1>1, <1>4, Blanks, EmptiedNotes DEF Clears
    <2>2. Covered'
      BY <1>t, <1>1, <1>3, <1>4, Blanks, CoveredEmptied DEF Clears, Empty, BuildBare
    <2>3. PromptTypeOK'
      BY <1>t, <1>1, <1>4, <2>1 DEF PromptTypeOK, BuildBare, Clears, Sessions
    <2> QED  BY <1>2, <2>1, <2>2, <2>3 DEF Delivery
  <1>5. CASE UNCHANGED <<note, adrift>>
    <2>1. \A s \in Sessions : Trusted(s)' => Trusted(s)
      BY <1>5 DEF Trusted, BuildBare
    <2>2. Covered'
      BY <1>t, <1>3, <1>5, <2>1, CoveredKept DEF BuildBare
    <2>3. PromptTypeOK' /\ Forced'
      BY <1>t, <1>1, <1>5 DEF PromptTypeOK, Forced, BuildBare, Sessions
    <2> QED  BY <1>2, <2>2, <2>3 DEF Delivery
  <1> QED  BY <1>4, <1>5 DEF BuildBare

\* The note of a session is cleared, or marked after a compaction.
LEMMA EmptyingActions ==
    ASSUME Delivery,
           \/ \E s \in Sessions : NotePruned(s)
           \/ \E s \in announcedCompact : CompactedEvent(s)
           \/ CompactAnswered /\ compact.session \in Sessions
    PROVE  Delivery'
  <1> USE DEF external
  <1>t. PromptTypeOK /\ PromptShape /\ Covered /\ RetriedBare /\ FoundKnown
    BY DEF Delivery
  <1>u. UNCHANGED <<bound, made, prompt, context, lost, prompts, upsets>> /\ compact' \in Compact
    BY <1>t, PromptTypes, Blanks DEF NotePruned, CompactedEvent, CompactAnswered
  <1>1. PICK s \in Sessions, n \in Note :
            /\ n.keys = {} /\ Empty(n)
            /\ note' = [note EXCEPT ![s] = n] /\ adrift' = adrift \ {s}
            /\ announcedCompact' = announcedCompact \/ announcedCompact' = announcedCompact \ {s}
    <2>1. CASE \E s \in Sessions : NotePruned(s)
      BY <2>1, Blanks DEF NotePruned, Clears, Empty
    <2>2. CASE \E s \in announcedCompact : CompactedEvent(s)
      <3>1. PICK s \in announcedCompact : CompactedEvent(s)
        BY <2>2
      <3>2. s \in Sessions /\ note[s] \in Note
        BY <1>t, PromptTypes
      <3> QED  BY <3>1, <3>2, NoteFields DEF CompactedEvent, Marks, Empty
    <2>3. CASE CompactAnswered /\ compact.session \in Sessions
      <3>2. note[compact.session] \in Note
        BY <1>t, <2>3, PromptTypes
      <3> QED  BY <2>3, <3>2, NoteFields DEF CompactAnswered, Marks, Empty
    <2> QED  BY <2>1, <2>2, <2>3
  <1>2. note' \in [Sessions -> Note] /\ Forced'
        /\ \A r \in Sessions : note[r].keys = {} => note'[r].keys = {}
    BY <1>1, EmptiedNotes
  <1>3. Covered'
    <2>1. \A r \in Sessions : Way(r) \subseteq Way(r)'
      BY <1>u DEF Way, Payload
    <2> QED  BY <1>t, <1>u, <1>1, <2>1, CoveredEmptied
  <1>4. PromptTypeOK'
    BY <1>t, <1>u, <1>1, <1>2 DEF PromptTypeOK, Sessions
  <1>5. PromptShape' /\ FoundKnown'
    BY <1>t, <1>u DEF PromptShape, FoundKnown, Sessions
  <1>6. RetriedBare'
    <2>1. ASSUME prompt.at = "sending", prompt.retried, prompt.session \notin adrift'
          PROVE  note'[prompt.session].keys = {}
      <3>1. prompt.session \in Sessions
        BY <1>t, <2>1 DEF PromptShape
      <3>2. CASE prompt.session = s
        BY <1>t, <1>1, <3>1, <3>2, PromptTypes
      <3>3. CASE prompt.session # s
        <4>1. note[prompt.session].keys = {}
          BY <1>t, <1>1, <2>1, <3>3 DEF RetriedBare
        <4> QED  BY <1>2, <3>1, <4>1
      <3> QED  BY <3>2, <3>3
    <2> QED  BY <1>u, <2>1 DEF RetriedBare
  <1> QED  BY <1>2, <1>3, <1>4, <1>5, <1>6 DEF Delivery

\* OpenCode loses a session, or the report of its compaction is lost.
LEMMA LosingActions ==
    ASSUME Delivery, NEW s \in Sessions, OpencodeLoses(s) \/ CompactedEventLost(s)
    PROVE  Delivery'
  <1>t. PromptTypeOK /\ PromptShape /\ Covered /\ RetriedBare /\ FoundKnown /\ Forced
    BY DEF Delivery
  <1>u. UNCHANGED <<bound, made, note, prompt, compact, context, prompts>>
    BY DEF OpencodeLoses, CompactedEventLost
  <1>1. lost \subseteq lost' /\ adrift \subseteq adrift'
        /\ announcedCompact \cup adrift \subseteq announcedCompact' \cup adrift'
    BY DEF OpencodeLoses, CompactedEventLost
  <1>2. Covered'
    <2>1. \A r \in Sessions : Trusted(r)' => Trusted(r)
      BY <1>1 DEF Trusted
    <2>2. \A r \in Sessions : Way(r)' = Way(r)
      BY <1>u DEF Way, Payload
    <2> QED  BY <1>t, <1>u, <2>1, <2>2, CoveredKept
  <1>3. upsets' \in 0 .. MaxUpsets
    BY <1>t, PromptTypes DEF OpencodeLoses, CompactedEventLost
  <1>4. PromptTypeOK'
    BY <1>t, <1>u, <1>3 DEF PromptTypeOK, Sessions, OpencodeLoses, CompactedEventLost
  <1>5. PromptShape' /\ FoundKnown' /\ RetriedBare' /\ Forced'
    BY <1>t, <1>u, <1>1 DEF PromptShape, FoundKnown, RetriedBare, Forced, Sessions
  <1> QED  BY <1>2, <1>4, <1>5 DEF Delivery

\* OpenCode compacts a session: its report is under way.
LEMMA OpencodeCompactsStep ==
    ASSUME Delivery, NEW s \in Sessions, OpencodeCompacts(s)
    PROVE  Delivery'
  <1>t. PromptTypeOK /\ PromptShape /\ Covered /\ RetriedBare /\ FoundKnown /\ Forced
        /\ prompt \in Prompt
    BY PromptTypes DEF Delivery
  <1>u. UNCHANGED <<bound, made, note, lost, prompts, adrift>>
    BY DEF OpencodeCompacts
  <1>1. /\ prompt' \in Prompt
        /\ prompt'.at = prompt.at /\ prompt'.session = prompt.session
        /\ prompt'.found = prompt.found /\ prompt'.parts = prompt.parts
        /\ prompt'.chosen = prompt.chosen /\ prompt'.retried = prompt.retried
        /\ prompt.session = s => prompt'.stale
        /\ prompt.session # s => prompt'.stale = prompt.stale
    BY <1>t DEF OpencodeCompacts, Prompt
  <1>2. \A r \in Sessions : r # s => context'[r] = context[r]
    BY <1>t, PromptTypes DEF OpencodeCompacts
  <1>3. Covered'
    <2>1. \A r \in Sessions : Trusted(r)' => Trusted(r) /\ r # s
      BY <1>u DEF Trusted, OpencodeCompacts
    <2>2. \A r \in Sessions : Way(r)' = Way(r)
      BY <1>1 DEF Way, Payload
    <2> QED  BY <1>t, <1>u, <1>2, <2>1, <2>2, CoveredKept
  <1>4. PromptTypeOK'
    <2>1. context' \in [Sessions -> SUBSET Memories]
      BY <1>t, PromptTypes DEF OpencodeCompacts
    <2>2. compact' \in Compact
      BY <1>t, PromptTypes DEF OpencodeCompacts, Compact
    <2>3. upsets' \in 0 .. MaxUpsets
      BY <1>t, PromptTypes DEF OpencodeCompacts
    <2>4. announcedCompact' \subseteq Sessions
      BY <1>t, PromptTypes DEF OpencodeCompacts
    <2> QED  BY <1>t, <1>u, <1>1, <2>1, <2>2, <2>3, <2>4 DEF PromptTypeOK, Sessions
  <1>5. PromptShape' /\ RetriedBare' /\ Forced'
    BY <1>t, <1>u, <1>1 DEF PromptShape, RetriedBare, Forced, Sessions
  <1>6. FoundKnown'
    BY <1>t, <1>u, <1>1, <1>2 DEF FoundKnown, PromptShape
  <1> QED  BY <1>3, <1>4, <1>5, <1>6 DEF Delivery

\* compactSession is answered; without a session there is nothing to mark.
LEMMA CompactAnsweredStep ==
    ASSUME Delivery, CompactAnswered
    PROVE  Delivery'
  <1>1. CASE compact.session \in Sessions
    BY <1>1, EmptyingActions
  <1>2. CASE compact.session \notin Sessions
    <2>t. PromptTypeOK /\ PromptShape /\ PromptShape'
      BY DEF Delivery, PromptShape, CompactAnswered, Sessions
    <2>1. note' = note /\ adrift' = adrift
      BY <1>2, <2>t, PromptTypes DEF CompactAnswered, Marks
    <2>2. PromptTypeOK'
      BY <2>t, <2>1, Blanks DEF PromptTypeOK, CompactAnswered, external, Sessions
    <2> QED  BY <2>t, <2>1, <2>2, QuietPromptStep DEF CompactAnswered, external
  <1> QED  BY <1>1, <1>2

\* What the choice of the memories rests on: those left out of the prompt are in
\* the keys of the note, or are the ones injected last.
LEMMA Choice ==
    ASSUME NEW n \in Note, n.force => n.keys = {}, NEW relevant \in SUBSET Memories, relevant # {},
           NEW dedupe \in BOOLEAN, NEW fallback \in BOOLEAN,
           NEW c \in Candidates(n, relevant, dedupe, fallback)
    PROVE  /\ c \subseteq relevant
           /\ ~Injects(n, relevant, c, dedupe) => ~n.force
           /\ ~Injects(n, relevant, c, dedupe) => relevant \subseteq n.keys \cup n.print
           /\ Injects(n, relevant, c, dedupe) => relevant \subseteq n.keys \cup c
  <1>1. CASE ~dedupe
    BY <1>1 DEF Candidates, Injects
  <1>2. CASE dedupe /\ relevant \ n.keys # {}
    BY <1>2 DEF Candidates, Injects
  <1>3. CASE dedupe /\ relevant \subseteq n.keys
    BY <1>3 DEF Candidates, Injects
  <1> QED  BY <1>1, <1>2, <1>3

LEMMA NotedFields ==
    ASSUME NEW n \in Note, NEW c \in SUBSET Memories, NEW injects \in BOOLEAN
    PROVE  /\ Noted(n, c, injects) \in Note
           /\ ~Noted(n, c, injects).force
           /\ injects => Noted(n, c, injects).print = c /\ Noted(n, c, injects).keys = n.keys \cup c
           /\ ~injects => Noted(n, c, injects).print = n.print /\ Noted(n, c, injects).keys = n.keys
  <1>1. n.print \subseteq Memories /\ n.keys \subseteq Memories
    BY NoteFields
  <1>2. CASE injects
    BY <1>1, <1>2 DEF Noted, Note
  <1>3. CASE ~injects
    BY <1>1, <1>3 DEF Noted, Note
  <1> QED  BY <1>2, <1>3

LEMMA BuildWithMemoriesStep ==
    ASSUME Delivery, BuildWithMemories
    PROVE  Delivery'
  <1> USE DEF external, history
  <1>t. PromptTypeOK /\ PromptShape /\ Covered /\ Forced /\ prompt \in Prompt
    BY PromptTypes DEF Delivery
  <1>0. PICK s \in Sessions : s = prompt.session /\ prompt.at = "searching" /\ ~prompt.retried
    BY <1>t DEF BuildWithMemories, PromptShape
  <1>1. PICK n \in Note : n = note[s] /\ (n.force => n.keys = {})
    BY <1>t, PromptTypes DEF Forced
  <1>2. PICK relevant \in (SUBSET Memories) \ {{}}, dedupe \in BOOLEAN, fallback \in BOOLEAN :
        \E c \in Candidates(note[prompt.session], relevant, dedupe, fallback) :
            /\ note' = [note EXCEPT ![prompt.session] = Noted(note[prompt.session], c, Injects(note[prompt.session], relevant, c, dedupe))]
            /\ prompt' = [prompt EXCEPT
                    !.at = "sending",
                    !.parts = IF Injects(note[prompt.session], relevant, c, dedupe) THEN c ELSE {},
                    !.found = relevant,
                    !.chosen = c,
                    !.stale = prompt.session \in announcedCompact \cup adrift]
    BY DEF BuildWithMemories
  <1>3. PICK c \in Candidates(n, relevant, dedupe, fallback) :
            /\ note' = [note EXCEPT ![s] = Noted(n, c, Injects(n, relevant, c, dedupe))]
            /\ prompt' = [prompt EXCEPT
                    !.at = "sending",
                    !.parts = IF Injects(n, relevant, c, dedupe) THEN c ELSE {},
                    !.found = relevant,
                    !.chosen = c,
                    !.stale = s \in announcedCompact \cup adrift]
    BY <1>0, <1>1, <1>2
  <1>4. PICK injects \in BOOLEAN : injects = Injects(n, relevant, c, dedupe)
    BY DEF Injects
  <1>5. /\ c \subseteq relevant
        /\ ~injects => ~n.force /\ relevant \subseteq n.keys \cup n.print
        /\ injects => relevant \subseteq n.keys \cup c
    BY <1>1, <1>4, Choice
  <1>p. PICK parts \in SUBSET Memories : parts = IF injects THEN c ELSE {}
    BY <1>5
  <1>s. PICK stale \in BOOLEAN : stale = (s \in announcedCompact \cup adrift)
    <2>1. (s \in announcedCompact \cup adrift) \in BOOLEAN
      OBVIOUS
    <2> QED  BY <2>1, Zenon
  <1>6. prompt' = [prompt EXCEPT !.at = "sending", !.parts = parts, !.found = relevant,
                                 !.chosen = c, !.stale = stale]
    BY <1>3, <1>4, <1>p, <1>s
  <1>7. /\ prompt' \in Prompt /\ prompt'.at = "sending" /\ prompt'.session = s
        /\ prompt'.found = relevant /\ prompt'.chosen = c /\ prompt'.parts = parts
        /\ prompt'.retried = prompt.retried /\ prompt'.stale = stale
    <2>1. c \subseteq Memories
      BY <1>5
    <2> QED  BY <1>t, <1>0, <1>6, <2>1 DEF Prompt, Stages
  <1>8. PICK m \in Note : /\ m = Noted(n, c, injects)
                          /\ ~m.force
                          /\ injects => m.print = c /\ m.keys = n.keys \cup c
                          /\ ~injects => m.print = n.print /\ m.keys = n.keys
    <2>1. c \in SUBSET Memories
      BY <1>5
    <2>2. Noted(n, c, injects) \in Note
      BY <2>1, NotedFields
    <2> QED  BY <2>1, <2>2, NotedFields
  <1>9. /\ note' \in [Sessions -> Note] /\ note'[s] = m
        /\ \A r \in Sessions : r # s => note'[r] = note[r]
    BY <1>t, <1>3, <1>4, <1>8, PromptTypes
  <1>u. UNCHANGED <<bound, made, compact, context, lost, announcedCompact, prompts, upsets, adrift>>
    BY DEF BuildWithMemories
  <1>10. PromptTypeOK'
    BY <1>t, <1>u, <1>7, <1>9 DEF PromptTypeOK, Sessions
  <1>11. PromptShape' /\ RetriedBare' /\ Forced'
    BY <1>t, <1>0, <1>5, <1>7, <1>8, <1>9 DEF PromptShape, RetriedBare, Forced, Sessions
  <1>12. Way(s)' = parts /\ Way(s) = {} /\ \A r \in Sessions : r # s => Way(r) = {}
    BY <1>0, <1>7 DEF Way, Payload
  <1>13. Trusted(s) => n.keys \subseteq context[s] /\ (~n.force => n.print \subseteq context[s])
    BY <1>t, <1>1, <1>12 DEF Covered, ClaimsKnown
  <1>14. Covered'
    <2>1. ASSUME NEW r \in Sessions, Trusted(r)', r # s
          PROVE  ClaimsKnown(note'[r], context'[r] \cup Way(r)')
      <3>1. Trusted(r) /\ note'[r] = note[r] /\ context'[r] = context[r] /\ Way(r) = {}
        BY <1>u, <1>9, <1>12, <2>1 DEF Trusted
      <3> QED  BY <1>t, <3>1 DEF Covered, ClaimsKnown
    <2>2. ASSUME Trusted(s)'
          PROVE  ClaimsKnown(m, context'[s] \cup parts)
      <3>1. Trusted(s) /\ context'[s] = context[s]
        BY <1>u, <2>2 DEF Trusted
      <3>2. CASE injects
        BY <1>p, <1>8, <1>13, <3>1, <3>2 DEF ClaimsKnown
      <3>3. CASE ~injects
        BY <1>5, <1>8, <1>13, <3>1, <3>3 DEF ClaimsKnown
      <3> QED  BY <3>2, <3>3
    <2> QED  BY <1>9, <1>12, <2>1, <2>2 DEF Covered
  <1>15. FoundKnown'
    <2>1. ASSUME ~stale, s \notin lost
          PROVE  relevant \subseteq context[s] \cup parts
      <3>1. Trusted(s)
        BY <1>s, <2>1 DEF Trusted
      <3>2. CASE injects
        BY <1>5, <1>p, <1>13, <3>1, <3>2
      <3>3. CASE ~injects
        BY <1>5, <1>13, <3>1, <3>3
      <3> QED  BY <3>2, <3>3
    <2> QED  BY <1>u, <1>7, <2>1 DEF FoundKnown
  <1> QED  BY <1>10, <1>11, <1>14, <1>15 DEF Delivery

\* The prompt is answered: what it carried is known to the session.
LEMMA AnsweredStep ==
    ASSUME Delivery, Answered
    PROVE  Delivery'
  <1> USE DEF external, history
  <1>t. PromptTypeOK /\ PromptShape /\ Covered /\ Forced
    BY DEF Delivery
  <1>1. prompt' \in Prompt /\ prompt'.at = "answered"
        /\ prompt'.found = NoPrompt.found /\ prompt'.chosen = NoPrompt.chosen
    BY Blanks DEF Answered, Prompt, Stages
  <1>2. prompt.session \in Sessions /\ context' \in [Sessions -> SUBSET Memories]
        /\ \A r \in Sessions : context[r] \cup Way(r) \subseteq context'[r]
    BY <1>t, PromptTypes, PayloadTypes DEF Answered, PromptShape, Way
  <1>3. Covered'
    <2>1. \A r \in Sessions : Trusted(r)' => Trusted(r)
      BY DEF Trusted, Answered
    <2> QED  BY <1>t, <1>2, <2>1, CoveredKept DEF Answered
  <1>4. PromptTypeOK' /\ Forced'
    BY <1>t, <1>1, <1>2 DEF PromptTypeOK, Forced, Sessions, Answered
  <1>5. PromptShape' /\ RetriedBare' /\ FoundKnown'
    BY <1>1, Blanks DEF PromptShape, RetriedBare, FoundKnown
  <1> QED  BY <1>3, <1>4, <1>5 DEF Delivery

\* The lost session of the prompt is replaced: the note of the new one claims
\* what the next attempt carries, or the session is adrift.
LEMMA RecreatedStep ==
    ASSUME Delivery, Recreated
    PROVE  Delivery'
  <1> USE DEF external
  <1>t. PromptTypeOK /\ PromptShape /\ Covered /\ Forced /\ prompt \in Prompt
    BY PromptTypes DEF Delivery
  <1>0. PICK new \in Sessions : new = made + 1 /\ made' \in 0 .. MaxSessions
                                /\ bound' \in 0 .. MaxSessions
    BY <1>t, Creates DEF Recreated
  <1>1. /\ prompt.at = "recreating" /\ prompt.session \in Sessions
        /\ prompt.chosen \subseteq prompt.found
    BY <1>t DEF Recreated, PromptShape
  <1>2. PICK old \in Note : old = note[prompt.session] /\ (old.force => old.keys = {})
    BY <1>t, <1>1, PromptTypes DEF Forced
  <1>3. PICK m \in Note :
            /\ note' = [note EXCEPT ![new] = m]
            /\ m.keys = old.keys /\ (m.force => m.keys = {})
            /\ m.print = prompt.chosen \/ (m = old /\ prompt.chosen = {})
    <2>1. prompt.chosen \subseteq Memories /\ old.keys \subseteq Memories
      BY <1>t, PromptFields, NoteFields
    <2>2. CASE prompt.chosen # {}
      <3>1. PICK m \in Note : m = [there |-> TRUE, print |-> prompt.chosen, force |-> FALSE,
                                   keys |-> old.keys]
        BY <2>1 DEF Note
      <3>2. m.keys = old.keys /\ ~m.force /\ m.print = prompt.chosen
        BY <3>1
      <3>3. note' = [note EXCEPT ![new] = m]
        BY <1>0, <1>2, <2>2, <3>1 DEF Recreated
      <3> QED  BY <3>2, <3>3
    <2>3. CASE prompt.chosen = {}
      <3>1. note' = [note EXCEPT ![new] = old]
        BY <1>0, <1>2, <2>3 DEF Recreated
      <3> QED  BY <1>2, <2>3, <3>1
    <2> QED  BY <2>2, <2>3
  <1>4. /\ adrift \subseteq adrift' /\ adrift' \subseteq Sessions
        /\ new \notin adrift' => old.keys = {} /\ (prompt.chosen = {} => old.print = {})
    <2>1. CASE old.keys # {} \/ (prompt.chosen = {} /\ old.print # {})
      <3>1. adrift' = adrift \cup {new}
        BY <1>0, <1>2, <2>1 DEF Recreated
      <3> QED  BY <1>t, <3>1, PromptTypes
    <2>2. CASE old.keys = {} /\ (prompt.chosen = {} => old.print = {})
      <3>1. adrift' = adrift
        BY <1>0, <1>2, <2>2 DEF Recreated
      <3> QED  BY <1>t, <2>2, <3>1, PromptTypes
    <2> QED  BY <2>1, <2>2
  <1>5. /\ note' \in [Sessions -> Note] /\ note'[new] = m
        /\ \A r \in Sessions : r # new => note'[r] = note[r]
    BY <1>t, <1>3, PromptTypes
  <1>6. /\ prompt' \in Prompt /\ prompt'.at = "sending" /\ prompt'.session = new
        /\ prompt'.retried /\ prompt'.found = prompt.found /\ prompt'.chosen = prompt.chosen
    <2>1. new \in 0 .. MaxSessions
      BY <1>t, PromptTypes
    <2>2. prompt' = [prompt EXCEPT !.at = "sending", !.session = new,
                                   !.retried = TRUE, !.agent = "given"]
      BY <1>0 DEF Recreated
    <2> QED  BY <1>t, <2>1, <2>2 DEF Prompt, Stages
  <1>u. UNCHANGED <<compact, context, lost, announcedCompact, prompts, upsets>>
    BY DEF Recreated
  <1>7. PromptTypeOK'
    BY <1>t, <1>0, <1>u, <1>4, <1>5, <1>6 DEF PromptTypeOK, Sessions
  <1>8. PromptShape' /\ FoundKnown' /\ RetriedBare'
    BY <1>1, <1>3, <1>4, <1>5, <1>6 DEF PromptShape, FoundKnown, RetriedBare, Sessions
  <1>9. Forced'
    BY <1>t, <1>3, <1>5 DEF Forced
  <1>10. Covered'
    <2>1. Way(new)' = prompt.found /\ \A r \in Sessions : Way(r) = {}
      BY <1>1, <1>6 DEF Way, Payload
    <2>2. ASSUME NEW r \in Sessions, Trusted(r)', r # new
          PROVE  ClaimsKnown(note'[r], context'[r] \cup Way(r)')
      <3>1. Trusted(r) /\ note'[r] = note[r] /\ context'[r] = context[r] /\ Way(r) = {}
        BY <1>u, <1>4, <1>5, <2>1, <2>2 DEF Trusted
      <3> QED  BY <1>t, <3>1 DEF Covered, ClaimsKnown
    <2>3. ASSUME Trusted(new)'
          PROVE  ClaimsKnown(m, context'[new] \cup prompt.found)
      <3>1. old.keys = {} /\ (prompt.chosen = {} => old.print = {})
        BY <1>4, <2>3 DEF Trusted
      <3>2. m.keys = {} /\ m.print \subseteq prompt.found
        BY <1>1, <1>3, <3>1
      <3> QED  BY <3>2 DEF ClaimsKnown
    <2> QED  BY <1>5, <2>1, <2>2, <2>3 DEF Covered
  <1> QED  BY <1>7, <1>8, <1>9, <1>10 DEF Delivery

\* A model fails: what a retried attempt carried is not carried by the next.
LEMMA ModelFailsStep ==
    ASSUME Delivery, ModelFails
    PROVE  Delivery'
  <1>t. PromptTypeOK /\ PromptShape /\ Covered /\ Forced /\ FoundKnown /\ prompt \in Prompt
    BY PromptTypes DEF Delivery
  <1>1. /\ prompt.at = "sending" /\ prompt.session \in Sessions
        /\ prompt.retried \in BOOLEAN /\ prompt.stale \in BOOLEAN /\ prompt.session \notin lost
    BY <1>t, PromptFields DEF ModelFails, PromptShape
  <1>2. PICK taken \in BOOLEAN :
           /\ context' = [context EXCEPT ![prompt.session] = @ \cup (IF taken THEN Payload ELSE {})]
           /\ adrift' = IF prompt.retried /\ ~taken THEN adrift \cup {prompt.session} ELSE adrift
    BY DEF ModelFails
  <1>3. /\ context' \in [Sessions -> SUBSET Memories]
        /\ \A r \in Sessions : context[r] \subseteq context'[r]
        /\ taken => context[prompt.session] \cup Payload \subseteq context'[prompt.session]
    BY <1>t, <1>1, <1>2, PromptTypes, PayloadTypes
  <1>4. /\ adrift \subseteq adrift' /\ adrift' \subseteq Sessions
        /\ prompt.retried /\ ~taken => prompt.session \in adrift'
    BY <1>t, <1>1, <1>2, PromptTypes
  <1>5. PICK stale \in BOOLEAN : stale = (prompt.stale \/ prompt.retried)
    BY <1>1
  <1>6. /\ prompt' \in Prompt /\ prompt'.at = "sending" /\ prompt'.session = prompt.session
        /\ ~prompt'.retried /\ prompt'.found = prompt.found /\ prompt'.chosen = prompt.chosen
        /\ prompt'.parts = prompt.parts /\ prompt'.stale = stale
    <2>1. PICK next \in 1 .. Models : next = prompt.model + 1
      BY <1>t, PromptFields, PromptAssumption DEF ModelFails
    <2>2. prompt' = [prompt EXCEPT !.model = next, !.agent = "given", !.retried = FALSE,
                                   !.stale = stale]
      BY <1>5, <2>1 DEF ModelFails
    <2> QED  BY <1>t, <1>1, <2>1, <2>2 DEF Prompt, Stages
  <1>u. UNCHANGED <<bound, made, note, compact, lost, announcedCompact, prompts, upsets>>
    BY DEF ModelFails
  <1>7. PromptTypeOK' /\ Forced'
    BY <1>t, <1>u, <1>3, <1>4, <1>6 DEF PromptTypeOK, Forced, Sessions
  <1>8. PromptShape' /\ RetriedBare'
    BY <1>t, <1>1, <1>6 DEF PromptShape, RetriedBare, Sessions
  <1>9. FoundKnown'
    <2>1. ~stale => ~prompt.stale /\ ~prompt.retried
      BY <1>5
    <2> QED  BY <1>t, <1>u, <1>1, <1>3, <1>6, <2>1 DEF FoundKnown
  <1>10. Covered'
    <2>1. ASSUME NEW r \in Sessions, Trusted(r)'
          PROVE  Trusted(r) /\ context[r] \cup Way(r) \subseteq context'[r] \cup Way(r)'
      <3>1. Trusted(r)
        BY <1>u, <1>4, <2>1 DEF Trusted
      <3>2. CASE r # prompt.session
        BY <1>3, <1>6, <3>1, <3>2 DEF Way
      <3>3. CASE r = prompt.session /\ ~prompt.retried
        <4>1. Way(r) = prompt.parts /\ Way(r)' = prompt.parts
          BY <1>1, <1>6, <3>3 DEF Way, Payload
        <4> QED  BY <1>3, <3>1, <4>1
      <3>4. CASE r = prompt.session /\ prompt.retried
        <4>1. taken
          BY <1>4, <2>1, <3>4 DEF Trusted
        <4>2. Way(r) = Payload
          BY <1>1, <3>4 DEF Way
        <4> QED  BY <1>3, <3>1, <3>4, <4>1, <4>2
      <3> QED  BY <1>1, <3>2, <3>3, <3>4
    <2> QED  BY <1>t, <1>u, <2>1, CoveredKept
  <1> QED  BY <1>7, <1>8, <1>9, <1>10 DEF Delivery

\* The prompt fails: its session is adrift.
LEMMA PromptFailsStep ==
    ASSUME Delivery, PromptFails
    PROVE  Delivery'
  <1>t. PromptTypeOK /\ PromptShape /\ Covered /\ Forced /\ prompt \in Prompt
    BY PromptTypes DEF Delivery
  <1>1. prompt' = NoPrompt
    BY DEF PromptFails
  <1>2. prompt.at # "creating" => prompt.session \in Sessions
    BY <1>t DEF PromptFails, PromptShape
  <1>3. /\ context' \in [Sessions -> SUBSET Memories]
        /\ \A r \in Sessions : context[r] \subseteq context'[r]
    <2>1. PICK taken \in BOOLEAN :
              context' = IF taken /\ prompt.at = "sending" /\ prompt.session \notin lost
                         THEN [context EXCEPT ![prompt.session] = @ \cup Payload]
                         ELSE context
      BY DEF PromptFails
    <2>2. CASE taken /\ prompt.at = "sending" /\ prompt.session \notin lost
      BY <1>t, <1>2, <2>1, <2>2, PromptTypes, PayloadTypes
    <2>3. CASE ~(taken /\ prompt.at = "sending" /\ prompt.session \notin lost)
      BY <1>t, <2>1, <2>3, PromptTypes
    <2> QED  BY <2>2, <2>3
  <1>4. /\ adrift \subseteq adrift' /\ adrift' \subseteq Sessions
        /\ prompt.at = "sending" => prompt.session \in adrift'
    BY <1>t, <1>2, PromptTypes DEF PromptFails
  <1>u. UNCHANGED <<bound, made, note, compact, lost, announcedCompact, prompts, upsets>>
    BY DEF PromptFails
  <1>5. PromptTypeOK' /\ Forced'
    BY <1>t, <1>u, <1>1, <1>3, <1>4, Blanks DEF PromptTypeOK, Forced, Sessions
  <1>6. PromptShape' /\ RetriedBare' /\ FoundKnown'
    BY <1>1, Blanks DEF PromptShape, RetriedBare, FoundKnown
  <1>7. Covered'
    <2>1. ASSUME NEW r \in Sessions, Trusted(r)'
          PROVE  Trusted(r) /\ Way(r) = {}
      BY <1>u, <1>4, <2>1 DEF Trusted, Way
    <2> QED  BY <1>t, <1>u, <1>3, <2>1, CoveredKept
  <1> QED  BY <1>5, <1>6, <1>7 DEF Delivery

-------------------------------------------------------------------------------
(* Prompts: the theorems.                                                  *)

LEMMA DeliveryHolds == PromptSpec => []Delivery
  <1>1. PromptInit => Delivery
    <2>1. ASSUME PromptInit
          PROVE  Delivery
      <3>1. PromptTypeOK
        <4>1. 0 \in 0 .. MaxSessions /\ 0 \in 0 .. MaxPrompts /\ 0 \in 0 .. MaxUpsets
          BY PromptAssumption
        <4> QED  BY <2>1, <4>1, Blanks DEF PromptInit, PromptTypeOK
      <3>2. \A s \in Sessions : note[s] = NoNote
        BY <2>1 DEF PromptInit
      <3>3. prompt.at = "idle" /\ ~prompt.retried /\ prompt.found = {}
            /\ prompt.chosen = {} /\ prompt.parts = {}
        BY <2>1, Blanks DEF PromptInit
      <3>4. Covered /\ Forced
        BY <3>2, Blanks DEF Covered, Forced, ClaimsKnown, NoNote
      <3>5. PromptShape /\ RetriedBare /\ FoundKnown
        BY <3>3 DEF PromptShape, RetriedBare, FoundKnown
      <3> QED  BY <3>1, <3>4, <3>5 DEF Delivery
    <2> QED  BY <2>1
  <1>2. Delivery /\ [PromptNext]_promptVars => Delivery'
    <2> SUFFICES ASSUME Delivery, [PromptNext]_promptVars
                 PROVE  Delivery'
      OBVIOUS
    <2>1. CASE SendUserMessage \/ ResolvePrompt \/ PromptSessionCreated
               \/ PromptEnds \/ AgentRefused \/ SessionLost
      BY <2>1, QuietPromptActions
    <2>2. CASE CompactSession \/ CompactSessionCreated \/ CompactFindsLost \/ CompactFails
      BY <2>2, QuietCompactActions
    <2>3. CASE BuildBare
      BY <2>3, BuildBareStep
    <2>4. CASE BuildWithMemories
      BY <2>4, BuildWithMemoriesStep
    <2>5. CASE Answered
      BY <2>5, AnsweredStep
    <2>6. CASE Recreated
      BY <2>6, RecreatedStep
    <2>7. CASE ModelFails
      BY <2>7, ModelFailsStep
    <2>8. CASE PromptFails
      BY <2>8, PromptFailsStep
    <2>9. CASE CompactAnswered
      BY <2>9, CompactAnsweredStep
    <2>10. CASE \E s \in Sessions : OpencodeCompacts(s)
      BY <2>10, OpencodeCompactsStep
    <2>11. CASE \E s \in Sessions : OpencodeLoses(s)
      BY <2>11, LosingActions
    <2>12. CASE (\E s \in Sessions : NotePruned(s)) \/ \E s \in announcedCompact : CompactedEvent(s)
      BY <2>12, EmptyingActions
    <2>13. CASE \E s \in announcedCompact : CompactedEventLost(s)
      <3>1. announcedCompact \subseteq Sessions
        BY PromptTypes DEF Delivery
      <3> QED  BY <2>13, <3>1, LosingActions
    <2>14. CASE UNCHANGED promptVars
      <3>1. PromptTypeOK' /\ PromptShape'
        BY <2>14 DEF promptVars, Delivery, PromptTypeOK, PromptShape, Sessions
      <3> QED  BY <2>14, <3>1, QuietPromptStep DEF promptVars
    <2> QED  BY <2>1, <2>2, <2>3, <2>4, <2>5, <2>6, <2>7, <2>8, <2>9, <2>10, <2>11, <2>12,
                <2>13, <2>14 DEF PromptNext
  <1> QED  BY <1>1, <1>2, PTL DEF PromptSpec

\* What the note of a session claims to have been injected since the last
\* compaction is in the session's context or on its way there, whatever is lost,
\* replaced, compacted or fails in between (memoryMethods.ts).
THEOREM InjectionsAreKnown == PromptSpec => []InjectedIsKnown
  <1>1. Delivery => InjectedIsKnown
    BY DEF Delivery, InjectedIsKnown, Covered, ClaimsKnown, Trusted, Way
  <1> QED  BY <1>1, DeliveryHolds, PTL

\* A prompt that is answered has with it every memory its search found, unless it
\* is outdated, also after its session has been lost and replaced
\* (promptMethods.ts:387-477, memoryMethods.ts).
THEOREM AnswersKnowMemories == PromptSpec => AnswerKnowsMemories
  <1>1. Delivery /\ [PromptNext]_promptVars
        => [(prompt.at = "sending" /\ prompt'.at = "answered" /\ ~prompt.stale)
            => prompt.found \subseteq context'[prompt.session]]_promptVars
    <2> SUFFICES ASSUME Delivery, PromptNext,
                        prompt.at = "sending", prompt'.at = "answered", ~prompt.stale
                 PROVE  prompt.found \subseteq context'[prompt.session]
      OBVIOUS
    <2>t. PromptTypeOK /\ PromptShape /\ FoundKnown /\ prompt \in Prompt
      BY PromptTypes DEF Delivery
    <2>1. Answered
      <3>1. ~SendUserMessage /\ ~ResolvePrompt /\ ~PromptSessionCreated /\ ~BuildBare
            /\ ~BuildWithMemories /\ ~PromptEnds /\ ~Recreated
        BY DEF SendUserMessage, ResolvePrompt, PromptSessionCreated, BuildBare, BuildWithMemories,
               PromptEnds, Recreated
      <3>2. ~AgentRefused /\ ~SessionLost /\ ~ModelFails
        BY <2>t DEF AgentRefused, SessionLost, ModelFails, Prompt
      <3>3. ~PromptFails
        BY Blanks DEF PromptFails
      <3>4. ~CompactSession /\ ~CompactSessionCreated /\ ~CompactFindsLost /\ ~CompactAnswered
            /\ ~CompactFails
        BY DEF CompactSession, CompactSessionCreated, CompactFindsLost, CompactAnswered,
               CompactFails, external
      <3>5. \A s \in Sessions : ~OpencodeCompacts(s)
        BY <2>t DEF OpencodeCompacts, Prompt
      <3>6. \A s \in Sessions : ~OpencodeLoses(s) /\ ~NotePruned(s)
        BY DEF OpencodeLoses, NotePruned
      <3>7. \A s \in announcedCompact : ~CompactedEvent(s) /\ ~CompactedEventLost(s)
        BY DEF CompactedEvent, CompactedEventLost
      <3> QED  BY <3>1, <3>2, <3>3, <3>4, <3>5, <3>6, <3>7 DEF PromptNext
    <2>2. prompt.session \in Sessions /\ prompt.session \notin lost
          /\ context'[prompt.session] = context[prompt.session] \cup Payload
      BY <2>t, <2>1, PromptTypes DEF Answered, PromptShape
    <2>3. CASE prompt.retried
      BY <2>2, <2>3 DEF Payload
    <2>4. CASE ~prompt.retried
      BY <2>t, <2>2, <2>4 DEF FoundKnown, Payload
    <2> QED  BY <2>3, <2>4
  <1> QED  BY <1>1, DeliveryHolds, PTL DEF PromptSpec, AnswerKnowsMemories

-------------------------------------------------------------------------------
(* Messages: the invariant.                                                *)

\* A message has been counted unless the count is still to come or was lost.
CountedSoFar ==
    \A m \in FromAssistant :
        (usage[m] # Absent) <=> (stored[m] # Absent /\ m \notin uncounted \cup forgotten)

\* Nothing is read, written or stored of a turn before it has been asked for.
InPace ==
    /\ turn <= asked
    /\ progress <= asked * Span
    /\ \A f \in fetch : f.read <= progress
    /\ \A m \in Messages : stored[m] # Absent => m[1] <= asked

\* What a crash kept from being counted is stored, and of a turn before the one
\* that is awaited: no exchange will count it.
LeftBehind ==
    /\ uncounted \cap forgotten = {}
    /\ \A m \in uncounted \cup forgotten : stored[m] # Absent
    /\ \A m \in forgotten : turn # 0 => m[1] < turn

Mirrored ==
    MirrorTypeOK /\ CountedSoFar /\ count = Kept(stored) + notes /\ InPace /\ LeftBehind

-------------------------------------------------------------------------------
(* Messages: the operators.                                                *)

LEMMA Scaled ==
    ASSUME NEW a \in Nat, NEW b \in Nat, a <= b, NEW k \in Nat
    PROVE  a * k <= b * k
  OBVIOUS

LEMMA MirrorConstants ==
    /\ Steps \in Nat /\ Steps >= 1 /\ MaxTurns \in Nat /\ MaxFetches \in Nat /\ MaxAsides \in Nat
    /\ Span \in Nat \ {0}
  BY MirrorAssumption DEF Span

LEMMA MessageFields ==
    ASSUME NEW m \in Messages
    PROVE  /\ m[1] \in Turns /\ m[1] \in Nat /\ m[1] >= 1 /\ m[1] <= MaxTurns
           /\ m[2] \in Nat /\ m[2] <= Steps
  BY MirrorConstants DEF Messages, Turns

LEMMA AssistantMessages ==
    /\ FromAssistant \subseteq Messages
    /\ \A t \in Turns : /\ <<t, 0>> \in Messages /\ Answer(t) \in FromAssistant
                        /\ <<t, 0>> \notin FromAssistant /\ Answer(t)[1] = t
  BY MirrorConstants DEF FromAssistant, Messages, Answer

\* What OpenCode has written of a message, and that the turn has begun then.
LEMMA LevelOf ==
    ASSUME NEW p \in Nat, NEW m \in Messages
    PROVE  /\ Level(p, m) \in Levels
           /\ Level(p, m) # Absent => (m[1] - 1) * Span < p
  <1>1. m[1] \in Nat /\ m[1] >= 1 /\ m[2] \in Nat /\ Span \in Nat
    BY MessageFields, MirrorConstants
  <1>2. PICK before \in Int : before = (m[1] - 1) * Span
    BY <1>1
  <1>3. CASE m[2] = 0
    BY <1>2, <1>3 DEF Level, Levels, Absent, Complete
  <1>4. CASE m[2] # 0
    <2>1. PICK own \in Int : own = p - before - 1 - 3 * (m[2] - 1) /\ own <= p - before - 1
      BY <1>1, <1>4
    <2>2. Level(p, m) = IF own < Absent THEN Absent ELSE IF own > Complete THEN Complete ELSE own
      BY <1>2, <1>4, <2>1 DEF Level
    <2> QED  BY <1>2, <2>1, <2>2 DEF Levels, Absent, Complete
  <1> QED  BY <1>3, <1>4

LEMMA TimesOfMessages ==
    /\ \A m \in Messages : CreatedAt(m) \in Times
    /\ \A t \in Turns : CompletedAt(t) \in Times
  <1>1. PICK k \in Nat : k = Steps + 2
    BY MirrorConstants
  <1>2. (MaxTurns + 1) * k = MaxTurns * k + k
    BY MirrorConstants
  <1>3. ASSUME NEW t \in Nat, t <= MaxTurns
        PROVE  t * k \in Nat /\ t * k + k <= (MaxTurns + 1) * k
    <2>1. t * k \in Nat /\ MaxTurns * k \in Nat
      BY MirrorConstants
    <2>2. t * k <= MaxTurns * k
      BY <1>3, Scaled, MirrorConstants
    <2> QED  BY <1>2, <2>1, <2>2
  <1>4. ASSUME NEW m \in Messages
        PROVE  CreatedAt(m) \in Times
    <2>1. PICK i \in Nat, u \in Nat : i = m[2] /\ i < k /\ u = m[1] * k /\ u + k <= (MaxTurns + 1) * k
      BY <1>1, <1>3, MessageFields, MirrorConstants
    <2>2. CreatedAt(m) = u + i
      BY <1>1, <2>1 DEF CreatedAt
    <2>3. PICK top \in Int : top = (MaxTurns + 1) * k
      BY MirrorConstants
    <2> QED  BY <1>1, <2>1, <2>2, <2>3 DEF Times
  <1>5. ASSUME NEW t \in Turns
        PROVE  CompletedAt(t) \in Times
    <2>1. PICK u \in Nat : u = t * k /\ u + k <= (MaxTurns + 1) * k
      BY <1>3, MirrorConstants DEF Turns
    <2>2. CompletedAt(t) = u + (k - 1)
      BY <1>1, <2>1, MirrorConstants DEF CompletedAt
    <2>3. PICK top \in Int : top = (MaxTurns + 1) * k
      BY MirrorConstants
    <2> QED  BY <1>1, <2>1, <2>2, <2>3, MirrorConstants DEF Times
  <1> QED  BY <1>4, <1>5

LEMMA MessagesFinite ==
    /\ IsFiniteSet(Messages) /\ IsFiniteSet(FromAssistant)
    /\ \A r : Kept(r) \in Nat
  <1>1. IsFiniteSet(Turns) /\ IsFiniteSet(0 .. Steps)
    BY FS_Interval, MirrorConstants DEF Turns
  <1>2. IsFiniteSet(Messages)
    BY <1>1, FS_Product DEF Messages
  <1>3. IsFiniteSet(FromAssistant)
    BY <1>2, AssistantMessages, FS_Subset
  <1>4. ASSUME NEW r
        PROVE  Kept(r) \in Nat
    <2>1. IsFiniteSet({m \in Messages : r[m] # Absent})
      BY <1>2, FS_Subset
    <2> QED  BY <2>1, FS_CardinalityType DEF Kept
  <1> QED  BY <1>2, <1>3, <1>4

LEMMA SetToSeqTypes ==
    ASSUME NEW S, IsFiniteSet(S)
    PROVE  SetToSeq(S) \in Seq(S)
  <1>1. Cardinality(S) \in Nat /\ ExistsBijection(1 .. Cardinality(S), S)
    BY FS_CardinalityType
  <1>2. \E f \in [1 .. Cardinality(S) -> S] : IsInjective(f)
    BY <1>1 DEF ExistsBijection, Bijection, Injection, IsInjective
  <1>3. SetToSeq(S) \in [1 .. Cardinality(S) -> S]
    BY <1>2 DEF SetToSeq
  <1> QED  BY <1>1, <1>3

LEMMA EventFields ==
    ASSUME NEW e \in Event
    PROVE  /\ e.type = "idle" => e.of \in Turns
           /\ e.type # "idle" => e.of \in FromAssistant /\ e.of \in Messages
  BY AssistantMessages DEF Event

LEMMA EventsAreEvents ==
    ASSUME NEW p \in Nat, p >= 1, p <= MaxTurns * Span
    PROVE  EventsOf(p) \in Seq(Event)
  <1>1. ASSUME NEW touched \in SUBSET FromAssistant
        PROVE  SetToSeq({[type |-> "updated", of |-> m] : m \in touched}) \in Seq(Event)
    <2>1. PICK events : events = {[type |-> "updated", of |-> m] : m \in touched}
      OBVIOUS
    <2>2. events \subseteq Event
      BY <1>1, <2>1 DEF Event
    <2>3. IsFiniteSet(touched)
      BY <1>1, MessagesFinite, FS_Subset
    <2>4. IsFiniteSet(events)
      <3>1. PICK f : f = [m \in touched |-> [type |-> "updated", of |-> m]]
        OBVIOUS
      <3>2. f \in Surjection(touched, events)
        BY <2>1, <3>1 DEF Surjection
      <3> QED  BY <2>3, <3>2, FS_Surjection
    <2>5. SetToSeq(events) \in Seq(events)
      BY <2>4, SetToSeqTypes
    <2> QED  BY <2>1, <2>2, <2>5
  <1>2. ((p - 1) \div Span) + 1 \in Turns
    <2>1. PICK q \in Nat : q = p - 1
      OBVIOUS
    <2>2. q \div Span \in Nat
      BY MirrorConstants
    <2>3. q \div Span < MaxTurns
      <3>1. q < MaxTurns * Span
        BY <2>1, MirrorConstants
      <3> QED  BY <3>1, MirrorConstants
    <2> QED  BY <2>1, <2>2, <2>3, MirrorConstants DEF Turns
  <1>3. (IF p % Span = 0 THEN <<[type |-> "idle", of |-> ((p - 1) \div Span) + 1]>> ELSE <<>>)
            \in Seq(Event)
    <2>1. PICK e \in Event : e = [type |-> "idle", of |-> ((p - 1) \div Span) + 1]
      BY <1>2 DEF Event
    <2>2. <<e>> \in Seq(Event) /\ <<>> \in Seq(Event)
      OBVIOUS
    <2> QED  BY <2>1, <2>2
  <1>4. PICK begun : begun = {m \in FromAssistant : Level(p, m) # Level(p - 1, m)
                                                  /\ Level(p, m) \in {Blank, Complete}}
    OBVIOUS
  <1>5. PICK updates \in Seq(Event) :
            updates = SetToSeq({[type |-> "updated", of |-> m] : m \in begun})
    BY <1>1, <1>4
  <1>6. PICK ends \in Seq(Event) :
            ends = IF p % Span = 0 THEN <<[type |-> "idle", of |-> ((p - 1) \div Span) + 1]>>
                   ELSE <<>>
    BY <1>3
  <1>7. EventsOf(p) = updates \o ends
    BY <1>4, <1>5, <1>6, Zenon DEF EventsOf
  <1> QED  BY <1>5, <1>6, <1>7

LEMMA BehindTurns ==
    ASSUME NEW events \in Seq(Event)
    PROVE  Behind(events) \subseteq Turns
  <1>1. ASSUME NEW i \in DOMAIN events
        PROVE  (IF events[i].type = "idle" THEN events[i].of ELSE events[i].of[1]) \in Turns
    <2>1. events[i] \in Event
      OBVIOUS
    <2> QED  BY <2>1, EventFields, MessageFields
  <1> QED  BY <1>1 DEF Behind

-------------------------------------------------------------------------------
(* Messages: the steps.                                                    *)

LEMMA MirrorTypes ==
    ASSUME MirrorTypeOK
    PROVE  /\ asked \in 0 .. MaxTurns /\ asked \in Nat /\ asked <= MaxTurns
           /\ progress \in Nat /\ turn \in 0 .. MaxTurns /\ turn \in Nat
           /\ wire \in Seq(Event) /\ fetch \subseteq Fetch
           /\ stored \in [Messages -> Levels] /\ at \in [Messages -> Times]
           /\ usage \in [Messages -> Levels]
           /\ count \in Nat /\ notes \in Nat
           /\ uncounted \subseteq Messages /\ asides \in Nat
           /\ \A f \in Fetch : f.for \subseteq Messages /\ f.at \in {"asked", "answered"}
                               /\ f.read \in Nat
  <1>1. asked \in 0 .. MaxTurns /\ turn \in 0 .. MaxTurns /\ progress \in 0 .. MaxTurns * Span
        /\ asides \in 0 .. MaxAsides
    BY DEF MirrorTypeOK
  <1>2. asked \in Nat /\ asked <= MaxTurns /\ turn \in Nat /\ progress \in Nat /\ asides \in Nat
    BY <1>1, MirrorConstants
  <1>3. \A f \in Fetch : f.for \subseteq Messages /\ f.at \in {"asked", "answered"} /\ f.read \in Nat
    BY DEF Fetch
  <1> QED  BY <1>1, <1>2, <1>3, AssistantMessages DEF MirrorTypeOK

\* OpenCode has no more to do than it has been asked for.
LEMMA WorkBounded ==
    ASSUME MirrorTypeOK, NEW p \in Nat, p <= asked * Span
    PROVE  p \in 0 .. MaxTurns * Span
  <1>1. asked * Span <= MaxTurns * Span
    BY MirrorTypes, MirrorConstants, Scaled
  <1>2. asked * Span \in Nat /\ MaxTurns * Span \in Nat
    BY MirrorTypes, MirrorConstants
  <1> QED  BY <1>1, <1>2

\* A step that leaves the rows and what is left of their counts alone.
LEMMA QuietMirrorStep ==
    ASSUME Mirrored, MirrorTypeOK',
           UNCHANGED <<stored, count, notes, usage, uncounted, forgotten>>,
           asked' >= asked, progress' >= progress, progress' <= asked' * Span,
           turn' = 0 \/ turn' = turn \/ (turn' = asked + 1 /\ asked' = asked + 1),
           \A f \in fetch' : f \in fetch \/ f.read <= progress'
    PROVE  Mirrored'
  <1>t. MirrorTypeOK /\ CountedSoFar /\ InPace /\ LeftBehind /\ count = Kept(stored) + notes
    BY DEF Mirrored
  <1>n. asked \in Nat /\ asked' \in Nat /\ turn \in Nat /\ progress \in Nat /\ progress' \in Nat
        /\ forgotten \subseteq Messages
    BY <1>t, MirrorConstants, AssistantMessages DEF MirrorTypeOK
  <1>1. CountedSoFar' /\ (count = Kept(stored) + notes)'
    BY <1>t DEF CountedSoFar, Kept
  <1>2. InPace'
    <2>1. turn' <= asked'
      BY <1>t, <1>n DEF InPace
    <2>2. \A f \in fetch' : f.read <= progress'
      <3>1. \A f \in fetch : f.read \in Nat /\ f.read <= progress
        BY <1>t, MirrorTypes DEF InPace
      <3> QED  BY <1>n, <3>1
    <2>3. \A m \in Messages : stored'[m] # Absent => m[1] <= asked'
      BY <1>t, <1>n, MessageFields DEF InPace
    <2> QED  BY <2>1, <2>2, <2>3 DEF InPace
  <1>3. LeftBehind'
    <2>1. ASSUME NEW m \in forgotten, turn' # 0
          PROVE  m[1] < turn'
      <3>1. m[1] \in Nat /\ m[1] <= asked
        BY <1>t, <1>n, MessageFields DEF InPace, LeftBehind
      <3>2. CASE turn' = turn
        BY <1>t, <2>1, <3>2 DEF LeftBehind
      <3>3. CASE turn' = asked + 1
        BY <1>n, <3>1, <3>3
      <3> QED  BY <2>1, <3>2, <3>3
    <2> QED  BY <1>t, <2>1 DEF LeftBehind
  <1> QED  BY <1>1, <1>2, <1>3 DEF Mirrored

LEMMA OpencodeWorksStep ==
    ASSUME Mirrored, OpencodeWorks
    PROVE  Mirrored'
  <1> USE DEF rows
  <1>t. MirrorTypeOK /\ InPace
    BY DEF Mirrored
  <1>1. progress' = progress + 1 /\ progress' \in Nat /\ progress + 1 <= asked * Span
    BY <1>t, MirrorTypes, MirrorConstants DEF OpencodeWorks
  <1>2. progress' \in 0 .. MaxTurns * Span
    BY <1>t, <1>1, WorkBounded
  <1>3. EventsOf(progress + 1) \in Seq(Event) /\ Behind(EventsOf(progress + 1)) \subseteq Turns
    <2>1. progress + 1 \in Nat /\ progress + 1 >= 1 /\ progress + 1 <= MaxTurns * Span
      BY <1>t, <1>1, <1>2, MirrorTypes, MirrorConstants
    <2> QED  BY <2>1, EventsAreEvents, BehindTurns
  <1>4. wire' \in Seq(Event) /\ missed' \subseteq Turns
    <2>1. PICK events \in Seq(Event) : events = EventsOf(progress + 1) /\ Behind(events) \subseteq Turns
      BY <1>3
    <2>2. /\ wire' = wire \/ wire' = wire \o events
          /\ missed' = missed \/ missed' = missed \cup Behind(events)
      BY <2>1 DEF OpencodeWorks
    <2>3. wire \in Seq(Event) /\ missed \subseteq Turns
      BY <1>t DEF MirrorTypeOK
    <2>4. wire \o events \in Seq(Event)
      BY <2>1, <2>3
    <2> QED  BY <2>1, <2>2, <2>3, <2>4
  <1>5. MirrorTypeOK'
    BY <1>t, <1>2, <1>4 DEF OpencodeWorks, MirrorTypeOK
  <1> QED  BY <1>t, <1>1, <1>5, MirrorTypes, QuietMirrorStep DEF OpencodeWorks

\* A turn is asked for, by the server or by somebody else.
LEMMA AskingStep ==
    ASSUME Mirrored, ForeignTurn \/ Send
    PROVE  Mirrored'
  <1> USE DEF rows
  <1>t. MirrorTypeOK /\ InPace
    BY DEF Mirrored
  <1>1. /\ asked' = asked + 1 /\ asked' \in 0 .. MaxTurns /\ asked' >= asked
        /\ turn' = turn \/ turn' = asked + 1
        /\ turn' \in 0 .. MaxTurns
    <2>1. asked' = asked + 1 /\ (turn' = turn \/ turn' = asked + 1) /\ asked < MaxTurns
      BY DEF ForeignTurn, Send
    <2>2. asked + 1 \in 0 .. MaxTurns /\ asked + 1 >= asked
      BY <1>t, <2>1, MirrorTypes, MirrorConstants
    <2> QED  BY <1>t, <2>1, <2>2, MirrorTypes
  <1>2. progress' = progress /\ progress' \in Nat /\ progress' <= asked' * Span
    <2>1. progress' = progress /\ progress \in Nat /\ progress <= asked * Span
      BY <1>t, MirrorTypes DEF InPace, ForeignTurn, Send
    <2>2. asked * Span <= asked' * Span
      BY <1>t, <1>1, MirrorTypes, MirrorConstants, Scaled
    <2>3. asked * Span \in Nat /\ asked' * Span \in Nat
      BY <1>t, <1>1, MirrorTypes, MirrorConstants
    <2> QED  BY <2>1, <2>2, <2>3
  <1>3. MirrorTypeOK'
    BY <1>t, <1>1 DEF ForeignTurn, Send, MirrorTypeOK
  <1>4. progress' >= progress
    BY <1>2
  <1> QED  BY <1>1, <1>2, <1>3, <1>4, QuietMirrorStep DEF ForeignTurn, Send

\* The subscription, the interval, a turn that fails.
LEMMA PlainMirrorActions ==
    ASSUME Mirrored,
           MirrorConnects \/ MirrorDisconnects \/ TurnFails \/ IntervalPasses
    PROVE  Mirrored'
  <1> USE DEF rows
  <1>t. MirrorTypeOK /\ InPace
    BY DEF Mirrored
  <1>1. /\ UNCHANGED <<asked, progress, fetch, stored, at, count, notes, usage, uncounted, forgotten>>
        /\ turn' = turn \/ turn' = 0
    BY DEF MirrorConnects, MirrorDisconnects, TurnFails, IntervalPasses
  <1>2. MirrorTypeOK'
    <2>1. turn' \in 0 .. MaxTurns
      BY <1>t, <1>1, MirrorTypes, MirrorConstants
    <2>2. connected' \in BOOLEAN /\ recent' \in BOOLEAN
      BY <1>t DEF MirrorConnects, MirrorDisconnects, TurnFails, IntervalPasses, MirrorTypeOK
    <2>3. wire' \in Seq(Event)
      <3>1. <<>> \in Seq(Event)
        OBVIOUS
      <3> QED  BY <1>t, <3>1 DEF MirrorConnects, MirrorDisconnects, TurnFails, IntervalPasses,
                                 MirrorTypeOK
    <2>4. missed' \subseteq Turns
      BY <1>t, MirrorTypes, BehindTurns
         DEF MirrorConnects, MirrorDisconnects, TurnFails, IntervalPasses, MirrorTypeOK
    <2>5. asides' \in 0 .. MaxAsides
      BY <1>t, MirrorConstants
         DEF MirrorConnects, MirrorDisconnects, TurnFails, IntervalPasses, MirrorTypeOK
    <2> QED  BY <1>t, <1>1, <2>1, <2>2, <2>3, <2>4, <2>5 DEF MirrorTypeOK
  <1> QED  BY <1>t, <1>1, <1>2, MirrorTypes, QuietMirrorStep DEF InPace

\* A request for messages has read nothing yet.
LEMMA Asking ==
    ASSUME NEW what \in SUBSET Messages, Asks(what), fetch \subseteq Fetch
    PROVE  fetch' \subseteq Fetch /\ \A f \in fetch' : f \in fetch \/ f.read = 0
  <1>1. [for |-> what, at |-> "asked", read |-> 0] \in Fetch
    BY DEF Fetch
  <1> QED  BY <1>1 DEF Asks

LEMMA RequestingActions ==
    ASSUME Mirrored, Deliver \/ Poll
    PROVE  Mirrored'
  <1> USE DEF rows
  <1>t. MirrorTypeOK /\ InPace
    BY DEF Mirrored
  <1>1. UNCHANGED <<asked, progress, turn, stored, at, count, notes, usage, uncounted, forgotten,
                    connected, missed>>
    BY DEF Deliver, Poll
  <1>2. fetch' \subseteq Fetch /\ \A f \in fetch' : f \in fetch \/ f.read = 0
    <2>1. CASE Poll
      <3>1. Messages \in SUBSET Messages
        OBVIOUS
      <3> QED  BY <1>t, <2>1, <3>1, MirrorTypes, Asking DEF Poll
    <2>2. CASE Deliver
      <3>1. Head(wire) \in Event
        BY <1>t, <2>2, MirrorTypes DEF Deliver
      <3>2. (IF Head(wire).type = "idle" THEN Messages ELSE {Head(wire).of}) \in SUBSET Messages
        BY <3>1, EventFields
      <3>3. fetch' = fetch
            \/ Asks(IF Head(wire).type = "idle" THEN Messages ELSE {Head(wire).of})
        BY <2>2 DEF Deliver
      <3> QED  BY <1>t, <3>2, <3>3, MirrorTypes, Asking
    <2> QED  BY <2>1, <2>2
  <1>3. MirrorTypeOK'
    <2>1. wire' \in Seq(Event)
      <3>1. wire \in Seq(Event) /\ (wire # <<>> => Tail(wire) \in Seq(Event))
        BY <1>t, MirrorTypes
      <3>2. wire' = wire \/ (wire # <<>> /\ wire' = Tail(wire))
        BY DEF Deliver, Poll
      <3> QED  BY <3>1, <3>2
    <2>2. recent' \in BOOLEAN
      BY <1>t DEF Deliver, Poll, MirrorTypeOK
    <2>3. asides' \in 0 .. MaxAsides
      BY <1>t, MirrorConstants DEF Deliver, Poll, MirrorTypeOK
    <2> QED  BY <1>t, <1>1, <1>2, <2>1, <2>2, <2>3 DEF MirrorTypeOK
  <1>4. \A f \in fetch' : f \in fetch \/ f.read <= progress'
    BY <1>t, <1>1, <1>2, MirrorTypes
  <1> QED  BY <1>t, <1>1, <1>3, <1>4, MirrorTypes, QuietMirrorStep DEF InPace

\* OpenCode reads what it answers, or the request fails.
LEMMA AnsweringActions ==
    ASSUME Mirrored, NEW f \in fetch, OpencodeAnswers(f) \/ FetchFails(f)
    PROVE  Mirrored'
  <1> USE DEF rows
  <1>t. MirrorTypeOK /\ InPace /\ f \in Fetch
    BY MirrorTypes DEF Mirrored
  <1>1. UNCHANGED <<asked, progress, turn, wire, recent, stored, at, count, notes, usage, uncounted,
                    forgotten, connected, asides>>
    BY DEF OpencodeAnswers, FetchFails
  <1>2. PICK g \in Fetch : g = [f EXCEPT !.at = "answered", !.read = progress] /\ g.read = progress
    <2>1. f \in [for : SUBSET Messages, at : {"asked", "answered"}, read : Nat] /\ progress \in Nat
      BY <1>t, MirrorTypes DEF Fetch
    <2>2. [f EXCEPT !.at = "answered", !.read = progress] \in Fetch
          /\ [f EXCEPT !.at = "answered", !.read = progress].read = progress
      BY <2>1 DEF Fetch
    <2> QED  BY <2>2
  <1>3. fetch' \subseteq (fetch \ {f}) \cup {g}
    BY <1>2 DEF OpencodeAnswers, FetchFails
  <1>4. missed' \subseteq Turns
    <2>1. \A m \in f.for : m[1] \in Turns
      BY <1>t, MirrorTypes, MessageFields
    <2> QED  BY <1>t, <2>1 DEF OpencodeAnswers, FetchFails, TurnsOf, MirrorTypeOK
  <1>5. MirrorTypeOK'
    <2>1. fetch' \subseteq Fetch
      BY <1>t, <1>3, MirrorTypes
    <2> QED  BY <1>t, <1>1, <1>4, <2>1 DEF MirrorTypeOK
  <1>6. \A h \in fetch' : h \in fetch \/ h.read <= progress'
    <2>1. g.read <= progress'
      BY <1>t, <1>1, <1>2, MirrorTypes
    <2> QED  BY <1>3, <2>1
  <1> QED  BY <1>t, <1>1, <1>5, <1>6, MirrorTypes, QuietMirrorStep DEF InPace

LEMMA LevelFacts ==
    /\ Absent = 0 /\ \A l \in Levels : l \in Nat
    /\ Absent \in Levels /\ Partial \in Levels /\ Complete \in Levels
    /\ Partial # Absent /\ Complete # Absent
  BY DEF Absent, Partial, Complete, Levels

\* The exchange is appended: the answer is counted, if it was not.
LEMMA TurnAnsweredStep ==
    ASSUME Mirrored, TurnAnswered
    PROVE  Mirrored'
  <1>t. MirrorTypeOK /\ InPace /\ LeftBehind /\ CountedSoFar
    BY DEF Mirrored
  <1>1. /\ turn \in Turns /\ turn' = 0 /\ uncounted = {}
        /\ turn <= asked
        /\ UNCHANGED <<asked, progress, wire, connected, fetch, recent, uncounted, asides,
                       missed, forgotten, notes>>
    BY <1>t, MirrorTypes DEF TurnAnswered, AppendExchange, Turns, InPace
  <1>2. PICK user \in Messages, answer \in FromAssistant :
            /\ user = <<turn, 0>> /\ answer = Answer(turn) /\ user # answer
            /\ answer \in Messages /\ user \notin FromAssistant
            /\ user[1] = turn /\ answer[1] = turn
    BY <1>1, AssistantMessages
  <1>3. /\ stored' = [stored EXCEPT ![user] = IF stored[user] # Absent THEN @ ELSE Complete,
                                    ![answer] = IF stored[answer] # Absent THEN @ ELSE Complete]
        /\ usage' = [usage EXCEPT ![answer] = IF @ = Absent THEN Complete ELSE @]
        /\ count' = Kept(stored') + notes
    BY <1>2 DEF TurnAnswered, AppendExchange, Counted, ExchangeCounts
  <1>4. \E answerAt, userAt \in Times : at' = [at EXCEPT ![user] = userAt, ![answer] = answerAt]
    <2>1. PICK userWas \in Times, answerWas \in Times, completed \in Times :
              userWas = at[user] /\ answerWas = at[answer] /\ completed = CompletedAt(turn)
      BY <1>t, <1>1, <1>2, MirrorTypes, TimesOfMessages
    <2>2. PICK hasUser \in BOOLEAN, hasAnswer \in BOOLEAN :
              hasUser = (stored[user] # Absent) /\ hasAnswer = (stored[answer] # Absent)
      OBVIOUS
    <2>3. PICK answerAt \in Times :
              answerAt = IF hasAnswer THEN answerWas
                         ELSE IF hasUser THEN (IF userWas > completed THEN userWas ELSE completed)
                         ELSE completed
      OBVIOUS
    <2>4. PICK userAt \in Times :
              userAt = IF hasUser /\ userWas < answerAt THEN userWas ELSE answerAt
      OBVIOUS
    <2>5. at' = [at EXCEPT ![user] = userAt, ![answer] = answerAt]
      BY <1>2, <2>1, <2>2, <2>3, <2>4 DEF TurnAnswered, AppendExchange
    <2> QED  BY <2>5
  <1>5. /\ stored' \in [Messages -> Levels] /\ usage' \in [Messages -> Levels]
        /\ stored'[answer] # Absent /\ usage'[answer] # Absent
        /\ \A m \in Messages : m # user /\ m # answer => stored'[m] = stored[m]
        /\ \A m \in Messages : m # answer => usage'[m] = usage[m]
    BY <1>t, <1>2, <1>3, MirrorTypes, LevelFacts
  <1>6. MirrorTypeOK'
    <2>1. at' \in [Messages -> Times]
      BY <1>t, <1>4, MirrorTypes
    <2>2. count' \in Nat
      BY <1>t, <1>1, <1>3, MessagesFinite, MirrorTypes
    <2>3. turn' \in 0 .. MaxTurns
      BY <1>1, MirrorConstants
    <2> QED  BY <1>t, <1>1, <1>5, <2>1, <2>2, <2>3 DEF MirrorTypeOK
  <1>7. answer \notin forgotten
    <2>1. ~(answer[1] < turn)
      BY <1>1, <1>2, MirrorTypes, <1>t
    <2>2. turn # 0
      BY <1>1 DEF Turns
    <2> QED  BY <1>t, <2>1, <2>2 DEF LeftBehind
  <1>8. CountedSoFar'
    <2>1. ASSUME NEW m \in FromAssistant, m # answer
          PROVE  stored'[m] = stored[m] /\ usage'[m] = usage[m]
      BY <1>2, <1>5, <2>1, AssistantMessages
    <2> QED  BY <1>t, <1>1, <1>5, <1>7, <2>1 DEF CountedSoFar
  <1>9. (count = Kept(stored) + notes)'
    BY <1>1, <1>3 DEF Kept
  <1>10. InPace'
    <2>1. \A m \in Messages : stored'[m] # Absent => m[1] <= asked
      BY <1>t, <1>1, <1>2, <1>5 DEF InPace
    <2>2. turn' <= asked'
      BY <1>t, <1>1, MirrorTypes
    <2> QED  BY <1>t, <1>1, <2>1, <2>2 DEF InPace
  <1>11. LeftBehind'
    <2>1. ASSUME NEW m \in forgotten
          PROVE  stored'[m] # Absent
      <3>1. m \in FromAssistant /\ m \in Messages /\ stored[m] # Absent
        BY <1>t, AssistantMessages DEF LeftBehind, MirrorTypeOK
      <3> QED  BY <1>2, <1>5, <3>1
    <2> QED  BY <1>t, <1>1, <2>1 DEF LeftBehind
  <1> QED  BY <1>6, <1>8, <1>9, <1>10, <1>11 DEF Mirrored

LEMMA AppendNoteStep ==
    ASSUME Mirrored, AppendNote
    PROVE  Mirrored'
  <1>t. MirrorTypeOK /\ InPace /\ LeftBehind /\ CountedSoFar /\ count = Kept(stored) + notes
    BY DEF Mirrored
  <1>1. notes' \in Nat /\ count' \in Nat /\ asides' \in 0 .. MaxAsides
        /\ count' = count + 1 /\ notes' = notes + 1 /\ stored' = stored
    BY <1>t, MirrorTypes, MirrorConstants DEF AppendNote, MirrorTypeOK
  <1>2. MirrorTypeOK'
    BY <1>t, <1>1 DEF AppendNote, MirrorTypeOK
  <1>3. CountedSoFar' /\ InPace' /\ LeftBehind'
    BY <1>t DEF AppendNote, CountedSoFar, InPace, LeftBehind
  <1>4. (count = Kept(stored) + notes)'
    <2>1. Kept(stored)' = Kept(stored) /\ Kept(stored) \in Nat
      BY <1>1, MessagesFinite DEF Kept
    <2> QED  BY <1>t, <1>1, <2>1, MirrorTypes
  <1> QED  BY <1>2, <1>3, <1>4 DEF Mirrored

\* Messages are imported: the new ones of the assistant are yet to be counted.
LEMMA ImportStep ==
    ASSUME Mirrored, NEW f \in fetch, Import(f)
    PROVE  Mirrored'
  <1>t. MirrorTypeOK /\ InPace /\ LeftBehind /\ CountedSoFar /\ count = Kept(stored) + notes
        /\ f \in Fetch
    BY MirrorTypes DEF Mirrored
  <1>u. /\ UNCHANGED <<asked, progress, wire, connected, turn, asides, forgotten, notes, usage>>
        /\ uncounted = {} /\ fetch' \subseteq fetch
    BY DEF Import, Upsert
  <1>1. PICK read \in Nat : read = f.read /\ read <= progress
    BY <1>t, MirrorTypes DEF InPace
  <1>2. PICK imported \in SUBSET Messages :
            /\ imported = Imported(f.for, read)
            /\ \A m \in imported : Level(read, m) \in Levels /\ Level(read, m) # Absent
                                   /\ (m[1] - 1) * Span < read
    <2>1. Imported(f.for, read) \subseteq Messages
      BY <1>t, MirrorTypes DEF Imported
    <2>2. ASSUME NEW m \in Imported(f.for, read)
          PROVE  Level(read, m) \in Levels /\ Level(read, m) # Absent /\ (m[1] - 1) * Span < read
      <3>1. m \in Messages /\ Level(read, m) # Absent
        BY <2>1, <2>2, LevelFacts DEF Imported
      <3> QED  BY <3>1, LevelOf
    <2> QED  BY <2>1, <2>2
  <1>3. Upsert(imported, read)
    BY <1>1, <1>2 DEF Import
  <1>4. PICK inserted \in SUBSET imported : inserted = {m \in imported : stored[m] = Absent}
    OBVIOUS
  <1>5. /\ stored' = [m \in Messages |-> IF m \in imported THEN Level(read, m) ELSE stored[m]]
        /\ at' = [m \in Messages |-> IF m \in inserted THEN CreatedAt(m) ELSE at[m]]
        /\ count' = IF inserted = {} THEN count ELSE Kept(stored') + notes
        /\ uncounted' = inserted \cap FromAssistant
        /\ missed' = missed \cup TurnsOf({m \in imported : Level(read, m) < stored[m]})
    BY <1>3, <1>4 DEF Upsert
  <1>6. /\ stored' \in [Messages -> Levels]
        /\ \A m \in imported : stored'[m] # Absent
        /\ \A m \in Messages \ imported : stored'[m] = stored[m]
    BY <1>t, <1>2, <1>5, MirrorTypes
  <1>7. \A m \in Messages : (stored'[m] # Absent) <=> (stored[m] # Absent \/ m \in inserted)
    BY <1>4, <1>6
  <1>8. Kept(stored)' = Kept(stored')
    BY DEF Kept
  <1>9. (count = Kept(stored) + notes)'
    <2>1. CASE inserted = {}
      <3>1. Kept(stored') = Kept(stored)
        BY <1>7, <2>1 DEF Kept
      <3> QED  BY <1>t, <1>u, <1>5, <1>8, <2>1, <3>1
    <2>2. CASE inserted # {}
      BY <1>u, <1>5, <1>8, <2>2
    <2> QED  BY <2>1, <2>2
  <1>10. MirrorTypeOK'
    <2>1. at' \in [Messages -> Times]
      BY <1>t, <1>4, <1>5, MirrorTypes, TimesOfMessages
    <2>2. count' \in Nat
      BY <1>t, <1>5, MessagesFinite, MirrorTypes
    <2>3. missed' \subseteq Turns
      <3>1. \A m \in imported : m[1] \in Turns
        BY MessageFields
      <3> QED  BY <1>t, <1>5, <3>1 DEF TurnsOf, MirrorTypeOK
    <2>4. recent' \in BOOLEAN
      BY <1>t DEF Import, MirrorTypeOK
    <2>5. fetch' \subseteq Fetch /\ uncounted' \subseteq FromAssistant
      BY <1>t, <1>u, <1>5, MirrorTypes
    <2> QED  BY <1>t, <1>u, <1>6, <2>1, <2>2, <2>3, <2>4, <2>5 DEF MirrorTypeOK
  <1>11. CountedSoFar'
    <2>1. ASSUME NEW m \in FromAssistant
          PROVE  (usage[m] # Absent) <=> (stored'[m] # Absent /\ m \notin uncounted' \cup forgotten)
      <3>0. m \in Messages
        BY AssistantMessages
      <3>1. (usage[m] # Absent) <=> (stored[m] # Absent /\ m \notin forgotten)
        BY <1>t, <1>u DEF CountedSoFar
      <3>2. CASE m \in inserted
        BY <1>4, <1>5, <3>1, <3>2
      <3>3. CASE m \notin inserted
        BY <1>5, <1>7, <3>0, <3>1, <3>3
      <3> QED  BY <3>2, <3>3
    <2> QED  BY <1>u, <2>1 DEF CountedSoFar
  <1>12. InPace'
    <2>1. ASSUME NEW m \in imported
          PROVE  m[1] <= asked
      <3>1. PICK before \in Nat : before = m[1] - 1
        BY MessageFields
      <3>2. before * Span < asked * Span
        <4>1. before * Span < read /\ read <= progress /\ progress <= asked * Span
          BY <1>t, <1>1, <1>2, <3>1 DEF InPace
        <4>2. before * Span \in Nat /\ asked * Span \in Nat
          BY <1>t, MirrorTypes, MirrorConstants
        <4> QED  BY <1>t, <4>1, <4>2, MirrorTypes
      <3>3. before < asked
        <4>1. SUFFICES ASSUME asked <= before
                       PROVE  FALSE
          BY <1>t, MirrorTypes
        <4>2. asked * Span <= before * Span
          BY <1>t, <4>1, MirrorTypes, MirrorConstants, Scaled
        <4>3. before * Span \in Nat /\ asked * Span \in Nat
          BY <1>t, MirrorTypes, MirrorConstants
        <4> QED  BY <3>2, <4>2, <4>3
      <3> QED  BY <1>t, <3>1, <3>3, MirrorTypes, MessageFields
    <2>2. \A m \in Messages : stored'[m] # Absent => m[1] <= asked
      BY <1>t, <1>6, <2>1 DEF InPace
    <2> QED  BY <1>t, <1>u, <2>2 DEF InPace
  <1>13. LeftBehind'
    <2>1. forgotten \subseteq Messages /\ \A m \in forgotten : stored[m] # Absent
      BY <1>t, AssistantMessages DEF LeftBehind, MirrorTypeOK
    <2>2. uncounted' \cap forgotten = {}
      BY <1>4, <1>5, <2>1
    <2>3. \A m \in uncounted' \cup forgotten : stored'[m] # Absent
      BY <1>4, <1>5, <1>6, <1>7, <2>1
    <2> QED  BY <1>t, <1>u, <2>2, <2>3 DEF LeftBehind
  <1> QED  BY <1>9, <1>10, <1>11, <1>12, <1>13 DEF Mirrored

LEMMA CountInsertedStep ==
    ASSUME Mirrored, NEW m \in FromAssistant, CountInserted(m)
    PROVE  Mirrored'
  <1>t. MirrorTypeOK /\ InPace /\ LeftBehind /\ CountedSoFar /\ count = Kept(stored) + notes
    BY DEF Mirrored
  <1>u. /\ UNCHANGED <<asked, progress, wire, connected, turn, fetch, recent, stored, at, count,
                       notes, asides, missed, forgotten>>
        /\ uncounted' = uncounted \ {m} /\ m \in uncounted
    BY DEF CountInserted
  <1>1. m \in Messages /\ m \notin forgotten /\ stored[m] # Absent
    BY <1>t, <1>u, AssistantMessages DEF LeftBehind
  <1>2. /\ usage' \in [Messages -> Levels] /\ usage'[m] # Absent
        /\ \A n \in Messages : n # m => usage'[n] = usage[n]
    BY <1>t, <1>1, MirrorTypes DEF CountInserted, Counted
  <1>3. MirrorTypeOK'
    BY <1>t, <1>u, <1>2 DEF MirrorTypeOK
  <1>4. CountedSoFar'
    <2>1. \A n \in FromAssistant : n \in Messages
      BY AssistantMessages
    <2> QED  BY <1>t, <1>u, <1>1, <1>2, <2>1 DEF CountedSoFar
  <1>5. InPace' /\ LeftBehind' /\ (count = Kept(stored) + notes)'
    BY <1>t, <1>u DEF InPace, LeftBehind, Kept
  <1> QED  BY <1>3, <1>4, <1>5 DEF Mirrored

LEMMA MirrorCrashStep ==
    ASSUME Mirrored, MirrorCrash
    PROVE  Mirrored'
  <1>t. MirrorTypeOK /\ InPace /\ LeftBehind /\ CountedSoFar /\ count = Kept(stored) + notes
    BY DEF Mirrored
  <1>u. /\ UNCHANGED <<asked, progress, stored, at, count, notes, usage>>
        /\ turn' = 0 /\ fetch' = {} /\ uncounted' = {} /\ forgotten' = forgotten \cup uncounted
    BY DEF MirrorCrash, rows
  <1>1. MirrorTypeOK'
    <2>1. wire' \in Seq(Event)
      <3>1. <<>> \in Seq(Event)
        OBVIOUS
      <3> QED  BY <3>1 DEF MirrorCrash
    <2>2. 1 .. asked \subseteq Turns
      BY <1>t, MirrorTypes, MirrorConstants DEF Turns
    <2>3. asides' \in 0 .. MaxAsides /\ turn' \in 0 .. MaxTurns
      BY <1>t, MirrorConstants DEF MirrorCrash, MirrorTypeOK
    <2> QED  BY <1>t, <1>u, <2>1, <2>2, <2>3 DEF MirrorCrash, MirrorTypeOK
  <1>2. InPace'
    <2>1. turn' <= asked'
      BY <1>t, <1>u, MirrorTypes
    <2> QED  BY <1>t, <1>u, <2>1 DEF InPace
  <1>3. CountedSoFar' /\ LeftBehind' /\ (count = Kept(stored) + notes)'
    BY <1>t, <1>u DEF CountedSoFar, LeftBehind, Kept
  <1> QED  BY <1>1, <1>2, <1>3 DEF Mirrored

-------------------------------------------------------------------------------
(* Messages: the theorem.                                                  *)

LEMMA MirroredHolds == MirrorSpec => []Mirrored
  <1>1. MirrorInit => Mirrored
    <2> SUFFICES ASSUME MirrorInit
                 PROVE  Mirrored
      OBVIOUS
    <2>1. \A m \in Messages : stored[m] = Absent /\ usage[m] = Absent
      BY DEF MirrorInit
    <2>2. MirrorTypeOK
      <3>1. <<>> \in Seq(Event)
        OBVIOUS
      <3>2. MaxTurns * Span \in Nat /\ (MaxTurns + 1) * (Steps + 2) \in Nat
        BY MirrorConstants
      <3>3. 0 \in Times /\ Absent \in Levels /\ 0 \in 0 .. MaxTurns * Span
        BY <3>2, LevelFacts DEF Times
      <3>4. /\ stored \in [Messages -> Levels] /\ at \in [Messages -> Times]
            /\ usage \in [Messages -> Levels]
        BY <3>3 DEF MirrorInit
      <3>5. /\ asked \in 0 .. MaxTurns /\ turn \in 0 .. MaxTurns /\ asides \in 0 .. MaxAsides
            /\ count \in Nat /\ notes \in Nat
        BY MirrorConstants DEF MirrorInit
      <3> QED  BY <3>1, <3>3, <3>4, <3>5 DEF MirrorInit, MirrorTypeOK
    <2>3. Kept(stored) = 0
      <3>1. {m \in Messages : stored[m] # Absent} = {}
        BY <2>1
      <3> QED  BY <3>1, FS_EmptySet DEF Kept
    <2>4. InPace
      <3>1. 0 * Span = 0
        BY MirrorConstants
      <3> QED  BY <2>1, <3>1 DEF MirrorInit, InPace
    <2>5. CountedSoFar
      BY <2>1, AssistantMessages DEF CountedSoFar
    <2>6. LeftBehind /\ count = Kept(stored) + notes
      BY <2>3 DEF MirrorInit, LeftBehind
    <2> QED  BY <2>2, <2>4, <2>5, <2>6 DEF Mirrored
  <1>2. Mirrored /\ [MirrorNext]_mirrorVars => Mirrored'
    <2> SUFFICES ASSUME Mirrored, [MirrorNext]_mirrorVars
                 PROVE  Mirrored'
      OBVIOUS
    <2>1. CASE OpencodeWorks
      BY <2>1, OpencodeWorksStep
    <2>2. CASE ForeignTurn \/ Send
      BY <2>2, AskingStep
    <2>3. CASE MirrorConnects \/ MirrorDisconnects \/ TurnFails \/ IntervalPasses
      BY <2>3, PlainMirrorActions
    <2>4. CASE Deliver \/ Poll
      BY <2>4, RequestingActions
    <2>5. CASE \E f \in fetch : OpencodeAnswers(f) \/ FetchFails(f)
      BY <2>5, AnsweringActions
    <2>6. CASE \E f \in fetch : Import(f)
      BY <2>6, ImportStep
    <2>7. CASE TurnAnswered
      BY <2>7, TurnAnsweredStep
    <2>8. CASE AppendNote
      BY <2>8, AppendNoteStep
    <2>9. CASE \E m \in FromAssistant : CountInserted(m)
      BY <2>9, CountInsertedStep
    <2>10. CASE MirrorCrash
      BY <2>10, MirrorCrashStep
    <2>11. CASE UNCHANGED mirrorVars
      BY <2>11 DEF mirrorVars, rows, Mirrored, MirrorTypeOK, CountedSoFar, Kept, InPace, LeftBehind
    <2> QED  BY <2>1, <2>2, <2>3, <2>4, <2>5, <2>6, <2>7, <2>8, <2>9, <2>10, <2>11 DEF MirrorNext
  <1> QED  BY <1>1, <1>2, PTL DEF MirrorSpec

\* A message of an assistant is counted in the usage exactly when it is in the
\* transcript, whichever writer brought it, but for the counts a crash prevented;
\* and the count of the messages is right (appendChatExchange,
\* appendAssistantMessage, upsertSessionMessages, recordUsageDelta).
THEOREM MessagesCountedOnce == MirrorSpec => []CountedOnce
  <1>1. Mirrored => CountedOnce
    BY DEF Mirrored, CountedOnce, CountedSoFar
  <1> QED  BY <1>1, MirroredHolds, PTL

===============================================================================
