------------------------ MODULE BackgroundRuns_proofs ------------------------
(***************************************************************************)
(* Theorems of BackgroundRuns for every value of its constants: a run is   *)
(* announced at most once per piece of work.                               *)
(*                                                                         *)
(* What carries the bound is that an announcement is owed only while the   *)
(* row has no summary: every announcement writes one, only a prompt takes  *)
(* it away again, and the announcement under way of a row is its only one. *)
(***************************************************************************)
EXTENDS BackgroundRuns, TLAPS

-------------------------------------------------------------------------------
(* The invariant.                                                          *)

\* An announcement that has not been made yet.
Owed(r) == IF r.summary THEN 0 ELSE 1

Accounted ==
    \A c \in Children :
        /\ announcing[c] = "reading" => ~row[c].summary
        /\ announced[c] + Owed(row[c]) <= 1 + steers[c] + crashes

Announcing == TypeOK /\ Accounted

-------------------------------------------------------------------------------
(* Rows, calls and events keep their types.                                *)

\* A new status of a row leaves its summary as it is.
LEMMA RowTypes ==
    ASSUME NEW r \in Row
    PROVE  /\ Ensured(r) \in Row /\ Ensured(r).summary = r.summary
           /\ \A s \in InFlight \cup Terminal :
                /\ [r EXCEPT !.status = s] \in Row
                /\ [r EXCEPT !.status = s].summary = r.summary
           /\ \A run \in Row, report \in Reports :
                /\ Applied(r, run, report) \in Row
                /\ Applied(r, run, report).summary = r.summary
  <1>1. \A s \in InFlight \cup Terminal :
            /\ [r EXCEPT !.status = s] \in Row
            /\ [r EXCEPT !.status = s].summary = r.summary
    BY DEF Row
  <1>2. Ensured(r) \in Row /\ Ensured(r).summary = r.summary
    BY <1>1 DEF Ensured, InFlight
  <1>3. ASSUME NEW run \in Row, NEW report \in Reports
        PROVE  /\ Applied(r, run, report) \in Row
               /\ Applied(r, run, report).summary = r.summary
    <2>1. PICK next : next = StatusFor(run, report)
      OBVIOUS
    <2>2. next \in {"keep"} \cup InFlight \cup Terminal
      BY <2>1 DEF StatusFor, InFlight, Terminal
    <2>3. CASE next = "keep"
      BY <2>1, <2>3 DEF Applied
    <2>4. CASE next # "keep"
      <3>1. Applied(r, run, report) =
                [r EXCEPT !.status = next, !.started = r.started \/ report # "idle"]
        BY <2>1, <2>4 DEF Applied
      <3>2. (r.started \/ report # "idle") \in BOOLEAN
        OBVIOUS
      <3>3. next \in InFlight \cup Terminal
        BY <2>2, <2>4
      <3> QED  BY <3>1, <3>2, <3>3 DEF Row
    <2> QED  BY <2>3, <2>4
  <1> QED  BY <1>1, <1>2, <1>3

\* A call under way names a child and the row it read.
LEMMA CallFields ==
    ASSUME TypeOK, NEW w \in Workers, call[w].op # "none"
    PROVE  call[w] \in Call /\ call[w].child \in Children /\ call[w].snap \in Row
           /\ call[w].reply \in {"none", "busy"}
  <1>1. call[w] \in Call
    BY DEF TypeOK, NoCall
  <1> QED  BY <1>1 DEF Call

LEMMA CallTypes ==
    ASSUME TypeOK
    PROVE  /\ \A c \in Children : StatusCall(c) \in Call
           /\ \A c \in Children, op \in Operations, at \in {"preparing", "asked", "announcing"} :
                Started(op, c, at) \in Call
           /\ \A k \in Call, at \in {"sending", "answered"}, s \in {"none", "busy"} :
                /\ [k EXCEPT !.at = at] \in Call
                /\ [k EXCEPT !.at = at, !.reply = s] \in Call
  <1>1. NoRow \in Row
    BY DEF NoRow, Row
  <1>2. \A c \in Children, op \in Operations, at \in {"preparing", "asked", "announcing"} :
            Started(op, c, at) \in Call
    BY <1>1 DEF Started, Call
  <1>3. ASSUME NEW c \in Children PROVE StatusCall(c) \in Call
    <2>1. Started("status", c, "asked") \in Call
      BY <1>2 DEF Operations
    <2>2. [row[c] EXCEPT !.summary = FALSE] \in Row
      BY DEF TypeOK, Row
    <2> QED  BY <2>1, <2>2 DEF StatusCall, Call
  <1>4. \A k \in Call, at \in {"sending", "answered"}, s \in {"none", "busy"} :
            /\ [k EXCEPT !.at = at] \in Call
            /\ [k EXCEPT !.at = at, !.reply = s] \in Call
    BY DEF Call
  <1> QED  BY <1>2, <1>3, <1>4

Events == [child : Children, type : EventTypes]

LEMMA EmitTypes ==
    ASSUME TypeOK, NEW c \in Children, NEW types \in Seq(EventTypes), Emit(c, types)
    PROVE  wire' \in Seq(Events) /\ astray' \subseteq Children
  <1>1. wire \in Seq(Events) /\ astray \subseteq Children
    BY DEF TypeOK, Events
  <1>2. Sent(c, types) \in Seq(Events)
    <2>1. DOMAIN types = 1 .. Len(types) /\ Len(types) \in Nat
      OBVIOUS
    <2>2. \A i \in 1 .. Len(types) : [child |-> c, type |-> types[i]] \in Events
      BY <2>1 DEF Events
    <2> QED  BY <2>1, <2>2 DEF Sent
  <1>3. wire \o Sent(c, types) \in Seq(Events)
    BY <1>1, <1>2
  <1> QED  BY <1>1, <1>3 DEF Emit

LEMMA EventSequences ==
    /\ <<"created", "busy">> \in Seq(EventTypes) /\ <<"updated">> \in Seq(EventTypes)
    /\ <<"idle", "idle">> \in Seq(EventTypes) /\ <<"error", "idle", "idle">> \in Seq(EventTypes)
    /\ <<"busy">> \in Seq(EventTypes) /\ <<"created">> \in Seq(EventTypes)
  BY DEF EventTypes, Reports

-------------------------------------------------------------------------------
(* Writing rows.                                                           *)

\* What most steps do to the rows: no summary comes or goes, and only a row
\* without one may begin to be announced.
NothingSaid ==
    /\ row' \in [Children -> Row]
    /\ announcing' \in [Children -> {"no", "reading"}]
    /\ \A c \in Children :
        /\ row'[c].summary = row[c].summary
        /\ announcing'[c] = "reading" => announcing[c] = "reading" \/ ~row[c].summary

LEMMA WritesQuietly ==
    ASSUME TypeOK, NEW c \in Children, NEW r \in Row, r.summary = row[c].summary, Write(c, r),
           UNCHANGED announcing
    PROVE  NothingSaid
  BY DEF TypeOK, Write, NothingSaid

LEMMA WritesAndAnnounces ==
    ASSUME TypeOK, NEW c \in Children, NEW r \in Row, r.summary = row[c].summary, NEW wanted,
           WriteAndAnnounce(c, r, wanted)
    PROVE  NothingSaid
  <1>1. row' = [row EXCEPT ![c] = r] /\ row \in [Children -> Row]
        /\ announcing \in [Children -> {"no", "reading"}]
    BY DEF TypeOK, WriteAndAnnounce, Write
  <1>2. \A d \in Children : row'[d].summary = row[d].summary
    BY <1>1
  <1>3. \/ announcing' = announcing
        \/ announcing' = [announcing EXCEPT ![c] = "reading"] /\ ~r.summary
    <2>1. announcing' = [announcing EXCEPT ![c] =
              IF wanted /\ announcing[c] = "no" /\ NeedsAnnouncement(r) THEN "reading"
              ELSE announcing[c]]
      BY <1>1 DEF WriteAndAnnounce
    <2>2. NeedsAnnouncement(r) => ~r.summary
      BY DEF NeedsAnnouncement
    <2> QED  BY <2>1, <2>2, <1>1
  <1> QED  BY <1>1, <1>2, <1>3 DEF NothingSaid

LEMMA AppliesReport ==
    ASSUME TypeOK, NEW c \in Children, NEW r \in Row, r.summary = row[c].summary,
           NEW run \in Row, NEW report \in Reports, Apply(c, r, run, report)
    PROVE  NothingSaid
  <1>1. Applied(r, run, report) \in Row /\ Applied(r, run, report).summary = row[c].summary
    BY RowTypes
  <1>2. WriteAndAnnounce(c, Applied(r, run, report), StatusFor(run, report) = "completed")
    BY DEF Apply
  <1> QED  BY <1>1, <1>2, WritesAndAnnounces

LEMMA AccountedKept ==
    ASSUME Announcing, NothingSaid, UNCHANGED <<announced, steers, crashes>>
    PROVE  Accounted'
  BY DEF Announcing, Accounted, NothingSaid, Owed

LEMMA QuietRows ==
    ASSUME TypeOK, UNCHANGED <<row, announcing>>
    PROVE  NothingSaid
  BY DEF TypeOK, NothingSaid

-------------------------------------------------------------------------------
(* The invariant, action by action.                                        *)

Sessions == [Children -> {"none", "unused"} \cup Reports]
Calls == [Workers -> Call \cup {NoCall}]
Hydrations == [Children -> {"no", "bare"} \cup Reports]

\* A step that makes no announcement keeps the invariant if it keeps the types.
LEMMA StepOf ==
    ASSUME Announcing, NothingSaid, UNCHANGED <<announced, steers, crashes>>,
           session' \in Sessions, wire' \in Seq(Events), connected' \in BOOLEAN,
           call' \in Calls, round' \in {"resting", "asking", "announcing"},
           todo' \subseteq Children, hydrating' \in Hydrations, drops' \in Nat,
           astray' \subseteq Children
    PROVE  Announcing'
  <1>1. Accounted'
    BY AccountedKept
  <1>2. TypeOK'
    BY DEF Announcing, TypeOK, NothingSaid, Sessions, Events, Calls, Hydrations
  <1> QED  BY <1>1, <1>2 DEF Announcing

LEMMA Types ==
    ASSUME Announcing
    PROVE  /\ TypeOK /\ row \in [Children -> Row] /\ announced \in [Children -> Nat]
           /\ session \in Sessions /\ wire \in Seq(Events)
           /\ connected \in BOOLEAN /\ call \in Calls
           /\ round \in {"resting", "asking", "announcing"} /\ todo \subseteq Children
           /\ announcing \in [Children -> {"no", "reading"}]
           /\ hydrating \in Hydrations /\ steers \in [Children -> Nat] /\ crashes \in Nat
           /\ drops \in Nat /\ astray \subseteq Children
           /\ OnWire \subseteq Children
           /\ \A c \in Children : row[c] \in Row
  <1>1. TypeOK
    BY DEF Announcing
  <1>2. wire \in Seq(Events) /\ \A e \in Events : e.child \in Children
    BY <1>1 DEF TypeOK, Events
  <1>3. OnWire \subseteq Children
    BY <1>2 DEF OnWire
  <1> QED  BY <1>1, <1>2, <1>3 DEF TypeOK, Sessions, Calls, Hydrations

LEMMA OpenCodeSteps ==
    ASSUME Announcing, NEW c \in Children, SubagentStarts(c) \/ SessionUpdated(c) \/ TurnEnds(c)
    PROVE  Announcing'
  <1>1. UNCHANGED <<row, announcing, announced, steers, crashes, drops, connected, call, round,
                    todo, hydrating>>
    BY DEF SubagentStarts, SessionUpdated, TurnEnds, rows, quiet, counts
  <1>2. NothingSaid
    BY <1>1, Types, QuietRows
  <1>3. session' \in Sessions
    <2>1. session' = session \/ \E s \in {"busy", "idle"} : session' = [session EXCEPT ![c] = s]
      BY DEF SubagentStarts, SessionUpdated, TurnEnds
    <2> QED  BY <2>1, Types DEF Sessions, Reports
  <1>4. wire' \in Seq(Events) /\ astray' \subseteq Children
    <2>1. \E types \in Seq(EventTypes) : Emit(c, types)
      BY EventSequences DEF SubagentStarts, SessionUpdated, TurnEnds
    <2> QED  BY <2>1, Types, EmitTypes
  <1> QED  BY <1>1, <1>2, <1>3, <1>4, Types, StepOf

LEMMA HandleEventStep ==
    ASSUME Announcing, HandleEvent
    PROVE  Announcing'
  <1>1. PICK e : e = Head(wire)
    OBVIOUS
  <1>2. e \in Events /\ wire' \in Seq(Events)
    BY <1>1, Types DEF HandleEvent
  <1>3. e.child \in Children /\ e.type \in EventTypes
    BY <1>2 DEF Events
  <1>4. PICK c \in Children : c = e.child
    BY <1>3
  <1>5. TypeOK /\ row[c] \in Row
    BY Types
  <1>6. UNCHANGED <<announced, session, connected, call, round, todo, steers, crashes, drops>>
    BY DEF HandleEvent, counts
  <1>7. NothingSaid /\ hydrating' \in Hydrations /\ astray' \subseteq Children
    <2>1. CASE e.type \in Reports
      <3>1. HandleStatus(c, e.type)
        BY <2>1, <1>1, <1>4 DEF HandleEvent
      <3>2. CASE row[c].status # "absent"
        <4>1. Apply(c, row[c], row[c], e.type) /\ UNCHANGED <<hydrating, astray>>
          BY <3>1, <3>2 DEF HandleStatus
        <4> QED  BY <4>1, <2>1, <1>5, Types, AppliesReport
      <3>3. CASE row[c].status = "absent"
        <4>1. UNCHANGED <<row, announcing>>
          BY <3>1, <3>3 DEF HandleStatus
        <4>2. hydrating' \in Hydrations /\ astray' \subseteq Children
          BY <3>1, <3>3, <2>1, Types DEF HandleStatus, Hydrations
        <4> QED  BY <4>1, <4>2, <1>5, QuietRows
      <3> QED  BY <3>2, <3>3
    <2>2. CASE e.type = "error"
      <3>1. HandleError(c)
        BY <2>2, <1>1, <1>4 DEF HandleEvent, Reports
      <3>2. \E r \in Row : r.summary = row[c].summary /\ Write(c, r)
        BY <3>1, <1>5, RowTypes DEF HandleError, Terminal
      <3>3. NothingSaid
        BY <3>1, <3>2, <1>5, WritesQuietly DEF HandleError
      <3>4. hydrating' \in Hydrations /\ astray' \subseteq Children
        BY <3>1, Types DEF HandleError, Hydrations
      <3> QED  BY <3>3, <3>4
    <2>3. CASE e.type \notin Reports /\ e.type # "error"
      <3>1. HandleSession(c)
        BY <2>3, <1>1, <1>4 DEF HandleEvent
      <3>2. Ensured(row[c]) \in Row /\ Ensured(row[c]).summary = row[c].summary
        BY <1>5, RowTypes
      <3> QED  BY <3>1, <3>2, <1>5, Types, WritesQuietly DEF HandleSession
    <2> QED  BY <2>1, <2>2, <2>3
  <1> QED  BY <1>2, <1>6, <1>7, Types, StepOf

LEMMA ConnectionSteps ==
    ASSUME Announcing, Connect \/ Disconnect
    PROVE  Announcing'
  <1>1. UNCHANGED <<row, announcing, announced, session, steers, crashes, call, round, todo,
                    hydrating>>
    BY DEF Connect, Disconnect, rows, quiet, counts
  <1>2. NothingSaid
    BY <1>1, Types, QuietRows
  <1>3. connected' \in BOOLEAN /\ drops' \in Nat /\ astray' \subseteq Children
    <2>1. connected' \in BOOLEAN
      BY DEF Connect, Disconnect
    <2>2. drops' = drops \/ drops' = drops + 1
      BY DEF Connect, Disconnect, counts
    <2>3. astray' = astray \/ astray' = astray \cup OnWire
      BY DEF Connect, Disconnect
    <2> QED  BY <2>1, <2>2, <2>3, Types
  <1>4. wire' \in Seq(Events)
    <2>1. <<>> \in Seq(Events)
      OBVIOUS
    <2> QED  BY <2>1, Types DEF Connect, Disconnect
  <1> QED  BY <1>1, <1>2, <1>3, <1>4, Types, StepOf

LEMMA HydrationSteps ==
    ASSUME Announcing, NEW c \in Children, HydrationEnds(c) \/ HydrationFails(c)
    PROVE  Announcing'
  <1>1. UNCHANGED <<announced, session, wire, connected, call, round, todo, steers, crashes, drops>>
    BY DEF HydrationEnds, HydrationFails, rows, counts
  <1>2. hydrating' \in Hydrations /\ hydrating[c] # "no"
    BY Types DEF HydrationEnds, HydrationFails, Hydrations
  <1>3. astray' \subseteq Children
    BY Types DEF HydrationEnds, HydrationFails
  <1>4. NothingSaid
    <2>1. CASE HydrationFails(c)
      BY <2>1, Types, QuietRows DEF HydrationFails, rows
    <2>2. CASE HydrationEnds(c)
      <3>1. PICK r : r = Ensured(row[c])
        OBVIOUS
      <3>2. r \in Row /\ r.summary = row[c].summary
        BY <3>1, Types, RowTypes
      <3>3. CASE hydrating[c] = "bare"
        BY <2>2, <3>1, <3>2, <3>3, Types, WritesQuietly DEF HydrationEnds
      <3>4. CASE hydrating[c] # "bare"
        <4>1. Apply(c, r, r, hydrating[c]) /\ hydrating[c] \in Reports
          BY <2>2, <3>1, <3>4, <1>2, Types DEF HydrationEnds, Hydrations
        <4> QED  BY <4>1, <3>2, Types, AppliesReport
      <3> QED  BY <3>3, <3>4
    <2> QED  BY <2>1, <2>2
  <1> QED  BY <1>1, <1>2, <1>3, <1>4, Types, StepOf

\* The announcement is made, and the row now has its summary; or it fails.
LEMMA AnnounceSteps ==
    ASSUME Announcing, NEW c \in Children, Announce(c) \/ AnnounceFails(c)
    PROVE  Announcing'
  <1>1. UNCHANGED <<session, wire, connected, call, round, todo, hydrating, steers, crashes, drops,
                    astray>>
    BY DEF Announce, AnnounceFails, counts
  <1>2. CASE AnnounceFails(c)
    <2>1. PICK r : r = [row[c] EXCEPT !.status = "failed"]
      OBVIOUS
    <2>2. r \in Row /\ r.summary = row[c].summary
      BY <2>1, Types, RowTypes DEF Terminal
    <2>3. row' = [row EXCEPT ![c] = r] /\ announcing' = [announcing EXCEPT ![c] = "no"]
      BY <2>1, <1>2 DEF AnnounceFails, Write
    <2>4. NothingSaid
      BY <2>2, <2>3, Types DEF NothingSaid
    <2> QED  BY <2>4, <1>1, <1>2, Types, StepOf DEF AnnounceFails
  <1>3. CASE Announce(c)
    <2>1. PICK r : r = [row[c] EXCEPT !.status = "completed", !.summary = TRUE]
      OBVIOUS
    <2>2. r \in Row /\ r.summary
      BY <2>1, Types DEF Row, Terminal
    <2>3. /\ row' = [row EXCEPT ![c] = r] /\ announcing' = [announcing EXCEPT ![c] = "no"]
          /\ announced' = [announced EXCEPT ![c] = announced[c] + 1]
          /\ ~row[c].summary
      BY <2>1, <1>3 DEF Announce, Write, Announcing, Accounted
    <2>4. Owed(row[c]) = 1 /\ Owed(r) = 0
      BY <2>2, <2>3 DEF Owed
    <2>5. Accounted'
      <3>1. ASSUME NEW d \in Children
            PROVE  /\ announcing'[d] = "reading" => ~row'[d].summary
                   /\ announced'[d] + Owed(row'[d]) <= 1 + steers[d] + crashes
        <4>1. CASE d = c
          <5>1. row'[d] = r /\ announcing'[d] = "no" /\ announced'[d] = announced[c] + 1
            BY <4>1, <2>3, Types
          <5>2. announced[c] + 1 <= 1 + steers[c] + crashes
            BY <2>4 DEF Announcing, Accounted
          <5>3. announced[c] \in Nat
            BY Types
          <5> QED  BY <4>1, <5>1, <5>2, <5>3, <2>4
        <4>2. CASE d # c
          <5>1. row'[d] = row[d] /\ announcing'[d] = announcing[d] /\ announced'[d] = announced[d]
            BY <4>2, <2>3, Types
          <5> QED  BY <5>1 DEF Announcing, Accounted
        <4> QED  BY <4>1, <4>2
      <3> QED  BY <3>1, <1>1 DEF Accounted, Owed
    <2>6. TypeOK'
      <3>1. row' \in [Children -> Row] /\ announced' \in [Children -> Nat]
            /\ announcing' \in [Children -> {"no", "reading"}]
        BY <2>2, <2>3, Types
      <3> QED  BY <3>1, <1>1, Types DEF TypeOK
    <2> QED  BY <2>5, <2>6 DEF Announcing
  <1> QED  BY <1>2, <1>3

\* The steps of a call that leave the rows alone.
LEMMA RequestSteps ==
    ASSUME Announcing, NEW w \in Workers,
           \/ StatusAnswered(w) \/ AnnouncementAwaited(w) \/ SteerTaken(w) \/ SteerAnswered(w)
           \/ AbortTaken(w) \/ SpawnTaken(w) \/ CallFails(w)
    PROVE  Announcing'
  <1>1. UNCHANGED <<row, announcing, announced, connected, round, todo, hydrating, steers, crashes,
                    drops>>
    BY DEF StatusAnswered, AnnouncementAwaited, SteerTaken, SteerAnswered, AbortTaken,
           SpawnTaken, CallFails, rows, counts
  <1>2. call[w].op # "none"
    BY DEF StatusAnswered, AnnouncementAwaited, SteerTaken, SteerAnswered, AbortTaken,
           SpawnTaken, CallFails, Spawning, Doing
  <1>3. PICK k \in Call : k = call[w]
    BY <1>2, CallFields, Types
  <1>4. k.child \in Children
    BY <1>3 DEF Call
  <1>5. PICK c \in Children : c = call[w].child
    BY <1>3, <1>4
  <1>6. NothingSaid
    BY <1>1, Types, QuietRows
  <1>7. call' \in Calls
    <2>1. \E n \in Call \cup {NoCall} : call' = [call EXCEPT ![w] = n]
      <3>1. CASE StatusAnswered(w)
        <4>1. \E s \in {"none", "busy"} : call' = [call EXCEPT ![w] = [k EXCEPT !.at = "answered", !.reply = s]]
          BY <3>1, <1>3 DEF StatusAnswered, Become
        <4> QED  BY <4>1, Types, CallTypes
      <3>2. CASE SteerTaken(w) \/ AbortTaken(w) \/ SpawnTaken(w)
        <4>1. call' = [call EXCEPT ![w] = [k EXCEPT !.at = "answered"]]
          BY <3>2, <1>3 DEF SteerTaken, AbortTaken, SpawnTaken, Become
        <4> QED  BY <4>1, Types, CallTypes
      <3>3. CASE SteerAnswered(w)
        BY <3>3, <1>5, Types, CallTypes DEF SteerAnswered, Become
      <3>4. CASE AnnouncementAwaited(w) \/ CallFails(w)
        BY <3>4 DEF AnnouncementAwaited, CallFails, Become
      <3> QED  BY <3>1, <3>2, <3>3, <3>4
    <2> QED  BY <2>1, Types DEF Calls
  <1>8. session' \in Sessions
    <2>1. session' = session \/ \E s \in {"busy", "idle", "unused"} : session' = [session EXCEPT ![c] = s]
      BY <1>5 DEF StatusAnswered, AnnouncementAwaited, SteerTaken, SteerAnswered, AbortTaken,
                  SpawnTaken, CallFails
    <2> QED  BY <2>1, Types DEF Sessions, Reports
  <1>9. wire' \in Seq(Events) /\ astray' \subseteq Children
    <2>1. \/ \E types \in Seq(EventTypes) : Emit(c, types)
          \/ wire' = wire /\ (astray' = astray \/ astray' = astray \cup {c})
      BY <1>5, EventSequences DEF StatusAnswered, AnnouncementAwaited, SteerTaken, SteerAnswered,
                                  AbortTaken, SpawnTaken, CallFails
    <2> QED  BY <2>1, Types, EmitTypes
  <1> QED  BY <1>1, <1>6, <1>7, <1>8, <1>9, Types, StepOf

\* The steps of a call that write the row's status.
LEMMA RowSteps ==
    ASSUME Announcing, NEW w \in Workers, SteerFails(w) \/ AbortEnds(w) \/ SpawnEnds(w)
    PROVE  Announcing'
  <1>1. /\ UNCHANGED <<announcing, announced, session, wire, connected, round, todo, hydrating,
                       steers, crashes, drops, astray>>
        /\ call' = [call EXCEPT ![w] = NoCall]
    BY DEF SteerFails, AbortEnds, SpawnEnds, counts, Become
  <1>2. call[w].op # "none"
    BY DEF SteerFails, AbortEnds, SpawnEnds, Spawning, Doing
  <1>3. PICK c \in Children : c = call[w].child
    BY <1>2, CallFields, Types
  <1>4. \/ Write(c, Ensured(row[c]))
        \/ \E s \in {"failed", "aborted"} : Write(c, [row[c] EXCEPT !.status = s])
    BY <1>3 DEF SteerFails, AbortEnds, SpawnEnds
  <1>5. \E r \in Row : r.summary = row[c].summary /\ Write(c, r)
    BY <1>4, Types, RowTypes DEF Terminal
  <1>6. NothingSaid
    BY <1>1, <1>5, Types, WritesQuietly
  <1>7. call' \in Calls
    BY <1>1, Types DEF Calls
  <1> QED  BY <1>1, <1>6, <1>7, Types, StepOf

\* The status OpenCode answered is applied to the row that was read before.
LEMMA StatusEndsStep ==
    ASSUME Announcing, NEW w \in Workers, StatusEnds(w)
    PROVE  Announcing'
  <1>1. UNCHANGED <<announced, session, wire, connected, round, todo, hydrating, steers, crashes,
                    drops>>
    BY DEF StatusEnds, counts
  <1>2. call[w].op # "none"
    BY DEF StatusEnds, Doing
  <1>3. PICK k \in Call : k = call[w]
    BY <1>2, CallFields, Types
  <1>4. k.child \in Children /\ k.snap \in Row /\ k.reply \in {"none", "busy"}
    BY <1>3 DEF Call
  <1>5. PICK c \in Children : c = k.child
    BY <1>4
  <1>6. NothingSaid
    <2>1. CASE k.reply = "none"
      <3>1. WriteAndAnnounce(c, row[c], k.snap.status = "completed")
        BY <2>1, <1>3, <1>5 DEF StatusEnds
      <3> QED  BY <3>1, Types, WritesAndAnnounces
    <2>2. CASE k.reply # "none"
      <3>1. Apply(c, row[c], k.snap, k.reply) /\ k.reply \in Reports
        BY <2>2, <1>3, <1>4, <1>5 DEF StatusEnds, Reports
      <3> QED  BY <3>1, <1>4, Types, AppliesReport
    <2> QED  BY <2>1, <2>2
  <1>7. call' \in Calls
    <2>1. \E n \in {NoCall, Started("status", c, "announcing")} : call' = [call EXCEPT ![w] = n]
      BY <1>3, <1>5 DEF StatusEnds, Become
    <2>2. Started("status", c, "announcing") \in Call
      BY Types, CallTypes DEF Operations
    <2> QED  BY <2>1, <2>2, Types DEF Calls
  <1>8. astray' \subseteq Children
    <2>1. astray' = astray \/ astray' = astray \cup {c}
      BY <1>3, <1>5 DEF StatusEnds
    <2> QED  BY <2>1, Types
  <1> QED  BY <1>1, <1>6, <1>7, <1>8, Types, StepOf

\* A prompt takes the summary away: one more announcement is owed.
LEMMA SteerRunsStep ==
    ASSUME Announcing, NEW w \in Workers, SteerRuns(w)
    PROVE  Announcing'
  <1>1. UNCHANGED <<announcing, announced, session, wire, connected, round, todo, hydrating,
                    crashes, drops, astray>>
    BY DEF SteerRuns
  <1>2. call[w].op # "none"
    BY DEF SteerRuns, Doing
  <1>3. PICK k \in Call : k = call[w]
    BY <1>2, CallFields, Types
  <1>4. k.child \in Children
    BY <1>3 DEF Call
  <1>5. PICK c \in Children : c = call[w].child
    BY <1>3, <1>4
  <1>6. PICK r : r = [status |-> "running", started |-> TRUE, summary |-> FALSE]
    OBVIOUS
  <1>7. r \in Row /\ ~r.summary
    BY <1>6 DEF Row, InFlight
  <1>8. row' = [row EXCEPT ![c] = r] /\ steers' = [steers EXCEPT ![c] = steers[c] + 1]
    BY <1>5, <1>6 DEF SteerRuns, Write
  <1>9. call' \in Calls
    <2>1. call' = [call EXCEPT ![w] = [k EXCEPT !.at = "sending"]]
      BY <1>3 DEF SteerRuns, Become
    <2> QED  BY <2>1, Types, CallTypes DEF Calls
  <1>10. TypeOK'
    <2>1. row' \in [Children -> Row] /\ steers' \in [Children -> Nat]
      BY <1>7, <1>8, Types
    <2> QED  BY <2>1, <1>1, <1>9, Types DEF TypeOK, Calls
  <1>11. Accounted'
    <2>1. ASSUME NEW d \in Children
          PROVE  /\ announcing[d] = "reading" => ~row'[d].summary
                 /\ announced[d] + Owed(row'[d]) <= 1 + steers'[d] + crashes
      <3>1. announced[d] \in Nat /\ steers[d] \in Nat /\ crashes \in Nat /\ Owed(row[d]) \in {0, 1}
            /\ announced[d] + Owed(row[d]) <= 1 + steers[d] + crashes
            /\ (announcing[d] = "reading" => ~row[d].summary)
        BY Types DEF Announcing, Accounted, Owed
      <3>2. CASE d = c
        <4>1. row'[d] = r /\ steers'[d] = steers[d] + 1 /\ Owed(r) = 1
          BY <3>2, <1>7, <1>8, Types DEF Owed
        <4> QED  BY <4>1, <3>1, <1>7
      <3>3. CASE d # c
        <4>1. row'[d] = row[d] /\ steers'[d] = steers[d]
          BY <3>3, <1>8, Types
        <4> QED  BY <4>1, <3>1
      <3> QED  BY <3>2, <3>3
    <2> QED  BY <2>1, <1>1 DEF Accounted, Owed
  <1> QED  BY <1>10, <1>11 DEF Announcing

LEMMA BeginStep ==
    ASSUME Announcing, NEW w \in Callers, NEW c \in Children, Begin(w, c)
    PROVE  Announcing'
  <1>1. UNCHANGED <<row, announcing, announced, session, wire, connected, round, todo, hydrating,
                    steers, crashes, drops, astray>>
    BY DEF Begin, rows, counts
  <1>2. \E k \in Call : call' = [call EXCEPT ![w] = k]
    <2>1. PICK k \in Offers(c) : call' = [call EXCEPT ![w] = k]
      BY DEF Begin, Become
    <2>2. k = StatusCall(c) \/ \E op \in Operations, at \in {"asked", "preparing"} : k = Started(op, c, at)
      BY DEF Offers, Operations
    <2> QED  BY <2>1, <2>2, Types, CallTypes
  <1>3. call' \in Calls /\ NothingSaid
    BY <1>1, <1>2, Types, QuietRows DEF Calls
  <1> QED  BY <1>1, <1>3, Types, StepOf

LEMMA SyncSteps ==
    ASSUME Announcing, SyncStep
    PROVE  Announcing'
  <1>1. UNCHANGED <<announced, session, wire, connected, hydrating, steers, crashes, drops, astray>>
    BY DEF SyncStep, SyncReconciles, SyncAsks, SyncListsPending, SyncAnnounces, SyncRests, rows, counts
  <1>2. round' \in {"resting", "asking", "announcing"} /\ todo' \subseteq Children
    BY Types DEF SyncStep, SyncReconciles, SyncAsks, SyncListsPending, SyncAnnounces, SyncRests
  <1>3. call' \in Calls
    <2>1. Sync \in Workers
      BY DEF Workers
    <2>2. \A c \in Children : StatusCall(c) \in Call /\ Started("status", c, "announcing") \in Call
      BY Types, CallTypes DEF Operations
    <2>3. call' = call \/ \E n \in Call \cup {NoCall} : call' = [call EXCEPT ![Sync] = n]
      BY <2>2 DEF SyncStep, SyncReconciles, SyncAsks, SyncListsPending, SyncAnnounces, SyncRests, Become
    <2> QED  BY <2>1, <2>3, Types DEF Calls
  <1>4. NothingSaid
    <2>1. CASE SyncReconciles
      <3>1. announcing' = announcing
        BY <2>1 DEF SyncReconciles
      <3>2. /\ row' \in [Children -> Row]
            /\ \A c \in Children : row'[c].summary = row[c].summary
        <4>1. CASE row' = [c \in Children |-> IF c \in Known THEN Ensured(row[c]) ELSE row[c]]
          <5>1. \A c \in Children : Ensured(row[c]) \in Row /\ Ensured(row[c]).summary = row[c].summary
            BY Types, RowTypes
          <5> QED  BY <4>1, <5>1, Types
        <4>2. CASE row' = row
          BY <4>2, Types
        <4> QED  BY <4>1, <4>2, <2>1 DEF SyncReconciles
      <3> QED  BY <3>1, <3>2, Types DEF NothingSaid
    <2>2. CASE SyncListsPending \/ SyncRests \/ \E c \in Children : SyncAsks(c)
      BY <2>2, Types, QuietRows DEF SyncListsPending, SyncRests, SyncAsks, rows
    <2>3. ASSUME NEW c \in Children, SyncAnnounces(c)
          PROVE  NothingSaid
      BY <2>3, Types, WritesAndAnnounces DEF SyncAnnounces
    <2> QED  BY <2>1, <2>2, <2>3 DEF SyncStep
  <1> QED  BY <1>1, <1>2, <1>3, <1>4, Types, StepOf

\* A crash between the two writes of an announcement.
LEMMA CrashStep ==
    ASSUME Announcing, Crash
    PROVE  Announcing'
  <1>1. /\ UNCHANGED <<row, session, steers, drops>> /\ crashes' = crashes + 1
        /\ connected' = FALSE /\ wire' = <<>> /\ round' = "resting" /\ todo' = {}
        /\ call' = [w \in Workers |-> NoCall]
        /\ announcing' = [c \in Children |-> "no"] /\ hydrating' = [c \in Children |-> "no"]
    BY DEF Crash
  <1>2. \/ announced' = announced
        \/ \E c \in Children : announced' = [announced EXCEPT ![c] = announced[c] + 1]
    BY DEF Crash
  <1>3. announced \in [Children -> Nat] /\ \A d \in Children : announced[d] \in Nat
    BY Types
  <1>4. /\ announced' \in [Children -> Nat]
        /\ \A d \in Children : announced'[d] = announced[d] \/ announced'[d] = announced[d] + 1
    <2>1. CASE announced' = announced
      BY <2>1, <1>3
    <2>2. ASSUME NEW c \in Children, announced' = [announced EXCEPT ![c] = announced[c] + 1]
          PROVE  /\ announced' \in [Children -> Nat]
                 /\ \A d \in Children : announced'[d] = announced[d] \/ announced'[d] = announced[d] + 1
      <3>1. announced[c] + 1 \in Nat
        BY <1>3
      <3> QED  BY <2>2, <3>1, <1>3
    <2> QED  BY <2>1, <2>2, <1>2
  <1>5. Accounted'
    <2>1. ASSUME NEW d \in Children
          PROVE  announced'[d] + Owed(row[d]) <= 1 + steers[d] + (crashes + 1)
      <3>1. steers[d] \in Nat /\ crashes \in Nat /\ Owed(row[d]) \in {0, 1}
            /\ announced[d] + Owed(row[d]) <= 1 + steers[d] + crashes
        BY Types DEF Announcing, Accounted, Owed
      <3> QED  BY <3>1, <1>3, <1>4
    <2> QED  BY <2>1, <1>1 DEF Accounted, Owed
  <1>6. TypeOK'
    <2>1. astray' \subseteq Children
      <3>1. PICK new : new \subseteq Children /\ astray' = astray \cup OnWire \cup new
        BY DEF Crash
      <3> QED  BY <3>1, Types
    <2>2. <<>> \in Seq(Events)
      OBVIOUS
    <2>3. connected' \in BOOLEAN
      BY <1>1
    <2> QED  BY <2>1, <2>2, <2>3, <1>1, <1>4, Types DEF TypeOK, Sessions, Events
  <1> QED  BY <1>5, <1>6 DEF Announcing

-------------------------------------------------------------------------------
(* The theorem.                                                            *)

LEMMA AnnouncingInit == Init => Announcing
  <1> SUFFICES ASSUME Init PROVE Announcing
    OBVIOUS
  <1>1. <<>> \in Seq([child : Children, type : EventTypes])
    OBVIOUS
  <1>2. NoRow \in Row /\ ~NoRow.summary /\ Owed(NoRow) = 1
    BY DEF NoRow, Row, Owed
  <1>3. TypeOK
    BY <1>1, <1>2 DEF Init, TypeOK
  <1>4. \A c \in Children : row[c] = NoRow /\ announcing[c] = "no" /\ announced[c] = 0
                           /\ steers[c] = 0 /\ crashes = 0
    BY DEF Init
  <1> QED  BY <1>2, <1>3, <1>4 DEF Announcing, Accounted

LEMMA AnnouncingStep == Announcing /\ [Next]_vars => Announcing'
  <1> SUFFICES ASSUME Announcing, [Next]_vars PROVE Announcing'
    OBVIOUS
  <1>1. CASE UNCHANGED vars
    BY <1>1 DEF vars, Announcing, TypeOK, Accounted, Owed
  <1>2. ASSUME NEW w \in Workers, CallStep(w)
        PROVE  Announcing'
    BY <1>2, RequestSteps, RowSteps, StatusEndsStep, SteerRunsStep DEF CallStep
  <1>3. ASSUME NEW c \in Children, ServerWork(c)
        PROVE  Announcing'
    BY <1>3, HydrationSteps, AnnounceSteps DEF ServerWork
  <1> QED
    BY <1>1, <1>2, <1>3, OpenCodeSteps, HandleEventStep, ConnectionSteps, BeginStep, SyncSteps,
       CrashStep DEF Next

LEMMA AnnouncingInvariant == Spec => []Announcing
  BY AnnouncingInit, AnnouncingStep, PTL DEF Spec

\* A background run is announced in its parent's transcript at most once for the
\* child and once more for every prompt sent to it, and only a crash between the
\* two writes of an announcement repeats it.
THEOREM AnnouncementsCounted == Spec => []AnnouncedOnce
  <1>1. Announcing => AnnouncedOnce
    <2> SUFFICES ASSUME Announcing, NEW c \in Children
                 PROVE  announced[c] <= 1 + steers[c] + crashes
      BY DEF Announcing, AnnouncedOnce
    <2>1. announced[c] \in Nat /\ steers[c] \in Nat /\ crashes \in Nat /\ Owed(row[c]) \in {0, 1}
          /\ announced[c] + Owed(row[c]) <= 1 + steers[c] + crashes
      BY Types DEF Announcing, Accounted, Owed
    <2> QED  BY <2>1
  <1> QED  BY <1>1, AnnouncingInvariant, PTL

==============================================================================
