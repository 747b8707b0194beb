--------------------------- MODULE RunService_proofs ---------------------------
(***************************************************************************)
(* Proofs about RunService, for every number of sessions, runs, slots,     *)
(* crashes and failing writes.                                             *)
(***************************************************************************)
EXTENDS RunService, FiniteSetTheorems, TLAPS

\* A row that exists belongs to a session.
RowsOwned == \A r \in Runs : row[r].state # "absent" => row[r].session \in Sessions

\* Where an executeRun call is says what its row can be: a queued row has no
\* call, a call that has not settled has a running row.
PhaseMatchesRow ==
    \A r \in Runs :
        /\ phase[r] \in {"claimed", "sending"} => row[r].state = "running"
        /\ phase[r] = "settled" => row[r].state \notin {"absent", "queued"}

DownIsEmpty == ~up => \A r \in Runs : phase[r] = "idle"

SetsMatchPhases ==
    /\ activeRunIds = Executing
    /\ activeSessionIds = {row[r].session : r \in Executing}

\* SessionExclusive is not inductive: Claim looks at activeSessionIds, which
\* has to be exactly the sessions of the executing runs.
Exclusion ==
    /\ TypeOK
    /\ RowsOwned
    /\ PhaseMatchesRow
    /\ DownIsEmpty
    /\ SetsMatchPhases
    /\ SessionExclusive

-------------------------------------------------------------------------------
\* Nothing executes and nothing is held when the service is created.
LEMMA InitExclusion == Init => Exclusion
  <1> SUFFICES ASSUME Init PROVE Exclusion
    OBVIOUS
  <1> USE DEF Init
  <1>1. TypeOK
    <2>1. row \in [Runs -> Row]
      BY DEF Row, RunStates
    <2>2. 0 \in 0..MaxCrashes /\ 0 \in 0..MaxDbFaults
      BY RunServiceAssumption
    <2>3. events \in [Runs -> Seq(EventTypes)] /\ sends \in [Runs -> Nat]
      OBVIOUS
    <2>4. phase \in [Runs -> Phases]
      BY DEF Phases
    <2> QED
      BY <2>1, <2>2, <2>3, <2>4 DEF TypeOK
  <1>2. RowsOwned /\ PhaseMatchesRow /\ DownIsEmpty
    BY DEF RowsOwned, PhaseMatchesRow, DownIsEmpty
  <1>3. Executing = {}
    BY DEF Executing
  <1> QED
    BY <1>1, <1>2, <1>3 DEF Exclusion, SetsMatchPhases, SessionExclusive

\* A step that leaves rows' sessions, phases' idleness and both sets alone.
LEMMA ExclusionStable ==
  ASSUME Exclusion, TypeOK', RowsOwned', PhaseMatchesRow', DownIsEmpty',
         Executing' = Executing,
         \A r \in Runs : row'[r].session = row[r].session,
         UNCHANGED <<activeRunIds, activeSessionIds>>
  PROVE  Exclusion'
  <1>1. Executing \subseteq Runs
    BY DEF Executing
  <1>2. SetsMatchPhases'
    BY <1>1 DEF Exclusion, SetsMatchPhases
  <1>3. SessionExclusive'
    BY <1>1 DEF Exclusion, SessionExclusive
  <1> QED
    BY <1>2, <1>3 DEF Exclusion

\* start finds no executeRun call, so putting rows back disturbs none.
LEMMA BootExclusion == Exclusion /\ Boot => Exclusion'
  <1> SUFFICES ASSUME Exclusion, Boot PROVE Exclusion'
    OBVIOUS
  <1> USE DEF Boot, Runs, table, budget
  <1>1. /\ \A r \in Runs : row'[r] = RecoverRow(r)
        /\ \A r \in Runs : /\ row'[r] \in Row
                           /\ row'[r].session = row[r].session
                           /\ row[r].state = "absent" <=> row'[r].state = "absent"
    BY DEF Exclusion, TypeOK, RecoverRow, Row, RunStates
  <1>2. TypeOK'
    <2>1. row' \in [Runs -> Row]
      BY <1>1
    <2>2. events' \in [Runs -> Seq(EventTypes)]
      BY DEF Exclusion, TypeOK, EventTypes
    <2> QED
      BY <2>1, <2>2 DEF Exclusion, TypeOK
  <1>3. RowsOwned'
    BY <1>1 DEF Exclusion, RowsOwned
  <1>4. PhaseMatchesRow'
    BY DEF Exclusion, DownIsEmpty, PhaseMatchesRow
  <1>5. DownIsEmpty' /\ Executing' = Executing
    BY DEF DownIsEmpty, Executing
  <1> QED
    BY <1>1, <1>2, <1>3, <1>4, <1>5, ExclusionStable

\* A crash forgets the calls and both sets together.
LEMMA CrashExclusion == Exclusion /\ Crash => Exclusion'
  <1> SUFFICES ASSUME Exclusion, Crash PROVE Exclusion'
    OBVIOUS
  <1> USE DEF Crash, table
  <1>1. TypeOK'
    <2>1. crashes' \in 0..MaxCrashes
      BY RunServiceAssumption DEF Exclusion, TypeOK
    <2>2. phase' \in [Runs -> Phases]
      BY DEF Phases
    <2> QED
      BY <2>1, <2>2 DEF Exclusion, TypeOK
  <1>2. RowsOwned' /\ PhaseMatchesRow' /\ DownIsEmpty'
    BY DEF Exclusion, RowsOwned, PhaseMatchesRow, DownIsEmpty
  <1>3. Executing' = {}
    BY DEF Executing
  <1> QED
    BY <1>1, <1>2, <1>3 DEF Exclusion, SetsMatchPhases, SessionExclusive

\* Answering a known key writes nothing.
LEMMA AnswerDuplicateExclusion ==
  ASSUME NEW k \in Keys, Exclusion, AnswerDuplicate(k)
  PROVE  Exclusion'
  <1>1. TypeOK'
    BY DEF Exclusion, TypeOK, AnswerDuplicate, RunsWithKey, table, memory, budget, Runs
  <1> QED
    BY <1>1, ExclusionStable
    DEF AnswerDuplicate, table, memory, budget, Exclusion, RowsOwned,
        PhaseMatchesRow, DownIsEmpty, Executing

\* A new row has no executeRun call and takes nothing from the others.
LEMMA CreateRunExclusion ==
  ASSUME NEW r \in Runs, NEW s \in Sessions, NEW k \in Keys \cup {NoKey},
         Exclusion, CreateRun(r, s, k)
  PROVE  Exclusion'
  <1> USE DEF CreateRun
  <1>1. row' = [row EXCEPT ![r] = NewRow(s, k)] /\ NewRow(s, k) \in Row
    BY DEF NewRow, Row, RunStates
  <1>2. row[r].state = "absent" /\ phase[r] = "idle"
    BY DEF IsNextId, Exclusion, PhaseMatchesRow, TypeOK, Phases
  <1>3. TypeOK'
    <2>1. row' \in [Runs -> Row]
      BY <1>1 DEF Exclusion, TypeOK
    <2>2. events' \in [Runs -> Seq(EventTypes)]
      BY DEF Exclusion, TypeOK, EventTypes
    <2>3. answers' \subseteq Keys \X Runs
      BY DEF Exclusion, TypeOK
    <2> QED
      BY <2>1, <2>2, <2>3 DEF Exclusion, TypeOK, budget
  <1>4. RowsOwned' /\ PhaseMatchesRow' /\ DownIsEmpty'
    BY <1>1, <1>2 DEF Exclusion, TypeOK, RowsOwned, PhaseMatchesRow, DownIsEmpty, NewRow
  <1>5. /\ Executing' = Executing /\ r \notin Executing
        /\ \A q \in Executing : row'[q] = row[q]
    BY <1>1, <1>2 DEF Executing, Exclusion, TypeOK
  <1>6. SetsMatchPhases' /\ SessionExclusive'
    BY <1>5 DEF Exclusion, SetsMatchPhases, SessionExclusive
  <1> QED
    BY <1>3, <1>4, <1>6 DEF Exclusion

\* A claim takes a session that no executing run has.
LEMMA ClaimExclusion ==
  ASSUME NEW r \in Runs, Exclusion, Claim(r)
  PROVE  Exclusion'
  <1> USE DEF Claim
  <1>1. /\ row[r].state = "queued" /\ phase[r] = "idle"
        /\ row[r].session \in Sessions /\ row[r].session \notin activeSessionIds
    BY DEF IsNextQueuedRun, Claimable, Exclusion, PhaseMatchesRow, TypeOK, Phases, RowsOwned
  <1>2. \A q \in Runs : row'[q].session = row[q].session
    BY DEF Exclusion, TypeOK, Row
  <1>3. TypeOK'
    <2>1. row' \in [Runs -> Row]
      BY DEF Exclusion, TypeOK, Row, RunStates
    <2> QED
      BY <1>1, <2>1 DEF Exclusion, TypeOK, budget, Phases
  <1>4. RowsOwned' /\ PhaseMatchesRow' /\ DownIsEmpty'
    BY <1>1 DEF Exclusion, TypeOK, Row, RowsOwned, PhaseMatchesRow, DownIsEmpty, BetweenClaims
  <1>5. Executing' = Executing \cup {r}
    BY DEF Executing, Exclusion, TypeOK
  <1>6. SetsMatchPhases'
    BY <1>2, <1>5 DEF Exclusion, SetsMatchPhases, Executing
  <1>7. SessionExclusive'
    BY <1>1, <1>2, <1>5 DEF Exclusion, SetsMatchPhases, SessionExclusive, Executing
  <1> QED
    BY <1>3, <1>4, <1>6, <1>7 DEF Exclusion

\* The steps of executeRun between claim and release: none of them changes
\* which runs execute.
LEMMA ExecuteExclusion ==
  ASSUME NEW r \in Runs, Exclusion,
         \/ Start(r) \/ StartFails(r) \/ Complete(r) \/ Fail(r)
         \/ CompleteFails(r) \/ OutcomeLost(r)
  PROVE  Exclusion'
  <1>1. /\ phase[r] \in {"claimed", "sending"} /\ row[r].state = "running" /\ up
        /\ \E p \in {"sending", "settled"} : phase' = [phase EXCEPT ![r] = p]
        /\ UNCHANGED <<up, dispatchInFlight, activeRunIds, activeSessionIds, answers, crashes>>
    BY DEF Start, StartFails, Complete, Fail, CompleteFails, OutcomeLost, Settling,
           Idle, Exclusion, PhaseMatchesRow, budget, table
  <1>2. \/ row' = row
        \/ /\ phase' = [phase EXCEPT ![r] = "settled"]
           /\ \E state \in {"completed", "failed"} : row' = [row EXCEPT ![r].state = state]
    BY DEF Start, StartFails, Complete, Fail, CompleteFails, OutcomeLost, Settling,
           StoreOutcome, table
  <1>3. row' \in [Runs -> Row] /\ \A q \in Runs : row'[q].session = row[q].session
    <2>1. CASE row' = row
      BY <2>1 DEF Exclusion, TypeOK
    <2>2. ASSUME NEW state \in {"completed", "failed"},
                 row' = [row EXCEPT ![r].state = state]
          PROVE  row' \in [Runs -> Row] /\ \A q \in Runs : row'[q].session = row[q].session
      <3>1. [row[r] EXCEPT !.state = state] \in Row
        BY DEF Exclusion, TypeOK, Row, RunStates
      <3>2. [row[r] EXCEPT !.state = state].session = row[r].session
        BY DEF Exclusion, TypeOK, Row
      <3> QED
        BY <2>2, <3>1, <3>2 DEF Exclusion, TypeOK
    <2> QED
      BY <1>2, <2>1, <2>2
  <1>4. \/ events' = events
        \/ \E type \in EventTypes : events' = [events EXCEPT ![r] = Append(@, type)]
    BY DEF Start, StartFails, Complete, Fail, CompleteFails, OutcomeLost, StoreOutcome,
           table, EventTypes
  <1>5. events' \in [Runs -> Seq(EventTypes)]
    <2>1. CASE events' = events
      BY <2>1 DEF Exclusion, TypeOK
    <2>2. ASSUME NEW type \in EventTypes, events' = [events EXCEPT ![r] = Append(@, type)]
          PROVE  events' \in [Runs -> Seq(EventTypes)]
      <3>1. Append(events[r], type) \in Seq(EventTypes)
        BY DEF Exclusion, TypeOK
      <3> QED
        BY <2>2, <3>1 DEF Exclusion, TypeOK
    <2> QED
      BY <1>4, <2>1, <2>2
  <1>5a. sends' \in [Runs -> Nat]
    BY DEF Start, StartFails, Complete, Fail, CompleteFails, OutcomeLost, Settling,
           Exclusion, TypeOK
  <1>5b. dbFaults' \in 0..MaxDbFaults
    BY RunServiceAssumption
    DEF Start, StartFails, Complete, Fail, CompleteFails, OutcomeLost, budget,
        Exclusion, TypeOK
  <1>6. TypeOK'
    BY <1>1, <1>3, <1>5, <1>5a, <1>5b DEF Exclusion, TypeOK, Phases
  <1>7. RowsOwned'
    BY <1>1, <1>2, <1>3 DEF Exclusion, RowsOwned, TypeOK, Row
  <1>8. PhaseMatchesRow'
    BY <1>1, <1>2 DEF Exclusion, PhaseMatchesRow, TypeOK, Row
  <1>9. DownIsEmpty' /\ Executing' = Executing
    BY <1>1 DEF Exclusion, DownIsEmpty, Executing, TypeOK
  <1> QED
    BY <1>1, <1>3, <1>6, <1>7, <1>8, <1>9, ExclusionStable

\* Leaving the dispatch loop changes only dispatchInFlight.
LEMMA EndDispatchExclusion == Exclusion /\ EndDispatch => Exclusion'
  <1> SUFFICES ASSUME Exclusion, EndDispatch PROVE Exclusion'
    OBVIOUS
  <1>1. dispatchInFlight' = FALSE
    BY DEF EndDispatch
  <1> QED
    BY <1>1, ExclusionStable
    DEF EndDispatch, table, budget, Exclusion, TypeOK, RowsOwned, PhaseMatchesRow,
        DownIsEmpty, Executing

\* A release frees the slot and the session of the run it ends.
LEMMA ReleaseExclusion ==
  ASSUME NEW r \in Runs, Exclusion, Release(r)
  PROVE  Exclusion'
  <1> USE DEF Release, table, budget
  <1>1. TypeOK'
    BY DEF Exclusion, TypeOK, Phases
  <1>2. RowsOwned' /\ PhaseMatchesRow' /\ DownIsEmpty'
    BY DEF Exclusion, TypeOK, RowsOwned, PhaseMatchesRow, DownIsEmpty, Idle
  <1>3. Executing' = Executing \ {r} /\ r \in Executing
    BY DEF Executing, Exclusion, TypeOK
  <1>4. SetsMatchPhases'
    BY <1>3 DEF Exclusion, SetsMatchPhases, SessionExclusive
  <1>5. SessionExclusive'
    BY <1>3 DEF Exclusion, SessionExclusive
  <1> QED
    BY <1>1, <1>2, <1>4, <1>5 DEF Exclusion

\* Every step preserves the invariant.
LEMMA NextExclusion == Exclusion /\ [Next]_vars => Exclusion'
  <1> SUFFICES ASSUME Exclusion, [Next]_vars PROVE Exclusion'
    OBVIOUS
  <1>1. CASE UNCHANGED vars
    BY <1>1
    DEF vars, Exclusion, TypeOK, RowsOwned, PhaseMatchesRow, DownIsEmpty,
        SetsMatchPhases, SessionExclusive, Executing
  <1>2. CASE Next
    BY <1>2, BootExclusion, CrashExclusion, AnswerDuplicateExclusion, CreateRunExclusion,
       ClaimExclusion, ExecuteExclusion, EndDispatchExclusion, ReleaseExclusion
    DEF Next, Dispatch, Settle
  <1> QED
    BY <1>1, <1>2

\* The inductive invariant holds in every reachable state.
THEOREM SpecExclusion == Spec => []Exclusion
  BY InitExclusion, NextExclusion, PTL DEF Spec

\* Every reachable state of the run service is well typed.
THEOREM TypeCorrect == Spec => []TypeOK
  <1>1. Exclusion => TypeOK
    BY DEF Exclusion
  <1> QED
    BY <1>1, SpecExclusion, PTL

\* However many runs, sessions, crashes and failing writes there are, the
\* dispatcher never executes two runs of one session together.
THEOREM OneRunPerSession == Spec => []SessionExclusive
  <1>1. Exclusion => SessionExclusive
    BY DEF Exclusion
  <1> QED
    BY <1>1, SpecExclusion, PTL

-------------------------------------------------------------------------------
(* The cap.  It speaks of activeRunIds, whose size kick looks at; Exclusion  *)
(* says that these are the executing runs.                                   *)

CapRespected == Cardinality(activeRunIds) <= MaxConcurrentRuns

\* What a step may do to the slots: nothing, empty them, take a free one or
\* give one back.
SlotStep ==
    \/ activeRunIds' = activeRunIds
    \/ activeRunIds' = {}
    \/ \E r \in Runs : HasFreeSlot /\ activeRunIds' = activeRunIds \cup {r}
    \/ \E r \in Runs : activeRunIds' = activeRunIds \ {r}

\* Every step moves the executing runs in one of these ways.
LEMMA SlotSteps == [Next]_vars => SlotStep
  <1> SUFFICES ASSUME [Next]_vars PROVE SlotStep
    OBVIOUS
  <1> USE DEF SlotStep, memory
  <1>1. CASE UNCHANGED vars
    BY <1>1 DEF vars
  <1>2. CASE Boot \/ Crash
    BY <1>2 DEF Boot, Crash
  <1>3. CASE \/ \E k \in Keys : AnswerDuplicate(k)
             \/ \E r \in Runs, s \in Sessions, k \in Keys \cup {NoKey} : CreateRun(r, s, k)
    BY <1>3 DEF AnswerDuplicate, CreateRun
  <1>4. CASE EndDispatch \/ \E r \in Runs : Start(r) \/ StartFails(r)
    BY <1>4 DEF EndDispatch, Start, StartFails
  <1>5. CASE \E r \in Runs : Claim(r)
    BY <1>5 DEF Claim
  <1>6. CASE \E r \in Runs : Complete(r) \/ Fail(r) \/ CompleteFails(r) \/ OutcomeLost(r)
    BY <1>6 DEF Complete, Fail, CompleteFails, OutcomeLost, Settling
  <1>7. CASE \E r \in Runs : Release(r)
    BY <1>7 DEF Release
  <1> QED
    BY <1>1, <1>2, <1>3, <1>4, <1>5, <1>6, <1>7 DEF Next, Dispatch, Settle

\* Runs are finitely many, so the executing ones can be counted.
LEMMA SlotsFinite ==
  ASSUME Exclusion
  PROVE  IsFiniteSet(activeRunIds) /\ Cardinality(activeRunIds) \in Nat
  <1>1. IsFiniteSet(Runs)
    BY RunServiceAssumption, FS_Interval DEF Runs
  <1>2. activeRunIds \subseteq Runs
    BY DEF Exclusion, TypeOK
  <1> QED
    BY <1>1, <1>2, FS_Subset, FS_CardinalityType

\* Only a claim adds to the executing runs, and it looks for a free slot first.
LEMMA StepCap ==
  ASSUME Exclusion, CapRespected, SlotStep
  PROVE  CapRespected'
  <1>0. /\ IsFiniteSet(activeRunIds)
        /\ Cardinality(activeRunIds) \in Nat
        /\ MaxConcurrentRuns \in Nat
    BY SlotsFinite, RunServiceAssumption
  <1>1. CASE activeRunIds' = activeRunIds
    BY <1>1 DEF CapRespected
  <1>2. CASE activeRunIds' = {}
    BY <1>0, <1>2, FS_EmptySet DEF CapRespected
  <1>3. ASSUME NEW r \in Runs, HasFreeSlot, activeRunIds' = activeRunIds \cup {r}
        PROVE  CapRespected'
    <2>1. Cardinality(activeRunIds \cup {r}) \in
             {Cardinality(activeRunIds), Cardinality(activeRunIds) + 1}
      BY <1>0, FS_AddElement
    <2> QED
      BY <1>0, <1>3, <2>1 DEF CapRespected, HasFreeSlot
  <1>4. ASSUME NEW r \in Runs, activeRunIds' = activeRunIds \ {r}
        PROVE  CapRespected'
    <2>1. Cardinality(activeRunIds \ {r}) \in
             {Cardinality(activeRunIds), Cardinality(activeRunIds) - 1}
      BY <1>0, FS_RemoveElement
    <2> QED
      BY <1>0, <1>4, <2>1 DEF CapRespected
  <1> QED
    BY <1>1, <1>2, <1>3, <1>4 DEF SlotStep

\* The slots and sessions kick holds are those of the runs being executed, and
\* never more than MaxConcurrentRuns, whatever crashes or cannot be written.
THEOREM SlotsAccountedFor == Spec => []SlotAccounting
  <1>1. Init => CapRespected
    BY RunServiceAssumption, FS_EmptySet DEF Init, CapRespected
  <1>2. Exclusion /\ CapRespected /\ [Next]_vars => CapRespected'
    BY SlotSteps, StepCap
  <1>3. Exclusion /\ CapRespected => SlotAccounting
    BY DEF Exclusion, SetsMatchPhases, CapRespected, SlotAccounting
  <1> QED
    BY <1>1, <1>2, <1>3, SpecExclusion, PTL DEF Spec

-------------------------------------------------------------------------------
(* Deduplication.                                                          *)

\* A key belongs to at most one row, and an answer names that row.
KeysKnown ==
    /\ \A q, r \in Runs :
        /\ row[q].state # "absent" /\ row[r].state # "absent"
        /\ row[q].key = row[r].key /\ row[q].key # NoKey
        => q = r
    /\ \A a \in answers : row[a[2]].state # "absent" /\ row[a[2]].key = a[1]

\* Rows keep their key, and stay there once they are.
KeysKept ==
    \A r \in Runs :
        /\ row'[r].key = row[r].key
        /\ row'[r].state = "absent" <=> row[r].state = "absent"

\* Every step but the creation of a run leaves the keys alone.
LEMMA KeysSteps ==
  ASSUME Exclusion, [Next]_vars
  PROVE  \/ \E r \in Runs, s \in Sessions, k \in Keys \cup {NoKey} : CreateRun(r, s, k)
         \/ \E k \in Keys : AnswerDuplicate(k)
         \/ KeysKept /\ answers' = answers
  <1> USE DEF KeysKept
  <1>1. CASE UNCHANGED vars
    BY <1>1 DEF vars
  <1>2. CASE Boot
    BY <1>2 DEF Boot, RecoverRow, Exclusion, TypeOK, Row
  <1>3. CASE Crash \/ EndDispatch
    BY <1>3 DEF Crash, EndDispatch, table
  <1>4. CASE \E r \in Runs : Claim(r)
    BY <1>4 DEF Claim, IsNextQueuedRun, Claimable, Exclusion, TypeOK, Row
  <1>5. CASE \E r \in Runs : Start(r) \/ StartFails(r) \/ OutcomeLost(r) \/ Release(r)
    BY <1>5 DEF Start, StartFails, OutcomeLost, Settling, Release, table
  <1>6. CASE \E r \in Runs : Complete(r) \/ Fail(r) \/ CompleteFails(r)
    BY <1>6
    DEF Complete, Fail, CompleteFails, Settling, StoreOutcome, Exclusion, TypeOK, Row,
        PhaseMatchesRow
  <1> QED
    BY <1>1, <1>2, <1>3, <1>4, <1>5, <1>6 DEF Next, Dispatch, Settle

\* Every step keeps the answers and the keys of the rows in agreement.
LEMMA StepKeys ==
  ASSUME Exclusion, KeysKnown, [Next]_vars
  PROVE  KeysKnown'
  <1> USE DEF KeysKnown
  <1>0. answers \subseteq Keys \X Runs /\ NoKey \notin Keys
    BY RunServiceAssumption DEF Exclusion, TypeOK
  <1>1. ASSUME NEW r \in Runs, NEW s \in Sessions, NEW k \in Keys \cup {NoKey},
               CreateRun(r, s, k)
        PROVE  KeysKnown'
    <2>1. /\ row[r].state = "absent"
          /\ k = NoKey \/ \A q \in Runs : row[q].state = "absent" \/ row[q].key # k
          /\ row' = [row EXCEPT ![r] = [state |-> "queued", session |-> s, key |-> k]]
          /\ answers' = IF k = NoKey THEN answers ELSE answers \cup {<<k, r>>}
      BY <1>1 DEF CreateRun, IsNextId, RunsWithKey, NewRow
    <2>2. /\ row'[r].state = "queued" /\ row'[r].key = k
          /\ \A q \in Runs : q # r => row'[q] = row[q]
      BY <2>1 DEF Exclusion, TypeOK
    <2> QED
      BY <1>0, <2>1, <2>2
  <1>2. ASSUME NEW k \in Keys, AnswerDuplicate(k)
        PROVE  KeysKnown'
    BY <1>0, <1>2 DEF AnswerDuplicate, RunsWithKey, table
  <1>3. CASE KeysKept /\ answers' = answers
    BY <1>0, <1>3 DEF KeysKept
  <1> QED
    BY <1>1, <1>2, <1>3, KeysSteps

\* createRun answers an idempotency key with one run for ever, for every number
\* of keys, runs, crashes and failing writes.
THEOREM KeysAnsweredOnce == Spec => []IdempotentAnswers
  <1>1. Init => KeysKnown
    BY DEF Init, KeysKnown
  <1>2. Exclusion /\ KeysKnown /\ [Next]_vars => KeysKnown'
    BY StepKeys
  <1>3. Exclusion /\ KeysKnown => IdempotentAnswers
    <2> SUFFICES ASSUME Exclusion, KeysKnown, NEW a \in answers, NEW b \in answers, a[1] = b[1]
                 PROVE  a[2] = b[2]
      BY DEF IdempotentAnswers
    <2>1. a[1] \in Keys /\ a[2] \in Runs /\ b[2] \in Runs /\ NoKey \notin Keys
      BY RunServiceAssumption DEF Exclusion, TypeOK
    <2> QED
      BY <2>1 DEF KeysKnown
  <1> QED
    BY <1>1, <1>2, <1>3, SpecExclusion, PTL DEF Spec

-------------------------------------------------------------------------------
(* Wake-ups.                                                               *)

\* A claimed run is started before the loop of kick ends.
ClaimedInDispatch == \A r \in Runs : phase[r] = "claimed" => dispatchInFlight

WakeupKept == ClaimedInDispatch /\ NoLostWakeup

\* A step that makes a queued run runnable leaves the dispatch loop in flight.
LEMMA StepWakeup ==
  ASSUME Exclusion, WakeupKept, [Next]_vars
  PROVE  WakeupKept'
  <1> USE DEF WakeupKept, ClaimedInDispatch, NoLostWakeup, Idle
  <1>1. CASE UNCHANGED vars
    BY <1>1 DEF vars, HasRunnableQueuedRuns, HasFreeSlot, Claimable
  <1>2. CASE Boot \/ Crash
    BY <1>2 DEF Boot, Crash
  <1>3. ASSUME NEW k \in Keys, AnswerDuplicate(k)
        PROVE  WakeupKept'
    BY <1>3 DEF AnswerDuplicate, table, memory, HasRunnableQueuedRuns, HasFreeSlot, Claimable
  <1>4. ASSUME NEW r \in Runs, NEW s \in Sessions, NEW k \in Keys \cup {NoKey},
               CreateRun(r, s, k)
        PROVE  WakeupKept'
    BY <1>4 DEF CreateRun
  <1>5. ASSUME NEW r \in Runs, Claim(r)
        PROVE  WakeupKept'
    BY <1>5 DEF Claim, BetweenClaims
  <1>6. ASSUME NEW r \in Runs, Start(r) \/ StartFails(r)
        PROVE  WakeupKept'
    BY <1>6 DEF Start, StartFails, Exclusion, TypeOK
  <1>7. CASE EndDispatch
    BY <1>7
    DEF EndDispatch, BetweenClaims, table, HasRunnableQueuedRuns, HasFreeSlot, Claimable
  <1>8. ASSUME NEW r \in Runs, Complete(r) \/ Fail(r) \/ CompleteFails(r) \/ OutcomeLost(r)
        PROVE  WakeupKept'
    <2>1. /\ UNCHANGED <<up, dispatchInFlight, activeRunIds, activeSessionIds>>
          /\ ClaimedInDispatch'
      BY <1>8 DEF Complete, Fail, CompleteFails, OutcomeLost, Settling, Exclusion, TypeOK
    <2>2. \A q \in Runs : row'[q].state = "queued" => row'[q] = row[q]
      BY <1>8
      DEF Complete, Fail, CompleteFails, OutcomeLost, StoreOutcome, table, Exclusion,
          TypeOK, Row
    <2>3. Claimable' \subseteq Claimable
      BY <2>1, <2>2 DEF Claimable
    <2> QED
      BY <2>1, <2>3 DEF HasRunnableQueuedRuns, HasFreeSlot
  <1>9. ASSUME NEW r \in Runs, Release(r)
        PROVE  WakeupKept'
    BY <1>9 DEF Release
  <1> QED
    BY <1>1, <1>2, <1>3, <1>4, <1>5, <1>6, <1>7, <1>8, <1>9 DEF Next, Dispatch, Settle

\* Whenever the event loop is free no run waits that could be taken up, for every
\* number of sessions, runs, slots, crashes and failing writes.
THEOREM WakeupsNotLost == Spec => []NoLostWakeup
  <1>1. Init => WakeupKept
    BY DEF Init, WakeupKept, ClaimedInDispatch, NoLostWakeup, Idle
  <1>2. Exclusion /\ WakeupKept /\ [Next]_vars => WakeupKept'
    BY StepWakeup
  <1>3. WakeupKept => NoLostWakeup
    BY DEF WakeupKept
  <1> QED
    BY <1>1, <1>2, <1>3, SpecExclusion, PTL DEF Spec

-------------------------------------------------------------------------------
(* The event log.                                                          *)

Count(log, type) == Cardinality({i \in DOMAIN log : log[i] = type})

\* Appending an event to a log counts one more of its type, and nothing else.
LEMMA CountAppend ==
  ASSUME NEW log \in Seq(EventTypes), NEW type \in EventTypes, NEW t
  PROVE  /\ Count(log, t) \in Nat
         /\ Count(Append(log, type), t) = Count(log, t) + (IF type = t THEN 1 ELSE 0)
  <1> DEFINE S == {i \in DOMAIN log : log[i] = t}
             T == {i \in DOMAIN Append(log, type) : Append(log, type)[i] = t}
             n == Len(log) + 1
  <1>1. Len(log) \in Nat /\ DOMAIN log = 1..Len(log)
    OBVIOUS
  <1>2. IsFiniteSet(S) /\ Cardinality(S) \in Nat
    <2>1. IsFiniteSet(1..Len(log)) /\ S \subseteq 1..Len(log)
      BY <1>1, FS_Interval
    <2> QED
      BY <2>1, FS_Subset, FS_CardinalityType
  <1>3. n \notin S
    BY <1>1
  <1>4. T = IF type = t THEN S \cup {n} ELSE S
    BY <1>1
  <1>5. Cardinality(S \cup {n}) = Cardinality(S) + 1
    BY <1>2, <1>3, FS_AddElement
  <1> HIDE DEF S, T
  <1>6. Cardinality(T) = Cardinality(S) + (IF type = t THEN 1 ELSE 0)
    BY <1>2, <1>4, <1>5
  <1> QED
    BY <1>2, <1>6 DEF Count, S, T

LastEvent(r) == events[r][Len(events[r])]

\* The part of EventLogMatchesState that is about one run's log and row.
LogTellsState(r) ==
    /\ events[r] = <<>> <=> row[r].state = "absent"
    /\ \A i \in DOMAIN events[r] :
        /\ events[r][i] = "accepted" <=> i = 1
        /\ events[r][i] = "started" => events[r][i - 1] \in {"accepted", "recovered"}
        /\ events[r][i] \in Terminal =>
            /\ i = Len(events[r])
            /\ events[r][i - 1] = "started"
            /\ events[r][i] = row[r].state
    /\ Settled(r) => LastEvent(r) = row[r].state

\* What the last event is, by where the run is.
LastTellsStage(r) ==
    /\ row[r].state = "queued" \/ phase[r] = "claimed" =>
            LastEvent(r) \in {"accepted", "recovered"}
    /\ phase[r] = "sending" => LastEvent(r) = "started"

\* A message is sent once per start, and a run that is to be started has not been
\* sent more often than it was recovered.
SendsAreStarts(r) ==
    /\ sends[r] = Count(events[r], "started")
    /\ sends[r] <= 1 + Count(events[r], "recovered")
    /\ row[r].state \in {"absent", "queued"} \/ phase[r] = "claimed" =>
            sends[r] <= Count(events[r], "recovered")

LogKept == \A r \in Runs : LogTellsState(r) /\ LastTellsStage(r) /\ SendsAreStarts(r)

\* What a step may do to a run, its log and its executeRun.
LogStep(r) ==
    \/ /\ UNCHANGED <<events[r], sends[r]>>
       /\ \/ row'[r].state = row[r].state /\ phase'[r] \in {phase[r], "settled", "idle"}
          \/ row[r].state = "queued" /\ row'[r].state = "running" /\ phase'[r] = "claimed"
    \/ /\ row[r].state = "absent" /\ row'[r].state = "queued"
       /\ events'[r] = Append(events[r], "accepted")
       /\ UNCHANGED <<phase[r], sends[r]>>
    \/ /\ row[r].state = "running" /\ row'[r].state = "queued"
       /\ events'[r] = Append(events[r], "recovered")
       /\ phase[r] = "idle"
       /\ UNCHANGED <<phase[r], sends[r]>>
    \/ /\ phase[r] = "claimed" /\ phase'[r] = "sending" /\ UNCHANGED row[r]
       /\ events'[r] = Append(events[r], "started")
       /\ sends'[r] = sends[r] + 1
    \/ /\ phase[r] = "sending" /\ phase'[r] = "settled"
       /\ row'[r].state \in Terminal
       /\ events'[r] = Append(events[r], row'[r].state)
       /\ UNCHANGED sends[r]

\* Every step appends at most one event to each log, in one of these ways.
LEMMA LogSteps ==
  ASSUME Exclusion, [Next]_vars, NEW r \in Runs
  PROVE  LogStep(r)
  <1> USE DEF LogStep, Exclusion, TypeOK, Row
  <1>1. CASE UNCHANGED vars
    BY <1>1 DEF vars
  <1>2. CASE Boot
    BY <1>2 DEF Boot, RecoverRow, Running, DownIsEmpty
  <1>3. CASE Crash \/ EndDispatch
    BY <1>3 DEF Crash, EndDispatch, table
  <1>4. ASSUME NEW k \in Keys, AnswerDuplicate(k)
        PROVE  LogStep(r)
    BY <1>4 DEF AnswerDuplicate, table, memory
  <1>5. ASSUME NEW q \in Runs, NEW s \in Sessions, NEW k \in Keys \cup {NoKey},
               CreateRun(q, s, k)
        PROVE  LogStep(r)
    <2>1. /\ row[q].state = "absent"
          /\ row' = [row EXCEPT ![q] = [state |-> "queued", session |-> s, key |-> k]]
          /\ events' = [events EXCEPT ![q] = Append(@, "accepted")]
          /\ UNCHANGED <<phase, sends>>
      BY <1>5 DEF CreateRun, IsNextId, NewRow
    <2>2. CASE q = r
      BY <2>1, <2>2
    <2>3. CASE q # r
      BY <2>1, <2>3
    <2> QED
      BY <2>2, <2>3
  <1>6. ASSUME NEW q \in Runs, Claim(q)
        PROVE  LogStep(r)
    BY <1>6 DEF Claim, IsNextQueuedRun, Claimable
  <1>7. ASSUME NEW q \in Runs, Start(q)
        PROVE  LogStep(r)
    BY <1>7 DEF Start
  <1>8. ASSUME NEW q \in Runs, StartFails(q) \/ OutcomeLost(q) \/ Release(q)
        PROVE  LogStep(r)
    BY <1>8 DEF StartFails, OutcomeLost, Release, Settling, table
  <1>9. ASSUME NEW q \in Runs, Complete(q) \/ Fail(q) \/ CompleteFails(q)
        PROVE  LogStep(r)
    <2>1. PICK state \in Terminal :
            /\ row' = [row EXCEPT ![q].state = state]
            /\ events' = [events EXCEPT ![q] = Append(@, state)]
            /\ phase[q] = "sending"
            /\ phase' = [phase EXCEPT ![q] = "settled"]
            /\ UNCHANGED sends
      BY <1>9 DEF Complete, Fail, CompleteFails, Settling, StoreOutcome, Terminal
    <2>2. CASE q = r
      BY <2>1, <2>2
    <2>3. CASE q # r
      BY <2>1, <2>3
    <2> QED
      BY <2>2, <2>3
  <1> QED
    BY <1>1, <1>2, <1>3, <1>4, <1>5, <1>6, <1>7, <1>8, <1>9 DEF Next, Dispatch, Settle

\* Appending an event keeps the events before it and puts it last.
LEMMA AppendLast ==
  ASSUME NEW log \in Seq(EventTypes), NEW type \in EventTypes
  PROVE  LET new == Append(log, type) IN
         /\ new # <<>> /\ Len(new) = Len(log) + 1 /\ DOMAIN new = 1..(Len(log) + 1)
         /\ new[Len(log) + 1] = type
         /\ \A i \in DOMAIN log : new[i] = log[i]
         /\ DOMAIN log = 1..Len(log) /\ Len(log) \in Nat
         /\ log = <<>> <=> Len(log) = 0
  OBVIOUS

\* An event that fits after the last one, and the state the row gets with it,
\* leave the log telling the run's story.
LEMMA AppendTells ==
  ASSUME Exclusion, Exclusion', NEW r \in Runs, LogTellsState(r),
         NEW type \in EventTypes, events'[r] = Append(events[r], type),
         row[r].state \notin Terminal, row'[r].state # "absent",
         type = "accepted" <=> row[r].state = "absent",
         type = "started" => LastEvent(r) \in {"accepted", "recovered"},
         type \in Terminal <=> row'[r].state \in Terminal,
         type \in Terminal => LastEvent(r) = "started" /\ type = row'[r].state,
         row[r].state = "absent" => type = "accepted"
  PROVE  LogTellsState(r)' /\ LastEvent(r)' = type
  <1> DEFINE log == events[r]
             n == Len(log)
             new == Append(log, type)
  <1>1. log \in Seq(EventTypes)
    BY DEF Exclusion, TypeOK
  <1>2. /\ n \in Nat /\ DOMAIN log = 1..n /\ DOMAIN new = 1..(n + 1) /\ Len(new) = n + 1
        /\ new[n + 1] = type /\ \A i \in 1..n : new[i] = log[i]
        /\ new # <<>> /\ (log = <<>> <=> n = 0)
    BY <1>1, AppendLast
  <1>3. LastEvent(r)' = type
    BY <1>2 DEF LastEvent
  <1>4. \A i \in 1..n : log[i] \notin Terminal
    BY <1>2 DEF LogTellsState
  <1>5. row[r].state = "absent" <=> n = 0
    BY <1>2 DEF LogTellsState
  <1> HIDE DEF log, new, n
  <1>6. ASSUME NEW i \in 1..(n + 1)
        PROVE  /\ new[i] = "accepted" <=> i = 1
               /\ new[i] = "started" => new[i - 1] \in {"accepted", "recovered"}
               /\ new[i] \in Terminal =>
                    i = n + 1 /\ new[i - 1] = "started" /\ new[i] = row'[r].state
    <2>1. CASE i = n + 1
      <3>1. i = 1 <=> n = 0
        BY <1>2, <2>1
      <3>2. n # 0 => new[i - 1] = log[n]
        BY <1>2, <2>1
      <3>3. type # "accepted" => n # 0
        BY <1>5
      <3>4. log[n] = LastEvent(r)
        BY DEF LastEvent, log, n
      <3> QED
        BY <1>2, <1>5, <2>1, <3>1, <3>2, <3>3, <3>4 DEF Terminal
    <2>2. CASE i \in 1..n
      <3>1. new[i] = log[i] /\ (i # 1 => new[i - 1] = log[i - 1])
        BY <1>2, <2>2
      <3>2. /\ log[i] = "accepted" <=> i = 1
            /\ log[i] = "started" => log[i - 1] \in {"accepted", "recovered"}
        BY <1>2, <2>2 DEF LogTellsState, log
      <3> QED
        BY <1>4, <2>2, <3>1, <3>2
    <2> QED
      BY <1>2, <2>1, <2>2
  <1>7. new = events[r]'
    BY DEF new, log
  <1> QED
    BY <1>2, <1>3, <1>6, <1>7 DEF LogTellsState, Settled

\* Every step keeps the logs telling the runs' stories.
LEMMA StepLog ==
  ASSUME Exclusion, Exclusion', NEW r \in Runs, LogStep(r),
         LogTellsState(r), LastTellsStage(r), SendsAreStarts(r)
  PROVE  LogTellsState(r)' /\ LastTellsStage(r)' /\ SendsAreStarts(r)'
  <1>1. /\ row[r].state \in RunStates /\ row'[r].state \in RunStates
        /\ phase[r] \in Phases /\ phase'[r] \in Phases
        /\ events[r] \in Seq(EventTypes) /\ sends[r] \in Nat
        /\ phase[r] \in {"claimed", "sending"} => row[r].state = "running"
        /\ phase[r] = "settled" => row[r].state \notin {"absent", "queued"}
        /\ phase'[r] \in {"claimed", "sending"} => row'[r].state = "running"
        /\ phase'[r] = "settled" => row'[r].state \notin {"absent", "queued"}
    BY DEF Exclusion, TypeOK, Row, PhaseMatchesRow
  <1>2. ASSUME UNCHANGED <<events[r], sends[r]>>,
               \/ row'[r].state = row[r].state /\ phase'[r] \in {phase[r], "settled", "idle"}
               \/ row[r].state = "queued" /\ row'[r].state = "running" /\ phase'[r] = "claimed"
        PROVE  LogTellsState(r)' /\ LastTellsStage(r)' /\ SendsAreStarts(r)'
    <2>1. LastEvent(r)' = LastEvent(r)
      BY <1>2 DEF LastEvent
    <2>2. LogTellsState(r)'
      <3>1. CASE row'[r].state = row[r].state
        BY <1>2, <2>1, <3>1 DEF LogTellsState, Settled
      <3>2. CASE row[r].state = "queued" /\ row'[r].state = "running"
        <4>1. \A i \in DOMAIN events[r] : events[r][i] \notin Terminal
          BY <3>2 DEF LogTellsState, Terminal
        <4> QED
          BY <1>2, <3>2, <4>1 DEF LogTellsState, Settled, Terminal
      <3> QED
        BY <1>2, <3>1, <3>2
    <2>3. LastTellsStage(r)'
      BY <1>1, <1>2, <2>1 DEF LastTellsStage, Phases
    <2>4. SendsAreStarts(r)'
      BY <1>1, <1>2 DEF SendsAreStarts
    <2> QED
      BY <2>2, <2>3, <2>4
  <1>3. ASSUME NEW type \in EventTypes, events'[r] = Append(events[r], type)
        PROVE  \A t : /\ Count(events[r], t) \in Nat
                      /\ Count(events'[r], t)
                            = Count(events[r], t) + (IF type = t THEN 1 ELSE 0)
    BY <1>1, <1>3, CountAppend
  <1>4. ASSUME row[r].state = "absent", row'[r].state = "queued",
               events'[r] = Append(events[r], "accepted"), UNCHANGED <<phase[r], sends[r]>>
        PROVE  LogTellsState(r)' /\ LastTellsStage(r)' /\ SendsAreStarts(r)'
    <2>1. "accepted" \in EventTypes
      BY DEF EventTypes
    <2>2. LogTellsState(r)' /\ LastEvent(r)' = "accepted"
      BY <1>4, <2>1, AppendTells DEF Terminal
    <2>3. LastTellsStage(r)'
      BY <1>1, <1>4, <2>2 DEF LastTellsStage
    <2>4. SendsAreStarts(r)'
      BY <1>1, <1>3, <1>4, <2>1 DEF SendsAreStarts
    <2> QED
      BY <2>2, <2>3, <2>4
  <1>5. ASSUME row[r].state = "running", row'[r].state = "queued", phase[r] = "idle",
               events'[r] = Append(events[r], "recovered"), UNCHANGED <<phase[r], sends[r]>>
        PROVE  LogTellsState(r)' /\ LastTellsStage(r)' /\ SendsAreStarts(r)'
    <2>1. "recovered" \in EventTypes
      BY DEF EventTypes
    <2>2. LogTellsState(r)' /\ LastEvent(r)' = "recovered"
      BY <1>5, <2>1, AppendTells DEF Terminal
    <2>3. LastTellsStage(r)'
      BY <1>1, <1>5, <2>2 DEF LastTellsStage
    <2>4. SendsAreStarts(r)'
      BY <1>1, <1>3, <1>5, <2>1 DEF SendsAreStarts
    <2> QED
      BY <2>2, <2>3, <2>4
  <1>6. ASSUME phase[r] = "claimed", phase'[r] = "sending", UNCHANGED row[r],
               events'[r] = Append(events[r], "started"), sends'[r] = sends[r] + 1
        PROVE  LogTellsState(r)' /\ LastTellsStage(r)' /\ SendsAreStarts(r)'
    <2>1. "started" \in EventTypes
      BY DEF EventTypes
    <2>2. LastEvent(r) \in {"accepted", "recovered"} /\ row[r].state = "running"
      BY <1>1, <1>6 DEF LastTellsStage
    <2>3. LogTellsState(r)' /\ LastEvent(r)' = "started"
      BY <1>6, <2>1, <2>2, AppendTells DEF Terminal
    <2>4. LastTellsStage(r)'
      BY <1>1, <1>6, <2>3 DEF LastTellsStage
    <2>5. SendsAreStarts(r)'
      BY <1>1, <1>3, <1>6, <2>1 DEF SendsAreStarts
    <2> QED
      BY <2>3, <2>4, <2>5
  <1>7. ASSUME phase[r] = "sending", phase'[r] = "settled", row'[r].state \in Terminal,
               events'[r] = Append(events[r], row'[r].state), UNCHANGED sends[r]
        PROVE  LogTellsState(r)' /\ LastTellsStage(r)' /\ SendsAreStarts(r)'
    <2>1. row'[r].state \in EventTypes
      BY <1>7 DEF EventTypes, Terminal
    <2>2. LastEvent(r) = "started" /\ row[r].state = "running"
      BY <1>1, <1>7 DEF LastTellsStage
    <2>3. LogTellsState(r)' /\ LastEvent(r)' = row'[r].state
      BY <1>7, <2>1, <2>2, AppendTells DEF Terminal
    <2>4. LastTellsStage(r)'
      BY <1>1, <1>7, <2>3 DEF LastTellsStage, Terminal
    <2>5. SendsAreStarts(r)'
      BY <1>1, <1>3, <1>7, <2>1 DEF SendsAreStarts, Terminal
    <2> QED
      BY <2>3, <2>4, <2>5
  <1> QED
    BY <1>2, <1>4, <1>5, <1>6, <1>7 DEF LogStep

\* The event log of every run tells its story, for every number of runs, crashes
\* and failing writes; a message is sent again only when its run was recovered.
THEOREM LogsMatchStates == Spec => []EventLogMatchesState
  <1>1. Init => LogKept
    <2> SUFFICES ASSUME Init, NEW r \in Runs
                 PROVE  LogTellsState(r) /\ LastTellsStage(r) /\ SendsAreStarts(r)
      BY DEF LogKept
    <2>1. /\ events[r] = <<>> /\ row[r].state = "absent" /\ phase[r] = "idle"
          /\ sends[r] = 0 /\ DOMAIN events[r] = {}
      BY DEF Init
    <2>2. \A t : Count(events[r], t) = 0
      BY <2>1, FS_EmptySet DEF Count
    <2> QED
      BY <2>1, <2>2 DEF LogTellsState, LastTellsStage, SendsAreStarts, Settled, Terminal
  <1>2. Exclusion /\ LogKept /\ [Next]_vars => LogKept'
    BY NextExclusion, LogSteps, StepLog DEF LogKept
  <1>3. LogKept => EventLogMatchesState
    BY DEF LogKept, LogTellsState, SendsAreStarts, EventLogMatchesState, LastEvent,
           Occurrences, Count
  <1> QED
    BY <1>1, <1>2, <1>3, SpecExclusion, PTL DEF Spec

-------------------------------------------------------------------------------
(* The refinement of RunLifecycle.                                         *)

\* Rows are created in the order of their numbers.
CreatedInTurn ==
    \A q, r \in Runs : q < r /\ row[r].state # "absent" => row[q].state # "absent"

\* While no write has failed, a running row has its executeRun or the process is
\* down, and a session's run is taken up only when its earlier runs have ended.
RunningIsExecuted ==
    up => \A r \in Runs : row[r].state = "running" => phase[r] \in {"claimed", "sending"}

TakenInTurn ==
    \A q, r \in Runs :
        /\ q < r /\ row[q].session = row[r].session
        /\ row[r].state \notin {"absent", "queued"}
        => Settled(q)

Ordered ==
    /\ CreatedInTurn
    /\ dbFaults = 0 => RunningIsExecuted /\ TakenInTurn

\* What a step may do to the rows.
RowStep ==
    \/ \A r \in Runs : row'[r].state = row[r].state /\ row'[r].session = row[r].session
    \/ \E r \in Runs :
        /\ row[r].state = "absent"
        /\ \A q \in Runs : q < r => row[q].state # "absent"
        /\ row'[r].state = "queued"
        /\ \A q \in Runs \ {r} : row'[q] = row[q]
    \/ \E r \in Runs :
        /\ IsNextQueuedRun(r)
        /\ row'[r].state = "running" /\ row'[r].session = row[r].session
        /\ \A q \in Runs \ {r} : row'[q] = row[q]
    \/ \E r \in Runs :
        /\ row[r].state = "running"
        /\ row'[r].state \in Terminal /\ row'[r].session = row[r].session
        /\ \A q \in Runs \ {r} : row'[q] = row[q]
    \/ \A r \in Runs :
        /\ row'[r].session = row[r].session
        /\ row'[r].state = IF row[r].state = "running" THEN "queued" ELSE row[r].state

\* Every step changes the rows in one of these ways.
LEMMA RowSteps ==
  ASSUME Exclusion, [Next]_vars
  PROVE  RowStep
  <1> USE DEF RowStep, Exclusion, TypeOK, Row
  <1>1. CASE UNCHANGED vars
    BY <1>1 DEF vars
  <1>2. CASE Boot
    <2>1. \A r \in Runs :
            /\ row'[r].session = row[r].session
            /\ row'[r].state = IF row[r].state = "running" THEN "queued" ELSE row[r].state
      BY <1>2 DEF Boot, RecoverRow
    <2> QED
      BY <2>1
  <1>3. CASE Crash \/ EndDispatch
    BY <1>3 DEF Crash, EndDispatch, table
  <1>4. ASSUME NEW k \in Keys, AnswerDuplicate(k)
        PROVE  RowStep
    BY <1>4 DEF AnswerDuplicate, table
  <1>5. ASSUME NEW q \in Runs, NEW s \in Sessions, NEW k \in Keys \cup {NoKey},
               CreateRun(q, s, k)
        PROVE  RowStep
    <2>1. /\ row[q].state = "absent" /\ \A p \in Runs : p < q => row[p].state # "absent"
          /\ row' = [row EXCEPT ![q] = [state |-> "queued", session |-> s, key |-> k]]
      BY <1>5 DEF CreateRun, IsNextId, NewRow
    <2>2. row'[q].state = "queued" /\ \A p \in Runs \ {q} : row'[p] = row[p]
      BY <2>1
    <2> QED
      BY <2>1, <2>2
  <1>6. ASSUME NEW q \in Runs, Claim(q)
        PROVE  RowStep
    <2>1. /\ IsNextQueuedRun(q)
          /\ row'[q].state = "running" /\ row'[q].session = row[q].session
          /\ \A p \in Runs \ {q} : row'[p] = row[p]
      BY <1>6 DEF Claim
    <2> QED
      BY <2>1
  <1>7. ASSUME NEW q \in Runs, Start(q) \/ StartFails(q) \/ OutcomeLost(q) \/ Release(q)
        PROVE  RowStep
    BY <1>7 DEF Start, StartFails, OutcomeLost, Release, table
  <1>8. ASSUME NEW q \in Runs, Complete(q) \/ Fail(q) \/ CompleteFails(q)
        PROVE  RowStep
    <2>1. PICK state \in Terminal : row' = [row EXCEPT ![q].state = state]
      BY <1>8 DEF Complete, Fail, CompleteFails, StoreOutcome, Terminal
    <2>2. row[q].state = "running"
      BY <1>8 DEF Complete, Fail, CompleteFails, Settling, PhaseMatchesRow
    <2>3. /\ row'[q].state \in Terminal /\ row'[q].session = row[q].session
          /\ \A p \in Runs \ {q} : row'[p] = row[p]
      BY <2>1
    <2> QED
      BY <2>2, <2>3
  <1> QED
    BY <1>1, <1>2, <1>3, <1>4, <1>5, <1>6, <1>7, <1>8 DEF Next, Dispatch, Settle

\* As long as no write has failed none of the failing steps was taken.
LEMMA FaultsOnlyGrow ==
  ASSUME Exclusion, [Next]_vars, dbFaults' = 0
  PROVE  /\ dbFaults = 0
         /\ \A r \in Runs : ~StartFails(r) /\ ~CompleteFails(r) /\ ~OutcomeLost(r)
  BY RunServiceAssumption
  DEF Exclusion, TypeOK, Next, vars, Boot, Crash, AnswerDuplicate, CreateRun, Dispatch,
      EndDispatch, Claim, Start, Settle, Complete, Fail, StartFails, CompleteFails,
      OutcomeLost, Release, budget

\* The run that is claimed is the first of its session that has not ended.
LEMMA ClaimedIsFirst ==
  ASSUME Exclusion, CreatedInTurn, RunningIsExecuted, up,
         NEW r \in Runs, IsNextQueuedRun(r),
         NEW q \in Runs, q < r, row[q].session = row[r].session
  PROVE  Settled(q)
  <1>1. row[q].state \in RunStates /\ row[q].state # "absent"
    BY DEF Exclusion, TypeOK, Row, CreatedInTurn, IsNextQueuedRun, Claimable
  <1>2. row[q].state # "queued"
    <2>1. q \notin Claimable
      BY DEF IsNextQueuedRun, Runs
    <2> QED
      BY <2>1 DEF IsNextQueuedRun, Claimable
  <1>3. row[q].state # "running"
    <2> SUFFICES ASSUME row[q].state = "running" PROVE FALSE
      OBVIOUS
    <2>1. q \in Executing
      BY DEF RunningIsExecuted, Executing
    <2> QED
      BY <2>1 DEF Exclusion, SetsMatchPhases, IsNextQueuedRun, Claimable
  <1> QED
    BY <1>1, <1>2, <1>3 DEF Settled, Terminal, RunStates

\* A row is running only from its claim to its outcome, or to the crash.
LEMMA StepExecuted ==
  ASSUME Exclusion, Exclusion', RunningIsExecuted, [Next]_vars, dbFaults' = 0
  PROVE  RunningIsExecuted'
  <1> USE DEF RunningIsExecuted, Exclusion, TypeOK, Row
  <1>1. CASE UNCHANGED vars
    BY <1>1 DEF vars
  <1>2. CASE Boot
    BY <1>2 DEF Boot, RecoverRow
  <1>3. CASE Crash
    BY <1>3 DEF Crash
  <1>4. ASSUME NEW k \in Keys, AnswerDuplicate(k)
        PROVE  RunningIsExecuted'
    BY <1>4 DEF AnswerDuplicate, table, memory
  <1>5. ASSUME NEW q \in Runs, NEW s \in Sessions, NEW k \in Keys \cup {NoKey},
               CreateRun(q, s, k)
        PROVE  RunningIsExecuted'
    <2>1. row' = [row EXCEPT ![q] = [state |-> "queued", session |-> s, key |-> k]]
      BY <1>5 DEF CreateRun, NewRow
    <2>2. \A p \in Runs : row'[p].state = "running" => row[p].state = "running"
      BY <2>1
    <2> QED
      BY <1>5, <2>2 DEF CreateRun
  <1>6. ASSUME NEW q \in Runs, Claim(q) \/ Start(q)
        PROVE  RunningIsExecuted'
    BY <1>6 DEF Claim, Start, BetweenClaims
  <1>7. ASSUME NEW q \in Runs, Complete(q) \/ Fail(q)
        PROVE  RunningIsExecuted'
    <2>1. PICK state \in Terminal : row' = [row EXCEPT ![q].state = state]
      BY <1>7 DEF Complete, Fail, StoreOutcome, Terminal
    <2>2. row'[q].state # "running" /\ \A p \in Runs \ {q} : row'[p] = row[p]
      BY <2>1 DEF Terminal
    <2>3. phase' = [phase EXCEPT ![q] = "settled"] /\ up
      BY <1>7 DEF Complete, Fail, Settling, Idle
    <2>4. \A p \in Runs \ {q} : phase'[p] = phase[p]
      BY <2>3
    <2> QED
      BY <2>2, <2>3, <2>4
  <1>8. ASSUME NEW q \in Runs, Release(q)
        PROVE  RunningIsExecuted'
    BY <1>8 DEF Release, Idle, table
  <1>9. CASE EndDispatch
    BY <1>9 DEF EndDispatch, BetweenClaims, table
  <1> QED
    BY <1>1, <1>2, <1>3, <1>4, <1>5, <1>6, <1>7, <1>8, <1>9, FaultsOnlyGrow
    DEF Next, Dispatch, Settle

\* Rows are created in the order of their numbers and never removed.
LEMMA StepCreatedInTurn ==
  ASSUME Exclusion, CreatedInTurn, RowStep
  PROVE  CreatedInTurn'
  BY DEF CreatedInTurn, RowStep, IsNextQueuedRun, Claimable, Runs, Terminal

\* Only a claim looks at the process: it happens while it is up.
LEMMA StepTakenInTurn ==
  ASSUME Exclusion, CreatedInTurn, TakenInTurn, RunningIsExecuted, RowStep,
         \A r \in Runs : row'[r].state = "running" /\ row[r].state = "queued" => up
  PROVE  TakenInTurn'
  <1> USE DEF TakenInTurn, Settled, Terminal
  <1>1. CASE \A r \in Runs : row'[r].state = row[r].state /\ row'[r].session = row[r].session
    BY <1>1
  <1>2. ASSUME NEW n \in Runs, row[n].state = "absent",
               \A q \in Runs : q < n => row[q].state # "absent",
               row'[n].state = "queued", \A q \in Runs \ {n} : row'[q] = row[q]
        PROVE  TakenInTurn'
    <2>1. \A r \in Runs : n < r => row[r].state = "absent"
      BY <1>2 DEF CreatedInTurn
    <2> QED
      BY <1>2, <2>1
  <1>3. ASSUME NEW n \in Runs, IsNextQueuedRun(n),
               row'[n].state = "running", row'[n].session = row[n].session,
               \A q \in Runs \ {n} : row'[q] = row[q]
        PROVE  TakenInTurn'
    <2>1. \A q \in Runs : q < n /\ row[q].session = row[n].session => Settled(q)
      BY <1>3, ClaimedIsFirst DEF IsNextQueuedRun, Claimable
    <2>2. row[n].state = "queued"
      BY <1>3 DEF IsNextQueuedRun, Claimable
    <2> QED
      BY <1>3, <2>1, <2>2 DEF Runs
  <1>4. ASSUME NEW n \in Runs, row[n].state = "running",
               row'[n].state \in Terminal, row'[n].session = row[n].session,
               \A q \in Runs \ {n} : row'[q] = row[q]
        PROVE  TakenInTurn'
    BY <1>4 DEF Runs
  <1>5. CASE \A r \in Runs :
                /\ row'[r].session = row[r].session
                /\ row'[r].state = IF row[r].state = "running" THEN "queued" ELSE row[r].state
    BY <1>5
  <1> QED
    BY <1>1, <1>2, <1>3, <1>4, <1>5 DEF RowStep

\* Every step keeps the rows in order.
LEMMA StepOrdered ==
  ASSUME Exclusion, Exclusion', Ordered, [Next]_vars
  PROVE  Ordered'
  <1>1. RowStep
    BY RowSteps
  <1>2. CreatedInTurn'
    BY <1>1, StepCreatedInTurn DEF Ordered
  <1>3. ASSUME dbFaults' = 0
        PROVE  RunningIsExecuted' /\ TakenInTurn'
    <2>1. dbFaults = 0
      BY <1>3, FaultsOnlyGrow
    <2>2. RunningIsExecuted'
      BY <1>3, <2>1, StepExecuted DEF Ordered
    <2>3. \A r \in Runs : row'[r].state = "running" /\ row[r].state = "queued" => up
      <3> SUFFICES ASSUME NEW r \in Runs, row'[r].state = "running", row[r].state = "queued"
                   PROVE  up
        OBVIOUS
      <3>1. row'[r] # row[r]
        OBVIOUS
      <3>2. ~Boot
        BY DEF Boot, RecoverRow, Exclusion, TypeOK, Row
      <3> QED
        BY <3>1, <3>2
        DEF Next, vars, Dispatch, Settle, Crash, AnswerDuplicate, CreateRun, Claim, Start,
            EndDispatch, StartFails, Complete, Fail, CompleteFails, OutcomeLost, Settling,
            Release, BetweenClaims, Idle, table
    <2> QED
      BY <1>1, <2>1, <2>2, <2>3, StepTakenInTurn DEF Ordered
  <1> QED
    BY <1>2, <1>3 DEF Ordered

\* Nothing is ordered wrongly when there are no rows.
LEMMA InitOrdered == Exclusion /\ Init => Ordered
  BY DEF Init, Ordered, CreatedInTurn, RunningIsExecuted, TakenInTurn, Exclusion

\* Rows are created in turn and, until a write fails, taken up in turn.
LEMMA SpecOrdered == Spec => []Ordered
  <1>1. Init => Exclusion
    BY InitExclusion
  <1>2. Init => Ordered
    BY <1>1, InitOrdered
  <1>3. Exclusion /\ Exclusion' /\ Ordered /\ [Next]_vars => Ordered'
    BY StepOrdered
  <1> QED
    BY <1>2, <1>3, SpecExclusion, PTL DEF Spec

\* The status of a run and its session decide what its session sees.
LEMMA SameLifecycle ==
  ASSUME \A r \in Runs : LifecycleStatus(r)' = LifecycleStatus(r)
                         /\ row'[r].session = row[r].session
  PROVE  UNCHANGED Lifecycle!lifecycleVars
  BY DEF Lifecycle!lifecycleVars

\* A step of the detailed service is a step of the lifecycle, or none, as long
\* as no write has failed: createRun accepts, executeRun begins and finishes, a
\* crash restarts, and what kick does with its sets is not seen at all.
LEMMA StepRefines ==
  ASSUME Exclusion, Exclusion', Ordered, [Next]_vars, dbFaults' = 0
  PROVE  [Lifecycle!LifecycleNext]_Lifecycle!lifecycleVars
  <1> DEFINE status == [r \in Runs |-> LifecycleStatus(r)]
             owner == [r \in Runs |-> row[r].session]
  <1> USE DEF Exclusion, TypeOK, Row, RunStates
  <1>0. dbFaults = 0 /\ RunningIsExecuted /\ TakenInTurn
    BY FaultsOnlyGrow DEF Ordered
  <1>a. \A r \in Runs : LifecycleStatus(r) =
           IF row[r].state = "absent" THEN "none"
           ELSE IF Settled(r) THEN "done"
           ELSE IF phase[r] = "sending" THEN "working" ELSE "waiting"
    <2> TAKE r \in Runs
    <2>1. /\ Settled(r) => row[r].state # "absent"
          /\ phase[r] = "sending" => row[r].state # "absent" /\ ~Settled(r)
      BY DEF PhaseMatchesRow, Settled, Terminal
    <2> HIDE DEF Exclusion, TypeOK
    <2> QED
      BY <2>1 DEF LifecycleStatus, Settled
  <1>1. CASE UNCHANGED vars
    BY <1>1, SameLifecycle DEF vars, LifecycleStatus, Settled
  <1>2. CASE Boot
    <2>1. \A r \in Runs : row'[r].session = row[r].session
      BY <1>2 DEF Boot, RecoverRow
    <2>2. \A r \in Runs : LifecycleStatus(r)' = LifecycleStatus(r)
      BY <1>2 DEF Boot, RecoverRow, LifecycleStatus, Settled, Terminal, DownIsEmpty
    <2> QED
      BY <2>1, <2>2, SameLifecycle
  <1>3. CASE Crash
    <2>1. row' = row /\ \A r \in Runs : phase'[r] = "idle"
      BY <1>3 DEF Crash, table
    <2>2. \A r \in Runs : LifecycleStatus(r)' =
             IF LifecycleStatus(r) = "working" THEN "waiting" ELSE LifecycleStatus(r)
      <3> TAKE r \in Runs
      <3>1. Settled(r)' = Settled(r) /\ row'[r] = row[r] /\ phase'[r] # "sending"
        BY <2>1 DEF Settled
      <3>2. LifecycleStatus(r)' = CASE row[r].state = "absent" -> "none"
                                    [] Settled(r) -> "done"
                                    [] OTHER -> "waiting"
        BY <3>1 DEF LifecycleStatus
      <3> QED
        BY <3>2, <1>a DEF Settled, Terminal
    <2>3. status' = [r \in Runs |-> IF status[r] = "working" THEN "waiting" ELSE status[r]]
      BY <2>2
    <2>4. owner' = owner
      BY <2>1
    <2>5. Lifecycle!Restart
      BY <2>3, <2>4 DEF Lifecycle!Restart
    <2> QED
      BY <2>5 DEF Lifecycle!LifecycleNext
  <1>4. ASSUME NEW k \in Keys, AnswerDuplicate(k)
        PROVE  UNCHANGED Lifecycle!lifecycleVars
    BY <1>4, SameLifecycle DEF AnswerDuplicate, table, memory, LifecycleStatus, Settled
  <1>5. ASSUME NEW n \in Runs, NEW s \in Sessions, NEW k \in Keys \cup {NoKey},
               CreateRun(n, s, k)
        PROVE  Lifecycle!Accept(n, s)
    <2>1. row' = [row EXCEPT ![n] = [state |-> "queued", session |-> s, key |-> k]]
          /\ phase' = phase /\ IsNextId(n)
      BY <1>5 DEF CreateRun, NewRow
    <2>2. \A r \in Runs \ {n} : row'[r] = row[r]
      BY <2>1
    <2>3. row'[n].state = "queued" /\ row'[n].session = s
      BY <2>1
    <2>4. phase[n] # "sending" /\ row[n].state = "absent"
      BY <2>1 DEF IsNextId, PhaseMatchesRow
    <2>5. status[n] = "none" /\ \A q \in Runs : q < n => status[q] # "none"
      BY <2>1, <2>4 DEF LifecycleStatus, IsNextId, Settled, Terminal
    <2>6. LifecycleStatus(n)' = "waiting"
      BY <2>1, <2>3, <2>4 DEF LifecycleStatus, Settled, Terminal
    <2>7. \A r \in Runs \ {n} : LifecycleStatus(r)' = LifecycleStatus(r)
      BY <2>1, <2>2 DEF LifecycleStatus, Settled
    <2>8. status' = [status EXCEPT ![n] = "waiting"]
      BY <2>6, <2>7
    <2>9. owner' = [owner EXCEPT ![n] = s]
      BY <2>2, <2>3
    <2> QED
      BY <2>5, <2>8, <2>9 DEF Lifecycle!Accept
  <1>6. ASSUME NEW n \in Runs, Claim(n)
        PROVE  UNCHANGED Lifecycle!lifecycleVars
    <2>1. row' = [row EXCEPT ![n].state = "running"] /\ row[n].state = "queued"
          /\ phase' = [phase EXCEPT ![n] = "claimed"]
      BY <1>6 DEF Claim, IsNextQueuedRun, Claimable
    <2>2. phase[n] # "sending"
      BY <2>1 DEF PhaseMatchesRow
    <2>3. LifecycleStatus(n)' = "waiting" /\ LifecycleStatus(n) = "waiting"
      BY <2>1, <2>2 DEF LifecycleStatus, Settled, Terminal
    <2>4. \A r \in Runs \ {n} : LifecycleStatus(r)' = LifecycleStatus(r)
      BY <2>1 DEF LifecycleStatus, Settled
    <2> QED
      BY <2>1, <2>3, <2>4, SameLifecycle
  <1>7. ASSUME NEW n \in Runs, Start(n)
        PROVE  Lifecycle!Begin(n)
    <2>1. row' = row /\ phase[n] = "claimed" /\ phase' = [phase EXCEPT ![n] = "sending"]
          /\ row[n].state = "running"
      BY <1>7 DEF Start, PhaseMatchesRow
    <2>2. LifecycleStatus(n) = "waiting" /\ LifecycleStatus(n)' = "working"
      BY <2>1 DEF LifecycleStatus, Settled, Terminal
    <2>3. \A r \in Runs \ {n} : LifecycleStatus(r)' = LifecycleStatus(r)
      BY <2>1 DEF LifecycleStatus, Settled
    <2>4. \A q \in Runs : q < n /\ owner[q] = owner[n] => status[q] = "done"
      <3> SUFFICES ASSUME NEW q \in Runs, q < n, owner[q] = owner[n] PROVE status[q] = "done"
        OBVIOUS
      <3>1. Settled(q) /\ row[q].state # "absent"
        BY <1>0, <2>1 DEF TakenInTurn, Settled, Terminal
      <3> QED
        BY <3>1, <1>a
    <2>5. status' = [status EXCEPT ![n] = "working"]
      BY <2>2, <2>3
    <2> QED
      BY <2>1, <2>2, <2>4, <2>5 DEF Lifecycle!Begin
  <1>8. ASSUME NEW n \in Runs, Complete(n) \/ Fail(n)
        PROVE  Lifecycle!Finish(n)
    <2>1. PICK state \in Terminal : row' = [row EXCEPT ![n].state = state]
      BY <1>8 DEF Complete, Fail, StoreOutcome, Terminal
    <2>2. phase[n] = "sending" /\ phase' = [phase EXCEPT ![n] = "settled"]
          /\ row[n].state = "running"
      BY <1>8 DEF Complete, Fail, Settling, PhaseMatchesRow
    <2>3. row'[n].state = state /\ row'[n].session = row[n].session
          /\ \A r \in Runs \ {n} : row'[r] = row[r]
      BY <2>1
    <2>4. LifecycleStatus(n) = "working" /\ LifecycleStatus(n)' = "done"
      BY <2>2, <2>3 DEF LifecycleStatus, Settled, Terminal
    <2>5. \A r \in Runs \ {n} : LifecycleStatus(r)' = LifecycleStatus(r)
      BY <2>2, <2>3 DEF LifecycleStatus, Settled
    <2>6. status' = [status EXCEPT ![n] = "done"]
      BY <2>4, <2>5
    <2>7. owner' = owner
      BY <2>3
    <2> QED
      BY <2>4, <2>6, <2>7 DEF Lifecycle!Finish
  <1>9. ASSUME NEW n \in Runs, Release(n)
        PROVE  UNCHANGED Lifecycle!lifecycleVars
    <2>1. row' = row /\ phase[n] = "settled" /\ phase' = [phase EXCEPT ![n] = "idle"]
      BY <1>9 DEF Release, table
    <2>2. \A r \in Runs : LifecycleStatus(r)' = LifecycleStatus(r)
      BY <2>1 DEF LifecycleStatus, Settled
    <2> QED
      BY <2>1, <2>2, SameLifecycle
  <1>10. CASE EndDispatch
    BY <1>10, SameLifecycle DEF EndDispatch, table, LifecycleStatus, Settled
  <1> HIDE DEF Exclusion, TypeOK, Row, RunStates
  <1> QED
    BY <1>1, <1>2, <1>3, <1>4, <1>5, <1>6, <1>7, <1>8, <1>9, <1>10, FaultsOnlyGrow
    DEF Next, Dispatch, Settle, Lifecycle!LifecycleNext

\* The lifecycle starts with no run accepted.
LEMMA InitRefines == Init => Lifecycle!LifecycleInit
  <1> SUFFICES ASSUME Init PROVE Lifecycle!LifecycleInit
    OBVIOUS
  <1>1. \A r \in Runs : /\ row[r].state = "absent" /\ row[r].session = NoSession
                         /\ phase[r] # "sending" /\ ~Settled(r)
    BY DEF Init, Settled, Terminal
  <1>2. \A r \in Runs : LifecycleStatus(r) = "none"
    BY <1>1 DEF LifecycleStatus, Settled
  <1> QED
    BY <1>1, <1>2 DEF Lifecycle!LifecycleInit

\* Until a write fails the dispatcher implements RunLifecycle: one run of a
\* session at a time, in the order they were created, also across restarts.
THEOREM ImplementsPromise == Spec => ImplementsLifecycle
  <1>1. Exclusion /\ Exclusion' /\ Ordered /\ [Next]_vars
        => [dbFaults' = 0 => [Lifecycle!LifecycleNext]_Lifecycle!lifecycleVars]_vars
    BY StepRefines
  <1> QED
    BY <1>1, InitRefines, SpecExclusion, SpecOrdered, PTL DEF Spec, ImplementsLifecycle


\* Where no write fails that is the whole promise: the service refines
\* RunLifecycle, whose own theorems then hold of it.
THEOREM RefinesLifecycle ==
  ASSUME MaxDbFaults = 0
  PROVE  Spec => Lifecycle!LifecycleSpec
  <1>1. Exclusion' => dbFaults' = 0
    BY RunServiceAssumption DEF Exclusion, TypeOK
  <1>2. Exclusion /\ Exclusion' /\ Ordered /\ [Next]_vars
        => [Lifecycle!LifecycleNext]_Lifecycle!lifecycleVars
    BY <1>1, StepRefines
  <1> QED
    BY <1>2, InitRefines, SpecExclusion, SpecOrdered, PTL DEF Spec, Lifecycle!LifecycleSpec
===============================================================================
