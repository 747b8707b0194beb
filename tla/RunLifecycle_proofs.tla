-------------------------- MODULE RunLifecycle_proofs --------------------------
(***************************************************************************)
(* RunLifecycle keeps its promises for every set of runs and sessions.     *)
(***************************************************************************)
EXTENDS RunLifecycle, TLAPS

\* Runs are accepted in the order of their numbers, so a run accepted now is
\* later than every run that has begun.
AcceptedInTurn ==
    \A q, r \in Runs : q < r /\ status[r] # "none" => status[q] # "none"

LifecycleInv == LifecycleAssumption /\ LifecycleTypeOK /\ AcceptedInTurn /\ InOrder

\* The invariant holds when no run has been accepted.
LEMMA InitInv == LifecycleAssumption /\ LifecycleInit => LifecycleInv
  BY DEF LifecycleInit, LifecycleInv, LifecycleTypeOK, Statuses, AcceptedInTurn, InOrder

\* Every step of the lifecycle preserves the invariant.
LEMMA StepInv ==
    ASSUME LifecycleInv, [LifecycleNext]_lifecycleVars
    PROVE  LifecycleInv'
<1> USE DEF LifecycleAssumption, LifecycleInv, LifecycleTypeOK, Statuses, AcceptedInTurn, InOrder
<1>1. ASSUME NEW r \in Runs, NEW s \in Sessions, Accept(r, s)
      PROVE  LifecycleInv'
  <2>1. LifecycleTypeOK'
    BY <1>1 DEF Accept
  <2>2. AcceptedInTurn'
    BY <1>1 DEF Accept
  <2>3. InOrder'
    BY <1>1 DEF Accept
  <2>4. QED
    BY <2>1, <2>2, <2>3
<1>2. ASSUME NEW r \in Runs, Begin(r)
      PROVE  LifecycleInv'
  BY <1>2 DEF Begin
<1>3. ASSUME NEW r \in Runs, Finish(r)
      PROVE  LifecycleInv'
  BY <1>3 DEF Finish
<1>4. CASE Restart
  BY <1>4 DEF Restart
<1>5. CASE UNCHANGED lifecycleVars
  BY <1>5 DEF lifecycleVars
<1>6. QED
  BY <1>1, <1>2, <1>3, <1>4, <1>5 DEF LifecycleNext

\* Runs of a session are taken up in the order they were accepted, and never
\* before the earlier ones are done.
THEOREM SpecInOrder ==
    LifecycleAssumption /\ LifecycleSpec => []InOrder
<1>1. LifecycleAssumption /\ LifecycleInit => LifecycleInv
  BY InitInv
<1>2. LifecycleInv /\ [LifecycleNext]_lifecycleVars => LifecycleInv'
  BY StepInv
<1>3. LifecycleInv => InOrder
  BY DEF LifecycleInv
<1>4. QED
  BY <1>1, <1>2, <1>3, PTL DEF LifecycleSpec

\* The type invariant of the lifecycle, for every set of runs and sessions.
THEOREM SpecTypeOK ==
    LifecycleAssumption /\ LifecycleSpec => []LifecycleTypeOK
<1>1. LifecycleAssumption /\ LifecycleInit => LifecycleInv
  BY InitInv
<1>2. LifecycleInv /\ [LifecycleNext]_lifecycleVars => LifecycleInv'
  BY StepInv
<1>3. LifecycleInv => LifecycleTypeOK
  BY DEF LifecycleInv
<1>4. QED
  BY <1>1, <1>2, <1>3, PTL DEF LifecycleSpec

\* A session never works on two runs: of two, the later one would have begun
\* before the earlier one was done.
THEOREM SpecOneAtATime ==
    LifecycleAssumption /\ LifecycleSpec => []OneAtATime
<1>1. LifecycleInv => OneAtATime
  BY DEF LifecycleAssumption, LifecycleInv, InOrder, OneAtATime
<1>2. LifecycleAssumption /\ LifecycleInit => LifecycleInv
  BY InitInv
<1>3. LifecycleInv /\ [LifecycleNext]_lifecycleVars => LifecycleInv'
  BY StepInv
<1>4. QED
  BY <1>1, <1>2, <1>3, PTL DEF LifecycleSpec
===============================================================================
