----------------------------- MODULE RunLifecycle -----------------------------
(***************************************************************************)
(* What the run service promises, with no dispatcher, tables or caps:      *)
(* every accepted run waits its turn, a session works on one run at a      *)
(* time and in the order the runs were accepted, a restart may only put    *)
(* a run that was being worked on back to waiting, and done is for good.   *)
(***************************************************************************)
EXTENDS Integers

CONSTANTS
    Runs,       \* run ids, numbered in the order the runs are accepted
    Sessions,   \* conversations the runs belong to
    NoSession   \* owner of a run that has not been accepted

\* Run ids are numbers, so that they can be compared.
LifecycleAssumption ==
    /\ Runs \subseteq Nat
    /\ NoSession \notin Sessions

VARIABLES
    status,     \* "none", "waiting", "working" or "done", per run
    owner       \* the session of each accepted run

lifecycleVars == <<status, owner>>

Statuses == {"none", "waiting", "working", "done"}

LifecycleTypeOK ==
    /\ status \in [Runs -> Statuses]
    /\ owner \in [Runs -> Sessions \cup {NoSession}]

LifecycleInit ==
    /\ status = [r \in Runs |-> "none"]
    /\ owner = [r \in Runs |-> NoSession]

Accept(r, s) ==
    /\ status[r] = "none"
    /\ \A q \in Runs : q < r => status[q] # "none"
    /\ status' = [status EXCEPT ![r] = "waiting"]
    /\ owner' = [owner EXCEPT ![r] = s]

\* A run starts only when every earlier run of its session is done; that the
\* session works on nothing else follows from it.
Begin(r) ==
    /\ status[r] = "waiting"
    /\ \A q \in Runs : q < r /\ owner[q] = owner[r] => status[q] = "done"
    /\ status' = [status EXCEPT ![r] = "working"]
    /\ UNCHANGED owner

Finish(r) ==
    /\ status[r] = "working"
    /\ status' = [status EXCEPT ![r] = "done"]
    /\ UNCHANGED owner

\* A restart: whatever was being worked on has to be worked on again.
Restart ==
    /\ status' = [r \in Runs |->
                    IF status[r] = "working" THEN "waiting" ELSE status[r]]
    /\ UNCHANGED owner

LifecycleNext ==
    \/ \E r \in Runs, s \in Sessions : Accept(r, s)
    \/ \E r \in Runs : Begin(r) \/ Finish(r)
    \/ Restart

LifecycleSpec == LifecycleInit /\ [][LifecycleNext]_lifecycleVars

-------------------------------------------------------------------------------
(* What follows from it.                                                   *)

\* A session never works on two runs.
OneAtATime ==
    \A q, r \in Runs :
        status[q] = "working" /\ status[r] = "working" /\ owner[q] = owner[r] => q = r

\* A session's runs are taken up in the order they were accepted, restarts
\* included: a later run is not even begun before the earlier ones are done.
InOrder ==
    \A q, r \in Runs :
        /\ q < r
        /\ owner[q] = owner[r]
        /\ status[r] \in {"working", "done"}
        => status[q] = "done"
===============================================================================
