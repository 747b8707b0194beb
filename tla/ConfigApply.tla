------------------------------ MODULE ConfigApply ------------------------------
(***************************************************************************)
(* Changing the configuration: the handlers of /api/config, /api/config/   *)
(* patch-safe, /api/config/replace-safe and /api/mockingbird/runtime/      *)
(* config over applyConfigPatch and replaceConfig (apps/server/src/backend *)
(* /config/service.ts), the configuration file (config/store.ts) and the   *)
(* executor entry of the managed OpenCode configuration (opencode/         *)
(* managedConfig.ts).                                                      *)
(*                                                                         *)
(* No lock is held: a handler runs alone between two awaits (semantic      *)
(* validation, smoke test, disposing of the OpenCode instance) and other   *)
(* handlers run during them.  A step below is such a stretch.              *)
(*                                                                         *)
(* A configuration is three fields, one for each treatment the code gives: *)
(*   model     runtime.opencode: a change of it is validated semantically  *)
(*   executor  runtime.executor: a change of it is copied to OpenCode      *)
(*   policy    the paths of runtime.configPolicy.denyPaths                 *)
(* and the policy has its default settings (config/schema.ts:320): a safe  *)
(* request needs an expected hash and a smoke test, and rolls back.        *)
(***************************************************************************)
EXTENDS Integers

CONSTANTS
    Requests,   \* the requests, each made once
    Values,     \* what a field may hold
    Default,    \* the value of every field at first
    Routes,     \* the routes that clients use, among AllRoutes
    NoConfig,
    NoRequest,
    MaxWriteFaults \* bound: writes of one of the two files that fail

AllRoutes == {"plain", "safe", "runtime"}
Fields == {"model", "executor", "policy"}
Configs == [Fields -> Values]

ASSUME ConfigAssumption ==
    /\ Default \in Values
    /\ Routes \subseteq AllRoutes
    /\ NoConfig \notin Configs
    /\ NoRequest \notin Requests
    /\ MaxWriteFaults \in Nat

VARIABLES
    file,     \* the configuration on disk; its hash is injective
    managed,  \* the executor entry of opencode.jsonc
    req,      \* the requests
    author,   \* the request whose candidate is on disk
    writeFaults \* writes that have failed

configVars == <<file, managed, req, author, writeFaults>>

(* How a request asks.  A plain one says whether it wants the smoke test.  *)
Kinds == {"patch", "replace"}
Changes == UNION {[fs -> Values] : fs \in (SUBSET Fields) \ {{}}}
Asks == [route : AllRoutes, kind : Kinds, change : Changes, smoke : BOOLEAN]

(* A patch of one field; the runtime route's schema lets no other pass.    *)
WellFormed(a) ==
    /\ a.kind = "replace" => DOMAIN a.change = Fields
    /\ a.kind = "patch" =>
         \/ a.route # "runtime" /\ \E f \in Fields : DOMAIN a.change = {f}
         \/ a.route = "runtime" /\ DOMAIN a.change = {"executor"}
    /\ a.route = "safe" => a.smoke
    /\ a.route = "runtime" => ~a.smoke

\* The requests made of the routes in use.
AsksMade == {a \in Asks : a.route \in Routes /\ WellFormed(a)}

Pending == {"semantic", "smoke", "dispose", "undispose", "misdispose"}
Answered == {"ok", "error", "broken"}

(* The locals of a request.  "broken" is an answer that says that part of  *)
(* the old state could not be restored.                                    *)
Request ==
    [at : {"idle", "read"} \cup Pending \cup Answered,
     seen : Configs \cup {NoConfig},     \* what its client read; the expectedHash
     ask : Asks,
     base : Configs, cand : Configs,     \* current.config and candidate
     entry : Values,                     \* previousExecutorMcp
     before : Requests \cup {NoRequest}, \* the author of base
     alone : BOOLEAN]                    \* no other request has written since it began

Idle ==
    LET same == [f \in Fields |-> Default]
    IN  [at |-> "idle", seen |-> NoConfig,
         ask |-> [route |-> "plain", kind |-> "replace", change |-> same, smoke |-> FALSE],
         base |-> same, cand |-> same, entry |-> Default, before |-> NoRequest, alone |-> TRUE]

ConfigInit ==
    /\ file = [f \in Fields |-> Default]
    /\ managed = Default
    /\ req = [r \in Requests |-> Idle]
    /\ author = NoRequest
    /\ writeFaults = 0

Rollback(q) == q.ask.route = "safe"
Reconciles(q) == q.ask.route # "runtime"

(***************************************************************************)
(* A stretch of code is a function from a state of affairs s, what the     *)
(* stretch may read and write and the request q that runs it, to the set   *)
(* of those it may leave.                                                  *)
(***************************************************************************)
Here(r) == [file |-> file, managed |-> managed, author |-> author,
            faults |-> writeFaults, me |-> r, q |-> req[r]]

At(s, where) == [s EXCEPT !.q.at = where]
Fault(s) == IF s.faults < MaxWriteFaults THEN {[s EXCEPT !.faults = @ + 1]} ELSE {}

BUG_DefaultsFillIn(config, change) ==
    [f \in Fields |-> IF f \in DOMAIN change THEN change[f] ELSE Default]

(* mergeConfigPatch, or the whole configuration of a replacement.          *)
Candidate(config, change) ==
    [f \in Fields |-> IF f \in DOMAIN change THEN change[f] ELSE config[f]]

(* writeConfigAtomic.  Writing what is there already changes nothing.      *)
Write(s, config, by) ==
    [s EXCEPT !.file = config, !.author = IF s.file = config THEN @ ELSE by]
WriteCandidate(s) == Write(s, s.q.cand, s.me)

WriteBase(s) == Write(s, s.q.base, s.q.before)

(* respondWithConfigMutation gives both files back, even if one of the     *)
(* writes fails; the second is followed by a dispose.                      *)
RestoreBoth(s) ==
    LET Entry(c, next) ==
            {At([c EXCEPT !.managed = s.q.entry], next)} \cup {At(b, "broken") : b \in Fault(c)}
    IN  Entry(WriteBase(s), "undispose") \cup UNION {Entry(b, "misdispose") : b \in Fault(s)}

BUG_FailedReconcileKept(s) ==
    IF s.managed = s.q.cand["executor"] \/ s.q.base["executor"] = s.q.cand["executor"]
    THEN {At(s, "ok")}
    ELSE {At([s EXCEPT !.managed = s.q.cand["executor"]], "dispose")}
         \cup {At(b, "error") : b \in Fault(s)}

(* What follows run(): the executor entry is brought in line.              *)
Reconcile(s) ==
    IF ~Reconciles(s.q) \/ s.q.base["executor"] = s.q.cand["executor"]
           \/ s.managed = s.q.cand["executor"]
    THEN {At(s, "ok")}
    ELSE {At([s EXCEPT !.managed = s.q.cand["executor"]], "dispose")}
         \cup UNION {RestoreBoth(b) : b \in Fault(s)}

Persist(s) == Reconcile(WriteCandidate(s)) \cup {At(b, "error") : b \in Fault(s)}

AfterSemantic(s) ==
    IF ~s.q.ask.smoke THEN Persist(s)
    ELSE IF ~Rollback(s.q) THEN {At(s, "smoke")}
    ELSE {At(WriteCandidate(s), "smoke")} \cup {At(b, "error") : b \in Fault(s)}

AfterSmoke(s) == IF Rollback(s.q) THEN Reconcile(s) ELSE Persist(s)

BUG_RejectedStays(s) == {At(s, "error")}

SmokeRejected(s) ==
    IF Rollback(s.q)
    THEN {At(WriteBase(s), "error")} \cup {At(b, "broken") : b \in Fault(s)}
    ELSE {At(s, "error")}

Begin(s) ==
    IF s.q.base["model"] # s.q.cand["model"] THEN {At(s, "semantic")} ELSE AfterSemantic(s)

(* The stretch is over: its effects are there, and every other request in  *)
(* flight has been overtaken if it wrote.                                  *)
Commit(s) ==
    /\ file' = s.file
    /\ managed' = s.managed
    /\ author' = s.author
    /\ writeFaults' = s.faults
    /\ req' = [r \in Requests |->
                  IF r = s.me THEN s.q
                  ELSE [req[r] EXCEPT !.alone =
                          @ /\ \/ req[r].at \notin Pending
                               \/ file = s.file /\ managed = s.managed]]

(***************************************************************************)
(* The requests.  A refused one changes nothing and is not recorded.       *)
(***************************************************************************)
GetConfig(r) ==
    /\ req[r].at = "idle"
    /\ req' = [req EXCEPT ![r].at = "read", ![r].seen = file]
    /\ UNCHANGED <<file, managed, author, writeFaults>>

(* assertConfigPolicyAllows: a patch may not name a denied path, and a     *)
(* candidate may not differ in one.                                        *)
PolicyAllows(a, cand) ==
    a.route # "plain" =>
        /\ a.kind = "patch" => "policy" \notin DOMAIN a.change
        /\ cand["policy"] = file["policy"]

(* requireExpectedHash, and assertExpectedHashMatches.                     *)
HashMatches(a, seen) ==
    IF seen = NoConfig THEN a.route = "plain" ELSE seen = file

Submit(r, a) ==
    LET cand == Candidate(file, a.change)
    IN  /\ PolicyAllows(a, cand)
        /\ HashMatches(a, req[r].seen)
        /\ \E s \in Begin([Here(r) EXCEPT
                             !.q = [@ EXCEPT !.ask = a, !.base = file, !.cand = cand,
                                             !.entry = managed, !.before = author]]) :
              Commit(s)

SemanticPasses(r) == req[r].at = "semantic" /\ \E s \in AfterSemantic(Here(r)) : Commit(s)
SemanticFails(r) == req[r].at = "semantic" /\ Commit(At(Here(r), "error"))
SmokePasses(r) == req[r].at = "smoke" /\ \E s \in AfterSmoke(Here(r)) : Commit(s)
SmokeFails(r) == req[r].at = "smoke" /\ \E s \in SmokeRejected(Here(r)) : Commit(s)
Disposed(r) == req[r].at = "dispose" /\ Commit(At(Here(r), "ok"))
Undisposed(r) ==
    \/ req[r].at = "undispose" /\ Commit(At(Here(r), "error"))
    \/ req[r].at = "misdispose" /\ Commit(At(Here(r), "broken"))

(* An await ends: each has a timeout.                                      *)
Resumes(r) ==
    \/ SemanticPasses(r) \/ SemanticFails(r)
    \/ SmokePasses(r) \/ SmokeFails(r)
    \/ Disposed(r) \/ Undisposed(r)

Submitted(r) == req[r].at \in {"idle", "read"} /\ \E a \in AsksMade : Submit(r, a)

ConfigNext == \E r \in Requests : GetConfig(r) \/ Submitted(r) \/ Resumes(r)

ConfigSpec == ConfigInit /\ [][ConfigNext]_configVars

(***************************************************************************)
(* Properties.                                                             *)
(***************************************************************************)
ConfigTypeOK ==
    /\ file \in Configs
    /\ managed \in Values
    /\ DOMAIN req = Requests /\ \A r \in Requests : req[r] \in Request
    /\ author \in Requests \cup {NoRequest}
    /\ writeFaults \in 0..MaxWriteFaults

Quiet == \A r \in Requests : req[r].at \notin Pending

(* An answered request has either been applied whole or left both files as *)
(* it found them, through validation, rollback and failed writes alike,    *)
(* unless another one wrote while it waited or the answer says that the    *)
(* old state could not be restored (applyCandidateConfig,                  *)
(* respondWithConfigMutation).                                             *)
Atomic(q) ==
    /\ q.at = "ok" => /\ file = q.cand
                      /\ Reconciles(q) /\ q.base["executor"] # q.cand["executor"]
                            => managed = q.cand["executor"]
    /\ q.at = "error" => file = q.base /\ managed = q.entry

AloneIsAtomic ==
    [][\A r \in Requests :
          req[r].at \notin Answered /\ req'[r].alone => Atomic(req[r])']_configVars

(* A request changes a field that its client did not ask to change only if *)
(* another request has written since it read the configuration: what       *)
(* earlier requests were told is done stays done (mergeConfigPatch, the    *)
(* rollback of applyCandidateConfig).                                      *)
OnlyOwnFieldsChange ==
    [][\A r \in Requests, f \in Fields :
          req'[r] # req[r] /\ file'[f] # file[f] /\ f \notin DOMAIN req'[r].ask.change
             /\ req'[r].at # "read"
          => ~req'[r].alone]_configVars

(* With no request in flight, the configuration in force is never that of  *)
(* a request that failed, unless requests have overlapped: one that has    *)
(* been told that it was rolled back was (applyCandidateConfig).           *)
RejectedNeedsOverlap ==
    Quiet /\ author # NoRequest /\ req[author].at = "error"
    => \E r \in Requests : ~req[r].alone

(* Requests of the /api/config routes that do not overlap leave OpenCode   *)
(* with the executor of the configuration in force, whichever of their     *)
(* steps fails (ensureExecutorMcpServerConfigured and its rollback).       *)
ExecutorEntryFollows ==
    /\ ConfigTypeOK
    /\ /\ Quiet
       /\ \A r \in Requests : req[r].alone /\ req[r].at # "broken" /\ Reconciles(req[r])
       => managed = file["executor"]

(* README.md:92 and the config-editor skill: changes are validated before  *)
(* they are persisted, so the configuration in force is never one whose    *)
(* request failed.  Two overlapping safe requests break this.              *)
InForceWasAccepted ==
    Quiet => author = NoRequest \/ req[author].at # "error"
=============================================================================
