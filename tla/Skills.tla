-------------------------------- MODULE Skills --------------------------------
(***************************************************************************)
(* Managed skills (skills/service.ts, the part of config/orchestration.ts  *)
(* and http/routes/skillRoutes.ts about them): a skill is a directory,     *)
(* enabled when it is in the workspace and disabled when it is under the   *)
(* home directory.  Requests import, enable, disable and delete skills,    *)
(* each in one go, and then await OpenCode, which is told to forget what   *)
(* it has loaded: it does so and answers, and the answer arrives later or  *)
(* never.                                                                  *)
(*                                                                         *)
(* A request that is refused before it changes anything (a malformed one,  *)
(* an id that is imported already, a revision that is not the current one) *)
(* is no step.  Texts are numbers, that of an import the number of its     *)
(* request.                                                                *)
(*                                                                         *)
(* An install or update ends with a look at the skills, and asks for some  *)
(* by default when none is enabled, with the revision it saw.              *)
(***************************************************************************)
EXTENDS Naturals, FiniteSets

CONSTANTS
    SkillIds,
    DefaultSkills,      \* DEFAULT_ENABLED_SKILLS
    MaxSkillRequests,   \* bound: requests
    MaxMoveFaults       \* bound: directories that cannot be moved

ASSUME SkillsAssumption ==
    /\ IsFiniteSet(SkillIds) /\ SkillIds # {}
    /\ DefaultSkills \subseteq SkillIds
    /\ MaxSkillRequests \in Nat
    /\ MaxMoveFaults \in Nat

VARIABLES
    skills,         \* the text of the enabled and the disabled copy of each skill
    loaded,         \* what OpenCode has loaded
    skillRequests,  \* the requests that await OpenCode
    answered,       \* the last request that ended
    seen,           \* the revision the installer saw when no skill was enabled: none,
                    \* the current one or an older one
    issued, moveFaults,     \* history: how many so far
    untold          \* history: a request that has ended has changed skills, and OpenCode
                    \* has not forgotten what it has loaded since

skillsVars == <<skills, loaded, skillRequests, answered, seen, issued, moveFaults, untold>>

\* 0 stands for no copy, MaxSkillRequests + 1 for a text from before.
Texts == 0 .. MaxSkillRequests + 1
Copies == [enabled : Texts, disabled : Texts]
NoCopies == [enabled |-> 0, disabled |-> 0]

Enabled == [s \in SkillIds |-> skills[s].enabled]
Loaded == [there : BOOLEAN, skills : [SkillIds -> Texts]]
NotLoaded == [there |-> FALSE, skills |-> [s \in SkillIds |-> 0]]

\* skill: that of an import or a delete; before, after: the copies of an import's
\* skill before it and after its write;
\* told: OpenCode has done what it was told, and its answer is on the way.
SkillRequest == [nr : 1 .. MaxSkillRequests, op : {"import", "set", "patch", "delete"},
                 skill : SkillIds, before : Copies, after : Copies, told : BOOLEAN]
AnySkill == CHOOSE s \in SkillIds : TRUE
Answer == [nr : 0 .. MaxSkillRequests, op : {"import", "set", "patch", "delete"},
           skill : SkillIds, ok : BOOLEAN]
AnswerTo(nr, op, s, ok) == [nr |-> nr, op |-> op, skill |-> s, ok |-> ok]

SkillsTypeOK ==
    /\ skills \in [SkillIds -> Copies]
    /\ loaded \in Loaded
    /\ skillRequests \subseteq SkillRequest
    /\ answered \in Answer
    /\ seen \in {"none", "current", "older"}
    /\ issued \in 0 .. MaxSkillRequests
    /\ moveFaults \in 0 .. MaxMoveFaults
    /\ untold \in BOOLEAN

SkillsInit ==
    /\ LET before == MaxSkillRequests + 1
       IN  skills \in [SkillIds -> {NoCopies, [NoCopies EXCEPT !.enabled = before],
                                   [NoCopies EXCEPT !.disabled = before]}]
    /\ loaded = NotLoaded
    /\ skillRequests = {}
    /\ answered = AnswerTo(0, "set", AnySkill, TRUE)
    /\ seen = "none"
    /\ issued = 0 /\ moveFaults = 0
    /\ untold = FALSE

-------------------------------------------------------------------------------
(* Directories.                                                            *)

BUG_Blocked(c, enable) == FALSE
\* moveDirectory refuses to replace a copy.
Blocked(c, enable) == c.enabled # 0 /\ c.disabled # 0

Moved(c, enable) ==
    IF enable THEN IF c.disabled = 0 THEN c ELSE [enabled |-> c.disabled, disabled |-> 0]
    ELSE IF c.enabled = 0 THEN c ELSE [enabled |-> 0, disabled |-> c.enabled]

\* What a move that fails leaves: all as it was, or, when the home directory is
\* on another file system, the copy made and the original still there.
HalfMoved(c, enable) ==
    {c, IF enable /\ c.disabled # 0 THEN [c EXCEPT !.enabled = c.disabled]
        ELSE IF ~enable /\ c.enabled # 0 THEN [c EXCEPT !.disabled = c.enabled] ELSE c}

\* writeManagedSkill.
Written(c, text) == [c EXCEPT !.enabled = text]

BUG_RolledBack(c) == [c EXCEPT !.enabled = 0]
\* removeManagedSkill: both copies go.
RolledBack(c) == NoCopies

-------------------------------------------------------------------------------
(* Requests, up to where they await OpenCode.                              *)

Awaits(op, s, before, after) ==
    /\ skillRequests' = skillRequests \cup
            {[nr |-> issued + 1, op |-> op, skill |-> s, before |-> before, after |-> after,
              told |-> FALSE]}
    /\ UNCHANGED <<answered, untold>>

Refuses(op, s) ==
    /\ answered' = AnswerTo(issued + 1, op, s, FALSE)
    /\ untold' = (untold \/ skills' # skills)
    /\ UNCHANGED skillRequests

Issued ==
    /\ issued < MaxSkillRequests
    /\ issued' = issued + 1
    /\ UNCHANGED loaded

\* The revision tells every change of the directories, by their times.
Ages(changed) == seen' = IF changed /\ seen = "current" THEN "older" ELSE seen

\* importManagedSkillWithConfigUpdate: the text is written enabled, and moved if it
\* is not to be; if it cannot be, the import is undone.
ImportsSkill(s, enable) ==
    /\ Issued
    /\ Ages(TRUE)
    /\ skills[s].enabled = 0
    /\ LET written == Written(skills[s], issued + 1)
           after == IF enable THEN written ELSE Moved(written, FALSE)
       IN  \/ /\ enable \/ ~Blocked(written, FALSE)
              /\ skills' = [skills EXCEPT ![s] = after]
              /\ Awaits("import", s, skills[s], after)
              /\ UNCHANGED moveFaults
           \/ /\ ~enable
              /\ \/ Blocked(written, FALSE) /\ UNCHANGED moveFaults
                 \/ moveFaults < MaxMoveFaults /\ moveFaults' = moveFaults + 1
              /\ skills' = [skills EXCEPT ![s] = RolledBack(written)]
              /\ Refuses("import", s)

\* reconcileManagedSkillEnabledSet moves one directory after the other, first those
\* to disable, until one cannot be moved.
SetsEnabled(wanted) ==
    /\ Issued
    /\ LET off == {s \in SkillIds \ wanted : skills[s].enabled # 0}
           on == {s \in wanted : skills[s].disabled # 0}
           movedBy(done) == [s \in SkillIds |-> IF s \in done THEN Moved(skills[s], s \in wanted)
                                                ELSE skills[s]]
       IN  \/ /\ \A s \in off \cup on : ~Blocked(skills[s], s \in wanted)
              /\ skills' = movedBy(off \cup on)
              /\ Awaits("set", AnySkill, NoCopies, NoCopies)
              /\ UNCHANGED moveFaults
           \/ \E done \in SUBSET (off \cup on), s \in off \cup on :
                /\ s \notin done
                /\ \A t \in done : ~Blocked(skills[t], t \in wanted)
                /\ (done \cup {s}) \cap on # {} => off \subseteq done \cup ({s} \cap off)
                /\ s \in on => off \subseteq done
                /\ \/ /\ Blocked(skills[s], s \in wanted)
                      /\ skills' = movedBy(done)
                      /\ UNCHANGED moveFaults
                   \/ /\ moveFaults < MaxMoveFaults /\ moveFaults' = moveFaults + 1
                      /\ ~Blocked(skills[s], s \in wanted)
                      /\ \E half \in HalfMoved(skills[s], s \in wanted) :
                            skills' = [movedBy(done) EXCEPT ![s] = half]
                /\ Refuses("set", AnySkill)

\* PUT of the enabled skills, on either route.
PutsSkills(wanted) == SetsEnabled(wanted) /\ Ages(skills' # skills)

\* PATCH: setManagedSkillEnabled of one skill.
PatchesSkill(s, enable) ==
    /\ Issued
    /\ LET source == IF enable THEN skills[s].disabled ELSE skills[s].enabled
       IN  \/ /\ source # 0 /\ moveFaults < MaxMoveFaults /\ moveFaults' = moveFaults + 1
              /\ ~Blocked(skills[s], enable)
              /\ \E half \in HalfMoved(skills[s], enable) :
                    skills' = [skills EXCEPT ![s] = half]
              /\ Refuses("patch", AnySkill)
           \/ /\ source # 0 => ~Blocked(skills[s], enable)
              /\ skills' = [skills EXCEPT ![s] = Moved(skills[s], enable)]
              /\ Awaits("patch", AnySkill, NoCopies, NoCopies)
              /\ UNCHANGED moveFaults
    /\ Ages(skills' # skills)

Deletes(s) ==
    /\ Issued
    /\ skills' = [skills EXCEPT ![s] = NoCopies]
    /\ Ages(skills' # skills)
    /\ Awaits("delete", s, NoCopies, NoCopies)
    /\ UNCHANGED moveFaults

-------------------------------------------------------------------------------
(* ensureDefaultRuntimeSkillsWhenEmpty.                                    *)

Available == {s \in DefaultSkills : skills[s] # NoCopies}

\* It reads which skills are enabled and, if none is, which there are.
InstallerLooks ==
    /\ seen = "none"
    /\ \A s \in SkillIds : skills[s].enabled = 0
    /\ Available # {}
    /\ seen' = "current"
    /\ UNCHANGED <<skills, loaded, skillRequests, answered, issued, moveFaults, untold>>

RevisionMatches == seen = "current"

\* Its PUT; one that is refused is tried again, from the look.
SetsDefaults ==
    /\ seen # "none"
    /\ seen' = "none"
    /\ \/ RevisionMatches /\ SetsEnabled(Available)
       \/ /\ ~RevisionMatches
          /\ UNCHANGED <<skills, loaded, skillRequests, answered, issued, moveFaults, untold>>

-------------------------------------------------------------------------------
(* The call they await.                                                    *)

\* disposeOpencodeSkillInstance: OpenCode loads skills anew when it next needs them.
OpencodeForgets(r) ==
    /\ r \in skillRequests /\ ~r.told
    /\ loaded' = NotLoaded
    /\ untold' = FALSE
    /\ skillRequests' = (skillRequests \ {r}) \cup {[r EXCEPT !.told = TRUE]}
    /\ UNCHANGED <<skills, answered, seen, issued, moveFaults>>

\* Its answer arrives.
InstanceDisposed(r) ==
    /\ r \in skillRequests /\ r.told
    /\ skillRequests' = skillRequests \ {r}
    /\ answered' = AnswerTo(r.nr, r.op, r.skill, TRUE)
    /\ UNCHANGED <<skills, loaded, seen, issued, moveFaults, untold>>

\* The call fails or its answer does not arrive in time; then only an import is undone.
DisposeFails(r) ==
    /\ r \in skillRequests
    /\ skills' = IF r.op = "import"
                 THEN [skills EXCEPT ![r.skill] = RolledBack(skills[r.skill])] ELSE skills
    /\ skillRequests' = skillRequests \ {r}
    /\ answered' = AnswerTo(r.nr, r.op, r.skill, FALSE)
    /\ untold' = (untold \/ ~r.told \/ skills' # skills)
    /\ Ages(skills' # skills)
    /\ UNCHANGED <<loaded, issued, moveFaults>>

\* OpenCode forgets on its own, or because of a call that was given up before.
OpencodeRestarts ==
    /\ loaded.there
    /\ loaded' = NotLoaded
    /\ untold' = FALSE
    /\ UNCHANGED <<skills, skillRequests, answered, seen, issued, moveFaults>>

OpencodeLoads ==
    /\ ~loaded.there
    /\ loaded' = [there |-> TRUE, skills |-> Enabled]
    /\ UNCHANGED <<skills, skillRequests, answered, seen, issued, moveFaults, untold>>

\* The server stops; OpenCode, a process of its own, goes on.
SkillsCrash ==
    /\ skillRequests # {}
    /\ skillRequests' = {}
    /\ untold' = (untold \/ \E r \in skillRequests : ~r.told)
    /\ UNCHANGED <<skills, loaded, answered, seen, issued, moveFaults>>

SkillsNext ==
    \/ \E s \in SkillIds, enable \in BOOLEAN : ImportsSkill(s, enable) \/ PatchesSkill(s, enable)
    \/ \E wanted \in SUBSET SkillIds : PutsSkills(wanted)
    \/ \E s \in SkillIds : Deletes(s)
    \/ \E r \in skillRequests : OpencodeForgets(r) \/ InstanceDisposed(r) \/ DisposeFails(r)
    \/ InstallerLooks \/ SetsDefaults
    \/ OpencodeLoads \/ OpencodeRestarts \/ SkillsCrash

SkillsSpec == SkillsInit /\ [][SkillsNext]_skillsVars

-------------------------------------------------------------------------------
(* Properties.                                                             *)

TextsOf(copies) == {copies.enabled, copies.disabled} \ {0}

\* However requests overlap and wherever they fail: enabling and disabling never loses
\* a skill's text, which only a delete and the undoing of an import do; an import
\* that fails leaves no trace, if there was no disabled copy that it took with it and
\* no other request has come between; once OpenCode has done what every request told
\* it, and no request that ended without telling it has changed skills since, it uses
\* exactly the skills that are enabled (importManagedSkillWithConfigUpdate,
\* setEnabledSkillsFromCatalog).  And what an installer enables by default disables
\* nothing that was enabled since it looked.
SkillsAreKept ==
    [][/\ SkillsTypeOK'
       /\ \A s \in SkillIds :
            \/ TextsOf(skills[s]) \subseteq TextsOf(skills'[s])
            \/ answered' # answered /\ answered'.op = "import" /\ ~answered'.ok /\ answered'.skill = s
            \/ \E r \in skillRequests' \ skillRequests : r.op = "delete" /\ r.skill = s
       /\ \A r \in skillRequests :
            /\ r.op = "import" /\ answered'.nr = r.nr /\ ~answered'.ok
            /\ skills[r.skill] = r.after /\ r.before.disabled = 0
            => skills'[r.skill] = r.before
       /\ (\A r \in skillRequests' : r.told) /\ ~untold' /\ loaded'.there
            => loaded'.skills = Enabled'
       /\ seen # "none" /\ seen' = "none" =>
            \A s \in SkillIds : skills[s].enabled # 0 => skills'[s].enabled # 0
      ]_skillsVars
===============================================================================
