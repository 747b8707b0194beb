------------------------------ MODULE VendorSync ------------------------------
(***************************************************************************)
(* The vendored forks (scripts/opencode-sync.ts, scripts/executor-sync.ts):*)
(* a lock file names a commit of upstream, a directory holds the patches   *)
(* to it, and both are tracked; a clean clone and a worktree with the      *)
(* patches applied are made from them, and developers commit there.        *)
(*                                                                         *)
(* One script runs at a time.  Every git or build command it calls can     *)
(* fail and ends it there; developers work on in the meantime.  A tree is  *)
(* a commit of upstream and the changes made to it.                        *)
(***************************************************************************)
EXTENDS Naturals, FiniteSets

CONSTANTS
    LastCommit,     \* upstream's releases are the commits 1..LastCommit
    OurChanges,     \* what developers commit
    Clashes,        \* change and commit: a patch with the one cannot cross the other
    MaxScripts      \* bound: scripts run

UpstreamCommits == 1 .. LastCommit

ASSUME VendorAssumption ==
    /\ LastCommit \in Nat \ {0}
    /\ IsFiniteSet(OurChanges)
    /\ Clashes \subseteq OurChanges \X UpstreamCommits
    /\ MaxScripts \in Nat

VARIABLES
    fork,       \* which of the two scripts
    lock,       \* upstream.commit of the lock file
    cleanroom,  \* the commit the clone is at, 0: there is none
    vendor,     \* the worktree
    patches,    \* the directory of patches
    script,     \* the script under way
    scripts,    \* history: how many so far
    broken      \* history: a script has failed

vendorVars == <<fork, lock, cleanroom, vendor, patches, script, scripts, broken>>

\* dirty: uncommitted changes, or patches that stopped half-way.
Vendor == [there : BOOLEAN, base : UpstreamCommits, ours : SUBSET OurChanges, dirty : BOOLEAN]
NoVendor == [there |-> FALSE, base |-> 1, ours |-> {}, dirty |-> FALSE]

\* The patches from one commit of upstream to the worktree, which contain what
\* upstream itself has changed if the worktree is based on a later one.
PatchSeries == [ours : SUBSET OurChanges, from : UpstreamCommits, to : UpstreamCommits]

Script == [at : {"none", "recreate", "validate", "clear", "export", "verify", "lock"},
           op : {"export", "rebuild", "ref", "hardRef"}, target : UpstreamCommits]
NoScript == [at |-> "none", op |-> "export", target |-> 1]

VendorTypeOK ==
    /\ fork \in {"opencode", "executor"}
    /\ lock \in UpstreamCommits
    /\ cleanroom \in UpstreamCommits \cup {0}
    /\ vendor \in Vendor
    /\ patches \in PatchSeries
    /\ script \in Script
    /\ scripts \in 0 .. MaxScripts
    /\ broken \in BOOLEAN

VendorInit ==
    /\ fork \in {"opencode", "executor"}
    /\ lock = 1
    /\ cleanroom = 0
    /\ vendor = NoVendor
    /\ patches = [ours |-> {}, from |-> 1, to |-> 1]
    /\ script = NoScript
    /\ scripts = 0
    /\ broken = FALSE

-------------------------------------------------------------------------------
(* git am --3way of the patches on a commit.                               *)

Between(a, b) == {k \in UpstreamCommits : (a < k /\ k <= b) \/ (b < k /\ k <= a)}
Applies(commit) ==
    \A c \in patches.ours, k \in Between(patches.to, commit) : <<c, k>> \notin Clashes
Applied(commit) ==
    [there |-> TRUE, ours |-> patches.ours, dirty |-> FALSE,
     base |-> IF patches.from # patches.to /\ commit < patches.to THEN patches.to ELSE commit]

\* branchMatchesPatches: the worktree is what the patches make of a commit.
BUG_Reproducible(commit) == Applies(commit)
Reproducible(commit) ==
    /\ Applies(commit)
    /\ vendor.base = Applied(commit).base /\ vendor.ours = patches.ours

\* runCheck: the patches are applied to the commit of the lock in a clone of its own,
\* twice, and the results compared.
CheckPasses == Applies(lock)

Clean == vendor.there => ~vendor.dirty

-------------------------------------------------------------------------------
(* The scripts.                                                            *)

Proceeds(where) == script' = [script EXCEPT !.at = where]
Ends == script' = NoScript /\ UNCHANGED broken
Fails == script' = NoScript /\ broken' = TRUE

\* What each operation asks of the worktree before it does anything.
MayStart(op, target) ==
    CASE op = "export" -> Clean /\ (fork = "opencode" => vendor.there)
      [] op = "rebuild" -> fork = "executor" => Clean
      [] op = "ref" -> Clean /\ (fork = "opencode" /\ vendor.there => Reproducible(target))
      [] op = "hardRef" -> TRUE

\* ensureCleanroomClone, ensureCleanroomAtCommit.
CleanroomAt(commit) == cleanroom' = commit

\* A refused operation changes nothing.
StartsScript(op, target) ==
    /\ script.at = "none" /\ scripts < MaxScripts
    /\ op \in {"export", "rebuild"} => target = lock
    /\ MayStart(op, target)
    /\ scripts' = scripts + 1
    /\ script' = [at |-> IF op = "export" THEN "clear" ELSE "recreate",
                  op |-> op, target |-> target]
    /\ CleanroomAt(target)
    /\ UNCHANGED <<fork, lock, vendor, patches, broken>>

\* recreateVendorWorktree: the worktree goes, unless it is dirty and nothing forces
\* it, and comes back with the patches, or stops at the one that does not apply.
RecreatesVendor ==
    /\ script.at = "recreate"
    /\ vendor.there /\ vendor.dirty => script.op = "hardRef"
    /\ IF Applies(script.target)
       THEN /\ vendor' = Applied(script.target)
            /\ Proceeds(CASE script.op = "rebuild" -> "verify"
                          [] script.op # "rebuild" /\ fork = "opencode" -> "validate"
                          [] OTHER -> "clear")
            /\ UNCHANGED broken
       ELSE /\ vendor' = [Applied(script.target) EXCEPT !.ours = {}, !.dirty = TRUE]
            /\ Fails
    /\ UNCHANGED <<fork, lock, cleanroom, patches, scripts>>

\* runValidation: install, type check, build and tests.
ValidatesVendor ==
    /\ script.at = "validate"
    /\ Proceeds("clear")
    /\ UNCHANGED <<fork, lock, cleanroom, vendor, patches, scripts, broken>>

\* exportPatches: the old patches are removed, and the new ones written, if there is
\* a worktree to write them from.
ClearsPatches ==
    /\ script.at = "clear"
    /\ fork = "opencode" => ~vendor.dirty
    /\ patches' = [ours |-> {}, from |-> script.target, to |-> script.target]
    /\ Proceeds("export")
    /\ UNCHANGED <<fork, lock, cleanroom, vendor, scripts, broken>>

ExportsPatches ==
    /\ script.at = "export" /\ vendor.there
    /\ patches' = [ours |-> vendor.ours, from |-> script.target, to |-> vendor.base]
    /\ IF script.op = "export" /\ fork = "executor" THEN Ends
       ELSE /\ Proceeds(IF script.op = "export" THEN "verify" ELSE "lock")
            /\ UNCHANGED broken
    /\ UNCHANGED <<fork, lock, cleanroom, vendor, scripts>>

\* verifyBranchMatchesPatches, the end of an export and of a rebuild.
VerifiesBranch ==
    /\ script.at = "verify"
    /\ IF fork = "opencode" => ~vendor.dirty /\ Reproducible(script.target)
       THEN Ends ELSE Fails
    /\ UNCHANGED <<fork, lock, cleanroom, vendor, patches, scripts>>

\* verifyPatchReproducibility, and then writeLock.
WritesLock ==
    /\ script.at = "lock"
    /\ IF ~vendor.dirty /\ Reproducible(script.target)
       THEN lock' = script.target /\ Ends
       ELSE Fails /\ UNCHANGED lock
    /\ UNCHANGED <<fork, cleanroom, vendor, patches, scripts>>

\* A command fails, or the script is interrupted.
ScriptFails ==
    /\ script.at # "none"
    /\ Fails
    /\ UNCHANGED <<fork, lock, cleanroom, vendor, patches, scripts>>

-------------------------------------------------------------------------------
(* Developers.                                                             *)

\* Changes are made, committed or thrown away, and so is a half-applied patch.
EditsVendor ==
    /\ vendor.there
    /\ \/ ~vendor.dirty /\ vendor' = [vendor EXCEPT !.dirty = TRUE]
       \/ /\ vendor.dirty
          /\ \E ours \in SUBSET OurChanges :
                vendor.ours \subseteq ours /\ vendor' = [vendor EXCEPT !.ours = ours,
                                                                      !.dirty = FALSE]
    /\ UNCHANGED <<fork, lock, cleanroom, patches, script, scripts, broken>>

VendorNext ==
    \/ \E op \in {"export", "rebuild", "ref", "hardRef"}, c \in UpstreamCommits :
          StartsScript(op, c)
    \/ RecreatesVendor \/ ValidatesVendor \/ ClearsPatches \/ ExportsPatches
    \/ VerifiesBranch \/ WritesLock \/ ScriptFails
    \/ EditsVendor

VendorSpec == VendorInit /\ [][VendorNext]_vendorVars

-------------------------------------------------------------------------------
(* Properties.                                                             *)

\* The lock moves only to a commit on which the patches just exported make the very
\* clean worktree that is there, though developers commit to it while the script
\* runs; and as long as no script has failed, the patches are patches to the commit
\* of the lock, and nothing that upstream has done is among them, so that the check
\* passes (docs/vendor-opencode.md:26, "update the lock only after success").
LockFitsPatches ==
    [][/\ VendorTypeOK'
       /\ lock' # lock =>
            /\ patches.from = lock' /\ ~vendor.dirty
            /\ vendor.base = patches.to /\ vendor.ours = patches.ours
       /\ script.at # "none" /\ script'.at = "none" /\ ~broken' =>
            patches'.from = lock' /\ patches'.to = lock' /\ CheckPasses']_vendorVars
===============================================================================
