---------------------------- MODULE OpenclawImport ----------------------------
(***************************************************************************)
(* The import of an OpenClaw workspace (agents/openclawImport.ts, called   *)
(* by the import routes): files of a source are copied into the workspace, *)
(* never over what is there, save AGENTS.md, which a model may merge.      *)
(*                                                                         *)
(* An import holds the event loop from one await to the next, and awaits   *)
(* only the two requests to the model; other programs write the workspace  *)
(* and a local source at any time, between its look at a target and its    *)
(* copy too.  Migrations of one git repository share its directory in the  *)
(* cache, where each begins with a fetch and a checkout.  A file is its    *)
(* content, a number, 0 for none.                                          *)
(***************************************************************************)
EXTENDS Naturals, Sequences

CONSTANTS
    Migrations,        \* requests to import
    SourceTrees,        \* a sequence of source trees: git's history or local edits
    ValidMerges,    \* what the model merges, not empty and without a reference to OpenClaw
    OpenclawEdits,  \* what others write into the workspace
    NoImport,
    MaxTargetEdits  \* bound: edits of the workspace, and writes that fail half-way

\* Paths that shouldIncludePath lets through; a directory in the workspace is not a file.
SourceFiles == {"AGENTS.md", "CLAUDE.md", "claude.md", "skills/x", ".agents/skills/x",
                ".opencode/opencode.jsonc"}

ASSUME OpenclawAssumption ==
    /\ SourceTrees # << >> /\ SourceTrees \in Seq([SourceFiles -> Nat])
    /\ ValidMerges \subseteq Nat /\ OpenclawEdits \subseteq Nat
    /\ NoImport \notin Migrations
    /\ MaxTargetEdits \in Nat

Targets == SourceFiles \ {"skills/x"}
Protected == {".opencode/opencode.jsonc"}
Missing == 0
Directory == 1
Cut == 2            \* the part of a file that a write has left that failed

VARIABLES
    source,         \* the directory the files are read from
    commit,         \* the last of SourceTrees that has been published
    fromGit,        \* the source is a git repository
    target,         \* the workspace
    imports,        \* each import
    loop,           \* the import that holds the event loop, or NoImport
    targetEdits,    \* history: how many of them
    stale,          \* history: imports whose target has changed since they looked at it
    moved           \* history: imports whose source has changed since they listed it

openclawVars == <<source, commit, fromGit, target, imports, loop, targetEdits, stale, moved>>

\* found: sourceHash of the files discovered; file: the one at hand; seen: its target as
\* the import looked at it; merger: llmMerger.
NotStarted == [at |-> "new", found |-> [f \in SourceFiles |-> Missing], todo |-> {},
               file |-> "AGENTS.md", seen |-> Missing, merger |-> "undefined"]
Busy == {"copying", "creating", "prompting"}

OpenclawTypeOK ==
    /\ \A f \in SourceFiles : source[f] \in Nat
    /\ \A t \in Targets : target[t] \in Nat
    /\ \A i \in Migrations :
          /\ imports[i].at \in {"new", "walking", "over"} \cup Busy
          /\ imports[i].todo \subseteq SourceFiles
    /\ loop \in Migrations \cup {NoImport}
    /\ \A i \in Migrations : imports[i].at \in {"walking", "copying"} <=> loop = i

OpenclawInit ==
    /\ source = SourceTrees[1] /\ commit = 1
    /\ fromGit \in BOOLEAN
    /\ target \in [Targets -> {Missing, 30}]
    /\ imports = [i \in Migrations |-> NotStarted]
    /\ loop = NoImport
    /\ targetEdits = 0
    /\ stale = {} /\ moved = {}

Present(tree) == {f \in SourceFiles : tree[f] # Missing}
Listed(i) == imports[i].at \in {"walking"} \cup Busy

\* mapTargetRelativePath, and the compatibility bridge for CLAUDE.md in upper or lower
\* case: two files of a source may have one target.
TargetOf(found, f) ==
    IF f = "skills/x" THEN ".agents/skills/x"
    ELSE IF f \in {"CLAUDE.md", "claude.md"} /\ found["AGENTS.md"] = Missing THEN "AGENTS.md"
    ELSE f
AtHand(i) == TargetOf(imports[i].found, imports[i].file)

SetSource(tree) ==
    /\ source' = tree
    /\ moved' = IF tree = source THEN moved ELSE moved \cup {i \in Migrations : Listed(i)}

-------------------------------------------------------------------------------
(* One import.                                                             *)

\* materializeSource, which may fail, and discoverMigrationFiles.
ImportBegins(i) ==
    /\ imports[i].at = "new" /\ loop = NoImport
    /\ \/ /\ SetSource(IF fromGit THEN SourceTrees[commit] ELSE source)
          /\ imports' = [imports EXCEPT ![i] = [@ EXCEPT !.at = "walking", !.found = source',
                                                         !.todo = Present(source')]]
          /\ loop' = i
       \/ /\ imports' = [imports EXCEPT ![i].at = "over"]
          /\ UNCHANGED <<source, moved, loop>>
    /\ UNCHANGED <<commit, fromGit, target, targetEdits, stale>>

\* The file is done with, whatever list of the answer it is put on.
Handled(i, f) ==
    imports' = [imports EXCEPT ![i] = [@ EXCEPT !.at = "walking", !.todo = imports[i].todo \ {f},
                                                !.file = "AGENTS.md", !.seen = Missing]]

\* A step that changes the files in changed, after it has said what imports' is.
Notes(changed) ==
    stale' = {i \in Migrations : imports'[i].at \in Busy /\ (i \in stale \/ AtHand(i) \in changed)}
PutsAt(t, content) == target' = [target EXCEPT ![t] = content] /\ Notes({t})
Leaves == UNCHANGED <<target, targetEdits>> /\ Notes({})
Mishap == targetEdits < MaxTargetEdits /\ targetEdits' = targetEdits + 1

\* A write of a file, in full or in part.
WritesFile(t, content) ==
    \/ PutsAt(t, content) /\ UNCHANGED targetEdits
    \/ Mishap /\ PutsAt(t, Cut)

\* The import has looked at the target and goes on with what it found.
Looks(i, f, at) ==
    /\ imports' = [imports EXCEPT ![i].at = at, ![i].file = f,
                                  ![i].seen = target[TargetOf(imports[i].found, f)]]
    /\ UNCHANGED <<target, targetEdits, stale>>

BUG_CopiesOver(i, f, t) == target[t] \notin {Directory, imports[i].found[f]}
\* readTargetPathState: the target is missing.
CopiesOver(i, f, t) == target[t] = Missing

ImportsFile(i, f) ==
    LET t == TargetOf(imports[i].found, f)
    IN  /\ loop = i /\ imports[i].at = "walking" /\ f \in imports[i].todo
        /\ \/ /\ t \notin Protected /\ CopiesOver(i, f, t)
              /\ Looks(i, f, "copying")
              /\ UNCHANGED loop
           \* protected, of another type, identical, or kept: not AGENTS.md, too large, not text,
           \* or there is no merger.
           \/ /\ t \notin Protected => ~CopiesOver(i, f, t)
              /\ Handled(i, f)
              /\ Leaves
              /\ UNCHANGED loop
           \* AGENTS.md: createLlmMerger, or the prompt where the merger is there.
           \/ /\ t = "AGENTS.md"
              /\ target[t] \notin {Missing, Directory, imports[i].found[f]} /\ source[f] # Missing
              /\ \/ imports[i].merger = "undefined" /\ Looks(i, f, "creating")
                 \/ imports[i].merger = "made" /\ Looks(i, f, "prompting")
              /\ loop' = NoImport
        /\ UNCHANGED <<source, commit, fromGit, moved>>

\* copyFileSync, which writes over whatever is there by now, in full or in part; it
\* fails where the source file is gone or the target a directory.
CopyEnds(i) ==
    LET f == imports[i].file
        t == AtHand(i)
    IN  /\ loop = i /\ imports[i].at = "copying"
        /\ Handled(i, f)
        /\ \/ source[f] # Missing /\ target[t] # Directory /\ WritesFile(t, source[f])
           \/ Leaves
        /\ UNCHANGED <<source, commit, fromGit, loop, moved>>

\* The session is there, and is prompted.
MergerCreated(i) ==
    /\ imports[i].at = "creating" /\ loop = NoImport
    /\ imports' = [imports EXCEPT ![i].at = "prompting", ![i].merger = "made"]
    /\ UNCHANGED <<source, commit, fromGit, target, loop, targetEdits, stale, moved>>

\* There is no merger: the file is kept, and so will the next be.
MergerFails(i) ==
    /\ imports[i].at = "creating" /\ loop = NoImport
    /\ imports' = [imports EXCEPT ![i] = [@ EXCEPT !.at = "walking",
                                                   !.todo = imports[i].todo \ {imports[i].file},
                                                   !.file = "AGENTS.md", !.seen = Missing,
                                                   !.merger = "none"]]
    /\ Leaves
    /\ loop' = i
    /\ UNCHANGED <<source, commit, fromGit, moved>>

\* The model's answer has come: keep_source, a merge, or one that leaves the file
\* (keep_target, an invalid merge, no answer, an error before the write).
MergeAnswered(i) ==
    LET f == imports[i].file
        t == AtHand(i)
    IN  /\ imports[i].at = "prompting" /\ loop = NoImport
        /\ Handled(i, f)
        /\ \/ /\ target[t] # Directory
              /\ \/ source[f] # Missing /\ WritesFile(t, source[f])
                 \/ \E content \in ValidMerges \ {imports[i].seen} : WritesFile(t, content)
           \/ Leaves
        /\ loop' = i
        /\ UNCHANGED <<source, commit, fromGit, moved>>

ImportEnds(i) ==
    /\ loop = i /\ imports[i].at = "walking" /\ imports[i].todo = {}
    /\ imports' = [imports EXCEPT ![i] = [NotStarted EXCEPT !.at = "over"]]
    /\ loop' = NoImport
    /\ moved' = moved \ {i}
    /\ UNCHANGED <<source, commit, fromGit, target, targetEdits, stale>>

-------------------------------------------------------------------------------
(* Others.                                                                 *)

\* A commit is seen when it is fetched, an edit of a local directory at once.
SourceChanges ==
    /\ commit < Len(SourceTrees)
    /\ commit' = commit + 1
    /\ IF fromGit THEN UNCHANGED <<source, moved>> ELSE SetSource(SourceTrees[commit + 1])
    /\ UNCHANGED <<fromGit, target, imports, loop, targetEdits, stale>>

TargetEdited ==
    /\ Mishap
    /\ UNCHANGED <<source, commit, fromGit, imports, loop, moved>>
    /\ \E t \in Targets, content \in OpenclawEdits : PutsAt(t, content)

OpenclawNext ==
    \/ \E i \in Migrations :
          \/ ImportBegins(i)
          \/ \E f \in SourceFiles : ImportsFile(i, f)
          \/ CopyEnds(i)
          \/ MergerCreated(i) \/ MergerFails(i) \/ MergeAnswered(i)
          \/ ImportEnds(i)
    \/ SourceChanges \/ TargetEdited

OpenclawSpec == OpenclawInit /\ [][OpenclawNext]_openclawVars

-------------------------------------------------------------------------------
(* Properties.                                                             *)

\* An import writes one file of its source at a time, in full or in part, and nothing
\* that is protected.  It copies only where nothing was when it looked, so of two files
\* with one target the second is not copied over the first, and copies what was
\* listed, unless the source has moved since then.  What it writes over otherwise is
\* AGENTS.md, as the model was shown it.  Either way, what others have written since it
\* looked is lost (migrateOpenclawWorkspace).
ImportsWriteOverNothing ==
    [][/\ OpenclawTypeOK'
       /\ \A t \in Targets : target'[t] # target[t] /\ imports' # imports =>
            \E i \in Migrations :
                LET was == imports[i]
                IN  /\ t = AtHand(i) /\ t \notin Protected
                    /\ was.file \in was.todo \ imports'[i].todo
                    /\ i \notin stale => target[t] = was.seen
                    /\ \/ /\ was.at = "copying" /\ was.seen = Missing
                          /\ i \in moved \/ target'[t] \in {was.found[was.file], Cut}
                       \/ was.at = "prompting" /\ t = "AGENTS.md"]_openclawVars
===============================================================================
