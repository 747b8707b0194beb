------------------------------ MODULE MemoryIndex ------------------------------
(***************************************************************************)
(* The memory store (memory/service.ts): Markdown files of records, which  *)
(* rememberMemory appends to and users edit, and the index of them in      *)
(* SQLite: a row and the records of each file, the memories marked as      *)
(* superseded, and the vectors of each file in a table of their own.       *)
(*                                                                         *)
(* Calls of rememberMemory, one synchronisation of the index at a time     *)
(* and the edits of users interleave at every await.  The content of a     *)
(* file is the set of the records in it, and its hash that set.            *)
(***************************************************************************)
EXTENDS Integers, FiniteSets

CONSTANTS
    MemoryFiles,
    MainFile,       \* MEMORY.md, which the scaffold creates when it is missing
    Today,          \* the file of the day, which records are appended to
    Old,            \* the records the main file has to begin with
    Writers,        \* calls of rememberMemory, each named as the record it writes
    Contents,       \* the content of each record
    Supersedes,     \* the records each record supersedes
    EmbedModels,    \* embedding models, of different dimensions
    MaxEdits,       \* bound: edits of users and changes of the model
    MaxSyncs,       \* bound: synchronisations
    MaxFaults       \* bound: reads, writes and embeddings that fail, crashes

MemoryRecords == Old \cup Writers

ASSUME MemoryAssumption ==
    /\ IsFiniteSet(MemoryFiles)
    /\ {MainFile, Today} \subseteq MemoryFiles /\ MainFile # Today
    /\ IsFiniteSet(MemoryRecords) /\ Old \cap Writers = {}
    /\ DOMAIN Contents = MemoryRecords
    /\ Supersedes \in [MemoryRecords -> SUBSET MemoryRecords]
    /\ EmbedModels \in Nat \ {0}
    /\ {MaxEdits, MaxSyncs, MaxFaults} \subseteq Nat

VARIABLES
    disk,       \* the memory files
    index,      \* memory_files, memory_chunks and memory_records: per file
    marked,     \* the records of the index with a superseded_by
    vectors,    \* the vector table: the model each file's vectors are of, 0: none
    dimensions, \* the dimensions of the table, named as their model, 0: no table
    metaModel,  \* memory_meta: the model of the last synchronisation, 0: none
    embedModel, \* the model of the configuration
    remember,   \* the calls of rememberMemory
    writeLog,   \* memory_write_events: the calls logged, and how
    sync,       \* syncPromise: the synchronisation under way
    memoryEdits, syncs, memoryFaults,   \* history: how many so far
    discarded,  \* history: the records users have removed from a file
    bare        \* history: files without vectors of the model last synchronised
                \* with, because a forced synchronisation failed, or the model
                \* was not that one when this or another file was indexed, perhaps
                \* by a call during that synchronisation

memoryVars == <<disk, index, marked, vectors, dimensions, metaModel, embedModel,
                remember, writeLog, sync, memoryEdits, syncs, memoryFaults, discarded,
                bare>>
store == <<index, marked, vectors, dimensions>>
memoryHistory == <<memoryEdits, syncs, memoryFaults, discarded, bare>>

File == [there : BOOLEAN, has : SUBSET MemoryRecords]
NoFile == [there |-> FALSE, has |-> {}]
EmptyFile == [there |-> TRUE, has |-> {}]

\* How far a call is.  It has opened the file, which empties it, when it is filling;
\* it ends well, rejected, with an error before it has opened the file (failed),
\* before it has filled it (cut), or with its record written (unindexed).
Opened == {"filling", "cut", "written", "embedding", "done", "unindexed"}
CallStages == {"new", "validated", "writing", "rejected", "failed"} \cup Opened

\* A call: how far it is, the content of the file it found, the content of the
\* file and the model it indexes, and
\*   missed: history, what others have written to the file since it read the file,
\*   unread: history, what the file held when it could not be read.
Remember == [at : CallStages,
             previous : SUBSET MemoryRecords, content : SUBSET MemoryRecords,
             model : 0 .. EmbedModels, missed : SUBSET MemoryRecords,
             unread : SUBSET MemoryRecords]
NewCall == [at |-> "new", previous |-> {}, content |-> {}, model |-> 0, missed |-> {},
            unread |-> {}]

\* A call that has ended keeps its history only, if it has opened the file.
Ended(call, stage) ==
    IF stage \notin Opened THEN [NewCall EXCEPT !.at = stage]
    ELSE [NewCall EXCEPT !.at = stage, !.missed = call.missed, !.unread = call.unread]

\* A synchronisation: how far it is, whether it is forced (by its caller or by a
\* change of the model), the model it began with, the files listed and those still
\* to be indexed, the file being indexed and its content, and
\*   touched: history, the files written, edited or indexed by others during it.
Sync == [at : {"idle", "listing", "indexing", "embedding"}, force : BOOLEAN,
         model : 0 .. EmbedModels, active : SUBSET MemoryFiles,
         todo : SUBSET MemoryFiles, file : MemoryFiles,
         content : SUBSET MemoryRecords, using : 0 .. EmbedModels,
         touched : SUBSET MemoryFiles]
NoSync == [at |-> "idle", force |-> FALSE, model |-> 0, active |-> {},
           todo |-> {}, file |-> MainFile, content |-> {}, using |-> 0, touched |-> {}]

MemoryTypeOK ==
    /\ disk \in [MemoryFiles -> File]
    /\ index \in [MemoryFiles -> File]
    /\ marked \subseteq MemoryRecords
    /\ vectors \in [MemoryFiles -> 0 .. EmbedModels]
    /\ dimensions \in 0 .. EmbedModels
    /\ metaModel \in 0 .. EmbedModels
    /\ embedModel \in 1 .. EmbedModels
    /\ remember \in [Writers -> Remember]
    /\ writeLog \in [Writers -> {"none", "accepted", "rejected"}]
    /\ sync \in Sync
    /\ memoryEdits \in 0 .. MaxEdits
    /\ syncs \in 0 .. MaxSyncs
    /\ memoryFaults \in 0 .. MaxFaults
    /\ discarded \subseteq MemoryRecords
    /\ bare \subseteq MemoryFiles

MemoryInit ==
    /\ disk = [f \in MemoryFiles |->
                IF f = MainFile THEN [there |-> TRUE, has |-> Old] ELSE NoFile]
    /\ index = [f \in MemoryFiles |-> NoFile]
    /\ marked = {}
    /\ vectors = [f \in MemoryFiles |-> 0]
    /\ dimensions = 0
    /\ metaModel = 0
    /\ embedModel = 1
    /\ remember = [w \in Writers |-> NewCall]
    /\ writeLog = [w \in Writers |-> "none"]
    /\ sync = NoSync
    /\ memoryEdits = 0 /\ syncs = 0 /\ memoryFaults = 0
    /\ discarded = {}
    /\ bare = {}

-------------------------------------------------------------------------------
(* The index.                                                              *)

Indexed == UNION {index[f].has : f \in MemoryFiles}

Faulty ==
    /\ memoryFaults < MaxFaults
    /\ memoryFaults' = memoryFaults + 1

\* ensureWorkspaceScaffold.
Scaffolded(files) ==
    IF files[MainFile].there THEN files ELSE [files EXCEPT ![MainFile] = EmptyFile]

\* findDuplicateRecordId: an active record of the index has the same content.
Duplicate(w) == \E r \in Indexed \ marked : Contents[r] = Contents[w]

\* Whether indexMemoryFile leaves a file alone that has these contents.
BUG_UpToDate(f, content, force) == index[f].there
BUG_IgnoresForce(f, content, force) == index[f] = [there |-> TRUE, has |-> content]
UpToDate(f, content, force) ==
    ~force /\ index[f] = [there |-> TRUE, has |-> content]

\* What others have done to a file is noted in the synchronisation under way.
Touches(f) == IF sync.at = "idle" THEN sync ELSE [sync EXCEPT !.touched = @ \cup {f}]

\* The transaction of indexMemoryFile, with what precedes it in the same turn: the
\* table is made anew for vectors of other dimensions, the rows of the file are
\* replaced, and the records its records supersede are marked.  (The cache of
\* embeddings is left out.)
Indexes(f, content, using, expected) ==
    LET anew == content # {} /\ dimensions # using
        rows == (Indexed \ index[f].has) \cup content
    IN  /\ index' = [index EXCEPT ![f] = [there |-> TRUE, has |-> content]]
        /\ marked' = ((marked \ index[f].has)
                        \cup UNION {Supersedes[r] : r \in content}) \cap rows
        /\ dimensions' = IF anew THEN using ELSE dimensions
        /\ vectors' = [g \in MemoryFiles |->
                        IF g = f THEN IF content = {} THEN 0 ELSE using
                        ELSE IF anew THEN 0 ELSE vectors[g]]
        /\ bare' = (bare \ {f})
                    \cup (IF anew THEN {g \in MemoryFiles \ {f} : vectors[g] # 0} ELSE {})
                    \cup (IF using # expected THEN {f} ELSE {})

-------------------------------------------------------------------------------
(* rememberMemory.                                                         *)

\* The input is validated; a rejected call is logged.
Validates(w) ==
    /\ remember[w].at = "new"
    /\ IF Duplicate(w)
       THEN /\ remember' = [remember EXCEPT ![w].at = "rejected"]
            /\ writeLog' = [writeLog EXCEPT ![w] = "rejected"]
       ELSE /\ remember' = [remember EXCEPT ![w].at = "validated"]
            /\ UNCHANGED writeLog
    /\ UNCHANGED <<disk, store, metaModel, embedModel, sync, memoryHistory>>

\* appendStructuredMemory reads the file of the day, which another call may have just
\* emptied; a file it cannot read is taken for an empty one.
AppendReads(w) ==
    /\ remember[w].at = "validated"
    /\ disk' = Scaffolded(disk)
    /\ \/ /\ remember' = [remember EXCEPT ![w].at = "writing",
                                          ![w].previous = disk[Today].has]
          /\ UNCHANGED memoryFaults
       \/ /\ disk[Today].has # {} /\ Faulty
          /\ remember' = [remember EXCEPT ![w].at = "writing",
                                          ![w].unread = disk[Today].has]
    /\ sync' = IF disk' = disk THEN sync ELSE Touches(MainFile)
    /\ UNCHANGED <<store, metaModel, embedModel, writeLog, memoryEdits, syncs,
                   discarded, bare>>

\* writeFile opens the file, which empties it or creates it.
AppendOpens(w) ==
    /\ remember[w].at = "writing"
    /\ disk' = [disk EXCEPT ![Today] = EmptyFile]
    /\ remember' = [remember EXCEPT ![w].at = "filling"]
    /\ sync' = Touches(Today)
    /\ UNCHANGED <<store, metaModel, embedModel, writeLog, memoryHistory>>

\* The content it writes.
BUG_Appended(previous, w) == {w}
Appended(previous, w) == previous \cup {w}

\* The call goes on to the given stage, and the others that have read the file and
\* not yet filled it miss what has been written.
Writes(w, stage, text) ==
    remember' = [v \in Writers |->
        IF v = w THEN [remember[w] EXCEPT !.at = stage]
        ELSE IF remember[v].at \in {"writing", "filling"}
             THEN [remember[v] EXCEPT !.missed = @ \cup (text \ remember[v].previous)]
             ELSE remember[v]]

\* writeFile fills the file it has opened, from its beginning: of a longer text that
\* another call has written meanwhile the end stays.  Or it fails half-way.
AppendFills(w) ==
    /\ remember[w].at = "filling"
    /\ LET text == Appended(remember[w].previous, w)
           over == disk[Today].has
       IN  \/ /\ \E rest \in SUBSET over :
                   disk' = [disk EXCEPT ![Today] = [there |-> TRUE, has |-> text \cup rest]]
              /\ Writes(w, "written", text)
              /\ UNCHANGED memoryFaults
           \/ /\ Faulty
              /\ \E part \in SUBSET (text \cup over) :
                   disk' = [disk EXCEPT ![Today] = [there |-> TRUE, has |-> part]]
              /\ Writes(w, "cut", text)
    /\ sync' = Touches(Today)
    /\ UNCHANGED <<store, metaModel, embedModel, writeLog, memoryEdits, syncs, discarded,
                   bare>>

\* indexMemoryFile, forced, reads the file and asks for the embeddings of its chunks.
AppendEmbeds(w) ==
    /\ remember[w].at = "written"
    /\ disk[Today].there
    /\ remember' = [remember EXCEPT ![w].at = "embedding", ![w].model = embedModel,
                                    ![w].content = disk[Today].has]
    /\ UNCHANGED <<disk, store, metaModel, embedModel, writeLog, sync, memoryHistory>>

\* The index is written and the call is logged.
AppendIndexes(w) ==
    /\ remember[w].at = "embedding"
    /\ Indexes(Today, remember[w].content, remember[w].model, metaModel)
    /\ remember' = [remember EXCEPT ![w] = Ended(@, "done")]
    /\ writeLog' = [writeLog EXCEPT ![w] = "accepted"]
    /\ sync' = Touches(Today)
    /\ UNCHANGED <<disk, metaModel, embedModel, memoryEdits, syncs, memoryFaults,
                   discarded>>

\* The file cannot be opened; or, with the record in it, it is gone or the embeddings
\* cannot be had.  rememberMemory throws, with nothing in the log.
AppendFails(w) ==
    /\ \/ /\ remember[w].at \in {"validated", "writing"} /\ Faulty
          /\ remember' = [remember EXCEPT ![w] = Ended(@, "failed")]
       \/ /\ \/ remember[w].at = "written" /\ ~disk[Today].there /\ UNCHANGED memoryFaults
             \/ remember[w].at = "embedding" /\ Faulty
          /\ remember' = [remember EXCEPT ![w] = Ended(@, "unindexed")]
    /\ UNCHANGED <<disk, store, metaModel, embedModel, writeLog, sync, memoryEdits,
                   syncs, discarded, bare>>

-------------------------------------------------------------------------------
(* The synchronisation.                                                    *)

\* syncMemoryIndex, which a search calls too when the index is not fresh: a call
\* during a synchronisation waits for that one.
MaySync == sync.at = "idle" /\ syncs < MaxSyncs

\* runSync: a change of the model forces it as its caller may, and a forced one
\* empties the table of vectors first.
SyncStarts ==
    /\ MaySync
    /\ \E asked \in BOOLEAN :
        LET force == asked \/ metaModel # embedModel
        IN  /\ sync' = [NoSync EXCEPT !.at = "listing", !.force = force,
                                      !.model = embedModel]
            /\ vectors' = IF force THEN [f \in MemoryFiles |-> 0] ELSE vectors
    /\ disk' = Scaffolded(disk)
    /\ syncs' = syncs + 1
    /\ UNCHANGED <<index, marked, dimensions, metaModel, embedModel, remember, writeLog,
                   memoryEdits, memoryFaults, discarded, bare>>

\* listMemoryFiles.
SyncLists ==
    /\ sync.at = "listing"
    /\ LET files == {f \in MemoryFiles : disk[f].there}
       IN  sync' = [sync EXCEPT !.at = "indexing", !.active = files, !.todo = files]
    /\ UNCHANGED <<disk, store, metaModel, embedModel, remember, writeLog, memoryHistory>>

\* The main file is the first of the list.
NextFile(todo) == IF MainFile \in todo THEN MainFile ELSE CHOOSE f \in todo : TRUE

\* indexMemoryFile reads the next file, and leaves it alone or asks for the
\* embeddings of its chunks.
SyncReads ==
    /\ sync.at = "indexing" /\ sync.todo # {}
    /\ LET f == NextFile(sync.todo)
           content == disk[f].has
       IN  /\ disk[f].there
           /\ sync' = IF UpToDate(f, content, sync.force)
                      THEN [sync EXCEPT !.todo = @ \ {f}]
                      ELSE [sync EXCEPT !.at = "embedding", !.todo = @ \ {f}, !.file = f,
                                        !.content = content, !.using = embedModel]
    /\ UNCHANGED <<disk, store, metaModel, embedModel, remember, writeLog, memoryHistory>>

SyncIndexes ==
    /\ sync.at = "embedding"
    /\ Indexes(sync.file, sync.content, sync.using, sync.model)
    /\ sync' = [sync EXCEPT !.at = "indexing"]
    /\ UNCHANGED <<disk, metaModel, embedModel, remember, writeLog, memoryEdits, syncs,
                   memoryFaults, discarded>>

\* A listed file is gone, or the embeddings cannot be had: the synchronisation ends
\* there, and what it was going to do is not done.
SyncFails ==
    /\ \/ /\ sync.at = "indexing" /\ sync.todo # {}
          /\ ~disk[NextFile(sync.todo)].there
          /\ UNCHANGED memoryFaults
       \/ sync.at = "embedding" /\ Faulty
    /\ sync' = NoSync
    /\ bare' = IF sync.force THEN {f \in MemoryFiles : vectors[f] # metaModel} ELSE bare
    /\ UNCHANGED <<disk, store, metaModel, embedModel, remember, writeLog, memoryEdits,
                   syncs, discarded>>

\* pruneStaleFiles removes the files that were not listed, with their vectors, and
\* the synchronisation ends.
SyncPrunes ==
    /\ sync.at = "indexing" /\ sync.todo = {}
    /\ index' = [f \in MemoryFiles |-> IF f \in sync.active THEN index[f] ELSE NoFile]
    /\ marked' = marked \cap UNION {index[f].has : f \in sync.active}
    /\ vectors' = [f \in MemoryFiles |-> IF f \in sync.active THEN vectors[f] ELSE 0]
    /\ metaModel' = sync.model
    /\ sync' = NoSync
    /\ bare' = bare \cup {f \in sync.touched : vectors[f] # sync.model}
    /\ UNCHANGED <<disk, dimensions, embedModel, remember, writeLog, memoryEdits, syncs,
                   memoryFaults, discarded>>

-------------------------------------------------------------------------------
(* The world.                                                              *)

Filling(w) == remember[w].at = "filling"

\* A user removes a record from a file.
UserEditsFile ==
    \E f \in MemoryFiles : \E r \in disk[f].has :
        /\ disk' = [disk EXCEPT ![f].has = @ \ {r}]
        /\ discarded' = discarded \cup {r}
        /\ sync' = Touches(f)
        /\ UNCHANGED <<embedModel, remember>>

\* A user removes a file.  What calls that have it open write is gone with it.
UserRemovesFile ==
    \E f \in MemoryFiles :
        /\ disk[f].there
        /\ disk' = [disk EXCEPT ![f] = NoFile]
        /\ LET open == IF f = Today THEN {w \in Writers : Filling(w)} ELSE {}
           IN  /\ discarded' = discarded \cup disk[f].has \cup open
                                 \cup UNION {remember[w].previous : w \in open}
               /\ remember' = [w \in Writers |->
                                 IF w \in open THEN [remember[w] EXCEPT !.at = "written"]
                                 ELSE remember[w]]
        /\ sync' = Touches(f)
        /\ UNCHANGED embedModel

\* A user changes the model.
UserChangesModel ==
    /\ \E m \in (1 .. EmbedModels) \ {embedModel} : embedModel' = m
    /\ UNCHANGED <<disk, discarded, sync, remember>>

UserEdits ==
    /\ memoryEdits < MaxEdits
    /\ memoryEdits' = memoryEdits + 1
    /\ UserEditsFile \/ UserRemovesFile \/ UserChangesModel
    /\ UNCHANGED <<store, metaModel, writeLog, syncs, memoryFaults, bare>>

\* How a call ends that the server does not survive.
CutOff(call) ==
    CASE call.at \in {"validated", "writing"} -> Ended(call, "failed")
      [] call.at = "filling" -> [call EXCEPT !.at = "cut"]
      [] call.at \in {"written", "embedding"} -> Ended(call, "unindexed")
      [] OTHER -> call

\* The server stops and starts again.
MemoryCrash ==
    /\ Faulty
    /\ sync.at # "idle" \/ \E w \in Writers : CutOff(remember[w]) # remember[w]
    /\ remember' = [w \in Writers |-> CutOff(remember[w])]
    /\ sync' = NoSync
    /\ bare' = IF sync.at # "idle" /\ sync.force
               THEN {f \in MemoryFiles : vectors[f] # metaModel} ELSE bare
    /\ UNCHANGED <<disk, store, metaModel, embedModel, writeLog, memoryEdits, syncs,
                   discarded>>

MemoryNext ==
    \/ \E w \in Writers :
        \/ Validates(w) \/ AppendReads(w) \/ AppendOpens(w) \/ AppendFills(w)
        \/ AppendEmbeds(w) \/ AppendIndexes(w) \/ AppendFails(w)
    \/ SyncStarts \/ SyncLists \/ SyncReads \/ SyncIndexes \/ SyncFails \/ SyncPrunes
    \/ UserEdits \/ MemoryCrash

MemorySpec == MemoryInit /\ [][MemoryNext]_memoryVars

-------------------------------------------------------------------------------
(* Properties.                                                             *)

\* A record once written to the file of the day is there, or a user has removed it,
\* or a later call has to do with it: one that has the file open and is about to
\* write the record again, or was cut off there; one that had read the file before
\* the record was written to it and has written the file since; or one that could
\* not read the file and has written it none the less.  Nothing else loses a record:
\* calls that follow one another keep all of them, whatever the synchronisation,
\* users or calls that fail before they open the file do meanwhile
\* (memory/service.ts:1930-1939: the file is read, awaited on, emptied and written).
AppendsKeepRecords ==
    /\ MemoryTypeOK
    /\ \A w \in Writers :
        remember[w].at \in {"written", "embedding", "done", "unindexed"} =>
            \/ w \in disk[Today].has \cup discarded
            \/ \E v \in Writers :
                \/ remember[v].at \in {"filling", "cut"} /\ w \in remember[v].previous
                \/ remember[v].at \in Opened /\ w \in remember[v].missed
                \/ remember[v].at \in Opened /\ w \in remember[v].unread

\* When a synchronisation ends, the index holds of every file exactly what the file
\* holds, and nothing of a file that is gone, except for the files that others have
\* written, edited or indexed during it (memory/service.ts:947-967: the hash that
\* lets a file alone, the listing that decides what is pruned).
SyncMakesFresh ==
    [][SyncPrunes => \A f \in MemoryFiles \ sync.touched : index'[f] = disk[f]]_memoryVars

\* When a synchronisation ends, every file with records has the vectors of the model
\* it was made with, though the table is emptied first when it is forced and made
\* anew when the dimensions change (memory/service.ts:519-527, 956-958), unless it
\* has been touched during it or an earlier one or a call left it with others.
VectorsFollowIndex ==
    [][SyncPrunes =>
        \A f \in MemoryFiles \ (sync.touched \cup bare) :
            index'[f].has # {} => vectors'[f] = sync.model]_memoryVars

\* While the index holds what the files hold, a record that another record of it
\* supersedes is marked so: "supersedes" are the "IDs of outdated memories to replace"
\* (runtime-assets/workspace/.agents/skills/memory-ops/SKILL.md:88).
SupersededStaysSo ==
    sync.at = "idle" /\ index = disk =>
        \A r, s \in Indexed : r \in Supersedes[s] => r \in marked

===============================================================================
