-------------------------- MODULE StoredFiles_proofs --------------------------
(***************************************************************************)
(* Theorems of the components that keep their state in files, for every    *)
(* value of their constants.  The components share no state and each part  *)
(* below is about one of them: an inductive invariant, the steps that keep *)
(* it, and the properties that follow from it.                             *)
(***************************************************************************)
EXTENDS ConfigApply, MemoryIndex, Installer, VendorSync, Skills, ManagedConfig, Heartbeat,
        OpenclawImport, TLAPS

-------------------------------------------------------------------------------
(* The memory store.                                                       *)

\* The records that a call accounts for: those it found, while it has the file open or
\* was cut off there, and those it has written over without having found them.
Accounted(call) ==
    (IF call.at \in {"filling", "cut"} THEN call.previous ELSE {})
    \cup (IF call.at \in Opened THEN call.missed \cup call.unread ELSE {})

\* The records that are there, that users have removed, or that a call accounts for.
Safe == disk[Today].has \cup discarded \cup UNION {Accounted(remember[v]) : v \in Writers}

Recorded == {"written", "embedding", "done", "unindexed"}

\* A call about to write, or to fill the file, knows or misses all that the file holds.
RecordsStand ==
    \A w \in Writers :
        /\ remember[w].at \in Recorded => w \in Safe
        /\ remember[w].at \in {"writing", "filling"} =>
             disk[Today].has \subseteq remember[w].previous \cup remember[w].missed
                                        \cup remember[w].unread

Running == sync.at \in {"indexing", "embedding"}
Underway(f) == sync.at = "embedding" /\ sync.file = f

\* What the synchronisation has been through is as it found it, unless it was touched.
FilesStand ==
    /\ \A f \in MemoryFiles : ~disk[f].there => disk[f].has = {}
    /\ Running =>
         /\ sync.todo \subseteq sync.active
         /\ \A f \in MemoryFiles \ sync.touched :
              /\ f \in sync.active <=> disk[f].there
              /\ f \in sync.active \ sync.todo /\ ~Underway(f) => index[f] = disk[f]
              /\ Underway(f) => sync.content = disk[f].has
    /\ sync.at = "embedding" => sync.file \in sync.active \ sync.todo

\* Vectors are of the model last synchronised with, except in a forced synchronisation,
\* where they are of its own as far as it has come.
VectorsStand ==
    /\ sync.at = "idle" => ~sync.force
    /\ sync.at # "idle" => sync.model # 0 /\ (~sync.force => sync.model = metaModel)
    /\ ~sync.force =>
         \A f \in MemoryFiles \ bare : index[f].has # {} => vectors[f] = metaModel
    /\ sync.force /\ Running =>
         \A f \in (sync.active \ sync.todo) \ (sync.touched \cup bare) :
             Underway(f) \/ (index[f].has # {} => vectors[f] = sync.model)

Remembering == MemoryTypeOK /\ RecordsStand /\ FilesStand /\ VectorsStand

LEMMA MemoryValues ==
    /\ NoFile \in File /\ EmptyFile \in File /\ ~NoFile.there /\ NoFile.has = {}
    /\ EmptyFile.has = {} /\ NewCall \in Remember /\ NoSync \in Sync
    /\ NoSync.at = "idle" /\ ~NoSync.force
    /\ NewCall.at = "new"
    /\ MainFile \in MemoryFiles /\ Today \in MemoryFiles /\ MainFile # Today
    /\ 0 \in 0 .. EmbedModels /\ 1 \in 1 .. EmbedModels
    /\ 1 .. EmbedModels \subseteq 0 .. EmbedModels
    /\ \A m \in 1 .. EmbedModels : m # 0
  <1>1. /\ MainFile \in MemoryFiles /\ Today \in MemoryFiles /\ MainFile # Today
        /\ 0 \in 0 .. EmbedModels /\ 1 \in 1 .. EmbedModels
        /\ 1 .. EmbedModels \subseteq 0 .. EmbedModels
        /\ \A m \in 1 .. EmbedModels : m # 0
    BY MemoryAssumption
  <1>2. NoSync \in Sync /\ NoSync.at = "idle" /\ ~NoSync.force
    BY <1>1 DEF NoSync, Sync
  <1>3. NewCall \in Remember /\ NewCall.at = "new"
    BY <1>1 DEF NewCall, Remember, CallStages
  <1>4. /\ NoFile \in File /\ EmptyFile \in File /\ ~NoFile.there /\ NoFile.has = {}
        /\ EmptyFile.has = {}
    BY DEF NoFile, EmptyFile, File
  <1> QED  BY <1>1, <1>2, <1>3, <1>4

\* The transaction that indexes a file.
LEMMA IndexingFile ==
    ASSUME MemoryTypeOK, NEW f \in MemoryFiles, NEW content \in SUBSET MemoryRecords,
           NEW using \in 0 .. EmbedModels, NEW expected, Indexes(f, content, using, expected)
    PROVE  /\ index' \in [MemoryFiles -> File] /\ marked' \subseteq MemoryRecords
           /\ vectors' \in [MemoryFiles -> 0 .. EmbedModels]
           /\ dimensions' \in 0 .. EmbedModels /\ bare' \subseteq MemoryFiles
           /\ index'[f] = [there |-> TRUE, has |-> content]
           /\ \A g \in MemoryFiles \ {f} : index'[g] = index[g]
           /\ content # {} => vectors'[f] = using
           /\ f \notin bare' => using = expected
           /\ \A g \in MemoryFiles \ {f} :
                g \notin bare' => g \notin bare /\ vectors'[g] = vectors[g]
  <1>1. /\ index \in [MemoryFiles -> File] /\ marked \subseteq MemoryRecords
        /\ vectors \in [MemoryFiles -> 0 .. EmbedModels]
        /\ dimensions \in 0 .. EmbedModels /\ bare \subseteq MemoryFiles
    BY DEF MemoryTypeOK
  <1>2. index' = [index EXCEPT ![f] = [there |-> TRUE, has |-> content]]
    BY DEF Indexes
  <1>3. [there |-> TRUE, has |-> content] \in File
    BY DEF File
  <1>4. /\ index' \in [MemoryFiles -> File]
        /\ index'[f] = [there |-> TRUE, has |-> content]
        /\ \A g \in MemoryFiles \ {f} : index'[g] = index[g]
    BY <1>1, <1>2, <1>3
  <1>5. marked' \subseteq MemoryRecords
    <2>1. Indexed \subseteq MemoryRecords
      BY <1>1 DEF Indexed, File
    <2>2. PICK rows : rows = (Indexed \ index[f].has) \cup content /\ marked' \subseteq rows
      BY DEF Indexes
    <2> QED  BY <2>1, <2>2
  <1>6. PICK anew \in BOOLEAN : anew = (content # {} /\ dimensions # using)
    <2>1. (content # {} /\ dimensions # using) \in BOOLEAN
      OBVIOUS
    <2> QED  BY <2>1, Zenon
  <1>7. dimensions' = IF anew THEN using ELSE dimensions
    BY <1>6 DEF Indexes
  <1>8. vectors' = [g \in MemoryFiles |->
                        IF g = f THEN IF content = {} THEN 0 ELSE using
                        ELSE IF anew THEN 0 ELSE vectors[g]]
    BY <1>6 DEF Indexes
  <1>9. vectors' \in [MemoryFiles -> 0 .. EmbedModels]
    BY <1>1, <1>8, MemoryValues
  <1>10. bare' = (bare \ {f})
                    \cup (IF anew THEN {g \in MemoryFiles \ {f} : vectors[g] # 0} ELSE {})
                    \cup (IF using # expected THEN {f} ELSE {})
    BY <1>6 DEF Indexes
  <1>11. f \notin bare' => using = expected
    BY <1>10
  <1>12. ASSUME NEW g \in MemoryFiles \ {f}, g \notin bare'
         PROVE  g \notin bare /\ vectors'[g] = vectors[g]
    BY <1>8, <1>10, <1>12
  <1>13. bare' \subseteq MemoryFiles
    BY <1>1, <1>10
  <1> QED  BY <1>1, <1>4, <1>5, <1>7, <1>8, <1>9, <1>11, <1>12, <1>13

LEMMA RememberingInit == MemoryInit => Remembering
  <1> SUFFICES ASSUME MemoryInit PROVE Remembering
    OBVIOUS
  <1>1. [there |-> TRUE, has |-> Old] \in File
    BY DEF File, MemoryRecords
  <1>2. disk \in [MemoryFiles -> File]
        /\ \A f \in MemoryFiles : disk[f] = NoFile \/ disk[f].there
    BY <1>1, MemoryValues DEF MemoryInit
  <1>3. index \in [MemoryFiles -> File] /\ \A f \in MemoryFiles : index[f].has = {}
    BY MemoryValues DEF MemoryInit
  <1>4. remember \in [Writers -> Remember]
        /\ \A w \in Writers : remember[w].at = "new"
    BY MemoryValues DEF MemoryInit
  <1>5. 0 \in 0 .. MaxEdits /\ 0 \in 0 .. MaxSyncs /\ 0 \in 0 .. MaxFaults
    BY MemoryAssumption
  <1>6. MemoryTypeOK
    BY <1>2, <1>3, <1>4, <1>5, MemoryValues DEF MemoryInit, MemoryTypeOK
  <1>7. sync.at = "idle" /\ ~sync.force
    BY MemoryValues DEF MemoryInit
  <1> QED
    BY <1>2, <1>3, <1>4, <1>6, <1>7, MemoryValues
       DEF Remembering, RecordsStand, Recorded, FilesStand, VectorsStand, Running

-------------------------------------------------------------------------------
\* What a call becomes that goes on, or ends.
LEMMA EndedCall ==
    ASSUME NEW call \in Remember, NEW stage \in CallStages
    PROVE  /\ Ended(call, stage) \in Remember /\ Ended(call, stage).at = stage
           /\ stage \in Opened => /\ Ended(call, stage).missed = call.missed
                                  /\ Ended(call, stage).unread = call.unread
  BY MemoryValues DEF Ended, Remember, NewCall

LEMMA MovedCall ==
    ASSUME NEW call \in Remember, NEW stage \in CallStages
    PROVE  /\ [call EXCEPT !.at = stage] \in Remember
           /\ [call EXCEPT !.at = stage].at = stage
           /\ [call EXCEPT !.at = stage].previous = call.previous
           /\ [call EXCEPT !.at = stage].missed = call.missed
           /\ [call EXCEPT !.at = stage].unread = call.unread
  BY DEF Remember

\* What each call accounts for is safe.
LEMMA AccountedIsSafe ==
    /\ \A v \in Writers : Accounted(remember[v]) \subseteq Safe
    /\ disk[Today].has \subseteq Safe /\ discarded \subseteq Safe
  BY DEF Safe

\* A step keeps the records when what was there, discarded or accounted for is still.
LEMMA RecordsMove ==
    ASSUME Remembering, disk[Today].has \subseteq Safe', discarded \subseteq Safe',
           \A w \in Writers :
              /\ Accounted(remember[w]) \subseteq Safe'
              /\ remember'[w].at \in Recorded => remember[w].at \in Recorded \/ w \in Safe'
              /\ remember'[w].at \in {"writing", "filling"} =>
                    \/ /\ remember[w].at \in {"writing", "filling"}
                       /\ disk'[Today].has \subseteq disk[Today].has
                       /\ remember'[w].previous = remember[w].previous
                       /\ remember'[w].missed = remember[w].missed
                       /\ remember'[w].unread = remember[w].unread
                    \/ disk'[Today].has \subseteq remember'[w].previous \cup remember'[w].missed
                                                   \cup remember'[w].unread
    PROVE  RecordsStand'
  <1>1. RecordsStand
    BY DEF Remembering
  <1>2. Safe \subseteq Safe'
    BY DEF Safe
  <1> HIDE DEF Safe
  <1>3. ASSUME NEW w \in Writers
        PROVE  /\ remember'[w].at \in Recorded => w \in Safe'
               /\ remember'[w].at \in {"writing", "filling"} =>
                    disk'[Today].has \subseteq remember'[w].previous \cup remember'[w].missed
                                                  \cup remember'[w].unread
    BY <1>1, <1>2 DEF RecordsStand
  <1> QED  BY <1>3 DEF RecordsStand

\* A step of one call that leaves the file of the day alone.
LEMMA RecordsStill ==
    ASSUME Remembering, NEW w \in Writers, NEW new, remember' = [remember EXCEPT ![w] = new],
           disk'[Today].has = disk[Today].has, discarded' = discarded,
           Accounted(remember[w]) \subseteq Accounted(new),
           new.at \in Recorded => remember[w].at \in Recorded,
           new.at \in {"writing", "filling"} =>
              disk[Today].has \subseteq new.previous \cup new.missed \cup new.unread
    PROVE  RecordsStand'
  <1>1. /\ remember'[w] = new /\ \A v \in Writers \ {w} : remember'[v] = remember[v]
    BY DEF Remembering, MemoryTypeOK
  <1>2. \A v \in Writers : Accounted(remember[v]) \subseteq Accounted(remember'[v])
    BY <1>1
  <1>3. /\ \A v \in Writers : Accounted(remember'[v]) \subseteq Safe'
        /\ disk'[Today].has \subseteq Safe' /\ discarded' \subseteq Safe'
    BY DEF Safe
  <1>4. \A v \in Writers : Accounted(remember[v]) \subseteq Safe'
    BY <1>2, <1>3
  <1> HIDE DEF Accounted, Safe
  <1> QED  BY <1>1, <1>3, <1>4, RecordsMove

\* Others touch a file of the synchronisation, which goes on as it was.
LEMMA Touched ==
    ASSUME Remembering, NEW f \in MemoryFiles, sync' = Touches(f)
    PROVE  /\ sync' \in Sync
           /\ sync'.at = sync.at /\ sync'.force = sync.force /\ sync'.model = sync.model
           /\ sync'.active = sync.active /\ sync'.todo = sync.todo /\ sync'.file = sync.file
           /\ sync'.content = sync.content
           /\ sync.touched \subseteq sync'.touched
           /\ sync.at # "idle" => f \in sync'.touched
  BY DEF Touches, Remembering, MemoryTypeOK, Sync

\* A step that leaves the index alone and the synchronisation where it is.
LEMMA SyncStill ==
    ASSUME Remembering, UNCHANGED <<store, metaModel, bare>>,
           NEW f \in MemoryFiles, sync' = sync \/ sync' = Touches(f),
           disk' \in [MemoryFiles -> File],
           \A g \in MemoryFiles : disk'[g] = disk[g] \/ (g = f /\ sync' = Touches(f)),
           \A g \in MemoryFiles : ~disk'[g].there => disk'[g].has = {}
    PROVE  sync' \in Sync /\ FilesStand' /\ VectorsStand'
  <1>1. /\ sync' \in Sync
        /\ sync'.at = sync.at /\ sync'.force = sync.force /\ sync'.model = sync.model
        /\ sync'.active = sync.active /\ sync'.todo = sync.todo /\ sync'.file = sync.file
        /\ sync'.content = sync.content
        /\ sync.touched \subseteq sync'.touched
        /\ \A g \in MemoryFiles : disk'[g] = disk[g] \/ sync.at = "idle" \/ g \in sync'.touched
    BY Touched DEF Remembering, MemoryTypeOK
  <1>2. UNCHANGED <<index, vectors, metaModel, bare>>
    BY DEF store
  <1>3. FilesStand /\ VectorsStand
    BY DEF Remembering
  <1>4. FilesStand'
    BY <1>1, <1>2, <1>3 DEF FilesStand, Running, Underway
  <1>5. VectorsStand'
    BY <1>1, <1>2, <1>3 DEF VectorsStand, Running, Underway
  <1> QED  BY <1>1, <1>4, <1>5

LEMMA ValidatesStep ==
    ASSUME Remembering, NEW w \in Writers, Validates(w)
    PROVE  Remembering'
  <1>1. PICK at \in {"rejected", "validated"} : remember' = [remember EXCEPT ![w].at = at]
    BY DEF Validates
  <1>2. remember[w].at = "new" /\ remember \in [Writers -> Remember]
    BY DEF Validates, Remembering, MemoryTypeOK
  <1>3. PICK new : new = [remember[w] EXCEPT !.at = at]
    OBVIOUS
  <1>0. new \in Remember /\ new.at = at /\ remember' = [remember EXCEPT ![w] = new]
        /\ remember' \in [Writers -> Remember]
    BY <1>1, <1>2, <1>3, MovedCall DEF CallStages
  <1>4. UNCHANGED <<disk, store, metaModel, embedModel, sync, memoryHistory>>
        /\ writeLog' \in [Writers -> {"none", "accepted", "rejected"}]
    BY DEF Validates, Remembering, MemoryTypeOK
  <1>5. MemoryTypeOK'
    BY <1>0, <1>4 DEF Remembering, MemoryTypeOK, store, memoryHistory
  <1>6. Accounted(remember[w]) = {}
    BY <1>2 DEF Accounted, Opened
  <1>7. RecordsStand'
    BY <1>0, <1>4, <1>6, RecordsStill DEF Recorded, memoryHistory
  <1>8. FilesStand' /\ VectorsStand'
    BY <1>4, SyncStill, MemoryValues DEF Remembering, MemoryTypeOK, FilesStand, memoryHistory
  <1> QED  BY <1>5, <1>7, <1>8 DEF Remembering

LEMMA AppendReadsStep ==
    ASSUME Remembering, NEW w \in Writers, AppendReads(w)
    PROVE  Remembering'
  <1>1. /\ remember[w].at = "validated"
        /\ remember[w] \in Remember /\ remember \in [Writers -> Remember]
    BY DEF AppendReads, Remembering, MemoryTypeOK
  <1>2. disk \in [MemoryFiles -> File] /\ disk[Today].has \subseteq MemoryRecords
    BY MemoryValues DEF Remembering, MemoryTypeOK, File
  <1>3. /\ disk' \in [MemoryFiles -> File] /\ disk'[Today] = disk[Today]
        /\ \A f \in MemoryFiles : disk'[f] = disk[f] \/ (f = MainFile /\ disk'[f] = EmptyFile)
        /\ disk' = Scaffolded(disk)
    BY <1>2, MemoryValues DEF AppendReads, Scaffolded
  <1>4. PICK new : /\ remember' = [remember EXCEPT ![w] = new] /\ new \in Remember
                   /\ new.at = "writing" /\ disk[Today].has \subseteq new.previous \cup new.unread
    <2>1. CASE remember' = [remember EXCEPT ![w].at = "writing", ![w].previous = disk[Today].has]
      <3>1. PICK new : new = [remember[w] EXCEPT !.at = "writing", !.previous = disk[Today].has]
        OBVIOUS
      <3>2. new \in Remember /\ new.at = "writing" /\ new.previous = disk[Today].has
        BY <1>1, <1>2, <3>1 DEF Remember, CallStages
      <3>3. remember' = [remember EXCEPT ![w] = new]
        BY <1>1, <2>1, <3>1
      <3> QED  BY <3>2, <3>3
    <2>2. CASE remember' = [remember EXCEPT ![w].at = "writing", ![w].unread = disk[Today].has]
      <3>1. PICK new : new = [remember[w] EXCEPT !.at = "writing", !.unread = disk[Today].has]
        OBVIOUS
      <3>2. new \in Remember /\ new.at = "writing" /\ new.unread = disk[Today].has
        BY <1>1, <1>2, <3>1 DEF Remember, CallStages
      <3>3. remember' = [remember EXCEPT ![w] = new]
        BY <1>1, <2>2, <3>1
      <3> QED  BY <1>1, <3>2, <3>3
    <2> QED  BY <2>1, <2>2 DEF AppendReads
  <1>5. /\ remember' \in [Writers -> Remember] /\ remember'[w] = new
        /\ \A v \in Writers \ {w} : remember'[v] = remember[v]
    BY <1>1, <1>4
  <1>6. /\ UNCHANGED <<store, metaModel, embedModel, writeLog, memoryEdits, syncs, discarded, bare>>
        /\ memoryFaults' \in 0 .. MaxFaults
    BY MemoryAssumption DEF AppendReads, Faulty, Remembering, MemoryTypeOK
  <1>7. sync' = IF disk' = disk THEN sync ELSE Touches(MainFile)
    BY DEF AppendReads
  <1>8. /\ sync' = sync \/ sync' = Touches(MainFile)
        /\ \A g \in MemoryFiles :
             disk'[g] = disk[g] \/ (g = MainFile /\ sync' = Touches(MainFile))
        /\ \A g \in MemoryFiles : ~disk'[g].there => disk'[g].has = {}
    BY <1>3, <1>7, MemoryValues DEF Remembering, FilesStand
  <1>9. sync' \in Sync /\ FilesStand' /\ VectorsStand'
    BY <1>3, <1>6, <1>8, SyncStill, MemoryValues
  <1>10. MemoryTypeOK'
    BY <1>3, <1>5, <1>6, <1>9 DEF Remembering, MemoryTypeOK, store
  <1>11. Accounted(remember[w]) = {}
    BY <1>1 DEF Accounted, Opened
  <1>12. RecordsStand'
    BY <1>3, <1>4, <1>6, <1>11, RecordsStill DEF Recorded
  <1> QED  BY <1>9, <1>10, <1>12 DEF Remembering

\* The file of the day is emptied, or filled.
LEMMA TodayWritten ==
    ASSUME Remembering, NEW text \in SUBSET MemoryRecords,
           disk' = [disk EXCEPT ![Today] = [there |-> TRUE, has |-> text]],
           remember' \in [Writers -> Remember], sync' = Touches(Today),
           memoryFaults' \in 0 .. MaxFaults,
           UNCHANGED <<store, metaModel, embedModel, writeLog, memoryEdits, syncs, discarded,
                       bare>>
    PROVE  /\ MemoryTypeOK' /\ FilesStand' /\ VectorsStand'
           /\ disk'[Today].has = text
  <1>1. /\ disk' \in [MemoryFiles -> File]
        /\ disk'[Today] = [there |-> TRUE, has |-> text]
        /\ \A f \in MemoryFiles \ {Today} : disk'[f] = disk[f]
    <2>1. [there |-> TRUE, has |-> text] \in File
      BY DEF File
    <2> QED  BY <2>1, MemoryValues DEF Remembering, MemoryTypeOK
  <1>2. \A f \in MemoryFiles : ~disk'[f].there => disk'[f].has = {}
    BY <1>1 DEF Remembering, FilesStand
  <1>3. sync' \in Sync /\ FilesStand' /\ VectorsStand'
    BY <1>1, <1>2, SyncStill, MemoryValues
  <1>4. MemoryTypeOK'
    BY <1>1, <1>3 DEF Remembering, MemoryTypeOK, store
  <1> QED  BY <1>1, <1>3, <1>4

LEMMA AppendOpensStep ==
    ASSUME Remembering, NEW w \in Writers, AppendOpens(w)
    PROVE  Remembering'
  <1>1. /\ remember[w].at = "writing" /\ remember[w] \in Remember
        /\ remember \in [Writers -> Remember]
    BY DEF AppendOpens, Remembering, MemoryTypeOK
  <1>2. PICK new : new = [remember[w] EXCEPT !.at = "filling"]
    OBVIOUS
  <1>3. /\ new \in Remember /\ new.at = "filling" /\ new.previous = remember[w].previous
        /\ new.missed = remember[w].missed /\ new.unread = remember[w].unread
    BY <1>1, <1>2, MovedCall DEF CallStages, Opened
  <1>4. remember' = [remember EXCEPT ![w] = new]
    BY <1>1, <1>2 DEF AppendOpens
  <1>5. /\ remember' \in [Writers -> Remember] /\ remember'[w] = new
        /\ \A v \in Writers \ {w} : remember'[v] = remember[v]
    BY <1>1, <1>3, <1>4
  <1>6. /\ sync' = Touches(Today) /\ memoryFaults' \in 0 .. MaxFaults
        /\ UNCHANGED <<store, metaModel, embedModel, writeLog, memoryEdits, syncs, discarded,
                       bare>>
        /\ disk' = [disk EXCEPT ![Today] = [there |-> TRUE, has |-> {}]]
    BY DEF AppendOpens, memoryHistory, EmptyFile, Remembering, MemoryTypeOK
  <1>7. MemoryTypeOK' /\ FilesStand' /\ VectorsStand' /\ disk'[Today].has = {}
    <2>1. PICK text \in SUBSET MemoryRecords : text = {}
      OBVIOUS
    <2> QED  BY <1>5, <1>6, <2>1, TodayWritten
  <1>8. disk[Today].has \subseteq Accounted(new)
    <2>1. disk[Today].has \subseteq new.previous \cup new.missed \cup new.unread
      BY <1>1, <1>3 DEF Remembering, RecordsStand
    <2> QED  BY <1>3, <2>1 DEF Accounted, Opened
  <1>9. /\ \A v \in Writers : Accounted(remember'[v]) \subseteq Safe'
        /\ discarded' \subseteq Safe'
    BY DEF Safe
  <1>10. Accounted(remember[w]) = {}
    BY <1>1 DEF Accounted, Opened
  <1>11. \A v \in Writers : Accounted(remember[v]) \subseteq Safe'
    BY <1>5, <1>9, <1>10
  <1>12. RecordsStand'
    <2> HIDE DEF Safe, Accounted
    <2> QED  BY <1>1, <1>3, <1>5, <1>6, <1>7, <1>8, <1>9, <1>11, RecordsMove DEF Recorded
  <1> QED  BY <1>7, <1>12 DEF Remembering

\* Filling the file, or failing to.
LEMMA AppendFillsStep ==
    ASSUME Remembering, NEW w \in Writers, AppendFills(w)
    PROVE  Remembering'
  <1>1. /\ remember[w].at = "filling" /\ remember[w] \in Remember
        /\ remember \in [Writers -> Remember] /\ w \in MemoryRecords
        /\ disk[Today].has \subseteq MemoryRecords
    BY MemoryValues DEF AppendFills, Remembering, MemoryTypeOK, MemoryRecords, File
  <1>2. PICK text \in SUBSET MemoryRecords : text = remember[w].previous \cup {w}
    BY <1>1 DEF Remember
  <1>3. PICK stage \in {"written", "cut"}, has \in SUBSET MemoryRecords :
           /\ disk' = [disk EXCEPT ![Today] = [there |-> TRUE, has |-> has]]
           /\ Writes(w, stage, text)
           /\ has \subseteq text \cup disk[Today].has
           /\ stage = "written" => text \subseteq has
    <2>1. CASE /\ \E rest \in SUBSET disk[Today].has :
                   disk' = [disk EXCEPT ![Today] = [there |-> TRUE, has |-> text \cup rest]]
               /\ Writes(w, "written", text)
      <3>1. PICK rest \in SUBSET disk[Today].has :
               disk' = [disk EXCEPT ![Today] = [there |-> TRUE, has |-> text \cup rest]]
        BY <2>1
      <3>2. PICK has \in SUBSET MemoryRecords : has = text \cup rest
        BY <1>1
      <3> QED  BY <2>1, <3>1, <3>2
    <2>2. CASE /\ \E part \in SUBSET (text \cup disk[Today].has) :
                   disk' = [disk EXCEPT ![Today] = [there |-> TRUE, has |-> part]]
               /\ Writes(w, "cut", text)
      BY <1>1, <2>2
    <2> QED  BY <1>2, <2>1, <2>2 DEF AppendFills, Appended
  <1>4. /\ remember' \in [Writers -> Remember]
        /\ remember'[w].at = stage /\ remember'[w].previous = remember[w].previous
        /\ remember'[w].missed = remember[w].missed /\ remember'[w].unread = remember[w].unread
        /\ \A v \in Writers \ {w} :
             /\ remember'[v].at = remember[v].at
             /\ remember'[v].previous = remember[v].previous
             /\ remember'[v].unread = remember[v].unread
             /\ remember[v].missed \subseteq remember'[v].missed
             /\ remember[v].at \in {"writing", "filling"} =>
                    text \subseteq remember'[v].previous \cup remember'[v].missed
    <2>1. /\ [remember[w] EXCEPT !.at = stage] \in Remember
          /\ [remember[w] EXCEPT !.at = stage].at = stage
          /\ [remember[w] EXCEPT !.at = stage].previous = remember[w].previous
          /\ [remember[w] EXCEPT !.at = stage].missed = remember[w].missed
          /\ [remember[w] EXCEPT !.at = stage].unread = remember[w].unread
      BY <1>1, MovedCall DEF CallStages, Opened
    <2>2. ASSUME NEW v \in Writers
          PROVE  /\ [remember[v] EXCEPT !.missed = @ \cup (text \ remember[v].previous)] \in Remember
                 /\ [remember[v] EXCEPT !.missed = @ \cup (text \ remember[v].previous)].at
                      = remember[v].at
                 /\ [remember[v] EXCEPT !.missed = @ \cup (text \ remember[v].previous)].previous
                      = remember[v].previous
                 /\ [remember[v] EXCEPT !.missed = @ \cup (text \ remember[v].previous)].unread
                      = remember[v].unread
                 /\ [remember[v] EXCEPT !.missed = @ \cup (text \ remember[v].previous)].missed
                      = remember[v].missed \cup (text \ remember[v].previous)
      <3>1. remember[v] \in Remember
        BY <1>1
      <3> QED  BY <3>1 DEF Remember
    <2>3. remember' = [v \in Writers |->
            IF v = w THEN [remember[w] EXCEPT !.at = stage]
            ELSE IF remember[v].at \in {"writing", "filling"}
                 THEN [remember[v] EXCEPT !.missed = @ \cup (text \ remember[v].previous)]
                 ELSE remember[v]]
      BY <1>3 DEF Writes
    <2> QED  BY <1>1, <2>1, <2>2, <2>3
  <1>5. /\ sync' = Touches(Today) /\ memoryFaults' \in 0 .. MaxFaults
        /\ UNCHANGED <<store, metaModel, embedModel, writeLog, memoryEdits, syncs, discarded,
                       bare>>
    BY MemoryAssumption DEF AppendFills, Faulty, Remembering, MemoryTypeOK
  <1>6. MemoryTypeOK' /\ FilesStand' /\ VectorsStand' /\ disk'[Today].has = has
    BY <1>3, <1>4, <1>5, TodayWritten
  <1>7. /\ \A v \in Writers : Accounted(remember'[v]) \subseteq Safe'
        /\ disk'[Today].has \subseteq Safe' /\ discarded' \subseteq Safe'
    BY DEF Safe
  <1>8. RecordsStand
    BY DEF Remembering
  <1>9. /\ remember[w].previous \subseteq Safe'
        /\ remember[w].missed \cup remember[w].unread \subseteq Accounted(remember'[w])
        /\ stage = "written" => w \in Safe'
    <2>1. remember[w].missed \cup remember[w].unread \subseteq Accounted(remember'[w])
      BY <1>4 DEF Accounted, Opened
    <2>2. CASE stage = "written"
      BY <1>2, <1>3, <1>6, <1>7, <2>1, <2>2
    <2>3. CASE stage = "cut"
      BY <1>4, <1>7, <2>1, <2>3 DEF Accounted
    <2> QED  BY <2>1, <2>2, <2>3
  <1>10. \A v \in Writers : Accounted(remember[v]) \subseteq Safe'
    <2>1. Accounted(remember[w]) \subseteq Safe'
      BY <1>1, <1>7, <1>9 DEF Accounted, Opened
    <2>2. \A v \in Writers \ {w} : Accounted(remember[v]) \subseteq Accounted(remember'[v])
      BY <1>4 DEF Accounted
    <2> HIDE DEF Safe, Accounted
    <2> QED  BY <1>7, <2>1, <2>2
  <1>11. disk[Today].has \subseteq Safe'
    <2>1. disk[Today].has \subseteq remember[w].previous \cup remember[w].missed
                                      \cup remember[w].unread
      BY <1>1, <1>8 DEF RecordsStand
    <2> HIDE DEF Safe, Accounted
    <2> QED  BY <1>7, <1>9, <2>1
  <1>12. ASSUME NEW v \in Writers, remember'[v].at \in {"writing", "filling"}
         PROVE  disk'[Today].has \subseteq remember'[v].previous \cup remember'[v].missed
                                               \cup remember'[v].unread
    <2>1. v # w /\ remember[v].at \in {"writing", "filling"}
      BY <1>4, <1>12
    <2>2. disk[Today].has \subseteq remember[v].previous \cup remember[v].missed
                                      \cup remember[v].unread
      BY <1>8, <2>1 DEF RecordsStand
    <2> QED  BY <1>3, <1>4, <1>6, <2>1, <2>2
  <1>13. \A v \in Writers :
            remember'[v].at \in Recorded => remember[v].at \in Recorded \/ v \in Safe'
    <2> HIDE DEF Safe
    <2> QED  BY <1>4, <1>9 DEF Recorded
  <1>14. RecordsStand'
    <2> HIDE DEF Safe, Accounted
    <2> QED  BY <1>5, <1>7, <1>10, <1>11, <1>12, <1>13, RecordsMove
  <1> QED  BY <1>6, <1>14 DEF Remembering

\* Embedding, and failing.
LEMMA AppendGoesOn ==
    ASSUME Remembering, NEW w \in Writers, AppendEmbeds(w) \/ AppendFails(w)
    PROVE  Remembering'
  <1>1. remember \in [Writers -> Remember] /\ disk[Today].has \in SUBSET MemoryRecords
        /\ embedModel \in 0 .. EmbedModels /\ remember[w] \in Remember
    BY MemoryValues DEF Remembering, MemoryTypeOK, File
  <1>2. PICK new \in Remember :
           /\ remember' = [remember EXCEPT ![w] = new]
           /\ \/ /\ new.at \in {"embedding", "unindexed"}
                 /\ remember[w].at \in {"written", "embedding"}
                 /\ new.missed = remember[w].missed /\ new.unread = remember[w].unread
              \/ new.at = "failed" /\ remember[w].at \in {"validated", "writing"}
    <2>1. CASE AppendEmbeds(w)
      <3>1. PICK new : new = [remember[w] EXCEPT !.at = "embedding", !.model = embedModel,
                                                 !.content = disk[Today].has]
        OBVIOUS
      <3>2. new \in Remember /\ new.at = "embedding" /\ new.missed = remember[w].missed
            /\ new.unread = remember[w].unread
        BY <1>1, <3>1 DEF Remember, CallStages, Opened
      <3>3. remember' = [remember EXCEPT ![w] = new] /\ remember[w].at = "written"
        BY <1>1, <2>1, <3>1 DEF AppendEmbeds
      <3> QED  BY <3>2, <3>3
    <2>2. CASE AppendFails(w)
      <3>1. PICK stage \in {"failed", "unindexed"} :
               /\ remember' = [remember EXCEPT ![w] = Ended(remember[w], stage)]
               /\ stage = "failed" => remember[w].at \in {"validated", "writing"}
               /\ stage = "unindexed" => remember[w].at \in {"written", "embedding"}
        BY <1>1, <2>2 DEF AppendFails
      <3> QED  BY <1>1, <3>1, EndedCall DEF CallStages, Opened
    <2> QED  BY <2>1, <2>2
  <1>3. /\ remember' \in [Writers -> Remember] /\ remember'[w] = new
        /\ \A v \in Writers \ {w} : remember'[v] = remember[v]
    BY <1>1, <1>2
  <1>4. /\ UNCHANGED <<disk, store, metaModel, embedModel, writeLog, sync, memoryEdits, syncs,
                       discarded, bare>>
        /\ memoryFaults' \in 0 .. MaxFaults
    BY MemoryAssumption
       DEF AppendEmbeds, AppendFails, Faulty, Remembering, MemoryTypeOK, memoryHistory
  <1>5. MemoryTypeOK'
    BY <1>3, <1>4 DEF Remembering, MemoryTypeOK, store
  <1>6. Accounted(remember[w]) \subseteq Accounted(new)
    BY <1>2 DEF Accounted, Opened
  <1>7. RecordsStand'
    BY <1>2, <1>4, <1>6, RecordsStill DEF Recorded
  <1>8. FilesStand' /\ VectorsStand'
    BY <1>4, SyncStill, MemoryValues DEF Remembering, MemoryTypeOK, FilesStand
  <1> QED  BY <1>5, <1>7, <1>8 DEF Remembering


LEMMA AppendIndexesStep ==
    ASSUME Remembering, NEW w \in Writers, AppendIndexes(w)
    PROVE  Remembering'
  <1>1. /\ remember \in [Writers -> Remember] /\ remember[w] \in Remember
        /\ remember[w].at = "embedding" /\ MemoryTypeOK
        /\ remember[w].content \in SUBSET MemoryRecords
        /\ remember[w].model \in 0 .. EmbedModels
    BY DEF AppendIndexes, Remembering, MemoryTypeOK, Remember
  <1>2. PICK content \in SUBSET MemoryRecords, using \in 0 .. EmbedModels :
           Indexes(Today, content, using, metaModel)
    BY <1>1 DEF AppendIndexes
  <1>3. /\ index' \in [MemoryFiles -> File] /\ marked' \subseteq MemoryRecords
        /\ vectors' \in [MemoryFiles -> 0 .. EmbedModels]
        /\ dimensions' \in 0 .. EmbedModels /\ bare' \subseteq MemoryFiles
        /\ index'[Today] = [there |-> TRUE, has |-> content]
        /\ \A g \in MemoryFiles \ {Today} : index'[g] = index[g]
        /\ content # {} => vectors'[Today] = using
        /\ Today \notin bare' => using = metaModel
        /\ \A g \in MemoryFiles \ {Today} :
             g \notin bare' => g \notin bare /\ vectors'[g] = vectors[g]
    BY <1>1, <1>2, IndexingFile, MemoryValues
  <1>4. PICK new \in Remember :
           /\ remember' = [remember EXCEPT ![w] = new] /\ remember' \in [Writers -> Remember]
           /\ new.at = "done" /\ new.missed = remember[w].missed /\ new.unread = remember[w].unread
    <2>1. remember' = [remember EXCEPT ![w] = Ended(remember[w], "done")]
      BY <1>1 DEF AppendIndexes
    <2> QED  BY <1>1, <2>1, EndedCall DEF CallStages, Opened
  <1>5. /\ UNCHANGED <<disk, metaModel, embedModel, memoryEdits, syncs, memoryFaults, discarded>>
        /\ sync' = Touches(Today)
        /\ writeLog' \in [Writers -> {"none", "accepted", "rejected"}]
    BY DEF AppendIndexes, Remembering, MemoryTypeOK
  <1>6. /\ sync' \in Sync
        /\ sync'.at = sync.at /\ sync'.force = sync.force /\ sync'.model = sync.model
        /\ sync'.active = sync.active /\ sync'.todo = sync.todo /\ sync'.file = sync.file
        /\ sync'.content = sync.content
        /\ sync.touched \subseteq sync'.touched
        /\ sync.at # "idle" => Today \in sync'.touched
    BY <1>5, Touched, MemoryValues
  <1>7. MemoryTypeOK'
    BY <1>1, <1>3, <1>4, <1>5, <1>6 DEF MemoryTypeOK
  <1>8. Accounted(remember[w]) \subseteq Accounted(new)
    BY <1>1, <1>4 DEF Accounted, Opened
  <1>9. RecordsStand'
    BY <1>1, <1>4, <1>5, <1>8, RecordsStill DEF Recorded
  <1>10. FilesStand /\ VectorsStand
    BY DEF Remembering
  <1>11. FilesStand'
    BY <1>3, <1>5, <1>6, <1>10 DEF FilesStand, Running, Underway
  <1>12. VectorsStand'
    <2>1. ASSUME ~sync.force, NEW f \in MemoryFiles, f \notin bare', index'[f].has # {}
          PROVE  vectors'[f] = metaModel
      <3>1. CASE f = Today
        BY <1>3, <2>1, <3>1
      <3>2. CASE f # Today
        BY <1>3, <1>10, <2>1, <3>2 DEF VectorsStand
      <3> QED  BY <3>1, <3>2
    <2>2. ASSUME sync.force, Running, NEW f \in sync.active \ sync.todo, f \notin sync'.touched,
                 f \notin bare'
          PROVE  Underway(f) \/ (index'[f].has # {} => vectors'[f] = sync.model)
      <3>1. f # Today /\ f \notin sync.touched
        BY <1>6, <2>2 DEF Running
      <3>2. f \in MemoryFiles
        BY <1>1 DEF MemoryTypeOK, Sync
      <3> QED  BY <1>3, <1>10, <2>2, <3>1, <3>2 DEF VectorsStand
    <2> QED  BY <1>5, <1>6, <1>10, <2>1, <2>2 DEF VectorsStand, Running, Underway
  <1> QED  BY <1>7, <1>9, <1>11, <1>12 DEF Remembering

-------------------------------------------------------------------------------
\* A synchronisation's own step, or a crash, that leaves the calls where they are.
LEMMA RecordsUntouched ==
    ASSUME Remembering, UNCHANGED <<remember, discarded>>,
           disk'[Today].has = disk[Today].has
    PROVE  RecordsStand'
  BY DEF Remembering, RecordsStand, Safe

LEMMA ScaffoldKeeps ==
    ASSUME Remembering
    PROVE  /\ Scaffolded(disk) \in [MemoryFiles -> File]
           /\ Scaffolded(disk)[Today] = disk[Today]
           /\ \A f \in MemoryFiles : ~Scaffolded(disk)[f].there => Scaffolded(disk)[f].has = {}
  BY MemoryValues DEF Scaffolded, Remembering, MemoryTypeOK, FilesStand

LEMMA SyncStartsStep == ASSUME Remembering, SyncStarts PROVE Remembering'
  <1>1. PICK asked \in BOOLEAN, force \in BOOLEAN :
           /\ force = (asked \/ metaModel # embedModel)
           /\ sync' = [NoSync EXCEPT !.at = "listing", !.force = force,
                                     !.model = embedModel]
           /\ vectors' = IF force THEN [f \in MemoryFiles |-> 0] ELSE vectors
    <2>1. PICK asked \in BOOLEAN :
             LET force == asked \/ metaModel # embedModel
             IN  /\ sync' = [NoSync EXCEPT !.at = "listing", !.force = force,
                                           !.model = embedModel]
                 /\ vectors' = IF force THEN [f \in MemoryFiles |-> 0] ELSE vectors
      BY Zenon DEF SyncStarts
    <2>2. PICK force \in BOOLEAN : force = (asked \/ metaModel # embedModel)
      <3>1. (asked \/ metaModel # embedModel) \in BOOLEAN
        OBVIOUS
      <3> QED  BY <3>1, Zenon
    <2> QED  BY <2>1, <2>2
  <1>2. embedModel \in 1 .. EmbedModels /\ MemoryTypeOK /\ VectorsStand
    BY DEF Remembering, MemoryTypeOK
  <1>3. /\ sync' \in Sync /\ sync'.at = "listing" /\ sync'.force = force
        /\ sync'.model = embedModel
    BY <1>1, <1>2, MemoryValues DEF Sync
  <1>4. /\ disk' = Scaffolded(disk) /\ syncs' \in 0 .. MaxSyncs /\ sync.at = "idle"
        /\ UNCHANGED <<index, marked, dimensions, metaModel, embedModel, remember, writeLog,
                       memoryEdits, memoryFaults, discarded, bare>>
    BY <1>2, MemoryAssumption DEF SyncStarts, MaySync, MemoryTypeOK
  <1>5. vectors' \in [MemoryFiles -> 0 .. EmbedModels]
    BY <1>1, <1>2, MemoryValues DEF MemoryTypeOK
  <1>6. MemoryTypeOK'
    BY <1>2, <1>3, <1>4, <1>5, ScaffoldKeeps DEF MemoryTypeOK
  <1>7. RecordsStand'
    BY <1>4, ScaffoldKeeps, RecordsUntouched
  <1>8. FilesStand'
    BY <1>3, <1>4, ScaffoldKeeps DEF FilesStand, Running
  <1>9. VectorsStand'
    BY <1>1, <1>2, <1>3, <1>4, MemoryValues DEF VectorsStand, Running
  <1> QED  BY <1>6, <1>7, <1>8, <1>9 DEF Remembering

LEMMA SyncListsStep == ASSUME Remembering, SyncLists PROVE Remembering'
  <1>1. MemoryTypeOK /\ FilesStand /\ VectorsStand /\ sync.at = "listing" /\ sync \in Sync
    BY DEF SyncLists, Remembering, MemoryTypeOK
  <1>2. PICK listed \in SUBSET MemoryFiles :
           /\ \A f \in MemoryFiles : f \in listed <=> disk[f].there
           /\ sync' = [sync EXCEPT !.at = "indexing", !.active = listed, !.todo = listed]
    <2>1. PICK listed : listed = {f \in MemoryFiles : disk[f].there}
      OBVIOUS
    <2> QED  BY <2>1 DEF SyncLists
  <1>3. /\ sync' \in Sync /\ sync'.at = "indexing" /\ sync'.active = listed
        /\ sync'.todo = listed /\ sync'.force = sync.force /\ sync'.model = sync.model
    BY <1>1, <1>2 DEF Sync
  <1>4. UNCHANGED <<disk, index, marked, vectors, dimensions, metaModel, embedModel, remember,
                    writeLog, memoryEdits, syncs, memoryFaults, discarded, bare>>
    BY DEF SyncLists, store, memoryHistory
  <1>5. MemoryTypeOK'
    BY <1>1, <1>3, <1>4 DEF MemoryTypeOK
  <1>6. RecordsStand'
    BY <1>4, RecordsUntouched
  <1>7. FilesStand'
    BY <1>1, <1>2, <1>3, <1>4 DEF FilesStand, Running, Underway
  <1>8. VectorsStand'
    BY <1>1, <1>3, <1>4 DEF VectorsStand, Running
  <1> QED  BY <1>5, <1>6, <1>7, <1>8 DEF Remembering

LEMMA NextFileOf ==
    ASSUME MemoryTypeOK, sync.todo # {}
    PROVE  NextFile(sync.todo) \in sync.todo /\ sync.todo \subseteq MemoryFiles
  <1>1. (CHOOSE f \in sync.todo : TRUE) \in sync.todo
    OBVIOUS
  <1>2. sync.todo \subseteq MemoryFiles
    BY DEF MemoryTypeOK, Sync
  <1> QED  BY <1>1, <1>2 DEF NextFile

LEMMA SyncReadsStep == ASSUME Remembering, SyncReads PROVE Remembering'
  <1>1. /\ MemoryTypeOK /\ FilesStand /\ VectorsStand /\ sync \in Sync
        /\ sync.at = "indexing" /\ sync.todo # {}
    BY DEF SyncReads, Remembering, MemoryTypeOK
  <1>2. PICK f \in sync.todo : f = NextFile(sync.todo)
    BY <1>1, NextFileOf
  <1>3. f \in MemoryFiles /\ disk[f].has \in SUBSET MemoryRecords
        /\ embedModel \in 0 .. EmbedModels
    BY <1>1, NextFileOf, MemoryValues DEF MemoryTypeOK, File
  <1>4. PICK content \in SUBSET MemoryRecords :
           /\ content = disk[f].has /\ disk[f].there
           /\ sync' = IF UpToDate(f, content, sync.force)
                      THEN [sync EXCEPT !.todo = @ \ {f}]
                      ELSE [sync EXCEPT !.at = "embedding", !.todo = @ \ {f}, !.file = f,
                                        !.content = content, !.using = embedModel]
    BY <1>2, <1>3 DEF SyncReads
  <1>5. UNCHANGED <<disk, index, marked, vectors, dimensions, metaModel, embedModel, remember,
                    writeLog, memoryEdits, syncs, memoryFaults, discarded, bare>>
    BY DEF SyncReads, store, memoryHistory
  <1>6. /\ sync' \in Sync /\ sync'.active = sync.active /\ sync'.todo = sync.todo \ {f}
        /\ sync'.force = sync.force /\ sync'.model = sync.model /\ sync'.touched = sync.touched
        /\ \/ /\ UpToDate(f, content, sync.force) /\ sync'.at = "indexing"
           \/ /\ sync'.at = "embedding" /\ sync'.file = f /\ sync'.content = content
    BY <1>1, <1>3, <1>4 DEF Sync
  <1>7. MemoryTypeOK'
    BY <1>1, <1>5, <1>6 DEF MemoryTypeOK
  <1>8. RecordsStand'
    BY <1>5, RecordsUntouched
  <1>9. UpToDate(f, content, sync.force) => ~sync.force /\ index[f] = disk[f]
    <2>1. disk[f] = [there |-> TRUE, has |-> content]
      BY <1>1, <1>3, <1>4 DEF MemoryTypeOK, File
    <2> QED  BY <2>1 DEF UpToDate
  <1>10. FilesStand'
    BY <1>1, <1>3, <1>4, <1>5, <1>6, <1>9 DEF FilesStand, Running, Underway
  <1>11. VectorsStand'
    BY <1>1, <1>3, <1>4, <1>5, <1>6, <1>9 DEF VectorsStand, Running, Underway
  <1> QED  BY <1>7, <1>8, <1>10, <1>11 DEF Remembering

LEMMA SyncIndexesStep == ASSUME Remembering, SyncIndexes PROVE Remembering'
  <1>1. /\ MemoryTypeOK /\ FilesStand /\ VectorsStand /\ sync \in Sync
        /\ sync.at = "embedding"
    BY DEF SyncIndexes, Remembering, MemoryTypeOK
  <1>2. PICK f \in MemoryFiles, content \in SUBSET MemoryRecords, using \in 0 .. EmbedModels :
           /\ f = sync.file /\ content = sync.content
           /\ Indexes(f, content, using, sync.model)
    BY <1>1 DEF SyncIndexes, Sync
  <1>3. /\ index' \in [MemoryFiles -> File] /\ marked' \subseteq MemoryRecords
        /\ vectors' \in [MemoryFiles -> 0 .. EmbedModels]
        /\ dimensions' \in 0 .. EmbedModels /\ bare' \subseteq MemoryFiles
        /\ index'[f] = [there |-> TRUE, has |-> content]
        /\ \A g \in MemoryFiles \ {f} : index'[g] = index[g]
        /\ content # {} => vectors'[f] = using
        /\ f \notin bare' => using = sync.model
        /\ \A g \in MemoryFiles \ {f} :
             g \notin bare' => g \notin bare /\ vectors'[g] = vectors[g]
    BY <1>1, <1>2, IndexingFile
  <1>4. UNCHANGED <<disk, metaModel, embedModel, remember, writeLog, memoryEdits, syncs,
                    memoryFaults, discarded>>
    BY DEF SyncIndexes
  <1>5. /\ sync' \in Sync /\ sync'.at = "indexing" /\ sync'.active = sync.active
        /\ sync'.todo = sync.todo /\ sync'.force = sync.force /\ sync'.model = sync.model
        /\ sync'.touched = sync.touched
    BY <1>1 DEF SyncIndexes, Sync
  <1>6. MemoryTypeOK'
    BY <1>1, <1>3, <1>4, <1>5 DEF MemoryTypeOK
  <1>7. RecordsStand'
    BY <1>4, RecordsUntouched
  <1>8. f \notin sync.touched => index'[f] = disk[f]
    <2>1. f \notin sync.touched => disk[f].there /\ disk[f].has = content
      BY <1>1, <1>2 DEF FilesStand, Running, Underway
    <2>2. disk[f] \in File
      BY <1>1, <1>2 DEF MemoryTypeOK
    <2> QED  BY <1>3, <2>1, <2>2 DEF File
  <1>9. FilesStand'
    BY <1>1, <1>2, <1>3, <1>4, <1>5, <1>8 DEF FilesStand, Running, Underway
  <1>10. VectorsStand'
    <2>1. ASSUME ~sync.force, NEW g \in MemoryFiles, g \notin bare', index'[g].has # {}
          PROVE  vectors'[g] = metaModel
      <3>1. CASE g = f
        BY <1>1, <1>3, <2>1, <3>1 DEF VectorsStand
      <3>2. CASE g # f
        BY <1>1, <1>3, <2>1, <3>2 DEF VectorsStand
      <3> QED  BY <3>1, <3>2
    <2>2. ASSUME sync.force, NEW g \in sync.active \ sync.todo, g \notin sync.touched,
                 g \notin bare', index'[g].has # {}
          PROVE  vectors'[g] = sync.model
      <3>1. g \in MemoryFiles
        BY <1>1 DEF Sync
      <3>2. CASE g = f
        BY <1>3, <2>2, <3>2
      <3>3. CASE g # f
        BY <1>1, <1>2, <1>3, <2>2, <3>1, <3>3 DEF VectorsStand, Running, Underway
      <3> QED  BY <3>2, <3>3
    <2> QED  BY <1>1, <1>4, <1>5, <2>1, <2>2 DEF VectorsStand, Running
  <1> QED  BY <1>6, <1>7, <1>9, <1>10 DEF Remembering

LEMMA SyncPrunesStep == ASSUME Remembering, SyncPrunes PROVE Remembering'
  <1>1. /\ MemoryTypeOK /\ FilesStand /\ VectorsStand /\ sync \in Sync
        /\ sync.at = "indexing" /\ sync.todo = {} /\ Running
    BY DEF SyncPrunes, Remembering, MemoryTypeOK, Running
  <1>2. /\ index' = [f \in MemoryFiles |-> IF f \in sync.active THEN index[f] ELSE NoFile]
        /\ marked' \subseteq marked
        /\ vectors' = [f \in MemoryFiles |-> IF f \in sync.active THEN vectors[f] ELSE 0]
        /\ metaModel' = sync.model /\ sync' = NoSync
        /\ bare' = bare \cup {f \in sync.touched : vectors[f] # sync.model}
        /\ UNCHANGED <<disk, dimensions, embedModel, remember, writeLog, memoryEdits, syncs,
                       memoryFaults, discarded>>
    BY DEF SyncPrunes
  <1>3. /\ index' \in [MemoryFiles -> File] /\ vectors' \in [MemoryFiles -> 0 .. EmbedModels]
        /\ bare' \subseteq MemoryFiles /\ metaModel' \in 0 .. EmbedModels
    BY <1>1, <1>2, MemoryValues DEF MemoryTypeOK, Sync
  <1>4. MemoryTypeOK'
    BY <1>1, <1>2, <1>3, MemoryValues DEF MemoryTypeOK
  <1>5. RecordsStand'
    BY <1>2, RecordsUntouched
  <1>6. FilesStand'
    BY <1>1, <1>2, MemoryValues DEF FilesStand, Running
  <1>7. ASSUME NEW f \in MemoryFiles, f \notin bare', index'[f].has # {}
        PROVE  vectors'[f] = sync.model
    <2>1. f \in sync.active /\ index[f].has # {} /\ vectors'[f] = vectors[f] /\ f \notin bare
      BY <1>2, <1>7, MemoryValues
    <2>2. f \in sync.touched => vectors[f] = sync.model
      BY <1>2, <1>7
    <2> QED  BY <1>1, <2>1, <2>2 DEF VectorsStand, Running, Underway
  <1>8. VectorsStand'
    BY <1>2, <1>7, MemoryValues DEF VectorsStand, Running
  <1> QED  BY <1>4, <1>5, <1>6, <1>8 DEF Remembering

\* The synchronisation is given up, by a failure or a crash.
LEMMA SyncGivenUp ==
    ASSUME Remembering, sync' = NoSync, UNCHANGED <<disk, store, metaModel>>,
           bare' = IF sync.at # "idle" /\ sync.force
                   THEN {f \in MemoryFiles : vectors[f] # metaModel} ELSE bare
    PROVE  FilesStand' /\ VectorsStand' /\ bare' \subseteq MemoryFiles /\ sync' \in Sync
  BY MemoryValues
     DEF Remembering, MemoryTypeOK, FilesStand, VectorsStand, Running, store

LEMMA SyncFailsStep == ASSUME Remembering, SyncFails PROVE Remembering'
  <1>1. /\ MemoryTypeOK /\ sync.at # "idle" /\ sync' = NoSync
        /\ bare' = IF sync.force THEN {f \in MemoryFiles : vectors[f] # metaModel} ELSE bare
        /\ UNCHANGED <<disk, store, metaModel, embedModel, remember, writeLog, memoryEdits,
                       syncs, discarded>>
        /\ memoryFaults' \in 0 .. MaxFaults
    BY MemoryAssumption DEF SyncFails, Faulty, Remembering, MemoryTypeOK
  <1>2. FilesStand' /\ VectorsStand' /\ bare' \subseteq MemoryFiles /\ sync' \in Sync
    BY <1>1, SyncGivenUp
  <1>3. MemoryTypeOK'
    BY <1>1, <1>2 DEF MemoryTypeOK, store
  <1>4. RecordsStand'
    BY <1>1, RecordsUntouched
  <1> QED  BY <1>2, <1>3, <1>4 DEF Remembering

LEMMA MemoryCrashStep == ASSUME Remembering, MemoryCrash PROVE Remembering'
  <1>1. /\ MemoryTypeOK /\ sync' = NoSync
        /\ bare' = IF sync.at # "idle" /\ sync.force
                   THEN {f \in MemoryFiles : vectors[f] # metaModel} ELSE bare
        /\ UNCHANGED <<disk, store, metaModel, embedModel, writeLog, memoryEdits,
                       syncs, discarded>>
        /\ memoryFaults' \in 0 .. MaxFaults
    BY MemoryAssumption DEF MemoryCrash, Faulty, Remembering, MemoryTypeOK
  <1>2. FilesStand' /\ VectorsStand' /\ bare' \subseteq MemoryFiles /\ sync' \in Sync
    BY <1>1, SyncGivenUp
  <1>3. /\ remember' \in [Writers -> Remember]
        /\ \A w \in Writers :
             /\ Accounted(remember[w]) \subseteq Accounted(remember'[w])
             /\ remember'[w].at \in Recorded => remember[w].at \in Recorded
             /\ remember'[w].at \notin {"writing", "filling"}
    <2>1. ASSUME NEW q \in Remember
          PROVE  /\ CutOff(q) \in Remember
                 /\ Accounted(q) \subseteq Accounted(CutOff(q))
                 /\ CutOff(q).at \in Recorded => q.at \in Recorded
                 /\ CutOff(q).at \notin {"writing", "filling"}
      <3>1. CASE q.at \in {"validated", "writing"}
        <4>1. CutOff(q) = Ended(q, "failed")
          BY <3>1 DEF CutOff
        <4> QED  BY <3>1, <4>1, EndedCall DEF Accounted, Opened, CallStages, Recorded
      <3>2. CASE q.at = "filling"
        <4>1. CutOff(q) = [q EXCEPT !.at = "cut"]
          BY <3>2 DEF CutOff
        <4>2. "cut" \in CallStages
          BY DEF CallStages, Opened
        <4>3. /\ CutOff(q) \in Remember /\ CutOff(q).at = "cut"
              /\ CutOff(q).previous = q.previous /\ CutOff(q).missed = q.missed
              /\ CutOff(q).unread = q.unread
          BY <4>1, <4>2, MovedCall
        <4> QED  BY <3>2, <4>3 DEF Accounted, Opened, Recorded
      <3>3. CASE q.at \in {"written", "embedding"}
        <4>1. CutOff(q) = Ended(q, "unindexed")
          BY <3>3 DEF CutOff
        <4> QED  BY <3>3, <4>1, EndedCall DEF Accounted, Opened, CallStages, Recorded
      <3>4. CASE q.at \notin {"validated", "writing", "filling", "written", "embedding"}
        <4>1. CutOff(q) = q
          BY <3>4 DEF CutOff
        <4> QED  BY <3>4, <4>1
      <3> QED  BY <3>1, <3>2, <3>3, <3>4
    <2>2. remember \in [Writers -> Remember] /\ remember' = [w \in Writers |-> CutOff(remember[w])]
      BY <1>1 DEF MemoryTypeOK, MemoryCrash
    <2> HIDE DEF Accounted
    <2> QED  BY <2>1, <2>2
  <1>4. MemoryTypeOK'
    BY <1>1, <1>2, <1>3 DEF MemoryTypeOK, store
  <1>5. /\ \A w \in Writers : Accounted(remember'[w]) \subseteq Safe'
        /\ disk'[Today].has \subseteq Safe' /\ discarded' \subseteq Safe'
    BY DEF Safe
  <1>6. RecordsStand'
    <2> HIDE DEF Safe, Accounted
    <2> QED  BY <1>1, <1>3, <1>5, RecordsMove
  <1> QED  BY <1>2, <1>4, <1>6 DEF Remembering

\* A user changes a file, and perhaps with it how far the calls that have it open are.
LEMMA FileEdited ==
    ASSUME Remembering, NEW f \in MemoryFiles, NEW new \in File,
           disk' = [disk EXCEPT ![f] = new],
           new.has \subseteq disk[f].has, ~new.there => new.has = {},
           disk[f].has \subseteq new.has \cup discarded',
           discarded \subseteq discarded', discarded' \subseteq MemoryRecords,
           sync' = Touches(f), UNCHANGED <<embedModel, store, metaModel, writeLog, syncs,
                                           memoryFaults, bare>>,
           memoryEdits' \in 0 .. MaxEdits, remember' \in [Writers -> Remember],
           \A w \in Writers :
              \/ remember'[w] = remember[w]
              \/ /\ remember'[w].at = "written" /\ w \in discarded'
                 /\ Accounted(remember[w]) \subseteq Accounted(remember'[w]) \cup discarded'
    PROVE  Remembering'
  <1>1. /\ disk' \in [MemoryFiles -> File] /\ disk'[f] = new
        /\ \A g \in MemoryFiles \ {f} : disk'[g] = disk[g]
    BY DEF Remembering, MemoryTypeOK
  <1>2. \A g \in MemoryFiles : ~disk'[g].there => disk'[g].has = {}
    BY <1>1 DEF Remembering, FilesStand
  <1>3. sync' \in Sync /\ FilesStand' /\ VectorsStand'
    BY <1>1, <1>2, SyncStill
  <1>4. /\ \A w \in Writers : Accounted(remember'[w]) \subseteq Safe'
        /\ disk'[Today].has \subseteq Safe' /\ discarded' \subseteq Safe'
    BY DEF Safe
  <1>5. /\ disk'[Today].has \subseteq disk[Today].has
        /\ disk[Today].has \subseteq disk'[Today].has \cup discarded'
    BY <1>1, MemoryValues
  <1>6. RecordsStand'
    <2> HIDE DEF Safe, Accounted
    <2>1. \A w \in Writers : Accounted(remember[w]) \subseteq Safe'
      BY <1>4
    <2> QED  BY <1>4, <1>5, <2>1, RecordsMove
  <1>7. MemoryTypeOK'
    BY <1>1, <1>3 DEF Remembering, MemoryTypeOK, store
  <1> QED  BY <1>3, <1>6, <1>7 DEF Remembering

LEMMA UserEditsStep == ASSUME Remembering, UserEdits PROVE Remembering'
  <1>1. /\ MemoryTypeOK /\ memoryEdits' \in 0 .. MaxEdits
        /\ UNCHANGED <<store, metaModel, writeLog, syncs, memoryFaults, bare>>
        /\ \A f \in MemoryFiles : ~disk[f].there => disk[f].has = {}
        /\ remember \in [Writers -> Remember] /\ discarded \subseteq MemoryRecords
        /\ Writers \subseteq MemoryRecords
    BY MemoryAssumption DEF UserEdits, Remembering, MemoryTypeOK, FilesStand, MemoryRecords
  <1>2. CASE UserChangesModel
    <2>1. UNCHANGED <<disk, discarded, sync, remember>> /\ embedModel' \in 1 .. EmbedModels
      BY <1>2 DEF UserChangesModel
    <2>2. FilesStand' /\ VectorsStand' /\ RecordsStand'
      BY <1>1, <2>1, SyncStill, RecordsUntouched, MemoryValues DEF MemoryTypeOK
    <2> QED  BY <1>1, <2>1, <2>2 DEF Remembering, MemoryTypeOK, store
  <1>3. CASE UserEditsFile
    <2>1. PICK f \in MemoryFiles : \E r \in disk[f].has :
             /\ disk' = [disk EXCEPT ![f].has = @ \ {r}]
             /\ discarded' = discarded \cup {r} /\ sync' = Touches(f)
             /\ UNCHANGED <<embedModel, remember>>
      BY <1>3 DEF UserEditsFile
    <2>2. PICK r \in disk[f].has :
             /\ disk' = [disk EXCEPT ![f].has = @ \ {r}]
             /\ discarded' = discarded \cup {r} /\ sync' = Touches(f)
             /\ UNCHANGED <<embedModel, remember>>
      BY <2>1
    <2>3. disk[f] \in File /\ r \in MemoryRecords
      BY <1>1, <2>2 DEF MemoryTypeOK, File
    <2>4. PICK new : new = [disk[f] EXCEPT !.has = @ \ {r}]
      OBVIOUS
    <2>5. new \in File /\ new.there = disk[f].there /\ new.has = disk[f].has \ {r}
      BY <2>3, <2>4 DEF File
    <2>6. disk' = [disk EXCEPT ![f] = new]
      BY <1>1, <2>2, <2>4 DEF MemoryTypeOK
    <2>7. discarded' \subseteq MemoryRecords
      BY <1>1, <2>2, <2>3
    <2> HIDE DEF Accounted
    <2> QED  BY <1>1, <2>2, <2>5, <2>6, <2>7, FileEdited
  <1>4. CASE UserRemovesFile
    <2>1. PICK f \in MemoryFiles, open \in SUBSET Writers :
             /\ disk' = [disk EXCEPT ![f] = NoFile]
             /\ \A w \in open : Filling(w)
             /\ discarded' = discarded \cup disk[f].has \cup open
                                \cup UNION {remember[w].previous : w \in open}
             /\ remember' = [w \in Writers |->
                                IF w \in open THEN [remember[w] EXCEPT !.at = "written"]
                                ELSE remember[w]]
             /\ sync' = Touches(f) /\ UNCHANGED embedModel
      <3>1. PICK f \in MemoryFiles :
             /\ disk' = [disk EXCEPT ![f] = NoFile]
             /\ LET open == IF f = Today THEN {w \in Writers : Filling(w)} ELSE {}
                IN  /\ discarded' = discarded \cup disk[f].has \cup open
                                      \cup UNION {remember[w].previous : w \in open}
                    /\ remember' = [w \in Writers |->
                                      IF w \in open THEN [remember[w] EXCEPT !.at = "written"]
                                      ELSE remember[w]]
             /\ sync' = Touches(f) /\ UNCHANGED embedModel
        BY <1>4 DEF UserRemovesFile
      <3>2. PICK open : open = IF f = Today THEN {w \in Writers : Filling(w)} ELSE {}
        OBVIOUS
      <3>3. open \in SUBSET Writers /\ \A w \in open : Filling(w)
        BY <3>2
      <3> HIDE DEF Filling
      <3> QED  BY <3>1, <3>2, <3>3
    <2>2. ASSUME NEW w \in open
          PROVE  /\ remember'[w] \in Remember /\ remember'[w].at = "written"
                 /\ remember'[w].missed = remember[w].missed
                 /\ remember'[w].unread = remember[w].unread
                 /\ remember[w].at = "filling" /\ remember[w].previous \subseteq discarded'
      <3>1. remember'[w] = [remember[w] EXCEPT !.at = "written"] /\ remember[w] \in Remember
            /\ remember[w].at = "filling"
        BY <1>1, <2>1 DEF Filling
      <3>2. remember[w].previous \subseteq discarded'
        BY <2>1
      <3>3. "written" \in CallStages
        BY DEF CallStages, Opened
      <3>4. /\ remember'[w] \in Remember /\ remember'[w].at = "written"
            /\ remember'[w].missed = remember[w].missed
            /\ remember'[w].unread = remember[w].unread
        BY <3>1, <3>3, MovedCall
      <3> QED  BY <3>1, <3>2, <3>4
    <2>3. \A w \in Writers \ open : remember'[w] = remember[w]
      BY <2>1
    <2>4. remember' \in [Writers -> Remember]
      BY <1>1, <2>1, <2>2, <2>3
    <2>5. discarded' \subseteq MemoryRecords
      <3>1. disk[f].has \subseteq MemoryRecords
        BY <1>1 DEF MemoryTypeOK, File
      <3>2. \A w \in open : remember[w].previous \subseteq MemoryRecords
        BY <1>1, <2>1 DEF Remember
      <3> QED  BY <1>1, <2>1, <3>1, <3>2
    <2>6. \A w \in Writers :
              \/ remember'[w] = remember[w]
              \/ /\ remember'[w].at = "written" /\ w \in discarded'
                 /\ Accounted(remember[w]) \subseteq Accounted(remember'[w]) \cup discarded'
      <3>1. ASSUME NEW w \in open
            PROVE  Accounted(remember[w]) \subseteq Accounted(remember'[w]) \cup discarded'
        BY <2>2 DEF Accounted, Opened
      <3> HIDE DEF Accounted
      <3> QED  BY <2>1, <2>2, <2>3, <3>1
    <2> HIDE DEF Accounted
    <2> QED  BY <1>1, <2>1, <2>4, <2>5, <2>6, FileEdited, MemoryValues
  <1> QED  BY <1>2, <1>3, <1>4 DEF UserEdits

LEMMA RememberingStep == Remembering /\ [MemoryNext]_memoryVars => Remembering'
  <1> SUFFICES ASSUME Remembering, [MemoryNext]_memoryVars PROVE Remembering'
    OBVIOUS
  <1>1. CASE UNCHANGED memoryVars
    BY <1>1 DEF memoryVars, Remembering, MemoryTypeOK, RecordsStand, FilesStand, VectorsStand,
                Safe, Running, Underway
  <1>2. CASE MemoryNext
    BY <1>2, ValidatesStep, AppendReadsStep, AppendOpensStep, AppendFillsStep, AppendGoesOn, AppendIndexesStep,
       SyncStartsStep, SyncListsStep, SyncReadsStep, SyncIndexesStep, SyncFailsStep,
       SyncPrunesStep, UserEditsStep, MemoryCrashStep DEF MemoryNext
  <1> QED  BY <1>1, <1>2

LEMMA RememberingInvariant == MemorySpec => []Remembering
  BY RememberingInit, RememberingStep, PTL DEF MemorySpec

\* A record written to the file of the day stays, unless a user removes it, or a call
\* writes over it that had read the file before, could not read it, or was cut off.
THEOREM RecordsAreKept == MemorySpec => []AppendsKeepRecords
  <1>1. Remembering => AppendsKeepRecords
    <2> SUFFICES ASSUME Remembering, NEW w \in Writers, remember[w].at \in Recorded
                 PROVE  \/ w \in disk[Today].has \cup discarded
                        \/ \E v \in Writers :
                            \/ remember[v].at \in {"filling", "cut"} /\ w \in remember[v].previous
                            \/ remember[v].at \in Opened /\ w \in remember[v].missed
                            \/ remember[v].at \in Opened /\ w \in remember[v].unread
      BY DEF AppendsKeepRecords, Recorded, Remembering
    <2>1. w \in Safe
      BY DEF Remembering, RecordsStand
    <2>2. ASSUME NEW v \in Writers, w \in Accounted(remember[v])
          PROVE  \/ remember[v].at \in {"filling", "cut"} /\ w \in remember[v].previous
                 \/ remember[v].at \in Opened /\ w \in remember[v].missed
                 \/ remember[v].at \in Opened /\ w \in remember[v].unread
      BY <2>2 DEF Accounted
    <2> HIDE DEF Accounted
    <2> QED  BY <2>1, <2>2 DEF Safe
  <1> QED  BY <1>1, RememberingInvariant, PTL

\* A synchronisation that comes to its end leaves the index as the files are, save
\* for those that others have touched meanwhile.
THEOREM SyncsMakeFresh == MemorySpec => SyncMakesFresh
  <1> DEFINE Freshens ==
        SyncPrunes => \A f \in MemoryFiles \ sync.touched : index'[f] = disk[f]
  <1>1. Remembering /\ [MemoryNext]_memoryVars => [Freshens]_memoryVars
    <2> SUFFICES ASSUME Remembering, SyncPrunes, NEW f \in MemoryFiles, f \notin sync.touched
                 PROVE  index'[f] = disk[f]
      OBVIOUS
    <2>1. /\ sync.at = "indexing" /\ sync.todo = {} /\ FilesStand /\ disk[f] \in File
          /\ index'[f] = IF f \in sync.active THEN index[f] ELSE NoFile
      BY DEF SyncPrunes, Remembering, MemoryTypeOK
    <2>2. CASE f \in sync.active
      BY <2>1, <2>2 DEF FilesStand, Running, Underway
    <2>3. CASE f \notin sync.active
      <3>1. ~disk[f].there /\ disk[f].has = {}
        BY <2>1, <2>3 DEF FilesStand, Running
      <3>2. disk[f] = NoFile
        BY <2>1, <3>1 DEF File, NoFile
      <3> QED  BY <2>1, <2>3, <3>2
    <2> QED  BY <2>2, <2>3
  <1> QED  BY <1>1, RememberingInvariant, PTL DEF MemorySpec, SyncMakesFresh

\* A synchronisation that comes to its end leaves every file with vectors of its model,
\* save for those that were touched or left bare.
THEOREM VectorsFollow == MemorySpec => VectorsFollowIndex
  <1> DEFINE Follows ==
        SyncPrunes => \A f \in MemoryFiles \ (sync.touched \cup bare) :
                        index'[f].has # {} => vectors'[f] = sync.model
  <1>1. Remembering /\ [MemoryNext]_memoryVars => [Follows]_memoryVars
    <2> SUFFICES ASSUME Remembering, SyncPrunes, NEW f \in MemoryFiles, f \notin sync.touched,
                        f \notin bare, index'[f].has # {}
                 PROVE  vectors'[f] = sync.model
      OBVIOUS
    <2>1. /\ sync.at = "indexing" /\ sync.todo = {} /\ VectorsStand
          /\ index'[f] = IF f \in sync.active THEN index[f] ELSE NoFile
          /\ vectors'[f] = IF f \in sync.active THEN vectors[f] ELSE 0
      BY DEF SyncPrunes, Remembering
    <2>2. f \in sync.active /\ index[f].has # {} /\ vectors'[f] = vectors[f]
      BY <2>1, MemoryValues
    <2> QED  BY <2>1, <2>2 DEF VectorsStand, Running, Underway
  <1> QED  BY <1>1, RememberingInvariant, PTL DEF MemorySpec, VectorsFollowIndex

-------------------------------------------------------------------------------
(* The vendored forks.                                                     *)

\* How the operations go, and what an upgrade has made when it comes to its lock.
ScriptShape ==
    /\ script.at = "recreate" => script.op # "export"
    /\ script.at \in {"validate", "clear", "export", "lock"} => script.op # "rebuild"
    /\ script.at \in {"verify", "lock"} => (script.at = "lock" <=> script.op \in {"ref", "hardRef"})
    /\ script.op \in {"export", "rebuild"} /\ script.at # "none" => script.target = lock
    /\ script.at \in {"validate", "clear", "export"} /\ script.op \in {"ref", "hardRef"} =>
          script.target <= vendor.base
    /\ script.at = "lock" => patches.from = script.target /\ script.target <= patches.to

\* As long as no script has failed: the commit that patches and worktree are of.
Based ==
    /\ script.at \in {"none", "recreate", "validate", "clear"} =>
          patches.from = lock /\ patches.to = lock
    /\ script.at = "verify" => patches.from = lock /\ patches.to = lock
    /\ script.at \in {"export", "lock"} =>
          patches.from = script.target /\ patches.to = script.target
    /\ script.at = "none" /\ vendor.there => vendor.base = lock
    /\ script.at \in {"validate", "clear", "export", "verify", "lock"} /\ vendor.there =>
          vendor.base = script.target

Vendoring == VendorTypeOK /\ ScriptShape /\ (broken \/ Based)

LEMMA AppliedTypes ==
    ASSUME VendorTypeOK, NEW c \in UpstreamCommits
    PROVE  /\ Applied(c) \in Vendor /\ Applied(c).there /\ ~Applied(c).dirty
           /\ Applied(c).ours = patches.ours
           /\ Applied(c).base =
                 IF patches.from # patches.to /\ c < patches.to THEN patches.to ELSE c
           /\ c <= Applied(c).base
           /\ [Applied(c) EXCEPT !.ours = {}, !.dirty = TRUE] \in Vendor
  <1>1. patches \in PatchSeries /\ patches.to \in UpstreamCommits
        /\ patches.ours \in SUBSET OurChanges
    BY DEF VendorTypeOK, PatchSeries
  <1>2. c \in Nat /\ patches.to \in Nat
    BY <1>1, VendorAssumption DEF UpstreamCommits
  <1>3. PICK b \in UpstreamCommits :
           b = IF patches.from # patches.to /\ c < patches.to THEN patches.to ELSE c
    BY <1>1
  <1>4. Applied(c) = [there |-> TRUE, ours |-> patches.ours, dirty |-> FALSE, base |-> b]
    BY <1>3 DEF Applied
  <1>5. c <= b
    BY <1>2, <1>3
  <1>6. /\ Applied(c) \in Vendor /\ Applied(c).there /\ ~Applied(c).dirty
        /\ Applied(c).ours = patches.ours /\ Applied(c).base = b
    BY <1>1, <1>4 DEF Vendor
  <1>7. \A a \in Vendor : [a EXCEPT !.ours = {}, !.dirty = TRUE] \in Vendor
    BY DEF Vendor
  <1> QED  BY <1>3, <1>5, <1>6, <1>7

\* A script that goes on keeps its operation and its target.
LEMMA ScriptTypes ==
    ASSUME VendorTypeOK
    PROVE  /\ \A where \in {"none", "recreate", "validate", "clear", "export", "verify", "lock"} :
                Proceeds(where) => /\ script' \in Script /\ script'.at = where
                                   /\ script'.op = script.op /\ script'.target = script.target
           /\ NoScript \in Script /\ NoScript.at = "none"
  <1>1. script \in Script /\ 1 \in UpstreamCommits
    BY VendorAssumption DEF VendorTypeOK, UpstreamCommits
  <1> QED  BY <1>1 DEF Proceeds, Script, NoScript

LEMMA VendoringInit == VendorInit => Vendoring
  <1> SUFFICES ASSUME VendorInit PROVE Vendoring
    OBVIOUS
  <1>1. 1 \in UpstreamCommits /\ 0 \in 0 .. MaxScripts
    BY VendorAssumption DEF UpstreamCommits
  <1>2. NoVendor \in Vendor /\ ~NoVendor.there
    BY <1>1 DEF NoVendor, Vendor
  <1>3. NoScript \in Script /\ NoScript.at = "none"
    BY <1>1 DEF NoScript, Script
  <1>4. /\ [ours |-> {}, from |-> 1, to |-> 1] \in PatchSeries
    BY <1>1 DEF PatchSeries
  <1>5. VendorTypeOK
    BY <1>1, <1>2, <1>3, <1>4 DEF VendorInit, VendorTypeOK
  <1>6. script.at = "none" /\ ~vendor.there /\ lock = 1 /\ patches.from = 1 /\ patches.to = 1
    BY <1>2, <1>3 DEF VendorInit
  <1> QED  BY <1>5, <1>6 DEF Vendoring, ScriptShape, Based

LEMMA VendoringStep == Vendoring /\ [VendorNext]_vendorVars => Vendoring'
  <1> SUFFICES ASSUME Vendoring, [VendorNext]_vendorVars PROVE Vendoring'
    OBVIOUS
  <1>0. VendorTypeOK /\ ScriptShape /\ (broken \/ Based)
    BY DEF Vendoring
  <1>1. CASE UNCHANGED vendorVars
    BY <1>0, <1>1 DEF vendorVars, Vendoring, VendorTypeOK, ScriptShape, Based
  <1>2. CASE ScriptFails
    BY <1>0, <1>2, ScriptTypes DEF ScriptFails, Fails, Vendoring, VendorTypeOK, ScriptShape
  <1>3. ASSUME NEW op \in {"export", "rebuild", "ref", "hardRef"}, NEW c \in UpstreamCommits,
               StartsScript(op, c)
        PROVE  Vendoring'
    <2>1. PICK where \in {"clear", "recreate"} :
            where = IF op = "export" THEN "clear" ELSE "recreate"
      OBVIOUS
    <2>2. script' = [at |-> where, op |-> op, target |-> c]
      BY <1>3, <2>1 DEF StartsScript
    <2>3. /\ script' \in Script /\ script'.at = where /\ script'.op = op /\ script'.target = c
      BY <2>2 DEF Script
    <2>4. scripts' \in 0 .. MaxScripts
      BY <1>0, <1>3, VendorAssumption DEF StartsScript, VendorTypeOK
    <2>5. UNCHANGED <<fork, lock, vendor, patches, broken>> /\ cleanroom' = c
      BY <1>3 DEF StartsScript, CleanroomAt
    <2>6. VendorTypeOK'
      BY <1>0, <2>3, <2>4, <2>5 DEF VendorTypeOK
    <2>7. ScriptShape'
      BY <1>3, <2>1, <2>3, <2>5 DEF StartsScript, ScriptShape
    <2>8. broken' \/ Based'
      BY <1>0, <1>3, <2>1, <2>3, <2>5 DEF StartsScript, Based
    <2> QED  BY <2>6, <2>7, <2>8 DEF Vendoring
  <1>4. CASE RecreatesVendor
    <2>1. script.target \in UpstreamCommits /\ UNCHANGED <<fork, lock, cleanroom, patches, scripts>>
      BY <1>0, <1>4 DEF VendorTypeOK, Script, RecreatesVendor
    <2>2. CASE ~Applies(script.target)
      <3>1. vendor' \in Vendor /\ script' = NoScript /\ broken' = TRUE
        BY <1>0, <1>4, <2>1, <2>2, AppliedTypes DEF RecreatesVendor, Fails
      <3> QED
        BY <1>0, <2>1, <3>1, ScriptTypes DEF Vendoring, VendorTypeOK, ScriptShape
    <2>3. CASE Applies(script.target)
      <3>1. vendor' = Applied(script.target) /\ UNCHANGED broken
        BY <1>4, <2>3 DEF RecreatesVendor
      <3>2. PICK where \in {"verify", "validate", "clear"} :
               /\ Proceeds(where)
               /\ where = "verify" <=> script.op = "rebuild"
        <4>1. CASE script.op = "rebuild"
          BY <1>4, <2>3, <4>1 DEF RecreatesVendor
        <4>2. CASE script.op # "rebuild" /\ fork = "opencode"
          BY <1>4, <2>3, <4>2 DEF RecreatesVendor
        <4>3. CASE script.op # "rebuild" /\ fork # "opencode"
          BY <1>4, <2>3, <4>3 DEF RecreatesVendor
        <4> QED  BY <4>1, <4>2, <4>3
      <3>3. /\ script' \in Script /\ script'.at = where
            /\ script'.op = script.op /\ script'.target = script.target
        BY <1>0, <3>2, ScriptTypes
      <3>4. /\ vendor' \in Vendor /\ script.target <= vendor'.base
            /\ vendor'.base = IF patches.from # patches.to /\ script.target < patches.to
                              THEN patches.to ELSE script.target
        BY <1>0, <2>1, <3>1, AppliedTypes
      <3>5. VendorTypeOK'
        BY <1>0, <2>1, <3>1, <3>3, <3>4 DEF VendorTypeOK
      <3>6. script.at = "recreate"
        BY <1>4 DEF RecreatesVendor
      <3>7. script.op \in {"rebuild", "ref", "hardRef"}
        BY <1>0, <3>6 DEF ScriptShape, VendorTypeOK, Script
      <3>8. ScriptShape'
        BY <1>0, <2>1, <3>2, <3>3, <3>4, <3>6, <3>7 DEF ScriptShape
      <3>9. broken' \/ Based'
        BY <1>0, <2>1, <3>1, <3>2, <3>3, <3>4, <3>6, <3>7 DEF Based, ScriptShape
      <3> QED  BY <3>5, <3>8, <3>9 DEF Vendoring
    <2> QED  BY <2>2, <2>3
  <1>5. CASE ValidatesVendor
    <2>1. /\ script' \in Script /\ script'.at = "clear"
          /\ script'.op = script.op /\ script'.target = script.target
          /\ UNCHANGED <<fork, lock, cleanroom, vendor, patches, scripts, broken>>
      BY <1>0, <1>5, ScriptTypes DEF ValidatesVendor
    <2> QED
      BY <1>0, <1>5, <2>1 DEF ValidatesVendor, Vendoring, VendorTypeOK, ScriptShape, Based
  <1>6. CASE ClearsPatches
    <2>1. /\ script' \in Script /\ script'.at = "export"
          /\ script'.op = script.op /\ script'.target = script.target
          /\ UNCHANGED <<fork, lock, cleanroom, vendor, scripts, broken>>
      BY <1>0, <1>6, ScriptTypes DEF ClearsPatches
    <2>2. /\ patches' \in PatchSeries /\ patches'.from = script.target
          /\ patches'.to = script.target
      BY <1>0, <1>6 DEF ClearsPatches, PatchSeries, VendorTypeOK, Script
    <2> QED
      BY <1>0, <1>6, <2>1, <2>2 DEF ClearsPatches, Vendoring, VendorTypeOK, ScriptShape, Based
  <1>7. CASE ExportsPatches
    <2>1. /\ UNCHANGED <<fork, lock, cleanroom, vendor, scripts, broken>>
          /\ script.at = "export" /\ vendor.there
      BY <1>7 DEF ExportsPatches, Ends
    <2>2. /\ patches' \in PatchSeries /\ patches'.from = script.target
          /\ patches'.to = vendor.base
      BY <1>0, <1>7 DEF ExportsPatches, PatchSeries, VendorTypeOK, Script, Vendor
    <2>3. script.op \in {"export", "ref", "hardRef"}
      BY <1>0, <2>1 DEF ScriptShape, VendorTypeOK, Script
    <2>4. CASE script' = NoScript /\ script.op = "export"
      <3>1. script'.at = "none" /\ script' \in Script
        BY <1>0, <2>4, ScriptTypes
      <3> QED
        BY <1>0, <2>1, <2>2, <2>4, <3>1 DEF Vendoring, VendorTypeOK, ScriptShape, Based
    <2>5. ASSUME NEW where \in {"verify", "lock"}, Proceeds(where),
                 where = "verify" <=> script.op = "export"
          PROVE  Vendoring'
      <3>1. /\ script' \in Script /\ script'.at = where
            /\ script'.op = script.op /\ script'.target = script.target
        BY <1>0, <2>5, ScriptTypes
      <3>2. VendorTypeOK'
        BY <1>0, <2>1, <2>2, <3>1 DEF VendorTypeOK
      <3>3. ScriptShape'
        BY <1>0, <2>1, <2>2, <2>3, <2>5, <3>1 DEF ScriptShape
      <3>4. broken' \/ Based'
        BY <1>0, <2>1, <2>2, <2>3, <2>5, <3>1 DEF Based, ScriptShape
      <3> QED  BY <3>2, <3>3, <3>4 DEF Vendoring
    <2> QED  BY <1>7, <2>3, <2>4, <2>5 DEF ExportsPatches, Ends
  <1>8. CASE VerifiesBranch
    <2>1. /\ UNCHANGED <<fork, lock, cleanroom, vendor, patches, scripts>>
          /\ script.at = "verify" /\ script' = NoScript /\ (broken' \/ broken' = broken)
          /\ broken' \in BOOLEAN
      BY <1>0, <1>8 DEF VerifiesBranch, Ends, Fails, VendorTypeOK
    <2>2. script.target = lock
      BY <1>0, <2>1 DEF ScriptShape, VendorTypeOK, Script
    <2>3. script'.at = "none" /\ script' \in Script
      BY <1>0, <2>1, ScriptTypes
    <2> QED
      BY <1>0, <2>1, <2>2, <2>3 DEF Vendoring, VendorTypeOK, ScriptShape, Based
  <1>9. CASE WritesLock
    <2>1. /\ UNCHANGED <<fork, cleanroom, vendor, patches, scripts>>
          /\ script.at = "lock" /\ script' = NoScript
          /\ \/ lock' = script.target /\ UNCHANGED broken
             \/ lock' = lock /\ broken' = TRUE
      BY <1>9 DEF WritesLock, Ends, Fails
    <2>2. script.target \in UpstreamCommits
      BY <1>0 DEF VendorTypeOK, Script
    <2>3. script'.at = "none" /\ script' \in Script
      BY <1>0, <2>1, ScriptTypes
    <2> QED
      BY <1>0, <2>1, <2>2, <2>3 DEF Vendoring, VendorTypeOK, ScriptShape, Based
  <1>10. CASE EditsVendor
    <2>1. UNCHANGED <<fork, lock, cleanroom, patches, script, scripts, broken>>
      BY <1>10 DEF EditsVendor
    <2>2. vendor' \in Vendor /\ vendor'.there = vendor.there /\ vendor'.base = vendor.base
      BY <1>0, <1>10 DEF EditsVendor, Vendor, VendorTypeOK
    <2> QED
      BY <1>0, <2>1, <2>2 DEF Vendoring, VendorTypeOK, ScriptShape, Based
  <1> QED
    BY <1>1, <1>2, <1>3, <1>4, <1>5, <1>6, <1>7, <1>8, <1>9, <1>10 DEF VendorNext

\* The lock moves only to a commit on which the patches exported make the worktree
\* that is there; as long as no script has failed, the patches are of the lock.
THEOREM LocksFitPatches == VendorSpec => LockFitsPatches
  <1> DEFINE Fits ==
        /\ VendorTypeOK'
        /\ lock' # lock =>
             /\ patches.from = lock' /\ ~vendor.dirty
             /\ vendor.base = patches.to /\ vendor.ours = patches.ours
        /\ script.at # "none" /\ script'.at = "none" /\ ~broken' =>
             patches'.from = lock' /\ patches'.to = lock' /\ CheckPasses'
  <1>1. Vendoring /\ [VendorNext]_vendorVars => [Fits]_vendorVars
    <2> SUFFICES ASSUME Vendoring, VendorNext, Vendoring' PROVE Fits
      BY VendoringStep
    <2>1. ASSUME lock' # lock
          PROVE  /\ patches.from = lock' /\ ~vendor.dirty
                 /\ vendor.base = patches.to /\ vendor.ours = patches.ours
      <3>1. WritesLock
        BY <2>1 DEF VendorNext, StartsScript, RecreatesVendor, ValidatesVendor, ClearsPatches,
                    ExportsPatches, VerifiesBranch, ScriptFails, EditsVendor
      <3>2. script.at = "lock" /\ lock' = script.target /\ ~vendor.dirty
            /\ Reproducible(script.target)
        BY <2>1, <3>1 DEF WritesLock, Fails
      <3>3. patches.from = script.target /\ script.target <= patches.to
        BY <3>2 DEF Vendoring, ScriptShape
      <3>4. script.target \in UpstreamCommits /\ patches.to \in UpstreamCommits
        BY DEF Vendoring, VendorTypeOK, Script, PatchSeries
      <3>5. script.target \in Nat /\ patches.to \in Nat
        BY <3>4, VendorAssumption DEF UpstreamCommits
      <3>6. vendor.base = Applied(script.target).base /\ vendor.ours = patches.ours
        BY <3>2 DEF Reproducible
      <3>7. Applied(script.target).base =
               IF patches.from # patches.to /\ script.target < patches.to THEN patches.to
               ELSE script.target
        BY <3>4, AppliedTypes DEF Vendoring
      <3> QED  BY <3>2, <3>3, <3>5, <3>6, <3>7
    <2>2. ASSUME script'.at = "none", ~broken'
          PROVE  patches'.from = lock' /\ patches'.to = lock' /\ CheckPasses'
      <3>1. patches'.from = lock' /\ patches'.to = lock'
        BY <2>2 DEF Vendoring, Based
      <3>2. lock' \in Nat
        BY VendorAssumption DEF Vendoring, VendorTypeOK, UpstreamCommits
      <3>3. Between(patches.to, lock)' = {}
        BY <3>1, <3>2, VendorAssumption DEF Between, UpstreamCommits
      <3> QED  BY <3>1, <3>3 DEF CheckPasses, Applies
    <2> QED  BY <2>1, <2>2 DEF Vendoring
  <1> QED  BY <1>1, VendoringInit, VendoringStep, PTL DEF VendorSpec, LockFitsPatches

-------------------------------------------------------------------------------
(* OpenCode's configuration file.                                          *)

\* A request between the file it has found, if it could be read, and its write sees
\* the file change only when another has written beside it.
FoundStands ==
    \A r \in mcpEdits : r.at = "checking" =>
        r.kind # "plain" /\ (Parsed(mcp) = r.found \/ Overtaken(r))

\* What has been seen of the paths of skills is there, unless a user took it away.
PathsStand ==
    /\ runtimeSyncs["asking"] + runtimeSyncs["absent"] + runtimeSyncs["present"]
          <= MaxSyncsAtOnce
    /\ ~outside /\ (synced \/ instance = "with" \/ runtimeSyncs["present"] > 0) => skillPaths

Managing == ManagedTypeOK /\ FoundStands /\ PathsStand

\* The values the writers put together are of their types.
LEMMA ManagedValues ==
    ASSUME ManagedTypeOK
    PROVE  /\ Effective(agents) \in [Agents -> Agent]
           /\ NoAgent \in Agent /\ NoServer \in Server /\ ExecutorEntry \in Server
           /\ NoServers \in [Servers -> Server]
           /\ edits < MaxManagedEdits => /\ edits + 1 \in 1 .. MaxManagedEdits
                                         /\ edits + 1 \in EditNumbers
                                         /\ edits + 1 \in 0 .. MaxManagedEdits
           /\ 1 .. MaxManagedEdits \subseteq EditNumbers
  <1>1. MaxManagedEdits \in Nat /\ edits \in 0 .. MaxManagedEdits
    BY ManagedAssumption DEF ManagedTypeOK
  <1>2. 0 \in EditNumbers /\ MaxManagedEdits + 1 \in EditNumbers
        /\ 1 .. MaxManagedEdits \subseteq EditNumbers
    BY <1>1 DEF EditNumbers
  <1>3. NoAgent \in Agent /\ NoServer \in Server /\ ExecutorEntry \in Server
    BY <1>2 DEF NoAgent, Agent, NoServer, Server, ExecutorEntry, Forms
  <1>4. \A a \in Agents : BuiltinAgent(a) \in Agent
    BY <1>2, <1>3 DEF BuiltinAgent, Agent
  <1>5. Effective(agents) \in [Agents -> Agent]
    BY <1>3, <1>4 DEF Effective, ManagedTypeOK
  <1> QED  BY <1>1, <1>2, <1>3, <1>5 DEF EditNumbers, NoServers

\* What is parsed of a list of servers is one too.
LEMMA ParsedValue ==
    ASSUME NEW map \in [Servers -> Server], NoServer \in Server
    PROVE  Parsed(map) \in [Servers -> Server]
  <1>1. \A e \in Server : [e EXCEPT !.form = "plain"] \in Server
    BY DEF Server, Forms
  <1> QED  BY <1>1 DEF Parsed

\* Servers asked for, and those a request writes.
LEMMA ServerValues ==
    ASSUME ManagedTypeOK
    PROVE  /\ \A kind \in {"servers", "enabled", "plain"}, nr \in 1 .. MaxManagedEdits :
                Asked(kind, nr) \subseteq [Servers -> Server]
           /\ Parsed(mcp) \in [Servers -> Server]
           /\ \A r \in McpEdit : /\ Wanted(r) \in [Servers -> Server]
                                 /\ r.kind = "enabled" =>
                                      \A s \in Servers : Wanted(r)[s].text = r.found[s].text
  <1>1. mcp \in [Servers -> Server] /\ NoServer \in Server /\ NoServer.text = 0
        /\ 1 .. MaxManagedEdits \subseteq EditNumbers
    BY ManagedValues DEF ManagedTypeOK, NoServer
  <1>2. \A e \in Server, b \in BOOLEAN : /\ [e EXCEPT !.on = b] \in Server
                                         /\ [e EXCEPT !.on = b].text = e.text
    BY DEF Server
  <1>0. Parsed(mcp) \in [Servers -> Server]
    BY <1>1, ParsedValue
  <1>3. ASSUME NEW kind \in {"servers", "enabled", "plain"}, NEW nr \in 1 .. MaxManagedEdits
        PROVE  Asked(kind, nr) \subseteq [Servers -> Server]
    <2> DEFINE new0 == [text |-> nr, on |-> TRUE, form |-> "plain"]
    <2>0. PICK shown \in [Servers -> Server] : shown = Parsed(mcp)
      BY <1>0
    <2>1. \A on \in SUBSET Servers : [s \in Servers |-> [shown[s] EXCEPT !.on = s \in on]]
                                        \in [Servers -> Server]
      <3> SUFFICES ASSUME NEW on \in SUBSET Servers, NEW s \in Servers
                   PROVE  [shown[s] EXCEPT !.on = s \in on] \in Server
        OBVIOUS
      <3>1. PICK b \in BOOLEAN : b = (s \in on)
        <4>1. (s \in on) \in BOOLEAN
          OBVIOUS
        <4> QED  BY <4>1, Zenon
      <3>2. shown[s] \in Server
        BY <2>0
      <3> QED  BY <1>2, <3>1, <3>2
    <2>2. new0 \in Server
      BY <1>1 DEF Server, Forms
    <2>3. \A s \in Servers, new \in Server : [shown EXCEPT ![s] = new] \in [Servers -> Server]
      BY <2>0
    <2>4. CASE kind = "enabled"
      <3>1. Asked(kind, nr) =
               {[s \in Servers |-> [shown[s] EXCEPT !.on = s \in on]] : on \in SUBSET Servers}
        BY <2>0, <2>4 DEF Asked
      <3> QED  BY <2>1, <3>1, Zenon
    <2>5. CASE kind # "enabled"
      <3>1. Asked(kind, nr) = {[shown EXCEPT ![s] = new] : s \in Servers, new \in {NoServer, new0}}
        BY <2>0, <2>5 DEF Asked
      <3> HIDE DEF new0
      <3>2. {NoServer, new0} \subseteq Server
        BY <1>1, <2>2
      <3>3. \A s \in Servers, new \in {NoServer, new0} :
               [shown EXCEPT ![s] = new] \in [Servers -> Server]
        BY <2>3, <3>2, Zenon
      <3>4. ASSUME NEW x \in Asked(kind, nr)
            PROVE  x \in [Servers -> Server]
        <4>1. PICK s \in Servers, new \in {NoServer, new0} : x = [shown EXCEPT ![s] = new]
          BY <3>1
        <4> QED  BY <3>3, <4>1
      <3> QED  BY <3>4
    <2> QED  BY <2>4, <2>5
  <1>4. ASSUME NEW r \in McpEdit
        PROVE  /\ Wanted(r) \in [Servers -> Server]
               /\ r.kind = "enabled" =>
                    \A s \in Servers : Wanted(r)[s].text = r.found[s].text
    <2>1. /\ r.servers \in [Servers -> Server] /\ r.found \in [Servers -> Server]
      BY DEF McpEdit
    <2>2. CASE r.kind # "enabled"
      BY <2>1, <2>2 DEF Wanted
    <2>3. CASE r.kind = "enabled"
      <3>1. Wanted(r) = [s \in Servers |-> IF r.found[s].text = 0 THEN NoServer
                            ELSE [r.found[s] EXCEPT !.on = r.servers[s].on]]
        BY <2>3 DEF Wanted
      <3>2. ASSUME NEW s \in Servers
            PROVE  /\ Wanted(r)[s] \in Server
                   /\ Wanted(r)[s].text = r.found[s].text
        <4>1. r.found[s] \in Server /\ r.servers[s].on \in BOOLEAN
          BY <2>1 DEF Server
        <4>2. CASE r.found[s].text = 0
          BY <1>1, <3>1, <4>2
        <4>3. CASE r.found[s].text # 0
          <5>1. Wanted(r)[s] = [r.found[s] EXCEPT !.on = r.servers[s].on]
            BY <3>1, <4>3
          <5> QED  BY <1>2, <4>1, <5>1
        <4> QED  BY <4>2, <4>3
      <3> QED  BY <3>1, <3>2
    <2> QED  BY <2>2, <2>3
  <1> QED  BY <1>0, <1>3, <1>4

LEMMA ManagingInit == ManagedInit => Managing
  <1> SUFFICES ASSUME ManagedInit PROVE Managing
    OBVIOUS
  <1>1. MaxManagedEdits \in Nat /\ MaxSyncsAtOnce \in Nat \ {0}
    BY ManagedAssumption
  <1>2. 0 \in EditNumbers /\ MaxManagedEdits + 1 \in EditNumbers /\ 0 \in 0 .. MaxManagedEdits
        /\ 0 \in 0 .. MaxSyncsAtOnce
    BY <1>1 DEF EditNumbers
  <1>3. NoAgent \in Agent /\ NoServer \in Server /\ ExecutorEntry \in Server
    BY <1>2 DEF NoAgent, Agent, NoServer, Server, ExecutorEntry, Forms
  <1>4. /\ runtimeSyncs \in [{"asking", "absent", "present"} -> 0 .. MaxSyncsAtOnce]
        /\ runtimeSyncs["asking"] = 0 /\ runtimeSyncs["absent"] = 0
        /\ runtimeSyncs["present"] = 0
    BY <1>2 DEF ManagedInit
  <1>5. /\ agents \in [Agents -> Agent] /\ mcp \in [Servers -> Server]
    BY <1>3 DEF ManagedInit
  <1>6. ManagedTypeOK
    BY <1>2, <1>4, <1>5 DEF ManagedInit, ManagedTypeOK
  <1>7. PathsStand
    BY <1>1, <1>4 DEF ManagedInit, PathsStand
  <1> QED  BY <1>6, <1>7 DEF ManagedInit, Managing, FoundStands

LEMMA AgentSteps ==
    ASSUME Managing, ~Checking,
           \/ \E upserts, deletes \in SUBSET Agents, disable \in BOOLEAN :
                 AsksForAgents(upserts, disable, deletes)
           \/ \E r \in agentEdits : PatchesAgents(r)
    PROVE  Managing'
  <1> USE DEF Managing
  <1>1. ASSUME UNCHANGED <<mcp, skillPaths, instance, mcpEdits, runtimeSyncs, synced, outside>>
        PROVE  FoundStands' /\ PathsStand'
    BY <1>1 DEF FoundStands, Overtaken, PathsStand
  <1>2. ASSUME NEW upserts \in SUBSET Agents, NEW deletes \in SUBSET Agents,
               NEW disable \in BOOLEAN, AsksForAgents(upserts, disable, deletes)
        PROVE  Managing'
    <2>1. PICK new : new = [nr |-> edits + 1, seen |-> Effective(agents),
                            upserts |-> upserts, disable |-> disable, deletes |-> deletes]
      OBVIOUS
    <2>2. edits < MaxManagedEdits
      BY <1>2 DEF AsksForAgents, Numbered
    <2>3. new \in AgentEdit
      BY <2>1, <2>2, ManagedValues DEF AgentEdit
    <2>4. agentEdits' = agentEdits \cup {new}
      BY <1>2, <2>1 DEF AsksForAgents
    <2>5. UNCHANGED <<managedFile, instance, mcpEdits, runtimeSyncs, synced, outside>>
          /\ edits' = edits + 1 /\ refused' = FALSE
      BY <1>2 DEF AsksForAgents, Numbered
    <2>6. ManagedTypeOK'
      BY <2>2, <2>3, <2>4, <2>5, ManagedValues DEF ManagedTypeOK, managedFile
    <2> QED  BY <1>1, <2>5, <2>6 DEF managedFile
  <1>3. ASSUME NEW r \in agentEdits, PatchesAgents(r)
        PROVE  Managing'
    <2>1. r \in AgentEdit
      BY DEF ManagedTypeOK
    <2>2. UNCHANGED <<mcp, skillPaths, instance, mcpEdits, runtimeSyncs, synced, edits, outside>>
          /\ refused' \in BOOLEAN /\ markdown' \subseteq Agents
      BY <1>3 DEF PatchesAgents, RefusesPatch, ManagedTypeOK
    <2>4. agentEdits' \subseteq AgentEdit
      BY <1>3 DEF PatchesAgents, RefusesPatch, ManagedTypeOK
    <2>5. Merged(r) \in [Agents -> Agent]
      <3>1. r.nr \in EditNumbers /\ r.disable \in BOOLEAN /\ NoAgent \in Agent
        BY <2>1, ManagedValues DEF AgentEdit
      <3>2. [text |-> r.nr, disabled |-> r.disable] \in Agent
        BY <3>1 DEF Agent
      <3> QED  BY <3>1, <3>2 DEF Merged, ManagedTypeOK
    <2>6. agents' \in [Agents -> Agent]
      BY <1>3, <2>5 DEF PatchesAgents, RefusesPatch, ManagedTypeOK
    <2>7. ManagedTypeOK'
      BY <2>2, <2>4, <2>6 DEF ManagedTypeOK
    <2> QED  BY <1>1, <2>2, <2>7
  <1> QED  BY <1>2, <1>3

LEMMA ServerSteps ==
    ASSUME Managing,
           \/ \E r \in mcpEdits : FindsServers(r) \/ WritesServers(r)
           \/ /\ ~Checking
              /\ \/ \E kind \in {"servers", "enabled", "plain"}, hashed \in BOOLEAN :
                    AsksForServers(kind, hashed)
                 \/ \E r \in mcpEdits : ServersTold(r)
                 \/ ReconcilesExecutor
    PROVE  Managing'
  <1> USE DEF Managing
  <1>0. ASSUME UNCHANGED <<runtimeSyncs, synced, outside, skillPaths>>,
               instance' \in {instance, "unloaded"}
        PROVE  PathsStand'
    BY <1>0 DEF PathsStand
  <1>1. ASSUME NEW r \in mcpEdits, FindsServers(r)
        PROVE  Managing'
    <2>1. r \in McpEdit /\ Parsed(mcp) \in [Servers -> Server] /\ NoServers \in [Servers -> Server]
      BY ServerValues, ManagedValues DEF ManagedTypeOK
    <2>2. PICK found \in {Parsed(mcp), NoServers} :
            mcpEdits' = (mcpEdits \ {r}) \cup {[r EXCEPT !.at = "checking", !.found = found]}
      BY <1>1 DEF FindsServers
    <2>3. PICK new : new = [r EXCEPT !.at = "checking", !.found = found]
      OBVIOUS
    <2>4. new \in McpEdit /\ new.kind = r.kind /\ new.found = found
      BY <2>1, <2>2, <2>3 DEF McpEdit
    <2>5. mcpEdits' = (mcpEdits \ {r}) \cup {new} /\ r.at = "asking" /\ r.kind # "plain"
          /\ refused' = FALSE
          /\ UNCHANGED <<managedFile, instance, agentEdits, runtimeSyncs, synced, edits, outside>>
      BY <1>1, <2>2, <2>3 DEF FindsServers
    <2>6. ManagedTypeOK'
      BY <2>4, <2>5 DEF ManagedTypeOK, managedFile
    <2>7. Parsed(mcp)' = Parsed(mcp)
      BY <2>5 DEF Parsed, managedFile
    <2>8. FoundStands'
      BY <2>2, <2>4, <2>5, <2>7 DEF FoundStands, Overtaken
    <2> QED  BY <1>0, <2>5, <2>6, <2>8 DEF managedFile
  <1>2. ASSUME NEW r \in mcpEdits, WritesServers(r)
        PROVE  Managing'
    <2>1. r \in McpEdit
      BY DEF ManagedTypeOK
    <2>2. r.at \in {"asking", "checking"} /\ refused' \in BOOLEAN
          /\ UNCHANGED <<agents, markdown, skillPaths, instance, agentEdits, runtimeSyncs,
                         synced, edits, outside>>
      BY <1>2 DEF WritesServers
    <2>3. CASE /\ mcp' = Wanted(r)
               /\ mcpEdits' = (mcpEdits \ {r}) \cup {[r EXCEPT !.at = "telling"]}
      <3>1. PICK new : new = [r EXCEPT !.at = "telling"]
        OBVIOUS
      <3>2. new \in McpEdit /\ new.at = "telling"
        BY <2>1, <3>1 DEF McpEdit
      <3>3. ManagedTypeOK'
        BY <2>1, <2>2, <2>3, <3>1, <3>2, ServerValues DEF ManagedTypeOK
      <3>4. FoundStands'
        BY <2>3, <3>1, <3>2 DEF FoundStands, Overtaken
      <3> QED  BY <1>0, <2>2, <3>3, <3>4
    <2>4. CASE mcpEdits' = mcpEdits \ {r} /\ UNCHANGED mcp
      <3>1. Parsed(mcp)' = Parsed(mcp)
        BY <2>4 DEF Parsed
      <3> QED  BY <1>0, <2>2, <2>4, <3>1 DEF ManagedTypeOK, FoundStands, Overtaken
    <2> QED  BY <1>2, <2>3, <2>4 DEF WritesServers
  <1>3. ASSUME NEW kind \in {"servers", "enabled", "plain"}, NEW hashed \in BOOLEAN,
               AsksForServers(kind, hashed), ~Checking
        PROVE  Managing'
    <2>1. edits < MaxManagedEdits /\ edits' = edits + 1 /\ refused' = FALSE
          /\ UNCHANGED <<managedFile, instance, agentEdits, runtimeSyncs, synced, outside>>
      BY <1>3 DEF AsksForServers, Numbered
    <2>2. PICK wanted \in [Servers -> Server] :
            mcpEdits' = mcpEdits \cup
                {[nr |-> edits + 1, kind |-> kind, hashed |-> hashed, at |-> "asking",
                  seen |-> Parsed(mcp), found |-> NoServers, servers |-> wanted]}
      <3>1. edits + 1 \in 1 .. MaxManagedEdits
        BY <2>1, ManagedValues
      <3>2. Asked(kind, edits + 1) \subseteq [Servers -> Server]
        BY <3>1, ServerValues
      <3> QED  BY <1>3, <3>2, Zenon DEF AsksForServers
    <2>3. PICK new : new = [nr |-> edits + 1, kind |-> kind, hashed |-> hashed, at |-> "asking",
                            seen |-> Parsed(mcp), found |-> NoServers, servers |-> wanted]
      OBVIOUS
    <2>4. new \in McpEdit /\ new.at = "asking"
      BY <2>1, <2>3, ManagedValues, ServerValues DEF McpEdit
    <2>5. ManagedTypeOK'
      BY <2>1, <2>2, <2>3, <2>4, ManagedValues DEF ManagedTypeOK, managedFile
    <2>6. FoundStands'
      BY <1>3, <2>1, <2>2, <2>3, <2>4 DEF FoundStands, Checking, managedFile
    <2> QED  BY <1>0, <2>1, <2>5, <2>6 DEF managedFile
  <1>4. ASSUME NEW r \in mcpEdits, ServersTold(r), ~Checking
        PROVE  Managing'
    <2>1. mcpEdits' \subseteq mcpEdits /\ instance' \in {"unloaded", instance} /\ refused' = FALSE
          /\ UNCHANGED <<managedFile, agentEdits, runtimeSyncs, synced, edits, outside>>
      BY <1>4 DEF ServersTold, Tells
    <2>2. ManagedTypeOK'
      BY <2>1 DEF ManagedTypeOK, managedFile
    <2>3. FoundStands'
      BY <1>4, <2>1 DEF FoundStands, Checking
    <2> QED  BY <1>0, <2>1, <2>2, <2>3 DEF managedFile
  <1>5. ASSUME ReconcilesExecutor, ~Checking
        PROVE  Managing'
    <2>1. /\ UNCHANGED <<agents, markdown, skillPaths, agentEdits, mcpEdits, runtimeSyncs,
                         synced, edits, outside>>
          /\ instance' \in {"unloaded", instance} /\ refused' = FALSE
          /\ mcp' = [mcp EXCEPT ![Executor] = ExecutorEntry]
      BY <1>5 DEF ReconcilesExecutor, Tells
    <2>2. mcp' \in [Servers -> Server]
      BY <2>1, ManagedValues DEF ManagedTypeOK
    <2>3. ManagedTypeOK'
      BY <2>1, <2>2 DEF ManagedTypeOK
    <2>4. FoundStands'
      BY <1>5, <2>1 DEF FoundStands, Checking
    <2> QED  BY <1>0, <2>1, <2>3, <2>4
  <1> QED  BY <1>1, <1>2, <1>3, <1>4, <1>5

LEMMA PathSteps ==
    ASSUME Managing, ~Checking,
           \/ StartsSync \/ SyncAnswered \/ SyncGivesUp
           \/ \E found \in {"absent", "present"} : SyncApplies(found)
           \/ InstanceLoads
           \/ UserEditsManaged
    PROVE  Managing'
  <1> USE DEF Managing
  <1>0. PICK n \in Nat, a \in Nat, b \in Nat, c \in Nat :
           n = MaxSyncsAtOnce /\ a = runtimeSyncs["asking"] /\ b = runtimeSyncs["absent"]
           /\ c = runtimeSyncs["present"] /\ a + b + c <= n
    BY ManagedAssumption DEF ManagedTypeOK, PathsStand
  <1>1. ASSUME mcpEdits' = mcpEdits
        PROVE  FoundStands'
    BY <1>1 DEF FoundStands, Checking
  <1>2. \A f \in [{"asking", "absent", "present"} -> Int] :
           f["asking"] \in 0 .. n /\ f["absent"] \in 0 .. n /\ f["present"] \in 0 .. n =>
              f \in [{"asking", "absent", "present"} -> 0 .. MaxSyncsAtOnce]
    BY <1>0
  <1>3. CASE StartsSync
    <2>1. /\ UNCHANGED <<managedFile, instance, agentEdits, mcpEdits, synced, edits, outside>>
          /\ refused' = FALSE /\ runtimeSyncs' = [runtimeSyncs EXCEPT !["asking"] = @ + 1]
          /\ a + b + c < n
      BY <1>0, <1>3 DEF StartsSync
    <2>2. /\ runtimeSyncs' \in [{"asking", "absent", "present"} -> Int]
          /\ runtimeSyncs'["asking"] = a + 1 /\ runtimeSyncs'["absent"] = b
          /\ runtimeSyncs'["present"] = c
      BY <1>0, <2>1 DEF ManagedTypeOK
    <2>3. runtimeSyncs' \in [{"asking", "absent", "present"} -> 0 .. MaxSyncsAtOnce]
      BY <1>0, <1>2, <2>1, <2>2
    <2>4. ManagedTypeOK'
      BY <2>1, <2>3 DEF ManagedTypeOK, managedFile
    <2>5. PathsStand'
      BY <1>0, <2>1, <2>2 DEF PathsStand, managedFile
    <2> QED  BY <1>1, <2>1, <2>4, <2>5
  <1>4. CASE SyncAnswered
    <2>1. PICK found \in {"present", "absent"} :
            /\ found = IF instance = "with" THEN "present" ELSE "absent"
            /\ runtimeSyncs' = [runtimeSyncs EXCEPT !["asking"] = @ - 1, ![found] = @ + 1]
      BY <1>4 DEF SyncAnswered
    <2>2. /\ UNCHANGED <<managedFile, instance, agentEdits, mcpEdits, synced, edits, outside>>
          /\ refused' = FALSE /\ a > 0
      BY <1>0, <1>4 DEF SyncAnswered
    <2>3. /\ runtimeSyncs' \in [{"asking", "absent", "present"} -> Int]
          /\ runtimeSyncs'["asking"] = a - 1
          /\ runtimeSyncs'["absent"] = IF found = "absent" THEN b + 1 ELSE b
          /\ runtimeSyncs'["present"] = IF found = "present" THEN c + 1 ELSE c
      BY <1>0, <2>1 DEF ManagedTypeOK
    <2>4. runtimeSyncs' \in [{"asking", "absent", "present"} -> 0 .. MaxSyncsAtOnce]
      BY <1>0, <1>2, <2>2, <2>3
    <2>5. ManagedTypeOK'
      BY <2>2, <2>4 DEF ManagedTypeOK, managedFile
    <2>6. PathsStand'
      BY <1>0, <2>1, <2>2, <2>3 DEF PathsStand, managedFile
    <2> QED  BY <1>1, <2>2, <2>5, <2>6
  <1>5. CASE SyncGivesUp
    <2>1. /\ UNCHANGED <<managedFile, instance, agentEdits, mcpEdits, synced, edits, outside>>
          /\ refused' = FALSE /\ runtimeSyncs' = [runtimeSyncs EXCEPT !["asking"] = @ - 1]
          /\ a > 0
      BY <1>0, <1>5 DEF SyncGivesUp
    <2>2. /\ runtimeSyncs' \in [{"asking", "absent", "present"} -> Int]
          /\ runtimeSyncs'["asking"] = a - 1 /\ runtimeSyncs'["absent"] = b
          /\ runtimeSyncs'["present"] = c
      BY <1>0, <2>1 DEF ManagedTypeOK
    <2>3. runtimeSyncs' \in [{"asking", "absent", "present"} -> 0 .. MaxSyncsAtOnce]
      BY <1>0, <1>2, <2>1, <2>2
    <2>4. ManagedTypeOK'
      BY <2>1, <2>3 DEF ManagedTypeOK, managedFile
    <2>5. PathsStand'
      BY <1>0, <2>1, <2>2 DEF PathsStand, managedFile
    <2> QED  BY <1>1, <2>1, <2>4, <2>5
  <1>6. ASSUME NEW found \in {"absent", "present"}, SyncApplies(found)
        PROVE  Managing'
    <2>1. /\ UNCHANGED <<agents, markdown, mcp, agentEdits, mcpEdits, edits, outside>>
          /\ refused' = FALSE /\ synced' = TRUE
          /\ runtimeSyncs' = [runtimeSyncs EXCEPT ![found] = @ - 1] /\ runtimeSyncs[found] > 0
          /\ instance' \in {"unloaded", instance} /\ skillPaths' \in BOOLEAN
      BY <1>6 DEF SyncApplies, Tells, ManagedTypeOK
    <2>2. ~outside => skillPaths'
      BY <1>0, <1>6, <2>1 DEF SyncApplies, PathsStand
    <2>3. /\ runtimeSyncs' \in [{"asking", "absent", "present"} -> Int]
          /\ runtimeSyncs'["asking"] = a
          /\ runtimeSyncs'["absent"] = IF found = "absent" THEN b - 1 ELSE b
          /\ runtimeSyncs'["present"] = IF found = "present" THEN c - 1 ELSE c
          /\ found = "absent" => b > 0
          /\ found = "present" => c > 0
      BY <1>0, <2>1 DEF ManagedTypeOK
    <2>4. runtimeSyncs' \in [{"asking", "absent", "present"} -> 0 .. MaxSyncsAtOnce]
      BY <1>0, <1>2, <2>3
    <2>5. ManagedTypeOK'
      BY <2>1, <2>4 DEF ManagedTypeOK
    <2>6. PathsStand'
      BY <1>0, <2>1, <2>2, <2>3 DEF PathsStand
    <2> QED  BY <1>1, <2>1, <2>5, <2>6
  <1>7. CASE InstanceLoads
    <2>1. /\ UNCHANGED <<managedFile, agentEdits, mcpEdits, runtimeSyncs, synced, edits, outside>>
          /\ refused' = FALSE /\ instance' \in {"unloaded", "with", "without"}
          /\ instance' = "with" => skillPaths
      BY <1>7 DEF InstanceLoads
    <2>2. ManagedTypeOK'
      BY <2>1 DEF ManagedTypeOK, managedFile
    <2>3. PathsStand'
      BY <2>1 DEF PathsStand, managedFile
    <2> QED  BY <1>1, <2>1, <2>2, <2>3
  <1>8. CASE UserEditsManaged
    <2>1. /\ UNCHANGED <<instance, agentEdits, mcpEdits, runtimeSyncs, synced>>
          /\ refused' = FALSE /\ outside' = TRUE /\ edits < MaxManagedEdits
          /\ edits' = edits + 1
      BY <1>8 DEF UserEditsManaged, Numbered
    <2>2. edits + 1 \in EditNumbers /\ edits' \in 0 .. MaxManagedEdits
      BY <2>1, ManagedValues
    <2>3. /\ [text |-> edits + 1, disabled |-> FALSE] \in Agent
          /\ \A form \in Forms : [text |-> edits + 1, on |-> FALSE, form |-> form] \in Server
      BY <2>2 DEF Agent, Server
    <2>4. /\ agents' \in [Agents -> Agent] /\ mcp' \in [Servers -> Server]
          /\ markdown' \subseteq Agents /\ skillPaths' \in BOOLEAN
      BY <1>8, <2>3 DEF UserEditsManaged, ManagedTypeOK
    <2>5. ManagedTypeOK'
      BY <2>1, <2>2, <2>4 DEF ManagedTypeOK
    <2>6. PathsStand'
      BY <2>1 DEF PathsStand
    <2> QED  BY <1>1, <2>1, <2>5, <2>6
  <1> QED  BY <1>3, <1>4, <1>5, <1>6, <1>7, <1>8

LEMMA ManagingStep == Managing /\ [ManagedNext]_managedVars => Managing'
  <1> SUFFICES ASSUME Managing, [ManagedNext]_managedVars PROVE Managing'
    OBVIOUS
  <1>1. CASE UNCHANGED managedVars
    BY <1>1 DEF managedVars, Managing, ManagedTypeOK, FoundStands, Overtaken, Parsed, PathsStand
  <1>2. CASE ManagedNext
    BY <1>2, AgentSteps, ServerSteps, PathSteps DEF ManagedNext
  <1> QED  BY <1>1, <1>2

\* A change of agents that is accepted leaves what its client saw with its changes.
LEMMA ChangesMade ==
    ASSUME ManagedTypeOK, NEW r \in AgentEdit,
           Effective(agents) = r.seen, agents' = Merged(r)
    PROVE  Effective(agents') = WithChanges(r)
  <1>1. \A a \in Agents : Effective(agents')[a] = WithChanges(r)[a]
    <2> SUFFICES ASSUME NEW a \in Agents PROVE Effective(agents')[a] = WithChanges(r)[a]
      OBVIOUS
    <2>1. Effective(agents')[a] = IF agents'[a].disabled THEN NoAgent
                                  ELSE IF agents'[a].text = 0 THEN BuiltinAgent(a) ELSE agents'[a]
      BY DEF Effective
    <2>2. r.seen[a] = IF agents[a].disabled THEN NoAgent
                      ELSE IF agents[a].text = 0 THEN BuiltinAgent(a) ELSE agents[a]
      BY DEF Effective
    <2>3. agents'[a] = IF a \in r.upserts THEN [text |-> r.nr, disabled |-> r.disable]
                       ELSE IF a \in r.deletes THEN NoAgent ELSE agents[a]
      BY DEF Merged
    <2>4. r.nr \in Nat /\ r.nr # 0 /\ r.disable \in BOOLEAN
      BY ManagedAssumption DEF AgentEdit
    <2>5. WithChanges(r)[a] = IF a \notin r.upserts
                              THEN IF a \in r.deletes THEN BuiltinAgent(a) ELSE r.seen[a]
                              ELSE IF r.disable THEN NoAgent
                              ELSE [text |-> r.nr, disabled |-> FALSE]
      BY DEF WithChanges
    <2>6. CASE a \in r.upserts
      <3>1. agents'[a] = [text |-> r.nr, disabled |-> r.disable]
        BY <2>3, <2>6
      <3>2. CASE r.disable
        BY <2>1, <2>5, <2>6, <3>1, <3>2
      <3>3. CASE ~r.disable
        <4>1. r.disable = FALSE
          BY <2>4, <3>3, Zenon
        <4>2. agents'[a] = [text |-> r.nr, disabled |-> FALSE]
          BY <3>1, <4>1, Zenon
        <4>3. ~agents'[a].disabled /\ agents'[a].text # 0
          BY <2>4, <4>2
        <4> QED  BY <2>1, <2>5, <2>6, <3>3, <4>2, <4>3
      <3> QED  BY <3>2, <3>3
    <2>7. CASE a \notin r.upserts
      BY <2>1, <2>2, <2>3, <2>5, <2>7 DEF NoAgent
    <2> QED  BY <2>6, <2>7
  <1> QED  BY <1>1 DEF Effective, WithChanges

\* No writer of OpenCode's configuration undoes what another has done meanwhile, where
\* its hash, or the moment between its look at the file and its write, can tell.
THEOREM OthersAreKept == ManagedSpec => WritersKeepOthers
  <1> DEFINE AgentsKept ==
        \A r \in agentEdits \ agentEdits' :
            IF refused'
            THEN /\ markdown \ r.deletes \subseteq markdown'
                 /\ Effective(agents) # r.seen => markdown' = markdown
            ELSE /\ Effective(agents') = WithChanges(r)
                 /\ r.deletes \cap markdown' = {}
      ServersKept ==
        \A r \in mcpEdits \ mcpEdits' :
            r.at = "checking" /\ ~refused' /\ ~Overtaken(r) =>
                /\ r.hashed => Parsed(mcp) = r.seen
                /\ r.kind = "enabled" => \A s \in Servers : mcp'[s].text = Parsed(mcp)[s].text
      Kept ==
        /\ ManagedTypeOK'
        /\ refused' => agents' = agents /\ mcp' = mcp
        /\ Undeletable \cap markdown \subseteq markdown'
        /\ AgentsKept
        /\ ServersKept
        /\ synced' /\ ~outside' => skillPaths'
  <1>1. Managing /\ [ManagedNext]_managedVars => [Kept]_managedVars
    <2> SUFFICES ASSUME Managing, ManagedNext, Managing' PROVE Kept
      BY ManagingStep
    <2>1. \/ \E r \in agentEdits : PatchesAgents(r)
          \/ \E r \in mcpEdits : WritesServers(r) /\ markdown' = markdown /\ agentEdits' = agentEdits
          \/ /\ refused' = FALSE /\ markdown \subseteq markdown'
             /\ agentEdits \subseteq agentEdits'
             /\ \A r \in mcpEdits \ mcpEdits' : r.at # "checking"
      <3>1. ASSUME NEW r, FindsServers(r) \/ ServersTold(r)
            PROVE  /\ refused' = FALSE /\ UNCHANGED <<markdown, agentEdits>>
                   /\ \A q \in mcpEdits \ mcpEdits' : q.at # "checking"
        BY <3>1 DEF FindsServers, ServersTold, managedFile
      <3>2. ASSUME NEW x, NEW y, NEW z,
                   AsksForAgents(x, y, z) \/ AsksForServers(x, y) \/ SyncApplies(x)
            PROVE  /\ refused' = FALSE /\ UNCHANGED markdown
                   /\ agentEdits \subseteq agentEdits' /\ mcpEdits \subseteq mcpEdits'
        BY <3>2 DEF AsksForAgents, AsksForServers, SyncApplies, managedFile
      <3>3. ASSUME ReconcilesExecutor \/ StartsSync \/ SyncAnswered \/ SyncGivesUp
                   \/ InstanceLoads \/ UserEditsManaged
            PROVE  /\ refused' = FALSE /\ markdown \subseteq markdown'
                   /\ UNCHANGED <<agentEdits, mcpEdits>>
        BY <3>3 DEF ReconcilesExecutor, StartsSync, SyncAnswered, SyncGivesUp, InstanceLoads,
                    UserEditsManaged, managedFile
      <3>4. ASSUME NEW r, WritesServers(r) PROVE UNCHANGED <<markdown, agentEdits>>
        BY <3>4 DEF WritesServers
      <3> QED  BY <3>1, <3>2, <3>3, <3>4 DEF ManagedNext
    <2>2. CASE \E r \in agentEdits : PatchesAgents(r)
      <3>1. PICK r \in agentEdits : PatchesAgents(r)
        BY <2>2
      <3>2. r \in AgentEdit /\ ManagedTypeOK /\ r.deletes \subseteq Agents
        BY DEF Managing, ManagedTypeOK, AgentEdit
      <3>3. mcpEdits' = mcpEdits /\ mcp' = mcp /\ agentEdits' = agentEdits \ {r}
        BY <3>1 DEF PatchesAgents, RefusesPatch
      <3>4. Removable(r) \subseteq r.deletes /\ Removable(r) \cap Undeletable = {}
        <4>1. \A a \in Agents : ~(a < a)
          BY ManagedAssumption
        <4>2. ASSUME NEW a \in Removable(r) PROVE a \in r.deletes /\ a \notin Undeletable
          BY <3>2, <4>1 DEF Removable
        <4> QED  BY <4>2
      <3>5. CASE refused' = TRUE
        <4>1. agents' = agents /\ markdown \ Removable(r) \subseteq markdown'
              /\ (Effective(agents) # r.seen => markdown' = markdown)
          BY <3>1, <3>5 DEF PatchesAgents, RefusesPatch, Unchanged
        <4> QED  BY <3>3, <3>4, <3>5, <4>1 DEF Managing, PathsStand
      <3>6. CASE refused' = FALSE
        <4>1. /\ Effective(agents) = r.seen /\ agents' = Merged(r)
              /\ r.deletes \cap Undeletable = {} /\ markdown' = markdown \ r.deletes
          BY <3>1, <3>6 DEF PatchesAgents, RefusesPatch, Unchanged
        <4>2. Effective(agents') = WithChanges(r)
          BY <3>2, <4>1, ChangesMade
        <4> QED  BY <3>3, <3>6, <4>1, <4>2 DEF Managing, PathsStand
      <3> QED  BY <3>1, <3>5, <3>6 DEF PatchesAgents, RefusesPatch
    <2>3. CASE \E r \in mcpEdits : /\ WritesServers(r) /\ markdown' = markdown
                                   /\ agentEdits' = agentEdits
      <3>1. PICK r \in mcpEdits : /\ WritesServers(r) /\ markdown' = markdown
                                  /\ agentEdits' = agentEdits
        BY <2>3
      <3>2. refused' => agents' = agents /\ mcp' = mcp
        BY <3>1 DEF WritesServers
      <3>3. ASSUME NEW q \in mcpEdits \ mcpEdits', q.at = "checking", ~refused', ~Overtaken(q)
            PROVE  /\ q.hashed => Parsed(mcp) = q.seen
                   /\ q.kind = "enabled" => \A s \in Servers : mcp'[s].text = Parsed(mcp)[s].text
        <4>1. q = r
          BY <3>1, <3>3 DEF WritesServers
        <4>2. r.kind # "plain" /\ Parsed(mcp) = r.found
          BY <3>3, <4>1 DEF Managing, FoundStands
        <4>3. ServerHashMatches(r) /\ mcp' = Wanted(r)
          BY <3>1, <3>3 DEF WritesServers
        <4>4. r \in McpEdit /\ ManagedTypeOK
          BY DEF Managing, ManagedTypeOK
        <4> QED  BY <4>1, <4>2, <4>3, <4>4, ServerValues DEF ServerHashMatches
      <3>4. ServersKept
        BY <3>3
      <3> QED  BY <3>1, <3>2, <3>4 DEF Managing, PathsStand
    <2>4. CASE /\ refused' = FALSE /\ markdown \subseteq markdown'
               /\ agentEdits \subseteq agentEdits'
               /\ \A r \in mcpEdits \ mcpEdits' : r.at # "checking"
      BY <2>4 DEF Managing, PathsStand
    <2> QED  BY <2>1, <2>2, <2>3, <2>4
  <1> QED  BY <1>1, ManagingInit, ManagingStep, PTL DEF ManagedSpec, WritersKeepOthers

-------------------------------------------------------------------------------
(* Heartbeat.                                                              *)

\* The row knows when the last heartbeat was over, and says that one runs while none
\* does only when one was cut short.
Beating ==
    /\ HeartbeatTypeOK
    /\ heartbeatState.lastRunAt \in (0 .. MaxNow) \cup {Never}
    /\ heartbeatState.lastRunAt = lastEnd
    /\ heartbeatState.running /\ beat.at = "none" => cut

LEMMA BeatingInit == HeartbeatInit => Beating
  <1> SUFFICES ASSUME HeartbeatInit PROVE Beating
    OBVIOUS
  <1>1. Never \in Nat
    BY HeartbeatAssumption DEF Never
  <1>2. NoHeartbeatRow \in HeartbeatRow /\ NoBeat \in Beat
    BY <1>1 DEF NoHeartbeatRow, HeartbeatRow, NoBeat, Beat
  <1>3. NoHeartbeatRow.lastRunAt = Never /\ ~NoHeartbeatRow.running
    BY DEF NoHeartbeatRow
  <1>4. /\ 0 \in 0 .. MaxNow /\ 0 \in 0 .. MaxSpawned /\ 0 \in 0 .. MaxStarts
        /\ Never \in 0 .. Never
    BY HeartbeatAssumption, <1>1
  <1>5. HeartbeatTypeOK
    BY <1>2, <1>4 DEF HeartbeatInit, HeartbeatTypeOK
  <1> QED
    BY <1>3, <1>5 DEF HeartbeatInit, Beating

LEMMA BeatingStep == Beating /\ [HeartbeatNext]_heartbeatVars => Beating'
  <1> SUFFICES ASSUME Beating, [HeartbeatNext]_heartbeatVars PROVE Beating'
    OBVIOUS
  <1> USE HeartbeatAssumption DEF Beating, HeartbeatTypeOK
  <1>1. /\ Never \in Nat /\ 0 \in Sessions \cup {0}
        /\ NoHeartbeatRow \in HeartbeatRow /\ NoBeat \in Beat
    BY DEF Never, NoHeartbeatRow, HeartbeatRow, NoBeat, Beat
  <1>2. spawned < MaxSpawned => /\ spawned + 1 \in Sessions /\ spawned + 1 \in 0 .. MaxSpawned
    BY DEF Sessions
  <1>3. CASE UNCHANGED heartbeatVars
    BY <1>3 DEF heartbeatVars
  <1>4. CASE StartsHeartbeats
    BY <1>4 DEF StartsHeartbeats
  <1>5. CASE StartSpawned
    <2>1. CASE UNCHANGED <<heartbeatState, alive, spawned>>
      BY <1>5, <2>1 DEF StartSpawned
    <2>2. CASE /\ spawned < MaxSpawned /\ spawned' = spawned + 1
               /\ alive' = alive \cup {spawned + 1}
               /\ heartbeatState' = Spawns(heartbeatState)
      BY <1>2, <1>5, <2>2 DEF StartSpawned, Spawns, HeartbeatRow
    <2> QED  BY <1>5, <2>1, <2>2 DEF StartSpawned
  <1>6. ASSUME NEW manual \in BOOLEAN, Beats(manual),
               UNCHANGED <<enabled, alive, ensuring, now, spawned, starts, lastEnd, cut>>
        PROVE  Beating'
    <2>1. /\ heartbeatState' \in HeartbeatRow
          /\ heartbeatState'.lastRunAt = heartbeatState.lastRunAt
      BY <1>6 DEF Beats, HeartbeatRow
    <2>2. beat' \in Beat /\ beat'.at # "none"
      BY <1>6 DEF Beats, Beat, HeartbeatRow
    <2> QED  BY <1>6, <2>1, <2>2
  <1>7. CASE BeatSpawned
    <2>1. /\ heartbeatState' \in HeartbeatRow
          /\ heartbeatState'.lastRunAt = heartbeatState.lastRunAt
      BY <1>2, <1>7 DEF BeatSpawned, Spawns, HeartbeatRow
    <2>2. beat' \in Beat /\ beat'.at # "none"
      BY <1>2, <1>7 DEF BeatSpawned, Beat
    <2> QED  BY <1>2, <1>7, <2>1, <2>2 DEF BeatSpawned
  <1>8. ASSUME NEW result \in {"skipped", "answered", "error"}, BeatEnds(result)
        PROVE  Beating'
    <2>1. now \in 0 .. Never
      BY DEF Never
    <2>2. PICK s \in Sessions \cup {0} :
            s = IF beat.at = "sending" THEN beat.session ELSE beat.before
      BY DEF Beat
    <2>3. heartbeatState' = [heartbeatState EXCEPT !.session = s, !.running = FALSE,
                                    !.lastRunAt = now, !.lastResult = result]
      BY <1>8, <2>2 DEF BeatEnds
    <2>4. /\ heartbeatState' \in HeartbeatRow /\ heartbeatState'.lastRunAt = now
          /\ ~heartbeatState'.running
      BY <2>1, <2>3 DEF HeartbeatRow
    <2> QED  BY <1>1, <1>8, <2>1, <2>4 DEF BeatEnds
  <1>9. CASE TimePasses
    BY <1>9 DEF TimePasses
  <1>10. CASE ChangesSettings
    BY <1>10 DEF ChangesSettings
  <1>11. CASE ResetsDatabase
    BY <1>1, <1>11 DEF ResetsDatabase, NoHeartbeatRow
  <1>12. CASE HeartbeatCrash
    BY <1>1, <1>12 DEF HeartbeatCrash, NoBeat
  <1> QED
    BY <1>3, <1>4, <1>5, <1>6, <1>7, <1>8, <1>9, <1>10, <1>11, <1>12
       DEF HeartbeatNext, HeartbeatTicks, RunsNow

\* The timer starts no heartbeat before the interval has passed since the last one was
\* over, unless that one was cut short or the row is lost.
THEOREM HeartbeatsPaced == HeartbeatSpec => HeartbeatsKeepPace
  <1> DEFINE Paced ==
        /\ HeartbeatTypeOK'
        /\ beat.at = "none" /\ beat'.at # "none" /\ ~beat'.manual =>
             cut \/ lastEnd = Never \/ now >= lastEnd + Interval
        /\ heartbeatState.running /\ beat.at = "none" => cut /\ Due
  <1>1. Beating /\ [HeartbeatNext]_heartbeatVars => [Paced]_heartbeatVars
    <2> SUFFICES ASSUME Beating, HeartbeatNext, Beating' PROVE Paced
      BY BeatingStep
    <2>1. heartbeatState.running => Due
      BY DEF Due, DueAt
    <2>2. ASSUME beat.at = "none", beat'.at # "none", ~beat'.manual
          PROVE  HeartbeatTicks
      <3>1. ~StartsHeartbeats /\ ~StartSpawned /\ ~BeatSpawned /\ ~TimePasses
            /\ ~ChangesSettings /\ ~ResetsDatabase /\ ~HeartbeatCrash
        BY <2>2 DEF StartsHeartbeats, StartSpawned, BeatSpawned, TimePasses, ChangesSettings,
                    ResetsDatabase, HeartbeatCrash, NoBeat
      <3>2. ~RunsNow
        BY <2>2 DEF RunsNow, Beats
      <3>3. \A result : ~BeatEnds(result)
        BY <2>2 DEF BeatEnds
      <3> QED  BY <3>1, <3>2, <3>3 DEF HeartbeatNext
    <2>3. ASSUME HeartbeatTicks, ~cut, lastEnd # Never
          PROVE  now >= lastEnd + Interval
      <3>1. ~heartbeatState.running
        BY <2>3 DEF HeartbeatTicks, Beating
      <3>2. DueAt(heartbeatState) = lastEnd + Interval
        BY <2>3, <3>1 DEF DueAt, Beating
      <3>3. lastEnd \in 0 .. MaxNow
        BY <2>3 DEF Beating
      <3>4. now \in Nat /\ MaxNow \in Nat /\ Interval \in Nat
        BY HeartbeatAssumption DEF Beating, HeartbeatTypeOK
      <3> QED  BY <2>3, <3>2, <3>3, <3>4 DEF HeartbeatTicks, Due, Never
    <2> QED  BY <2>1, <2>2, <2>3 DEF Beating
  <1> QED  BY <1>1, BeatingInit, BeatingStep, PTL DEF HeartbeatSpec, HeartbeatsKeepPace

-------------------------------------------------------------------------------
(* The import of an OpenClaw workspace.                                    *)

Tree == [SourceFiles -> Nat]
Import == [at : {"new", "walking", "over"} \cup Busy, found : Tree, todo : SUBSET SourceFiles,
           file : SourceFiles, seen : Nat, merger : {"undefined", "none", "made"}]

\* What OpenclawTypeOK leaves out.
ImportTypes ==
    /\ source \in Tree
    /\ commit \in 1 .. Len(SourceTrees)
    /\ fromGit \in BOOLEAN
    /\ target \in [Targets -> Nat]
    /\ imports \in [Migrations -> Import]
    /\ loop \in Migrations \cup {NoImport}
    /\ \A i \in Migrations : imports[i].at \in {"walking", "copying"} <=> loop = i
    /\ targetEdits \in Nat
    /\ stale \subseteq Migrations /\ moved \subseteq Migrations

\* What an import has listed is still so, unless the source has moved, and so is the
\* target of the file at hand as it looked at it, unless it has been written since.
ListedStands == \A i \in Migrations : Listed(i) /\ i \notin moved => imports[i].found = source
LookedStands ==
    \A i \in Migrations : imports[i].at \in Busy /\ i \notin stale =>
        target[AtHand(i)] = imports[i].seen

\* The file at hand has not been dealt with; it is copied to where nothing was, or is
\* AGENTS.md.
RightFile(import) ==
    import.at \in Busy =>
        LET t == TargetOf(import.found, import.file)
        IN  /\ import.file \in import.todo
            /\ t \notin Protected
            /\ IF import.at = "copying" THEN import.seen = Missing ELSE t = "AGENTS.md"
RightFiles == \A i \in Migrations : RightFile(imports[i])

Importing == ImportTypes /\ ListedStands /\ LookedStands /\ RightFiles

LEMMA Paths ==
    /\ "AGENTS.md" \in Targets /\ "AGENTS.md" \notin Protected
    /\ \A tree : \A f \in SourceFiles : TargetOf(tree, f) \in Targets
    /\ \A k \in 1 .. Len(SourceTrees) : SourceTrees[k] \in Tree
  <1>1. \A tree : \A f \in SourceFiles : TargetOf(tree, f) \in Targets
    BY DEF TargetOf, SourceFiles, Targets
  <1>2. \A k \in 1 .. Len(SourceTrees) : SourceTrees[k] \in Tree
    BY OpenclawAssumption DEF Tree
  <1> QED  BY <1>1, <1>2 DEF Targets, Protected, SourceFiles

LEMMA ImportStages ==
    /\ "new" \notin Busy /\ "walking" \notin Busy /\ "over" \notin Busy
    /\ NotStarted \in Import /\ NotStarted.at = "new"
  BY DEF Busy, NotStarted, Import, Tree, SourceFiles, Missing

LEMMA ImportingInit == OpenclawInit => Importing
  <1> SUFFICES ASSUME OpenclawInit PROVE Importing
    OBVIOUS
  <1>1. Len(SourceTrees) \in Nat /\ 1 \in 1 .. Len(SourceTrees)
    BY OpenclawAssumption
  <1>2. target \in [Targets -> Nat]
    BY DEF OpenclawInit, Missing
  <1>3. source \in Tree
    BY <1>1, Paths DEF OpenclawInit
  <1>4. \A i \in Migrations : imports[i] = NotStarted /\ i # NoImport
    BY OpenclawAssumption DEF OpenclawInit
  <1>5. ImportTypes
    BY <1>1, <1>2, <1>3, <1>4, ImportStages DEF OpenclawInit, ImportTypes
  <1> QED
    BY <1>4, <1>5, ImportStages
       DEF Importing, ListedStands, LookedStands, RightFiles, RightFile, Listed

\* A step of one import, which is new afterwards.
LEMMA OneImport ==
    ASSUME Importing, NEW i \in Migrations, NEW new \in Import,
           imports' = [imports EXCEPT ![i] = new]
    PROVE  /\ imports' \in [Migrations -> Import] /\ imports'[i] = new
           /\ \A j \in Migrations \ {i} : imports'[j] = imports[j]
  BY DEF Importing, ImportTypes

\* Writing a file makes what others have seen of it stale.
LEMMA WritesTarget ==
    ASSUME Importing, NEW t \in Targets, NEW content \in Nat, PutsAt(t, content),
           \A j \in Migrations : imports'[j].at \in Busy => imports'[j] = imports[j]
    PROVE  /\ target' \in [Targets -> Nat] /\ stale' \subseteq Migrations
           /\ LookedStands'
  <1>1. target' = [target EXCEPT ![t] = content] /\ target \in [Targets -> Nat]
        /\ stale' = {j \in Migrations : imports'[j].at \in Busy /\ (j \in stale \/ AtHand(j) = t)}
    BY DEF PutsAt, Notes, Importing, ImportTypes
  <1>2. ASSUME NEW j \in Migrations, imports'[j].at \in Busy, j \notin stale'
        PROVE  target'[AtHand(j)'] = imports'[j].seen
    <2>1. imports'[j] = imports[j] /\ j \notin stale /\ AtHand(j) # t
      BY <1>1, <1>2
    <2>2. AtHand(j)' = AtHand(j) /\ AtHand(j) \in Targets
      BY <2>1, Paths DEF AtHand, Importing, ImportTypes, Import
    <2> QED  BY <1>1, <1>2, <2>1, <2>2 DEF Importing, LookedStands
  <1> QED  BY <1>1, <1>2 DEF LookedStands

LEMMA LeavesTarget ==
    ASSUME Importing, Leaves,
           \A j \in Migrations : imports'[j].at \in Busy => imports'[j] = imports[j]
    PROVE  /\ target' \in [Targets -> Nat] /\ stale' \subseteq Migrations
           /\ LookedStands' /\ targetEdits' = targetEdits
  <1>1. target' = target /\ target \in [Targets -> Nat] /\ targetEdits' = targetEdits
        /\ stale' = {j \in Migrations : imports'[j].at \in Busy /\ j \in stale}
    BY DEF Leaves, Notes, Importing, ImportTypes
  <1>2. ASSUME NEW j \in Migrations, imports'[j].at \in Busy, j \notin stale'
        PROVE  target'[AtHand(j)'] = imports'[j].seen
    <2>1. imports'[j] = imports[j] /\ j \notin stale
      BY <1>1, <1>2
    <2> QED  BY <1>1, <1>2, <2>1 DEF Importing, LookedStands, AtHand
  <1> QED  BY <1>1, <1>2 DEF LookedStands

LEMMA WritesInFullOrPart ==
    ASSUME Importing, NEW t \in Targets, NEW content \in Nat, WritesFile(t, content),
           \A j \in Migrations : imports'[j].at \in Busy => imports'[j] = imports[j]
    PROVE  /\ target' \in [Targets -> Nat] /\ stale' \subseteq Migrations
           /\ LookedStands' /\ targetEdits' \in Nat
  <1>1. targetEdits' \in Nat
    BY DEF WritesFile, Mishap, Importing, ImportTypes
  <1>2. Cut \in Nat
    BY DEF Cut
  <1> QED  BY <1>1, <1>2, WritesTarget DEF WritesFile

\* A file is done with: the import goes on to the next.
LEMMA FileDone ==
    ASSUME Importing, NEW i \in Migrations, loop' = i, loop \in {i, NoImport}, Listed(i),
           UNCHANGED <<source, commit, fromGit, moved>>,
           NEW new \in Import, new.at = "walking", new.found = imports[i].found,
           imports' = [imports EXCEPT ![i] = new],
           \/ Leaves
           \/ \E t \in Targets, content \in Nat : WritesFile(t, content)
    PROVE  Importing'
  <1>1. /\ imports' \in [Migrations -> Import] /\ imports'[i] = new
        /\ \A j \in Migrations \ {i} : imports'[j] = imports[j]
    BY OneImport
  <1>2. \A j \in Migrations : imports'[j].at \in Busy => imports'[j] = imports[j]
    BY <1>1, ImportStages
  <1>3. /\ target' \in [Targets -> Nat] /\ stale' \subseteq Migrations
        /\ LookedStands' /\ targetEdits' \in Nat
    BY <1>2, LeavesTarget, WritesInFullOrPart DEF Importing, ImportTypes
  <1>4. \A j \in Migrations : imports'[j].at \in {"walking", "copying"} <=> loop' = j
    BY <1>1, OpenclawAssumption DEF Importing, ImportTypes
  <1>5. ImportTypes'
    BY <1>1, <1>3, <1>4 DEF Importing, ImportTypes
  <1>6. ListedStands'
    BY <1>1 DEF Importing, ListedStands, Listed
  <1>7. RightFiles'
    BY <1>1, <1>2, ImportStages DEF Importing, RightFiles, RightFile
  <1> QED  BY <1>3, <1>5, <1>6, <1>7 DEF Importing

\* The same, with all other files still to be done.
LEMMA FileHandled ==
    ASSUME Importing, NEW i \in Migrations, NEW f \in SourceFiles, Handled(i, f), loop' = i,
           loop \in {i, NoImport}, Listed(i), UNCHANGED <<source, commit, fromGit, moved>>,
           \/ Leaves
           \/ \E t \in Targets, content \in Nat : WritesFile(t, content)
    PROVE  Importing'
  <1>1. PICK new : new = [imports[i] EXCEPT !.at = "walking", !.todo = imports[i].todo \ {f},
                                            !.file = "AGENTS.md", !.seen = Missing]
    OBVIOUS
  <1>2. new \in Import /\ new.at = "walking" /\ new.found = imports[i].found
    BY <1>1 DEF Importing, ImportTypes, Import, SourceFiles, Missing
  <1>3. imports' = [imports EXCEPT ![i] = new]
    BY <1>1 DEF Handled
  <1> QED  BY <1>2, <1>3, FileDone

\* A change of the source is noted by every import that has listed it.
LEMMA MovesSource ==
    ASSUME Importing, NEW tree \in Tree, SetSource(tree)
    PROVE  /\ source' \in Tree /\ source' = tree /\ moved' \subseteq Migrations
           /\ \A i \in Migrations : Listed(i) /\ i \notin moved' => imports[i].found = source'
  BY DEF SetSource, Importing, ImportTypes, ListedStands

LEMMA ImportBeginsStep ==
    ASSUME Importing, NEW i \in Migrations, ImportBegins(i)
    PROVE  Importing'
  <1>1. imports[i].at = "new" /\ loop = NoImport /\ imports[i] \in Import
        /\ UNCHANGED <<commit, fromGit, target, targetEdits, stale>>
    BY DEF ImportBegins, Importing, ImportTypes
  <1>2. CASE /\ imports' = [imports EXCEPT ![i].at = "over"]
             /\ UNCHANGED <<source, moved, loop>>
    <2>1. imports' \in [Migrations -> Import] /\ imports'[i].at = "over"
          /\ \A j \in Migrations \ {i} : imports'[j] = imports[j]
      BY <1>2 DEF Importing, ImportTypes, Import
    <2>2. ImportTypes' /\ ListedStands'
      BY <1>1, <1>2, <2>1, OpenclawAssumption, ImportStages
         DEF Importing, ImportTypes, ListedStands, Listed
    <2>3. LookedStands' /\ RightFiles'
      BY <1>1, <1>2, <2>1, ImportStages
         DEF Importing, LookedStands, RightFiles, RightFile, AtHand
    <2> QED  BY <2>2, <2>3 DEF Importing
  <1>3. ASSUME NEW tree \in Tree, SetSource(tree), loop' = i,
               imports' = [imports EXCEPT ![i] = [@ EXCEPT !.at = "walking", !.found = source',
                                                           !.todo = Present(source')]]
        PROVE  Importing'
    <2>1. PICK new : new = [imports[i] EXCEPT !.at = "walking", !.found = source',
                                              !.todo = Present(source')]
      OBVIOUS
    <2>2. /\ source' \in Tree /\ moved' \subseteq Migrations
          /\ \A j \in Migrations : Listed(j) /\ j \notin moved' => imports[j].found = source'
      BY <1>3, MovesSource
    <2>3. Present(source') \subseteq SourceFiles
      BY DEF Present
    <2>4. new \in Import /\ new.at = "walking" /\ new.found = source'
      BY <1>1, <2>1, <2>2, <2>3 DEF Import
    <2>5. imports' = [imports EXCEPT ![i] = new]
      BY <1>3, <2>1
    <2>6. /\ imports' \in [Migrations -> Import] /\ imports'[i] = new
          /\ \A j \in Migrations \ {i} : imports'[j] = imports[j]
      BY <2>4, <2>5, OneImport
    <2>7. \A j \in Migrations : imports'[j].at \in {"walking", "copying"} <=> loop' = j
      BY <1>1, <1>3, <2>4, <2>6, OpenclawAssumption DEF Importing, ImportTypes
    <2>8. ImportTypes'
      BY <1>1, <1>3, <2>2, <2>6, <2>7 DEF Importing, ImportTypes
    <2>9. ListedStands'
      BY <2>2, <2>4, <2>6 DEF ListedStands, Listed
    <2>10. LookedStands' /\ RightFiles'
      BY <1>1, <2>4, <2>6, ImportStages
         DEF Importing, LookedStands, RightFiles, RightFile, AtHand
    <2> QED  BY <2>8, <2>9, <2>10 DEF Importing
  <1>4. (IF fromGit THEN SourceTrees[commit] ELSE source) \in Tree
    BY Paths DEF Importing, ImportTypes
  <1> QED  BY <1>2, <1>3, <1>4 DEF ImportBegins

\* An import looks at the target of a file, and goes on with what is there.
LEMMA LooksStep ==
    ASSUME Importing, NEW i \in Migrations, NEW f \in SourceFiles,
           NEW at \in Busy, Looks(i, f, at), imports[i].at = "walking",
           f \in imports[i].todo, UNCHANGED <<source, commit, fromGit, moved>>,
           loop' = (IF at = "copying" THEN i ELSE NoImport),
           TargetOf(imports[i].found, f) \notin Protected,
           IF at = "copying" THEN target[TargetOf(imports[i].found, f)] = Missing
           ELSE TargetOf(imports[i].found, f) = "AGENTS.md"
    PROVE  Importing'
  <1>1. PICK t \in Targets : t = TargetOf(imports[i].found, f)
    BY Paths
  <1>2. PICK new : new = [imports[i] EXCEPT !.at = at, !.file = f, !.seen = target[t]]
    OBVIOUS
  <1>3. UNCHANGED <<target, targetEdits, stale>> /\ target[t] \in Nat
    BY DEF Looks, Importing, ImportTypes
  <1>4. /\ new \in Import /\ new.at = at /\ new.found = imports[i].found /\ new.file = f
        /\ new.seen = target[t] /\ new.todo = imports[i].todo
    BY <1>2, <1>3 DEF Importing, ImportTypes, Import
  <1>5. imports' = [imports EXCEPT ![i] = new]
    BY <1>1, <1>2 DEF Looks
  <1>6. /\ imports' \in [Migrations -> Import] /\ imports'[i] = new
        /\ \A j \in Migrations \ {i} : imports'[j] = imports[j]
    BY <1>4, <1>5, OneImport
  <1>7. loop = i /\ i # NoImport
    BY OpenclawAssumption DEF Importing, ImportTypes
  <1>8. \A j \in Migrations : imports'[j].at \in {"walking", "copying"} <=> loop' = j
    BY <1>4, <1>6, <1>7, OpenclawAssumption DEF Importing, ImportTypes, Busy
  <1>9. ImportTypes'
    BY <1>3, <1>6, <1>7, <1>8 DEF Importing, ImportTypes
  <1>10. ListedStands'
    BY <1>4, <1>6 DEF Importing, ListedStands, Listed
  <1>11. LookedStands'
    BY <1>1, <1>3, <1>4, <1>6 DEF Importing, LookedStands, AtHand
  <1>12. RightFile(new)
    BY <1>1, <1>4 DEF RightFile
  <1>13. RightFiles'
    BY <1>6, <1>12 DEF Importing, RightFiles, RightFile
  <1> QED  BY <1>9, <1>10, <1>11, <1>13 DEF Importing

LEMMA ImportsFileStep ==
    ASSUME Importing, NEW i \in Migrations, NEW f \in SourceFiles, ImportsFile(i, f)
    PROVE  Importing'
  <1>1. PICK t \in Targets : t = TargetOf(imports[i].found, f)
    BY Paths
  <1>2. /\ loop = i /\ imports[i].at = "walking" /\ f \in imports[i].todo
        /\ UNCHANGED <<source, commit, fromGit, moved>> /\ Listed(i)
    BY DEF ImportsFile, Listed
  <1>3. CASE t \notin Protected /\ CopiesOver(i, f, t) /\ Looks(i, f, "copying") /\ loop' = loop
    BY <1>1, <1>2, <1>3, LooksStep DEF CopiesOver, Busy
  <1>4. CASE Handled(i, f) /\ Leaves /\ loop' = loop
    BY <1>2, <1>4, FileHandled
  <1>5. CASE /\ t = "AGENTS.md" /\ loop' = NoImport
             /\ Looks(i, f, "creating") \/ Looks(i, f, "prompting")
    BY <1>1, <1>2, <1>5, LooksStep, Paths DEF Busy
  <1> QED  BY <1>1, <1>3, <1>4, <1>5 DEF ImportsFile

LEMMA CopyEndsStep ==
    ASSUME Importing, NEW i \in Migrations, CopyEnds(i)
    PROVE  Importing'
  <1>1. imports[i].file \in SourceFiles /\ AtHand(i) \in Targets
        /\ source[imports[i].file] \in Nat
    BY Paths DEF AtHand, Importing, ImportTypes, Import, Tree
  <1>2. Listed(i) /\ loop = i /\ loop' = i
    BY DEF CopyEnds, Listed, Busy
  <1> QED  BY <1>1, <1>2, FileHandled DEF CopyEnds

LEMMA MergeStep ==
    ASSUME Importing, NEW i \in Migrations,
           MergerCreated(i) \/ MergerFails(i) \/ MergeAnswered(i)
    PROVE  Importing'
  <1>1. imports[i].file \in SourceFiles /\ AtHand(i) \in Targets
        /\ source[imports[i].file] \in Nat /\ ValidMerges \subseteq Nat
    BY OpenclawAssumption, Paths DEF AtHand, Importing, ImportTypes, Import, Tree
  <1>2. CASE MergerCreated(i)
    <2>1. PICK new : new = [imports[i] EXCEPT !.at = "prompting", !.merger = "made"]
      OBVIOUS
    <2>2. /\ new \in Import /\ new.at = "prompting" /\ new.found = imports[i].found
          /\ new.file = imports[i].file /\ new.seen = imports[i].seen
          /\ new.todo = imports[i].todo
      BY <2>1 DEF Importing, ImportTypes, Import, Busy
    <2>3. /\ imports' = [imports EXCEPT ![i] = new] /\ imports[i].at = "creating"
          /\ UNCHANGED <<source, commit, fromGit, target, loop, targetEdits, stale, moved>>
      BY <1>2, <2>1 DEF MergerCreated, Importing, ImportTypes
    <2>4. /\ imports' \in [Migrations -> Import] /\ imports'[i] = new
          /\ \A j \in Migrations \ {i} : imports'[j] = imports[j]
      BY <2>2, <2>3, OneImport
    <2>5. ImportTypes'
      BY <2>2, <2>3, <2>4 DEF Importing, ImportTypes
    <2>6. ListedStands'
      BY <2>2, <2>3, <2>4 DEF Importing, ListedStands, Listed, Busy
    <2>7. LookedStands'
      BY <2>2, <2>3, <2>4 DEF Importing, LookedStands, AtHand, Busy
    <2>8. RightFile(new)
      BY <2>2, <2>3 DEF Importing, RightFiles, RightFile, Busy
    <2>9. RightFiles'
      BY <2>4, <2>8 DEF Importing, RightFiles, RightFile
    <2> QED  BY <2>5, <2>6, <2>7, <2>9 DEF Importing
  <1>3. CASE MergerFails(i)
    <2>1. PICK new : new = [imports[i] EXCEPT !.at = "walking",
                                !.todo = imports[i].todo \ {imports[i].file}, !.file = "AGENTS.md",
                                !.seen = Missing, !.merger = "none"]
      OBVIOUS
    <2>2. new \in Import /\ new.at = "walking" /\ new.found = imports[i].found
      BY <2>1 DEF Importing, ImportTypes, Import, SourceFiles, Missing
    <2>3. imports' = [imports EXCEPT ![i] = new]
      BY <1>3, <2>1 DEF MergerFails
    <2>4. Listed(i) /\ loop = NoImport /\ loop' = i /\ Leaves
          /\ UNCHANGED <<source, commit, fromGit, moved>>
      BY <1>3 DEF MergerFails, Listed, Busy
    <2> QED  BY <2>2, <2>3, <2>4, FileDone
  <1>4. CASE MergeAnswered(i)
    <2>1. Listed(i) /\ loop = NoImport /\ loop' = i /\ Handled(i, imports[i].file)
          /\ UNCHANGED <<source, commit, fromGit, moved>>
      BY <1>4 DEF MergeAnswered, Listed, Busy
    <2>2. \/ Leaves
          \/ \E t \in Targets, content \in Nat : WritesFile(t, content)
      BY <1>1, <1>4 DEF MergeAnswered
    <2> QED  BY <1>1, <2>1, <2>2, FileHandled
  <1> QED  BY <1>2, <1>3, <1>4

LEMMA ImportingStep == Importing /\ [OpenclawNext]_openclawVars => Importing'
  <1> SUFFICES ASSUME Importing, [OpenclawNext]_openclawVars PROVE Importing'
    OBVIOUS
  <1>1. CASE UNCHANGED openclawVars
    BY <1>1 DEF openclawVars, Importing, ImportTypes, ListedStands, LookedStands, RightFiles,
                RightFile, Listed, AtHand
  <1>2. ASSUME NEW i \in Migrations, ImportEnds(i)
        PROVE  Importing'
    <2>1. PICK new : new = [NotStarted EXCEPT !.at = "over"]
      OBVIOUS
    <2>2. new \in Import /\ new.at = "over"
      BY <2>1, ImportStages DEF Import
    <2>3. imports' = [imports EXCEPT ![i] = new] /\ loop = i /\ loop' = NoImport
          /\ moved' = moved \ {i}
          /\ UNCHANGED <<source, commit, fromGit, target, targetEdits, stale>>
      BY <1>2, <2>1 DEF ImportEnds
    <2>4. /\ imports' \in [Migrations -> Import] /\ imports'[i] = new
          /\ \A j \in Migrations \ {i} : imports'[j] = imports[j]
      BY <2>2, <2>3, OneImport
    <2>5. \A j \in Migrations : imports'[j].at \in {"walking", "copying"} <=> loop' = j
      BY <2>2, <2>3, <2>4, OpenclawAssumption DEF Importing, ImportTypes
    <2>6. ImportTypes' /\ ListedStands'
      BY <2>2, <2>3, <2>4, <2>5, ImportStages DEF Importing, ImportTypes, ListedStands, Listed
    <2>7. LookedStands' /\ RightFiles'
      BY <2>2, <2>3, <2>4, ImportStages
         DEF Importing, LookedStands, RightFiles, RightFile, AtHand
    <2> QED  BY <2>6, <2>7 DEF Importing
  <1>3. CASE SourceChanges
    <2>1. UNCHANGED <<fromGit, target, imports, loop, targetEdits, stale>>
          /\ commit' \in 1 .. Len(SourceTrees)
      BY <1>3, OpenclawAssumption DEF SourceChanges, Importing, ImportTypes
    <2>2. LookedStands' /\ RightFiles'
      BY <2>1 DEF Importing, LookedStands, RightFiles, RightFile, AtHand
    <2>3. CASE UNCHANGED <<source, moved>>
      BY <2>1, <2>2, <2>3 DEF Importing, ImportTypes, ListedStands, Listed
    <2>4. CASE SetSource(SourceTrees[commit + 1])
      <3>1. SourceTrees[commit + 1] \in Tree
        BY <1>3, <2>1, Paths DEF SourceChanges
      <3>2. /\ source' \in Tree /\ moved' \subseteq Migrations
            /\ \A i \in Migrations : Listed(i) /\ i \notin moved' => imports[i].found = source'
        BY <2>4, <3>1, MovesSource
      <3> QED
        BY <2>1, <2>2, <3>2 DEF Importing, ImportTypes, ListedStands, Listed
    <2> QED  BY <1>3, <2>3, <2>4 DEF SourceChanges
  <1>4. CASE TargetEdited
    <2>1. PICK t \in Targets, content \in Nat : PutsAt(t, content)
      BY <1>4, OpenclawAssumption DEF TargetEdited
    <2>2. UNCHANGED <<source, commit, fromGit, imports, loop, moved>> /\ targetEdits' \in Nat
      BY <1>4 DEF TargetEdited, Mishap, Importing, ImportTypes
    <2>3. target' \in [Targets -> Nat] /\ stale' \subseteq Migrations /\ LookedStands'
      BY <2>1, <2>2, WritesTarget
    <2>4. ImportTypes' /\ ListedStands' /\ RightFiles'
      BY <2>2, <2>3 DEF Importing, ImportTypes, ListedStands, Listed, RightFiles, RightFile
    <2> QED  BY <2>3, <2>4 DEF Importing
  <1> QED
    BY <1>1, <1>2, <1>3, <1>4, ImportBeginsStep, ImportsFileStep, CopyEndsStep, MergeStep
       DEF OpenclawNext

\* An import copies only to where nothing was when it looked, and what was listed, and
\* writes over nothing else but the AGENTS.md the model was shown: what it writes over
\* otherwise has been written since it looked.
THEOREM NothingWrittenOver == OpenclawSpec => ImportsWriteOverNothing
  <1> DEFINE Spares(t) ==
        \E i \in Migrations :
            LET was == imports[i]
            IN  /\ t = AtHand(i) /\ t \notin Protected
                /\ was.file \in was.todo \ imports'[i].todo
                /\ i \notin stale => target[t] = was.seen
                /\ \/ /\ was.at = "copying" /\ was.seen = Missing
                      /\ i \in moved \/ target'[t] \in {was.found[was.file], Cut}
                   \/ was.at = "prompting" /\ t = "AGENTS.md"
  <1> DEFINE SparesAll ==
        /\ OpenclawTypeOK'
        /\ \A t \in Targets : target'[t] # target[t] /\ imports' # imports => Spares(t)
  <1>1. Importing /\ [OpenclawNext]_openclawVars => [SparesAll]_openclawVars
    <2> SUFFICES ASSUME Importing, OpenclawNext, Importing' PROVE SparesAll
      BY ImportingStep
    <2>1. OpenclawTypeOK'
      BY DEF Importing, ImportTypes, OpenclawTypeOK, Import, Tree
    <2>2. ASSUME NEW t \in Targets, target'[t] # target[t], imports' # imports
          PROVE  Spares(t)
      <3>1. PICK i \in Migrations : MergeAnswered(i) \/ CopyEnds(i)
        <4>1. \A i \in Migrations, f \in SourceFiles : ~ImportsFile(i, f)
          BY <2>2 DEF ImportsFile, Looks, Leaves
        <4> QED
          BY <2>2, <4>1 DEF OpenclawNext, ImportBegins, MergerCreated, MergerFails, ImportEnds,
                            SourceChanges, TargetEdited, Leaves
      <3>2. PICK u \in Targets : u = AtHand(i)
        BY Paths DEF AtHand, Importing, ImportTypes, Import
      <3>3. imports[i].at \in {"copying", "prompting"} /\ Handled(i, imports[i].file)
        BY <3>1 DEF MergeAnswered, CopyEnds
      <3>4. PICK content : PutsAt(u, content) /\ (CopyEnds(i) =>
                                content \in {source[imports[i].file], Cut})
        BY <2>2, <3>1, <3>2 DEF MergeAnswered, CopyEnds, WritesFile, Leaves
      <3>5. t = u /\ target'[t] = content
        BY <2>2, <3>4 DEF PutsAt, Importing, ImportTypes
      <3>6. imports[i].file \in imports[i].todo \ imports'[i].todo
        BY <3>3 DEF Handled, Importing, ImportTypes, RightFiles, RightFile, Busy, Import
      <3>7. /\ t \notin Protected
            /\ i \notin stale => target[t] = imports[i].seen
            /\ imports[i].at = "copying" => imports[i].seen = Missing
            /\ imports[i].at = "prompting" => t = "AGENTS.md"
        BY <3>2, <3>3, <3>5 DEF Importing, LookedStands, RightFiles, RightFile, AtHand, Busy
      <3>8. imports[i].at = "copying" =>
                i \in moved \/ content \in {imports[i].found[imports[i].file], Cut}
        <4>1. CASE CopyEnds(i)
          <5>1. Listed(i)
            BY <3>3 DEF Listed, Busy
          <5> QED  BY <3>4, <4>1, <5>1 DEF Importing, ListedStands
        <4>2. CASE MergeAnswered(i)
          BY <4>2 DEF MergeAnswered
        <4> QED  BY <3>1, <4>1, <4>2
      <3>9. imports[i].at = "copying" =>
                i \in moved \/ target'[t] \in {imports[i].found[imports[i].file], Cut}
        BY <3>5, <3>8
      <3>10. /\ t = AtHand(i) /\ t \notin Protected
             /\ imports[i].file \in imports[i].todo \ imports'[i].todo
             /\ i \notin stale => target[t] = imports[i].seen
             /\ \/ /\ imports[i].at = "copying" /\ imports[i].seen = Missing
                   /\ i \in moved \/ target'[t] \in {imports[i].found[imports[i].file], Cut}
                \/ imports[i].at = "prompting" /\ t = "AGENTS.md"
        BY <3>2, <3>3, <3>5, <3>6, <3>7, <3>9
      <3> QED  BY <3>10
    <2> QED  BY <2>1, <2>2
  <1>2. [SparesAll]_openclawVars <=>
        [/\ OpenclawTypeOK'
         /\ \A t \in Targets : target'[t] # target[t] /\ imports' # imports => Spares(t)
        ]_openclawVars
    OBVIOUS
  <1> QED  BY <1>1, ImportingInit, ImportingStep, PTL DEF OpenclawSpec, ImportsWriteOverNothing


-------------------------------------------------------------------------------
(* The configuration.                                                      *)

Stretches == [file : Configs, managed : Values, author : Requests \cup {NoRequest},
              faults : 0 .. MaxWriteFaults, me : Requests, q : Request]

\* The stretch t comes out of s with its request at where; all else of the request is
\* as it was.
LeftAt(s, t, where) ==
    t \in Stretches /\ t.me = s.me /\ t.q = [s.q EXCEPT !.at = where]

SameFile(w, t) == t.file = w.file /\ t.author = w.author
WithBase(w, t) ==
    t.file = w.q.base /\ t.author = IF w.file = w.q.base THEN w.author ELSE w.q.before

\* What reconciling the executor entry comes to, once the candidate is on disk.
Reconciled(w, t) ==
    \/ /\ LeftAt(w, t, "ok") /\ SameFile(w, t) /\ t.managed = w.managed
       /\ Reconciles(w.q) /\ w.q.base["executor"] # w.q.cand["executor"] =>
             w.managed = w.q.cand["executor"]
    \/ /\ Reconciles(w.q) /\ w.q.base["executor"] # w.q.cand["executor"]
       /\ \/ LeftAt(w, t, "dispose") /\ SameFile(w, t) /\ t.managed = w.q.cand["executor"]
          \/ LeftAt(w, t, "undispose") /\ WithBase(w, t) /\ t.managed = w.q.entry
          \/ LeftAt(w, t, "misdispose") /\ SameFile(w, t) /\ t.managed = w.q.entry
          \/ /\ LeftAt(w, t, "broken") /\ t.managed = w.managed
             /\ SameFile(w, t) \/ WithBase(w, t)

LEMMA AtComesTo ==
    ASSUME NEW s \in Stretches,
           NEW where \in {"idle", "read"} \cup Pending \cup Answered
    PROVE  /\ LeftAt(s, At(s, where), where) /\ SameFile(s, At(s, where))
           /\ At(s, where).managed = s.managed
  <1>1. At(s, where) = [s EXCEPT !.q = [s.q EXCEPT !.at = where]]
    BY DEF At, Stretches
  <1>2. s.q \in Request
    BY DEF Stretches
  <1>3. [s.q EXCEPT !.at = where] \in Request
    BY <1>2 DEF Request
  <1> QED  BY <1>1, <1>3 DEF LeftAt, SameFile, Stretches

LEMMA FaultComesTo ==
    ASSUME NEW s \in Stretches, NEW b \in Fault(s)
    PROVE  b \in Stretches /\ b = [s EXCEPT !.faults = b.faults]
  <1>1. s.faults < MaxWriteFaults /\ b = [s EXCEPT !.faults = s.faults + 1]
    BY DEF Fault
  <1>2. s.faults + 1 \in 0 .. MaxWriteFaults
    BY <1>1, ConfigAssumption DEF Stretches
  <1> QED  BY <1>1, <1>2 DEF Stretches

LEMMA WriteComesTo ==
    ASSUME NEW s \in Stretches, NEW c \in Configs, NEW by \in Requests \cup {NoRequest}
    PROVE  /\ Write(s, c, by) \in Stretches
           /\ Write(s, c, by).file = c
           /\ Write(s, c, by).author = IF s.file = c THEN s.author ELSE by
           /\ Write(s, c, by).managed = s.managed
           /\ Write(s, c, by).me = s.me /\ Write(s, c, by).q = s.q
  <1>1. PICK a \in Requests \cup {NoRequest} : a = IF s.file = c THEN s.author ELSE by
    BY DEF Stretches
  <1>2. Write(s, c, by) = [s EXCEPT !.file = c, !.author = a]
    BY <1>1 DEF Write, Stretches
  <1> QED  BY <1>1, <1>2 DEF Stretches

LEMMA RestoreComesTo ==
    ASSUME NEW w \in Stretches, NEW t \in RestoreBoth(w)
    PROVE  \/ LeftAt(w, t, "undispose") /\ WithBase(w, t) /\ t.managed = w.q.entry
           \/ LeftAt(w, t, "misdispose") /\ SameFile(w, t) /\ t.managed = w.q.entry
           \/ /\ LeftAt(w, t, "broken") /\ t.managed = w.managed
              /\ SameFile(w, t) \/ WithBase(w, t)
  <1>1. w.q \in Request /\ w.q.base \in Configs /\ w.q.entry \in Values
        /\ w.q.before \in Requests \cup {NoRequest}
    BY DEF Stretches, Request
  <1>2. /\ WriteBase(w) \in Stretches /\ WithBase(w, WriteBase(w))
        /\ WriteBase(w).managed = w.managed /\ WriteBase(w).me = w.me /\ WriteBase(w).q = w.q
    BY <1>1, WriteComesTo DEF WriteBase, WithBase
  <1>3. ASSUME NEW c \in Stretches, c.q = w.q, c.me = w.me, c.managed = w.managed,
               NEW next \in {"undispose", "misdispose"},
               t \in {At([c EXCEPT !.managed = w.q.entry], next)}
                     \cup {At(b, "broken") : b \in Fault(c)}
        PROVE  \/ LeftAt(w, t, next) /\ SameFile(c, t) /\ t.managed = w.q.entry
               \/ LeftAt(w, t, "broken") /\ SameFile(c, t) /\ t.managed = w.managed
    <2>1. CASE t = At([c EXCEPT !.managed = w.q.entry], next)
      <3>1. PICK e \in Stretches : e = [c EXCEPT !.managed = w.q.entry]
        BY <1>1 DEF Stretches
      <3>2. e.q = w.q /\ e.me = w.me /\ SameFile(c, e) /\ e.managed = w.q.entry
        BY <1>3, <3>1 DEF Stretches, SameFile
      <3>3. /\ LeftAt(e, t, next) /\ SameFile(e, t) /\ t.managed = e.managed
        BY <2>1, <3>1, AtComesTo DEF Pending
      <3> QED  BY <3>2, <3>3 DEF LeftAt, SameFile
    <2>2. ASSUME NEW b \in Fault(c), t = At(b, "broken")
          PROVE  LeftAt(w, t, "broken") /\ SameFile(c, t) /\ t.managed = w.managed
      <3>1. /\ b \in Stretches /\ b.q = w.q /\ b.me = w.me /\ SameFile(c, b)
            /\ b.managed = w.managed
        BY <1>3, FaultComesTo DEF Stretches, SameFile
      <3>2. LeftAt(b, t, "broken") /\ SameFile(b, t) /\ t.managed = b.managed
        BY <2>2, <3>1, AtComesTo DEF Answered
      <3> QED  BY <3>1, <3>2 DEF LeftAt, SameFile
    <2> QED  BY <1>3, <2>1, <2>2
  <1>4. CASE t \in {At([WriteBase(w) EXCEPT !.managed = w.q.entry], "undispose")}
                   \cup {At(b, "broken") : b \in Fault(WriteBase(w))}
    <2>1. \/ LeftAt(w, t, "undispose") /\ SameFile(WriteBase(w), t) /\ t.managed = w.q.entry
          \/ LeftAt(w, t, "broken") /\ SameFile(WriteBase(w), t) /\ t.managed = w.managed
      BY <1>2, <1>3, <1>4
    <2> QED  BY <1>2, <2>1 DEF SameFile, WithBase
  <1>5. ASSUME NEW b \in Fault(w),
               t \in {At([b EXCEPT !.managed = w.q.entry], "misdispose")}
                     \cup {At(a, "broken") : a \in Fault(b)}
        PROVE  \/ LeftAt(w, t, "misdispose") /\ SameFile(w, t) /\ t.managed = w.q.entry
               \/ LeftAt(w, t, "broken") /\ SameFile(w, t) /\ t.managed = w.managed
    <2>1. /\ b \in Stretches /\ b.q = w.q /\ b.me = w.me /\ SameFile(w, b)
          /\ b.managed = w.managed
      BY FaultComesTo DEF Stretches, SameFile
    <2>2. \/ LeftAt(w, t, "misdispose") /\ SameFile(b, t) /\ t.managed = w.q.entry
          \/ LeftAt(w, t, "broken") /\ SameFile(b, t) /\ t.managed = w.managed
      BY <1>3, <1>5, <2>1
    <2> QED  BY <2>1, <2>2 DEF SameFile
  <1> QED  BY <1>4, <1>5 DEF RestoreBoth

LEMMA ReconcileComesTo ==
    ASSUME NEW w \in Stretches, NEW t \in Reconcile(w)
    PROVE  Reconciled(w, t)
  <1>1. CASE ~Reconciles(w.q) \/ w.q.base["executor"] = w.q.cand["executor"]
                \/ w.managed = w.q.cand["executor"]
    <2>1. t = At(w, "ok")
      BY <1>1 DEF Reconcile
    <2> QED  BY <1>1, <2>1, AtComesTo DEF Reconciled, Answered
  <1>2. CASE ~(~Reconciles(w.q) \/ w.q.base["executor"] = w.q.cand["executor"]
                 \/ w.managed = w.q.cand["executor"])
    <2>1. CASE t = At([w EXCEPT !.managed = w.q.cand["executor"]], "dispose")
      <3>1. w.q.cand["executor"] \in Values
        BY DEF Stretches, Request, Configs, Fields
      <3>2. PICK e \in Stretches : e = [w EXCEPT !.managed = w.q.cand["executor"]]
        BY <3>1 DEF Stretches
      <3>3. /\ e.q = w.q /\ e.me = w.me /\ SameFile(w, e)
            /\ e.managed = w.q.cand["executor"]
        BY <3>2 DEF Stretches, SameFile
      <3>4. LeftAt(e, t, "dispose") /\ SameFile(e, t) /\ t.managed = e.managed
        BY <2>1, <3>2, AtComesTo DEF Pending
      <3> QED  BY <1>2, <3>3, <3>4 DEF Reconciled, LeftAt, SameFile
    <2>2. ASSUME NEW b \in Fault(w), t \in RestoreBoth(b)
          PROVE  Reconciled(w, t)
      <3>1. /\ b \in Stretches /\ b.q = w.q /\ b.me = w.me /\ b.file = w.file
            /\ b.author = w.author /\ b.managed = w.managed
        BY FaultComesTo DEF Stretches
      <3>2. \/ LeftAt(b, t, "undispose") /\ WithBase(b, t) /\ t.managed = b.q.entry
            \/ LeftAt(b, t, "misdispose") /\ SameFile(b, t) /\ t.managed = b.q.entry
            \/ /\ LeftAt(b, t, "broken") /\ t.managed = b.managed
               /\ SameFile(b, t) \/ WithBase(b, t)
        BY <2>2, <3>1, RestoreComesTo
      <3> QED  BY <1>2, <3>1, <3>2 DEF Reconciled, LeftAt, SameFile, WithBase
    <2> QED  BY <1>2, <2>1, <2>2 DEF Reconcile
  <1> QED  BY <1>1, <1>2


\* The candidate is not on disk before the request's next stretch; Ready: it is.
Unwritten(q) == q.at # "smoke" \/ ~Rollback(q)
Ready(s) == IF Unwritten(s.q) THEN WriteCandidate(s) ELSE s
Same(s, t) == SameFile(s, t) /\ t.managed = s.managed

\* What a stretch of a request comes to that has not been written off or applied yet.
Moves(s, t) ==
    \/ LeftAt(s, t, "semantic") /\ s.q.at # "smoke" /\ Same(s, t)
    \/ /\ LeftAt(s, t, "smoke") /\ s.q.at # "smoke" /\ t.managed = s.managed
       /\ IF Rollback(s.q) THEN SameFile(WriteCandidate(s), t) ELSE SameFile(s, t)
    \/ LeftAt(s, t, "error") /\ Unwritten(s.q) /\ Same(s, t)
    \/ Reconciled(Ready(s), t)
    \/ /\ ~Unwritten(s.q) /\ t.managed = s.managed
       /\ \/ LeftAt(s, t, "error") /\ WithBase(s, t)
          \/ LeftAt(s, t, "broken") /\ SameFile(s, t)

LEMMA CandidateWritten ==
    ASSUME NEW s \in Stretches
    PROVE  /\ WriteCandidate(s) \in Stretches
           /\ WriteCandidate(s).file = s.q.cand
           /\ WriteCandidate(s).author = IF s.file = s.q.cand THEN s.author ELSE s.me
           /\ WriteCandidate(s).managed = s.managed
           /\ WriteCandidate(s).me = s.me /\ WriteCandidate(s).q = s.q
  <1>1. s.q.cand \in Configs /\ s.me \in Requests \cup {NoRequest}
    BY DEF Stretches, Request
  <1> QED  BY <1>1, WriteComesTo DEF WriteCandidate

\* A write that fails ends a request whose candidate has not been written.
LEMMA FailedWrite ==
    ASSUME NEW s \in Stretches, NEW b \in Fault(s), NEW where \in Answered
    PROVE  LeftAt(s, At(b, where), where) /\ Same(s, At(b, where))
  <1>1. /\ b \in Stretches /\ b.q = s.q /\ b.me = s.me /\ Same(s, b)
    BY FaultComesTo DEF Stretches, SameFile, Same
  <1>2. /\ LeftAt(b, At(b, where), where) /\ SameFile(b, At(b, where))
        /\ At(b, where).managed = b.managed
    BY <1>1, AtComesTo
  <1> QED  BY <1>1, <1>2 DEF LeftAt, SameFile, Same

LEMMA PersistComesTo ==
    ASSUME NEW s \in Stretches, Unwritten(s.q), NEW t \in Persist(s)
    PROVE  Moves(s, t)
  <1>1. CASE t \in Reconcile(WriteCandidate(s))
    BY <1>1, CandidateWritten, ReconcileComesTo DEF Moves, Ready
  <1>2. ASSUME NEW b \in Fault(s), t = At(b, "error")
        PROVE  Moves(s, t)
    BY <1>2, FailedWrite DEF Moves, Answered
  <1> QED  BY <1>1, <1>2 DEF Persist

LEMMA AfterSemanticComesTo ==
    ASSUME NEW s \in Stretches, s.q.at # "smoke", NEW t \in AfterSemantic(s)
    PROVE  Moves(s, t)
  <1>1. Unwritten(s.q)
    BY DEF Unwritten
  <1>2. CASE ~s.q.ask.smoke
    BY <1>1, <1>2, PersistComesTo DEF AfterSemantic
  <1>3. CASE s.q.ask.smoke /\ ~Rollback(s.q)
    <2>1. t = At(s, "smoke")
      BY <1>3 DEF AfterSemantic
    <2> QED  BY <1>3, <2>1, AtComesTo DEF Moves, Pending
  <1>4. CASE s.q.ask.smoke /\ Rollback(s.q)
    <2>1. CASE t = At(WriteCandidate(s), "smoke")
      <3>1. /\ LeftAt(WriteCandidate(s), t, "smoke") /\ SameFile(WriteCandidate(s), t)
            /\ t.managed = WriteCandidate(s).managed
        BY <2>1, CandidateWritten, AtComesTo DEF Pending
      <3> QED  BY <1>4, <3>1, CandidateWritten DEF Moves, LeftAt
    <2>2. ASSUME NEW b \in Fault(s), t = At(b, "error")
          PROVE  Moves(s, t)
      BY <1>1, <2>2, FailedWrite DEF Moves, Answered
    <2> QED  BY <1>4, <2>1, <2>2 DEF AfterSemantic
  <1> QED  BY <1>2, <1>3, <1>4

LEMMA BeginComesTo ==
    ASSUME NEW s \in Stretches, s.q.at # "smoke", NEW t \in Begin(s)
    PROVE  Moves(s, t)
  <1>1. CASE t = At(s, "semantic")
    BY <1>1, AtComesTo DEF Moves, Same, Pending
  <1>2. CASE t \in AfterSemantic(s)
    BY <1>2, AfterSemanticComesTo
  <1> QED  BY <1>1, <1>2 DEF Begin

LEMMA AfterSmokeComesTo ==
    ASSUME NEW s \in Stretches, s.q.at = "smoke", NEW t \in AfterSmoke(s) \cup SmokeRejected(s)
    PROVE  Moves(s, t)
  <1>1. CASE Rollback(s.q) /\ t \in AfterSmoke(s)
    BY <1>1, ReconcileComesTo DEF AfterSmoke, Moves, Ready, Unwritten
  <1>2. CASE ~Rollback(s.q) /\ t \in AfterSmoke(s)
    BY <1>2, PersistComesTo DEF AfterSmoke, Unwritten
  <1>3. CASE ~Rollback(s.q) /\ t \in SmokeRejected(s)
    <2>1. t = At(s, "error")
      BY <1>3 DEF SmokeRejected
    <2> QED  BY <1>3, <2>1, AtComesTo DEF Moves, Same, Unwritten, Answered
  <1>4. CASE Rollback(s.q) /\ t \in SmokeRejected(s)
    <2>1. CASE t = At(WriteBase(s), "error")
      <3>1. s.q.base \in Configs /\ s.q.before \in Requests \cup {NoRequest}
        BY DEF Stretches, Request
      <3>2. /\ WriteBase(s) \in Stretches /\ WithBase(s, WriteBase(s))
            /\ WriteBase(s).managed = s.managed /\ WriteBase(s).me = s.me /\ WriteBase(s).q = s.q
        BY <3>1, WriteComesTo DEF WriteBase, WithBase
      <3>3. /\ LeftAt(WriteBase(s), t, "error") /\ SameFile(WriteBase(s), t)
            /\ t.managed = WriteBase(s).managed
        BY <2>1, <3>2, AtComesTo DEF Answered
      <3> QED
        BY <1>4, <3>2, <3>3 DEF Moves, LeftAt, SameFile, WithBase, Unwritten
    <2>2. ASSUME NEW b \in Fault(s), t = At(b, "broken")
          PROVE  Moves(s, t)
      BY <1>4, <2>2, FailedWrite DEF Moves, Same, Unwritten, Answered
    <2> QED  BY <1>4, <2>1, <2>2 DEF SmokeRejected
  <1> QED  BY <1>1, <1>2, <1>3, <1>4

\* The last stretch of a request only answers.
OnlyAnswers(s, t) ==
    /\ Same(s, t)
    /\ \/ s.q.at = "semantic" /\ LeftAt(s, t, "error")
       \/ s.q.at = "dispose" /\ LeftAt(s, t, "ok")
       \/ s.q.at = "undispose" /\ LeftAt(s, t, "error")
       \/ s.q.at = "misdispose" /\ LeftAt(s, t, "broken")

\* A stretch of r starts from s, as it finds the files, and comes to t.
Taken(r, s, t) ==
    /\ s.file = file /\ s.managed = managed /\ s.author = author /\ s.me = r
    /\ s.q.at = req[r].at /\ s.q.alone = req[r].alone
    /\ Commit(t)
    /\ \/ s.q = req[r] /\ s.q.at \in {"semantic", "smoke"} /\ Moves(s, t)
       \/ s.q = req[r] /\ OnlyAnswers(s, t)
       \/ /\ s.q.at \in {"idle", "read"} /\ Moves(s, t)
          /\ s.q.base = file /\ s.q.entry = managed /\ s.q.before = author
          /\ s.q.cand = Candidate(file, s.q.ask.change)

LEMMA CandidateTypes ==
    ASSUME NEW config \in Configs, NEW change \in Changes
    PROVE  Candidate(config, change) \in Configs
  <1>1. PICK fs \in SUBSET Fields : change \in [fs -> Values]
    BY DEF Changes
  <1> QED  BY <1>1 DEF Candidate, Configs

LEMMA StretchTaken ==
    ASSUME ConfigTypeOK, NEW r \in Requests, Submitted(r) \/ Resumes(r)
    PROVE  \E s \in Stretches, t \in Stretches : Taken(r, s, t)
  <1>1. /\ Here(r) \in Stretches /\ Here(r).q = req[r] /\ Here(r).me = r
        /\ Here(r).file = file /\ Here(r).managed = managed /\ Here(r).author = author
        /\ req[r] \in Request
    BY DEF ConfigTypeOK, Here, Stretches
  <1>2. ASSUME NEW a \in Asks, req[r].at \in {"idle", "read"}, Submit(r, a)
        PROVE  \E s \in Stretches, t \in Stretches : Taken(r, s, t)
    <2>1. PICK q : q = [req[r] EXCEPT !.ask = a, !.base = file, !.cand = Candidate(file, a.change),
                                      !.entry = managed, !.before = author]
      OBVIOUS
    <2>2. Candidate(file, a.change) \in Configs
      BY CandidateTypes DEF ConfigTypeOK, Asks
    <2>3. /\ q \in Request /\ q.at = req[r].at /\ q.alone = req[r].alone
          /\ q.base = file /\ q.entry = managed /\ q.before = author
          /\ q.cand = Candidate(file, q.ask.change)
      BY <1>1, <2>1, <2>2 DEF ConfigTypeOK, Request
    <2>4. PICK s \in Stretches : s = [Here(r) EXCEPT !.q = q]
      BY <1>1, <2>3 DEF Stretches
    <2>5. /\ s.q = q /\ s.me = r /\ s.file = file /\ s.managed = managed /\ s.author = author
      BY <1>1, <2>4 DEF Stretches
    <2>6. s = [Here(r) EXCEPT !.q = [@ EXCEPT !.ask = a, !.base = file,
                                      !.cand = Candidate(file, a.change),
                                      !.entry = managed, !.before = author]]
      BY <1>1, <2>1, <2>4
    <2>7. PICK t \in Begin(s) : Commit(t)
      BY <1>2, <2>6 DEF Submit
    <2>8. req[r].at \in {"idle", "read"}
      BY <1>2
    <2>9. Moves(s, t)
      BY <2>3, <2>5, <2>7, <2>8, BeginComesTo
    <2>10. t \in Stretches
      BY <2>9 DEF Moves, Reconciled, LeftAt
    <2> QED  BY <2>3, <2>5, <2>7, <2>8, <2>9, <2>10 DEF Taken
  <1>3. CASE SemanticPasses(r) \/ SmokePasses(r) \/ \E t \in SmokeRejected(Here(r)) :
                 req[r].at = "smoke" /\ Commit(t)
    <2>1. PICK t : /\ req[r].at \in {"semantic", "smoke"} /\ Commit(t)
                   /\ Moves(Here(r), t)
      BY <1>1, <1>3, AfterSemanticComesTo, AfterSmokeComesTo DEF SemanticPasses, SmokePasses
    <2>2. t \in Stretches
      BY <2>1 DEF Moves, Reconciled, LeftAt
    <2> QED  BY <1>1, <2>1, <2>2 DEF Taken
  <1>4. ASSUME NEW where \in Answered, Commit(At(Here(r), where)),
               \/ req[r].at = "semantic" /\ where = "error"
               \/ req[r].at = "dispose" /\ where = "ok"
               \/ req[r].at = "undispose" /\ where = "error"
               \/ req[r].at = "misdispose" /\ where = "broken"
        PROVE  \E s \in Stretches, t \in Stretches : Taken(r, s, t)
    <2>1. LeftAt(Here(r), At(Here(r), where), where) /\ Same(Here(r), At(Here(r), where))
      BY <1>1, AtComesTo DEF Same
    <2>2. OnlyAnswers(Here(r), At(Here(r), where)) /\ At(Here(r), where) \in Stretches
      BY <1>1, <1>4, <2>1 DEF OnlyAnswers, LeftAt
    <2> QED  BY <1>1, <1>4, <2>2 DEF Taken
  <1>5. CASE Submitted(r)
    BY <1>2, <1>5 DEF Submitted, AsksMade
  <1>6. CASE Resumes(r)
    <2>1. {"ok", "error", "broken"} = Answered
      BY DEF Answered
    <2> QED
      BY <1>3, <1>4, <1>6, <2>1
         DEF Resumes, SemanticPasses, SemanticFails, SmokePasses, SmokeFails, Disposed, Undisposed
  <1> QED  BY <1>5, <1>6


\* What the files, f and m, hold while a request is in flight that has not been
\* overtaken, and when it is answered.
Fits(q, f, m) ==
    /\ f \in {q.base, q.cand}
    /\ q.at \in {"semantic", "undispose", "error"} => f = q.base /\ m = q.entry
    /\ q.at = "smoke" => f = (IF Rollback(q) THEN q.cand ELSE q.base) /\ m = q.entry
    /\ q.at \in {"dispose", "ok"} =>
          f = q.cand /\ (Reconciles(q) /\ q.base["executor"] # q.cand["executor"] =>
                            m = q.cand["executor"])

FilesFit == \A r \in Requests :
    req[r].alone /\ req[r].at \in Pending => Fits(req[r], file, managed)

CandidatesFit ==
    \A r \in Requests : req[r].at \notin {"idle", "read"} =>
        req[r].cand = Candidate(req[r].base, req[r].ask.change)

\* Unless requests have overlapped: the request whose candidate is on disk has been
\* applied or is going to be, and so has been the one before it.
Overlapped == \E r \in Requests : ~req[r].alone

Stands(x) ==
    \/ x = NoRequest
    \/ x \in Requests /\ req[x].at \in {"ok", "broken"}
    \/ x \in Requests /\ x = author /\ req[x].at \in {"smoke", "dispose", "misdispose"}

AuthorFits(r) ==
    req[r].at \in {"semantic", "smoke", "undispose"} =>
        /\ Stands(req[r].before) /\ req[r].before # r
        /\ author = IF req[r].at = "smoke" /\ Rollback(req[r]) /\ req[r].base # req[r].cand
                    THEN r ELSE req[r].before

AuthorsFit == Overlapped \/ (Stands(author) /\ \A r \in Requests : AuthorFits(r))

\* As long as requests have neither overlapped nor been answered that the old state
\* is not restored nor come over the route that does not reconcile: the executor entry
\* is behind only during a smoke test, and what it is to be given back is in line.
Strayed ==
    \E r \in Requests : \/ ~req[r].alone
                        \/ req[r].at \in {"broken", "misdispose"}
                        \/ req[r].at \notin {"idle", "read"} /\ ~Reconciles(req[r])

Tested(r) == req[r].at = "smoke" /\ Rollback(req[r])

EntriesFit ==
    \/ Strayed
    \/ /\ \/ managed = file["executor"]
          \/ \E r \in Requests :
                Tested(r) /\ req[r].base["executor"] # req[r].cand["executor"]
       /\ \A r \in Requests :
             Tested(r) /\ req[r].base # req[r].cand => req[r].entry = req[r].base["executor"]

Configuring == ConfigTypeOK /\ FilesFit /\ CandidatesFit /\ AuthorsFit /\ EntriesFit

\* After a stretch the files are what it made them, and of the other requests nothing
\* has changed but that those in flight are overtaken, if it changed a file.
LEMMA Committed ==
    ASSUME ConfigTypeOK, NEW r \in Requests, NEW s \in Stretches, NEW t \in Stretches,
           Taken(r, s, t)
    PROVE  /\ ConfigTypeOK'
           /\ file' = t.file /\ managed' = t.managed /\ author' = t.author /\ req'[r] = t.q
           /\ \A x \in Requests \ {r} :
                /\ req'[x].at = req[x].at /\ req'[x].ask = req[x].ask
                /\ req'[x].base = req[x].base /\ req'[x].cand = req[x].cand
                /\ req'[x].entry = req[x].entry /\ req'[x].before = req[x].before
                /\ req'[x].alone => req[x].alone /\ req'[x] = req[x]
                /\ req'[x].alone /\ req[x].at \in Pending => file' = file /\ managed' = managed
  <1>1. t.me = r /\ Commit(t)
    BY CandidateWritten DEF Taken, OnlyAnswers, Moves, Reconciled, LeftAt, Ready
  <1>2. /\ file' = t.file /\ managed' = t.managed /\ author' = t.author
        /\ writeFaults' = t.faults
        /\ req' = [x \in Requests |->
                     IF x = r THEN t.q
                     ELSE [req[x] EXCEPT !.alone =
                             @ /\ \/ req[x].at \notin Pending
                                  \/ file = t.file /\ managed = t.managed]]
    BY <1>1 DEF Commit
  <1>3. req'[r] = t.q /\ t.q \in Request
    BY <1>2 DEF Stretches
  <1>4. ASSUME NEW x \in Requests \ {r}
        PROVE  /\ req'[x] \in Request
               /\ req'[x].at = req[x].at /\ req'[x].ask = req[x].ask
               /\ req'[x].base = req[x].base /\ req'[x].cand = req[x].cand
               /\ req'[x].entry = req[x].entry /\ req'[x].before = req[x].before
               /\ req'[x].alone => req[x].alone /\ req'[x] = req[x]
               /\ req'[x].alone /\ req[x].at \in Pending => file' = file /\ managed' = managed
    <2>1. req[x] \in Request /\ req[x].alone \in BOOLEAN
      BY DEF ConfigTypeOK, Request
    <2>2. PICK still \in BOOLEAN :
             /\ req'[x] = [req[x] EXCEPT !.alone = still]
             /\ still => req[x].alone
             /\ still /\ req[x].at \in Pending => file = t.file /\ managed = t.managed
      <3>1. CASE req[x].alone /\ (req[x].at \notin Pending \/ (file = t.file /\ managed = t.managed))
        <4>1. req'[x] = [req[x] EXCEPT !.alone = TRUE]
          BY <1>2, <3>1
        <4> QED  BY <3>1, <4>1
      <3>2. CASE ~(req[x].alone /\ (req[x].at \notin Pending \/ (file = t.file /\ managed = t.managed)))
        <4>1. req'[x] = [req[x] EXCEPT !.alone = FALSE]
          BY <1>2, <3>2
        <4> QED  BY <4>1
      <3> QED  BY <3>1, <3>2
    <2> QED  BY <1>2, <2>1, <2>2 DEF Request
  <1>5. ConfigTypeOK'
    <2>1. \A x \in Requests : req'[x] \in Request
      BY <1>3, <1>4
    <2>2. DOMAIN req' = Requests
      BY <1>2
    <2> QED  BY <1>2, <2>1, <2>2 DEF ConfigTypeOK, Stretches
  <1> QED  BY <1>2, <1>3, <1>4, <1>5

\* What s is like for the stretches that may still write the candidate.
Prepared(s) ==
    s.q.alone => s.managed = s.q.entry
                 /\ s.file = IF Unwritten(s.q) THEN s.q.base ELSE s.q.cand

LEMMA PreparedIs ==
    ASSUME Configuring, NEW r \in Requests, NEW s \in Stretches, NEW t \in Stretches,
           Taken(r, s, t), ~OnlyAnswers(s, t)
    PROVE  Prepared(s) /\ Moves(s, t)
  <1>1. CASE s.q = req[r] /\ s.q.at \in {"semantic", "smoke"} /\ Moves(s, t)
    BY <1>1 DEF Configuring, FilesFit, Fits, Taken, Prepared, Unwritten, Pending
  <1>2. CASE s.q.at \in {"idle", "read"} /\ Moves(s, t)
    BY <1>2 DEF Taken, Prepared, Unwritten
  <1> QED  BY <1>1, <1>2 DEF Taken

\* With the candidate on disk.
LEMMA ReadyIs ==
    ASSUME NEW s \in Stretches
    PROVE  /\ Ready(s) \in Stretches /\ Ready(s).q = s.q /\ Ready(s).managed = s.managed
           /\ Prepared(s) /\ s.q.alone => Ready(s).file = s.q.cand
           /\ Unwritten(s.q) => Ready(s).file = s.q.cand
           /\ Unwritten(s.q) => Ready(s).author = IF s.file = s.q.cand THEN s.author ELSE s.me
           /\ ~Unwritten(s.q) => Ready(s) = s
  BY CandidateWritten DEF Ready, Prepared

\* A stretch of a request that has not been overtaken leaves the files as they fit it,
\* and between its base and its candidate.
LEMMA OwnStays ==
    ASSUME NEW s \in Stretches, NEW t \in Stretches, Moves(s, t) \/ OnlyAnswers(s, t)
    PROVE  /\ t.me = s.me /\ t.q.alone = s.q.alone /\ t.q.ask = s.q.ask
           /\ t.q.base = s.q.base /\ t.q.cand = s.q.cand /\ t.q.entry = s.q.entry
           /\ t.q.before = s.q.before
           /\ Rollback(t.q) = Rollback(s.q) /\ Reconciles(t.q) = Reconciles(s.q)
           /\ \A where : LeftAt(s, t, where) => t.q.at = where
  <1>1. PICK where : LeftAt(s, t, where)
    <2>1. \A where : LeftAt(Ready(s), t, where) => LeftAt(s, t, where)
      BY CandidateWritten DEF LeftAt, Ready
    <2>2. CASE Moves(s, t)
      BY <2>1, <2>2 DEF Moves, Reconciled
    <2> QED  BY <2>2 DEF OnlyAnswers
  <1>2. s.q \in Request
    BY DEF Stretches
  <1>3. /\ t.me = s.me /\ t.q.alone = s.q.alone /\ t.q.ask = s.q.ask
        /\ t.q.base = s.q.base /\ t.q.cand = s.q.cand /\ t.q.entry = s.q.entry
        /\ t.q.before = s.q.before
    BY <1>1, <1>2 DEF LeftAt, Request
  <1>4. \A w : LeftAt(s, t, w) => t.q.at = w
    BY <1>2 DEF LeftAt, Request
  <1> QED  BY <1>3, <1>4 DEF Rollback, Reconciles

\* A stretch of a request that has not been overtaken leaves the files as they fit it,
\* and between its base and its candidate.
LEMMA OwnFits ==
    ASSUME NEW s \in Stretches, NEW t \in Stretches, s.q.alone, Prepared(s), Moves(s, t)
    PROVE  Fits(t.q, t.file, t.managed) /\ t.file \in {s.q.base, s.q.cand}
  <1>1. CASE LeftAt(s, t, "semantic") /\ s.q.at # "smoke" /\ Same(s, t)
    BY <1>1, OwnStays DEF Same, SameFile, Prepared, Fits, Unwritten
  <1>2. CASE /\ LeftAt(s, t, "smoke") /\ s.q.at # "smoke" /\ t.managed = s.managed
             /\ IF Rollback(s.q) THEN SameFile(WriteCandidate(s), t) ELSE SameFile(s, t)
    BY <1>2, OwnStays, CandidateWritten DEF SameFile, Prepared, Fits, Unwritten
  <1>3. CASE LeftAt(s, t, "error") /\ Unwritten(s.q) /\ Same(s, t)
    BY <1>3, OwnStays DEF Same, SameFile, Prepared, Fits
  <1>4. CASE Reconciled(Ready(s), t)
    <2>1. /\ Ready(s).q = s.q /\ Ready(s).file = s.q.cand
          /\ \A where : LeftAt(Ready(s), t, where) => t.q.at = where
      BY <1>4, OwnStays, ReadyIs DEF LeftAt, Stretches, Request
    <2> QED  BY <1>4, <2>1, OwnStays DEF Reconciled, SameFile, WithBase, Fits
  <1>5. CASE /\ ~Unwritten(s.q) /\ t.managed = s.managed
             /\ \/ LeftAt(s, t, "error") /\ WithBase(s, t)
                \/ LeftAt(s, t, "broken") /\ SameFile(s, t)
    BY <1>5, OwnStays DEF SameFile, WithBase, Prepared, Fits
  <1> QED  BY <1>1, <1>2, <1>3, <1>4, <1>5 DEF Moves

LEMMA FilesFitStep ==
    ASSUME Configuring, NEW r \in Requests, NEW s \in Stretches, NEW t \in Stretches,
           Taken(r, s, t)
    PROVE  /\ FilesFit' /\ CandidatesFit'
           /\ t.q.alone => Fits(t.q, t.file, t.managed) /\ t.file \in {s.q.base, s.q.cand}
           /\ t.q.alone => s.file \in {s.q.base, s.q.cand}
  <1>1. ConfigTypeOK
    BY DEF Configuring
  <1>2. /\ file' = t.file /\ managed' = t.managed /\ req'[r] = t.q
        /\ \A x \in Requests \ {r} :
             /\ req'[x].at = req[x].at /\ req'[x].ask = req[x].ask
             /\ req'[x].base = req[x].base /\ req'[x].cand = req[x].cand
             /\ req'[x].entry = req[x].entry
             /\ req'[x].alone => req[x].alone
             /\ req'[x].alone /\ req[x].at \in Pending => file' = file /\ managed' = managed
    BY <1>1, Committed
  <1>3. t.q.alone => Fits(t.q, t.file, t.managed) /\ t.file \in {s.q.base, s.q.cand}
                     /\ s.file \in {s.q.base, s.q.cand}
    <2>1. CASE ~OnlyAnswers(s, t)
      BY <2>1, PreparedIs, OwnFits, OwnStays DEF Prepared
    <2>2. CASE OnlyAnswers(s, t)
      <3>1. SUFFICES ASSUME t.q.alone
                     PROVE  Fits(t.q, t.file, t.managed) /\ t.file \in {s.q.base, s.q.cand}
                            /\ s.file \in {s.q.base, s.q.cand}
        OBVIOUS
      <3>2. s.q = req[r] /\ s.file = file /\ s.managed = managed
        BY <2>2 DEF Taken, OnlyAnswers
      <3>3. Fits(s.q, s.file, s.managed) /\ s.q.at \in Pending
        BY <2>2, <3>1, <3>2, OwnStays DEF Configuring, FilesFit, OnlyAnswers, Pending
      <3> QED  BY <2>2, <3>3, OwnStays DEF OnlyAnswers, Same, SameFile, Fits
    <2> QED  BY <2>1, <2>2
  <1>4. FilesFit'
    <2>1. ASSUME NEW x \in Requests, req'[x].alone, req'[x].at \in Pending
          PROVE  Fits(req'[x], file', managed')
      <3>1. CASE x = r
        BY <1>2, <1>3, <2>1, <3>1
      <3>2. CASE x # r
        <4>1. Fits(req[x], file, managed)
          BY <1>2, <2>1, <3>2 DEF Configuring, FilesFit
        <4> QED
          BY <1>2, <2>1, <3>2, <4>1 DEF Fits, Rollback, Reconciles
      <3> QED  BY <3>1, <3>2
    <2> QED  BY <2>1 DEF FilesFit, Fits
  <1>5. CandidatesFit'
    <2>1. s.q.cand = Candidate(s.q.base, s.q.ask.change)
      BY DEF Configuring, CandidatesFit, Taken, OnlyAnswers
    <2>2. ASSUME NEW x \in Requests, req'[x].at \notin {"idle", "read"}
          PROVE  req'[x].cand = Candidate(req'[x].base, req'[x].ask.change)
      <3>1. CASE x = r
        BY <1>2, <2>1, <3>1, OwnStays DEF Taken
      <3>2. CASE x # r
        BY <1>2, <2>2, <3>2 DEF Configuring, CandidatesFit
      <3> QED  BY <3>1, <3>2
    <2> QED  BY <2>2 DEF CandidatesFit, Candidate
  <1> QED  BY <1>3, <1>4, <1>5


\* Whose candidate is on disk after a stretch, if no requests have overlapped.
LEMMA OwnAuthor ==
    ASSUME Configuring, ~Overlapped, NEW r \in Requests, NEW s \in Stretches,
           NEW t \in Stretches, Taken(r, s, t), ~OnlyAnswers(s, t)
    PROVE  /\ Stands(s.q.before) /\ s.q.before # r
           /\ t.author \in {r, s.q.before}
           /\ t.author = r => t.q.at \in {"smoke", "dispose", "misdispose", "ok", "broken"}
           /\ t.q.at \in {"semantic", "smoke", "undispose"} =>
                t.author = IF t.q.at = "smoke" /\ Rollback(t.q) /\ t.q.base # t.q.cand
                           THEN r ELSE t.q.before
           /\ t.file = s.file => t.author = s.author
           /\ Stands(r) /\ t.file = s.file => t.q.at \in {"ok", "dispose", "misdispose", "broken"}
  <1>1. /\ Prepared(s) /\ Moves(s, t) /\ s.me = r /\ s.q.alone
        /\ s.q.at \in {"idle", "read", "semantic", "smoke"} /\ s.q.at = req[r].at
    <2>1. Prepared(s) /\ Moves(s, t)
      BY PreparedIs
    <2> QED  BY <2>1 DEF Taken, Overlapped
  <1>2. /\ Stands(s.q.before) /\ s.q.before # r
        /\ s.author = IF ~Unwritten(s.q) /\ s.q.base # s.q.cand THEN r ELSE s.q.before
    <2>1. Stands(author) /\ AuthorFits(r)
      BY DEF Configuring, AuthorsFit
    <2>2. CASE s.q = req[r] /\ s.q.at \in {"semantic", "smoke"}
      BY <2>1, <2>2 DEF AuthorFits, Taken, Unwritten
    <2>3. CASE s.q.at \in {"idle", "read"} /\ s.q.before = author
      <3>1. author # r
        BY <1>1, <2>1, <2>3, ConfigAssumption DEF Stands
      <3> QED  BY <2>1, <2>3, <3>1 DEF Taken, Unwritten
    <2> QED  BY <2>2, <2>3 DEF Taken
  <1>3. s.file = IF Unwritten(s.q) THEN s.q.base ELSE s.q.cand
    BY <1>1 DEF Prepared
  <1>4. Stands(r) => ~Unwritten(s.q) /\ s.q.base # s.q.cand
    <2>1. r # NoRequest
      BY ConfigAssumption
    <2> QED  BY <1>1, <1>2, <2>1 DEF Stands, Taken
  <1>5. CASE LeftAt(s, t, "semantic") /\ s.q.at # "smoke" /\ Same(s, t)
    BY <1>1, <1>2, <1>4, <1>5, OwnStays DEF Same, SameFile, Unwritten
  <1>6. CASE /\ LeftAt(s, t, "smoke") /\ s.q.at # "smoke" /\ t.managed = s.managed
             /\ IF Rollback(s.q) THEN SameFile(WriteCandidate(s), t) ELSE SameFile(s, t)
    BY <1>1, <1>2, <1>3, <1>4, <1>6, OwnStays, CandidateWritten DEF SameFile, Unwritten
  <1>7. CASE LeftAt(s, t, "error") /\ Unwritten(s.q) /\ Same(s, t)
    BY <1>1, <1>2, <1>4, <1>7, OwnStays DEF Same, SameFile
  <1>8. CASE Reconciled(Ready(s), t)
    <2>1. /\ Ready(s).q = s.q /\ Ready(s).file = s.q.cand
          /\ Ready(s).author = IF s.q.base # s.q.cand THEN r ELSE s.q.before
          /\ \A where : LeftAt(Ready(s), t, where) => t.q.at = where
      BY <1>1, <1>2, <1>3, <1>8, OwnStays, ReadyIs DEF LeftAt, Stretches, Request
    <2>2. CASE SameFile(Ready(s), t) /\ t.q.at \in {"ok", "dispose", "misdispose", "broken"}
      BY <1>1, <1>2, <1>3, <1>4, <2>1, <2>2, OwnStays DEF SameFile
    <2>3. CASE /\ WithBase(Ready(s), t) /\ t.q.at \in {"undispose", "broken"}
               /\ s.q.base["executor"] # s.q.cand["executor"]
      BY <1>1, <1>2, <1>3, <1>4, <2>1, <2>3, OwnStays DEF WithBase
    <2> QED  BY <1>8, <2>1, <2>2, <2>3 DEF Reconciled
  <1>9. CASE /\ ~Unwritten(s.q) /\ t.managed = s.managed
             /\ \/ LeftAt(s, t, "error") /\ WithBase(s, t)
                \/ LeftAt(s, t, "broken") /\ SameFile(s, t)
    BY <1>1, <1>2, <1>3, <1>4, <1>9, OwnStays DEF SameFile, WithBase
  <1> QED  BY <1>1, <1>5, <1>6, <1>7, <1>8, <1>9 DEF Moves

LEMMA AuthorsFitStep ==
    ASSUME Configuring, NEW r \in Requests, NEW s \in Stretches, NEW t \in Stretches,
           Taken(r, s, t)
    PROVE  AuthorsFit'
  <1> SUFFICES ASSUME ~Overlapped' PROVE (Stands(author) /\ \A x \in Requests : AuthorFits(x))'
    BY DEF AuthorsFit
  <1>1. /\ file' = t.file /\ author' = t.author /\ req'[r] = t.q
        /\ \A x \in Requests \ {r} :
             /\ req'[x].at = req[x].at /\ req'[x].ask = req[x].ask
             /\ req'[x].base = req[x].base /\ req'[x].cand = req[x].cand
             /\ req'[x].before = req[x].before
             /\ req'[x].alone => req[x].alone
             /\ req'[x].alone /\ req[x].at \in Pending => file' = file /\ managed' = managed
    BY Committed DEF Configuring
  <1>2. /\ ~Overlapped /\ s.file = file /\ s.author = author /\ s.q.at = req[r].at
        /\ \A x \in Requests \ {r} : req[x].at \in Pending => file' = file
    <2>1. \A x \in Requests : req'[x].alone
      BY DEF Overlapped
    <2>2. \A x \in Requests : req[x].alone
      BY <1>1, <2>1, OwnStays DEF Taken
    <2> QED  BY <1>1, <2>1, <2>2 DEF Overlapped, Taken
  <1>3. Stands(author) /\ (\A x \in Requests : AuthorFits(x)) /\ r # NoRequest
    BY <1>2, ConfigAssumption DEF Configuring, AuthorsFit
  <1>4. /\ file' = file => author' = author
        /\ Stands(r) /\ file' = file =>
             /\ t.q.at \in {"ok", "broken", "dispose", "misdispose"}
             /\ t.q.at \in {"dispose", "misdispose"} => author' = r
        /\ t.author = r => t.q.at \in {"smoke", "dispose", "misdispose", "ok", "broken"}
        /\ t.q.at \in {"semantic", "smoke", "undispose"} =>
             /\ Stands(t.q.before) /\ t.q.before # r
             /\ t.author = IF t.q.at = "smoke" /\ Rollback(t.q) /\ t.q.base # t.q.cand
                           THEN r ELSE t.q.before
        /\ t.author = r \/ Stands(t.author)
    <2>1. CASE OnlyAnswers(s, t)
      <3>1. /\ t.author = author
            /\ \/ s.q.at \in {"semantic", "undispose"} /\ t.q.at = "error"
               \/ s.q.at = "dispose" /\ t.q.at = "ok"
               \/ s.q.at = "misdispose" /\ t.q.at = "broken"
        BY <1>2, <2>1, OwnStays DEF OnlyAnswers, Same, SameFile
      <3>2. s.q.at \in {"semantic", "undispose"} => author # r
        BY <1>2, <1>3 DEF AuthorFits
      <3> QED  BY <1>1, <1>2, <1>3, <3>1, <3>2 DEF Stands
    <2>2. CASE ~OnlyAnswers(s, t)
      <3>1. Stands(r) => author = r
        <4>1. req[r].at \in {"idle", "read", "semantic", "smoke"}
          BY <2>2 DEF Taken
        <4> QED  BY <1>3, <4>1 DEF Stands
      <3>2. Moves(s, t)
        BY <2>2 DEF Taken
      <3> QED  BY <1>1, <1>2, <1>3, <2>2, <3>1, <3>2, OwnAuthor, OwnStays
    <2> QED  BY <2>1, <2>2
  <1>5. ASSUME NEW x \in Requests \cup {NoRequest}, x # r, Stands(x) PROVE Stands(x)'
    BY <1>1, <1>2, <1>4, <1>5 DEF Stands, Pending
  <1>6. Stands(r) /\ file' = file => Stands(r)'
    BY <1>1, <1>4 DEF Stands
  <1>7. author \in Requests \cup {NoRequest} /\ \A x \in Requests : req[x] \in Request
    BY DEF Configuring, ConfigTypeOK
  <1>8. Stands(author)'
    <2>1. CASE t.author = r
      BY <1>1, <1>4, <2>1 DEF Stands
    <2>2. CASE t.author # r
      <3>1. t.author \in Requests \cup {NoRequest}
        BY DEF Stretches
      <3> QED  BY <1>1, <1>4, <1>5, <2>2, <3>1
    <2> QED  BY <2>1, <2>2
  <1>9. ASSUME NEW x \in Requests PROVE AuthorFits(x)'
    <2>1. CASE x = r
      <3>1. t.q.before \in Requests \cup {NoRequest}
        BY DEF Stretches, Request
      <3> QED  BY <1>1, <1>4, <1>5, <2>1, <3>1 DEF AuthorFits
    <2>2. CASE x # r /\ req'[x].at \in {"semantic", "smoke", "undispose"}
      <3>1. file' = file /\ author' = author /\ req[x].at \in {"semantic", "smoke", "undispose"}
        BY <1>1, <1>2, <1>4, <2>2 DEF Pending
      <3>2. req[x].before \in Requests \cup {NoRequest} /\ AuthorFits(x)
        BY <1>3, <1>7 DEF Request
      <3>3. PICK b \in Requests \cup {NoRequest} : b = req[x].before
        BY <3>2
      <3>4. Stands(b)'
        BY <1>5, <1>6, <3>1, <3>2, <3>3 DEF AuthorFits
      <3> QED  BY <1>1, <2>2, <3>1, <3>2, <3>3, <3>4 DEF AuthorFits, Rollback, Stands
    <2> QED  BY <2>1, <2>2 DEF AuthorFits
  <1> QED  BY <1>8, <1>9


LEMMA EntriesFitStep ==
    ASSUME Configuring, NEW r \in Requests, NEW s \in Stretches, NEW t \in Stretches,
           Taken(r, s, t)
    PROVE  EntriesFit'
  <1> SUFFICES ASSUME ~Strayed'
               PROVE  (/\ \/ managed = file["executor"]
                          \/ \E x \in Requests :
                               Tested(x) /\ req[x].base["executor"] # req[x].cand["executor"]
                       /\ \A x \in Requests :
                            Tested(x) /\ req[x].base # req[x].cand =>
                              req[x].entry = req[x].base["executor"])'
    BY DEF EntriesFit
  <1>1. /\ file' = t.file /\ managed' = t.managed /\ req'[r] = t.q
        /\ \A x \in Requests \ {r} :
             req'[x] = req[x] /\ (req[x].at \in Pending => file' = file /\ managed' = managed)
    <2>1. \A x \in Requests : req'[x].alone
      BY DEF Strayed
    <2> QED  BY <2>1, Committed DEF Configuring
  <1>2. /\ t.q.alone /\ s.file = file /\ s.managed = managed /\ s.q.at = req[r].at
        /\ t.q.at \notin {"broken", "misdispose"}
        /\ Tested(r) => s.q = req[r] /\ ~OnlyAnswers(s, t)
    BY <1>1 DEF Strayed, Taken, Tested, OnlyAnswers
  <1>3. ~Strayed /\ Reconciles(s.q)
    <2>1. ASSUME NEW x \in Requests \ {r}
          PROVE  /\ req[x].alone /\ req[x].at \notin {"broken", "misdispose"}
                 /\ req[x].at \notin {"idle", "read"} => Reconciles(req[x])
      BY <1>1 DEF Strayed, Reconciles
    <2>2. /\ req[r].alone /\ req[r].at \notin {"broken", "misdispose"}
          /\ req[r].at \notin {"idle", "read"} => Reconciles(req[r])
          /\ Reconciles(s.q)
      <3>1. Reconciles(t.q) \/ t.q.at \in {"idle", "read"}
        BY <1>1 DEF Strayed, Reconciles
      <3>2. t.q.at \notin {"idle", "read"}
        <4>1. PICK where \in Pending \cup Answered : LeftAt(s, t, where) \/ LeftAt(Ready(s), t, where)
          BY DEF Taken, Moves, OnlyAnswers, Reconciled, Pending, Answered
        <4>2. Ready(s).q = s.q /\ s.q \in Request
          BY ReadyIs DEF Stretches
        <4> QED  BY <4>1, <4>2 DEF LeftAt, Request, Pending, Answered
      <3>3. s.q.at \notin {"broken", "misdispose"}
        BY <1>2, OwnStays DEF Taken, OnlyAnswers
      <3> QED  BY <1>2, <3>1, <3>2, <3>3, OwnStays DEF Taken, OnlyAnswers
    <2> QED  BY <2>1, <2>2 DEF Strayed
  <1>4. /\ \/ managed = file["executor"]
           \/ \E x \in Requests :
                Tested(x) /\ req[x].base["executor"] # req[x].cand["executor"]
        /\ \A x \in Requests :
             Tested(x) /\ req[x].base # req[x].cand => req[x].entry = req[x].base["executor"]
    BY <1>3 DEF Configuring, EntriesFit
  <1>5. /\ \A x \in Requests \ {r} : Tested(x)' <=> Tested(x)
        /\ \A x \in Requests \ {r} : Tested(x) => file' = file /\ managed' = managed
    BY <1>1 DEF Tested, Rollback, Pending
  <1>6. CASE file' = file /\ managed' = managed /\ ~Tested(r) /\ ~Tested(r)'
    BY <1>1, <1>4, <1>5, <1>6
  <1>7. CASE OnlyAnswers(s, t)
    <2>1. file' = file /\ managed' = managed /\ t.q.at # "smoke"
      BY <1>1, <1>2, <1>7, OwnStays DEF OnlyAnswers, Same, SameFile
    <2> QED  BY <1>1, <1>2, <1>6, <1>7, <2>1 DEF Tested
  <1>8. CASE ~OnlyAnswers(s, t)
    <2>1. /\ Prepared(s) /\ Moves(s, t) /\ s.managed = s.q.entry
          /\ s.file = IF Unwritten(s.q) THEN s.q.base ELSE s.q.cand
          /\ Unwritten(s.q) <=> ~Tested(r)
      <3>1. Prepared(s) /\ Moves(s, t)
        BY <1>8, PreparedIs
      <3>2. Unwritten(s.q) <=> ~Tested(r)
        BY <1>2, <1>8 DEF Taken, Tested, Unwritten
      <3> QED  BY <1>2, <3>1, <3>2, OwnStays DEF Prepared
    <2>2. CASE LeftAt(s, t, "semantic") /\ s.q.at # "smoke" /\ Same(s, t)
      BY <1>1, <1>2, <1>6, <2>1, <2>2, OwnStays DEF Same, SameFile, Tested
    <2>3. CASE LeftAt(s, t, "error") /\ Unwritten(s.q) /\ Same(s, t)
      BY <1>1, <1>2, <1>6, <2>1, <2>3, OwnStays DEF Same, SameFile, Tested
    <2>4. ASSUME Unwritten(s.q), file' # file
          PROVE  managed = s.q.base["executor"] /\ \A x \in Requests \ {r} : ~Tested(x)'
      BY <1>2, <1>4, <1>5, <2>1, <2>4
    <2>5. CASE /\ LeftAt(s, t, "smoke") /\ s.q.at # "smoke" /\ t.managed = s.managed
               /\ IF Rollback(s.q) THEN SameFile(WriteCandidate(s), t) ELSE SameFile(s, t)
      <3>1. t.q.at = "smoke" /\ Unwritten(s.q) /\ managed' = managed
        BY <1>1, <1>2, <2>1, <2>5, OwnStays DEF Unwritten
      <3>2. CASE ~Rollback(s.q)
        BY <1>1, <1>2, <1>6, <2>1, <2>5, <3>1, <3>2, OwnStays DEF SameFile, Tested
      <3>3. CASE Rollback(s.q)
        <4>1. file' = s.q.cand /\ Tested(r)'
          BY <1>1, <2>1, <2>5, <3>1, <3>3, OwnStays, CandidateWritten DEF SameFile, Tested
        <4>2. CASE s.q.base = s.q.cand
          BY <1>1, <1>2, <1>4, <1>5, <2>1, <3>1, <4>1, <4>2, OwnStays
        <4>3. CASE s.q.base # s.q.cand
          BY <1>1, <1>2, <2>1, <2>4, <3>1, <4>1, <4>3, OwnStays
        <4> QED  BY <4>2, <4>3
      <3> QED  BY <3>2, <3>3
    <2>6. CASE Reconciled(Ready(s), t)
      <3>1. /\ Ready(s).q = s.q /\ Ready(s).file = s.q.cand /\ Ready(s).managed = managed
            /\ \A where : LeftAt(Ready(s), t, where) => t.q.at = where
        BY <1>2, <2>1, <2>6, OwnStays, ReadyIs DEF LeftAt, Stretches, Request
      <3>2. t.q.at # "smoke" /\ ~Tested(r)'
        BY <1>1, <2>6, <3>1 DEF Reconciled, Tested
      <3>3. \A x \in Requests : Tested(x)' /\ req'[x].base # req'[x].cand =>
              req'[x].entry = req'[x].base["executor"]
        BY <1>1, <1>4, <1>5, <3>2
      <3>4. CASE /\ SameFile(Ready(s), t) /\ t.managed = managed
                 /\ s.q.base["executor"] # s.q.cand["executor"] => managed = s.q.cand["executor"]
        <4>1. file' = s.q.cand /\ managed' = managed
          BY <1>1, <3>1, <3>4 DEF SameFile
        <4>2. CASE s.q.base["executor"] # s.q.cand["executor"]
          BY <3>3, <3>4, <4>1, <4>2
        <4>3. CASE s.q.base["executor"] = s.q.cand["executor"] /\ file' = file
          <5>1. ~(Tested(r) /\ req[r].base["executor"] # req[r].cand["executor"])
            BY <1>2, <4>3
          <5> QED  BY <1>1, <1>4, <1>5, <3>3, <4>1, <4>3, <5>1
        <4>4. CASE s.q.base["executor"] = s.q.cand["executor"] /\ file' # file
          BY <1>2, <2>1, <2>4, <3>3, <4>1, <4>4
        <4> QED  BY <4>2, <4>3, <4>4
      <3>5. CASE SameFile(Ready(s), t) /\ t.managed = s.q.cand["executor"]
        BY <1>1, <3>1, <3>3, <3>5 DEF SameFile
      <3>6. CASE /\ WithBase(Ready(s), t) /\ t.managed = s.q.entry
                 /\ s.q.base["executor"] # s.q.cand["executor"]
        <4>1. file' = s.q.base /\ managed' = managed
          BY <1>1, <1>2, <2>1, <3>1, <3>6 DEF WithBase
        <4>2. CASE Unwritten(s.q)
          BY <1>2, <1>6, <2>1, <3>2, <4>1, <4>2
        <4>3. CASE Tested(r)
          BY <1>2, <1>4, <2>1, <3>3, <3>6, <4>1, <4>3
        <4> QED  BY <2>1, <4>2, <4>3
      <3> QED  BY <1>2, <1>3, <2>6, <3>1, <3>4, <3>5, <3>6 DEF Reconciled
    <2>7. CASE /\ ~Unwritten(s.q) /\ t.managed = s.managed
               /\ \/ LeftAt(s, t, "error") /\ WithBase(s, t)
                  \/ LeftAt(s, t, "broken") /\ SameFile(s, t)
      <3>1. t.q.at = "error" /\ file' = s.q.base /\ managed' = managed /\ ~Tested(r)'
        BY <1>1, <1>2, <2>1, <2>7, OwnStays DEF WithBase, Tested
      <3>2. \A x \in Requests : Tested(x)' /\ req'[x].base # req'[x].cand =>
              req'[x].entry = req'[x].base["executor"]
        BY <1>1, <1>4, <1>5, <3>1
      <3>3. CASE s.q.base = s.q.cand
        <4>1. ~(Tested(r) /\ req[r].base["executor"] # req[r].cand["executor"])
          BY <1>2, <3>3
        <4> QED  BY <1>1, <1>2, <1>4, <1>5, <2>1, <2>7, <3>1, <3>2, <3>3, <4>1
      <3>4. CASE s.q.base # s.q.cand
        BY <1>2, <1>4, <2>1, <2>7, <3>1, <3>2, <3>4
      <3> QED  BY <3>3, <3>4
    <2> QED  BY <2>1, <2>2, <2>3, <2>5, <2>6, <2>7 DEF Moves
  <1> QED  BY <1>7, <1>8


LEMMA ConfiguringInit == ConfigInit => Configuring
  <1> SUFFICES ASSUME ConfigInit PROVE Configuring
    OBVIOUS
  <1>1. PICK same \in Configs : same = [f \in Fields |-> Default]
    BY ConfigAssumption DEF Configs
  <1>2. same \in Changes
    <2>1. Fields \in (SUBSET Fields) \ {{}}
      BY DEF Fields
    <2> QED  BY <1>1, <2>1 DEF Changes, Configs
  <1>3. [route |-> "plain", kind |-> "replace", change |-> same, smoke |-> FALSE] \in Asks
    BY <1>2 DEF Asks, AllRoutes, Kinds
  <1>4. Idle = [at |-> "idle", seen |-> NoConfig,
                ask |-> [route |-> "plain", kind |-> "replace", change |-> same, smoke |-> FALSE],
                base |-> same, cand |-> same, entry |-> Default, before |-> NoRequest,
                alone |-> TRUE]
    BY <1>1 DEF Idle
  <1>5. Idle \in Request /\ Idle.at = "idle" /\ Idle.alone
    BY <1>1, <1>3, <1>4, ConfigAssumption DEF Request
  <1>6. \A r \in Requests : req[r] \in Request /\ req[r].at = "idle" /\ req[r].alone
    BY <1>5 DEF ConfigInit
  <1>7. ConfigTypeOK
    BY <1>1, <1>6, ConfigAssumption DEF ConfigInit, ConfigTypeOK
  <1>8. managed = file["executor"]
    BY DEF ConfigInit, Fields
  <1> QED
    BY <1>6, <1>7, <1>8
       DEF Configuring, FilesFit, CandidatesFit, AuthorsFit, AuthorFits, Stands, EntriesFit,
           Tested, Pending, ConfigInit

LEMMA ConfiguringStep ==
    ASSUME Configuring, [ConfigNext]_configVars
    PROVE  Configuring'
  <1>1. CASE UNCHANGED configVars
    BY <1>1
       DEF configVars, Configuring, ConfigTypeOK, FilesFit, Fits, CandidatesFit, AuthorsFit,
           AuthorFits, Overlapped, Stands, EntriesFit, Strayed, Tested
  <1>2. ASSUME NEW r \in Requests, GetConfig(r) PROVE Configuring'
    <2>1. /\ UNCHANGED <<file, managed, author, writeFaults>> /\ req[r].at = "idle"
          /\ req' = [req EXCEPT ![r].at = "read", ![r].seen = file]
          /\ ConfigTypeOK
      BY <1>2 DEF GetConfig, Configuring
    <2>2. /\ req[r] \in Request /\ DOMAIN req = Requests
          /\ [req[r] EXCEPT !.at = "read", !.seen = file] \in Request
          /\ [req[r] EXCEPT !.at = "read", !.seen = file].at = "read"
          /\ [req[r] EXCEPT !.at = "read", !.seen = file].alone = req[r].alone
      BY <2>1 DEF ConfigTypeOK, Request
    <2>3. /\ req'[r] \in Request /\ req'[r].at = "read" /\ req'[r].alone = req[r].alone
          /\ \A x \in Requests \ {r} : req'[x] = req[x]
          /\ DOMAIN req' = Requests
      BY <2>1, <2>2
    <2>4. ConfigTypeOK'
      BY <2>1, <2>3 DEF ConfigTypeOK
    <2>5. FilesFit' /\ CandidatesFit'
      BY <2>1, <2>3 DEF Configuring, FilesFit, Fits, CandidatesFit, Pending
    <2>6. AuthorsFit'
      <3>1. Overlapped' <=> Overlapped
        BY <2>3 DEF Overlapped
      <3>2. \A x : Stands(x) => Stands(x)'
        BY <2>1, <2>3 DEF Stands
      <3>3. Stands(author) => Stands(author)'
        BY <2>1, <2>3 DEF Stands
      <3>4. \A x \in Requests : AuthorFits(x) => AuthorFits(x)'
        <4>1. ASSUME NEW x \in Requests, AuthorFits(x),
                     req'[x].at \in {"semantic", "smoke", "undispose"}
              PROVE  AuthorFits(x)'
          <5>1. x # r /\ req'[x] = req[x]
            BY <2>3, <4>1
          <5>2. Stands(req[x].before) => Stands(req[x].before)'
            BY <2>1, <2>3, <5>1 DEF Stands
          <5> QED  BY <2>1, <4>1, <5>1, <5>2 DEF AuthorFits, Rollback
        <4> QED  BY <4>1 DEF AuthorFits
      <3> QED  BY <3>1, <3>3, <3>4 DEF Configuring, AuthorsFit
    <2>7. EntriesFit'
      <3>1. Strayed' <=> Strayed
        BY <2>1, <2>3 DEF Strayed, Reconciles
      <3>2. \A x \in Requests : Tested(x)' <=> Tested(x)
        BY <2>1, <2>3 DEF Tested, Rollback
      <3>3. \A x \in Requests : Tested(x) => req'[x] = req[x]
        BY <2>1, <2>3 DEF Tested
      <3> QED  BY <2>1, <3>1, <3>2, <3>3 DEF Configuring, EntriesFit
    <2> QED  BY <2>4, <2>5, <2>6, <2>7 DEF Configuring
  <1>3. ASSUME NEW r \in Requests, Submitted(r) \/ Resumes(r) PROVE Configuring'
    <2>1. PICK s \in Stretches, t \in Stretches : Taken(r, s, t)
      BY <1>3, StretchTaken DEF Configuring
    <2> QED
      BY <2>1, Committed, FilesFitStep, AuthorsFitStep, EntriesFitStep DEF Configuring
  <1> QED  BY <1>1, <1>2, <1>3 DEF ConfigNext

LEMMA ConfiguringAlways == ConfigSpec => []Configuring
  BY ConfiguringInit, ConfiguringStep, PTL DEF ConfigSpec

\* Unless requests have overlapped, the configuration in force is never that of a
\* request that failed.
THEOREM RejectedGivesWay == ConfigSpec => []RejectedNeedsOverlap
  <1>1. Configuring => RejectedNeedsOverlap
    BY DEF Configuring, AuthorsFit, Overlapped, Stands, RejectedNeedsOverlap
  <1> QED  BY <1>1, ConfiguringAlways, PTL

\* Requests of the /api/config routes that do not overlap leave OpenCode with the
\* executor of the configuration in force.
THEOREM ExecutorFollows == ConfigSpec => []ExecutorEntryFollows
  <1>1. Configuring => ExecutorEntryFollows
    <2>1. Quiet => \A r \in Requests : ~Tested(r) /\ req[r].at # "misdispose"
      BY DEF Quiet, Pending, Tested
    <2> QED
      BY <2>1 DEF Configuring, EntriesFit, Strayed, ExecutorEntryFollows
  <1> QED  BY <1>1, ConfiguringAlways, PTL

\* An answered request has been applied whole or has left both files as it found them,
\* unless it was overtaken or the answer says otherwise.
THEOREM LoneRequestsAreAtomic == ConfigSpec => AloneIsAtomic
  <1> DEFINE Whole == \A r \in Requests :
          req[r].at \notin Answered /\ req'[r].alone => Atomic(req[r])'
  <1>1. Configuring /\ [ConfigNext]_configVars => [Whole]_configVars
    <2> SUFFICES ASSUME Configuring, ConfigNext, NEW r \in Requests,
                        req[r].at \notin Answered, req'[r].alone
                 PROVE  Atomic(req[r])'
      OBVIOUS
    <2>1. PICK x \in Requests : GetConfig(x) \/ Submitted(x) \/ Resumes(x)
      BY DEF ConfigNext
    <2>2. CASE GetConfig(x)
      <3>1. req'[r].at \notin {"ok", "error"}
        BY <2>2 DEF GetConfig, Answered, Configuring, ConfigTypeOK, Request
      <3> QED  BY <3>1 DEF Atomic
    <2>3. CASE Submitted(x) \/ Resumes(x)
      <3>1. PICK s \in Stretches, t \in Stretches : Taken(x, s, t)
        BY <2>1, <2>3, StretchTaken DEF Configuring
      <3>2. CASE r = x
        <4>1. req'[r] = t.q /\ file' = t.file /\ managed' = t.managed /\ t.q.alone
          BY <3>1, <3>2, Committed DEF Configuring
        <4>2. Fits(t.q, t.file, t.managed)
          BY <3>1, <4>1, FilesFitStep
        <4> QED  BY <4>1, <4>2 DEF Fits, Atomic, Reconciles
      <3>3. CASE r # x
        <4>1. req'[r].at \notin {"ok", "error"}
          BY <3>1, <3>3, Committed DEF Configuring, Answered
        <4> QED  BY <4>1 DEF Atomic
      <3> QED  BY <3>2, <3>3
    <2> QED  BY <2>1, <2>2, <2>3
  <1> QED  BY <1>1, ConfiguringInit, ConfiguringStep, PTL DEF ConfigSpec, AloneIsAtomic

\* A request that has not been overtaken changes no field but those it names.
THEOREM OwnFieldsOnly == ConfigSpec => OnlyOwnFieldsChange
  <1> DEFINE Own == \A r \in Requests, f \in Fields :
          req'[r] # req[r] /\ file'[f] # file[f] /\ f \notin DOMAIN req'[r].ask.change
             /\ req'[r].at # "read"
          => ~req'[r].alone
  <1>1. Configuring /\ [ConfigNext]_configVars => [Own]_configVars
    <2> SUFFICES ASSUME Configuring, ConfigNext, NEW r \in Requests, NEW f \in Fields,
                        req'[r] # req[r], file'[f] # file[f], req'[r].alone,
                        f \notin DOMAIN req'[r].ask.change
                 PROVE  FALSE
      OBVIOUS
    <2>1. PICK x \in Requests : Submitted(x) \/ Resumes(x)
      BY DEF ConfigNext, GetConfig
    <2>2. PICK s \in Stretches, t \in Stretches : Taken(x, s, t)
      BY <2>1, StretchTaken DEF Configuring
    <2>3. r = x
      BY <2>2, Committed DEF Configuring
    <2>4. req'[r] = t.q /\ file' = t.file /\ s.file = file /\ t.q.alone
      BY <2>2, <2>3, Committed DEF Configuring, Taken
    <2>5. {file, file'} \subseteq {s.q.base, s.q.cand}
      BY <2>2, <2>4, FilesFitStep
    <2>6. s.q.cand = Candidate(s.q.base, s.q.ask.change)
      BY <2>2 DEF Configuring, CandidatesFit, Taken, OnlyAnswers
    <2>7. t.q.ask = s.q.ask
      BY <2>2, OwnStays DEF Taken
    <2>8. s.q.cand[f] = s.q.base[f]
      BY <2>4, <2>6, <2>7 DEF Candidate
    <2> QED  BY <2>5, <2>8
  <1> QED  BY <1>1, ConfiguringInit, ConfiguringStep, PTL DEF ConfigSpec, OnlyOwnFieldsChange

-------------------------------------------------------------------------------
(* The command line.                                                       *)

\* What a command has made of its version and of OpenCode's on its way.
CommandAims ==
    /\ command.at \in {"opencode", "package", "assets", "asking", "units", "restart"} =>
          command.version \in Releases
    /\ command.at \in {"package", "assets", "asking", "units", "restart"} =>
          home.opencode = command.pin
    /\ command.at \in {"assets", "asking", "units", "restart"} =>
          home.cli = command.version /\ home.shim = command.pin
    /\ command.at = "model" /\ command.refreshed => service.knows = credentials

\* What users write is new when they write it, and an edit not seen yet differs from
\* what is recorded.
Known(c) == c \in LocalEdits => c \in edited

EditsKnown ==
    /\ Known(command.found)
    /\ \A f \in AssetFiles :
          Known(assets[f]) /\ Known(assetRecord[f].applied) /\ Known(command.entries[f].applied)
    /\ \A f \in unseen :
          /\ assets[f] \in LocalEdits
          /\ assetRecord[f].there => assetRecord[f].applied # assets[f]

\* An entry tells what is in place, unless a user has written since.
EntryTells(e, content) ==
    /\ ~e.there => e.applied = 0
    /\ e.applied \in {e.source} \cup LocalEdits
    /\ content \in {e.applied} \cup LocalEdits

RecordTells ==
    \A f \in AssetFiles \ unrecorded : EntryTells(assetRecord[f], assets[f])

\* So do the entries of the files done, of those that will count as recorded.
SyncTells ==
    command.at \in {"assets", "asking"} =>
        \A f \in AssetFiles \ command.todo :
            f \notin unrecorded \/ assets[f] = Shipped(f) =>
                /\ EntryTells(command.entries[f], assets[f])
                /\ assets[f] \in {Shipped(f)} \cup LocalEdits

\* While a command asks about a file.
AskTells ==
    command.at = "asking" =>
        /\ command.file \in command.todo /\ command.found # 0
        /\ assetRecord[command.file].there
        /\ Shipped(command.file) = 0 \/ PackageChanged(command.file)
        /\ assets[command.file] \in {command.found} \cup LocalEdits
        /\ command.file \notin unrecorded => command.found \in LocalEdits

DoneTells ==
    command.at \in {"units", "restart"} =>
        \A f \in AssetFiles \ unrecorded : assets[f] \in {Shipped(f)} \cup LocalEdits

Installing ==
    /\ InstallerTypeOK /\ CommandAims /\ EditsKnown
    /\ RecordTells /\ SyncTells /\ AskTells /\ DoneTells

LEMMA InstallerValues ==
    /\ 0 \in AssetContents /\ 0 \notin LocalEdits /\ LocalEdits \subseteq AssetContents
    /\ 0 \in OpencodeVersions /\ 0 \in 0 .. MaxVersion /\ 1 \in Releases
    /\ Releases \subseteq 0 .. MaxVersion /\ 0 \in 0 .. MaxLogins
    /\ MaxVersion \in Nat /\ MaxCommands \in Nat /\ MaxFailures \in Nat /\ MaxLogins \in Nat
    /\ \A v \in Releases : Pins[v] \in OpencodeVersions
    /\ \A v \in Releases, f \in AssetFiles :
          Packaged[v][f] \in AssetContents /\ Packaged[v][f] \notin LocalEdits
    /\ NoEntry \in Entry /\ ~NoEntry.there /\ NoEntry.applied = 0 /\ NoEntry.source = 0
    /\ NoHome \in Home /\ Stopped \in Service
  <1>1. /\ 0 \in AssetContents /\ 0 \notin LocalEdits /\ LocalEdits \subseteq AssetContents
        /\ 0 \in OpencodeVersions
    BY InstallerAssumption DEF AssetContents, OpencodeVersions
  <1>2. /\ MaxVersion \in Nat /\ MaxCommands \in Nat /\ MaxFailures \in Nat /\ MaxLogins \in Nat
        /\ MaxVersion # 0
    BY InstallerAssumption
  <1>3. /\ 0 \in 0 .. MaxVersion /\ 1 \in Releases /\ Releases \subseteq 0 .. MaxVersion
        /\ 0 \in 0 .. MaxLogins
    BY <1>2 DEF Releases
  <1>4. \A v \in Releases : Pins[v] \in OpencodeVersions
    BY DEF OpencodeVersions
  <1>5. \A v \in Releases, f \in AssetFiles :
           Packaged[v][f] \in AssetContents /\ Packaged[v][f] \notin LocalEdits
    BY InstallerAssumption DEF AssetContents
  <1>6. NoEntry \in Entry /\ ~NoEntry.there /\ NoEntry.applied = 0 /\ NoEntry.source = 0
    BY <1>1 DEF NoEntry, Entry
  <1>7. NoHome \in Home /\ Stopped \in Service
    BY <1>1, <1>3 DEF NoHome, Home, Stopped, Service
  <1> QED  BY <1>1, <1>2, <1>3, <1>4, <1>5, <1>6, <1>7

LEMMA NoCommandIs ==
    /\ NoCommand \in Command /\ NoCommand.at = "none" /\ NoCommand.found = 0
    /\ \A f \in AssetFiles : NoCommand.entries[f].applied = 0
  <1>1. (CHOOSE f \in AssetFiles : TRUE) \in AssetFiles
    BY InstallerAssumption
  <1>2. NoEntries \in [AssetFiles -> Entry] /\ \A f \in AssetFiles : NoEntries[f] = NoEntry
    BY InstallerValues DEF NoEntries
  <1> QED  BY <1>1, <1>2, InstallerValues DEF NoCommand, Command

LEMMA InstallingInit == InstallerInit => Installing
  <1> SUFFICES ASSUME InstallerInit PROVE Installing
    OBVIOUS
  <1>1. NoEntries \in [AssetFiles -> Entry] /\ \A f \in AssetFiles : NoEntries[f] = NoEntry
    BY InstallerValues DEF NoEntries
  <1>2. assets \in [AssetFiles -> AssetContents] /\ \A f \in AssetFiles : assets[f] = 0
    BY InstallerValues DEF InstallerInit
  <1>3. InstallerTypeOK
    <2>1. 0 \in 0 .. MaxCommands /\ 0 \in 0 .. MaxFailures
      BY InstallerValues
    <2> QED
      BY <1>1, <1>2, <2>1, InstallerValues, NoCommandIs DEF InstallerInit, InstallerTypeOK
  <1> QED
    BY <1>1, <1>2, <1>3, InstallerValues, NoCommandIs
       DEF InstallerInit, Installing, CommandAims, EditsKnown, Known, RecordTells, EntryTells,
           SyncTells, AskTells, DoneTells

\* Whatever leaves the assets and their record as they are, and ends a command or
\* leaves it where it is.
LEMMA AssetsStand ==
    ASSUME Installing, UNCHANGED <<assets, assetRecord, edited, unseen, unrecorded>>,
           \/ /\ command' \in Command /\ command'.at \notin {"assets", "asking", "units", "restart"}
              /\ command'.found = 0 /\ \A f \in AssetFiles : command'.entries[f].applied = 0
           \/ UNCHANGED command
           \/ /\ command'.at = "assets" /\ command'.todo = AssetFiles
              /\ command'.found = command.found /\ command'.entries = command.entries
           \/ /\ command'.at \notin {"assets", "asking"}
              /\ command'.at \in {"units", "restart"} => command.at \in {"units", "restart"}
              /\ command'.found = command.found /\ command'.entries = command.entries
              /\ command'.version = command.version
    PROVE  EditsKnown' /\ RecordTells' /\ SyncTells' /\ AskTells' /\ DoneTells'
  <1>1. EditsKnown'
    BY InstallerValues DEF Installing, EditsKnown, Known
  <1>2. RecordTells'
    BY DEF Installing, RecordTells, EntryTells
  <1>3. SyncTells' /\ AskTells' /\ DoneTells'
    BY DEF Installing, SyncTells, AskTells, DoneTells, EntryTells, Shipped, PackageChanged
  <1> QED  BY <1>1, <1>2, <1>3


LEMMA InvokesStep ==
    ASSUME Installing, NEW mode \in {"install", "update"}, NEW by \in {"shim", "wrapper"},
           NEW latest \in BOOLEAN, NEW unattended \in BOOLEAN,
           Invokes(mode, by, latest, unattended)
    PROVE  Installing'
  <1>1. InstallerTypeOK /\ home \in Home /\ published \in Releases
    BY DEF Installing, InstallerTypeOK
  <1>2. PICK running \in 0 .. MaxVersion : running = Bootstrapped(mode, by)
    BY <1>1, InstallerValues DEF Bootstrapped, Home
  <1>3. running \in Releases
    BY <1>1, <1>2, InstallerValues DEF Invokes, Bootstrapped, Home, Releases
  <1>4. PICK version \in Releases : version = TargetVersion(running, latest)
    BY <1>1, <1>3 DEF TargetVersion
  <1>5. PICK pin \in OpencodeVersions : pin = OpencodePin(running, by)
    BY <1>1, <1>3, InstallerValues DEF OpencodePin, Home
  <1>6. /\ home' = [home EXCEPT !.cli = running] /\ commands' = commands + 1
        /\ commands < MaxCommands
        /\ command' = [NoCommand EXCEPT !.at = "opencode", !.mode = mode,
                          !.unattended = unattended, !.version = version, !.pin = pin]
        /\ UNCHANGED <<published, service, files, credentials, failures, edited, unseen,
                       unrecorded>>
    BY <1>2, <1>4, <1>5 DEF Invokes
  <1>7. /\ command' \in Command /\ command'.at = "opencode" /\ command'.version = version
        /\ command'.found = 0 /\ command'.entries = NoCommand.entries
    BY <1>4, <1>6, InstallerValues, NoCommandIs DEF Command
  <1>8. home' \in Home
    BY <1>1, <1>6 DEF Home
  <1>9. InstallerTypeOK'
    BY <1>1, <1>6, <1>7, <1>8, InstallerValues DEF InstallerTypeOK, files
  <1>10. CommandAims'
    BY <1>7 DEF CommandAims
  <1>11. EditsKnown' /\ RecordTells' /\ SyncTells' /\ AskTells' /\ DoneTells'
    BY <1>6, <1>7, AssetsStand, NoCommandIs DEF files
  <1> QED  BY <1>9, <1>10, <1>11 DEF Installing

\* The package and OpenCode take their places, and the units are written.
LEMMA InstallsStep ==
    ASSUME Installing, InstallsOpencode \/ InstallsPackage \/ WritesUnits
    PROVE  Installing'
  <1>1. /\ InstallerTypeOK /\ home \in Home /\ command \in Command /\ CommandAims
        /\ UNCHANGED <<published, files, credentials, installerHistory>>
    BY DEF Installing, InstallerTypeOK, InstallsOpencode, InstallsPackage, WritesUnits
  <1>2. CASE InstallsOpencode
    <2>1. /\ home' \in Home /\ home'.opencode = command.pin
          /\ command' \in Command /\ command'.at = "package" /\ command'.pin = command.pin
          /\ command'.version = command.version /\ command'.found = command.found
          /\ command'.entries = command.entries
      BY <1>1, <1>2 DEF InstallsOpencode, Installed, Home, Command
    <2>2. InstallerTypeOK' /\ CommandAims'
      BY <1>1, <1>2, <2>1
         DEF InstallsOpencode, InstallerTypeOK, CommandAims, files, installerHistory
    <2> QED
      BY <1>1, <2>1, <2>2, AssetsStand DEF Installing, files, installerHistory
  <1>3. CASE InstallsPackage
    <2>1. PICK h : h = [home EXCEPT !["cli"] = command.version]
      OBVIOUS
    <2>2. h = [home EXCEPT !.cli = command.version] /\ home' = [h EXCEPT !.shim = command.pin]
      BY <1>3, <2>1 DEF InstallsPackage, Installed, Shimmed
    <2>3. /\ home' \in Home /\ home'.opencode = home.opencode
          /\ home'.cli = command.version /\ home'.shim = command.pin
      BY <1>1, <2>2 DEF Home, Command
    <2>4. /\ command' \in Command /\ command'.at = "assets" /\ command'.pin = command.pin
          /\ command'.version = command.version /\ command'.found = command.found
          /\ command'.entries = command.entries /\ command'.todo = AssetFiles
      BY <1>1, <1>3 DEF InstallsPackage, Command
    <2>5. InstallerTypeOK' /\ CommandAims'
      BY <1>1, <1>3, <2>3, <2>4
         DEF InstallsPackage, InstallerTypeOK, CommandAims, files, installerHistory
    <2> QED
      BY <1>1, <2>4, <2>5, AssetsStand DEF Installing, files, installerHistory
  <1>4. CASE WritesUnits
    <2>1. /\ home' \in Home /\ home'.opencode = home.opencode
          /\ home'.cli = home.cli /\ home'.shim = home.shim
      BY <1>1, <1>4 DEF WritesUnits, Home
    <2>2. service' \in Service
      BY <1>1, <1>4 DEF WritesUnits, Started, InstallerTypeOK, Service, Home
    <2>3. CASE command' = [command EXCEPT !.at = "restart"]
      <3>1. /\ command' \in Command /\ command'.at = "restart" /\ command'.pin = command.pin
            /\ command'.version = command.version /\ command'.found = command.found
            /\ command'.entries = command.entries
        BY <1>1, <2>3 DEF Command
      <3>2. InstallerTypeOK' /\ CommandAims'
        BY <1>1, <1>4, <2>1, <2>2, <3>1
           DEF WritesUnits, InstallerTypeOK, CommandAims, files, installerHistory
      <3> QED
        BY <1>1, <1>4, <3>1, <3>2, AssetsStand DEF WritesUnits, Installing, files, installerHistory
    <2>4. CASE command' = NoCommand
      <3>1. InstallerTypeOK' /\ CommandAims'
        BY <1>1, <2>1, <2>2, <2>4, NoCommandIs
           DEF InstallerTypeOK, CommandAims, files, installerHistory
      <3> QED
        BY <1>1, <2>4, <3>1, AssetsStand, NoCommandIs DEF Installing, files, installerHistory
    <2>5. CASE command' = [command EXCEPT !.at = "onboarding"]
      <3>1. /\ command' \in Command /\ command'.at = "onboarding"
            /\ command'.version = command.version /\ command'.found = command.found
            /\ command'.entries = command.entries
        BY <1>1, <2>5 DEF Command
      <3>2. InstallerTypeOK' /\ CommandAims'
        BY <1>1, <2>1, <2>2, <3>1
           DEF InstallerTypeOK, CommandAims, files, installerHistory
      <3> QED
        BY <1>1, <3>1, <3>2, AssetsStand DEF Installing, files, installerHistory
    <2> QED  BY <1>4, <2>3, <2>4, <2>5 DEF WritesUnits
  <1> QED  BY <1>2, <1>3, <1>4

\* The services and onboarding touch no asset file.
LEMMA ServicesStep ==
    ASSUME Installing,
           \/ UpdateEnds \/ ManagesServices \/ SystemdRestarts \/ Onboards \/ LogsIn
           \/ RefreshesAuth \/ OnboardingEnds \/ Publishes
    PROVE  Installing'
  <1>1. /\ InstallerTypeOK /\ home \in Home /\ command \in Command /\ CommandAims
        /\ service \in Service /\ Started \in Service /\ credentials \in 0 .. MaxLogins
        /\ Started.knows = credentials
    BY DEF Installing, InstallerTypeOK, Started, Service, Home
  <1>2. UNCHANGED <<home, files, installerHistory>>
    BY DEF UpdateEnds, ManagesServices, SystemdRestarts, Onboards, LogsIn, RefreshesAuth,
           OnboardingEnds, Publishes
  <1>3. ASSUME \/ command' = NoCommand
               \/ command' = [NoCommand EXCEPT !.at = "onboarding"]
        PROVE  /\ command' \in Command /\ command'.at \in {"none", "onboarding"}
               /\ EditsKnown' /\ RecordTells' /\ SyncTells' /\ AskTells' /\ DoneTells'
    <2>1. /\ command' \in Command /\ command'.at \in {"none", "onboarding"}
          /\ command'.found = 0 /\ \A f \in AssetFiles : command'.entries[f].applied = 0
      BY <1>3, NoCommandIs DEF Command
    <2> QED  BY <1>2, <2>1, AssetsStand DEF files, installerHistory
  <1>4. ASSUME UNCHANGED command
        PROVE  EditsKnown' /\ RecordTells' /\ SyncTells' /\ AskTells' /\ DoneTells'
    BY <1>2, <1>4, AssetsStand DEF files, installerHistory
  <1>5. CASE UpdateEnds
    BY <1>1, <1>2, <1>3, <1>5
       DEF UpdateEnds, Installing, InstallerTypeOK, CommandAims, files, installerHistory
  <1>6. CASE ManagesServices
    <2>1. service' \in Service
      BY <1>1, <1>6, InstallerValues DEF ManagesServices
    <2> QED
      BY <1>1, <1>2, <1>4, <1>6, <2>1
         DEF ManagesServices, Installing, InstallerTypeOK, CommandAims, files, installerHistory
  <1>7. CASE SystemdRestarts
    <2>1. service' \in Service /\ service'.knows \in {service.knows, credentials}
      BY <1>1, <1>7 DEF SystemdRestarts, Service, Home
    <2> QED
      BY <1>1, <1>2, <1>4, <1>7, <2>1
         DEF SystemdRestarts, Installing, InstallerTypeOK, CommandAims, files, installerHistory
  <1>8. CASE Onboards
    BY <1>1, <1>2, <1>3, <1>8
       DEF Onboards, Installing, InstallerTypeOK, CommandAims, files, installerHistory
  <1>9. CASE LogsIn
    <2>1. /\ command' \in Command /\ command'.at = "refresh"
          /\ command'.version = command.version /\ command'.found = command.found
          /\ command'.entries = command.entries /\ credentials' \in 0 .. MaxLogins
      BY <1>1, <1>9, InstallerValues DEF LogsIn, Command
    <2>2. InstallerTypeOK' /\ CommandAims'
      BY <1>1, <1>2, <1>9, <2>1
         DEF LogsIn, InstallerTypeOK, CommandAims, files, installerHistory
    <2> QED  BY <1>2, <2>1, <2>2, AssetsStand DEF Installing, files, installerHistory
  <1>10. CASE RefreshesAuth
    <2>1. /\ command' \in Command /\ command'.at = "model"
          /\ command'.version = command.version /\ command'.found = command.found
          /\ command'.entries = command.entries /\ service' \in Service
          /\ command'.refreshed => service'.knows = credentials
      <3>1. CASE /\ service' = [service EXCEPT !.opencode = home.opencode, !.knows = credentials]
                 /\ command' = [command EXCEPT !.at = "model"]
        BY <1>1, <3>1 DEF Command, Service, Home
      <3>2. CASE /\ command' = [command EXCEPT !.at = "model", !.refreshed = FALSE]
                 /\ UNCHANGED service
        BY <1>1, <3>2 DEF Command
      <3> QED  BY <1>10, <3>1, <3>2 DEF RefreshesAuth
    <2>2. InstallerTypeOK' /\ CommandAims'
      BY <1>1, <1>2, <1>10, <2>1
         DEF RefreshesAuth, InstallerTypeOK, CommandAims, files, installerHistory
    <2> QED  BY <1>2, <2>1, <2>2, AssetsStand DEF Installing, files, installerHistory
  <1>11. CASE OnboardingEnds
    BY <1>1, <1>2, <1>3, <1>11
       DEF OnboardingEnds, Installing, InstallerTypeOK, CommandAims, files, installerHistory
  <1>12. CASE Publishes
    <2>1. published' \in Releases
      BY <1>1, <1>12, InstallerValues DEF Publishes, InstallerTypeOK, Releases
    <2> QED
      BY <1>1, <1>2, <1>4, <1>12, <2>1
         DEF Publishes, Installing, InstallerTypeOK, CommandAims, files, installerHistory
  <1> QED  BY <1>5, <1>6, <1>7, <1>8, <1>9, <1>10, <1>11, <1>12


LEMMA NextAssetOf ==
    ASSUME InstallerTypeOK, command.todo # {}
    PROVE  NextAsset \in command.todo /\ NextAsset \in AssetFiles
  <1>1. (CHOOSE f \in command.todo : TRUE) \in command.todo
    OBVIOUS
  <1> QED  BY <1>1 DEF NextAsset, InstallerTypeOK, Command

LEMMA ShippedTypes ==
    ASSUME InstallerTypeOK, CommandAims, command.at \in {"assets", "asking"},
           NEW f \in AssetFiles
    PROVE  /\ Shipped(f) \in AssetContents /\ Shipped(f) \notin LocalEdits
           /\ ShippedEntry(f) \in Entry
           /\ ShippedEntry(f).applied = Shipped(f) /\ ShippedEntry(f).source = Shipped(f)
           /\ ~ShippedEntry(f).there => Shipped(f) = 0
  <1>1. Shipped(f) \in AssetContents /\ Shipped(f) \notin LocalEdits
    BY InstallerValues DEF CommandAims, Shipped
  <1> QED  BY <1>1, InstallerValues DEF ShippedEntry, Entry

\* A file of the synchronisation becomes what is shipped.
LEMMA ReplacesKeeps ==
    ASSUME Installing, command.at \in {"assets", "asking"}, NEW f \in command.todo,
           Replaces(f), UNCHANGED <<home, service, assetRecord, credentials, edited>>
    PROVE  /\ assets' \in [AssetFiles -> AssetContents] /\ command' \in Command
           /\ unseen' \subseteq AssetFiles /\ unrecorded' \subseteq AssetFiles
           /\ CommandAims' /\ EditsKnown' /\ RecordTells' /\ SyncTells' /\ AskTells' /\ DoneTells'
  <1>1. /\ InstallerTypeOK /\ CommandAims /\ command \in Command /\ f \in AssetFiles
        /\ assets \in [AssetFiles -> AssetContents]
    BY DEF Installing, InstallerTypeOK, Command
  <1>2. PICK c \in AssetContents, e \in Entry :
           /\ c = Shipped(f) /\ e = ShippedEntry(f) /\ c \notin LocalEdits
           /\ e.applied = c /\ e.source = c /\ (~e.there => c = 0)
    BY <1>1, ShippedTypes
  <1>3. /\ assets' = [assets EXCEPT ![f] = c]
        /\ command' = [command EXCEPT !.at = "assets", !.todo = @ \ {f}, !.entries[f] = e]
        /\ unseen' = unseen \ {f} /\ unrecorded' = unrecorded \cup {f}
    BY <1>2 DEF Replaces
  <1>4. /\ assets' \in [AssetFiles -> AssetContents] /\ assets'[f] = c
        /\ \A g \in AssetFiles \ {f} : assets'[g] = assets[g]
    BY <1>1, <1>2, <1>3
  <1>5. /\ command' \in Command /\ command'.at = "assets" /\ command'.todo = command.todo \ {f}
        /\ command'.version = command.version /\ command'.pin = command.pin
        /\ command'.found = command.found
        /\ command'.entries[f] = e
        /\ \A g \in AssetFiles \ {f} : command'.entries[g] = command.entries[g]
    BY <1>1, <1>2, <1>3 DEF Command
  <1>6. CommandAims'
    BY <1>1, <1>5 DEF CommandAims
  <1>7. EditsKnown'
    BY <1>1, <1>2, <1>3, <1>4, <1>5 DEF Installing, EditsKnown, Known, InstallerTypeOK
  <1>8. RecordTells'
    BY <1>3, <1>4 DEF Installing, RecordTells, EntryTells
  <1>9. SyncTells'
    <2>1. \A g \in AssetFiles : Shipped(g)' = Shipped(g)
      BY <1>5 DEF Shipped
    <2>2. EntryTells(e, c) /\ c \in {Shipped(f)} \cup LocalEdits
      BY <1>2 DEF EntryTells
    <2> QED
      BY <1>2, <1>3, <1>4, <1>5, <2>1, <2>2 DEF Installing, SyncTells, EntryTells
  <1>10. AskTells' /\ DoneTells'
    BY <1>5 DEF AskTells, DoneTells
  <1>11. unseen' \subseteq AssetFiles /\ unrecorded' \subseteq AssetFiles
    BY <1>1, <1>3 DEF InstallerTypeOK
  <1> QED  BY <1>4, <1>5, <1>6, <1>7, <1>8, <1>9, <1>10, <1>11

\* A file of the synchronisation is left as it is.
LEMMA KeepsKeeps ==
    ASSUME Installing, command.at \in {"assets", "asking"}, NEW f \in command.todo,
           NEW found \in AssetContents, Known(found), Keeps(f, found),
           \/ Spared(f) /\ found = assets[f]
           \/ command.at = "asking" /\ f = command.file /\ found = command.found,
           UNCHANGED <<home, service, assetRecord, credentials, edited>>
    PROVE  /\ assets' \in [AssetFiles -> AssetContents] /\ command' \in Command
           /\ unseen' \subseteq AssetFiles /\ unrecorded' \subseteq AssetFiles
           /\ CommandAims' /\ EditsKnown' /\ RecordTells' /\ SyncTells' /\ AskTells' /\ DoneTells'
  <1>1. /\ InstallerTypeOK /\ CommandAims /\ command \in Command /\ f \in AssetFiles
        /\ UNCHANGED <<assets, unseen, unrecorded>>
    BY DEF Installing, InstallerTypeOK, Command, Keeps
  <1>2. PICK e \in Entry :
           /\ e = IF found = 0 \/ (Spared(f) /\ Shipped(f) = 0) THEN NoEntry
                  ELSE [there |-> TRUE, source |-> Shipped(f), applied |-> found]
           /\ Known(e.applied) /\ (~e.there => e.applied = 0)
    <2>1. [there |-> TRUE, source |-> Shipped(f), applied |-> found] \in Entry
      BY <1>1, ShippedTypes DEF Entry
    <2> QED  BY <2>1, InstallerValues DEF Known
  <1>3. command' = [command EXCEPT !.at = "assets", !.todo = @ \ {f}, !.entries[f] = e]
    BY <1>2 DEF Keeps
  <1>4. /\ command' \in Command /\ command'.at = "assets" /\ command'.todo = command.todo \ {f}
        /\ command'.version = command.version /\ command'.pin = command.pin
        /\ command'.found = command.found
        /\ command'.entries[f] = e
        /\ \A g \in AssetFiles \ {f} : command'.entries[g] = command.entries[g]
    BY <1>1, <1>2, <1>3 DEF Command
  <1>5. CommandAims'
    BY <1>1, <1>4 DEF CommandAims
  <1>6. EditsKnown'
    BY <1>1, <1>2, <1>4 DEF Installing, EditsKnown, Known
  <1>7. RecordTells'
    BY <1>1 DEF Installing, RecordTells, EntryTells
  <1>8. ASSUME f \notin unrecorded \/ assets[f] = Shipped(f)
        PROVE  EntryTells(e, assets[f]) /\ assets[f] \in {Shipped(f)} \cup LocalEdits
    <2>1. Shipped(f) \notin LocalEdits /\ 0 \notin LocalEdits
      BY <1>1, ShippedTypes, InstallerValues
    <2>2. f \notin unrecorded => EntryTells(assetRecord[f], assets[f])
      BY <1>1 DEF Installing, RecordTells
    <2>3. CASE Spared(f) /\ found = assets[f]
      <3>1. CASE Shipped(f) # 0
        <4>1. /\ assets[f] # 0 /\ assetRecord[f].source = Shipped(f)
              /\ e.applied = assets[f] /\ e.source = Shipped(f) /\ e.there
          BY <1>2, <2>3, <3>1 DEF Spared, PackageChanged
        <4>2. assets[f] \in {Shipped(f)} \cup LocalEdits
          BY <1>8, <2>2, <4>1 DEF EntryTells
        <4> QED  BY <4>1, <4>2 DEF EntryTells
      <3>2. CASE Shipped(f) = 0
        <4>1. e.applied = 0 /\ e.source = 0 /\ (assets[f] = 0 \/ ~assetRecord[f].there)
          BY <1>2, <2>3, <3>2, InstallerValues DEF Spared
        <4>2. assets[f] \in {0} \cup LocalEdits
          BY <1>8, <2>2, <3>2, <4>1 DEF EntryTells
        <4> QED  BY <3>2, <4>1, <4>2 DEF EntryTells
      <3> QED  BY <3>1, <3>2
    <2>4. CASE command.at = "asking" /\ f = command.file /\ found = command.found
      <3>1. /\ found # 0 /\ assetRecord[f].there
            /\ Shipped(f) = 0 \/ PackageChanged(f)
            /\ assets[f] \in {found} \cup LocalEdits
            /\ f \notin unrecorded => found \in LocalEdits
        BY <2>4 DEF Installing, AskTells
      <3>2. ~Spared(f)
        BY <2>1, <3>1 DEF Spared
      <3>3. e.applied = found /\ e.source = Shipped(f)
        BY <1>2, <3>1, <3>2
      <3>4. f \in unrecorded => found = Shipped(f)
        BY <1>8, <2>1, <3>1
      <3> QED  BY <1>2, <3>1, <3>3, <3>4 DEF EntryTells
    <2> QED  BY <2>3, <2>4
  <1>9. SyncTells'
    <2>1. \A g \in AssetFiles : Shipped(g)' = Shipped(g)
      BY <1>4 DEF Shipped
    <2> QED
      BY <1>1, <1>4, <1>8, <2>1 DEF Installing, SyncTells, EntryTells
  <1>10. AskTells' /\ DoneTells'
    BY <1>4 DEF AskTells, DoneTells
  <1> QED  BY <1>1, <1>4, <1>5, <1>6, <1>7, <1>9, <1>10 DEF InstallerTypeOK

LEMMA SyncsAssetStep == ASSUME Installing, SyncsAsset PROVE Installing'
  <1>1. /\ InstallerTypeOK /\ CommandAims /\ command \in Command
        /\ assets \in [AssetFiles -> AssetContents]
        /\ command.at = "assets" /\ command.todo # {}
        /\ UNCHANGED <<published, home, service, assetRecord, credentials, commands,
                       failures, edited>>
    BY DEF Installing, InstallerTypeOK, SyncsAsset
  <1>2. PICK f \in command.todo : f = NextAsset /\ f \in AssetFiles
    BY <1>1, NextAssetOf
  <1>3. ASSUME Replaces(f), backups' \in {backups, backups \cup {assets[f]}}
        PROVE  Installing'
    BY <1>1, <1>2, <1>3, ReplacesKeeps DEF Installing, InstallerTypeOK
  <1>4. ASSUME Spared(f), Keeps(f, assets[f]), UNCHANGED backups
        PROVE  Installing'
    <2>1. PICK found \in AssetContents : found = assets[f] /\ Known(found)
      BY <1>1, <1>2 DEF Installing, EditsKnown
    <2>2. Keeps(f, found)
      BY <1>4, <2>1
    <2> QED  BY <1>1, <1>2, <1>4, <2>1, <2>2, KeepsKeeps DEF Installing, InstallerTypeOK
  <1>5. ASSUME Conflict(f), UNCHANGED <<assets, backups, unseen, unrecorded>>,
               command' = [command EXCEPT !.at = "asking", !.file = f, !.found = assets[f]]
        PROVE  Installing'
    <2>1. /\ command' \in Command /\ command'.at = "asking" /\ command'.todo = command.todo
          /\ command'.version = command.version /\ command'.pin = command.pin
          /\ command'.entries = command.entries /\ command'.file = f
          /\ command'.found = assets[f]
      BY <1>1, <1>2, <1>5 DEF Command
    <2>2. InstallerTypeOK' /\ CommandAims' /\ EditsKnown' /\ RecordTells' /\ DoneTells'
      BY <1>1, <1>2, <1>5, <2>1
         DEF Installing, InstallerTypeOK, CommandAims, EditsKnown, Known, RecordTells, EntryTells,
             DoneTells
    <2>3. SyncTells'
      BY <1>1, <1>5, <2>1 DEF Installing, SyncTells, EntryTells, Shipped
    <2>4. AskTells'
      <3>1. /\ assets[f] # 0 /\ assetRecord[f].there /\ assets[f] # assetRecord[f].applied
            /\ Shipped(f) = 0 \/ PackageChanged(f)
        BY <1>5 DEF Conflict, Spared, LocallyChanged
      <3>2. f \notin unrecorded => assets[f] \in LocalEdits
        BY <1>2, <3>1 DEF Installing, RecordTells, EntryTells
      <3> QED
        BY <1>1, <1>2, <1>5, <2>1, <3>1, <3>2 DEF AskTells, Shipped, PackageChanged
    <2> QED  BY <2>2, <2>3, <2>4 DEF Installing
  <1> QED  BY <1>2, <1>3, <1>4, <1>5 DEF SyncsAsset

LEMMA AnswersStep == ASSUME Installing, Answers PROVE Installing'
  <1>1. /\ command.at = "asking" /\ InstallerTypeOK /\ command.file \in command.todo
        /\ command.found \in AssetContents /\ Known(command.found)
        /\ UNCHANGED <<published, home, service, backups, assetRecord, credentials,
                       commands, failures, edited>>
    BY DEF Answers, Installing, AskTells, EditsKnown, InstallerTypeOK, Command
  <1>2. PICK f \in command.todo, found \in AssetContents :
           f = command.file /\ found = command.found
    BY <1>1
  <1>3. Known(found) /\ (Keeps(f, found) \/ Replaces(f))
    BY <1>1, <1>2 DEF Answers
  <1> QED
    BY <1>1, <1>2, <1>3, ReplacesKeeps, KeepsKeeps DEF Installing, InstallerTypeOK


LEMMA RecordsAssetsStep == ASSUME Installing, RecordsAssets PROVE Installing'
  <1>1. /\ InstallerTypeOK /\ CommandAims /\ command \in Command
        /\ command.at = "assets" /\ command.todo = {} /\ assetRecord' = command.entries
        /\ unseen' = {f \in unseen : command.entries[f].there
                                       /\ assets[f] # command.entries[f].applied}
        /\ unrecorded' = {f \in unrecorded : assets[f] # Shipped(f)}
        /\ UNCHANGED <<published, home, service, assets, backups, credentials, commands,
                       failures, edited>>
    BY DEF Installing, InstallerTypeOK, RecordsAssets
  <1>2. /\ command' \in Command /\ command'.at = "units"
        /\ command'.version = command.version /\ command'.pin = command.pin
        /\ command'.entries = command.entries /\ command'.found = command.found
    BY <1>1 DEF RecordsAssets, Command
  <1>3. InstallerTypeOK'
    BY <1>1, <1>2 DEF InstallerTypeOK, Command
  <1>4. CommandAims'
    BY <1>1, <1>2 DEF CommandAims
  <1>5. EditsKnown'
    BY <1>1, <1>2 DEF Installing, EditsKnown, Known
  <1>6. \A f \in AssetFiles \ unrecorded' :
           EntryTells(command.entries[f], assets[f]) /\ assets[f] \in {Shipped(f)} \cup LocalEdits
    BY <1>1 DEF Installing, SyncTells
  <1>7. RecordTells'
    BY <1>1, <1>6 DEF RecordTells, EntryTells
  <1>8. SyncTells' /\ AskTells' /\ DoneTells'
    BY <1>1, <1>2, <1>6 DEF SyncTells, AskTells, DoneTells, Shipped
  <1> QED  BY <1>3, <1>4, <1>5, <1>7, <1>8 DEF Installing

LEMMA EditsAssetStep ==
    ASSUME Installing, NEW f \in AssetFiles, EditsAsset(f)
    PROVE  Installing'
  <1>1. PICK e \in LocalEdits \ edited :
           assets' = [assets EXCEPT ![f] = e] /\ edited' = edited \cup {e}
    BY DEF EditsAsset
  <1>2. /\ InstallerTypeOK /\ unseen' = unseen \cup {f}
        /\ UNCHANGED <<published, home, service, backups, assetRecord, command, credentials,
                       commands, failures, unrecorded>>
    BY DEF Installing, EditsAsset
  <1>3. /\ assets' \in [AssetFiles -> AssetContents] /\ assets'[f] = e
        /\ \A g \in AssetFiles \ {f} : assets'[g] = assets[g]
    BY <1>1, <1>2, InstallerValues DEF InstallerTypeOK
  <1>4. InstallerTypeOK'
    BY <1>1, <1>2, <1>3 DEF InstallerTypeOK
  <1>5. CommandAims'
    BY <1>2 DEF Installing, CommandAims
  <1>6. EditsKnown'
    BY <1>1, <1>2, <1>3 DEF Installing, InstallerTypeOK, EditsKnown, Known
  <1>7. RecordTells'
    BY <1>1, <1>2, <1>3 DEF Installing, RecordTells, EntryTells
  <1>8. SyncTells'
    <2>1. ASSUME command.at \in {"assets", "asking"}, NEW g \in AssetFiles \ command.todo,
                 g \notin unrecorded \/ assets'[g] = Shipped(g)
          PROVE  EntryTells(command.entries[g], assets'[g]) /\ assets'[g] \in {Shipped(g)} \cup LocalEdits
      <3>1. assets'[g] = Shipped(g) => g # f
        BY <1>1, <1>3, <2>1, ShippedTypes DEF Installing
      <3>2. /\ EntryTells(command.entries[g], assets[g])
            /\ assets[g] \in {Shipped(g)} \cup LocalEdits
        BY <1>3, <2>1, <3>1 DEF Installing, SyncTells
      <3> QED  BY <1>1, <1>3, <3>2 DEF EntryTells
    <2> QED  BY <1>2, <2>1 DEF SyncTells, Shipped, EntryTells
  <1>9. AskTells' /\ DoneTells'
    BY <1>1, <1>2, <1>3
       DEF Installing, InstallerTypeOK, AskTells, DoneTells, Shipped, PackageChanged, Command
  <1> QED  BY <1>4, <1>5, <1>6, <1>7, <1>8, <1>9 DEF Installing

\* A command cut short, perhaps while it writes the record.
LEMMA CommandFailsStep == ASSUME Installing, CommandFails PROVE Installing'
  <1>1. /\ InstallerTypeOK /\ command' = NoCommand /\ failures' = failures + 1
        /\ failures < MaxFailures
        /\ UNCHANGED <<published, home, service, assets, backups, credentials, commands, edited>>
    BY DEF Installing, CommandFails
  <1>2. failures' \in 0 .. MaxFailures
    BY <1>1, InstallerValues DEF InstallerTypeOK
  <1>3. CommandAims'
    BY <1>1, NoCommandIs DEF CommandAims
  <1>4. CASE UNCHANGED <<assetRecord, unseen, unrecorded>>
    <2>1. InstallerTypeOK'
      BY <1>1, <1>2, <1>4, NoCommandIs DEF InstallerTypeOK
    <2> QED  BY <1>1, <1>3, <1>4, <2>1, AssetsStand, NoCommandIs DEF Installing
  <1>5. CASE assetRecord' = NoEntries /\ unrecorded' = AssetFiles /\ UNCHANGED unseen
    <2>1. NoEntries \in [AssetFiles -> Entry] /\ \A f \in AssetFiles : NoEntries[f] = NoEntry
      BY InstallerValues DEF NoEntries
    <2>2. InstallerTypeOK'
      BY <1>1, <1>2, <1>5, <2>1, NoCommandIs DEF InstallerTypeOK
    <2>3. EditsKnown'
      BY <1>1, <1>5, <2>1, InstallerValues, NoCommandIs
         DEF Installing, InstallerTypeOK, EditsKnown, Known
    <2> QED
      BY <1>1, <1>3, <1>5, <2>2, <2>3, NoCommandIs
         DEF Installing, RecordTells, SyncTells, AskTells, DoneTells
  <1> QED  BY <1>4, <1>5 DEF CommandFails

LEMMA UninstallsStep == ASSUME Installing, Uninstalls PROVE Installing'
  <1>1. /\ InstallerTypeOK /\ command.at = "none" /\ service' = Stopped /\ home' = NoHome
        /\ UNCHANGED <<published, command, credentials, commands, failures, edited>>
    BY DEF Installing, Uninstalls
  <1>2. CommandAims'
    BY <1>1 DEF CommandAims
  <1>3. CASE UNCHANGED <<files, unseen, unrecorded>>
    <2>1. InstallerTypeOK'
      BY <1>1, <1>3, InstallerValues DEF InstallerTypeOK, files
    <2> QED  BY <1>1, <1>2, <1>3, <2>1, AssetsStand DEF Installing, files
  <1>4. CASE /\ assets' = [f \in AssetFiles |-> 0] /\ backups' = {}
             /\ assetRecord' = NoEntries /\ unseen' = {} /\ unrecorded' = {}
    <2>1. /\ assets' \in [AssetFiles -> AssetContents] /\ assetRecord' \in [AssetFiles -> Entry]
          /\ \A f \in AssetFiles : assets'[f] = 0 /\ assetRecord'[f] = NoEntry
      BY <1>4, InstallerValues DEF NoEntries
    <2>2. InstallerTypeOK'
      BY <1>1, <1>4, <2>1, InstallerValues DEF InstallerTypeOK
    <2>3. EditsKnown'
      BY <1>1, <1>4, <2>1, InstallerValues DEF Installing, EditsKnown, Known
    <2>4. RecordTells'
      BY <2>1, InstallerValues DEF RecordTells, EntryTells
    <2> QED
      BY <1>1, <1>2, <2>2, <2>3, <2>4 DEF Installing, SyncTells, AskTells, DoneTells
  <1> QED  BY <1>3, <1>4 DEF Uninstalls

LEMMA InstallingStep == Installing /\ [InstallerNext]_installerVars => Installing'
  <1> SUFFICES ASSUME Installing, [InstallerNext]_installerVars PROVE Installing'
    OBVIOUS
  <1>1. CASE UNCHANGED installerVars
    <2>1. InstallerTypeOK' /\ CommandAims'
      BY <1>1 DEF installerVars, Installing, InstallerTypeOK, CommandAims
    <2> QED  BY <1>1, <2>1, AssetsStand DEF installerVars, Installing
  <1> QED
    BY <1>1, InvokesStep, InstallsStep, ServicesStep, SyncsAssetStep, AnswersStep,
       RecordsAssetsStep, EditsAssetStep, CommandFailsStep, UninstallsStep
       DEF InstallerNext

\* An update loses nothing that a user has written into an asset file since the last
\* synchronisation that was recorded, unless it keeps a backup or the user agrees.
THEOREM EditsAreSpared == InstallerSpec => EditsSurviveUpdates
  <1> DEFINE Spares == \A f \in unseen :
        /\ assets'[f] # assets[f] /\ edited' = edited
        /\ command.at = "assets" /\ command.mode = "update"
        /\ assetRecord[f].there
        => assets[f] \in backups'
  <1>1. Installing /\ [InstallerNext]_installerVars => [Spares]_installerVars
    <2> SUFFICES ASSUME Installing, InstallerNext, NEW f \in unseen,
                        assets'[f] # assets[f], edited' = edited,
                        command.at = "assets", command.mode = "update", assetRecord[f].there
                 PROVE  assets[f] \in backups'
      OBVIOUS
    <2>1. /\ assets[f] # 0 /\ LocallyChanged(f) /\ f \in AssetFiles
          /\ assets \in [AssetFiles -> AssetContents]
      BY InstallerValues DEF Installing, InstallerTypeOK, EditsKnown, LocallyChanged
    <2>2. \A g \in AssetFiles : ~EditsAsset(g)
      BY DEF EditsAsset
    <2>3. SyncsAsset
      BY <2>2 DEF InstallerNext, Invokes, InstallsOpencode, InstallsPackage, Answers,
                  RecordsAssets, WritesUnits, UpdateEnds, ManagesServices, SystemdRestarts,
                  Uninstalls, Onboards, LogsIn, RefreshesAuth, OnboardingEnds, Publishes,
                  CommandFails, files
    <2>4. PICK g : g = NextAsset
      OBVIOUS
    <2>5. /\ ~Spared(g) /\ Replaces(g)
          /\ Conflict(g) => backups' = backups \cup {assets[g]}
      BY <2>3, <2>4 DEF SyncsAsset, Keeps, Conflict
    <2>6. g = f
      BY <2>1, <2>5 DEF Replaces
    <2> QED  BY <2>1, <2>5, <2>6 DEF Conflict
  <1> QED  BY <1>1, InstallingInit, InstallingStep, PTL DEF InstallerSpec, EditsSurviveUpdates

\* At the end of an update the services run its version and the OpenCode of the shim,
\* and every asset file is the one of that version or one that a user wrote, unless it
\* was written by a synchronisation that was not recorded; and OpenCode, restarted
\* after providers have been connected, knows them.
THEOREM UpdatesTakeHold == InstallerSpec => CommandsTakeHold
  <1> DEFINE Holds ==
        /\ InstallerTypeOK'
        /\ command.at = "restart" /\ UpdateEnds =>
             /\ service'.cli = command.version /\ home.cli = command.version
             /\ service'.opencode = home.shim
             /\ \A f \in AssetFiles \ unrecorded :
                 assets[f] \in {Packaged[home.cli][f]} \cup LocalEdits
        /\ command.at = "model" /\ command.refreshed => service.knows = credentials
  <1>1. Installing /\ [InstallerNext]_installerVars => [Holds]_installerVars
    <2> SUFFICES ASSUME Installing, InstallerNext, Installing' PROVE Holds
      BY InstallingStep
    <2>1. ASSUME command.at = "restart", UpdateEnds
          PROVE  /\ service'.cli = command.version /\ home.cli = command.version
                 /\ service'.opencode = home.shim
                 /\ \A f \in AssetFiles \ unrecorded :
                     assets[f] \in {Packaged[home.cli][f]} \cup LocalEdits
      <3>1. /\ home.cli = command.version /\ home.opencode = home.shim
            /\ \A f \in AssetFiles \ unrecorded : assets[f] \in {Shipped(f)} \cup LocalEdits
        BY <2>1 DEF Installing, CommandAims, DoneTells
      <3> QED  BY <2>1, <3>1 DEF UpdateEnds, Started, Shipped
    <2> QED  BY <2>1 DEF Installing, CommandAims
  <1> QED  BY <1>1, InstallingInit, InstallingStep, PTL DEF InstallerSpec, CommandsTakeHold

-------------------------------------------------------------------------------
(* Skills.                                                                 *)

\* Every request has a number of its own, and imports start from no enabled copy.
RequestsNumbered ==
    /\ answered.nr <= issued
    /\ \A r \in skillRequests :
          /\ r.nr <= issued /\ r.nr # answered.nr
          /\ r.op = "import" => r.before.enabled = 0
    /\ \A r, q \in skillRequests : r.nr = q.nr => r = q

\* When OpenCode has done what all requests told it, it uses what is enabled.
LoadedFits ==
    (\A r \in skillRequests : r.told) /\ ~untold /\ loaded.there => loaded.skills = Enabled

\* The current revision is the one at which no skill was enabled.
LookFits == seen = "current" => \A s \in SkillIds : skills[s].enabled = 0

Skilled == SkillsTypeOK /\ RequestsNumbered /\ LoadedFits /\ LookFits

LEMMA SkillValues ==
    /\ 0 \in Texts /\ MaxSkillRequests + 1 \in Texts /\ NoCopies \in Copies
    /\ NoCopies.enabled = 0 /\ NoCopies.disabled = 0
    /\ AnySkill \in SkillIds /\ NotLoaded \in Loaded /\ ~NotLoaded.there
    /\ MaxSkillRequests \in Nat /\ MaxMoveFaults \in Nat
  <1>1. MaxSkillRequests \in Nat /\ MaxMoveFaults \in Nat /\ SkillIds # {}
    BY SkillsAssumption
  <1>2. 0 \in Texts /\ MaxSkillRequests + 1 \in Texts
    BY <1>1 DEF Texts
  <1>3. NoCopies \in Copies /\ NoCopies.enabled = 0 /\ NoCopies.disabled = 0
    BY <1>2 DEF NoCopies, Copies
  <1>4. AnySkill \in SkillIds
    BY <1>1 DEF AnySkill
  <1>5. NotLoaded \in Loaded /\ ~NotLoaded.there
    BY <1>2 DEF NotLoaded, Loaded
  <1> QED  BY <1>1, <1>2, <1>3, <1>4, <1>5

\* A move that nothing is in the way of loses no text, even when it fails half-way.
LEMMA MovedKeeps ==
    ASSUME NEW c \in Copies, NEW enable \in BOOLEAN,
           \/ ~Blocked(c, enable)
           \/ IF enable THEN c.disabled = 0 ELSE c.enabled = 0
    PROVE  /\ Moved(c, enable) \in Copies
           /\ TextsOf(c) \subseteq TextsOf(Moved(c, enable))
           /\ \A half \in HalfMoved(c, enable) :
                half \in Copies /\ TextsOf(c) \subseteq TextsOf(half)
  <1>1. 0 \in Texts /\ c.enabled \in Texts /\ c.disabled \in Texts
    BY SkillValues DEF Copies
  <1>2. Moved(c, enable) \in Copies /\ TextsOf(c) \subseteq TextsOf(Moved(c, enable))
    BY <1>1 DEF Moved, Copies, TextsOf, Blocked
  <1>3. ASSUME NEW half \in HalfMoved(c, enable)
        PROVE  half \in Copies /\ TextsOf(c) \subseteq TextsOf(half)
    BY <1>1, <1>3 DEF HalfMoved, Copies, TextsOf, Blocked
  <1> QED  BY <1>2, <1>3

\* What a request does to the directories before it awaits OpenCode or is refused.
Handles(op, s) ==
    /\ skills' \in [SkillIds -> Copies]
    /\ moveFaults' \in 0 .. MaxMoveFaults
    /\ \A t \in SkillIds :
          TextsOf(skills[t]) \subseteq TextsOf(skills'[t]) \/ (t = s /\ op \in {"import", "delete"})
    /\ \/ Refuses(op, s) /\ op # "delete"
       \/ /\ \E before, after \in Copies :
                Awaits(op, s, before, after) /\ (op = "import" => before.enabled = 0)
          /\ op = "import" => TextsOf(skills[s]) \subseteq TextsOf(skills'[s])

LEMMA FaultCounts ==
    ASSUME SkillsTypeOK,
           \/ UNCHANGED moveFaults
           \/ moveFaults < MaxMoveFaults /\ moveFaults' = moveFaults + 1
    PROVE  moveFaults' \in 0 .. MaxMoveFaults
  BY SkillValues DEF SkillsTypeOK

LEMMA ImportHandles ==
    ASSUME SkillsTypeOK, NEW s \in SkillIds, NEW enable \in BOOLEAN, ImportsSkill(s, enable)
    PROVE  Handles("import", s)
  <1>1. /\ skills \in [SkillIds -> Copies] /\ skills[s] \in Copies /\ skills[s].enabled = 0
        /\ issued + 1 \in Texts /\ issued + 1 # 0
    BY SkillValues DEF ImportsSkill, Issued, SkillsTypeOK, Texts
  <1>2. PICK written : written = Written(skills[s], issued + 1)
    OBVIOUS
  <1>3. /\ written \in Copies /\ written.enabled = issued + 1
        /\ written.disabled = skills[s].disabled
    BY <1>1, <1>2 DEF Written, Copies
  <1>4. PICK after : after = IF enable THEN written ELSE Moved(written, FALSE)
    OBVIOUS
  <1>5. CASE /\ enable \/ ~Blocked(written, FALSE)
             /\ skills' = [skills EXCEPT ![s] = after]
             /\ Awaits("import", s, skills[s], after) /\ UNCHANGED moveFaults
    <2>1. after \in Copies /\ TextsOf(skills[s]) \subseteq TextsOf(after)
      <3>1. CASE enable
        BY <1>1, <1>2, <1>3, <1>4, <3>1 DEF TextsOf
      <3>2. CASE ~enable
        <4>1. skills[s].disabled = 0
          BY <1>1, <1>2, <1>3, <1>5, <3>2 DEF Blocked
        <4> QED  BY <1>1, <1>2, <1>3, <1>4, <1>5, <3>2, <4>1, MovedKeeps DEF TextsOf
      <3> QED  BY <3>1, <3>2
    <2> QED  BY <1>1, <1>5, <2>1, FaultCounts DEF Handles
  <1>6. CASE /\ \/ UNCHANGED moveFaults
                \/ moveFaults < MaxMoveFaults /\ moveFaults' = moveFaults + 1
             /\ skills' = [skills EXCEPT ![s] = RolledBack(written)]
             /\ Refuses("import", s)
    BY <1>1, <1>6, SkillValues, FaultCounts DEF Handles, RolledBack
  <1> QED  BY <1>2, <1>4, <1>5, <1>6 DEF ImportsSkill

LEMMA SetHandles ==
    ASSUME SkillsTypeOK, NEW wanted \in SUBSET SkillIds, SetsEnabled(wanted)
    PROVE  Handles("set", AnySkill)
  <1>1. skills \in [SkillIds -> Copies]
    BY DEF SkillsTypeOK
  <1>2. ASSUME NEW done \in SUBSET SkillIds, NEW to,
               \A t \in done : ~Blocked(skills[t], t \in wanted),
               to = [t \in SkillIds |-> IF t \in done THEN Moved(skills[t], t \in wanted)
                                        ELSE skills[t]]
        PROVE  /\ to \in [SkillIds -> Copies]
               /\ \A t \in SkillIds : TextsOf(skills[t]) \subseteq TextsOf(to[t])
    <2>1. \A t \in done : /\ Moved(skills[t], t \in wanted) \in Copies
                          /\ TextsOf(skills[t]) \subseteq TextsOf(Moved(skills[t], t \in wanted))
      <3>1. TAKE t \in done
      <3>2. PICK enable \in BOOLEAN : enable <=> t \in wanted
        OBVIOUS
      <3>3. /\ Moved(skills[t], enable) = Moved(skills[t], t \in wanted)
            /\ Blocked(skills[t], enable) <=> Blocked(skills[t], t \in wanted)
        BY <3>2 DEF Moved, Blocked
      <3> QED  BY <1>1, <1>2, <3>3, MovedKeeps
    <2> QED  BY <1>1, <1>2, <2>1
  <1> DEFINE off == {s \in SkillIds \ wanted : skills[s].enabled # 0}
             on == {s \in wanted : skills[s].disabled # 0}
             movedBy(done) == [s \in SkillIds |-> IF s \in done THEN Moved(skills[s], s \in wanted)
                                                  ELSE skills[s]]
  <1>3. CASE /\ \A s \in off \cup on : ~Blocked(skills[s], s \in wanted)
             /\ skills' = movedBy(off \cup on)
             /\ Awaits("set", AnySkill, NoCopies, NoCopies) /\ UNCHANGED moveFaults
    <2>1. /\ skills' \in [SkillIds -> Copies]
          /\ \A t \in SkillIds : TextsOf(skills[t]) \subseteq TextsOf(skills'[t])
      BY <1>2, <1>3
    <2> QED  BY <1>3, <2>1, SkillValues, FaultCounts DEF Handles
  <1>4. ASSUME NEW done \in SUBSET (off \cup on), NEW s \in off \cup on, s \notin done,
               \A t \in done : ~Blocked(skills[t], t \in wanted),
               Refuses("set", AnySkill),
               \/ skills' = movedBy(done) /\ UNCHANGED moveFaults
               \/ /\ moveFaults < MaxMoveFaults /\ moveFaults' = moveFaults + 1
                  /\ ~Blocked(skills[s], s \in wanted)
                  /\ \E half \in HalfMoved(skills[s], s \in wanted) :
                        skills' = [movedBy(done) EXCEPT ![s] = half]
        PROVE  Handles("set", AnySkill)
    <2>1. /\ movedBy(done) \in [SkillIds -> Copies]
          /\ \A t \in SkillIds : TextsOf(skills[t]) \subseteq TextsOf(movedBy(done)[t])
      BY <1>2, <1>4
    <2>2. moveFaults' \in 0 .. MaxMoveFaults
      BY <1>4, FaultCounts
    <2>3. CASE skills' = movedBy(done)
      BY <1>4, <2>1, <2>2, <2>3 DEF Handles
    <2>4. ASSUME NEW half \in HalfMoved(skills[s], s \in wanted),
                 ~Blocked(skills[s], s \in wanted),
                 skills' = [movedBy(done) EXCEPT ![s] = half]
          PROVE  Handles("set", AnySkill)
      <3>1. PICK enable \in BOOLEAN : enable <=> s \in wanted
        OBVIOUS
      <3>2. half \in HalfMoved(skills[s], enable) /\ ~Blocked(skills[s], enable)
        BY <2>4, <3>1 DEF HalfMoved, Blocked
      <3>3. half \in Copies /\ TextsOf(skills[s]) \subseteq TextsOf(half)
        BY <1>1, <3>2, MovedKeeps
      <3>4. PICK went : went = movedBy(done)
        OBVIOUS
      <3>5. /\ skills' \in [SkillIds -> Copies]
            /\ \A t \in SkillIds : TextsOf(skills[t]) \subseteq TextsOf(skills'[t])
        BY <2>1, <2>4, <3>3, <3>4
      <3> QED  BY <1>4, <2>2, <3>5 DEF Handles
    <2> QED  BY <1>4, <2>3, <2>4
  <1> QED  BY <1>3, <1>4 DEF SetsEnabled

LEMMA PatchHandles ==
    ASSUME SkillsTypeOK, NEW s \in SkillIds, NEW enable \in BOOLEAN, PatchesSkill(s, enable)
    PROVE  Handles("patch", AnySkill)
  <1>1. /\ skills \in [SkillIds -> Copies] /\ skills[s] \in Copies
        /\ moveFaults' \in 0 .. MaxMoveFaults
    BY FaultCounts DEF PatchesSkill, SkillsTypeOK
  <1>2. ASSUME NEW half \in HalfMoved(skills[s], enable), ~Blocked(skills[s], enable),
               skills' = [skills EXCEPT ![s] = half], Refuses("patch", AnySkill)
        PROVE  Handles("patch", AnySkill)
    <2>1. half \in Copies /\ TextsOf(skills[s]) \subseteq TextsOf(half)
      BY <1>1, <1>2, MovedKeeps
    <2> QED  BY <1>1, <1>2, <2>1 DEF Handles
  <1>3. CASE /\ (IF enable THEN skills[s].disabled ELSE skills[s].enabled) # 0 =>
                   ~Blocked(skills[s], enable)
             /\ skills' = [skills EXCEPT ![s] = Moved(skills[s], enable)]
             /\ Awaits("patch", AnySkill, NoCopies, NoCopies)
    <2>1. /\ Moved(skills[s], enable) \in Copies
          /\ TextsOf(skills[s]) \subseteq TextsOf(Moved(skills[s], enable))
      BY <1>1, <1>3, MovedKeeps
    <2> QED  BY <1>1, <1>3, <2>1, SkillValues DEF Handles
  <1> QED  BY <1>2, <1>3 DEF PatchesSkill

LEMMA DeleteHandles ==
    ASSUME SkillsTypeOK, NEW s \in SkillIds, Deletes(s)
    PROVE  Handles("delete", s)
  BY SkillValues, FaultCounts DEF Deletes, Handles, SkillsTypeOK

\* A request, from whatever state of the others, keeps the invariant.
LEMMA HandledKeeps ==
    ASSUME Skilled, NEW op \in {"import", "set", "patch", "delete"}, NEW s \in SkillIds,
           Issued, Handles(op, s),
           seen' \in {"none", "current", "older"},
           seen' = "current" => seen = "current" /\ skills' = skills
    PROVE  Skilled'
  <1>1. /\ SkillsTypeOK /\ RequestsNumbered /\ LookFits
        /\ issued' = issued + 1 /\ issued' \in 1 .. MaxSkillRequests /\ issued \in Nat
        /\ loaded' = loaded /\ MaxSkillRequests \in Nat
        /\ skills' \in [SkillIds -> Copies] /\ moveFaults' \in 0 .. MaxMoveFaults
    BY SkillValues DEF Skilled, Issued, SkillsTypeOK, Handles
  <1>2. /\ answered.nr \in Nat /\ answered.nr <= issued
        /\ \A r \in skillRequests : r \in SkillRequest /\ r.nr \in Nat /\ r.nr <= issued
    BY <1>1 DEF SkillsTypeOK, RequestsNumbered, Answer, SkillRequest
  <1>3. LookFits'
    BY <1>1 DEF LookFits
  <1>4. CASE Refuses(op, s)
    <2>1. /\ answered' \in Answer /\ answered'.nr = issued'
          /\ skillRequests' = skillRequests /\ untold' \in BOOLEAN
          /\ ~untold' => ~untold /\ skills' = skills
      <3>1. untold' = (untold \/ skills' # skills) /\ untold \in BOOLEAN
        BY <1>1, <1>4 DEF Refuses, SkillsTypeOK
      <3>2. untold' \in BOOLEAN /\ (~untold' => ~untold /\ skills' = skills)
        BY <3>1, Zenon
      <3> QED  BY <1>1, <1>4, <3>2 DEF Refuses, AnswerTo, Answer
    <2>2. SkillsTypeOK'
      BY <1>1, <2>1 DEF SkillsTypeOK
    <2>3. RequestsNumbered'
      BY <1>1, <1>2, <2>1 DEF RequestsNumbered
    <2>4. LoadedFits'
      BY <1>1, <2>1 DEF Skilled, LoadedFits, Enabled
    <2> QED  BY <1>3, <2>2, <2>3, <2>4 DEF Skilled
  <1>5. ASSUME NEW before \in Copies, NEW after \in Copies, Awaits(op, s, before, after),
               op = "import" => before.enabled = 0
        PROVE  Skilled'
    <2>1. PICK r : r = [nr |-> issued + 1, op |-> op, skill |-> s, before |-> before,
                        after |-> after, told |-> FALSE]
      OBVIOUS
    <2>2. /\ r \in SkillRequest /\ r.nr = issued + 1 /\ ~r.told
          /\ r.op = "import" => r.before.enabled = 0
          /\ skillRequests' = skillRequests \cup {r}
          /\ answered' = answered /\ untold' = untold
      BY <1>1, <1>5, <2>1 DEF SkillRequest, SkillsTypeOK, Awaits
    <2>3. SkillsTypeOK'
      BY <1>1, <2>2 DEF SkillsTypeOK
    <2>4. RequestsNumbered'
      BY <1>1, <1>2, <2>2 DEF RequestsNumbered
    <2> QED  BY <1>3, <2>2, <2>3, <2>4 DEF Skilled, LoadedFits
  <1> QED  BY <1>4, <1>5 DEF Handles

\* The revision grows old with every change.
LEMMA Ageing ==
    ASSUME SkillsTypeOK, NEW changed, Ages(changed), skills' # skills => changed
    PROVE  /\ seen' \in {"none", "current", "older"}
           /\ seen' = "current" => seen = "current" /\ skills' = skills
           /\ seen # "none" => seen' # "none"
  BY DEF SkillsTypeOK, Ages

\* Requests are the only steps that write or move a skill.
LEMMA RequestSteps ==
    ASSUME Skilled, SkillsNext
    PROVE  \/ \E op \in {"import", "set", "patch", "delete"}, s \in SkillIds :
                /\ Issued /\ Handles(op, s)
                /\ seen' \in {"none", "current", "older"}
                /\ seen' = "current" => seen = "current" /\ skills' = skills
                /\ seen # "none" /\ seen' = "none" =>
                     \/ skills' = skills
                     \/ \A t \in SkillIds : skills[t].enabled = 0
           \/ \E r \in skillRequests : OpencodeForgets(r) \/ InstanceDisposed(r) \/ DisposeFails(r)
           \/ InstallerLooks \/ OpencodeLoads \/ OpencodeRestarts \/ SkillsCrash
           \/ seen' = "none" /\ UNCHANGED <<skills, loaded, skillRequests, answered, issued,
                                            moveFaults, untold>>
  <1>1. SkillsTypeOK /\ AnySkill \in SkillIds
    BY SkillValues DEF Skilled
  <1>2. ASSUME NEW s \in SkillIds, NEW enable \in BOOLEAN, ImportsSkill(s, enable)
        PROVE  /\ Issued /\ Handles("import", s)
               /\ seen' \in {"none", "current", "older"}
               /\ seen' = "current" => seen = "current" /\ skills' = skills
               /\ seen # "none" => seen' # "none"
    BY <1>1, <1>2, ImportHandles, Ageing DEF ImportsSkill
  <1>3. ASSUME NEW s \in SkillIds, NEW enable \in BOOLEAN, PatchesSkill(s, enable)
        PROVE  /\ Issued /\ Handles("patch", AnySkill)
               /\ seen' \in {"none", "current", "older"}
               /\ seen' = "current" => seen = "current" /\ skills' = skills
               /\ seen # "none" => seen' # "none"
    BY <1>1, <1>3, PatchHandles, Ageing DEF PatchesSkill
  <1>4. ASSUME NEW wanted \in SUBSET SkillIds, PutsSkills(wanted)
        PROVE  /\ Issued /\ Handles("set", AnySkill)
               /\ seen' \in {"none", "current", "older"}
               /\ seen' = "current" => seen = "current" /\ skills' = skills
               /\ seen # "none" => seen' # "none"
    BY <1>1, <1>4, SetHandles, Ageing DEF PutsSkills, SetsEnabled
  <1>5. ASSUME NEW s \in SkillIds, Deletes(s)
        PROVE  /\ Issued /\ Handles("delete", s)
               /\ seen' \in {"none", "current", "older"}
               /\ seen' = "current" => seen = "current" /\ skills' = skills
               /\ seen # "none" => seen' # "none"
    BY <1>1, <1>5, DeleteHandles, Ageing DEF Deletes
  <1>6. ASSUME RevisionMatches, SetsEnabled(Available), seen' = "none"
        PROVE  /\ Issued /\ Handles("set", AnySkill)
               /\ \A t \in SkillIds : skills[t].enabled = 0
    <2>1. Available \in SUBSET SkillIds
      BY SkillsAssumption DEF Available
    <2> QED  BY <1>1, <1>6, <2>1, SetHandles DEF SetsEnabled, RevisionMatches, Skilled, LookFits
  <1>7. CASE SetsDefaults
    BY <1>1, <1>6, <1>7 DEF SetsDefaults
  <1> QED  BY <1>1, <1>2, <1>3, <1>4, <1>5, <1>7 DEF SkillsNext

LEMMA SkilledInit == SkillsInit => Skilled
  <1> SUFFICES ASSUME SkillsInit PROVE Skilled
    OBVIOUS
  <1>1. SkillsTypeOK
    <2>1. skills \in [SkillIds -> Copies]
      BY SkillValues DEF SkillsInit, NoCopies, Copies
    <2>2. answered \in Answer
      BY SkillValues DEF SkillsInit, AnswerTo, Answer
    <2>3. /\ loaded \in Loaded /\ skillRequests = {} /\ seen = "none"
          /\ issued \in 0 .. MaxSkillRequests /\ moveFaults \in 0 .. MaxMoveFaults
          /\ untold = FALSE
      BY SkillValues DEF SkillsInit
    <2> QED  BY <2>1, <2>2, <2>3 DEF SkillsTypeOK
  <1> QED  BY <1>1, SkillValues DEF SkillsInit, Skilled, RequestsNumbered, LoadedFits, LookFits,
                                AnswerTo

LEMMA SkilledStep == Skilled /\ [SkillsNext]_skillsVars => Skilled'
  <1> SUFFICES ASSUME Skilled, [SkillsNext]_skillsVars PROVE Skilled'
    OBVIOUS
  <1> USE DEF Skilled
  <1>1. ASSUME NEW op \in {"import", "set", "patch", "delete"}, NEW s \in SkillIds,
               Issued, Handles(op, s), seen' \in {"none", "current", "older"},
               seen' = "current" => seen = "current" /\ skills' = skills
        PROVE  Skilled'
    BY <1>1, HandledKeeps
  <1>2. ASSUME NEW r \in skillRequests, InstanceDisposed(r)
        PROVE  Skilled'
    <2>1. r \in SkillRequest /\ answered' \in Answer /\ answered'.nr = r.nr
      BY <1>2, SkillValues DEF InstanceDisposed, AnswerTo, Answer, SkillRequest, SkillsTypeOK
    <2>2. SkillsTypeOK'
      BY <1>2, <2>1, SkillValues DEF InstanceDisposed, SkillsTypeOK
    <2>3. RequestsNumbered'
      BY <1>2, <2>1 DEF InstanceDisposed, RequestsNumbered
    <2>4. LoadedFits' /\ LookFits'
      BY <1>2 DEF InstanceDisposed, LoadedFits, LookFits, Enabled
    <2> QED  BY <2>2, <2>3, <2>4
  <1>3. ASSUME NEW r \in skillRequests, DisposeFails(r)
        PROVE  Skilled'
    <2>1. r \in SkillRequest /\ answered' \in Answer /\ answered'.nr = r.nr
      BY <1>3, SkillValues DEF DisposeFails, AnswerTo, Answer, SkillRequest, SkillsTypeOK
    <2>2. /\ seen' \in {"none", "current", "older"}
          /\ seen' = "current" => seen = "current" /\ skills' = skills
      BY <1>3, Ageing DEF DisposeFails
    <2>3. skills' \in [SkillIds -> Copies]
      BY <1>3, <2>1, SkillValues DEF DisposeFails, SkillsTypeOK, RolledBack, SkillRequest
    <2>4. SkillsTypeOK'
      BY <1>3, <2>1, <2>2, <2>3, SkillValues DEF DisposeFails, SkillsTypeOK
    <2>5. RequestsNumbered'
      BY <1>3, <2>1 DEF DisposeFails, RequestsNumbered
    <2>6. LoadedFits'
      BY <1>3 DEF DisposeFails, LoadedFits, Enabled
    <2>7. LookFits'
      BY <2>2 DEF LookFits
    <2> QED  BY <2>4, <2>5, <2>6, <2>7
  <1>9. ASSUME NEW r \in skillRequests, OpencodeForgets(r)
        PROVE  Skilled'
    <2>1. PICK new : new = [r EXCEPT !.told = TRUE]
      OBVIOUS
    <2>2. /\ new \in SkillRequest /\ new.nr = r.nr /\ new.op = r.op /\ new.before = r.before
          /\ skillRequests' = (skillRequests \ {r}) \cup {new}
      BY <1>9, <2>1 DEF OpencodeForgets, SkillsTypeOK, SkillRequest
    <2>3. SkillsTypeOK'
      BY <1>9, <2>2, SkillValues DEF OpencodeForgets, SkillsTypeOK
    <2>4. RequestsNumbered'
      BY <1>9, <2>2 DEF OpencodeForgets, RequestsNumbered
    <2> QED  BY <1>9, <2>3, <2>4, SkillValues DEF OpencodeForgets, LoadedFits, LookFits
  <1>4. CASE InstallerLooks
    BY <1>4 DEF InstallerLooks, SkillsTypeOK, RequestsNumbered, LoadedFits, LookFits, Enabled
  <1>5. CASE OpencodeLoads
    <2>1. loaded' \in Loaded /\ loaded'.skills = Enabled'
      BY <1>5 DEF OpencodeLoads, Loaded, Enabled, SkillsTypeOK, Copies
    <2> QED  BY <1>5, <2>1 DEF OpencodeLoads, SkillsTypeOK, RequestsNumbered, LoadedFits, LookFits
  <1>6. CASE SkillsCrash
    <2>1. untold' \in BOOLEAN /\ (~untold' => ~untold /\ \A r \in skillRequests : r.told)
      BY <1>6 DEF SkillsCrash, SkillsTypeOK
    <2> QED  BY <1>6, <2>1 DEF SkillsCrash, SkillsTypeOK, RequestsNumbered, LoadedFits, LookFits,
                               Enabled
  <1>10. CASE OpencodeRestarts
    BY <1>10, SkillValues DEF OpencodeRestarts, SkillsTypeOK, RequestsNumbered, LoadedFits, LookFits
  <1>7. CASE /\ seen' = "none"
             /\ UNCHANGED <<skills, loaded, skillRequests, answered, issued, moveFaults, untold>>
    BY <1>7 DEF SkillsTypeOK, RequestsNumbered, LoadedFits, LookFits, Enabled
  <1>8. CASE UNCHANGED skillsVars
    BY <1>8 DEF skillsVars, SkillsTypeOK, RequestsNumbered, LoadedFits, LookFits, Enabled
  <1> QED  BY <1>1, <1>2, <1>3, <1>4, <1>5, <1>6, <1>7, <1>8, <1>9, <1>10,
            RequestSteps

\* Only a delete and the undoing of an import lose a text, for whatever requests
\* overlap, directories that cannot be moved and calls that fail; a failed import that
\* found nothing leaves nothing; OpenCode uses what is enabled once it has done as told;
\* and skills that are enabled by default disable none.
THEOREM TextsAreKept == SkillsSpec => SkillsAreKept
  <1> DEFINE
        Texted == \A s \in SkillIds :
          \/ TextsOf(skills[s]) \subseteq TextsOf(skills'[s])
          \/ answered' # answered /\ answered'.op = "import" /\ ~answered'.ok /\ answered'.skill = s
          \/ \E r \in skillRequests' \ skillRequests : r.op = "delete" /\ r.skill = s
        Untraced == \A r \in skillRequests :
          /\ r.op = "import" /\ answered'.nr = r.nr /\ ~answered'.ok
          /\ skills[r.skill] = r.after /\ r.before.disabled = 0
          => skills'[r.skill] = r.before
        Defaulted == seen # "none" /\ seen' = "none" =>
          \A s \in SkillIds : skills[s].enabled # 0 => skills'[s].enabled # 0
  <1>1. ASSUME Skilled, SkillsNext PROVE Texted /\ Untraced /\ Defaulted
    <2> USE <1>1 DEF Skilled
    <2>1. ASSUME NEW op \in {"import", "set", "patch", "delete"}, NEW s \in SkillIds,
                 Issued, Handles(op, s),
                 seen # "none" /\ seen' = "none" =>
                   \/ skills' = skills
                   \/ \A t \in SkillIds : skills[t].enabled = 0
          PROVE  Texted /\ Untraced /\ Defaulted
      <3>1. /\ issued \in Nat /\ answered.nr \in Nat /\ answered.nr <= issued
            /\ \A r \in skillRequests : r.nr \in Nat /\ r.nr <= issued /\ r.nr # answered.nr
        BY SkillValues DEF SkillsTypeOK, RequestsNumbered, Answer, SkillRequest
      <3>2. CASE Refuses(op, s) /\ op # "delete"
        <4>1. /\ answered'.nr = issued + 1 /\ answered'.op = op /\ ~answered'.ok
              /\ answered'.skill = s
          BY <3>2 DEF Refuses, AnswerTo
        <4>2. Texted
          <5>1. TAKE t \in SkillIds
          <5>2. CASE TextsOf(skills[t]) \subseteq TextsOf(skills'[t])
            BY <5>2
          <5>3. CASE t = s /\ op = "import"
            BY <3>1, <4>1, <5>3
          <5> QED  BY <2>1, <3>2, <5>2, <5>3 DEF Handles
        <4>3. Untraced
          BY <3>1, <4>1
        <4> QED  BY <2>1, <4>2, <4>3
      <3>3. ASSUME NEW before \in Copies, NEW after \in Copies, Awaits(op, s, before, after),
                   op = "import" => TextsOf(skills[s]) \subseteq TextsOf(skills'[s])
            PROVE  Texted /\ Untraced /\ Defaulted
        <4>1. PICK r : r = [nr |-> issued + 1, op |-> op, skill |-> s, before |-> before,
                            after |-> after, told |-> FALSE]
          OBVIOUS
        <4>2. /\ r.nr = issued + 1 /\ r.op = op /\ r.skill = s
              /\ skillRequests' = skillRequests \cup {r} /\ answered' = answered
          BY <3>3, <4>1 DEF Awaits
        <4>3. r \in skillRequests' \ skillRequests
          BY <3>1, <4>2
        <4>4. Texted
          BY <2>1, <3>3, <4>2, <4>3 DEF Handles
        <4>5. Untraced
          BY <3>1, <4>2
        <4> QED  BY <2>1, <4>4, <4>5
      <3> QED  BY <2>1, <3>2, <3>3 DEF Handles
    <2>2. ASSUME NEW q \in skillRequests, InstanceDisposed(q)
          PROVE  Texted /\ Untraced /\ Defaulted
      <3>1. answered'.nr = q.nr /\ answered'.ok /\ skills' = skills
        BY <2>2 DEF InstanceDisposed, AnswerTo
      <3> QED  BY <3>1
    <2>3. ASSUME NEW q \in skillRequests, DisposeFails(q)
          PROVE  Texted /\ Untraced /\ Defaulted
      <3>1. /\ answered'.nr = q.nr /\ ~answered'.ok /\ answered'.op = q.op
            /\ answered'.skill = q.skill
            /\ seen # "none" => seen' # "none"
        BY <2>3, Ageing DEF DisposeFails, AnswerTo
      <3>2. /\ answered' # answered /\ q \in SkillRequest
            /\ q.op = "import" => q.before.enabled = 0
            /\ \A r \in skillRequests : r.nr = q.nr => r = q
        BY <3>1 DEF RequestsNumbered, SkillsTypeOK
      <3>3. Texted
        BY <2>3, <3>1, <3>2 DEF DisposeFails, SkillsTypeOK
      <3>4. Untraced
        <4> SUFFICES ASSUME q.op = "import", q.before.disabled = 0
                     PROVE  skills'[q.skill] = q.before
          BY <3>1, <3>2
        <4>1. q.before = NoCopies
          BY <3>2 DEF SkillRequest, Copies, NoCopies
        <4> QED  BY <2>3, <3>2, <4>1 DEF DisposeFails, RolledBack, SkillsTypeOK, SkillRequest
      <3> QED  BY <3>1, <3>3, <3>4
    <2>4. CASE InstallerLooks
      BY <2>4 DEF InstallerLooks, RequestsNumbered
    <2>5. CASE OpencodeLoads \/ OpencodeRestarts \/ SkillsCrash
          \/ \E r \in skillRequests : OpencodeForgets(r)
      <3>1. UNCHANGED <<skills, answered, seen>>
        BY <2>5 DEF OpencodeLoads, OpencodeRestarts, SkillsCrash, OpencodeForgets
      <3> QED  BY <3>1 DEF RequestsNumbered
    <2>6. CASE UNCHANGED <<skills, loaded, skillRequests, answered, issued, moveFaults, untold>>
      BY <2>6 DEF RequestsNumbered
    <2> QED  BY <2>1, <2>2, <2>3, <2>4, <2>5, <2>6, RequestSteps
  <1> DEFINE Kept ==
        /\ SkillsTypeOK'
        /\ Texted
        /\ Untraced
        /\ (\A r \in skillRequests' : r.told) /\ ~untold' /\ loaded'.there
             => loaded'.skills = Enabled'
        /\ Defaulted
  <1>2. Skilled /\ [SkillsNext]_skillsVars => [Kept]_skillsVars
    <2> SUFFICES ASSUME Skilled, SkillsNext, Skilled' PROVE Kept
      BY SkilledStep
    <2>1. SkillsTypeOK' /\ LoadedFits'
      BY DEF Skilled
    <2>2. Texted /\ Untraced /\ Defaulted
      BY <1>1
    <2> QED  BY <2>1, <2>2 DEF LoadedFits
  <1> QED  BY <1>2, SkilledInit, SkilledStep, PTL DEF SkillsSpec, SkillsAreKept

===============================================================================
