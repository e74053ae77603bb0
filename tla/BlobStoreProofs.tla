-------------------------- MODULE BlobStoreProofs --------------------------
(***************************************************************************)
(* Theorems about BlobStore, for every set of objects and contents and any *)
(* number of revisions, restarts and disk faults.                          *)
(*                                                                         *)
(* The inductive invariant adds to UploadedContentPresent what the holder  *)
(* of the mutex relies on between its steps: once an upload has its blob in*)
(* place, repaired or not, the blob is on disk until its transaction       *)
(* commits, and an orphan confirmed under the mutex is still an orphan when*)
(* it is removed.  Both fail as soon as one of the steps in between is     *)
(* allowed without the mutex.  The types have an invariant of their own,   *)
(* TInv, which needs no bound but MaxRevision.                             *)
(***************************************************************************)
EXTENDS BlobStore, TLAPS, WellFoundedInduction

Holding(task) == ~ Free /\ holder.task = task

UploadIsOnDisk ==
    Holding("note") \/ Holding("upload") => holder.blobs \subseteq DOMAIN files

RemovedIsOrphan == Holding("remove") => \A b \in holder.blobs : ~ Referenced(b)

IInv == UploadedContentPresent /\ UploadIsOnDisk /\ RemovedIsOrphan

USE DEF Holding

-----------------------------------------------------------------------------
\* Writing or replacing a file keeps every other one.
LEMMA PutKeeps ==
    ASSUME NEW table, NEW key, NEW row
    PROVE  DOMAIN Put(table, key, row) = DOMAIN table \cup {key}
BY DEF Put

\* Removing files keeps every other one.
LEMMA DropKeeps ==
    ASSUME NEW table, NEW keys
    PROVE  DOMAIN Drop(table, keys) = DOMAIN table \ keys
BY DEF Drop, Restrict

\* What the rows refer to depends on the rows only.
LEMMA SameRowsSameReferences ==
    ASSUME heads' = heads, versions' = versions, NEW b
    PROVE  Referenced(b)' <=> Referenced(b)
BY DEF Referenced, Live

\* CommitAs takes no file away but the damaged one it sets aside, and the upload goes
\* on to its transaction only with its blob on disk.
LEMMA CommitAsStores ==
    ASSUME NEW f, NEW b, CommitAs(f, b)
    PROVE  /\ DOMAIN files \cup aside \subseteq DOMAIN files' \cup aside'
           /\ \A c \in DOMAIN files \ DOMAIN files' : files[c] = "damaged" /\ c \in aside'
           /\ \/ b \in DOMAIN files' /\ holder' = [task |-> "upload", file |-> f, blobs |-> {b}]
              \/ holder' = [task |-> "repair", file |-> f, blobs |-> {b}]
<1>1. CASE b \notin DOMAIN files
  <2>1. /\ DOMAIN files' = DOMAIN files \cup {b} /\ aside' = aside \ {b}
        /\ holder' = [task |-> "upload", file |-> f, blobs |-> {b}]
    BY <1>1, PutKeeps DEF CommitAs
  <2> QED BY <2>1
<1>2. CASE b \in DOMAIN files /\ DOMAIN files' # DOMAIN files
  <2>1. /\ files[b] = "damaged" /\ aside' = aside \cup {b}
        /\ DOMAIN files' = DOMAIN files \ {b}
        /\ holder' = [task |-> "repair", file |-> f, blobs |-> {b}]
    BY <1>2, DropKeeps DEF CommitAs
  <2> QED BY <2>1
<1>3. CASE b \in DOMAIN files /\ DOMAIN files' = DOMAIN files
  <2>1. \/ holder' = [task |-> "upload", file |-> f, blobs |-> {b}]
        \/ holder' = [task |-> "repair", file |-> f, blobs |-> {b}]
    BY <1>3 DEF CommitAs
  <2>2. aside \subseteq aside'
    BY <1>3 DEF CommitAs
  <2> QED BY <1>3, <2>1, <2>2
<1> QED BY <1>1, <1>2, <1>3

\* A row's blob stays accounted for when what is on disk or set aside only grows.
LEMMA MoreFilesKeepContent ==
    ASSUME UploadedContentPresent, heads' = heads, versions' = versions,
           DOMAIN files \cup aside \subseteq DOMAIN files' \cup aside'
    PROVE  UploadedContentPresent'
BY DEF UploadedContentPresent, Live

\* The rows stay on disk when the removed files have no reference.
LEMMA OrphansKeepContent ==
    ASSUME UploadedContentPresent, heads' = heads, versions' = versions, aside' = aside,
           \A b \in DOMAIN files \ DOMAIN files' : ~ Referenced(b)
    PROVE  UploadedContentPresent'
BY DEF UploadedContentPresent, Referenced, Live

-----------------------------------------------------------------------------
\* Putting an upload's blob in place keeps the invariant, whichever way CommitAs went.
LEMMA StoreKeepsIInv ==
    ASSUME IInv, NEW f \in FileIds, NEW b \in Blobs, StoreUpload(f, b)
    PROVE  IInv'
<1>1. CommitAs(f, b) /\ UNCHANGED <<heads, versions>>
  BY DEF StoreUpload, rows
<1>2. UploadedContentPresent'
  BY <1>1, CommitAsStores, MoreFilesKeepContent DEF IInv
<1>3. \/ b \in DOMAIN files' /\ holder' = [task |-> "upload", file |-> f, blobs |-> {b}]
      \/ holder' = [task |-> "repair", file |-> f, blobs |-> {b}]
  BY <1>1, CommitAsStores
<1>4. UploadIsOnDisk' /\ RemovedIsOrphan'
  BY <1>3 DEF UploadIsOnDisk, RemovedIsOrphan
<1> QED BY <1>2, <1>4 DEF IInv

\* The verified copy takes its place: what was set aside is accounted for by its file.
LEMMA InstallKeepsIInv ==
    ASSUME IInv, InstallRepair
    PROVE  IInv'
<1>1. /\ DOMAIN files' = DOMAIN files \cup holder.blobs
      /\ aside' = aside \ holder.blobs /\ UNCHANGED <<heads, versions>>
      /\ holder'.task = "note" /\ holder'.blobs = holder.blobs
  BY DEF InstallRepair, PutAll, rows
<1>2. UploadedContentPresent'
  BY <1>1, MoreFilesKeepContent DEF IInv
<1>3. UploadIsOnDisk' /\ RemovedIsOrphan'
  BY <1>1 DEF UploadIsOnDisk, RemovedIsOrphan
<1> QED BY <1>2, <1>3 DEF IInv

\* Recording the repair touches neither the rows nor the directory.
LEMMA NoteKeepsIInv ==
    ASSUME IInv, NoteRepair
    PROVE  IInv'
<1>1. /\ holder.task = "note" /\ ~ Free /\ UNCHANGED <<heads, versions, files, aside>>
      /\ holder'.task = "upload" /\ holder'.blobs = holder.blobs
  BY DEF NoteRepair, rows
<1>2. UploadedContentPresent'
  BY <1>1, MoreFilesKeepContent DEF IInv
<1>3. UploadIsOnDisk' /\ RemovedIsOrphan'
  BY <1>1 DEF IInv, UploadIsOnDisk, RemovedIsOrphan
<1> QED BY <1>2, <1>3 DEF IInv

\* The committed rows refer to the blob that was put in place, or to what the
\* rows before referred to.
LEMMA CommitKeepsIInv ==
    ASSUME IInv, CommitUpload
    PROVE  IInv'
<1>1. PICK b \in holder.blobs :
         LET f == holder.file
             row == [rev |-> NextRevision(f), blob |-> b, restored |-> FALSE]
             table == versions \cup {VersionOf(f, row)}
         IN  /\ heads' = Put(heads, f, row)
             /\ \/ \E cut \in Prunable(table, f) :
                      /\ versions' = table \ cut
                      /\ holder' = [task |-> "collect", file |-> f, blobs |-> BlobsOf(cut)]
                \/ /\ versions' = versions
                   /\ holder' = [task |-> "collect", file |-> f, blobs |-> {}]
  BY DEF CommitUpload
<1> DEFINE f == holder.file
           row == [rev |-> NextRevision(f), blob |-> b, restored |-> FALSE]
<1>2. b \in DOMAIN files /\ files' = files /\ aside' = aside
  BY DEF IInv, UploadIsOnDisk, CommitUpload
<1> DEFINE table == versions \cup {VersionOf(f, row)}
<1>3. /\ heads' = Put(heads, f, row)
      /\ versions' \subseteq versions \cup {VersionOf(f, row)}
      /\ holder'.task = "collect"
  <2>1. heads' = Put(heads, f, row)
    BY <1>1
  <2>2. \/ \E cut : /\ versions' = table \ cut
                    /\ holder' = [task |-> "collect", file |-> f, blobs |-> BlobsOf(cut)]
        \/ versions' = versions /\ holder' = [task |-> "collect", file |-> f, blobs |-> {}]
    BY <1>1
  <2> HIDE DEF row, f
  <2>3. versions' \subseteq table /\ holder'.task = "collect"
    BY <2>2
  <2> QED BY <2>1, <2>3
<1>4. row.blob = b /\ VersionOf(f, row).blob = b
  BY DEF VersionOf
<1> HIDE DEF row
<1>5. \A g \in DOMAIN heads' : heads'[g] = row \/ (g \in DOMAIN heads /\ heads'[g] = heads[g])
  BY <1>3 DEF Put
<1>6. UploadedContentPresent'
  BY <1>2, <1>3, <1>4, <1>5 DEF IInv, UploadedContentPresent, Live
<1>7. UploadIsOnDisk' /\ RemovedIsOrphan'
  BY <1>3 DEF UploadIsOnDisk, RemovedIsOrphan
<1> QED BY <1>6, <1>7 DEF IInv

\* A deletion drops a HEAD row and adds a version without content.
LEMMA DeleteKeepsIInv ==
    ASSUME IInv, NEW f \in FileIds, Delete(f)
    PROVE  IInv'
<1>1. /\ heads' = Drop(heads, {f})
      /\ \A v \in versions' : v \in versions \/ v.blob = NoBlob
      /\ files' = files /\ aside' = aside
      /\ holder' = Nobody
  BY DEF Delete, Free
<1>2. \A g \in DOMAIN heads' : g \in DOMAIN heads /\ heads'[g] = heads[g]
  BY <1>1 DEF Drop, Restrict
<1>3. UploadedContentPresent'
  BY <1>1, <1>2 DEF IInv, UploadedContentPresent, Live
<1> QED BY <1>1, <1>3 DEF IInv, UploadIsOnDisk, RemovedIsOrphan, Free

\* The rows a restore writes are not an upload's: their blob may be gone.
LEMMA RestoreKeepsIInv ==
    ASSUME IInv, NEW f \in FileIds, Restore(f)
    PROVE  IInv'
<1> DEFINE row == [rev |-> NextRevision(f), blob |-> tombstones[f].prior, restored |-> TRUE]
<1>1. /\ heads' = Put(heads, f, row)
      /\ versions' \subseteq versions \cup {VersionOf(f, row)}
      /\ files' = files /\ aside' = aside
      /\ holder' = Nobody
  BY DEF Restore, Free
<1>2. row.restored /\ VersionOf(f, row).restored
  BY DEF VersionOf
<1> HIDE DEF row
<1>3. \A g \in DOMAIN heads' : heads'[g] = row \/ (g \in DOMAIN heads /\ heads'[g] = heads[g])
  BY <1>1 DEF Put
<1>4. UploadedContentPresent'
  BY <1>1, <1>2, <1>3 DEF IInv, UploadedContentPresent, Live
<1> QED BY <1>1, <1>4 DEF IInv, UploadIsOnDisk, RemovedIsOrphan, Free

\* Pruning only removes rows; the files go in the step after it.
LEMMA DeleteVersionsKeepsIInv ==
    ASSUME IInv, NEW set, DeleteVersions(set)
    PROVE  IInv'
<1>1. /\ heads' = heads /\ files' = files /\ aside' = aside
      /\ versions' \subseteq versions
      /\ holder'.task = "collect"
  BY DEF DeleteVersions
<1> QED BY <1>1 DEF IInv, UploadedContentPresent, UploadIsOnDisk, RemovedIsOrphan, Live

\* The collectors of pruned blobs and of orphans remove no referenced file.
LEMMA RemovalsAreOrphans ==
    ASSUME IInv, CollectPruned \/ RemoveOrphan
    PROVE  /\ \A b \in DOMAIN files \ DOMAIN files' : ~ Referenced(b)
           /\ UNCHANGED <<heads, versions, aside>>
           /\ holder' = Nobody
<1>1. CASE CollectPruned
  BY <1>1, DropKeeps DEF CollectPruned, rows
<1>2. CASE RemoveOrphan
  <2>1. \A b \in holder.blobs : ~ Referenced(b)
    BY <1>2 DEF IInv, RemovedIsOrphan, RemoveOrphan
  <2>2. DOMAIN files' = DOMAIN files \ holder.blobs
    BY <1>2, DropKeeps, Zenon DEF RemoveOrphan
  <2> QED BY <1>2, <2>1, <2>2 DEF RemoveOrphan, rows
<1> QED BY <1>1, <1>2

\* Both collectors keep the invariant, because what they remove has no reference.
LEMMA RemovalKeepsIInv ==
    ASSUME IInv, CollectPruned \/ RemoveOrphan
    PROVE  IInv'
BY RemovalsAreOrphans, OrphansKeepContent DEF IInv, UploadIsOnDisk, RemovedIsOrphan, Free

\* A sweep step keeps rows and files; it takes the mutex only for an orphan.
LEMMA SweepKeepsIInv ==
    ASSUME IInv, NEW b \in Blobs, SweepBlob(b)
    PROVE  IInv'
<1>1. UNCHANGED <<heads, versions, files, aside>>
  BY DEF SweepBlob, rows
<1>2. UploadedContentPresent'
  BY <1>1, MoreFilesKeepContent DEF IInv
<1>3. \/ holder' = Nobody
      \/ ~ Referenced(b) /\ holder' = [task |-> "remove", file |-> Nobody, blobs |-> {b}]
  BY DEF SweepBlob, Free
<1>4. ~ Referenced(b) => ~ Referenced(b)'
  BY <1>1, SameRowsSameReferences
<1>5. UploadIsOnDisk' /\ RemovedIsOrphan'
  BY <1>3, <1>4 DEF UploadIsOnDisk, RemovedIsOrphan, Free
<1> QED BY <1>2, <1>5 DEF IInv

\* Steps that touch neither rows nor the set of files, and keep or drop the mutex.
LEMMA QuietKeepsIInv ==
    ASSUME IInv, UNCHANGED <<heads, versions, aside>>, DOMAIN files' = DOMAIN files,
           holder' = holder \/ holder' = Nobody
    PROVE  IInv'
<1>1. UploadedContentPresent'
  BY MoreFilesKeepContent DEF IInv
<1>2. \A b : Referenced(b)' <=> Referenced(b)
  BY SameRowsSameReferences
<1>3. UploadIsOnDisk' /\ RemovedIsOrphan'
  BY <1>2 DEF IInv, UploadIsOnDisk, RemovedIsOrphan, Free
<1> QED BY <1>1, <1>3 DEF IInv

\* Every step keeps the invariant, one case per action.
LEMMA NextKeepsIInv == IInv /\ [Next]_vars => IInv'
<1> SUFFICES ASSUME IInv, [Next]_vars
             PROVE  IInv'
  OBVIOUS
<1>1. CASE Write
  <2>1. CASE AbortUpload
    BY <2>1, QuietKeepsIInv DEF AbortUpload, rows
  <2> QED BY <1>1, <2>1, StoreKeepsIInv, InstallKeepsIInv, NoteKeepsIInv, CommitKeepsIInv,
             DeleteKeepsIInv, RestoreKeepsIInv, RemovalKeepsIInv DEF Write
<1>2. CASE Prune
  <2>1. CASE ChooseVictims
    BY <2>1, QuietKeepsIInv DEF ChooseVictims, rows
  <2> QED BY <1>2, <2>1, DeleteVersionsKeepsIInv DEF Prune, PruneHistory, PruneVictims
<1>3. CASE Collect
  <2>1. CASE \E old \in SUBSET DOMAIN files : StartGC(old)
    BY <2>1, QuietKeepsIInv DEF StartGC, rows
  <2>2. CASE \E b \in Blobs : WalkBlob(b)
    BY <2>2, QuietKeepsIInv DEF WalkBlob, rows
  <2>3. CASE EndWalk
    BY <2>3, QuietKeepsIInv DEF EndWalk, rows
  <2> QED BY <1>3, <2>1, <2>2, <2>3, SweepKeepsIInv, RemovalKeepsIInv DEF Collect
<1>4. CASE Scrub
  BY <1>4, QuietKeepsIInv DEF Scrub, rows
<1>5. CASE Environment
  <2>1. CASE \E b \in Blobs : Damage(b)
    <3>1. PICK b \in Blobs : Damage(b)
      BY <2>1
    <3>2. b \in DOMAIN files /\ files' = Put(files, b, "damaged")
      BY <3>1 DEF Damage
    <3>3. DOMAIN files' = DOMAIN files
      BY <3>2 DEF Put
    <3> QED BY <3>1, <3>3, QuietKeepsIInv DEF Damage, rows
  <2>2. CASE Restart
    BY <2>2, QuietKeepsIInv DEF Restart, rows
  <2> QED BY <1>5, <2>1, <2>2 DEF Environment
<1>6. CASE UNCHANGED vars
  BY <1>6, QuietKeepsIInv DEF vars, rows
<1> QED BY <1>1, <1>2, <1>3, <1>4, <1>5, <1>6 DEF Next

\* The inductive invariant holds in every reachable state.
THEOREM Invariance == Spec => []IInv
<1>1. Init => IInv
  BY DEF Init, IInv, UploadedContentPresent, UploadIsOnDisk, RemovedIsOrphan, Live, Free
<1> QED BY <1>1, NextKeepsIInv, PTL DEF Spec

\* The content of every row an upload wrote is on disk, whatever crashes, fails,
\* deduplicates, prunes or collects, unless its damaged file was set aside by a repair
\* that did not finish.
THEOREM UploadsStay == Spec => []UploadedContentPresent
BY Invariance, PTL DEF IInv

-----------------------------------------------------------------------------
\* A step adds to the directory, keeps it, removes orphans, or sets a damaged file aside.
LEMMA StepRemovesOrphans ==
    ASSUME IInv, [Next]_vars, NEW b \in DOMAIN files \ DOMAIN files', Referenced(b)
    PROVE  files[b] = "damaged" /\ b \in aside'
<1>1. CASE CollectPruned \/ RemoveOrphan
  BY <1>1, RemovalsAreOrphans
<1>2. CASE DOMAIN files \subseteq DOMAIN files'
  BY <1>2
<1>3. CASE Write /\ ~ CollectPruned
  <2>1. CASE \E f \in FileIds, c \in Blobs : StoreUpload(f, c)
    BY <2>1, CommitAsStores DEF StoreUpload
  <2>2. CASE \E f \in FileIds : Delete(f) \/ Restore(f)
    BY <2>2, <1>2 DEF Delete, Restore
  <2>3. CASE CommitUpload \/ AbortUpload \/ NoteRepair
    BY <2>3, <1>2 DEF CommitUpload, AbortUpload, NoteRepair
  <2>4. CASE InstallRepair
    BY <2>4, <1>2 DEF InstallRepair, PutAll
  <2> QED BY <1>3, <2>1, <2>2, <2>3, <2>4 DEF Write
<1>4. CASE Prune
  BY <1>4, <1>2 DEF Prune, PruneHistory, ChooseVictims, PruneVictims, DeleteVersions
<1>5. CASE Collect /\ ~ RemoveOrphan
  BY <1>5, <1>2 DEF Collect, StartGC, WalkBlob, EndWalk, SweepBlob
<1>6. CASE Scrub
  BY <1>6, <1>2 DEF Scrub
<1>7. CASE Environment
  <2>1. CASE \E c \in Blobs : Damage(c)
    <3>1. PICK c \in Blobs : files' = Put(files, c, "damaged")
      BY <2>1 DEF Damage
    <3> QED BY <3>1, <1>2 DEF Put
  <2>2. CASE Restart
    BY <2>2, <1>2 DEF Restart
  <2> QED BY <1>7, <2>1, <2>2 DEF Environment
<1>8. CASE UNCHANGED vars
  BY <1>8, <1>2 DEF vars
<1> QED BY <1>1, <1>3, <1>4, <1>5, <1>6, <1>7, <1>8 DEF Next

\* The only way a file somebody refers to leaves the directory is into the quarantine,
\* damaged: the collectors never take it, although what they look at was chosen before
\* they held the mutex.
THEOREM NothingReferencedRemoved == Spec => ReferencedNeverRemoved
<1>1. IInv /\ [Next]_vars =>
          [\A b \in DOMAIN files \ DOMAIN files' :
              Referenced(b) => files[b] = "damaged" /\ b \in aside']_vars
  BY StepRemovesOrphans
<1> QED BY <1>1, Invariance, PTL DEF Spec, ReferencedNeverRemoved

-----------------------------------------------------------------------------
\* Recording a repair clears exactly the findings of the blob that was replaced.
LEMMA NoteKeepsFindings ==
    ASSUME FoundDamageRefused, NoteRepair
    PROVE  FoundDamageRefused'
<1>1. events' = PutAll(events, holder.blobs, "repaired") /\ found' = found \ holder.blobs
  BY DEF NoteRepair
<1>2. \A c \in found' : c \in DOMAIN events /\ events[c] = "unservable" /\ c \notin holder.blobs
  BY <1>1 DEF FoundDamageRefused, Servable
<1> QED BY <1>1, <1>2 DEF FoundDamageRefused, Servable, PutAll

\* A scrub adds findings and clears none.
LEMMA ScrubKeepsFindings ==
    ASSUME FoundDamageRefused, Scrub
    PROVE  FoundDamageRefused'
<1>1. PICK caught :
         LET bad == {b \in Blobs \ DOMAIN files : Referenced(b)} \cup caught
         IN  /\ events' = [b \in DOMAIN events \cup bad |->
                              IF b \in bad THEN "unservable" ELSE events[b]]
             /\ found' = found \cup bad
  <2> DEFINE missing == {b \in Blobs \ DOMAIN files : Referenced(b)}
  <2>1. PICK caught :
           /\ events' = [b \in DOMAIN events \cup missing \cup caught |->
                            IF b \in missing \cup caught THEN "unservable" ELSE events[b]]
           /\ found' = found \cup missing \cup caught
    BY DEF Scrub
  <2> HIDE DEF missing
  <2>2. /\ DOMAIN events \cup missing \cup caught = DOMAIN events \cup (missing \cup caught)
        /\ found \cup missing \cup caught = found \cup (missing \cup caught)
    OBVIOUS
  <2>3. /\ events' = [b \in DOMAIN events \cup (missing \cup caught) |->
                         IF b \in missing \cup caught THEN "unservable" ELSE events[b]]
        /\ found' = found \cup (missing \cup caught)
    BY <2>1, <2>2
  <2> QED BY <2>3 DEF missing
<1> DEFINE bad == {b \in Blobs \ DOMAIN files : Referenced(b)} \cup caught
<1>2. /\ events' = [b \in DOMAIN events \cup bad |->
                       IF b \in bad THEN "unservable" ELSE events[b]]
      /\ found' = found \cup bad
  BY <1>1
<1> HIDE DEF bad
<1> QED BY <1>2 DEF FoundDamageRefused, Servable

\* A blob a scrub found missing or damaged is refused until it is replaced.
THEOREM DamageRefused == Spec => []FoundDamageRefused
<1>1. Init => FoundDamageRefused
  BY DEF Init, FoundDamageRefused
<1>2. FoundDamageRefused /\ [Next]_vars => FoundDamageRefused'
  <2> SUFFICES ASSUME FoundDamageRefused, [Next]_vars
               PROVE  FoundDamageRefused'
    OBVIOUS
  <2>1. CASE UNCHANGED <<events, found>>
    BY <2>1 DEF FoundDamageRefused, Servable
  <2>2. CASE (\E f \in FileIds, b \in Blobs : StoreUpload(f, b)) \/ InstallRepair
    BY <2>2, <2>1 DEF StoreUpload, InstallRepair, ledgers
  <2>3. CASE Scrub
    BY <2>3, ScrubKeepsFindings
  <2>4. CASE Write
    BY <2>4, <2>1, <2>2, NoteKeepsFindings
       DEF Write, CommitUpload, AbortUpload, CollectPruned, Delete, Restore, ledgers
  <2>5. CASE Prune
    BY <2>5, <2>1 DEF Prune, PruneHistory, ChooseVictims, PruneVictims, DeleteVersions, ledgers
  <2>6. CASE Collect
    BY <2>6, <2>1 DEF Collect, StartGC, WalkBlob, EndWalk, SweepBlob, RemoveOrphan, ledgers
  <2>7. CASE Environment
    BY <2>7, <2>1 DEF Environment, Damage, Restart, ledgers
  <2>8. CASE UNCHANGED vars
    BY <2>8, <2>1 DEF vars, ledgers
  <2> QED BY <2>3, <2>4, <2>5, <2>6, <2>7, <2>8 DEF Next
<1> QED BY <1>1, <1>2, PTL DEF Spec

-----------------------------------------------------------------------------
(***************************************************************************)
(* Type correctness, which is inductive together with what the holder of   *)
(* the mutex keeps true of the object it writes: its next revision.        *)
(***************************************************************************)
USE StorageAssumption

RowsTyped ==
    /\ DOMAIN heads \subseteq FileIds /\ \A f \in Live : heads[f] \in HeadRow
    /\ DOMAIN tombstones \subseteq FileIds
    /\ \A f \in DOMAIN tombstones : tombstones[f] \in [rev : 1..MaxRevision, prior : Blobs]
    /\ versions \subseteq Version /\ victims \subseteq Version
    /\ historyOn \in BOOLEAN

LedgersTyped ==
    /\ DOMAIN files \subseteq Blobs /\ \A b \in DOMAIN files : files[b] \in {"good", "damaged"}
    /\ DOMAIN events \subseteq Blobs
    /\ DOMAIN rounds \subseteq Blobs /\ \A b \in DOMAIN rounds : rounds[b] \in 1..2
    /\ aside \subseteq Blobs

\* An upload on its way to its transaction, by the repair or not.
Uploading == ~ Free /\ holder.task \in {"repair", "note", "upload"}

HolderTyped ==
    /\ ~ Free => /\ holder.task \in {"repair", "note", "upload", "collect", "remove"}
                 /\ holder.blobs \subseteq Blobs
    /\ Uploading => /\ holder.file \in FileIds
                    /\ NextRevision(holder.file) <= MaxRevision

CollectorTyped ==
    \/ gc \in [phase : {"idle", "sweep"}, blobs : SUBSET Blobs]
    \/ gc \in [phase : {"walk"}, blobs : SUBSET Blobs, candidates : SUBSET Blobs]

TInv == RowsTyped /\ LedgersTyped /\ HolderTyped /\ CollectorTyped

\* A set of naturals that is not empty and has a bound has a greatest element.
LEMMA GreatestNat ==
    ASSUME NEW S \in SUBSET Nat, S # {}, NEW bound \in Nat, \A s \in S : s <= bound
    PROVE  \E m \in S : \A s \in S : s <= m
<1> DEFINE T == {bound - s : s \in S}
<1>1. T \subseteq Nat /\ T # {}
  <2>1. \A s \in S : bound - s \in Nat
    OBVIOUS
  <2>2. \A s \in S : bound - s \in T
    OBVIOUS
  <2>3. T \subseteq Nat
    BY <2>1
  <2> QED BY <2>2, <2>3
<1> DEFINE R == OpToRel(<, Nat)
<1>2. IsWellFoundedOn(R, Nat)
  BY NatLessThanWellFounded
<1> HIDE DEF R
<1>3. \A x, y \in Nat : x < y => <<x, y>> \in R
  BY DEF R, OpToRel
<1> HIDE DEF T
<1>4. PICK x \in T : \A y \in T : ~(<<y, x>> \in R)
  BY <1>1, <1>2, WFMin
<1>5. \A y \in T : ~(y < x)
  BY <1>1, <1>3, <1>4
<1>6. PICK m \in S : x = bound - m
  BY <1>4 DEF T
<1>7. ASSUME NEW s \in S PROVE s <= m
  <2>1. bound - s \in T
    BY DEF T
  <2> QED BY <1>5, <1>6, <2>1
<1> QED BY <1>7

\* The content a deletion record keeps is the one the object has, or one that its
\* history holds.
LEMMA PriorIsContent ==
    ASSUME RowsTyped, NEW f \in Live
    PROVE  /\ PriorContent(f) \in Blobs
           /\ \/ PriorContent(f) = heads[f].blob
              \/ \E v \in versions : v.file = f /\ v.blob = PriorContent(f)
<1> DEFINE stored == {v \in versions : v.file = f /\ v.blob # NoBlob}
           revs == {v.rev : v \in stored}
<1>1. heads[f].blob \in Blobs
  BY DEF RowsTyped, HeadRow
<1>2. \A v \in stored : v.blob \in Blobs /\ v.rev \in Nat /\ v.rev <= MaxRevision
  BY DEF RowsTyped, Version
<1>3. ASSUME stored # {}
      PROVE  \E v \in stored : \A w \in stored : w.rev <= v.rev
  <2>1. \A v \in stored : v.rev \in revs
    OBVIOUS
  <2>2. revs \in SUBSET Nat /\ revs # {} /\ \A n \in revs : n <= MaxRevision
    BY <1>2, <1>3, <2>1
  <2>3. \A n \in revs : \E v \in stored : v.rev = n
    OBVIOUS
  <2> HIDE DEF revs
  <2>4. PICK m \in revs : \A n \in revs : n <= m
    BY <2>2, GreatestNat
  <2> QED BY <2>1, <2>3, <2>4
<1> HIDE DEF stored
<1>4. CASE stored = {}
  BY <1>1, <1>4 DEF PriorContent, stored
<1>5. CASE stored # {}
  <2> DEFINE best == CHOOSE v \in stored : \A w \in stored : w.rev <= v.rev
  <2>1. best \in stored
    BY <1>3, <1>5
  <2>2. PriorContent(f) = best.blob
    BY <1>5 DEF PriorContent, stored
  <2> QED BY <1>2, <2>1, <2>2 DEF stored
<1> QED BY <1>4, <1>5

\* The next revision of an object is a positive number.
LEMMA NextRevisionType ==
    ASSUME RowsTyped, NEW f
    PROVE  NextRevision(f) \in Nat \ {0}
<1>1. f \in Live => heads[f].rev \in Nat
  BY DEF RowsTyped, HeadRow
<1>2. f \in DOMAIN tombstones => tombstones[f].rev \in Nat
  BY DEF RowsTyped
<1> QED BY <1>1, <1>2 DEF NextRevision

\* A row of the next revision is a HEAD row, and so is its version.
LEMMA RowIsTyped ==
    ASSUME RowsTyped, NEW f \in FileIds, NEW b \in Blobs, NEW flag \in BOOLEAN,
           NextRevision(f) <= MaxRevision,
           NEW row, row = [rev |-> NextRevision(f), blob |-> b, restored |-> flag]
    PROVE  row \in HeadRow /\ VersionOf(f, row) \in Version
<1>1. NextRevision(f) \in 1..MaxRevision
  BY NextRevisionType
<1> QED BY <1>1 DEF HeadRow, VersionOf, Version

LEMMA RowsKept ==
    ASSUME TInv, Next
    PROVE  RowsTyped'
<1> USE DEF TInv
<1>1. ASSUME UNCHANGED <<heads, tombstones>>, versions' \subseteq versions,
             victims' \subseteq Version, historyOn' \in BOOLEAN
      PROVE  RowsTyped'
  BY <1>1 DEF RowsTyped, Live
<1>2. CASE Write
  <2>1. CASE \/ (\E f \in FileIds, b \in Blobs : StoreUpload(f, b)) \/ AbortUpload
             \/ InstallRepair \/ NoteRepair \/ CollectPruned
    BY <1>1, <2>1
       DEF StoreUpload, AbortUpload, InstallRepair, NoteRepair, CollectPruned, rows, RowsTyped
  <2>2. CASE CommitUpload
    <3>1. PICK b \in holder.blobs :
             LET f == holder.file
                 row == [rev |-> NextRevision(f), blob |-> b, restored |-> FALSE]
                 table == versions \cup {VersionOf(f, row)}
             IN  /\ heads' = Put(heads, f, row)
                 /\ versions' \subseteq table
      BY <2>2 DEF CommitUpload
    <3> DEFINE f == holder.file
               row == [rev |-> NextRevision(f), blob |-> b, restored |-> FALSE]
    <3>2. f \in FileIds /\ b \in Blobs /\ NextRevision(f) <= MaxRevision
      BY <2>2 DEF CommitUpload, HolderTyped, Uploading
    <3>3. row \in HeadRow /\ VersionOf(f, row) \in Version
      BY <3>2, RowIsTyped
    <3>4. heads' = Put(heads, f, row) /\ versions' \subseteq versions \cup {VersionOf(f, row)}
      BY <3>1
    <3>5. UNCHANGED <<tombstones, victims, historyOn>>
      BY <2>2 DEF CommitUpload
    <3> HIDE DEF row, f
    <3> QED BY <3>2, <3>3, <3>4, <3>5 DEF RowsTyped, Put, Live
  <2>3. ASSUME NEW f \in FileIds, Delete(f) PROVE RowsTyped'
    <3> DEFINE rev == heads[f].rev + 1
               tomb == [rev |-> rev, prior |-> PriorContent(f)]
               mark == [file |-> f, rev |-> rev, blob |-> NoBlob, restored |-> FALSE]
    <3>1. f \in Live /\ heads[f].rev < MaxRevision /\ heads[f].rev \in 1..MaxRevision
      BY <2>3 DEF Delete, RowsTyped, HeadRow
    <3>2. rev \in 1..MaxRevision /\ PriorContent(f) \in Blobs
      BY <3>1, PriorIsContent
    <3>3. tomb \in [rev : 1..MaxRevision, prior : Blobs] /\ mark \in Version
      BY <3>2 DEF Version
    <3>4. /\ tombstones' = Put(tombstones, f, tomb) /\ heads' = Drop(heads, {f})
          /\ versions' \subseteq versions \cup {mark}
          /\ UNCHANGED <<victims, historyOn>>
      BY <2>3 DEF Delete
    <3> HIDE DEF tomb, mark
    <3> QED BY <3>3, <3>4 DEF RowsTyped, Put, Drop, Restrict, Live
  <2>4. ASSUME NEW f \in FileIds, Restore(f) PROVE RowsTyped'
    <3> DEFINE row == [rev |-> NextRevision(f), blob |-> tombstones[f].prior, restored |-> TRUE]
    <3>1. /\ f \in DOMAIN tombstones /\ NextRevision(f) <= MaxRevision
          /\ tombstones[f].prior \in Blobs
      BY <2>4 DEF Restore, RowsTyped
    <3>2. row \in HeadRow /\ VersionOf(f, row) \in Version
      BY <3>1, RowIsTyped
    <3>3. /\ heads' = Put(heads, f, row) /\ tombstones' = Drop(tombstones, {f})
          /\ versions' \subseteq versions \cup {VersionOf(f, row)}
          /\ UNCHANGED <<victims, historyOn>>
      BY <2>4 DEF Restore
    <3> HIDE DEF row
    <3> QED BY <3>2, <3>3 DEF RowsTyped, Put, Drop, Restrict, Live
  <2> QED BY <1>2, <2>1, <2>2, <2>3, <2>4 DEF Write
<1>3. CASE Prune
  <2>1. CASE ChooseVictims
    BY <1>1, <2>1 DEF ChooseVictims, rows, RowsTyped
  <2> QED BY <1>1, <1>3, <2>1
          DEF Prune, PruneHistory, PruneVictims, DeleteVersions, RowsTyped
<1>4. CASE Collect
  BY <1>1, <1>4 DEF Collect, StartGC, WalkBlob, EndWalk, SweepBlob, RemoveOrphan, rows, RowsTyped
<1>5. CASE Scrub
  BY <1>1, <1>5 DEF Scrub, rows, RowsTyped
<1>6. CASE Environment
  BY <1>1, <1>6 DEF Environment, Damage, Restart, rows, RowsTyped
<1> QED BY <1>2, <1>3, <1>4, <1>5, <1>6 DEF Next

LEMMA LedgersKept ==
    ASSUME TInv, Next
    PROVE  LedgersTyped'
<1> USE DEF TInv
<1>1. ASSUME UNCHANGED <<files, ledgers, aside>>
      PROVE  LedgersTyped'
  BY <1>1 DEF LedgersTyped, ledgers
<1>2. CASE Write
  <2>1. ASSUME NEW f \in FileIds, NEW b \in Blobs, StoreUpload(f, b) PROVE LedgersTyped'
    <3>1. CommitAs(f, b) /\ UNCHANGED <<rounds, events>>
      BY <2>1 DEF StoreUpload, ledgers
    <3>2. /\ files' = files \/ files' = Put(files, b, "good") \/ files' = Drop(files, {b})
          /\ aside' = aside \/ aside' = aside \ {b} \/ aside' = aside \cup {b}
      BY <3>1 DEF CommitAs
    <3> QED BY <3>1, <3>2 DEF LedgersTyped, Put, Drop, Restrict
  <2>3. CASE InstallRepair
    <3>1. /\ files' = PutAll(files, holder.blobs, "good") /\ UNCHANGED <<rounds, events>>
          /\ aside' = aside \ holder.blobs /\ holder.blobs \subseteq Blobs
      BY <2>3 DEF InstallRepair, ledgers, HolderTyped
    <3> QED BY <3>1 DEF LedgersTyped, PutAll
  <2>4. CASE NoteRepair
    <3>1. /\ events' = PutAll(events, holder.blobs, "repaired")
          /\ UNCHANGED <<files, rounds, aside>> /\ holder.blobs \subseteq Blobs
      BY <2>4 DEF NoteRepair, HolderTyped
    <3> QED BY <3>1 DEF LedgersTyped, PutAll
  <2>2. CASE CollectPruned
    BY <2>2 DEF CollectPruned, LedgersTyped, Drop, Restrict, ledgers
  <2> QED BY <1>1, <1>2, <2>1, <2>2, <2>3, <2>4
          DEF Write, CommitUpload, AbortUpload, Delete, Restore
<1>3. CASE Prune
  BY <1>1, <1>3 DEF Prune, PruneHistory, ChooseVictims, PruneVictims, DeleteVersions
<1>4. CASE Collect
  <2>1. CASE (\E old \in SUBSET DOMAIN files : StartGC(old)) \/ EndWalk
    BY <1>1, <2>1 DEF StartGC, EndWalk
  <2>2. ASSUME NEW b \in Blobs, WalkBlob(b) PROVE LedgersTyped'
    <3>1. UNCHANGED <<files, events, aside>> /\ (rounds' = rounds \/ rounds' = Drop(rounds, {b}))
      BY <2>2 DEF WalkBlob
    <3> QED BY <3>1 DEF LedgersTyped, Drop, Restrict
  <2>3. ASSUME NEW b \in Blobs, SweepBlob(b) PROVE LedgersTyped'
    <3>1. /\ UNCHANGED <<files, events, aside>>
          /\ \/ rounds' = Drop(rounds, {b})
             \/ rounds' = Put(rounds, b, 1) \/ rounds' = Put(rounds, b, 2)
      BY <2>3 DEF SweepBlob
    <3> QED BY <3>1 DEF LedgersTyped, Put, Drop, Restrict
  <2>4. CASE RemoveOrphan
    BY <2>4 DEF RemoveOrphan, LedgersTyped, Drop, Restrict
  <2> QED BY <1>4, <2>1, <2>2, <2>3, <2>4 DEF Collect
<1>5. CASE Scrub
  <2>1. PICK caught \in SUBSET {b \in DOMAIN files : Referenced(b) /\ files[b] = "damaged"} :
           DOMAIN events' = DOMAIN events \cup {b \in Blobs \ DOMAIN files : Referenced(b)} \cup caught
    BY <1>5 DEF Scrub
  <2>2. UNCHANGED <<files, rounds, aside>>
    BY <1>5 DEF Scrub
  <2> QED BY <2>1, <2>2 DEF LedgersTyped
<1>6. CASE Environment
  <2>1. ASSUME NEW b \in Blobs, Damage(b) PROVE LedgersTyped'
    BY <2>1 DEF Damage, LedgersTyped, Put, ledgers
  <2> QED BY <1>1, <1>6, <2>1 DEF Environment, Restart
<1> QED BY <1>2, <1>3, <1>4, <1>5, <1>6 DEF Next

LEMMA HolderKept ==
    ASSUME TInv, Next
    PROVE  HolderTyped'
<1> USE DEF TInv
<1>1. ASSUME holder' = Nobody
      PROVE  HolderTyped'
  BY <1>1 DEF HolderTyped, Uploading, Free
<1>2. ASSUME UNCHANGED <<holder, heads, tombstones>>
      PROVE  HolderTyped'
  BY <1>2 DEF HolderTyped, Uploading, Free, NextRevision, Live
<1>3. ASSUME NEW task \in {"collect", "remove"}, NEW file, NEW set \in SUBSET Blobs,
             holder' = [task |-> task, file |-> file, blobs |-> set]
      PROVE  HolderTyped'
  BY <1>3 DEF HolderTyped, Uploading
<1>4. \A set : set \subseteq Version => BlobsOf(set) \in SUBSET Blobs
  BY DEF BlobsOf, Version
<1>5. CASE Write
  <2>1. ASSUME NEW f \in FileIds, NEW b \in Blobs, StoreUpload(f, b) PROVE HolderTyped'
    <3>1. /\ \/ holder' = [task |-> "upload", file |-> f, blobs |-> {b}]
             \/ holder' = [task |-> "repair", file |-> f, blobs |-> {b}]
          /\ NextRevision(f) <= MaxRevision /\ UNCHANGED <<heads, tombstones>>
      BY <2>1, CommitAsStores DEF StoreUpload, rows
    <3> QED BY <3>1 DEF HolderTyped, Uploading, NextRevision, Live
  <2>3. CASE InstallRepair \/ NoteRepair
    <3>1. /\ Uploading /\ holder'.task \in {"note", "upload"}
          /\ holder'.file = holder.file /\ holder'.blobs = holder.blobs
          /\ UNCHANGED <<heads, tombstones>>
      BY <2>3 DEF InstallRepair, NoteRepair, Uploading, rows
    <3> QED BY <3>1 DEF HolderTyped, Uploading, NextRevision, Live
  <2>2. CASE CommitUpload
    <3>1. PICK b \in holder.blobs :
             LET f == holder.file
                 row == [rev |-> NextRevision(f), blob |-> b, restored |-> FALSE]
                 table == versions \cup {VersionOf(f, row)}
             IN  \/ \E cut \in Prunable(table, f) :
                       holder' = [task |-> "collect", file |-> f, blobs |-> BlobsOf(cut)]
                 \/ holder' = [task |-> "collect", file |-> f, blobs |-> {}]
      BY <2>2 DEF CommitUpload
    <3> DEFINE f == holder.file
               row == [rev |-> NextRevision(f), blob |-> b, restored |-> FALSE]
               table == versions \cup {VersionOf(f, row)}
    <3>2. f \in FileIds /\ b \in Blobs /\ NextRevision(f) <= MaxRevision
      BY <2>2 DEF CommitUpload, HolderTyped, Uploading
    <3>3. table \subseteq Version
      BY <3>2, RowIsTyped DEF RowsTyped
    <3>4. \/ \E cut \in Prunable(table, f) :
                holder' = [task |-> "collect", file |-> f, blobs |-> BlobsOf(cut)]
          \/ holder' = [task |-> "collect", file |-> f, blobs |-> {}]
      BY <3>1
    <3> HIDE DEF table, f
    <3>5. \A cut \in Prunable(table, f) : cut \subseteq Version
      BY <3>3 DEF Prunable
    <3> QED BY <1>3, <1>4, <3>4, <3>5
  <2> QED BY <1>1, <1>5, <2>1, <2>2, <2>3
          DEF Write, AbortUpload, CollectPruned, Delete, Restore, Free
<1>6. CASE Prune
  <2>1. CASE \E f \in FileIds : PruneHistory(f)
    <3>1. PICK f \in FileIds : PruneHistory(f)
      BY <2>1
    <3>2. PICK cut \in Prunable(versions, f) : DeleteVersions(cut)
      BY <3>1 DEF PruneHistory
    <3>3. cut \subseteq Version
      BY <3>2 DEF Prunable, RowsTyped
    <3> QED BY <1>3, <1>4, <3>2, <3>3 DEF DeleteVersions
  <2>2. CASE ChooseVictims
    BY <1>2, <2>2 DEF ChooseVictims, rows
  <2>3. CASE PruneVictims
    BY <1>3, <1>4, <2>3 DEF PruneVictims, DeleteVersions, RowsTyped
  <2> QED BY <1>6, <2>1, <2>2, <2>3 DEF Prune
<1>7. CASE Collect
  <2>1. ASSUME NEW b \in Blobs, SweepBlob(b) PROVE HolderTyped'
    <3>1. \/ UNCHANGED <<holder, heads, tombstones>>
          \/ holder' = [task |-> "remove", file |-> Nobody, blobs |-> {b}]
      BY <2>1 DEF SweepBlob, rows
    <3> QED BY <1>2, <1>3, <3>1
  <2> QED BY <1>1, <1>2, <1>7, <2>1 DEF Collect, StartGC, WalkBlob, EndWalk, RemoveOrphan, rows
<1>8. CASE Scrub
  BY <1>2, <1>8 DEF Scrub, rows
<1>9. CASE Environment
  BY <1>1, <1>2, <1>9 DEF Environment, Damage, Restart, rows
<1> QED BY <1>5, <1>6, <1>7, <1>8, <1>9 DEF Next

LEMMA CollectorKept ==
    ASSUME TInv, Next
    PROVE  CollectorTyped'
<1> USE DEF TInv
<1>1. CASE gc' = gc
  BY <1>1 DEF CollectorTyped
<1>2. CASE gc' = Idle
  BY <1>2 DEF CollectorTyped, Idle
<1>3. CASE Collect
  <2>1. ASSUME NEW old \in SUBSET DOMAIN files, StartGC(old) PROVE CollectorTyped'
    BY <2>1 DEF StartGC, CollectorTyped, LedgersTyped
  <2>2. ASSUME NEW b \in Blobs, WalkBlob(b) PROVE CollectorTyped'
    <3>1. /\ gc.phase = "walk"
          /\ \/ gc' = [gc EXCEPT !.blobs = @ \ {b}]
             \/ gc' = [gc EXCEPT !.blobs = @ \ {b}, !.candidates = @ \cup {b}]
      BY <2>2 DEF WalkBlob
    <3>2. gc \in [phase : {"walk"}, blobs : SUBSET Blobs, candidates : SUBSET Blobs]
      BY <3>1 DEF CollectorTyped
    <3>3. gc' \in [phase : {"walk"}, blobs : SUBSET Blobs, candidates : SUBSET Blobs]
      BY <3>1, <3>2
    <3> QED BY <3>3 DEF CollectorTyped
  <2>3. CASE EndWalk
    <3>1. \/ gc' = Idle
          \/ gc' = [phase |-> "sweep", blobs |-> gc.candidates] /\ gc.phase = "walk"
      BY <2>3 DEF EndWalk
    <3> QED BY <1>2, <3>1 DEF CollectorTyped
  <2>4. ASSUME NEW b \in Blobs, SweepBlob(b) PROVE CollectorTyped'
    <3>1. gc' = Idle \/ gc' = [phase |-> "sweep", blobs |-> gc.blobs \ {b}]
      BY <2>4 DEF SweepBlob, AfterSweeping
    <3> QED BY <1>2, <3>1 DEF CollectorTyped
  <2> QED BY <1>1, <1>3, <2>1, <2>2, <2>3, <2>4 DEF Collect, RemoveOrphan
<1>4. CASE Write
  BY <1>1, <1>4
     DEF Write, StoreUpload, InstallRepair, NoteRepair, CommitUpload, AbortUpload,
         CollectPruned, Delete, Restore
<1>5. CASE Prune
  BY <1>1, <1>5 DEF Prune, PruneHistory, ChooseVictims, PruneVictims, DeleteVersions
<1>6. CASE Scrub \/ Environment
  BY <1>1, <1>2, <1>6 DEF Scrub, Environment, Damage, Restart
<1> QED BY <1>3, <1>4, <1>5, <1>6 DEF Next

\* The typed state is inductive.
LEMMA TypeInvariance == Spec => []TInv
<1>1. Init => TInv
  BY DEF Init, TInv, RowsTyped, LedgersTyped, HolderTyped, Uploading, CollectorTyped, Live,
         Free, Idle
<1>2. TInv /\ [Next]_vars => TInv'
  <2> SUFFICES ASSUME TInv, [Next]_vars
               PROVE  TInv'
    OBVIOUS
  <2>1. CASE Next
    BY <2>1, RowsKept, LedgersKept, HolderKept, CollectorKept DEF TInv
  <2>2. CASE UNCHANGED vars
    BY <2>2 DEF vars, rows, ledgers, TInv, RowsTyped, LedgersTyped, HolderTyped, Uploading,
                CollectorTyped, Live, Free, NextRevision
  <2> QED BY <2>1, <2>2
<1> QED BY <1>1, <1>2, PTL DEF Spec

\* Every row, file, ledger entry and candidate stays in its range: in particular a
\* deletion record always keeps a content, never a deletion marker.
THEOREM TypeCorrect == Spec => []TypeOK
<1>1. TInv => TypeOK
  BY DEF TInv, RowsTyped, LedgersTyped, HolderTyped, CollectorTyped, TypeOK
<1> QED BY <1>1, TypeInvariance, PTL

-----------------------------------------------------------------------------
(***************************************************************************)
(* BlobStore implements Archive.  Three more facts have to be kept: while  *)
(* an upload holds the mutex its object is not deleted; a repair is of one *)
(* blob; and whatever becomes of the rows after the budget chose its       *)
(* victims, a newer row than each of them is there and is no victim.       *)
(***************************************************************************)
UploadIsAllowed ==
    Uploading => (holder.file \in DOMAIN tombstones => holder.file \in Live)

Superseding(w, set) ==
    \A u \in set : u.file = w.file => u.rev < w.rev

VictimsSuperseded ==
    \A v \in victims :
        \E w \in versions : w.file = v.file /\ v.rev < w.rev /\ Superseding(w, victims)

\* A cut that leaves the newer rows keeps what superseded any row.
LEMMA PruningSupersedes ==
    ASSUME NEW table, NEW f, NEW cut \in Prunable(table, f), table \subseteq Version,
           NEW set \in SUBSET Version, NEW v \in set,
           NEW w \in table, w.file = v.file, v.rev < w.rev, Superseding(w, set)
    PROVE  \E x \in table \ cut : x.file = v.file /\ v.rev < x.rev /\ Superseding(x, set)
<1>1. CASE w \notin cut
  BY <1>1
<1>2. CASE w \in cut
  <2>1. PICK x \in table \ cut : x.file = f /\ w.file = f /\ w.rev < x.rev
    BY <1>2 DEF Prunable
  <2>2. /\ x.rev \in Int /\ w.rev \in Int /\ v.rev \in Int
        /\ \A u \in set : u.rev \in Int
    BY DEF Version
  <2>3. Superseding(x, set)
    BY <2>1, <2>2 DEF Superseding
  <2> QED BY <2>1, <2>2, <2>3
<1> QED BY <1>1, <1>2

\* The rows that pruning by age and count leaves supersede the victims still.
LEMMA CutKeepsSuperseded ==
    ASSUME TInv, VictimsSuperseded, victims' = victims, NEW table, versions \subseteq table,
           table \subseteq Version, NEW f, NEW cut \in Prunable(table, f),
           versions' = table \ cut
    PROVE  VictimsSuperseded'
<1>1. victims \in SUBSET Version
  BY DEF TInv, RowsTyped
<1>2. ASSUME NEW v \in victims
      PROVE  \E x \in table \ cut : x.file = v.file /\ v.rev < x.rev /\ Superseding(x, victims)
  <2>1. PICK w \in versions : w.file = v.file /\ v.rev < w.rev /\ Superseding(w, victims)
    BY DEF VictimsSuperseded
  <2> QED BY <1>1, <2>1, PruningSupersedes
<1> QED BY <1>2 DEF VictimsSuperseded, Superseding

LEMMA MoreRowsKeepSuperseded ==
    ASSUME VictimsSuperseded, victims' = victims, versions \subseteq versions'
    PROVE  VictimsSuperseded'
BY DEF VictimsSuperseded, Superseding

\* Whatever the mutex lets in between the choice and the deletion of the victims.
LEMMA SupersededKept ==
    ASSUME TInv, VictimsSuperseded, [Next]_vars
    PROVE  VictimsSuperseded'
<1>0. CASE UNCHANGED <<versions, victims>>
  BY <1>0, MoreRowsKeepSuperseded
<1>1. CASE Write
  <2>1. CASE CommitUpload
    <3>1. PICK b \in holder.blobs :
             LET f == holder.file
                 row == [rev |-> NextRevision(f), blob |-> b, restored |-> FALSE]
                 table == versions \cup {VersionOf(f, row)}
             IN  \/ \E cut \in Prunable(table, f) : versions' = table \ cut
                 \/ versions' = versions
      BY <2>1 DEF CommitUpload
    <3> DEFINE f == holder.file
               row == [rev |-> NextRevision(f), blob |-> b, restored |-> FALSE]
               table == versions \cup {VersionOf(f, row)}
    <3>2. f \in FileIds /\ b \in Blobs /\ NextRevision(f) <= MaxRevision
      BY <2>1 DEF CommitUpload, TInv, HolderTyped, Uploading
    <3>3. table \subseteq Version
      BY <3>2, RowIsTyped DEF TInv, RowsTyped
    <3>4. (\E cut \in Prunable(table, f) : versions' = table \ cut) \/ versions' = versions
      BY <3>1
    <3>5. versions \subseteq table /\ victims' = victims
      BY <2>1 DEF CommitUpload
    <3> HIDE DEF table, f
    <3> QED BY <3>3, <3>4, <3>5, CutKeepsSuperseded, MoreRowsKeepSuperseded
  <2>2. CASE \E f \in FileIds : Delete(f) \/ Restore(f)
    BY <2>2, MoreRowsKeepSuperseded DEF Delete, Restore
  <2> QED BY <1>0, <1>1, <2>1, <2>2
          DEF Write, StoreUpload, InstallRepair, NoteRepair, AbortUpload, CollectPruned, rows
<1>2. CASE Prune
  <2>1. ASSUME NEW f \in FileIds, PruneHistory(f) PROVE VictimsSuperseded'
    <3>1. PICK cut \in Prunable(versions, f) : versions' = versions \ cut
      BY <2>1 DEF PruneHistory, DeleteVersions
    <3> QED BY <2>1, <3>1, CutKeepsSuperseded DEF PruneHistory, TInv, RowsTyped
  <2>2. CASE ChooseVictims
    <3>1. PICK v \in versions : ~ Newest(v) /\ victims' = {v}
      BY <2>2 DEF ChooseVictims
    <3>2. PICK w \in versions : w.file = v.file /\ v.rev < w.rev
      BY <3>1 DEF Newest, TInv, RowsTyped, Version
    <3>3. versions' = versions
      BY <2>2 DEF ChooseVictims, rows
    <3> QED BY <3>1, <3>2, <3>3 DEF VictimsSuperseded, Superseding
  <2>3. CASE PruneVictims
    BY <2>3 DEF PruneVictims, VictimsSuperseded
  <2> QED BY <1>2, <2>1, <2>2, <2>3 DEF Prune
<1>3. CASE Collect
  BY <1>0, <1>3 DEF Collect, StartGC, WalkBlob, EndWalk, SweepBlob, RemoveOrphan, rows
<1>4. CASE Scrub
  BY <1>0, <1>4 DEF Scrub, rows
<1>5. CASE Environment
  <2>1. CASE Restart
    BY <2>1 DEF Restart, VictimsSuperseded
  <2> QED BY <1>0, <1>5, <2>1 DEF Environment, Damage, rows
<1> QED BY <1>0, <1>1, <1>2, <1>3, <1>4, <1>5 DEF Next, vars, rows

\* No deletion comes between an upload's check and its transaction.
LEMMA UploadStaysAllowed ==
    ASSUME UploadIsAllowed, [Next]_vars
    PROVE  UploadIsAllowed'
<1>1. ASSUME holder' = Nobody PROVE UploadIsAllowed'
  BY <1>1 DEF UploadIsAllowed, Uploading, Free
<1>2. ASSUME UNCHANGED <<heads, tombstones, holder>> PROVE UploadIsAllowed'
  BY <1>2 DEF UploadIsAllowed, Uploading, Free, Live
<1>3. ASSUME holder'.task \notin {"repair", "note", "upload"} PROVE UploadIsAllowed'
  BY <1>3 DEF UploadIsAllowed, Uploading
<1>4. CASE Write
  <2>1. ASSUME NEW f \in FileIds, NEW b \in Blobs, StoreUpload(f, b) PROVE UploadIsAllowed'
    BY <2>1, CommitAsStores DEF StoreUpload, UploadIsAllowed, rows, Live
  <2>4. CASE InstallRepair \/ NoteRepair
    <3>1. Uploading /\ holder'.file = holder.file /\ UNCHANGED <<heads, tombstones>>
      BY <2>4 DEF InstallRepair, NoteRepair, Uploading, rows
    <3> QED BY <3>1 DEF UploadIsAllowed, Live
  <2>2. CASE CommitUpload
    <3>1. \/ \E cut : holder' = [task |-> "collect", file |-> holder.file, blobs |-> BlobsOf(cut)]
          \/ holder' = [task |-> "collect", file |-> holder.file, blobs |-> {}]
      BY <2>2 DEF CommitUpload
    <3> QED BY <1>3, <3>1
  <2>3. CASE \E f \in FileIds : Delete(f) \/ Restore(f)
    BY <1>1, <2>3 DEF Delete, Restore, Free
  <2> QED BY <1>1, <1>4, <2>1, <2>2, <2>3, <2>4 DEF Write, AbortUpload, CollectPruned
<1>5. CASE Prune
  BY <1>2, <1>3, <1>5 DEF Prune, PruneHistory, ChooseVictims, PruneVictims, DeleteVersions, rows
<1>6. CASE Collect
  <2>1. ASSUME NEW b \in Blobs, SweepBlob(b) PROVE UploadIsAllowed'
    BY <1>2, <1>3, <2>1 DEF SweepBlob, rows
  <2> QED BY <1>1, <1>2, <1>6, <2>1 DEF Collect, StartGC, WalkBlob, EndWalk, RemoveOrphan, rows
<1>7. CASE Scrub
  BY <1>2, <1>7 DEF Scrub, rows
<1>8. CASE Environment
  BY <1>1, <1>2, <1>8 DEF Environment, Damage, Restart, rows
<1> QED BY <1>2, <1>4, <1>5, <1>6, <1>7, <1>8 DEF Next, vars, rows

\* A repair is of one blob.
RepairsOne == Holding("repair") => \E b \in Blobs : holder.blobs = {b}

\* Only a StoreUpload begins a repair.
LEMMA RepairsStayOne ==
    ASSUME RepairsOne, [Next]_vars
    PROVE  RepairsOne'
<1>1. ASSUME holder' = holder \/ holder' = Nobody \/ holder'.task # "repair"
      PROVE  RepairsOne'
  BY <1>1 DEF RepairsOne, Free
<1>2. CASE Write
  <2>1. ASSUME NEW f \in FileIds, NEW b \in Blobs, StoreUpload(f, b) PROVE RepairsOne'
    <3>1. holder'.blobs = {b}
      BY <2>1, CommitAsStores DEF StoreUpload
    <3> QED BY <3>1 DEF RepairsOne
  <2>2. CASE CommitUpload
    <3>1. \/ \E cut : holder' = [task |-> "collect", file |-> holder.file, blobs |-> BlobsOf(cut)]
          \/ holder' = [task |-> "collect", file |-> holder.file, blobs |-> {}]
      BY <2>2 DEF CommitUpload
    <3> QED BY <1>1, <3>1
  <2>3. CASE InstallRepair \/ NoteRepair \/ AbortUpload \/ CollectPruned
    BY <1>1, <2>3 DEF InstallRepair, NoteRepair, AbortUpload, CollectPruned
  <2>4. CASE \E f \in FileIds : Delete(f) \/ Restore(f)
    BY <1>1, <2>4 DEF Delete, Restore
  <2> QED BY <1>2, <2>1, <2>2, <2>3, <2>4 DEF Write
<1>3. CASE Prune
  BY <1>1, <1>3 DEF Prune, PruneHistory, ChooseVictims, PruneVictims, DeleteVersions
<1>4. CASE Collect
  <2>1. ASSUME NEW b \in Blobs, SweepBlob(b) PROVE RepairsOne'
    <3>1. holder' = holder \/ holder' = [task |-> "remove", file |-> Nobody, blobs |-> {b}]
      BY <2>1 DEF SweepBlob
    <3> QED BY <1>1, <3>1
  <2> QED BY <1>1, <1>4, <2>1 DEF Collect, StartGC, WalkBlob, EndWalk, RemoveOrphan
<1>5. CASE Scrub \/ Environment \/ UNCHANGED vars
  BY <1>1, <1>5 DEF Scrub, Environment, Damage, Restart, vars
<1> QED BY <1>2, <1>3, <1>4, <1>5 DEF Next

SInv == IInv /\ TInv /\ UploadIsAllowed /\ RepairsOne /\ VictimsSuperseded

LEMMA StoreInvariance == Spec => []SInv
<1>1. Init => UploadIsAllowed /\ RepairsOne /\ VictimsSuperseded
  BY DEF Init, RepairsOne, UploadIsAllowed, Uploading, VictimsSuperseded, Free
<1>2. TInv /\ UploadIsAllowed /\ RepairsOne /\ VictimsSuperseded /\ [Next]_vars
        => UploadIsAllowed' /\ RepairsOne' /\ VictimsSuperseded'
  BY SupersededKept, UploadStaysAllowed, RepairsStayOne
<1> QED BY <1>1, <1>2, Invariance, TypeInvariance, PTL DEF Spec, SInv

\* What is in use to a reader is what the collectors find a reference to.
LEMMA InUseIsReferenced ==
    Store!InUse = {c \in Blobs : Referenced(c)}
<1>1. \A f \in DOMAIN ReadObjects : ReadObjects[f].live <=> f \in Live
  BY DEF ReadObjects
<1>2. \A f \in Live : f \in DOMAIN ReadObjects /\ ReadObjects[f].content = heads[f].blob
  BY DEF ReadObjects
<1>3. /\ \A v \in versions : \E r \in ReadRecords : r.content = v.blob
      /\ \A r \in ReadRecords : \E v \in versions : v.blob = r.content
  <2> DEFINE record(v) == [file |-> v.file, rev |-> v.rev, content |-> v.blob]
  <2>1. ReadRecords = {record(v) : v \in versions} /\ \A v : record(v).content = v.blob
    BY DEF ReadRecords
  <2> HIDE DEF record
  <2> QED BY <2>1
<1> QED BY <1>1, <1>2, <1>3 DEF Store!InUse, Store!Exists, Referenced

\* The condition of a content in use follows its file and nothing else.
LEMMA ConditionFollowsFiles ==
    ASSUME TInv', NEW changed,
           \A b \in Blobs \ changed : Referenced(b) /\ Referenced(b)' =>
               /\ b \in DOMAIN files <=> b \in DOMAIN files'
               /\ b \in DOMAIN files => files'[b] = files[b]
    PROVE  Store!OthersAsBefore(changed)
<1>1. /\ Store!InUse = {c \in Blobs : Referenced(c)}
      /\ Store!InUse' = {c \in Blobs : Referenced(c)'}
  <2>1. (Store!InUse = {c \in Blobs : Referenced(c)})'
    BY InUseIsReferenced, PTL
  <2> QED BY <2>1, InUseIsReferenced
<1>2. \A b \in DOMAIN files' : files'[b] \in {"good", "damaged"}
  BY DEF TInv, LedgersTyped
<1>3. DOMAIN ReadCondition' = Store!InUse'
  BY <1>1 DEF ReadCondition
<1>4. \A b \in Store!InUse' :
          ReadCondition'[b] = IF b \in DOMAIN files' THEN files'[b] ELSE "missing"
  BY <1>1 DEF ReadCondition
<1>5. \A b \in Store!InUse :
          ReadCondition[b] = IF b \in DOMAIN files THEN files[b] ELSE "missing"
  BY <1>1 DEF ReadCondition
<1>6. ASSUME NEW b \in (Store!InUse \cap Store!InUse') \ changed
      PROVE  ReadCondition'[b] = ReadCondition[b]
  BY <1>1, <1>4, <1>5
<1>7. \A b \in Store!InUse' : ReadCondition'[b] \in Store!Conditions
  BY <1>2, <1>4 DEF Store!Conditions
<1> QED BY <1>3, <1>6, <1>7 DEF Store!OthersAsBefore

\* A row written for one object changes what is read of that object only.
LEMMA RowBecomes ==
    ASSUME NEW f, NEW row, heads' = Put(heads, f, row),
           tombstones' = tombstones \/ (f \notin Live /\ tombstones' = Drop(tombstones, {f}))
    PROVE  Store!Becomes(f, [live |-> TRUE, rev |-> row.rev, content |-> row.blob])
<1>1. /\ DOMAIN heads' = DOMAIN heads \cup {f} /\ heads'[f] = row
      /\ \A g \in DOMAIN heads \ {f} : heads'[g] = heads[g]
  BY DEF Put
<1>2. /\ \A g : g # f => (g \in DOMAIN tombstones' <=> g \in DOMAIN tombstones)
      /\ \A g \in DOMAIN tombstones : g # f => tombstones'[g] = tombstones[g]
      /\ DOMAIN tombstones' \subseteq DOMAIN tombstones
  BY DEF Drop, Restrict
<1>3. /\ DOMAIN ReadObjects = DOMAIN heads \cup DOMAIN tombstones
      /\ DOMAIN ReadObjects' = DOMAIN heads' \cup DOMAIN tombstones'
  BY DEF ReadObjects, Live
<1>4. ReadObjects'[f] = [live |-> TRUE, rev |-> row.rev, content |-> row.blob]
  BY <1>1 DEF ReadObjects, Live
<1>5. ASSUME NEW g \in DOMAIN ReadObjects \ {f}
      PROVE  ReadObjects'[g] = ReadObjects[g]
  BY <1>1, <1>2, <1>3 DEF ReadObjects, Live
<1>6. DOMAIN ReadObjects' = DOMAIN ReadObjects \cup {f}
  BY <1>1, <1>2, <1>3
<1> QED BY <1>1, <1>3, <1>4, <1>5, <1>6 DEF Store!Becomes, Store!Exists

\* Revisions are counted the same way, on both sides of a deletion.
LEMMA SameNextRevision ==
    ASSUME NEW f
    PROVE  NextRevision(f) = Store!NextRev(f)
BY DEF NextRevision, Store!NextRev, Store!Exists, ReadObjects, Live

LEMMA RecordOfOneMore ==
    ASSUME NEW set, NEW v
    PROVE  {[file |-> w.file, rev |-> w.rev, content |-> w.blob] : w \in set \cup {v}} =
           {[file |-> w.file, rev |-> w.rev, content |-> w.blob] : w \in set}
               \cup {[file |-> v.file, rev |-> v.rev, content |-> v.blob]}
OBVIOUS

\* A row added to the history adds its record.
LEMMA RecordAdded ==
    ASSUME NEW v, versions' = versions \cup {v}
    PROVE  ReadRecords' = ReadRecords \cup
                              {[file |-> v.file, rev |-> v.rev, content |-> v.blob]}
BY DEF ReadRecords

\* Deleting rows of the history that newer rows supersede is pruning its records.
LEMMA RecordsPruned ==
    ASSUME NEW table, NEW left \in SUBSET table,
           \A v \in table \ left : \E w \in left : w.file = v.file /\ v.rev < w.rev
    PROVE  Store!PrunedFrom({[file |-> v.file, rev |-> v.rev, content |-> v.blob] : v \in table},
                            {[file |-> v.file, rev |-> v.rev, content |-> v.blob] : v \in left})
<1> DEFINE record(v) == [file |-> v.file, rev |-> v.rev, content |-> v.blob]
           Records(set) == {record(v) : v \in set}
<1>1. \A v : record(v).file = v.file /\ record(v).rev = v.rev
  OBVIOUS
<1> HIDE DEF record
<1>2. ASSUME NEW r \in Records(table) \ Records(left)
      PROVE  \E s \in Records(left) : s.file = r.file /\ r.rev < s.rev
  <2>1. PICK v \in table \ left : r = record(v)
    BY <1>2
  <2>2. PICK w \in left : w.file = v.file /\ v.rev < w.rev
    OBVIOUS
  <2> QED BY <1>1, <2>1, <2>2
<1>3. Store!PrunedFrom(Records(table), Records(left))
  BY <1>2 DEF Store!PrunedFrom
<1> QED BY <1>3 DEF record

-----------------------------------------------------------------------------
StepOfArchive == [Store!Next]_<<ReadObjects, ReadRecords, ReadCondition>>

\* Steps that leave the rows alone and the files that rows refer to.
LEMMA UnseenStep ==
    ASSUME UNCHANGED rows,
           \A b \in Blobs : Referenced(b) =>
               /\ b \in DOMAIN files <=> b \in DOMAIN files'
               /\ b \in DOMAIN files => files'[b] = files[b]
    PROVE  StepOfArchive
<1>1. UNCHANGED <<heads, tombstones, versions>>
  BY DEF rows
<1>2. \A b : Referenced(b)' <=> Referenced(b)
  BY <1>1, SameRowsSameReferences
<1>3. UNCHANGED <<ReadObjects, ReadRecords>>
  BY <1>1 DEF ReadObjects, ReadRecords, Live
<1>4. UNCHANGED ReadCondition
  BY <1>2 DEF ReadCondition
<1> QED BY <1>3, <1>4 DEF StepOfArchive

OthersKept(b) ==
    \A c \in Blobs \ {b} :
        /\ c \in DOMAIN files <=> c \in DOMAIN files'
        /\ c \in DOMAIN files => files'[c] = files[c]

\* Changing the file of one blob: a verified copy comes, the disk damages it, or a
\* repair sets the damaged file aside.
LEMMA FileStep ==
    ASSUME TInv', UNCHANGED rows, NEW b \in Blobs,
           OthersKept(b),
           \/ b \in DOMAIN files' /\ files'[b] = "good"
           \/ /\ b \in DOMAIN files /\ files[b] = "good"
              /\ b \in DOMAIN files' /\ files'[b] = "damaged"
           \/ b \in DOMAIN files /\ files[b] = "damaged" /\ b \notin DOMAIN files'
    PROVE  StepOfArchive
<1> DEFINE seen == IF b \in DOMAIN files THEN files[b] ELSE "missing"
<1>1. CASE ~ Referenced(b)
  BY <1>1, UnseenStep DEF OthersKept
<1>2. CASE b \in DOMAIN files /\ b \in DOMAIN files' /\ files'[b] = files[b]
  BY <1>2, UnseenStep DEF OthersKept
<1>3. CASE Referenced(b) /\ ~ (b \in DOMAIN files /\ b \in DOMAIN files' /\ files'[b] = files[b])
  <2>1. UNCHANGED <<heads, tombstones, versions>> /\ Referenced(b)'
    BY <1>3, SameRowsSameReferences DEF rows
  <2>2. UNCHANGED <<ReadObjects, ReadRecords>>
    BY <2>1 DEF ReadObjects, ReadRecords, Live
  <2>3. Store!OthersAsBefore({b})
    <3>1. \A c \in Blobs \ {b} : Referenced(c) /\ Referenced(c)' =>
              /\ c \in DOMAIN files <=> c \in DOMAIN files'
              /\ c \in DOMAIN files => files'[c] = files[c]
      BY DEF OthersKept
    <3> QED BY <3>1, ConditionFollowsFiles
  <2>4. b \in Store!InUse
    BY <1>3, InUseIsReferenced
  <2>5. ReadCondition[b] = seen
    BY <1>3 DEF ReadCondition
  <2>6. ReadCondition'[b] = IF b \in DOMAIN files' THEN files'[b] ELSE "missing"
    BY <2>1 DEF ReadCondition
  <2>7. CASE b \in DOMAIN files' /\ files'[b] = "good"
    BY <1>3, <2>2, <2>3, <2>4, <2>5, <2>6, <2>7 DEF Store!Mend, Store!Next, StepOfArchive
  <2>8. CASE b \in DOMAIN files' /\ files'[b] = "damaged" /\ seen = "good"
    BY <2>2, <2>3, <2>4, <2>5, <2>6, <2>8 DEF Store!Damage, Store!Next, StepOfArchive
  <2>9. CASE b \notin DOMAIN files' /\ seen = "damaged"
    BY <2>2, <2>3, <2>4, <2>5, <2>6, <2>9 DEF Store!SetAside, Store!Next, StepOfArchive
  <2> QED BY <2>7, <2>8, <2>9
<1> QED BY <1>1, <1>2, <1>3

\* Putting a blob in place shows when it mends one in use, setting it aside when it is
\* in use.
LEMMA StoreShowsFile ==
    ASSUME TInv', NEW f \in FileIds, NEW b \in Blobs, StoreUpload(f, b)
    PROVE  StepOfArchive
<1>1. UNCHANGED rows
  BY DEF StoreUpload
<1>2. CASE files' = files
  BY <1>1, <1>2, UnseenStep
<1>3. CASE files' = Put(files, b, "good")
  <2>1. /\ OthersKept(b)
        /\ b \in DOMAIN files' /\ files'[b] = "good"
    BY <1>3 DEF Put, OthersKept
  <2> QED BY <1>1, <2>1, FileStep
<1>4. CASE b \in DOMAIN files /\ files[b] = "damaged" /\ files' = Drop(files, {b})
  <2>1. /\ OthersKept(b)
        /\ b \notin DOMAIN files'
    BY <1>4 DEF Drop, Restrict, OthersKept
  <2> QED BY <1>1, <1>4, <2>1, FileStep
<1> QED BY <1>2, <1>3, <1>4 DEF StoreUpload, CommitAs

\* The verified copy is installed for the one blob of the upload.
LEMMA InstallIsMend ==
    ASSUME SInv, TInv', InstallRepair
    PROVE  StepOfArchive
<1>1. PICK b \in Blobs : holder.blobs = {b}
  BY DEF InstallRepair, SInv, RepairsOne
<1>2. /\ UNCHANGED rows
      /\ OthersKept(b)
      /\ b \in DOMAIN files' /\ files'[b] = "good"
  BY <1>1 DEF InstallRepair, PutAll, OthersKept
<1> QED BY <1>2, FileStep

\* The transaction of an upload is the upload, and its content is there.
LEMMA CommitIsUpload ==
    ASSUME SInv, TInv', CommitUpload
    PROVE  StepOfArchive
<1>1. PICK b \in holder.blobs :
         LET f == holder.file
             row == [rev |-> NextRevision(f), blob |-> b, restored |-> FALSE]
             table == versions \cup {VersionOf(f, row)}
         IN  /\ heads' = Put(heads, f, row)
             /\ \/ \E cut \in Prunable(table, f) : versions' = table \ cut
                \/ versions' = versions
  BY DEF CommitUpload
<1> DEFINE f == holder.file
           row == [rev |-> NextRevision(f), blob |-> b, restored |-> FALSE]
           table == versions \cup {VersionOf(f, row)}
           object == [live |-> TRUE, rev |-> Store!NextRev(f), content |-> b]
<1>2. /\ f \in FileIds /\ b \in Blobs /\ b \in DOMAIN files
      /\ f \in DOMAIN tombstones => f \in Live
  BY DEF CommitUpload, SInv, TInv, HolderTyped, Uploading, IInv, UploadIsOnDisk, UploadIsAllowed
<1>3. UNCHANGED <<tombstones, files>>
  BY DEF CommitUpload
<1>4. f \in Store!Exists => ReadObjects[f].live
  BY <1>2 DEF Store!Exists, ReadObjects
<1>5. Store!Becomes(f, object)
  <2>1. /\ heads' = Put(heads, f, row)
        /\ row.rev = Store!NextRev(f) /\ row.blob = b
    BY <1>1, SameNextRevision
  <2> HIDE DEF row, f
  <2>2. Store!Becomes(f, [live |-> TRUE, rev |-> row.rev, content |-> row.blob])
    BY <1>3, <2>1, RowBecomes
  <2> QED BY <2>1, <2>2
<1>6. ReadRecords' = ReadRecords
      \/ Store!PrunedFrom(ReadRecords \cup {Store!Record(f, object)}, ReadRecords')
  <2> DEFINE Records(set) == {[file |-> v.file, rev |-> v.rev, content |-> v.blob] : v \in set}
  <2>1. CASE versions' = versions
    BY <2>1 DEF ReadRecords
  <2>2. ASSUME NEW cut \in Prunable(table, f), versions' = table \ cut
        PROVE  Store!PrunedFrom(ReadRecords \cup {Store!Record(f, object)}, ReadRecords')
    <3>1. \A v \in table \ (table \ cut) :
             \E w \in table \ cut : w.file = v.file /\ v.rev < w.rev
      <4> HIDE DEF table, f
      <4> QED BY DEF Prunable
    <3>2. Store!PrunedFrom(Records(table), Records(table \ cut))
      <4> HIDE DEF table
      <4> QED BY <3>1, RecordsPruned
    <3>3. Records(table) = ReadRecords \cup {Store!Record(f, object)}
      <4> DEFINE v == VersionOf(f, row)
      <4>1. Records(table) = ReadRecords
              \cup {[file |-> v.file, rev |-> v.rev, content |-> v.blob]}
        BY RecordOfOneMore DEF ReadRecords
      <4>2. v.file = f /\ v.rev = Store!NextRev(f) /\ v.blob = b
        BY SameNextRevision DEF VersionOf
      <4>3. Store!Record(f, object) = [file |-> f, rev |-> Store!NextRev(f), content |-> b]
        BY DEF Store!Record
      <4> HIDE DEF v, object, table
      <4> QED BY <4>1, <4>2, <4>3
    <3>4. Records(table \ cut) = ReadRecords'
      <4> HIDE DEF table
      <4> QED BY <2>2 DEF ReadRecords
    <3> QED BY <3>2, <3>3, <3>4
  <2> QED BY <1>1, <2>1, <2>2
<1>7. Store!OthersAsBefore({})
  BY <1>3, ConditionFollowsFiles
<1>8. ReadCondition'[b] # "missing"
  <2>1. f \in Live' /\ heads'[f].blob = b
    BY <1>1 DEF Put, Live
  <2>2. Referenced(b)'
    BY <2>1 DEF Referenced
  <2>3. files'[b] \in {"good", "damaged"}
    BY <1>2, <1>3 DEF TInv, LedgersTyped
  <2> QED BY <1>2, <1>3, <2>2, <2>3 DEF ReadCondition
<1>9. Store!Upload(f, b)
  BY <1>4, <1>5, <1>6, <1>7, <1>8 DEF Store!Upload
<1> QED BY <1>2, <1>9 DEF Store!Next, StepOfArchive

\* A deletion keeps a content the object had.
LEMMA DeleteIsDelete ==
    ASSUME TInv, TInv', NEW f \in FileIds, Delete(f)
    PROVE  StepOfArchive
<1> DEFINE rev == heads[f].rev + 1
           tomb == [rev |-> rev, prior |-> PriorContent(f)]
           mark == [file |-> f, rev |-> rev, blob |-> NoBlob, restored |-> FALSE]
           object == [live |-> FALSE, rev |-> Store!NextRev(f), content |-> PriorContent(f)]
<1>1. /\ f \in Live
      /\ tombstones' = Put(tombstones, f, tomb) /\ heads' = Drop(heads, {f})
      /\ versions' = versions \cup {mark} \/ versions' = versions
      /\ files' = files
  BY DEF Delete
<1>2. Store!NextRev(f) = rev
  BY <1>1, SameNextRevision DEF NextRevision
<1>3. f \in Store!Exists /\ ReadObjects[f].live /\ ReadObjects[f].content = heads[f].blob
  BY <1>1 DEF Store!Exists, ReadObjects
<1>4. PriorContent(f) \in {ReadObjects[f].content}
                          \cup {r.content : r \in {s \in ReadRecords : s.file = f}}
  <2>1. CASE PriorContent(f) = heads[f].blob
    BY <1>3, <2>1
  <2>2. ASSUME NEW v \in versions, v.file = f, v.blob = PriorContent(f)
        PROVE  PriorContent(f) \in {r.content : r \in {s \in ReadRecords : s.file = f}}
    <3> DEFINE record == [file |-> v.file, rev |-> v.rev, content |-> v.blob]
    <3>1. record \in ReadRecords
      BY DEF ReadRecords
    <3>2. record.file = f /\ record.content = PriorContent(f)
      BY <2>2
    <3> HIDE DEF record
    <3> QED BY <3>1, <3>2
  <2> QED BY <1>1, <2>1, <2>2, PriorIsContent DEF TInv
<1>5. PriorContent(f) # NoBlob
  BY <1>1, PriorIsContent, StorageAssumption DEF TInv
<1>6. Store!Becomes(f, object)
  <2>1. /\ DOMAIN tombstones' = DOMAIN tombstones \cup {f} /\ tombstones'[f] = tomb
        /\ \A g \in DOMAIN tombstones : g # f => tombstones'[g] = tombstones[g]
    BY <1>1 DEF Put
  <2>2. /\ DOMAIN heads' = DOMAIN heads \ {f}
        /\ \A g \in DOMAIN heads : g # f => heads'[g] = heads[g]
    BY <1>1 DEF Drop, Restrict
  <2>3. /\ DOMAIN ReadObjects = DOMAIN heads \cup DOMAIN tombstones
        /\ DOMAIN ReadObjects' = DOMAIN heads' \cup DOMAIN tombstones'
    BY DEF ReadObjects, Live
  <2>4. ReadObjects'[f] = object
    <3>1. tomb.rev = Store!NextRev(f) /\ tomb.prior = PriorContent(f)
      BY <1>2
    <3> HIDE DEF tomb
    <3>2. f \notin Live' /\ f \in DOMAIN tombstones' /\ tombstones'[f] = tomb
      BY <2>1, <2>2 DEF Live
    <3> QED BY <3>1, <3>2 DEF ReadObjects
  <2>5. ASSUME NEW g \in DOMAIN ReadObjects \ {f}
        PROVE  ReadObjects'[g] = ReadObjects[g]
    BY <2>1, <2>2, <2>3 DEF ReadObjects, Live
  <2>6. DOMAIN ReadObjects' = DOMAIN ReadObjects \cup {f}
    BY <1>1, <2>1, <2>2, <2>3 DEF Live
  <2> QED BY <2>1, <2>3, <2>4, <2>5, <2>6 DEF Store!Becomes, Store!Exists
<1>7. \/ ReadRecords' = ReadRecords
      \/ ReadRecords' = ReadRecords
            \cup {[file |-> f, rev |-> Store!NextRev(f), content |-> NoBlob]}
  <2>1. CASE versions' = versions
    BY <2>1 DEF ReadRecords
  <2>2. CASE versions' = versions \cup {mark}
    <3>1. mark.file = f /\ mark.rev = rev /\ mark.blob = NoBlob
      OBVIOUS
    <3> HIDE DEF mark
    <3> QED BY <1>2, <2>2, <3>1, RecordAdded
  <2> QED BY <1>1, <2>1, <2>2
<1>8. Store!OthersAsBefore({})
  BY <1>1, ConditionFollowsFiles
<1>9. Store!Delete(f)
  <2> HIDE DEF rev, tomb, mark
  <2> QED BY <1>3, <1>4, <1>5, <1>6, <1>7, <1>8 DEF Store!Delete
<1> QED BY <1>9 DEF Store!Next, StepOfArchive

\* A restore brings the kept content back, whatever became of its file.
LEMMA RestoreIsRestore ==
    ASSUME TInv', NEW f \in FileIds, Restore(f)
    PROVE  StepOfArchive
<1> DEFINE row == [rev |-> NextRevision(f), blob |-> tombstones[f].prior, restored |-> TRUE]
           object == [live |-> TRUE, rev |-> Store!NextRev(f), content |-> ReadObjects[f].content]
<1>1. /\ f \in DOMAIN tombstones \ Live
      /\ heads' = Put(heads, f, row) /\ tombstones' = Drop(tombstones, {f})
      /\ versions' = versions \cup {VersionOf(f, row)} \/ versions' = versions
      /\ files' = files
  BY DEF Restore
<1>2. /\ f \in Store!Exists
      /\ ReadObjects[f] = [live |-> FALSE, rev |-> tombstones[f].rev,
                           content |-> tombstones[f].prior]
  BY <1>1 DEF Store!Exists, ReadObjects
<1>3. object = [live |-> TRUE, rev |-> row.rev, content |-> row.blob]
  <2>1. row.rev = Store!NextRev(f) /\ row.blob = tombstones[f].prior
    BY SameNextRevision
  <2>2. object = [live |-> TRUE, rev |-> Store!NextRev(f), content |-> tombstones[f].prior]
    BY <1>2
  <2> HIDE DEF row, object
  <2> QED BY <2>1, <2>2
<1>4. Store!Becomes(f, object)
  <2> HIDE DEF row, object
  <2> QED BY <1>1, <1>3, RowBecomes
<1>5. ReadRecords' = ReadRecords \/ ReadRecords' = ReadRecords \cup {Store!Record(f, object)}
  <2>1. CASE versions' = versions
    BY <2>1 DEF ReadRecords
  <2>2. CASE versions' = versions \cup {VersionOf(f, row)}
    <3>1. Store!Record(f, object) = [file |-> VersionOf(f, row).file,
                  rev |-> VersionOf(f, row).rev, content |-> VersionOf(f, row).blob]
      BY <1>3 DEF VersionOf, Store!Record
    <3> HIDE DEF row, object
    <3> QED BY <2>2, <3>1, RecordAdded
  <2> QED BY <1>1, <2>1, <2>2
<1>6. Store!OthersAsBefore({})
  BY <1>1, ConditionFollowsFiles
<1>7. Store!Restore(f)
  <2>1. ~ ReadObjects[f].live
    BY <1>2
  <2> QED BY <1>2, <1>4, <1>5, <1>6, <2>1 DEF Store!Restore
<1> QED BY <1>7 DEF Store!Next, StepOfArchive

\* Deleting superseded rows of the history, the victims' included, is pruning.
LEMMA PruneIsPrune ==
    ASSUME SInv, TInv', Prune
    PROVE  StepOfArchive
<1>1. ASSUME NEW set, DeleteVersions(set),
             \A v \in versions \cap set :
                 \E w \in versions \ set : w.file = v.file /\ v.rev < w.rev
      PROVE  StepOfArchive
  <2>1. versions' = versions \ set /\ UNCHANGED <<heads, tombstones, files>>
    BY <1>1 DEF DeleteVersions
  <2>2. Store!PrunedFrom(ReadRecords, ReadRecords')
    <3>1. \A v \in versions \ versions' :
             \E w \in versions' : w.file = v.file /\ v.rev < w.rev
      BY <1>1, <2>1
    <3>2. versions' \in SUBSET versions
      BY <2>1
    <3> QED BY <3>1, <3>2, RecordsPruned DEF ReadRecords
  <2>3. ReadObjects' = ReadObjects
    BY <2>1 DEF ReadObjects, Live
  <2>4. Store!OthersAsBefore({})
    BY <2>1, ConditionFollowsFiles
  <2> QED BY <2>2, <2>3, <2>4 DEF Store!Prune, Store!Next, StepOfArchive
<1>2. ASSUME NEW f \in FileIds, PruneHistory(f) PROVE StepOfArchive
  <2>1. PICK cut \in Prunable(versions, f) : DeleteVersions(cut)
    BY <1>2 DEF PruneHistory
  <2>2. \A v \in versions \cap cut :
           \E w \in versions \ cut : w.file = v.file /\ v.rev < w.rev
    BY DEF Prunable
  <2> QED BY <1>1, <2>1, <2>2
<1>3. CASE ChooseVictims
  BY <1>3, UnseenStep DEF ChooseVictims
<1>4. CASE PruneVictims
  <2>1. ASSUME NEW v \in victims
        PROVE  \E w \in versions \ victims : w.file = v.file /\ v.rev < w.rev
    <3>1. PICK w \in versions : w.file = v.file /\ v.rev < w.rev /\ Superseding(w, victims)
      BY DEF SInv, VictimsSuperseded
    <3>2. w.rev \in Int
      BY DEF SInv, TInv, RowsTyped, Version
    <3> QED BY <3>1, <3>2 DEF Superseding
  <2> QED BY <1>1, <1>4, <2>1 DEF PruneVictims
<1> QED BY <1>2, <1>3, <1>4 DEF Prune

\* What the collectors remove is nothing a reader sees.
LEMMA RemovalIsUnseen ==
    ASSUME IInv, CollectPruned \/ RemoveOrphan
    PROVE  StepOfArchive
<1>1. UNCHANGED rows /\ \E gone : files' = Drop(files, gone)
  BY DEF CollectPruned, RemoveOrphan
<1>2. /\ DOMAIN files' \subseteq DOMAIN files
      /\ \A b \in DOMAIN files' : files'[b] = files[b]
  BY <1>1 DEF Drop, Restrict
<1>3. \A b \in DOMAIN files \ DOMAIN files' : ~ Referenced(b)
  BY RemovalsAreOrphans
<1> QED BY <1>1, <1>2, <1>3, UnseenStep

LEMMA StepIsArchiveStep ==
    ASSUME SInv, TInv', [Next]_vars
    PROVE  StepOfArchive
<1>0. CASE UNCHANGED <<rows, files>>
  BY <1>0, UnseenStep
<1>1. CASE Write
  BY <1>0, <1>1, StoreShowsFile, InstallIsMend, CommitIsUpload, DeleteIsDelete, RestoreIsRestore,
     RemovalIsUnseen DEF Write, NoteRepair, AbortUpload, SInv
<1>2. CASE Prune
  BY <1>2, PruneIsPrune
<1>3. CASE Collect
  BY <1>0, <1>3, RemovalIsUnseen
     DEF Collect, StartGC, WalkBlob, EndWalk, SweepBlob, RemoveOrphan, SInv
<1>4. CASE Scrub
  BY <1>0, <1>4 DEF Scrub
<1>5. CASE Environment
  <2>1. ASSUME NEW b \in Blobs, Damage(b) PROVE StepOfArchive
    <3>1. files' = Put(files, b, "damaged") /\ b \in DOMAIN files /\ files[b] = "good"
      BY <2>1 DEF Damage
    <3>2. /\ OthersKept(b)
          /\ b \in DOMAIN files' /\ files'[b] = "damaged"
      BY <3>1 DEF Put, OthersKept
    <3> QED BY <2>1, <3>1, <3>2, FileStep DEF Damage
  <2> QED BY <1>0, <1>5, <2>1 DEF Environment, Restart
<1> QED BY <1>0, <1>1, <1>2, <1>3, <1>4, <1>5 DEF Next, vars

\* To a reader, the directory, the mutex, the collectors and the crashes do not
\* exist: what storage does is what Archive allows.
THEOREM ImplementsArchive == Spec => ArchiveSpec
<1>1. Init => Store!Init
  <2> SUFFICES ASSUME Init PROVE Store!Init
    OBVIOUS
  <2>1. Live = {} /\ DOMAIN tombstones = {} /\ versions = {}
    BY DEF Init, Live
  <2>2. ReadObjects = << >> /\ ReadRecords = {}
    BY <2>1 DEF ReadObjects, ReadRecords
  <2>3. ReadCondition = << >>
    BY <2>1 DEF ReadCondition, Referenced
  <2> QED BY <2>2, <2>3 DEF Store!Init
<1>2. SInv /\ SInv' /\ [Next]_vars => StepOfArchive
  BY StepIsArchiveStep DEF SInv
<1> QED BY <1>1, <1>2, StoreInvariance, PTL
        DEF Spec, ArchiveSpec, Store!Spec, StepOfArchive
=============================================================================
