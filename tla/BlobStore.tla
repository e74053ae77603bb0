----------------------------- MODULE BlobStore -----------------------------
(***************************************************************************)
(* Content storage: the blob directory, the rows that refer to blobs (HEAD *)
(* rows and history versions), what collects blobs nobody refers to, and   *)
(* the ledger of damaged ones.                                             *)
(*                                                                         *)
(* ObjectModel takes a write handler as one step.  Here the handler is cut *)
(* where the disk and the database can disagree: a blob is put in place    *)
(* before the transaction that refers to it, and blobs are removed after   *)
(* the transaction that dropped the last reference, all under the service  *)
(* mutex, with a crash possible at each point.  The orphan collector walks *)
(* the directory without the mutex and takes it for each removal.          *)
(*                                                                         *)
(* Base revisions, names and generations are ObjectModel's: any upload,    *)
(* deletion and restore it allows is allowed here.  A blob is named after  *)
(* its content, so content and blob are one thing.                         *)
(***************************************************************************)
EXTENDS Integers, Functions

CONSTANTS
    FileIds,            \* object identities
    Blobs,              \* contents, and the blobs that hold them
    NoBlob,             \* the blob of a deletion marker in the history
    Strict,             \* STRICT_BLOB_VERIFY: hash the old copy when deduplicating
    Nobody,             \* the mutex is free
    MaxRevision,        \* bound on revisions of one object
    MaxRestarts,        \* bound on crashes and restarts
    MaxFaults           \* bound on blobs damaged by the disk

ASSUME StorageAssumption ==
    /\ NoBlob \notin Blobs
    /\ Nobody \notin Blobs
    /\ Strict \in BOOLEAN
    /\ MaxRevision \in Nat
    /\ MaxRestarts \in Nat
    /\ MaxFaults \in Nat

VARIABLES
    heads,              \* file_heads: file id -> HEAD row
    tombstones,         \* tombstones: file id -> deletion record
    versions,           \* object_versions, a set of rows
    files,              \* the blob directory: blob -> "good" or "damaged"
    events,             \* integrity_events: blob -> "unservable" or "repaired"
    rounds,             \* gc_candidates: blob -> confirming rounds (2 is 2 or more)
    historyOn,          \* HISTORY_ENABLED, fixed between restarts
    holder,             \* who holds the service mutex across steps, and for what
    gc,                 \* the orphan collector
    victims,            \* the row the history budget chose without the mutex
    found,              \* history variable: blobs a scrub found missing or damaged
    aside,              \* history variable: blobs whose damaged file is in quarantine, and
                        \* that no verified copy has replaced since
    restarts, faults

rows == <<heads, tombstones, versions>>
ledgers == <<events, rounds>>
counters == <<restarts, faults>>
vars == <<rows, files, ledgers, historyOn, holder, gc, victims, found, aside, counters>>

(***************************************************************************)
(* Rows.  "restored" tells the rows a Restore wrote (action "restore").    *)
(***************************************************************************)
HeadRow == [rev : 1..MaxRevision, blob : Blobs, restored : BOOLEAN]

Version == [file : FileIds, rev : 1..MaxRevision, blob : Blobs \cup {NoBlob},
            restored : BOOLEAN]

Put(table, key, row) ==
    [k \in DOMAIN table \cup {key} |-> IF k = key THEN row ELSE table[k]]

PutAll(table, keys, row) ==
    [k \in DOMAIN table \cup keys |-> IF k \in keys THEN row ELSE table[k]]

Drop(table, keys) == Restrict(table, DOMAIN table \ keys)

Live == DOMAIN heads

\* Variant with a bug: only the history counts.
ReferencedByVersions(b) == \E v \in versions : v.blob = b

\* BlobReferenced: a HEAD or any version refers to the blob; a deletion record does not.
Referenced(b) ==
    \/ \E f \in Live : heads[f].blob = b
    \/ \E v \in versions : v.blob = b

VersionOf(f, row) == [file |-> f, rev |-> row.rev, blob |-> row.blob, restored |-> row.restored]

Newest(v) == \A w \in versions : w.file = v.file => w.rev <= v.rev

\* PriorContentHash, or the HEAD's content when the history has none.
PriorContent(f) ==
    LET stored == {v \in versions : v.file = f /\ v.blob # NoBlob}
    IN  IF stored = {} THEN heads[f].blob
        ELSE (CHOOSE v \in stored : \A w \in stored : w.rev <= v.rev).blob

NextRevision(f) ==
    IF f \in Live THEN heads[f].rev + 1
    ELSE IF f \in DOMAIN tombstones THEN tombstones[f].rev + 1 ELSE 1

Servable(b) == b \notin DOMAIN events \/ events[b] # "unservable"

Free == holder = Nobody

Idle == [phase |-> "idle", blobs |-> {}]

(***************************************************************************)
(* Service.Upload, cut where it can fail: CommitAs puts the verified       *)
(* temporary file in place, the transaction commits the rows and prunes    *)
(* the object's history, and gcBlobs removes what the pruning freed.       *)
(***************************************************************************)

\* CommitAs.  A missing blob is created (its event, if any, stays).  A file of the right size (and, in strict
\* mode, the right hash) is kept with its age.  One found damaged is first renamed
\* into the quarantine, which may fail and leave it, and has yet to be replaced.
CommitAs(f, b) ==
    LET go(task) == [task |-> task, file |-> f, blobs |-> {b}]
    IN  \/ /\ b \notin DOMAIN files
           /\ files' = Put(files, b, "good")
           /\ aside' = aside \ {b}
           /\ holder' = go("upload")
        \/ /\ b \in DOMAIN files
           /\ ~ Strict \/ files[b] = "good"
           /\ UNCHANGED <<files, aside>>
           /\ holder' = go("upload")
        \/ /\ b \in DOMAIN files
           /\ files[b] = "damaged"
           /\ \/ files' = Drop(files, {b}) /\ aside' = aside \cup {b}
              \/ UNCHANGED <<files, aside>>
           /\ holder' = go("repair")

StoreUpload(f, b) ==
    /\ Free
    /\ f \in DOMAIN tombstones => f \in Live
    /\ f \in Live => heads[f].blob # b
    /\ NextRevision(f) <= MaxRevision
    /\ CommitAs(f, b)
    /\ UNCHANGED <<rows, ledgers, historyOn, gc, victims, found, counters>>

\* The second half of the repair: the temporary file takes the place of the damaged one.
InstallRepair ==
    /\ ~ Free /\ holder.task = "repair"
    /\ files' = PutAll(files, holder.blobs, "good")
    /\ aside' = aside \ holder.blobs
    /\ holder' = [task |-> "note", file |-> holder.file, blobs |-> holder.blobs]
    /\ UNCHANGED <<rows, ledgers, historyOn, gc, victims, found, counters>>

\* recordBlobRepairLocked, a write of its own: the blob is served again.
NoteRepair ==
    /\ ~ Free /\ holder.task = "note"
    /\ events' = PutAll(events, holder.blobs, "repaired")
    /\ found' = found \ holder.blobs
    /\ holder' = [task |-> "upload", file |-> holder.file, blobs |-> holder.blobs]
    /\ UNCHANGED <<rows, files, rounds, historyOn, gc, victims, aside, counters>>

\* The rows of one object that pruning by age or by count may delete: the oldest
\* ones, never the newest.
Prunable(table, f) ==
    LET mine == {v \in table : v.file = f}
    IN  {cut \in SUBSET mine : \A v \in cut : \E w \in mine \ cut :
            /\ v.rev < w.rev
            /\ \A u \in mine : u.rev < v.rev => u \in cut}

\* A deletion marker has no blob.
BlobsOf(set) == {v.blob : v \in set} \ {NoBlob}

CommitUpload ==
    /\ ~ Free /\ holder.task = "upload"
    /\ \E b \in holder.blobs :
          LET f == holder.file
              row == [rev |-> NextRevision(f), blob |-> b, restored |-> FALSE]
              table == versions \cup {VersionOf(f, row)}
          IN  /\ heads' = Put(heads, f, row)
              /\ IF historyOn
                 THEN \E cut \in Prunable(table, f) :
                         /\ versions' = table \ cut
                         /\ holder' = [task |-> "collect", file |-> f, blobs |-> BlobsOf(cut)]
                 ELSE /\ versions' = versions
                      /\ holder' = [task |-> "collect", file |-> f, blobs |-> {}]
    /\ UNCHANGED <<tombstones, files, ledgers, historyOn, gc, victims, found, aside, counters>>

\* Any of these steps fails and the upload with it: what was done to the directory
\* stays done, a damaged file set aside included.
AbortUpload ==
    /\ ~ Free /\ holder.task \in {"repair", "note", "upload"}
    /\ holder' = Nobody
    /\ UNCHANGED <<rows, files, ledgers, historyOn, gc, victims, found, aside, counters>>

\* Variant with a bug: what was pruned is removed, referred to or not.
CollectAllPruned ==
    /\ ~ Free /\ holder.task = "collect"
    /\ files' = Drop(files, holder.blobs)
    /\ holder' = Nobody
    /\ UNCHANGED <<rows, ledgers, historyOn, gc, victims, found, aside, counters>>

\* gcBlobs: of the blobs whose rows were deleted, those with no reference left.
CollectPruned ==
    /\ ~ Free /\ holder.task = "collect"
    /\ files' = Drop(files, {b \in holder.blobs : ~ Referenced(b)})
    /\ holder' = Nobody
    /\ UNCHANGED <<rows, ledgers, historyOn, gc, victims, found, aside, counters>>

(***************************************************************************)
(* Service.Delete and Service.Restore, as far as content is concerned.     *)
(***************************************************************************)
Delete(f) ==
    /\ Free
    /\ f \in Live
    /\ heads[f].rev < MaxRevision
    /\ LET rev == heads[f].rev + 1
       IN  /\ tombstones' = Put(tombstones, f, [rev |-> rev, prior |-> PriorContent(f)])
           /\ versions' = IF historyOn
                          THEN versions \cup {[file |-> f, rev |-> rev, blob |-> NoBlob,
                                               restored |-> FALSE]}
                          ELSE versions
    /\ heads' = Drop(heads, {f})
    /\ UNCHANGED <<files, ledgers, historyOn, holder, gc, victims, found, aside, counters>>

Restore(f) ==
    /\ Free
    /\ f \in DOMAIN tombstones \ Live
    /\ NextRevision(f) <= MaxRevision
    /\ LET row == [rev |-> NextRevision(f), blob |-> tombstones[f].prior, restored |-> TRUE]
       IN  /\ heads' = Put(heads, f, row)
           /\ versions' = IF historyOn THEN versions \cup {VersionOf(f, row)} ELSE versions
    /\ tombstones' = Drop(tombstones, {f})
    /\ UNCHANGED <<files, ledgers, historyOn, holder, gc, victims, found, aside, counters>>

(***************************************************************************)
(* Pruning the history: by age and count object by object, or by the user  *)
(* up to a revision (both under the mutex), and by the byte budget, which  *)
(* chooses its victims before it takes the mutex (here, batches of one).   *)
(***************************************************************************)
DeleteVersions(set) ==
    /\ versions' = versions \ set
    /\ holder' = [task |-> "collect", file |-> Nobody, blobs |-> BlobsOf(set)]
    /\ UNCHANGED <<heads, tombstones, files, ledgers, historyOn, gc, found, aside, counters>>

PruneHistory(f) ==
    /\ Free
    /\ \E cut \in Prunable(versions, f) \ {{}} : DeleteVersions(cut)
    /\ UNCHANGED victims

ChooseVictims ==
    /\ historyOn
    /\ victims = {}
    /\ \E v \in versions : ~ Newest(v) /\ victims' = {v}
    /\ UNCHANGED <<rows, files, ledgers, historyOn, holder, gc, found, aside, counters>>

PruneVictims ==
    /\ Free
    /\ victims # {}
    /\ DeleteVersions(victims)
    /\ victims' = {}

(***************************************************************************)
(* maintainOrphanBlobs.  The walk visits the files that are older than an  *)
(* hour (any of them: nothing else depends on age), without the mutex;     *)
(* each candidate is then confirmed under the mutex, entered in the ledger *)
(* the first time and removed from the second.                             *)
(***************************************************************************)
StartGC(old) ==
    /\ gc = Idle
    /\ gc' = [phase |-> "walk", blobs |-> old, candidates |-> {}]
    /\ UNCHANGED <<rows, files, ledgers, historyOn, holder, victims, found, aside, counters>>

\* Variant with a bug: every round starts the confirmation again.
WalkBlobAfresh(b) ==
    /\ gc.phase = "walk"
    /\ b \in gc.blobs
    /\ rounds' = Drop(rounds, {b})
    /\ gc' = [gc EXCEPT !.blobs = @ \ {b},
                        !.candidates = IF b \in DOMAIN files /\ ~ Referenced(b)
                                       THEN @ \cup {b} ELSE @]
    /\ UNCHANGED <<rows, files, events, historyOn, holder, victims, found, aside, counters>>

WalkBlob(b) ==
    /\ gc.phase = "walk"
    /\ b \in gc.blobs
    /\ \/ /\ b \notin DOMAIN files
          /\ gc' = [gc EXCEPT !.blobs = @ \ {b}]
          /\ UNCHANGED rounds
       \/ /\ b \in DOMAIN files
          /\ Referenced(b)
          /\ gc' = [gc EXCEPT !.blobs = @ \ {b}]
          /\ rounds' = Drop(rounds, {b})
       \/ /\ b \in DOMAIN files
          /\ ~ Referenced(b)
          /\ gc' = [gc EXCEPT !.blobs = @ \ {b}, !.candidates = @ \cup {b}]
          /\ UNCHANGED rounds
    /\ UNCHANGED <<rows, files, events, historyOn, holder, victims, found, aside, counters>>

EndWalk ==
    /\ gc.phase = "walk"
    /\ gc.blobs = {}
    /\ gc' = IF gc.candidates = {} THEN Idle ELSE [phase |-> "sweep", blobs |-> gc.candidates]
    /\ UNCHANGED <<rows, files, ledgers, historyOn, holder, victims, found, aside, counters>>

AfterSweeping(b) ==
    IF gc.blobs = {b} THEN Idle ELSE [phase |-> "sweep", blobs |-> gc.blobs \ {b}]

SweepBlob(b) ==
    /\ Free
    /\ gc.phase = "sweep"
    /\ b \in gc.blobs
    /\ \/ /\ Referenced(b)
          /\ rounds' = Drop(rounds, {b})
          /\ UNCHANGED holder
       \/ /\ ~ Referenced(b)
          /\ b \notin DOMAIN rounds
          /\ rounds' = Put(rounds, b, 1)
          /\ UNCHANGED holder
       \/ /\ ~ Referenced(b)
          /\ b \in DOMAIN rounds
          /\ rounds' = Put(rounds, b, 2)
          /\ holder' = [task |-> "remove", file |-> Nobody, blobs |-> {b}]
    /\ gc' = AfterSweeping(b)
    /\ UNCHANGED <<rows, files, events, historyOn, victims, found, aside, counters>>

RemoveOrphan ==
    /\ ~ Free /\ holder.task = "remove"
    /\ files' = Drop(files, holder.blobs)
    /\ rounds' = Drop(rounds, holder.blobs)
    /\ holder' = Nobody
    /\ UNCHANGED <<rows, events, historyOn, gc, victims, found, aside, counters>>

\* Variant with a bug: a scrub forgets what it does not find again.
ScrubAfresh ==
    /\ Free
    /\ LET missing == {b \in Blobs \ DOMAIN files : Referenced(b)}
           damaged == {b \in DOMAIN files : Referenced(b) /\ files[b] = "damaged"}
       IN  \E caught \in SUBSET damaged :
              /\ events' = [b \in missing \cup caught |-> "unservable"]
              /\ found' = found \cup missing \cup caught
    /\ UNCHANGED <<rows, files, rounds, historyOn, holder, gc, victims, aside, counters>>

(***************************************************************************)
(* Service.Scrub, one step under the mutex: every referenced blob that is  *)
(* missing is marked unservable, and of the damaged ones those the scrub   *)
(* notices (all of them when it hashes, the truncated ones when not).      *)
(***************************************************************************)
Scrub ==
    /\ Free
    /\ LET missing == {b \in Blobs \ DOMAIN files : Referenced(b)}
           damaged == {b \in DOMAIN files : Referenced(b) /\ files[b] = "damaged"}
       IN  \E caught \in SUBSET damaged :
              /\ events' = [b \in DOMAIN events \cup missing \cup caught |->
                               IF b \in missing \cup caught THEN "unservable" ELSE events[b]]
              /\ found' = found \cup missing \cup caught
    /\ UNCHANGED <<rows, files, rounds, historyOn, holder, gc, victims, aside, counters>>

(***************************************************************************)
(* The environment: the disk damages a file; the server crashes and comes  *)
(* back, perhaps with another history setting.                             *)
(***************************************************************************)
Damage(b) ==
    /\ faults < MaxFaults
    /\ b \in DOMAIN files
    /\ files[b] = "good"
    /\ files' = Put(files, b, "damaged")
    /\ faults' = faults + 1
    /\ UNCHANGED <<rows, ledgers, historyOn, holder, gc, victims, found, aside, restarts>>

Restart ==
    /\ restarts < MaxRestarts
    /\ restarts' = restarts + 1
    /\ historyOn' \in BOOLEAN
    /\ holder' = Nobody
    /\ gc' = Idle
    /\ victims' = {}
    /\ UNCHANGED <<rows, files, ledgers, found, aside, faults>>

-----------------------------------------------------------------------------
Init ==
    /\ heads = << >> /\ tombstones = << >> /\ versions = {}
    /\ files = << >>
    /\ events = << >> /\ rounds = << >>
    /\ historyOn \in BOOLEAN
    /\ holder = Nobody /\ gc = Idle /\ victims = {}
    /\ found = {} /\ aside = {}
    /\ restarts = 0 /\ faults = 0

Write ==
    \/ \E f \in FileIds : \/ \E b \in Blobs : StoreUpload(f, b)
                          \/ Delete(f)
                          \/ Restore(f)
    \/ InstallRepair
    \/ NoteRepair
    \/ CommitUpload
    \/ AbortUpload
    \/ CollectPruned

Prune == (\E f \in FileIds : PruneHistory(f)) \/ ChooseVictims \/ PruneVictims

Collect ==
    \/ \E old \in SUBSET DOMAIN files : StartGC(old)
    \/ \E b \in Blobs : WalkBlob(b) \/ SweepBlob(b)
    \/ EndWalk
    \/ RemoveOrphan

Environment == (\E b \in Blobs : Damage(b)) \/ Restart

Next == Write \/ Prune \/ Collect \/ Scrub \/ Environment

Spec == Init /\ [][Next]_vars

\* Maintenance runs every day for ever and completes its walk, a file that stays
\* is an hour old one day, and a handler that holds the mutex gives it back.
FairSpec ==
    /\ Spec
    /\ SF_vars(StartGC(DOMAIN files))
    /\ WF_vars(EndWalk) /\ \A b \in Blobs : WF_vars(WalkBlob(b)) /\ SF_vars(SweepBlob(b))
    /\ WF_vars(RemoveOrphan)
    /\ WF_vars(InstallRepair \/ NoteRepair \/ CommitUpload \/ AbortUpload \/ CollectPruned)

-----------------------------------------------------------------------------
(***************************************************************************)
(* Type correctness of the tables, the directory and the ledgers.          *)
(***************************************************************************)
TypeOK ==
    /\ DOMAIN heads \subseteq FileIds /\ \A f \in Live : heads[f] \in HeadRow
    /\ DOMAIN tombstones \subseteq FileIds
    /\ \A f \in DOMAIN tombstones : tombstones[f] \in [rev : 1..MaxRevision, prior : Blobs]
    /\ versions \subseteq Version /\ victims \subseteq Version
    /\ DOMAIN files \subseteq Blobs /\ \A b \in DOMAIN files : files[b] \in {"good", "damaged"}
    /\ DOMAIN events \subseteq Blobs
    /\ DOMAIN rounds \subseteq Blobs /\ \A b \in DOMAIN rounds : rounds[b] \in 1..2
    /\ historyOn \in BOOLEAN
    /\ aside \subseteq Blobs
    /\ ~ Free => /\ holder.task \in {"repair", "note", "upload", "collect", "remove"}
                 /\ holder.blobs \subseteq Blobs
    /\ gc.phase \in {"idle", "walk", "sweep"}
    /\ gc.blobs \subseteq Blobs

\* Every row an upload wrote, HEAD or history, has its blob on disk (INV-01), through
\* deduplication, pruning, both collectors, a failure or a crash at any point.  The one
\* exception is a blob whose file was found damaged and set aside by an upload of the
\* same content that did not finish its repair.
UploadedContentPresent ==
    LET kept == DOMAIN files \cup aside
    IN  /\ \A f \in Live : ~ heads[f].restored => heads[f].blob \in kept
        /\ \A v \in versions : ~ v.restored /\ v.blob # NoBlob => v.blob \in kept

\* The file of a blob that is still referred to leaves the directory in one way only:
\* damaged, into the quarantine.  No collector takes it, although the candidates of the
\* one and the victims of the other were chosen without the mutex.
ReferencedNeverRemoved ==
    [][\A b \in DOMAIN files \ DOMAIN files' :
          Referenced(b) => files[b] = "damaged" /\ b \in aside']_vars

\* What a scrub found missing or damaged is not served until a verified copy has
\* replaced it: no later scrub, repair of another blob or restart forgets it.
FoundDamageRefused == \A b \in found : ~ Servable(b)

\* What a reader sees: objects, records of the history, and for each blob that one
\* of them refers to the condition of its file.
ReadObjects ==
    [f \in Live \cup DOMAIN tombstones |->
        IF f \in Live THEN [live |-> TRUE, rev |-> heads[f].rev, content |-> heads[f].blob]
        ELSE [live |-> FALSE, rev |-> tombstones[f].rev, content |-> tombstones[f].prior]]

ReadRecords == {[file |-> v.file, rev |-> v.rev, content |-> v.blob] : v \in versions}

ReadCondition ==
    [b \in {c \in Blobs : Referenced(c)} |-> IF b \in DOMAIN files THEN files[b] ELSE "missing"]

Store == INSTANCE Archive WITH
    Objects <- FileIds, Contents <- Blobs, NoContent <- NoBlob,
    objects <- ReadObjects, records <- ReadRecords, condition <- ReadCondition

\* To a reader, storage is an Archive: a write is one step, an intact content in use
\* is never lost, only a restore or a repair cut short shows one that is missing, and
\* no newest record is pruned.  The mutex, the collectors, their ledger, the order of
\* disk and database and the crashes between them never show.
ArchiveSpec == Store!Spec

\* A blob that nobody refers to is removed in the end, or referred to again,
\* although its two confirming rounds may be interrupted by restarts.
OrphansCollected ==
    \A b \in Blobs :
        b \in DOMAIN files /\ ~ Referenced(b) ~> b \notin DOMAIN files \/ Referenced(b)

\* Every live object has its content on disk ("a confirmed HEAD always has its
\* blob", which the maintenance check takes for an invariant).
HeadsHaveBlobs == \A f \in Live : heads[f].blob \in DOMAIN files
=============================================================================
