------------------------- MODULE DisasterRecovery -------------------------
(***************************************************************************)
(* Backups of the data directory, its restoration by the operator, and the *)
(* repository epoch that tells devices of it.                              *)
(*                                                                         *)
(* The data directory is the database and the blobs.  Of the database only *)
(* the epoch, the change log and the devices' acknowledgements matter here *)
(* (an object's revision and content follow from the log, which is not     *)
(* trimmed).  A backup job copies both into the staging directory under    *)
(* the service mutex and lets restic read that directory afterwards; the   *)
(* server may die at any step.  A restore runs while the server is down,   *)
(* step by step, with failures and crashes between the renames.            *)
(*                                                                         *)
(* Devices live on through a restore with what they saw before, and their  *)
(* requests stay on the network.  They and the operator are external.      *)
(***************************************************************************)
EXTENDS Naturals, Sequences, FiniteSets

CONSTANTS
    Files,              \* file ids
    Contents,           \* one content per write, numbered as they are written
    Devices,
    Callers,            \* who asks for backups: the scheduler, an administrator
    NoRow,              \* a device the database does not know
    NoContent,          \* the content of a file that was never written
    Nothing,            \* no directory, no response
    Nobody,             \* the service mutex is free
    MaxEpoch,           \* bound on epochs drawn
    MaxSnapshots,       \* bound on snapshots in the repository
    MaxRestores,        \* bound on restores begun
    MaxStops            \* bound on crashes and stops of the server

ASSUME RecoveryAssumption ==
    /\ NoRow \notin Nat
    /\ Contents \subseteq Nat /\ NoContent \notin Contents
    /\ Nobody \notin Callers
    /\ MaxEpoch \in Nat /\ MaxSnapshots \in Nat
    /\ MaxRestores \in Nat /\ MaxStops \in Nat

VARIABLES
    data,               \* the data directory, or Nothing
    aside,              \* the directories restores moved away
    staging,            \* .backup-staging/current, or Nothing
    repository,         \* the snapshots in the restic repository
    server,             \* "up" or "down"
    mutex,              \* Service.mu, as far as it is held for several steps
    stage,              \* stage[c]: how far the backup c asked for has come
    operator,           \* how far the restore has come
    fetched,            \* restore-staging-*: what restic brought back, or Nothing
    epochs,             \* repository epochs drawn so far
    known,              \* known[d]: the epoch device d works in
    seen,               \* seen[d]: the changes device d has applied, in order
    inbox,              \* inbox[d]: the response to d's pull, or Nothing
    sent,               \* writes on the network
    accepted,           \* history variable: contents the server ever accepted
    restores, stops

serverVars == <<data, server, mutex>>
backupVars == <<staging, repository, stage>>
operatorVars == <<aside, operator, fetched, restores>>
deviceVars == <<known, seen, inbox, sent>>
vars == <<serverVars, backupVars, operatorVars, epochs, deviceVars, accepted, stops>>

(***************************************************************************)
(* What a directory holds.  due tells that it was restored and its epoch   *)
(* is still that of the snapshot; the operator has been told so.           *)
(***************************************************************************)
Change == [file : Files, content : Contents]

Directory == [epoch : Nat, log : Seq(Change), blobs : SUBSET Contents,
              acked : [Devices -> Nat \cup {NoRow}], due : BOOLEAN]

ASSUME DirectoryAssumption == Nothing \notin Directory

ChangesOf(log, f) == {s \in DOMAIN log : log[s].file = f}

Revision(log, f) == Cardinality(ChangesOf(log, f))

HeadContent(log, f) ==
    IF ChangesOf(log, f) = {} THEN NoContent
    ELSE log[CHOOSE s \in ChangesOf(log, f) : \A t \in ChangesOf(log, f) : t <= s].content

\* Content c is that of a HEAD.
Referenced(log, c) ==
    \E s \in DOMAIN log : /\ log[s].content = c
                          /\ \A t \in DOMAIN log : log[t].file = log[s].file => t <= s

\* What has been seen is how the log begins.
Begins(part, log) ==
    /\ Len(part) <= Len(log)
    /\ \A s \in 1..Len(part) : part[s] = log[s]

NewDirectory(epoch) ==
    [epoch |-> epoch, log |-> << >>, blobs |-> {},
     acked |-> [d \in Devices |-> NoRow], due |-> FALSE]

(***************************************************************************)
(* The service: writes, pulls, the collector of orphans.                   *)
(***************************************************************************)
Serving == server = "up" /\ mutex = Nobody

Enrolled(d) == data.acked[d] # NoRow

\* Variant with a bug: the epoch a write was made in is not compared.
GuardAnyEpoch(r) == r.epoch \in Nat

GuardWrite(r) == r.epoch = data.epoch

Upload(r) ==
    /\ Serving
    /\ Enrolled(r.dev)
    /\ GuardWrite(r)
    /\ Revision(data.log, r.file) = r.base
    /\ data' = [data EXCEPT !.log = Append(@, [file |-> r.file, content |-> r.content]),
                            !.blobs = @ \cup {r.content}]
    /\ accepted' = accepted \cup {r.content}
    /\ UNCHANGED <<server, mutex, backupVars, operatorVars, epochs, deviceVars, stops>>

\* History pruning, the budget or the collector of orphans removes a blob.
RemoveBlob(c) ==
    /\ Serving
    /\ c \in data.blobs
    /\ ~ Referenced(data.log, c)
    /\ data' = [data EXCEPT !.blobs = @ \ {c}]
    /\ UNCHANGED <<server, mutex, backupVars, operatorVars, epochs, deviceVars, accepted, stops>>

\* GET /changes: the changes above the device's cursor, and the epoch.  The
\* cursor is recorded as acknowledged, whatever epoch it is of (the handler
\* takes the mutex twice; nothing here depends on what comes between).
Pull(d) ==
    /\ Serving
    /\ Enrolled(d)
    /\ inbox[d] = Nothing
    /\ LET since == Len(seen[d])
       IN  /\ inbox' = [inbox EXCEPT ![d] =
                [epoch |-> data.epoch, since |-> since,
                 changes |-> SubSeq(data.log, since + 1, Len(data.log))]]
           /\ data' = IF data.acked[d] < since
                      THEN [data EXCEPT !.acked[d] = since] ELSE data
    /\ UNCHANGED <<server, mutex, backupVars, operatorVars, epochs,
                   known, seen, sent, accepted, stops>>

Enroll(d) ==
    /\ Serving
    /\ ~ Enrolled(d)
    /\ data' = [data EXCEPT !.acked[d] = 0]
    /\ UNCHANGED <<server, mutex, backupVars, operatorVars, epochs, deviceVars, accepted, stops>>

(***************************************************************************)
(* Devices.  A response of another epoch stops incremental work: the       *)
(* device starts over from a snapshot, which its own newer content joins   *)
(* as ordinary writes.                                                     *)
(***************************************************************************)
Send(d, f, c) ==
    /\ {r.content : r \in sent} = {e \in Contents : e < c}
    /\ sent' = sent \cup {[dev |-> d, epoch |-> known[d], file |-> f, content |-> c,
                           base |-> Revision(seen[d], f), over |-> HeadContent(seen[d], f)]}
    /\ UNCHANGED <<serverVars, backupVars, operatorVars, epochs,
                   known, seen, inbox, accepted, stops>>

Apply(d) ==
    /\ inbox[d] # Nothing
    /\ inbox[d].epoch = known[d]
    /\ inbox[d].since = Len(seen[d])
    /\ seen' = [seen EXCEPT ![d] = @ \o inbox[d].changes]
    /\ inbox' = [inbox EXCEPT ![d] = Nothing]
    /\ UNCHANGED <<serverVars, backupVars, operatorVars, epochs,
                   known, sent, accepted, stops>>

Recover(d) ==
    /\ Serving
    /\ Enrolled(d)
    /\ inbox[d] # Nothing
    /\ inbox[d].epoch # known[d]
    /\ known' = [known EXCEPT ![d] = data.epoch]
    /\ seen' = [seen EXCEPT ![d] = data.log]
    /\ inbox' = [inbox EXCEPT ![d] = Nothing]
    /\ UNCHANGED <<serverVars, backupVars, operatorVars, epochs, sent, accepted, stops>>

(***************************************************************************)
(* A backup job.  One runs at a time; restic reads the staging directory   *)
(* after the mutex is released, while the service goes on.                 *)
(***************************************************************************)
MayStart(c) == server = "up" /\ \A other \in Callers : stage[other] = "idle"

StartBackup(c) ==
    /\ MayStart(c)
    /\ Cardinality(repository) < MaxSnapshots
    /\ staging' = Nothing
    /\ stage' = [stage EXCEPT ![c] = "started"]
    /\ UNCHANGED <<serverVars, repository, operatorVars, epochs, deviceVars, accepted, stops>>

\* Variant with a bug: the mutex is released before the blobs are linked.
CopyWithoutMutex(c) ==
    /\ server = "up"
    /\ stage[c] = "started"
    /\ mutex = Nobody
    /\ staging' = [data EXCEPT !.blobs = {}]
    /\ stage' = [stage EXCEPT ![c] = "copied"]
    /\ UNCHANGED <<serverVars, repository, operatorVars, epochs, deviceVars, accepted, stops>>

\* VACUUM INTO, with the mutex taken.
CopyDatabase(c) ==
    /\ server = "up"
    /\ stage[c] = "started"
    /\ mutex = Nobody
    /\ mutex' = c
    /\ staging' = [data EXCEPT !.blobs = {}]
    /\ stage' = [stage EXCEPT ![c] = "copied"]
    /\ UNCHANGED <<data, server, repository, operatorVars, epochs, deviceVars, accepted, stops>>

\* Variant with a bug: the manifest asks the service for its head sequence,
\* which takes the mutex the job already holds.
LinkBlobsReentrant(c) ==
    /\ server = "up"
    /\ stage[c] = "copied"
    /\ mutex = Nobody
    /\ staging # Nothing
    /\ staging' = [staging EXCEPT !.blobs = data.blobs]
    /\ stage' = [stage EXCEPT ![c] = "staged"]
    /\ UNCHANGED <<serverVars, repository, operatorVars, epochs, deviceVars, accepted, stops>>

\* Hard links to the blobs, the manifest, and the mutex is free again.
LinkBlobs(c) ==
    /\ server = "up"
    /\ stage[c] = "copied"
    /\ staging # Nothing
    /\ staging' = [staging EXCEPT !.blobs = data.blobs]
    /\ mutex' = Nobody
    /\ stage' = [stage EXCEPT ![c] = "staged"]
    /\ UNCHANGED <<data, server, repository, operatorVars, epochs, deviceVars, accepted, stops>>

\* restic stores the staging directory as a snapshot; the directory is removed.
FinishBackup(c) ==
    /\ server = "up"
    /\ stage[c] = "staged"
    /\ staging # Nothing
    /\ repository' = repository \cup {staging}
    /\ staging' = Nothing
    /\ stage' = [stage EXCEPT ![c] = "idle"]
    /\ UNCHANGED <<serverVars, operatorVars, epochs, deviceVars, accepted, stops>>

\* The database or a blob cannot be copied, or restic fails or times out.
FailBackup(c) ==
    /\ server = "up"
    /\ stage[c] \in {"started", "copied", "staged"}
    /\ stage[c] = "started" => mutex = Nobody
    /\ mutex' = IF mutex = c THEN Nobody ELSE mutex
    /\ staging' = Nothing
    /\ stage' = [stage EXCEPT ![c] = "idle"]
    /\ UNCHANGED <<data, server, repository, operatorVars, epochs, deviceVars, accepted, stops>>

\* The retention policy drops a snapshot, as a job of its own.
Forget(snapshot) ==
    /\ server = "up"
    /\ \A c \in Callers : stage[c] = "idle"
    /\ snapshot \in repository
    /\ Cardinality(repository) > 1
    /\ repository' = repository \ {snapshot}
    /\ UNCHANGED <<serverVars, staging, stage, operatorVars, epochs, deviceVars, accepted, stops>>

(***************************************************************************)
(* The process ends: killed, or stopped by the operator.  What the jobs    *)
(* had in hand is gone, the staging directory stays.  A start makes a new  *)
(* data directory when there is none, and clears the staging directory.    *)
(* The operator does not start a server whose epoch is due: a restore      *)
(* whose rotation failed says so, and rotate-epoch is required.            *)
(***************************************************************************)
StopServer ==
    /\ server = "up"
    /\ stops < MaxStops
    /\ stops' = stops + 1
    /\ server' = "down"
    /\ mutex' = Nobody
    /\ stage' = [c \in Callers |-> "idle"]
    /\ inbox' = [d \in Devices |-> Nothing]
    /\ UNCHANGED <<data, staging, repository, operatorVars, epochs,
                   known, seen, sent, accepted>>

StartServer ==
    /\ server = "down"
    /\ operator = "idle"
    /\ server' = "up"
    /\ staging' = Nothing
    /\ \/ /\ data # Nothing
          /\ ~ data.due
          /\ UNCHANGED <<data, epochs>>
       \/ /\ data = Nothing
          /\ epochs < MaxEpoch
          /\ epochs' = epochs + 1
          /\ data' = NewDirectory(epochs + 1)
    /\ UNCHANGED <<mutex, repository, stage, operatorVars, deviceVars, accepted, stops>>

(***************************************************************************)
(* A restore: fetch a snapshot beside the data directory, move the data    *)
(* directory away, put the restored one in its place, draw a new epoch.    *)
(***************************************************************************)
Fetch(snapshot) ==
    /\ server = "down"
    /\ operator = "idle"
    /\ restores < MaxRestores
    /\ snapshot \in repository
    /\ restores' = restores + 1
    /\ fetched' = [snapshot EXCEPT !.due = TRUE]
    /\ operator' = "fetched"
    /\ UNCHANGED <<serverVars, backupVars, aside, epochs, deviceVars, accepted, stops>>

\* Variant with a bug: the data directory is removed instead of moved.
RemoveData ==
    /\ operator = "fetched"
    /\ data' = Nothing
    /\ staging' = Nothing
    /\ operator' = "moved"
    /\ UNCHANGED <<server, mutex, repository, stage, aside, fetched, restores,
                   epochs, deviceVars, accepted, stops>>

\* The staging directory is in the data directory and goes with it.
MoveAside ==
    /\ operator = "fetched"
    /\ aside' = aside \cup ({data} \ {Nothing})
    /\ data' = Nothing
    /\ staging' = Nothing
    /\ operator' = "moved"
    /\ UNCHANGED <<server, mutex, repository, stage, fetched, restores,
                   epochs, deviceVars, accepted, stops>>

Install ==
    /\ operator = "moved"
    /\ data' = fetched
    /\ fetched' = Nothing
    /\ operator' = "installed"
    /\ UNCHANGED <<server, mutex, backupVars, aside, restores, epochs,
                   deviceVars, accepted, stops>>

\* The second rename fails: the directory moved away comes back, or the error
\* tells where it is.
PutBack(old) ==
    /\ server = "down"
    /\ operator \in {"moved", "idle"}
    /\ data = Nothing
    /\ old \in aside
    /\ data' = old
    /\ aside' = aside \ {old}
    /\ fetched' = Nothing
    /\ operator' = "idle"
    /\ UNCHANGED <<server, mutex, backupVars, restores, epochs, deviceVars, accepted, stops>>

\* The restore fails, or the machine goes down, at any step.
AbandonRestore ==
    /\ operator # "idle"
    /\ fetched' = Nothing
    /\ operator' = "idle"
    /\ UNCHANGED <<serverVars, backupVars, aside, restores, epochs,
                   deviceVars, accepted, stops>>

\* Variant with a bug: the epoch of the snapshot is kept.
KeepEpoch ==
    /\ server = "down"
    /\ operator \in {"idle", "installed"}
    /\ data # Nothing
    /\ data.due
    /\ data' = [data EXCEPT !.due = FALSE]
    /\ operator' = "idle"
    /\ UNCHANGED <<server, mutex, backupVars, aside, fetched, restores, epochs,
                   deviceVars, accepted, stops>>

\* By the restore command, or by rotate-epoch when the command did not get there.
RotateEpoch ==
    /\ server = "down"
    /\ operator \in {"idle", "installed"}
    /\ data # Nothing
    /\ data.due
    /\ epochs < MaxEpoch
    /\ epochs' = epochs + 1
    /\ data' = [data EXCEPT !.epoch = epochs + 1, !.due = FALSE]
    /\ operator' = "idle"
    /\ UNCHANGED <<server, mutex, backupVars, aside, fetched, restores,
                   deviceVars, accepted, stops>>

-----------------------------------------------------------------------------
Init ==
    /\ data = [NewDirectory(1) EXCEPT !.acked = [d \in Devices |-> 0]]
    /\ aside = {}
    /\ staging = Nothing
    /\ repository = {}
    /\ server = "up"
    /\ mutex = Nobody
    /\ stage = [c \in Callers |-> "idle"]
    /\ operator = "idle"
    /\ fetched = Nothing
    /\ epochs = 1
    /\ known = [d \in Devices |-> 1]
    /\ seen = [d \in Devices |-> << >>]
    /\ inbox = [d \in Devices |-> Nothing]
    /\ sent = {}
    /\ accepted = {}
    /\ restores = 0
    /\ stops = 0

ServiceStep ==
    \/ \E r \in sent : Upload(r)
    \/ \E c \in Contents : RemoveBlob(c)
    \/ \E d \in Devices : Pull(d) \/ Enroll(d)

DeviceStep ==
    \E d \in Devices : \/ \E f \in Files, c \in Contents : Send(d, f, c)
                       \/ Apply(d)
                       \/ Recover(d)

BackupStep ==
    \/ \E c \in Callers : \/ StartBackup(c)
                          \/ CopyDatabase(c)
                          \/ LinkBlobs(c)
                          \/ FinishBackup(c)
                          \/ FailBackup(c)
    \/ \E snapshot \in repository : Forget(snapshot)

OperatorStep ==
    \/ StopServer
    \/ StartServer
    \/ \E snapshot \in repository : Fetch(snapshot)
    \/ MoveAside
    \/ Install
    \/ \E old \in aside : PutBack(old)
    \/ AbandonRestore
    \/ RotateEpoch

Next == BackupStep \/ ServiceStep \/ DeviceStep \/ OperatorStep

Spec == Init /\ [][Next]_vars

\* A job goes on: the mutex is free again after every request, copying and linking
\* end, and a call of restic has a time limit (whether it ends well is FailBackup's
\* choice).
FairJob(c) ==
    /\ WF_vars(CopyDatabase(c))
    /\ WF_vars(LinkBlobs(c))
    /\ WF_vars(FinishBackup(c))

FairSpec == Spec /\ \A c \in Callers : FairJob(c)

-----------------------------------------------------------------------------
\* Types, and a job holds the mutex only while it copies (WithGlobalLock releases it
\* on every way out of the closure).
TypeOK ==
    /\ data \in Directory \cup {Nothing}
    /\ aside \subseteq Directory
    /\ staging \in Directory \cup {Nothing}
    /\ repository \subseteq Directory
    /\ server \in {"up", "down"}
    /\ mutex \in Callers \cup {Nobody}
    /\ stage \in [Callers -> {"idle", "started", "copied", "staged"}]
    /\ \A c \in Callers : mutex = c => stage[c] = "copied"
    /\ operator \in {"idle", "fetched", "moved", "installed"}
    /\ fetched \in Directory \cup {Nothing}
    /\ known \in [Devices -> Nat]
    /\ seen \in [Devices -> Seq(Change)]

\* A snapshot in the repository, and a directory restored from it, has the blob
\* of every HEAD its database has: although writes and the removal of blobs go on
\* while restic reads, two callers ask for backups, and the server dies between
\* the database copy and the links (snapshot.go: such a rest must never be taken
\* for a backup).
Complete(dir) == \A c \in Contents : Referenced(dir.log, c) => c \in dir.blobs

BackupsComplete ==
    /\ \A snapshot \in repository : Complete(snapshot)
    /\ data # Nothing => Complete(data)

\* The directories a device may meet, now or when one is put back.
Live == {dir \in aside \cup ({data} \ {Nothing}) : ~ dir.due}

\* What was accepted in an epoch is the log of the directory that has it.
Branches == [epoch \in {dir.epoch : dir \in Live} |-> (CHOOSE dir \in Live : dir.epoch = epoch).log]

Views == [d \in Devices |-> [epoch |-> known[d], log |-> seen[d]]]

Timeline == INSTANCE Timelines WITH branches <- Branches, view <- Views

\* To devices, backups and restores are Timelines: an epoch names one history that
\* only grows, also while its directory lies aside, a restored past gets an epoch of
\* its own, and a device never skips a change nor keeps one that its epoch has not.
TimelineSpec == Timeline!Spec

\* A device that works in the epoch of the server has seen how that server's log
\* begins, and a response on its way goes on from there: no restore, crash or
\* directory put back by hand makes it skip a change or keep one that is gone.
EpochNamesHistory ==
    server = "up" =>
        \A d \in Devices :
            /\ known[d] = data.epoch => Begins(seen[d], data.log)
            /\ (inbox[d] # Nothing /\ inbox[d].epoch = known[d] /\ known[d] = data.epoch)
                   => Begins(seen[d] \o inbox[d].changes, data.log)

\* What the server once accepted stays on its disk, in the data directory or in
\* one that a restore moved away, at every step of a restore that fails or is cut
\* short, so that the wrong snapshot can be undone.
NothingDiscarded ==
    \A c \in accepted :
        \E dir \in aside \cup ({data} \ {Nothing}) :
            \E s \in DOMAIN dir.log : dir.log[s].content = c

\* A write that is accepted replaces the content its device had seen, although the
\* revisions of a restored file start again from the snapshot and a request from
\* before the restore carries a revision that fits.
NoLostUpdateAcrossRestore ==
    [][\A r \in sent :
          (data # Nothing /\ data' # Nothing
             /\ data'.log = Append(data.log, [file |-> r.file, content |-> r.content]))
              => HeadContent(data.log, r.file) = r.over]_vars

\* A backup job ends, by itself, with a failure or with the process, and never
\* stands in the server's way for ever (the 0.17.0 lock-up of staging_lock_test.go).
JobsEnd == \A c \in Callers : stage[c] # "idle" ~> stage[c] = "idle"

\* What a device acknowledged it has applied, in the log the server has now: the
\* purge of deletion records stands on it.
AckedIsApplied ==
    data # Nothing =>
        \A d \in Devices : Enrolled(d) =>
            /\ data.acked[d] <= Len(data.log)
            /\ Begins(SubSeq(data.log, 1, data.acked[d]), seen[d])
=============================================================================
