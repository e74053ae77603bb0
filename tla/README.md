# LiteSync server in TLA+

Specifications of the LiteSync (obsync) server: the sync server of one Obsidian
vault, written in Go over SQLite (a single connection) and a directory of
content-addressed blobs. The modules here are translated from the Go code under
`src/`; TLC checks them on small instances, TLAPS proves the core of them for
every value of the constants. `PROJECT.json` maps each definition to the lines it
stands for.

## 1. The system

### Components

| component | code | state | operations |
|---|---|---|---|
| object model | `internal/sync/{service,rename,restore}.go`, `internal/db/objects.go` | `file_heads`, `tombstones`, `file_objects`, `object_changes`, `repo_state` | upload, delete, rename, restore, trim of the log, purge of deletion records |
| synchronisation protocol | `internal/api/{changes,file}.go`, `Changes`, `Snapshot` | per device: acknowledged sequence; on the device: mirror and cursor | pull a page, take a snapshot, write from a mirror, acknowledge |
| blob storage and history | `internal/storage/blobs.go`, `internal/sync/{maintenance,integrity}.go`, `internal/db/{gc,integrity}.go` | blob directory, `object_versions`, `gc_candidates`, `integrity_events` | put in place and deduplicate, prune by age, count, bytes, collect orphans, scrub, quarantine |
| encryption and metadata migration | `internal/sync/{meta,erasure,preflight}.go`, `internal/db/journal.go` | `repo_state` (states, epochs, floor, lease), `migration_journal` | begin, migrate object and record, verify, abort, erase, complete |
| devices, enrolment, access tokens | `internal/sync/{devices,accesstoken}.go`, `internal/api/auth.go` | `devices`, `enrollments`, signed tokens | invite, enrol, authenticate, exchange, revoke |
| device pairing | `internal/sync/pairing.go` | `pairings` | create, take once, expire |
| membership and key epochs | `internal/sync/membership.go`, `internal/db/{membership,tenancy}.go` | members, roles, vault key epoch, pending rewrap | remove (revokes and rotates), rewrap |
| vault key document | `service.go`, `api/vault_key.go` | one document | read, compare and swap |
| backup and recovery | `internal/backup/*.go` | staging directory, restic jobs, repo epoch | stage, back up, restore and rotate the epoch |
| shares | `service.go`, `share_recovery.go`, `storage/shares.go` | `shares` and their ciphertexts | create, open, extend, revoke, sweep |
| signed checkpoints | `checkpoint.go` | an append-only chain | append, list |
| schema and blob id migrations | `internal/db/migrate_*.go`, `legacy.go`, `storage/blobid.go` | old and new tables, `migration_journal`, names of blobs | migrate at start-up, finalize; rename by command |
| HTTP API and sessions | `internal/api/*.go` | web sessions | translate requests into service calls |
| configuration, fail points, commands | `internal/config`, `internal/failpoint`, `cmd/obsync` | none of their own | |
| web viewer | `src/web` | none in the repository | read and decrypt |

The client that synchronises files, the Obsidian plugin, is in another repository.

### How they interact

A request passes the middleware (authentication, protocol and epoch checks) into
one method of `Service`. The write methods hold `Service.mu` from their first read
to the end of their SQLite transaction, so handlers are atomic towards each
other. The exceptions are where the interest lies:

* an upload puts its blob in place **before** the transaction and removes pruned
  blobs **after** it: two stores, one of them transactional; a damaged blob it finds
  there is set aside before its own replaces it;
* an upload, deletion or rename addresses a **name**, and by the time it arrives another
  object may have it;
* maintenance chooses its work (orphan candidates, victims of the byte budget,
  expired shares) **without** the mutex and acts on it later;
* a client's request is made from a **mirror**, and arrives late, twice or never;
  it is guarded by a base revision, a metadata generation and an operation id;
* the response of a pull is lost or applied later, so the server may count only
  what a request **claims** to have applied (`since`) as acknowledged, and the
  purge of deletion records stands on those acknowledgements;
* the log is trimmed under the cursors that read it;
* a request is authenticated first and handled later, and its device may be revoked,
  or its user removed, in between; tokens are issued and a pending rewrap is cleared
  without the mutex;
* a share is opened, and swept by maintenance, without the mutex, by a row read
  before: extension and removal cross;
* the migrations do in several steps what must look like one, at start-up and from
  commands in another process.

The states are few per object (absent, live, deleted, purged), but objects meet in
two secondary keys: the **name** (in plain mode a path, in encrypted metadata mode
the file id) and the **collision key** (the case-folded path or a client's HMAC).
Deletion records guard both.

### What makes each component correct

* object model: the ledgers agree; live objects are unique in both keys; the log
  has no gaps and ends, per object, with its present state; a revision means one
  content; deleted content returns only by a restore; generations and envelopes
  never go back.
* protocol: a mirror is exact up to its cursor; nothing is applied twice to an
  object, and no object is overwritten unseen by a write made for it; a device that slept through a deletion and its purge
  cannot recreate the file; every device converges.
* blobs: what a row refers to is on disk; collectors never take it; orphans go
  in the end; damage is not served.
* migration: the deletion barrier survives it; one device migrates; what was
  erased is gone when the server says so.
* devices, membership, key document: an invitation makes one device; a revoked device
  is admitted no more; a vault has an owner; a removed member's devices stop; no key
  document is replaced unseen.
* shares: a link works as long as its row promises it, and what is dead is collected.
* upgrade: the new tables say what the old rows did and keep their versions, after any
  crash or failed transaction; no row names a
  file that is nowhere.
* backup: the epoch changes with every restore.

## 2. Modules

| module | what | extends |
|---|---|---|
| `ObjectLife` | abstract: the life of one file id | |
| `ObjectModel` | the object model, a handler per action | |
| `ObjectModelProofs` | inductive invariant, refinement of `ObjectLife`, deletion barrier | `ObjectModel`, `TLAPS` |
| `Replicas` | abstract: one history of a vault, and copies that move forward along it | |
| `SyncProtocol` | composition: devices, network and the handlers of `ObjectModel` | `ObjectModel` |
| `SyncProtocolProofs` | inductive invariant over devices, network and server; the safety of the protocol, refinement of `Replicas` and of `ObjectLife` | `SyncProtocol`, `ObjectModelProofs` |
| `Archive` | abstract: objects, their history, and the condition of the contents in use | |
| `BlobStore` | content storage, handlers cut where disk and database can differ | |
| `BlobStoreProofs` | inductive invariant, no referenced file removed, damage refused, refinement of `Archive` | `BlobStore`, `TLAPS` |
| `Naming` | abstract: the real paths of files and deletion records, and which names are sealed | |
| `MetaMigration` | encryption of the vault and of its names, with the writes that go on | |
| `MetaMigrationProofs` | inductive invariant, what is sealed and what survives, the lease, refinement of `Naming` | `MetaMigration`, `TLAPS` |
| `Timelines` | abstract: an epoch names one history, and what devices saw of it | |
| `DisasterRecovery` | backups, crashes, restores, the epoch, and devices that live through them | |
| `DisasterRecoveryProofs` | inductive invariant, whole backups, no lost update across a restore, refinement of `Timelines` | `DisasterRecovery`, `TLAPS` |
| `VaultAccess` | members, devices, invitations, tokens, key rotation, the key document | |
| `VaultAccessProofs` | inductive invariant and the five properties | `VaultAccess`, `TLAPS` |
| `Shares` | rows and ciphertexts of shared files | |
| `SharesProofs` | inductive invariant, a share works as promised | `Shares`, `TLAPS` |
| `SchemaV6` | the migration of the v5 tables | |
| `BlobIds` | the renaming of blobs, and the server between two commands | |
| `Upgrade` | composition: the rows `SchemaV6` writes are those `BlobIds` renames | `SchemaV6`, `BlobIds` |
| `UpgradeProofs` | inductive invariant, nothing left behind, journals right | `Upgrade`, `TLAPS` |
| `MCObjectModel`, `MCSyncProtocol`, `MCBlobStore`, `MCMetaMigration`, `MCDisasterRecovery`, `MCVaultAccess`, `MCShares`, `MCUpgrade` | instances for TLC | |

### ObjectModel

| state | code |
|---|---|
| `heads`, `tombstones`, `objectState`, `changes` | tables, as functions from the primary key to the row |
| `headSequence`, `minRetained` | columns of `repo_state` |
| `acked` | `devices.last_acked_sequence` of the devices not revoked |

| action | code |
|---|---|
| `Create`, `Update` | `Service.Upload`, the name free or held by a live object |
| `Delete`, `Rename`, `Revive` | `Service.Delete`, `Rename`, `Restore` |
| `TrimChanges` | the transaction of `maintainChanges` |
| `PurgeTombstones` | `PurgeTombstones` with the minimum over devices |
| `EnrollDevice`, `RevokeDevice`, `AckSequence` | the devices table as far as purging reads it |

The requests are arbitrary: any name, base, generation, operation id, fresh or
stale. An answer that writes nothing (a conflict, a replayed operation, the
same-content shortcut) is a stutter; its condition is a guard of the action that
writes. The mode is a constant: plain names, which the run checks, or encrypted
metadata (`MetaMode`, where a name is a file id and the collision key an HMAC), for
which the theorems hold as well.

Decisions worth knowing:

* `guardWrite` (protocol version, epoch, vault state) refuses and writes nothing;
  it is left out, the states it reads being constants here.
* A plain-mode request carries no HMAC and no encrypted metadata, as the client
  sends it; the server would accept one.
* `Create` gives an object the client's file id or a random one: in both cases an
  id that no object ever had. The code refuses a client id that the ledger knows.
* Which records have outlived their retention is any subset (`Purge`), since
  nothing else depends on the time.
* Blobs and history versions are `BlobStore`'s. The envelope a restore finds is
  that of the blob, or 0 when the blob is gone, so both are possible.

### SyncProtocol

A request is a message in `sent`: it stays there and may be delivered any number
of times, in any order, or never. A device writes only what its mirror lets it
(`SendUpdate` with the revision it knows, `SendCreate` on a name it knows no object
by, ...); `Pull` reads a page of any length from the cursor, acknowledges the cursor
it came with, and leaves a response in `inbox`; `Apply` is a step of its own, and
`LoseResponse` may take the response instead. `Behind` is the code's test for
`resyncRequired`, `Resync` the snapshot that then replaces the mirror.

The device is external: it is modelled from what the API asks of it, and the map
marks it so. Two assumptions about time are made explicit. The retention of
deletion records is days long, so a purge leaves no request on the network whose
sender had not heard of that deletion (`PurgeExpired`); a revoked device's requests
are refused by the middleware. A restore's device has been told of the deletion
record by a conflict answer.

`effects` and `graves` are history variables: they record which request changed
which object, and which records were purged; no guard reads `effects`. `past` is one too:
the vault (its live objects, as a snapshot tells them) after each change of the log. No
guard reads it either; it is what mirrors are compared with, and the `history` of
`Replicas`, whose copies are the mirrors and whose moments the cursors. A page, a
resynchronisation and a late response are all one step there (`CatchUp`), a revoked
device's memory loss another (`Leave`), and every write of any handler is a `Commit`
that changes one object.

### BlobStore

An upload is cut in three: `StoreUpload` (`CommitAs`), `CommitUpload` (the
transaction with its pruning) and `CollectPruned` (`gcBlobs`), with the mutex
(`holder`) held across. When `CommitAs` finds a damaged copy there are two steps more: it
sets that copy aside in quarantine (or fails to, and leaves it), `InstallRepair` renames the
upload's own file into place, and `NoteRepair` is `recordBlobRepairLocked`; between the first
two a referenced blob has no file. `AbortUpload` is an error return, from any of these
steps or from the transaction. `Restart` may come
between any two steps, drops everything in memory and may come back with another
`HISTORY_ENABLED`. The orphan collector is a walk of single reads without the mutex
(`WalkBlob`), then a confirmation per candidate under it (`SweepBlob`), which enters
the persistent ledger first and removes (`RemoveOrphan`) from the second time on.
The byte budget chooses victims without the mutex (`ChooseVictims`) and deletes
them with it. `Scrub` finds missing and damaged blobs.

Abstractions: a blob is its content; the age test of the walk is any set of files;
the reasons to skip a round (`gcBlockedReason`) only take steps away (while an abandoned
migration stands they may do so for long, and `OrphansCollected` speaks of rounds that
run); the quarantine directory, which nothing reads back, is not state, but `aside`
remembers, as a history variable no guard reads, which blobs have their damaged file there
and no other; a size check is "notices or not". `gc_candidates` rows left behind by `gcBlobs` are there: the
ledger entry of a blob outlives its file, and a later round may count it.

A reader sees less, and that is `Archive`: an object is its head or its deletion record
(`ReadObjects`), the history is the version rows without their origin (`ReadRecords`), and
a content in use is good, damaged, or missing when its file is not there
(`ReadCondition`). The three phases of an upload are one step of it, at the transaction;
everything that collectors, ledgers, rounds and restarts do is none. A repair is two steps:
`SetAside`, by which damaged content in use goes missing, and `Mend`, which may never come.

### MetaMigration

| state | code |
|---|---|
| `encryption`, `floor`, `keyEpoch`, `metaState` | columns of `repo_state` |
| `owner`, `leased` | `migration_owner_device_id`, and whether `migration_lease_expires_at` is in the future |
| `journal` | `migration_journal` of the running migration |
| `heads`, `tombstones` | the rows, as far as names, keys, envelopes and key epochs go |
| `log` | whether retained changes tell paths, and whether one of them was published after the cutoff |
| `operator` | what an `obsync migration` command has read and is about to write |

| action | code |
|---|---|
| `Create`, `Update`, `Delete`, `RenamePlain`, `RenameSealed`, `Revive` | `Upload`, `Delete`, `Rename`, `Restore` with `guardWrite` |
| `BeginE2ee`, `CompleteE2ee`, `AbortE2ee`, `CompleteEnvelopeUpgrade`, `RotateKeyEpoch` | the content state machine; a member's removal |
| `BeginMeta`, `ResumeMeta`, `RenewLease`, `Takeover`, `LeaseRunsOut` | begin (first time, and again), renewal, takeover, time |
| `MigrateObject`, `MigrateTombstone`, `Verify`, `CompleteMeta`, `AbortMeta` | the handlers of their names; `Valid` is the validator |
| `ReadForRelease`, `ReleaseLease`, `ReadForAbort`, `AbortByOperator` | `obsync migration resume` and `abort`, two steps each |

Each row also has the real path the users know its file by. The server cannot see
that once the name is sealed, and no guard reads it: it is what a client computes the
HMAC from, and what the properties speak of. An HMAC and a folded path are different
keys even for one path, which is the crux of the mixed state.

Decisions worth knowing:

* Only clients with the vault key seal a name, so a sealed name comes with the HMAC
  of the path its user means; an upload over a sealed file brings the HMAC the file
  has. History is kept, so a restore finds the envelope of the head that was deleted,
  or none.
* `BeginMetaMigration` fills the journal after its transaction, objects before
  records; `Enqueue` may stop anywhere, which is the crash. An entry that exists
  keeps its stage.
* The operator's commands open the same database from another process, which the
  service mutex leaves out, so they read in one step and write in a later one.
* Revisions, generations and operation ids are `ObjectModel`'s. The epochs a client
  sends along only refuse writes. Purging of deletion records is left out: in a
  sealed vault it is `ObjectModel`'s, before that it only takes rows away.
* Erasure rewrites the files under the tables and writes a report; its row-visible
  effect, that the change log is empty, is part of `CompleteMeta`. Sentinels,
  preflight reports and share names are left out.

A migration is not promised to end, and no liveness property is made of it: the
journal entry of an object deleted meanwhile stays pending and `Verify` refuses;
a plain write of the owner makes the validator refuse until an abort or a trim. In
both cases a person decides, as the code's comments want it.

`Naming` is what the users see of all this: per file and per deletion record its real
path and whether its name is sealed (`Shown`), and the state of the migration. Columns,
keys, journal, lease, epochs and envelopes are not there; "taken" means the same path
under the same kind of name. A conversion is a `SealFile` or `SealGrave` at the path the
row has; nothing but a client's write is a `Create`, `Move`, `Delete` or `Revive`.

`Askers` is the owner and `NoDevice`: every handler but begin and takeover compares the
requester with the owner and does nothing else with it, so these two stand for all (with
all requesters the reachable states are the same).

### DisasterRecovery

| state | code |
|---|---|
| `data` | the data directory: of `sync.db` the epoch, the change log and the acknowledgements, and `blobs/` |
| `aside` | `restore-backup-*`, the directories restores moved away |
| `staging`, `fetched` | `.backup-staging/current`, `restore-staging-*` |
| `repository` | the snapshots restic holds |
| `mutex`, `stage` | `Service.mu` while a job holds it, and how far a caller's `Manager.Backup` is |
| `operator` | how far `obsync backup restore` is |
| `known`, `seen`, `inbox`, `sent` | a device's epoch, the changes it applied, a response and its requests on the network |

| action | code |
|---|---|
| `Upload`, `RemoveBlob`, `Pull`, `Enroll` | `Service.Upload` with `guardWrite`; every way an unreferenced blob goes; the changes handler; enrolment |
| `StartBackup`, `CopyDatabase`, `LinkBlobs`, `FinishBackup`, `FailBackup` | `Backup` and `runBackup`, cut where the mutex is taken and released |
| `Forget` | `restic forget` of a snapshot, which is never the last one |
| `StopServer`, `StartServer` | a crash or a stop; `run` of `cmd/obsync/main.go` |
| `Fetch`, `MoveAside`, `Install`, `PutBack`, `AbandonRestore`, `RotateEpoch` | `Restore` rename by rename, its error paths, `rotateEpoch` |
| `Send`, `Apply`, `Recover` | the device (external) |

Decisions worth knowing:

* The object model is reduced to one change per write: an object's revision is the
  number of its changes, its content that of the last one. Deletions, trimming and
  pages are `SyncProtocol`'s.
* Writes carry the epoch of their device; the plugin sends `X-Repo-Epoch` with each.
  (A request without the header is not compared with anything.)
* Staged blobs are hard links, so what is removed from `blobs/` afterwards stays in
  `staging`. That a job keeps the collector away (`busyOps`) holds for manual backups
  only, and nothing here relies on it.
* restic reads the staging directory in one step: nobody else writes it, as long as
  one job runs at a time. `MayStart` is that guard.
* The commands run with the server stopped, as `README.md` and `ops.go` ask, and the
  operator does not start a server before the rotation that a restore, or its error
  message, demands (`due`): this discipline is assumed, for the code cannot enforce it.
* The operator may put any directory moved away back by hand, which is what it is
  kept for, and may leave the data directory empty: the server then makes a new one
  with an epoch of its own.

`Timelines` is what an epoch means to the devices: its branches are the logs of the
directories that a device may meet (`Live`: the data directory and those moved away,
unless a rotation is due), each under its epoch, its views what devices know and saw. An
upload is `Extend`, a rotation or a new directory `Branch`, a response that is applied
`Follow`, a recovery `Join`. Copying, restoring, moving and putting back are no steps of it.

### VaultAccess

| state | code |
|---|---|
| `members`, `devices`, `invitations` | `memberships`, `devices` with the user they are bound to and the invitation they came from, `enrollments` |
| `tokens` | signed tokens that have not expired; the server keeps none |
| `keyEpoch`, `pending` | `repo_state.key_epoch`, `vaults.pending_rewrap_epoch` |
| `document` | the number of the stored key document, for its fingerprint |
| `requests` | requests that have passed `authGate` and not yet their handler |

| action | code |
|---|---|
| `Receive...` | `authGate` and `routeScope`: root token, device credential or access token |
| `RemoveMember` | `Service.RemoveMember`, one transaction under the mutex |
| `CreateEnrollment`, `EnrollDevice`, `EnrollCut`, `PruneEnrollments`, `RevokeDevice`, `CreateDevice` | the devices service; `EnrollCut` dies between its two statements |
| `GrantAccessToken`, `SignAccessToken` | the exchange, without the mutex: the device's row is read, and the token signed some steps later |
| `SetVaultKey`, `ReadPendingRewrap`, `ClearPendingRewrap` | `putVaultKey`, cut where it holds no mutex |
| `AddMember`, `BindDevice` | rows that enter from outside: the server has functions for them and no caller |

Decisions worth knowing:

* Being admitted and being handled are two steps for the requests whose handlers act on
  what the gate saw; the others (`EnrollDevice`, which needs no credential, and those of
  the root token alone) are one.
* Lifetimes are cut to their end: an invitation or token is good until `ExpireInvitation`
  or `ExpireToken` happens to it, at any time. Secrets are not guessed and ids not drawn
  twice.
* Devices made by an invitation are bound to nobody, so `RemovedDevicesRevoked` speaks of
  those an administrator's tool bound (`BindDevice`).
* Readers and editors do not govern and are one role. Every device has the default
  scopes, which no code changes afterwards; a token may have fewer.
* Web sessions may read and nothing else, and are left out.

### Shares

| state | code |
|---|---|
| `rows`, `files` | the table `shares`, the ciphertexts under `shares/` |
| `creating` | shares whose ciphertext is in place and whose row is not yet inserted |
| `holder` | the revocation or extension under the mutex |
| `reading`, `listed`, `swept` | the rows `OpenShare` and `maintainShares` go by |

Every operation is cut where the row and the ciphertext can differ or where the mutex is
not held: `PutShare`/`InsertShare`/`InsertFails`, `MarkShareRevoked`/`RevokeShare`,
`CheckShare`/`ExtendShare`, `ReadShare`/`OpenShare`, and maintenance in four steps. A
crash or a failed removal may come anywhere (`MaxFaults`). Time is a counter, `Retention`
the thirty days after which the row of a dead share is deleted. The last second of a
share is a good one to `OpenShare` and to maintenance; the administrator's list calls it
expired one second earlier, which changes nothing.

### SchemaV6, BlobIds, Upgrade

| state | code |
|---|---|
| `files`, `history` | the v5 tables `files` and `file_versions`: any rows, with ids good, malformed or used twice, and any versions that are unique in path and revision, of paths with and without a row |
| `plan`, `todo` | the plan `planV6` made at this start-up, and what is left of it |
| `heads`, `tombstones`, `versions`, `journal` | the v6 tables and `migration_journal` |
| `schema` | v5, v6 with the old tables renamed, or final |
| `refs`, `disk` | the names rows have for blobs, the names of the files |
| `blobJournal`, `command` | the journal of the renaming, how far the command is |

`StartUp` plans and enters the journal, `StartUpCut` dies while entering it; `MigrateObject`
and `MigrateTombstone` are one transaction each. Either may fail, also for a row that an
earlier start-up has moved: `ObjectRefused` is the unique index that says no, `RowFails` any
other error, of which there are `MaxMishaps` at most, crashes included; both end in `GiveUp`, which
marks the entry failed, or leaves it as it was when that fails too (`MarkJournalFailed`'s
error is ignored), and ends the start-up. `CompleteMigration` is the last transaction. `EnqueueBlob`, `Rename`, `Repoint`,
`MarkDone` are the four steps of `MigrateBlobIDs` for a blob, with `RenameFails`,
`RepointFails` and `CommandDies`; between commands the server stores, forgets, restores and
collects. `Upgrade` hands the names of the migrated rows over when the new tables take over,
and runs no command before: the server does not come up.

Decisions worth knowing:

* A path is a number, in the order the tables are read, and stands for the content it had;
  so `Upgrade` can say which blob a row refers to. Generations, key epochs and the envelope
  floor read off the blobs are left out.
* A version belongs to an object by its id if that is well-formed, else by its path
  (`BelongsTo`); of two that bring one revision to one object the first is kept, as the plan
  does. What belongs to nothing is dropped (section 6), and `NothingLeftBehind` does not
  speak of it.
* One live v5 row per folded path is assumed: the v6 index on the collision key is unique
  (`schema.go:133`), v5's column `canonical_key` has no index (`db.go:164`). Two live rows
  with one key, which the v5 server refused to make, would stop the migration for good.
* Commands are taken to run while the server is down. The command's mutex and `busyOps` are
  those of its own process and would keep no running server away.
* A restored row gets the new name whether or not that file is there (`restored` remembers
  it); `DanglingIsJournaled` and `ContentReachable` leave those rows out, as a finding of
  their own (section 6).

## 3. Runs

| run | checks | bounds | distinct states |
|---|---|---|---|
| `ObjectModel` | `LedgersAgree`, `NamesUnique`, `LogDescribesObjects`, `RevisionIdentifiesContent`, `LifeSpec`, `NoSilentResurrection` | 2 objects, 3 names (two fold together), a plaintext and an LSE3 content, 1 operation id, 1 device, 4 changes | 274,781 |
| `SyncProtocol` | `MirrorsArePast`, `AcksAreApplied`, `AtMostOncePerObject`, `ReplicaSpec`, `NoStaleRecreation` | 2 devices, 2 objects, 2 names, 3 contents, 3 requests | 711,153 |
| `SyncLiveness` | `EventualConvergence`, `OverwritesSeen` | 1 device, 2 objects, 2 names, 2 contents, 4 requests, 4 changes, no symmetry | 1,285,605 |
| `BlobStore` | `UploadedContentPresent` | 2 objects, 2 blobs, 3 revisions, 1 restart, no disk fault | 1,631,779 |
| `BlobRepair` | `FoundDamageRefused`, `OrphansCollected`, `ArchiveSpec` | 2 objects, 1 blob, 1 disk fault, 1 restart, no symmetry | 144,446 |
| `MetaMigration` | `MetaNeedsE2ee`, `NoPathLeft`, `NamingSpec`, `BarrierSealed`, `VerifiedStaysSealed`, `OwnerKeepsLease` | 2 files, 1 path, 2 devices and the root token, plaintext and LSE3 envelopes, 2 key epochs | 775,862 |
| `DisasterRecovery` | `BackupsComplete`, `TimelineSpec`, `NothingDiscarded`, `NoLostUpdateAcrossRestore`, `JobsEnd` | 1 file, 3 writes, 1 device, 2 callers, 2 snapshots, 1 restore, 1 stop, no symmetry | 492,390 |
| `VaultAccess` | `OwnerRemains`, `RemovedDevicesRevoked`, `OneDevicePerInvitation`, `NothingNewAfterRevocation`, `NoLostDocument` | 2 users, 2 devices, 1 invitation, 1 token, 2 requests at once, 1 rotation, 2 documents | 3,912,115 |
| `Shares` | `PromiseKept`, `DeadCiphertextCollected` | 2 shares, 1 reader, expiries never, 1 and 2, retention 1, time to 4, 1 crash or failed removal, no symmetry | 419,697 |
| `Upgrade` | `NothingLeftBehind`, `JournalTruthful`, `DanglingIsJournaled`, `SuccessIsComplete`, `CleanMigrationEnds` | 2 v5 paths, 2 revisions, up to 3 versions, 3 ids of which 1 is a v5 id, 2 crashes or failed transactions; 1 blob, 1 stopped command or refused transaction | 5,403,984 |
| `RetriedCreate`, `CollectedRename` | two findings of section 6 | the smallest that shows them | |

Why these bounds are enough for the question asked: every interaction between
objects is pairwise (a name or a key that two share), so two objects and names
with one folded pair reach each; four changes allow create, rename away, create on
the old name and delete, or delete, restore, update, delete; three requests allow a
stale one, the one that made it stale, and its duplicate; in `SyncLiveness` a fourth lets
another object take the name in between, and one device is enough, since it may send all
four before it hears of any, which is what a second device's lateness comes to; that
devices agree with each other is that each of them agrees with the server; three revisions allow a
blob to be written, dropped, and written again while a collector still has it as a
candidate. In `MetaMigration` the question about paths is always whether two rows are
on the same one, so two files and one path are the crowded case, and two devices beside
the root token let a lease pass between them. In `DisasterRecovery` three writes are
needed for a lost update across a restore: the content a late request was made over,
the one that took its revision after the restore, and the late one; one device is
enough, since its own late request plays the other writer. In `VaultAccess` two users who
govern can remove each other at once, one of two requests under way meets the effect of
the other, and two documents are one lost update. In `Shares` one reader and maintenance are two
actors that go by rows read before; the clock reaches past the expiry and the retention of
any share. In `Upgrade` two paths and one id that both may have is the conflict the plan
resolves, and two ids to draw let a second start-up draw another one than the first; a row
has the revision 2, and the first path two versions without an id (or versions and no row),
so that one of them is not the row's own. `MaxEpoch = 1` lets one removal succeed in
`VaultAccess`, while two are under way: the count of owners with more removals is the
theorem's. In `BlobStore` there is no disk fault: with one and two blobs the run would not
end in time. What `UploadedContentPresent` says of faults is proved, and the window of the
quarantine is in `BlobRepair`. Every bound is a constant with a guard
that names it (`MaxSequence`,
`MaxRequests`, `MaxRevision`, `MaxRestarts`, `MaxFaults`, `MaxGeneration`,
`MaxKeyEpoch`, `MaxEpoch`, `MaxSnapshots`, `MaxRestores`, `MaxStops`, `MaxDocuments`,
`MaxTokens`, `MaxTime`, `MaxPath`, `MaxMishaps`).
The type invariants are in no run, nor are the invariants that one of the abstract
specifications now says more of (`LogContiguous`, `ReferencedNeverRemoved`, `PathsUnique`,
`EpochNamesHistory`): all of them are proved. `ArchiveSpec` is checked where disk faults
and repairs happen, which is the small instance; for the others it is proved.
Symmetry is used only in runs without liveness properties, over ids that no
definition orders. The vault may stop between requests, so deadlock is not checked.

Every property of a passing run comes with a mutant, a "Variant with a bug" beside
the definition it replaces (a collision check dropped, a watermark off by one, an
acknowledgement of the page sent instead of the cursor received), which breaks it
under the same configuration.

### Fairness

* `FairSyncSpec`: a device that is not revoked keeps pulling (weak fairness of
  `Pull` and `Resync`) and, however many responses it loses, applies one in the end
  (strong fairness of `Apply`, since losing disables it again and again). That is
  the plugin's polling loop. Nothing is assumed of writers, the network or
  maintenance: writes may stop and requests may never arrive. The number of writes
  is bounded, so "in the end" is after the last.
* `FairSpec` of `BlobStore`: the daily loop (`RunMaintenance`, started by `cmd/obsync/main.go`)
  runs again and again, each file is an hour old one day, a walk completes, and a
  handler that holds the mutex releases it; strong fairness where another holder of
  the mutex can disable a step in between.
* `FairSpec` of `DisasterRecovery`: a job that has begun goes on (weak fairness of its
  steps). Requests take and release the mutex within one step of the model, so a job
  gets it; copying and linking end, and a call of restic has a time limit, after which
  it has failed. Nothing is assumed of devices or of the operator.
* `FairSpec` of `Shares`: time passes; maintenance runs on its timer, with strong fairness
  because clients may hold the mutex again and again, which a Go mutex hands to one who
  waits too long; a revocation or extension that holds it ends.
* `UpgradeSpec`: the server is started again until it comes up (`restart: unless-stopped`), and
  a start-up that has begun goes on unless it dies or a transaction fails, `MaxMishaps`
  times at most. Nothing makes an operator run the renaming.

## 4. Proofs

`ObjectModelProofs` proves for any sets of ids, names, keys, contents, devices and
any bounds: `TypeOK`, `LedgersAgree`, `NamesUnique`, `LogContiguous`,
`LogDescribesObjects`, `RevisionIdentifiesContent` as invariants of `Spec`;
`NoSilentResurrection`; and `LifeSpec`, that the object model implements `ObjectLife`
under the mapping `Life`. Assumptions: `RequestAssumption` and `ContentAssumption`
(types of the constants; in metadata mode file ids are names).

The conjunction of the invariants is not inductive by itself:
`RevisionIdentifiesContent` speaks of retained changes only, and an update must know
that its new revision is above every retained change of the object. `IInv` adds
`LogBelowPresent`: no retained change of an object has a revision above the present
one, and one with the same revision carries the present content. The proof has one
lemma per handler (`CreateKeepsIInv`, ...); those that commit a HEAD row share
`CommitHeadKeepsIInv`, whose hypotheses are the two facts a handler has to establish:
no other live object holds the row's name or key, and the row's revision follows
every retained change of the object. The refinement has one lemma per handler
(`CreateImplements`, ...), each mapped to the action of its name in `ObjectLife`;
generations never going back in `Update` and `Revive` is the step that needs the
code's `> 0` tests read carefully, since a content without a header keeps the old
generation.

Four more components have an abstract specification that they are proved to implement,
under any values of the constants, and that a run checks on an instance:

| theorem | abstract | what the abstract one leaves out | invariant it needs beyond the safety proof |
|---|---|---|---|
| `ImplementsReplicas` | `Replicas` | log, pages, watermark, acknowledgements, responses under way | `PastKept`, `LogReplaysPast`, `MirrorsArePast` |
| `ImplementsArchive` | `Archive` | files, mutex, ledgers, collectors, restarts, the order of disk and database | `UploadIsAllowed`, `VictimsSuperseded` |
| `ImplementsNaming` | `Naming` | columns, keys, journal, lease, operator | none: `RowsTruthful` and `KeysUnique` suffice |
| `ImplementsTimelines` | `Timelines` | directories, snapshots, jobs, the operator's steps, responses under way | `CopiesBegin` |

A refinement was asked of them because it is more than their invariants together: it
says what *no* step does, whoever takes it.

`BlobStoreProofs` proves `UploadedContentPresent`, `ReferencedNeverRemoved` and
`FoundDamageRefused`, for any number of disk faults. Quarantine makes the first two less
plain than one would like: a row's file is there, or it was damaged and an upload of the
same content that was cut short has set it aside; and that is the only way a file that a
row refers to is ever taken away. Its invariant adds `UploadIsOnDisk` (from the end of a
repair to the transaction the blob an upload is about to refer to is there) and `RemovedIsOrphan`
(while the collector holds the mutex to remove a file, nobody refers to it): the two
facts that the mutex carries across the crash points. Assumption: `StorageAssumption`.
`ImplementsArchive` has one lemma per kind of step. An upload is one step because its blob
stays on disk until its transaction (`UploadIsOnDisk`) and its object has not been deleted
by then, the mutex being held (`UploadIsAllowed`);
pruning never takes an object's newest record because every victim, chosen long before,
still has a newer sibling when it goes (`VictimsSuperseded`). That `Archive`
lets a restore, and nothing else, bring in a missing content is the exact extent of the
finding `HeadsHaveBlobs` (section 6); content already in use goes missing by a disk fault,
or from damaged by a repair (`SetAside`).

`MetaMigrationProofs` proves the properties of `MetaMigration`, `PathsUnique` and its types, for any sets of
files, paths, devices and envelopes and any bound on key epochs, from
`MigrationAssumption` (paths are not file ids, the root token is not a device,
envelopes are 0 to 4). What the sealed vault promises needs facts that hold long
before it is sealed: `IInv` adds `RowsTruthful` (a row is either addressed by its path
or sealed, in name and key together, and the key is that of its real path: through
plain and sealed writes, conversions, aborts and restores), `KeysUnique` (no two live
rows share a key, the unique index and `FindCanonicalCollision`) and `AllSealed` (what
the validator saw stays true). From these, in a sealed vault, every key is the HMAC of
the real path: two live files on one path would share a key (`PathsUnique`), and an
upload on a deleted path would bring the key of the deletion record and be found by
`findTombstone` (`BarrierSealed`). The first needs no journal: the proof shows that it
is the validator, not the journal, that carries the safety of complete. Each handler
has its lemma; those that write a head share `CommitHeadKeepsIInv`, those that touch
no row `RecordStepKeepsIInv`. The three action properties are proved by cases over the
handlers (`OnlyCreateCreates`, `QuietCommit`).

For `ImplementsNaming` the crux is that the server compares keys and the users compare
paths: `LookAlike` says that two truthful rows the users cannot tell apart have one key,
so a key that is free (`FreeName`), also of deletion records (`FreeOfGraves`), is a name
that is free. Every write over a live file is then a `Move` (`WriteIsMove`), a conversion
seals in place, and takeovers, renewals, journal entries and the encryption of the
content are no steps at all (`StepIsNamingStep`). Two rows of different kinds on one path are
allowed by `Naming`, as by the code; `SealFile` is refused on the second of them.

`DisasterRecoveryProofs` proves the safety properties of `DisasterRecovery`,
`EpochNamesHistory` and its types, for
any files, contents, devices and callers and any number of backups, restores, stops
and epochs, from `RecoveryAssumption` (contents are numbers, absent values are none of
the values) and `DirectoryAssumption` (`Nothing` is no directory). What holds of the
data directory has to hold of every directory that may become it: `IInv` speaks of
`Live`, the data directory and those moved away, as long as no rotation is due.
`EpochsDistinct` says that two of them never share an epoch and that nobody knows an
epoch that was not drawn, which is what lets `RotateEpoch` and a new directory start
with nothing to prove; it is `OneAtATime` (the operator works while the server is down,
one job runs while it is up) that keeps a restored directory with its old epoch from
being served. `HistoryShared` then says of every live directory what
`EpochNamesHistory` says of the server's. For `NoLostUpdateAcrossRestore` a request has
to be followed from its writing to its arrival: `Informed` holds when it is sent, is
kept while logs grow (`InformedLonger`, from `RevisionGrows`: a file's revision never
falls, and the same revision is the same content), and with the two guards of the
upload gives the property; `OnlyUploadsGrowTheLog` shows that no other step writes.
For `ImplementsTimelines` a restored past must be part of a history that is still there:
`CopiesBegin` says that every copy of a log, be it in a snapshot, staged, fetched or moved
away, is how the log of some live directory begins. It is kept because a live log is
only ever extended (`LiveLasts`) and every new copy is taken of one that was there
(`CopiesComeFrom`). Since epochs of live directories differ, `Branches` is a function of the
epoch (`BranchesAreLogs`), and the theorem follows step by step: `UploadIsExtend`,
`FreshIsBranch`, `ApplyIsFollow`, `RecoverIsJoin`; the rest shows the devices nothing.
`CopiesComplete` adds to `BackupsComplete` what the job that holds the mutex has copied
so far.

`BlobStoreProofs` also proves the types (`TypeCorrect`). The step that needs an argument is
that an object with history has a newest version: its revisions are bounded, and
`WellFoundedInduction` gives the largest.

`SyncProtocolProofs` proves all that `SyncProtocol` checks but its liveness, for any
devices, objects, names and number of requests, from `ProtocolAssumption` (plain mode,
requests numbered from 1, `NoFile` is not a file id) and the assumptions of `ObjectModel`.
Every handler is a handler
of `ObjectModel`, so `IInv` of `ObjectModelProofs` carries over (`Next` is allowed what
`SyncNext` does). What has to be added says that the past stays past. `CursorsBehind`: what
a device acknowledges it has applied, and it applies what there is. `KnownBefore`: any
revision and content a device knows, has in a response or has written into a request was
the object's once, so that a request whose base matches has seen what it replaces, if it
hits the object it was made for (`OverwritesSeen`). `EffectsSpent`: what a request did to an object it cannot do again, since
revisions and metadata generations never fall and a purged object never comes back
(`AtMostOncePerObject`). `GravesKnown`: a purged deletion was known to every enrolled
device and to the sender of every request still on the network (`NoStaleRecreation`).
The mirrors rest on the history itself: `PastKept` (it begins with nothing, ends with the
present vault and is never rewritten) and `LogReplaysPast` (a retained change leads from the
vault before it to the vault after it, and touches nothing else). Telling the last change
per object of a stretch of the log, which is what a page does, then leads from one moment to
the other, and with `MirrorsArePast` (`MirrorsRight`) every step of a device is a step of
`Replicas` (`ImplementsReplicas`). `MirrorsCurrent` and `CaughtUp` draw the conclusions a user
cares about: a mirror is right now for whatever its cursor has passed, and a device at
the head of the log has the vault.

The composition keeps what its part was proved to do: `ServerSteps` says that every
step of the protocol is a step of `ObjectModel` or leaves the server alone, so `ObjectsLive`
(`LifeSpec`) and `NoDeviceResurrects` (`NoSilentResurrection`) hold of it too, for the requests that
devices really send, late and repeated.

`VaultAccessProofs` proves all five properties, for any users, devices, invitations and
bounds. The one fact to add is `Spent`: an invitation that some device came from is spent.
`OwnerRemains` needs finite sets and nothing else: a count read and used under the mutex.
`NothingNewAfterRevocation` says how far a revocation reaches: it lasts (`RevokedStays`), the
gate admits nothing of the device, no exchange of it is granted any more, and a token
signed for it afterwards is of an exchange granted before. That such a token opens nothing
is the gate's doing, which reads the device's row at every request.

`SharesProofs` proves `PromiseKept`: every decision to remove a ciphertext that is still under
way rests on something that stays true of a share nobody extends (`DecisionsHold`), and an
id that is only being created is in none of them (`CreatedApart`).

`UpgradeProofs` proves the four safety properties of `Upgrade`, for any v5 tables, versions
without a row included. For the
tables `PlanFits` (a plan gives a good row its id and the others ids no row has) and
`TablesFit` (what earlier start-ups moved came from the old tables, a good row under its id
alone) make `DoneIsMoved` hold at each step, whatever crashed or failed before. A row that
was moved has all its versions (`VersionsCome`, `AllBrought`): of those that bring one revision
the one of the least path (`LeastNat`) is the one planned. For the journal `RetriesFit` is to be
added: an entry that is not done, of an object that is in the tables, is failed, and the
object is one the present plan will redo before the new tables take over. For the blobs
`DoneIsGone` (an old name marked done is in no row again) and `CommandFits` (a command at
work on a blob has found its old name in some row) are what `DanglingIsJournaled` needs;
it is the journal entry made before the renaming that carries it. `GoodRowsNeverRefused`
says that a row with a good id never meets a unique index of the new tables, at any
start-up after any crash; rows with other ids may (`MigrationEnds`, section 6).

Model-checked only: the liveness properties (`EventualConvergence`, `OrphansCollected`,
`JobsEnd`, `DeadCiphertextCollected`, `CleanMigrationEnds`), fairness and `ENABLED` being out of
the prover's reach. For two of them the part that is safety is proved: `CaughtUp`, that
there is nothing left to converge to at the head of the log, and `GoodRowsNeverRefused`, that
no start-up of a migration of good rows is stopped by a constraint. Every other
property of a passing run is proved.

## 5. Plan

In order, with what each adds.

1. *done* `ObjectLife`, `ObjectModel` with proofs: everything else stands on it.
2. *done* `SyncProtocol`: stale writes, duplicates, convergence.
3. *done* `BlobStore` with proofs: crashes and collectors.
4. *done* `MetaMigration` with proofs: the E2EE and metadata state machines, lease,
   journal, validator, mixed names, the operator's commands. Left: the erasure, with a
   failure at each of its steps and the sentinels it deletes first; shares' names; a
   restored HEAD below the envelope floor.
5. *done* `SyncProtocolProofs`; refinements: `Replicas`, `Archive`, `Naming`, `Timelines`.
6. *done* `DisasterRecovery` with proofs: backup, restore and the rotation, with devices holding
   older cursors. Left: check, prune, the scheduler, shares in the snapshot.
7. *done* `VaultAccess` with proofs: members, devices, invitations, tokens, the rotation and
   the key document. Left: pairings, web sessions.
8. *done* `Shares` with proofs.
9. *done* `SchemaV6`, `BlobIds`, `Upgrade` with proofs. Left: generations and key epochs read
   off the blobs.
10. Erasure: its report, sentinels and `VACUUM`, with a failure at each step.
11. The quarantine: repair of a blob that was found missing, and its purge.
12. Signed checkpoints, if the server comes to act on them.
13. Abstract specifications of the three components that have none: access as a table of
    who may do what (`VaultAccess`), a share as a promise with an end (`Shares`), and the
    upgrade as one step (`Upgrade`), with the safety cores of the liveness properties that
    have none.

Not modelled, and why: HTTP translation and web sessions (stateless but for a table of
cookies in memory; a session reads and cannot write); pairings (a one-time, expiring
secret as the invitations are); checkpoints (stored and listed, never acted on); the
erasure (files under the tables, not rows; planned); configuration, rate limits and
statistics; commands that only read; the web viewer, which keeps no state of the
repository; the rebuilding of `repo_state` and of the journal's constraint at start-up
(one transaction each).

## 6. Findings

Where a comment or a test says one thing and the code does another. The first two have a
run whose counterexample shows them, and an entry with the quotations in `PROJECT.json`.

* `RetriedCreate` (`service.go:506`): the operation id is looked up only when the
  addressed name is live. A create without a client file id, delivered again after
  the object was renamed away, makes a second object under the same operation id.
  With a client file id (`AtMostOncePerObject`, in `SyncProtocol`) nothing is applied
  twice.
* `CollectedRename` (`migrate_blobid.go:131`): a command that dies between renaming a blob
  and repointing its rows leaves a file that no row names; the collector of the server,
  which never looks at that journal, takes it for an orphan, and it was the only copy.

Found in the same way, by the property named, but without a run of their own. To see
one, add the property to the configuration of its module.

* `HeadsHaveBlobs` (`BlobStore`, `restore.go:158`): a deletion record is no reference for the
  collectors, so a restored object may have no blob. `maintenance.go:102` calls it an
  invariant that a HEAD has one.
* `ConversionKeepsBarrier` (`MetaMigration`, `meta.go:470`): a converted deletion record is
  known by an HMAC, so a plain upload on the deleted path no longer meets it: by the
  migrating device while the migration runs, by any device once it is aborted.
  `meta.go:439` says the barrier is kept in full. In the sealed vault it is
  (`BarrierSealed`, proved).
* `AckedIsApplied` (`DisasterRecovery`, `changes.go:78`): the first pull after a restore
  brings a cursor of the old epoch, and the handler records it as acknowledged without
  comparing epochs, as `guardWrite` does for writes. Without harm while the purge of
  deletion records is off, which is the default.
* An update or a deletion hits whoever has its name (`service.go:468`, `533`-`558`, `863`-`905`): the
  row is found by the name, its revision compared with the base, and the file id that an
  upload carries never with the row's. Create `f1` at `a`, rename it to `b`, create `f2` at
  `a`: both have revision 1, and an update or deletion of `a` made when `f1` was there, late
  or repeated, replaces content of `f2` its device has never seen. `scenario_test.go:119`
  asks a stale write to be answered 409 and never to overwrite silently. `OverwritesSeen` is what does hold; with
  `e.file = r.file` in the place of its two cases TLC finds this trace in `SyncLiveness`.
* `MigrationEnds` (`SchemaV6`, `migrate_v6.go:359`): a live row whose id must be drawn, moved
  before a crash, meets its own path under the id of the first plan when the next
  start-up draws another one; the unique index refuses it, and does so at every
  start-up from then on. `migrate_v6.go:333` says the migration can be continued. With
  good ids it can (`CleanMigrationEnds`).
* `ExtensionKept` (`Shares`, `service.go:1365`, `maintenance.go:368`): a reader or maintenance
  that read the share as expired removes the ciphertext after an administrator, who
  found it in place, extended the share. `share_recovery.go:54` confirms the ciphertext
  first so that this cannot be.
* `RewrapMatchesPending` (`VaultAccess` with `MaxEpoch = 2`, `membership.go:172`): the pending
  epoch is compared and then cleared without the mutex; a removal in between raises it,
  and its rewrap is cleared with the older one, whose document does not answer it.
* `DanglingIsJournaled` without its exception for restored rows (`BlobIds`, `restore.go:145`): a
  restore names its blob by the new scheme although a blob not yet renamed has the old
  name; the row finds no file until the command has run. `sync/blobid.go:11` says
  the mixed state is safe.

Seen while modelling:

* `NeedsBlobIDMigration` is wrong both ways: it counts journal entries instead of names, so a
  new server that has only new names needs a migration for ever, and one whose command
  died after its first blob may need none although old names are left
  (`migrate_blobid.go:51`).
* When `repointBlobReferences` is refused, the file gets its old name back even if an
  upload has put a row under the new one meanwhile (`migrate_blobid.go:140`); both then
  are in the journal as failed.
* Versions that belong to no row are dropped by the migration of the tables: one without a
  good id whose path has no row is counted and left out (`migrate_v6.go:261`-`264`), one with a
  well-formed id of no row is planned for an object that never comes and is not even
  counted. `migrate_v6.go:30` and `migrate_v6_test.go:161` say of orphans "保留并报告，绝不静默丢弃"
  (kept and reported, never silently dropped). They stay in the old table under its new
  name, until that is finalized.
* `guardWrite` never looks at the pending rewrap, although `ErrRewrapRequired` is explained
  by writes that must wait for it (`membership.go:163`); extending a share that never
  expires gives it an expiry (`UpdateShareExpiry`); two faults on one share, a failed
  removal and a crash, leave the ciphertext of a revoked share on the disk, and a crash
  in `CreateShare` leaves one without a row.
* The change log still tells the paths from before the migration when the erasure
  rebuilds the file (`erasure.go:216`); it is emptied after, in the last transaction
  (`meta.go:740`), so those paths stay in the database file until SQLite's next
  checkpoint. The sentinel is in no change and does not notice. An attempt that fails
  after it deleted the sentinels (`erasure.go:183`) is repeated without any to look for.
* `FinalizeV6Migration` has no caller but a test: the command `obsync migration finalize`
  that `main.go:134` and `erasure.go:255` name is not there, so a vault that came from v5
  keeps the old tables, and the paths in them, for good.
* Of several deletion records with one last name the conflict answer names the one with the
  highest revision (`objects.go:321`), but revisions count per object, so it need not be
  the most recent deletion; below the repository floor the per-object freeze
  (`service.go:475`) names version 3 exactly, so an LSE4 head accepts an older envelope.
* A release of an expired lease by the operator, decided before the owner renewed it, still
  takes it away (the one exception `OwnerKeepsLease` names; the comment at `meta.go:76`
  says only an expired lease is cleared), and an abort from the command line, decided
  while verifying, takes a vault that was sealed in between back to plain.
