--------------------------- MODULE MetaMigration ---------------------------
(***************************************************************************)
(* The encryption of a vault and of its metadata: the state machines of    *)
(* the content (plaintext, migrating, encrypted) and of the names (plain,  *)
(* migrating, verifying, encrypted), the lease of the migrating device,    *)
(* the journal, and the writes that go on meanwhile.                       *)
(*                                                                         *)
(* Every handler runs under the service mutex, so each is one action, save *)
(* that BeginMetaMigration fills the journal row by row after its          *)
(* transaction and may be cut short there, and that the operator's         *)
(* commands run in another process, which the mutex leaves out.  Revisions,*)
(* generations and operation ids are ObjectModel's and are left out here,  *)
(* as are the refusals of guardWrite that compare epochs a client has not  *)
(* learnt yet.  A path stands for all that fold to it.                     *)
(*                                                                         *)
(* A row keeps, besides the columns name and key, the real path its file   *)
(* has for the users.  The server cannot see it once the name is sealed:   *)
(* no guard reads it, it is what a client computes an HMAC from.           *)
(***************************************************************************)
EXTENDS Integers, Functions

CONSTANTS
    FileIds,        \* object identities, 32 hex digits
    Paths,          \* real paths
    Devices,        \* enrolled devices
    NoDevice,       \* the root token, and the owner of a migration without one
    Envelopes,      \* envelope versions of contents, 0 for plaintext
    MaxKeyEpoch     \* bound on key epochs

ASSUME MigrationAssumption ==
    /\ FileIds \cap Paths = {}
    /\ NoDevice \notin Devices
    /\ Envelopes \subseteq 0..4 /\ 0 \in Envelopes
    /\ MaxKeyEpoch \in Nat

Requesters == Devices \cup {NoDevice}

VARIABLES
    encryption,     \* repo_state.encryption_state
    floor,          \* repo_state.minimum_envelope_version
    keyEpoch,       \* repo_state.key_epoch
    metaState,      \* repo_state.meta_state
    owner,          \* repo_state.migration_owner_device_id
    leased,         \* migration_lease_expires_at is in the future
    journal,        \* migration_journal of the running migration
    operator,       \* what a command of the operator has decided to do, by
                    \* what it read: "release" or "abort", else "idle"
    heads,          \* file_heads: file id -> row
    tombstones,     \* tombstones: file id -> row
    log             \* object_changes: "clean" when no retained change has a
                    \* name other than its file id, "late" when one of those
                    \* was published after the cutoff, else "old"

stateVars == <<encryption, floor, keyEpoch, operator>>
recordVars == <<metaState, owner, leased, journal>>
rowVars == <<heads, tombstones>>
vars == <<stateVars, recordVars, rowVars, log>>

(***************************************************************************)
(* Rows                                                                    *)
(***************************************************************************)

\* Collision keys: the folded path, or the client's HMAC of it.
PlainKey(p) == <<"path", p>>
Hmac(p) == <<"hmac", p>>

Keys == {PlainKey(p) : p \in Paths} \cup {Hmac(p) : p \in Paths}

Row == [name : Paths \cup FileIds, key : Keys, path : Paths,
        env : Envelopes, epoch : 0..MaxKeyEpoch]

Entries == FileIds \X {"object", "tombstone"}

EmptyJournal == [e \in Entries |-> "none"]

Live == DOMAIN heads
Dead == DOMAIN tombstones

Put(table, key, row) ==
    [k \in DOMAIN table \cup {key} |-> IF k = key THEN row ELSE table[k]]

Drop(table, key) == Restrict(table, DOMAIN table \ {key})

NameTaken(n) == \E g \in Live : heads[g].name = n

\* Variant with a bug: no object is ever found to collide.
CollisionIgnored(key, f) == FALSE

\* FindCanonicalCollision, and the unique index on the collision key.
Collision(key, f) == \E g \in Live \ {f} : heads[g].key = key

TombstoneFound(n, key) == \E g \in Dead : tombstones[g].name = n \/ tombstones[g].key = key

Migrating == metaState \in {"migrating", "verifying"}

\* Variant with a bug: names are not sealed yet while they are verified.
MetaModeAtEnd == metaState = "encrypted"

\* Names must be sealed.
MetaMode == metaState \in {"verifying", "encrypted"}

OwnedBy(d) == owner \in {NoDevice, d}

\* The freeze of guardWrite: sealed names for everybody, others for the owner.
GuardWrite(d, n) ==
    /\ Migrating => OwnedBy(d) \/ n \in FileIds
    /\ metaState = "verifying" => d = owner

\* A change is appended under the row's name.
NoteChange(f, n) ==
    log' = IF n = f THEN log
           ELSE IF Migrating THEN "late" ELSE "old"

CommitHead(f, row) ==
    /\ heads' = Put(heads, f, row)
    /\ NoteChange(f, row.name)

\* What clients write: plaintext, or ciphertext; LSE3 names the current key.
NewRow(n, key, p, env) ==
    [name |-> n, key |-> key, path |-> p,
     env |-> env, epoch |-> IF env >= 3 THEN keyEpoch ELSE 0]

Writable(env) ==
    /\ encryption # "plaintext" => env # 0
    /\ env >= floor

\* Addressing a file by its real path, or by its id with an HMAC of the path.
Named(f, p, sealed) == IF sealed THEN f ELSE p
Keyed(p, sealed) == IF sealed THEN Hmac(p) ELSE PlainKey(p)

Init ==
    /\ encryption = "plaintext"
    /\ floor = 0
    /\ keyEpoch = 0
    /\ metaState = "plain"
    /\ owner = NoDevice
    /\ leased = FALSE
    /\ journal = EmptyJournal
    /\ operator = "idle"
    /\ heads = << >>
    /\ tombstones = << >>
    /\ log = "clean"

(***************************************************************************)
(* Writes of the clients.  Only a client with the vault key seals a name.  *)
(***************************************************************************)

\* Service.Upload to a free name.
Create(d, f, p, sealed, env) ==
    LET n == Named(f, p, sealed)
        key == Keyed(p, sealed)
    IN  /\ sealed => encryption = "encrypted"
        /\ GuardWrite(d, n)
        /\ Writable(env)
        /\ MetaMode => sealed
        /\ ~ NameTaken(n)
        /\ ~ TombstoneFound(n, key)
        /\ ~ Collision(key, f)
        /\ f \notin Live \cup Dead
        /\ CommitHead(f, NewRow(n, key, p, env))
        /\ UNCHANGED <<stateVars, recordVars, tombstones>>

\* Service.Upload to the name of f.
Update(d, f, env) ==
    /\ f \in Live
    /\ GuardWrite(d, heads[f].name)
    /\ Writable(env)
    /\ heads[f].env = 3 => env >= 3
    /\ MetaMode => heads[f].name \in FileIds
    /\ CommitHead(f, NewRow(heads[f].name, heads[f].key, heads[f].path, env))
    /\ UNCHANGED <<stateVars, recordVars, tombstones>>

\* Service.Delete, which no metadata mode restricts.
Delete(d, f) ==
    /\ f \in Live
    /\ GuardWrite(d, heads[f].name)
    /\ tombstones' = Put(tombstones, f, heads[f])
    /\ heads' = Drop(heads, f)
    /\ NoteChange(f, heads[f].name)
    /\ UNCHANGED <<stateVars, recordVars>>

\* Service.Rename to a path; the guard is asked about the old name only.
RenamePlain(d, f, p) ==
    /\ f \in Live
    /\ GuardWrite(d, heads[f].name)
    /\ ~ MetaMode
    /\ heads[f].name # p => ~ NameTaken(p)
    /\ ~ Collision(PlainKey(p), f)
    /\ CommitHead(f, [heads[f] EXCEPT !.name = p, !.key = PlainKey(p), !.path = p])
    /\ UNCHANGED <<stateVars, recordVars, tombstones>>

\* Service.Rename of a sealed file: new metadata and a new HMAC.
RenameSealed(d, f, p) ==
    /\ f \in Live
    /\ heads[f].name = f
    /\ GuardWrite(d, f)
    /\ metaState # "plain"
    /\ ~ Collision(Hmac(p), f)
    /\ CommitHead(f, [heads[f] EXCEPT !.key = Hmac(p), !.path = p])
    /\ UNCHANGED <<stateVars, recordVars, tombstones>>

\* Service.Restore, to any path; the envelope is the blob's, 0 when it is gone.
Revive(d, f, p, sealed) ==
    LET n == Named(f, p, sealed)
        key == Keyed(p, sealed)
    IN  /\ sealed => encryption = "encrypted"
        /\ GuardWrite(d, n)
        /\ MetaMode => sealed
        /\ f \in Dead
        /\ ~ Collision(key, f)
        /\ ~ NameTaken(n)
        /\ \E env \in {0, tombstones[f].env} :
              CommitHead(f, [name |-> n, key |-> key, path |-> p,
                             env |-> env, epoch |-> tombstones[f].epoch])
        /\ tombstones' = Drop(tombstones, f)
        /\ UNCHANGED <<stateVars, recordVars>>

\* maintainChanges, once the last change under a path is cut away.
TrimLog ==
    /\ log' = "clean"
    /\ UNCHANGED <<stateVars, recordVars, rowVars>>

(***************************************************************************)
(* The encryption of the content.                                          *)
(***************************************************************************)

BeginE2ee ==
    /\ encryption = "plaintext"
    /\ keyEpoch < MaxKeyEpoch
    /\ encryption' = "migrating"
    /\ keyEpoch' = keyEpoch + 1
    /\ UNCHANGED <<floor, operator, recordVars, rowVars, log>>

RaiseFloor(version) == floor' = IF floor < version THEN version ELSE floor

CompleteE2ee ==
    /\ encryption = "migrating"
    /\ \A f \in Live : heads[f].env # 0
    /\ encryption' = "encrypted"
    /\ RaiseFloor(1)
    /\ UNCHANGED <<keyEpoch, operator, recordVars, rowVars, log>>

\* Variant with a bug: an encrypted vault can be given up too.
AbortE2eeAnytime ==
    /\ encryption # "plaintext"
    /\ encryption' = "plaintext"
    /\ UNCHANGED <<floor, keyEpoch, operator, recordVars, rowVars, log>>

AbortE2ee ==
    /\ encryption = "migrating"
    /\ encryption' = "plaintext"
    /\ UNCHANGED <<floor, keyEpoch, operator, recordVars, rowVars, log>>

CompleteEnvelopeUpgrade ==
    /\ encryption = "encrypted"
    /\ \A f \in Live : heads[f].env >= 3
    /\ RaiseFloor(3)
    /\ UNCHANGED <<encryption, keyEpoch, operator, recordVars, rowVars, log>>

\* A member is removed: later writes are under a new key.
RotateKeyEpoch ==
    /\ keyEpoch < MaxKeyEpoch
    /\ keyEpoch' = keyEpoch + 1
    /\ UNCHANGED <<encryption, floor, operator, recordVars, rowVars, log>>

(***************************************************************************)
(* The migration of the metadata.                                          *)
(***************************************************************************)

\* What enqueueMigrationJournalLocked finds: the rows not sealed yet.
Unsealed ==
    {<<f, "object">> : f \in {g \in Live : heads[g].name # g}} \cup
    {<<f, "tombstone">> : f \in {g \in Dead : tombstones[g].name # g}}

\* The rows are entered one by one, objects first, and the server may stop in
\* between; an entry that is there already keeps its stage.
Enqueue ==
    \E entered \in SUBSET Unsealed :
        /\ (\E e \in entered : e[2] = "tombstone") =>
              \A e \in Unsealed : e[2] = "object" => e \in entered
        /\ journal' = [e \in Entries |-> IF e \in entered /\ journal[e] = "none"
                                         THEN "pending" ELSE journal[e]]

BeginMeta(d) ==
    /\ encryption = "encrypted"
    /\ floor >= 3
    /\ metaState = "plain"
    /\ metaState' = "migrating"
    /\ owner' = d
    /\ leased' = TRUE
    /\ log' = IF log = "late" THEN "old" ELSE log
    /\ Enqueue
    /\ UNCHANGED <<stateVars, rowVars>>

\* BeginMetaMigration again, by the owner: renews the lease, leaves verifying.
ResumeMeta(d) ==
    /\ Migrating
    /\ OwnedBy(d)
    /\ metaState' = "migrating"
    /\ leased' = TRUE
    /\ Enqueue
    /\ UNCHANGED <<stateVars, owner, rowVars, log>>

RenewLease(d) ==
    /\ Migrating
    /\ OwnedBy(d)
    /\ leased' = TRUE
    /\ UNCHANGED <<stateVars, metaState, owner, journal, rowVars, log>>

LeaseRunsOut ==
    /\ leased
    /\ leased' = FALSE
    /\ UNCHANGED <<stateVars, metaState, owner, journal, rowVars, log>>

\* Variant with a bug: the lease is not looked at.
TakeoverAnytime(d) ==
    /\ Migrating
    /\ owner # d
    /\ owner' = d
    /\ leased' = TRUE
    /\ UNCHANGED <<stateVars, metaState, journal, rowVars, log>>

Takeover(d) ==
    /\ Migrating
    /\ owner # d
    /\ ~ leased
    /\ owner' = d
    /\ leased' = TRUE
    /\ UNCHANGED <<stateVars, metaState, journal, rowVars, log>>

MarkDone(e) == journal' = [journal EXCEPT ![e] = IF @ = "none" THEN @ ELSE "done"]

\* Seals the name of f; the client takes the HMAC of the real path.
MigrateObject(d, f) ==
    LET row == [heads[f] EXCEPT !.name = f, !.key = Hmac(heads[f].path)]
    IN  /\ metaState = "migrating"
        /\ OwnedBy(d)
        /\ f \in Live
        /\ heads[f].env >= 3
        /\ ~ Collision(row.key, f)
        /\ CommitHead(f, row)
        /\ MarkDone(<<f, "object">>)
        /\ UNCHANGED <<stateVars, metaState, owner, leased, tombstones>>

\* Variant with a bug: the record keeps the collision key it had.
MigrateTombstoneName(d, f) ==
    /\ metaState = "migrating"
    /\ OwnedBy(d)
    /\ f \in Dead
    /\ tombstones' = [tombstones EXCEPT ![f].name = f]
    /\ MarkDone(<<f, "tombstone">>)
    /\ UNCHANGED <<stateVars, metaState, owner, leased, heads, log>>

\* Seals the deletion record of f, which no change of the log tells.
MigrateTombstone(d, f) ==
    /\ metaState = "migrating"
    /\ OwnedBy(d)
    /\ f \in Dead
    /\ tombstones' = [tombstones EXCEPT ![f].name = f, ![f].key = Hmac(tombstones[f].path)]
    /\ MarkDone(<<f, "tombstone">>)
    /\ UNCHANGED <<stateVars, metaState, owner, leased, heads, log>>

Verify(d) ==
    /\ metaState = "migrating"
    /\ OwnedBy(d)
    /\ \A e \in Entries : journal[e] # "pending"
    /\ metaState' = "verifying"
    /\ UNCHANGED <<stateVars, owner, leased, journal, rowVars, log>>

ClearRecord ==
    /\ owner' = NoDevice
    /\ leased' = FALSE
    /\ journal' = EmptyJournal

\* Whoever asks; what is sealed stays sealed.
AbortMeta ==
    /\ Migrating
    /\ metaState' = "plain"
    /\ log' = IF log = "late" THEN "old" ELSE log
    /\ ClearRecord
    /\ UNCHANGED <<stateVars, rowVars>>

\* Variant with a bug: the names of deletion records are not validated.
ValidHeads ==
    /\ \A f \in Live : heads[f].env >= 3 /\ heads[f].epoch = keyEpoch /\ heads[f].name = f
    /\ log # "late"

\* ValidateMetaMigration, as far as this state decides it.
Valid ==
    /\ \A f \in Live : heads[f].env >= 3 /\ heads[f].epoch = keyEpoch /\ heads[f].name = f
    /\ \A f \in Dead : tombstones[f].name = f
    /\ log # "late"

\* The erasure rewrites the files underneath and changes no row.
CompleteMeta(d) ==
    /\ metaState = "verifying"
    /\ OwnedBy(d)
    /\ Valid
    /\ metaState' = "encrypted"
    /\ log' = "clean"
    /\ ClearRecord
    /\ UNCHANGED <<stateVars, rowVars>>

(***************************************************************************)
(* The operator's commands, which run in a process of their own: the       *)
(* server's mutex does not order them, so each reads the state, decides,   *)
(* and writes later whatever has become of it.                             *)
(***************************************************************************)

ReadForRelease ==
    /\ operator = "idle"
    /\ owner # NoDevice
    /\ ~ leased
    /\ operator' = "release"
    /\ UNCHANGED <<encryption, floor, keyEpoch, recordVars, rowVars, log>>

ReadForAbort ==
    /\ operator = "idle"
    /\ Migrating
    /\ operator' = "abort"
    /\ UNCHANGED <<encryption, floor, keyEpoch, recordVars, rowVars, log>>

\* ExpireStaleMigrationLease: the update asks for nothing.
ReleaseLease ==
    /\ operator = "release"
    /\ operator' = "idle"
    /\ owner' = NoDevice
    /\ leased' = FALSE
    /\ UNCHANGED <<encryption, floor, keyEpoch, metaState, journal, rowVars, log>>

\* AbortMetaMigration from the command line, one transaction.
AbortByOperator ==
    /\ operator = "abort"
    /\ operator' = "idle"
    /\ metaState' = "plain"
    /\ log' = IF log = "late" THEN "old" ELSE log
    /\ ClearRecord
    /\ UNCHANGED <<encryption, floor, keyEpoch, rowVars>>

(***************************************************************************)

\* Beginning and taking over store who asks.  The other handlers compare him with the
\* owner only, and all who are not the owner are answered as NoDevice is.
Askers == {owner, NoDevice}

ClientStep ==
    \E d \in Askers, f \in FileIds :
        \/ \E p \in Paths, sealed \in BOOLEAN, env \in Envelopes : Create(d, f, p, sealed, env)
        \/ \E env \in Envelopes : Update(d, f, env)
        \/ Delete(d, f)
        \/ \E p \in Paths : RenamePlain(d, f, p)
        \/ \E p \in Paths : RenameSealed(d, f, p)
        \/ \E p \in Paths, sealed \in BOOLEAN : Revive(d, f, p, sealed)

ContentStep ==
    \/ BeginE2ee
    \/ CompleteE2ee
    \/ AbortE2ee
    \/ CompleteEnvelopeUpgrade
    \/ RotateKeyEpoch

MigrationStep ==
    \/ \E d \in Requesters : BeginMeta(d) \/ Takeover(d)
    \/ \E d \in Askers :
          \/ ResumeMeta(d)
          \/ RenewLease(d)
          \/ Verify(d)
          \/ CompleteMeta(d)
          \/ \E f \in FileIds : MigrateObject(d, f) \/ MigrateTombstone(d, f)
    \/ LeaseRunsOut
    \/ AbortMeta

OperatorStep ==
    \/ ReadForRelease
    \/ ReadForAbort
    \/ ReleaseLease
    \/ AbortByOperator

Next == ClientStep \/ TrimLog \/ ContentStep \/ MigrationStep \/ OperatorStep

Spec == Init /\ [][Next]_vars

(***************************************************************************)
(* Properties                                                              *)
(***************************************************************************)

\* Every variable holds what its column can, and no row was encrypted under a
\* key epoch the vault has not reached: key_epoch is never taken back.
TypeOK ==
    /\ encryption \in {"plaintext", "migrating", "encrypted"}
    /\ floor \in {0, 1, 3}
    /\ keyEpoch \in 0..MaxKeyEpoch
    /\ metaState \in {"plain", "migrating", "verifying", "encrypted"}
    /\ owner \in Requesters
    /\ leased \in BOOLEAN
    /\ journal \in [Entries -> {"none", "pending", "done"}]
    /\ operator \in {"idle", "release", "abort"}
    /\ Live \subseteq FileIds /\ Dead \subseteq FileIds
    /\ \A f \in Live : heads[f] \in Row /\ heads[f].epoch <= keyEpoch
    /\ \A f \in Dead : tombstones[f] \in Row /\ tombstones[f].epoch <= keyEpoch
    /\ log \in {"clean", "old", "late"}

\* The two state machines agree: names are sealed, or being sealed, only in a
\* vault whose content is encrypted and whose envelope floor is LSE3, whatever
\* the other machine's handlers do meanwhile.
MetaNeedsE2ee == metaState # "plain" => encryption = "encrypted" /\ floor = 3

\* Once the migration is complete no head, deletion record, collision key or
\* retained change tells a real path (what complete erases for good, and what
\* every later write must keep out).
NoPathLeft ==
    metaState = "encrypted" =>
        /\ \A f \in Live : heads[f].name \in FileIds /\ heads[f].key[1] = "hmac"
        /\ \A f \in Dead : tombstones[f].name \in FileIds /\ tombstones[f].key[1] = "hmac"
        /\ log = "clean"

\* Files that were plain and sealed at the same time never end up on one path:
\* in a sealed vault the live files have different real paths, though the
\* server compares HMACs with HMACs and paths with paths only.
PathsUnique ==
    metaState = "encrypted" =>
        \A f, g \in Live : heads[f].path = heads[g].path => f = g

\* What the users have: real paths, and which of them the tables still tell.
Shown(f, row) == [path |-> row.path, sealed |-> row.name = f]

ShownFiles == [f \in Live |-> Shown(f, heads[f])]

ShownGraves == [f \in Dead |-> Shown(f, tombstones[f])]

Names == INSTANCE Naming WITH files <- ShownFiles, graves <- ShownGraves, phase <- metaState

\* To the users the two state machines, the journal, the lease and the operator's
\* commands are Naming: no conversion, takeover, abort or crash moves a file or a
\* deletion record, plain and sealed names each stay unique, a new file never gets
\* past the barrier of its own kind of name, and a sealed vault has sealed names only.
NamingSpec == Names!Spec

\* The files that a step creates, as opposed to restores.
Created == DOMAIN heads' \ (Live \cup Dead)

\* The deletion barrier survives the migration: in a sealed vault no new file
\* is made on the real path of a deletion record, those made before the
\* migration, during it and in an aborted one included.
BarrierSealed ==
    [][metaState = "encrypted" =>
          \A f \in Created, g \in Dead : tombstones[g].path # heads'[f].path]_vars

\* The real paths that the tables tell.
ClearPaths ==
    ({heads[f].name : f \in Live} \cup {tombstones[f].name : f \in Dead}) \ FileIds

\* Verification is quiet: from verifying on, no write of any device, the owner
\* included, brings a real path into the tables that was not there, so what
\* was verified stays true until complete.
VerifiedStaysSealed ==
    [][(metaState = "verifying" \/ metaState = "encrypted") =>
          ClearPaths' \subseteq ClearPaths]_vars

\* While the lease of a device runs, the migration is that device's: it changes
\* hands only after the lease, and ends only by completion or abort.  The one
\* exception is a release by the operator that was decided before the lease was
\* renewed, for its update does not look again.
OwnerKeepsLease ==
    [][leased /\ owner \in Devices /\ Migrating =>
          \/ owner' = owner
          \/ metaState' \in {"plain", "encrypted"}
          \/ operator = "release" /\ owner' = NoDevice]_vars

\* "The deletion barrier is kept in full" by the conversion of a deletion
\* record (MigrateTombstone): an upload on the path of a converted record is
\* still refused.
ConversionKeepsBarrier ==
    [][\A f \in Created, g \in Dead :
          journal[<<g, "tombstone">>] = "done" =>
              tombstones[g].path # heads'[f].path]_vars

=============================================================================
