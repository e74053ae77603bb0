---------------------------- MODULE ObjectModel ----------------------------
(***************************************************************************)
(* The v6 object model of the server: one vault, one repo epoch.           *)
(*                                                                         *)
(* Every write handler runs under the service mutex and commits one SQLite *)
(* transaction, so each is one action here.  A handler that answers        *)
(* without writing (a conflict, a validation error, an idempotent reply)   *)
(* changes nothing and is no action: the guards below are the conditions   *)
(* under which the handler reaches its commit, in the code's order.        *)
(*                                                                         *)
(* The four tables are functions whose domains are the primary keys of     *)
(* the rows they hold.  Requests are arbitrary: any name, base revision,   *)
(* generation and operation id, fresh or stale.  Blobs and history         *)
(* versions are the subject of BlobStore; with a history setting that      *)
(* never changes, the content a deletion record keeps is the head's.       *)
(***************************************************************************)
EXTENDS Integers, Functions

CONSTANTS
    FileIds,            \* object identities
    Names,              \* addressing names a request can carry (pseudonyms)
    Canons,             \* collision keys: folded paths, or client HMACs
    CanonicalKey,       \* CanonicalKey[n]: the key the server computes for n
    NoHash,             \* a request that carries no client HMAC
    Contents,           \* contents, by hash
    Generation,         \* Generation[c]: generation in c's LSE3/LSE4 header,
                        \* or -1 when c carries no such header
    Envelope,           \* Envelope[c]: envelope version of c, 0 for plaintext
    Operations,         \* operation ids (idempotency keys)
    NoOperation,        \* a request that carries no operation id
    Devices,            \* enrolled devices, one model value per device row
    MetaMode,           \* the metadata of the vault is encrypted
    Encrypted,          \* encryption_state is not "plaintext"
    MinimumEnvelope,    \* the repository's envelope floor
    MaxGeneration,      \* bound on content generations
    MaxSequence         \* bound on the number of committed changes

Hashes == IF MetaMode THEN Canons ELSE {NoHash}

Generations == 0..MaxGeneration

ASSUME RequestAssumption ==
    /\ CanonicalKey \in [Names -> Canons]
    /\ NoHash \notin Canons
    /\ MetaMode \in BOOLEAN
    /\ MetaMode => FileIds \subseteq Names
    /\ NoOperation \notin Operations

ASSUME ContentAssumption ==
    /\ Generation \in [Contents -> Generations \cup {-1}]
    /\ Envelope \in [Contents -> 0..4]
    /\ Encrypted \in BOOLEAN
    /\ MinimumEnvelope \in 0..4
    /\ MaxGeneration \in Nat
    /\ MaxSequence \in Nat

VARIABLES
    heads,          \* file_heads: file id -> HEAD row of a live object
    tombstones,     \* tombstones: file id -> deletion record
    objectState,    \* file_objects: file id -> "live" or "deleted", for ever
    headSequence,   \* repo_state.head_sequence
    minRetained,    \* repo_state.min_retained_sequence
    changes,        \* object_changes: sequence -> change, trimmable
    acked           \* devices.last_acked_sequence of the devices not revoked

vars == <<heads, tombstones, objectState, headSequence, minRetained, changes, acked>>

(***************************************************************************)
(* Rows                                                                    *)
(***************************************************************************)

Head == [rev : Nat, gen : Generations, content : Contents, metaGen : Nat,
         name : Names, canon : Canons, env : 0..4]

Tombstone == [rev : Nat, gen : Generations, prior : Contents, metaGen : Nat,
              name : Names, canon : Canons, seq : Nat]

Change == [file : FileIds, action : {"upsert", "delete", "restore"}, rev : Nat,
           gen : Generations, metaGen : Nat, name : Names,
           content : Contents \cup {NoHash}, op : Operations \cup {NoOperation}]

\* A table whose primary keys are drawn from a set and whose rows from another.
IsTable(table, keys, rows) ==
    /\ DOMAIN table \subseteq keys
    /\ \A k \in DOMAIN table : table[k] \in rows

\* INSERT ... ON CONFLICT DO UPDATE, and DELETE, by primary key.
Put(table, key, row) ==
    [k \in DOMAIN table \cup {key} |-> IF k = key THEN row ELSE table[k]]

Drop(table, keys) == Restrict(table, DOMAIN table \ keys)

Live == DOMAIN heads
Dead == DOMAIN tombstones

(***************************************************************************)
(* Queries                                                                 *)
(***************************************************************************)

CollisionKey(name, hash) == IF hash = NoHash THEN CanonicalKey[name] ELSE hash

Named(f, name) == f \in Live /\ heads[f].name = name

NameTaken(name) == \E f \in Live : heads[f].name = name

\* Variant with a bug: no object is ever found to collide.
CollisionIgnored(canon, f) == FALSE

\* Another live object holds the same collision key.
CanonicalCollision(canon, f) == \E g \in Live \ {f} : heads[g].canon = canon

\* Variant with a bug: a deletion record guards only the very name it was under.
TombstoneFoundByName(name, canon) == \E f \in Dead : tombstones[f].name = name

\* A deletion record guards the name, as last name or as collision key.
TombstoneFound(name, canon) ==
    \E f \in Dead : tombstones[f].name = name \/ tombstones[f].canon = canon

\* The deletion record a request on the name is answered with.
TombstoneNamed(f, name) ==
    /\ f \in Dead
    /\ tombstones[f].name = name
    /\ \A g \in Dead : tombstones[g].name = name => tombstones[g].rev <= tombstones[f].rev

\* A retained change of f already carries the operation id.
AlreadyDone(f, op) ==
    /\ op # NoOperation
    /\ \E s \in DOMAIN changes : changes[s].file = f /\ changes[s].op = op

\* Variant with a bug: any base that is not from the future.
BaseNotNewer(f, base) == base <= heads[f].rev

\* The request was made against the present revision of the object.
BaseMatches(f, base) == base = heads[f].rev

\* The content carries a generation that is not newer than the object's.
StaleGeneration(f, content) ==
    /\ Generation[content] >= 0
    /\ heads[f].gen > 0
    /\ Generation[content] <= heads[f].gen

ServableEnvelope(c) ==
    /\ Encrypted => Envelope[c] # 0
    /\ Envelope[c] >= MinimumEnvelope

(***************************************************************************)
(* Writing                                                                 *)
(***************************************************************************)

\* Variant with a bug: the change does not carry the metadata generation.
InsertBareChange(f, action, row, content, op) ==
    /\ headSequence < MaxSequence
    /\ headSequence' = headSequence + 1
    /\ changes' = Put(changes, headSequence + 1,
                      [file |-> f, action |-> action, rev |-> row.rev, gen |-> row.gen,
                       metaGen |-> 0, name |-> row.name, content |-> content, op |-> op])

\* The next sequence and the change it stands for, in the handler's transaction.
InsertChange(f, action, row, content, op) ==
    /\ headSequence < MaxSequence
    /\ headSequence' = headSequence + 1
    /\ changes' = Put(changes, headSequence + 1,
                      [file |-> f, action |-> action, rev |-> row.rev, gen |-> row.gen,
                       metaGen |-> row.metaGen, name |-> row.name,
                       content |-> content, op |-> op])

\* Variant with a bug: an existing ledger entry is not brought back to "live".
CommitHeadOnly(f, row, action, op) ==
    /\ heads' = Put(heads, f, row)
    /\ objectState' = IF f \in DOMAIN objectState THEN objectState
                      ELSE Put(objectState, f, "live")
    /\ InsertChange(f, action, row, row.content, op)

\* Variant with a bug: a restore takes the revision of the deletion.
CommitAtDeletion(f, row, action, op) ==
    LET kept == IF action = "restore" THEN [row EXCEPT !.rev = @ - 1] ELSE row
    IN  /\ heads' = Put(heads, f, kept)
        /\ objectState' = Put(objectState, f, "live")
        /\ InsertChange(f, action, kept, kept.content, op)

CommitHead(f, row, action, op) ==
    /\ heads' = Put(heads, f, row)
    /\ objectState' = Put(objectState, f, "live")
    /\ InsertChange(f, action, row, row.content, op)

EmptyVault ==
    /\ heads = << >>
    /\ tombstones = << >>
    /\ objectState = << >>
    /\ headSequence = 0
    /\ minRetained = 0
    /\ changes = << >>

Init == EmptyVault /\ acked = << >>

(***************************************************************************)
(* Service.Upload, the name is free: a new object, under the client's file *)
(* id or a fresh random one.  A deletion record on the name or on its      *)
(* collision key refuses the request before the base revision is looked    *)
(* at; a request with a base other than 0 is refused.                      *)
(***************************************************************************)
Create(f, name, base, content, hash, op) ==
    LET canon == CollisionKey(name, hash)
    IN  /\ ServableEnvelope(content)
        /\ ~ NameTaken(name)
        /\ MetaMode => f = name
        /\ ~ TombstoneFound(name, canon)
        /\ base = 0
        /\ ~ CanonicalCollision(canon, f)
        /\ f \notin DOMAIN objectState
        /\ CommitHead(f, [rev |-> 1,
                          gen |-> IF Generation[content] > 0 THEN Generation[content] ELSE 0,
                          content |-> content,
                          metaGen |-> IF MetaMode THEN 1 ELSE 0,
                          name |-> name, canon |-> canon, env |-> Envelope[content]],
                      "upsert", op)
        /\ UNCHANGED <<tombstones, minRetained, acked>>

(***************************************************************************)
(* Service.Upload, the name is held by the live object f.  The same        *)
(* content and a repeated operation id are answered without writing.  The  *)
(* collision key changes only with a client HMAC, and there the unique     *)
(* index of file_heads is what keeps two objects apart.                    *)
(***************************************************************************)
Update(f, name, base, content, hash, op) ==
    LET cur == heads[f]
        canon == IF hash = NoHash THEN cur.canon ELSE hash
        gen == Generation[content]
    IN  /\ ServableEnvelope(content)
        /\ Named(f, name)
        /\ ~ (cur.env = 3 /\ Envelope[content] < 3)
        /\ content # cur.content
        /\ ~ AlreadyDone(f, op)
        /\ ~ StaleGeneration(f, content)
        /\ BaseMatches(f, base)
        /\ ~ CanonicalCollision(canon, f)
        /\ CommitHead(f, [rev |-> cur.rev + 1, gen |-> IF gen >= 0 THEN gen ELSE cur.gen,
                          content |-> content, metaGen |-> cur.metaGen,
                          name |-> name, canon |-> canon, env |-> Envelope[content]],
                      "upsert", op)
        /\ UNCHANGED <<tombstones, minRetained, acked>>

(***************************************************************************)
(* Service.Delete: the HEAD row becomes a deletion record at the next      *)
(* revision.  No operation id is looked up; a name with no live object is  *)
(* answered from its deletion record without writing.                      *)
(***************************************************************************)
Delete(f, name, base, op) ==
    LET cur == heads[f]
        dead == [rev |-> cur.rev + 1, gen |-> cur.gen, prior |-> cur.content,
                 metaGen |-> cur.metaGen, name |-> cur.name, canon |-> cur.canon,
                 seq |-> headSequence + 1]
    IN  /\ Named(f, name)
        /\ BaseMatches(f, base)
        /\ InsertChange(f, "delete", dead, NoHash, op)
        /\ tombstones' = Put(tombstones, f, dead)
        /\ heads' = Drop(heads, {f})
        /\ objectState' = Put(objectState, f, "deleted")
        /\ UNCHANGED <<minRetained, acked>>

(***************************************************************************)
(* Service.Rename: the metadata generation is the compare-and-swap token,  *)
(* checked before the operation id.  A live object on the target name      *)
(* refuses it, a deletion record there does not.                           *)
(***************************************************************************)
Rename(f, from, to, baseMetaGen, hash, op) ==
    LET cur == heads[f]
        canon == CollisionKey(to, hash)
    IN  /\ MetaMode => to = from
        /\ Named(f, from)
        /\ baseMetaGen = cur.metaGen
        /\ ~ AlreadyDone(f, op)
        /\ to # from => ~ NameTaken(to)
        /\ ~ CanonicalCollision(canon, f)
        /\ CommitHead(f, [rev |-> cur.rev, gen |-> cur.gen, content |-> cur.content,
                          metaGen |-> cur.metaGen + 1,
                          name |-> to, canon |-> canon, env |-> cur.env],
                      "upsert", op)
        /\ UNCHANGED <<tombstones, minRetained, acked>>

(***************************************************************************)
(* Service.Restore: the deletion record of f becomes a HEAD row again, at  *)
(* the next revision, with the content kept by the record.  The envelope   *)
(* of that content is read from its blob, 0 when the blob is gone.         *)
(***************************************************************************)
Revive(f, expected, gen, name, hash, op) ==
    LET tomb == tombstones[f]
        canon == CollisionKey(name, hash)
    IN  /\ MetaMode => name = f
        /\ ~ AlreadyDone(f, op)
        /\ f \in Dead
        /\ expected = tomb.rev
        /\ ~ (tomb.gen > 0 /\ gen <= tomb.gen)
        /\ ~ CanonicalCollision(canon, f)
        /\ ~ NameTaken(name)
        /\ \E env \in {0, Envelope[tomb.prior]} :
              CommitHead(f, [rev |-> tomb.rev + 1, gen |-> gen, content |-> tomb.prior,
                             metaGen |-> tomb.metaGen + 1, name |-> name,
                             canon |-> canon, env |-> env],
                         "restore", op)
        /\ tombstones' = Drop(tombstones, {f})
        /\ UNCHANGED <<minRetained, acked>>

(***************************************************************************)
(* maintainChanges: the log is cut up to a retained sequence, by age or by *)
(* count, and the watermark moves there in the same transaction.           *)
(***************************************************************************)
TrimChanges ==
    \E upTo \in DOMAIN changes :
        /\ changes' = Drop(changes, {s \in DOMAIN changes : s <= upTo})
        /\ minRetained' = IF upTo > minRetained THEN upTo ELSE minRetained
        /\ UNCHANGED <<heads, tombstones, objectState, headSequence, acked>>

(***************************************************************************)
(* PurgeTombstones: of the records whose retention has run out, those that *)
(* every device not revoked has acknowledged, when there is a device.      *)
(***************************************************************************)
\* Variant with a bug: one device's acknowledgement is enough.
AcknowledgedOnce(seq) == \E d \in DOMAIN acked : seq <= acked[d]

Acknowledged(seq) == \A d \in DOMAIN acked : seq <= acked[d]

\* Variant with a bug: the object ledger forgets the purged objects.
PurgeObjects(expired) ==
    LET gone == {f \in expired : Acknowledged(tombstones[f].seq)}
    IN  /\ DOMAIN acked # {}
        /\ tombstones' = Drop(tombstones, gone)
        /\ objectState' = Drop(objectState, gone)
        /\ UNCHANGED <<heads, headSequence, minRetained, changes, acked>>

PurgeTombstones(expired) ==
    /\ DOMAIN acked # {}
    /\ tombstones' = Drop(tombstones, {f \in expired : Acknowledged(tombstones[f].seq)})
    /\ UNCHANGED <<heads, objectState, headSequence, minRetained, changes, acked>>

(***************************************************************************)
(* The devices table, as far as purging reads it.                          *)
(***************************************************************************)
EnrollDevice(d) ==
    /\ d \notin DOMAIN acked
    /\ acked' = Put(acked, d, 0)
    /\ UNCHANGED <<heads, tombstones, objectState, headSequence, minRetained, changes>>

RevokeDevice(d) ==
    /\ d \in DOMAIN acked
    /\ acked' = Drop(acked, {d})
    /\ UNCHANGED <<heads, tombstones, objectState, headSequence, minRetained, changes>>

\* Variant with a bug: a device acknowledges what it is sent, not what it has.
AckEverything(d, seq) ==
    /\ d \in DOMAIN acked
    /\ acked[d] < seq
    /\ acked' = [acked EXCEPT ![d] = headSequence]
    /\ UNCHANGED <<heads, tombstones, objectState, headSequence, minRetained, changes>>

AckSequence(d, seq) ==
    /\ d \in DOMAIN acked
    /\ acked[d] < seq
    /\ acked' = [acked EXCEPT ![d] = seq]
    /\ UNCHANGED <<heads, tombstones, objectState, headSequence, minRetained, changes>>

(***************************************************************************)
(* Every request the handlers accept, and the maintenance loop.            *)
(***************************************************************************)
Upload ==
    \E f \in FileIds, name \in Names, base \in 0..MaxSequence, content \in Contents,
       hash \in Hashes \cup {NoHash}, op \in Operations \cup {NoOperation} :
        \/ (MetaMode => hash # NoHash) /\ Create(f, name, base, content, hash, op)
        \/ Update(f, name, base, content, hash, op)

Remove ==
    \E f \in FileIds, name \in Names, base \in 1..MaxSequence,
       op \in Operations \cup {NoOperation} :
        Delete(f, name, base, op)

Move ==
    \E f \in FileIds, from, to \in Names, baseMetaGen \in 0..MaxSequence,
       hash \in Hashes, op \in Operations \cup {NoOperation} :
        Rename(f, from, to, baseMetaGen, hash, op)

Restore ==
    \E f \in FileIds, expected \in 1..MaxSequence, gen \in Generations,
       name \in Names, hash \in Hashes, op \in Operations \cup {NoOperation} :
        Revive(f, expected, gen, name, hash, op)

Purge == \E expired \in SUBSET Dead : PurgeTombstones(expired)

DeviceStep ==
    \E d \in Devices :
        \/ EnrollDevice(d)
        \/ RevokeDevice(d)
        \/ \E seq \in 1..headSequence : AckSequence(d, seq)

Next == Upload \/ Remove \/ Move \/ Restore \/ TrimChanges \/ Purge \/ DeviceStep

Spec == Init /\ [][Next]_vars

-----------------------------------------------------------------------------
(***************************************************************************)
(* Type correctness: every row of every table has the columns and the      *)
(* ranges the handlers write.                                              *)
(***************************************************************************)
TypeOK ==
    /\ IsTable(heads, FileIds, Head)
    /\ IsTable(tombstones, FileIds, Tombstone)
    /\ IsTable(objectState, FileIds, {"live", "deleted"})
    /\ headSequence \in Nat
    /\ minRetained \in Nat
    /\ IsTable(changes, Nat, Change)
    /\ IsTable(acked, Devices, Nat)

\* The three ledgers agree about every object: a HEAD row exactly when the
\* object ledger says "live", a deletion record only when it says "deleted",
\* so no object is both live and deleted across Delete, Restore and purging.
LedgersAgree ==
    /\ Live = {f \in DOMAIN objectState : objectState[f] = "live"}
    /\ Dead \subseteq {f \in DOMAIN objectState : objectState[f] = "deleted"}

\* No two live objects ever share a name or a collision key, although the name
\* is checked by some handlers, the key by others, and a rename may take a name
\* that only a deletion record holds.
NamesUnique ==
    \A f, g \in Live :
        heads[f].name = heads[g].name \/ heads[f].canon = heads[g].canon => f = g

\* The log has no gap: it holds exactly the sequences above the watermark, so a
\* cursor at or above the watermark misses nothing (Changes answers such a
\* cursor incrementally, and only an older one with resyncRequired).
LogContiguous ==
    /\ minRetained <= headSequence
    /\ DOMAIN changes = (minRetained + 1)..headSequence

LastOf(s) ==
    \A t \in DOMAIN changes : changes[t].file = changes[s].file => t <= s

DescribesHead(c, head) ==
    /\ c.action # "delete"
    /\ <<c.rev, c.gen, c.metaGen, c.name, c.content>>
         = <<head.rev, head.gen, head.metaGen, head.name, head.content>>

\* The last retained change of an object is its present state: its HEAD row,
\* or its deletion record, or a deletion when the record has been purged.
\* This is what makes replaying the log the same as taking a snapshot.
LogDescribesObjects ==
    \A s \in DOMAIN changes : LastOf(s) =>
        LET c == changes[s]
        IN  IF c.file \in Live THEN DescribesHead(c, heads[c.file])
            ELSE /\ c.action = "delete"
                 /\ c.file \in Dead => /\ tombstones[c.file].seq = s
                                       /\ tombstones[c.file].rev = c.rev

\* A revision of an object means one content for ever: two retained changes of
\* one object with the same revision carry the same content, whatever renames,
\* deletions and restores happened between them, and revisions never go back
\* along the log (INV-05, the ground the base-revision check stands on).
RevisionIdentifiesContent ==
    \A s, t \in DOMAIN changes :
        changes[s].file = changes[t].file /\ s < t =>
            /\ changes[s].rev <= changes[t].rev
            /\ changes[s].rev = changes[t].rev => changes[s].content = changes[t].content

\* The object model implements the life of an object (ObjectLife): an object
\* without a HEAD row or a deletion record, but in the object ledger, is one
\* whose record has been purged.
Life == [f \in FileIds |->
    IF f \in Live
    THEN [phase |-> "live", rev |-> heads[f].rev, gen |-> heads[f].gen,
          metaGen |-> heads[f].metaGen]
    ELSE IF f \in Dead
    THEN [phase |-> "deleted", rev |-> tombstones[f].rev, gen |-> tombstones[f].gen,
          metaGen |-> tombstones[f].metaGen]
    ELSE IF f \in DOMAIN objectState THEN [phase |-> "purged"] ELSE [phase |-> "absent"]]

Abstract == INSTANCE ObjectLife WITH life <- Life

LifeSpec == Abstract!Spec

\* No deletion record guards the name or the collision key of the row.
Unguarded(row) ==
    \A g \in Dead : tombstones[g].name # row.name /\ tombstones[g].canon # row.canon

\* A content never comes back under a name its deletion record guards, unless
\* somebody renames a living object there or restores the object explicitly
\* (INV-06): whoever becomes live is either a restored object or one born on a
\* name and a collision key that no deletion record held.
NoSilentResurrection ==
    [][\A f \in DOMAIN heads' \ Live :
          f \in Dead \/ Unguarded(heads'[f])]_vars
=============================================================================
