------------------------ MODULE MetaMigrationProofs ------------------------
(***************************************************************************)
(* Theorems about MetaMigration, for every set of files, paths, devices    *)
(* and envelopes and every bound on key epochs.                            *)
(*                                                                         *)
(* NoPathLeft, PathsUnique and BarrierSealed speak of the sealed vault     *)
(* only, but what they need has to be true long before: that the key of    *)
(* each row is the one of its real path in the form its name has           *)
(* (RowsTruthful), and that live rows never share a key (KeysUnique),      *)
(* through plain writes, sealed writes, conversions, aborts and restores.  *)
(***************************************************************************)
EXTENDS MetaMigration, TLAPS

\* A row is either addressed by its path or sealed, in its name and its key.
Truthful(f, row) ==
    \/ row.name = f /\ row.key = Hmac(row.path)
    \/ row.name = row.path /\ row.key = PlainKey(row.path)

RowsTruthful ==
    /\ \A f \in Live : Truthful(f, heads[f])
    /\ \A f \in Dead : Truthful(f, tombstones[f])

KeysUnique == \A f, g \in Live : f # g => heads[f].key # heads[g].key

\* What complete has validated stays so.
AllSealed ==
    metaState = "encrypted" =>
        /\ \A f \in Live : heads[f].name = f
        /\ \A f \in Dead : tombstones[f].name = f
        /\ log = "clean"

IInv ==
    /\ TypeOK
    /\ MetaNeedsE2ee
    /\ RowsTruthful
    /\ KeysUnique
    /\ AllSealed

-----------------------------------------------------------------------------
\* Writing a HEAD row puts it under its id and leaves the others alone.
LEMMA CommitHeadRow ==
    ASSUME NEW f, NEW row, CommitHead(f, row)
    PROVE  /\ DOMAIN heads' = Live \cup {f}
           /\ heads'[f] = row
           /\ \A g \in Live \ {f} : heads'[g] = heads[g]
           /\ log' = IF row.name = f THEN log ELSE IF Migrating THEN "late" ELSE "old"
BY DEF CommitHead, Put, NoteChange, Live

\* Deleting a row leaves the others alone.
LEMMA DropRow ==
    ASSUME NEW table, NEW key
    PROVE  /\ DOMAIN Drop(table, key) = DOMAIN table \ {key}
           /\ \A k \in DOMAIN table \ {key} : Drop(table, key)[k] = table[k]
BY DEF Drop, Restrict

\* Keys of different forms or different paths are different.
LEMMA KeysInjective ==
    ASSUME NEW p, NEW q
    PROVE  /\ Hmac(p) = Hmac(q) => p = q
           /\ PlainKey(p) # Hmac(q)
           /\ Hmac(p)[1] = "hmac"
BY DEF Hmac, PlainKey

\* What a client or the migration writes into file_heads preserves the invariant
\* when the row is truthful, is sealed in a sealed vault, and no other live row
\* has its key.
LEMMA CommitHeadKeepsIInv ==
    ASSUME IInv, NEW f \in FileIds, NEW row \in Row, CommitHead(f, row),
           Truthful(f, row),
           row.epoch <= keyEpoch,
           metaState = "encrypted" => row.name = f,
           ~ Collision(row.key, f),
           UNCHANGED <<stateVars, metaState, owner, leased>>,
           journal' \in [Entries -> {"none", "pending", "done"}],
           DOMAIN tombstones' \subseteq Dead,
           \A g \in DOMAIN tombstones' : tombstones'[g] = tombstones[g]
    PROVE  IInv'
<1> USE DEF Live, Dead
<1>1. /\ DOMAIN heads' = Live \cup {f}
      /\ heads'[f] = row
      /\ \A g \in Live \ {f} : heads'[g] = heads[g]
      /\ log' = IF row.name = f THEN log ELSE IF Migrating THEN "late" ELSE "old"
  BY CommitHeadRow
<1>2. UNCHANGED <<encryption, floor, keyEpoch, operator>>
  BY DEF stateVars
<1>3. TypeOK'
  BY <1>1, <1>2 DEF IInv, TypeOK, Requesters
<1>4. MetaNeedsE2ee'
  BY <1>2 DEF IInv, MetaNeedsE2ee
<1>5. RowsTruthful'
  <2>1. \A g \in DOMAIN heads' : Truthful(g, heads'[g])
    BY <1>1 DEF IInv, RowsTruthful
  <2>2. \A g \in DOMAIN tombstones' : Truthful(g, tombstones'[g])
    BY DEF IInv, RowsTruthful
  <2> QED BY <2>1, <2>2 DEF RowsTruthful, Truthful
<1>6. KeysUnique'
  BY <1>1 DEF IInv, KeysUnique, Collision
<1>7. AllSealed'
  BY <1>1 DEF IInv, AllSealed
<1> QED BY <1>3, <1>4, <1>5, <1>6, <1>7 DEF IInv

\* A row written from a request is well typed and truthful.
LEMMA RequestRow ==
    ASSUME IInv, NEW f \in FileIds, NEW p \in Paths, NEW sealed \in BOOLEAN,
           NEW env \in Envelopes
    PROVE  LET row == NewRow(Named(f, p, sealed), Keyed(p, sealed), p, env)
           IN  row \in Row /\ Truthful(f, row) /\ row.epoch <= keyEpoch
<1>1. keyEpoch \in 0..MaxKeyEpoch /\ MaxKeyEpoch \in Nat
  BY MigrationAssumption DEF IInv, TypeOK
<1>2. Keyed(p, sealed) \in Keys /\ Named(f, p, sealed) \in Paths \cup FileIds
  BY DEF Keyed, Named, Keys
<1>3. CASE sealed
  BY <1>1, <1>2, <1>3 DEF NewRow, Row, Truthful, Named, Keyed
<1>4. CASE ~ sealed
  BY <1>1, <1>2, <1>4 DEF NewRow, Row, Truthful, Named, Keyed
<1> QED BY <1>3, <1>4

\* An upload to a free name: its guards give CommitHeadKeepsIInv what it asks.
LEMMA CreateKeepsIInv ==
    ASSUME IInv, NEW d, NEW f \in FileIds, NEW p \in Paths,
           NEW sealed \in BOOLEAN, NEW env \in Envelopes, Create(d, f, p, sealed, env)
    PROVE  IInv'
<1> DEFINE row == NewRow(Named(f, p, sealed), Keyed(p, sealed), p, env)
<1>1. row \in Row /\ Truthful(f, row) /\ row.epoch <= keyEpoch
  BY RequestRow
<1>2. /\ CommitHead(f, row)
      /\ ~ Collision(row.key, f)
      /\ UNCHANGED <<stateVars, recordVars, tombstones>>
  BY DEF Create, NewRow
<1>3. metaState = "encrypted" => row.name = f
  BY DEF Create, MetaMode, NewRow, Named
<1>4. journal' \in [Entries -> {"none", "pending", "done"}]
  BY <1>2 DEF recordVars, IInv, TypeOK
<1>5. UNCHANGED <<stateVars, metaState, owner, leased>>
  BY <1>2 DEF recordVars
<1> HIDE DEF row
<1> QED BY <1>1, <1>2, <1>3, <1>4, <1>5, CommitHeadKeepsIInv DEF Dead

\* An upload over a file keeps name, key and path, so the row stays as truthful as
\* it was and its key as unique.
LEMMA UpdateKeepsIInv ==
    ASSUME IInv, NEW d, NEW f \in FileIds, NEW env \in Envelopes,
           Update(d, f, env)
    PROVE  IInv'
<1> DEFINE row == NewRow(heads[f].name, heads[f].key, heads[f].path, env)
<1>1. /\ f \in Live
      /\ CommitHead(f, row)
      /\ UNCHANGED <<stateVars, recordVars, tombstones>>
  BY DEF Update
<1>2. heads[f] \in Row /\ keyEpoch \in 0..MaxKeyEpoch /\ MaxKeyEpoch \in Nat
  BY <1>1, MigrationAssumption DEF IInv, TypeOK
<1>3. row \in Row /\ row.epoch <= keyEpoch /\ row.name = heads[f].name /\ row.key = heads[f].key
  BY <1>2 DEF NewRow, Row
<1>4. Truthful(f, row)
  BY <1>1 DEF IInv, RowsTruthful, Truthful, NewRow
<1>5. ~ Collision(row.key, f)
  BY <1>1, <1>3 DEF IInv, KeysUnique, Collision
<1>6. metaState = "encrypted" => row.name = f
  BY <1>1, <1>3 DEF IInv, AllSealed
<1>7. journal' \in [Entries -> {"none", "pending", "done"}]
  BY <1>1 DEF recordVars, IInv, TypeOK
<1>8. UNCHANGED <<stateVars, metaState, owner, leased>>
  BY <1>1 DEF recordVars
<1> HIDE DEF row
<1> QED BY <1>1, <1>3, <1>4, <1>5, <1>6, <1>7, <1>8, CommitHeadKeepsIInv DEF Dead

\* A rename to a path makes even a sealed row plain again, which MetaMode forbids
\* in a sealed vault.
LEMMA RenamePlainKeepsIInv ==
    ASSUME IInv, NEW d, NEW f \in FileIds, NEW p \in Paths,
           RenamePlain(d, f, p)
    PROVE  IInv'
<1> DEFINE row == [heads[f] EXCEPT !.name = p, !.key = PlainKey(p), !.path = p]
<1>1. /\ f \in Live
      /\ CommitHead(f, row)
      /\ ~ Collision(PlainKey(p), f)
      /\ metaState # "encrypted"
      /\ UNCHANGED <<stateVars, recordVars, tombstones>>
  BY DEF RenamePlain, MetaMode
<1>2. heads[f] \in Row /\ heads[f].epoch <= keyEpoch
  BY <1>1 DEF IInv, TypeOK
<1>3. /\ row \in Row /\ row.epoch = heads[f].epoch
      /\ row.name = p /\ row.path = p /\ row.key = PlainKey(p)
  BY <1>2 DEF Row, Keys
<1>4. Truthful(f, row)
  BY <1>3 DEF Truthful
<1>5. journal' \in [Entries -> {"none", "pending", "done"}]
  BY <1>1 DEF recordVars, IInv, TypeOK
<1>6. UNCHANGED <<stateVars, metaState, owner, leased>>
  BY <1>1 DEF recordVars
<1> HIDE DEF row
<1> QED BY <1>1, <1>2, <1>3, <1>4, <1>5, <1>6, CommitHeadKeepsIInv DEF Dead

\* A rename of a sealed file changes path and HMAC together.
LEMMA RenameSealedKeepsIInv ==
    ASSUME IInv, NEW d, NEW f \in FileIds, NEW p \in Paths,
           RenameSealed(d, f, p)
    PROVE  IInv'
<1> DEFINE row == [heads[f] EXCEPT !.key = Hmac(p), !.path = p]
<1>1. /\ f \in Live
      /\ heads[f].name = f
      /\ CommitHead(f, row)
      /\ ~ Collision(Hmac(p), f)
      /\ UNCHANGED <<stateVars, recordVars, tombstones>>
  BY DEF RenameSealed
<1>2. heads[f] \in Row /\ heads[f].epoch <= keyEpoch
  BY <1>1 DEF IInv, TypeOK
<1>3. /\ row \in Row /\ row.epoch = heads[f].epoch
      /\ row.name = f /\ row.path = p /\ row.key = Hmac(p)
  BY <1>1, <1>2 DEF Row, Keys
<1>4. Truthful(f, row)
  BY <1>3 DEF Truthful
<1>5. journal' \in [Entries -> {"none", "pending", "done"}]
  BY <1>1 DEF recordVars, IInv, TypeOK
<1>6. UNCHANGED <<stateVars, metaState, owner, leased>>
  BY <1>1 DEF recordVars
<1> HIDE DEF row
<1> QED BY <1>1, <1>2, <1>3, <1>4, <1>5, <1>6, CommitHeadKeepsIInv DEF Dead

\* A restore takes a row back under any free path, sealed if the vault is.
LEMMA ReviveKeepsIInv ==
    ASSUME IInv, NEW d, NEW f \in FileIds, NEW p \in Paths,
           NEW sealed \in BOOLEAN, Revive(d, f, p, sealed)
    PROVE  IInv'
<1>1. PICK env \in {0, tombstones[f].env} :
         CommitHead(f, [name |-> Named(f, p, sealed), key |-> Keyed(p, sealed), path |-> p,
                        env |-> env, epoch |-> tombstones[f].epoch])
  BY DEF Revive
<1> DEFINE row == [name |-> Named(f, p, sealed), key |-> Keyed(p, sealed), path |-> p,
                   env |-> env, epoch |-> tombstones[f].epoch]
<1>2. /\ f \in Dead
      /\ ~ Collision(Keyed(p, sealed), f)
      /\ tombstones' = Drop(tombstones, f)
      /\ UNCHANGED <<stateVars, recordVars>>
  BY DEF Revive
<1>3. tombstones[f] \in Row /\ tombstones[f].epoch <= keyEpoch
  BY <1>2 DEF IInv, TypeOK
<1>4. env \in Envelopes
  BY <1>3, MigrationAssumption DEF Row
<1>5. Keyed(p, sealed) \in Keys /\ Named(f, p, sealed) \in Paths \cup FileIds
  BY DEF Keyed, Named, Keys
<1>6. row \in Row /\ row.epoch = tombstones[f].epoch /\ row.key = Keyed(p, sealed)
  BY <1>3, <1>4, <1>5 DEF Row
<1>7. Truthful(f, row)
  BY DEF Truthful, Named, Keyed
<1>8. metaState = "encrypted" => row.name = f
  BY DEF Revive, MetaMode, Named
<1>9. journal' \in [Entries -> {"none", "pending", "done"}]
  BY <1>2 DEF recordVars, IInv, TypeOK
<1>10. UNCHANGED <<stateVars, metaState, owner, leased>>
  BY <1>2 DEF recordVars
<1>11. /\ DOMAIN tombstones' \subseteq Dead
       /\ \A g \in DOMAIN tombstones' : tombstones'[g] = tombstones[g]
  BY <1>2, DropRow DEF Dead
<1>12. CommitHead(f, row)
  BY <1>1
<1> HIDE DEF row
<1> QED BY <1>2, <1>3, <1>6, <1>7, <1>8, <1>9, <1>10, <1>11, <1>12, CommitHeadKeepsIInv

\* Sealing a head keeps its path and takes the HMAC of it.
LEMMA MigrateObjectKeepsIInv ==
    ASSUME IInv, NEW d, NEW f \in FileIds, MigrateObject(d, f)
    PROVE  IInv'
<1> DEFINE row == [heads[f] EXCEPT !.name = f, !.key = Hmac(heads[f].path)]
<1>1. /\ f \in Live
      /\ CommitHead(f, row)
      /\ ~ Collision(row.key, f)
      /\ MarkDone(<<f, "object">>)
      /\ UNCHANGED <<stateVars, metaState, owner, leased, tombstones>>
  BY DEF MigrateObject
<1>2. heads[f] \in Row /\ heads[f].epoch <= keyEpoch
  BY <1>1 DEF IInv, TypeOK
<1>3. /\ row \in Row /\ row.epoch = heads[f].epoch
      /\ row.name = f /\ row.path = heads[f].path /\ row.key = Hmac(heads[f].path)
  BY <1>2 DEF Row, Keys
<1>4. Truthful(f, row)
  BY <1>3 DEF Truthful
<1>5. journal' \in [Entries -> {"none", "pending", "done"}]
  BY <1>1 DEF MarkDone, IInv, TypeOK
<1> HIDE DEF row
<1> QED BY <1>1, <1>2, <1>3, <1>4, <1>5, CommitHeadKeepsIInv DEF Dead

\* A deletion record takes over the row of the head, or is sealed in place: its
\* name and key stay truthful and in a sealed vault sealed.
LEMMA TombstoneKeepsIInv ==
    ASSUME IInv, NEW f \in FileIds, NEW row \in Row, row.epoch <= keyEpoch,
           Truthful(f, row), metaState = "encrypted" => row.name = f /\ log' = "clean",
           DOMAIN tombstones' = Dead \cup {f}, tombstones'[f] = row,
           \A g \in Dead \ {f} : tombstones'[g] = tombstones[g],
           DOMAIN heads' \subseteq Live,
           \A g \in DOMAIN heads' : heads'[g] = heads[g],
           UNCHANGED <<stateVars, metaState, owner, leased>>,
           journal' \in [Entries -> {"none", "pending", "done"}],
           log' \in {"clean", "old", "late"}
    PROVE  IInv'
<1> USE DEF Live, Dead
<1>1. UNCHANGED <<encryption, floor, keyEpoch, operator>>
  BY DEF stateVars
<1>2. TypeOK'
  BY <1>1 DEF IInv, TypeOK, Requesters
<1>3. MetaNeedsE2ee'
  BY <1>1 DEF IInv, MetaNeedsE2ee
<1>4. RowsTruthful'
  <2>1. \A g \in DOMAIN heads' : Truthful(g, heads'[g])
    BY DEF IInv, RowsTruthful
  <2>2. \A g \in DOMAIN tombstones' : Truthful(g, tombstones'[g])
    BY DEF IInv, RowsTruthful
  <2> QED BY <2>1, <2>2 DEF RowsTruthful, Truthful
<1>5. KeysUnique'
  BY DEF IInv, KeysUnique
<1>6. AllSealed'
  BY DEF IInv, AllSealed
<1> QED BY <1>2, <1>3, <1>4, <1>5, <1>6 DEF IInv

\* A deletion turns the head's row into the deletion record.
LEMMA DeleteKeepsIInv ==
    ASSUME IInv, NEW d, NEW f \in FileIds, Delete(d, f)
    PROVE  IInv'
<1>1. /\ f \in Live
      /\ tombstones' = Put(tombstones, f, heads[f])
      /\ heads' = Drop(heads, f)
      /\ NoteChange(f, heads[f].name)
      /\ UNCHANGED <<stateVars, recordVars>>
  BY DEF Delete
<1>2. heads[f] \in Row /\ heads[f].epoch <= keyEpoch /\ Truthful(f, heads[f])
  BY <1>1 DEF IInv, TypeOK, RowsTruthful
<1>3. /\ DOMAIN tombstones' = Dead \cup {f}
      /\ tombstones'[f] = heads[f]
      /\ \A g \in Dead \ {f} : tombstones'[g] = tombstones[g]
  BY <1>1 DEF Put, Dead
<1>4. DOMAIN heads' \subseteq Live /\ \A g \in DOMAIN heads' : heads'[g] = heads[g]
  BY <1>1, DropRow DEF Live
<1>5. log' \in {"clean", "old", "late"}
  BY <1>1 DEF NoteChange, IInv, TypeOK
<1>6. metaState = "encrypted" => heads[f].name = f /\ log' = "clean"
  BY <1>1 DEF NoteChange, IInv, AllSealed
<1>7. journal' \in [Entries -> {"none", "pending", "done"}]
  BY <1>1 DEF recordVars, IInv, TypeOK
<1>8. UNCHANGED <<stateVars, metaState, owner, leased>>
  BY <1>1 DEF recordVars
<1> QED BY <1>2, <1>3, <1>4, <1>5, <1>6, <1>7, <1>8, TombstoneKeepsIInv

\* Sealing a deletion record keeps its path and takes the HMAC of it.
LEMMA MigrateTombstoneKeepsIInv ==
    ASSUME IInv, NEW d, NEW f \in FileIds, MigrateTombstone(d, f)
    PROVE  IInv'
<1> DEFINE row == [tombstones[f] EXCEPT !.name = f, !.key = Hmac(tombstones[f].path)]
<1>1. /\ f \in Dead
      /\ metaState = "migrating"
      /\ tombstones' = [tombstones EXCEPT ![f] = row]
      /\ MarkDone(<<f, "tombstone">>)
      /\ UNCHANGED <<stateVars, metaState, owner, leased, heads, log>>
  BY DEF MigrateTombstone
<1>2. tombstones[f] \in Row /\ tombstones[f].epoch <= keyEpoch
  BY <1>1 DEF IInv, TypeOK
<1>3. /\ row \in Row /\ row.epoch = tombstones[f].epoch
      /\ row.name = f /\ row.path = tombstones[f].path /\ row.key = Hmac(tombstones[f].path)
  BY <1>2 DEF Row, Keys
<1>4. Truthful(f, row)
  BY <1>3 DEF Truthful
<1>5. journal' \in [Entries -> {"none", "pending", "done"}]
  BY <1>1 DEF MarkDone, IInv, TypeOK
<1>6. log' \in {"clean", "old", "late"}
  BY <1>1 DEF IInv, TypeOK
<1> HIDE DEF row
<1>7. /\ DOMAIN tombstones' = Dead \cup {f}
      /\ tombstones'[f] = row
      /\ \A g \in Dead \ {f} : tombstones'[g] = tombstones[g]
  BY <1>1 DEF Dead
<1> QED BY <1>1, <1>2, <1>3, <1>4, <1>5, <1>6, <1>7, TombstoneKeepsIInv DEF Live

\* Encrypting the content changes no row, and the vault whose names are sealed
\* or being sealed keeps its state and its floor.
LEMMA ContentStepKeepsIInv ==
    ASSUME IInv, ContentStep
    PROVE  IInv'
<1>1. UNCHANGED <<operator, recordVars, rowVars, log>>
  BY DEF ContentStep, BeginE2ee, CompleteE2ee, AbortE2ee, CompleteEnvelopeUpgrade,
         RotateKeyEpoch
<1>2. UNCHANGED <<operator, metaState, owner, leased, journal, heads, tombstones>>
  BY <1>1 DEF recordVars, rowVars
<1>3. /\ encryption \in {"plaintext", "migrating", "encrypted"}
      /\ floor \in {0, 1, 3}
      /\ keyEpoch \in 0..MaxKeyEpoch
      /\ MaxKeyEpoch \in Nat
  BY MigrationAssumption DEF IInv, TypeOK
<1>4. /\ encryption' \in {"plaintext", "migrating", "encrypted"}
      /\ floor' \in {0, 1, 3}
      /\ keyEpoch' \in 0..MaxKeyEpoch
      /\ keyEpoch' >= keyEpoch
      /\ encryption = "encrypted" => encryption' = "encrypted"
      /\ floor = 3 => floor' = 3
  BY <1>3 DEF ContentStep, BeginE2ee, CompleteE2ee, AbortE2ee, CompleteEnvelopeUpgrade,
              RotateKeyEpoch, RaiseFloor
<1>5. TypeOK'
  <2>1. \A f \in Live : heads[f] \in Row /\ heads[f].epoch <= keyEpoch'
    BY <1>3, <1>4 DEF IInv, TypeOK, Row
  <2>2. \A f \in Dead : tombstones[f] \in Row /\ tombstones[f].epoch <= keyEpoch'
    BY <1>3, <1>4 DEF IInv, TypeOK, Row
  <2> QED BY <1>1, <1>2, <1>4, <2>1, <2>2 DEF IInv, TypeOK, Live, Dead
<1>6. MetaNeedsE2ee'
  BY <1>2, <1>4 DEF IInv, MetaNeedsE2ee
<1>7. RowsTruthful' /\ KeysUnique' /\ AllSealed'
  BY <1>1, <1>2 DEF IInv, RowsTruthful, Truthful, KeysUnique, AllSealed, Live, Dead
<1> QED BY <1>5, <1>6, <1>7 DEF IInv

\* The steps of the migration and of the operator that touch no row: what they
\* may do to the state, the record and the log.
LEMMA RecordStepKeepsIInv ==
    ASSUME IInv, UNCHANGED <<encryption, floor, keyEpoch, rowVars>>,
           operator' \in {"idle", "release", "abort"},
           metaState' \in {"plain", "migrating", "verifying", "encrypted"},
           owner' \in Requesters, leased' \in BOOLEAN,
           journal' \in [Entries -> {"none", "pending", "done"}],
           log' \in {"clean", "old", "late"},
           metaState' # "plain" => metaState # "plain" \/ (encryption = "encrypted" /\ floor = 3),
           metaState' = "encrypted" =>
              /\ \A f \in Live : heads[f].name = f
              /\ \A f \in Dead : tombstones[f].name = f
              /\ log' = "clean"
    PROVE  IInv'
<1>1. UNCHANGED <<encryption, floor, keyEpoch, heads, tombstones>>
  BY DEF rowVars
<1>2. TypeOK'
  BY <1>1 DEF IInv, TypeOK, Live, Dead
<1>3. MetaNeedsE2ee'
  BY <1>1 DEF IInv, MetaNeedsE2ee
<1>4. RowsTruthful' /\ KeysUnique'
  BY <1>1 DEF IInv, RowsTruthful, Truthful, KeysUnique, Live, Dead
<1>5. AllSealed'
  BY <1>1 DEF AllSealed, Live, Dead
<1> QED BY <1>2, <1>3, <1>4, <1>5 DEF IInv

\* Filling the journal, whole or cut short, only makes entries pending.
LEMMA EnqueueType ==
    ASSUME IInv, Enqueue
    PROVE  journal' \in [Entries -> {"none", "pending", "done"}]
BY DEF IInv, TypeOK, Enqueue

\* The handlers of the migration: complete is the one that needs the validator, to
\* make AllSealed true.
LEMMA MigrationStepKeepsIInv ==
    ASSUME IInv, MigrationStep
    PROVE  IInv'
<1>1. /\ metaState \in {"plain", "migrating", "verifying", "encrypted"}
      /\ owner \in Requesters
      /\ leased \in BOOLEAN
      /\ journal \in [Entries -> {"none", "pending", "done"}]
      /\ log \in {"clean", "old", "late"}
      /\ floor \in {0, 1, 3}
      /\ operator \in {"idle", "release", "abort"}
  BY DEF IInv, TypeOK
<1>2. NoDevice \in Requesters
  BY DEF Requesters
<1>3. EmptyJournal \in [Entries -> {"none", "pending", "done"}]
  BY DEF EmptyJournal
<1>4. ASSUME NEW d \in Requesters, BeginMeta(d)
      PROVE  IInv'
  <2>1. journal' \in [Entries -> {"none", "pending", "done"}]
    BY <1>4, EnqueueType DEF BeginMeta
  <2> QED BY <1>1, <1>4, <2>1, RecordStepKeepsIInv DEF BeginMeta, stateVars
<1>5. ASSUME NEW d, ResumeMeta(d)
      PROVE  IInv'
  <2>1. journal' \in [Entries -> {"none", "pending", "done"}]
    BY <1>5, EnqueueType DEF ResumeMeta
  <2> QED BY <1>1, <1>5, <2>1, RecordStepKeepsIInv DEF ResumeMeta, Migrating, stateVars
<1>6. ASSUME NEW d \in Requesters, Takeover(d)
      PROVE  IInv'
  BY <1>1, <1>6, RecordStepKeepsIInv DEF Takeover, Migrating, stateVars
<1>7. ASSUME NEW d, RenewLease(d)
      PROVE  IInv'
  BY <1>1, <1>7, RecordStepKeepsIInv DEF RenewLease, Migrating, stateVars
<1>8. ASSUME NEW d, Verify(d)
      PROVE  IInv'
  BY <1>1, <1>8, RecordStepKeepsIInv DEF Verify, stateVars
<1>9. ASSUME NEW d, CompleteMeta(d)
      PROVE  IInv'
  BY <1>1, <1>2, <1>3, <1>9, RecordStepKeepsIInv DEF CompleteMeta, Valid, ClearRecord, stateVars
<1>10. ASSUME NEW d, NEW f \in FileIds, MigrateObject(d, f) \/ MigrateTombstone(d, f)
      PROVE  IInv'
  BY <1>10, MigrateObjectKeepsIInv, MigrateTombstoneKeepsIInv
<1>11. ASSUME LeaseRunsOut
       PROVE  IInv'
  <2>1. metaState = "encrypted" =>
           /\ \A f \in Live : heads[f].name = f
           /\ \A f \in Dead : tombstones[f].name = f
           /\ log = "clean"
    BY DEF IInv, AllSealed
  <2> QED BY <1>1, <1>2, <1>11, <2>1, RecordStepKeepsIInv DEF LeaseRunsOut, stateVars
<1>12. ASSUME AbortMeta
       PROVE  IInv'
  BY <1>1, <1>2, <1>3, <1>12, RecordStepKeepsIInv DEF AbortMeta, ClearRecord, stateVars
<1> QED BY <1>4, <1>5, <1>6, <1>7, <1>8, <1>9, <1>10, <1>11, <1>12 DEF MigrationStep

\* Trimming can only make the log cleaner.
LEMMA TrimLogKeepsIInv ==
    ASSUME IInv, TrimLog
    PROVE  IInv'
<1>1. UNCHANGED <<encryption, floor, keyEpoch, operator, rowVars, metaState, owner, leased, journal>>
      /\ log' = "clean"
  BY DEF TrimLog, recordVars, stateVars
<1>2. /\ metaState \in {"plain", "migrating", "verifying", "encrypted"}
      /\ owner \in Requesters
      /\ leased \in BOOLEAN
      /\ journal \in [Entries -> {"none", "pending", "done"}]
      /\ operator \in {"idle", "release", "abort"}
  BY DEF IInv, TypeOK
<1>3. metaState = "encrypted" =>
         /\ \A f \in Live : heads[f].name = f
         /\ \A f \in Dead : tombstones[f].name = f
  BY DEF IInv, AllSealed
<1> QED BY <1>1, <1>2, <1>3, RecordStepKeepsIInv

\* The operator's commands: what they write without looking again can take the
\* lease or end the migration, and neither touches a row.
LEMMA OperatorStepKeepsIInv ==
    ASSUME IInv, OperatorStep
    PROVE  IInv'
<1>1. /\ metaState \in {"plain", "migrating", "verifying", "encrypted"}
      /\ owner \in Requesters
      /\ leased \in BOOLEAN
      /\ journal \in [Entries -> {"none", "pending", "done"}]
      /\ log \in {"clean", "old", "late"}
  BY DEF IInv, TypeOK
<1>2. NoDevice \in Requesters
  BY DEF Requesters
<1>3. EmptyJournal \in [Entries -> {"none", "pending", "done"}]
  BY DEF EmptyJournal
<1>4. metaState = "encrypted" =>
         /\ \A f \in Live : heads[f].name = f
         /\ \A f \in Dead : tombstones[f].name = f
         /\ log = "clean"
  BY DEF IInv, AllSealed
<1>5. CASE ReadForRelease \/ ReadForAbort
  BY <1>1, <1>4, <1>5, RecordStepKeepsIInv DEF ReadForRelease, ReadForAbort, recordVars
<1>6. CASE ReleaseLease
  BY <1>1, <1>2, <1>4, <1>6, RecordStepKeepsIInv DEF ReleaseLease
<1>7. CASE AbortByOperator
  BY <1>1, <1>2, <1>3, <1>7, RecordStepKeepsIInv DEF AbortByOperator, ClearRecord
<1> QED BY <1>5, <1>6, <1>7 DEF OperatorStep

\* The writes of the clients, together.
LEMMA ClientStepKeepsIInv ==
    ASSUME IInv, ClientStep
    PROVE  IInv'
<1>1. PICK d \in Askers, f \in FileIds :
        \/ \E p \in Paths, sealed \in BOOLEAN, env \in Envelopes : Create(d, f, p, sealed, env)
        \/ \E env \in Envelopes : Update(d, f, env)
        \/ Delete(d, f)
        \/ \E p \in Paths : RenamePlain(d, f, p)
        \/ \E p \in Paths : RenameSealed(d, f, p)
        \/ \E p \in Paths, sealed \in BOOLEAN : Revive(d, f, p, sealed)
  BY DEF ClientStep
<1> QED BY <1>1, CreateKeepsIInv, UpdateKeepsIInv, DeleteKeepsIInv, RenamePlainKeepsIInv,
           RenameSealedKeepsIInv, ReviveKeepsIInv

\* Every step preserves the invariant.
LEMMA NextKeepsIInv == IInv /\ [Next]_vars => IInv'
<1> SUFFICES ASSUME IInv, [Next]_vars
             PROVE  IInv'
  OBVIOUS
<1>1. CASE UNCHANGED vars
  <2>1. UNCHANGED <<encryption, floor, keyEpoch, operator, metaState, owner, leased, journal,
                    heads, tombstones, log>>
    BY <1>1 DEF vars, stateVars, recordVars, rowVars
  <2> QED BY <2>1 DEF IInv, TypeOK, MetaNeedsE2ee, RowsTruthful, Truthful, KeysUnique, AllSealed,
                      Live, Dead
<1> QED BY <1>1, ClientStepKeepsIInv, TrimLogKeepsIInv, ContentStepKeepsIInv,
           MigrationStepKeepsIInv, OperatorStepKeepsIInv DEF Next

\* The empty plaintext vault satisfies the invariant.
LEMMA InitIInv == Init => IInv
<1> SUFFICES ASSUME Init
             PROVE  IInv
  OBVIOUS
<1>1. /\ Live = {} /\ Dead = {}
      /\ 0 \in 0..MaxKeyEpoch
      /\ NoDevice \in Requesters
      /\ EmptyJournal \in [Entries -> {"none", "pending", "done"}]
  BY MigrationAssumption DEF Init, Live, Dead, Requesters, EmptyJournal
<1> QED BY <1>1 DEF Init, IInv, TypeOK, MetaNeedsE2ee, RowsTruthful, KeysUnique, AllSealed

-----------------------------------------------------------------------------
\* The inductive invariant holds in every reachable state.
THEOREM Invariance == Spec => []IInv
BY InitIInv, NextKeepsIInv, PTL DEF Spec

\* The columns keep their types, and the key epoch is never behind a row.
THEOREM TypeCorrect == Spec => []TypeOK
BY Invariance, PTL DEF IInv

\* Names are sealed only in an encrypted vault above the LSE3 floor.
THEOREM SealedNeedsEncrypted == Spec => []MetaNeedsE2ee
BY Invariance, PTL DEF IInv

\* After complete, and whatever is written from then on, no table tells a path.
THEOREM NothingTold == Spec => []NoPathLeft
<1>1. IInv => NoPathLeft
  <2> SUFFICES ASSUME IInv, metaState = "encrypted"
               PROVE  /\ \A f \in Live : heads[f].name \in FileIds /\ heads[f].key[1] = "hmac"
                      /\ \A f \in Dead : tombstones[f].name \in FileIds /\ tombstones[f].key[1] = "hmac"
                      /\ log = "clean"
    BY DEF NoPathLeft
  <2>1. ASSUME NEW f \in FileIds, NEW row \in Row, Truthful(f, row), row.name = f
        PROVE  row.name \in FileIds /\ row.key[1] = "hmac"
    <3>1. row.path \in Paths
      BY <2>1 DEF Row
    <3>2. row.key = Hmac(row.path)
      BY <2>1, <3>1, MigrationAssumption DEF Truthful
    <3> QED BY <2>1, <3>2, KeysInjective
  <2>2. \A f \in Live : f \in FileIds /\ heads[f] \in Row /\ Truthful(f, heads[f]) /\ heads[f].name = f
    BY DEF IInv, TypeOK, RowsTruthful, AllSealed
  <2>3. \A f \in Dead :
           f \in FileIds /\ tombstones[f] \in Row /\ Truthful(f, tombstones[f]) /\ tombstones[f].name = f
    BY DEF IInv, TypeOK, RowsTruthful, AllSealed
  <2>4. log = "clean"
    BY DEF IInv, AllSealed
  <2> QED BY <2>1, <2>2, <2>3, <2>4
<1> QED BY <1>1, Invariance, PTL

\* In a sealed vault every row is under the HMAC of its real path.
LEMMA SealedKeys ==
    ASSUME IInv, metaState = "encrypted"
    PROVE  /\ \A f \in Live : heads[f].key = Hmac(heads[f].path)
           /\ \A f \in Dead : tombstones[f].key = Hmac(tombstones[f].path)
<1>1. ASSUME NEW f \in FileIds, NEW row \in Row, Truthful(f, row), row.name = f
      PROVE  row.key = Hmac(row.path)
  <2>1. row.path \in Paths
    BY <1>1 DEF Row
  <2> QED BY <1>1, <2>1, MigrationAssumption DEF Truthful
<1>2. \A f \in Live : f \in FileIds /\ heads[f] \in Row /\ Truthful(f, heads[f]) /\ heads[f].name = f
  BY DEF IInv, TypeOK, RowsTruthful, AllSealed
<1>3. \A f \in Dead :
         f \in FileIds /\ tombstones[f] \in Row /\ Truthful(f, tombstones[f]) /\ tombstones[f].name = f
  BY DEF IInv, TypeOK, RowsTruthful, AllSealed
<1> QED BY <1>1, <1>2, <1>3

\* In a sealed vault no two live files are on one real path.
THEOREM OnePathOneFile == Spec => []PathsUnique
<1>1. IInv => PathsUnique
  <2> SUFFICES ASSUME IInv, metaState = "encrypted", NEW f \in Live, NEW g \in Live,
                      heads[f].path = heads[g].path
               PROVE  f = g
    BY DEF PathsUnique
  <2>1. heads[f].key = heads[g].key
    BY SealedKeys
  <2> QED BY <2>1 DEF IInv, KeysUnique
<1> QED BY <1>1, Invariance, PTL

-----------------------------------------------------------------------------
\* A client step that makes a new file is a Create of that file, and no other
\* step makes one.
LEMMA OnlyCreateCreates ==
    ASSUME [Next]_vars, NEW f \in Created
    PROVE  \E d \in Askers, p \in Paths, sealed \in BOOLEAN, env \in Envelopes :
              Create(d, f, p, sealed, env)
<1> USE DEF Live, Dead, Created
<1>1. heads' # heads
  OBVIOUS
<1>2. ASSUME NEW g, NEW row, CommitHead(g, row)
      PROVE  DOMAIN heads' = Live \cup {g}
  BY <1>2, CommitHeadRow
<1>3. ASSUME NEW d, NEW g \in FileIds, Delete(d, g)
      PROVE  FALSE
  <2>1. heads' = Drop(heads, g)
    BY <1>3 DEF Delete
  <2>2. DOMAIN heads' = DOMAIN heads \ {g}
    BY <2>1, DropRow
  <2> QED BY <2>2
<1>4. ASSUME NEW d, NEW g \in FileIds, NEW env \in Envelopes, Update(d, g, env)
      PROVE  FALSE
  BY <1>2, <1>4 DEF Update
<1>5. ASSUME NEW d, NEW g \in FileIds, NEW p \in Paths,
             RenamePlain(d, g, p) \/ RenameSealed(d, g, p)
      PROVE  FALSE
  BY <1>2, <1>5 DEF RenamePlain, RenameSealed
<1>6. ASSUME NEW d, NEW g \in FileIds, NEW p \in Paths, NEW sealed \in BOOLEAN,
             Revive(d, g, p, sealed)
      PROVE  FALSE
  <2>1. PICK env \in {0, tombstones[g].env} :
           CommitHead(g, [name |-> Named(g, p, sealed), key |-> Keyed(p, sealed), path |-> p,
                          env |-> env, epoch |-> tombstones[g].epoch])
    BY <1>6 DEF Revive
  <2>2. DOMAIN heads' = Live \cup {g} /\ g \in Dead
    BY <1>2, <1>6, <2>1 DEF Revive
  <2> QED BY <2>2
<1>7. ASSUME NEW d, NEW g \in FileIds, MigrateObject(d, g) \/ MigrateTombstone(d, g)
      PROVE  FALSE
  <2>1. MigrateObject(d, g)
    BY <1>1, <1>7 DEF MigrateTombstone
  <2>2. /\ g \in Live
        /\ CommitHead(g, [heads[g] EXCEPT !.name = g, !.key = Hmac(heads[g].path)])
    BY <2>1 DEF MigrateObject
  <2>3. DOMAIN heads' = Live \cup {g}
    BY <1>2, <2>2
  <2> QED BY <2>2, <2>3
<1>8. ASSUME NEW d, NEW g \in FileIds, NEW p \in Paths, NEW sealed \in BOOLEAN,
             NEW env \in Envelopes, Create(d, g, p, sealed, env)
      PROVE  g = f
  <2>1. CommitHead(g, NewRow(Named(g, p, sealed), Keyed(p, sealed), p, env))
    BY <1>8 DEF Create
  <2>2. DOMAIN heads' = Live \cup {g}
    BY <1>2, <2>1
  <2> QED BY <2>2
<1>9. ~ (TrimLog \/ ContentStep \/ OperatorStep \/ UNCHANGED vars)
  BY <1>1 DEF OperatorStep, ReadForRelease, ReadForAbort, ReleaseLease, AbortByOperator, TrimLog, ContentStep, BeginE2ee, CompleteE2ee, AbortE2ee,
              CompleteEnvelopeUpgrade, RotateKeyEpoch, vars, rowVars
<1>10. ~ MigrationStep
  BY <1>1, <1>7 DEF MigrationStep, BeginMeta, ResumeMeta, RenewLease, Takeover, Verify,
                    CompleteMeta, LeaseRunsOut, AbortMeta, rowVars
<1>11. ClientStep
  BY <1>9, <1>10 DEF Next
<1>12. PICK d \in Askers, g \in FileIds :
        \/ \E p \in Paths, sealed \in BOOLEAN, env \in Envelopes : Create(d, g, p, sealed, env)
        \/ \E env \in Envelopes : Update(d, g, env)
        \/ Delete(d, g)
        \/ \E p \in Paths : RenamePlain(d, g, p)
        \/ \E p \in Paths : RenameSealed(d, g, p)
        \/ \E p \in Paths, sealed \in BOOLEAN : Revive(d, g, p, sealed)
  BY <1>11 DEF ClientStep
<1>13. \E p \in Paths, sealed \in BOOLEAN, env \in Envelopes : Create(d, g, p, sealed, env)
  BY <1>3, <1>4, <1>5, <1>6, <1>12
<1> QED BY <1>8, <1>13

\* In a sealed vault an upload that passes findTombstone is not on the real path
\* of any deletion record: both are known by the HMAC of that path.
THEOREM BarrierKept == Spec => BarrierSealed
<1>1. ASSUME IInv, [Next]_vars, metaState = "encrypted",
             NEW f \in Created, NEW g \in Dead
      PROVE  tombstones[g].path # heads'[f].path
  <2>1. PICK d \in Askers, p \in Paths, sealed \in BOOLEAN, env \in Envelopes :
           Create(d, f, p, sealed, env)
    BY <1>1, OnlyCreateCreates
  <2>2. /\ CommitHead(f, NewRow(Named(f, p, sealed), Keyed(p, sealed), p, env))
        /\ ~ TombstoneFound(Named(f, p, sealed), Keyed(p, sealed))
        /\ sealed
    BY <1>1, <2>1 DEF Create, MetaMode
  <2>3. heads'[f].path = p
    <3>1. heads'[f] = NewRow(Named(f, p, sealed), Keyed(p, sealed), p, env)
      BY <2>2, CommitHeadRow
    <3> QED BY <3>1 DEF NewRow
  <2>4. tombstones[g].key # Hmac(p)
    BY <1>1, <2>2 DEF TombstoneFound, Keyed
  <2> QED BY <1>1, <2>3, <2>4, SealedKeys
<1>2. IInv /\ [Next]_vars =>
         [metaState = "encrypted" =>
            \A f \in Created, g \in Dead : tombstones[g].path # heads'[f].path]_vars
  BY <1>1
<1> QED BY <1>2, Invariance, PTL DEF Spec, BarrierSealed

\* Writing a HEAD row under a sealed name, or under the name that it had, tells
\* no new path.
LEMMA QuietCommit ==
    ASSUME NEW f, NEW row, CommitHead(f, row),
           row.name \in FileIds \/ (f \in Live /\ row.name = heads[f].name),
           DOMAIN tombstones' \subseteq Dead,
           \A g \in DOMAIN tombstones' : tombstones'[g] = tombstones[g]
    PROVE  ClearPaths' \subseteq ClearPaths
<1>1. /\ DOMAIN heads' = Live \cup {f}
      /\ heads'[f] = row
      /\ \A g \in Live \ {f} : heads'[g] = heads[g]
  BY CommitHeadRow
<1> QED BY <1>1 DEF ClearPaths, Live, Dead

\* From verifying on no step brings a path into the tables.
THEOREM VerifiedQuiet == Spec => VerifiedStaysSealed
<1>1. ASSUME IInv, [Next]_vars, MetaMode
      PROVE  ClearPaths' \subseteq ClearPaths
  <2>1. ASSUME NEW d, NEW f \in FileIds, NEW p \in Paths, NEW sealed \in BOOLEAN,
               NEW env \in Envelopes, Create(d, f, p, sealed, env)
        PROVE  ClearPaths' \subseteq ClearPaths
    <3> DEFINE row == NewRow(Named(f, p, sealed), Keyed(p, sealed), p, env)
    <3>1. CommitHead(f, row) /\ sealed /\ tombstones' = tombstones
      BY <1>1, <2>1 DEF Create
    <3>2. row.name \in FileIds
      BY <3>1 DEF NewRow, Named
    <3> HIDE DEF row
    <3> QED BY <3>1, <3>2, QuietCommit DEF Dead
  <2>2. ASSUME NEW d, NEW f \in FileIds, NEW env \in Envelopes, Update(d, f, env)
        PROVE  ClearPaths' \subseteq ClearPaths
    <3> DEFINE row == NewRow(heads[f].name, heads[f].key, heads[f].path, env)
    <3>1. CommitHead(f, row) /\ f \in Live /\ tombstones' = tombstones
      BY <2>2 DEF Update
    <3>2. row.name = heads[f].name
      BY DEF NewRow
    <3> HIDE DEF row
    <3> QED BY <3>1, <3>2, QuietCommit DEF Dead
  <2>3. ASSUME NEW d, NEW f \in FileIds, Delete(d, f)
        PROVE  ClearPaths' \subseteq ClearPaths
    <3>1. /\ f \in Live
          /\ tombstones' = Put(tombstones, f, heads[f])
          /\ heads' = Drop(heads, f)
      BY <2>3 DEF Delete
    <3>2. DOMAIN heads' \subseteq Live /\ \A g \in DOMAIN heads' : heads'[g] = heads[g]
      BY <3>1, DropRow DEF Live
    <3>3. /\ DOMAIN tombstones' = Dead \cup {f}
          /\ tombstones'[f] = heads[f]
          /\ \A g \in Dead \ {f} : tombstones'[g] = tombstones[g]
      BY <3>1 DEF Put, Dead
    <3> QED BY <3>1, <3>2, <3>3 DEF ClearPaths, Live, Dead
  <2>4. ASSUME NEW d, NEW f \in FileIds, NEW p \in Paths, RenameSealed(d, f, p)
        PROVE  ClearPaths' \subseteq ClearPaths
    <3> DEFINE row == [heads[f] EXCEPT !.key = Hmac(p), !.path = p]
    <3>1. CommitHead(f, row) /\ f \in Live /\ tombstones' = tombstones
      BY <2>4 DEF RenameSealed
    <3>2. heads[f] \in Row
      BY <1>1, <3>1 DEF IInv, TypeOK
    <3>3. row.name = heads[f].name
      BY <3>2 DEF Row
    <3> HIDE DEF row
    <3> QED BY <3>1, <3>3, QuietCommit DEF Dead
  <2>5. ASSUME NEW d, NEW f \in FileIds, NEW p \in Paths, NEW sealed \in BOOLEAN,
               Revive(d, f, p, sealed)
        PROVE  ClearPaths' \subseteq ClearPaths
    <3>1. PICK env \in {0, tombstones[f].env} :
             CommitHead(f, [name |-> Named(f, p, sealed), key |-> Keyed(p, sealed), path |-> p,
                            env |-> env, epoch |-> tombstones[f].epoch])
      BY <2>5 DEF Revive
    <3> DEFINE row == [name |-> Named(f, p, sealed), key |-> Keyed(p, sealed), path |-> p,
                       env |-> env, epoch |-> tombstones[f].epoch]
    <3>2. CommitHead(f, row) /\ row.name = Named(f, p, sealed)
      BY <3>1
    <3>3. row.name \in FileIds
      BY <1>1, <2>5, <3>2 DEF Revive, Named
    <3>4. /\ DOMAIN tombstones' \subseteq Dead
          /\ \A g \in DOMAIN tombstones' : tombstones'[g] = tombstones[g]
      BY <2>5, DropRow DEF Revive, Dead
    <3> HIDE DEF row
    <3> QED BY <3>2, <3>3, <3>4, QuietCommit
  <2>6. ASSUME UNCHANGED rowVars
        PROVE  ClearPaths' \subseteq ClearPaths
    BY <2>6 DEF rowVars, ClearPaths, Live, Dead
  <2>7. CASE ClientStep
    <3>1. PICK d \in Askers, f \in FileIds :
            \/ \E p \in Paths, sealed \in BOOLEAN, env \in Envelopes : Create(d, f, p, sealed, env)
            \/ \E env \in Envelopes : Update(d, f, env)
            \/ Delete(d, f)
            \/ \E p \in Paths : RenamePlain(d, f, p)
            \/ \E p \in Paths : RenameSealed(d, f, p)
            \/ \E p \in Paths, sealed \in BOOLEAN : Revive(d, f, p, sealed)
      BY <2>7 DEF ClientStep
    <3>2. ~ \E p \in Paths : RenamePlain(d, f, p)
      BY <1>1 DEF RenamePlain
    <3> QED BY <2>1, <2>2, <2>3, <2>4, <2>5, <3>1, <3>2
  <2>8. CASE MigrationStep
    <3>1. UNCHANGED rowVars
      BY <1>1, <2>8 DEF MigrationStep, BeginMeta, ResumeMeta, RenewLease, Takeover, Verify,
                        CompleteMeta, MigrateObject, MigrateTombstone, LeaseRunsOut,
                        AbortMeta, MetaMode
    <3> QED BY <2>6, <3>1
  <2>9. CASE TrimLog \/ ContentStep \/ OperatorStep \/ UNCHANGED vars
    <3>1. UNCHANGED rowVars
      BY <2>9 DEF OperatorStep, ReadForRelease, ReadForAbort, ReleaseLease, AbortByOperator, TrimLog, ContentStep, BeginE2ee, CompleteE2ee, AbortE2ee,
                  CompleteEnvelopeUpgrade, RotateKeyEpoch, vars
    <3> QED BY <2>6, <3>1
  <2> QED BY <1>1, <2>7, <2>8, <2>9 DEF Next
<1>2. IInv /\ [Next]_vars =>
         [(metaState = "verifying" \/ metaState = "encrypted") =>
            ClearPaths' \subseteq ClearPaths]_vars
  BY <1>1 DEF MetaMode
<1> QED BY <1>2, Invariance, PTL DEF Spec, VerifiedStaysSealed

\* A running lease is respected by every handler; only a release decided before
\* the lease was renewed takes it away.
THEOREM LeaseRespected == Spec => OwnerKeepsLease
<1>1. ASSUME [Next]_vars, leased, owner \in Devices, Migrating
      PROVE  \/ owner' = owner
             \/ metaState' \in {"plain", "encrypted"}
             \/ operator = "release" /\ owner' = NoDevice
  <2>1. CASE ClientStep \/ TrimLog \/ ContentStep \/ UNCHANGED vars
    <3>1. ASSUME ClientStep
          PROVE  UNCHANGED recordVars
      <4>1. PICK d \in Askers, f \in FileIds :
              \/ \E p \in Paths, sealed \in BOOLEAN, env \in Envelopes : Create(d, f, p, sealed, env)
              \/ \E env \in Envelopes : Update(d, f, env)
              \/ Delete(d, f)
              \/ \E p \in Paths : RenamePlain(d, f, p)
              \/ \E p \in Paths : RenameSealed(d, f, p)
              \/ \E p \in Paths, sealed \in BOOLEAN : Revive(d, f, p, sealed)
        BY <3>1 DEF ClientStep
      <4> QED BY <4>1, Zenon DEF Create, Update, Delete, RenamePlain, RenameSealed, Revive
    <3>2. ASSUME TrimLog \/ ContentStep \/ UNCHANGED vars
          PROVE  UNCHANGED recordVars
      BY <3>2 DEF TrimLog, ContentStep, BeginE2ee, CompleteE2ee, AbortE2ee,
                  CompleteEnvelopeUpgrade, RotateKeyEpoch, vars
    <3> QED BY <2>1, <3>1, <3>2 DEF recordVars
  <2>2. CASE MigrationStep
    BY <1>1, <2>2 DEF MigrationStep, BeginMeta, ResumeMeta, RenewLease, Takeover, Verify,
                      CompleteMeta, MigrateObject, MigrateTombstone, LeaseRunsOut,
                      AbortMeta, Migrating
  <2>3. CASE OperatorStep
    BY <1>1, <2>3 DEF OperatorStep, ReadForRelease, ReadForAbort, ReleaseLease, AbortByOperator,
                      recordVars
  <2> QED BY <1>1, <2>1, <2>2, <2>3 DEF Next
<1>2. [Next]_vars =>
         [leased /\ owner \in Devices /\ Migrating =>
            \/ owner' = owner
            \/ metaState' \in {"plain", "encrypted"}
            \/ operator = "release" /\ owner' = NoDevice]_vars
  BY <1>1
<1> QED BY <1>2, PTL DEF Spec, OwnerKeepsLease

-----------------------------------------------------------------------------
(***************************************************************************)
(* MetaMigration implements Naming.                                        *)
(***************************************************************************)

\* A truthful row is under the key that its path has for its kind of name.
LEMMA KeyOfRow ==
    ASSUME NEW f \in FileIds, NEW row \in Row, Truthful(f, row)
    PROVE  row.key = Keyed(row.path, row.name = f)
<1>1. row.path \in Paths
  BY DEF Row
<1> QED BY <1>1, MigrationAssumption DEF Truthful, Keyed

\* Rows that the users cannot tell apart have one key, so what collides for them
\* collides for the server.
LEMMA LookAlike ==
    ASSUME NEW f \in FileIds, NEW g \in FileIds, NEW row \in Row, NEW other \in Row,
           Truthful(f, row), Truthful(g, other), Shown(f, row) = Shown(g, other)
    PROVE  row.key = other.key
<1>1. row.path = other.path /\ (row.name = f) = (other.name = g)
  BY DEF Shown
<1>2. row.key = Keyed(row.path, row.name = f) /\ other.key = Keyed(other.path, other.name = g)
  BY KeyOfRow
<1> QED BY <1>1, <1>2

\* A key that no other head has is a name that no other file has.
LEMMA FreeName ==
    ASSUME IInv, NEW f \in FileIds, NEW row \in Row, Truthful(f, row), ~ Collision(row.key, f)
    PROVE  ~ Names!Occupied(ShownFiles, f, Shown(f, row))
<1> SUFFICES ASSUME NEW g \in Live \ {f}, Shown(g, heads[g]) = Shown(f, row)
             PROVE  FALSE
  BY DEF Names!Occupied, ShownFiles
<1>1. g \in FileIds /\ heads[g] \in Row /\ Truthful(g, heads[g])
  BY DEF IInv, TypeOK, RowsTruthful
<1>2. heads[g].key = row.key
  BY <1>1, LookAlike
<1> QED BY <1>2 DEF Collision

\* A key that no deletion record has is a name that none has.
LEMMA FreeOfGraves ==
    ASSUME IInv, NEW f \in FileIds, NEW row \in Row, Truthful(f, row),
           ~ TombstoneFound(row.name, row.key)
    PROVE  ~ Names!Occupied(ShownGraves, f, Shown(f, row))
<1> SUFFICES ASSUME NEW g \in Dead \ {f}, Shown(g, tombstones[g]) = Shown(f, row)
             PROVE  FALSE
  BY DEF Names!Occupied, ShownGraves
<1>1. g \in FileIds /\ tombstones[g] \in Row /\ Truthful(g, tombstones[g])
  BY DEF IInv, TypeOK, RowsTruthful
<1>2. tombstones[g].key = row.key
  BY <1>1, LookAlike
<1> QED BY <1>2 DEF TombstoneFound

\* What the users see of a written row, and of rows that nobody wrote.
LEMMA ShownCommit ==
    ASSUME NEW f, NEW row, CommitHead(f, row)
    PROVE  /\ ShownFiles' = Names!Put(ShownFiles, f, Shown(f, row))
           /\ f \in DOMAIN ShownFiles'
           /\ ShownFiles'[f] = Shown(f, row)
<1>1. /\ DOMAIN heads' = Live \cup {f}
      /\ heads'[f] = row
      /\ \A g \in Live \ {f} : heads'[g] = heads[g]
  BY CommitHeadRow
<1>2. ShownFiles' = [g \in DOMAIN heads' |-> Shown(g, heads'[g])]
  BY DEF ShownFiles, Live, Shown
<1> QED BY <1>1, <1>2 DEF Names!Put, ShownFiles

LEMMA ShownUntouched ==
    /\ heads' = heads => ShownFiles' = ShownFiles
    /\ tombstones' = tombstones => ShownGraves' = ShownGraves
BY DEF ShownFiles, ShownGraves, Live, Dead, Shown

LEMMA ShownDropped ==
    ASSUME NEW f, tombstones' = Drop(tombstones, f)
    PROVE  ShownGraves' = Names!Drop(ShownGraves, f)
<1>1. /\ DOMAIN tombstones' = Dead \ {f}
      /\ \A g \in Dead \ {f} : tombstones'[g] = tombstones[g]
  BY DropRow DEF Dead
<1>2. ShownGraves' = [g \in DOMAIN tombstones' |-> Shown(g, tombstones'[g])]
  BY DEF ShownGraves, Dead, Shown
<1> QED BY <1>1, <1>2 DEF Names!Drop, ShownGraves

\* An upload to a free name is a creation: the server's two keys see whatever the
\* users would call the same name, in heads and in deletion records.
LEMMA CreateIsCreate ==
    ASSUME IInv, NEW d, NEW f \in FileIds, NEW p \in Paths, NEW sealed \in BOOLEAN,
           NEW env \in Envelopes, Create(d, f, p, sealed, env)
    PROVE  Names!Next
<1> DEFINE row == NewRow(Named(f, p, sealed), Keyed(p, sealed), p, env)
<1>1. /\ row \in Row /\ Truthful(f, row)
      /\ row.name = Named(f, p, sealed) /\ row.key = Keyed(p, sealed)
  BY RequestRow DEF NewRow
<1>2. /\ CommitHead(f, row)
      /\ ~ Collision(row.key, f)
      /\ ~ TombstoneFound(row.name, row.key)
      /\ f \notin Live \cup Dead
      /\ UNCHANGED <<metaState, tombstones>>
  BY <1>1 DEF Create, recordVars
<1>3. MetaMode => row.name = f
  BY <1>1 DEF Create, Named
<1> HIDE DEF row
<1>4. /\ ShownFiles' = Names!Put(ShownFiles, f, Shown(f, row))
      /\ f \in DOMAIN ShownFiles'
      /\ ShownFiles'[f] = Shown(f, row)
      /\ ShownGraves' = ShownGraves
  BY <1>2, ShownCommit, ShownUntouched
<1>5. /\ ~ Names!Occupied(ShownFiles, f, Shown(f, row))
      /\ ~ Names!Occupied(ShownGraves, f, Shown(f, row))
  BY <1>1, <1>2, FreeName, FreeOfGraves
<1>6. Names!Allowed(Shown(f, row))
  BY <1>3 DEF Names!Allowed, Shown, MetaMode, IInv, TypeOK
<1>7. f \notin DOMAIN ShownFiles \cup DOMAIN ShownGraves
  BY <1>2 DEF ShownFiles, ShownGraves
<1>8. Names!Create(f, ShownFiles'[f])
  BY <1>2, <1>4, <1>5, <1>6, <1>7 DEF Names!Create
<1> QED BY <1>4, <1>8 DEF Names!Next

\* Any write over a live file is a move, be it to where the file was: it seals
\* nothing that was plain, and its key was free.
LEMMA WriteIsMove ==
    ASSUME IInv, NEW f \in Live, NEW row \in Row, CommitHead(f, row),
           Truthful(f, row), ~ Collision(row.key, f),
           row.name = f => heads[f].name = f,
           MetaMode => row.name = f,
           UNCHANGED <<metaState, tombstones>>
    PROVE  Names!Next
<1>1. f \in FileIds
  BY DEF IInv, TypeOK
<1>2. /\ ShownFiles' = Names!Put(ShownFiles, f, Shown(f, row))
      /\ f \in DOMAIN ShownFiles'
      /\ ShownFiles'[f] = Shown(f, row)
      /\ ShownGraves' = ShownGraves
  BY ShownCommit, ShownUntouched
<1>3. ~ Names!Occupied(ShownFiles, f, Shown(f, row))
  BY <1>1, FreeName
<1>4. Names!Allowed(Shown(f, row))
  BY DEF Names!Allowed, Shown, MetaMode, IInv, TypeOK
<1>5. f \in DOMAIN ShownFiles /\ (Shown(f, row).sealed => ShownFiles[f].sealed)
  BY DEF ShownFiles, Shown
<1>6. ShownFiles' = [ShownFiles EXCEPT ![f] = Shown(f, row)]
  BY <1>2, <1>5 DEF Names!Put, ShownFiles
<1>7. Names!Move(f, ShownFiles'[f])
  BY <1>2, <1>3, <1>4, <1>5, <1>6 DEF Names!Move
<1> QED BY <1>2, <1>7 DEF Names!Next

LEMMA UpdateIsMove ==
    ASSUME IInv, NEW d, NEW f \in FileIds, NEW env \in Envelopes, Update(d, f, env)
    PROVE  Names!Next
<1> DEFINE row == NewRow(heads[f].name, heads[f].key, heads[f].path, env)
<1>1. /\ f \in Live
      /\ CommitHead(f, row)
      /\ UNCHANGED <<metaState, tombstones>>
      /\ MetaMode => heads[f].name \in FileIds
  BY DEF Update, recordVars
<1>2. /\ heads[f] \in Row /\ Truthful(f, heads[f])
      /\ keyEpoch \in 0..MaxKeyEpoch /\ MaxKeyEpoch \in Nat
  BY <1>1, MigrationAssumption DEF IInv, TypeOK, RowsTruthful
<1>3. /\ row \in Row
      /\ row.name = heads[f].name /\ row.key = heads[f].key /\ row.path = heads[f].path
  BY <1>2 DEF NewRow, Row
<1>4. Truthful(f, row)
  BY <1>2, <1>3 DEF Truthful
<1>5. ~ Collision(row.key, f)
  BY <1>1, <1>3 DEF IInv, KeysUnique, Collision
<1>6. MetaMode => row.name = f
  <2>1. heads[f].path \in Paths
    BY <1>2 DEF Row
  <2> QED BY <1>1, <1>2, <1>3, <2>1, MigrationAssumption DEF Truthful
<1> HIDE DEF row
<1> QED BY <1>1, <1>3, <1>4, <1>5, <1>6, WriteIsMove

\* A rename to a path is refused by the vault that seals, and seals nothing.
LEMMA RenamePlainIsMove ==
    ASSUME IInv, NEW d, NEW f \in FileIds, NEW p \in Paths, RenamePlain(d, f, p)
    PROVE  Names!Next
<1> DEFINE row == [heads[f] EXCEPT !.name = p, !.key = PlainKey(p), !.path = p]
<1>1. /\ f \in Live
      /\ CommitHead(f, row)
      /\ ~ Collision(PlainKey(p), f)
      /\ ~ MetaMode
      /\ UNCHANGED <<metaState, tombstones>>
  BY DEF RenamePlain, recordVars
<1>2. heads[f] \in Row
  BY <1>1 DEF IInv, TypeOK
<1>3. row \in Row /\ row.name = p /\ row.path = p /\ row.key = PlainKey(p)
  BY <1>2 DEF Row, Keys
<1>4. Truthful(f, row) /\ row.name # f
  BY <1>3, MigrationAssumption DEF Truthful
<1> HIDE DEF row
<1> QED BY <1>1, <1>3, <1>4, WriteIsMove

LEMMA RenameSealedIsMove ==
    ASSUME IInv, NEW d, NEW f \in FileIds, NEW p \in Paths, RenameSealed(d, f, p)
    PROVE  Names!Next
<1> DEFINE row == [heads[f] EXCEPT !.key = Hmac(p), !.path = p]
<1>1. /\ f \in Live
      /\ heads[f].name = f
      /\ CommitHead(f, row)
      /\ ~ Collision(Hmac(p), f)
      /\ UNCHANGED <<metaState, tombstones>>
  BY DEF RenameSealed, recordVars
<1>2. heads[f] \in Row
  BY <1>1 DEF IInv, TypeOK
<1>3. row \in Row /\ row.name = f /\ row.path = p /\ row.key = Hmac(p)
  BY <1>1, <1>2 DEF Row, Keys
<1>4. Truthful(f, row)
  BY <1>3 DEF Truthful
<1> HIDE DEF row
<1> QED BY <1>1, <1>3, <1>4, WriteIsMove

\* A deletion moves the row, and with it what is known of its path.
LEMMA DeleteIsDelete ==
    ASSUME IInv, NEW d, NEW f \in FileIds, Delete(d, f)
    PROVE  Names!Next
<1>1. /\ f \in Live
      /\ tombstones' = Put(tombstones, f, heads[f])
      /\ heads' = Drop(heads, f)
      /\ UNCHANGED metaState
  BY DEF Delete, recordVars
<1>2. /\ DOMAIN heads' = Live \ {f}
      /\ \A g \in Live \ {f} : heads'[g] = heads[g]
  BY <1>1, DropRow DEF Live
<1>3. ShownFiles' = [g \in DOMAIN heads' |-> Shown(g, heads'[g])]
  BY DEF ShownFiles, Live, Shown
<1>4. ShownFiles' = Names!Drop(ShownFiles, f)
  BY <1>2, <1>3 DEF Names!Drop, ShownFiles
<1>5. /\ DOMAIN tombstones' = Dead \cup {f}
      /\ tombstones'[f] = heads[f]
      /\ \A g \in Dead \ {f} : tombstones'[g] = tombstones[g]
  BY <1>1 DEF Put, Dead
<1>6. ShownGraves' = [g \in DOMAIN tombstones' |-> Shown(g, tombstones'[g])]
  BY DEF ShownGraves, Dead, Shown
<1>7. f \in DOMAIN ShownFiles /\ ShownFiles[f] = Shown(f, heads[f])
  BY <1>1 DEF ShownFiles
<1>8. ShownGraves' = Names!Put(ShownGraves, f, ShownFiles[f])
  BY <1>5, <1>6, <1>7 DEF Names!Put, ShownGraves
<1>9. Names!Delete(f)
  BY <1>1, <1>4, <1>7, <1>8 DEF Names!Delete
<1> QED BY <1>7, <1>9 DEF Names!Next

LEMMA ReviveIsRevive ==
    ASSUME IInv, NEW d, NEW f \in FileIds, NEW p \in Paths, NEW sealed \in BOOLEAN,
           Revive(d, f, p, sealed)
    PROVE  Names!Next
<1>1. PICK env \in {0, tombstones[f].env} :
         CommitHead(f, [name |-> Named(f, p, sealed), key |-> Keyed(p, sealed), path |-> p,
                        env |-> env, epoch |-> tombstones[f].epoch])
  BY DEF Revive
<1> DEFINE row == [name |-> Named(f, p, sealed), key |-> Keyed(p, sealed), path |-> p,
                   env |-> env, epoch |-> tombstones[f].epoch]
<1>2. /\ f \in Dead
      /\ ~ Collision(Keyed(p, sealed), f)
      /\ tombstones' = Drop(tombstones, f)
      /\ UNCHANGED metaState
  BY DEF Revive, recordVars
<1>3. tombstones[f] \in Row
  BY <1>2 DEF IInv, TypeOK
<1>4. env \in Envelopes
  BY <1>3, MigrationAssumption DEF Row
<1>5. Keyed(p, sealed) \in Keys /\ Named(f, p, sealed) \in Paths \cup FileIds
  BY DEF Keyed, Named, Keys
<1>6. row \in Row /\ row.key = Keyed(p, sealed) /\ row.name = Named(f, p, sealed)
  BY <1>3, <1>4, <1>5 DEF Row
<1>7. Truthful(f, row)
  BY DEF Truthful, Named, Keyed
<1>8. MetaMode => row.name = f
  BY <1>6 DEF Revive, Named
<1>9. CommitHead(f, row)
  BY <1>1
<1> HIDE DEF row
<1>10. /\ ShownFiles' = Names!Put(ShownFiles, f, Shown(f, row))
       /\ f \in DOMAIN ShownFiles'
       /\ ShownFiles'[f] = Shown(f, row)
  BY <1>9, ShownCommit
<1>11. ShownGraves' = Names!Drop(ShownGraves, f)
  BY <1>2, ShownDropped
<1>12. ~ Names!Occupied(ShownFiles, f, Shown(f, row))
  BY <1>2, <1>6, <1>7, FreeName
<1>13. Names!Allowed(Shown(f, row))
  BY <1>8 DEF Names!Allowed, Shown, MetaMode, IInv, TypeOK
<1>14. f \in DOMAIN ShownGraves
  BY <1>2 DEF ShownGraves
<1>15. Names!Revive(f, ShownFiles'[f])
  BY <1>2, <1>10, <1>11, <1>12, <1>13, <1>14 DEF Names!Revive
<1> QED BY <1>10, <1>15 DEF Names!Next

\* The migration seals a head at the path it has.
LEMMA MigrateObjectIsSeal ==
    ASSUME IInv, NEW d, NEW f \in FileIds, MigrateObject(d, f)
    PROVE  Names!Next
<1> DEFINE row == [heads[f] EXCEPT !.name = f, !.key = Hmac(heads[f].path)]
<1>1. /\ metaState = "migrating"
      /\ f \in Live
      /\ CommitHead(f, row)
      /\ ~ Collision(row.key, f)
      /\ UNCHANGED <<metaState, tombstones>>
  BY DEF MigrateObject
<1>2. heads[f] \in Row
  BY <1>1 DEF IInv, TypeOK
<1>3. /\ row \in Row /\ row.name = f /\ row.path = heads[f].path
      /\ row.key = Hmac(heads[f].path)
  BY <1>2 DEF Row, Keys
<1>4. Truthful(f, row)
  BY <1>3 DEF Truthful
<1> HIDE DEF row
<1>5. /\ ShownFiles' = Names!Put(ShownFiles, f, Shown(f, row))
      /\ ShownGraves' = ShownGraves
  BY <1>1, ShownCommit, ShownUntouched
<1>6. f \in DOMAIN ShownFiles /\ Names!Sealed(ShownFiles[f]) = Shown(f, row)
  BY <1>1, <1>3 DEF Names!Sealed, ShownFiles, Shown
<1>7. ~ Names!Occupied(ShownFiles, f, Names!Sealed(ShownFiles[f]))
  BY <1>1, <1>3, <1>4, <1>6, FreeName
<1>8. ShownFiles' = [ShownFiles EXCEPT ![f] = Names!Sealed(@)]
  BY <1>5, <1>6 DEF Names!Put, ShownFiles
<1>9. Names!SealFile(f)
  BY <1>1, <1>5, <1>6, <1>7, <1>8 DEF Names!SealFile
<1> QED BY <1>6, <1>9 DEF Names!Next

\* It seals a deletion record at the path it had.
LEMMA MigrateTombstoneIsSeal ==
    ASSUME IInv, NEW d, NEW f \in FileIds, MigrateTombstone(d, f)
    PROVE  Names!Next
<1> DEFINE row == [tombstones[f] EXCEPT !.name = f, !.key = Hmac(tombstones[f].path)]
<1>1. /\ metaState = "migrating"
      /\ f \in Dead
      /\ tombstones' = [tombstones EXCEPT ![f] = row]
      /\ UNCHANGED <<metaState, heads>>
  BY DEF MigrateTombstone
<1>2. tombstones[f] \in Row
  BY <1>1 DEF IInv, TypeOK
<1>3. row.name = f /\ row.path = tombstones[f].path
  BY <1>2 DEF Row
<1> HIDE DEF row
<1>4. ShownFiles' = ShownFiles
  BY <1>1, ShownUntouched
<1>5. f \in DOMAIN ShownGraves /\ Names!Sealed(ShownGraves[f]) = Shown(f, row)
  BY <1>1, <1>3 DEF Names!Sealed, ShownGraves, Shown
<1>6. ShownGraves' = [g \in DOMAIN tombstones' |-> Shown(g, tombstones'[g])]
  BY DEF ShownGraves, Dead, Shown
<1>7. ShownGraves' = [ShownGraves EXCEPT ![f] = Names!Sealed(@)]
  BY <1>1, <1>5, <1>6 DEF ShownGraves, Dead
<1>8. Names!SealGrave(f)
  BY <1>1, <1>4, <1>5, <1>7 DEF Names!SealGrave
<1> QED BY <1>5, <1>8 DEF Names!Next

\* What the handlers of the migration do besides is to move the phase, or nothing
\* that the users see.
LEMMA PhaseStep ==
    ASSUME IInv, UNCHANGED rowVars,
           \/ \E d \in Requesters : BeginMeta(d) \/ Takeover(d)
           \/ \E d \in Askers : ResumeMeta(d) \/ RenewLease(d) \/ Verify(d) \/ CompleteMeta(d)
           \/ LeaseRunsOut
           \/ AbortMeta
    PROVE  Names!Next \/ UNCHANGED <<ShownFiles, ShownGraves, metaState>>
<1>1. UNCHANGED <<ShownFiles, ShownGraves>>
  BY ShownUntouched DEF rowVars
<1>2. CASE UNCHANGED metaState
  BY <1>1, <1>2
<1>3. CASE metaState # "encrypted" /\ metaState' = "migrating"
  BY <1>1, <1>3 DEF Names!Begin, Names!Next
<1>4. CASE metaState' = "plain"
  BY <1>1, <1>4 DEF Names!Abandon, Names!Next
<1>5. ASSUME NEW d, Verify(d)
      PROVE  Names!Next
  BY <1>1, <1>5 DEF Verify, Names!Verify, Names!Next
<1>6. ASSUME NEW d, CompleteMeta(d)
      PROVE  Names!Next
  <2>1. /\ metaState = "verifying" /\ metaState' = "encrypted"
        /\ \A f \in Live : heads[f].name = f
        /\ \A f \in Dead : tombstones[f].name = f
    BY <1>6 DEF CompleteMeta, Valid
  <2>2. /\ \A f \in DOMAIN ShownFiles : ShownFiles[f].sealed
        /\ \A f \in DOMAIN ShownGraves : ShownGraves[f].sealed
    BY <2>1 DEF ShownFiles, ShownGraves, Shown
  <2>3. Names!Complete
    BY <1>1, <2>1, <2>2 DEF Names!Complete
  <2> QED BY <2>3 DEF Names!Next
<1>7. ASSUME NEW d, BeginMeta(d) \/ ResumeMeta(d)
      PROVE  metaState # "encrypted" /\ metaState' = "migrating"
  BY <1>7 DEF BeginMeta, ResumeMeta, Migrating
<1>8. ASSUME NEW d, Takeover(d) \/ RenewLease(d) \/ LeaseRunsOut
      PROVE  UNCHANGED metaState
  BY <1>8 DEF Takeover, RenewLease, LeaseRunsOut
<1>9. AbortMeta => metaState' = "plain"
  BY DEF AbortMeta
<1> QED BY <1>2, <1>3, <1>4, <1>5, <1>6, <1>7, <1>8, <1>9

\* Every step is a step of Naming or shows the users nothing.
LEMMA StepIsNamingStep ==
    ASSUME IInv, [Next]_vars
    PROVE  [Names!Next]_<<ShownFiles, ShownGraves, metaState>>
<1>1. CASE ClientStep
  <2>1. PICK d \in Askers, f \in FileIds :
          \/ \E p \in Paths, sealed \in BOOLEAN, env \in Envelopes : Create(d, f, p, sealed, env)
          \/ \E env \in Envelopes : Update(d, f, env)
          \/ Delete(d, f)
          \/ \E p \in Paths : RenamePlain(d, f, p)
          \/ \E p \in Paths : RenameSealed(d, f, p)
          \/ \E p \in Paths, sealed \in BOOLEAN : Revive(d, f, p, sealed)
    BY <1>1 DEF ClientStep
  <2> QED BY <2>1, CreateIsCreate, UpdateIsMove, DeleteIsDelete, RenamePlainIsMove,
             RenameSealedIsMove, ReviveIsRevive
<1>2. CASE MigrationStep
  <2>1. CASE \E d \in Askers, f \in FileIds : MigrateObject(d, f) \/ MigrateTombstone(d, f)
    BY <2>1, MigrateObjectIsSeal, MigrateTombstoneIsSeal
  <2>2. CASE \/ \E d \in Requesters : BeginMeta(d) \/ Takeover(d)
             \/ \E d \in Askers : ResumeMeta(d) \/ RenewLease(d) \/ Verify(d) \/ CompleteMeta(d)
             \/ LeaseRunsOut
             \/ AbortMeta
    <3>1. UNCHANGED rowVars
      BY <2>2 DEF BeginMeta, Takeover, ResumeMeta, RenewLease, Verify, CompleteMeta,
                  LeaseRunsOut, AbortMeta
    <3> QED BY <2>2, <3>1, PhaseStep
  <2> QED BY <1>2, <2>1, <2>2 DEF MigrationStep
<1>3. CASE OperatorStep
  <2>1. UNCHANGED <<ShownFiles, ShownGraves>>
    BY <1>3, ShownUntouched DEF OperatorStep, ReadForRelease, ReadForAbort, ReleaseLease,
                                AbortByOperator, rowVars
  <2>2. UNCHANGED metaState \/ metaState' = "plain"
    BY <1>3 DEF OperatorStep, ReadForRelease, ReadForAbort, ReleaseLease, AbortByOperator,
                recordVars
  <2> QED BY <2>1, <2>2 DEF Names!Abandon, Names!Next
<1>4. CASE TrimLog \/ ContentStep \/ UNCHANGED vars
  <2>1. UNCHANGED <<heads, tombstones, metaState>>
    BY <1>4 DEF TrimLog, ContentStep, BeginE2ee, CompleteE2ee, AbortE2ee,
                CompleteEnvelopeUpgrade, RotateKeyEpoch, vars, rowVars, recordVars
  <2> QED BY <2>1, ShownUntouched
<1> QED BY <1>1, <1>2, <1>3, <1>4 DEF Next

\* What the users see of a vault on its way through both migrations, whoever leads
\* them and however often they are abandoned, is Naming.
THEOREM ImplementsNaming == Spec => NamingSpec
<1>1. Init => Names!Init
  <2>1. Init => ShownFiles = << >> /\ ShownGraves = << >>
    BY DEF Init, ShownFiles, ShownGraves, Live, Dead
  <2> QED BY <2>1 DEF Init, Names!Init
<1>2. IInv /\ [Next]_vars => [Names!Next]_<<ShownFiles, ShownGraves, metaState>>
  BY StepIsNamingStep
<1> QED BY <1>1, <1>2, Invariance, PTL DEF Spec, NamingSpec, Names!Spec
=============================================================================
