------------------------- MODULE ObjectModelProofs -------------------------
(***************************************************************************)
(* Theorems about ObjectModel, for every set of objects, names, contents   *)
(* and devices and every bound on the log.                                 *)
(*                                                                         *)
(* IInv is the inductive invariant.  What it adds to the properties of     *)
(* ObjectModel is LogBelowPresent: no retained change of an object is      *)
(* ahead of its HEAD row or deletion record, and only objects of the       *)
(* ledger have changes.  Without it a new revision could repeat one the    *)
(* log already holds.                                                      *)
(***************************************************************************)
EXTENDS ObjectModel, TLAPS

\* A change of object f whose revision and content a new row of f may follow.
Precedes(c, row) ==
    /\ c.rev <= row.rev
    /\ c.rev = row.rev => c.content = row.content

LogBelowPresent ==
    \A s \in DOMAIN changes :
        LET f == changes[s].file
        IN  /\ f \in DOMAIN objectState
            /\ f \in Live => Precedes(changes[s], heads[f])
            /\ f \in Dead => changes[s].rev <= tombstones[f].rev

IInv ==
    /\ TypeOK
    /\ LedgersAgree
    /\ NamesUnique
    /\ LogContiguous
    /\ LogDescribesObjects
    /\ RevisionIdentifiesContent
    /\ LogBelowPresent

-----------------------------------------------------------------------------
\* INSERT OR UPDATE of one row: the key is there with the new row, every other
\* row is as it was.
LEMMA PutRow ==
    ASSUME NEW table, NEW key, NEW row
    PROVE  /\ DOMAIN Put(table, key, row) = DOMAIN table \cup {key}
           /\ Put(table, key, row)[key] = row
           /\ \A k \in DOMAIN table : k # key => Put(table, key, row)[k] = table[k]
BY DEF Put

\* DELETE of rows: exactly the rows with the given keys are gone.
LEMMA DropRows ==
    ASSUME NEW table, NEW keys
    PROVE  /\ DOMAIN Drop(table, keys) = DOMAIN table \ keys
           /\ \A k \in DOMAIN table \ keys : Drop(table, keys)[k] = table[k]
BY DEF Drop, Restrict

\* Writing a well-typed row keeps a table well typed.
LEMMA PutTable ==
    ASSUME NEW table, NEW keys, NEW rows, NEW key \in keys, NEW row \in rows,
           IsTable(table, keys, rows)
    PROVE  IsTable(Put(table, key, row), keys, rows)
BY DEF IsTable, Put

\* Deleting rows keeps a table well typed.
LEMMA DropTable ==
    ASSUME NEW table, NEW keys, NEW rows, NEW gone, IsTable(table, keys, rows)
    PROVE  IsTable(Drop(table, gone), keys, rows)
BY DEF IsTable, Drop, Restrict

-----------------------------------------------------------------------------
\* A committed change keeps the log without gaps, at the next sequence.
LEMMA InsertKeepsLog ==
    ASSUME TypeOK, LogContiguous, minRetained' = minRetained,
           NEW f \in FileIds, NEW action \in {"upsert", "delete", "restore"},
           NEW row, row.rev \in Nat, row.gen \in Generations, row.metaGen \in Nat,
           row.name \in Names,
           NEW content \in Contents \cup {NoHash},
           NEW op \in Operations \cup {NoOperation},
           InsertChange(f, action, row, content, op)
    PROVE  /\ headSequence' = headSequence + 1
           /\ headSequence' \in Nat
           /\ DOMAIN changes' = DOMAIN changes \cup {headSequence + 1}
           /\ headSequence + 1 \notin DOMAIN changes
           /\ \A s \in DOMAIN changes : s \in Nat /\ s <= headSequence
           /\ \A s \in DOMAIN changes : changes'[s] = changes[s]
           /\ changes'[headSequence + 1] =
                 [file |-> f, action |-> action, rev |-> row.rev, gen |-> row.gen,
                  metaGen |-> row.metaGen, name |-> row.name,
                  content |-> content, op |-> op]
           /\ IsTable(changes', Nat, Change)
           /\ LogContiguous'
<1> DEFINE c == [file |-> f, action |-> action, rev |-> row.rev, gen |-> row.gen,
                 metaGen |-> row.metaGen, name |-> row.name,
                 content |-> content, op |-> op]
<1>1. /\ headSequence \in Nat
      /\ minRetained \in Nat
      /\ minRetained <= headSequence
      /\ DOMAIN changes = (minRetained + 1)..headSequence
      /\ IsTable(changes, Nat, Change)
  BY DEF TypeOK, LogContiguous
<1>2. /\ headSequence' = headSequence + 1
      /\ changes' = Put(changes, headSequence + 1, c)
  BY DEF InsertChange
<1>3. c \in Change
  BY DEF Change
<1>4. IsTable(changes', Nat, Change)
  <2>1. headSequence + 1 \in Nat
    BY <1>1
  <2> QED BY <2>1, <1>1, <1>2, <1>3, PutTable
<1>5. /\ DOMAIN changes' = DOMAIN changes \cup {headSequence + 1}
      /\ changes'[headSequence + 1] = c
      /\ \A s \in DOMAIN changes : s # headSequence + 1 => changes'[s] = changes[s]
  <2> HIDE DEF c
  <2> QED BY <1>2 DEF Put
<1>6. \A s \in DOMAIN changes : s \in Nat /\ s <= headSequence
  BY <1>1
<1>7. DOMAIN changes \cup {headSequence + 1} = (minRetained + 1)..(headSequence + 1)
  BY <1>1
<1>8. LogContiguous'
  <2>1. minRetained' <= headSequence'
    BY <1>1, <1>2
  <2>2. DOMAIN changes' = (minRetained' + 1)..headSequence'
    BY <1>2, <1>5, <1>7
  <2> QED BY <2>1, <2>2 DEF LogContiguous
<1> QED BY <1>1, <1>2, <1>4, <1>5, <1>6, <1>8

-----------------------------------------------------------------------------
\* Writing a HEAD row in one transaction with its change preserves the
\* invariant, when no other live object holds the row's name or collision key
\* and the row's revision follows every retained change of the object.
LEMMA CommitHeadKeepsIInv ==
    ASSUME IInv, NEW f \in FileIds, NEW row \in Head,
           NEW action \in {"upsert", "restore"},
           NEW op \in Operations \cup {NoOperation},
           CommitHead(f, row, action, op),
           UNCHANGED <<minRetained, acked>>,
           DOMAIN tombstones' = Dead \ {f},
           \A g \in Dead \ {f} : tombstones'[g] = tombstones[g],
           \A g \in Live \ {f} : heads[g].name # row.name /\ heads[g].canon # row.canon,
           \A s \in DOMAIN changes : changes[s].file = f => Precedes(changes[s], row)
    PROVE  IInv'
<1> USE DEF Live, Dead
<1> DEFINE new == headSequence + 1
           c == [file |-> f, action |-> action, rev |-> row.rev, gen |-> row.gen,
                 metaGen |-> row.metaGen, name |-> row.name,
                 content |-> row.content, op |-> op]
<1>1. /\ row.rev \in Nat /\ row.gen \in Generations /\ row.metaGen \in Nat
      /\ row.name \in Names /\ row.content \in Contents \cup {NoHash}
  BY DEF Head
<1>2. InsertChange(f, action, row, row.content, op)
  BY DEF CommitHead
<1>3. /\ headSequence' = new
      /\ headSequence' \in Nat
      /\ DOMAIN changes' = DOMAIN changes \cup {new}
      /\ new \notin DOMAIN changes
      /\ \A s \in DOMAIN changes : s \in Nat /\ s <= headSequence
      /\ \A s \in DOMAIN changes : changes'[s] = changes[s]
      /\ changes'[new] = c
      /\ IsTable(changes', Nat, Change)
      /\ LogContiguous'
  <2>1. TypeOK /\ LogContiguous /\ minRetained' = minRetained
    BY DEF IInv
  <2>2. action \in {"upsert", "delete", "restore"}
    OBVIOUS
  <2> HIDE DEF c
  <2> QED BY <1>1, <1>2, <2>1, <2>2, InsertKeepsLog DEF c
<1>4. /\ DOMAIN heads' = DOMAIN heads \cup {f}
      /\ heads'[f] = row
      /\ \A g \in DOMAIN heads : g # f => heads'[g] = heads[g]
      /\ DOMAIN objectState' = DOMAIN objectState \cup {f}
      /\ objectState'[f] = "live"
      /\ \A g \in DOMAIN objectState : g # f => objectState'[g] = objectState[g]
  BY DEF CommitHead, Put
<1>5. TypeOK'
  <2>1. IsTable(heads', FileIds, Head)
    BY <1>4 DEF IInv, TypeOK, IsTable
  <2>2. IsTable(tombstones', FileIds, Tombstone)
    BY DEF IInv, TypeOK, IsTable
  <2>3. IsTable(objectState', FileIds, {"live", "deleted"})
    BY <1>4 DEF IInv, TypeOK, IsTable
  <2>4. minRetained' \in Nat /\ IsTable(acked', Devices, Nat)
    BY DEF IInv, TypeOK
  <2> QED BY <1>3, <2>1, <2>2, <2>3, <2>4 DEF TypeOK
<1>6. LedgersAgree'
  BY <1>4 DEF IInv, LedgersAgree
<1>7. NamesUnique'
  BY <1>4 DEF IInv, NamesUnique
<1>8. \A s \in DOMAIN changes : changes[s].file \in DOMAIN objectState
  BY DEF IInv, LogBelowPresent
<1>9. LogDescribesObjects'
  <2> SUFFICES ASSUME NEW s \in DOMAIN changes', LastOf(s)'
               PROVE  LET d == changes'[s]
                      IN  IF d.file \in DOMAIN heads'
                          THEN DescribesHead(d, heads'[d.file])
                          ELSE /\ d.action = "delete"
                               /\ d.file \in DOMAIN tombstones' =>
                                     /\ tombstones'[d.file].seq = s
                                     /\ tombstones'[d.file].rev = d.rev
    BY DEF LogDescribesObjects, DescribesHead
  <2>1. CASE s = new
    BY <2>1, <1>3, <1>4 DEF DescribesHead
  <2>2. CASE s \in DOMAIN changes /\ changes[s].file = f
    <3>1. new <= s
      BY <2>2, <1>3 DEF LastOf
    <3> QED BY <3>1, <2>2, <1>3 DEF IInv, TypeOK
  <2>3. CASE s \in DOMAIN changes /\ changes[s].file # f
    <3>1. LastOf(s)
      BY <2>3, <1>3 DEF LastOf
    <3>2. changes'[s] = changes[s]
      BY <2>3, <1>3
    <3> QED BY <3>1, <3>2, <2>3, <1>4 DEF IInv, LogDescribesObjects, DescribesHead
  <2> QED BY <2>1, <2>2, <2>3, <1>3
<1>10. RevisionIdentifiesContent'
  <2> SUFFICES ASSUME NEW s \in DOMAIN changes', NEW t \in DOMAIN changes',
                      changes'[s].file = changes'[t].file, s < t
               PROVE  /\ changes'[s].rev <= changes'[t].rev
                      /\ changes'[s].rev = changes'[t].rev =>
                            changes'[s].content = changes'[t].content
    BY DEF RevisionIdentifiesContent
  <2>1. s \in DOMAIN changes
    BY <1>3 DEF IInv, TypeOK
  <2>2. CASE t = new
    BY <2>1, <2>2, <1>3 DEF Precedes
  <2>3. CASE t \in DOMAIN changes
    BY <2>1, <2>3, <1>3 DEF IInv, RevisionIdentifiesContent
  <2> QED BY <2>2, <2>3, <1>3
<1>11. LogBelowPresent'
  <2> SUFFICES ASSUME NEW s \in DOMAIN changes'
               PROVE  LET g == changes'[s].file
                      IN  /\ g \in DOMAIN objectState'
                          /\ g \in DOMAIN heads' => Precedes(changes'[s], heads'[g])
                          /\ g \in DOMAIN tombstones' => changes'[s].rev <= tombstones'[g].rev
    BY DEF LogBelowPresent, Precedes
  <2>1. CASE s = new
    BY <2>1, <1>1, <1>3, <1>4 DEF Precedes
  <2>2. CASE s \in DOMAIN changes /\ changes[s].file = f
    BY <2>2, <1>3, <1>4
  <2>3. CASE s \in DOMAIN changes /\ changes[s].file # f
    BY <2>3, <1>3, <1>4 DEF IInv, LogBelowPresent
  <2> QED BY <2>1, <2>2, <2>3, <1>3
<1> QED BY <1>3, <1>5, <1>6, <1>7, <1>9, <1>10, <1>11 DEF IInv

-----------------------------------------------------------------------------
\* The collision key of a request on a name is a key.
LEMMA CollisionKeyType ==
    ASSUME NEW name \in Names, NEW hash \in Hashes \cup {NoHash}
    PROVE  CollisionKey(name, hash) \in Canons
BY RequestAssumption DEF CollisionKey, Hashes

\* A new object preserves the invariant: its id has no row and no change yet.
LEMMA CreateKeepsIInv ==
    ASSUME IInv, NEW f \in FileIds, NEW name \in Names, NEW base,
           NEW content \in Contents, NEW hash \in Hashes \cup {NoHash},
           NEW op \in Operations \cup {NoOperation},
           Create(f, name, base, content, hash, op)
    PROVE  IInv'
<1> DEFINE canon == CollisionKey(name, hash)
           row == [rev |-> 1,
                   gen |-> IF Generation[content] > 0 THEN Generation[content] ELSE 0,
                   content |-> content,
                   metaGen |-> IF MetaMode THEN 1 ELSE 0,
                   name |-> name, canon |-> canon, env |-> Envelope[content]]
<1>1. /\ CommitHead(f, row, "upsert", op)
      /\ UNCHANGED <<tombstones, minRetained, acked>>
      /\ f \notin DOMAIN objectState
      /\ ~ NameTaken(name)
      /\ ~ CanonicalCollision(canon, f)
  BY DEF Create
<1>2. row \in Head
  <2>1. canon \in Canons
    BY CollisionKeyType
  <2>2. row.gen \in Generations
    BY ContentAssumption DEF Generations
  <2>3. Envelope[content] \in 0..4
    BY ContentAssumption
  <2> QED BY <2>1, <2>2, <2>3 DEF Head
<1>3. f \notin Live /\ f \notin Dead
  BY <1>1 DEF IInv, LedgersAgree
<1>4. \A g \in Live \ {f} : heads[g].name # row.name /\ heads[g].canon # row.canon
  BY <1>1 DEF NameTaken, CanonicalCollision
<1>5. \A s \in DOMAIN changes : changes[s].file # f
  BY <1>1 DEF IInv, LogBelowPresent
<1> HIDE DEF row
<1> QED BY <1>1, <1>2, <1>3, <1>4, <1>5, CommitHeadKeepsIInv DEF Dead

\* New content for a live object preserves the invariant: the next revision is
\* above every retained change of the object.
LEMMA UpdateKeepsIInv ==
    ASSUME IInv, NEW f \in FileIds, NEW name \in Names, NEW base,
           NEW content \in Contents, NEW hash \in Hashes \cup {NoHash},
           NEW op \in Operations \cup {NoOperation},
           Update(f, name, base, content, hash, op)
    PROVE  IInv'
<1> DEFINE cur == heads[f]
           canon == IF hash = NoHash THEN cur.canon ELSE hash
           gen == Generation[content]
           next == IF gen >= 0 THEN gen ELSE cur.gen
           row == [rev |-> cur.rev + 1, gen |-> next,
                   content |-> content, metaGen |-> cur.metaGen,
                   name |-> name, canon |-> canon, env |-> Envelope[content]]
<1>1. /\ CommitHead(f, row, "upsert", op)
      /\ UNCHANGED <<tombstones, minRetained, acked>>
      /\ f \in Live
      /\ cur.name = name
      /\ ~ CanonicalCollision(canon, f)
  BY DEF Update, Named
<1>2. cur \in Head
  BY <1>1 DEF IInv, TypeOK, IsTable, Live
<1>3. row \in Head
  <2>1. canon \in Canons
    BY <1>2 DEF Head, Hashes
  <2>2. next \in Generations
    BY <1>2, ContentAssumption DEF Head, Generations
  <2>3. Envelope[content] \in 0..4
    BY ContentAssumption
  <2>4. cur.rev + 1 \in Nat /\ cur.metaGen \in Nat
    BY <1>2 DEF Head
  <2> HIDE DEF canon, next, cur
  <2> QED BY <2>1, <2>2, <2>3, <2>4 DEF Head
<1>4. row.name = cur.name /\ row.canon = canon /\ row.rev = cur.rev + 1
  BY <1>1
<1>5. f \notin Dead
  BY <1>1 DEF IInv, LedgersAgree
<1>6. \A g \in Live \ {f} : heads[g].name # row.name /\ heads[g].canon # row.canon
  BY <1>1, <1>4 DEF CanonicalCollision, IInv, NamesUnique
<1>7. \A s \in DOMAIN changes : changes[s].file = f => Precedes(changes[s], row)
  <2> SUFFICES ASSUME NEW s \in DOMAIN changes, changes[s].file = f
               PROVE  Precedes(changes[s], row)
    OBVIOUS
  <2>1. changes[s].rev <= cur.rev
    BY <1>1 DEF IInv, LogBelowPresent, Precedes
  <2>2. changes[s].rev \in Nat /\ cur.rev \in Nat
    BY <1>2 DEF IInv, TypeOK, IsTable, Change, Head
  <2> HIDE DEF row
  <2> QED BY <2>1, <2>2, <1>4 DEF Precedes
<1> HIDE DEF row
<1> QED BY <1>1, <1>3, <1>5, <1>6, <1>7, CommitHeadKeepsIInv DEF Dead

\* A rename preserves the invariant: it repeats the revision of the HEAD row,
\* with the same content.
LEMMA RenameKeepsIInv ==
    ASSUME IInv, NEW f \in FileIds, NEW from \in Names, NEW to \in Names,
           NEW baseMetaGen, NEW hash \in Hashes,
           NEW op \in Operations \cup {NoOperation},
           Rename(f, from, to, baseMetaGen, hash, op)
    PROVE  IInv'
<1> DEFINE cur == heads[f]
           canon == CollisionKey(to, hash)
           row == [rev |-> cur.rev, gen |-> cur.gen, content |-> cur.content,
                   metaGen |-> cur.metaGen + 1,
                   name |-> to, canon |-> canon, env |-> cur.env]
<1>1. /\ CommitHead(f, row, "upsert", op)
      /\ UNCHANGED <<tombstones, minRetained, acked>>
      /\ f \in Live
      /\ cur.name = from
      /\ to # from => ~ NameTaken(to)
      /\ ~ CanonicalCollision(canon, f)
  BY DEF Rename, Named
<1>2. cur \in Head
  BY <1>1 DEF IInv, TypeOK, IsTable, Live
<1>3. row \in Head
  <2>1. canon \in Canons
    BY CollisionKeyType
  <2>2. /\ cur.rev \in Nat /\ cur.gen \in Generations /\ cur.content \in Contents
        /\ cur.metaGen + 1 \in Nat /\ cur.env \in 0..4
    BY <1>2 DEF Head
  <2> HIDE DEF canon, cur
  <2> QED BY <2>1, <2>2 DEF Head
<1>4. /\ row.name = to /\ row.canon = canon
      /\ row.rev = cur.rev /\ row.content = cur.content
  OBVIOUS
<1>5. f \notin Dead
  BY <1>1 DEF IInv, LedgersAgree
<1>6. \A g \in Live \ {f} : heads[g].name # row.name /\ heads[g].canon # row.canon
  BY <1>1, <1>4 DEF CanonicalCollision, NameTaken, IInv, NamesUnique
<1>7. \A s \in DOMAIN changes : changes[s].file = f => Precedes(changes[s], row)
  BY <1>1, <1>4 DEF IInv, LogBelowPresent, Precedes
<1> HIDE DEF row
<1> QED BY <1>1, <1>3, <1>5, <1>6, <1>7, CommitHeadKeepsIInv DEF Dead

\* An explicit restore preserves the invariant: it continues above the
\* deletion's revision, and takes the deletion record away.
LEMMA ReviveKeepsIInv ==
    ASSUME IInv, NEW f \in FileIds, NEW expected, NEW gen \in Generations,
           NEW name \in Names, NEW hash \in Hashes,
           NEW op \in Operations \cup {NoOperation},
           Revive(f, expected, gen, name, hash, op)
    PROVE  IInv'
<1> DEFINE tomb == tombstones[f]
           canon == CollisionKey(name, hash)
           row(env) == [rev |-> tomb.rev + 1, gen |-> gen, content |-> tomb.prior,
                        metaGen |-> tomb.metaGen + 1, name |-> name,
                        canon |-> canon, env |-> env]
<1>1. /\ f \in Dead
      /\ tombstones' = Drop(tombstones, {f})
      /\ UNCHANGED <<minRetained, acked>>
      /\ ~ NameTaken(name)
      /\ ~ CanonicalCollision(canon, f)
  BY DEF Revive
<1>2. PICK env \in {0, Envelope[tomb.prior]} : CommitHead(f, row(env), "restore", op)
  BY DEF Revive
<1>3. tomb \in Tombstone
  BY <1>1 DEF IInv, TypeOK, IsTable, Dead
<1>4. row(env) \in Head
  <2>1. canon \in Canons
    BY CollisionKeyType
  <2>2. env \in 0..4
    BY <1>3, ContentAssumption DEF Tombstone
  <2>3. tomb.rev + 1 \in Nat /\ tomb.metaGen + 1 \in Nat /\ tomb.prior \in Contents
    BY <1>3 DEF Tombstone
  <2> HIDE DEF canon, tomb
  <2> QED BY <2>1, <2>2, <2>3 DEF Head
<1>5. /\ DOMAIN tombstones' = Dead \ {f}
      /\ \A g \in Dead \ {f} : tombstones'[g] = tombstones[g]
  BY <1>1 DEF Drop, Restrict, Dead
<1>6. \A g \in Live \ {f} : heads[g].name # row(env).name /\ heads[g].canon # row(env).canon
  BY <1>1 DEF CanonicalCollision, NameTaken
<1>7. \A s \in DOMAIN changes : changes[s].file = f => Precedes(changes[s], row(env))
  <2> SUFFICES ASSUME NEW s \in DOMAIN changes, changes[s].file = f
               PROVE  Precedes(changes[s], row(env))
    OBVIOUS
  <2>1. changes[s].rev <= tomb.rev
    BY <1>1 DEF IInv, LogBelowPresent
  <2>2. changes[s].rev \in Nat /\ tomb.rev \in Nat
    BY <1>3 DEF IInv, TypeOK, IsTable, Change, Tombstone
  <2> QED BY <2>1, <2>2 DEF Precedes
<1> HIDE DEF row
<1> QED BY <1>1, <1>2, <1>4, <1>5, <1>6, <1>7, CommitHeadKeepsIInv

\* A deletion preserves the invariant: the HEAD row, the deletion record and
\* the object ledger move together, and the record is at the change's sequence.
LEMMA DeleteKeepsIInv ==
    ASSUME IInv, NEW f \in FileIds, NEW name, NEW base,
           NEW op \in Operations \cup {NoOperation},
           Delete(f, name, base, op)
    PROVE  IInv'
<1> USE DEF Live, Dead
<1> DEFINE cur == heads[f]
           new == headSequence + 1
           dead == [rev |-> cur.rev + 1, gen |-> cur.gen, prior |-> cur.content,
                    metaGen |-> cur.metaGen, name |-> cur.name, canon |-> cur.canon,
                    seq |-> new]
           c == [file |-> f, action |-> "delete", rev |-> dead.rev, gen |-> dead.gen,
                 metaGen |-> dead.metaGen, name |-> dead.name,
                 content |-> NoHash, op |-> op]
<1>1. /\ f \in DOMAIN heads
      /\ InsertChange(f, "delete", dead, NoHash, op)
      /\ tombstones' = Put(tombstones, f, dead)
      /\ heads' = Drop(heads, {f})
      /\ objectState' = Put(objectState, f, "deleted")
      /\ UNCHANGED <<minRetained, acked>>
  BY DEF Delete, Named
<1>2. cur \in Head
  BY <1>1 DEF IInv, TypeOK, IsTable
<1>3. /\ cur.rev \in Nat /\ cur.gen \in Generations /\ cur.metaGen \in Nat
      /\ cur.name \in Names /\ cur.canon \in Canons /\ cur.content \in Contents
  BY <1>2 DEF Head
<1>4. /\ headSequence' = new
      /\ headSequence' \in Nat
      /\ DOMAIN changes' = DOMAIN changes \cup {new}
      /\ new \notin DOMAIN changes
      /\ \A s \in DOMAIN changes : s \in Nat /\ s <= headSequence
      /\ \A s \in DOMAIN changes : changes'[s] = changes[s]
      /\ changes'[new] = c
      /\ IsTable(changes', Nat, Change)
      /\ LogContiguous'
  <2>1. TypeOK /\ LogContiguous /\ minRetained' = minRetained
    BY <1>1 DEF IInv
  <2>2. /\ dead.rev \in Nat /\ dead.gen \in Generations /\ dead.metaGen \in Nat
        /\ dead.name \in Names
    BY <1>3
  <2>3. "delete" \in {"upsert", "delete", "restore"} /\ NoHash \in Contents \cup {NoHash}
    OBVIOUS
  <2> HIDE DEF dead
  <2> QED BY <1>1, <2>1, <2>2, <2>3, InsertKeepsLog
<1>5. /\ DOMAIN heads' = DOMAIN heads \ {f}
      /\ \A g \in DOMAIN heads \ {f} : heads'[g] = heads[g]
      /\ DOMAIN tombstones' = DOMAIN tombstones \cup {f}
      /\ tombstones'[f] = dead
      /\ \A g \in DOMAIN tombstones : g # f => tombstones'[g] = tombstones[g]
      /\ DOMAIN objectState' = DOMAIN objectState \cup {f}
      /\ objectState'[f] = "deleted"
      /\ \A g \in DOMAIN objectState : g # f => objectState'[g] = objectState[g]
  <2> HIDE DEF dead
  <2> QED BY <1>1 DEF Put, Drop, Restrict
<1>6. TypeOK'
  <2>1. IsTable(heads', FileIds, Head)
    BY <1>5 DEF IInv, TypeOK, IsTable
  <2>2. IsTable(tombstones', FileIds, Tombstone)
    <3>1. new \in Nat
      BY DEF IInv, TypeOK
    <3>2. dead \in Tombstone
      <4> HIDE DEF new, cur
      <4> QED BY <1>3, <3>1 DEF Tombstone
    <3> HIDE DEF dead
    <3> QED BY <1>5, <3>2 DEF IInv, TypeOK, IsTable
  <2>3. IsTable(objectState', FileIds, {"live", "deleted"})
    BY <1>5 DEF IInv, TypeOK, IsTable
  <2>4. minRetained' \in Nat /\ IsTable(acked', Devices, Nat)
    BY <1>1 DEF IInv, TypeOK
  <2> QED BY <1>4, <2>1, <2>2, <2>3, <2>4 DEF TypeOK
<1>7. LedgersAgree'
  BY <1>5 DEF IInv, LedgersAgree
<1>8. NamesUnique'
  BY <1>5 DEF IInv, NamesUnique
<1>9. LogDescribesObjects'
  <2> SUFFICES ASSUME NEW s \in DOMAIN changes', LastOf(s)'
               PROVE  LET d == changes'[s]
                      IN  IF d.file \in DOMAIN heads'
                          THEN DescribesHead(d, heads'[d.file])
                          ELSE /\ d.action = "delete"
                               /\ d.file \in DOMAIN tombstones' =>
                                     /\ tombstones'[d.file].seq = s
                                     /\ tombstones'[d.file].rev = d.rev
    BY DEF LogDescribesObjects, DescribesHead
  <2>1. CASE s = new
    BY <2>1, <1>4, <1>5
  <2>2. CASE s \in DOMAIN changes /\ changes[s].file = f
    <3>1. new <= s
      BY <2>2, <1>4 DEF LastOf
    <3> QED BY <3>1, <2>2, <1>4 DEF IInv, TypeOK
  <2>3. CASE s \in DOMAIN changes /\ changes[s].file # f
    <3>1. LastOf(s)
      BY <2>3, <1>4 DEF LastOf
    <3>2. changes'[s] = changes[s]
      BY <2>3, <1>4
    <3> HIDE DEF dead
    <3> QED BY <3>1, <3>2, <2>3, <1>5 DEF IInv, LogDescribesObjects, DescribesHead
  <2> QED BY <2>1, <2>2, <2>3, <1>4
<1>10. \A s \in DOMAIN changes :
          changes[s].file = f => /\ changes[s].rev \in Nat
                                 /\ changes[s].rev < dead.rev
  BY <1>1, <1>3 DEF IInv, TypeOK, IsTable, Change, LogBelowPresent, Precedes
<1>11. RevisionIdentifiesContent'
  <2> SUFFICES ASSUME NEW s \in DOMAIN changes', NEW t \in DOMAIN changes',
                      changes'[s].file = changes'[t].file, s < t
               PROVE  /\ changes'[s].rev <= changes'[t].rev
                      /\ changes'[s].rev = changes'[t].rev =>
                            changes'[s].content = changes'[t].content
    BY DEF RevisionIdentifiesContent
  <2>1. s \in DOMAIN changes
    BY <1>4 DEF IInv, TypeOK
  <2>2. CASE t = new
    <3>1. changes[s].file = f /\ changes'[s] = changes[s] /\ changes'[t].rev = dead.rev
      BY <2>1, <2>2, <1>4
    <3>2. dead.rev \in Nat
      BY <1>3
    <3> HIDE DEF dead
    <3> QED BY <3>1, <3>2, <2>1, <1>10
  <2>3. CASE t \in DOMAIN changes
    BY <2>1, <2>3, <1>4 DEF IInv, RevisionIdentifiesContent
  <2> QED BY <2>2, <2>3, <1>4
<1>12. LogBelowPresent'
  <2> SUFFICES ASSUME NEW s \in DOMAIN changes'
               PROVE  LET g == changes'[s].file
                      IN  /\ g \in DOMAIN objectState'
                          /\ g \in DOMAIN heads' => Precedes(changes'[s], heads'[g])
                          /\ g \in DOMAIN tombstones' => changes'[s].rev <= tombstones'[g].rev
    BY DEF LogBelowPresent, Precedes
  <2>1. CASE s = new
    BY <2>1, <1>3, <1>4, <1>5
  <2>2. CASE s \in DOMAIN changes /\ changes[s].file = f
    <3>1. changes'[s] = changes[s] /\ changes[s].rev < dead.rev /\ changes[s].rev \in Nat
      BY <2>2, <1>4, <1>10
    <3>2. dead.rev \in Nat
      BY <1>3
    <3> HIDE DEF dead
    <3> QED BY <3>1, <3>2, <2>2, <1>5
  <2>3. CASE s \in DOMAIN changes /\ changes[s].file # f
    <3> HIDE DEF dead
    <3> QED BY <2>3, <1>4, <1>5 DEF IInv, LogBelowPresent
  <2> QED BY <2>1, <2>2, <2>3, <1>4
<1> QED BY <1>4, <1>6, <1>7, <1>8, <1>9, <1>11, <1>12 DEF IInv

-----------------------------------------------------------------------------
\* Trimming preserves the invariant: what remains is the end of the log, so
\* the last retained change of an object stays its last change.
LEMMA TrimKeepsIInv ==
    ASSUME IInv, TrimChanges
    PROVE  IInv'
<1> USE DEF Live, Dead
<1>1. PICK upTo \in DOMAIN changes :
          /\ changes' = Drop(changes, {s \in DOMAIN changes : s <= upTo})
          /\ minRetained' = IF upTo > minRetained THEN upTo ELSE minRetained
          /\ UNCHANGED <<heads, tombstones, objectState, headSequence, acked>>
  BY DEF TrimChanges
<1>2. /\ headSequence \in Nat /\ minRetained \in Nat
      /\ minRetained <= headSequence
      /\ DOMAIN changes = (minRetained + 1)..headSequence
  BY DEF IInv, TypeOK, LogContiguous
<1>3. minRetained' = upTo /\ upTo \in Nat /\ upTo <= headSequence /\ minRetained < upTo
  BY <1>1, <1>2
<1>4. /\ DOMAIN changes' = {s \in DOMAIN changes : ~ (s <= upTo)}
      /\ \A s \in DOMAIN changes' : s \in DOMAIN changes /\ changes'[s] = changes[s]
  BY <1>1 DEF Drop, Restrict
<1>5. LogContiguous'
  <2>1. headSequence' = headSequence
    BY <1>1
  <2>2. {s \in (minRetained + 1)..headSequence : ~ (s <= upTo)} = (upTo + 1)..headSequence
    BY <1>2, <1>3
  <2>3. DOMAIN changes' = (minRetained' + 1)..headSequence'
    BY <2>1, <2>2, <1>2, <1>3, <1>4
  <2>4. minRetained' <= headSequence'
    BY <2>1, <1>3
  <2> QED BY <2>3, <2>4 DEF LogContiguous
<1>6. TypeOK'
  BY <1>1, <1>3, <1>4 DEF IInv, TypeOK, IsTable
<1>7. LogDescribesObjects'
  <2>1. \A s \in DOMAIN changes' : LastOf(s)' => LastOf(s)
    <3> SUFFICES ASSUME NEW s \in DOMAIN changes', LastOf(s)',
                        NEW t \in DOMAIN changes, changes[t].file = changes[s].file
                 PROVE  t <= s
      BY <1>4 DEF LastOf
    <3>1. CASE t \in DOMAIN changes'
      BY <3>1, <1>4 DEF LastOf
    <3>2. CASE t <= upTo
      BY <3>2, <1>2, <1>3, <1>4
    <3> QED BY <3>1, <3>2, <1>4
  <2> QED BY <2>1, <1>1, <1>4 DEF IInv, LogDescribesObjects, DescribesHead
<1>8. LedgersAgree' /\ NamesUnique'
  BY <1>1 DEF IInv, LedgersAgree, NamesUnique
<1>9. RevisionIdentifiesContent'
  BY <1>4 DEF IInv, RevisionIdentifiesContent
<1>10. LogBelowPresent'
  BY <1>1, <1>4 DEF IInv, LogBelowPresent, Precedes
<1> QED BY <1>5, <1>6, <1>7, <1>8, <1>9, <1>10 DEF IInv

\* Purging preserves the invariant: it only forgets deletion records.
LEMMA PurgeKeepsIInv ==
    ASSUME IInv, Purge
    PROVE  IInv'
<1> USE DEF Live, Dead
<1>1. PICK expired \in SUBSET Dead : PurgeTombstones(expired)
  BY DEF Purge
<1>2. /\ DOMAIN tombstones' \subseteq DOMAIN tombstones
      /\ \A f \in DOMAIN tombstones' : tombstones'[f] = tombstones[f]
      /\ UNCHANGED <<heads, objectState, headSequence, minRetained, changes, acked>>
  BY <1>1 DEF PurgeTombstones, Drop, Restrict
<1>3. TypeOK'
  BY <1>2 DEF IInv, TypeOK, IsTable
<1>4. LedgersAgree' /\ NamesUnique' /\ LogContiguous' /\ RevisionIdentifiesContent'
  BY <1>2 DEF IInv, LedgersAgree, NamesUnique, LogContiguous, RevisionIdentifiesContent
<1>5. LogDescribesObjects'
  BY <1>2 DEF IInv, LogDescribesObjects, DescribesHead, LastOf
<1>6. LogBelowPresent'
  BY <1>2 DEF IInv, LogBelowPresent, Precedes
<1> QED BY <1>3, <1>4, <1>5, <1>6 DEF IInv

\* Only the devices table changes when devices enroll, acknowledge or leave.
LEMMA DeviceStepKeepsIInv ==
    ASSUME IInv, DeviceStep
    PROVE  IInv'
<1>1. PICK d \in Devices : \/ EnrollDevice(d)
                           \/ RevokeDevice(d)
                           \/ \E seq \in 1..headSequence : AckSequence(d, seq)
  BY DEF DeviceStep
<1>2. UNCHANGED <<heads, tombstones, objectState, headSequence, minRetained, changes>>
  BY <1>1 DEF EnrollDevice, RevokeDevice, AckSequence
<1>3. IsTable(acked, Devices, Nat) /\ headSequence \in Nat
  BY DEF IInv, TypeOK
<1>4. IsTable(acked', Devices, Nat)
  <2>1. CASE EnrollDevice(d)
    BY <2>1, <1>3 DEF EnrollDevice, Put, IsTable
  <2>2. CASE RevokeDevice(d)
    BY <2>2, <1>3, DropTable DEF RevokeDevice
  <2>3. CASE \E seq \in 1..headSequence : AckSequence(d, seq)
    BY <2>3, <1>3 DEF AckSequence, IsTable
  <2> QED BY <1>1, <2>1, <2>2, <2>3
<1>5. TypeOK'
  BY <1>2, <1>4 DEF IInv, TypeOK
<1>6. LedgersAgree' /\ NamesUnique' /\ LogContiguous' /\ RevisionIdentifiesContent'
  BY <1>2 DEF IInv, LedgersAgree, NamesUnique, LogContiguous,
              RevisionIdentifiesContent, Live, Dead
<1>7. LogDescribesObjects'
  BY <1>2 DEF IInv, LogDescribesObjects, DescribesHead, LastOf, Live, Dead
<1>8. LogBelowPresent'
  BY <1>2 DEF IInv, LogBelowPresent, Precedes, Live, Dead
<1> QED BY <1>5, <1>6, <1>7, <1>8 DEF IInv

-----------------------------------------------------------------------------
\* Every step preserves the invariant, one case per handler.
LEMMA NextKeepsIInv == IInv /\ [Next]_vars => IInv'
<1> SUFFICES ASSUME IInv, [Next]_vars
             PROVE  IInv'
  OBVIOUS
<1>1. CASE Upload
  <2>1. PICK f \in FileIds, name \in Names, base \in 0..MaxSequence, content \in Contents,
             hash \in Hashes \cup {NoHash}, op \in Operations \cup {NoOperation} :
             \/ Create(f, name, base, content, hash, op)
             \/ Update(f, name, base, content, hash, op)
    BY <1>1 DEF Upload
  <2> QED BY <2>1, CreateKeepsIInv, UpdateKeepsIInv
<1>2. CASE Remove
  BY <1>2, DeleteKeepsIInv DEF Remove
<1>3. CASE Move
  BY <1>3, RenameKeepsIInv DEF Move
<1>4. CASE Restore
  BY <1>4, ReviveKeepsIInv DEF Restore
<1>5. CASE TrimChanges
  BY <1>5, TrimKeepsIInv
<1>6. CASE Purge
  BY <1>6, PurgeKeepsIInv
<1>7. CASE DeviceStep
  BY <1>7, DeviceStepKeepsIInv
<1>8. CASE UNCHANGED vars
  BY <1>8 DEF vars, IInv, TypeOK, LedgersAgree, NamesUnique, LogContiguous,
              LogDescribesObjects, DescribesHead, LastOf, RevisionIdentifiesContent,
              LogBelowPresent, Precedes, Live, Dead
<1> QED BY <1>1, <1>2, <1>3, <1>4, <1>5, <1>6, <1>7, <1>8 DEF Next

\* The empty vault satisfies the invariant.
LEMMA InitIInv == Init => IInv
BY DEF Init, EmptyVault, IInv, TypeOK, IsTable, LedgersAgree, NamesUnique, LogContiguous,
       LogDescribesObjects, LastOf, RevisionIdentifiesContent, LogBelowPresent, Live, Dead

\* The inductive invariant holds in every reachable state.
THEOREM Invariance == Spec => []IInv
BY InitIInv, NextKeepsIInv, PTL DEF Spec

\* Every row the handlers write is well typed.
THEOREM TypeCorrect == Spec => []TypeOK
BY Invariance, PTL DEF IInv

\* HEAD rows, deletion records and the object ledger never disagree.
THEOREM Ledgers == Spec => []LedgersAgree
BY Invariance, PTL DEF IInv

\* Live objects never share a name or a collision key.
THEOREM Unique == Spec => []NamesUnique
BY Invariance, PTL DEF IInv

\* The retained log has no gap above its watermark.
THEOREM Contiguous == Spec => []LogContiguous
BY Invariance, PTL DEF IInv

\* The last retained change of an object is its present state.
THEOREM Described == Spec => []LogDescribesObjects
BY Invariance, PTL DEF IInv

\* A revision of an object identifies its content, and revisions never go back.
THEOREM Revisions == Spec => []RevisionIdentifiesContent
BY Invariance, PTL DEF IInv

-----------------------------------------------------------------------------
(***************************************************************************)
(* The object model implements the life of an object: every handler that   *)
(* writes is one action of ObjectLife on one object, purging is Purge, and *)
(* trimming and the devices table are stutters.                            *)
(***************************************************************************)

\* A transaction that writes one HEAD row makes its object alive in that row's
\* revision, generation and metadata generation, and touches no other object.
LEMMA CommitHeadMakesAlive ==
    ASSUME NEW f \in FileIds, NEW row, NEW action, NEW op,
           CommitHead(f, row, action, op),
           DOMAIN tombstones' = Dead \ {f},
           \A g \in Dead \ {f} : tombstones'[g] = tombstones[g]
    PROVE  Life' = [Life EXCEPT ![f] = Abstract!Alive(row.rev, row.gen, row.metaGen)]
<1>1. /\ DOMAIN heads' = DOMAIN heads \cup {f}
      /\ heads'[f] = row
      /\ \A g \in DOMAIN heads : g # f => heads'[g] = heads[g]
      /\ DOMAIN objectState' = DOMAIN objectState \cup {f}
  BY DEF CommitHead, Put
<1> QED BY <1>1 DEF Life, Abstract!Alive, Live, Dead

\* Creating an object is its birth.
LEMMA CreateImplements ==
    ASSUME IInv, NEW f \in FileIds, NEW name \in Names, NEW base,
           NEW content \in Contents, NEW hash, NEW op,
           Create(f, name, base, content, hash, op)
    PROVE  Abstract!Create(f)
<1> DEFINE gen == IF Generation[content] > 0 THEN Generation[content] ELSE 0
           metaGen == IF MetaMode THEN 1 ELSE 0
           row == [rev |-> 1, gen |-> gen, content |-> content, metaGen |-> metaGen,
                   name |-> name, canon |-> CollisionKey(name, hash),
                   env |-> Envelope[content]]
<1>1. /\ CommitHead(f, row, "upsert", op)
      /\ tombstones' = tombstones
      /\ f \notin DOMAIN objectState
  BY DEF Create
<1>2. f \notin Live /\ f \notin Dead
  BY <1>1 DEF IInv, LedgersAgree
<1>3. gen \in Generations
  BY ContentAssumption DEF Generations
<1>4. metaGen \in {0, 1}
  OBVIOUS
<1>5. Life[f] = Abstract!Absent
  BY <1>1, <1>2 DEF Life, Abstract!Absent
<1>6. row.rev = 1 /\ row.gen = gen /\ row.metaGen = metaGen
  OBVIOUS
<1> HIDE DEF row, gen, metaGen
<1>7. Life' = [Life EXCEPT ![f] = Abstract!Alive(1, gen, metaGen)]
  BY <1>1, <1>2, <1>6, CommitHeadMakesAlive DEF Dead
<1> QED BY <1>3, <1>4, <1>5, <1>7 DEF Abstract!Create, Abstract!Become

\* What the mapping says of a live object and of a deleted one.
LEMMA LifeOfObject ==
    ASSUME IInv, NEW f \in FileIds
    PROVE  /\ f \in Live => /\ Life[f].phase = "live"
                            /\ Life[f].rev = heads[f].rev
                            /\ Life[f].gen = heads[f].gen
                            /\ Life[f].metaGen = heads[f].metaGen
           /\ f \in Dead => /\ f \notin Live
                            /\ Life[f].phase = "deleted"
                            /\ Life[f].rev = tombstones[f].rev
                            /\ Life[f].gen = tombstones[f].gen
                            /\ Life[f].metaGen = tombstones[f].metaGen
BY DEF Life, IInv, LedgersAgree

\* New content is an edit: the generation does not go back, because a header's
\* generation must exceed a positive one and no header keeps the old one.
LEMMA UpdateImplements ==
    ASSUME IInv, NEW f \in FileIds, NEW name \in Names, NEW base,
           NEW content \in Contents, NEW hash, NEW op,
           Update(f, name, base, content, hash, op)
    PROVE  Abstract!Edit(f)
<1> DEFINE cur == heads[f]
           gen == IF Generation[content] >= 0 THEN Generation[content] ELSE cur.gen
           row == [rev |-> cur.rev + 1, gen |-> gen, content |-> content,
                   metaGen |-> cur.metaGen, name |-> name,
                   canon |-> IF hash = NoHash THEN cur.canon ELSE hash,
                   env |-> Envelope[content]]
<1>1. /\ CommitHead(f, row, "upsert", op)
      /\ tombstones' = tombstones
      /\ f \in Live
      /\ ~ (Generation[content] >= 0 /\ cur.gen > 0 /\ Generation[content] <= cur.gen)
  BY DEF Update, Named, StaleGeneration
<1>2. f \notin Dead
  BY <1>1 DEF IInv, LedgersAgree
<1>3. cur.gen \in Generations
  BY <1>1 DEF IInv, TypeOK, IsTable, Head, Live
<1>4. gen \in Generations /\ gen >= cur.gen
  BY <1>1, <1>3, ContentAssumption DEF Generations
<1>5. row.rev = cur.rev + 1 /\ row.gen = gen /\ row.metaGen = cur.metaGen
  OBVIOUS
<1> HIDE DEF row, gen, cur
<1>6. Life' = [Life EXCEPT ![f] = Abstract!Alive(cur.rev + 1, gen, cur.metaGen)]
  <2>1. CommitHead(f, row, "upsert", op)
    BY <1>1
  <2>2. /\ DOMAIN tombstones' = Dead \ {f}
        /\ \A g \in Dead \ {f} : tombstones'[g] = tombstones[g]
    BY <1>1, <1>2 DEF Dead
  <2> QED BY <2>1, <2>2, <1>5, CommitHeadMakesAlive
<1> QED BY <1>1, <1>4, <1>6, LifeOfObject DEF Abstract!Edit, Abstract!Become, cur

\* A rename is a rename.
LEMMA RenameImplements ==
    ASSUME IInv, NEW f \in FileIds, NEW from, NEW to, NEW baseMetaGen, NEW hash, NEW op,
           Rename(f, from, to, baseMetaGen, hash, op)
    PROVE  Abstract!Rename(f)
<1> DEFINE cur == heads[f]
           row == [rev |-> cur.rev, gen |-> cur.gen, content |-> cur.content,
                   metaGen |-> cur.metaGen + 1,
                   name |-> to, canon |-> CollisionKey(to, hash), env |-> cur.env]
<1>1. /\ CommitHead(f, row, "upsert", op)
      /\ tombstones' = tombstones
      /\ f \in Live
  BY DEF Rename, Named
<1>2. f \notin Dead
  BY <1>1 DEF IInv, LedgersAgree
<1>3. row.rev = cur.rev /\ row.gen = cur.gen /\ row.metaGen = cur.metaGen + 1
  OBVIOUS
<1> HIDE DEF row
<1>4. Life' = [Life EXCEPT ![f] = Abstract!Alive(cur.rev, cur.gen, cur.metaGen + 1)]
  BY <1>1, <1>2, <1>3, CommitHeadMakesAlive DEF Dead
<1> QED BY <1>1, <1>4, LifeOfObject DEF Abstract!Rename, Abstract!Become

\* An explicit restore is a restore: a generation the request carries over a
\* positive one must exceed it.
LEMMA ReviveImplements ==
    ASSUME IInv, NEW f \in FileIds, NEW expected, NEW gen \in Generations,
           NEW name, NEW hash, NEW op,
           Revive(f, expected, gen, name, hash, op)
    PROVE  Abstract!Restore(f)
<1> DEFINE tomb == tombstones[f]
           row(env) == [rev |-> tomb.rev + 1, gen |-> gen, content |-> tomb.prior,
                        metaGen |-> tomb.metaGen + 1, name |-> name,
                        canon |-> CollisionKey(name, hash), env |-> env]
<1>1. /\ f \in Dead
      /\ tombstones' = Drop(tombstones, {f})
      /\ ~ (tomb.gen > 0 /\ gen <= tomb.gen)
  BY DEF Revive
<1>2. PICK env \in {0, Envelope[tomb.prior]} : CommitHead(f, row(env), "restore", op)
  BY DEF Revive
<1>3. /\ DOMAIN tombstones' = Dead \ {f}
      /\ \A g \in Dead \ {f} : tombstones'[g] = tombstones[g]
  BY <1>1 DEF Drop, Restrict, Dead
<1>4. tomb.gen \in Generations
  BY <1>1 DEF IInv, TypeOK, IsTable, Tombstone, Dead
<1>5. gen >= tomb.gen
  BY <1>1, <1>4, ContentAssumption DEF Generations
<1>6. /\ row(env).rev = tomb.rev + 1 /\ row(env).gen = gen
      /\ row(env).metaGen = tomb.metaGen + 1
  OBVIOUS
<1> HIDE DEF row
<1>7. Life' = [Life EXCEPT ![f] = Abstract!Alive(tomb.rev + 1, gen, tomb.metaGen + 1)]
  BY <1>2, <1>3, <1>6, CommitHeadMakesAlive
<1> QED BY <1>1, <1>5, <1>7, LifeOfObject DEF Abstract!Restore, Abstract!Become

\* A deletion is a deletion.
LEMMA DeleteImplements ==
    ASSUME IInv, NEW f \in FileIds, NEW name, NEW base, NEW op,
           Delete(f, name, base, op)
    PROVE  Abstract!Delete(f)
<1> DEFINE cur == heads[f]
           dead == [rev |-> cur.rev + 1, gen |-> cur.gen, prior |-> cur.content,
                    metaGen |-> cur.metaGen, name |-> cur.name, canon |-> cur.canon,
                    seq |-> headSequence + 1]
<1>1. /\ f \in Live
      /\ tombstones' = Put(tombstones, f, dead)
      /\ heads' = Drop(heads, {f})
      /\ objectState' = Put(objectState, f, "deleted")
  BY DEF Delete, Named
<1>2. dead.rev = cur.rev + 1 /\ dead.gen = cur.gen /\ dead.metaGen = cur.metaGen
  OBVIOUS
<1> HIDE DEF dead
<1>3. /\ DOMAIN heads' = DOMAIN heads \ {f}
      /\ \A g \in DOMAIN heads \ {f} : heads'[g] = heads[g]
      /\ DOMAIN tombstones' = DOMAIN tombstones \cup {f}
      /\ tombstones'[f] = dead
      /\ \A g \in DOMAIN tombstones : g # f => tombstones'[g] = tombstones[g]
      /\ DOMAIN objectState' = DOMAIN objectState \cup {f}
  BY <1>1 DEF Put, Drop, Restrict
<1>4. Life' = [Life EXCEPT ![f] = Abstract!Gone(cur.rev + 1, cur.gen, cur.metaGen)]
  BY <1>2, <1>3 DEF Life, Abstract!Gone, Live, Dead
<1> QED BY <1>1, <1>4, LifeOfObject DEF Abstract!Delete, Abstract!Become

\* Purging deletion records is Purge of the objects that had them.
LEMMA PurgeImplements ==
    ASSUME IInv, Purge
    PROVE  Abstract!Purge
<1>1. PICK expired \in SUBSET Dead : PurgeTombstones(expired)
  BY DEF Purge
<1> DEFINE gone == {f \in expired : Acknowledged(tombstones[f].seq)}
<1>2. /\ tombstones' = Drop(tombstones, gone)
      /\ UNCHANGED <<heads, objectState>>
  BY <1>1 DEF PurgeTombstones
<1>3. \A f \in gone : f \in Dead /\ f \notin Live /\ f \in DOMAIN objectState /\ f \in FileIds
  BY DEF IInv, TypeOK, IsTable, LedgersAgree, Dead
<1>4. gone \in SUBSET {f \in FileIds : Life[f].phase = "deleted"}
  BY <1>3, LifeOfObject
<1> HIDE DEF gone
<1>5. Life' = [f \in FileIds |-> IF f \in gone THEN Abstract!Purged ELSE Life[f]]
  BY <1>2, <1>3 DEF Life, Abstract!Purged, Drop, Restrict, Live, Dead
<1> QED BY <1>4, <1>5 DEF Abstract!Purge

\* The empty vault is the initial state of every life.
LEMMA InitImplements == Init => Abstract!Init
BY DEF Init, EmptyVault, Abstract!Init, Life, Abstract!Absent, Live, Dead

\* Every step of the object model is a step of one life, a purge or a stutter.
LEMMA NextImplements == IInv /\ [Next]_vars => [Abstract!Next]_Life
<1> SUFFICES ASSUME IInv, [Next]_vars
             PROVE  Abstract!Next \/ UNCHANGED Life
  OBVIOUS
<1>1. CASE Upload
  <2>1. PICK f \in FileIds, name \in Names, base \in 0..MaxSequence, content \in Contents,
             hash \in Hashes \cup {NoHash}, op \in Operations \cup {NoOperation} :
             \/ Create(f, name, base, content, hash, op)
             \/ Update(f, name, base, content, hash, op)
    BY <1>1 DEF Upload
  <2> QED BY <2>1, CreateImplements, UpdateImplements DEF Abstract!Next
<1>2. CASE Remove
  BY <1>2, DeleteImplements DEF Remove, Abstract!Next
<1>3. CASE Move
  BY <1>3, RenameImplements DEF Move, Abstract!Next
<1>4. CASE Restore
  BY <1>4, ReviveImplements DEF Restore, Abstract!Next
<1>5. CASE TrimChanges
  BY <1>5 DEF TrimChanges, Life, Live, Dead
<1>6. CASE Purge
  BY <1>6, PurgeImplements DEF Abstract!Next
<1>7. CASE DeviceStep
  BY <1>7 DEF DeviceStep, EnrollDevice, RevokeDevice, AckSequence, Life, Live, Dead
<1>8. CASE UNCHANGED vars
  BY <1>8 DEF vars, Life, Live, Dead
<1> QED BY <1>1, <1>2, <1>3, <1>4, <1>5, <1>6, <1>7, <1>8 DEF Next

\* The object model implements ObjectLife: revisions are continuous across
\* updates, renames, deletions and restores, generations never go back, and
\* an object whose deletion record has been purged never returns.
THEOREM Implementation == Spec => LifeSpec
BY InitImplements, NextImplements, Invariance, PTL DEF Spec, LifeSpec, Abstract!Spec

-----------------------------------------------------------------------------
\* After a commit of a HEAD row the live objects are those before and its object.
LEMMA CommitHeadLive ==
    ASSUME NEW f, NEW row, NEW action, NEW op, CommitHead(f, row, action, op)
    PROVE  /\ DOMAIN heads' = Live \cup {f}
           /\ heads'[f] = row
BY DEF CommitHead, Put, Live

\* Who becomes live in a step was restored, or is new under an unguarded name.
LEMMA NobodyResurrected ==
    ASSUME [Next]_vars, NEW f \in DOMAIN heads' \ Live
    PROVE  f \in Dead \/ Unguarded(heads'[f])
<1>1. CASE Upload
  <2>1. PICK g \in FileIds, name \in Names, base \in 0..MaxSequence, content \in Contents,
             hash \in Hashes \cup {NoHash}, op \in Operations \cup {NoOperation} :
             \/ Create(g, name, base, content, hash, op)
             \/ Update(g, name, base, content, hash, op)
    BY <1>1 DEF Upload
  <2>2. CASE Create(g, name, base, content, hash, op)
    <3> DEFINE canon == CollisionKey(name, hash)
               row == [rev |-> 1,
                       gen |-> IF Generation[content] > 0 THEN Generation[content] ELSE 0,
                       content |-> content, metaGen |-> IF MetaMode THEN 1 ELSE 0,
                       name |-> name, canon |-> canon, env |-> Envelope[content]]
    <3>1. CommitHead(g, row, "upsert", op) /\ ~ TombstoneFound(name, canon)
      BY <2>2 DEF Create
    <3>2. row.name = name /\ row.canon = canon
      OBVIOUS
    <3> HIDE DEF row
    <3>3. CommitHead(g, row, "upsert", op)
      BY <3>1
    <3>4. DOMAIN heads' = Live \cup {g} /\ heads'[g] = row
      BY <3>3, CommitHeadLive, Zenon
    <3>5. f = g
      BY <3>4
    <3> QED BY <3>1, <3>2, <3>4, <3>5 DEF TombstoneFound, Unguarded
  <2>3. CASE Update(g, name, base, content, hash, op)
    <3>1. g \in Live
      BY <2>3 DEF Update, Named
    <3>2. DOMAIN heads' = Live \cup {g}
      BY <2>3 DEF Update, CommitHead, Put, Live
    <3> QED BY <3>1, <3>2
  <2> QED BY <2>1, <2>2, <2>3
<1>2. CASE Remove
  BY <1>2 DEF Remove, Delete, Drop, Restrict, Live
<1>3. CASE Move
  <2>1. PICK g \in FileIds, from, to \in Names, baseMetaGen \in 0..MaxSequence,
             hash \in Hashes, op \in Operations \cup {NoOperation} :
             Rename(g, from, to, baseMetaGen, hash, op)
    BY <1>3 DEF Move
  <2>2. g \in Live
    BY <2>1 DEF Rename, Named
  <2>3. DOMAIN heads' = Live \cup {g}
    BY <2>1 DEF Rename, CommitHead, Put, Live
  <2> QED BY <2>2, <2>3
<1>4. CASE Restore
  <2>1. PICK g \in FileIds, expected \in 1..MaxSequence, gen \in Generations,
             name \in Names, hash \in Hashes, op \in Operations \cup {NoOperation} :
             Revive(g, expected, gen, name, hash, op)
    BY <1>4 DEF Restore
  <2>2. g \in Dead
    BY <2>1 DEF Revive
  <2>3. DOMAIN heads' = Live \cup {g}
    BY <2>1 DEF Revive, CommitHead, Put, Live
  <2> QED BY <2>2, <2>3
<1>5. CASE TrimChanges
  BY <1>5 DEF TrimChanges, Live
<1>6. CASE Purge
  BY <1>6 DEF Purge, PurgeTombstones, Live
<1>7. CASE DeviceStep
  BY <1>7 DEF DeviceStep, EnrollDevice, RevokeDevice, AckSequence, Live
<1>8. CASE UNCHANGED vars
  BY <1>8 DEF vars, Live
<1> QED BY <1>1, <1>2, <1>3, <1>4, <1>5, <1>6, <1>7, <1>8 DEF Next

\* No deleted content comes back by an upload, whatever name or collision key it
\* is sent under.
THEOREM NothingResurrected == Spec => NoSilentResurrection
<1>1. [Next]_vars => [\A f \in DOMAIN heads' \ Live :
          f \in Dead \/ Unguarded(heads'[f])]_vars
  BY NobodyResurrected
<1> QED BY <1>1, PTL DEF Spec, NoSilentResurrection
=============================================================================
