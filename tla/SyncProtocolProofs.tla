------------------------- MODULE SyncProtocolProofs -------------------------
(***************************************************************************)
(* Theorems about SyncProtocol, for any devices, objects, names, contents  *)
(* and any number of requests, delivered in any order and any number of    *)
(* times.                                                                  *)
(*                                                                         *)
(* The server's own invariant (ObjectModelProofs) carries over to the      *)
(* server among its devices.  What is added says that whatever a device    *)
(* knows of an object, or has written into a request, is about a past of   *)
(* that object, and that the objects only move on: revisions and metadata  *)
(* generations never fall, and a purged object never comes back.           *)
(***************************************************************************)
EXTENDS SyncProtocol, ObjectModelProofs, WellFoundedInduction

USE ProtocolAssumption, RequestAssumption, ContentAssumption DEF Overwriting

(***************************************************************************)
(* The inductive invariant                                                 *)
(***************************************************************************)

\* The present revision of the object, if it has one, is not below a revision
\* that was seen with a content, and the content goes with the revision.
SeenBefore(f, rev, content) ==
    /\ f \in DOMAIN objectState
    /\ f \in Live => /\ rev <= heads[f].rev
                     /\ rev = heads[f].rev => content = heads[f].content
    /\ f \in Dead => rev <= tombstones[f].rev

\* What was asked for can no longer be done to the object.
Spent(r, f) ==
    /\ f \in DOMAIN objectState
    /\ r.kind \in {"update", "delete", "restore"} =>
          /\ f \in Live => r.base < heads[f].rev
          /\ f \in Dead => r.base < tombstones[f].rev
    /\ r.kind = "rename" =>
          /\ f \in Live => r.base < heads[f].metaGen
          /\ f \in Dead => r.base < tombstones[f].metaGen

\* Devices and the network are well-typed.
ClientTypes ==
    /\ DOMAIN mirror = Devices
    /\ \A d \in Devices : IsTable(mirror[d], FileIds, Views)
    /\ cursor \in [Devices -> Nat]
    /\ DOMAIN inbox = Devices
    /\ \A d \in Devices : inbox[d] # Nothing =>
          /\ inbox[d].to \in Nat
          /\ inbox[d].touched \subseteq FileIds
          /\ IsTable(inbox[d].views, inbox[d].touched, Views)
    /\ \A r \in sent : r \in Request
    /\ lastOp \in 0..MaxRequests

\* A device acknowledges what it has applied, and applies what there is.
CursorsBehind ==
    /\ \A d \in Devices :
          /\ cursor[d] <= headSequence
          /\ inbox[d] # Nothing => cursor[d] <= inbox[d].to /\ inbox[d].to <= headSequence
    /\ \A d \in Enrolled : acked[d] <= cursor[d]

\* A device knows an object by a name.
KnowsAs(d, f, name) == f \in DOMAIN mirror[d] /\ mirror[d][f].name = name

\* What devices know and have written is about the past.
KnownBefore ==
    /\ \A d \in Devices, f \in FileIds :
          /\ f \in DOMAIN mirror[d]
                => SeenBefore(f, mirror[d][f].rev, mirror[d][f].content)
          /\ inbox[d] # Nothing /\ f \in DOMAIN inbox[d].views
                => SeenBefore(f, inbox[d].views[f].rev, inbox[d].views[f].content)
    /\ \A r \in sent : r.kind \in Overwriting => r.file \in FileIds /\ SeenBefore(r.file, r.base, r.seen)

\* An operation id is one request, and what it did cannot be done again.
EffectsSpent ==
    /\ \A r \in sent : r.op <= lastOp
    /\ \A r, q \in sent : r.op = q.op => r = q
    /\ \A r \in sent : r.kind # "create" => r.file \in FileIds
    /\ \A e \in effects : e.op \in 1..lastOp
    /\ \A e \in effects, r \in sent : r.op = e.op => Spent(r, e.file)

\* A purged record was known to all who are enrolled and to all who have sent.
GravesKnown ==
    \A grave \in graves :
        /\ grave.seq \in Nat
        /\ \A d \in Enrolled : grave.seq <= acked[d]
        /\ \A r \in sent : grave.seq <= r.sentAt

\* No retained write lacks its content.
WritesHaveContent ==
    \A s \in DOMAIN changes : changes[s].action # "delete" => changes[s].content \in Contents

\* No object has seen more commits than there were.
RevisionsCounted ==
    /\ headSequence <= MaxSequence
    /\ \A f \in Live : /\ heads[f].rev \in 1..headSequence
                       /\ heads[f].metaGen \in 0..headSequence
    /\ \A f \in Dead : /\ tombstones[f].rev \in 1..headSequence
                       /\ tombstones[f].metaGen \in 0..headSequence

\* Everything a vault can be for a device.
Vaults == UNION {[known -> Views] : known \in SUBSET FileIds}

\* Two vaults hold the same of an object.
SameOf(f, one, other) ==
    /\ f \in DOMAIN one <=> f \in DOMAIN other
    /\ f \in DOMAIN one => one[f] = other[f]

\* The past begins with nothing and ends with the present.
PastKept ==
    /\ DOMAIN past = 0..headSequence
    /\ \A s \in 0..headSequence : past[s] \in Vaults
    /\ past[0] = << >>
    /\ past[headSequence] = Snapshot

\* A retained change leads from the vault before it to the vault after it.
LogReplaysPast ==
    \A s \in DOMAIN changes :
        LET c == changes[s]
        IN  /\ \A g \in FileIds \ {c.file} : SameOf(g, past[s - 1], past[s])
            /\ c.action = "delete" => c.file \notin DOMAIN past[s]
            /\ c.action # "delete" => /\ c.file \in DOMAIN past[s]
                                      /\ past[s][c.file] = View(c)

SyncInv ==
    /\ IInv /\ WritesHaveContent /\ RevisionsCounted
    /\ ClientTypes /\ CursorsBehind
    /\ PastKept /\ LogReplaysPast /\ MirrorsArePast
    /\ KnownBefore /\ EffectsSpent /\ AtMostOncePerObject /\ GravesKnown

-----------------------------------------------------------------------------
(***************************************************************************)
(* What a write does to the server                                         *)
(***************************************************************************)

\* The object moves on, or stays as it is.
Onward(f) ==
    /\ f \in DOMAIN objectState => f \in DOMAIN objectState'
    /\ f \in Live' /\ f \in DOMAIN objectState =>
          \/ /\ f \in Live
             /\ heads[f].rev <= heads'[f].rev /\ heads[f].metaGen <= heads'[f].metaGen
             /\ heads[f].rev = heads'[f].rev => heads[f].content = heads'[f].content
          \/ /\ f \in Dead
             /\ tombstones[f].rev < heads'[f].rev
             /\ tombstones[f].metaGen <= heads'[f].metaGen
    /\ f \in Dead' =>
          \/ f \in Dead /\ tombstones'[f] = tombstones[f]
          \/ /\ f \in Live
             /\ heads[f].rev <= tombstones'[f].rev
             /\ heads[f].metaGen <= tombstones'[f].metaGen

\* A commit on one object: the log and that object grow, nothing else changes.
Written(f) ==
    /\ headSequence < MaxSequence /\ headSequence' = headSequence + 1
    /\ UNCHANGED <<minRetained, acked>>
    /\ DOMAIN changes' = DOMAIN changes \cup {headSequence + 1}
    /\ headSequence + 1 \notin DOMAIN changes
    /\ \A s \in DOMAIN changes : changes'[s] = changes[s]
    /\ changes'[headSequence + 1].file = f
    /\ changes'[headSequence + 1].action # "delete"
          => changes'[headSequence + 1].content \in Contents
    /\ DOMAIN objectState' = DOMAIN objectState \cup {f}
    /\ \A g \in FileIds \ {f} : g \in Live' <=> g \in Live
    /\ \A g \in Live \ {f} : heads'[g] = heads[g]
    /\ \A g \in FileIds \ {f} : g \in Dead' <=> g \in Dead
    /\ \A g \in Dead \ {f} : tombstones'[g] = tombstones[g]

\* The object appears, disappears, or becomes something else for the devices.
Changed(f) ==
    /\ f \in Live \/ f \in Live'
    /\ f \in Live /\ f \in Live' => View(heads'[f]) # View(heads[f])

\* One object takes one step of its life (ObjectLife).
LifeStep(f) ==
    \/ Abstract!Create(f) \/ Abstract!Edit(f) \/ Abstract!Rename(f)
    \/ Abstract!Delete(f) \/ Abstract!Restore(f)

\* Tables of the server, in the types their rows have.
LEMMA RowsTyped ==
    ASSUME TypeOK
    PROVE  /\ Live \subseteq FileIds /\ Dead \subseteq FileIds
           /\ \A f \in Live : heads[f].rev \in Nat /\ heads[f].metaGen \in Nat
                                /\ heads[f].content \in Contents /\ View(heads[f]) \in Views
           /\ \A f \in Dead : tombstones[f].rev \in Nat /\ tombstones[f].metaGen \in Nat
                                /\ tombstones[f].seq \in Nat /\ tombstones[f].prior \in Contents
                                /\ tombstones[f].name \in Names
           /\ \A s \in DOMAIN changes : s \in Nat /\ changes[s].rev \in Nat
           /\ \A d \in Enrolled : d \in Devices /\ acked[d] \in Nat
<1>1. \A f \in Live : f \in FileIds /\ heads[f] \in Head
  BY DEF TypeOK, IsTable, Live
<1>2. \A f \in Live : View(heads[f]) \in Views
  BY <1>1 DEF View, Views, Head
<1>3. \A f \in Dead : f \in FileIds /\ tombstones[f] \in Tombstone
  BY DEF TypeOK, IsTable, Dead
<1>4. \A s \in DOMAIN changes : s \in Nat /\ changes[s] \in Change
  BY DEF TypeOK, IsTable
<1>5. \A d \in Enrolled : d \in Devices /\ acked[d] \in Nat
  BY DEF TypeOK, IsTable, Enrolled
<1>6. \A f \in Live :
         heads[f].rev \in Nat /\ heads[f].metaGen \in Nat /\ heads[f].content \in Contents
  BY <1>1 DEF Head
<1>7. \A f \in Dead : /\ tombstones[f].rev \in Nat /\ tombstones[f].metaGen \in Nat
                      /\ tombstones[f].seq \in Nat /\ tombstones[f].prior \in Contents
                      /\ tombstones[f].name \in Names
  BY <1>3 DEF Tombstone
<1>8. \A s \in DOMAIN changes : s \in Nat /\ changes[s].rev \in Nat
  BY <1>4 DEF Change
<1> QED BY <1>1, <1>2, <1>3, <1>5, <1>6, <1>7, <1>8

\* An insert into the log, as the lemmas below need it.
LEMMA InsertGrowsLog ==
    ASSUME IInv, minRetained' = minRetained, NEW f, NEW action, NEW row, NEW content, NEW op,
           InsertChange(f, action, row, content, op)
    PROVE  /\ headSequence < MaxSequence /\ headSequence' = headSequence + 1
           /\ DOMAIN changes' = DOMAIN changes \cup {headSequence + 1}
           /\ headSequence + 1 \notin DOMAIN changes
           /\ \A s \in DOMAIN changes : changes'[s] = changes[s]
           /\ changes'[headSequence + 1].file = f
           /\ changes'[headSequence + 1].action = action
           /\ changes'[headSequence + 1].content = content
<1>1. headSequence \in Nat /\ \A s \in DOMAIN changes : s <= headSequence
  BY DEF IInv, TypeOK, LogContiguous
<1>2. headSequence + 1 \notin DOMAIN changes
  BY <1>1
<1> DEFINE new == [file |-> f, action |-> action, rev |-> row.rev, gen |-> row.gen,
                   metaGen |-> row.metaGen, name |-> row.name, content |-> content, op |-> op]
<1>3. /\ headSequence < MaxSequence /\ headSequence' = headSequence + 1
      /\ changes' = Put(changes, headSequence + 1, new)
  BY DEF InsertChange
<1>4. /\ DOMAIN changes' = DOMAIN changes \cup {headSequence + 1}
      /\ changes'[headSequence + 1] = new
  BY <1>3 DEF Put
<1>5. \A s \in DOMAIN changes : changes'[s] = changes[s]
  BY <1>2, <1>3 DEF Put
<1> QED BY <1>2, <1>3, <1>4, <1>5

\* A committed HEAD row, with the deletion record of its object gone.
LEMMA CommitHeadWrites ==
    ASSUME IInv, NEW f \in FileIds, NEW row, NEW action \in {"upsert", "restore"}, NEW op,
           CommitHead(f, row, action, op), row.content \in Contents,
           UNCHANGED <<minRetained, acked>>,
           DOMAIN tombstones' = Dead \ {f},
           \A g \in Dead \ {f} : tombstones'[g] = tombstones[g]
    PROVE  Written(f) /\ f \in Live' /\ f \notin Dead' /\ heads'[f] = row
<1>1. InsertChange(f, action, row, row.content, op)
  BY DEF CommitHead
<1>2. /\ DOMAIN heads' = DOMAIN heads \cup {f} /\ heads'[f] = row
      /\ DOMAIN objectState' = DOMAIN objectState \cup {f}
  BY DEF CommitHead, Put
<1>3. \A g \in Live \ {f} : heads'[g] = heads[g]
  BY DEF CommitHead, Put, Live
<1> QED BY <1>1, <1>2, <1>3, InsertGrowsLog DEF Written, Live, Dead

\* The five handlers.
LEMMA CreateWrites ==
    ASSUME IInv, NEW f \in FileIds, NEW name \in Names, NEW base, NEW content \in Contents,
           NEW op \in Operations, Create(f, name, base, content, NoHash, op)
    PROVE  IInv' /\ Written(f) /\ Onward(f) /\ Changed(f) /\ f \notin DOMAIN objectState
<1>1. IInv'
  BY CreateKeepsIInv
<1>2. f \notin DOMAIN objectState /\ UNCHANGED <<tombstones, minRetained, acked>>
  BY DEF Create
<1>3. f \notin Live /\ f \notin Dead
  BY <1>2 DEF IInv, LedgersAgree
<1>7. DOMAIN tombstones' = Dead \ {f} /\ \A g \in Dead \ {f} : tombstones'[g] = tombstones[g]
  BY <1>2, <1>3 DEF Dead
<1>4. PICK row : CommitHead(f, row, "upsert", op) /\ row.content = content
  BY DEF Create
<1>5. Written(f) /\ f \in Live' /\ f \notin Dead'
  BY <1>2, <1>4, <1>7, CommitHeadWrites
<1> QED BY <1>1, <1>2, <1>3, <1>5 DEF Onward, Changed

LEMMA UpdateWrites ==
    ASSUME IInv, NEW f \in FileIds, NEW name \in Names, NEW base, NEW content \in Contents,
           NEW op \in Operations, Update(f, name, base, content, NoHash, op)
    PROVE  /\ IInv' /\ Written(f) /\ Onward(f) /\ Changed(f)
           /\ f \in Live /\ base = heads[f].rev
           /\ f \in Live' /\ f \notin Dead' /\ heads'[f].rev = heads[f].rev + 1
<1>1. IInv'
  BY UpdateKeepsIInv
<1>2. f \in Live /\ base = heads[f].rev /\ UNCHANGED <<tombstones, minRetained, acked>>
  BY DEF Update, Named, BaseMatches
<1>3. f \notin Dead
  BY <1>2 DEF IInv, LedgersAgree
<1>7. DOMAIN tombstones' = Dead \ {f} /\ \A g \in Dead \ {f} : tombstones'[g] = tombstones[g]
  BY <1>2, <1>3 DEF Dead
<1>4. PICK row : /\ CommitHead(f, row, "upsert", op) /\ row.content = content
                 /\ row.rev = heads[f].rev + 1 /\ row.metaGen = heads[f].metaGen
  BY DEF Update
<1>5. Written(f) /\ f \in Live' /\ f \notin Dead' /\ heads'[f] = row
  BY <1>2, <1>4, <1>7, CommitHeadWrites
<1>6. heads[f].rev \in Nat /\ heads[f].metaGen \in Nat
  BY <1>2, RowsTyped DEF IInv
<1> QED BY <1>1, <1>2, <1>4, <1>5, <1>6 DEF Onward, Written, Changed, View

LEMMA RenameWrites ==
    ASSUME IInv, NEW f \in FileIds, NEW from \in Names, NEW to \in Names, NEW base,
           NEW op \in Operations, Rename(f, from, to, base, NoHash, op)
    PROVE  /\ IInv' /\ Written(f) /\ Onward(f) /\ Changed(f)
           /\ f \in Live /\ base = heads[f].metaGen
           /\ f \in Live' /\ f \notin Dead' /\ heads'[f].metaGen = heads[f].metaGen + 1
<1>1. IInv'
  BY RenameKeepsIInv DEF Hashes
<1>2. f \in Live /\ base = heads[f].metaGen /\ UNCHANGED <<tombstones, minRetained, acked>>
  BY DEF Rename, Named
<1>3. f \notin Dead
  BY <1>2 DEF IInv, LedgersAgree
<1>7. DOMAIN tombstones' = Dead \ {f} /\ \A g \in Dead \ {f} : tombstones'[g] = tombstones[g]
  BY <1>2, <1>3 DEF Dead
<1>4. PICK row : /\ CommitHead(f, row, "upsert", op) /\ row.content = heads[f].content
                 /\ row.rev = heads[f].rev /\ row.metaGen = heads[f].metaGen + 1
  BY DEF Rename
<1>5. heads[f].rev \in Nat /\ heads[f].metaGen \in Nat /\ heads[f].content \in Contents
  BY <1>2, RowsTyped DEF IInv
<1>6. Written(f) /\ f \in Live' /\ f \notin Dead' /\ heads'[f] = row
  BY <1>2, <1>4, <1>5, <1>7, CommitHeadWrites
<1> QED BY <1>1, <1>2, <1>4, <1>5, <1>6 DEF Onward, Written, Changed, View

LEMMA ReviveWrites ==
    ASSUME IInv, NEW f \in FileIds, NEW base, NEW gen \in Generations, NEW name \in Names,
           NEW op \in Operations, Revive(f, base, gen, name, NoHash, op)
    PROVE  /\ IInv' /\ Written(f) /\ Onward(f) /\ Changed(f)
           /\ f \in Dead /\ base = tombstones[f].rev
           /\ f \in Live' /\ f \notin Dead' /\ heads'[f].rev = tombstones[f].rev + 1
<1>1. IInv'
  BY ReviveKeepsIInv DEF Hashes
<1>2. /\ f \in Dead /\ base = tombstones[f].rev /\ UNCHANGED <<minRetained, acked>>
      /\ tombstones' = Drop(tombstones, {f})
  BY DEF Revive
<1>3. /\ tombstones[f].rev \in Nat /\ tombstones[f].metaGen \in Nat
      /\ tombstones[f].prior \in Contents
  BY <1>2, RowsTyped DEF IInv
<1>4. PICK row : /\ CommitHead(f, row, "restore", op) /\ row.content = tombstones[f].prior
                 /\ row.rev = tombstones[f].rev + 1 /\ row.metaGen = tombstones[f].metaGen + 1
  BY DEF Revive
<1>5. DOMAIN tombstones' = Dead \ {f} /\ \A g \in Dead \ {f} : tombstones'[g] = tombstones[g]
  BY <1>2, DropRows DEF Dead
<1>6. Written(f) /\ f \in Live' /\ f \notin Dead' /\ heads'[f] = row
  BY <1>2, <1>3, <1>4, <1>5, CommitHeadWrites
<1>7. /\ tombstones[f].rev < heads'[f].rev /\ tombstones[f].metaGen <= heads'[f].metaGen
      /\ heads'[f].rev = tombstones[f].rev + 1
  BY <1>3, <1>4, <1>6
<1>8. Onward(f)
  BY <1>2, <1>6, <1>7 DEF Onward, Written
<1>9. Changed(f)
  BY <1>2, <1>6 DEF Changed, IInv, LedgersAgree
<1> QED BY <1>1, <1>2, <1>6, <1>7, <1>8, <1>9

LEMMA DeleteWrites ==
    ASSUME IInv, NEW f \in FileIds, NEW name, NEW base, NEW op \in Operations,
           Delete(f, name, base, op)
    PROVE  /\ IInv' /\ Written(f) /\ Onward(f) /\ Changed(f)
           /\ f \in Live /\ base = heads[f].rev
           /\ f \in Dead' /\ f \notin Live' /\ tombstones'[f].rev = heads[f].rev + 1
<1>1. IInv'
  BY DeleteKeepsIInv
<1>2. PICK dead : /\ InsertChange(f, "delete", dead, NoHash, op)
                  /\ tombstones' = Put(tombstones, f, dead)
                  /\ dead.rev = heads[f].rev + 1 /\ dead.metaGen = heads[f].metaGen
  BY DEF Delete
<1>3. /\ f \in Live /\ base = heads[f].rev /\ UNCHANGED <<minRetained, acked>>
      /\ heads' = Drop(heads, {f}) /\ objectState' = Put(objectState, f, "deleted")
  BY DEF Delete, Named, BaseMatches
<1>4. heads[f].rev \in Nat /\ heads[f].metaGen \in Nat
  BY <1>3, RowsTyped DEF IInv
<1>5. DOMAIN heads' = Live \ {f} /\ \A g \in Live \ {f} : heads'[g] = heads[g]
  BY <1>3, DropRows DEF Live
<1>6. DOMAIN tombstones' = Dead \cup {f} /\ tombstones'[f] = dead
  BY <1>2 DEF Put, Dead
<1>7. \A g \in Dead \ {f} : tombstones'[g] = tombstones[g]
  BY <1>2 DEF Put, Dead
<1>8. DOMAIN objectState' = DOMAIN objectState \cup {f}
  BY <1>3 DEF Put
<1>9. Written(f)
  BY <1>2, <1>3, <1>5, <1>6, <1>7, <1>8, InsertGrowsLog DEF Written, Live, Dead
<1> QED BY <1>1, <1>2, <1>3, <1>4, <1>5, <1>6, <1>8, <1>9 DEF Onward, Changed, Live, Dead

-----------------------------------------------------------------------------
(***************************************************************************)
(* A request that is handled                                               *)
(***************************************************************************)

\* What a device knew of an object, after the step.
SeenNext(f, rev, content) ==
    /\ f \in DOMAIN objectState'
    /\ f \in Live' => /\ rev <= heads'[f].rev
                      /\ rev = heads'[f].rev => content = heads'[f].content
    /\ f \in Dead' => rev <= tombstones'[f].rev

\* What was asked for can no longer be done, after the step.
SpentNext(r, f) ==
    /\ f \in DOMAIN objectState'
    /\ r.kind \in {"update", "delete", "restore"} =>
          /\ f \in Live' => r.base < heads'[f].rev
          /\ f \in Dead' => r.base < tombstones'[f].rev
    /\ r.kind = "rename" =>
          /\ f \in Live' => r.base < heads'[f].metaGen
          /\ f \in Dead' => r.base < tombstones'[f].metaGen

\* Onward keeps what was seen in the past.
LEMMA OnwardKeepsSeen ==
    ASSUME TypeOK, TypeOK', NEW f \in FileIds, Onward(f),
           NEW rev \in Nat, NEW content, SeenBefore(f, rev, content)
    PROVE  SeenNext(f, rev, content)
<1>1. /\ f \in Live => heads[f].rev \in Nat
      /\ f \in Dead => tombstones[f].rev \in Nat
  BY RowsTyped
<1>2. f \in Live' => heads'[f] \in Head
  BY DEF TypeOK, IsTable, Live
<1>3. f \in Dead' => tombstones'[f] \in Tombstone
  BY DEF TypeOK, IsTable, Dead
<1>4. f \in Live' => heads'[f].rev \in Nat
  BY <1>2 DEF Head
<1>5. f \in Dead' => tombstones'[f].rev \in Nat
  BY <1>3 DEF Tombstone
<1>6. f \in DOMAIN objectState /\ f \in DOMAIN objectState'
  BY DEF Onward, SeenBefore
<1>7. ASSUME f \in Live'
      PROVE  /\ rev <= heads'[f].rev
             /\ rev = heads'[f].rev => content = heads'[f].content
  <2>1. CASE f \in Live /\ heads[f].rev <= heads'[f].rev
              /\ (heads[f].rev = heads'[f].rev => heads[f].content = heads'[f].content)
    BY <1>1, <1>4, <1>7, <2>1 DEF SeenBefore
  <2>2. CASE f \in Dead /\ tombstones[f].rev < heads'[f].rev
    BY <1>1, <1>4, <1>7, <2>2 DEF SeenBefore
  <2> QED BY <1>6, <1>7, <2>1, <2>2 DEF Onward
<1>8. ASSUME f \in Dead' PROVE rev <= tombstones'[f].rev
  <2>1. CASE f \in Dead /\ tombstones'[f] = tombstones[f]
    BY <2>1 DEF SeenBefore
  <2>2. CASE f \in Live /\ heads[f].rev <= tombstones'[f].rev
    BY <1>1, <1>5, <1>8, <2>2 DEF SeenBefore
  <2> QED BY <1>8, <2>1, <2>2 DEF Onward
<1> QED BY <1>6, <1>7, <1>8 DEF SeenNext

\* Onward keeps what is spent spent.
LEMMA OnwardKeepsSpent ==
    ASSUME TypeOK, TypeOK', NEW f \in FileIds, Onward(f), NEW r, r.base \in Nat, Spent(r, f)
    PROVE  SpentNext(r, f)
<1>1. /\ f \in Live => heads[f].rev \in Nat /\ heads[f].metaGen \in Nat
      /\ f \in Dead => tombstones[f].rev \in Nat /\ tombstones[f].metaGen \in Nat
  BY RowsTyped
<1>2. f \in Live' => heads'[f] \in Head
  BY DEF TypeOK, IsTable, Live
<1>3. f \in Dead' => tombstones'[f] \in Tombstone
  BY DEF TypeOK, IsTable, Dead
<1>4. f \in Live' => heads'[f].rev \in Nat /\ heads'[f].metaGen \in Nat
  BY <1>2 DEF Head
<1>5. f \in Dead' => tombstones'[f].rev \in Nat /\ tombstones'[f].metaGen \in Nat
  BY <1>3 DEF Tombstone
<1>6. f \in DOMAIN objectState /\ f \in DOMAIN objectState'
  BY DEF Onward, Spent
<1>7. ASSUME f \in Live'
      PROVE  /\ r.kind \in {"update", "delete", "restore"} => r.base < heads'[f].rev
             /\ r.kind = "rename" => r.base < heads'[f].metaGen
  <2>1. CASE f \in Live /\ heads[f].rev <= heads'[f].rev /\ heads[f].metaGen <= heads'[f].metaGen
    BY <1>1, <1>4, <1>7, <2>1 DEF Spent
  <2>2. CASE /\ f \in Dead /\ tombstones[f].rev < heads'[f].rev
             /\ tombstones[f].metaGen <= heads'[f].metaGen
    BY <1>1, <1>4, <1>7, <2>2 DEF Spent
  <2> QED BY <1>6, <1>7, <2>1, <2>2 DEF Onward
<1>8. ASSUME f \in Dead'
      PROVE  /\ r.kind \in {"update", "delete", "restore"} => r.base < tombstones'[f].rev
             /\ r.kind = "rename" => r.base < tombstones'[f].metaGen
  <2>1. CASE f \in Dead /\ tombstones'[f] = tombstones[f]
    BY <2>1 DEF Spent
  <2>2. CASE /\ f \in Live /\ heads[f].rev <= tombstones'[f].rev
             /\ heads[f].metaGen <= tombstones'[f].metaGen
    BY <1>1, <1>5, <1>8, <2>2 DEF Spent
  <2> QED BY <1>8, <2>1, <2>2 DEF Onward
<1> QED BY <1>6, <1>7, <1>8 DEF SpentNext

\* A request that is handled writes one object, on which it had not been handled
\* before, and on which it can no longer be handled.  An update or a deletion
\* replaces the revision it was based on.
LEMMA HandledWrites ==
    ASSUME IInv, EffectsSpent, RevisionsCounted, NEW r \in sent, r \in Request,
           \/ HandleCreate(r) \/ HandleUpdate(r) \/ HandleDelete(r)
           \/ HandleRename(r) \/ HandleRestore(r)
    PROVE  \E f \in FileIds :
               /\ IInv' /\ Written(f) /\ Onward(f) /\ Changed(f) /\ Takes(r, f)
               /\ ~ Spent(r, f) /\ SpentNext(r, f)
               /\ LifeStep(f) /\ (Upload \/ Remove \/ Move \/ Restore)
               /\ r.kind \in Overwriting => f \in Live /\ r.base = heads[f].rev
<1>1. /\ r.op \in Operations /\ r.name \in Names /\ r.to \in Names /\ r.base \in Nat
      /\ r.content \in Contents /\ (r.kind # "create" => r.file \in FileIds)
  BY DEF Request, EffectsSpent
<1>2. IInv => TypeOK /\ LedgersAgree
  BY DEF IInv
<1>3. \A f \in Live : /\ heads[f].rev \in Nat /\ heads[f].metaGen \in Nat
                      /\ f \notin Dead /\ f \in DOMAIN objectState
  BY <1>2, RowsTyped DEF LedgersAgree
<1>4. \A f \in Dead : /\ tombstones[f].rev \in Nat
                      /\ f \notin Live /\ f \in DOMAIN objectState
  BY <1>2, RowsTyped DEF LedgersAgree
<1>10. /\ NoHash \in Hashes /\ MaxSequence \in Nat /\ headSequence \in Nat
       /\ \A seq \in 0..headSequence : seq \in 0..MaxSequence
       /\ \A seq \in 1..headSequence : seq \in 1..MaxSequence
  BY <1>2 DEF Hashes, RevisionsCounted, TypeOK
<1>5. CASE HandleCreate(r)
  <2>1. PICK f \in FileIds : /\ r.kind = "create" /\ Takes(r, f)
                             /\ Create(f, r.name, r.base, r.content, NoHash, r.op)
    BY <1>5 DEF HandleCreate
  <2>2. IInv' /\ Written(f) /\ Onward(f) /\ Changed(f) /\ f \notin DOMAIN objectState
    BY <1>1, <2>1, CreateWrites
  <2>3. ~ Spent(r, f) /\ SpentNext(r, f)
    BY <2>1, <2>2 DEF Spent, SpentNext, Written
  <2>5. LifeStep(f)
    BY <1>1, <2>1, CreateImplements DEF LifeStep
  <2>6. Upload
    <3>1. r.base = 0
      BY <2>1 DEF Create
    <3> QED BY <1>1, <1>10, <2>1, <3>1 DEF Upload
  <2> QED BY <2>1, <2>2, <2>3, <2>5, <2>6
<1>6. CASE HandleUpdate(r)
  <2>1. PICK f \in FileIds : /\ r.kind = "update" /\ Takes(r, f)
                             /\ Update(f, r.name, r.base, r.content, NoHash, r.op)
    BY <1>6 DEF HandleUpdate
  <2>2. /\ IInv' /\ Written(f) /\ Onward(f) /\ Changed(f) /\ f \in Live /\ r.base = heads[f].rev
        /\ f \in Live' /\ f \notin Dead' /\ heads'[f].rev = heads[f].rev + 1
    BY <1>1, <2>1, UpdateWrites
  <2>3. ~ Spent(r, f) /\ SpentNext(r, f)
    BY <1>3, <2>1, <2>2 DEF Spent, SpentNext, Written
  <2>5. LifeStep(f)
    BY <1>1, <2>1, UpdateImplements DEF LifeStep
  <2>6. Upload
    <3>1. r.base \in 0..MaxSequence
      BY <1>10, <2>2 DEF RevisionsCounted
    <3> QED BY <1>1, <1>10, <2>1, <3>1 DEF Upload
  <2> QED BY <2>1, <2>2, <2>3, <2>5, <2>6
<1>7. CASE HandleDelete(r)
  <2>1. PICK f \in FileIds : /\ r.kind = "delete" /\ Takes(r, f)
                             /\ Delete(f, r.name, r.base, r.op)
    BY <1>7 DEF HandleDelete
  <2>2. /\ IInv' /\ Written(f) /\ Onward(f) /\ Changed(f) /\ f \in Live /\ r.base = heads[f].rev
        /\ f \in Dead' /\ f \notin Live' /\ tombstones'[f].rev = heads[f].rev + 1
    BY <1>1, <2>1, DeleteWrites
  <2>3. ~ Spent(r, f) /\ SpentNext(r, f)
    BY <1>3, <2>1, <2>2 DEF Spent, SpentNext, Written
  <2>5. LifeStep(f)
    BY <1>1, <2>1, DeleteImplements DEF LifeStep
  <2>6. Remove
    <3>1. r.base \in 1..MaxSequence
      BY <1>10, <2>2 DEF RevisionsCounted
    <3> QED BY <1>1, <2>1, <3>1 DEF Remove
  <2> QED BY <2>1, <2>2, <2>3, <2>5, <2>6
<1>8. CASE HandleRename(r)
  <2>1. PICK f \in FileIds : /\ r.kind = "rename" /\ Takes(r, f)
                             /\ Rename(f, r.name, r.to, r.base, NoHash, r.op)
    BY <1>8 DEF HandleRename
  <2>2. /\ IInv' /\ Written(f) /\ Onward(f) /\ Changed(f) /\ f \in Live /\ r.base = heads[f].metaGen
        /\ f \in Live' /\ f \notin Dead' /\ heads'[f].metaGen = heads[f].metaGen + 1
    BY <1>1, <2>1, RenameWrites
  <2>3. ~ Spent(r, f) /\ SpentNext(r, f)
    BY <1>3, <2>1, <2>2 DEF Spent, SpentNext, Written
  <2>5. LifeStep(f)
    BY <1>1, <2>1, RenameImplements DEF LifeStep
  <2>6. Move
    <3>1. r.base \in 0..MaxSequence
      BY <1>10, <2>2 DEF RevisionsCounted
    <3> QED BY <1>1, <1>10, <2>1, <3>1 DEF Move
  <2> QED BY <2>1, <2>2, <2>3, <2>5, <2>6
<1>9. CASE HandleRestore(r)
  <2>1. PICK gen \in Generations : /\ r.kind = "restore" /\ Takes(r, r.file)
                                   /\ Revive(r.file, r.base, gen, r.to, NoHash, r.op)
    BY <1>9 DEF HandleRestore
  <2>2. r.file \in FileIds
    BY <1>1, <2>1
  <2>3. /\ IInv' /\ Written(r.file) /\ Onward(r.file) /\ Changed(r.file)
        /\ r.file \in Dead /\ r.base = tombstones[r.file].rev
        /\ r.file \in Live' /\ r.file \notin Dead'
        /\ heads'[r.file].rev = tombstones[r.file].rev + 1
    BY <1>1, <2>1, <2>2, ReviveWrites
  <2>4. ~ Spent(r, r.file) /\ SpentNext(r, r.file)
    BY <1>4, <2>1, <2>3 DEF Spent, SpentNext, Written
  <2>5. LifeStep(r.file)
    BY <1>1, <2>1, <2>2, ReviveImplements DEF LifeStep
  <2>6. Restore
    <3>1. r.base \in 1..MaxSequence
      BY <1>10, <2>3 DEF RevisionsCounted
    <3> QED BY <1>1, <1>10, <2>1, <2>2, <3>1 DEF Restore
  <2> QED BY <2>1, <2>2, <2>3, <2>4, <2>5, <2>6
<1> QED BY <1>5, <1>6, <1>7, <1>8, <1>9

-----------------------------------------------------------------------------
(***************************************************************************)
(* The past, the log and the pages cut from it                             *)
(***************************************************************************)

\* A set of naturals that is not empty and has a bound has a greatest element.
LEMMA GreatestNat ==
    ASSUME NEW S \in SUBSET Nat, S # {}, NEW bound \in Nat, \A s \in S : s <= bound
    PROVE  \E m \in S : \A s \in S : s <= m
<1> DEFINE T == {bound - s : s \in S}
<1>1. T \subseteq Nat /\ T # {}
  <2>1. \A s \in S : bound - s \in Nat
    OBVIOUS
  <2>2. \A s \in S : bound - s \in T
    OBVIOUS
  <2>3. T \subseteq Nat
    BY <2>1
  <2> QED BY <2>2, <2>3
<1> DEFINE R == OpToRel(<, Nat)
<1>2. IsWellFoundedOn(R, Nat)
  BY NatLessThanWellFounded
<1> HIDE DEF R
<1>3. \A x, y \in Nat : x < y => <<x, y>> \in R
  BY DEF R, OpToRel
<1> HIDE DEF T
<1>4. PICK x \in T : \A y \in T : ~(<<y, x>> \in R)
  BY <1>1, <1>2, WFMin
<1>5. \A y \in T : ~(y < x)
  BY <1>1, <1>3, <1>4
<1>6. PICK m \in S : x = bound - m
  BY <1>4 DEF T
<1>7. ASSUME NEW s \in S PROVE s <= m
  <2>1. bound - s \in T
    BY DEF T
  <2> QED BY <1>5, <1>6, <2>1
<1> QED BY <1>7

\* Vaults that hold the same of every object are the same.
LEMMA SameVault ==
    ASSUME NEW one \in Vaults, NEW other \in Vaults, \A f \in FileIds : SameOf(f, one, other)
    PROVE  one = other
<1>1. PICK S \in SUBSET FileIds : one \in [S -> Views]
  BY DEF Vaults
<1>2. PICK T \in SUBSET FileIds : other \in [T -> Views]
  BY DEF Vaults
<1>3. DOMAIN one = DOMAIN other /\ \A f \in DOMAIN one : one[f] = other[f]
  BY <1>1, <1>2 DEF SameOf
<1> QED BY <1>1, <1>2, <1>3

\* What the server has now is a vault.
LEMMA SnapshotIsVault ==
    ASSUME TypeOK
    PROVE  Snapshot \in Vaults
<1>1. Live \in SUBSET FileIds /\ \A f \in Live : View(heads[f]) \in Views
  BY RowsTyped
<1>2. Snapshot \in [Live -> Views]
  BY <1>1 DEF Snapshot
<1> QED BY <1>1, <1>2 DEF Vaults

\* Between two moments without a change of an object, all of them in the log, the
\* object stays as it is.
LEMMA QuietBetween ==
    ASSUME IInv, LogReplaysPast, NEW from \in Nat, NEW to \in Nat,
           minRetained <= from, from <= to, to <= headSequence, NEW f \in FileIds,
           \A s \in DOMAIN changes : from < s /\ s <= to => changes[s].file # f
    PROVE  SameOf(f, past[from], past[to])
<1>1. /\ minRetained \in Nat /\ headSequence \in Nat
      /\ DOMAIN changes = (minRetained + 1)..headSequence
  BY DEF IInv, TypeOK, LogContiguous
<1> DEFINE Quiet == {m \in from..to : \A n \in from..m : SameOf(f, past[from], past[n])}
<1>2. from \in Quiet
  <2>1. \A n \in from..from : n = from
    OBVIOUS
  <2> QED BY <2>1 DEF SameOf
<1>3. Quiet \in SUBSET Nat /\ \A m \in Quiet : m <= to
  OBVIOUS
<1>4. PICK m \in Quiet : \A n \in Quiet : n <= m
  <2> HIDE DEF Quiet
  <2> QED BY <1>2, <1>3, GreatestNat
<1>5. m = to
  <2> SUFFICES ASSUME m # to PROVE FALSE
    OBVIOUS
  <2>1. m + 1 \in DOMAIN changes /\ from < m + 1 /\ m + 1 <= to /\ m + 1 \in Nat
    BY <1>1
  <2>2. SameOf(f, past[m], past[m + 1])
    <3>1. changes[m + 1].file # f /\ (m + 1) - 1 = m
      BY <2>1
    <3> QED BY <2>1, <3>1 DEF LogReplaysPast
  <2>3. SameOf(f, past[from], past[m])
    OBVIOUS
  <2>4. SameOf(f, past[from], past[m + 1])
    BY <2>2, <2>3 DEF SameOf
  <2>5. \A n \in from..(m + 1) : n \in from..m \/ n = m + 1
    OBVIOUS
  <2>6. m + 1 \in Quiet
    BY <2>1, <2>4, <2>5
  <2>7. m + 1 <= m
    BY <1>4, <2>6
  <2> QED BY <2>7
<1>6. to \in from..to
  OBVIOUS
<1> QED BY <1>4, <1>5, <1>6

\* A commit adds one moment to the past, the one its change in the log leads to.
LEMMA WriteExtendsPast ==
    ASSUME IInv, IInv', PastKept, LogReplaysPast, NEW f \in FileIds, Written(f),
           past' = Put(past, headSequence + 1, Snapshot')
    PROVE  /\ PastKept' /\ LogReplaysPast'
           /\ \A s \in 0..headSequence : past'[s] = past[s]
           /\ past'[headSequence + 1] = Snapshot'
           /\ \A g \in FileIds \ {f} : SameOf(g, past[headSequence], past'[headSequence + 1])
<1>1. /\ headSequence \in Nat /\ headSequence' = headSequence + 1 /\ minRetained \in Nat
      /\ DOMAIN changes = (minRetained + 1)..headSequence
      /\ 0..headSequence' = (0..headSequence) \cup {headSequence + 1}
  BY DEF IInv, TypeOK, Written, LogContiguous
<1>2. /\ DOMAIN past' = 0..headSequence'
      /\ \A s \in 0..headSequence : past'[s] = past[s]
      /\ past'[headSequence + 1] = Snapshot'
  BY <1>1 DEF Put, PastKept
<1>3. \A s \in 0..headSequence' : past'[s] \in Vaults
  <2>1. Snapshot' \in Vaults
    <3>1. TypeOK'
      BY DEF IInv
    <3>2. Live' \in SUBSET FileIds /\ \A g \in Live' : heads'[g] \in Head
      BY <3>1 DEF TypeOK, IsTable, Live
    <3>3. \A g \in Live' : View(heads'[g]) \in Views
      BY <3>2 DEF Head, View, Views
    <3>4. Snapshot' \in [Live' -> Views]
      BY <3>3 DEF Snapshot
    <3> QED BY <3>2, <3>4 DEF Vaults
  <2> QED BY <1>1, <1>2, <2>1 DEF PastKept
<1>4. PastKept'
  BY <1>1, <1>2, <1>3 DEF PastKept
<1>5. \A g \in FileIds \ {f} : SameOf(g, past[headSequence], past'[headSequence + 1])
  <2>1. past[headSequence] = Snapshot
    BY DEF PastKept
  <2>2. \A g \in FileIds \ {f} : /\ g \in Live' <=> g \in Live
                                 /\ g \in Live => heads'[g] = heads[g]
    BY DEF Written
  <2> QED BY <1>2, <2>1, <2>2 DEF SameOf, Snapshot
<1>6. /\ changes'[headSequence + 1].file = f
      /\ changes'[headSequence + 1].action = "delete" => f \notin Live'
      /\ changes'[headSequence + 1].action # "delete" =>
            /\ f \in Live'
            /\ View(changes'[headSequence + 1]) = View(heads'[f])
  <2>1. /\ headSequence + 1 \in DOMAIN changes' /\ changes'[headSequence + 1].file = f
        /\ \A s \in DOMAIN changes' : s <= headSequence + 1
    BY <1>1 DEF Written
  <2>2. LastOf(headSequence)'
    BY <1>1, <2>1 DEF LastOf
  <2>3. IF f \in Live' THEN DescribesHead(changes'[headSequence + 1], heads'[f])
        ELSE changes'[headSequence + 1].action = "delete"
    BY <1>1, <2>1, <2>2 DEF IInv, LogDescribesObjects
  <2> QED BY <2>1, <2>3 DEF DescribesHead, View
<1>7. LogReplaysPast'
  <2> SUFFICES ASSUME NEW s \in DOMAIN changes'
               PROVE  /\ \A g \in FileIds \ {changes'[s].file} :
                            SameOf(g, past'[s - 1], past'[s])
                      /\ changes'[s].action = "delete" =>
                            changes'[s].file \notin DOMAIN past'[s]
                      /\ changes'[s].action # "delete" =>
                            /\ changes'[s].file \in DOMAIN past'[s]
                            /\ past'[s][changes'[s].file] = View(changes'[s])
    BY DEF LogReplaysPast, View, SameOf
  <2>1. CASE s = headSequence + 1
    <3>1. past'[s - 1] = past[headSequence]
      BY <1>1, <1>2, <2>1
    <3> QED BY <1>2, <1>5, <1>6, <2>1, <3>1 DEF Snapshot
  <2>2. CASE s \in DOMAIN changes
    <3>1. s \in 0..headSequence /\ s - 1 \in 0..headSequence
      BY <1>1, <2>2
    <3>2. past'[s] = past[s] /\ past'[s - 1] = past[s - 1] /\ changes'[s] = changes[s]
      BY <1>2, <2>2, <3>1 DEF Written
    <3> QED BY <2>2, <3>2 DEF LogReplaysPast
  <2> QED BY <2>1, <2>2 DEF Written
<1> QED BY <1>2, <1>4, <1>5, <1>7

\* The page of a pull, for one object: its last change in the page.
LEMMA LastOfPageFound ==
    ASSUME IInv, NEW page \in SUBSET DOMAIN changes, NEW f,
           \E s \in page : changes[s].file = f
    PROVE  /\ LastOfPage(page, f) \in page
           /\ changes[LastOfPage(page, f)].file = f
           /\ \A t \in page : changes[t].file = f => t <= LastOfPage(page, f)
<1> DEFINE S == {s \in page : changes[s].file = f}
<1>1. headSequence \in Nat /\ \A s \in DOMAIN changes : s \in Nat /\ s <= headSequence
  BY DEF IInv, TypeOK, LogContiguous
<1>2. S \in SUBSET Nat /\ S # {} /\ \A s \in S : s <= headSequence
  BY <1>1
<1>3. \E m \in S : \A s \in S : s <= m
  <2> HIDE DEF S
  <2> QED BY <1>1, <1>2, GreatestNat
<1>4. \E s \in page : /\ changes[s].file = f
                      /\ \A t \in page : changes[t].file = f => t <= s
  BY <1>3
<1> QED BY <1>4 DEF LastOfPage

\* A page, applied to the vault of the moment it starts from, gives the vault of
\* the moment it ends with.
LEMMA PageLeadsOn ==
    ASSUME IInv, PastKept, LogReplaysPast, NEW from \in Nat, NEW to \in Nat,
           from <= to, to <= headSequence, from >= minRetained,
           NEW page, page = {s \in DOMAIN changes : from < s /\ s <= to}
    PROVE  Applied(past[from], PageResponse(page, to)) = past[to]
<1>1. /\ minRetained \in Nat /\ headSequence \in Nat
      /\ \A s \in DOMAIN changes : s \in Nat /\ s > minRetained /\ changes[s] \in Change
  BY DEF IInv, TypeOK, LogContiguous, IsTable
<1>2. past[from] \in Vaults /\ past[to] \in Vaults
  BY <1>1 DEF PastKept
<1> DEFINE touched == {changes[s].file : s \in page}
           views == PageResponse(page, to).views
           after == Applied(past[from], PageResponse(page, to))
<1>3. /\ PageResponse(page, to).touched = touched
      /\ DOMAIN views = {g \in touched : changes[LastOfPage(page, g)].action # "delete"}
      /\ \A g \in DOMAIN views : views[g] = View(changes[LastOfPage(page, g)])
  BY DEF PageResponse
<1>4. after = [g \in (DOMAIN past[from] \ touched) \cup DOMAIN views |->
                  IF g \in DOMAIN views THEN views[g] ELSE past[from][g]]
  BY <1>3 DEF Applied
<1> HIDE DEF views, after
<1>5. ASSUME NEW f \in FileIds PROVE SameOf(f, after, past[to])
  <2>1. CASE f \in touched
    <3> DEFINE last == LastOfPage(page, f)
    <3>1. /\ last \in page /\ changes[last].file = f
          /\ \A t \in page : changes[t].file = f => t <= last
      BY <2>1, LastOfPageFound
    <3> HIDE DEF last
    <3>2. /\ last \in DOMAIN changes /\ last \in Nat /\ from < last /\ last <= to
          /\ minRetained <= last
      BY <1>1, <3>1
    <3>3. \A s \in DOMAIN changes : last < s /\ s <= to => changes[s].file # f
      BY <1>1, <3>1, <3>2
    <3>4. SameOf(f, past[last], past[to])
      BY <3>2, <3>3, QuietBetween
    <3>5. CASE changes[last].action = "delete"
      <4>1. f \notin DOMAIN past[last]
        BY <3>1, <3>2, <3>5 DEF LogReplaysPast
      <4>2. f \notin DOMAIN after
        BY <1>3, <1>4, <2>1, <3>5 DEF last
      <4> QED BY <3>4, <4>1, <4>2 DEF SameOf
    <3>6. CASE changes[last].action # "delete"
      <4>1. f \in DOMAIN past[last] /\ past[last][f] = View(changes[last])
        BY <3>1, <3>2, <3>6 DEF LogReplaysPast
      <4>2. f \in DOMAIN after /\ after[f] = View(changes[last])
        BY <1>3, <1>4, <2>1, <3>6 DEF last
      <4> QED BY <3>4, <4>1, <4>2 DEF SameOf
    <3> QED BY <3>5, <3>6
  <2>2. CASE f \notin touched
    <3>1. \A s \in DOMAIN changes : from < s /\ s <= to => changes[s].file # f
      BY <2>2
    <3>2. SameOf(f, past[from], past[to])
      BY <3>1, QuietBetween
    <3> QED BY <1>3, <1>4, <2>2, <3>2 DEF SameOf
  <2> QED BY <2>1, <2>2
<1>6. after \in Vaults
  <2>1. touched \subseteq FileIds
    BY <1>1 DEF Change
  <2>2. DOMAIN past[from] \subseteq FileIds /\ DOMAIN past[to] \subseteq FileIds
    BY <1>2 DEF Vaults
  <2>3. DOMAIN after \subseteq FileIds
    BY <1>3, <1>4, <2>1, <2>2
  <2>4. \A f \in DOMAIN after : after[f] \in Views
    <3> SUFFICES ASSUME NEW f \in DOMAIN after PROVE after[f] \in Views
      OBVIOUS
    <3>1. f \in DOMAIN past[to] /\ after[f] = past[to][f]
      BY <1>5, <2>3 DEF SameOf
    <3> QED BY <1>2, <3>1 DEF Vaults
  <2>5. after \in [DOMAIN after -> Views]
    BY <1>4, <2>4
  <2> QED BY <2>3, <2>5 DEF Vaults
<1>7. after = past[to]
  BY <1>2, <1>5, <1>6, SameVault
<1> QED BY <1>7 DEF after

\* A snapshot leads to the present from everywhere.
LEMMA SnapshotLeadsOn ==
    ASSUME TypeOK, PastKept, NEW known \in Vaults
    PROVE  Applied(known, SnapshotResponse) = past[headSequence]
<1>1. DOMAIN known \subseteq FileIds
  BY DEF Vaults
<1>2. (DOMAIN known \ FileIds) \cup Live = Live
  BY <1>1
<1>3. DOMAIN Snapshot = Live /\ Snapshot = [f \in Live |-> Snapshot[f]]
  BY DEF Snapshot
<1>4. Applied(known, SnapshotResponse) = [f \in Live |-> Snapshot[f]]
  BY <1>2, <1>3 DEF Applied, SnapshotResponse
<1> QED BY <1>3, <1>4 DEF PastKept

-----------------------------------------------------------------------------
(***************************************************************************)
(* The other steps                                                         *)
(***************************************************************************)

\* A device sends one request, with the next operation id, made from what it has.
LEMMA SendAdds ==
    ASSUME TypeOK, ClientTypes, KnownBefore, DeviceWrites
    PROVE  \E new \in Request :
               /\ new.op = lastOp + 1 /\ lastOp' = lastOp + 1 /\ lastOp + 1 \in Operations
               /\ new.dev \in Enrolled /\ new.sentAt = cursor[new.dev]
               /\ new.kind # "create" => new.file \in FileIds
               /\ new.kind \in Overwriting =>
                     /\ SeenBefore(new.file, new.base, new.seen)
                     /\ KnowsAs(new.dev, new.file, new.name)
               /\ sent' = sent \cup {new}
               /\ UNCHANGED <<vars, mirror, cursor, inbox, historyVars>>
<1>1. PICK d \in Devices, f \in FileIds, name \in Names, content \in Contents :
          \/ \E file \in DrawnIds : SendCreate(d, name, file, content)
          \/ SendUpdate(d, f, content)
          \/ SendDelete(d, f)
          \/ SendRename(d, f, name)
          \/ SendRestore(d, f, name)
  BY DEF DeviceWrites
<1>2. ASSUME NEW kind \in {"create", "update", "delete", "rename", "restore"},
             NEW file \in FileIds \cup {NoFile}, NEW from \in Names, NEW to \in Names,
             NEW base \in Nat, NEW c \in Contents, NEW seen \in Contents \cup {NoHash},
             kind # "create" => file \in FileIds,
             kind \in Overwriting => SeenBefore(file, base, seen) /\ KnowsAs(d, file, from),
             Send(d, kind, file, from, to, base, c, seen)
      PROVE  \E new \in Request :
               /\ new.op = lastOp + 1 /\ lastOp' = lastOp + 1 /\ lastOp + 1 \in Operations
               /\ new.dev \in Enrolled /\ new.sentAt = cursor[new.dev]
               /\ new.kind # "create" => new.file \in FileIds
               /\ new.kind \in Overwriting =>
                     /\ SeenBefore(new.file, new.base, new.seen)
                     /\ KnowsAs(new.dev, new.file, new.name)
               /\ sent' = sent \cup {new}
               /\ UNCHANGED <<vars, mirror, cursor, inbox, historyVars>>
  <2> DEFINE new == [op |-> lastOp + 1, dev |-> d, kind |-> kind, file |-> file,
                     name |-> from, to |-> to, base |-> base, content |-> c,
                     seen |-> seen, sentAt |-> cursor[d]]
  <2>1. /\ d \in Enrolled /\ lastOp < MaxRequests /\ lastOp' = lastOp + 1
        /\ sent' = sent \cup {new}
        /\ UNCHANGED <<vars, mirror, cursor, inbox, historyVars>>
    BY <1>2 DEF Send
  <2>2. lastOp + 1 \in Operations /\ cursor[d] \in Nat
    BY <2>1 DEF ClientTypes
  <2>3. new \in Request
    BY <2>2, <1>2 DEF Request
  <2> QED BY <1>2, <2>1, <2>2, <2>3
<1>3. CASE \E file \in DrawnIds : SendCreate(d, name, file, content)
  <2>1. PICK file \in DrawnIds : Send(d, "create", file, name, name, 0, content, NoHash)
    BY <1>3 DEF SendCreate
  <2>2. file \in FileIds \cup {NoFile}
    OBVIOUS
  <2> QED BY <1>2, <2>1, <2>2
<1>4. ASSUME f \in DOMAIN mirror[d]
      PROVE  /\ mirror[d][f].name \in Names /\ mirror[d][f].rev \in Nat
             /\ mirror[d][f].metaGen \in Nat /\ mirror[d][f].content \in Contents
  <2>1. mirror[d][f] \in Views
    BY <1>4 DEF ClientTypes, IsTable
  <2> QED BY <2>1 DEF Views
<1>5. CASE SendUpdate(d, f, content)
  <2>1. /\ f \in DOMAIN mirror[d]
        /\ Send(d, "update", f, mirror[d][f].name, mirror[d][f].name, mirror[d][f].rev,
                content, mirror[d][f].content)
    BY <1>5 DEF SendUpdate
  <2>2. SeenBefore(f, mirror[d][f].rev, mirror[d][f].content)
    BY <2>1 DEF KnownBefore
  <2>3. KnowsAs(d, f, mirror[d][f].name)
    BY <2>1 DEF KnowsAs
  <2> QED BY <1>2, <1>4, <2>1, <2>2, <2>3
<1>6. CASE SendDelete(d, f)
  <2>1. /\ f \in DOMAIN mirror[d]
        /\ Send(d, "delete", f, mirror[d][f].name, mirror[d][f].name, mirror[d][f].rev,
                mirror[d][f].content, mirror[d][f].content)
    BY <1>6 DEF SendDelete
  <2>2. SeenBefore(f, mirror[d][f].rev, mirror[d][f].content)
    BY <2>1 DEF KnownBefore
  <2>3. KnowsAs(d, f, mirror[d][f].name)
    BY <2>1 DEF KnowsAs
  <2> QED BY <1>2, <1>4, <2>1, <2>2, <2>3
<1>7. CASE SendRename(d, f, name)
  <2>1. /\ f \in DOMAIN mirror[d]
        /\ Send(d, "rename", f, mirror[d][f].name, name, mirror[d][f].metaGen,
                mirror[d][f].content, mirror[d][f].content)
    BY <1>7 DEF SendRename
  <2> QED BY <1>2, <1>4, <2>1
<1>8. CASE SendRestore(d, f, name)
  <2>1. /\ f \in Dead
        /\ Send(d, "restore", f, tombstones[f].name, name, tombstones[f].rev,
                tombstones[f].prior, NoHash)
    BY <1>8 DEF SendRestore
  <2>2. /\ tombstones[f].name \in Names /\ tombstones[f].rev \in Nat
        /\ tombstones[f].prior \in Contents
    BY <2>1, RowsTyped
  <2> QED BY <1>2, <2>1, <2>2
<1> QED BY <1>1, <1>3, <1>5, <1>6, <1>7, <1>8

\* A pull may acknowledge the device's cursor, and touches the server no further.
LEMMA PullAcks ==
    ASSUME TypeOK, ClientTypes, NEW d \in Devices, NEW to, Pull(d, to)
    PROVE  /\ d \in Enrolled
           /\ UNCHANGED <<heads, tombstones, objectState, headSequence, minRetained, changes>>
           /\ DOMAIN acked' = Enrolled
           /\ \A e \in Enrolled : /\ acked[e] <= acked'[e] /\ acked'[e] \in Nat
                                  /\ acked'[e] \in {acked[e], cursor[e]}
<1>1. \A e \in Enrolled : e \in Devices /\ acked[e] \in Nat /\ cursor[e] \in Nat
  BY RowsTyped DEF ClientTypes
<1>2. CASE acked[d] < cursor[d] /\ AckSequence(d, cursor[d])
  BY <1>1, <1>2 DEF Pull, AckSequence, Enrolled
<1>3. CASE UNCHANGED vars
  BY <1>1, <1>3 DEF Pull, vars, Enrolled
<1> QED BY <1>2, <1>3 DEF Pull

\* A page is of objects, in the views devices keep, each known before.
LEMMA PageTyped ==
    ASSUME IInv, WritesHaveContent, NEW page \in SUBSET DOMAIN changes, NEW to
    PROVE  LET response == PageResponse(page, to)
           IN  /\ response.to = to
               /\ response.touched \subseteq FileIds
               /\ IsTable(response.views, response.touched, Views)
               /\ \A f \in DOMAIN response.views :
                     SeenBefore(f, response.views[f].rev, response.views[f].content)
<1> DEFINE response == PageResponse(page, to)
           touched == {changes[s].file : s \in page}
<1>1. /\ response.to = to /\ response.touched = touched
      /\ DOMAIN response.views = {g \in touched : changes[LastOfPage(page, g)].action # "delete"}
      /\ \A g \in DOMAIN response.views :
            response.views[g] = View(changes[LastOfPage(page, g)])
  BY DEF PageResponse
<1>2. \A s \in DOMAIN changes : changes[s] \in Change
  BY DEF IInv, TypeOK, IsTable
<1>3. touched \subseteq FileIds
  BY <1>2 DEF Change
<1> HIDE DEF response
<1>4. ASSUME NEW f \in DOMAIN response.views
      PROVE  /\ response.views[f] \in Views
             /\ SeenBefore(f, response.views[f].rev, response.views[f].content)
  <2> DEFINE last == LastOfPage(page, f)
  <2>1. f \in touched /\ changes[last].action # "delete" /\ response.views[f] = View(changes[last])
    BY <1>1
  <2>2. last \in DOMAIN changes /\ changes[last].file = f
    BY <2>1, LastOfPageFound
  <2> HIDE DEF last
  <2>3. changes[last].content \in Contents /\ changes[last] \in Change
    BY <1>2, <2>1, <2>2 DEF WritesHaveContent
  <2>4. response.views[f] \in Views
    BY <2>1, <2>3 DEF View, Views, Change
  <2>5. /\ f \in DOMAIN objectState
        /\ f \in Live => Precedes(changes[last], heads[f])
        /\ f \in Dead => changes[last].rev <= tombstones[f].rev
    BY <2>2 DEF IInv, LogBelowPresent
  <2>6. SeenBefore(f, changes[last].rev, changes[last].content)
    BY <2>5 DEF SeenBefore, Precedes
  <2>7. /\ response.views[f].rev = changes[last].rev
        /\ response.views[f].content = changes[last].content
    BY <2>1 DEF View
  <2> QED BY <2>4, <2>6, <2>7
<1> QED BY <1>1, <1>3, <1>4 DEF IsTable, response

\* The server's invariant is its own: no step of a device or the network reaches
\* past the handlers.
LEMMA StepKeepsIInv ==
    ASSUME SyncInv, SyncNext
    PROVE  IInv'
<1>1. \A r \in sent : r \in Request
  BY DEF SyncInv, ClientTypes
<1>2. CASE UNCHANGED vars
  BY <1>2, NextKeepsIInv DEF SyncInv
<1>3. CASE ServerWrites
  BY <1>1, <1>3, HandledWrites DEF ServerWrites, SyncInv
<1>4. CASE DeviceWrites
  BY <1>2, <1>4, SendAdds DEF SyncInv, IInv
<1>5. ASSUME NEW d \in Devices, NEW to \in 0..headSequence, Pull(d, to) PROVE IInv'
  <2>1. CASE AckSequence(d, cursor[d]) /\ acked[d] < cursor[d]
    <3>1. d \in Enrolled /\ acked[d] \in Nat /\ cursor[d] \in 1..headSequence
      BY <1>5, <2>1, RowsTyped DEF SyncInv, IInv, TypeOK, ClientTypes, CursorsBehind, Pull
    <3>2. DeviceStep
      BY <2>1, <3>1 DEF DeviceStep
    <3> QED BY <3>2, DeviceStepKeepsIInv DEF SyncInv
  <2> QED BY <1>2, <1>5, <2>1 DEF Pull
<1>6. CASE \E d \in Devices : Resync(d) \/ Apply(d) \/ LoseResponse(d)
  BY <1>2, <1>6 DEF Resync, Apply, LoseResponse
<1>7. CASE Trim
  BY <1>7, TrimKeepsIInv DEF Trim, SyncInv
<1>8. CASE PurgeExpired
  BY <1>8, PurgeKeepsIInv DEF PurgeExpired, Purge, SyncInv
<1>9. CASE \E d \in Devices : Revoke(d)
  BY <1>9, DeviceStepKeepsIInv DEF Revoke, DeviceStep, SyncInv
<1> QED BY <1>3, <1>4, <1>5, <1>6, <1>7, <1>8, <1>9 DEF SyncNext, PullSteps

\* A request that is handled leaves devices and network alone.
LEMMA HandledStep ==
    ASSUME SyncInv, ServerWrites
    PROVE  \E r \in sent, f \in FileIds :
               /\ IInv' /\ Written(f) /\ Onward(f) /\ Changed(f) /\ Takes(r, f)
               /\ ~ Spent(r, f) /\ SpentNext(r, f)
               /\ LifeStep(f) /\ (Upload \/ Remove \/ Move \/ Restore)
               /\ r.kind \in Overwriting => f \in Live /\ r.base = heads[f].rev
               /\ UNCHANGED <<mirror, cursor, inbox, sent, lastOp, graves>>
               /\ effects' = effects \cup
                     {[op |-> r.op, file |-> f, seq |-> headSequence + 1]}
               /\ past' = Put(past, headSequence + 1, Snapshot')
<1>1. PICK r \in sent : \/ HandleCreate(r) \/ HandleUpdate(r) \/ HandleDelete(r)
                        \/ HandleRename(r) \/ HandleRestore(r)
  BY DEF ServerWrites
<1>2. r \in Request /\ IInv /\ EffectsSpent /\ RevisionsCounted
  BY DEF SyncInv, ClientTypes
<1>3. PICK f \in FileIds :
          /\ IInv' /\ Written(f) /\ Onward(f) /\ Changed(f) /\ Takes(r, f)
          /\ ~ Spent(r, f) /\ SpentNext(r, f)
          /\ LifeStep(f) /\ (Upload \/ Remove \/ Move \/ Restore)
          /\ r.kind \in Overwriting => f \in Live /\ r.base = heads[f].rev
  BY <1>1, <1>2, HandledWrites
<1>4. /\ UNCHANGED <<mirror, cursor, inbox, sent, lastOp, graves>>
      /\ effects' = effects \cup {[op |-> r.op, file |-> f, seq |-> headSequence + 1]}
      /\ past' = Put(past, headSequence + 1, Snapshot')
  BY <1>3 DEF Takes, clientVars
<1> QED BY <1>3, <1>4

LEMMA TypesKept ==
    ASSUME SyncInv, SyncNext
    PROVE  ClientTypes'
<1> USE DEF SyncInv
<1>1. CASE DeviceWrites
  <2>1. PICK new \in Request : /\ sent' = sent \cup {new} /\ lastOp' = lastOp + 1
                               /\ lastOp + 1 \in Operations
                               /\ UNCHANGED <<mirror, cursor, inbox>>
    BY <1>1, SendAdds DEF IInv
  <2> QED BY <2>1 DEF ClientTypes
<1>2. CASE ServerWrites
  <2>1. UNCHANGED <<mirror, cursor, inbox, sent, lastOp>>
    BY <1>2, HandledStep
  <2> QED BY <2>1 DEF ClientTypes
<1>3. ASSUME NEW d \in Devices, NEW to \in 0..headSequence, Pull(d, to) PROVE ClientTypes'
  <2> DEFINE page == {s \in DOMAIN changes : cursor[d] < s /\ s <= to}
             response == PageResponse(page, to)
  <2>1. /\ inbox' = [inbox EXCEPT ![d] = response]
        /\ UNCHANGED <<mirror, cursor, sent, lastOp>>
    BY <1>3 DEF Pull
  <2>2. /\ response.to \in Nat /\ response.touched \subseteq FileIds
        /\ IsTable(response.views, response.touched, Views)
    <3>1. page \in SUBSET DOMAIN changes /\ to \in Nat
      BY DEF IInv, TypeOK
    <3>2. IInv /\ WritesHaveContent
      OBVIOUS
    <3> HIDE DEF page, SyncInv
    <3> QED BY <3>1, <3>2, PageTyped
  <2> HIDE DEF response
  <2> QED BY <2>1, <2>2 DEF ClientTypes
<1>4. ASSUME NEW d \in Devices, Resync(d) PROVE ClientTypes'
  <2>1. /\ inbox' = [inbox EXCEPT ![d] = SnapshotResponse]
        /\ UNCHANGED <<mirror, cursor, sent, lastOp>>
    BY <1>4 DEF Resync
  <2>2. /\ SnapshotResponse.to \in Nat /\ SnapshotResponse.touched \subseteq FileIds
        /\ IsTable(SnapshotResponse.views, SnapshotResponse.touched, Views)
    <3>1. Live \subseteq FileIds /\ \A f \in Live : View(heads[f]) \in Views
      BY RowsTyped DEF IInv
    <3>2. IsTable(Snapshot, FileIds, Views)
      BY <3>1 DEF IsTable, Snapshot
    <3> QED BY <3>2 DEF SnapshotResponse, IInv, TypeOK
  <2> HIDE DEF SyncInv
  <2> QED BY <2>1, <2>2 DEF ClientTypes, SyncInv
<1>5. ASSUME NEW d \in Devices, Apply(d) PROVE ClientTypes'
  <2>1. /\ inbox[d] # Nothing
        /\ mirror' = [mirror EXCEPT ![d] = Applied(mirror[d], inbox[d])]
        /\ cursor' = [cursor EXCEPT ![d] = inbox[d].to]
        /\ inbox' = [inbox EXCEPT ![d] = Nothing]
        /\ UNCHANGED <<sent, lastOp>>
    BY <1>5 DEF Apply
  <2>2. /\ IsTable(mirror[d], FileIds, Views) /\ inbox[d].to \in Nat
        /\ inbox[d].touched \subseteq FileIds
        /\ IsTable(inbox[d].views, inbox[d].touched, Views)
    BY <2>1 DEF ClientTypes
  <2>3. IsTable(Applied(mirror[d], inbox[d]), FileIds, Views)
    BY <2>2 DEF IsTable, Applied
  <2> QED BY <2>1, <2>2, <2>3 DEF ClientTypes
<1>6. ASSUME NEW d \in Devices, LoseResponse(d) PROVE ClientTypes'
  BY <1>6 DEF LoseResponse, ClientTypes
<1>7. CASE Trim
  BY <1>7 DEF Trim, clientVars, ClientTypes
<1>8. CASE PurgeExpired
  BY <1>8 DEF PurgeExpired, ClientTypes
<1>9. ASSUME NEW d \in Devices, Revoke(d) PROVE ClientTypes'
  <2>1. IsTable(<< >>, FileIds, Views)
    BY DEF IsTable
  <2> QED BY <1>9, <2>1 DEF Revoke, ClientTypes
<1> QED BY <1>1, <1>2, <1>3, <1>4, <1>5, <1>6, <1>7, <1>8, <1>9 DEF SyncNext, PullSteps

LEMMA CursorsKept ==
    ASSUME SyncInv, SyncNext
    PROVE  CursorsBehind'
<1>0. /\ headSequence \in Nat /\ CursorsBehind /\ cursor \in [Devices -> Nat]
      /\ DOMAIN inbox = Devices
      /\ \A d \in Devices : inbox[d] # Nothing => inbox[d].to \in Nat
      /\ \A d \in Enrolled : d \in Devices /\ acked[d] \in Nat
  BY RowsTyped DEF SyncInv, IInv, TypeOK, ClientTypes
<1>1. CASE DeviceWrites
  BY <1>0, <1>1, SendAdds DEF SyncInv, IInv, CursorsBehind, vars, Enrolled
<1>2. CASE ServerWrites
  <2>1. headSequence' = headSequence + 1 /\ UNCHANGED <<acked, cursor, inbox>>
    BY <1>2, HandledStep DEF Written
  <2>2. \A d \in Devices :
            /\ cursor'[d] <= headSequence'
            /\ inbox'[d] # Nothing => cursor'[d] <= inbox'[d].to /\ inbox'[d].to <= headSequence'
    BY <1>0, <2>1 DEF CursorsBehind
  <2> QED BY <1>0, <2>1, <2>2 DEF CursorsBehind, Enrolled
<1>3. ASSUME NEW d \in Devices, NEW to \in 0..headSequence, Pull(d, to) PROVE CursorsBehind'
  <2> DEFINE response == PageResponse({s \in DOMAIN changes : cursor[d] < s /\ s <= to}, to)
  <2>1. /\ inbox' = [inbox EXCEPT ![d] = response]
        /\ UNCHANGED cursor /\ cursor[d] <= to
    BY <1>3 DEF Pull
  <2>2. response.to = to
    BY DEF PageResponse
  <2> HIDE DEF response
  <2>3. /\ UNCHANGED headSequence /\ DOMAIN acked' = Enrolled
        /\ \A e \in Enrolled : acked'[e] \in {acked[e], cursor[e]}
    BY <1>3, PullAcks DEF SyncInv, IInv
  <2>4. \A e \in Devices :
            /\ cursor'[e] <= headSequence'
            /\ inbox'[e] # Nothing => cursor'[e] <= inbox'[e].to /\ inbox'[e].to <= headSequence'
    BY <1>0, <2>1, <2>2, <2>3 DEF CursorsBehind
  <2>5. \A e \in Enrolled : acked'[e] <= cursor'[e]
    BY <1>0, <2>1, <2>3 DEF CursorsBehind
  <2> QED BY <2>3, <2>4, <2>5 DEF CursorsBehind, Enrolled
<1>4. ASSUME NEW d \in Devices, Resync(d) PROVE CursorsBehind'
  <2>1. /\ inbox' = [inbox EXCEPT ![d] = SnapshotResponse]
        /\ UNCHANGED <<cursor, headSequence, acked>>
    BY <1>4 DEF Resync, vars
  <2>2. SnapshotResponse.to = headSequence
    BY DEF SnapshotResponse
  <2> QED BY <1>0, <2>1, <2>2 DEF CursorsBehind, Enrolled
<1>5. ASSUME NEW d \in Devices, Apply(d) PROVE CursorsBehind'
  <2>1. /\ inbox[d] # Nothing
        /\ cursor' = [cursor EXCEPT ![d] = inbox[d].to]
        /\ inbox' = [inbox EXCEPT ![d] = Nothing]
        /\ UNCHANGED <<headSequence, acked>>
    BY <1>5 DEF Apply, vars
  <2>2. \A e \in Devices :
            /\ cursor'[e] <= headSequence'
            /\ inbox'[e] # Nothing => cursor'[e] <= inbox'[e].to /\ inbox'[e].to <= headSequence'
    BY <1>0, <2>1 DEF CursorsBehind
  <2>3. \A e \in Enrolled : acked'[e] <= cursor'[e]
    BY <1>0, <2>1 DEF CursorsBehind
  <2> QED BY <2>1, <2>2, <2>3 DEF CursorsBehind, Enrolled
<1>6. ASSUME NEW d \in Devices, LoseResponse(d) PROVE CursorsBehind'
  BY <1>0, <1>6 DEF LoseResponse, CursorsBehind, vars, Enrolled
<1>7. CASE Trim
  BY <1>0, <1>7 DEF Trim, TrimChanges, clientVars, CursorsBehind, Enrolled
<1>8. CASE PurgeExpired
  BY <1>0, <1>8 DEF PurgeExpired, PurgeTombstones, CursorsBehind, Enrolled
<1>9. ASSUME NEW d \in Devices, Revoke(d) PROVE CursorsBehind'
  <2>1. /\ DOMAIN acked' = Enrolled \ {d} /\ \A e \in Enrolled \ {d} : acked'[e] = acked[e]
    BY <1>9, DropRows DEF Revoke, RevokeDevice, Enrolled
  <2>2. /\ cursor' = [cursor EXCEPT ![d] = 0]
        /\ inbox' = [inbox EXCEPT ![d] = Nothing]
        /\ UNCHANGED headSequence
    BY <1>9 DEF Revoke, RevokeDevice
  <2>3. \A e \in Devices :
            /\ cursor'[e] <= headSequence'
            /\ inbox'[e] # Nothing => cursor'[e] <= inbox'[e].to /\ inbox'[e].to <= headSequence'
    BY <1>0, <2>2 DEF CursorsBehind
  <2>4. \A e \in Enrolled \ {d} : acked'[e] <= cursor'[e]
    BY <1>0, <2>1, <2>2 DEF CursorsBehind
  <2> QED BY <2>1, <2>3, <2>4 DEF CursorsBehind, Enrolled
<1> QED BY <1>1, <1>2, <1>3, <1>4, <1>5, <1>6, <1>7, <1>8, <1>9 DEF SyncNext, PullSteps

LEMMA ContentKept ==
    ASSUME SyncInv, SyncNext
    PROVE  WritesHaveContent'
<1>0. WritesHaveContent
  BY DEF SyncInv
<1>1. CASE \A s \in DOMAIN changes' : s \in DOMAIN changes /\ changes'[s] = changes[s]
  BY <1>0, <1>1 DEF WritesHaveContent
<1>2. CASE UNCHANGED changes
  BY <1>1, <1>2
<1>3. CASE DeviceWrites
  BY <1>2, <1>3, SendAdds DEF SyncInv, IInv, vars
<1>4. CASE ServerWrites
  <2>1. PICK f \in FileIds : Written(f)
    BY <1>4, HandledStep
  <2> QED BY <1>0, <2>1 DEF Written, WritesHaveContent
<1>5. CASE \E d \in Devices, to \in 0..headSequence : Pull(d, to)
  BY <1>2, <1>5, PullAcks DEF SyncInv, IInv
<1>6. CASE \E d \in Devices : Resync(d) \/ Apply(d) \/ LoseResponse(d)
  BY <1>2, <1>6 DEF Resync, Apply, LoseResponse, vars
<1>7. CASE Trim
  BY <1>1, <1>7 DEF Trim, TrimChanges, Drop, Restrict
<1>8. CASE PurgeExpired
  BY <1>2, <1>8 DEF PurgeExpired, PurgeTombstones
<1>9. CASE \E d \in Devices : Revoke(d)
  BY <1>2, <1>9 DEF Revoke, RevokeDevice
<1> QED BY <1>3, <1>4, <1>5, <1>6, <1>7, <1>8, <1>9 DEF SyncNext, PullSteps

\* A commit adds at most one to the revision and to the metadata generation.
LEMMA CountKept ==
    ASSUME SyncInv, SyncNext
    PROVE  RevisionsCounted'
<1>0. IInv /\ TypeOK /\ RevisionsCounted /\ IInv' /\ headSequence \in Nat
  BY StepKeepsIInv DEF SyncInv, IInv, TypeOK
<1>1. ASSUME UNCHANGED <<heads, headSequence>>,
             \A f \in DOMAIN tombstones' : f \in Dead /\ tombstones'[f] = tombstones[f]
      PROVE  RevisionsCounted'
  BY <1>0, <1>1 DEF RevisionsCounted, Live, Dead
<1>2. ASSUME UNCHANGED <<heads, tombstones, headSequence>>
      PROVE  RevisionsCounted'
  BY <1>1, <1>2 DEF Dead
<1>3. CASE DeviceWrites
  BY <1>0, <1>2, <1>3, SendAdds DEF SyncInv, vars
<1>4. CASE ServerWrites
  <2>1. PICK f \in FileIds : Written(f) /\ LifeStep(f)
    BY <1>4, HandledStep
  <2>2. headSequence' <= MaxSequence
    BY <1>0, <2>1 DEF Written
  <2>3. /\ f \in Live => /\ Life[f].phase = "live" /\ Life[f].rev = heads[f].rev
                         /\ Life[f].metaGen = heads[f].metaGen
        /\ f \in Dead => /\ f \notin Live /\ Life[f].phase = "deleted"
                         /\ Life[f].rev = tombstones[f].rev
                         /\ Life[f].metaGen = tombstones[f].metaGen
        /\ f \notin Live /\ f \notin Dead => Life[f].phase \in {"purged", "absent"}
    <3>1. f \notin Live /\ f \notin Dead => Life[f].phase \in {"purged", "absent"}
      BY DEF Life
    <3> QED BY <1>0, <3>1, LifeOfObject
  <2>4. /\ f \in Live' => Life'[f] = Abstract!Alive(heads'[f].rev, heads'[f].gen,
                                                    heads'[f].metaGen)
        /\ f \in Dead' => Life'[f] = Abstract!Gone(tombstones'[f].rev, tombstones'[f].gen,
                                                   tombstones'[f].metaGen)
    BY <1>0 DEF Life, IInv, LedgersAgree, Abstract!Alive, Abstract!Gone
  <2>5. /\ Life'[f].rev \in 1..(headSequence + 1)
        /\ Life'[f].metaGen \in 0..(headSequence + 1)
    <3>1. f \in DOMAIN Life
      BY DEF Life
    <3>2. CASE Abstract!Create(f)
      BY <1>0, <3>1, <3>2 DEF Abstract!Create, Abstract!Become, Abstract!Alive
    <3>3. ASSUME Life[f].phase \in {"live", "deleted"}
          PROVE  Life[f].rev \in 1..headSequence /\ Life[f].metaGen \in 0..headSequence
      BY <1>0, <2>3, <3>3 DEF RevisionsCounted
    <3>4. ASSUME NEW rev \in {Life[f].rev, Life[f].rev + 1}, NEW gen,
                 NEW metaGen \in {Life[f].metaGen, Life[f].metaGen + 1},
                 Life[f].phase \in {"live", "deleted"},
                 \/ Abstract!Become(f, Abstract!Alive(rev, gen, metaGen))
                 \/ Abstract!Become(f, Abstract!Gone(rev, gen, metaGen))
          PROVE  /\ Life'[f].rev \in 1..(headSequence + 1)
                 /\ Life'[f].metaGen \in 0..(headSequence + 1)
      <4>1. Life'[f].rev = rev /\ Life'[f].metaGen = metaGen
        BY <3>1, <3>4 DEF Abstract!Become, Abstract!Alive, Abstract!Gone
      <4>2. Life[f].rev \in 1..headSequence /\ Life[f].metaGen \in 0..headSequence
        BY <3>3, <3>4
      <4> QED BY <1>0, <3>4, <4>1, <4>2
    <3>5. CASE Abstract!Edit(f)
      <4>1. PICK gen \in Generations :
                Abstract!Become(f, Abstract!Alive(Life[f].rev + 1, gen, Life[f].metaGen))
        BY <3>5 DEF Abstract!Edit
      <4> QED BY <3>4, <3>5, <4>1 DEF Abstract!Edit
    <3>6. CASE Abstract!Rename(f)
      BY <3>4, <3>6 DEF Abstract!Rename
    <3>7. CASE Abstract!Delete(f)
      BY <3>4, <3>7 DEF Abstract!Delete
    <3>8. CASE Abstract!Restore(f)
      <4>1. PICK gen \in Generations :
                Abstract!Become(f, Abstract!Alive(Life[f].rev + 1, gen, Life[f].metaGen + 1))
        BY <3>8 DEF Abstract!Restore
      <4> QED BY <3>4, <3>8, <4>1 DEF Abstract!Restore
    <3> QED BY <2>1, <3>2, <3>5, <3>6, <3>7, <3>8 DEF LifeStep
  <2>6. /\ f \in Live' => /\ heads'[f].rev \in 1..headSequence'
                          /\ heads'[f].metaGen \in 0..headSequence'
        /\ f \in Dead' => /\ tombstones'[f].rev \in 1..headSequence'
                          /\ tombstones'[f].metaGen \in 0..headSequence'
    BY <2>1, <2>4, <2>5 DEF Abstract!Alive, Abstract!Gone, Written
  <2>7. /\ \A g \in Live' \ {f} : g \in Live /\ heads'[g] = heads[g]
        /\ \A g \in Dead' \ {f} : g \in Dead /\ tombstones'[g] = tombstones[g]
    <3>1. Live' \subseteq FileIds /\ Dead' \subseteq FileIds
      BY <1>0 DEF IInv, TypeOK, IsTable, Live, Dead
    <3> QED BY <2>1, <3>1 DEF Written
  <2> QED BY <1>0, <2>1, <2>2, <2>6, <2>7 DEF RevisionsCounted, Written
<1>5. CASE \E d \in Devices, to \in 0..headSequence : Pull(d, to)
  BY <1>0, <1>2, <1>5, PullAcks DEF SyncInv
<1>6. CASE \E d \in Devices : Resync(d) \/ Apply(d) \/ LoseResponse(d)
  BY <1>2, <1>6 DEF Resync, Apply, LoseResponse, vars
<1>7. CASE Trim
  BY <1>2, <1>7 DEF Trim, TrimChanges
<1>8. CASE PurgeExpired
  <2>1. PICK expired \in SUBSET Dead : PurgeTombstones(expired)
    BY <1>8 DEF PurgeExpired
  <2>2. UNCHANGED <<heads, headSequence>>
    BY <2>1 DEF PurgeTombstones
  <2>3. \A f \in DOMAIN tombstones' : f \in Dead /\ tombstones'[f] = tombstones[f]
    BY <2>1 DEF PurgeTombstones, Drop, Restrict, Dead
  <2> QED BY <1>1, <2>2, <2>3
<1>9. CASE \E d \in Devices : Revoke(d)
  BY <1>2, <1>9 DEF Revoke, RevokeDevice
<1> QED BY <1>3, <1>4, <1>5, <1>6, <1>7, <1>8, <1>9 DEF SyncNext, PullSteps

\* The past only grows, and only by commits.
LEMMA PastExtends ==
    ASSUME SyncInv, SyncNext
    PROVE  /\ PastKept' /\ LogReplaysPast'
           /\ \A s \in 0..headSequence : past'[s] = past[s]
<1>0. IInv /\ TypeOK /\ IInv' /\ PastKept /\ LogReplaysPast
  BY StepKeepsIInv DEF SyncInv, IInv
<1>1. ASSUME UNCHANGED <<past, heads, headSequence>>,
             \A s \in DOMAIN changes' : s \in DOMAIN changes /\ changes'[s] = changes[s]
      PROVE  /\ PastKept' /\ LogReplaysPast'
             /\ \A s \in 0..headSequence : past'[s] = past[s]
  BY <1>0, <1>1 DEF PastKept, LogReplaysPast, Snapshot, Live, SameOf, View
<1>2. ASSUME UNCHANGED <<past, heads, headSequence, changes>>
      PROVE  /\ PastKept' /\ LogReplaysPast'
             /\ \A s \in 0..headSequence : past'[s] = past[s]
  BY <1>1, <1>2
<1>3. CASE DeviceWrites
  BY <1>0, <1>2, <1>3, SendAdds DEF SyncInv, vars, historyVars
<1>4. CASE ServerWrites
  <2>1. PICK f \in FileIds : Written(f) /\ past' = Put(past, headSequence + 1, Snapshot')
    BY <1>4, HandledStep
  <2> QED BY <1>0, <2>1, WriteExtendsPast
<1>5. ASSUME NEW d \in Devices, NEW to \in 0..headSequence, Pull(d, to)
      PROVE  UNCHANGED <<past, heads, headSequence, changes>>
  BY <1>0, <1>5, PullAcks DEF SyncInv, Pull, historyVars
<1>6. CASE \E d \in Devices : Resync(d) \/ Apply(d) \/ LoseResponse(d)
  BY <1>2, <1>6 DEF Resync, Apply, LoseResponse, vars, historyVars
<1>7. CASE Trim
  <2>1. UNCHANGED <<past, heads, headSequence>>
    BY <1>7 DEF Trim, TrimChanges, historyVars
  <2>2. \A s \in DOMAIN changes' : s \in DOMAIN changes /\ changes'[s] = changes[s]
    BY <1>7 DEF Trim, TrimChanges, Drop, Restrict
  <2> QED BY <1>1, <2>1, <2>2
<1>8. CASE PurgeExpired
  BY <1>2, <1>8 DEF PurgeExpired, PurgeTombstones
<1>9. CASE \E d \in Devices : Revoke(d)
  BY <1>2, <1>9 DEF Revoke, RevokeDevice, historyVars
<1> QED BY <1>2, <1>3, <1>4, <1>5, <1>6, <1>7, <1>8, <1>9 DEF SyncNext, PullSteps

\* Every mirror stays a moment of the past, and so does what it is about to become.
LEMMA MirrorsStayPast ==
    ASSUME SyncInv, SyncNext
    PROVE  MirrorsArePast'
<1>0. /\ IInv /\ MirrorsArePast /\ TypeOK /\ PastKept /\ LogReplaysPast
      /\ headSequence \in Nat /\ minRetained \in Nat
      /\ DOMAIN mirror = Devices /\ DOMAIN inbox = Devices /\ DOMAIN cursor = Devices
      /\ \A d \in Devices : /\ cursor[d] \in 0..headSequence
                            /\ inbox[d] # Nothing => inbox[d].to \in 0..headSequence
      /\ \A s \in 0..headSequence : past'[s] = past[s]
  BY PastExtends DEF SyncInv, IInv, TypeOK, ClientTypes, CursorsBehind
<1>1. ASSUME UNCHANGED <<mirror, cursor, inbox>>
      PROVE  MirrorsArePast'
  <2>1. \A d \in Devices :
            /\ mirror[d] = past'[cursor[d]]
            /\ inbox[d] # Nothing => Applied(mirror[d], inbox[d]) = past'[inbox[d].to]
    BY <1>0 DEF MirrorsArePast
  <2> QED BY <1>1, <2>1 DEF MirrorsArePast, Applied
<1>2. ASSUME NEW d \in Devices,
             \A e \in Devices \ {d} : /\ mirror'[e] = mirror[e] /\ cursor'[e] = cursor[e]
                                      /\ inbox'[e] = inbox[e],
             cursor'[d] \in 0..headSequence, mirror'[d] = past[cursor'[d]],
             inbox'[d] # Nothing => /\ inbox'[d].to \in 0..headSequence
                                    /\ Applied(mirror'[d], inbox'[d]) = past[inbox'[d].to]
      PROVE  MirrorsArePast'
  <2>1. \A e \in Devices :
            /\ mirror'[e] = past'[cursor'[e]]
            /\ inbox'[e] # Nothing => Applied(mirror'[e], inbox'[e]) = past'[inbox'[e].to]
    BY <1>0, <1>2 DEF MirrorsArePast
  <2> QED BY <2>1 DEF MirrorsArePast, Applied
<1>3. CASE DeviceWrites
  BY <1>0, <1>1, <1>3, SendAdds DEF SyncInv
<1>4. CASE ServerWrites
  BY <1>1, <1>4, HandledStep
<1>5. ASSUME NEW d \in Devices, NEW to \in 0..headSequence, Pull(d, to) PROVE MirrorsArePast'
  <2> DEFINE page == {s \in DOMAIN changes : cursor[d] < s /\ s <= to}
             response == PageResponse(page, to)
  <2>1. /\ inbox' = [inbox EXCEPT ![d] = response]
        /\ UNCHANGED <<mirror, cursor>>
        /\ cursor[d] <= to /\ cursor[d] >= minRetained
    BY <1>0, <1>5 DEF Pull, Behind
  <2>2. Applied(past[cursor[d]], response) = past[to]
    BY <1>0, <2>1, PageLeadsOn
  <2>3. response.to = to /\ mirror[d] = past[cursor[d]]
    BY <1>0 DEF PageResponse, MirrorsArePast
  <2> HIDE DEF response
  <2> QED BY <1>0, <1>2, <2>1, <2>2, <2>3
<1>6. ASSUME NEW d \in Devices, Resync(d) PROVE MirrorsArePast'
  <2>1. /\ inbox' = [inbox EXCEPT ![d] = SnapshotResponse]
        /\ UNCHANGED <<mirror, cursor>>
    BY <1>6 DEF Resync
  <2>2. mirror[d] = past[cursor[d]] /\ mirror[d] \in Vaults
    BY <1>0 DEF MirrorsArePast, PastKept
  <2>3. Applied(mirror[d], SnapshotResponse) = past[headSequence]
    BY <1>0, <2>2, SnapshotLeadsOn
  <2>4. SnapshotResponse.to = headSequence
    BY DEF SnapshotResponse
  <2> QED BY <1>0, <1>2, <2>1, <2>2, <2>3, <2>4
<1>7. ASSUME NEW d \in Devices, Apply(d) PROVE MirrorsArePast'
  <2>1. /\ inbox[d] # Nothing
        /\ mirror' = [mirror EXCEPT ![d] = Applied(mirror[d], inbox[d])]
        /\ cursor' = [cursor EXCEPT ![d] = inbox[d].to]
        /\ inbox' = [inbox EXCEPT ![d] = Nothing]
    BY <1>7 DEF Apply
  <2>2. Applied(mirror[d], inbox[d]) = past[inbox[d].to]
    BY <1>0, <2>1 DEF MirrorsArePast
  <2> QED BY <1>0, <1>2, <2>1, <2>2
<1>8. ASSUME NEW d \in Devices, LoseResponse(d) PROVE MirrorsArePast'
  <2>1. /\ inbox' = [inbox EXCEPT ![d] = Nothing]
        /\ UNCHANGED <<mirror, cursor>>
    BY <1>8 DEF LoseResponse
  <2> QED BY <1>0, <1>2, <2>1 DEF MirrorsArePast
<1>9. CASE Trim \/ PurgeExpired
  <2>1. UNCHANGED <<mirror, cursor, inbox>>
    BY <1>9 DEF Trim, PurgeExpired, clientVars
  <2> QED BY <1>1, <2>1
<1>10. ASSUME NEW d \in Devices, Revoke(d) PROVE MirrorsArePast'
  <2>1. /\ mirror' = [mirror EXCEPT ![d] = << >>]
        /\ cursor' = [cursor EXCEPT ![d] = 0]
        /\ inbox' = [inbox EXCEPT ![d] = Nothing]
    BY <1>10 DEF Revoke
  <2>2. past[0] = << >> /\ 0 \in 0..headSequence
    BY <1>0 DEF PastKept
  <2> QED BY <1>0, <1>2, <2>1, <2>2
<1> QED BY <1>3, <1>4, <1>5, <1>6, <1>7, <1>8, <1>9, <1>10 DEF SyncNext, PullSteps

\* What was seen stays in the past, and what is seen now was there.
LEMMA KnownKept ==
    ASSUME SyncInv, SyncNext
    PROVE  KnownBefore'
<1>0. /\ IInv /\ KnownBefore /\ TypeOK /\ IInv'
      /\ DOMAIN mirror = Devices /\ DOMAIN inbox = Devices
      /\ \A d \in Devices : IsTable(mirror[d], FileIds, Views)
      /\ \A d \in Devices : inbox[d] # Nothing => /\ inbox[d].touched \subseteq FileIds
                                                  /\ IsTable(inbox[d].views, inbox[d].touched, Views)
      /\ \A r \in sent : r \in Request
  BY StepKeepsIInv DEF SyncInv, IInv, ClientTypes
<1>1. ASSUME UNCHANGED <<mirror, inbox>>, sent' \subseteq sent,
             \A f \in FileIds, rev \in Nat : \A content :
                SeenBefore(f, rev, content) => SeenNext(f, rev, content)
      PROVE  KnownBefore'
  <2>1. ASSUME NEW d \in Devices, NEW f \in FileIds, f \in DOMAIN mirror[d]
        PROVE  SeenNext(f, mirror[d][f].rev, mirror[d][f].content)
    <3>1. mirror[d][f].rev \in Nat
      BY <1>0, <2>1 DEF IsTable, Views
    <3> QED BY <1>0, <1>1, <2>1, <3>1 DEF KnownBefore
  <2>2. ASSUME NEW d \in Devices, NEW f \in FileIds, inbox[d] # Nothing,
               f \in DOMAIN inbox[d].views
        PROVE  SeenNext(f, inbox[d].views[f].rev, inbox[d].views[f].content)
    <3>1. inbox[d].views[f].rev \in Nat
      BY <1>0, <2>2 DEF IsTable, Views
    <3> QED BY <1>0, <1>1, <2>2, <3>1 DEF KnownBefore
  <2>3. ASSUME NEW r \in sent, r.kind \in Overwriting
        PROVE  r.file \in FileIds /\ SeenNext(r.file, r.base, r.seen)
    <3>1. r.base \in Nat
      BY <1>0 DEF Request
    <3> QED BY <1>0, <1>1, <2>3, <3>1 DEF KnownBefore
  <2> QED BY <1>1, <2>1, <2>2, <2>3 DEF KnownBefore, SeenBefore, SeenNext, Live, Dead
<1>2. ASSUME UNCHANGED <<heads, tombstones, objectState>>, NEW d \in Devices,
             \A e \in Devices \ {d} : mirror'[e] = mirror[e] /\ inbox'[e] = inbox[e],
             \A f \in FileIds : f \in DOMAIN mirror'[d]
                => SeenBefore(f, mirror'[d][f].rev, mirror'[d][f].content),
             inbox'[d] # Nothing => \A f \in FileIds : f \in DOMAIN inbox'[d].views
                => SeenBefore(f, inbox'[d].views[f].rev, inbox'[d].views[f].content),
             sent' \subseteq sent
      PROVE  KnownBefore'
  <2>1. \A e \in Devices, f \in FileIds :
            /\ f \in DOMAIN mirror'[e]
                  => SeenBefore(f, mirror'[e][f].rev, mirror'[e][f].content)
            /\ inbox'[e] # Nothing /\ f \in DOMAIN inbox'[e].views
                  => SeenBefore(f, inbox'[e].views[f].rev, inbox'[e].views[f].content)
    <3> SUFFICES ASSUME NEW e \in Devices, NEW f \in FileIds
                 PROVE  /\ f \in DOMAIN mirror'[e]
                              => SeenBefore(f, mirror'[e][f].rev, mirror'[e][f].content)
                        /\ inbox'[e] # Nothing /\ f \in DOMAIN inbox'[e].views
                              => SeenBefore(f, inbox'[e].views[f].rev, inbox'[e].views[f].content)
      OBVIOUS
    <3>1. CASE e = d
      BY <1>2, <3>1
    <3>2. CASE e # d
      BY <1>0, <1>2, <3>2 DEF KnownBefore
    <3> QED BY <3>1, <3>2
  <2>2. \A r \in sent' : r.kind \in Overwriting => r.file \in FileIds /\ SeenBefore(r.file, r.base, r.seen)
    BY <1>0, <1>2 DEF KnownBefore
  <2> QED BY <1>2, <2>1, <2>2 DEF KnownBefore, SeenBefore, Live, Dead
<1>3. CASE DeviceWrites
  <2>1. PICK new \in Request :
            /\ new.kind # "create" => new.file \in FileIds
            /\ new.kind \in Overwriting => SeenBefore(new.file, new.base, new.seen)
            /\ sent' = sent \cup {new}
            /\ UNCHANGED <<vars, mirror, inbox>>
    BY <1>0, <1>3, SendAdds DEF SyncInv
  <2>2. \A r \in sent' : r.kind \in Overwriting => r.file \in FileIds /\ SeenBefore(r.file, r.base, r.seen)
    BY <1>0, <2>1 DEF KnownBefore
  <2> QED BY <1>0, <2>1, <2>2 DEF KnownBefore, SeenBefore, Live, Dead, vars
<1>4. CASE ServerWrites
  <2>1. PICK f \in FileIds : /\ Written(f) /\ Onward(f) /\ UNCHANGED <<mirror, inbox, sent>>
    BY <1>4, HandledStep
  <2>2. ASSUME NEW g \in FileIds, NEW rev \in Nat, NEW content, SeenBefore(g, rev, content)
        PROVE  SeenNext(g, rev, content)
    <3>1. CASE g = f
      BY <1>0, <2>1, <2>2, <3>1, OnwardKeepsSeen DEF IInv
    <3>2. CASE g # f
      BY <2>1, <2>2, <3>2 DEF Written, SeenBefore, SeenNext
    <3> QED BY <3>1, <3>2
  <2> QED BY <1>1, <2>1, <2>2
<1>5. ASSUME NEW d \in Devices, NEW to \in 0..headSequence, Pull(d, to) PROVE KnownBefore'
  <2> DEFINE page == {s \in DOMAIN changes : cursor[d] < s /\ s <= to}
             response == PageResponse(page, to)
  <2>1. inbox' = [inbox EXCEPT ![d] = response] /\ UNCHANGED <<mirror, sent>>
    BY <1>5 DEF Pull
  <2>2. UNCHANGED <<heads, tombstones, objectState>>
    BY <1>0, <1>5, PullAcks DEF SyncInv
  <2>3. \A f \in DOMAIN response.views :
            SeenBefore(f, response.views[f].rev, response.views[f].content)
    <3>1. page \in SUBSET DOMAIN changes
      OBVIOUS
    <3>2. IInv /\ WritesHaveContent
      BY DEF SyncInv
    <3> HIDE DEF page
    <3> QED BY <3>1, <3>2, PageTyped
  <2> HIDE DEF response
  <2>4. \A e \in Devices \ {d} : mirror'[e] = mirror[e] /\ inbox'[e] = inbox[e]
    BY <1>0, <2>1
  <2>5. inbox'[d] = response /\ mirror'[d] = mirror[d] /\ sent' \subseteq sent
    BY <1>0, <2>1
  <2>6. \A f \in FileIds : f \in DOMAIN mirror'[d]
           => SeenBefore(f, mirror'[d][f].rev, mirror'[d][f].content)
    BY <1>0, <2>5 DEF KnownBefore
  <2> QED BY <1>2, <2>2, <2>3, <2>4, <2>5, <2>6
<1>6. ASSUME NEW d \in Devices, Resync(d) PROVE KnownBefore'
  <2>1. /\ inbox' = [inbox EXCEPT ![d] = SnapshotResponse]
        /\ UNCHANGED <<mirror, sent, heads, tombstones, objectState>>
    BY <1>6 DEF Resync, vars
  <2>2. \A f \in Live : /\ heads[f].rev \in Nat /\ f \notin Dead /\ f \in DOMAIN objectState
    BY <1>0, RowsTyped DEF IInv, LedgersAgree
  <2>3. \A f \in Live : SeenBefore(f, Snapshot[f].rev, Snapshot[f].content)
    BY <2>2 DEF SeenBefore, Snapshot, View
  <2>4. SnapshotResponse.views = Snapshot /\ DOMAIN Snapshot = Live
    BY DEF SnapshotResponse, Snapshot
  <2>5. \A e \in Devices \ {d} : mirror'[e] = mirror[e] /\ inbox'[e] = inbox[e]
    BY <1>0, <2>1
  <2>6. inbox'[d] = SnapshotResponse /\ mirror'[d] = mirror[d] /\ sent' \subseteq sent
    BY <1>0, <2>1
  <2>7. \A f \in FileIds : f \in DOMAIN mirror'[d]
           => SeenBefore(f, mirror'[d][f].rev, mirror'[d][f].content)
    BY <1>0, <2>6 DEF KnownBefore
  <2> QED BY <1>2, <2>1, <2>3, <2>4, <2>5, <2>6, <2>7
<1>7. ASSUME NEW d \in Devices, Apply(d) PROVE KnownBefore'
  <2>1. /\ inbox[d] # Nothing
        /\ mirror' = [mirror EXCEPT ![d] = Applied(mirror[d], inbox[d])]
        /\ inbox' = [inbox EXCEPT ![d] = Nothing]
        /\ UNCHANGED <<sent, heads, tombstones, objectState>>
    BY <1>7 DEF Apply, vars
  <2>2. \A e \in Devices \ {d} : mirror'[e] = mirror[e] /\ inbox'[e] = inbox[e]
    BY <1>0, <2>1
  <2>3. /\ inbox'[d] = Nothing /\ sent' \subseteq sent
        /\ mirror'[d] = Applied(mirror[d], inbox[d])
    BY <1>0, <2>1
  <2>4. ASSUME NEW f \in FileIds, f \in DOMAIN mirror'[d]
        PROVE  SeenBefore(f, mirror'[d][f].rev, mirror'[d][f].content)
    <3>1. CASE f \in DOMAIN inbox[d].views
      <4>1. mirror'[d][f] = inbox[d].views[f]
        BY <2>3, <3>1 DEF Applied
      <4> QED BY <1>0, <2>1, <3>1, <4>1 DEF KnownBefore
    <3>2. CASE f \notin DOMAIN inbox[d].views
      <4>1. f \in DOMAIN mirror[d] /\ mirror'[d][f] = mirror[d][f]
        BY <2>3, <2>4, <3>2 DEF Applied
      <4> QED BY <1>0, <4>1 DEF KnownBefore
    <3> QED BY <3>1, <3>2
  <2> QED BY <1>2, <2>1, <2>2, <2>3, <2>4
<1>8. ASSUME NEW d \in Devices, LoseResponse(d) PROVE KnownBefore'
  <2>1. /\ inbox' = [inbox EXCEPT ![d] = Nothing]
        /\ UNCHANGED <<mirror, sent, heads, tombstones, objectState>>
    BY <1>8 DEF LoseResponse, vars
  <2>2. \A f \in FileIds : f \in DOMAIN mirror'[d]
           => SeenBefore(f, mirror'[d][f].rev, mirror'[d][f].content)
    BY <1>0, <2>1 DEF KnownBefore
  <2> QED BY <1>0, <1>2, <2>1, <2>2
<1>9. CASE Trim
  <2>1. UNCHANGED <<mirror, inbox, sent, heads, tombstones, objectState>>
    BY <1>9 DEF Trim, TrimChanges, clientVars
  <2> QED BY <1>1, <2>1 DEF SeenBefore, SeenNext, Live, Dead
<1>10. CASE PurgeExpired
  <2>1. PICK expired \in SUBSET Dead : PurgeTombstones(expired)
    BY <1>10 DEF PurgeExpired
  <2>2. /\ UNCHANGED <<mirror, inbox, heads, objectState>>
        /\ sent' \subseteq sent
    BY <1>10, <2>1 DEF PurgeExpired, PurgeTombstones
  <2>3. \A f \in DOMAIN tombstones' : f \in Dead /\ tombstones'[f] = tombstones[f]
    BY <2>1 DEF PurgeTombstones, Drop, Restrict, Dead
  <2>4. ASSUME NEW f \in FileIds, NEW rev \in Nat, NEW content, SeenBefore(f, rev, content)
        PROVE  SeenNext(f, rev, content)
    BY <2>2, <2>3, <2>4 DEF SeenBefore, SeenNext, Live, Dead
  <2> QED BY <1>1, <2>2, <2>4
<1>11. ASSUME NEW d \in Devices, Revoke(d) PROVE KnownBefore'
  <2>1. /\ mirror' = [mirror EXCEPT ![d] = << >>]
        /\ inbox' = [inbox EXCEPT ![d] = Nothing]
        /\ UNCHANGED <<heads, tombstones, objectState>>
        /\ sent' \subseteq sent
    BY <1>11 DEF Revoke, RevokeDevice
  <2> QED BY <1>0, <1>2, <2>1
<1> QED BY <1>3, <1>4, <1>5, <1>6, <1>7, <1>8, <1>9, <1>10, <1>11 DEF SyncNext, PullSteps

\* What is spent stays spent, and what was handled now is.
LEMMA SpentKept ==
    ASSUME SyncInv, SyncNext
    PROVE  EffectsSpent'
<1>0. /\ IInv /\ TypeOK /\ EffectsSpent /\ IInv' /\ lastOp \in 0..MaxRequests
      /\ \A r \in sent : r \in Request
  BY StepKeepsIInv DEF SyncInv, IInv, ClientTypes
<1>1. ASSUME UNCHANGED <<lastOp, effects>>, sent' \subseteq sent,
             \A r \in sent : \A f : Spent(r, f) => SpentNext(r, f)
      PROVE  EffectsSpent'
  BY <1>0, <1>1 DEF EffectsSpent, Spent, SpentNext, Live, Dead
<1>2. CASE DeviceWrites
  <2>1. PICK new \in Request :
            /\ new.op = lastOp + 1 /\ lastOp' = lastOp + 1
            /\ new.kind # "create" => new.file \in FileIds
            /\ sent' = sent \cup {new}
            /\ UNCHANGED <<vars, historyVars>>
    BY <1>0, <1>2, SendAdds DEF SyncInv
  <2>2. \A r \in sent : r.op \in Nat /\ r.op <= lastOp
    BY <1>0 DEF EffectsSpent, Request
  <2>3. /\ \A r \in sent' : r.op <= lastOp'
        /\ \A r, q \in sent' : r.op = q.op => r = q
        /\ \A r \in sent' : r.kind # "create" => r.file \in FileIds
    BY <1>0, <2>1, <2>2 DEF EffectsSpent
  <2>4. \A e \in effects : e.op \in 1..lastOp' /\ e.op # new.op
    BY <1>0, <2>1 DEF EffectsSpent
  <2>5. \A e \in effects, r \in sent' : r.op = e.op => Spent(r, e.file)
    BY <1>0, <2>1, <2>4 DEF EffectsSpent
  <2>6. UNCHANGED <<effects, heads, tombstones, objectState>>
    BY <2>1 DEF historyVars, vars
  <2>7. \A e \in effects', r \in sent' : r.op = e.op => Spent(r, e.file)'
    BY <2>5, <2>6 DEF Spent, Live, Dead
  <2> QED BY <2>3, <2>4, <2>6, <2>7 DEF EffectsSpent
<1>3. CASE ServerWrites
  <2>1. PICK r \in sent, f \in FileIds :
            /\ Written(f) /\ Onward(f) /\ SpentNext(r, f) /\ UNCHANGED <<sent, lastOp>>
            /\ effects' = effects \cup {[op |-> r.op, file |-> f, seq |-> headSequence + 1]}
    BY <1>3, HandledStep
  <2>2. r.op \in 1..lastOp'
    BY <1>0, <2>1 DEF EffectsSpent, Request
  <2>3. ASSUME NEW q \in sent, NEW g, Spent(q, g) PROVE SpentNext(q, g)
    <3>0. g \in FileIds /\ q.base \in Nat
      BY <1>0, <2>3 DEF Spent, Request, TypeOK, IsTable
    <3>1. CASE g = f
      BY <1>0, <2>1, <2>3, <3>0, <3>1, OnwardKeepsSpent DEF IInv
    <3>2. CASE g # f
      BY <2>1, <2>3, <3>0, <3>2 DEF Written, Spent, SpentNext
    <3> QED BY <3>1, <3>2
  <2>4. \A e \in effects', q \in sent' : q.op = e.op => SpentNext(q, e.file)
    <3> SUFFICES ASSUME NEW e \in effects', NEW q \in sent, q.op = e.op
                 PROVE  SpentNext(q, e.file)
      BY <2>1
    <3>1. CASE e \in effects
      BY <1>0, <2>3, <3>1 DEF EffectsSpent
    <3>2. CASE e = [op |-> r.op, file |-> f, seq |-> headSequence + 1]
      <4>1. q = r /\ e.file = f
        BY <1>0, <3>2 DEF EffectsSpent
      <4> QED BY <2>1, <4>1
    <3> QED BY <2>1, <3>1, <3>2
  <2>5. /\ \A q \in sent' : q.op <= lastOp'
        /\ \A p, q \in sent' : p.op = q.op => p = q
        /\ \A q \in sent' : q.kind # "create" => q.file \in FileIds
        /\ \A e \in effects' : e.op \in 1..lastOp'
    BY <1>0, <2>1, <2>2 DEF EffectsSpent
  <2> QED BY <2>4, <2>5 DEF EffectsSpent, Spent, SpentNext, Live, Dead
<1>4. ASSUME UNCHANGED <<heads, tombstones, objectState>>
      PROVE  \A r, f : Spent(r, f) => SpentNext(r, f)
  BY <1>4 DEF Spent, SpentNext, Live, Dead
<1>5. ASSUME NEW d \in Devices, NEW to \in 0..headSequence, Pull(d, to) PROVE EffectsSpent'
  <2>1. UNCHANGED <<heads, tombstones, objectState>>
    BY <1>0, <1>5, PullAcks DEF SyncInv
  <2>2. UNCHANGED <<sent, lastOp, effects>>
    BY <1>5 DEF Pull, historyVars
  <2> QED BY <1>1, <1>4, <2>1, <2>2
<1>6. CASE \E d \in Devices : Resync(d) \/ Apply(d) \/ LoseResponse(d)
  <2>1. UNCHANGED <<heads, tombstones, objectState, sent, lastOp, effects>>
    BY <1>6 DEF Resync, Apply, LoseResponse, vars, historyVars
  <2> QED BY <1>1, <1>4, <2>1
<1>7. CASE Trim
  <2>1. UNCHANGED <<heads, tombstones, objectState, sent, lastOp, effects>>
    BY <1>7 DEF Trim, TrimChanges, clientVars, historyVars
  <2> QED BY <1>1, <1>4, <2>1
<1>8. CASE PurgeExpired
  <2>1. PICK expired \in SUBSET Dead : PurgeTombstones(expired)
    BY <1>8 DEF PurgeExpired
  <2>2. UNCHANGED <<heads, objectState, lastOp, effects>> /\ sent' \subseteq sent
    BY <1>8, <2>1 DEF PurgeExpired, PurgeTombstones
  <2>3. \A f \in DOMAIN tombstones' : f \in Dead /\ tombstones'[f] = tombstones[f]
    BY <2>1 DEF PurgeTombstones, Drop, Restrict, Dead
  <2>4. \A r, f : Spent(r, f) => SpentNext(r, f)
    BY <2>2, <2>3 DEF Spent, SpentNext, Live, Dead
  <2> QED BY <1>1, <2>2, <2>4
<1>9. CASE \E d \in Devices : Revoke(d)
  <2>1. /\ UNCHANGED <<heads, tombstones, objectState, lastOp, effects>>
        /\ sent' \subseteq sent
    BY <1>9 DEF Revoke, RevokeDevice, historyVars
  <2> QED BY <1>1, <1>4, <2>1
<1> QED BY <1>2, <1>3, <1>5, <1>6, <1>7, <1>8, <1>9 DEF SyncNext, PullSteps

\* A request that is handled had not been handled on that object.
LEMMA OnceKept ==
    ASSUME SyncInv, SyncNext
    PROVE  AtMostOncePerObject'
<1>1. CASE UNCHANGED effects
  BY <1>1 DEF SyncInv, AtMostOncePerObject
<1>2. CASE ServerWrites
  <2>1. PICK r \in sent, f \in FileIds :
            /\ ~ Spent(r, f)
            /\ effects' = effects \cup {[op |-> r.op, file |-> f, seq |-> headSequence + 1]}
    BY <1>2, HandledStep
  <2>2. \A e \in effects : ~ (e.op = r.op /\ e.file = f)
    BY <2>1 DEF SyncInv, EffectsSpent
  <2> QED BY <2>1, <2>2 DEF SyncInv, AtMostOncePerObject
<1>3. CASE DeviceWrites
  BY <1>1, <1>3, SendAdds DEF SyncInv, IInv, historyVars
<1>4. CASE PullSteps \/ Trim \/ PurgeExpired \/ \E d \in Devices : Revoke(d)
  BY <1>1, <1>4
     DEF PullSteps, Pull, Resync, Apply, LoseResponse, Trim, PurgeExpired, Revoke, historyVars
<1> QED BY <1>2, <1>3, <1>4 DEF SyncNext

\* The records purged so far were known to everybody who can still speak.
LEMMA GravesKept ==
    ASSUME SyncInv, SyncNext
    PROVE  GravesKnown'
<1>0. /\ GravesKnown /\ CursorsBehind /\ TypeOK
      /\ \A d \in Enrolled : d \in Devices /\ acked[d] \in Nat /\ cursor[d] \in Nat
      /\ \A r \in sent : r.sentAt \in Nat
  BY RowsTyped DEF SyncInv, IInv, ClientTypes, Request
<1>1. CASE DeviceWrites
  <2>1. PICK new \in Request :
            /\ new.dev \in Enrolled /\ new.sentAt = cursor[new.dev]
            /\ sent' = sent \cup {new}
            /\ UNCHANGED <<vars, historyVars>>
    BY <1>0, <1>1, SendAdds DEF SyncInv
  <2>2. \A grave \in graves : grave.seq <= new.sentAt
    BY <1>0, <2>1 DEF GravesKnown, CursorsBehind
  <2> QED BY <1>0, <2>1, <2>2 DEF GravesKnown, vars, historyVars, Enrolled
<1>2. CASE ServerWrites
  <2>1. UNCHANGED <<graves, sent, acked>>
    BY <1>2, HandledStep DEF Written
  <2> QED BY <1>0, <2>1 DEF GravesKnown, Enrolled
<1>3. ASSUME NEW d \in Devices, NEW to \in 0..headSequence, Pull(d, to) PROVE GravesKnown'
  <2>1. /\ DOMAIN acked' = Enrolled
        /\ \A e \in Enrolled : acked[e] <= acked'[e] /\ acked'[e] \in Nat
    BY <1>0, <1>3, PullAcks DEF SyncInv
  <2>2. UNCHANGED <<graves, sent>>
    BY <1>3 DEF Pull, historyVars
  <2>3. \A grave \in graves : \A e \in Enrolled : grave.seq <= acked'[e]
    BY <1>0, <2>1 DEF GravesKnown
  <2> QED BY <1>0, <2>1, <2>2, <2>3 DEF GravesKnown, Enrolled
<1>4. CASE \E d \in Devices : Resync(d) \/ Apply(d) \/ LoseResponse(d)
  BY <1>0, <1>4 DEF Resync, Apply, LoseResponse, vars, historyVars, GravesKnown, Enrolled
<1>5. CASE Trim
  BY <1>0, <1>5 DEF Trim, TrimChanges, clientVars, historyVars, GravesKnown, Enrolled
<1>6. CASE PurgeExpired
  <2>1. PICK expired \in SUBSET Dead :
            /\ PurgeTombstones(expired)
            /\ graves' = graves \cup {tombstones[f] : f \in Dead \ DOMAIN tombstones'}
            /\ sent' = {r \in sent : \A grave \in graves' : grave.seq <= r.sentAt}
    BY <1>6 DEF PurgeExpired
  <2>2. /\ UNCHANGED acked
        /\ \A f \in Dead : f \notin DOMAIN tombstones' => Acknowledged(tombstones[f].seq)
    BY <2>1 DEF PurgeTombstones, Drop, Restrict, Dead
  <2>3. \A f \in Dead : tombstones[f].seq \in Nat
    BY <1>0, RowsTyped
  <2>4. \A grave \in graves' : /\ grave.seq \in Nat
                               /\ \A d \in Enrolled : grave.seq <= acked[d]
    BY <1>0, <2>1, <2>2, <2>3 DEF GravesKnown, Acknowledged, Enrolled
  <2> QED BY <2>1, <2>2, <2>4 DEF GravesKnown, Enrolled
<1>7. ASSUME NEW d \in Devices, Revoke(d) PROVE GravesKnown'
  <2>1. DOMAIN acked' = Enrolled \ {d} /\ \A e \in Enrolled \ {d} : acked'[e] = acked[e]
    BY <1>7, DropRows DEF Revoke, RevokeDevice, Enrolled
  <2>2. UNCHANGED graves /\ sent' \subseteq sent
    BY <1>7 DEF Revoke, historyVars
  <2> QED BY <1>0, <2>1, <2>2 DEF GravesKnown, Enrolled
<1> QED BY <1>1, <1>2, <1>3, <1>4, <1>5, <1>6, <1>7 DEF SyncNext, PullSteps

-----------------------------------------------------------------------------
\* The invariant holds at the start and is kept by every step.
LEMMA InitSyncInv == SyncInit => SyncInv
<1> SUFFICES ASSUME SyncInit PROVE SyncInv
  OBVIOUS
<1>1. IInv
  BY DEF SyncInit, EmptyVault, IInv, TypeOK, IsTable, LedgersAgree, NamesUnique,
         LogContiguous, LogDescribesObjects, LastOf, RevisionIdentifiesContent,
         LogBelowPresent, Live, Dead
<1>2. WritesHaveContent /\ RevisionsCounted
  BY DEF SyncInit, EmptyVault, WritesHaveContent, RevisionsCounted, Live, Dead
<1>3. ClientTypes
  <2>1. IsTable(<< >>, FileIds, Views)
    BY DEF IsTable
  <2> QED BY <2>1 DEF SyncInit, ClientTypes
<1>4. CursorsBehind /\ KnownBefore /\ EffectsSpent /\ AtMostOncePerObject /\ GravesKnown
  BY DEF SyncInit, EmptyVault, CursorsBehind, Enrolled, KnownBefore, EffectsSpent,
         AtMostOncePerObject, GravesKnown
<1>5. Snapshot = << >>
  BY DEF SyncInit, EmptyVault, Snapshot, Live
<1>6. << >> \in Vaults
  <2>1. << >> \in [{} -> Views]
    OBVIOUS
  <2> QED BY <2>1 DEF Vaults
<1>7. PastKept /\ LogReplaysPast /\ MirrorsArePast
  BY <1>5, <1>6 DEF SyncInit, EmptyVault, PastKept, LogReplaysPast, MirrorsArePast
<1> QED BY <1>1, <1>2, <1>3, <1>4, <1>7 DEF SyncInv

LEMMA NextKeepsSyncInv == SyncInv /\ [SyncNext]_allVars => SyncInv'
<1> SUFFICES ASSUME SyncInv, [SyncNext]_allVars PROVE SyncInv'
  OBVIOUS
<1>1. CASE SyncNext
  BY <1>1, StepKeepsIInv, ContentKept, CountKept, TypesKept, CursorsKept, PastExtends,
     MirrorsStayPast, KnownKept, SpentKept, OnceKept, GravesKept DEF SyncInv
<1>2. CASE UNCHANGED allVars
  <2>1. UNCHANGED vars /\ UNCHANGED <<mirror, cursor, inbox, sent, lastOp, effects, graves, past>>
    BY <1>2 DEF allVars, clientVars, historyVars
  <2>2. UNCHANGED <<heads, tombstones, objectState, headSequence, minRetained, changes, acked>>
    BY <2>1 DEF vars
  <2>3. IInv'
    BY <2>1, NextKeepsIInv DEF SyncInv
  <2>4. WritesHaveContent' /\ ClientTypes' /\ CursorsBehind' /\ AtMostOncePerObject' /\ GravesKnown'
    BY <2>1, <2>2 DEF SyncInv, WritesHaveContent, ClientTypes, CursorsBehind, AtMostOncePerObject,
                      GravesKnown, Enrolled
  <2>5. KnownBefore' /\ EffectsSpent'
    BY <2>1, <2>2 DEF SyncInv, KnownBefore, SeenBefore, EffectsSpent, Spent, Live, Dead
  <2>8. RevisionsCounted'
    BY <2>2 DEF SyncInv, RevisionsCounted, Live, Dead
  <2>6. PastKept' /\ LogReplaysPast'
    BY <2>1, <2>2 DEF SyncInv, PastKept, LogReplaysPast, SameOf, View, Snapshot, Live
  <2>7. MirrorsArePast'
    BY <2>1 DEF SyncInv, MirrorsArePast, Applied
  <2> QED BY <2>3, <2>4, <2>5, <2>6, <2>7, <2>8 DEF SyncInv
<1> QED BY <1>1, <1>2

\* In every reachable state what devices know and have sent is about a past the
\* server has moved on from, never about one it could go back to.
THEOREM SyncInvariance == SyncSpec => []SyncInv
BY InitSyncInv, NextKeepsSyncInv, PTL DEF SyncSpec

\* Server, devices and network stay well-typed.
THEOREM SyncTypes == SyncSpec => []SyncTypeOK
<1>1. SyncInv => SyncTypeOK
  BY DEF SyncInv, IInv, ClientTypes, SyncTypeOK
<1> QED BY <1>1, SyncInvariance, PTL

\* Whatever a device has applied, or is about to apply, is the whole vault of one
\* moment, for pages of any length, any trimming and any writes in between.
THEOREM MirrorsRight == SyncSpec => []MirrorsArePast
BY SyncInvariance, PTL DEF SyncInv

\* An object without a retained change above the cursor of a device is known to it
\* exactly as the server has it, live under that name and revision or not at all.
\* A cursor the watermark has passed promises nothing, which is why the server
\* sends it to a snapshot.
RightUpToCursor ==
    \A d \in Devices, f \in FileIds :
        /\ minRetained <= cursor[d]
        /\ \A s \in DOMAIN changes : changes[s].file = f => s <= cursor[d]
        => SameOf(f, mirror[d], Snapshot)

\* What a device knows is right up to its cursor.
THEOREM MirrorsCurrent == SyncSpec => []RightUpToCursor
<1>1. SyncInv => RightUpToCursor
  <2> SUFFICES ASSUME SyncInv, NEW d \in Devices, NEW f \in FileIds,
                      minRetained <= cursor[d],
                      \A s \in DOMAIN changes : changes[s].file = f => s <= cursor[d]
               PROVE  SameOf(f, mirror[d], Snapshot)
    BY DEF RightUpToCursor
  <2>1. /\ IInv /\ LogReplaysPast /\ headSequence \in Nat
        /\ cursor[d] \in Nat /\ cursor[d] <= headSequence
        /\ \A s \in DOMAIN changes : s \in Nat
    BY DEF SyncInv, IInv, TypeOK, IsTable, ClientTypes, CursorsBehind
  <2>2. \A s \in DOMAIN changes : cursor[d] < s /\ s <= headSequence => changes[s].file # f
    BY <2>1
  <2>3. SameOf(f, past[cursor[d]], past[headSequence])
    BY <2>1, <2>2, QuietBetween
  <2> QED BY <2>3 DEF SyncInv, MirrorsArePast, PastKept
<1> QED BY <1>1, SyncInvariance, PTL

\* A device that has caught up knows exactly the live objects of the server.
CaughtUpIsExact ==
    \A d \in Devices : cursor[d] = headSequence => mirror[d] = Snapshot

\* Of EventualConvergence this is the part that is not about progress: nothing
\* is missing from, or left over in, the mirror of a device whose cursor has
\* reached the head, however it got there.
THEOREM CaughtUp == SyncSpec => []CaughtUpIsExact
<1>1. SyncInv => CaughtUpIsExact
  BY DEF SyncInv, MirrorsArePast, PastKept, CaughtUpIsExact
<1> QED BY <1>1, SyncInvariance, PTL

-----------------------------------------------------------------------------
(***************************************************************************)
(* Server, devices and network implement replicas of a vault               *)
(***************************************************************************)

LEMMA ReplicaStart ==
    ASSUME SyncInit
    PROVE  Replica!Init
<1>1. Snapshot = << >>
  BY DEF SyncInit, EmptyVault, Snapshot, Live
<1> QED BY <1>1 DEF SyncInit, Replica!Init, Replica!Empty

\* A step that touches neither the past nor a mirror nor a cursor.
LEMMA ReplicaRests ==
    ASSUME UNCHANGED <<past, mirror, cursor>>
    PROVE  [Replica!Next]_<<past, mirror, cursor>>
OBVIOUS

\* A request that is handled is one commit.
LEMMA WriteIsCommit ==
    ASSUME SyncInv, ServerWrites
    PROVE  [Replica!Next]_<<past, mirror, cursor>>
<1>1. PICK f \in FileIds : /\ IInv' /\ Written(f) /\ Changed(f)
                           /\ past' = Put(past, headSequence + 1, Snapshot')
                           /\ UNCHANGED <<mirror, cursor>>
  BY HandledStep
<1>2. IInv /\ PastKept /\ LogReplaysPast /\ headSequence \in Nat
  BY DEF SyncInv, IInv, TypeOK
<1>3. /\ \A s \in 0..headSequence : past'[s] = past[s]
      /\ past'[headSequence + 1] = Snapshot'
      /\ \A g \in FileIds \ {f} : SameOf(g, past[headSequence], past'[headSequence + 1])
      /\ PastKept'
  BY <1>1, <1>2, WriteExtendsPast
<1>4. Replica!IsNow(headSequence)
  BY <1>2 DEF Replica!IsNow, Replica!Moments, PastKept
<1>5. DOMAIN past' = DOMAIN past \cup {headSequence + 1}
  BY <1>1 DEF Put
<1>6. past[headSequence] # past'[headSequence + 1]
  <2>1. past[headSequence] = Snapshot
    BY <1>2 DEF PastKept
  <2>2. CASE f \in Live <=> f \in Live'
    <3>1. Snapshot[f] # Snapshot'[f]
      BY <1>1, <2>2 DEF Changed, Snapshot
    <3> QED BY <1>3, <2>1, <3>1
  <2>3. CASE ~ (f \in Live <=> f \in Live')
    <3>1. DOMAIN Snapshot = Live /\ DOMAIN Snapshot' = Live'
      BY DEF Snapshot
    <3> QED BY <1>3, <2>1, <2>3, <3>1
  <2> QED BY <2>2, <2>3
<1>7. Replica!OneChange(f, past[headSequence], past'[headSequence + 1])
  BY <1>3, <1>6 DEF Replica!OneChange, SameOf
<1>8. Replica!Commit(f)
  <2>1. headSequence \in DOMAIN past /\ DOMAIN past = 0..headSequence
    BY <1>2 DEF PastKept
  <2> QED BY <1>1, <1>3, <1>4, <1>5, <1>7, <2>1 DEF Replica!Commit, Replica!Moments
<1> QED BY <1>8 DEF Replica!Next

\* Applying a response takes the device to the moment of the response.
LEMMA ApplyIsCatchUp ==
    ASSUME SyncInv, NEW d \in Devices, Apply(d)
    PROVE  [Replica!Next]_<<past, mirror, cursor>>
<1>1. /\ inbox[d] # Nothing
      /\ mirror' = [mirror EXCEPT ![d] = Applied(mirror[d], inbox[d])]
      /\ cursor' = [cursor EXCEPT ![d] = inbox[d].to]
      /\ UNCHANGED past
  BY DEF Apply, historyVars
<1>2. /\ inbox[d].to \in DOMAIN past /\ cursor[d] <= inbox[d].to
      /\ Applied(mirror[d], inbox[d]) = past[inbox[d].to]
  BY <1>1 DEF SyncInv, IInv, TypeOK, ClientTypes, CursorsBehind, PastKept, MirrorsArePast
<1>3. Replica!CatchUp(d)
  BY <1>1, <1>2 DEF Replica!CatchUp, Replica!Moments
<1> QED BY <1>3 DEF Replica!Next

LEMMA StepIsReplicaStep ==
    ASSUME SyncInv, [SyncNext]_allVars
    PROVE  [Replica!Next]_<<past, mirror, cursor>>
<1>1. CASE UNCHANGED allVars
  BY <1>1, ReplicaRests DEF allVars, clientVars, historyVars
<1>2. CASE DeviceWrites
  BY <1>2, SendAdds, ReplicaRests DEF SyncInv, IInv, historyVars
<1>3. CASE ServerWrites
  BY <1>3, WriteIsCommit
<1>4. CASE PullSteps
  <2>1. CASE \E d \in Devices, to \in 0..headSequence : Pull(d, to)
    BY <2>1, ReplicaRests DEF Pull, historyVars
  <2>2. CASE \E d \in Devices : Resync(d) \/ LoseResponse(d)
    BY <2>2, ReplicaRests DEF Resync, LoseResponse, historyVars
  <2>3. CASE \E d \in Devices : Apply(d)
    BY <2>3, ApplyIsCatchUp
  <2> QED BY <1>4, <2>1, <2>2, <2>3 DEF PullSteps
<1>5. CASE Trim \/ PurgeExpired
  BY <1>5, ReplicaRests DEF Trim, PurgeExpired, clientVars, historyVars
<1>6. ASSUME NEW d \in Devices, Revoke(d) PROVE [Replica!Next]_<<past, mirror, cursor>>
  <2>1. Replica!Leave(d)
    BY <1>6 DEF Revoke, historyVars, Replica!Leave, Replica!Empty
  <2> QED BY <2>1 DEF Replica!Next
<1> QED BY <1>1, <1>2, <1>3, <1>4, <1>5, <1>6 DEF SyncNext

\* The protocol implements replicas of a vault: a device never sees a mixture of
\* two moments, and never goes back to an earlier one unless it is revoked.
THEOREM ImplementsReplicas == SyncSpec => ReplicaSpec
<1>1. SyncInit => Replica!Init
  BY ReplicaStart
<1>2. SyncInv /\ [SyncNext]_allVars => [Replica!Next]_<<past, mirror, cursor>>
  BY StepIsReplicaStep
<1> QED BY <1>1, <1>2, SyncInvariance, PTL DEF SyncSpec, ReplicaSpec, Replica!Spec

-----------------------------------------------------------------------------
\* The acknowledgements on which deletion records are purged never run ahead of
\* what the devices have applied.
THEOREM AcksRight == SyncSpec => []AcksAreApplied
<1>1. SyncInv => AcksAreApplied
  BY RowsTyped DEF SyncInv, IInv, CursorsBehind, AcksAreApplied
<1> QED BY <1>1, SyncInvariance, PTL

\* A request delivered any number of times changes one object once, although the
\* log rows that carry its operation id may be gone: its base is spent.
THEOREM AtMostOnce == SyncSpec => []AtMostOncePerObject
BY SyncInvariance, PTL DEF SyncInv

\* The new effect of a step is that of a request that is handled.
LEMMA NewEffects ==
    ASSUME SyncInv, [SyncNext]_allVars, NEW e \in effects' \ effects
    PROVE  ServerWrites
<1>1. CASE UNCHANGED effects
  BY <1>1
<1>2. CASE UNCHANGED allVars
  BY <1>1, <1>2 DEF allVars, historyVars
<1>3. CASE DeviceWrites
  BY <1>1, <1>3, SendAdds DEF SyncInv, IInv, historyVars
<1>4. CASE PullSteps \/ Trim \/ PurgeExpired \/ \E d \in Devices : Revoke(d)
  BY <1>1, <1>4
     DEF PullSteps, Pull, Resync, Apply, LoseResponse, Trim, PurgeExpired, Revoke, historyVars
<1> QED BY <1>2, <1>3, <1>4 DEF SyncNext

\* A request that overwrites names its object as the vault did when it was sent,
\* and at no moment did two objects share a name.
NamesOfThePast ==
    /\ \A r \in sent : r.kind \in Overwriting =>
          r.sentAt \in 0..headSequence /\ HoldersOf(r.name, past[r.sentAt]) = {r.file}
    /\ \A s \in 0..headSequence : \A f, g \in DOMAIN past[s] :
          past[s][f].name = past[s][g].name => f = g

\* A commit adds one moment, every other step none.
LEMMA MomentsAdded ==
    ASSUME SyncInv, SyncNext
    PROVE  headSequence' \in {headSequence, headSequence + 1}
<1>1. CASE ServerWrites
  BY <1>1, HandledStep DEF Written
<1>2. CASE DeviceWrites
  BY <1>2, SendAdds DEF SyncInv, IInv, vars
<1>3. ASSUME NEW d \in Devices, NEW to \in 0..headSequence, Pull(d, to)
      PROVE  headSequence' = headSequence
  BY <1>3, PullAcks DEF SyncInv, IInv
<1>4. CASE Trim \/ PurgeExpired \/ \E d \in Devices : Resync(d) \/ Apply(d) \/ LoseResponse(d) \/ Revoke(d)
  BY <1>4 DEF Trim, TrimChanges, PurgeExpired, PurgeTombstones, Resync, Apply, LoseResponse,
              Revoke, RevokeDevice, vars
<1> QED BY <1>1, <1>2, <1>3, <1>4 DEF SyncNext, PullSteps

\* What is on the network was there before, or is a write of a device now.
LEMMA SentBefore ==
    ASSUME SyncInv, SyncNext, ~ DeviceWrites
    PROVE  sent' \subseteq sent
<1>1. CASE ServerWrites
  BY <1>1, HandledStep
<1>2. CASE PullSteps \/ Trim
  BY <1>2 DEF PullSteps, Pull, Resync, Apply, LoseResponse, Trim, clientVars
<1>3. CASE PurgeExpired \/ \E d \in Devices : Revoke(d)
  BY <1>3 DEF PurgeExpired, Revoke
<1> QED BY <1>1, <1>2, <1>3 DEF SyncNext

\* Names stay unique in the past, the present being the last of its moments.
LEMMA PastNamesKept ==
    ASSUME SyncInv, SyncNext, NamesOfThePast
    PROVE  \A s \in 0..headSequence' : \A f, g \in DOMAIN past'[s] :
               past'[s][f].name = past'[s][g].name => f = g
<1>1. SUFFICES ASSUME NEW s \in 0..headSequence', NEW f \in DOMAIN past'[s],
                      NEW g \in DOMAIN past'[s], past'[s][f].name = past'[s][g].name
               PROVE  f = g
  OBVIOUS
<1>2. headSequence \in Nat /\ headSequence' \in {headSequence, headSequence + 1}
  BY MomentsAdded DEF SyncInv, IInv, TypeOK
<1>3. CASE s = headSequence'
  <2>1. past'[s] = Snapshot'
    BY <1>3, PastExtends DEF PastKept
  <2>2. f \in Live' /\ g \in Live' /\ heads'[f].name = heads'[g].name
    BY <1>1, <2>1 DEF Snapshot, View
  <2>3. NamesUnique'
    BY StepKeepsIInv DEF IInv
  <2> QED BY <2>2, <2>3 DEF NamesUnique
<1>4. CASE s # headSequence'
  <2>1. s \in 0..headSequence
    BY <1>2, <1>4
  <2>2. past'[s] = past[s]
    BY <2>1, PastExtends
  <2> QED BY <1>1, <2>1, <2>2 DEF NamesOfThePast
<1> QED BY <1>3, <1>4

\* A device writes under the name the vault knew its object by, at its cursor.
LEMMA RequestsNamed ==
    ASSUME SyncInv, SyncNext, NamesOfThePast, NEW r \in sent', r.kind \in Overwriting
    PROVE  /\ r.sentAt \in 0..headSequence'
           /\ HoldersOf(r.name, past'[r.sentAt]) = {r.file}
<1>1. /\ headSequence \in Nat /\ headSequence' \in {headSequence, headSequence + 1}
      /\ \A s \in 0..headSequence : s \in 0..headSequence' /\ past'[s] = past[s]
  BY MomentsAdded, PastExtends DEF SyncInv, IInv, TypeOK
<1>2. CASE r \in sent
  <2>1. r.sentAt \in 0..headSequence /\ HoldersOf(r.name, past[r.sentAt]) = {r.file}
    BY <1>2 DEF NamesOfThePast
  <2> QED BY <1>1, <2>1 DEF HoldersOf
<1>3. CASE r \notin sent
  <2>1. DeviceWrites
    BY <1>3, SentBefore
  <2>2. PICK new \in Request :
            /\ new.dev \in Enrolled /\ new.sentAt = cursor[new.dev]
            /\ new.kind \in Overwriting => KnowsAs(new.dev, new.file, new.name)
            /\ sent' = sent \cup {new}
    BY <2>1, SendAdds DEF SyncInv, IInv
  <2>3. r = new
    BY <1>3, <2>2
  <2>4. /\ r.dev \in Devices /\ r.sentAt = cursor[r.dev]
        /\ r.file \in DOMAIN mirror[r.dev] /\ mirror[r.dev][r.file].name = r.name
    BY <2>2, <2>3 DEF Request, KnowsAs
  <2>5. r.sentAt \in 0..headSequence /\ mirror[r.dev] = past[r.sentAt]
    BY <1>1, <2>4 DEF SyncInv, ClientTypes, CursorsBehind, MirrorsArePast
  <2>6. /\ r.file \in DOMAIN past[r.sentAt] /\ past[r.sentAt][r.file].name = r.name
        /\ \A f \in DOMAIN past[r.sentAt] : past[r.sentAt][f].name = r.name => f = r.file
    BY <2>4, <2>5 DEF NamesOfThePast
  <2>7. HoldersOf(r.name, past[r.sentAt]) = {r.file}
    BY <2>6 DEF HoldersOf
  <2> QED BY <1>1, <2>5, <2>7 DEF HoldersOf
<1> QED BY <1>2, <1>3

\* What a request says of names is right about the past, at every moment.
LEMMA NamesInvariance == SyncSpec => []NamesOfThePast
<1>1. SyncInit => NamesOfThePast
  <2>1. SyncInit => Snapshot = << >>
    BY DEF SyncInit, EmptyVault, Snapshot, Live
  <2> QED BY <2>1 DEF SyncInit, EmptyVault, NamesOfThePast
<1>2. SyncInv /\ [SyncNext]_allVars /\ NamesOfThePast => NamesOfThePast'
  <2> SUFFICES ASSUME SyncInv, [SyncNext]_allVars, NamesOfThePast PROVE NamesOfThePast'
    OBVIOUS
  <2>1. CASE SyncNext
    BY <2>1, PastNamesKept, RequestsNamed DEF NamesOfThePast, HoldersOf
  <2>2. CASE UNCHANGED allVars
    <3>1. UNCHANGED <<sent, past, headSequence>>
      BY <2>2 DEF allVars, vars, clientVars, historyVars
    <3> QED BY <3>1 DEF NamesOfThePast, HoldersOf
  <2> QED BY <2>1, <2>2
<1> QED BY <1>1, <1>2, SyncInvariance, PTL DEF SyncSpec

\* An update or a deletion that hits the object it was made for replaces exactly
\* the content its device had seen: the base it carries is a revision of the
\* object's past, and a revision has one content. One that hits another object
\* hits one that did not have the name when the device last looked, and of that
\* object's content nothing is promised: its revision number happens to be the base.
THEOREM OverwritesAccounted == SyncSpec => OverwritesSeen
<1>1. ASSUME SyncInv, NamesOfThePast, [SyncNext]_allVars, NEW e \in effects' \ effects,
             NEW r \in sent, r.op = e.op, r.kind \in Overwriting
      PROVE  \/ e.file = r.file /\ heads[e.file].content = r.seen
             \/ e.file # r.file /\ HoldersOf(r.name, past[r.sentAt]) = {r.file}
  <2>1. PICK q \in sent, f \in FileIds :
            /\ q.kind \in Overwriting => f \in Live /\ q.base = heads[f].rev
            /\ effects' = effects \cup {[op |-> q.op, file |-> f, seq |-> headSequence + 1]}
    BY <1>1, NewEffects, HandledStep
  <2>2. e.op = q.op /\ e.file = f
    BY <2>1
  <2>3. q = r
    BY <1>1, <2>2 DEF SyncInv, EffectsSpent
  <2>4. f \in Live /\ r.base = heads[f].rev
    BY <1>1, <2>1, <2>3
  <2>5. SeenBefore(r.file, r.base, r.seen)
    BY <1>1 DEF SyncInv, KnownBefore
  <2>6. HoldersOf(r.name, past[r.sentAt]) = {r.file}
    BY <1>1 DEF NamesOfThePast
  <2> QED BY <2>2, <2>4, <2>5, <2>6 DEF SeenBefore
<1>2. SyncInv /\ NamesOfThePast /\ [SyncNext]_allVars =>
          [\A e \in effects' \ effects, r \in sent :
              r.op = e.op /\ r.kind \in Overwriting =>
                  \/ e.file = r.file /\ heads[e.file].content = r.seen
                  \/ e.file # r.file /\ HoldersOf(r.name, past[r.sentAt]) = {r.file}]_allVars
  BY <1>1
<1> QED BY <1>2, SyncInvariance, NamesInvariance, PTL DEF SyncSpec, OverwritesSeen

\* No purged deletion is undone by a create from a device that had not heard of it.
THEOREM DeletionsHeard == SyncSpec => NoStaleRecreation
<1>1. SyncInv /\ [SyncNext]_allVars =>
          [\A e \in effects' \ effects, r \in sent :
              r.op = e.op /\ r.kind = "create" =>
                  \A grave \in graves :
                      grave.name = r.name \/ grave.canon = CanonicalKey[r.name]
                          => grave.seq <= r.sentAt]_allVars
  BY DEF SyncInv, GravesKnown
<1> QED BY <1>1, SyncInvariance, PTL DEF SyncSpec, NoStaleRecreation

-----------------------------------------------------------------------------
(***************************************************************************)
(* The server among its devices is the server of ObjectModel               *)
(***************************************************************************)

\* Every step of the protocol is, for the server, a step of the object model.
LEMMA StepIsServerStep ==
    ASSUME SyncInv, [SyncNext]_allVars
    PROVE  [Next]_vars
<1>1. CASE UNCHANGED vars
  BY <1>1
<1>2. CASE UNCHANGED allVars
  BY <1>1, <1>2 DEF allVars
<1>3. CASE DeviceWrites
  BY <1>1, <1>3, SendAdds DEF SyncInv, IInv
<1>4. CASE ServerWrites
  BY <1>4, HandledStep DEF Next
<1>5. ASSUME NEW d \in Devices, NEW to \in 0..headSequence, Pull(d, to) PROVE [Next]_vars
  <2>1. CASE AckSequence(d, cursor[d]) /\ acked[d] < cursor[d]
    <3>1. d \in Enrolled /\ acked[d] \in Nat /\ cursor[d] \in 1..headSequence
      BY <1>5, <2>1, RowsTyped DEF SyncInv, IInv, TypeOK, ClientTypes, CursorsBehind, Pull
    <3>2. DeviceStep
      BY <2>1, <3>1 DEF DeviceStep
    <3> QED BY <3>2 DEF Next
  <2> QED BY <1>1, <1>5, <2>1 DEF Pull
<1>6. CASE \E d \in Devices : Resync(d) \/ Apply(d) \/ LoseResponse(d)
  BY <1>1, <1>6 DEF Resync, Apply, LoseResponse
<1>7. CASE Trim
  BY <1>7 DEF Trim, Next
<1>8. CASE PurgeExpired
  BY <1>8 DEF PurgeExpired, Purge, Next
<1>9. CASE \E d \in Devices : Revoke(d)
  BY <1>9 DEF Revoke, DeviceStep, Next
<1> QED BY <1>2, <1>3, <1>4, <1>5, <1>6, <1>7, <1>8, <1>9 DEF SyncNext, PullSteps

\* Nothing a device sends, however stale or often delivered, and no maintenance
\* between two deliveries takes the server outside ObjectModel: what is proved of
\* its steps holds of the server among its devices.
THEOREM ServerSteps == SyncSpec => [][Next]_vars
<1>1. SyncInv /\ [SyncNext]_allVars => [Next]_vars
  BY StepIsServerStep
<1> QED BY <1>1, SyncInvariance, PTL DEF SyncSpec

\* Every object lives the life ObjectLife promises, also when its requests are
\* stale, repeated and reordered by the network.
THEOREM ObjectsLive == SyncSpec => LifeSpec
<1>1. SyncInit => Abstract!Init
  BY DEF SyncInit, EmptyVault, Abstract!Init, Life, Abstract!Absent, Live, Dead
<1>2. SyncInv /\ [SyncNext]_allVars => [Abstract!Next]_Life
  BY StepIsServerStep, NextImplements DEF SyncInv
<1> QED BY <1>1, <1>2, SyncInvariance, PTL DEF SyncSpec, LifeSpec, Abstract!Spec

\* No deleted content comes back by an upload of any device.
THEOREM NoDeviceResurrects == SyncSpec => NoSilentResurrection
<1>1. SyncInv /\ [SyncNext]_allVars =>
          [\A f \in DOMAIN heads' \ Live : f \in Dead \/ Unguarded(heads'[f])]_vars
  BY StepIsServerStep, NobodyResurrected
<1> QED BY <1>1, SyncInvariance, PTL DEF SyncSpec, NoSilentResurrection
=============================================================================
