--------------------------- MODULE SyncProtocol ---------------------------
(***************************************************************************)
(* Devices and the server of ObjectModel, over a network that delays,      *)
(* reorders, duplicates and loses requests and loses responses.            *)
(*                                                                         *)
(* A device keeps a mirror (the objects it knows, as the server described  *)
(* them) and a cursor (the last sequence it has applied).  It sends writes *)
(* made from its mirror, which may be stale by the time they arrive, and   *)
(* pulls: GET /changes from its cursor, or a snapshot when the server      *)
(* answers resyncRequired.  The response is a message of its own, so what  *)
(* a device applies was read some steps ago.                               *)
(*                                                                         *)
(* The device side is the Obsidian plugin, which is not in this repository *)
(* and is modelled from what the API expects of it.  A device learns the   *)
(* outcome of its writes from the log, as it learns everybody else's.  All *)
(* devices are paired from the start; one may be revoked.                  *)
(***************************************************************************)
EXTENDS ObjectModel

CONSTANTS
    MaxRequests,        \* bound on the number of writes devices send
    NoFile,             \* a create request without a client file id
    DrawnIds,           \* file ids a create request can carry, or NoFile
    Nothing             \* no response on its way to the device

ASSUME ProtocolAssumption ==
    /\ MaxRequests \in Nat
    /\ Operations = 1..MaxRequests
    /\ NoFile \notin FileIds
    /\ DrawnIds \subseteq FileIds \cup {NoFile}
    /\ ~MetaMode

VARIABLES
    mirror,             \* mirror[d]: file id -> what device d knows of it
    cursor,             \* cursor[d]: last sequence device d has applied
    inbox,              \* inbox[d]: the response to d's pull, or Nothing
    sent,               \* writes on the network, delivered any number of times
    lastOp,             \* operation ids handed out so far
    effects,            \* history variable: which request changed which object
    graves,             \* history variable: deletion records that were purged
    past                \* history variable: what a device that had missed
                        \* nothing would know after each sequence

clientVars == <<mirror, cursor, inbox, sent, lastOp>>
historyVars == <<effects, graves, past>>
allVars == <<vars, clientVars, historyVars>>

(***************************************************************************)
(* Messages                                                                *)
(***************************************************************************)

View(row) == [name |-> row.name, rev |-> row.rev, metaGen |-> row.metaGen,
              content |-> row.content]

Views == [name : Names, rev : Nat, metaGen : Nat, content : Contents]

\* A write: what it asks for, and what its device knew when it was sent.
Request == [op : Operations, dev : Devices,
            kind : {"create", "update", "delete", "rename", "restore"},
            file : FileIds \cup {NoFile}, name : Names, to : Names,
            base : Nat, content : Contents, seen : Contents \cup {NoHash},
            sentAt : Nat]

Enrolled == DOMAIN acked

\* What a device knows after a response: the objects the response speaks of are
\* as it says, the others as before.
Applied(known, response) ==
    [f \in (DOMAIN known \ response.touched) \cup DOMAIN response.views |->
        IF f \in DOMAIN response.views THEN response.views[f] ELSE known[f]]

(***************************************************************************)
(* Devices write, from what their mirror says.                             *)
(***************************************************************************)
Send(d, kind, file, name, to, base, content, seen) ==
    /\ d \in Enrolled
    /\ lastOp < MaxRequests
    /\ lastOp' = lastOp + 1
    /\ sent' = sent \cup {[op |-> lastOp + 1, dev |-> d, kind |-> kind, file |-> file,
                           name |-> name, to |-> to, base |-> base, content |-> content,
                           seen |-> seen, sentAt |-> cursor[d]]}
    /\ UNCHANGED <<vars, mirror, cursor, inbox, historyVars>>

\* A file under a name the device knows no object by: base 0, with a file id of
\* its own (nobody else draws the same one) or none.
SendCreate(d, name, file, content) ==
    /\ \A f \in DOMAIN mirror[d] : mirror[d][f].name # name
    /\ file \in FileIds => /\ file \notin DOMAIN objectState
                           /\ \A r \in sent : r.file # file
    /\ Send(d, "create", file, name, name, 0, content, NoHash)

SendUpdate(d, f, content) ==
    /\ f \in DOMAIN mirror[d]
    /\ LET known == mirror[d][f]
       IN  /\ content # known.content
           /\ Send(d, "update", f, known.name, known.name, known.rev, content, known.content)

SendDelete(d, f) ==
    /\ f \in DOMAIN mirror[d]
    /\ LET known == mirror[d][f]
       IN  Send(d, "delete", f, known.name, known.name, known.rev, known.content, known.content)

SendRename(d, f, to) ==
    /\ f \in DOMAIN mirror[d]
    /\ LET known == mirror[d][f]
       IN  /\ to # known.name
           /\ Send(d, "rename", f, known.name, to, known.metaGen, known.content, known.content)

\* The device has been told of the deletion record (a conflict, a 404) and asks
\* for the object back under a name.
SendRestore(d, f, to) ==
    /\ f \in Dead
    /\ LET tomb == tombstones[f]
       IN  Send(d, "restore", f, tomb.name, to, tomb.rev, tomb.prior, NoHash)

\* The live objects of the server, as it describes them.
Snapshot == [f \in Live |-> View(heads[f])]

(***************************************************************************)
(* The server handles a request.  The request stays on the network: it may *)
(* be delivered again, by a retry whose first answer was lost or by a      *)
(* duplicate.  The middleware looks the device up at delivery.             *)
(***************************************************************************)
Takes(r, f) ==
    /\ r.dev \in Enrolled
    /\ effects' = effects \cup {[op |-> r.op, file |-> f, seq |-> headSequence + 1]}
    /\ past' = Put(past, headSequence + 1, Snapshot')
    /\ UNCHANGED <<clientVars, graves>>

HandleCreate(r) ==
    /\ r.kind = "create"
    /\ \E f \in FileIds :
          /\ r.file \in {f, NoFile}
          /\ Create(f, r.name, r.base, r.content, NoHash, r.op)
          /\ Takes(r, f)

HandleUpdate(r) ==
    /\ r.kind = "update"
    /\ \E f \in FileIds :
          /\ Update(f, r.name, r.base, r.content, NoHash, r.op)
          /\ Takes(r, f)

HandleDelete(r) ==
    /\ r.kind = "delete"
    /\ \E f \in FileIds :
          /\ Delete(f, r.name, r.base, r.op)
          /\ Takes(r, f)

HandleRename(r) ==
    /\ r.kind = "rename"
    /\ \E f \in FileIds :
          /\ Rename(f, r.name, r.to, r.base, NoHash, r.op)
          /\ Takes(r, f)

HandleRestore(r) ==
    /\ r.kind = "restore"
    /\ \E gen \in Generations : Revive(r.file, r.base, gen, r.to, NoHash, r.op)
    /\ Takes(r, r.file)

(***************************************************************************)
(* Pulling.  GET /changes answers with the changes above the cursor, in    *)
(* order, as many as the request's limit asks for, and records the cursor  *)
(* as acknowledged; below the watermark it answers resyncRequired and the  *)
(* device takes a snapshot, which acknowledges nothing.                    *)
(***************************************************************************)
\* Variant with a bug: the first change of the page stands for the object.
FirstOfPage(page, f) ==
    CHOOSE s \in page : /\ changes[s].file = f
                        /\ \A t \in page : changes[t].file = f => s <= t

LastOfPage(page, f) ==
    CHOOSE s \in page : /\ changes[s].file = f
                        /\ \A t \in page : changes[t].file = f => t <= s

\* Deleted objects are touched and have no view.
PageResponse(page, to) ==
    LET touched == {changes[s].file : s \in page}
    IN  [to |-> to, touched |-> touched,
         views |-> [f \in {g \in touched : changes[LastOfPage(page, g)].action # "delete"} |->
                       View(changes[LastOfPage(page, f)])]]

SnapshotResponse ==
    [to |-> headSequence, touched |-> FileIds, views |-> Snapshot]

\* Variant with a bug: off by one at the watermark.
BehindByOne(d) == cursor[d] + 1 < minRetained

\* The device's cursor is older than what the log retains.
Behind(d) == cursor[d] < minRetained

Pull(d, to) ==
    /\ d \in Enrolled
    /\ inbox[d] = Nothing
    /\ ~ Behind(d)
    /\ cursor[d] <= to
    /\ to = cursor[d] => headSequence = cursor[d]
    /\ inbox' = [inbox EXCEPT ![d] =
                    PageResponse({s \in DOMAIN changes : cursor[d] < s /\ s <= to}, to)]
    /\ IF acked[d] < cursor[d] THEN AckSequence(d, cursor[d]) ELSE UNCHANGED vars
    /\ UNCHANGED <<mirror, cursor, sent, lastOp, historyVars>>

Resync(d) ==
    /\ d \in Enrolled
    /\ inbox[d] = Nothing
    /\ Behind(d)
    /\ inbox' = [inbox EXCEPT ![d] = SnapshotResponse]
    /\ UNCHANGED <<vars, mirror, cursor, sent, lastOp, historyVars>>

Apply(d) ==
    /\ inbox[d] # Nothing
    /\ mirror' = [mirror EXCEPT ![d] = Applied(mirror[d], inbox[d])]
    /\ cursor' = [cursor EXCEPT ![d] = inbox[d].to]
    /\ inbox' = [inbox EXCEPT ![d] = Nothing]
    /\ UNCHANGED <<vars, sent, lastOp, historyVars>>

\* The response is lost, or the device restarts before it has applied it.
LoseResponse(d) ==
    /\ inbox[d] # Nothing
    /\ inbox' = [inbox EXCEPT ![d] = Nothing]
    /\ UNCHANGED <<vars, mirror, cursor, sent, lastOp, historyVars>>

(***************************************************************************)
(* Maintenance and administration.  The retention of deletion records is   *)
(* counted in days, so by the time one is purged no request is left on the *)
(* network whose sender did not know of the deletion.                      *)
(***************************************************************************)
Trim ==
    /\ TrimChanges
    /\ UNCHANGED <<clientVars, historyVars>>

PurgeExpired ==
    \E expired \in SUBSET Dead :
        /\ PurgeTombstones(expired)
        /\ graves' = graves \cup {tombstones[f] : f \in Dead \ DOMAIN tombstones'}
        /\ sent' = {r \in sent : \A grave \in graves' : grave.seq <= r.sentAt}
        /\ UNCHANGED <<mirror, cursor, inbox, lastOp, effects, past>>

\* What a revoked device still knows or has sent no longer reaches anybody.
Revoke(d) ==
    /\ RevokeDevice(d)
    /\ mirror' = [mirror EXCEPT ![d] = << >>]
    /\ cursor' = [cursor EXCEPT ![d] = 0]
    /\ inbox' = [inbox EXCEPT ![d] = Nothing]
    /\ sent' = {r \in sent : r.dev # d}
    /\ UNCHANGED <<lastOp, historyVars>>

-----------------------------------------------------------------------------
SyncInit ==
    /\ EmptyVault
    /\ acked = [d \in Devices |-> 0]
    /\ mirror = [d \in Devices |-> << >>]
    /\ cursor = [d \in Devices |-> 0]
    /\ inbox = [d \in Devices |-> Nothing]
    /\ sent = {}
    /\ lastOp = 0
    /\ effects = {}
    /\ graves = {}
    /\ past = [s \in {0} |-> Snapshot]

DeviceWrites ==
    \E d \in Devices, f \in FileIds, name \in Names, content \in Contents :
        \/ \E file \in DrawnIds : SendCreate(d, name, file, content)
        \/ SendUpdate(d, f, content)
        \/ SendDelete(d, f)
        \/ SendRename(d, f, name)
        \/ SendRestore(d, f, name)

ServerWrites ==
    \E r \in sent : \/ HandleCreate(r) \/ HandleUpdate(r) \/ HandleDelete(r)
                    \/ HandleRename(r) \/ HandleRestore(r)

PullSteps ==
    \E d \in Devices : \/ \E to \in 0..headSequence : Pull(d, to)
                       \/ Resync(d)
                       \/ Apply(d)
                       \/ LoseResponse(d)

SyncNext ==
    \/ DeviceWrites
    \/ ServerWrites
    \/ PullSteps
    \/ Trim
    \/ PurgeExpired
    \/ \E d \in Devices : Revoke(d)

SyncSpec == SyncInit /\ [][SyncNext]_allVars

\* A device that is not revoked keeps asking and, however many responses it
\* loses, gets to apply one in the end.  Nothing else is fair: writes may stop,
\* requests may never arrive and maintenance may never run.
FairDevice(d) ==
    /\ WF_allVars(\E to \in 0..MaxSequence : Pull(d, to))
    /\ WF_allVars(Resync(d))
    /\ SF_allVars(Apply(d))

FairSyncSpec == SyncSpec /\ \A d \in Devices : FairDevice(d)

-----------------------------------------------------------------------------
(***************************************************************************)
(* Type correctness of the server, the devices and the network.            *)
(***************************************************************************)
SyncTypeOK ==
    /\ TypeOK
    /\ DOMAIN mirror = Devices
    /\ \A d \in Devices : IsTable(mirror[d], FileIds, Views)
    /\ cursor \in [Devices -> Nat]
    /\ DOMAIN inbox = Devices
    /\ \A d \in Devices : inbox[d] # Nothing =>
          /\ inbox[d].to \in Nat
          /\ inbox[d].touched \subseteq FileIds
          /\ IsTable(inbox[d].views, inbox[d].touched, Views)
    /\ \A r \in sent : r \in Request
    /\ lastOp \in 0..MaxRequests

\* What a device knows is the whole vault as it was at one moment, the moment of
\* its cursor, and so is what it will know once it has applied the response it
\* is waiting for, although that was read before later commits, trims and purges
\* (INV-02: the sequence of an answer and its content belong to one moment).
\* Pages of any length, cut anywhere, and snapshots lead to the same vaults.
MirrorsArePast ==
    \A d \in Devices :
        /\ mirror[d] = past[cursor[d]]
        /\ inbox[d] # Nothing => Applied(mirror[d], inbox[d]) = past[inbox[d].to]

\* Server, devices and network together implement replicas of a vault (Replicas):
\* whatever is lost, trimmed or purged, a device goes from one moment of the
\* vault to a later one, and only its revocation takes it back.
Replica == INSTANCE Replicas WITH
    Objects <- FileIds, history <- past, copies <- mirror, at <- cursor

ReplicaSpec == Replica!Spec

\* No device acknowledges more than it has applied, so the purge of deletion
\* records, which reads only the acknowledgements, never runs ahead of one.
AcksAreApplied ==
    \A d \in Enrolled : acked[d] <= cursor[d] /\ cursor[d] <= headSequence

\* A request changes one object at most once, whatever is delivered again, and
\* also after the log rows that carry its operation id have been trimmed.
AtMostOncePerObject ==
    \A e1, e2 \in effects : e1.op = e2.op /\ e1.file = e2.file => e1 = e2

\* The requests that replace or remove content.
Overwriting == {"update", "delete"}

\* Who holds a name in a vault.
HoldersOf(name, vault) == {f \in DOMAIN vault : vault[f].name = name}

\* An update or a deletion that is accepted replaces the very content its device
\* had seen, or else another object than the one it was made for, one that came
\* to the name after the device had last looked: a request addresses a name, and
\* the server compares its base with the revision of whatever is there. Nothing
\* written to the object itself in between is overwritten unseen, through any
\* order of deliveries, renames, deletions and restores.
OverwritesSeen ==
    [][\A e \in effects' \ effects, r \in sent :
          r.op = e.op /\ r.kind \in Overwriting =>
              \/ e.file = r.file /\ heads[e.file].content = r.seen
              \/ e.file # r.file /\ HoldersOf(r.name, past[r.sentAt]) = {r.file}]_allVars

\* A device that has not heard of a deletion cannot undo it with a plain upload,
\* even after the deletion record is purged (INV-06, ADR-002): a create is
\* accepted on a name that was deleted and purged only from a device that had
\* already applied that deletion when it sent the request.
NoStaleRecreation ==
    [][\A e \in effects' \ effects, r \in sent :
          r.op = e.op /\ r.kind = "create" =>
              \A grave \in graves :
                  grave.name = r.name \/ grave.canon = CanonicalKey[r.name]
                      => grave.seq <= r.sentAt]_allVars

\* Once writes have stopped every device that is not revoked comes to know exactly the
\* live objects of the server, and stays there, although responses are lost,
\* pages are short and the log is trimmed under its cursor between two pulls.
EventualConvergence == <>[](\A d \in Enrolled : mirror[d] = Snapshot)

\* One operation id never commits twice: a retry whose first delivery succeeded is
\* answered with that result, whichever object its name denotes by then.
AtMostOncePerOperation ==
    \A e1, e2 \in effects : e1.op = e2.op => e1 = e2
=============================================================================
