----------------------- MODULE DisasterRecoveryProofs -----------------------
(***************************************************************************)
(* Theorems about DisasterRecovery, for any devices, callers, files and    *)
(* contents and any number of backups, restores, crashes and epochs.       *)
(*                                                                         *)
(* The server's own directory is not the only one that counts: a directory *)
(* that was moved away can be put back, so what holds of the epoch of the  *)
(* server has to hold of every directory that is not due for a rotation.   *)
(***************************************************************************)
EXTENDS DisasterRecovery, FiniteSetTheorems, SequenceTheorems, NaturalsInduction, TLAPS

-----------------------------------------------------------------------------
(***************************************************************************)
(* How logs begin and grow.                                                *)
(***************************************************************************)

\* A log begins itself, and the empty log begins every log.
LEMMA BeginsItself ==
    ASSUME NEW log \in Seq(Change)
    PROVE  Begins(log, log) /\ Begins(<< >>, log)
BY LenProperties DEF Begins

\* What begins a log begins it still when it has grown.
LEMMA BeginsLonger ==
    ASSUME NEW part \in Seq(Change), NEW log \in Seq(Change), NEW change \in Change,
           Begins(part, log)
    PROVE  Begins(part, Append(log, change))
BY LenProperties, AppendProperties DEF Begins

\* The changes above the cursor complete what has been seen.
LEMMA BeginsCaughtUp ==
    ASSUME NEW part \in Seq(Change), NEW log \in Seq(Change), Begins(part, log)
    PROVE  Begins(part \o SubSeq(log, Len(part) + 1, Len(log)), log)
<1> DEFINE rest == SubSeq(log, Len(part) + 1, Len(log))
<1>1. Len(part) \in Nat /\ Len(log) \in Nat /\ Len(part) <= Len(log)
  BY LenProperties DEF Begins
<1>2. \A s \in (Len(part) + 1)..Len(log) : log[s] \in Change
  BY <1>1, ElementOfSeq
<1>3. /\ rest \in Seq(Change)
      /\ Len(rest) = Len(log) - Len(part)
      /\ \A s \in 1..(Len(log) - Len(part)) : rest[s] = log[Len(part) + s]
  BY <1>1, <1>2, SubSeqProperties
<1> HIDE DEF rest
<1>4. /\ Len(part \o rest) = Len(log)
      /\ \A s \in 1..Len(log) :
             (part \o rest)[s] = IF s <= Len(part) THEN part[s] ELSE rest[s - Len(part)]
  BY <1>1, <1>3, ConcatProperties
<1>5. \A s \in 1..Len(log) : (part \o rest)[s] = log[s]
  BY <1>1, <1>3, <1>4 DEF Begins
<1> QED BY <1>1, <1>4, <1>5 DEF Begins, rest

\* The changes of a file are finitely many.
LEMMA RevisionIsNat ==
    ASSUME NEW log \in Seq(Change), NEW f
    PROVE  /\ ChangesOf(log, f) \subseteq 1..Len(log)
           /\ IsFiniteSet(ChangesOf(log, f))
           /\ Revision(log, f) \in Nat
<1>1. Len(log) \in Nat /\ ChangesOf(log, f) \subseteq 1..Len(log)
  BY LenProperties DEF ChangesOf
<1>2. IsFiniteSet(1..Len(log))
  BY <1>1, FS_Interval
<1>3. IsFiniteSet(ChangesOf(log, f))
  BY <1>1, <1>2, FS_Subset
<1> QED BY <1>1, <1>3, FS_CardinalityType DEF Revision

\* The changes of a file have a last one.
LEMMA LastChange ==
    ASSUME NEW n \in Nat, NEW S \in SUBSET (1..n), S # {}
    PROVE  \E s \in S : \A t \in S : t <= s
<1> DEFINE T == {n - s : s \in S}
<1>1. T \subseteq Nat /\ T # {}
  <2>1. \A s \in S : n - s \in Nat
    OBVIOUS
  <2> QED BY <2>1
<1> DEFINE R == {p \in Nat \X Nat : p[1] < p[2]}
<1>2. IsWellFoundedOn(R, Nat)
  BY NatLessThanWellFounded DEF OpToRel
<1>3. PICK m \in T : \A k \in T : <<k, m>> \notin R
  BY <1>1, <1>2, WFMin
<1>4. PICK s \in S : m = n - s
  BY <1>3
<1>5. ASSUME NEW t \in S PROVE t <= s
  <2>1. n - t \in T /\ n - t \in Nat /\ m \in Nat
    BY <1>1
  <2>2. ~ (n - t < m)
    BY <1>3, <2>1
  <2> QED BY <1>4, <2>1, <2>2
<1> QED BY <1>5

\* A file's revision never falls while its log grows, and the same revision means
\* the same content.
LEMMA RevisionGrows ==
    ASSUME NEW part \in Seq(Change), NEW log \in Seq(Change), NEW f, Begins(part, log)
    PROVE  /\ Revision(part, f) <= Revision(log, f)
           /\ Revision(part, f) = Revision(log, f) =>
                  HeadContent(part, f) = HeadContent(log, f)
<1>1. Len(part) \in Nat /\ Len(log) \in Nat /\ DOMAIN part = 1..Len(part) /\ DOMAIN log = 1..Len(log)
  BY LenProperties
<1>2. ChangesOf(part, f) \subseteq ChangesOf(log, f)
  BY <1>1 DEF ChangesOf, Begins
<1>3. IsFiniteSet(ChangesOf(log, f)) /\ ChangesOf(part, f) \subseteq 1..Len(part)
  BY RevisionIsNat
<1>4. Revision(part, f) <= Revision(log, f)
  BY <1>2, <1>3, FS_Subset DEF Revision
<1>5. ASSUME Revision(part, f) = Revision(log, f), ChangesOf(part, f) # {}
      PROVE  HeadContent(part, f) = HeadContent(log, f)
  <2>1. ChangesOf(part, f) = ChangesOf(log, f)
    BY <1>2, <1>3, <1>5, FS_Subset DEF Revision
  <2> DEFINE last == CHOOSE s \in ChangesOf(part, f) : \A t \in ChangesOf(part, f) : t <= s
  <2>2. \E s \in ChangesOf(part, f) : \A t \in ChangesOf(part, f) : t <= s
    BY <1>1, <1>3, <1>5, LastChange
  <2>3. last \in 1..Len(part)
    BY <2>2, <1>3
  <2>4. part[last] = log[last]
    BY <2>3 DEF Begins
  <2> QED BY <1>5, <2>1, <2>4 DEF HeadContent
<1>6. ASSUME Revision(part, f) = Revision(log, f), ChangesOf(part, f) = {}
      PROVE  HeadContent(part, f) = HeadContent(log, f)
  BY <1>2, <1>3, <1>6, FS_Subset DEF Revision, HeadContent
<1> QED BY <1>4, <1>5, <1>6

\* A new change makes its own content needed and no other.
LEMMA ReferencedAppended ==
    ASSUME NEW log \in Seq(Change), NEW change \in Change, NEW c,
           Referenced(Append(log, change), c)
    PROVE  c = change.content \/ Referenced(log, c)
<1>1. /\ Len(log) \in Nat /\ DOMAIN log = 1..Len(log)
      /\ DOMAIN Append(log, change) = 1..(Len(log) + 1)
      /\ \A s \in 1..Len(log) : Append(log, change)[s] = log[s]
      /\ Append(log, change)[Len(log) + 1] = change
  BY LenProperties, AppendProperties
<1> QED BY <1>1 DEF Referenced

-----------------------------------------------------------------------------
(***************************************************************************)
(* The inductive invariant.                                                *)
(***************************************************************************)
Response == [epoch : Nat, since : Nat, changes : Seq(Change)]

MessagesTyped ==
    /\ inbox \in [Devices -> Response \cup {Nothing}]
    /\ \A r \in sent : r.epoch \in Nat /\ r.file \in Files /\ r.content \in Contents /\ r.base \in Nat
    /\ epochs \in Nat

\* Who runs when: the operator while the server is down, one job while it is up.
OneAtATime ==
    /\ server = "up" => data # Nothing /\ ~ data.due /\ operator = "idle"
    /\ server = "down" => /\ \A c \in Callers : stage[c] = "idle"
                          /\ \A d \in Devices : inbox[d] = Nothing
    /\ operator = "moved" => data = Nothing
    /\ fetched # Nothing => fetched.due
    /\ \A c, other \in Callers : stage[c] # "idle" /\ stage[other] # "idle" => c = other

\* Every copy is complete, and so will be the one that a job is making.
CopiesComplete ==
    /\ BackupsComplete
    /\ \A dir \in aside : Complete(dir)
    /\ fetched # Nothing => Complete(fetched)
    /\ \A c \in Callers :
           stage[c] = "copied" => mutex = c /\ staging # Nothing /\ staging.log = data.log
    /\ \A c \in Callers : stage[c] = "staged" => staging # Nothing /\ Complete(staging)

\* An epoch that was drawn belongs to one of them.
EpochsDistinct ==
    /\ \A dir \in Live : dir.epoch <= epochs
    /\ \A d \in Devices : known[d] <= epochs
    /\ \A r \in sent : r.epoch <= epochs
    /\ \A dir, other \in aside : ~ dir.due /\ ~ other.due /\ dir.epoch = other.epoch => dir = other
    /\ (data # Nothing /\ ~ data.due) =>
           \A dir \in aside : ~ dir.due => dir.epoch # data.epoch

\* The log has not got to the revision the write was made over, or still has the
\* content there.
Informed(r, log) ==
    /\ r.base <= Revision(log, r.file)
    /\ r.base = Revision(log, r.file) => HeadContent(log, r.file) = r.over

\* What a device saw in an epoch is how the log of its directory begins, what it is
\* about to see goes on from there, and what it wrote in it is informed.
SeenBegins ==
    \A dir \in Live : \A d \in Devices : known[d] = dir.epoch => Begins(seen[d], dir.log)

InboxContinues ==
    \A d \in Devices : inbox[d] # Nothing =>
        /\ inbox[d].epoch = data.epoch
        /\ known[d] = data.epoch => Begins(seen[d] \o inbox[d].changes, data.log)

WritesInformed ==
    \A dir \in Live : \A r \in sent : r.epoch = dir.epoch => Informed(r, dir.log)

HistoryShared == SeenBegins /\ InboxContinues /\ WritesInformed

SentOnce == \A r, other \in sent : r.content = other.content => r = other

IInv ==
    /\ TypeOK
    /\ MessagesTyped
    /\ OneAtATime
    /\ CopiesComplete
    /\ NothingDiscarded
    /\ EpochsDistinct
    /\ HistoryShared
    /\ SentOnce

\* A new data directory is one.
LEMMA NewIsDirectory ==
    ASSUME NEW epoch \in Nat
    PROVE  NewDirectory(epoch) \in Directory /\ NewDirectory(epoch) # Nothing
<1>1. << >> \in Seq(Change)
  BY EmptySeq
<1>2. NewDirectory(epoch) \in Directory
  BY <1>1 DEF NewDirectory, Directory
<1> QED BY <1>2, DirectoryAssumption

\* A request leaves a data directory where there was one, under its epoch.
LEMMA ServiceKeepsDirectory ==
    ASSUME IInv, ServiceStep
    PROVE  /\ data \in Directory /\ data # Nothing /\ ~ data.due
           /\ data' \in Directory /\ data' # Nothing
           /\ data'.epoch = data.epoch /\ data'.due = data.due
<1>1. server = "up"
  BY DEF ServiceStep, Upload, RemoveBlob, Pull, Enroll, Serving
<1>2. data \in Directory /\ data # Nothing /\ ~ data.due
  BY <1>1 DEF IInv, OneAtATime, TypeOK
<1>3. ASSUME NEW r \in sent, Upload(r)
      PROVE  data' \in Directory /\ data'.epoch = data.epoch /\ data'.due = data.due
  <2> DEFINE change == [file |-> r.file, content |-> r.content]
  <2>1. change \in Change
    BY DEF IInv, MessagesTyped, Change
  <2>2. Append(data.log, change) \in Seq(Change)
    BY <1>2, <2>1, AppendProperties DEF Directory
  <2>3. r.content \in Contents
    BY DEF IInv, MessagesTyped
  <2> QED BY <1>2, <1>3, <2>2, <2>3 DEF Upload, Directory
<1>4. ASSUME NEW c \in Contents, RemoveBlob(c)
      PROVE  data' \in Directory /\ data'.epoch = data.epoch /\ data'.due = data.due
  BY <1>2, <1>4 DEF RemoveBlob, Directory
<1>5. ASSUME NEW d \in Devices, Pull(d)
      PROVE  data' \in Directory /\ data'.epoch = data.epoch /\ data'.due = data.due
  <2>1. Len(seen[d]) \in Nat
    BY LenProperties DEF IInv, TypeOK
  <2> QED BY <1>2, <1>5, <2>1 DEF Pull, Directory
<1>6. ASSUME NEW d \in Devices, Enroll(d)
      PROVE  data' \in Directory /\ data'.epoch = data.epoch /\ data'.due = data.due
  BY <1>2, <1>6 DEF Enroll, Directory
<1> QED BY <1>2, <1>3, <1>4, <1>5, <1>6, DirectoryAssumption DEF ServiceStep

\* Who runs when.
LEMMA OneAtATimeKept == IInv /\ Next => OneAtATime'
<1> SUFFICES ASSUME IInv, Next PROVE OneAtATime'
  OBVIOUS
<1>1. ASSUME NEW r \in sent, Upload(r) PROVE OneAtATime'
  <2>1. data' # Nothing /\ data'.due = data.due
    BY <1>1, ServiceKeepsDirectory DEF ServiceStep
  <2> QED BY <1>1, <2>1 DEF Upload, Serving, IInv, OneAtATime, TypeOK, vars, serverVars, backupVars, operatorVars, deviceVars
<1>2. ASSUME NEW c \in Contents, RemoveBlob(c) PROVE OneAtATime'
  <2>1. data' # Nothing /\ data'.due = data.due
    BY <1>2, ServiceKeepsDirectory DEF ServiceStep
  <2> QED BY <1>2, <2>1 DEF RemoveBlob, Serving, IInv, OneAtATime, TypeOK, vars, serverVars, backupVars, operatorVars, deviceVars
<1>3. ASSUME NEW d \in Devices, Pull(d) PROVE OneAtATime'
  <2>1. data' # Nothing /\ data'.due = data.due
    BY <1>3, ServiceKeepsDirectory DEF ServiceStep
  <2> QED BY <1>3, <2>1 DEF Pull, Serving, IInv, OneAtATime, TypeOK, vars, serverVars, backupVars, operatorVars, deviceVars
<1>4. ASSUME NEW d \in Devices, Enroll(d) PROVE OneAtATime'
  <2>1. data' # Nothing /\ data'.due = data.due
    BY <1>4, ServiceKeepsDirectory DEF ServiceStep
  <2> QED BY <1>4, <2>1 DEF Enroll, Serving, IInv, OneAtATime, TypeOK, vars, serverVars, backupVars, operatorVars, deviceVars
<1>5. ASSUME NEW d \in Devices, NEW f \in Files, NEW c \in Contents, Send(d, f, c) PROVE OneAtATime'
  BY <1>5 DEF Send, IInv, OneAtATime, TypeOK, vars, serverVars, backupVars, operatorVars, deviceVars
<1>6. ASSUME NEW d \in Devices, Apply(d) PROVE OneAtATime'
  BY <1>6 DEF Apply, IInv, OneAtATime, TypeOK, vars, serverVars, backupVars, operatorVars, deviceVars
<1>7. ASSUME NEW d \in Devices, Recover(d) PROVE OneAtATime'
  BY <1>7 DEF Recover, Serving, Enrolled, IInv, OneAtATime, TypeOK, vars, serverVars, backupVars, operatorVars, deviceVars
<1>8. ASSUME NEW c \in Callers, StartBackup(c) PROVE OneAtATime'
  BY <1>8 DEF StartBackup, MayStart, IInv, OneAtATime, TypeOK, vars, serverVars, backupVars, operatorVars, deviceVars
<1>9. ASSUME NEW c \in Callers, CopyDatabase(c) PROVE OneAtATime'
  BY <1>9 DEF CopyDatabase, IInv, OneAtATime, TypeOK, vars, serverVars, backupVars, operatorVars, deviceVars
<1>10. ASSUME NEW c \in Callers, LinkBlobs(c) PROVE OneAtATime'
  BY <1>10 DEF LinkBlobs, IInv, OneAtATime, TypeOK, vars, serverVars, backupVars, operatorVars, deviceVars
<1>11. ASSUME NEW c \in Callers, FinishBackup(c) PROVE OneAtATime'
  BY <1>11 DEF FinishBackup, IInv, OneAtATime, TypeOK, vars, serverVars, backupVars, operatorVars, deviceVars
<1>12. ASSUME NEW c \in Callers, FailBackup(c) PROVE OneAtATime'
  BY <1>12 DEF FailBackup, IInv, OneAtATime, TypeOK, vars, serverVars, backupVars, operatorVars, deviceVars
<1>13. ASSUME NEW snapshot \in repository, Forget(snapshot) PROVE OneAtATime'
  BY <1>13 DEF Forget, IInv, OneAtATime, TypeOK, vars, serverVars, backupVars, operatorVars, deviceVars
<1>14. CASE StopServer
  BY <1>14 DEF StopServer, IInv, OneAtATime, TypeOK, vars, serverVars, backupVars, operatorVars, deviceVars
<1>15. CASE StartServer
  <2>1. CASE data # Nothing
    BY <1>15, <2>1 DEF StartServer, IInv, OneAtATime, TypeOK, vars, serverVars, backupVars, operatorVars, deviceVars
  <2>2. CASE data = Nothing
    <3>1. data' # Nothing /\ ~ data'.due
      BY <1>15, <2>2, NewIsDirectory DEF StartServer, NewDirectory, IInv, MessagesTyped
    <3> QED BY <1>15, <3>1 DEF StartServer, IInv, OneAtATime, TypeOK, vars, serverVars, backupVars, operatorVars, deviceVars
  <2> QED BY <2>1, <2>2
<1>16. ASSUME NEW snapshot \in repository, Fetch(snapshot) PROVE OneAtATime'
  BY <1>16 DEF Fetch, IInv, OneAtATime, TypeOK, vars, serverVars, backupVars, operatorVars, deviceVars
<1>17. CASE MoveAside
  BY <1>17 DEF MoveAside, IInv, OneAtATime, TypeOK, vars, serverVars, backupVars, operatorVars, deviceVars
<1>18. CASE Install
  BY <1>18 DEF Install, IInv, OneAtATime, TypeOK, vars, serverVars, backupVars, operatorVars, deviceVars
<1>19. ASSUME NEW old \in aside, PutBack(old) PROVE OneAtATime'
  BY <1>19 DEF PutBack, IInv, OneAtATime, TypeOK, vars, serverVars, backupVars, operatorVars, deviceVars
<1>20. CASE AbandonRestore
  BY <1>20 DEF AbandonRestore, IInv, OneAtATime, TypeOK, vars, serverVars, backupVars, operatorVars, deviceVars
<1>21. CASE RotateEpoch
  BY <1>21 DEF RotateEpoch, IInv, OneAtATime, TypeOK, vars, serverVars, backupVars, operatorVars, deviceVars
<1> QED BY <1>1, <1>2, <1>3, <1>4, <1>5, <1>6, <1>7, <1>8, <1>9, <1>10, <1>11, <1>12, <1>13, <1>14, <1>15, <1>16, <1>17, <1>18, <1>19, <1>20, <1>21
     DEF Next, ServiceStep, DeviceStep, BackupStep, OperatorStep

\* Types.
LEMMA TypesKept == IInv /\ Next => TypeOK'
<1> SUFFICES ASSUME IInv, Next PROVE TypeOK'
  OBVIOUS
<1>1. ASSUME NEW r \in sent, Upload(r) PROVE TypeOK'
  <2>1. data' \in Directory
    BY <1>1, ServiceKeepsDirectory DEF ServiceStep
  <2> QED BY <1>1, <2>1 DEF Upload, IInv, TypeOK, vars, serverVars, backupVars, operatorVars, deviceVars
<1>2. ASSUME NEW c \in Contents, RemoveBlob(c) PROVE TypeOK'
  <2>1. data' \in Directory
    BY <1>2, ServiceKeepsDirectory DEF ServiceStep
  <2> QED BY <1>2, <2>1 DEF RemoveBlob, IInv, TypeOK, vars, serverVars, backupVars, operatorVars, deviceVars
<1>3. ASSUME NEW d \in Devices, Pull(d) PROVE TypeOK'
  <2>1. data' \in Directory
    BY <1>3, ServiceKeepsDirectory DEF ServiceStep
  <2> QED BY <1>3, <2>1 DEF Pull, IInv, TypeOK, vars, serverVars, backupVars, operatorVars, deviceVars
<1>4. ASSUME NEW d \in Devices, Enroll(d) PROVE TypeOK'
  <2>1. data' \in Directory
    BY <1>4, ServiceKeepsDirectory DEF ServiceStep
  <2> QED BY <1>4, <2>1 DEF Enroll, IInv, TypeOK, vars, serverVars, backupVars, operatorVars, deviceVars
<1>5. ASSUME NEW d \in Devices, NEW f \in Files, NEW c \in Contents, Send(d, f, c) PROVE TypeOK'
  BY <1>5 DEF Send, IInv, OneAtATime, TypeOK, vars, serverVars, backupVars, operatorVars, deviceVars
<1>6. ASSUME NEW d \in Devices, Apply(d) PROVE TypeOK'
  <2>1. inbox[d].changes \in Seq(Change) /\ seen[d] \in Seq(Change)
    BY <1>6 DEF Apply, IInv, MessagesTyped, Response, TypeOK
  <2>2. seen[d] \o inbox[d].changes \in Seq(Change)
    BY <2>1, ConcatProperties
  <2> QED BY <1>6, <2>2 DEF Apply, IInv, TypeOK, vars, serverVars, backupVars, operatorVars, deviceVars
<1>7. ASSUME NEW d \in Devices, Recover(d) PROVE TypeOK'
  <2>1. data \in Directory
    BY <1>7 DEF Recover, Serving, IInv, OneAtATime, TypeOK
  <2> QED BY <1>7, <2>1 DEF Recover, Directory, IInv, TypeOK, vars, serverVars, backupVars, operatorVars, deviceVars
<1>8. ASSUME NEW c \in Callers, StartBackup(c) PROVE TypeOK'
  BY <1>8 DEF StartBackup, MayStart, IInv, OneAtATime, TypeOK, vars, serverVars, backupVars, operatorVars, deviceVars
<1>9. ASSUME NEW c \in Callers, CopyDatabase(c) PROVE TypeOK'
  <2>1. data \in Directory
    BY <1>9 DEF CopyDatabase, IInv, OneAtATime, TypeOK
  <2>2. staging' \in Directory
    BY <1>9, <2>1 DEF CopyDatabase, Directory
  <2> QED BY <1>9, <2>2, RecoveryAssumption DEF CopyDatabase, IInv, TypeOK, vars, serverVars, backupVars, operatorVars, deviceVars
<1>10. ASSUME NEW c \in Callers, LinkBlobs(c) PROVE TypeOK'
  <2>1. data \in Directory /\ staging \in Directory
    BY <1>10 DEF LinkBlobs, IInv, OneAtATime, TypeOK
  <2>2. staging' \in Directory
    BY <1>10, <2>1 DEF LinkBlobs, Directory
  <2> QED BY <1>10, <2>2, RecoveryAssumption DEF LinkBlobs, IInv, TypeOK, vars, serverVars, backupVars, operatorVars, deviceVars
<1>11. ASSUME NEW c \in Callers, FinishBackup(c) PROVE TypeOK'
  BY <1>11 DEF FinishBackup, IInv, OneAtATime, TypeOK, vars, serverVars, backupVars, operatorVars, deviceVars
<1>12. ASSUME NEW c \in Callers, FailBackup(c) PROVE TypeOK'
  BY <1>12, RecoveryAssumption DEF FailBackup, IInv, TypeOK, OneAtATime, vars, serverVars, backupVars, operatorVars, deviceVars
<1>13. ASSUME NEW snapshot \in repository, Forget(snapshot) PROVE TypeOK'
  BY <1>13 DEF Forget, IInv, OneAtATime, TypeOK, vars, serverVars, backupVars, operatorVars, deviceVars
<1>14. CASE StopServer
  BY <1>14, RecoveryAssumption DEF StopServer, IInv, TypeOK, OneAtATime, vars, serverVars, backupVars, operatorVars, deviceVars
<1>15. CASE StartServer
  <2>1. data' \in Directory \cup {Nothing}
    BY <1>15, NewIsDirectory DEF StartServer, IInv, TypeOK, MessagesTyped
  <2> QED BY <1>15, <2>1 DEF StartServer, IInv, TypeOK, vars, serverVars, backupVars, operatorVars, deviceVars
<1>16. ASSUME NEW snapshot \in repository, Fetch(snapshot) PROVE TypeOK'
  <2>1. fetched' \in Directory
    BY <1>16 DEF Fetch, Directory, IInv, TypeOK
  <2> QED BY <1>16, <2>1 DEF Fetch, IInv, TypeOK, vars, serverVars, backupVars, operatorVars, deviceVars
<1>17. CASE MoveAside
  BY <1>17 DEF MoveAside, IInv, OneAtATime, TypeOK, vars, serverVars, backupVars, operatorVars, deviceVars
<1>18. CASE Install
  BY <1>18 DEF Install, IInv, OneAtATime, TypeOK, vars, serverVars, backupVars, operatorVars, deviceVars
<1>19. ASSUME NEW old \in aside, PutBack(old) PROVE TypeOK'
  BY <1>19 DEF PutBack, IInv, OneAtATime, TypeOK, vars, serverVars, backupVars, operatorVars, deviceVars
<1>20. CASE AbandonRestore
  BY <1>20 DEF AbandonRestore, IInv, OneAtATime, TypeOK, vars, serverVars, backupVars, operatorVars, deviceVars
<1>21. CASE RotateEpoch
  <2>1. data \in Directory /\ epochs + 1 \in Nat
    BY <1>21 DEF RotateEpoch, IInv, TypeOK, MessagesTyped
  <2>2. data' \in Directory
    BY <1>21, <2>1 DEF RotateEpoch, Directory
  <2> QED BY <1>21, <2>2 DEF RotateEpoch, IInv, TypeOK, vars, serverVars, backupVars, operatorVars, deviceVars
<1> QED BY <1>1, <1>2, <1>3, <1>4, <1>5, <1>6, <1>7, <1>8, <1>9, <1>10, <1>11, <1>12, <1>13, <1>14, <1>15, <1>16, <1>17, <1>18, <1>19, <1>20, <1>21
     DEF Next, ServiceStep, DeviceStep, BackupStep, OperatorStep

\* Types of what is on the network.
LEMMA MessagesTypedKept == IInv /\ Next => MessagesTyped'
<1> SUFFICES ASSUME IInv, Next PROVE MessagesTyped'
  OBVIOUS
<1>1. ASSUME NEW r \in sent, Upload(r) PROVE MessagesTyped'
  BY <1>1 DEF Upload, Serving, Enrolled, GuardWrite, IInv, TypeOK, MessagesTyped, vars, serverVars, backupVars, operatorVars, deviceVars
<1>2. ASSUME NEW c \in Contents, RemoveBlob(c) PROVE MessagesTyped'
  BY <1>2 DEF RemoveBlob, Serving, IInv, TypeOK, MessagesTyped, vars, serverVars, backupVars, operatorVars, deviceVars
<1>3. ASSUME NEW d \in Devices, Pull(d) PROVE MessagesTyped'
  <2>1. data.log \in Seq(Change) /\ seen[d] \in Seq(Change) /\ data.epoch \in Nat
    BY <1>3, ServiceKeepsDirectory DEF ServiceStep, Directory, IInv, TypeOK
  <2>2. SubSeq(data.log, Len(seen[d]) + 1, Len(data.log)) \in Seq(Change)
    <3>1. Len(seen[d]) \in Nat /\ Len(data.log) \in Nat
      BY <2>1, LenProperties
    <3>2. \A s \in (Len(seen[d]) + 1)..Len(data.log) : data.log[s] \in Change
      BY <2>1, <3>1, ElementOfSeq
    <3> QED BY <3>1, <3>2, SubSeqProperties
  <2>3. Len(seen[d]) \in Nat
    BY <2>1, LenProperties
  <2> QED BY <1>3, <2>1, <2>2, <2>3 DEF Pull, IInv, MessagesTyped, Response, vars, serverVars, backupVars, operatorVars, deviceVars
<1>4. ASSUME NEW d \in Devices, Enroll(d) PROVE MessagesTyped'
  BY <1>4 DEF Enroll, Serving, Enrolled, IInv, TypeOK, MessagesTyped, vars, serverVars, backupVars, operatorVars, deviceVars
<1>5. ASSUME NEW d \in Devices, NEW f \in Files, NEW c \in Contents, Send(d, f, c) PROVE MessagesTyped'
  <2>1. Revision(seen[d], f) \in Nat /\ known[d] \in Nat
    BY RevisionIsNat DEF IInv, TypeOK
  <2> QED BY <1>5, <2>1 DEF Send, IInv, MessagesTyped, vars, serverVars, backupVars, operatorVars, deviceVars
<1>6. ASSUME NEW d \in Devices, Apply(d) PROVE MessagesTyped'
  BY <1>6 DEF Apply, IInv, TypeOK, MessagesTyped, vars, serverVars, backupVars, operatorVars, deviceVars
<1>7. ASSUME NEW d \in Devices, Recover(d) PROVE MessagesTyped'
  BY <1>7 DEF Recover, Serving, Enrolled, IInv, TypeOK, MessagesTyped, vars, serverVars, backupVars, operatorVars, deviceVars
<1>8. ASSUME NEW c \in Callers, StartBackup(c) PROVE MessagesTyped'
  BY <1>8 DEF StartBackup, MayStart, IInv, TypeOK, MessagesTyped, vars, serverVars, backupVars, operatorVars, deviceVars
<1>9. ASSUME NEW c \in Callers, CopyDatabase(c) PROVE MessagesTyped'
  BY <1>9 DEF CopyDatabase, IInv, TypeOK, MessagesTyped, vars, serverVars, backupVars, operatorVars, deviceVars
<1>10. ASSUME NEW c \in Callers, LinkBlobs(c) PROVE MessagesTyped'
  BY <1>10 DEF LinkBlobs, IInv, TypeOK, MessagesTyped, vars, serverVars, backupVars, operatorVars, deviceVars
<1>11. ASSUME NEW c \in Callers, FinishBackup(c) PROVE MessagesTyped'
  BY <1>11 DEF FinishBackup, IInv, TypeOK, MessagesTyped, vars, serverVars, backupVars, operatorVars, deviceVars
<1>12. ASSUME NEW c \in Callers, FailBackup(c) PROVE MessagesTyped'
  BY <1>12 DEF FailBackup, IInv, TypeOK, MessagesTyped, vars, serverVars, backupVars, operatorVars, deviceVars
<1>13. ASSUME NEW snapshot \in repository, Forget(snapshot) PROVE MessagesTyped'
  BY <1>13 DEF Forget, IInv, TypeOK, MessagesTyped, vars, serverVars, backupVars, operatorVars, deviceVars
<1>14. CASE StopServer
  BY <1>14 DEF StopServer, IInv, TypeOK, MessagesTyped, vars, serverVars, backupVars, operatorVars, deviceVars
<1>15. CASE StartServer
  BY <1>15 DEF StartServer, NewDirectory, IInv, TypeOK, MessagesTyped, vars, serverVars, backupVars, operatorVars, deviceVars
<1>16. ASSUME NEW snapshot \in repository, Fetch(snapshot) PROVE MessagesTyped'
  BY <1>16 DEF Fetch, IInv, TypeOK, MessagesTyped, vars, serverVars, backupVars, operatorVars, deviceVars
<1>17. CASE MoveAside
  BY <1>17 DEF MoveAside, IInv, TypeOK, MessagesTyped, vars, serverVars, backupVars, operatorVars, deviceVars
<1>18. CASE Install
  BY <1>18 DEF Install, IInv, TypeOK, MessagesTyped, vars, serverVars, backupVars, operatorVars, deviceVars
<1>19. ASSUME NEW old \in aside, PutBack(old) PROVE MessagesTyped'
  BY <1>19 DEF PutBack, IInv, TypeOK, MessagesTyped, vars, serverVars, backupVars, operatorVars, deviceVars
<1>20. CASE AbandonRestore
  BY <1>20 DEF AbandonRestore, IInv, TypeOK, MessagesTyped, vars, serverVars, backupVars, operatorVars, deviceVars
<1>21. CASE RotateEpoch
  BY <1>21 DEF RotateEpoch, IInv, TypeOK, MessagesTyped, vars, serverVars, backupVars, operatorVars, deviceVars
<1> QED BY <1>1, <1>2, <1>3, <1>4, <1>5, <1>6, <1>7, <1>8, <1>9, <1>10, <1>11, <1>12, <1>13, <1>14, <1>15, <1>16, <1>17, <1>18, <1>19, <1>20, <1>21
     DEF Next, ServiceStep, DeviceStep, BackupStep, OperatorStep

\* What is copied while the mutex is held, and what is moved, stays complete.
LEMMA CopiesCompleteKept == IInv /\ Next => CopiesComplete'
<1> SUFFICES ASSUME IInv, Next PROVE CopiesComplete'
  OBVIOUS
<1>1. ASSUME NEW r \in sent, Upload(r) PROVE CopiesComplete'
  <2> DEFINE change == [file |-> r.file, content |-> r.content]
  <2>1. data \in Directory /\ data # Nothing /\ change \in Change
    BY <1>1, ServiceKeepsDirectory DEF ServiceStep, IInv, MessagesTyped, Change
  <2>2. data.log \in Seq(Change) /\ data.blobs \in SUBSET Contents
    BY <2>1 DEF Directory
  <2>3. data'.log = Append(data.log, change) /\ data'.blobs = data.blobs \cup {change.content}
    BY <1>1, <2>1 DEF Upload, Directory
  <2>4. Complete(data')
    <3>1. Complete(data)
      BY <2>1 DEF IInv, CopiesComplete, BackupsComplete
    <3> QED BY <2>1, <2>2, <2>3, <3>1, ReferencedAppended DEF Complete
  <2>5. \A c \in Callers : stage[c] # "copied"
    BY <1>1, RecoveryAssumption DEF Upload, Serving, IInv, CopiesComplete
  <2> QED BY <1>1, <2>4, <2>5 DEF Upload, IInv, TypeOK, OneAtATime, CopiesComplete, BackupsComplete, vars, serverVars, backupVars, operatorVars, deviceVars
<1>2. ASSUME NEW c \in Contents, RemoveBlob(c) PROVE CopiesComplete'
  <2>1. data \in Directory /\ data # Nothing
    BY <1>2, ServiceKeepsDirectory DEF ServiceStep
  <2>2. data'.log = data.log /\ data'.blobs = data.blobs \ {c}
    BY <1>2, <2>1 DEF RemoveBlob, Directory
  <2>3. Complete(data')
    BY <1>2, <2>1, <2>2 DEF RemoveBlob, Complete, IInv, CopiesComplete, BackupsComplete
  <2>4. \A e \in Callers : stage[e] # "copied"
    BY <1>2, RecoveryAssumption DEF RemoveBlob, Serving, IInv, CopiesComplete
  <2> QED BY <1>2, <2>3, <2>4 DEF RemoveBlob, IInv, TypeOK, OneAtATime, CopiesComplete, BackupsComplete, vars, serverVars, backupVars, operatorVars, deviceVars
<1>3. ASSUME NEW d \in Devices, Pull(d) PROVE CopiesComplete'
  <2>1. data \in Directory /\ data # Nothing
    BY <1>3, ServiceKeepsDirectory DEF ServiceStep
  <2>2. data'.log = data.log /\ data'.blobs = data.blobs
    BY <1>3, <2>1 DEF Pull, Directory
  <2>3. Complete(data')
    BY <2>1, <2>2 DEF Complete, IInv, CopiesComplete, BackupsComplete
  <2> QED BY <1>3, <2>2, <2>3 DEF Pull, IInv, TypeOK, OneAtATime, CopiesComplete, BackupsComplete, vars, serverVars, backupVars, operatorVars, deviceVars
<1>4. ASSUME NEW d \in Devices, Enroll(d) PROVE CopiesComplete'
  <2>1. data \in Directory /\ data # Nothing
    BY <1>4, ServiceKeepsDirectory DEF ServiceStep
  <2>2. data'.log = data.log /\ data'.blobs = data.blobs
    BY <1>4, <2>1 DEF Enroll, Directory
  <2>3. Complete(data')
    BY <2>1, <2>2 DEF Complete, IInv, CopiesComplete, BackupsComplete
  <2> QED BY <1>4, <2>2, <2>3 DEF Enroll, IInv, TypeOK, OneAtATime, CopiesComplete, BackupsComplete, vars, serverVars, backupVars, operatorVars, deviceVars
<1>5. ASSUME NEW d \in Devices, NEW f \in Files, NEW c \in Contents, Send(d, f, c) PROVE CopiesComplete'
  BY <1>5 DEF Send, IInv, TypeOK, OneAtATime, CopiesComplete, Complete, BackupsComplete, vars, serverVars, backupVars, operatorVars, deviceVars
<1>6. ASSUME NEW d \in Devices, Apply(d) PROVE CopiesComplete'
  BY <1>6 DEF Apply, IInv, TypeOK, OneAtATime, CopiesComplete, Complete, BackupsComplete, vars, serverVars, backupVars, operatorVars, deviceVars
<1>7. ASSUME NEW d \in Devices, Recover(d) PROVE CopiesComplete'
  BY <1>7 DEF Recover, Serving, Enrolled, IInv, TypeOK, OneAtATime, CopiesComplete, Complete, BackupsComplete, vars, serverVars, backupVars, operatorVars, deviceVars
<1>8. ASSUME NEW c \in Callers, StartBackup(c) PROVE CopiesComplete'
  BY <1>8 DEF StartBackup, MayStart, IInv, TypeOK, OneAtATime, CopiesComplete, Complete, BackupsComplete, vars, serverVars, backupVars, operatorVars, deviceVars
<1>9. ASSUME NEW c \in Callers, CopyDatabase(c) PROVE CopiesComplete'
  <2>1. data \in Directory
    BY <1>9 DEF CopyDatabase, IInv, OneAtATime, TypeOK
  <2>2. staging' \in Directory /\ staging'.log = data.log
    BY <1>9, <2>1 DEF CopyDatabase, Directory
  <2>3. staging' # Nothing
    BY <2>2, DirectoryAssumption
  <2> QED BY <1>9, <2>2, <2>3 DEF CopyDatabase, IInv, TypeOK, OneAtATime, CopiesComplete, BackupsComplete, vars, serverVars, backupVars, operatorVars, deviceVars
<1>10. ASSUME NEW c \in Callers, LinkBlobs(c) PROVE CopiesComplete'
  <2>1. data \in Directory /\ data # Nothing /\ staging \in Directory /\ staging.log = data.log
    BY <1>10 DEF LinkBlobs, IInv, OneAtATime, TypeOK, CopiesComplete
  <2>2. staging' \in Directory /\ staging'.log = data.log /\ staging'.blobs = data.blobs
    BY <1>10, <2>1 DEF LinkBlobs, Directory
  <2>3. staging' # Nothing /\ Complete(staging')
    BY <2>1, <2>2, DirectoryAssumption DEF Complete, IInv, CopiesComplete, BackupsComplete
  <2> QED BY <1>10, <2>3 DEF LinkBlobs, IInv, TypeOK, OneAtATime, CopiesComplete, BackupsComplete, vars, serverVars, backupVars, operatorVars, deviceVars
<1>11. ASSUME NEW c \in Callers, FinishBackup(c) PROVE CopiesComplete'
  BY <1>11 DEF FinishBackup, IInv, TypeOK, OneAtATime, CopiesComplete, Complete, BackupsComplete, vars, serverVars, backupVars, operatorVars, deviceVars
<1>12. ASSUME NEW c \in Callers, FailBackup(c) PROVE CopiesComplete'
  BY <1>12 DEF FailBackup, IInv, TypeOK, OneAtATime, CopiesComplete, Complete, BackupsComplete, vars, serverVars, backupVars, operatorVars, deviceVars
<1>13. ASSUME NEW snapshot \in repository, Forget(snapshot) PROVE CopiesComplete'
  BY <1>13 DEF Forget, IInv, TypeOK, OneAtATime, CopiesComplete, Complete, BackupsComplete, vars, serverVars, backupVars, operatorVars, deviceVars
<1>14. CASE StopServer
  BY <1>14 DEF StopServer, IInv, TypeOK, OneAtATime, CopiesComplete, Complete, BackupsComplete, vars, serverVars, backupVars, operatorVars, deviceVars
<1>15. CASE StartServer
  <2>1. Complete(NewDirectory(epochs + 1))
    BY DEF Complete, Referenced, NewDirectory
  <2> QED BY <1>15, <2>1 DEF StartServer, IInv, TypeOK, OneAtATime, CopiesComplete, BackupsComplete, vars, serverVars, backupVars, operatorVars, deviceVars
<1>16. ASSUME NEW snapshot \in repository, Fetch(snapshot) PROVE CopiesComplete'
  <2>1. snapshot \in Directory /\ Complete(snapshot)
    BY <1>16 DEF IInv, TypeOK, CopiesComplete, BackupsComplete
  <2>2. fetched'.log = snapshot.log /\ fetched'.blobs = snapshot.blobs
    BY <1>16, <2>1 DEF Fetch, Directory
  <2>3. Complete(fetched')
    BY <2>1, <2>2 DEF Complete
  <2> QED BY <1>16, <2>3 DEF Fetch, IInv, TypeOK, OneAtATime, CopiesComplete, BackupsComplete, vars, serverVars, backupVars, operatorVars, deviceVars
<1>17. CASE MoveAside
  BY <1>17 DEF MoveAside, IInv, TypeOK, OneAtATime, CopiesComplete, Complete, BackupsComplete, vars, serverVars, backupVars, operatorVars, deviceVars
<1>18. CASE Install
  BY <1>18 DEF Install, IInv, TypeOK, OneAtATime, CopiesComplete, Complete, BackupsComplete, vars, serverVars, backupVars, operatorVars, deviceVars
<1>19. ASSUME NEW old \in aside, PutBack(old) PROVE CopiesComplete'
  BY <1>19 DEF PutBack, IInv, TypeOK, OneAtATime, CopiesComplete, Complete, BackupsComplete, vars, serverVars, backupVars, operatorVars, deviceVars
<1>20. CASE AbandonRestore
  BY <1>20 DEF AbandonRestore, IInv, TypeOK, OneAtATime, CopiesComplete, Complete, BackupsComplete, vars, serverVars, backupVars, operatorVars, deviceVars
<1>21. CASE RotateEpoch
  <2>1. data \in Directory /\ data # Nothing
    BY <1>21 DEF RotateEpoch, IInv, TypeOK
  <2>2. data'.log = data.log /\ data'.blobs = data.blobs
    BY <1>21, <2>1 DEF RotateEpoch, Directory
  <2>3. Complete(data')
    BY <2>1, <2>2 DEF Complete, IInv, CopiesComplete, BackupsComplete
  <2> QED BY <1>21, <2>2, <2>3 DEF RotateEpoch, IInv, TypeOK, OneAtATime, CopiesComplete, BackupsComplete, vars, serverVars, backupVars, operatorVars, deviceVars
<1> QED BY <1>1, <1>2, <1>3, <1>4, <1>5, <1>6, <1>7, <1>8, <1>9, <1>10, <1>11, <1>12, <1>13, <1>14, <1>15, <1>16, <1>17, <1>18, <1>19, <1>20, <1>21
     DEF Next, ServiceStep, DeviceStep, BackupStep, OperatorStep

\* What a directory had in its log.
Holds(dir, c) == \E s \in DOMAIN dir.log : dir.log[s].content = c

\* Whatever is put in the place of the data directory, nothing was there.
LEMMA NothingDiscardedKept == IInv /\ Next => NothingDiscarded'
<1> SUFFICES ASSUME IInv, Next PROVE NothingDiscarded'
  OBVIOUS
<1>1. ASSUME NEW r \in sent, Upload(r) PROVE NothingDiscarded'
  <2> DEFINE change == [file |-> r.file, content |-> r.content]
  <2>1. data \in Directory /\ data # Nothing /\ data' # Nothing /\ change \in Change
    BY <1>1, ServiceKeepsDirectory DEF ServiceStep, IInv, MessagesTyped, Change
  <2>2. data.log \in Seq(Change)
    BY <2>1 DEF Directory
  <2>3. data'.log = Append(data.log, change)
    BY <1>1, <2>1 DEF Upload, Directory
  <2>4. \A c : c = r.content \/ Holds(data, c) => Holds(data', c)
    BY <2>1, <2>2, <2>3, LenProperties, AppendProperties DEF Holds
  <2>5. \A e \in accepted : \E dir \in aside \cup ({data} \ {Nothing}) : Holds(dir, e)
    BY DEF Holds, IInv, NothingDiscarded
  <2>6. \A c \in accepted' : \E dir \in aside \cup ({data'} \ {Nothing}) : Holds(dir, c)
    BY <1>1, <2>1, <2>4, <2>5 DEF Upload
  <2> QED BY <1>1, <2>6 DEF Upload, Holds, NothingDiscarded, operatorVars
<1>2. ASSUME NEW c \in Contents, RemoveBlob(c) PROVE NothingDiscarded'
  <2>1. data \in Directory /\ data # Nothing /\ data' # Nothing
    BY <1>2, ServiceKeepsDirectory DEF ServiceStep
  <2>2. data'.log = data.log
    BY <1>2, <2>1 DEF RemoveBlob, Directory
  <2>3. \A e : Holds(data, e) => Holds(data', e)
    BY <2>2 DEF Holds
  <2>4. \A e \in accepted : \E dir \in aside \cup ({data} \ {Nothing}) : Holds(dir, e)
    BY DEF Holds, IInv, NothingDiscarded
  <2>5. \A e \in accepted : \E dir \in aside \cup ({data'} \ {Nothing}) : Holds(dir, e)
    BY <2>1, <2>3, <2>4
  <2> QED BY <1>2, <2>5 DEF RemoveBlob, Holds, NothingDiscarded, operatorVars
<1>3. ASSUME NEW d \in Devices, Pull(d) PROVE NothingDiscarded'
  <2>1. data \in Directory /\ data # Nothing /\ data' # Nothing
    BY <1>3, ServiceKeepsDirectory DEF ServiceStep
  <2>2. data'.log = data.log
    BY <1>3, <2>1 DEF Pull, Directory
  <2>3. \A e : Holds(data, e) => Holds(data', e)
    BY <2>2 DEF Holds
  <2>4. \A e \in accepted : \E dir \in aside \cup ({data} \ {Nothing}) : Holds(dir, e)
    BY DEF Holds, IInv, NothingDiscarded
  <2>5. \A e \in accepted : \E dir \in aside \cup ({data'} \ {Nothing}) : Holds(dir, e)
    BY <2>1, <2>3, <2>4
  <2> QED BY <1>3, <2>5 DEF Pull, Holds, NothingDiscarded, operatorVars
<1>4. ASSUME NEW d \in Devices, Enroll(d) PROVE NothingDiscarded'
  <2>1. data \in Directory /\ data # Nothing /\ data' # Nothing
    BY <1>4, ServiceKeepsDirectory DEF ServiceStep
  <2>2. data'.log = data.log
    BY <1>4, <2>1 DEF Enroll, Directory
  <2>3. \A e : Holds(data, e) => Holds(data', e)
    BY <2>2 DEF Holds
  <2>4. \A e \in accepted : \E dir \in aside \cup ({data} \ {Nothing}) : Holds(dir, e)
    BY DEF Holds, IInv, NothingDiscarded
  <2>5. \A e \in accepted : \E dir \in aside \cup ({data'} \ {Nothing}) : Holds(dir, e)
    BY <2>1, <2>3, <2>4
  <2> QED BY <1>4, <2>5 DEF Enroll, Holds, NothingDiscarded, operatorVars
<1>5. ASSUME NEW d \in Devices, NEW f \in Files, NEW c \in Contents, Send(d, f, c) PROVE NothingDiscarded'
  BY <1>5 DEF Send, IInv, NothingDiscarded, OneAtATime, TypeOK, vars, serverVars, backupVars, operatorVars, deviceVars
<1>6. ASSUME NEW d \in Devices, Apply(d) PROVE NothingDiscarded'
  BY <1>6 DEF Apply, IInv, NothingDiscarded, OneAtATime, TypeOK, vars, serverVars, backupVars, operatorVars, deviceVars
<1>7. ASSUME NEW d \in Devices, Recover(d) PROVE NothingDiscarded'
  BY <1>7 DEF Recover, Serving, Enrolled, IInv, NothingDiscarded, OneAtATime, TypeOK, vars, serverVars, backupVars, operatorVars, deviceVars
<1>8. ASSUME NEW c \in Callers, StartBackup(c) PROVE NothingDiscarded'
  BY <1>8 DEF StartBackup, MayStart, IInv, NothingDiscarded, OneAtATime, TypeOK, vars, serverVars, backupVars, operatorVars, deviceVars
<1>9. ASSUME NEW c \in Callers, CopyDatabase(c) PROVE NothingDiscarded'
  BY <1>9 DEF CopyDatabase, IInv, NothingDiscarded, OneAtATime, TypeOK, vars, serverVars, backupVars, operatorVars, deviceVars
<1>10. ASSUME NEW c \in Callers, LinkBlobs(c) PROVE NothingDiscarded'
  BY <1>10 DEF LinkBlobs, IInv, NothingDiscarded, OneAtATime, TypeOK, vars, serverVars, backupVars, operatorVars, deviceVars
<1>11. ASSUME NEW c \in Callers, FinishBackup(c) PROVE NothingDiscarded'
  BY <1>11 DEF FinishBackup, IInv, NothingDiscarded, OneAtATime, TypeOK, vars, serverVars, backupVars, operatorVars, deviceVars
<1>12. ASSUME NEW c \in Callers, FailBackup(c) PROVE NothingDiscarded'
  BY <1>12 DEF FailBackup, IInv, NothingDiscarded, OneAtATime, TypeOK, vars, serverVars, backupVars, operatorVars, deviceVars
<1>13. ASSUME NEW snapshot \in repository, Forget(snapshot) PROVE NothingDiscarded'
  BY <1>13 DEF Forget, IInv, NothingDiscarded, OneAtATime, TypeOK, vars, serverVars, backupVars, operatorVars, deviceVars
<1>14. CASE StopServer
  BY <1>14 DEF StopServer, IInv, NothingDiscarded, OneAtATime, TypeOK, vars, serverVars, backupVars, operatorVars, deviceVars
<1>15. CASE StartServer
  BY <1>15 DEF StartServer, NewDirectory, IInv, NothingDiscarded, OneAtATime, TypeOK, vars, serverVars, backupVars, operatorVars, deviceVars
<1>16. ASSUME NEW snapshot \in repository, Fetch(snapshot) PROVE NothingDiscarded'
  BY <1>16 DEF Fetch, IInv, NothingDiscarded, OneAtATime, TypeOK, vars, serverVars, backupVars, operatorVars, deviceVars
<1>17. CASE MoveAside
  BY <1>17 DEF MoveAside, IInv, NothingDiscarded, OneAtATime, TypeOK, vars, serverVars, backupVars, operatorVars, deviceVars
<1>18. CASE Install
  BY <1>18 DEF Install, IInv, NothingDiscarded, OneAtATime, TypeOK, vars, serverVars, backupVars, operatorVars, deviceVars
<1>19. ASSUME NEW old \in aside, PutBack(old) PROVE NothingDiscarded'
  <2>1. \A e \in accepted : \E dir \in aside \cup ({data} \ {Nothing}) : Holds(dir, e)
    BY DEF Holds, IInv, NothingDiscarded
  <2>2. old # Nothing
    BY <1>19, DirectoryAssumption DEF IInv, TypeOK
  <2>3. aside \cup ({data} \ {Nothing}) \subseteq aside' \cup ({data'} \ {Nothing})
    BY <1>19, <2>2 DEF PutBack
  <2>4. accepted' = accepted
    BY <1>19 DEF PutBack
  <2>5. \A c \in accepted' : \E dir \in aside' \cup ({data'} \ {Nothing}) : Holds(dir, c)
    BY <2>1, <2>3, <2>4
  <2> QED BY <2>5 DEF Holds, NothingDiscarded
<1>20. CASE AbandonRestore
  BY <1>20 DEF AbandonRestore, IInv, NothingDiscarded, OneAtATime, TypeOK, vars, serverVars, backupVars, operatorVars, deviceVars
<1>21. CASE RotateEpoch
  <2>1. data \in Directory /\ data # Nothing /\ epochs + 1 \in Nat
    BY <1>21 DEF RotateEpoch, IInv, TypeOK, MessagesTyped
  <2>2. data' \in Directory /\ data'.log = data.log
    BY <1>21, <2>1 DEF RotateEpoch, Directory
  <2>3. data' # Nothing
    BY <2>2, DirectoryAssumption
  <2>4. \A e : Holds(data, e) => Holds(data', e)
    BY <2>2 DEF Holds
  <2>5. \A e \in accepted : \E dir \in aside \cup ({data} \ {Nothing}) : Holds(dir, e)
    BY DEF Holds, IInv, NothingDiscarded
  <2>6. \A e \in accepted : \E dir \in aside \cup ({data'} \ {Nothing}) : Holds(dir, e)
    BY <2>3, <2>4, <2>5
  <2> QED BY <1>21, <2>6 DEF RotateEpoch, Holds, NothingDiscarded
<1> QED BY <1>1, <1>2, <1>3, <1>4, <1>5, <1>6, <1>7, <1>8, <1>9, <1>10, <1>11, <1>12, <1>13, <1>14, <1>15, <1>16, <1>17, <1>18, <1>19, <1>20, <1>21
     DEF Next, ServiceStep, DeviceStep, BackupStep, OperatorStep

\* An epoch is drawn once.
LEMMA EpochsDistinctKept == IInv /\ Next => EpochsDistinct'
<1> SUFFICES ASSUME IInv, Next PROVE EpochsDistinct'
  OBVIOUS
<1>1. ASSUME NEW r \in sent, Upload(r) PROVE EpochsDistinct'
  <2>1. /\ data # Nothing /\ ~ data.due /\ data' # Nothing
        /\ data'.epoch = data.epoch /\ data'.due = data.due
    BY <1>1, ServiceKeepsDirectory DEF ServiceStep
  <2> QED BY <1>1, <2>1 DEF Upload, IInv, EpochsDistinct, Live, OneAtATime, TypeOK, MessagesTyped, vars, serverVars, backupVars, operatorVars, deviceVars
<1>2. ASSUME NEW c \in Contents, RemoveBlob(c) PROVE EpochsDistinct'
  <2>1. /\ data # Nothing /\ ~ data.due /\ data' # Nothing
        /\ data'.epoch = data.epoch /\ data'.due = data.due
    BY <1>2, ServiceKeepsDirectory DEF ServiceStep
  <2> QED BY <1>2, <2>1 DEF RemoveBlob, IInv, EpochsDistinct, Live, OneAtATime, TypeOK, MessagesTyped, vars, serverVars, backupVars, operatorVars, deviceVars
<1>3. ASSUME NEW d \in Devices, Pull(d) PROVE EpochsDistinct'
  <2>1. /\ data # Nothing /\ ~ data.due /\ data' # Nothing
        /\ data'.epoch = data.epoch /\ data'.due = data.due
    BY <1>3, ServiceKeepsDirectory DEF ServiceStep
  <2> QED BY <1>3, <2>1 DEF Pull, IInv, EpochsDistinct, Live, OneAtATime, TypeOK, MessagesTyped, vars, serverVars, backupVars, operatorVars, deviceVars
<1>4. ASSUME NEW d \in Devices, Enroll(d) PROVE EpochsDistinct'
  <2>1. /\ data # Nothing /\ ~ data.due /\ data' # Nothing
        /\ data'.epoch = data.epoch /\ data'.due = data.due
    BY <1>4, ServiceKeepsDirectory DEF ServiceStep
  <2> QED BY <1>4, <2>1 DEF Enroll, IInv, EpochsDistinct, Live, OneAtATime, TypeOK, MessagesTyped, vars, serverVars, backupVars, operatorVars, deviceVars
<1>5. ASSUME NEW d \in Devices, NEW f \in Files, NEW c \in Contents, Send(d, f, c) PROVE EpochsDistinct'
  BY <1>5 DEF Send, IInv, EpochsDistinct, Live, OneAtATime, TypeOK, MessagesTyped, vars, serverVars, backupVars, operatorVars, deviceVars
<1>6. ASSUME NEW d \in Devices, Apply(d) PROVE EpochsDistinct'
  BY <1>6 DEF Apply, IInv, EpochsDistinct, Live, OneAtATime, TypeOK, MessagesTyped, vars, serverVars, backupVars, operatorVars, deviceVars
<1>7. ASSUME NEW d \in Devices, Recover(d) PROVE EpochsDistinct'
  BY <1>7 DEF Recover, Serving, Enrolled, IInv, EpochsDistinct, Live, OneAtATime, TypeOK, MessagesTyped, vars, serverVars, backupVars, operatorVars, deviceVars
<1>8. ASSUME NEW c \in Callers, StartBackup(c) PROVE EpochsDistinct'
  BY <1>8 DEF StartBackup, MayStart, IInv, EpochsDistinct, Live, OneAtATime, TypeOK, MessagesTyped, vars, serverVars, backupVars, operatorVars, deviceVars
<1>9. ASSUME NEW c \in Callers, CopyDatabase(c) PROVE EpochsDistinct'
  BY <1>9 DEF CopyDatabase, IInv, EpochsDistinct, Live, OneAtATime, TypeOK, MessagesTyped, vars, serverVars, backupVars, operatorVars, deviceVars
<1>10. ASSUME NEW c \in Callers, LinkBlobs(c) PROVE EpochsDistinct'
  BY <1>10 DEF LinkBlobs, IInv, EpochsDistinct, Live, OneAtATime, TypeOK, MessagesTyped, vars, serverVars, backupVars, operatorVars, deviceVars
<1>11. ASSUME NEW c \in Callers, FinishBackup(c) PROVE EpochsDistinct'
  BY <1>11 DEF FinishBackup, IInv, EpochsDistinct, Live, OneAtATime, TypeOK, MessagesTyped, vars, serverVars, backupVars, operatorVars, deviceVars
<1>12. ASSUME NEW c \in Callers, FailBackup(c) PROVE EpochsDistinct'
  BY <1>12 DEF FailBackup, IInv, EpochsDistinct, Live, OneAtATime, TypeOK, MessagesTyped, vars, serverVars, backupVars, operatorVars, deviceVars
<1>13. ASSUME NEW snapshot \in repository, Forget(snapshot) PROVE EpochsDistinct'
  BY <1>13 DEF Forget, IInv, EpochsDistinct, Live, OneAtATime, TypeOK, MessagesTyped, vars, serverVars, backupVars, operatorVars, deviceVars
<1>14. CASE StopServer
  BY <1>14 DEF StopServer, IInv, EpochsDistinct, Live, OneAtATime, TypeOK, MessagesTyped, vars, serverVars, backupVars, operatorVars, deviceVars
<1>15. CASE StartServer
  <2>1. CASE data # Nothing
    BY <1>15, <2>1 DEF StartServer, IInv, EpochsDistinct, Live, OneAtATime, TypeOK, MessagesTyped, vars, serverVars, backupVars, operatorVars, deviceVars
  <2>2. CASE data = Nothing
    <3>1. /\ epochs \in Nat /\ epochs + 1 \in Nat /\ epochs' = epochs + 1
          /\ data' = NewDirectory(epochs + 1)
      BY <1>15, <2>2 DEF StartServer, IInv, MessagesTyped
    <3>2. data' # Nothing /\ data'.epoch = epochs + 1
      <4>1. NewDirectory(epochs + 1) # Nothing
        BY <3>1, NewIsDirectory
      <4>2. NewDirectory(epochs + 1).epoch = epochs + 1
        BY DEF NewDirectory
      <4> QED BY <3>1, <4>1, <4>2
    <3>3. \A dir \in aside : ~ dir.due => dir.epoch \in Nat /\ dir.epoch <= epochs
      BY DEF IInv, EpochsDistinct, Live, TypeOK, Directory
    <3>4. \A d \in Devices : known[d] \in Nat /\ known[d] <= epochs
      BY DEF IInv, EpochsDistinct, TypeOK
    <3>5. \A r \in sent : r.epoch \in Nat /\ r.epoch <= epochs
      BY DEF IInv, EpochsDistinct, MessagesTyped
    <3>6. aside' = aside /\ known' = known /\ sent' = sent
      BY <1>15 DEF StartServer, operatorVars, deviceVars
    <3>7. \A dir, other \in aside : ~ dir.due /\ ~ other.due /\ dir.epoch = other.epoch => dir = other
      BY DEF IInv, EpochsDistinct
    <3> QED BY <3>1, <3>2, <3>3, <3>4, <3>5, <3>6, <3>7 DEF EpochsDistinct, Live
  <2> QED BY <2>1, <2>2
<1>16. ASSUME NEW snapshot \in repository, Fetch(snapshot) PROVE EpochsDistinct'
  BY <1>16 DEF Fetch, IInv, EpochsDistinct, Live, OneAtATime, TypeOK, MessagesTyped, vars, serverVars, backupVars, operatorVars, deviceVars
<1>17. CASE MoveAside
  BY <1>17 DEF MoveAside, IInv, EpochsDistinct, Live, OneAtATime, TypeOK, MessagesTyped, vars, serverVars, backupVars, operatorVars, deviceVars
<1>18. CASE Install
  BY <1>18 DEF Install, IInv, EpochsDistinct, Live, OneAtATime, TypeOK, MessagesTyped, vars, serverVars, backupVars, operatorVars, deviceVars
<1>19. ASSUME NEW old \in aside, PutBack(old) PROVE EpochsDistinct'
  BY <1>19 DEF PutBack, IInv, EpochsDistinct, Live, OneAtATime, TypeOK, MessagesTyped, vars, serverVars, backupVars, operatorVars, deviceVars
<1>20. CASE AbandonRestore
  BY <1>20 DEF AbandonRestore, IInv, EpochsDistinct, Live, OneAtATime, TypeOK, MessagesTyped, vars, serverVars, backupVars, operatorVars, deviceVars
<1>21. CASE RotateEpoch
  <2>1. /\ data \in Directory /\ data # Nothing
        /\ epochs \in Nat /\ epochs + 1 \in Nat /\ epochs' = epochs + 1
    BY <1>21 DEF RotateEpoch, IInv, TypeOK, MessagesTyped
  <2>2. data' \in Directory /\ data'.epoch = epochs + 1
    BY <1>21, <2>1 DEF RotateEpoch, Directory
  <2>3. data' # Nothing
    BY <2>2, DirectoryAssumption
  <2>4. \A dir \in aside : ~ dir.due => dir.epoch \in Nat /\ dir.epoch <= epochs
    BY DEF IInv, EpochsDistinct, Live, TypeOK, Directory
  <2>5. \A d \in Devices : known[d] \in Nat /\ known[d] <= epochs
    BY DEF IInv, EpochsDistinct, TypeOK
  <2>6. \A r \in sent : r.epoch \in Nat /\ r.epoch <= epochs
    BY DEF IInv, EpochsDistinct, MessagesTyped
  <2>7. aside' = aside /\ known' = known /\ sent' = sent
    BY <1>21 DEF RotateEpoch, deviceVars
  <2>8. \A dir, other \in aside : ~ dir.due /\ ~ other.due /\ dir.epoch = other.epoch => dir = other
    BY DEF IInv, EpochsDistinct
  <2> QED BY <2>1, <2>2, <2>3, <2>4, <2>5, <2>6, <2>7, <2>8 DEF EpochsDistinct, Live
<1> QED BY <1>1, <1>2, <1>3, <1>4, <1>5, <1>6, <1>7, <1>8, <1>9, <1>10, <1>11, <1>12, <1>13, <1>14, <1>15, <1>16, <1>17, <1>18, <1>19, <1>20, <1>21
     DEF Next, ServiceStep, DeviceStep, BackupStep, OperatorStep

\* A write is informed of longer logs too.
LEMMA InformedLonger ==
    ASSUME NEW r, r.base \in Nat, NEW part \in Seq(Change), NEW log \in Seq(Change),
           Begins(part, log), Informed(r, part)
    PROVE  Informed(r, log)
<1>1. Revision(part, r.file) \in Nat /\ Revision(log, r.file) \in Nat
  BY RevisionIsNat
<1>2. /\ Revision(part, r.file) <= Revision(log, r.file)
      /\ Revision(part, r.file) = Revision(log, r.file) =>
             HeadContent(part, r.file) = HeadContent(log, r.file)
  BY RevisionGrows
<1> QED BY <1>1, <1>2 DEF Informed

\* What a step leaves alone when no log changes under an epoch that is in use.
LEMMA HistoryLeftAlone ==
    ASSUME IInv, known' = known, seen' = seen, sent' = sent,
           \A dir \in Live' : \E old \in Live : old.epoch = dir.epoch /\ old.log = dir.log,
           \/ \A d \in Devices : inbox'[d] = Nothing
           \/ inbox' = inbox /\ data'.log = data.log /\ data'.epoch = data.epoch
    PROVE  HistoryShared'
<1>1. SeenBegins'
  BY DEF IInv, HistoryShared, SeenBegins
<1>2. InboxContinues'
  BY DEF IInv, HistoryShared, InboxContinues
<1>3. WritesInformed'
  BY DEF IInv, HistoryShared, WritesInformed
<1> QED BY <1>1, <1>2, <1>3 DEF HistoryShared

\* A log changes only under the epoch of those who know it.
LEMMA HistorySharedKept == IInv /\ Next => HistoryShared'
<1> SUFFICES ASSUME IInv, Next PROVE HistoryShared'
  OBVIOUS
<1>1. ASSUME NEW r \in sent, Upload(r) PROVE HistoryShared'
  <2> DEFINE change == [file |-> r.file, content |-> r.content]
  <2>1. /\ data \in Directory /\ data # Nothing /\ ~ data.due
        /\ data.log \in Seq(Change) /\ data.epoch \in Nat /\ data \in Live
    BY <1>1 DEF Upload, Serving, IInv, TypeOK, OneAtATime, Directory, Live
  <2>2. change \in Change
    BY DEF IInv, MessagesTyped, Change
  <2>3. /\ data' # Nothing /\ data'.epoch = data.epoch /\ data'.due = data.due
        /\ data'.log = Append(data.log, change)
    BY <1>1, <2>1, ServiceKeepsDirectory DEF ServiceStep, Upload, Directory
  <2>4. data'.log \in Seq(Change) /\ Begins(data.log, data'.log)
    BY <2>1, <2>2, <2>3, AppendProperties, BeginsItself, BeginsLonger
  <2>5. Live' = (Live \ {data}) \cup {data'} \/ Live' = Live \cup {data'}
    BY <1>1, <2>1, <2>3 DEF Upload, Live, operatorVars
  <2>6. \A dir \in Live' : dir = data' \/ dir \in Live
    BY <2>5
  <2>7. SeenBegins'
    <3>1. \A d \in Devices : seen[d] \in Seq(Change)
      BY DEF IInv, TypeOK
    <3>2. \A d \in Devices : known[d] = data.epoch => Begins(seen[d], data'.log)
      BY <2>1, <2>2, <2>3, <3>1, BeginsLonger DEF IInv, HistoryShared, SeenBegins
    <3> QED BY <1>1, <2>3, <2>6, <3>2 DEF Upload, deviceVars, IInv, HistoryShared, SeenBegins
  <2>8. InboxContinues'
    <3>1. ASSUME NEW d \in Devices, inbox[d] # Nothing, known[d] = data.epoch
          PROVE  Begins(seen[d] \o inbox[d].changes, data'.log)
      <4>1. seen[d] \in Seq(Change) /\ inbox[d].changes \in Seq(Change)
        BY <3>1 DEF IInv, TypeOK, MessagesTyped, Response
      <4>2. seen[d] \o inbox[d].changes \in Seq(Change)
        BY <4>1, ConcatProperties
      <4> QED BY <2>1, <2>2, <2>3, <3>1, <4>2, BeginsLonger DEF IInv, HistoryShared, InboxContinues
    <3> QED BY <1>1, <2>3, <3>1 DEF Upload, deviceVars, IInv, HistoryShared, InboxContinues
  <2>9. WritesInformed'
    <3>1. ASSUME NEW w \in sent, w.epoch = data.epoch
          PROVE  Informed(w, data'.log)
      <4>1. Informed(w, data.log) /\ w.base \in Nat
        BY <2>1, <3>1 DEF IInv, HistoryShared, WritesInformed, MessagesTyped
      <4> QED BY <2>1, <2>4, <4>1, InformedLonger
    <3> QED BY <1>1, <2>3, <2>6, <3>1 DEF Upload, deviceVars, IInv, HistoryShared, WritesInformed
  <2> QED BY <2>7, <2>8, <2>9 DEF HistoryShared
<1>2. ASSUME NEW c \in Contents, RemoveBlob(c) PROVE HistoryShared'
  <2>1. data \in Directory /\ data # Nothing /\ ~ data.due
    BY <1>2, ServiceKeepsDirectory DEF ServiceStep
  <2>2. data' # Nothing /\ data'.log = data.log /\ data'.epoch = data.epoch
    BY <1>2, <2>1, ServiceKeepsDirectory DEF ServiceStep, RemoveBlob, Directory
  <2>3. \A dir \in Live' : \E old \in Live : old.epoch = dir.epoch /\ old.log = dir.log
    BY <1>2, <2>1, <2>2 DEF RemoveBlob, Live, operatorVars
  <2> QED BY <1>2, <2>2, <2>3, HistoryLeftAlone DEF RemoveBlob, deviceVars
<1>3. ASSUME NEW d \in Devices, Pull(d) PROVE HistoryShared'
  <2>1. /\ data \in Directory /\ data # Nothing /\ ~ data.due
        /\ data.log \in Seq(Change) /\ data.epoch \in Nat /\ data \in Live
    BY <1>3 DEF Pull, Serving, IInv, TypeOK, OneAtATime, Directory, Live
  <2> DEFINE rest == SubSeq(data.log, Len(seen[d]) + 1, Len(data.log))
  <2>2. data' # Nothing /\ data'.log = data.log /\ data'.epoch = data.epoch
    BY <1>3, <2>1, ServiceKeepsDirectory DEF ServiceStep, Pull, Directory
  <2>3. \A dir \in Live' : \E old \in Live : old.epoch = dir.epoch /\ old.log = dir.log
    BY <1>3, <2>1, <2>2 DEF Pull, Live, operatorVars
  <2>4. SeenBegins' /\ WritesInformed'
    BY <1>3, <2>3 DEF Pull, IInv, HistoryShared, SeenBegins, WritesInformed
  <2>5. known[d] = data.epoch => Begins(seen[d] \o rest, data.log)
    <3>1. seen[d] \in Seq(Change)
      BY DEF IInv, TypeOK
    <3>2. known[d] = data.epoch => Begins(seen[d], data.log)
      BY <2>1 DEF IInv, HistoryShared, SeenBegins
    <3> QED BY <2>1, <3>1, <3>2, BeginsCaughtUp
  <2>6. \A e \in Devices : e # d => inbox'[e] = inbox[e]
    BY <1>3 DEF Pull, IInv, MessagesTyped
  <2>7. inbox'[d].epoch = data.epoch /\ inbox'[d].changes = rest
    BY <1>3 DEF Pull, IInv, MessagesTyped
  <2>8. InboxContinues'
    BY <1>3, <2>2, <2>5, <2>6, <2>7 DEF Pull, IInv, HistoryShared, InboxContinues
  <2> QED BY <2>4, <2>8 DEF HistoryShared
<1>4. ASSUME NEW d \in Devices, Enroll(d) PROVE HistoryShared'
  <2>1. data \in Directory /\ data # Nothing /\ ~ data.due
    BY <1>4, ServiceKeepsDirectory DEF ServiceStep
  <2>2. data' # Nothing /\ data'.log = data.log /\ data'.epoch = data.epoch
    BY <1>4, <2>1, ServiceKeepsDirectory DEF ServiceStep, Enroll, Directory
  <2>3. \A dir \in Live' : \E old \in Live : old.epoch = dir.epoch /\ old.log = dir.log
    BY <1>4, <2>1, <2>2 DEF Enroll, Live, operatorVars
  <2> QED BY <1>4, <2>2, <2>3, HistoryLeftAlone DEF Enroll, deviceVars
<1>5. ASSUME NEW d \in Devices, NEW f \in Files, NEW c \in Contents, Send(d, f, c) PROVE HistoryShared'
  <2> DEFINE new == [dev |-> d, epoch |-> known[d], file |-> f, content |-> c,
                     base |-> Revision(seen[d], f), over |-> HeadContent(seen[d], f)]
  <2>1. /\ sent' = sent \cup {new} /\ Live' = Live /\ data' = data
        /\ known' = known /\ seen' = seen /\ inbox' = inbox
    BY <1>5 DEF Send, Live, serverVars, operatorVars
  <2>2. SeenBegins' /\ InboxContinues'
    BY <2>1 DEF IInv, HistoryShared, SeenBegins, InboxContinues
  <2>3. ASSUME NEW dir \in Live, known[d] = dir.epoch PROVE Informed(new, dir.log)
    <3>1. seen[d] \in Seq(Change) /\ dir.log \in Seq(Change)
      BY DEF IInv, TypeOK, Live, Directory
    <3>2. Begins(seen[d], dir.log)
      BY <2>3 DEF IInv, HistoryShared, SeenBegins
    <3>3. /\ Revision(seen[d], f) <= Revision(dir.log, f)
          /\ Revision(seen[d], f) = Revision(dir.log, f) =>
                 HeadContent(seen[d], f) = HeadContent(dir.log, f)
      BY <3>1, <3>2, RevisionGrows
    <3> QED BY <3>3 DEF Informed
  <2>4. WritesInformed'
    BY <2>1, <2>3 DEF IInv, HistoryShared, WritesInformed
  <2> QED BY <2>2, <2>4 DEF HistoryShared
<1>6. ASSUME NEW d \in Devices, Apply(d) PROVE HistoryShared'
  <2>1. server = "up" /\ data # Nothing /\ ~ data.due
    BY <1>6 DEF Apply, IInv, OneAtATime, TypeOK
  <2>2. /\ Live' = Live /\ data' = data /\ known' = known /\ sent' = sent
        /\ inbox'[d] = Nothing /\ seen'[d] = seen[d] \o inbox[d].changes
        /\ \A e \in Devices : e # d => inbox'[e] = inbox[e] /\ seen'[e] = seen[e]
    BY <1>6 DEF Apply, Live, serverVars, operatorVars, IInv, TypeOK, MessagesTyped
  <2>3. known[d] = data.epoch /\ Begins(seen'[d], data.log)
    BY <1>6, <2>2 DEF Apply, IInv, HistoryShared, InboxContinues
  <2>4. \A dir \in Live : dir.epoch = known[d] => dir = data
    BY <2>1, <2>3 DEF Live, IInv, EpochsDistinct
  <2>5. SeenBegins'
    BY <2>2, <2>3, <2>4 DEF IInv, HistoryShared, SeenBegins
  <2>6. InboxContinues'
    BY <2>2 DEF IInv, HistoryShared, InboxContinues
  <2>7. WritesInformed'
    BY <2>2 DEF IInv, HistoryShared, WritesInformed
  <2> QED BY <2>5, <2>6, <2>7 DEF HistoryShared
<1>7. ASSUME NEW d \in Devices, Recover(d) PROVE HistoryShared'
  <2>1. /\ data \in Directory /\ data # Nothing /\ ~ data.due
        /\ data.log \in Seq(Change) /\ data.epoch \in Nat /\ data \in Live
    BY <1>7 DEF Recover, Serving, IInv, TypeOK, OneAtATime, Directory, Live
  <2>2. /\ Live' = Live /\ data' = data /\ sent' = sent
        /\ inbox'[d] = Nothing /\ seen'[d] = data.log /\ known'[d] = data.epoch
        /\ \A e \in Devices : e # d =>
               inbox'[e] = inbox[e] /\ seen'[e] = seen[e] /\ known'[e] = known[e]
    BY <1>7 DEF Recover, Live, serverVars, operatorVars, IInv, TypeOK, MessagesTyped
  <2>3. Begins(data.log, data.log)
    BY <2>1, BeginsItself
  <2>4. \A dir \in Live : dir.epoch = data.epoch => dir = data
    BY <2>1 DEF Live, IInv, EpochsDistinct
  <2>5. SeenBegins'
    BY <2>2, <2>3, <2>4 DEF IInv, HistoryShared, SeenBegins
  <2>6. InboxContinues'
    BY <2>2 DEF IInv, HistoryShared, InboxContinues
  <2>7. WritesInformed'
    BY <2>2 DEF IInv, HistoryShared, WritesInformed
  <2> QED BY <2>5, <2>6, <2>7 DEF HistoryShared
<1>8. ASSUME NEW c \in Callers, StartBackup(c) PROVE HistoryShared'
  BY <1>8, HistoryLeftAlone DEF StartBackup, MayStart, Live, IInv, OneAtATime, TypeOK, vars, serverVars, backupVars, operatorVars, deviceVars
<1>9. ASSUME NEW c \in Callers, CopyDatabase(c) PROVE HistoryShared'
  BY <1>9, HistoryLeftAlone DEF CopyDatabase, Live, IInv, OneAtATime, TypeOK, vars, serverVars, backupVars, operatorVars, deviceVars
<1>10. ASSUME NEW c \in Callers, LinkBlobs(c) PROVE HistoryShared'
  BY <1>10, HistoryLeftAlone DEF LinkBlobs, Live, IInv, OneAtATime, TypeOK, vars, serverVars, backupVars, operatorVars, deviceVars
<1>11. ASSUME NEW c \in Callers, FinishBackup(c) PROVE HistoryShared'
  BY <1>11, HistoryLeftAlone DEF FinishBackup, Live, IInv, OneAtATime, TypeOK, vars, serverVars, backupVars, operatorVars, deviceVars
<1>12. ASSUME NEW c \in Callers, FailBackup(c) PROVE HistoryShared'
  BY <1>12, HistoryLeftAlone DEF FailBackup, Live, IInv, OneAtATime, TypeOK, vars, serverVars, backupVars, operatorVars, deviceVars
<1>13. ASSUME NEW snapshot \in repository, Forget(snapshot) PROVE HistoryShared'
  BY <1>13, HistoryLeftAlone DEF Forget, Live, IInv, OneAtATime, TypeOK, vars, serverVars, backupVars, operatorVars, deviceVars
<1>14. CASE StopServer
  <2>1. \A d \in Devices : inbox'[d] = Nothing
    BY <1>14 DEF StopServer
  <2>2. Live' = Live
    BY <1>14 DEF StopServer, Live, operatorVars
  <2> QED BY <1>14, <2>1, <2>2, HistoryLeftAlone DEF StopServer
<1>15. CASE StartServer
  <2>1. CASE data # Nothing
    <3>1. /\ known' = known /\ sent' = sent /\ seen' = seen /\ inbox' = inbox /\ data' = data
          /\ Live' = Live
      BY <1>15, <2>1 DEF StartServer, deviceVars, operatorVars, Live
    <3> QED BY <3>1, HistoryLeftAlone
  <2>2. CASE data = Nothing
    <3>1. epochs \in Nat /\ data'.epoch = epochs + 1
      <4>1. NewDirectory(epochs + 1).epoch = epochs + 1
        BY DEF NewDirectory
      <4> QED BY <1>15, <2>2, <4>1 DEF StartServer, IInv, MessagesTyped
    <3>2. \A dir \in Live' : dir.epoch = epochs + 1 \/ dir \in Live
      BY <1>15, <2>2, <3>1 DEF StartServer, Live, operatorVars
    <3>3. \A d \in Devices : known[d] \in Nat /\ known[d] <= epochs
      BY DEF IInv, EpochsDistinct, TypeOK
    <3>4. \A r \in sent : r.epoch \in Nat /\ r.epoch <= epochs
      BY DEF IInv, EpochsDistinct, MessagesTyped
    <3>5. known' = known /\ sent' = sent /\ seen' = seen /\ \A d \in Devices : inbox'[d] = Nothing
      BY <1>15 DEF StartServer, deviceVars, IInv, OneAtATime, TypeOK
    <3>6. SeenBegins'
      BY <3>1, <3>2, <3>3, <3>5 DEF IInv, HistoryShared, SeenBegins
    <3>7. WritesInformed'
      BY <3>1, <3>2, <3>4, <3>5 DEF IInv, HistoryShared, WritesInformed
    <3>8. InboxContinues'
      BY <3>5 DEF InboxContinues
    <3> QED BY <3>6, <3>7, <3>8 DEF HistoryShared
  <2> QED BY <2>1, <2>2
<1>16. ASSUME NEW snapshot \in repository, Fetch(snapshot) PROVE HistoryShared'
  BY <1>16, HistoryLeftAlone DEF Fetch, Live, IInv, OneAtATime, TypeOK, vars, serverVars, backupVars, operatorVars, deviceVars
<1>17. CASE MoveAside
  <2>1. server = "down" /\ \A d \in Devices : inbox'[d] = Nothing
    BY <1>17 DEF MoveAside, IInv, OneAtATime, TypeOK, deviceVars
  <2>2. Live' \subseteq Live
    BY <1>17 DEF MoveAside, Live, IInv, OneAtATime
  <2> QED BY <1>17, <2>1, <2>2, HistoryLeftAlone DEF MoveAside, deviceVars
<1>18. CASE Install
  <2>1. server = "down" /\ \A d \in Devices : inbox'[d] = Nothing
    BY <1>18 DEF Install, IInv, OneAtATime, TypeOK, deviceVars
  <2>2. Live' \subseteq Live
    BY <1>18 DEF Install, Live, IInv, OneAtATime
  <2> QED BY <1>18, <2>1, <2>2, HistoryLeftAlone DEF Install, deviceVars
<1>19. ASSUME NEW old \in aside, PutBack(old) PROVE HistoryShared'
  <2>1. server = "down" /\ \A d \in Devices : inbox'[d] = Nothing
    BY <1>19 DEF PutBack, IInv, OneAtATime, TypeOK, deviceVars
  <2>2. Live' \subseteq Live
    BY <1>19 DEF PutBack, Live, IInv, OneAtATime
  <2> QED BY <1>19, <2>1, <2>2, HistoryLeftAlone DEF PutBack, deviceVars
<1>20. CASE AbandonRestore
  <2>1. server = "down" /\ \A d \in Devices : inbox'[d] = Nothing
    BY <1>20 DEF AbandonRestore, IInv, OneAtATime, TypeOK, deviceVars
  <2>2. Live' \subseteq Live
    BY <1>20 DEF AbandonRestore, Live, IInv, OneAtATime, serverVars
  <2> QED BY <1>20, <2>1, <2>2, HistoryLeftAlone DEF AbandonRestore, deviceVars
<1>21. CASE RotateEpoch
  <2>1. epochs \in Nat /\ data'.epoch = epochs + 1
    <3>1. data \in Directory /\ epochs \in Nat /\ epochs + 1 \in Nat
      BY <1>21 DEF RotateEpoch, IInv, TypeOK, MessagesTyped
    <3> QED BY <1>21, <3>1 DEF RotateEpoch, Directory
  <2>2. \A dir \in Live' : dir.epoch = epochs + 1 \/ dir \in Live
    BY <1>21, <2>1 DEF RotateEpoch, Live
  <2>3. \A d \in Devices : known[d] \in Nat /\ known[d] <= epochs
    BY DEF IInv, EpochsDistinct, TypeOK
  <2>4. \A r \in sent : r.epoch \in Nat /\ r.epoch <= epochs
    BY DEF IInv, EpochsDistinct, MessagesTyped
  <2>5. known' = known /\ sent' = sent /\ seen' = seen /\ \A d \in Devices : inbox'[d] = Nothing
    BY <1>21 DEF RotateEpoch, deviceVars, IInv, OneAtATime, TypeOK
  <2>6. SeenBegins'
    BY <2>1, <2>2, <2>3, <2>5 DEF IInv, HistoryShared, SeenBegins
  <2>7. WritesInformed'
    BY <2>1, <2>2, <2>4, <2>5 DEF IInv, HistoryShared, WritesInformed
  <2>8. InboxContinues'
    BY <2>5 DEF InboxContinues
  <2> QED BY <2>6, <2>7, <2>8 DEF HistoryShared
<1> QED BY <1>1, <1>2, <1>3, <1>4, <1>5, <1>6, <1>7, <1>8, <1>9, <1>10, <1>11, <1>12, <1>13, <1>14, <1>15, <1>16, <1>17, <1>18, <1>19, <1>20, <1>21
     DEF Next, ServiceStep, DeviceStep, BackupStep, OperatorStep

\* Every write has a content of its own.
LEMMA SentOnceKept == IInv /\ Next => SentOnce'
<1> SUFFICES ASSUME IInv, Next PROVE SentOnce'
  OBVIOUS
<1>1. ASSUME NEW r \in sent, Upload(r) PROVE SentOnce'
  BY <1>1 DEF Upload, Serving, Enrolled, GuardWrite, IInv, SentOnce, vars, serverVars, backupVars, operatorVars, deviceVars
<1>2. ASSUME NEW c \in Contents, RemoveBlob(c) PROVE SentOnce'
  BY <1>2 DEF RemoveBlob, Serving, IInv, SentOnce, vars, serverVars, backupVars, operatorVars, deviceVars
<1>3. ASSUME NEW d \in Devices, Pull(d) PROVE SentOnce'
  BY <1>3 DEF Pull, Serving, Enrolled, IInv, SentOnce, vars, serverVars, backupVars, operatorVars, deviceVars
<1>4. ASSUME NEW d \in Devices, Enroll(d) PROVE SentOnce'
  BY <1>4 DEF Enroll, Serving, Enrolled, IInv, SentOnce, vars, serverVars, backupVars, operatorVars, deviceVars
<1>5. ASSUME NEW d \in Devices, NEW f \in Files, NEW c \in Contents, Send(d, f, c) PROVE SentOnce'
  <2>1. c \notin {r.content : r \in sent}
    BY <1>5, RecoveryAssumption DEF Send
  <2> QED BY <1>5, <2>1 DEF Send, IInv, SentOnce
<1>6. ASSUME NEW d \in Devices, Apply(d) PROVE SentOnce'
  BY <1>6 DEF Apply, IInv, SentOnce, vars, serverVars, backupVars, operatorVars, deviceVars
<1>7. ASSUME NEW d \in Devices, Recover(d) PROVE SentOnce'
  BY <1>7 DEF Recover, Serving, Enrolled, IInv, SentOnce, vars, serverVars, backupVars, operatorVars, deviceVars
<1>8. ASSUME NEW c \in Callers, StartBackup(c) PROVE SentOnce'
  BY <1>8 DEF StartBackup, MayStart, IInv, SentOnce, vars, serverVars, backupVars, operatorVars, deviceVars
<1>9. ASSUME NEW c \in Callers, CopyDatabase(c) PROVE SentOnce'
  BY <1>9 DEF CopyDatabase, IInv, SentOnce, vars, serverVars, backupVars, operatorVars, deviceVars
<1>10. ASSUME NEW c \in Callers, LinkBlobs(c) PROVE SentOnce'
  BY <1>10 DEF LinkBlobs, IInv, SentOnce, vars, serverVars, backupVars, operatorVars, deviceVars
<1>11. ASSUME NEW c \in Callers, FinishBackup(c) PROVE SentOnce'
  BY <1>11 DEF FinishBackup, IInv, SentOnce, vars, serverVars, backupVars, operatorVars, deviceVars
<1>12. ASSUME NEW c \in Callers, FailBackup(c) PROVE SentOnce'
  BY <1>12 DEF FailBackup, IInv, SentOnce, vars, serverVars, backupVars, operatorVars, deviceVars
<1>13. ASSUME NEW snapshot \in repository, Forget(snapshot) PROVE SentOnce'
  BY <1>13 DEF Forget, IInv, SentOnce, vars, serverVars, backupVars, operatorVars, deviceVars
<1>14. CASE StopServer
  BY <1>14 DEF StopServer, IInv, SentOnce, vars, serverVars, backupVars, operatorVars, deviceVars
<1>15. CASE StartServer
  BY <1>15 DEF StartServer, NewDirectory, IInv, SentOnce, vars, serverVars, backupVars, operatorVars, deviceVars
<1>16. ASSUME NEW snapshot \in repository, Fetch(snapshot) PROVE SentOnce'
  BY <1>16 DEF Fetch, IInv, SentOnce, vars, serverVars, backupVars, operatorVars, deviceVars
<1>17. CASE MoveAside
  BY <1>17 DEF MoveAside, IInv, SentOnce, vars, serverVars, backupVars, operatorVars, deviceVars
<1>18. CASE Install
  BY <1>18 DEF Install, IInv, SentOnce, vars, serverVars, backupVars, operatorVars, deviceVars
<1>19. ASSUME NEW old \in aside, PutBack(old) PROVE SentOnce'
  BY <1>19 DEF PutBack, IInv, SentOnce, vars, serverVars, backupVars, operatorVars, deviceVars
<1>20. CASE AbandonRestore
  BY <1>20 DEF AbandonRestore, IInv, SentOnce, vars, serverVars, backupVars, operatorVars, deviceVars
<1>21. CASE RotateEpoch
  BY <1>21 DEF RotateEpoch, IInv, SentOnce, vars, serverVars, backupVars, operatorVars, deviceVars
<1> QED BY <1>1, <1>2, <1>3, <1>4, <1>5, <1>6, <1>7, <1>8, <1>9, <1>10, <1>11, <1>12, <1>13, <1>14, <1>15, <1>16, <1>17, <1>18, <1>19, <1>20, <1>21
     DEF Next, ServiceStep, DeviceStep, BackupStep, OperatorStep

-----------------------------------------------------------------------------
(***************************************************************************)
(* The invariant, and what it means.                                       *)
(***************************************************************************)

\* A new vault, which every device of its household knows.
LEMMA InitIInv == Init => IInv
<1> SUFFICES ASSUME Init PROVE IInv
  OBVIOUS
<1>1. << >> \in Seq(Change)
  BY EmptySeq
<1>2. /\ data \in Directory /\ data # Nothing
      /\ data.epoch = 1 /\ data.log = << >> /\ ~ data.due
  <2>1. /\ data \in Directory
        /\ data.epoch = 1 /\ data.log = << >> /\ ~ data.due
    BY <1>1 DEF Init, NewDirectory, Directory
  <2> QED BY <2>1, DirectoryAssumption
<1>3. TypeOK
  BY <1>1, <1>2, RecoveryAssumption DEF Init, TypeOK
<1>4. MessagesTyped
  BY DEF Init, MessagesTyped
<1>5. OneAtATime
  BY <1>2 DEF Init, OneAtATime
<1>6. CopiesComplete
  BY <1>2 DEF Init, CopiesComplete, BackupsComplete, Complete, Referenced
<1>7. NothingDiscarded
  BY DEF Init, NothingDiscarded
<1>8. EpochsDistinct
  <2>1. aside = {} /\ sent = {} /\ epochs = 1 /\ \A d \in Devices : known[d] = 1
    BY DEF Init
  <2>2. \A dir \in Live : dir.epoch = 1
    BY <1>2, <2>1 DEF Live
  <2> QED BY <2>1, <2>2 DEF EpochsDistinct
<1>9. HistoryShared
  <2>1. SeenBegins
    BY <1>1, <1>2, BeginsItself DEF Init, SeenBegins, Live
  <2> QED BY <2>1 DEF Init, HistoryShared, InboxContinues, WritesInformed
<1>10. SentOnce
  BY DEF Init, SentOnce
<1> QED BY <1>3, <1>4, <1>5, <1>6, <1>7, <1>8, <1>9, <1>10 DEF IInv

\* A step keeps it.
LEMMA StepKeepsIInv == IInv /\ [Next]_vars => IInv'
<1>1. CASE IInv /\ Next
  BY <1>1, TypesKept, MessagesTypedKept, OneAtATimeKept, CopiesCompleteKept,
     NothingDiscardedKept, EpochsDistinctKept, HistorySharedKept, SentOnceKept DEF IInv
<1>2. CASE IInv /\ UNCHANGED vars
  <2> USE <1>2 DEF vars, serverVars, backupVars, operatorVars, deviceVars
  <2>1. TypeOK' /\ MessagesTyped' /\ OneAtATime'
    BY DEF IInv, TypeOK, MessagesTyped, OneAtATime
  <2>2. CopiesComplete' /\ NothingDiscarded'
    BY DEF IInv, CopiesComplete, BackupsComplete, Complete, NothingDiscarded
  <2>3. EpochsDistinct' /\ SentOnce'
    BY DEF IInv, EpochsDistinct, Live, SentOnce
  <2>4. HistoryShared'
    BY DEF IInv, HistoryShared, SeenBegins, InboxContinues, WritesInformed, Live
  <2> QED BY <2>1, <2>2, <2>3, <2>4 DEF IInv
<1> QED BY <1>1, <1>2

\* The inductive invariant holds in every reachable state.
THEOREM Invariance == Spec => []IInv
BY InitIInv, StepKeepsIInv, PTL DEF Spec

\* Every variable keeps its type, and whoever holds the service mutex for a backup
\* is in the middle of copying.
THEOREM TypeCorrect == Spec => []TypeOK
<1>1. IInv => TypeOK
  BY DEF IInv
<1> QED BY <1>1, Invariance, PTL

\* Every snapshot, and the data directory before and after a restore, has the blobs
\* that its database refers to, for any number of jobs, crashes and restores.
THEOREM BackupsAreComplete == Spec => []BackupsComplete
<1>1. IInv => BackupsComplete
  BY DEF IInv, CopiesComplete
<1> QED BY <1>1, Invariance, PTL

\* What the server accepted is on its disk at every step of every restore.
THEOREM NothingLost == Spec => []NothingDiscarded
<1>1. IInv => NothingDiscarded
  BY DEF IInv
<1> QED BY <1>1, Invariance, PTL

\* A device in the epoch of the server has seen how the server's log begins.
THEOREM EpochsNameHistory == Spec => []EpochNamesHistory
<1>1. IInv => EpochNamesHistory
  <2> SUFFICES ASSUME IInv, server = "up" PROVE EpochNamesHistory
    BY DEF EpochNamesHistory
  <2>1. data \in Live
    BY DEF IInv, OneAtATime, Live
  <2>2. \A d \in Devices : known[d] = data.epoch => Begins(seen[d], data.log)
    BY <2>1 DEF IInv, HistoryShared, SeenBegins
  <2>3. \A d \in Devices : inbox[d] # Nothing /\ known[d] = data.epoch
             => Begins(seen[d] \o inbox[d].changes, data.log)
    BY DEF IInv, HistoryShared, InboxContinues
  <2> QED BY <2>2, <2>3 DEF EpochNamesHistory
<1> QED BY <1>1, Invariance, PTL

\* The log of the data directory grows only by a write that was let in.
LEMMA OnlyUploadsGrowTheLog ==
    ASSUME IInv, Next, NEW change \in Change,
           data # Nothing, data' # Nothing, data'.log = Append(data.log, change)
    PROVE  \E r \in sent : Upload(r) /\ change = [file |-> r.file, content |-> r.content]
<1>1. data \in Directory /\ data.log \in Seq(Change)
  BY DEF IInv, TypeOK, Directory
<1>2. data'.log # data.log
  BY <1>1, LenProperties, AppendProperties
<1>3. ASSUME NEW c \in Contents, RemoveBlob(c) PROVE FALSE
  BY <1>1, <1>2, <1>3 DEF RemoveBlob, Directory
<1>4. ASSUME NEW d \in Devices, Pull(d) \/ Enroll(d) PROVE FALSE
  BY <1>1, <1>2, <1>4 DEF Pull, Enroll, Directory
<1>5. ASSUME DeviceStep \/ BackupStep PROVE FALSE
  BY <1>2, <1>5 DEF DeviceStep, Send, Apply, Recover, BackupStep, StartBackup, CopyDatabase,
     LinkBlobs, FinishBackup, FailBackup, Forget, serverVars
<1>6. ASSUME OperatorStep PROVE FALSE
  <2>1. CASE RotateEpoch
    <3>1. epochs + 1 \in Nat
      BY DEF IInv, MessagesTyped
    <3> QED BY <1>1, <1>2, <2>1, <3>1 DEF RotateEpoch, Directory
  <2>2. CASE ~ RotateEpoch
    BY <1>2, <1>6, <2>2 DEF OperatorStep, StopServer, StartServer, Fetch, MoveAside, Install,
       PutBack, AbandonRestore, serverVars, IInv, OneAtATime
  <2> QED BY <2>1, <2>2
<1>7. PICK r \in sent : Upload(r)
  BY <1>3, <1>4, <1>5, <1>6 DEF Next, ServiceStep
<1> DEFINE written == [file |-> r.file, content |-> r.content]
<1>8. data'.log = Append(data.log, written)
  BY <1>1, <1>7 DEF Upload, Directory
<1>9. written \in Change
  BY DEF IInv, MessagesTyped, Change
<1> HIDE DEF written
<1>10. change = written
  <2>1. /\ Append(data.log, change)[Len(data.log) + 1] = change
        /\ Append(data.log, written)[Len(data.log) + 1] = written
    BY <1>1, <1>9, AppendProperties
  <2> QED BY <1>8, <2>1
<1> QED BY <1>7, <1>10 DEF written

\* No write replaces content that its device had not seen, whatever was restored or
\* put back between the writing and the arrival.
THEOREM NoLostUpdate == Spec => NoLostUpdateAcrossRestore
<1> DEFINE Writes ==
       \A r \in sent :
          (data # Nothing /\ data' # Nothing
             /\ data'.log = Append(data.log, [file |-> r.file, content |-> r.content]))
              => HeadContent(data.log, r.file) = r.over
<1>1. IInv /\ [Next]_vars => [Writes]_vars
  <2> SUFFICES ASSUME IInv, Next, NEW r \in sent, data # Nothing, data' # Nothing,
                      data'.log = Append(data.log, [file |-> r.file, content |-> r.content])
               PROVE  HeadContent(data.log, r.file) = r.over
    OBVIOUS
  <2>1. [file |-> r.file, content |-> r.content] \in Change
    BY DEF IInv, MessagesTyped, Change
  <2>2. PICK w \in sent : /\ Upload(w)
                          /\ [file |-> r.file, content |-> r.content]
                                = [file |-> w.file, content |-> w.content]
    BY <2>1, OnlyUploadsGrowTheLog
  <2>3. w = r
    <3>1. w.content = r.content
      BY <2>2
    <3> QED BY <3>1 DEF IInv, SentOnce
  <2>4. data \in Live /\ r.epoch = data.epoch /\ Revision(data.log, r.file) = r.base
    BY <2>2, <2>3 DEF Upload, Serving, GuardWrite, Live, IInv, OneAtATime
  <2>5. Informed(r, data.log)
    BY <2>4 DEF IInv, HistoryShared, WritesInformed
  <2> QED BY <2>4, <2>5 DEF Informed
<1>2. Spec => [][Writes]_vars
  BY <1>1, Invariance, PTL DEF Spec
<1> QED BY <1>2 DEF NoLostUpdateAcrossRestore

-----------------------------------------------------------------------------
(***************************************************************************)
(* The histories that devices may meet: which of them a step leaves alone, *)
(* lets grow or begins.                                                    *)
(***************************************************************************)

\* What begins the beginning of a log begins the log.
LEMMA BeginsOn ==
    ASSUME NEW part \in Seq(Change), NEW log \in Seq(Change), NEW whole \in Seq(Change),
           Begins(part, log), Begins(log, whole)
    PROVE  Begins(part, whole)
BY LenProperties DEF Begins

\* A log begins what is appended to it.
LEMMA BeginsExtended ==
    ASSUME NEW part \in Seq(Change), NEW rest \in Seq(Change)
    PROVE  Begins(part, part \o rest)
BY LenProperties, ConcatProperties DEF Begins

\* What is live is a directory, and the service has its own at hand.
LEMMA LiveTyped ==
    ASSUME IInv
    PROVE  /\ \A dir \in Live : /\ dir \in Directory /\ dir.epoch \in Nat
                                /\ dir.log \in Seq(Change) /\ dir.epoch <= epochs
           /\ \A dir, other \in Live : dir.epoch = other.epoch => dir = other
           /\ server = "up" => data \in Live /\ data \in Directory /\ data # Nothing
<1>1. \A dir \in Live : dir \in Directory /\ dir.epoch <= epochs
  BY DEF IInv, TypeOK, Live, EpochsDistinct
<1>2. \A dir, other \in Live : dir.epoch = other.epoch => dir = other
  BY DEF IInv, Live, EpochsDistinct
<1>3. server = "up" => data \in Live /\ data \in Directory /\ data # Nothing
  BY DEF IInv, TypeOK, OneAtATime, Live
<1> QED BY <1>1, <1>2, <1>3 DEF Directory

\* The branch of a live directory's epoch is its log.
LEMMA BranchesAreLogs ==
    EpochsDistinct => /\ DOMAIN Branches = {dir.epoch : dir \in Live}
                      /\ \A dir \in Live : Branches[dir.epoch] = dir.log
<1> SUFFICES ASSUME EpochsDistinct, NEW dir \in Live PROVE Branches[dir.epoch] = dir.log
  BY DEF Branches
<1>1. \A other \in Live : other.epoch = dir.epoch => other = dir
  BY DEF Live, EpochsDistinct
<1>2. (CHOOSE other \in Live : other.epoch = dir.epoch) = dir
  BY <1>1
<1> QED BY <1>2 DEF Branches

\* The live directories hold the same epochs and logs as before.
LiveKept ==
    /\ \A dir \in Live : \E now \in Live' : now.epoch = dir.epoch /\ now.log = dir.log
    /\ \A now \in Live' : \E dir \in Live : now.epoch = dir.epoch /\ now.log = dir.log

\* Then the branches are the same.
LEMMA KeptBranches ==
    ASSUME EpochsDistinct, EpochsDistinct', LiveKept
    PROVE  Branches' = Branches
<1>1. /\ DOMAIN Branches = {dir.epoch : dir \in Live}
      /\ \A dir \in Live : Branches[dir.epoch] = dir.log
  BY BranchesAreLogs
<1>2. (EpochsDistinct => /\ DOMAIN Branches = {dir.epoch : dir \in Live}
                         /\ \A dir \in Live : Branches[dir.epoch] = dir.log)'
  BY BranchesAreLogs, PTL
<1>3. /\ DOMAIN Branches' = {dir.epoch : dir \in Live'}
      /\ \A dir \in Live' : Branches'[dir.epoch] = dir.log
  BY <1>2
<1>4. DOMAIN Branches' = DOMAIN Branches
  BY <1>1, <1>3 DEF LiveKept
<1>5. ASSUME NEW epoch \in DOMAIN Branches PROVE Branches'[epoch] = Branches[epoch]
  <2>1. PICK dir \in Live : dir.epoch = epoch
    BY <1>1
  <2>2. PICK now \in Live' : now.epoch = dir.epoch /\ now.log = dir.log
    BY DEF LiveKept
  <2>3. Branches[epoch] = dir.log
    BY <1>1, <2>1
  <2>4. Branches'[epoch] = now.log
    BY <1>3, <2>1, <2>2
  <2> QED BY <2>2, <2>3, <2>4
<1>6. /\ Branches = [epoch \in DOMAIN Branches |-> Branches[epoch]]
      /\ Branches' = [epoch \in DOMAIN Branches' |-> Branches'[epoch]]
  BY DEF Branches
<1> QED BY <1>4, <1>5, <1>6

\* The steps that write a log or begin one.
Fresh == RotateEpoch \/ (StartServer /\ data = Nothing)

Grows == Fresh \/ \E r \in sent : Upload(r)

\* All others leave the histories alone: they add to no log, and a directory that is
\* moved away, put back or restored is live, or not, wherever it lies.
LEMMA OthersKeepLive ==
    ASSUME IInv, Next, ~ Grows
    PROVE  LiveKept
<1>1. CASE ServiceStep
  <2>1. /\ data \in Directory /\ data # Nothing /\ ~ data.due
        /\ data' # Nothing /\ data'.epoch = data.epoch /\ ~ data'.due
    BY <1>1, ServiceKeepsDirectory
  <2>2. data'.log = data.log
    BY <1>1, <2>1 DEF ServiceStep, RemoveBlob, Pull, Enroll, Directory, Grows
  <2>3. aside' = aside
    BY <1>1 DEF ServiceStep, Upload, RemoveBlob, Pull, Enroll, operatorVars
  <2>4. Live = {dir \in aside : ~ dir.due} \cup {data}
    BY <2>1 DEF Live
  <2>5. Live' = {dir \in aside : ~ dir.due} \cup {data'}
    BY <2>1, <2>3 DEF Live
  <2> QED BY <2>1, <2>2, <2>4, <2>5 DEF LiveKept
<1>2. ASSUME Live' = Live PROVE LiveKept
  BY <1>2 DEF LiveKept
<1>3. CASE DeviceStep \/ BackupStep
  <2>1. data' = data /\ aside' = aside
    BY <1>3 DEF DeviceStep, Send, Apply, Recover, BackupStep, StartBackup, CopyDatabase,
       LinkBlobs, FinishBackup, FailBackup, Forget, serverVars, operatorVars
  <2> QED BY <1>2, <2>1 DEF Live
<1>4. CASE OperatorStep
  <2>1. CASE MoveAside
    BY <1>2, <2>1 DEF MoveAside, Live
  <2>2. CASE Install
    <3>1. data = Nothing /\ (fetched # Nothing => fetched.due)
      BY <2>2 DEF Install, IInv, OneAtATime
    <3> QED BY <1>2, <2>2, <3>1 DEF Install, Live
  <2>3. ASSUME NEW old \in aside, PutBack(old) PROVE LiveKept
    <3>1. old # Nothing
      BY DirectoryAssumption DEF IInv, TypeOK
    <3> QED BY <1>2, <2>3, <3>1 DEF PutBack, Live
  <2>4. CASE ~ (MoveAside \/ Install \/ \E old \in aside : PutBack(old))
    <3>1. data' = data /\ aside' = aside
      BY <1>4, <2>4 DEF OperatorStep, StopServer, StartServer, Fetch, AbandonRestore, Grows,
         Fresh, serverVars, operatorVars
    <3> QED BY <1>2, <3>1 DEF Live
  <2> QED BY <2>1, <2>2, <2>3, <2>4
<1> QED BY <1>1, <1>3, <1>4 DEF Next

\* A write makes the log under its epoch longer, and no other.
LEMMA UploadGrowsOne ==
    ASSUME IInv, EpochsDistinct', NEW r \in sent, Upload(r)
    PROVE  \E change \in Change :
             /\ data \in Live /\ data' \in Live' /\ data'.epoch = data.epoch
             /\ data'.log = Append(data.log, change)
             /\ \A dir \in Live : dir # data => dir \in Live'
             /\ \A dir \in Live' : dir # data' => dir \in Live /\ dir.epoch # data.epoch
<1> DEFINE change == [file |-> r.file, content |-> r.content]
<1>1. change \in Change
  BY DEF IInv, MessagesTyped, Change
<1>2. /\ data \in Directory /\ data # Nothing /\ ~ data.due
      /\ data' # Nothing /\ data'.epoch = data.epoch /\ ~ data'.due
  BY ServiceKeepsDirectory DEF ServiceStep
<1>3. data'.log = Append(data.log, change) /\ aside' = aside
  BY <1>2 DEF Upload, Directory, operatorVars
<1>4. Live = {dir \in aside : ~ dir.due} \cup {data}
  BY <1>2 DEF Live
<1>5. Live' = {dir \in aside : ~ dir.due} \cup {data'}
  BY <1>2, <1>3 DEF Live
<1>6. \A dir \in aside : ~ dir.due => dir.epoch # data.epoch
  BY <1>2 DEF IInv, EpochsDistinct
<1> QED BY <1>1, <1>2, <1>3, <1>4, <1>5, <1>6

\* A rotation, or a start without a past, adds one directory under an epoch of its own.
LEMMA FreshAddsOne ==
    ASSUME IInv, Fresh
    PROVE  /\ Live' = Live \cup {data'}
           /\ data'.epoch = epochs + 1
           /\ data'.log = << >> \/ (data # Nothing /\ data'.log = data.log)
<1>1. epochs \in Nat /\ epochs + 1 \in Nat
  BY DEF IInv, MessagesTyped
<1>2. CASE RotateEpoch
  <2>1. data \in Directory /\ data # Nothing /\ data.due
    BY <1>2 DEF RotateEpoch, IInv, TypeOK
  <2>2. /\ data' \in Directory /\ data'.epoch = epochs + 1
        /\ data'.log = data.log /\ ~ data'.due
    BY <1>1, <1>2, <2>1 DEF RotateEpoch, Directory
  <2>3. data' # Nothing /\ aside' = aside
    BY <1>2, <2>2, DirectoryAssumption DEF RotateEpoch
  <2> QED BY <2>1, <2>2, <2>3 DEF Live
<1>3. CASE StartServer /\ data = Nothing
  <2>1. data' = NewDirectory(epochs + 1) /\ aside' = aside
    BY <1>3 DEF StartServer, operatorVars
  <2>2. data' # Nothing
    BY <1>1, <2>1, NewIsDirectory
  <2>3. data'.epoch = epochs + 1 /\ data'.log = << >> /\ ~ data'.due
    BY <2>1 DEF NewDirectory
  <2> QED BY <1>3, <2>1, <2>2, <2>3 DEF Live
<1> QED BY <1>2, <1>3 DEF Fresh

\* No live history is lost or forked.
LEMMA LiveLasts ==
    ASSUME IInv, IInv', Next
    PROVE  \A dir \in Live : \E now \in Live' : Begins(dir.log, now.log)
<1>1. \A dir \in Live : dir.log \in Seq(Change) /\ Begins(dir.log, dir.log)
  BY LiveTyped, BeginsItself
<1>2. ASSUME NEW r \in sent, Upload(r), NEW dir \in Live
      PROVE  \E now \in Live' : Begins(dir.log, now.log)
  <2>1. PICK change \in Change :
             /\ data \in Live /\ data' \in Live' /\ data'.log = Append(data.log, change)
             /\ \A other \in Live : other # data => other \in Live'
    BY <1>2, UploadGrowsOne DEF IInv
  <2>2. Begins(data.log, data'.log)
    BY <1>1, <2>1, BeginsLonger
  <2> QED BY <1>1, <2>1, <2>2
<1>3. CASE Fresh
  BY <1>1, <1>3, FreshAddsOne
<1>4. CASE ~ Grows
  BY <1>1, <1>4, OthersKeepLive DEF LiveKept
<1> QED BY <1>2, <1>3, <1>4 DEF Grows

-----------------------------------------------------------------------------
(***************************************************************************)
(* DisasterRecovery implements Timelines.                                  *)
(***************************************************************************)

\* Every directory there is, the snapshots and a half-made backup among them, has
\* the beginning of a live history: the invariant that lets a restored past be an
\* old part of one the devices may know.
Copies == repository \cup aside \cup ({data, staging, fetched} \ {Nothing})

CopiesBegin == \A copy \in Copies : \E dir \in Live : Begins(copy.log, dir.log)

\* A step copies a log that was there, and leaves it behind or makes it live.
LEMMA CopiesComeFrom ==
    ASSUME IInv, IInv', Next, NEW copy \in Copies'
    PROVE  \E old \in Copies \cup Live' : old.log = copy.log
<1>1. CASE Grows
  <2>1. /\ aside' = aside /\ repository' = repository /\ fetched' = fetched
        /\ staging' \in {staging, Nothing}
    BY <1>1 DEF Grows, Fresh, RotateEpoch, StartServer, Upload, backupVars, operatorVars
  <2>2. data' \in Live'
    BY <1>1, FreshAddsOne, UploadGrowsOne DEF Grows, IInv
  <2> QED BY <2>1, <2>2 DEF Copies
<1>2. CASE ~ Grows /\ ServiceStep
  <2>1. /\ data \in Directory /\ data # Nothing /\ data' # Nothing
    BY <1>2, ServiceKeepsDirectory
  <2>2. data'.log = data.log
    BY <1>2, <2>1 DEF ServiceStep, RemoveBlob, Pull, Enroll, Directory, Grows
  <2>3. UNCHANGED <<aside, repository, fetched, staging>>
    BY <1>2 DEF ServiceStep, Upload, RemoveBlob, Pull, Enroll, backupVars, operatorVars
  <2> QED BY <2>1, <2>2, <2>3 DEF Copies
<1>3. CASE DeviceStep
  <2>1. UNCHANGED <<aside, repository, fetched, staging, data>>
    BY <1>3 DEF DeviceStep, Send, Apply, Recover, serverVars, backupVars, operatorVars
  <2> QED BY <2>1 DEF Copies
<1>4. CASE BackupStep
  <2>1. UNCHANGED <<aside, fetched, data>>
    BY <1>4 DEF BackupStep, StartBackup, CopyDatabase, LinkBlobs, FinishBackup, FailBackup,
       Forget, serverVars, operatorVars
  <2>2. ASSUME NEW c \in Callers, CopyDatabase(c) PROVE \E old \in Copies \cup Live' : old.log = copy.log
    <3>1. data \in Directory /\ data # Nothing
      BY <2>2 DEF CopyDatabase, IInv, TypeOK, OneAtATime
    <3>2. staging'.log = data.log /\ repository' = repository
      BY <2>2, <3>1 DEF CopyDatabase, Directory
    <3> QED BY <2>1, <3>1, <3>2 DEF Copies
  <2>3. ASSUME NEW c \in Callers, LinkBlobs(c) PROVE \E old \in Copies \cup Live' : old.log = copy.log
    <3>1. staging \in Directory /\ staging # Nothing
      BY <2>3 DEF LinkBlobs, IInv, TypeOK
    <3>2. staging'.log = staging.log /\ repository' = repository
      BY <2>3, <3>1 DEF LinkBlobs, Directory
    <3> QED BY <2>1, <3>1, <3>2 DEF Copies
  <2>4. CASE \A c \in Callers : ~ CopyDatabase(c) /\ ~ LinkBlobs(c)
    <3>1. /\ repository' \subseteq repository \cup ({staging} \ {Nothing})
          /\ staging' \in {staging, Nothing}
      BY <1>4, <2>4 DEF BackupStep, StartBackup, FinishBackup, FailBackup, Forget
    <3> QED BY <2>1, <3>1 DEF Copies
  <2> QED BY <2>2, <2>3, <2>4
<1>5. CASE ~ Grows /\ OperatorStep
  <2>1. ASSUME NEW snapshot \in repository, Fetch(snapshot)
        PROVE  \E old \in Copies \cup Live' : old.log = copy.log
    <3>1. fetched'.log = snapshot.log
      BY <2>1 DEF Fetch, IInv, TypeOK, Directory
    <3>2. UNCHANGED <<aside, repository, staging, data>>
      BY <2>1 DEF Fetch, serverVars, backupVars
    <3> QED BY <3>1, <3>2 DEF Copies
  <2>2. CASE \A snapshot \in repository : ~ Fetch(snapshot)
    <3>1. copy \in Copies
      <4>1. CASE StopServer \/ StartServer
        BY <1>5, <4>1 DEF StopServer, StartServer, Grows, Fresh, operatorVars, Copies
      <4>2. CASE MoveAside \/ Install \/ AbandonRestore
        BY <4>2 DEF MoveAside, Install, AbandonRestore, serverVars, backupVars, Copies
      <4>3. ASSUME NEW old \in aside, PutBack(old) PROVE copy \in Copies
        BY <4>3 DEF PutBack, backupVars, Copies
      <4> QED BY <1>5, <2>2, <4>1, <4>2, <4>3 DEF OperatorStep, Grows, Fresh
    <3> QED BY <3>1
  <2> QED BY <2>1, <2>2
<1> QED BY <1>1, <1>2, <1>3, <1>4, <1>5 DEF Next

\* Every copy is a directory.
LEMMA CopiesTyped == IInv => \A copy \in Copies : copy.log \in Seq(Change)
BY DEF IInv, TypeOK, Copies, Directory

\* A copy goes on beginning the history it was taken from.
LEMMA CopiesBeginKept ==
    ASSUME IInv, IInv', CopiesBegin, Next
    PROVE  CopiesBegin'
<1>1. \A copy \in Copies' : copy.log \in Seq(Change)
  <2>1. (IInv => \A copy \in Copies : copy.log \in Seq(Change))'
    BY CopiesTyped, PTL
  <2> QED BY <2>1
<1>2. \A now \in Live' : now.log \in Seq(Change)
  BY DEF IInv, TypeOK, Live, Directory
<1>3. \A dir \in Live : dir.log \in Seq(Change)
  BY LiveTyped
<1> SUFFICES ASSUME NEW copy \in Copies' PROVE \E now \in Live' : Begins(copy.log, now.log)
  BY DEF CopiesBegin
<1>4. PICK old \in Copies \cup Live' : old.log = copy.log
  BY CopiesComeFrom
<1>5. CASE old \in Copies
  <2>1. PICK dir \in Live : Begins(copy.log, dir.log)
    BY <1>4, <1>5 DEF CopiesBegin
  <2>2. PICK now \in Live' : Begins(dir.log, now.log)
    BY LiveLasts
  <2>3. Begins(copy.log, now.log)
    BY <1>1, <1>2, <1>3, <2>1, <2>2, BeginsOn
  <2> QED BY <2>3
<1>6. CASE old \in Live'
  BY <1>2, <1>4, <1>6, BeginsItself
<1> QED BY <1>5, <1>6

TInv == IInv /\ CopiesBegin

\* It holds in every reachable state.
LEMMA TimelineInvariance == Spec => []TInv
<1>1. Init => CopiesBegin
  <2> SUFFICES ASSUME Init PROVE CopiesBegin
    OBVIOUS
  <2>1. << >> \in Seq(Change)
    BY EmptySeq
  <2>2. data \in Live /\ data.log \in Seq(Change)
    <3>1. data # Nothing /\ ~ data.due
      BY InitIInv DEF Init, IInv, OneAtATime
    <3>2. data.log = << >>
      BY DEF Init, NewDirectory
    <3> QED BY <2>1, <3>1, <3>2 DEF Live
  <2>3. Copies \subseteq {data}
    BY DEF Init, Copies
  <2> QED BY <2>2, <2>3, BeginsItself DEF CopiesBegin
<1>2. TInv /\ [Next]_vars => TInv'
  <2>1. CASE TInv /\ Next
    BY <2>1, StepKeepsIInv, CopiesBeginKept DEF TInv
  <2>2. CASE TInv /\ UNCHANGED vars
    <3>1. CopiesBegin'
      BY <2>2 DEF TInv, CopiesBegin, Copies, Live, vars, serverVars, backupVars, operatorVars
    <3> QED BY <2>2, <3>1, StepKeepsIInv DEF TInv
  <2> QED BY <2>1, <2>2
<1> QED BY <1>1, <1>2, InitIInv, PTL DEF Spec, TInv

StepOfTimelines == [Timeline!Next]_<<Branches, Views>>

\* A write extends the branch of the server's epoch.
LEMMA UploadIsExtend ==
    ASSUME IInv, IInv', NEW r \in sent, Upload(r)
    PROVE  StepOfTimelines
<1>1. PICK change \in Change :
             /\ data \in Live /\ data' \in Live' /\ data'.epoch = data.epoch
             /\ data'.log = Append(data.log, change)
             /\ \A dir \in Live : dir # data => dir \in Live'
             /\ \A dir \in Live' : dir # data' => dir \in Live /\ dir.epoch # data.epoch
  BY UploadGrowsOne DEF IInv
<1> DEFINE e == data.epoch
<1>2. /\ DOMAIN Branches = {dir.epoch : dir \in Live}
      /\ \A dir \in Live : Branches[dir.epoch] = dir.log
  BY BranchesAreLogs DEF IInv
<1>3. (EpochsDistinct => /\ DOMAIN Branches = {dir.epoch : dir \in Live}
                         /\ \A dir \in Live : Branches[dir.epoch] = dir.log)'
  BY BranchesAreLogs, PTL
<1>4. /\ DOMAIN Branches' = {dir.epoch : dir \in Live'}
      /\ \A dir \in Live' : Branches'[dir.epoch] = dir.log
  BY <1>3 DEF IInv
<1>5. DOMAIN Branches' = DOMAIN Branches /\ e \in DOMAIN Branches
  BY <1>1, <1>2, <1>4
<1>6. Branches[e] = data.log /\ Branches'[e] = Append(data.log, change)
  BY <1>1, <1>2, <1>4
<1>7. ASSUME NEW other \in DOMAIN Branches \ {e} PROVE Branches'[other] = Branches[other]
  <2>1. PICK dir \in Live : dir.epoch = other
    BY <1>2
  <2> QED BY <1>1, <1>2, <1>4, <2>1
<1>8. data.log \in Seq(Change)
  BY <1>1, LiveTyped
<1>9. /\ Timeline!Begins(Branches[e], Branches'[e])
      /\ Len(Branches'[e]) = Len(Branches[e]) + 1
  BY <1>6, <1>8, LenProperties, AppendProperties DEF Timeline!Begins
<1>10. UNCHANGED Views
  BY DEF Upload, deviceVars, Views
<1>11. Timeline!Extend(e)
  BY <1>5, <1>7, <1>9, <1>10 DEF Timeline!Extend, Timeline!Epochs
<1> QED BY <1>5, <1>11 DEF StepOfTimelines, Timeline!Next, Timeline!Epochs

\* A rotation, or a start without a past, begins a branch.
LEMMA FreshIsBranch ==
    ASSUME TInv, IInv', Fresh
    PROVE  StepOfTimelines
<1> DEFINE e == epochs + 1
<1>1. /\ Live' = Live \cup {data'}
      /\ data'.epoch = e
      /\ data'.log = << >> \/ (data # Nothing /\ data'.log = data.log)
  BY FreshAddsOne DEF TInv
<1>2. /\ DOMAIN Branches = {dir.epoch : dir \in Live}
      /\ \A dir \in Live : Branches[dir.epoch] = dir.log
  BY BranchesAreLogs DEF TInv, IInv
<1>3. (EpochsDistinct => /\ DOMAIN Branches = {dir.epoch : dir \in Live}
                         /\ \A dir \in Live : Branches[dir.epoch] = dir.log)'
  BY BranchesAreLogs, PTL
<1>4. /\ DOMAIN Branches' = {dir.epoch : dir \in Live'}
      /\ \A dir \in Live' : Branches'[dir.epoch] = dir.log
  BY <1>3 DEF IInv
<1>5. epochs \in Nat /\ \A d \in Devices : known[d] \in Nat /\ known[d] <= epochs
  BY DEF TInv, IInv, MessagesTyped, EpochsDistinct, TypeOK
<1>6. e \notin DOMAIN Branches /\ DOMAIN Branches' = DOMAIN Branches \cup {e}
  <2>1. \A dir \in Live : dir.epoch # e
    BY <1>5, LiveTyped DEF TInv
  <2> QED BY <1>1, <1>2, <1>4, <2>1
<1>7. \A old \in DOMAIN Branches : Branches'[old] = Branches[old]
  BY <1>1, <1>2, <1>4
<1>8. Branches'[e] = << >> \/ \E old \in DOMAIN Branches : Begins(Branches'[e], Branches[old])
  <2>1. Branches'[e] = data'.log
    BY <1>1, <1>4
  <2>2. CASE data # Nothing /\ data'.log = data.log
    <3>1. PICK dir \in Live : Begins(data.log, dir.log)
      BY <2>2 DEF TInv, CopiesBegin, Copies
    <3> QED BY <1>2, <2>1, <2>2, <3>1
  <2> QED BY <1>1, <2>1, <2>2
<1>9. known' = known /\ seen' = seen
  BY DEF Fresh, RotateEpoch, StartServer, deviceVars
<1>10. UNCHANGED Views /\ \A d \in Devices : Views[d].epoch # e
  BY <1>5, <1>9 DEF Views
<1>11. Timeline!Branch
  BY <1>6, <1>7, <1>8, <1>10 DEF Timeline!Branch, Timeline!Epochs, Timeline!Begins, Begins
<1> QED BY <1>11 DEF StepOfTimelines, Timeline!Next

\* A step that shows a device a longer or another history.
LEMMA ApplyIsFollow ==
    ASSUME IInv, Branches' = Branches, NEW d \in Devices, Apply(d)
    PROVE  StepOfTimelines
<1>1. server = "up" /\ inbox[d] # Nothing
  BY DEF Apply, IInv, OneAtATime, TypeOK
<1>2. /\ known' = known /\ seen'[d] = seen[d] \o inbox[d].changes
      /\ \A e \in Devices : e # d => seen'[e] = seen[e]
      /\ seen[d] \in Seq(Change) /\ inbox[d].changes \in Seq(Change)
  BY <1>1 DEF Apply, IInv, TypeOK, MessagesTyped, Response
<1>3. known[d] = data.epoch /\ Begins(seen'[d], data.log)
  BY <1>1, <1>2 DEF Apply, IInv, HistoryShared, InboxContinues
<1>4. known[d] \in DOMAIN Branches /\ Branches[known[d]] = data.log
  BY <1>1, <1>3, LiveTyped, BranchesAreLogs DEF IInv
<1>5. Begins(seen[d], seen'[d])
  BY <1>2, BeginsExtended
<1>6. /\ Views[d] = [epoch |-> known[d], log |-> seen[d]]
      /\ Views'[d] = [epoch |-> known[d], log |-> seen'[d]]
      /\ Views' = [Views EXCEPT ![d] = Views'[d]]
  BY <1>2 DEF Views
<1>7. Timeline!Sees(d, Views'[d])
  BY <1>3, <1>4, <1>6 DEF Timeline!Sees, Timeline!Epochs, Timeline!Begins, Begins
<1>8. Timeline!Follow(d)
  BY <1>5, <1>6, <1>7 DEF Timeline!Follow, Timeline!Begins, Begins
<1> QED BY <1>8 DEF StepOfTimelines, Timeline!Next

LEMMA RecoverIsJoin ==
    ASSUME IInv, Branches' = Branches, NEW d \in Devices, Recover(d)
    PROVE  StepOfTimelines
<1>1. server = "up" /\ data \in Live /\ data.log \in Seq(Change)
  BY LiveTyped DEF Recover, Serving
<1>2. /\ known'[d] = data.epoch /\ seen'[d] = data.log /\ data.epoch # known[d]
      /\ \A e \in Devices : e # d => seen'[e] = seen[e] /\ known'[e] = known[e]
  BY DEF Recover, IInv, TypeOK, HistoryShared, InboxContinues
<1>3. data.epoch \in DOMAIN Branches /\ Branches[data.epoch] = data.log
  BY <1>1, BranchesAreLogs DEF IInv
<1>4. Begins(data.log, data.log)
  BY <1>1, BeginsItself
<1>5. /\ Views[d] = [epoch |-> known[d], log |-> seen[d]]
      /\ Views'[d] = [epoch |-> data.epoch, log |-> data.log]
      /\ Views' = [Views EXCEPT ![d] = Views'[d]]
  BY <1>2 DEF Views
<1>6. Timeline!Sees(d, Views'[d])
  BY <1>3, <1>4, <1>5 DEF Timeline!Sees, Timeline!Epochs, Timeline!Begins, Begins
<1>7. Timeline!Join(d)
  BY <1>2, <1>5, <1>6 DEF Timeline!Join
<1> QED BY <1>7 DEF StepOfTimelines, Timeline!Next

\* Every step is one of Timelines or does not show.
LEMMA StepIsTimelinesStep ==
    ASSUME TInv, TInv', [Next]_vars
    PROVE  StepOfTimelines
<1>1. CASE UNCHANGED vars
  BY <1>1 DEF vars, serverVars, operatorVars, deviceVars, Live, Branches, Views, StepOfTimelines
<1>2. CASE Next /\ Grows
  BY <1>2, UploadIsExtend, FreshIsBranch DEF Grows, TInv
<1>3. CASE Next /\ ~ Grows
  <2>1. Branches' = Branches
    BY <1>3, OthersKeepLive, KeptBranches DEF TInv, IInv
  <2>2. ASSUME NEW d \in Devices, Apply(d) PROVE StepOfTimelines
    BY <2>1, <2>2, ApplyIsFollow DEF TInv
  <2>3. ASSUME NEW d \in Devices, Recover(d) PROVE StepOfTimelines
    BY <2>1, <2>3, RecoverIsJoin DEF TInv
  <2>4. CASE \A d \in Devices : ~ Apply(d) /\ ~ Recover(d)
    <3>1. known' = known /\ seen' = seen
      BY <1>3, <2>4 DEF Next, ServiceStep, DeviceStep, BackupStep, OperatorStep, Grows, Fresh,
         RemoveBlob, Pull, Enroll, Send, StartBackup, CopyDatabase, LinkBlobs, FinishBackup,
         FailBackup, Forget, StopServer, StartServer, Fetch, MoveAside, Install, PutBack,
         AbandonRestore, deviceVars
    <3> QED BY <2>1, <3>1 DEF Views, StepOfTimelines
  <2> QED BY <2>2, <2>3, <2>4
<1> QED BY <1>1, <1>2, <1>3

\* To devices, every reachable run of backups, restores, failures and crashes is one
\* of epochs that each name a history, and of devices that follow one or another.
THEOREM ImplementsTimelines == Spec => TimelineSpec
<1>1. Init => Timeline!Init
  <2> SUFFICES ASSUME Init PROVE Timeline!Init
    OBVIOUS
  <2>1. data # Nothing /\ ~ data.due /\ EpochsDistinct
    BY InitIInv DEF Init, IInv, OneAtATime
  <2>2. data.epoch = 1 /\ data.log = << >> /\ aside = {}
    BY DEF Init, NewDirectory
  <2>3. Live = {data}
    BY <2>1, <2>2 DEF Live
  <2>4. DOMAIN Branches = {1} /\ Branches[1] = << >>
    BY <2>1, <2>2, <2>3, BranchesAreLogs
  <2>5. Branches = [epoch \in {1} |-> << >>]
    BY <2>4 DEF Branches
  <2>6. Views = [d \in Devices |-> [epoch |-> 1, log |-> << >>]]
    BY DEF Init, Views
  <2> QED BY <2>5, <2>6 DEF Timeline!Init
<1>2. TInv /\ TInv' /\ [Next]_vars => StepOfTimelines
  BY StepIsTimelinesStep
<1> QED BY <1>1, <1>2, TimelineInvariance, PTL
        DEF Spec, TimelineSpec, Timeline!Spec, StepOfTimelines
=============================================================================
