--------------------------- MODULE UpgradeProofs ----------------------------
(***************************************************************************)
(* Theorems about Upgrade, for any v5 tables, any contents and any number  *)
(* of crashes, stopped commands and refused transactions.                  *)
(*                                                                         *)
(* A start-up that completes is right because each one goes over every     *)
(* row, whatever earlier ones have done, and gives a good row the id all   *)
(* others gave it, so that it meets its own rows there and no others'.  A blob is never lost track of because its old name,    *)
(* once marked done, is in no row again, and a command that is at work on  *)
(* a blob has found its old name in some row.                              *)
(***************************************************************************)
EXTENDS Upgrade, WellFoundedInduction, TLAPS

USE SchemaAssumption, BlobIdAssumption

(***************************************************************************)
(* The inductive invariant                                                 *)
(***************************************************************************)

\* A plan gives every good row its id, and the others ids that no row has.
PlanFits ==
    plan # None =>
        /\ schema = "v5"
        /\ DOMAIN plan = Known
        /\ \A p \in Known :
              IF KeepsId(p) THEN plan[p] = files[p].id
              ELSE \A q \in Known : plan[p] # files[q].id
        /\ \A p, q \in Known : plan[p] = plan[q] => p = q
        /\ \A p \in todo : ~KeepsId(p) => plan[p] \notin DOMAIN heads \cup DOMAIN tombstones

\* A version of a row's object: by its id, or by its path where it has none.
Owns(p, id, v) == IF v.id \in FileIds THEN v.id = id ELSE v.path = p

\* The version an object has of a revision is that of the first path.
First(p, id, v) ==
    /\ v \in history /\ Owns(p, id, v)
    /\ \A u \in history : Owns(p, id, u) /\ u.revision = v.revision => v.path <= u.path

\* An object has all its versions.
Brought(p, id) ==
    \A v \in history : Owns(p, id, v) =>
        \E u \in history :
            /\ First(p, id, u) /\ u.revision = v.revision
            /\ [id |-> id, revision |-> u.revision, path |-> u.path] \in versions

\* A row is in the new tables under an id.
Placed(p, id) ==
    \/ id \in DOMAIN heads /\ heads[id] = Row(p)
    \/ id \in DOMAIN tombstones /\ tombstones[id] = Row(p)

\* A good row is alone under its id.
OwnRow(p, id) == \A q \in Known : KeepsId(q) /\ files[q].id = id => q = p

\* The new tables have rows of the old ones, a good row under its id alone, and
\* versions of theirs.
TablesFit ==
    /\ \A id \in DOMAIN heads : \E p \in LivePaths : heads[id] = Row(p) /\ OwnRow(p, id)
    /\ \A id \in DOMAIN tombstones : \E p \in DeadPaths : tombstones[id] = Row(p) /\ OwnRow(p, id)
    /\ \A x, y \in DOMAIN heads : heads[x].path = heads[y].path => x = y
    /\ \A id, p : Placed(p, id) /\ p \in Known => Brought(p, id)
    /\ \A w \in versions : \E p \in Known, v \in history :
          /\ Placed(p, w.id) /\ First(p, w.id, v)
          /\ w.revision = v.revision /\ w.path = v.path

\* What the old tables say of a path, the new ones say under an id.
Moved(p, id) ==
    /\ ~files[p].deleted => id \in DOMAIN heads /\ heads[id] = Row(p)
    /\ files[p].deleted => id \in DOMAIN tombstones /\ tombstones[id] = Row(p)

\* What the plan need not do any more is done.
DoneIsMoved == plan # None => \A p \in Known \ todo : Moved(p, plan[p])

\* Blob names are untouched before there are rows of the new tables.
BlobsWait ==
    schema = "v5" => /\ disk = {Old(c) : c \in LegacyContents} /\ refs = disk
                     /\ command = NoCommand /\ ~complete

\* A command goes by names that rows have, and does not forget any.
CommandFits ==
    command # NoCommand =>
        /\ command.todo \subseteq refs
        /\ \A c \in Contents :
              /\ InPhase(c, "enqueued") \/ InPhase(c, "renamed")
                    => Old(c) \in refs \ command.todo /\ Unfinished(c)
              /\ InPhase(c, "renamed") \/ InPhase(c, "repointed") => New(c) \in disk
              /\ InPhase(c, "repointed") => Old(c) \notin refs
              /\ ~command.failed /\ Old(c) \in refs \ command.todo
                    => InPhase(c, "enqueued") \/ InPhase(c, "renamed")

\* An old name that is marked done is in no row.
DoneIsGone == \A c \in Contents : blobJournal[c] = "done" => Old(c) \notin refs

\* When the new tables take over, their rows are those of the old ones.
TakenOver ==
    schema # "v5" =>
        /\ {heads[id] : id \in DOMAIN heads} = {Row(p) : p \in LivePaths}
        /\ {tombstones[id] : id \in DOMAIN tombstones} = {Row(p) : p \in DeadPaths}

\* The kind of a row's entry.
KindOf(p) == IF files[p].deleted THEN "tombstone" ELSE "object"

\* What is there and marked failed is a good row that is to be gone over again.
RetriesFit ==
    \A e \in Entries : journal[e] = "failed" /\ HasMoved(e) =>
        /\ schema = "v5"
        /\ \E p \in Known :
              /\ KeepsId(p) /\ files[p].id = e[1] /\ KindOf(p) = e[2]
              /\ plan # None => p \in todo

SchemaInv == SchemaTypeOK /\ PlanFits /\ TablesFit /\ DoneIsMoved /\ TakenOver

BlobInv ==
    /\ BlobTypeOK /\ CommandFits /\ DoneIsGone /\ DanglingIsJournaled /\ SuccessIsComplete
    /\ restored \subseteq {New(c) : c \in Contents}

JournalInv == JournalTruthful /\ RetriesFit

IInv == SchemaInv /\ JournalInv /\ BlobInv /\ BlobsWait

-----------------------------------------------------------------------------
(***************************************************************************)
(* Blob names                                                              *)
(***************************************************************************)

\* A name tells its content and its scheme.
LEMMA NamesApart ==
    /\ \A c \in Contents : Old(c) \in BlobNames /\ New(c) \in BlobNames
    /\ \A c, d \in Contents : Old(c) # New(d)
    /\ \A c, d \in Contents : Old(c) = Old(d) \/ New(c) = New(d) => c = d
    /\ \A name \in BlobNames :
          name[1] \in Contents /\ (name = Old(name[1]) \/ name = New(name[1]))
BY DEF Old, New, BlobNames

\* Every step of a command or of the server leaves everything well-typed.
LEMMA BlobTypes == BlobTypeOK /\ [BlobNext]_blobVars => BlobTypeOK'
<1> SUFFICES ASSUME BlobTypeOK, [BlobNext]_blobVars PROVE BlobTypeOK'
  OBVIOUS
<1> USE NamesApart DEF BlobTypeOK, trails
<1>1. ASSUME NEW c \in Contents, Store(c) PROVE BlobTypeOK'
  BY <1>1 DEF Store
<1>2. ASSUME NEW c \in Contents, RestoreRow(c) PROVE BlobTypeOK'
  BY <1>2 DEF RestoreRow
<1>3. ASSUME NEW c \in Contents, SkipNew(c) PROVE BlobTypeOK'
  BY <1>3 DEF SkipNew, Between, Progress
<1>4. ASSUME NEW c \in Contents, EnqueueBlob(c) PROVE BlobTypeOK'
  <2>1. command' \in Progress
    BY <1>4 DEF EnqueueBlob, Between, Progress
  <2>2. blobJournal' \in [Contents -> {"none", "pending", "done", "failed"}]
    BY <1>4 DEF EnqueueBlob, Entered
  <2> QED BY <1>4, <2>1, <2>2 DEF EnqueueBlob
<1>5. ASSUME NEW c \in Contents, Rename(c) PROVE BlobTypeOK'
  BY <1>5 DEF Rename, InPhase, Progress
<1>6. ASSUME NEW c \in Contents, Fail(c), command # NoCommand
      PROVE  /\ command' \in Progress
             /\ blobJournal' \in [Contents -> {"none", "pending", "done", "failed"}]
  BY <1>6 DEF Fail, Progress
<1>7. ASSUME NEW c \in Contents, RenameFails(c) PROVE BlobTypeOK'
  BY <1>6, <1>7 DEF RenameFails, InPhase
<1>8. ASSUME NEW c \in Contents, Repoint(c) PROVE BlobTypeOK'
  BY <1>8 DEF Repoint, InPhase, Progress
<1>9. ASSUME NEW c \in Contents, RepointFails(c) PROVE BlobTypeOK'
  BY <1>6, <1>9 DEF RepointFails, InPhase
<1>10. ASSUME NEW c \in Contents, MarkDone(c) PROVE BlobTypeOK'
  BY <1>10 DEF MarkDone, InPhase, Progress
<1>11. ASSUME NEW name \in BlobNames PROVE Missed(name) \subseteq Contents
  BY DEF Missed
<1>12. ASSUME NEW name \in BlobNames, ForgetRows(name) PROVE BlobTypeOK'
  BY <1>11, <1>12 DEF ForgetRows
<1>13. ASSUME NEW name \in BlobNames, CollectFile(name) PROVE BlobTypeOK'
  BY <1>11, <1>13 DEF CollectFile
<1>14. CASE StartCommand
  BY <1>14 DEF StartCommand, Progress
<1>15. CASE EndCommand
  <2>1. command.failed \in BOOLEAN
    BY <1>15 DEF EndCommand, Between, Progress
  <2> QED BY <1>15, <2>1 DEF EndCommand
<1>16. CASE CommandDies
  <2>1. stops' \in 0..MaxStops
    BY <1>16 DEF CommandDies
  <2> QED BY <1>16, <2>1 DEF CommandDies
<1>17. CASE UNCHANGED blobVars
  BY <1>17 DEF blobVars
<1> QED
  BY <1>1, <1>2, <1>3, <1>4, <1>5, <1>7, <1>8, <1>9, <1>10, <1>12, <1>13, <1>14, <1>15, <1>16,
     <1>17 DEF BlobNext, RenameBlob

\* A command goes on with another blob, its report marked or not.
LEMMA FailTurns ==
    ASSUME BlobTypeOK, NEW c \in Contents, Fail(c), command # NoCommand
    PROVE  /\ command' = [command EXCEPT !.blob = Nothing, !.phase = "ready", !.failed = TRUE]
           /\ command'.todo = command.todo /\ command'.failed /\ command'.blob = Nothing
           /\ blobJournal'[c] = "failed"
           /\ \A d \in Contents \ {c} : blobJournal'[d] = blobJournal[d]
BY DEF Fail, BlobTypeOK, Progress

\* The entry of a content is unfinished, or it was done already.
LEMMA EntryMade ==
    ASSUME BlobTypeOK, NEW c \in Contents, EnqueueBlob(c)
    PROVE  /\ blobJournal[c] = "done" \/ Unfinished(c)'
           /\ \A d \in Contents \ {c} : blobJournal'[d] = blobJournal[d]
           /\ blobJournal'[c] = "done" => blobJournal[c] = "done"
           /\ Unfinished(c) => Unfinished(c)'
BY DEF EnqueueBlob, Entered, BlobTypeOK, Unfinished

\* A command takes the names it works on from rows.
LEMMA CommandStep ==
    ASSUME BlobInv, [BlobNext]_blobVars
    PROVE  CommandFits' /\ DoneIsGone'
<1> USE NamesApart DEF BlobInv, trails
<1>1. CASE UNCHANGED command /\ command = NoCommand /\ UNCHANGED blobJournal /\
           \A c \in Contents : Old(c) \in refs' => Old(c) \in refs
  BY <1>1 DEF CommandFits, DoneIsGone
<1>2. ASSUME NEW c \in Contents, Store(c) PROVE CommandFits' /\ DoneIsGone'
  BY <1>1, <1>2 DEF Store
<1>3. ASSUME NEW c \in Contents, RestoreRow(c) PROVE CommandFits' /\ DoneIsGone'
  BY <1>1, <1>3 DEF RestoreRow
<1>4. ASSUME NEW name \in BlobNames, ForgetRows(name) PROVE CommandFits' /\ DoneIsGone'
  BY <1>1, <1>4 DEF ForgetRows
<1>5. ASSUME NEW name \in BlobNames, CollectFile(name) PROVE CommandFits' /\ DoneIsGone'
  BY <1>1, <1>5 DEF CollectFile
<1>6. CASE StartCommand
  <2>1. command' = [todo |-> refs, blob |-> Nothing, phase |-> "ready", failed |-> FALSE] /\
          UNCHANGED <<refs, disk, blobJournal>>
    BY <1>6 DEF StartCommand
  <2>2. DoneIsGone'
    BY <2>1 DEF DoneIsGone
  <2>3. \A c \in Contents : command'.blob # c
    BY <2>1
  <2> QED BY <2>1, <2>2, <2>3 DEF CommandFits, InPhase
<1>7. ASSUME NEW c \in Contents, SkipNew(c) PROVE CommandFits' /\ DoneIsGone'
  <2>1. command' = [command EXCEPT !.todo = command.todo \ {New(c)}] /\
          UNCHANGED <<refs, disk, blobJournal>> /\ command # NoCommand /\ command.blob = Nothing
    BY <1>7 DEF SkipNew, Between
  <2>2. command \in Progress
    BY <2>1 DEF BlobTypeOK
  <2>3. command'.todo = command.todo \ {New(c)} /\ command'.blob = Nothing /\
          command'.failed = command.failed
    BY <2>1, <2>2 DEF Progress
  <2>4. \A d \in Contents : ~InPhase(d, "enqueued")' /\ ~InPhase(d, "renamed")' /\
          ~InPhase(d, "repointed")'
    BY <2>3 DEF InPhase
  <2>5. \A d \in Contents : ~InPhase(d, "enqueued") /\ ~InPhase(d, "renamed")
    BY <2>1 DEF InPhase
  <2> QED BY <2>1, <2>3, <2>4, <2>5 DEF CommandFits, DoneIsGone
<1>8. ASSUME NEW c \in Contents, EnqueueBlob(c) PROVE CommandFits' /\ DoneIsGone'
  <2>1. /\ command' = [command EXCEPT !.todo = command.todo \ {Old(c)},
                                         !.blob = c, !.phase = "enqueued"]
        /\ UNCHANGED <<refs, disk>>
        /\ command # NoCommand /\ command.blob = Nothing /\ Old(c) \in command.todo
    BY <1>8 DEF EnqueueBlob, Between
  <2>2. command \in Progress
    BY <2>1 DEF BlobTypeOK
  <2>3. command'.todo = command.todo \ {Old(c)} /\ command'.blob = c /\
          command'.phase = "enqueued" /\ command'.failed = command.failed
    BY <2>1, <2>2 DEF Progress
  <2>4. \A d \in Contents : (InPhase(d, "enqueued")' => d = c) /\ ~InPhase(d, "renamed")' /\
          ~InPhase(d, "repointed")'
    BY <2>3 DEF InPhase
  <2>5. \A d \in Contents : ~InPhase(d, "enqueued") /\ ~InPhase(d, "renamed")
    BY <2>1 DEF InPhase
  <2>6. Old(c) \in refs /\ blobJournal[c] # "done"
    BY <2>1 DEF CommandFits, DoneIsGone
  <2>7. DoneIsGone'
    BY <1>8, <2>1, EntryMade DEF DoneIsGone
  <2>8. Unfinished(c)'
    BY <1>8, <2>6, EntryMade
  <2>9. command' # NoCommand => InPhase(c, "enqueued")'
    BY <2>3 DEF InPhase
  <2>10. command'.todo \subseteq refs'
    BY <2>1, <2>3 DEF CommandFits
  <2>11. ASSUME NEW d \in Contents, command' # NoCommand, ~command'.failed,
                Old(d) \in refs' \ command'.todo
         PROVE  d = c
    BY <2>1, <2>3, <2>5, <2>11 DEF CommandFits
  <2> QED BY <2>1, <2>3, <2>4, <2>6, <2>7, <2>8, <2>9, <2>10, <2>11 DEF CommandFits
<1>9. ASSUME NEW c \in Contents, Rename(c) PROVE CommandFits' /\ DoneIsGone'
  <2>1. /\ command' = [command EXCEPT !.phase = "renamed"] /\ InPhase(c, "enqueued")
        /\ UNCHANGED <<refs, blobJournal>> /\ New(c) \in disk'
    BY <1>9 DEF Rename
  <2>2. command \in Progress
    BY <2>1 DEF BlobTypeOK, InPhase
  <2>3. command'.todo = command.todo /\ command'.blob = c /\ command'.phase = "renamed" /\
          command'.failed = command.failed
    BY <2>1, <2>2 DEF Progress, InPhase
  <2>4. \A d \in Contents : (InPhase(d, "renamed")' => d = c) /\ ~InPhase(d, "enqueued")' /\
          ~InPhase(d, "repointed")'
    BY <2>3 DEF InPhase
  <2>5. \A d \in Contents : (InPhase(d, "enqueued") \/ InPhase(d, "renamed")) => d = c
    BY <2>1 DEF InPhase
  <2>6. Unfinished(c) /\ Unfinished(c)'
    BY <2>1 DEF CommandFits, Unfinished, InPhase
  <2>7. command' # NoCommand => InPhase(c, "renamed")'
    BY <2>3 DEF InPhase
  <2> QED BY <2>1, <2>3, <2>4, <2>5, <2>6, <2>7 DEF CommandFits, DoneIsGone, InPhase
<1>10. ASSUME NEW c \in Contents, Fail(c), command # NoCommand,
              UNCHANGED refs PROVE CommandFits' /\ DoneIsGone'
  <2>1. \A d \in Contents : ~InPhase(d, "enqueued")' /\ ~InPhase(d, "renamed")' /\
          ~InPhase(d, "repointed")'
    BY <1>10, FailTurns DEF InPhase
  <2> QED BY <1>10, <2>1, FailTurns DEF CommandFits, DoneIsGone
<1>11. ASSUME NEW c \in Contents, RenameFails(c) PROVE CommandFits' /\ DoneIsGone'
  BY <1>10, <1>11 DEF RenameFails, InPhase
<1>12. ASSUME NEW c \in Contents, RepointFails(c) PROVE CommandFits' /\ DoneIsGone'
  BY <1>10, <1>12 DEF RepointFails, InPhase
<1>13. ASSUME NEW c \in Contents, Repoint(c) PROVE CommandFits' /\ DoneIsGone'
  <2>1. /\ command' = [command EXCEPT !.phase = "repointed"] /\ InPhase(c, "renamed")
        /\ UNCHANGED <<disk, blobJournal>>
        /\ refs' = (refs \ {Old(c)}) \cup {New(c)}
    BY <1>13 DEF Repoint, CommandFits, InPhase
  <2>2. command \in Progress /\ command # NoCommand
    BY <2>1 DEF BlobTypeOK, InPhase
  <2>3. command'.todo = command.todo /\ command'.blob = c /\ command'.phase = "repointed" /\
          command'.failed = command.failed
    BY <2>1, <2>2 DEF Progress, InPhase
  <2>4. \A d \in Contents : (InPhase(d, "repointed")' => d = c) /\ ~InPhase(d, "enqueued")' /\
          ~InPhase(d, "renamed")'
    BY <2>3 DEF InPhase
  <2>5. \A d \in Contents : (InPhase(d, "enqueued") \/ InPhase(d, "renamed")) => d = c
    BY <2>1 DEF InPhase
  <2>6. Old(c) \notin command.todo /\ New(c) \in disk /\ command.todo \subseteq refs
    BY <2>1, <2>2 DEF CommandFits
  <2>7. DoneIsGone'
    BY <2>1 DEF DoneIsGone
  <2>8. command'.todo \subseteq refs'
    BY <2>1, <2>3, <2>6
  <2>9. \A d \in Contents : Old(d) \in refs' => d # c /\ Old(d) \in refs
    BY <2>1
  <2>10. ASSUME NEW d \in Contents, ~command'.failed, Old(d) \in refs' \ command'.todo PROVE FALSE
    BY <2>2, <2>3, <2>5, <2>9, <2>10 DEF CommandFits
  <2>11. New(c) \in disk' /\ Old(c) \notin refs'
    BY <2>1, <2>6
  <2> QED BY <2>4, <2>7, <2>8, <2>10, <2>11 DEF CommandFits
<1>14. ASSUME NEW c \in Contents, MarkDone(c) PROVE CommandFits' /\ DoneIsGone'
  <2>1. /\ command' = [command EXCEPT !.blob = Nothing, !.phase = "ready"] /\ InPhase(c,
             "repointed")
        /\ UNCHANGED <<refs, disk>> /\ blobJournal' = [blobJournal EXCEPT ![c] = "done"]
    BY <1>14 DEF MarkDone
  <2>2. command \in Progress /\ command # NoCommand
    BY <2>1 DEF BlobTypeOK, InPhase
  <2>3. command'.todo = command.todo /\ command'.blob = Nothing /\
          command'.failed = command.failed
    BY <2>1, <2>2 DEF Progress, InPhase
  <2>4. \A d \in Contents : ~InPhase(d, "enqueued")' /\ ~InPhase(d, "renamed")' /\
          ~InPhase(d, "repointed")'
    BY <2>3 DEF InPhase
  <2>5. \A d \in Contents : ~InPhase(d, "enqueued") /\ ~InPhase(d, "renamed")
    BY <2>1 DEF InPhase
  <2>6. Old(c) \notin refs
    BY <2>1, <2>2 DEF CommandFits
  <2>7. DoneIsGone'
    BY <2>1, <2>6 DEF DoneIsGone, BlobTypeOK
  <2> QED BY <2>1, <2>2, <2>3, <2>4, <2>5, <2>7 DEF CommandFits
<1>15. CASE EndCommand
  BY <1>15 DEF EndCommand, CommandFits, DoneIsGone
<1>16. CASE CommandDies
  BY <1>16 DEF CommandDies, CommandFits, DoneIsGone
<1>17. CASE UNCHANGED blobVars
  BY <1>17 DEF blobVars, CommandFits, DoneIsGone, InPhase, Unfinished
<1> QED
  BY <1>2, <1>3, <1>4, <1>5, <1>6, <1>7, <1>8, <1>9, <1>11, <1>12, <1>13, <1>14, <1>15, <1>16,
     <1>17 DEF BlobNext, RenameBlob

\* What is dangling after a step is accounted for, content by content.
LEMMA BlobStep ==
    ASSUME BlobInv, [BlobNext]_blobVars
    PROVE  /\ DanglingIsJournaled' /\ SuccessIsComplete'
           /\ restored' \subseteq {New(c) : c \in Contents}
<1> USE NamesApart DEF BlobInv, trails
<1> DEFINE Others(c) == \A d \in Contents \ {c} :
               /\ Old(d) \in refs' <=> Old(d) \in refs
               /\ New(d) \in refs' <=> New(d) \in refs
               /\ Old(d) \in disk' <=> Old(d) \in disk
               /\ New(d) \in disk' <=> New(d) \in disk
               /\ blobJournal'[d] = blobJournal[d]
           Accounted(c) == (Dangling \ restored) \cap {Old(c), New(c)} # {} =>
               /\ Unfinished(c)
               /\ c \in collected \/ Old(c) \in disk \/ New(c) \in disk
<1>1. DanglingIsJournaled <=> \A c \in Contents : Accounted(c)
  BY DEF DanglingIsJournaled
<1>2. DanglingIsJournaled' <=> \A c \in Contents : Accounted(c)'
  BY DEF DanglingIsJournaled
<1>3. ASSUME NEW c \in Contents, Others(c), Accounted(c)', restored \subseteq restored',
             collected \subseteq collected'
      PROVE  DanglingIsJournaled'
  <2>1. \A d \in Contents \ {c} : Accounted(d)'
    BY <1>1, <1>3 DEF Dangling, Unfinished
  <2> QED BY <1>2, <1>3, <2>1
<1> HIDE DEF Others, Accounted
<1>4. ASSUME NEW c \in Contents, Store(c)
      PROVE  DanglingIsJournaled' /\ SuccessIsComplete' /\ UNCHANGED restored
  <2>1. Others(c)
    BY <1>4 DEF Store, Others
  <2>2. Accounted(c)'
    BY <1>1, <1>4 DEF Store, Accounted, Dangling, Unfinished
  <2> QED BY <1>3, <1>4, <2>1, <2>2 DEF Store, SuccessIsComplete
<1>5. ASSUME NEW c \in Contents, RestoreRow(c)
      PROVE  /\ DanglingIsJournaled' /\ SuccessIsComplete'
             /\ restored' \subseteq restored \cup {New(c)}
  <2>1. Others(c)
    BY <1>5 DEF RestoreRow, Others
  <2>2. Accounted(c)'
    BY <1>1, <1>5 DEF RestoreRow, Accounted, Dangling, Unfinished
  <2> QED BY <1>3, <1>5, <2>1, <2>2 DEF RestoreRow, SuccessIsComplete
<1>6. ASSUME NEW name \in BlobNames, command = NoCommand,
             UNCHANGED <<blobJournal, restored, complete>>,
             \/ disk' = disk \ {name} /\ collected' = collected \cup Missed(name)
             \/ UNCHANGED <<disk, collected>>,
             refs' \in {refs, refs \ {name}}, disk' # disk => name \notin refs'
      PROVE  DanglingIsJournaled' /\ SuccessIsComplete'
  <2>1. PICK c \in Contents : c = name[1] /\ name \in {Old(c), New(c)}
    OBVIOUS
  <2>2. Others(c)
    BY <1>6, <2>1 DEF Others
  <2>3. collected \subseteq collected'
    BY <1>6
  <2>4. Accounted(c)'
    <3>1. CASE UNCHANGED disk
      BY <1>1, <1>6, <2>1, <2>3, <3>1 DEF Accounted, Dangling, Unfinished
    <3>2. CASE disk' = disk \ {name} /\ collected' = collected \cup Missed(name) /\
               name \notin refs'
      <4>1. refs' \cap {Old(c), New(c)} # {} => c \in collected'
        BY <2>1, <3>2 DEF Missed
      <4> QED BY <1>1, <1>6, <2>1, <3>2, <4>1 DEF Accounted, Dangling, Unfinished
    <3> QED BY <1>6, <3>1, <3>2
  <2> QED BY <1>3, <1>6, <2>2, <2>3, <2>4 DEF SuccessIsComplete
<1>7. ASSUME NEW name \in BlobNames, ForgetRows(name)
      PROVE  DanglingIsJournaled' /\ SuccessIsComplete' /\ UNCHANGED restored
  BY <1>6, <1>7 DEF ForgetRows
<1>8. ASSUME NEW name \in BlobNames, CollectFile(name)
      PROVE  DanglingIsJournaled' /\ SuccessIsComplete' /\ UNCHANGED restored
  BY <1>6, <1>8 DEF CollectFile
<1>9. ASSUME UNCHANGED <<refs, disk, blobJournal, collected, restored>>
      PROVE  DanglingIsJournaled'
  BY <1>9 DEF DanglingIsJournaled, Dangling, Unfinished
<1>10. ASSUME NEW c \in Contents, SkipNew(c)
       PROVE  DanglingIsJournaled' /\ SuccessIsComplete' /\ UNCHANGED restored
  BY <1>9, <1>10 DEF SkipNew, SuccessIsComplete
<1>11. ASSUME NEW c \in Contents, EnqueueBlob(c)
       PROVE  DanglingIsJournaled' /\ SuccessIsComplete' /\ UNCHANGED restored
  <2>1. Others(c)
    BY <1>11, EntryMade DEF EnqueueBlob, Others
  <2>2. Accounted(c)'
    BY <1>1, <1>11, EntryMade DEF EnqueueBlob, Accounted, Dangling
  <2> QED BY <1>3, <1>11, <2>1, <2>2 DEF EnqueueBlob, SuccessIsComplete
<1>12. ASSUME NEW c \in Contents, Rename(c)
       PROVE  DanglingIsJournaled' /\ SuccessIsComplete' /\ UNCHANGED restored
  <2>1. Others(c)
    BY <1>12 DEF Rename, Others
  <2>2. Unfinished(c)'
    BY <1>12 DEF Rename, CommandFits, InPhase, Unfinished
  <2>3. New(c) \in disk'
    BY <1>12 DEF Rename
  <2>4. Accounted(c)'
    BY <2>2, <2>3 DEF Accounted
  <2> QED BY <1>3, <1>12, <2>1, <2>4 DEF Rename, SuccessIsComplete
<1>13. ASSUME NEW c \in Contents, RenameFails(c)
       PROVE  DanglingIsJournaled' /\ SuccessIsComplete' /\ UNCHANGED restored
  <2>1. blobJournal'[c] = "failed" /\ Others(c)
    BY <1>13, FailTurns DEF RenameFails, InPhase, Others
  <2>2. Accounted(c)'
    BY <1>1, <1>13, <2>1 DEF RenameFails, Accounted, Dangling, Unfinished
  <2> QED BY <1>3, <1>13, <2>1, <2>2 DEF RenameFails, SuccessIsComplete
<1>14. ASSUME NEW c \in Contents, Repoint(c)
       PROVE  DanglingIsJournaled' /\ SuccessIsComplete' /\ UNCHANGED restored
  <2>1. Others(c)
    BY <1>14 DEF Repoint, Others
  <2>2. Old(c) \notin refs' /\ New(c) \in disk'
    BY <1>14 DEF Repoint, CommandFits, InPhase
  <2>3. Accounted(c)'
    BY <2>2 DEF Accounted, Dangling
  <2>4. SuccessIsComplete'
    BY <1>14 DEF Repoint, SuccessIsComplete
  <2> QED BY <1>3, <1>14, <2>1, <2>3, <2>4 DEF Repoint
<1>15. ASSUME NEW c \in Contents, RepointFails(c)
       PROVE  DanglingIsJournaled' /\ SuccessIsComplete' /\ UNCHANGED restored
  <2>1. blobJournal'[c] = "failed" /\ Others(c)
    BY <1>15, FailTurns DEF RepointFails, InPhase, Others
  <2>2. Old(c) \in disk'
    BY <1>15 DEF RepointFails
  <2>3. Accounted(c)'
    BY <2>1, <2>2 DEF Accounted, Unfinished
  <2> QED BY <1>3, <1>15, <2>1, <2>3 DEF RepointFails, SuccessIsComplete
<1>16. ASSUME NEW c \in Contents, MarkDone(c)
       PROVE  DanglingIsJournaled' /\ SuccessIsComplete' /\ UNCHANGED restored
  <2>1. Others(c)
    BY <1>16 DEF MarkDone, Others, BlobTypeOK
  <2>2. Old(c) \notin refs' /\ New(c) \in disk'
    BY <1>16 DEF MarkDone, CommandFits, InPhase
  <2>3. Accounted(c)'
    BY <2>2 DEF Accounted, Dangling
  <2> QED BY <1>3, <1>16, <2>1, <2>3 DEF MarkDone, SuccessIsComplete
<1>17. CASE StartCommand
  BY <1>9, <1>17 DEF StartCommand, SuccessIsComplete
<1>18. CASE EndCommand
  <2>1. complete' => \A c \in Contents : Old(c) \notin refs
    BY <1>18 DEF EndCommand, Between, CommandFits, InPhase
  <2> QED BY <1>9, <1>18, <2>1 DEF EndCommand, SuccessIsComplete
<1>19. CASE CommandDies
  BY <1>9, <1>19 DEF CommandDies, SuccessIsComplete
<1>20. CASE UNCHANGED blobVars
  BY <1>9, <1>20 DEF blobVars, SuccessIsComplete
<1> QED
  BY <1>4, <1>5, <1>7, <1>8, <1>10, <1>11, <1>12, <1>13, <1>14, <1>15, <1>16, <1>17, <1>18,
     <1>19, <1>20 DEF BlobNext, RenameBlob

\* Every step of a command or of the server keeps what is known of blobs.
LEMMA BlobNextKeepsInv == BlobInv /\ [BlobNext]_blobVars => BlobInv'
BY BlobTypes, CommandStep, BlobStep DEF BlobInv

-----------------------------------------------------------------------------
(***************************************************************************)
(* The new tables                                                          *)
(***************************************************************************)

\* Every set of natural numbers has a least member.
LEMMA LeastNat ==
    ASSUME NEW T \in SUBSET Nat, T # {}
    PROVE  \E x \in T : \A y \in T : x <= y
<1> DEFINE R == OpToRel(<, Nat)
<1>1. IsWellFoundedOn(R, Nat)
  BY NatLessThanWellFounded
<1> HIDE DEF R
<1>2. \A x, y \in Nat : x < y => <<x, y>> \in R
  BY DEF R, OpToRel
<1>3. PICK x \in T : \A y \in T : ~(<<y, x>> \in R)
  BY <1>1, WFMin
<1>4. \A y \in T : ~(y < x)
  BY <1>2, <1>3
<1>5. \A y \in T : x <= y
  BY <1>4
<1> QED BY <1>5

\* Of two rows that keep their ids neither has the other's.
LEMMA KeptApart ==
    ASSUME SchemaTypeOK, NEW p \in Known, NEW q \in Known,
           KeepsId(p), KeepsId(q), files[p].id = files[q].id
    PROVE  p = q
<1>1. p \in Int /\ q \in Int
  BY DEF SchemaTypeOK, Paths
<1>2. p # q => p \in Before(q) \/ q \in Before(p)
  BY <1>1 DEF Before, LivePaths, DeadPaths
<1> QED BY <1>2 DEF KeepsId

\* What a plan says.
LEMMA PlanSays ==
    ASSUME SchemaTypeOK, NEW ids \in Plans
    PROVE  /\ DOMAIN ids = Known /\ ids \in [Known -> FileIds]
           /\ \A p \in Known :
                 IF KeepsId(p) THEN ids[p] = files[p].id
                 ELSE /\ \A q \in Known : ids[p] # files[q].id
                      /\ ids[p] \notin DOMAIN heads \cup DOMAIN tombstones
           /\ \A p, q \in Known : ids[p] = ids[q] => p = q
<1>1. LivePaths \cup PlannedRecords = Known
  BY DEF LivePaths, PlannedRecords, DeadPaths
<1> QED BY <1>1 DEF Plans, Fresh

\* The row that is under a planned id already is the row planned for it.
LEMMA PlacedBefore ==
    ASSUME SchemaInv, plan # None, NEW p \in todo, NEW q \in Known, Placed(q, plan[p])
    PROVE  p = q
<1> USE DEF SchemaInv
<1>1. p \in Known /\ plan[p] \in DOMAIN heads \cup DOMAIN tombstones
  BY DEF Placed, PlanFits, SchemaTypeOK
<1>2. KeepsId(p) /\ plan[p] = files[p].id
  BY <1>1 DEF PlanFits
<1>3. PICK r \in Known : OwnRow(r, plan[p]) /\ Row(r) = Row(q)
  BY DEF Placed, TablesFit, LivePaths, DeadPaths
<1>4. r = q
  BY <1>3 DEF Row
<1> QED BY <1>1, <1>2, <1>3, <1>4 DEF OwnRow

\* A plan attributes versions as rows own them.
LEMMA OwnedAsPlanned ==
    ASSUME SchemaInv, plan # None, NEW p \in Known, NEW v \in history
    PROVE  OwnerOf(v, plan) = plan[p] <=> Owns(p, plan[p], v)
<1>1. DOMAIN plan = Known /\ plan[p] \in FileIds /\ \A q \in Known : plan[q] = plan[p] => q = p
  BY DEF SchemaInv, PlanFits, SchemaTypeOK
<1> QED BY <1>1 DEF OwnerOf, Owns

\* An object that moves has all its versions then.
LEMMA VersionsCome ==
    ASSUME SchemaInv, plan # None, NEW p \in todo,
           UNCHANGED <<history, plan>>, versions' = WithVersions(plan[p])
    PROVE  Brought(p, plan[p])'
<1> USE DEF SchemaInv
<1>1. p \in Known /\ plan[p] \in FileIds
  BY DEF SchemaTypeOK
<1>2. SUFFICES ASSUME NEW v \in history, Owns(p, plan[p], v)
               PROVE  \E u \in history :
                         /\ First(p, plan[p], u) /\ u.revision = v.revision
                         /\ [id |-> plan[p], revision |-> u.revision, path |-> u.path]
                               \in WithVersions(plan[p])
  BY DEF Brought, First, Owns
<1> DEFINE rivals == {w \in history : Owns(p, plan[p], w) /\ w.revision = v.revision}
           taken == {w.path : w \in rivals}
<1>3. taken \in SUBSET Nat /\ taken # {} /\ \A w \in rivals : w.path \in taken
  BY <1>2 DEF SchemaTypeOK, LegacyVersion, Paths
<1>4. \E x \in taken : \A y \in taken : x <= y
  <2> HIDE DEF taken
  <2> QED BY <1>3, LeastNat
<1>5. PICK u \in rivals : \A w \in rivals : u.path <= w.path
  BY <1>3, <1>4
<1>6. First(p, plan[p], u) /\ u.revision = v.revision /\ u \in history
  BY <1>5 DEF First
<1> DEFINE new == [id |-> plan[p], revision |-> u.revision, path |-> u.path]
<1>7. new \in PlannedVersions(plan[p], plan)
  BY <1>1, <1>6, OwnedAsPlanned DEF PlannedVersions, First
<1>8. CASE \A w \in versions : w.id = new.id => w.revision # new.revision
  BY <1>6, <1>7, <1>8 DEF WithVersions
<1>9. CASE \E w \in versions : w.id = new.id /\ w.revision = new.revision
  <2>1. PICK w \in versions : w.id = plan[p] /\ w.revision = v.revision
    BY <1>6, <1>9
  <2>2. PICK q \in Known, x \in history :
           /\ Placed(q, plan[p]) /\ First(q, plan[p], x)
           /\ w.revision = x.revision /\ w.path = x.path
    BY <2>1 DEF TablesFit
  <2>3. q = p
    BY <2>2, PlacedBefore
  <2>4. w = [id |-> plan[p], revision |-> x.revision, path |-> x.path]
    BY <2>1, <2>2 DEF SchemaTypeOK, Version
  <2> QED BY <2>1, <2>2, <2>3, <2>4 DEF WithVersions
<1> QED BY <1>8, <1>9

\* Versions are of objects, and of paths that had some.
LEMMA VersionsTyped ==
    ASSUME SchemaTypeOK, NEW id \in FileIds
    PROVE  /\ versions \subseteq WithVersions(id)
           /\ WithVersions(id) \subseteq Version
           /\ \A w \in WithVersions(id) \ versions : \E v \in history : w.path = v.path
<1>1. ASSUME NEW w \in PlannedVersions(id, plan)
      PROVE  w \in Version /\ \E v \in history : w.path = v.path
  <2>1. PICK v \in history : w = [id |-> id, revision |-> v.revision, path |-> v.path]
    BY DEF PlannedVersions
  <2>2. v.revision \in Revisions /\ v.path \in Paths
    BY DEF SchemaTypeOK, LegacyVersion
  <2> QED BY <2>1, <2>2 DEF Version
<1> QED BY <1>1 DEF WithVersions, SchemaTypeOK

\* New versions are those that come first.
LEMMA NewVersions ==
    ASSUME SchemaInv, plan # None, NEW p \in Known, NEW w \in WithVersions(plan[p]) \ versions
    PROVE  /\ w.id = plan[p]
           /\ \E v \in history :
                 /\ First(p, plan[p], v)
                 /\ w.revision = v.revision /\ w.path = v.path
<1>1. w \in PlannedVersions(plan[p], plan)
  BY DEF WithVersions
<1>2. PICK v \in history :
         /\ w = [id |-> plan[p], revision |-> v.revision, path |-> v.path]
         /\ OwnerOf(v, plan) = plan[p]
         /\ \A u \in history : OwnerOf(u, plan) = plan[p] /\ u.revision = v.revision
               => v.path <= u.path
  BY <1>1 DEF PlannedVersions
<1> QED BY <1>2, OwnedAsPlanned DEF First

\* The old tables are read only.
LEMMA LegacyStays ==
    ASSUME UNCHANGED legacyVars
    PROVE  /\ Known' = Known /\ LivePaths' = LivePaths /\ DeadPaths' = DeadPaths
           /\ files' = files /\ history' = history
           /\ \A p : KeepsId(p)' <=> KeepsId(p)
           /\ \A p : Row(p)' = Row(p)
           /\ \A p, id : OwnRow(p, id)' <=> OwnRow(p, id)
           /\ \A p, id, v : First(p, id, v)' <=> First(p, id, v)
BY DEF legacyVars, Known, LivePaths, DeadPaths, KeepsId, Before, Row, OwnRow, First, Owns

\* What was moved stays where it is.
LEMMA MovedStays ==
    ASSUME UNCHANGED legacyVars, NEW p, NEW id, Moved(p, id),
           id \in DOMAIN heads => id \in DOMAIN heads' /\ heads'[id] = heads[id],
           id \in DOMAIN tombstones
               => id \in DOMAIN tombstones' /\ tombstones'[id] = tombstones[id]
    PROVE  Moved(p, id)'
<1>1. files' = files /\ Row(p)' = Row(p)
  BY LegacyStays
<1> QED BY <1>1 DEF Moved

\* A row has its place in the new tables.
LEMMA RowTyped ==
    ASSUME SchemaTypeOK, NEW p \in Known
    PROVE  Row(p) \in ObjectRow /\ Row(p).path = p
BY DEF SchemaTypeOK, LegacyRow, Row, ObjectRow

\* What is in the new tables has its versions.
LEMMA AllBrought ==
    ASSUME SchemaTypeOK, TablesFit, NEW v \in history,
           NEW id \in DOMAIN heads \cup DOMAIN tombstones, BelongsTo(v, id)
    PROVE  \E u \in history :
              /\ BelongsTo(u, id) /\ u.revision = v.revision /\ u.path <= v.path
              /\ [id |-> id, revision |-> u.revision, path |-> u.path] \in versions
<1>1. \E p \in Known : Placed(p, id) /\ Owns(p, id, v)
  <2>1. \E p \in Known : Placed(p, id)
    BY DEF TablesFit, Placed, LivePaths, DeadPaths
  <2>2. ASSUME v.id \notin FileIds, id \in DOMAIN heads, heads[id].path = v.path
        PROVE  v.path \in Known /\ Placed(v.path, id)
    BY <2>2, RowTyped DEF TablesFit, Placed, LivePaths
  <2>3. ASSUME v.id \notin FileIds, id \in DOMAIN tombstones, tombstones[id].path = v.path
        PROVE  v.path \in Known /\ Placed(v.path, id)
    BY <2>3, RowTyped DEF TablesFit, Placed, DeadPaths
  <2> QED BY <2>1, <2>2, <2>3 DEF BelongsTo, Owns
<1>2. PICK p \in Known : Placed(p, id) /\ Owns(p, id, v)
  BY <1>1
<1>3. PICK u \in history :
         /\ First(p, id, u) /\ u.revision = v.revision
         /\ [id |-> id, revision |-> u.revision, path |-> u.path] \in versions
  BY <1>2 DEF TablesFit, Brought
<1>4. u.path <= v.path /\ Owns(p, id, u)
  BY <1>2, <1>3 DEF First
<1>5. BelongsTo(u, id)
  BY <1>2, <1>4, RowTyped DEF BelongsTo, Owns, Placed
<1> QED BY <1>3, <1>4, <1>5

\* Entries of the journal.
LEMMA EntriesTyped ==
    ASSUME SchemaTypeOK, plan # None, NEW p \in DOMAIN plan
    PROVE  EntryOf(p) \in Entries /\ p \in Known /\ plan[p] \in FileIds
BY DEF SchemaTypeOK, EntryOf, Entries

\* Entering leaves the journal a journal, and what is entered as it is.
LEMMA EnqueuedTyped ==
    ASSUME SchemaTypeOK, NEW ids, NEW paths
    PROVE  /\ Enqueued(ids, paths) \in [Entries -> {"none", "pending", "done", "failed"}]
           /\ \A e \in Entries :
                 IF journal[e] = "none" THEN Enqueued(ids, paths)[e] \in {"none", "pending"}
                 ELSE Enqueued(ids, paths)[e] = journal[e]
BY DEF SchemaTypeOK, Enqueued, InitialStage

\* Every step of the migration leaves everything well-typed.
LEMMA SchemaTypes == SchemaTypeOK /\ [SchemaNext]_schemaVars => SchemaTypeOK'
<1> SUFFICES ASSUME SchemaTypeOK, [SchemaNext]_schemaVars PROVE SchemaTypeOK'
  OBVIOUS
<1>1. UNCHANGED legacyVars /\ Known' = Known /\ files' = files /\ history' = history
  BY LegacyStays DEF SchemaNext, Migrate, StartUp, StartUpCut, MigrateObject, ObjectRefused,
        RowFails, GiveUp, MigrateTombstone, CompleteMigration, FinalizeMigration, Crash, legacyVars, schemaVars
<1>2. CASE StartUp
  <2>1. plan' \in Plans /\ todo' = DOMAIN plan' /\ journal' = Enqueued(plan', DOMAIN plan')
    BY <1>2 DEF StartUp
  <2>2. DOMAIN plan' = Known /\ plan' \in [Known -> FileIds]
    BY <2>1, PlanSays
  <2>3. plan' # None
    BY <2>2 DEF SchemaTypeOK
  <2>4. journal' \in [Entries -> {"none", "pending", "done", "failed"}]
    BY <2>1, EnqueuedTyped
  <2> QED BY <1>1, <1>2, <2>1, <2>2, <2>3, <2>4 DEF StartUp, SchemaTypeOK, objectVars
<1>3. CASE StartUpCut
  <2>1. journal' \in [Entries -> {"none", "pending", "done", "failed"}]
    BY <1>3, EnqueuedTyped DEF StartUpCut
  <2>2. mishaps' \in 0..MaxMishaps
    BY <1>3 DEF StartUpCut, SchemaTypeOK
  <2> QED BY <1>1, <1>3, <2>1, <2>2 DEF StartUpCut, SchemaTypeOK, objectVars
<1>4. ASSUME NEW p \in Paths, MigrateObject(p) PROVE SchemaTypeOK'
  <2>1. plan[p] \in FileIds /\ p \in Known
    BY <1>4, EntriesTyped DEF MigrateObject, SchemaTypeOK
  <2>2. heads' = Put(heads, plan[p], Row(p))
    BY <1>4 DEF MigrateObject, Row
  <2>3. DOMAIN heads' \subseteq FileIds /\ heads' \in [DOMAIN heads' -> ObjectRow]
    BY <2>1, <2>2, RowTyped DEF SchemaTypeOK, Put
  <2>4. versions' \subseteq Version
    BY <1>4, <2>1, VersionsTyped DEF MigrateObject
  <2> QED BY <1>1, <1>4, <2>3, <2>4 DEF MigrateObject, SchemaTypeOK
<1>5. ASSUME NEW p \in Paths, plan # None, p \in todo, GiveUp(p), mishaps' \in 0..MaxMishaps
      PROVE  SchemaTypeOK'
  <2>1. journal' \in [Entries -> {"none", "pending", "done", "failed"}]
    BY <1>5 DEF GiveUp, SchemaTypeOK
  <2> QED BY <1>1, <1>5, <2>1 DEF GiveUp, SchemaTypeOK, objectVars
<1>11. ASSUME NEW p \in Paths, ObjectRefused(p) PROVE SchemaTypeOK'
  BY <1>5, <1>11 DEF ObjectRefused, SchemaTypeOK
<1>12. ASSUME NEW p \in Paths, RowFails(p) PROVE SchemaTypeOK'
  <2>1. mishaps' \in 0..MaxMishaps
    BY <1>12 DEF RowFails, SchemaTypeOK
  <2> QED BY <1>5, <1>12, <2>1 DEF RowFails
<1>6. ASSUME NEW p \in Paths, MigrateTombstone(p) PROVE SchemaTypeOK'
  <2>1. plan[p] \in FileIds /\ p \in Known
    BY <1>6, EntriesTyped DEF MigrateTombstone, SchemaTypeOK
  <2>2. tombstones' = Put(tombstones, plan[p], Row(p))
    BY <1>6 DEF MigrateTombstone, Row
  <2>3. DOMAIN tombstones' \subseteq FileIds /\ tombstones' \in [DOMAIN tombstones' -> ObjectRow]
    BY <2>1, <2>2, RowTyped DEF SchemaTypeOK, Put
  <2>4. versions' \subseteq Version
    BY <1>6, <2>1, VersionsTyped DEF MigrateTombstone
  <2> QED BY <1>1, <1>6, <2>3, <2>4 DEF MigrateTombstone, SchemaTypeOK
<1>7. CASE CompleteMigration
  BY <1>1, <1>7 DEF CompleteMigration, SchemaTypeOK, objectVars
<1>8. CASE FinalizeMigration
  BY <1>1, <1>8 DEF FinalizeMigration, SchemaTypeOK, objectVars, NoJournal
<1>9. CASE Crash
  <2>1. mishaps' \in 0..MaxMishaps
    BY <1>9 DEF Crash, SchemaTypeOK
  <2> QED BY <1>1, <1>9, <2>1 DEF Crash, SchemaTypeOK, objectVars
<1>10. CASE UNCHANGED schemaVars
  BY <1>1, <1>10 DEF schemaVars, SchemaTypeOK, objectVars
<1> QED
  BY <1>2, <1>3, <1>4, <1>6, <1>7, <1>8, <1>9, <1>10, <1>11, <1>12 DEF SchemaNext, Migrate

\* Tables that stay still fit.
LEMMA PlacesStay ==
    ASSUME TablesFit, UNCHANGED <<legacyVars, heads, tombstones, versions>>
    PROVE  TablesFit'
<1> USE LegacyStays
<1>1. \A p, id : Placed(p, id)' <=> Placed(p, id)
  BY DEF Placed
<1>2. \A p, id : Brought(p, id)' <=> Brought(p, id)
  BY DEF Brought, Owns
<1>3. \A id \in DOMAIN heads :
         \E p \in LivePaths : heads[id] = Row(p) /\ OwnRow(p, id)
  BY DEF TablesFit
<1>4. \A id \in DOMAIN heads' :
         \E p \in LivePaths' : heads'[id] = Row(p)' /\ OwnRow(p, id)'
  BY <1>3
<1>5. \A id \in DOMAIN tombstones' :
         \E p \in DeadPaths' : tombstones'[id] = Row(p)' /\ OwnRow(p, id)'
  BY DEF TablesFit
<1>6. \A x, y \in DOMAIN heads' : heads'[x].path = heads'[y].path => x = y
  BY DEF TablesFit
<1>7. \A id, p : Placed(p, id)' /\ p \in Known' => Brought(p, id)'
  BY <1>1, <1>2 DEF TablesFit
<1>8. \A w \in versions' : \E p \in Known', v \in history' :
         /\ Placed(p, w.id)' /\ First(p, w.id, v)'
         /\ w.revision = v.revision /\ w.path = v.path
  BY <1>1 DEF TablesFit
<1> QED BY <1>4, <1>5, <1>6, <1>7, <1>8 DEF TablesFit

\* Where tables and plan stay, or the plan is given up, nothing is lost.
LEMMA TablesStay ==
    ASSUME SchemaInv, UNCHANGED <<legacyVars, objectVars>>,
           UNCHANGED <<schema, plan, todo>> \/ plan' = None,
           schema' = "v5" \/ schema # "v5"
    PROVE  PlanFits' /\ TablesFit' /\ DoneIsMoved' /\ TakenOver'
<1> USE LegacyStays DEF SchemaInv
<1>1. UNCHANGED <<files, history, heads, tombstones, versions>>
  BY DEF legacyVars, objectVars
<1>2. PlanFits'
  BY <1>1 DEF PlanFits
<1>3. TablesFit'
  BY <1>1, PlacesStay
<1>4. \A p, id : Moved(p, id) => Moved(p, id)'
  BY <1>1, MovedStays
<1>5. DoneIsMoved'
  BY <1>1, <1>4 DEF DoneIsMoved
<1>6. TakenOver'
  BY <1>1 DEF TakenOver
<1> QED BY <1>2, <1>3, <1>5, <1>6

\* A new plan fits, and has everything to do.
LEMMA PlanStep ==
    ASSUME SchemaInv, StartUp
    PROVE  PlanFits' /\ TablesFit' /\ DoneIsMoved' /\ TakenOver'
<1> USE LegacyStays DEF SchemaInv
<1>1. /\ UNCHANGED <<legacyVars, files, history, schema, heads, tombstones, versions>>
      /\ schema = "v5" /\ plan' \in Plans /\ todo' = DOMAIN plan'
  BY DEF StartUp, legacyVars, objectVars
<1>2. /\ DOMAIN plan' = Known
      /\ \A p \in Known :
            IF KeepsId(p) THEN plan'[p] = files[p].id
            ELSE /\ \A q \in Known : plan'[p] # files[q].id
                 /\ plan'[p] \notin DOMAIN heads \cup DOMAIN tombstones
      /\ \A p, q \in Known : plan'[p] = plan'[q] => p = q
  BY <1>1, PlanSays
<1>3. PlanFits'
  BY <1>1, <1>2 DEF PlanFits
<1>4. TablesFit'
  BY <1>1, PlacesStay
<1>5. DoneIsMoved'
  BY <1>1, <1>2 DEF DoneIsMoved
<1> QED BY <1>1, <1>3, <1>4, <1>5 DEF TakenOver

\* A row moves to the new tables with its versions, and no other one is touched.
LEMMA RowMoves ==
    ASSUME SchemaInv, plan # None, NEW p \in todo, UNCHANGED <<legacyVars, plan>>,
           versions' = WithVersions(plan[p]),
           \/ /\ p \in LivePaths /\ ~PathTaken(p)
              /\ heads' = Put(heads, plan[p], Row(p)) /\ UNCHANGED tombstones
           \/ /\ p \in DeadPaths
              /\ tombstones' = Put(tombstones, plan[p], Row(p)) /\ UNCHANGED heads
    PROVE  TablesFit'
<1> USE LegacyStays DEF SchemaInv
<1>1. p \in Known /\ plan[p] \in FileIds
  BY DEF SchemaTypeOK
<1>2. OwnRow(p, plan[p])
  <2>1. ASSUME NEW q \in Known, KeepsId(q), files[q].id = plan[p] PROVE q = p
    BY <1>1, <2>1, KeptApart DEF PlanFits
  <2> QED BY <2>1 DEF OwnRow
<1>3. \A id \in DOMAIN heads' :
         \/ id = plan[p] /\ p \in LivePaths /\ heads'[id] = Row(p)
         \/ id \in DOMAIN heads /\ heads'[id] = heads[id]
  BY DEF Put
<1>4. \A id \in DOMAIN tombstones' :
         \/ id = plan[p] /\ p \in DeadPaths /\ tombstones'[id] = Row(p)
         \/ id \in DOMAIN tombstones /\ tombstones'[id] = tombstones[id]
  BY DEF Put
<1>5. Placed(p, plan[p])'
  BY DEF Put, Placed
<1>6. \A q \in Known : \A id : Placed(q, id) => Placed(q, id)'
  <2>1. \A id \in DOMAIN heads \ {plan[p]} : id \in DOMAIN heads' /\ heads'[id] = heads[id]
    BY DEF Put
  <2>2. \A id \in DOMAIN tombstones \ {plan[p]} :
           id \in DOMAIN tombstones' /\ tombstones'[id] = tombstones[id]
    BY DEF Put
  <2>3. \A q \in Known : Placed(q, plan[p]) => q = p
    BY PlacedBefore
  <2> QED BY <1>5, <2>1, <2>2, <2>3 DEF Placed
<1>7. \A q \in Known : \A id : Placed(q, id)' => Placed(q, id) \/ (q = p /\ id = plan[p])
  <2>1. \A q \in Known : Row(p) = Row(q) => p = q
    BY DEF Row
  <2> QED BY <1>3, <1>4, <2>1 DEF Placed
<1>8. \A id \in DOMAIN heads' : \E q \in LivePaths' : heads'[id] = Row(q)' /\ OwnRow(q, id)'
  BY <1>2, <1>3 DEF TablesFit
<1>9. \A id \in DOMAIN tombstones' :
         \E q \in DeadPaths' : tombstones'[id] = Row(q)' /\ OwnRow(q, id)'
  BY <1>2, <1>4 DEF TablesFit
<1>10. \A x, y \in DOMAIN heads' : heads'[x].path = heads'[y].path => x = y
  <2>1. CASE UNCHANGED heads
    BY <2>1 DEF TablesFit
  <2>2. CASE ~PathTaken(p)
    <3>1. \A id \in DOMAIN heads \ {plan[p]} : heads[id].path # p
      BY <2>2 DEF PathTaken
    <3> QED BY <1>1, <1>3, <3>1, RowTyped DEF TablesFit
  <2> QED BY <2>1, <2>2
<1>11. versions \subseteq versions'
  BY <1>1, VersionsTyped
<1>12. \A id, q : Placed(q, id)' /\ q \in Known' => Brought(q, id)'
  <2>1. \A q, id : Brought(q, id) => Brought(q, id)'
    BY <1>11 DEF Brought, Owns
  <2>2. Brought(p, plan[p])'
    BY VersionsCome
  <2> QED BY <1>7, <2>1, <2>2 DEF TablesFit
<1>13. \A w \in versions' : \E q \in Known', v \in history' :
          /\ Placed(q, w.id)' /\ First(q, w.id, v)'
          /\ w.revision = v.revision /\ w.path = v.path
  <2>1. ASSUME NEW w \in versions
        PROVE  \E q \in Known, v \in history :
                  /\ Placed(q, w.id)' /\ First(q, w.id, v)
                  /\ w.revision = v.revision /\ w.path = v.path
    BY <1>6 DEF TablesFit
  <2>2. ASSUME NEW w \in versions' \ versions
        PROVE  \E q \in Known, v \in history :
                  /\ Placed(q, w.id)' /\ First(q, w.id, v)
                  /\ w.revision = v.revision /\ w.path = v.path
    BY <1>1, <1>5, NewVersions
  <2> QED BY <2>1, <2>2
<1> QED BY <1>8, <1>9, <1>10, <1>12, <1>13 DEF TablesFit

\* An object moves to the new tables.
LEMMA ObjectStep ==
    ASSUME SchemaInv, NEW p \in Paths, MigrateObject(p)
    PROVE  PlanFits' /\ TablesFit' /\ DoneIsMoved' /\ TakenOver'
<1> USE LegacyStays DEF SchemaInv
<1>1. /\ UNCHANGED <<legacyVars, files, history, schema, plan, tombstones>>
      /\ plan # None /\ p \in todo /\ p \in LivePaths /\ ~PathTaken(p)
      /\ todo' = todo \ {p}
      /\ heads' = Put(heads, plan[p], Row(p))
      /\ versions' = WithVersions(plan[p])
  BY DEF MigrateObject, legacyVars, Row
<1>2. p \in Known /\ plan[p] \in FileIds /\ ~files[p].deleted
  BY <1>1, EntriesTyped DEF SchemaTypeOK, LivePaths
<1>3. /\ DOMAIN heads' = DOMAIN heads \cup {plan[p]}
      /\ heads'[plan[p]] = Row(p)
  BY <1>1 DEF Put
<1>4. \A id \in DOMAIN heads \ {plan[p]} : heads'[id] = heads[id]
  BY <1>1 DEF Put
<1>6. \A q \in Known : q # p => plan[q] # plan[p]
  BY <1>1, <1>2 DEF PlanFits
<1>7. PlanFits'
  BY <1>1, <1>2, <1>3, <1>6 DEF PlanFits, SchemaTypeOK
<1>9. TablesFit'
  BY <1>1, RowMoves
<1>10. DoneIsMoved'
  <2>1. ASSUME NEW q \in Known \ todo PROVE Moved(q, plan[q])'
    <3>1. Moved(q, plan[q]) /\ plan[q] # plan[p]
      BY <1>1, <1>6, <2>1 DEF DoneIsMoved
    <3>2. plan[q] \in DOMAIN heads
             => plan[q] \in DOMAIN heads' /\ heads'[plan[q]] = heads[plan[q]]
      BY <1>3, <1>4, <3>1
    <3> QED BY <1>1, <3>1, <3>2, MovedStays
  <2>2. Moved(p, plan[p])'
    BY <1>1, <1>2, <1>3 DEF Moved
  <2> QED BY <1>1, <2>1, <2>2 DEF DoneIsMoved
<1> QED BY <1>1, <1>7, <1>9, <1>10 DEF TakenOver, PlanFits

\* A deletion record moves to the new tables.
LEMMA TombstoneStep ==
    ASSUME SchemaInv, NEW p \in Paths, MigrateTombstone(p)
    PROVE  PlanFits' /\ TablesFit' /\ DoneIsMoved' /\ TakenOver'
<1> USE LegacyStays DEF SchemaInv
<1>1. /\ UNCHANGED <<legacyVars, files, history, schema, plan, heads>>
      /\ plan # None /\ p \in todo /\ p \notin LivePaths
      /\ todo' = todo \ {p}
      /\ tombstones' = Put(tombstones, plan[p], Row(p))
      /\ versions' = WithVersions(plan[p])
  BY DEF MigrateTombstone, legacyVars, Row
<1>2. p \in Known /\ plan[p] \in FileIds /\ files[p].deleted /\ p \in DeadPaths
  BY <1>1, EntriesTyped DEF SchemaTypeOK, LivePaths, DeadPaths
<1>3. /\ DOMAIN tombstones' = DOMAIN tombstones \cup {plan[p]}
      /\ tombstones'[plan[p]] = Row(p)
  BY <1>1 DEF Put
<1>4. \A id \in DOMAIN tombstones \ {plan[p]} : tombstones'[id] = tombstones[id]
  BY <1>1 DEF Put
<1>6. \A q \in Known : q # p => plan[q] # plan[p]
  BY <1>1, <1>2 DEF PlanFits
<1>7. PlanFits'
  BY <1>1, <1>2, <1>3, <1>6 DEF PlanFits, SchemaTypeOK
<1>8. TablesFit'
  BY <1>1, <1>2, RowMoves
<1>9. DoneIsMoved'
  <2>1. ASSUME NEW q \in Known \ todo PROVE Moved(q, plan[q])'
    <3>1. Moved(q, plan[q]) /\ plan[q] # plan[p]
      BY <1>1, <1>6, <2>1 DEF DoneIsMoved
    <3>2. plan[q] \in DOMAIN tombstones
             => plan[q] \in DOMAIN tombstones' /\ tombstones'[plan[q]] = tombstones[plan[q]]
      BY <1>3, <1>4, <3>1
    <3> QED BY <1>1, <3>1, <3>2, MovedStays
  <2>2. Moved(p, plan[p])'
    BY <1>1, <1>2, <1>3 DEF Moved
  <2> QED BY <1>1, <2>1, <2>2 DEF DoneIsMoved
<1> QED BY <1>1, <1>7, <1>8, <1>9 DEF TakenOver, PlanFits

\* When nothing is left to do, nothing is left behind.
LEMMA CompleteStep ==
    ASSUME SchemaInv, CompleteMigration
    PROVE  PlanFits' /\ TablesFit' /\ DoneIsMoved' /\ TakenOver'
<1> USE LegacyStays DEF SchemaInv
<1>1. /\ UNCHANGED <<legacyVars, files, history, heads, tombstones, versions>>
      /\ plan # None /\ todo = {} /\ plan' = None /\ schema' = "v6"
  BY DEF CompleteMigration, legacyVars, objectVars
<1>2. \A p \in Known : Moved(p, plan[p])
  BY <1>1 DEF DoneIsMoved
<1>3. {heads[id] : id \in DOMAIN heads} = {Row(p) : p \in LivePaths}
  <2>1. \A p \in LivePaths : \E id \in DOMAIN heads : heads[id] = Row(p)
    BY <1>2 DEF Moved, LivePaths
  <2>2. \A id \in DOMAIN heads : \E p \in LivePaths : heads[id] = Row(p)
    BY DEF TablesFit
  <2> QED BY <2>1, <2>2
<1>4. {tombstones[id] : id \in DOMAIN tombstones} = {Row(p) : p \in DeadPaths}
  <2>1. \A p \in DeadPaths : \E id \in DOMAIN tombstones : tombstones[id] = Row(p)
    BY <1>2 DEF Moved, DeadPaths
  <2>2. \A id \in DOMAIN tombstones : \E p \in DeadPaths : tombstones[id] = Row(p)
    BY DEF TablesFit
  <2> QED BY <2>1, <2>2
<1>6. TakenOver'
  BY <1>1, <1>3, <1>4 DEF TakenOver
<1>7. PlanFits' /\ DoneIsMoved'
  BY <1>1 DEF PlanFits, DoneIsMoved
<1>8. TablesFit'
  BY <1>1, PlacesStay
<1> QED BY <1>6, <1>7, <1>8

\* Every step of the migration keeps what is known of the tables.
LEMMA SchemaNextKeepsInv == SchemaInv /\ [SchemaNext]_schemaVars => SchemaInv'
<1> SUFFICES ASSUME SchemaInv, [SchemaNext]_schemaVars PROVE SchemaInv'
  OBVIOUS
<1>1. SchemaTypeOK'
  BY SchemaTypes DEF SchemaInv
<1>2. CASE StartUpCut
  BY <1>1, <1>2, TablesStay DEF StartUpCut, SchemaInv
<1>3. ASSUME NEW p \in Paths, plan # None, GiveUp(p) PROVE SchemaInv'
  <2>1. schema' = "v5"
    BY <1>3 DEF GiveUp, SchemaInv, PlanFits
  <2> QED BY <1>1, <1>3, <2>1, TablesStay DEF GiveUp, SchemaInv
<1>11. ASSUME NEW p \in Paths, ObjectRefused(p) \/ RowFails(p) PROVE SchemaInv'
  BY <1>3, <1>11 DEF ObjectRefused, RowFails
<1>4. CASE FinalizeMigration
  BY <1>1, <1>4, TablesStay DEF FinalizeMigration, SchemaInv, PlanFits
<1>5. CASE Crash
  BY <1>1, <1>5, TablesStay DEF Crash, SchemaInv, PlanFits
<1>6. CASE UNCHANGED schemaVars
  BY <1>1, <1>6, TablesStay DEF schemaVars, SchemaInv
<1>7. CASE StartUp
  BY <1>1, <1>7, PlanStep DEF SchemaInv
<1>8. ASSUME NEW p \in Paths, MigrateObject(p) PROVE SchemaInv'
  BY <1>1, <1>8, ObjectStep DEF SchemaInv
<1>9. ASSUME NEW p \in Paths, MigrateTombstone(p) PROVE SchemaInv'
  BY <1>1, <1>9, TombstoneStep DEF SchemaInv
<1>10. CASE CompleteMigration
  BY <1>1, <1>10, CompleteStep DEF SchemaInv
<1> QED
  BY <1>2, <1>4, <1>5, <1>6, <1>7, <1>8, <1>9, <1>10, <1>11 DEF SchemaNext, Migrate

\* One entry is marked, the others stay.
LEMMA Marked ==
    ASSUME SchemaTypeOK, NEW e \in Entries, NEW stage,
           journal' = [journal EXCEPT ![e] = stage]
    PROVE  journal'[e] = stage /\ \A d \in Entries \ {e} : journal'[d] = journal[d]
BY DEF SchemaTypeOK

\* A plan has one entry for each row.
LEMMA PlannedEntries ==
    ASSUME SchemaInv, plan # None, NEW p \in Known
    PROVE  /\ EntryOf(p) = <<plan[p], KindOf(p)>> /\ EntryOf(p) \in Entries /\ schema = "v5"
           /\ KeepsId(p) => EntryOf(p) = <<files[p].id, KindOf(p)>>
           /\ \A q \in Known : EntryOf(q) = EntryOf(p) => q = p
BY EntriesTyped DEF SchemaInv, PlanFits, EntryOf, KindOf

\* Marking a row done is what moving it is.
LEMMA DoneStep ==
    ASSUME SchemaInv, JournalInv, plan # None, NEW p \in todo,
           UNCHANGED <<legacyVars, schema, plan>>, todo' = todo \ {p},
           journal' = [journal EXCEPT ![EntryOf(p)] = "done"],
           \A e \in Entries : HasMoved(e)' <=> HasMoved(e) \/ e = EntryOf(p)
    PROVE  JournalInv'
<1> USE LegacyStays DEF SchemaInv
<1>1. p \in Known /\ \A q \in todo : q \in Known
  BY DEF SchemaTypeOK
<1>2. /\ EntryOf(p) \in Entries /\ schema = "v5"
      /\ journal'[EntryOf(p)] = "done"
      /\ \A e \in Entries \ {EntryOf(p)} : journal'[e] = journal[e]
  BY <1>1, PlannedEntries, Marked
<1>3. JournalTruthful'
  BY <1>2 DEF JournalInv, JournalTruthful
<1>4. RetriesFit'
  <2> SUFFICES ASSUME NEW e \in Entries, journal'[e] = "failed", HasMoved(e)'
               PROVE  /\ schema' = "v5"
                      /\ \E q \in Known' :
                            /\ KeepsId(q)' /\ files'[q].id = e[1] /\ KindOf(q)' = e[2]
                            /\ plan' # None => q \in todo'
    BY DEF RetriesFit
  <2>1. e # EntryOf(p) /\ journal[e] = "failed" /\ HasMoved(e)
    BY <1>2
  <2>2. PICK q \in Known : /\ KeepsId(q) /\ files[q].id = e[1] /\ KindOf(q) = e[2] /\ q \in todo
    BY <2>1 DEF JournalInv, RetriesFit
  <2>3. e = <<files[q].id, KindOf(q)>>
    BY <2>2 DEF Entries
  <2>4. q # p
    BY <1>1, <2>1, <2>2, <2>3, PlannedEntries
  <2> QED BY <1>2, <2>2, <2>4 DEF KindOf
<1> QED BY <1>3, <1>4 DEF JournalInv

\* A row that is marked failed although it is there is a good one.
LEMMA GiveUpStep ==
    ASSUME SchemaInv, JournalInv, plan # None, NEW p \in todo, GiveUp(p)
    PROVE  JournalInv'
<1> USE LegacyStays DEF SchemaInv
<1>1. UNCHANGED <<legacyVars, schema, heads, tombstones>> /\ plan' = None
  BY DEF GiveUp, objectVars
<1>2. \A e : HasMoved(e)' <=> HasMoved(e)
  BY <1>1 DEF HasMoved
<1>3. p \in Known /\ EntryOf(p) \in Entries /\ schema = "v5"
  BY PlannedEntries DEF SchemaTypeOK
<1>4. /\ journal'[EntryOf(p)] \in {journal[EntryOf(p)], "failed"}
      /\ \A e \in Entries \ {EntryOf(p)} : journal'[e] = journal[e]
  BY <1>3, Marked DEF GiveUp
<1>5. JournalTruthful'
  BY <1>1, <1>2, <1>3, <1>4 DEF JournalInv, JournalTruthful
<1>6. RetriesFit'
  <2> SUFFICES ASSUME NEW e \in Entries, journal'[e] = "failed", HasMoved(e)
               PROVE  \E q \in Known :
                         /\ KeepsId(q) /\ files[q].id = e[1] /\ KindOf(q) = e[2]
    BY <1>1, <1>2, <1>3 DEF RetriesFit, KindOf
  <2>1. CASE journal[e] = "failed"
    BY <2>1 DEF JournalInv, RetriesFit
  <2>2. CASE journal[e] # "failed"
    <3>1. e = <<plan[p], KindOf(p)>>
      BY <1>3, <1>4, <2>2, PlannedEntries
    <3>2. plan[p] \in DOMAIN heads \cup DOMAIN tombstones
      BY <3>1 DEF HasMoved
    <3>3. KeepsId(p) /\ plan[p] = files[p].id
      BY <1>3, <3>2 DEF PlanFits
    <3> QED BY <1>3, <3>1, <3>3
  <2> QED BY <2>1, <2>2
<1> QED BY <1>5, <1>6 DEF JournalInv

\* The journal stays right about what is in the new tables.
LEMMA JournalStep ==
    ASSUME SchemaInv, JournalInv, [SchemaNext]_schemaVars
    PROVE  JournalInv'
<1> USE DEF SchemaInv
<1>1. ASSUME UNCHANGED <<legacyVars, heads, tombstones, schema>>,
             UNCHANGED <<plan, todo>> \/ plan' = None \/ todo' = Known,
             \A e \in Entries :
                IF journal[e] = "none" THEN journal'[e] \in {"none", "pending"}
                ELSE journal'[e] = journal[e]
      PROVE  JournalInv'
  <2>1. \A e : HasMoved(e)' <=> HasMoved(e)
    BY <1>1 DEF HasMoved
  <2>2. JournalTruthful'
    BY <1>1, <2>1 DEF JournalInv, JournalTruthful
  <2>3. RetriesFit'
    BY <1>1, <2>1, LegacyStays DEF JournalInv, RetriesFit, KindOf
  <2> QED BY <2>2, <2>3 DEF JournalInv
<1>2. CASE StartUp
  <2>1. todo' = Known
    BY <1>2, PlanSays DEF StartUp
  <2> QED BY <1>1, <1>2, <2>1, EnqueuedTyped DEF StartUp, objectVars
<1>3. CASE StartUpCut
  BY <1>1, <1>3, EnqueuedTyped DEF StartUpCut, objectVars
<1>4. ASSUME NEW p \in Paths, MigrateObject(p) PROVE JournalInv'
  <2>1. p \in todo /\ plan # None /\ EntryOf(p) = <<plan[p], "object">>
    BY <1>4 DEF MigrateObject, EntryOf, LivePaths
  <2>2. DOMAIN heads' = DOMAIN heads \cup {plan[p]} /\ UNCHANGED tombstones
    BY <1>4 DEF MigrateObject, Put
  <2>3. \A e \in Entries : HasMoved(e)' <=> HasMoved(e) \/ e = EntryOf(p)
    BY <2>1, <2>2 DEF HasMoved, Entries
  <2> QED BY <1>4, <2>1, <2>3, DoneStep DEF MigrateObject
<1>5. ASSUME NEW p \in Paths, MigrateTombstone(p) PROVE JournalInv'
  <2>1. p \in todo /\ plan # None /\ EntryOf(p) = <<plan[p], "tombstone">>
    BY <1>5 DEF MigrateTombstone, EntryOf, LivePaths, SchemaTypeOK
  <2>2. DOMAIN tombstones' = DOMAIN tombstones \cup {plan[p]} /\ UNCHANGED heads
    BY <1>5 DEF MigrateTombstone, Put
  <2>3. \A e \in Entries : HasMoved(e)' <=> HasMoved(e) \/ e = EntryOf(p)
    BY <2>1, <2>2 DEF HasMoved, Entries
  <2> QED BY <1>5, <2>1, <2>3, DoneStep DEF MigrateTombstone
<1>6. ASSUME NEW p \in Paths, ObjectRefused(p) \/ RowFails(p) PROVE JournalInv'
  BY <1>6, GiveUpStep DEF ObjectRefused, RowFails
<1>7. CASE CompleteMigration
  <2>1. /\ UNCHANGED <<legacyVars, journal, heads, tombstones>> /\ schema' = "v6"
        /\ plan # None /\ todo = {} /\ schema = "v5"
    BY <1>7 DEF CompleteMigration, objectVars, PlanFits
  <2>2. \A e \in Entries : ~(journal[e] = "failed" /\ HasMoved(e))
    BY <2>1 DEF JournalInv, RetriesFit
  <2>3. \A e : HasMoved(e)' <=> HasMoved(e)
    BY <2>1 DEF HasMoved
  <2> QED BY <2>1, <2>2, <2>3 DEF JournalInv, JournalTruthful, RetriesFit
<1>8. CASE FinalizeMigration
  BY <1>8 DEF FinalizeMigration, JournalInv, JournalTruthful, RetriesFit, NoJournal
<1>9. CASE Crash
  BY <1>1, <1>9 DEF Crash, objectVars
<1>10. CASE UNCHANGED schemaVars
  BY <1>1, <1>10 DEF schemaVars, objectVars
<1> QED
  BY <1>2, <1>3, <1>4, <1>5, <1>6, <1>7, <1>8, <1>9, <1>10 DEF SchemaNext, Migrate

-----------------------------------------------------------------------------
(***************************************************************************)
(* Both migrations                                                         *)
(***************************************************************************)

\* The new tables name contents that the old ones named.
LEMMA MigratedIsLegacy ==
    ASSUME SchemaInv
    PROVE  MigratedContents \subseteq LegacyContents
<1>1. \A id \in DOMAIN heads : heads[id].path \in LivePaths
  BY RowTyped DEF SchemaInv, TablesFit, LivePaths
<1>2. \A w \in versions : \E v \in history : w.path = v.path
  BY DEF SchemaInv, TablesFit
<1> QED BY <1>1, <1>2 DEF MigratedContents, LegacyContents

\* Initially nothing has moved.
LEMMA InitIInv == UpgradeInit => IInv
<1> SUFFICES ASSUME UpgradeInit PROVE IInv
  OBVIOUS
<1> USE DEF UpgradeInit
<1>1. SchemaTypeOK
  BY DEF SchemaInit, SchemaTypeOK, NoJournal, Known
<1>2. PlanFits /\ TablesFit /\ DoneIsMoved /\ TakenOver
  BY DEF SchemaInit, PlanFits, TablesFit, Placed, DoneIsMoved, TakenOver
<1>3. JournalInv
  BY DEF SchemaInit, JournalInv, JournalTruthful, RetriesFit, HasMoved, NoJournal, Entries
<1>4. BlobTypeOK /\ BlobsWait
  <2>1. LegacyContents \subseteq Contents
    BY DEF LegacyContents
  <2>2. refs \subseteq BlobNames /\ disk = refs
    BY <2>1, NamesApart DEF BlobInit
  <2>3. command = NoCommand /\ complete = FALSE
    BY DEF BlobInit
  <2>4. BlobTypeOK
    <3>1. stops \in 0..MaxStops
      BY DEF BlobInit
    <3>2. blobJournal \in [Contents -> {"none", "pending", "done", "failed"}]
      BY DEF BlobInit
    <3> QED BY <2>2, <2>3, <3>1, <3>2 DEF BlobInit, BlobTypeOK
  <2> QED BY <2>2, <2>3, <2>4 DEF BlobsWait
<1>5. CommandFits /\ DoneIsGone /\ DanglingIsJournaled /\ SuccessIsComplete
  BY DEF BlobInit, CommandFits, DoneIsGone, DanglingIsJournaled, SuccessIsComplete, Dangling
<1> QED BY <1>1, <1>2, <1>3, <1>4, <1>5 DEF IInv, SchemaInv, BlobInv, BlobInit

\* Blobs are handed over as they are.
LEMMA HandOverKeepsBlobs ==
    ASSUME IInv, SchemaNext, HandOver
    PROVE  BlobInv' /\ BlobsWait'
<1> USE DEF IInv
<1>1. UNCHANGED <<disk, blobJournal, command, complete, collected, restored, stops>>
  BY DEF HandOver, trails
<1>2. CASE schema = "v5" /\ schema' = "v6"
  <2>1. disk = {Old(c) : c \in LegacyContents} /\ refs' = {Old(c) : c \in MigratedContents}
    BY <1>2 DEF HandOver, BlobsWait
  <2>2. refs' \subseteq disk'
    BY <1>1, <2>1, MigratedIsLegacy
  <2>3. refs' \subseteq BlobNames
    BY <1>1, <2>2 DEF BlobInv, BlobTypeOK
  <2>4. DanglingIsJournaled'
    BY <2>2 DEF DanglingIsJournaled, Dangling
  <2>5. CommandFits' /\ SuccessIsComplete'
    BY <1>1, <1>2 DEF BlobsWait, CommandFits, SuccessIsComplete
  <2>6. DoneIsGone'
    BY <1>1, <1>2, <2>2 DEF BlobInv, DoneIsGone, BlobsWait
  <2> QED BY <1>1, <1>2, <2>3, <2>4, <2>5, <2>6 DEF BlobInv, BlobTypeOK, BlobsWait
<1>3. CASE ~(schema = "v5" /\ schema' = "v6")
  <2>1. UNCHANGED refs
    BY <1>3 DEF HandOver
  <2>2. BlobInv'
    BY <1>1, <2>1, BlobNextKeepsInv DEF blobVars, trails
  <2>3. UNCHANGED legacyVars
    BY DEF SchemaNext, Migrate, StartUp, StartUpCut, MigrateObject, ObjectRefused,
        RowFails, GiveUp, MigrateTombstone, CompleteMigration, FinalizeMigration, Crash
  <2>4. schema' = "v5" => schema = "v5"
    BY DEF SchemaNext, Migrate, StartUp, StartUpCut, MigrateObject, ObjectRefused,
        RowFails, GiveUp, MigrateTombstone, CompleteMigration, FinalizeMigration, Crash
  <2>5. LegacyContents' = LegacyContents
    BY <2>3, LegacyStays DEF LegacyContents, legacyVars
  <2> QED BY <1>1, <2>1, <2>2, <2>4, <2>5 DEF BlobsWait
<1> QED BY <1>2, <1>3

\* Every step keeps the invariant.
LEMMA NextKeepsIInv == IInv /\ [UpgradeNext]_vars => IInv'
<1> SUFFICES ASSUME IInv, [UpgradeNext]_vars PROVE IInv'
  OBVIOUS
<1>1. CASE SchemaNext /\ HandOver
  BY <1>1, SchemaNextKeepsInv, JournalStep, HandOverKeepsBlobs DEF IInv
<1>2. CASE BlobNext /\ schema # "v5" /\ UNCHANGED schemaVars
  <2>1. SchemaInv' /\ JournalInv'
    BY <1>2, SchemaNextKeepsInv, JournalStep DEF IInv
  <2>2. BlobInv'
    BY <1>2, BlobNextKeepsInv DEF IInv
  <2> QED BY <1>2, <2>1, <2>2 DEF IInv, BlobsWait, schemaVars
<1>3. CASE UNCHANGED vars
  <2>1. SchemaInv' /\ JournalInv'
    BY <1>3, SchemaNextKeepsInv, JournalStep DEF IInv, vars
  <2>2. BlobInv'
    BY <1>3, BlobNextKeepsInv DEF IInv, vars
  <2>3. LegacyContents' = LegacyContents
    BY <1>3, LegacyStays DEF LegacyContents, vars, schemaVars, legacyVars
  <2> QED BY <1>3, <2>1, <2>2, <2>3 DEF IInv, BlobsWait, vars, schemaVars, blobVars, trails
<1> QED BY <1>1, <1>2, <1>3 DEF UpgradeNext

\* The invariant holds in every reachable state.
THEOREM Invariance == UpgradeSpec => []IInv
<1> QED BY InitIInv, NextKeepsIInv, PTL DEF UpgradeSpec

\* When planV6 and MigrateToV6 are through, however often they were cut short
\* and with whatever rows and versions, every live path is one object with its
\* revision and every deletion is on record; an object in the new tables has a
\* version of each revision that the old ones had one of for it, by its id or
\* by its path. Versions of no object are not spoken of: they are left behind.
THEOREM NothingLost == UpgradeSpec => []NothingLeftBehind
<1>1. IInv => NothingLeftBehind
  <2> SUFFICES ASSUME IInv PROVE NothingLeftBehind
    OBVIOUS
  <2>1. SchemaTypeOK /\ TablesFit /\ TakenOver
    BY DEF IInv, SchemaInv
  <2>2. \A a, b \in DOMAIN heads : heads[a].path = heads[b].path => a = b
    BY <2>1 DEF TablesFit
  <2> QED BY <2>1, <2>2, AllBrought DEF NothingLeftBehind, TakenOver
<1> QED BY <1>1, Invariance, PTL

\* An entry that MigrateToV6 has marked done is in the new tables, whatever
\* transactions failed, and everything in them is done when they take over.
THEOREM JournalRight == UpgradeSpec => []JournalTruthful
<1>1. IInv => JournalTruthful
  BY DEF IInv, JournalInv
<1> QED BY <1>1, Invariance, PTL

\* MigrateBlobIDs leaves no row without its file that its journal does not
\* know of, unless the collector or a Restore has interfered.
THEOREM DanglingKnown == UpgradeSpec => []DanglingIsJournaled
<1>1. IInv => DanglingIsJournaled
  BY DEF IInv, BlobInv
<1> QED BY <1>1, Invariance, PTL

\* A report of success by MigrateBlobIDs is true, and stays true.
THEOREM ReportTrue == UpgradeSpec => []SuccessIsComplete
<1>1. IInv => SuccessIsComplete
  BY DEF IInv, BlobInv
<1> QED BY <1>1, Invariance, PTL

-----------------------------------------------------------------------------
(***************************************************************************)
(* Good rows are never refused                                             *)
(***************************************************************************)

\* A good row that is in the new tables is there under its id.
OwnIds ==
    \A id \in DOMAIN heads : KeepsId(heads[id].path) => files[heads[id].path].id = id

\* Where ids are good, the plan that keeps them all is one.
LEMMA CleanPlanExists ==
    ASSUME SchemaTypeOK, Clean
    PROVE  Plans # {}
<1> DEFINE ids == [p \in Known |-> files[p].id]
<1>1. LivePaths \cup PlannedRecords = Known
  BY DEF LivePaths, PlannedRecords, DeadPaths
<1>2. \A p \in Known : KeepsId(p) /\ files[p].id \in FileIds
  BY DEF Clean, KeepsId
<1>3. \A p, q \in Known : ids[p] = ids[q] => p = q
  BY <1>2, KeptApart
<1>4. ids \in [LivePaths \cup PlannedRecords -> FileIds]
  BY <1>1, <1>2
<1>5. ids \in Plans
  BY <1>1, <1>2, <1>3, <1>4 DEF Plans
<1> QED BY <1>5

\* Each start-up gives a good row the id it has, so that it finds itself there.
LEMMA OwnIdsKept == SchemaInv /\ OwnIds /\ [SchemaNext]_schemaVars => OwnIds'
<1> SUFFICES ASSUME SchemaInv, OwnIds, [SchemaNext]_schemaVars PROVE OwnIds'
  OBVIOUS
<1>1. UNCHANGED legacyVars /\ files' = files /\ \A p : KeepsId(p)' <=> KeepsId(p)
  BY LegacyStays DEF SchemaNext, Migrate, StartUp, MigrateObject, ObjectRefused, RowFails, GiveUp,
     MigrateTombstone, CompleteMigration, StartUpCut, FinalizeMigration, Crash, schemaVars, legacyVars
<1>2. CASE heads' = heads
  BY <1>1, <1>2 DEF OwnIds
<1>3. ASSUME NEW p \in Paths, MigrateObject(p) PROVE OwnIds'
  <2>1. plan # None /\ p \in Known /\ heads' = Put(heads, plan[p], Row(p))
    BY <1>3, EntriesTyped DEF MigrateObject, Row, SchemaInv, SchemaTypeOK, LivePaths
  <2>2. KeepsId(p) => plan[p] = files[p].id
    BY <2>1 DEF SchemaInv, PlanFits
  <2>3. \A id \in DOMAIN heads' :
           \/ id = plan[p] /\ heads'[id] = Row(p)
           \/ id \in DOMAIN heads /\ heads'[id] = heads[id]
    BY <2>1 DEF Put
  <2>4. Row(p).path = p
    BY <2>1, RowTyped DEF SchemaInv
  <2> QED BY <1>1, <2>2, <2>3, <2>4 DEF OwnIds
<1> QED BY <1>2, <1>3 DEF SchemaNext, Migrate, StartUp, ObjectRefused, RowFails, GiveUp,
           MigrateTombstone, CompleteMigration, StartUpCut, FinalizeMigration, Crash, schemaVars, objectVars

\* The server of a vault with good ids is never turned away at start-up: there is
\* always a plan, and no index refuses a good row, also beside bad rows.
THEOREM GoodRowsNeverRefused == UpgradeSpec => []GoodRowsPass
<1>1. UpgradeInit => OwnIds
  BY DEF UpgradeInit, SchemaInit, OwnIds
<1>2. IInv /\ OwnIds /\ [UpgradeNext]_vars => OwnIds'
  BY OwnIdsKept DEF IInv, UpgradeNext, vars
<1>3. IInv /\ OwnIds => GoodRowsPass
  <2> SUFFICES ASSUME IInv, OwnIds PROVE GoodRowsPass
    OBVIOUS
  <2>1. SchemaTypeOK /\ PlanFits
    BY DEF IInv, SchemaInv
  <2>2. ASSUME plan # None, NEW p \in todo \cap LivePaths, KeepsId(p), PathTaken(p)
        PROVE  FALSE
    <3>1. PICK id \in DOMAIN heads \ {plan[p]} : heads[id].path = p
      BY <2>2 DEF PathTaken
    <3>2. files[p].id = id
      BY <2>2, <3>1 DEF OwnIds
    <3>3. plan[p] = files[p].id
      BY <2>1, <2>2 DEF PlanFits, LivePaths
    <3> QED BY <3>1, <3>2, <3>3
  <2> QED BY <2>1, <2>2, CleanPlanExists DEF GoodRowsPass
<1> QED BY <1>1, <1>2, <1>3, Invariance, PTL DEF UpgradeSpec
=============================================================================
