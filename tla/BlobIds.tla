------------------------------ MODULE BlobIds ------------------------------
(***************************************************************************)
(* The migration of blob names.  A blob was once named after the SHA-256   *)
(* of its content; new ones are named by an HMAC under the secret of the   *)
(* vault, and an operator's command renames the old ones, one by one: the  *)
(* file first, then the rows, then the journal.                            *)
(*                                                                         *)
(* A name is a content and a scheme; a reference is the name that some     *)
(* HEAD or version has.  The server may have both schemes at once.  The    *)
(* command is a process of its own: nothing keeps the collector of the     *)
(* server away from what a command that died has left.  Commands are taken *)
(* to run while the server is down.                                        *)
(***************************************************************************)
EXTENDS Integers

CONSTANTS
    Contents,       \* contents
    NoCommand,      \* no command under way
    Nothing,        \* the command is between two blobs
    MaxStops        \* bound on deaths of a command and refused transactions

ASSUME BlobIdAssumption == Nothing \notin Contents /\ MaxStops \in Nat

VARIABLES
    refs,           \* names that rows refer to
    disk,           \* names of the files in the blob directory
    blobJournal,    \* migration_journal of this migration: content -> stage
    command,        \* the command's progress, or NoCommand
    complete,       \* the last command reported success, and nothing failed
    collected,      \* contents of which the server removed a file although
                    \* rows referred to them by their other name
    restored,       \* names a Restore gave without looking for the file
    stops

trails == <<complete, collected, restored>>
blobVars == <<refs, disk, blobJournal, command, trails, stops>>

Old(c) == <<c, "sha256">>
New(c) == <<c, "vault-hmac">>
BlobNames == Contents \X {"sha256", "vault-hmac"}

Progress == [todo : SUBSET BlobNames, blob : Contents \cup {Nothing},
             phase : {"ready", "enqueued", "renamed", "repointed"}, failed : BOOLEAN]

Between == command # NoCommand /\ command.blob = Nothing

InPhase(c, phase) == command # NoCommand /\ command.blob = c /\ command.phase = phase

(***************************************************************************)
(* The server between two commands.                                        *)
(***************************************************************************)

\* Service.Upload: CommitAs and the rows, under the new name.
Store(c) ==
    /\ command = NoCommand
    /\ refs' = refs \cup {New(c)}
    /\ disk' = disk \cup {New(c)}
    /\ UNCHANGED <<blobJournal, command, trails, stops>>

\* The contents that rows still know by another name than the one removed.
Missed(name) == {c \in {name[1]} : refs' \cap {Old(c), New(c)} # {}}

\* The last row of that name goes; pruning removes its file, deletion leaves it.
ForgetRows(name) ==
    /\ command = NoCommand
    /\ name \in refs
    /\ refs' = refs \ {name}
    /\ \/ disk' = disk \ {name} /\ collected' = collected \cup Missed(name)
       \/ UNCHANGED <<disk, collected>>
    /\ UNCHANGED <<blobJournal, command, complete, restored, stops>>

\* Service.Restore computes the new name, whatever name the content has.
RestoreRow(c) ==
    /\ command = NoCommand
    /\ Old(c) \in disk \/ New(c) \in disk
    /\ refs' = refs \cup {New(c)}
    /\ restored' = IF New(c) \in disk THEN restored ELSE restored \cup {New(c)}
    /\ UNCHANGED <<disk, blobJournal, command, complete, collected, stops>>

\* The collector, after its two rounds: a file no row refers to goes.
CollectFile(name) ==
    /\ command = NoCommand
    /\ name \in disk \ refs
    /\ disk' = disk \ {name}
    /\ UNCHANGED refs
    /\ collected' = collected \cup Missed(name)
    /\ UNCHANGED <<blobJournal, command, complete, restored, stops>>

(***************************************************************************)
(* MigrateBlobIDs                                                          *)
(***************************************************************************)

\* The names are read once.
StartCommand ==
    /\ command = NoCommand
    /\ command' = [todo |-> refs, blob |-> Nothing, phase |-> "ready", failed |-> FALSE]
    /\ UNCHANGED <<refs, disk, blobJournal, trails, stops>>

\* A new name needs nothing.
SkipNew(c) ==
    /\ Between
    /\ New(c) \in command.todo
    /\ command' = [command EXCEPT !.todo = @ \ {New(c)}]
    /\ UNCHANGED <<refs, disk, blobJournal, trails, stops>>

\* Variant with a bug: the entry is not made.
NotEntered(c) == blobJournal

\* EnqueueJournal leaves an entry alone that is there.
Entered(c) == [blobJournal EXCEPT ![c] = IF @ = "none" THEN "pending" ELSE @]

EnqueueBlob(c) ==
    /\ Between
    /\ Old(c) \in command.todo
    /\ command' = [command EXCEPT !.todo = @ \ {Old(c)}, !.blob = c, !.phase = "enqueued"]
    /\ blobJournal' = Entered(c)
    /\ UNCHANGED <<refs, disk, trails, stops>>

\* A new file that is there already stays, and the old one goes; an old one that
\* is gone already has been renamed before.
Rename(c) ==
    /\ InPhase(c, "enqueued")
    /\ Old(c) \in disk \/ New(c) \in disk
    /\ disk' = (disk \ {Old(c)}) \cup {New(c)}
    /\ command' = [command EXCEPT !.phase = "renamed"]
    /\ UNCHANGED <<refs, blobJournal, trails, stops>>

\* Variant with a bug: the report does not count what failed.
FailQuietly(c) ==
    /\ blobJournal' = [blobJournal EXCEPT ![c] = "failed"]
    /\ command' = [command EXCEPT !.blob = Nothing, !.phase = "ready"]

\* The command goes on with the next blob.
Fail(c) ==
    /\ blobJournal' = [blobJournal EXCEPT ![c] = "failed"]
    /\ command' = [command EXCEPT !.blob = Nothing, !.phase = "ready", !.failed = TRUE]

RenameFails(c) ==
    /\ InPhase(c, "enqueued")
    /\ Old(c) \notin disk /\ New(c) \notin disk
    /\ Fail(c)
    /\ UNCHANGED <<refs, disk, trails, stops>>

\* repointBlobReferences, one transaction over HEADs and versions.
Repoint(c) ==
    /\ InPhase(c, "renamed")
    /\ refs' = IF Old(c) \in refs THEN (refs \ {Old(c)}) \cup {New(c)} ELSE refs
    /\ command' = [command EXCEPT !.phase = "repointed"]
    /\ UNCHANGED <<disk, blobJournal, trails, stops>>

\* Refused: the file gets its old name back.
RepointFails(c) ==
    /\ InPhase(c, "renamed")
    /\ stops < MaxStops
    /\ stops' = stops + 1
    /\ disk' = (disk \ {New(c)}) \cup {Old(c)}
    /\ Fail(c)
    /\ UNCHANGED <<refs, trails>>

\* MarkJournalDone, after the transaction.
MarkDone(c) ==
    /\ InPhase(c, "repointed")
    /\ blobJournal' = [blobJournal EXCEPT ![c] = "done"]
    /\ command' = [command EXCEPT !.blob = Nothing, !.phase = "ready"]
    /\ UNCHANGED <<refs, disk, trails, stops>>

EndCommand ==
    /\ Between /\ command.todo = {}
    /\ complete' = ~command.failed
    /\ command' = NoCommand
    /\ UNCHANGED <<refs, disk, blobJournal, collected, restored, stops>>

CommandDies ==
    /\ command # NoCommand
    /\ stops < MaxStops
    /\ stops' = stops + 1
    /\ complete' = FALSE
    /\ command' = NoCommand
    /\ UNCHANGED <<refs, disk, blobJournal, collected, restored>>

BlobInit ==
    /\ refs \in SUBSET {Old(c) : c \in Contents}
    /\ disk = refs
    /\ blobJournal = [c \in Contents |-> "none"]
    /\ command = NoCommand
    /\ complete = FALSE
    /\ collected = {}
    /\ restored = {}
    /\ stops = 0

RenameBlob(c) == Rename(c) \/ RenameFails(c)

BlobNext ==
    \/ \E c \in Contents :
          \/ Store(c) \/ RestoreRow(c)
          \/ SkipNew(c) \/ EnqueueBlob(c) \/ RenameBlob(c)
          \/ Repoint(c) \/ RepointFails(c) \/ MarkDone(c)
    \/ \E name \in BlobNames : ForgetRows(name) \/ CollectFile(name)
    \/ StartCommand \/ EndCommand \/ CommandDies

BlobSpec == BlobInit /\ [][BlobNext]_blobVars

(***************************************************************************)
(* Properties                                                              *)
(***************************************************************************)

BlobTypeOK ==
    /\ refs \subseteq BlobNames
    /\ disk \subseteq BlobNames
    /\ blobJournal \in [Contents -> {"none", "pending", "done", "failed"}]
    /\ command \in Progress \cup {NoCommand}
    /\ complete \in BOOLEAN
    /\ collected \subseteq Contents
    /\ restored \subseteq BlobNames
    /\ stops \in 0..MaxStops

Dangling == refs \ disk

Unfinished(c) == blobJournal[c] \in {"pending", "failed"}

\* "The journal knows how far it went": whenever a row names a file that is not
\* there, the journal has an unfinished entry for it and the content is there by
\* its other name, or the collector has taken it.
DanglingIsJournaled ==
    \A c \in Contents : (Dangling \ restored) \cap {Old(c), New(c)} # {} =>
        /\ Unfinished(c)
        /\ c \in collected \/ Old(c) \in disk \/ New(c) \in disk

\* A command that reports success has left no row of an old name.  (A file of an
\* old name that no row refers to may remain, for the collector.)
SuccessIsComplete == complete => \A c \in Contents : Old(c) \notin refs

\* What rows refer to is there by one name or the other.
ContentReachable ==
    \A c \in Contents : (refs \ restored) \cap {Old(c), New(c)} # {} =>
        Old(c) \in disk \/ New(c) \in disk
=============================================================================
