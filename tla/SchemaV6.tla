------------------------------ MODULE SchemaV6 ------------------------------
(***************************************************************************)
(* The migration of the v5 tables to the v6 object model, at start-up.     *)
(* v5 knows a file by its path; a row has a file id of its own only by     *)
(* convention, so that ids may be missing, malformed or used twice.  Every *)
(* start-up plans the migration afresh, draws new ids where it must, and   *)
(* moves object by object, each with its versions and its journal entry in *)
(* one transaction.  A crash, or a transaction that fails, ends the        *)
(* start-up; the next one starts over.                                     *)
(*                                                                         *)
(* Paths are numbers, in the order in which the tables are read, and stand *)
(* for all that fold to them; a path also stands for the content it had.   *)
(* The ledger of ids goes along with heads and records.  The upgrades of   *)
(* generations and key epochs that are read off the blobs are left out.    *)
(***************************************************************************)
EXTENDS Integers, Functions

CONSTANTS
    MaxPath,        \* bound on the paths of the v5 table
    MaxRevision,    \* bound on revisions
    FileIds,        \* well-formed file ids
    LegacyIds,      \* those that v5 rows may have
    BadId,          \* an id that is none: not 32 hex digits
    None,           \* no start-up under way
    MaxMishaps      \* bound on crashes and on transactions that fail

Paths == 1..MaxPath
Revisions == 1..MaxRevision

ASSUME SchemaAssumption ==
    /\ MaxPath \in Nat /\ MaxRevision \in Nat /\ MaxMishaps \in Nat
    /\ LegacyIds \subseteq FileIds /\ BadId \notin FileIds
    /\ \A S \in SUBSET Paths : None \notin [S -> FileIds]

VARIABLES
    files,          \* v5 files: path -> row
    history,        \* v5 file_versions
    schema,         \* "v5", "v6" once the old tables are renamed, "final"
                    \* once they are dropped
    plan,           \* the file ids of this start-up's plan, or None
    todo,           \* paths it has still to migrate
    journal,        \* migration_journal: entry -> stage
    heads,          \* file_heads: file id -> path and revision
    tombstones,     \* tombstones: file id -> path and revision
    versions,       \* object_versions
    mishaps         \* crashes, and transactions that failed for any reason

legacyVars == <<files, history>>
objectVars == <<heads, tombstones, versions>>
schemaVars == <<legacyVars, schema, plan, todo, journal, objectVars, mishaps>>

LegacyRow == [id : LegacyIds \cup {BadId}, deleted : BOOLEAN, revision : Revisions]
LegacyVersion == [path : Paths, id : LegacyIds \cup {BadId}, revision : Revisions]
ObjectRow == [path : Paths, revision : Revisions]
Version == [id : FileIds, revision : Revisions, path : Paths]

Entries == FileIds \X {"object", "tombstone"}
NoJournal == [e \in Entries |-> "none"]

Put(table, key, row) == [k \in DOMAIN table \cup {key} |-> IF k = key THEN row ELSE table[k]]

(***************************************************************************)
(* planV6                                                                  *)
(***************************************************************************)

Known == DOMAIN files
LivePaths == {p \in Known : ~files[p].deleted}
DeadPaths == {p \in Known : files[p].deleted}

\* The rows whose ids the pass has seen before p: live rows come first.
Before(p) ==
    IF files[p].deleted THEN LivePaths \cup {q \in DeadPaths : q < p}
    ELSE {q \in LivePaths : q < p}

\* A row keeps its id if it is one and no row before it has it.
KeepsId(p) ==
    /\ files[p].id \in FileIds
    /\ \A q \in Before(p) : files[q].id # files[p].id

\* NewFileID draws at random: no id the database knows.  One that only a left
\* over journal entry names may come again, for nothing reads that entry.
Fresh ==
    FileIds \ ({files[p].id : p \in Known} \cup {v.id : v \in history}
                  \cup DOMAIN heads \cup DOMAIN tombstones \cup {v.id : v \in versions})

\* Variant with a bug: records that MOVE has left behind are dropped.
GenuineRecords == {p \in DeadPaths : \E v \in history : v.path = p}

\* Every record is kept, a suspicious one for review.
PlannedRecords == DeadPaths

Plans ==
    {ids \in [LivePaths \cup PlannedRecords -> FileIds] :
        /\ \A p \in DOMAIN ids : IF KeepsId(p) THEN ids[p] = files[p].id ELSE ids[p] \in Fresh
        /\ \A p, q \in DOMAIN ids : ids[p] = ids[q] => p = q}

\* A version belongs to the object it names, else to the one of its path.
OwnerOf(v, ids) ==
    IF v.id \in FileIds THEN v.id
    ELSE IF v.path \in DOMAIN ids THEN ids[v.path] ELSE BadId

\* Read in the order of paths and revisions, the first version an object has
\* of a revision is the one that is kept.
PlannedVersions(id, ids) ==
    LET own == {v \in history : OwnerOf(v, ids) = id}
        first == {v \in own : \A w \in own : w.revision = v.revision => v.path <= w.path}
    IN  {[id |-> id, revision |-> v.revision, path |-> v.path] : v \in first}

\* InsertVersion leaves a version alone that is there.
WithVersions(id) ==
    versions \cup {v \in PlannedVersions(id, plan) :
                      \A w \in versions : w.id = v.id => w.revision # v.revision}

EntryOf(p) == <<plan[p], IF files[p].deleted THEN "tombstone" ELSE "object">>

\* Variant with a bug: an entry is entered as done.
EnteredAs == "done"

InitialStage == "pending"

\* EnqueueJournal leaves an entry alone that is there.
Enqueued(ids, paths) ==
    LET entries == {<<ids[p], IF files[p].deleted THEN "tombstone" ELSE "object">> : p \in paths}
    IN  [e \in Entries |->
            IF e \in entries /\ journal[e] = "none" THEN InitialStage ELSE journal[e]]

\* v5 has a version of a path and revision once, of paths without a row (orphans)
\* too, under the id of its object, the id of another or none.
SchemaInit ==
    /\ \E known \in SUBSET Paths : files \in [known -> LegacyRow]
    /\ history \in SUBSET LegacyVersion
    /\ \A v, w \in history : v.path = w.path /\ v.revision = w.revision => v = w
    /\ schema = "v5"
    /\ plan = None
    /\ todo = {}
    /\ journal = NoJournal
    /\ heads = << >>
    /\ tombstones = << >>
    /\ versions = {}
    /\ mishaps = 0

(***************************************************************************)
(* MigrateToV6                                                             *)
(***************************************************************************)

\* A start-up that finds v5 tables makes its plan and enters it.
StartUp ==
    /\ schema = "v5" /\ plan = None
    /\ plan' \in Plans
    /\ todo' = DOMAIN plan'
    /\ journal' = Enqueued(plan', DOMAIN plan')
    /\ UNCHANGED <<legacyVars, schema, objectVars, mishaps>>

\* The process dies while it enters the journal, statement by statement.
StartUpCut ==
    /\ schema = "v5" /\ plan = None
    /\ mishaps < MaxMishaps
    /\ mishaps' = mishaps + 1
    /\ \E ids \in Plans : \E paths \in SUBSET DOMAIN ids : journal' = Enqueued(ids, paths)
    /\ UNCHANGED <<legacyVars, schema, plan, todo, objectVars>>

\* Variant with a bug: an object that is there already stands in its own way.
TakenPath(p) == \E id \in DOMAIN heads : heads[id].path = p

\* The unique indexes on names and on collision keys.
PathTaken(p) == \E id \in DOMAIN heads \ {plan[p]} : heads[id].path = p

\* migrateOneObject: also what an earlier start-up has done is done again.
MigrateObject(p) ==
    /\ plan # None
    /\ p \in todo \cap LivePaths
    /\ ~PathTaken(p)
    /\ heads' = Put(heads, plan[p], [path |-> p, revision |-> files[p].revision])
    /\ versions' = WithVersions(plan[p])
    /\ journal' = [journal EXCEPT ![EntryOf(p)] = "done"]
    /\ todo' = todo \ {p}
    /\ UNCHANGED <<legacyVars, schema, plan, tombstones, mishaps>>

\* The start-up gives up on a row, what its transaction did is undone, and its
\* entry is marked, unless that fails too: nobody looks.
GiveUp(p) ==
    /\ journal' \in {journal, [journal EXCEPT ![EntryOf(p)] = "failed"]}
    /\ plan' = None
    /\ todo' = {}
    /\ UNCHANGED <<legacyVars, schema, objectVars>>

\* The indexes refuse the row.
ObjectRefused(p) ==
    /\ plan # None
    /\ p \in todo \cap LivePaths
    /\ PathTaken(p)
    /\ GiveUp(p)
    /\ UNCHANGED mishaps

\* The transaction of any row fails for any other reason, also that of one that
\* an earlier start-up has moved.
RowFails(p) ==
    /\ plan # None
    /\ p \in todo /\ (p \in DeadPaths => todo \cap LivePaths = {})
    /\ mishaps < MaxMishaps
    /\ mishaps' = mishaps + 1
    /\ GiveUp(p)

\* migrateOneTombstone, after the objects.
MigrateTombstone(p) ==
    /\ plan # None
    /\ todo \cap LivePaths = {} /\ p \in todo
    /\ tombstones' = Put(tombstones, plan[p], [path |-> p, revision |-> files[p].revision])
    /\ versions' = WithVersions(plan[p])
    /\ journal' = [journal EXCEPT ![EntryOf(p)] = "done"]
    /\ todo' = todo \ {p}
    /\ UNCHANGED <<legacyVars, schema, plan, heads, mishaps>>

\* The last transaction renames the old tables.
CompleteMigration ==
    /\ plan # None /\ todo = {}
    /\ schema' = "v6"
    /\ plan' = None
    /\ UNCHANGED <<legacyVars, todo, journal, objectVars, mishaps>>

\* FinalizeV6Migration drops the old tables. The command the comments name for it,
\* `obsync migration finalize`, does not exist, and only a test calls the function.
FinalizeMigration ==
    /\ schema = "v6"
    /\ schema' = "final"
    /\ journal' = NoJournal
    /\ UNCHANGED <<legacyVars, plan, todo, objectVars, mishaps>>

Crash ==
    /\ plan # None
    /\ mishaps < MaxMishaps
    /\ mishaps' = mishaps + 1
    /\ plan' = None
    /\ todo' = {}
    /\ UNCHANGED <<legacyVars, schema, journal, objectVars>>

Migrate ==
    \/ StartUp
    \/ \E p \in Paths : MigrateObject(p) \/ ObjectRefused(p) \/ MigrateTombstone(p)
    \/ CompleteMigration

SchemaNext ==
    \/ Migrate
    \/ StartUpCut \/ FinalizeMigration \/ Crash
    \/ \E p \in Paths : RowFails(p)

SchemaSpec == SchemaInit /\ [][SchemaNext]_schemaVars

\* The server is started again until it comes up.
FairSchemaSpec == SchemaSpec /\ WF_schemaVars(Migrate)

(***************************************************************************)
(* Properties                                                              *)
(***************************************************************************)

SchemaTypeOK ==
    /\ Known \subseteq Paths /\ files \in [Known -> LegacyRow]
    /\ history \subseteq LegacyVersion
    /\ schema \in {"v5", "v6", "final"}
    /\ plan # None => /\ DOMAIN plan \subseteq Known
                      /\ plan \in [DOMAIN plan -> FileIds]
                      /\ todo \subseteq DOMAIN plan
    /\ plan = None => todo = {}
    /\ journal \in [Entries -> {"none", "pending", "done", "failed"}]
    /\ DOMAIN heads \subseteq FileIds /\ heads \in [DOMAIN heads -> ObjectRow]
    /\ DOMAIN tombstones \subseteq FileIds /\ tombstones \in [DOMAIN tombstones -> ObjectRow]
    /\ versions \subseteq Version
    /\ mishaps \in 0..MaxMishaps

Row(p) == [path |-> p, revision |-> files[p].revision]

\* A version is of the object it names, else of the one of its path.
BelongsTo(v, id) ==
    IF v.id \in FileIds THEN v.id = id
    ELSE \/ id \in DOMAIN heads /\ heads[id].path = v.path
         \/ id \in DOMAIN tombstones /\ tombstones[id].path = v.path

\* What the old tables said, the new ones say when they take over, however
\* often the migration was cut short: each live path is one object and keeps
\* its revision, and each deletion is on record (against resurrection). An
\* object that has moved has its versions, be they under its id or only on its
\* path; of several for one revision it has that of the first path. Versions
\* that belong to no object do not move.
NothingLeftBehind ==
    /\ schema # "v5" =>
          /\ {heads[id] : id \in DOMAIN heads} = {Row(p) : p \in LivePaths}
          /\ \A a, b \in DOMAIN heads : heads[a].path = heads[b].path => a = b
          /\ {tombstones[id] : id \in DOMAIN tombstones} = {Row(p) : p \in DeadPaths}
    /\ \A v \in history, id \in DOMAIN heads \cup DOMAIN tombstones : BelongsTo(v, id) =>
          \E u \in history :
             /\ BelongsTo(u, id) /\ u.revision = v.revision /\ u.path <= v.path
             /\ [id |-> id, revision |-> u.revision, path |-> u.path] \in versions

\* Is the object, or the record, of an entry in the new tables?
HasMoved(e) == e[1] \in DOMAIN (IF e[2] = "object" THEN heads ELSE tombstones)

\* The journal never says done of what is not in the new tables, and knows of
\* everything that is: such an entry is done, or failed when a later start-up
\* went over it again and its transaction failed. Once the new tables take
\* over, all that is in them is done.
JournalTruthful ==
    schema # "final" => \A e \in Entries :
        /\ journal[e] = "done" => HasMoved(e)
        /\ HasMoved(e) => journal[e] = "done" \/ (schema = "v5" /\ journal[e] = "failed")

\* Every row has a good id of its own.
Clean == \A p \in Known : KeepsId(p)

\* Where the ids are good the server comes up in the end, however the process
\* died before and whatever transactions failed.
CleanMigrationEnds == Clean => <>(schema # "v5")

\* What CleanMigrationEnds rests on: a start-up over good rows finds a plan, and
\* the unique indexes never refuse a good row, whatever earlier start-ups have
\* moved of it and of the bad rows beside it.
GoodRowsPass ==
    schema = "v5" =>
        /\ Clean /\ plan = None => Plans # {}
        /\ plan # None => \A p \in todo \cap LivePaths : KeepsId(p) => ~PathTaken(p)

\* "Can be continued after a crash": the server comes up in the end.
MigrationEnds == <>(schema # "v5")
=============================================================================
