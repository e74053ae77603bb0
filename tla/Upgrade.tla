------------------------------ MODULE Upgrade -------------------------------
(***************************************************************************)
(* The two migrations of an upgrade, one after the other: the rows that    *)
(* SchemaV6 writes are the rows whose blobs BlobIds renames.  Until the    *)
(* new tables are complete the server does not come up and no command has  *)
(* rows to work on.                                                        *)
(***************************************************************************)
EXTENDS SchemaV6, BlobIds

ASSUME ContentAssumption == Contents \subseteq Paths

vars == <<schemaVars, blobVars>>

\* The contents that the rows of the v5 tables have.
LegacyContents == Contents \cap (LivePaths \cup {v.path : v \in history})

\* The contents that the rows of the new tables have.
MigratedContents ==
    Contents \cap ({heads[id].path : id \in DOMAIN heads} \cup {v.path : v \in versions})

UpgradeInit == SchemaInit /\ BlobInit /\ refs = {Old(c) : c \in LegacyContents}

\* The new tables take over with the names the v5 rows gave.
HandOver ==
    /\ refs' = IF schema = "v5" /\ schema' = "v6" THEN {Old(c) : c \in MigratedContents} ELSE refs
    /\ UNCHANGED <<disk, blobJournal, command, trails, stops>>

UpgradeNext ==
    \/ SchemaNext /\ HandOver
    \/ BlobNext /\ schema # "v5" /\ UNCHANGED schemaVars

\* The server is started again until it comes up; a command is run or not.
UpgradeSpec == UpgradeInit /\ [][UpgradeNext]_vars /\ WF_vars(Migrate /\ HandOver)
=============================================================================
