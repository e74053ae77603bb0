----------------------------- MODULE MCUpgrade ------------------------------
(***************************************************************************)
(* A small instance of Upgrade for TLC: two v5 paths with ids that are     *)
(* good, bad or used twice; the blob of the first one is followed. The     *)
(* rows have the revision 2. The first path has up to two versions without *)
(* an id, the second one of the later revision under the good id, which    *)
(* any row or none may have; each path may have versions and no row.       *)
(***************************************************************************)
EXTENDS Upgrade

CONSTANTS a, b, c

FirstBlob == {1}

SmallHistory ==
    {[path |-> 1, id |-> BadId, revision |-> 1], [path |-> 1, id |-> BadId, revision |-> 2],
     [path |-> 2, id |-> a, revision |-> 2]}

\* UpgradeSpec from the small tables.
SmallInit ==
    /\ UpgradeInit
    /\ \A p \in Known : files[p].revision = 2
    /\ history \subseteq SmallHistory

SmallSpec == SmallInit /\ [][UpgradeNext]_vars /\ WF_vars(Migrate /\ HandOver)
=============================================================================
