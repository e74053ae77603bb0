----------------------------- MODULE ObjectLife -----------------------------
(***************************************************************************)
(* What the v6 object model promises about one object, whatever requests   *)
(* arrive and in whatever order: the life of a file id.                    *)
(*                                                                         *)
(* An object is born at revision 1, every content change, deletion and     *)
(* restore takes the next revision, a rename takes the next metadata       *)
(* generation and leaves the revision alone, the content generation never  *)
(* goes back, a deleted object returns only under its own id at the next   *)
(* revision, and one whose deletion record has been purged never returns.  *)
(* The detailed specification ObjectModel implements this one.             *)
(***************************************************************************)
EXTENDS Integers

CONSTANTS
    FileIds,            \* object identities (16 random bytes in the program)
    Generations         \* content generations a client can write, 0 for none

VARIABLE life           \* life[f]: where object f stands

Absent == [phase |-> "absent"]
Purged == [phase |-> "purged"]
Alive(rev, gen, metaGen) ==
    [phase |-> "live", rev |-> rev, gen |-> gen, metaGen |-> metaGen]
Gone(rev, gen, metaGen) ==
    [phase |-> "deleted", rev |-> rev, gen |-> gen, metaGen |-> metaGen]

Become(f, state) == life' = [life EXCEPT ![f] = state]

Init == life = [f \in FileIds |-> Absent]

Create(f) ==
    /\ life[f] = Absent
    /\ \E gen \in Generations, metaGen \in {0, 1} : Become(f, Alive(1, gen, metaGen))

Edit(f) ==
    /\ life[f].phase = "live"
    /\ \E gen \in Generations :
          /\ gen >= life[f].gen
          /\ Become(f, Alive(life[f].rev + 1, gen, life[f].metaGen))

Rename(f) ==
    /\ life[f].phase = "live"
    /\ Become(f, Alive(life[f].rev, life[f].gen, life[f].metaGen + 1))

Delete(f) ==
    /\ life[f].phase = "live"
    /\ Become(f, Gone(life[f].rev + 1, life[f].gen, life[f].metaGen))

Restore(f) ==
    /\ life[f].phase = "deleted"
    /\ \E gen \in Generations :
          /\ gen >= life[f].gen
          /\ Become(f, Alive(life[f].rev + 1, gen, life[f].metaGen + 1))

Purge ==
    \E gone \in SUBSET {f \in FileIds : life[f].phase = "deleted"} :
        life' = [f \in FileIds |-> IF f \in gone THEN Purged ELSE life[f]]

Next ==
    \/ \E f \in FileIds :
          Create(f) \/ Edit(f) \/ Rename(f) \/ Delete(f) \/ Restore(f)
    \/ Purge

Spec == Init /\ [][Next]_life
=============================================================================
