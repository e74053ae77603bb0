------------------------------- MODULE Naming -------------------------------
(***************************************************************************)
(* What the names of a vault promise its users while they are being        *)
(* sealed: every file and every deletion record keeps its real path        *)
(* through migration, takeover, abort and repetition, names are sealed one *)
(* by one, plain names and sealed names each stay unique among themselves, *)
(* and in a sealed vault there are no others.                              *)
(*                                                                         *)
(* There is no column, no HMAC, no journal, no lease and no operator here. *)
(* MetaMigration implements this specification.                            *)
(***************************************************************************)

VARIABLES
    files,              \* file id -> its real path, and whether its name is sealed
    graves,             \* the same of deletion records
    phase               \* "plain", "migrating", "verifying" or "encrypted"

Put(table, f, entry) ==
    [g \in DOMAIN table \cup {f} |-> IF g = f THEN entry ELSE table[g]]

Drop(table, f) == [g \in DOMAIN table \ {f} |-> table[g]]

\* Another has the same path under the same kind of name: all that the server can see.
Occupied(table, f, entry) == \E g \in DOMAIN table \ {f} : table[g] = entry

\* Nobody gets a plain name once the names are verified.
Allowed(entry) == entry.sealed \/ phase = "plain" \/ phase = "migrating"

Init == files = << >> /\ graves = << >> /\ phase = "plain"

\* A new file is never made on the path of a deletion record.
Create(f, entry) ==
    /\ f \notin DOMAIN files \cup DOMAIN graves
    /\ Allowed(entry)
    /\ ~ Occupied(files, f, entry)
    /\ ~ Occupied(graves, f, entry)
    /\ files' = Put(files, f, entry)
    /\ UNCHANGED <<graves, phase>>

\* Only the migration seals.
Move(f, entry) ==
    /\ f \in DOMAIN files
    /\ Allowed(entry)
    /\ entry.sealed => files[f].sealed
    /\ ~ Occupied(files, f, entry)
    /\ files' = [files EXCEPT ![f] = entry]
    /\ UNCHANGED <<graves, phase>>

Delete(f) ==
    /\ f \in DOMAIN files
    /\ graves' = Put(graves, f, files[f])
    /\ files' = Drop(files, f)
    /\ UNCHANGED phase

Revive(f, entry) ==
    /\ f \in DOMAIN graves
    /\ Allowed(entry)
    /\ ~ Occupied(files, f, entry)
    /\ files' = Put(files, f, entry)
    /\ graves' = Drop(graves, f)
    /\ UNCHANGED phase

Sealed(entry) == [path |-> entry.path, sealed |-> TRUE]

SealFile(f) ==
    /\ phase = "migrating"
    /\ f \in DOMAIN files
    /\ ~ Occupied(files, f, Sealed(files[f]))
    /\ files' = [files EXCEPT ![f] = Sealed(@)]
    /\ UNCHANGED <<graves, phase>>

SealGrave(f) ==
    /\ phase = "migrating"
    /\ f \in DOMAIN graves
    /\ graves' = [graves EXCEPT ![f] = Sealed(@)]
    /\ UNCHANGED <<files, phase>>

Verify == phase = "migrating" /\ phase' = "verifying" /\ UNCHANGED <<files, graves>>

Complete ==
    /\ phase = "verifying"
    /\ \A f \in DOMAIN files : files[f].sealed
    /\ \A f \in DOMAIN graves : graves[f].sealed
    /\ phase' = "encrypted"
    /\ UNCHANGED <<files, graves>>

\* The migration is begun or taken up again, or given up, by an operator even when
\* it is complete.
Begin == phase # "encrypted" /\ phase' = "migrating" /\ UNCHANGED <<files, graves>>

Abandon == phase' = "plain" /\ UNCHANGED <<files, graves>>

Next ==
    \/ \E f \in DOMAIN files' :
          \/ Create(f, files'[f])
          \/ Move(f, files'[f])
          \/ Revive(f, files'[f])
    \/ \E f \in DOMAIN files : Delete(f) \/ SealFile(f)
    \/ \E f \in DOMAIN graves : SealGrave(f)
    \/ Begin
    \/ Verify
    \/ Complete
    \/ Abandon

Spec == Init /\ [][Next]_<<files, graves, phase>>
=============================================================================
