-------------------------- MODULE MCMetaMigration --------------------------
(***************************************************************************)
(* Small instances of MetaMigration for TLC.                               *)
(***************************************************************************)
EXTENDS MetaMigration, TLC

CONSTANTS f1, f2, p1, d1, d2

Interchangeable == Permutations({f1, f2}) \cup Permutations({d1, d2})
=============================================================================
