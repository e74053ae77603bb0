--------------------------- MODULE MCVaultAccess ---------------------------
(***************************************************************************)
(* A small instance of VaultAccess for TLC: two users, two devices, one    *)
(* invitation, and tokens narrowed to inviting others.                     *)
(***************************************************************************)
EXTENDS VaultAccess, TLC

CONSTANTS u1, u2, d1, d2, i1

AskedScopes == {{"pairing"}}

Interchangeable == Permutations({u1, u2}) \cup Permutations({d1, d2})
=============================================================================
