---------------------------- MODULE MCBlobStore ----------------------------
(***************************************************************************)
(* Small instances of BlobStore for TLC.                                   *)
(***************************************************************************)
EXTENDS BlobStore, TLC

CONSTANTS f1, f2, b1, b2

Interchangeable == Permutations({f1, f2}) \cup Permutations({b1, b2})
=============================================================================
