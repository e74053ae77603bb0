--------------------------- MODULE MCSyncProtocol ---------------------------
(***************************************************************************)
(* Small instances of SyncProtocol for TLC: names are their own collision  *)
(* keys, contents are plaintext.                                           *)
(***************************************************************************)
EXTENDS SyncProtocol, TLC

CONSTANTS f1, f2, d1, d2, a, b, x, y, z

SelfKey == [n \in Names |-> n]

NoHeader == [c \in Contents |-> -1]

Plaintext == [c \in Contents |-> 0]

OperationIds == 1..MaxRequests

Interchangeable == Permutations({f1, f2}) \cup Permutations({d1, d2})
                     \cup Permutations({a, b}) \cup Permutations({x, y, z})
=============================================================================
