--------------------------- MODULE MCObjectModel ---------------------------
(***************************************************************************)
(* A small instance of ObjectModel for TLC, in plain mode: two objects, the *)
(* names a, A and b where a and A fold to one collision key, a plaintext    *)
(* content and an LSE3 one of generation 1.  What holds in metadata mode is *)
(* proved with the rest.                                                    *)
(***************************************************************************)
EXTENDS ObjectModel, TLC

CONSTANTS f1, f2, d1

PlainKey == [n \in {"a", "A", "b"} |-> IF n = "b" THEN "k2" ELSE "k1"]

PlainGeneration == [c \in {"text", "v1"} |-> IF c = "text" THEN -1 ELSE 1]

PlainEnvelope == [c \in {"text", "v1"} |-> IF c = "text" THEN 0 ELSE 3]

\* The two fresh ids are interchangeable.
Ids == Permutations({f1, f2})
=============================================================================
