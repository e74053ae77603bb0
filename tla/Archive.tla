------------------------------ MODULE Archive -------------------------------
(***************************************************************************)
(* What content storage promises to a reader, whatever crashes, prunes,    *)
(* deduplicates or collects: objects with a content each, the records of   *)
(* their history, and the condition of every content that one of them      *)
(* needs.                                                                  *)
(*                                                                         *)
(* There is no directory here, no mutex, no ledger of candidates and no    *)
(* collector, and a write is one step.  A content in use is missing in two *)
(* cases only: a restore brought it back when it was gone, or it was       *)
(* damaged and a repair that set it aside did not finish.  No step loses   *)
(* an intact content in use.                                               *)
(* BlobStore implements this specification.                                *)
(***************************************************************************)
EXTENDS Integers

CONSTANTS
    Objects,            \* object identities
    Contents,           \* contents of objects
    NoContent           \* the content of the record of a deletion

VARIABLES
    objects,            \* file -> the object, live or deleted
    records,            \* the history: a set of [file, rev, content]
    condition           \* content in use -> "good", "damaged" or "missing"

Conditions == {"good", "damaged", "missing"}

Exists == DOMAIN objects

\* Contents that a live object or a record of the history has.
InUse ==
    {c \in Contents :
        \/ \E f \in Exists : objects[f].live /\ objects[f].content = c
        \/ \E r \in records : r.content = c}

Record(f, object) == [file |-> f, rev |-> object.rev, content |-> object.content]

NextRev(f) == IF f \in Exists THEN objects[f].rev + 1 ELSE 1

\* Pruning never takes the newest record of an object.
PrunedFrom(before, after) ==
    /\ after \subseteq before
    /\ \A r \in before \ after : \E s \in after : s.file = r.file /\ r.rev < s.rev

\* A content that stays in use stays as it is.
OthersAsBefore(changed) ==
    /\ DOMAIN condition' = InUse'
    /\ \A c \in (InUse \cap InUse') \ changed : condition'[c] = condition[c]
    /\ \A c \in InUse' : condition'[c] \in Conditions

Becomes(f, object) ==
    /\ f \in DOMAIN objects' /\ objects'[f] = object
    /\ DOMAIN objects' = Exists \cup {f}
    /\ \A g \in Exists \ {f} : objects'[g] = objects[g]

Init ==
    /\ objects = << >>
    /\ records = {}
    /\ condition = << >>

\* An upload is there once it is confirmed.  Old records may go at the same time.
Upload(f, c) ==
    /\ f \in Exists => objects[f].live
    /\ LET object == [live |-> TRUE, rev |-> NextRev(f), content |-> c]
       IN  /\ Becomes(f, object)
           /\ records' = records \/ PrunedFrom(records \cup {Record(f, object)}, records')
    /\ OthersAsBefore({})
    /\ condition'[c] # "missing"

\* A deletion keeps, for a restore, a content the object had.
Delete(f) ==
    /\ f \in Exists
    /\ objects[f].live
    /\ \E c \in {objects[f].content} \cup {r.content : r \in {s \in records : s.file = f}} :
          /\ c # NoContent
          /\ Becomes(f, [live |-> FALSE, rev |-> NextRev(f), content |-> c])
    /\ records' \in {records,
                     records \cup {[file |-> f, rev |-> NextRev(f), content |-> NoContent]}}
    /\ OthersAsBefore({})

\* A restored content may be found missing: nothing kept it for the object.
Restore(f) ==
    /\ f \in Exists
    /\ ~ objects[f].live
    /\ LET object == [live |-> TRUE, rev |-> NextRev(f), content |-> objects[f].content]
       IN  /\ Becomes(f, object)
           /\ records' \in {records, records \cup {Record(f, object)}}
    /\ OthersAsBefore({})

Prune ==
    /\ UNCHANGED objects
    /\ PrunedFrom(records, records')
    /\ OthersAsBefore({})

\* A verified copy replaces a damaged or missing one.
Mend(c) ==
    /\ UNCHANGED <<objects, records>>
    /\ condition[c] # "good" /\ condition'[c] = "good"
    /\ OthersAsBefore({c})

\* A repair begins: the damaged copy goes before the verified one is there.
SetAside(c) ==
    /\ UNCHANGED <<objects, records>>
    /\ condition[c] = "damaged" /\ condition'[c] = "missing"
    /\ OthersAsBefore({c})

\* The disk damages a content; it does not lose it.
Damage(c) ==
    /\ UNCHANGED <<objects, records>>
    /\ condition[c] = "good" /\ condition'[c] = "damaged"
    /\ OthersAsBefore({c})

Next ==
    \/ \E f \in Objects :
          \/ \E c \in Contents : Upload(f, c)
          \/ Delete(f)
          \/ Restore(f)
    \/ Prune
    \/ \E c \in InUse : Mend(c) \/ SetAside(c) \/ Damage(c)

Spec == Init /\ [][Next]_<<objects, records, condition>>
=============================================================================
