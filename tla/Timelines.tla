----------------------------- MODULE Timelines ------------------------------
(***************************************************************************)
(* What the repository epoch promises to devices, whatever is restored,    *)
(* moved away, put back or cut short: an epoch is the name of one history  *)
(* that only grows, a restore begins another one with a part of the past,  *)
(* and what a device has seen is how the history it follows begins.        *)
(*                                                                         *)
(* There is no directory here, no snapshot, no server that may be down and *)
(* no response on its way.  DisasterRecovery implements this               *)
(* specification.                                                          *)
(***************************************************************************)
EXTENDS Naturals, Sequences

CONSTANTS
    Devices

VARIABLES
    branches,           \* epoch -> the changes accepted in it, in order
    view                \* view[d]: the epoch device d follows and what it saw of it

Epochs == DOMAIN branches

Begins(part, log) ==
    /\ Len(part) <= Len(log)
    /\ \A s \in 1..Len(part) : part[s] = log[s]

Init ==
    /\ branches = [epoch \in {1} |-> << >>]
    /\ view = [d \in Devices |-> [epoch |-> 1, log |-> << >>]]

\* A write is accepted in one epoch.
Extend(epoch) ==
    /\ DOMAIN branches' = Epochs
    /\ Begins(branches[epoch], branches'[epoch])
    /\ Len(branches'[epoch]) = Len(branches[epoch]) + 1
    /\ \A other \in Epochs \ {epoch} : branches'[other] = branches[other]
    /\ UNCHANGED view

\* A restore, or a server without a past, begins an epoch that nobody had before.
Branch ==
    /\ \E epoch \in DOMAIN branches' \ Epochs :
          /\ DOMAIN branches' = Epochs \cup {epoch}
          /\ \/ branches'[epoch] = << >>
             \/ \E old \in Epochs : Begins(branches'[epoch], branches[old])
          /\ \A d \in Devices : view[d].epoch # epoch
    /\ \A old \in Epochs : branches'[old] = branches[old]
    /\ UNCHANGED view

Sees(d, seen) ==
    /\ seen.epoch \in Epochs
    /\ Begins(seen.log, branches[seen.epoch])
    /\ view' = [view EXCEPT ![d] = seen]
    /\ UNCHANGED branches

\* A device learns what came after what it saw.
Follow(d) ==
    /\ view'[d].epoch = view[d].epoch
    /\ Begins(view[d].log, view'[d].log)
    /\ Sees(d, view'[d])

\* It starts over only to follow another epoch.
Join(d) ==
    /\ view'[d].epoch # view[d].epoch
    /\ Sees(d, view'[d])

Next ==
    \/ \E epoch \in Epochs : Extend(epoch)
    \/ Branch
    \/ \E d \in Devices : Follow(d) \/ Join(d)

Spec == Init /\ [][Next]_<<branches, view>>
=============================================================================
