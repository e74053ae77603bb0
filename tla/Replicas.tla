------------------------------ MODULE Replicas ------------------------------
(***************************************************************************)
(* What synchronisation promises to a device, whatever the server, the     *)
(* network and the retention of the log do to it: a vault that advances    *)
(* one object at a time, and copies of it each of which is, at any time,   *)
(* the whole vault as it was at one moment, and a moment that only moves   *)
(* forward.                                                                *)
(*                                                                         *)
(* There is no log here, no page, no watermark and no response on its way: *)
(* a copy jumps from one moment to a later one.  SyncProtocol implements   *)
(* this specification.                                                     *)
(***************************************************************************)
EXTENDS Integers

CONSTANTS
    Objects,            \* object identities
    Devices             \* holders of a copy

VARIABLES
    history,            \* history[n]: the vault after n commits
    copies,             \* copies[d]: what device d holds
    at                  \* at[d]: the moment of the history d is at

Empty == << >>

\* Moments reached so far.
Moments == DOMAIN history

IsNow(now) == now \in Moments /\ \A moment \in Moments : moment <= now

\* One object differs between two vaults, in what it is or in being there.
OneChange(f, before, after) ==
    /\ \A g \in Objects \ {f} :
          /\ g \in DOMAIN before <=> g \in DOMAIN after
          /\ g \in DOMAIN before => before[g] = after[g]
    /\ before # after

Init ==
    /\ history = [moment \in {0} |-> Empty]
    /\ copies = [d \in Devices |-> Empty]
    /\ at = [d \in Devices |-> 0]

\* Somebody changes one object.  What was stays as it was.
Commit(f) ==
    /\ \E now \in Moments :
          /\ IsNow(now)
          /\ DOMAIN history' = Moments \cup {now + 1}
          /\ OneChange(f, history[now], history'[now + 1])
    /\ \A moment \in Moments : history'[moment] = history[moment]
    /\ UNCHANGED <<copies, at>>

\* A device takes over the vault of a later moment.
CatchUp(d) ==
    /\ \E moment \in Moments :
          /\ at[d] <= moment
          /\ at' = [at EXCEPT ![d] = moment]
          /\ copies' = [copies EXCEPT ![d] = history[moment]]
    /\ UNCHANGED history

\* A device is told to forget the vault.
Leave(d) ==
    /\ at' = [at EXCEPT ![d] = 0]
    /\ copies' = [copies EXCEPT ![d] = Empty]
    /\ UNCHANGED history

Next ==
    \/ \E f \in Objects : Commit(f)
    \/ \E d \in Devices : CatchUp(d) \/ Leave(d)

Spec == Init /\ [][Next]_<<history, copies, at>>
=============================================================================
