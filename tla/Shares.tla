------------------------------- MODULE Shares -------------------------------
(***************************************************************************)
(* Shared files: a row in the table shares and a ciphertext on the disk,   *)
(* kept together by no transaction.  Creation puts the ciphertext first;   *)
(* revocation, expiry and maintenance remove it; an administrator may      *)
(* extend a share whose ciphertext is still there.                         *)
(*                                                                         *)
(* Rows are inserted, extended, revoked and deleted under the service      *)
(* mutex.  Opening a share, the maintenance's list of shares and their     *)
(* removals of ciphertexts are not, so that extension and removal cross.   *)
(* Ids are random and name one share for ever.                             *)
(***************************************************************************)
EXTENDS Integers, Functions

CONSTANTS
    Ids,            \* share ids
    Readers,        \* requests that open a share at once
    None,           \* no operation under way
    Expiries,       \* expiry times that are asked for, 0 for never
    Retention,      \* metaRetention: how long the row of a dead share is kept
    MaxTime,        \* bound on the clock
    MaxFaults       \* bound on crashes and failed removals

\* A share that is created, or expires, by then is forgotten before the clock
\* stops.
Horizon == MaxTime - Retention - 1

ASSUME SharesAssumption ==
    /\ MaxTime \in Nat /\ MaxFaults \in Nat /\ Retention \in Nat
    /\ Expiries \subseteq 0..Horizon

VARIABLES
    now,
    rows,           \* shares: id -> row
    files,          \* ids of the ciphertexts in the directory
    drawn,          \* ids drawn so far: random ones, never twice
    extended,       \* shares ever extended (for the properties)
    creating,       \* rows to be inserted, their ciphertexts are in place
    holder,         \* the revocation or extension that holds the mutex
    reading,        \* reader -> the row it has read
    listed,         \* what maintenance means to do: id -> steps left
    swept,          \* rows maintenance has deleted, ciphertexts to go
    faults          \* crashes and failed removals so far

shareVars == <<rows, files, extended>>
requestVars == <<drawn, creating, holder, reading>>
maintenanceVars == <<listed, swept>>
vars == <<now, shareVars, requestVars, maintenanceVars, faults>>

Row == [expires : 0..MaxTime, created : 0..MaxTime, revoked : BOOLEAN]

Operation == [kind : {"revoke"}, id : Ids]
                \cup [kind : {"extend"}, id : Ids, expires : 0..MaxTime]

Known == DOMAIN rows

Put(table, id, row) == [i \in DOMAIN table \cup {id} |-> IF i = id THEN row ELSE table[i]]

Drop(table, id) == Restrict(table, DOMAIN table \ {id})

\* Variant with a bug: the last second of a share is one too late.
ExpiredAtLimit(row, t) == row.expires > 0 /\ t >= row.expires

\* The last second of a share is a good one; 0 is no limit.
Expired(row, t) == row.expires > 0 /\ t > row.expires

\* Variant with a bug: only what expired is ever forgotten.
ForgettableIfExpired(row, t) == Expired(row, t) /\ t - row.expires > Retention

\* maintainShares: dead since the expiry if it is the later, else the creation.
Forgettable(row, t) ==
    LET since == IF row.expires > row.created THEN row.expires ELSE row.created
    IN  (row.revoked \/ Expired(row, t)) /\ t - since > Retention

\* What maintenance does about a row of its list.
StepsFor(row, t) ==
    (IF Expired(row, t) /\ ~row.revoked THEN {"remove"} ELSE {})
        \cup (IF Forgettable(row, t) THEN {"forget"} ELSE {})

Unlocked == holder = None

\* A removal of a ciphertext, which may fail: no caller tries again.
Remove(id) ==
    \/ files' = files \ {id} /\ UNCHANGED faults
    \/ id \in files /\ faults < MaxFaults /\ faults' = faults + 1 /\ UNCHANGED files

Init ==
    /\ now = 0
    /\ rows = << >>
    /\ files = {}
    /\ drawn = {}
    /\ extended = {}
    /\ creating = << >>
    /\ holder = None
    /\ reading = [r \in Readers |-> None]
    /\ listed = << >>
    /\ swept = {}
    /\ faults = 0

Tick ==
    /\ now < MaxTime
    /\ now' = now + 1
    /\ UNCHANGED <<shareVars, requestVars, maintenanceVars, faults>>

(***************************************************************************)
(* Creation, revocation, extension                                         *)
(***************************************************************************)

\* createShare refuses an expiry that is not in the future; CreateShare puts
\* the ciphertext in place by a rename.
PutShare(id, expires) ==
    /\ id \notin drawn
    /\ now <= Horizon
    /\ expires = 0 \/ expires > now
    /\ drawn' = drawn \cup {id}
    /\ files' = files \cup {id}
    /\ creating' = Put(creating, id, [expires |-> expires, created |-> now, revoked |-> FALSE])
    /\ UNCHANGED <<now, rows, extended, holder, reading, maintenanceVars, faults>>

\* CreateShare goes on to insert the row, under the mutex.
InsertShare(id) ==
    /\ Unlocked
    /\ id \in DOMAIN creating
    /\ rows' = Put(rows, id, creating[id])
    /\ creating' = Drop(creating, id)
    /\ UNCHANGED <<now, files, extended, drawn, holder, reading, maintenanceVars, faults>>

\* The row cannot be inserted: CreateShare removes the ciphertext.
InsertFails(id) ==
    /\ Unlocked
    /\ id \in DOMAIN creating
    /\ Remove(id)
    /\ creating' = Drop(creating, id)
    /\ UNCHANGED <<now, rows, extended, drawn, holder, reading, maintenanceVars>>

\* RevokeShare marks the row, a second time as well,
MarkShareRevoked(id) ==
    /\ Unlocked
    /\ id \in Known
    /\ rows' = [rows EXCEPT ![id].revoked = TRUE]
    /\ holder' = [kind |-> "revoke", id |-> id]
    /\ UNCHANGED <<now, files, extended, drawn, creating, reading, maintenanceVars, faults>>

\* and removes the ciphertext.
RevokeShare ==
    /\ holder # None /\ holder.kind = "revoke"
    /\ Remove(holder.id)
    /\ holder' = None
    /\ UNCHANGED <<now, rows, extended, drawn, creating, reading, maintenanceVars>>

\* ExtendShare finds the share not revoked and its ciphertext in place,
CheckShare(id, expires) ==
    /\ Unlocked
    /\ expires > now
    /\ id \in Known /\ ~rows[id].revoked
    /\ id \in files
    /\ holder' = [kind |-> "extend", id |-> id, expires |-> expires]
    /\ UNCHANGED <<now, shareVars, drawn, creating, reading, maintenanceVars, faults>>

Later(row, expires) == row.expires = 0 \/ row.expires < expires

\* and writes the later expiry: UpdateShareExpiry.
ExtendShare ==
    /\ holder # None /\ holder.kind = "extend"
    /\ IF ~rows[holder.id].revoked /\ Later(rows[holder.id], holder.expires)
       THEN /\ rows' = [rows EXCEPT ![holder.id].expires = holder.expires]
            /\ extended' = extended \cup {holder.id}
       ELSE UNCHANGED <<rows, extended>>
    /\ holder' = None
    /\ UNCHANGED <<now, files, drawn, creating, reading, maintenanceVars, faults>>

(***************************************************************************)
(* Opening, without the mutex                                              *)
(***************************************************************************)

\* OpenShare reads the row; a share that is missing or revoked ends it.
ReadShare(r, id) ==
    /\ reading[r] = None
    /\ id \in Known /\ ~rows[id].revoked
    /\ reading' = [reading EXCEPT ![r] = [id |-> id, row |-> rows[id]]]
    /\ UNCHANGED <<now, shareVars, drawn, creating, holder, maintenanceVars, faults>>

\* It goes by the row it read: an expired share loses its ciphertext, else
\* the ciphertext is sent if it is there.
OpenShare(r) ==
    /\ reading[r] # None
    /\ reading' = [reading EXCEPT ![r] = None]
    /\ IF Expired(reading[r].row, now)
       THEN Remove(reading[r].id)
       ELSE UNCHANGED <<files, faults>>
    /\ UNCHANGED <<now, rows, extended, drawn, creating, holder, maintenanceVars>>

(***************************************************************************)
(* Maintenance                                                             *)
(***************************************************************************)

\* maintainShares lists the shares, without the mutex.
ListShares ==
    /\ listed = << >> /\ swept = {}
    /\ listed' = LET due == {id \in Known : StepsFor(rows[id], now) # {}}
                 IN  [id \in due |-> StepsFor(rows[id], now)]
    /\ UNCHANGED <<now, shareVars, requestVars, swept, faults>>

RemoveExpired(id) ==
    /\ id \in DOMAIN listed /\ "remove" \in listed[id]
    /\ Remove(id)
    /\ listed' = IF listed[id] = {"remove"} THEN Drop(listed, id)
                 ELSE [listed EXCEPT ![id] = {"forget"}]
    /\ UNCHANGED <<now, rows, extended, requestVars, swept>>

\* The row is deleted under the mutex, whatever it says by now.
ForgetShare(id) ==
    /\ Unlocked
    /\ id \in DOMAIN listed /\ listed[id] = {"forget"}
    /\ rows' = Drop(rows, id)
    /\ listed' = Drop(listed, id)
    /\ swept' = swept \cup {id}
    /\ UNCHANGED <<now, files, extended, requestVars, faults>>

SweepShare(id) ==
    /\ id \in swept
    /\ Remove(id)
    /\ swept' = swept \ {id}
    /\ UNCHANGED <<now, rows, extended, requestVars, listed>>

Crash ==
    /\ faults < MaxFaults
    /\ faults' = faults + 1
    /\ creating' = << >>
    /\ holder' = None
    /\ reading' = [r \in Readers |-> None]
    /\ listed' = << >>
    /\ swept' = {}
    /\ UNCHANGED <<now, shareVars, drawn>>

Maintain == ListShares \/ \E id \in Ids : RemoveExpired(id) \/ ForgetShare(id) \/ SweepShare(id)

Next ==
    \/ Tick
    \/ \E id \in Ids, expires \in Expiries : PutShare(id, expires)
    \/ \E id \in Ids : InsertShare(id)
    \/ \E id \in Ids : InsertFails(id)
    \/ \E id \in Ids : MarkShareRevoked(id)
    \/ RevokeShare
    \/ \E id \in Ids, expires \in Expiries : CheckShare(id, expires)
    \/ ExtendShare
    \/ \E r \in Readers, id \in Ids : ReadShare(r, id)
    \/ \E r \in Readers : OpenShare(r)
    \/ Maintain
    \/ Crash

Spec == Init /\ [][Next]_vars

\* Time passes, maintenance runs on its timer, and an operation that holds the
\* mutex comes to its end.  Clients need not do anything, and may ask for the
\* mutex again and again: a Go mutex is handed to one who waits too long.
FairSpec ==
    /\ Spec
    /\ WF_vars(Tick)
    /\ SF_vars(Maintain)
    /\ WF_vars(RevokeShare \/ ExtendShare)

(***************************************************************************)
(* Properties                                                              *)
(***************************************************************************)

TypeOK ==
    /\ now \in 0..MaxTime
    /\ Known \subseteq Ids /\ rows \in [Known -> Row]
    /\ files \subseteq drawn /\ drawn \subseteq Ids
    /\ extended \subseteq Ids
    /\ DOMAIN creating \subseteq Ids /\ creating \in [DOMAIN creating -> Row]
    /\ holder \in Operation \cup {None}
    /\ reading \in [Readers -> [id : Ids, row : Row] \cup {None}]
    /\ DOMAIN listed \subseteq Ids /\ listed \in [DOMAIN listed -> SUBSET {"remove", "forget"}]
    /\ swept \subseteq Ids
    /\ faults \in 0..MaxFaults

\* The row promises that the link works: not revoked, and not past its expiry.
Promised(row) == ~row.revoked /\ (row.expires = 0 \/ now <= row.expires)

\* A share that nobody extended keeps its ciphertext to its last second,
\* whatever readers and maintenance decided by rows they read long ago, and
\* although a crash may end its creation anywhere.
PromiseKept ==
    \A id \in Known \ extended : Promised(rows[id]) => id \in files

\* The confirmation of ExtendShare, "make sure the ciphertext is there first,
\* then change the database", is to spare users an extended share that points
\* to a ciphertext which is gone.
ExtensionKept ==
    \A id \in Known : Promised(rows[id]) => id \in files

\* The ciphertext of a share that was revoked or expired goes in the end,
\* also if one removal fails or one crash comes between, unless the share was
\* extended again.
DeadCiphertextCollected ==
    \A id \in Ids :
        (id \in Known /\ ~Promised(rows[id]))
            ~> (id \notin files \/ (id \in Known /\ Promised(rows[id])))
=============================================================================
