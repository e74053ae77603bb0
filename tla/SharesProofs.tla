---------------------------- MODULE SharesProofs ----------------------------
(***************************************************************************)
(* Theorems about Shares, for every set of ids and readers, all times and  *)
(* any number of crashes and failed removals.                              *)
(*                                                                         *)
(* A share keeps its ciphertext because every decision to remove it that   *)
(* is still under way rests on something that stays true of a share nobody *)
(* extends: that it was revoked, that its expiry has passed, that its row  *)
(* is gone.  An id that is only being created is in none of them.          *)
(***************************************************************************)
EXTENDS Shares, TLAPS

USE SharesAssumption

\* An operation under way speaks of the id.
Handles(id) ==
    \/ holder # None /\ holder.id = id
    \/ id \in DOMAIN listed \cup swept
    \/ \E r \in Readers : reading[r] # None /\ reading[r].id = id

\* An id that is being created is nobody else's, and has its ciphertext.
CreatedApart ==
    /\ DOMAIN creating \subseteq files
    /\ Known \cup DOMAIN creating \subseteq drawn
    /\ DOMAIN creating \cap Known = {}
    /\ \A id \in Ids : Handles(id) => id \in drawn \ DOMAIN creating

\* What a revocation, a reader and maintenance rest on.
DecisionsHold ==
    /\ holder # None /\ holder.kind = "revoke" /\ holder.id \in Known => rows[holder.id].revoked
    /\ \A r \in Readers :
          reading[r] # None /\ reading[r].id \in Known \ extended
              => rows[reading[r].id].expires = reading[r].row.expires
    /\ \A id \in DOMAIN listed \cap (Known \ extended) : ~Promised(rows[id])
    /\ swept \cap Known = {}

IInv == TypeOK /\ CreatedApart /\ DecisionsHold /\ PromiseKept

-----------------------------------------------------------------------------
\* A row put in a table.
LEMMA PutRow ==
    ASSUME NEW table, NEW id, NEW row
    PROVE  /\ DOMAIN Put(table, id, row) = DOMAIN table \cup {id}
           /\ Put(table, id, row)[id] = row
           /\ \A i \in DOMAIN table \ {id} : Put(table, id, row)[i] = table[i]
BY DEF Put

\* A row dropped from a table.
LEMMA DropRow ==
    ASSUME NEW table, NEW id
    PROVE  /\ DOMAIN Drop(table, id) = DOMAIN table \ {id}
           /\ \A i \in DOMAIN table \ {id} : Drop(table, id)[i] = table[i]
BY DEF Drop, Restrict

\* A table stays one.
LEMMA DropTable ==
    ASSUME NEW S, NEW table, table \in [DOMAIN table -> S], NEW id
    PROVE  Drop(table, id) \in [DOMAIN Drop(table, id) -> S]
BY DEF Drop, Restrict

\* A removal takes one ciphertext or none.
LEMMA RemoveTakes ==
    ASSUME NEW id, Remove(id)
    PROVE  files \ {id} \subseteq files' /\ files' \subseteq files
BY DEF Remove

-----------------------------------------------------------------------------
\* Initially nothing is shared.
LEMMA InitIInv == Init => IInv
<1> SUFFICES ASSUME Init PROVE IInv
  OBVIOUS
<1>1. TypeOK
  BY DEF Init, TypeOK, Known
<1>2. CreatedApart /\ DecisionsHold /\ PromiseKept
  BY DEF Init, CreatedApart, DecisionsHold, PromiseKept, Known, Handles
<1> QED BY <1>1, <1>2 DEF IInv

-----------------------------------------------------------------------------
(***************************************************************************)
(* Types                                                                   *)
(***************************************************************************)

\* Failures are counted within their bound.
LEMMA RemoveTypes ==
    ASSUME TypeOK, NEW id, Remove(id)
    PROVE  files' \subseteq files /\ faults' \in 0..MaxFaults
BY DEF TypeOK, Remove

\* Every step leaves everything well-typed.
LEMMA StepTypes == TypeOK /\ [Next]_vars => TypeOK'
<1> SUFFICES ASSUME TypeOK, [Next]_vars PROVE TypeOK'
  OBVIOUS
<1> USE DEF Known
<1>1. CASE Tick
  BY <1>1 DEF TypeOK, Tick, shareVars, requestVars, maintenanceVars
<1>2. ASSUME NEW id \in Ids, NEW expires \in Expiries, PutShare(id, expires) PROVE TypeOK'
  <2>1. [expires |-> expires, created |-> now, revoked |-> FALSE] \in Row
    BY DEF TypeOK, Row, Horizon
  <2>2. DOMAIN creating' \subseteq Ids /\ creating' \in [DOMAIN creating' -> Row]
    BY <1>2, <2>1 DEF TypeOK, PutShare, Put
  <2> QED BY <1>2, <2>2 DEF TypeOK, PutShare, maintenanceVars
<1>3. ASSUME NEW id \in Ids, InsertShare(id) PROVE TypeOK'
  <2>1. creating[id] \in Row
    BY <1>3 DEF TypeOK, InsertShare
  <2>2. DOMAIN rows' \subseteq Ids /\ rows' \in [DOMAIN rows' -> Row]
    BY <1>3, <2>1 DEF TypeOK, InsertShare, Put
  <2>3. DOMAIN creating' \subseteq Ids /\ creating' \in [DOMAIN creating' -> Row]
    BY <1>3, DropRow, DropTable DEF TypeOK, InsertShare
  <2> QED BY <1>3, <2>2, <2>3 DEF TypeOK, InsertShare, maintenanceVars
<1>4. ASSUME NEW id \in Ids, InsertFails(id) PROVE TypeOK'
  <2>1. DOMAIN creating' \subseteq Ids /\ creating' \in [DOMAIN creating' -> Row]
    BY <1>4, DropRow, DropTable DEF TypeOK, InsertFails
  <2> QED BY <1>4, <2>1, RemoveTypes DEF TypeOK, InsertFails, maintenanceVars
<1>5. ASSUME NEW id \in Ids, MarkShareRevoked(id) PROVE TypeOK'
  <2>1. [kind |-> "revoke", id |-> id] \in Operation
    BY DEF Operation
  <2>2. DOMAIN rows' = DOMAIN rows /\ rows' \in [DOMAIN rows -> Row]
    BY <1>5 DEF TypeOK, MarkShareRevoked, Row
  <2> QED BY <1>5, <2>1, <2>2 DEF TypeOK, MarkShareRevoked, maintenanceVars
<1>6. CASE RevokeShare
  BY <1>6, RemoveTypes DEF TypeOK, RevokeShare, maintenanceVars
<1>7. ASSUME NEW id \in Ids, NEW expires \in Expiries, CheckShare(id, expires) PROVE TypeOK'
  <2>1. [kind |-> "extend", id |-> id, expires |-> expires] \in Operation
    BY DEF Operation, Horizon
  <2> QED BY <1>7, <2>1 DEF TypeOK, CheckShare, maintenanceVars, shareVars
<1>8. CASE ExtendShare
  <2>1. holder.id \in Ids /\ holder.expires \in 0..MaxTime
    BY <1>8 DEF TypeOK, ExtendShare, Operation
  <2>2. DOMAIN rows' \subseteq Ids /\ rows' \in [DOMAIN rows' -> Row]
    BY <1>8, <2>1 DEF TypeOK, ExtendShare, Row
  <2> QED BY <1>8, <2>1, <2>2 DEF TypeOK, ExtendShare, maintenanceVars
<1>9. ASSUME NEW r \in Readers, NEW id \in Ids, ReadShare(r, id) PROVE TypeOK'
  <2>1. [id |-> id, row |-> rows[id]] \in [id : Ids, row : Row]
    BY <1>9 DEF TypeOK, ReadShare
  <2> QED BY <1>9, <2>1 DEF TypeOK, ReadShare, maintenanceVars, shareVars
<1>10. ASSUME NEW r \in Readers, OpenShare(r) PROVE TypeOK'
  <2>1. files' \subseteq files /\ faults' \in 0..MaxFaults
    BY <1>10, RemoveTypes DEF TypeOK, OpenShare
  <2> QED BY <1>10, <2>1 DEF TypeOK, OpenShare, maintenanceVars
<1>11. CASE ListShares
  <2>1. \A id \in Known : StepsFor(rows[id], now) \in SUBSET {"remove", "forget"}
    BY DEF StepsFor
  <2> QED BY <1>11, <2>1 DEF TypeOK, ListShares, shareVars, requestVars
<1>12. ASSUME NEW id \in Ids, RemoveExpired(id) PROVE TypeOK'
  <2>1. /\ DOMAIN listed' \subseteq Ids
        /\ listed' \in [DOMAIN listed' -> SUBSET {"remove", "forget"}]
    <3>1. CASE listed[id] = {"remove"}
      BY <1>12, <3>1, DropRow, DropTable DEF TypeOK, RemoveExpired
    <3>2. CASE listed[id] # {"remove"}
      BY <1>12, <3>2 DEF TypeOK, RemoveExpired
    <3> QED BY <3>1, <3>2
  <2> QED BY <1>12, <2>1, RemoveTypes DEF TypeOK, RemoveExpired, requestVars
<1>13. ASSUME NEW id \in Ids, ForgetShare(id) PROVE TypeOK'
  <2>1. DOMAIN rows' \subseteq Ids /\ rows' \in [DOMAIN rows' -> Row]
    BY <1>13, DropRow, DropTable DEF TypeOK, ForgetShare
  <2>2. /\ DOMAIN listed' \subseteq Ids
        /\ listed' \in [DOMAIN listed' -> SUBSET {"remove", "forget"}]
    BY <1>13, DropRow, DropTable DEF TypeOK, ForgetShare
  <2> QED BY <1>13, <2>1, <2>2 DEF TypeOK, ForgetShare, requestVars
<1>14. ASSUME NEW id \in Ids, SweepShare(id) PROVE TypeOK'
  BY <1>14, RemoveTypes DEF TypeOK, SweepShare, requestVars
<1>15. CASE Crash
  BY <1>15 DEF TypeOK, Crash, shareVars
<1>16. CASE UNCHANGED vars
  BY <1>16 DEF TypeOK, vars, shareVars, requestVars, maintenanceVars
<1> QED
  BY <1>1, <1>2, <1>3, <1>4, <1>5, <1>6, <1>7, <1>8, <1>9, <1>10, <1>11, <1>12, <1>13, <1>14,
     <1>15, <1>16 DEF Next, Maintain

-----------------------------------------------------------------------------
(***************************************************************************)
(* Ids that are being created                                              *)
(***************************************************************************)

\* What a removal takes is no id that is being created.
LEMMA RemoveKeepsApart ==
    ASSUME CreatedApart, NEW id \in Ids, Remove(id),
           id \notin DOMAIN creating',
           UNCHANGED <<drawn, rows>>, DOMAIN creating' \subseteq DOMAIN creating,
           \A i \in Ids : Handles(i)' => Handles(i)
    PROVE  CreatedApart'
BY RemoveTakes DEF CreatedApart, Known

\* Every step keeps the ids that are being created apart.
LEMMA StepKeepsApart ==
    ASSUME TypeOK, CreatedApart, [Next]_vars
    PROVE  CreatedApart'
<1> USE DEF Known
<1>1. CASE Tick
  BY <1>1 DEF CreatedApart, Handles, Tick, shareVars, requestVars, maintenanceVars
<1>2. ASSUME NEW id \in Ids, NEW expires \in Expiries, PutShare(id, expires) PROVE CreatedApart'
  <2>1. DOMAIN creating' = DOMAIN creating \cup {id}
    BY <1>2, PutRow DEF PutShare
  <2>2. \A i \in Ids : Handles(i)' <=> Handles(i)
    BY <1>2 DEF Handles, PutShare, maintenanceVars
  <2> QED BY <1>2, <2>1, <2>2 DEF CreatedApart, PutShare
<1>3. ASSUME NEW id \in Ids, InsertShare(id) PROVE CreatedApart'
  <2>1. DOMAIN creating' = DOMAIN creating \ {id} /\ DOMAIN rows' = DOMAIN rows \cup {id}
    BY <1>3, PutRow, DropRow DEF InsertShare
  <2>2. \A i \in Ids : Handles(i)' <=> Handles(i)
    BY <1>3 DEF Handles, InsertShare, maintenanceVars
  <2> QED BY <1>3, <2>1, <2>2 DEF CreatedApart, InsertShare
<1>4. ASSUME NEW id \in Ids, InsertFails(id) PROVE CreatedApart'
  <2>1. DOMAIN creating' = DOMAIN creating \ {id}
    BY <1>4, DropRow DEF InsertFails
  <2>2. \A i \in Ids : Handles(i)' <=> Handles(i)
    BY <1>4 DEF Handles, InsertFails, maintenanceVars
  <2> QED BY <1>4, <2>1, <2>2, RemoveKeepsApart DEF InsertFails
<1>5. ASSUME NEW id \in Ids, MarkShareRevoked(id) PROVE CreatedApart'
  <2>1. DOMAIN rows' = DOMAIN rows
    BY <1>5 DEF MarkShareRevoked
  <2>2. \A i \in Ids : Handles(i)' => Handles(i) \/ i = id
    BY <1>5 DEF Handles, MarkShareRevoked, maintenanceVars
  <2>3. id \in drawn \ DOMAIN creating
    BY <1>5 DEF CreatedApart, MarkShareRevoked
  <2> QED BY <1>5, <2>1, <2>2, <2>3 DEF CreatedApart, MarkShareRevoked
<1>6. CASE RevokeShare
  <2>1. \A i \in Ids : Handles(i)' => Handles(i)
    BY <1>6 DEF Handles, RevokeShare, maintenanceVars
  <2>2. holder.id \in Ids /\ Handles(holder.id)
    BY <1>6 DEF Handles, RevokeShare, TypeOK, Operation
  <2>3. holder.id \notin DOMAIN creating
    BY <2>2 DEF CreatedApart
  <2> QED BY <1>6, <2>1, <2>2, <2>3, RemoveKeepsApart DEF RevokeShare
<1>7. ASSUME NEW id \in Ids, NEW expires \in Expiries, CheckShare(id, expires) PROVE CreatedApart'
  <2>1. \A i \in Ids : Handles(i)' => Handles(i) \/ i = id
    BY <1>7 DEF Handles, CheckShare, maintenanceVars
  <2>2. id \in drawn \ DOMAIN creating
    BY <1>7 DEF CreatedApart, CheckShare
  <2> QED BY <1>7, <2>1, <2>2 DEF CreatedApart, CheckShare, shareVars
<1>8. CASE ExtendShare
  <2>1. \A i \in Ids : Handles(i)' => Handles(i)
    BY <1>8 DEF Handles, ExtendShare, maintenanceVars
  <2>2. DOMAIN rows' = DOMAIN rows
    BY <1>8 DEF ExtendShare
  <2> QED BY <1>8, <2>1, <2>2 DEF CreatedApart, ExtendShare
<1>9. ASSUME NEW r \in Readers, NEW id \in Ids, ReadShare(r, id) PROVE CreatedApart'
  <2>1. \A i \in Ids : Handles(i)' => Handles(i) \/ i = id
    BY <1>9 DEF Handles, ReadShare, maintenanceVars, TypeOK
  <2>2. id \in drawn \ DOMAIN creating
    BY <1>9 DEF CreatedApart, ReadShare
  <2> QED BY <1>9, <2>1, <2>2 DEF CreatedApart, ReadShare, shareVars
<1>10. ASSUME NEW r \in Readers, OpenShare(r) PROVE CreatedApart'
  <2>1. \A i \in Ids : Handles(i)' => Handles(i)
    BY <1>10 DEF Handles, OpenShare, maintenanceVars, TypeOK
  <2>2. reading[r].id \in Ids /\ Handles(reading[r].id)
    BY <1>10 DEF Handles, OpenShare, TypeOK
  <2>3. reading[r].id \notin DOMAIN creating
    BY <2>2 DEF CreatedApart
  <2>4. CASE Remove(reading[r].id)
    BY <1>10, <2>1, <2>2, <2>3, <2>4, RemoveKeepsApart DEF OpenShare
  <2>5. CASE UNCHANGED files
    BY <1>10, <2>1, <2>5 DEF OpenShare, CreatedApart
  <2> QED BY <1>10, <2>4, <2>5 DEF OpenShare
<1>11. CASE ListShares
  <2>1. DOMAIN listed' \subseteq DOMAIN rows
    BY <1>11 DEF ListShares
  <2>2. \A i \in Ids : Handles(i)' => Handles(i) \/ i \in DOMAIN rows
    BY <1>11, <2>1 DEF Handles, ListShares, requestVars
  <2> QED BY <1>11, <2>2 DEF ListShares, CreatedApart, shareVars, requestVars
<1>12. ASSUME NEW id \in Ids, RemoveExpired(id) PROVE CreatedApart'
  <2>1. DOMAIN listed' \subseteq DOMAIN listed
    BY <1>12, DropRow DEF RemoveExpired
  <2>2. \A i \in Ids : Handles(i)' => Handles(i)
    BY <1>12, <2>1 DEF Handles, RemoveExpired, requestVars
  <2>3. id \notin DOMAIN creating
    BY <1>12 DEF RemoveExpired, CreatedApart, Handles
  <2> QED BY <1>12, <2>2, <2>3, RemoveKeepsApart DEF RemoveExpired, requestVars
<1>13. ASSUME NEW id \in Ids, ForgetShare(id) PROVE CreatedApart'
  <2>1. DOMAIN listed' = DOMAIN listed \ {id} /\ DOMAIN rows' = DOMAIN rows \ {id}
    BY <1>13, DropRow DEF ForgetShare
  <2>2. \A i \in Ids : Handles(i)' => Handles(i)
    BY <1>13, <2>1 DEF Handles, ForgetShare, requestVars
  <2> QED BY <1>13, <2>1, <2>2 DEF ForgetShare, CreatedApart, requestVars
<1>14. ASSUME NEW id \in Ids, SweepShare(id) PROVE CreatedApart'
  <2>1. \A i \in Ids : Handles(i)' => Handles(i)
    BY <1>14 DEF Handles, SweepShare, requestVars
  <2>2. id \notin DOMAIN creating
    BY <1>14 DEF SweepShare, CreatedApart, Handles
  <2> QED BY <1>14, <2>1, <2>2, RemoveKeepsApart DEF SweepShare, requestVars
<1>15. CASE Crash
  BY <1>15 DEF Crash, CreatedApart, Handles, shareVars
<1>16. CASE UNCHANGED vars
  BY <1>16 DEF CreatedApart, Handles, vars, shareVars, requestVars, maintenanceVars
<1> QED
  BY <1>1, <1>2, <1>3, <1>4, <1>5, <1>6, <1>7, <1>8, <1>9, <1>10, <1>11, <1>12, <1>13, <1>14,
     <1>15, <1>16 DEF Next, Maintain

-----------------------------------------------------------------------------
(***************************************************************************)
(* Decisions and promises                                                  *)
(***************************************************************************)

\* The promise of a row depends on the row and the time, and is not renewed.
LEMMA TimeBreaksPromises ==
    ASSUME TypeOK, NEW id \in Known, Promised(rows[id])',
           rows'[id] = rows[id], now' \in Nat, now <= now'
    PROVE  Promised(rows[id])
BY DEF Promised, TypeOK, Row

\* Where time, rows and extensions stay, what was decided holds of what is left.
LEMMA FewerDecisionsHold ==
    ASSUME DecisionsHold, UNCHANGED <<now, rows, extended>>,
           holder' \in {holder, None},
           \A r \in Readers : reading'[r] \in {reading[r], None},
           DOMAIN listed' \subseteq DOMAIN listed,
           swept' \subseteq swept
    PROVE  DecisionsHold'
BY DEF DecisionsHold, Known, Promised

\* Where a ciphertext goes, the share that loses it has no promise.
LEMMA RemovalBreaksNone ==
    ASSUME PromiseKept, NEW id, Remove(id), UNCHANGED <<now, rows, extended>>,
           id \in Known \ extended => ~Promised(rows[id])
    PROVE  PromiseKept'
BY RemoveTakes DEF PromiseKept, Known, Promised

\* Every step leaves what is decided true, and every promise kept.
LEMMA StepKeepsPromises ==
    ASSUME IInv, [Next]_vars
    PROVE  DecisionsHold' /\ PromiseKept'
<1> USE DEF IInv
<1>1. CASE Tick
  <2>1. \A id \in Known : rows'[id] = rows[id] /\ now' \in Nat /\ now <= now'
    BY <1>1 DEF Tick, shareVars, TypeOK
  <2>2. \A id \in Known : Promised(rows[id])' => Promised(rows[id])
    BY <2>1, TimeBreaksPromises
  <2>3. PromiseKept'
    BY <1>1, <2>2 DEF PromiseKept, Tick, shareVars, Known
  <2>4. DecisionsHold'
    BY <1>1, <2>2 DEF DecisionsHold, Tick, shareVars, requestVars, maintenanceVars, Known
  <2> QED BY <2>3, <2>4
<1>2. ASSUME NEW id \in Ids, NEW expires \in Expiries, PutShare(id, expires)
      PROVE  DecisionsHold' /\ PromiseKept'
  <2>1. DecisionsHold'
    BY <1>2, FewerDecisionsHold DEF PutShare, maintenanceVars
  <2> QED BY <1>2, <2>1 DEF PutShare, PromiseKept, Known, Promised
<1>3. ASSUME NEW id \in Ids, InsertShare(id) PROVE DecisionsHold' /\ PromiseKept'
  <2>1. /\ DOMAIN rows' = DOMAIN rows \cup {id}
        /\ \A i \in DOMAIN rows : i # id /\ rows'[i] = rows[i]
    <3>1. id \notin DOMAIN rows
      BY <1>3 DEF InsertShare, CreatedApart, Known
    <3>2. rows' = Put(rows, id, creating[id])
      BY <1>3 DEF InsertShare
    <3>3. DOMAIN rows' = DOMAIN rows \cup {id}
      BY <3>2, PutRow
    <3>4. \A i \in DOMAIN rows \ {id} : rows'[i] = rows[i]
      BY <3>2 DEF Put
    <3>5. \A i \in DOMAIN rows : i # id
      BY <3>1
    <3>6. \A i \in DOMAIN rows : rows'[i] = rows[i]
      BY <3>4, <3>5
    <3> QED BY <3>3, <3>5, <3>6
  <2>2. ~Handles(id) /\ id \in files
    BY <1>3 DEF InsertShare, CreatedApart
  <2>3. PromiseKept'
    BY <1>3, <2>1, <2>2 DEF InsertShare, PromiseKept, Known, Promised
  <2>4. holder' = None
    BY <1>3 DEF InsertShare, Unlocked
  <2>5. \A r \in Readers : reading[r] # None => reading[r].id # id
    BY <2>2 DEF Handles
  <2>6. id \notin DOMAIN listed \cup swept
    BY <2>2 DEF Handles
  <2>7. DecisionsHold'
    BY <1>3, <2>1, <2>4, <2>5, <2>6 DEF InsertShare, DecisionsHold, Known, Promised, maintenanceVars
  <2> QED BY <2>3, <2>7
<1>4. ASSUME NEW id \in Ids, InsertFails(id) PROVE DecisionsHold' /\ PromiseKept'
  <2>1. DecisionsHold'
    BY <1>4, FewerDecisionsHold DEF InsertFails, maintenanceVars
  <2>2. id \notin Known
    BY <1>4 DEF InsertFails, CreatedApart
  <2> QED BY <1>4, <2>1, <2>2, RemovalBreaksNone DEF InsertFails
<1>5. ASSUME NEW id \in Ids, MarkShareRevoked(id) PROVE DecisionsHold' /\ PromiseKept'
  <2>1. /\ DOMAIN rows' = DOMAIN rows
        /\ rows'[id].revoked
        /\ \A i \in DOMAIN rows : rows'[i].expires = rows[i].expires
        /\ \A i \in DOMAIN rows \ {id} : rows'[i] = rows[i]
    BY <1>5 DEF MarkShareRevoked, TypeOK, Row, Known
  <2>2. \A i \in DOMAIN rows : Promised(rows[i])' => Promised(rows[i])
    BY <1>5, <2>1 DEF Promised, MarkShareRevoked
  <2>3. PromiseKept'
    BY <1>5, <2>1, <2>2 DEF MarkShareRevoked, PromiseKept, Known
  <2>4. holder'.id = id
    BY <1>5 DEF MarkShareRevoked
  <2>5. DecisionsHold'
    BY <1>5, <2>1, <2>2, <2>4 DEF MarkShareRevoked, DecisionsHold, Known, maintenanceVars
  <2> QED BY <2>3, <2>5
<1>6. CASE RevokeShare
  <2>1. DecisionsHold'
    BY <1>6, FewerDecisionsHold DEF RevokeShare, maintenanceVars
  <2>2. holder.id \in Known => ~Promised(rows[holder.id])
    BY <1>6 DEF RevokeShare, DecisionsHold, Promised
  <2> QED BY <1>6, <2>1, <2>2, RemovalBreaksNone DEF RevokeShare
<1>7. ASSUME NEW id \in Ids, NEW expires \in Expiries, CheckShare(id, expires)
      PROVE  DecisionsHold' /\ PromiseKept'
  BY <1>7 DEF CheckShare, DecisionsHold, PromiseKept, Promised, Known, shareVars, maintenanceVars
<1>8. CASE ExtendShare
  <2>1. CASE UNCHANGED <<rows, extended>>
    <3>1. DecisionsHold'
      BY <1>8, <2>1, FewerDecisionsHold DEF ExtendShare, maintenanceVars
    <3> QED BY <1>8, <2>1, <3>1 DEF ExtendShare, PromiseKept, Known, Promised
  <2>2. CASE /\ rows' = [rows EXCEPT ![holder.id].expires = holder.expires]
             /\ extended' = extended \cup {holder.id}
    <3>1. DOMAIN rows' = DOMAIN rows /\ \A i \in DOMAIN rows \ {holder.id} : rows'[i] = rows[i]
      BY <2>2
    <3>2. \A i \in Known' \ extended' : i \in Known \ extended /\ rows'[i] = rows[i]
      BY <2>2, <3>1 DEF Known
    <3>3. PromiseKept'
      BY <1>8, <3>2 DEF ExtendShare, PromiseKept, Promised
    <3>4. DecisionsHold'
      BY <1>8, <3>1, <3>2 DEF ExtendShare, DecisionsHold, Promised, Known, maintenanceVars
    <3> QED BY <3>3, <3>4
  <2> QED BY <1>8, <2>1, <2>2 DEF ExtendShare
<1>9. ASSUME NEW r \in Readers, NEW id \in Ids, ReadShare(r, id)
      PROVE  DecisionsHold' /\ PromiseKept'
  <2>1. \A s \in Readers : reading'[s] = IF s = r THEN [id |-> id, row |-> rows[id]] ELSE reading[s]
    BY <1>9 DEF ReadShare, TypeOK
  <2>2. UNCHANGED <<now, rows, extended, holder, listed, swept, files>>
    BY <1>9 DEF ReadShare, shareVars, maintenanceVars
  <2>3. DecisionsHold'
    BY <2>1, <2>2 DEF DecisionsHold, Promised, Known
  <2> QED BY <2>2, <2>3 DEF PromiseKept, Promised, Known
<1>10. ASSUME NEW r \in Readers, OpenShare(r) PROVE DecisionsHold' /\ PromiseKept'
  <2>1. \A s \in Readers : reading'[s] \in {reading[s], None}
    BY <1>10 DEF OpenShare, TypeOK
  <2>2. DecisionsHold'
    BY <1>10, <2>1, FewerDecisionsHold DEF OpenShare, maintenanceVars
  <2>3. CASE Expired(reading[r].row, now) /\ Remove(reading[r].id)
    <3>1. reading[r].row.expires \in Nat
      BY <1>10 DEF OpenShare, TypeOK, Row
    <3>2. reading[r].id \in Known \ extended => ~Promised(rows[reading[r].id])
      BY <1>10, <2>3, <3>1 DEF OpenShare, DecisionsHold, Promised, Expired, TypeOK
    <3> QED BY <1>10, <2>2, <2>3, <3>2, RemovalBreaksNone DEF OpenShare
  <2>4. CASE UNCHANGED files
    BY <1>10, <2>2, <2>4 DEF OpenShare, PromiseKept, Promised, Known
  <2> QED BY <1>10, <2>3, <2>4 DEF OpenShare
<1>11. CASE ListShares
  <2>1. \A id \in Known : StepsFor(rows[id], now) # {} => ~Promised(rows[id])
    BY DEF StepsFor, Forgettable, Expired, Promised, TypeOK, Row
  <2>2. \A id \in DOMAIN listed' : id \in Known /\ ~Promised(rows[id])
    BY <1>11, <2>1 DEF ListShares
  <2>3. UNCHANGED <<now, rows, files, extended, holder, reading, swept>>
    BY <1>11 DEF ListShares, shareVars, requestVars
  <2>4. DecisionsHold'
    BY <2>2, <2>3 DEF DecisionsHold, Promised, Known
  <2> QED BY <2>3, <2>4 DEF PromiseKept, Promised, Known
<1>12. ASSUME NEW id \in Ids, RemoveExpired(id) PROVE DecisionsHold' /\ PromiseKept'
  <2>1. DOMAIN listed' \subseteq DOMAIN listed
    BY <1>12, DropRow DEF RemoveExpired
  <2>2. DecisionsHold'
    BY <1>12, <2>1, FewerDecisionsHold DEF RemoveExpired, requestVars
  <2>3. id \in Known \ extended => ~Promised(rows[id])
    BY <1>12 DEF RemoveExpired, DecisionsHold
  <2> QED BY <1>12, <2>2, <2>3, RemovalBreaksNone DEF RemoveExpired
<1>13. ASSUME NEW id \in Ids, ForgetShare(id) PROVE DecisionsHold' /\ PromiseKept'
  <2>1. /\ DOMAIN rows' = DOMAIN rows \ {id} /\ DOMAIN listed' = DOMAIN listed \ {id}
        /\ \A i \in DOMAIN rows' : rows'[i] = rows[i]
    <3>1. rows' = Drop(rows, id) /\ listed' = Drop(listed, id)
      BY <1>13 DEF ForgetShare
    <3>2. DOMAIN rows' = DOMAIN rows \ {id}
      BY <3>1, DropRow
    <3>3. DOMAIN listed' = DOMAIN listed \ {id}
      BY <3>1, DropRow
    <3>4. \A i \in DOMAIN rows \ {id} : rows'[i] = rows[i]
      BY <3>1, DropRow
    <3> QED BY <3>2, <3>3, <3>4
  <2>2. PromiseKept'
    BY <1>13, <2>1 DEF ForgetShare, PromiseKept, Promised, Known
  <2>3. UNCHANGED <<now, extended, holder, reading>> /\ swept' = swept \cup {id}
    BY <1>13 DEF ForgetShare, requestVars
  <2>4. DecisionsHold'
    BY <2>1, <2>3 DEF DecisionsHold, Promised, Known
  <2> QED BY <2>2, <2>4
<1>14. ASSUME NEW id \in Ids, SweepShare(id) PROVE DecisionsHold' /\ PromiseKept'
  <2>1. DecisionsHold'
    BY <1>14, FewerDecisionsHold DEF SweepShare, requestVars
  <2>2. id \notin Known
    BY <1>14 DEF SweepShare, DecisionsHold
  <2> QED BY <1>14, <2>1, <2>2, RemovalBreaksNone DEF SweepShare
<1>15. CASE Crash
  <2>1. DecisionsHold'
    BY <1>15, FewerDecisionsHold DEF Crash, shareVars
  <2> QED BY <1>15, <2>1 DEF Crash, shareVars, PromiseKept, Promised, Known
<1>16. CASE UNCHANGED vars
  BY <1>16 DEF DecisionsHold, PromiseKept, Promised, Known, vars, shareVars, requestVars, maintenanceVars
<1> QED
  BY <1>1, <1>2, <1>3, <1>4, <1>5, <1>6, <1>7, <1>8, <1>9, <1>10, <1>11, <1>12, <1>13, <1>14,
     <1>15, <1>16 DEF Next, Maintain

-----------------------------------------------------------------------------
\* Every step keeps the invariant.
LEMMA NextKeepsIInv == IInv /\ [Next]_vars => IInv'
BY StepTypes, StepKeepsApart, StepKeepsPromises DEF IInv

\* The invariant holds in every reachable state.
THEOREM Invariance == Spec => []IInv
<1> QED BY InitIInv, NextKeepsIInv, PTL DEF Spec

\* The tables, the directory and what is under way stay well-typed.
THEOREM TypeCorrect == Spec => []TypeOK
<1>1. IInv => TypeOK
  BY DEF IInv
<1> QED BY <1>1, Invariance, PTL

\* A share works to its end: OpenShare, RevokeShare and maintainShares take
\* only ciphertexts of shares that are dead, whatever they read and when.
THEOREM SharesWork == Spec => []PromiseKept
<1>1. IInv => PromiseKept
  BY DEF IInv
<1> QED BY <1>1, Invariance, PTL
=============================================================================
