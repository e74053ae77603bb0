------------------------- MODULE VaultAccessProofs --------------------------
(***************************************************************************)
(* Theorems about VaultAccess, for every set of users, devices and         *)
(* invitations and any number of tokens, requests and rotations.           *)
(*                                                                         *)
(* The invariants hold each on the strength of the types and of one fact   *)
(* that is not among them: an invitation some device came from is spent.   *)
(***************************************************************************)
EXTENDS VaultAccess, FiniteSetTheorems, TLAPS

USE AccessAssumption

Spent == \A d \in Devices : devices[d].from # Root =>
            invitations[devices[d].from] \in {"consumed", "pruned"}

IInv == TypeOK /\ OwnerRemains /\ RemovedDevicesRevoked /\ OneDevicePerInvitation /\ Spent

-----------------------------------------------------------------------------
\* Initially one user owns the vault, and there is nothing else.
LEMMA InitIInv == Init => IInv
<1> SUFFICES ASSUME Init PROVE IInv
  OBVIOUS
<1>1. PICK u \in Users : members = [v \in Users |-> IF v = u THEN "owner" ELSE "none"]
  BY DEF Init
<1>2. TypeOK
  BY <1>1 DEF Init, TypeOK, Roles, NoDevice, DeviceRow, Token, Request
<1>3. OwnerRemains
  BY <1>1 DEF OwnerRemains, Owners
<1>4. RemovedDevicesRevoked /\ OneDevicePerInvitation /\ Spent
  BY DEF Init, RemovedDevicesRevoked, OneDevicePerInvitation, Spent, NoDevice, Active
<1> QED BY <1>2, <1>3, <1>4 DEF IInv

-----------------------------------------------------------------------------
(***************************************************************************)
(* Types                                                                   *)
(***************************************************************************)

\* What passes the gate is a request.
LEMMA ReceiveTypes ==
    ASSUME TypeOK, NEW q \in Request, Receive(q)
    PROVE  TypeOK'
BY DEF TypeOK, Receive, accessVars, keyVars

\* Every handler leaves the tables well-typed.
LEMMA StepTypes == TypeOK /\ [Next]_vars => TypeOK'
<1> SUFFICES ASSUME TypeOK, [Next]_vars PROVE TypeOK'
  OBVIOUS
<1>1. ASSUME NEW by \in Requesters, NEW u \in Users, ReceiveRemove(by, u) PROVE TypeOK'
  <2>1. [kind |-> "remove", by |-> by, target |-> u] \in Request
    BY <1>1 DEF Request, Requesters
  <2> QED BY <1>1, <2>1, ReceiveTypes DEF ReceiveRemove
<1>2. ASSUME NEW by \in Requesters, ReceiveInvite(by) PROVE TypeOK'
  <2>1. [kind |-> "invite", by |-> by] \in Request
    BY <1>2 DEF Request, Requesters
  <2> QED BY <1>2, <2>1, ReceiveTypes DEF ReceiveInvite
<1>3. ASSUME NEW d \in Devices, NEW scopes \in TokenScopes, ReceiveExchange(d, scopes) PROVE TypeOK'
  <2>1. [kind |-> "exchange", by |-> d, scopes |-> scopes] \in Request
    BY <1>3 DEF Request
  <2> QED BY <1>3, <2>1, ReceiveTypes DEF ReceiveExchange
<1>4. ASSUME NEW by \in Requesters, NEW rewraps \in BOOLEAN, ReceivePut(by, rewraps) PROVE TypeOK'
  <2>1. (IF rewraps THEN keyEpoch ELSE 0) \in 0..MaxEpoch
    BY DEF TypeOK
  <2>2. [kind |-> "put", by |-> by, base |-> document,
         epoch |-> IF rewraps THEN keyEpoch ELSE 0] \in Request
    BY <2>1 DEF Request, Requesters, TypeOK
  <2> QED BY <1>4, <2>2, ReceiveTypes DEF ReceivePut
<1>5. ASSUME NEW u \in Users, NEW role \in Roles, AddMember(u, role) PROVE TypeOK'
  BY <1>5 DEF TypeOK, AddMember, accessVars, keyVars
<1>6. ASSUME NEW d \in Devices, NEW u \in Users, BindDevice(d, u) PROVE TypeOK'
  BY <1>6 DEF TypeOK, BindDevice, keyVars, DeviceRow
<1>7. ASSUME NEW q \in requests, RemoveMember(q) PROVE TypeOK'
  <2>1. DevicesRevoked(q.target) \in [Devices -> DeviceRow]
    BY DEF DevicesRevoked, TypeOK, DeviceRow
  <2>2. keyEpoch < MaxEpoch => keyEpoch + 1 \in 0..MaxEpoch
    BY DEF TypeOK
  <2>3. members' \in [Users -> Roles \cup {"none"}]
    BY <1>7 DEF RemoveMember, TypeOK
  <2> QED BY <1>7, <2>1, <2>2, <2>3 DEF TypeOK, RemoveMember
<1>8. ASSUME NEW d \in Devices, CreateDevice(d) PROVE TypeOK'
  BY <1>8 DEF TypeOK, CreateDevice, Register, keyVars, DeviceRow
<1>9. ASSUME NEW q \in requests, NEW i \in Invitations, CreateEnrollment(q, i) PROVE TypeOK'
  BY <1>9 DEF TypeOK, CreateEnrollment, keyVars
<1>10. ASSUME NEW i \in Invitations, NEW d \in Devices, EnrollDevice(i, d) PROVE TypeOK'
  BY <1>10 DEF TypeOK, EnrollDevice, Consume, Register, keyVars, DeviceRow
<1>11. ASSUME NEW i \in Invitations, EnrollCut(i) PROVE TypeOK'
  BY <1>11 DEF TypeOK, EnrollCut, Consume, keyVars
<1>12. ASSUME NEW i \in Invitations, ExpireInvitation(i) \/ PruneEnrollments(i) PROVE TypeOK'
  BY <1>12 DEF TypeOK, ExpireInvitation, PruneEnrollments, keyVars
<1>13. ASSUME NEW d \in Devices, RevokeDevice(d) PROVE TypeOK'
  BY <1>13 DEF TypeOK, RevokeDevice, keyVars, DeviceRow
<1>14. ASSUME NEW q \in requests, GrantAccessToken(q) \/ SignAccessToken(q) PROVE TypeOK'
  <2>1. q.by \in Devices /\ q.scopes \in SUBSET DefaultDeviceScopes
    BY <1>14 DEF GrantAccessToken, SignAccessToken, TypeOK, Request
  <2>2. /\ [device |-> q.by, scopes |-> q.scopes] \in Token
        /\ [kind |-> "granted", by |-> q.by, scopes |-> q.scopes] \in Request
    BY <2>1 DEF Token, Request
  <2> QED BY <1>14, <2>2 DEF TypeOK, GrantAccessToken, SignAccessToken, accessVars, keyVars
<1>15. ASSUME NEW t \in tokens, ExpireToken(t) PROVE TypeOK'
  BY <1>15 DEF TypeOK, ExpireToken, keyVars
<1>16. ASSUME NEW q \in requests, SetVaultKey(q) PROVE TypeOK'
  <2>1. q.epoch \in 0..MaxEpoch
    BY <1>16 DEF SetVaultKey, TypeOK, Request
  <2>2. q.epoch # 0 => [kind |-> "stored", epoch |-> q.epoch] \in Request
    BY <2>1 DEF Request
  <2> QED BY <1>16, <2>2 DEF TypeOK, SetVaultKey, accessVars
<1>17. ASSUME NEW q \in requests, ReadPendingRewrap(q) PROVE TypeOK'
  <2>1. [kind |-> "cleared", epoch |-> q.epoch] \in Request
    BY <1>17 DEF ReadPendingRewrap, TypeOK, Request
  <2> QED BY <1>17, <2>1 DEF TypeOK, ReadPendingRewrap, accessVars, keyVars
<1>18. ASSUME NEW q \in requests, ClearPendingRewrap(q) PROVE TypeOK'
  BY <1>18 DEF TypeOK, ClearPendingRewrap, accessVars
<1>19. CASE Crash
  BY <1>19 DEF TypeOK, Crash, accessVars, keyVars
<1>20. CASE UNCHANGED vars
  BY <1>20 DEF TypeOK, vars, accessVars, keyVars
<1> QED
  BY <1>1, <1>2, <1>3, <1>4, <1>5, <1>6, <1>7, <1>8, <1>9, <1>10, <1>11, <1>12, <1>13, <1>14,
     <1>15, <1>16, <1>17, <1>18, <1>19, <1>20 DEF Next

-----------------------------------------------------------------------------
(***************************************************************************)
(* The last owner                                                          *)
(***************************************************************************)

\* When an owner who is not the last one goes, another one stays.
LEMMA AnotherOwner ==
    ASSUME OwnerRemains, NEW u \in Users, ~LastOwner(u)
    PROVE  Owners \ {u} # {}
<1>1. CASE members[u] # "owner"
  BY <1>1 DEF OwnerRemains, Owners
<1>2. CASE members[u] = "owner" /\ ~(Cardinality(Owners) <= 1)
  <2>1. SUFFICES ASSUME Owners \ {u} = {} PROVE FALSE
    OBVIOUS
  <2>2. Owners = {u}
    BY <1>2, <2>1 DEF Owners
  <2>3. Cardinality({u}) = 1
    BY FS_Singleton
  <2>4. Cardinality(Owners) = 1
    BY <2>2, <2>3
  <2> QED BY <1>2, <2>4
<1> QED BY <1>1, <1>2 DEF LastOwner

\* No step takes the last owner away.
LEMMA StepKeepsOwner == TypeOK /\ OwnerRemains /\ [Next]_vars => OwnerRemains'
<1> SUFFICES ASSUME TypeOK, OwnerRemains, [Next]_vars PROVE OwnerRemains'
  OBVIOUS
<1>1. ASSUME NEW u \in Users, NEW role \in Roles, AddMember(u, role) PROVE OwnerRemains'
  BY <1>1 DEF AddMember, IsMember, OwnerRemains, Owners, TypeOK
<1>2. ASSUME NEW q \in requests, RemoveMember(q) PROVE OwnerRemains'
  <2>1. q.target \in Users
    BY <1>2 DEF RemoveMember, TypeOK, Request
  <2>2. CASE members' = members
    BY <2>2 DEF OwnerRemains, Owners
  <2>3. CASE ~LastOwner(q.target) /\ members' = [members EXCEPT ![q.target] = "none"]
    <3>1. PICK v \in Owners : v # q.target
      BY <2>1, <2>3, AnotherOwner
    <3>2. v \in Users /\ members'[v] = "owner"
      BY <2>3, <3>1 DEF Owners, TypeOK
    <3> QED BY <3>2 DEF OwnerRemains, Owners
  <2> QED BY <1>2, <2>2, <2>3 DEF RemoveMember
<1>3. CASE UNCHANGED members
  BY <1>3 DEF OwnerRemains, Owners
<1>4. Next => UNCHANGED members \/ (\E u \in Users, role \in Roles : AddMember(u, role))
                                \/ (\E q \in requests : RemoveMember(q))
  BY DEF Next, ReceiveRemove, ReceiveInvite, ReceiveExchange, ReceivePut, Receive, BindDevice,
     CreateDevice, CreateEnrollment, EnrollDevice, EnrollCut, ExpireInvitation,
     PruneEnrollments, RevokeDevice, GrantAccessToken, SignAccessToken, ExpireToken, SetVaultKey,
     ReadPendingRewrap, ClearPendingRewrap, Crash
<1> QED BY <1>1, <1>2, <1>3, <1>4 DEF vars

-----------------------------------------------------------------------------
(***************************************************************************)
(* Devices and invitations                                                 *)
(***************************************************************************)

\* The steps that touch members, devices or invitations.
AccessStep ==
    \/ \E u \in Users, role \in Roles : AddMember(u, role)
    \/ \E d \in Devices, u \in Users : BindDevice(d, u)
    \/ \E q \in requests : RemoveMember(q)
    \/ \E d \in Devices : CreateDevice(d) \/ RevokeDevice(d)
    \/ \E i \in Invitations, d \in Devices : EnrollDevice(i, d)
    \/ \E q \in requests, i \in Invitations : CreateEnrollment(q, i)
    \/ \E i \in Invitations : EnrollCut(i) \/ ExpireInvitation(i) \/ PruneEnrollments(i)

\* All others leave them alone.
LEMMA OtherSteps == [Next]_vars => AccessStep \/ UNCHANGED <<members, devices, invitations>>
BY DEF Next, AccessStep, vars, accessVars, ReceiveRemove, ReceiveInvite, ReceiveExchange,
   ReceivePut, Receive, GrantAccessToken, SignAccessToken, ExpireToken, SetVaultKey, ReadPendingRewrap,
   ClearPendingRewrap, Crash

\* No step lets a device of somebody who is no member work.
LEMMA StepKeepsRevoked ==
    ASSUME TypeOK, RemovedDevicesRevoked, [Next]_vars
    PROVE  RemovedDevicesRevoked'
<1> USE DEF RemovedDevicesRevoked, Active, IsMember
<1>1. ASSUME NEW u \in Users, NEW role \in Roles, AddMember(u, role) PROVE RemovedDevicesRevoked'
  <2>1. role # "none" /\ members' = [members EXCEPT ![u] = role] /\ devices' = devices
    BY <1>1 DEF AddMember, accessVars, Roles
  <2> QED BY <2>1 DEF TypeOK, DeviceRow
<1>2. ASSUME NEW d \in Devices, NEW u \in Users, BindDevice(d, u) PROVE RemovedDevicesRevoked'
  BY <1>2 DEF BindDevice, TypeOK, DeviceRow
<1>3. ASSUME NEW q \in requests, RemoveMember(q) PROVE RemovedDevicesRevoked'
  <2>1. CASE UNCHANGED <<members, devices>>
    BY <2>1
  <2>2. CASE members' = [members EXCEPT ![q.target] = "none"] /\ devices' = DevicesRevoked(q.target)
    BY <2>2 DEF DevicesRevoked, TypeOK, DeviceRow
  <2> QED BY <1>3, <2>1, <2>2 DEF RemoveMember
<1>4. ASSUME NEW d \in Devices, CreateDevice(d) PROVE RemovedDevicesRevoked'
  BY <1>4 DEF CreateDevice, Register, TypeOK
<1>5. ASSUME NEW d \in Devices, RevokeDevice(d) PROVE RemovedDevicesRevoked'
  BY <1>5 DEF RevokeDevice, TypeOK, DeviceRow
<1>6. ASSUME NEW i \in Invitations, NEW d \in Devices, EnrollDevice(i, d)
      PROVE  RemovedDevicesRevoked'
  BY <1>6 DEF EnrollDevice, Register, TypeOK
<1>7. CASE UNCHANGED <<members, devices>>
  BY <1>7
<1>8. AccessStep \/ UNCHANGED <<members, devices, invitations>>
  BY OtherSteps
<1> QED
  BY <1>1, <1>2, <1>3, <1>4, <1>5, <1>6, <1>7, <1>8
  DEF AccessStep, CreateEnrollment, EnrollCut, ExpireInvitation, PruneEnrollments

\* An invitation a device came from stays spent, and enrols no other device.
LEMMA StepKeepsSpent ==
    ASSUME TypeOK, OneDevicePerInvitation, Spent, [Next]_vars
    PROVE  OneDevicePerInvitation' /\ Spent'
<1> USE DEF OneDevicePerInvitation, Spent
<1>1. ASSUME NEW i \in Invitations, NEW d \in Devices, EnrollDevice(i, d)
      PROVE  OneDevicePerInvitation' /\ Spent'
  <2>1. \A e \in Devices : devices[e].from # i
    BY <1>1 DEF EnrollDevice, Consume, Redeemable
  <2>2. \A e \in Devices : devices'[e].from = IF e = d THEN i ELSE devices[e].from
    BY <1>1 DEF EnrollDevice, Register, TypeOK
  <2>3. OneDevicePerInvitation'
    BY <2>1, <2>2
  <2>4. \A j \in Invitations : invitations'[j] = IF j = i THEN "consumed" ELSE invitations[j]
    BY <1>1 DEF EnrollDevice, Consume, TypeOK
  <2>5. \A e \in Devices : devices[e].from \in Invitations \cup {Root}
    BY DEF TypeOK, DeviceRow
  <2>6. Spent'
    BY <2>2, <2>4, <2>5
  <2> QED BY <2>3, <2>6
<1>2. ASSUME NEW d \in Devices, CreateDevice(d) PROVE OneDevicePerInvitation' /\ Spent'
  <2>1. \A e \in Devices : devices'[e].from = IF e = d THEN Root ELSE devices[e].from
    BY <1>2 DEF CreateDevice, Register, TypeOK
  <2> QED BY <1>2, <2>1 DEF CreateDevice
<1>3. ASSUME \A e \in Devices : devices'[e].from = devices[e].from,
             \A j \in Invitations : invitations[j] \in {"consumed", "pruned"} =>
                                        invitations'[j] \in {"consumed", "pruned"}
      PROVE  OneDevicePerInvitation' /\ Spent'
  BY <1>3 DEF TypeOK, DeviceRow
<1>4. ASSUME AccessStep, NEW e \in Devices,
             ~(\E d \in Devices : CreateDevice(d)),
             ~(\E i \in Invitations, d \in Devices : EnrollDevice(i, d))
      PROVE  devices'[e].from = devices[e].from
  BY <1>4 DEF AccessStep, AddMember, BindDevice, RemoveMember, DevicesRevoked, RevokeDevice,
     CreateEnrollment, EnrollCut, ExpireInvitation, PruneEnrollments, accessVars, TypeOK, DeviceRow
<1>5. ASSUME AccessStep, NEW j \in Invitations, invitations[j] \in {"consumed", "pruned"}
      PROVE  invitations'[j] \in {"consumed", "pruned"}
  BY <1>5 DEF AccessStep, AddMember, BindDevice, RemoveMember, RevokeDevice, CreateDevice,
     EnrollDevice, CreateEnrollment, EnrollCut, Consume, Redeemable, ExpireInvitation,
     PruneEnrollments, accessVars, TypeOK
<1>6. AccessStep \/ UNCHANGED <<members, devices, invitations>>
  BY OtherSteps
<1> QED BY <1>1, <1>2, <1>3, <1>4, <1>5, <1>6

-----------------------------------------------------------------------------
\* Every step keeps the invariant.
LEMMA NextKeepsIInv == IInv /\ [Next]_vars => IInv'
BY StepTypes, StepKeepsOwner, StepKeepsRevoked, StepKeepsSpent DEF IInv

\* The invariant holds in every reachable state.
THEOREM Invariance == Spec => []IInv
<1> QED BY InitIInv, NextKeepsIInv, PTL DEF Spec

\* The tables stay well-typed.
THEOREM TypeCorrect == Spec => []TypeOK
<1>1. IInv => TypeOK
  BY DEF IInv
<1> QED BY <1>1, Invariance, PTL

\* A vault always has an owner: RemoveMember refuses the last one.
THEOREM OwnerStays == Spec => []OwnerRemains
<1>1. IInv => OwnerRemains
  BY DEF IInv
<1> QED BY <1>1, Invariance, PTL

\* No device works for somebody who is not a member: RevokeDevicesOfUser.
THEOREM RemovedRevoked == Spec => []RemovedDevicesRevoked
<1>1. IInv => RemovedDevicesRevoked
  BY DEF IInv
<1> QED BY <1>1, Invariance, PTL

\* Nobody enrols two devices with one secret: ConsumeEnrollment.
THEOREM OneDevice == Spec => []OneDevicePerInvitation
<1>1. IInv => OneDevicePerInvitation
  BY DEF IInv
<1> QED BY <1>1, Invariance, PTL

-----------------------------------------------------------------------------
(***************************************************************************)
(* What a step may never do                                                *)
(***************************************************************************)

\* The gate admits no revoked device.
LEMMA GateRefusesRevoked ==
    ASSUME NEW d \in Devices, devices[d].state = "revoked", NEW kind, Admitted(d, kind)
    PROVE  FALSE
BY DEF Admitted, TokenAdmits, Active

\* No step takes a revocation back.
LEMMA RevokedStays ==
    ASSUME TypeOK, [Next]_vars, NEW d \in Devices, devices[d].state = "revoked"
    PROVE  devices'[d].state = "revoked"
<1>1. CASE UNCHANGED devices
  BY <1>1
<1>2. CASE AccessStep
  <2>1. ASSUME NEW q \in requests, RemoveMember(q) PROVE devices'[d].state = "revoked"
    BY <2>1 DEF RemoveMember, DevicesRevoked, TypeOK, DeviceRow
  <2>2. ASSUME NEW e \in Devices, NEW u \in Users, BindDevice(e, u)
        PROVE  devices'[d].state = "revoked"
    BY <2>2 DEF BindDevice, Active, TypeOK, DeviceRow
  <2>3. ASSUME NEW e \in Devices, CreateDevice(e) \/ RevokeDevice(e)
        PROVE  devices'[d].state = "revoked"
    BY <2>3 DEF CreateDevice, RevokeDevice, Register, TypeOK, DeviceRow
  <2>4. ASSUME NEW i \in Invitations, NEW e \in Devices, EnrollDevice(i, e)
        PROVE  devices'[d].state = "revoked"
    BY <2>4 DEF EnrollDevice, Register, TypeOK, DeviceRow
  <2> QED BY <1>2, <2>1, <2>2, <2>3, <2>4, <1>1
          DEF AccessStep, AddMember, CreateEnrollment, EnrollCut, ExpireInvitation,
              PruneEnrollments, accessVars
<1> QED BY <1>1, <1>2, OtherSteps

\* A step admits and grants no request of a revoked device, and signs a token for it
\* only on a grant.
LEMMA StepGivesNothing ==
    ASSUME TypeOK, [Next]_vars, NEW d \in Devices, devices[d].state = "revoked"
    PROVE  /\ \A q \in requests' \ requests : "by" \in DOMAIN q => q.by # d
           /\ \A t \in tokens' \ tokens : t.device = d =>
                 [kind |-> "granted", by |-> d, scopes |-> t.scopes] \in requests
<1>1. ASSUME NEW q, Receive(q), q.by \in Requesters
      PROVE  /\ \A p \in requests' \ requests : p.by # d
             /\ tokens' = tokens
  <2>1. q.by # d
    BY <1>1, GateRefusesRevoked DEF Receive
  <2> QED BY <1>1, <2>1 DEF Receive, accessVars
<1>2. ASSUME NEW q \in requests, GrantAccessToken(q)
      PROVE  tokens' = tokens /\ \A p \in requests' \ requests : p.by # d
  BY <1>2 DEF GrantAccessToken, Issuable, Active, accessVars
<1>6. ASSUME NEW q \in requests, SignAccessToken(q)
      PROVE  /\ requests' \subseteq requests
             /\ \A t \in tokens' \ tokens : t.device = d =>
                   [kind |-> "granted", by |-> d, scopes |-> t.scopes] \in requests
  <2>1. q = [kind |-> "granted", by |-> q.by, scopes |-> q.scopes]
    BY <1>6 DEF SignAccessToken, TypeOK, Request
  <2>2. requests' \subseteq requests /\ tokens' = tokens \cup {[device |-> q.by, scopes |-> q.scopes]}
    BY <1>6 DEF SignAccessToken
  <2> QED BY <2>1, <2>2
<1>3. ASSUME NEW q \in requests, SetVaultKey(q) \/ ReadPendingRewrap(q)
      PROVE  tokens' = tokens /\ \A p \in requests' \ requests : "by" \notin DOMAIN p
  BY <1>3 DEF SetVaultKey, ReadPendingRewrap, accessVars
<1>4. CASE requests' \subseteq requests /\ tokens' \subseteq tokens
  BY <1>4
<1>5. \/ \E q : Receive(q) /\ q.by \in Requesters
      \/ \E q \in requests : GrantAccessToken(q) \/ SignAccessToken(q)
      \/ \E q \in requests : SetVaultKey(q) \/ ReadPendingRewrap(q)
      \/ requests' \subseteq requests /\ tokens' \subseteq tokens
  <2>1. ASSUME NEW by \in Requesters, NEW u \in Users, ReceiveRemove(by, u)
        PROVE  \E q : Receive(q) /\ q.by \in Requesters
    BY <2>1 DEF ReceiveRemove
  <2>2. ASSUME NEW by \in Requesters, ReceiveInvite(by)
        PROVE  \E q : Receive(q) /\ q.by \in Requesters
    BY <2>2 DEF ReceiveInvite
  <2>3. ASSUME NEW e \in Devices, NEW scopes \in TokenScopes, ReceiveExchange(e, scopes)
        PROVE  \E q : Receive(q) /\ q.by \in Requesters
    BY <2>3 DEF ReceiveExchange, Requesters
  <2>4. ASSUME NEW by \in Requesters, NEW rewraps \in BOOLEAN, ReceivePut(by, rewraps)
        PROVE  \E q : Receive(q) /\ q.by \in Requesters
    BY <2>4 DEF ReceivePut
  <2> QED
    BY <2>1, <2>2, <2>3, <2>4
    DEF Next, vars, accessVars, keyVars, AddMember, BindDevice, RemoveMember, CreateDevice,
     CreateEnrollment, EnrollDevice, EnrollCut, Consume, ExpireInvitation, PruneEnrollments,
     RevokeDevice, ExpireToken, ClearPendingRewrap, Crash
<1> QED BY <1>1, <1>2, <1>3, <1>4, <1>5, <1>6

\* Revocation bites at once: authGate and IssueAccessToken ask for it again, and what an
\* exchange granted before it still signs opens nothing.
THEOREM RevocationBites == Spec => NothingNewAfterRevocation
<1>1. TypeOK /\ [Next]_vars =>
        [\A d \in Devices : devices[d].state = "revoked" =>
           /\ devices'[d].state = "revoked"
           /\ \A q \in requests' \ requests : "by" \in DOMAIN q => q.by # d
           /\ \A t \in tokens' \ tokens : t.device = d =>
                 [kind |-> "granted", by |-> d, scopes |-> t.scopes] \in requests]_vars
  BY StepGivesNothing, RevokedStays
<1> QED BY <1>1, TypeCorrect, PTL DEF Spec, NothingNewAfterRevocation

\* The key document changes only under its compare-and-swap: SetVaultKey.
THEOREM DocumentsReplaced == Spec => NoLostDocument
<1>1. [Next]_vars => [document' # document =>
           \E q \in requests \ requests' : q.kind = "put" /\ q.base = document]_vars
  <2> SUFFICES ASSUME Next, document' # document
               PROVE  \E q \in requests \ requests' : q.kind = "put" /\ q.base = document
    BY DEF vars, keyVars
  <2>1. PICK q \in requests : SetVaultKey(q)
    BY DEF Next, keyVars, ReceiveRemove, ReceiveInvite, ReceiveExchange, ReceivePut, Receive,
     AddMember, BindDevice, RemoveMember, CreateDevice, CreateEnrollment, EnrollDevice, EnrollCut,
     ExpireInvitation, PruneEnrollments, RevokeDevice, GrantAccessToken, SignAccessToken, ExpireToken,
     ReadPendingRewrap, ClearPendingRewrap, Crash
  <2>2. q.kind = "put" /\ q.base = document
    BY <2>1 DEF SetVaultKey, BaseIsCurrent
  <2>3. q # [kind |-> "stored", epoch |-> q.epoch]
    BY <2>2
  <2>4. q \notin requests'
    BY <2>1, <2>2, <2>3 DEF SetVaultKey, BaseIsCurrent
  <2> QED BY <2>2, <2>4
<1> QED BY <1>1, PTL DEF Spec, NoLostDocument
=============================================================================
