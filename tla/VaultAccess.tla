---------------------------- MODULE VaultAccess ----------------------------
(***************************************************************************)
(* Who may act on a vault: members and their roles, enrolled devices, the  *)
(* one-time invitations that enrol them, short-lived access tokens, and    *)
(* the rotation of the vault key that the removal of a member starts.      *)
(*                                                                         *)
(* A request passes the authentication gate first and reaches its handler  *)
(* later; in between anything may happen, the revocation of its own device *)
(* included.  Handlers hold the service mutex, save that tokens are issued *)
(* and pending rewraps are cleared without it, so that each of these two is*)
(* a read of the database and a later step that acts on what was read.  A  *)
(* crash forgets the requests under way; tokens are signed and outlive it. *)
(*                                                                         *)
(* Lifetimes are cut to their end: an invitation or a token is good until  *)
(* Expire happens to it.  Secrets and device ids are random and never drawn*)
(* twice.  Every device is enrolled with DefaultDeviceScopes, which no code*)
(* changes afterwards.  The rotation that ends the encryption of contents  *)
(* is MetaMigration's.                                                     *)
(***************************************************************************)
EXTENDS Integers, FiniteSets

CONSTANTS
    Users,          \* accounts
    NoUser,         \* the owner of a device bound to nobody
    Devices,        \* device ids
    Invitations,    \* one-time enrolment secrets
    Root,           \* the root token
    TokenScopes,    \* the scope sets a device may ask a token for
    MaxEpoch,       \* bound on key rotations
    MaxDocuments,   \* bound on uploads of the key document
    MaxTokens,      \* bound on tokens alive at once
    MaxRequests     \* bound on requests under way at once

DefaultDeviceScopes == {"sync", "share", "key-admin", "pairing"}

ASSUME AccessAssumption ==
    /\ NoUser \notin Users
    /\ Root \notin Devices \cup Invitations
    /\ TokenScopes \subseteq SUBSET DefaultDeviceScopes
    /\ MaxEpoch \in Nat /\ MaxDocuments \in Nat
    /\ MaxTokens \in Nat /\ MaxRequests \in Nat

VARIABLES
    members,        \* memberships: user -> role, "none" for no row
    devices,        \* devices: device -> its row
    invitations,    \* enrollments: secret -> where it stands
    tokens,         \* signed tokens that have not expired
    keyEpoch,       \* repo_state.key_epoch
    pending,        \* vaults.pending_rewrap_epoch, 0 for none
    document,       \* number of the stored vault key document, 0 for none
    requests        \* requests that have passed the gate

accessVars == <<devices, invitations, tokens>>
keyVars == <<keyEpoch, pending, document>>
vars == <<members, accessVars, keyVars, requests>>

\* Readers stand with editors: neither governs.
Roles == {"owner", "admin", "editor"}

NoDevice == [state |-> "absent", user |-> NoUser, from |-> Root]

DeviceRow == [state : {"absent", "active", "revoked"},
              user : Users \cup {NoUser}, from : Invitations \cup {Root}]

Token == [device : Devices, scopes : SUBSET DefaultDeviceScopes]

\* A request names the credential it was admitted under.
Request ==
    [kind : {"remove"}, by : Devices \cup {Root}, target : Users]
        \cup [kind : {"invite"}, by : Devices \cup {Root}]
        \cup [kind : {"exchange", "granted"}, by : Devices, scopes : SUBSET DefaultDeviceScopes]
        \cup [kind : {"put"}, by : Devices \cup {Root}, base : 0..MaxDocuments,
              epoch : 0..MaxEpoch]
        \cup [kind : {"stored"}, epoch : 1..MaxEpoch]
        \cup [kind : {"cleared"}, epoch : 1..MaxEpoch]

IsMember(u) == members[u] # "none"
Owners == {u \in Users : members[u] = "owner"}
Active(d) == devices[d].state = "active"

\* Role.CanAdmin.
CanAdmin(u) == u # NoUser /\ members[u] \in {"owner", "admin"}

\* Service.resolve: DeviceTenant does not ask whether the device is revoked.
MayGovern(by) == by = Root \/ CanAdmin(devices[by].user)

\* The scope that routeScope asks of a route; the exchange asks for none.
Needs(kind) == CASE kind = "invite" -> {"pairing"}
                 [] kind \in {"remove", "put"} -> {"key-admin"}
                 [] kind = "exchange" -> {}

Init ==
    /\ \E u \in Users : members = [v \in Users |-> IF v = u THEN "owner" ELSE "none"]
    /\ devices = [d \in Devices |-> NoDevice]
    /\ invitations = [i \in Invitations |-> "unknown"]
    /\ tokens = {}
    /\ keyEpoch = 0
    /\ pending = 0
    /\ document = 0
    /\ requests = {}

(***************************************************************************)
(* The gate                                                                *)
(***************************************************************************)

\* Variant with a bug: the signature of a token is enough.
TokenUnverified(d, kind) ==
    \E t \in tokens : t.device = d /\ kind # "exchange" /\ Needs(kind) \subseteq t.scopes

\* VerifyAccessToken, enforceRouteScope; a token buys no token.
TokenAdmits(d, kind) ==
    \E t \in tokens :
        /\ t.device = d
        /\ Active(d)
        /\ kind # "exchange"
        /\ Needs(kind) \subseteq t.scopes \cap DefaultDeviceScopes

\* authGate: the root token, a short token, or the device's own credential.
Admitted(by, kind) ==
    \/ by = Root /\ kind # "exchange"
    \/ by \in Devices /\ TokenAdmits(by, kind)
    \/ by \in Devices /\ Active(by) /\ Needs(kind) \subseteq DefaultDeviceScopes

Receive(q) ==
    /\ Cardinality(requests) < MaxRequests
    /\ Admitted(q.by, q.kind)
    /\ requests' = requests \cup {q}
    /\ UNCHANGED <<members, accessVars, keyVars>>

ReceiveRemove(by, u) == Receive([kind |-> "remove", by |-> by, target |-> u])
ReceiveInvite(by) == Receive([kind |-> "invite", by |-> by])
ReceiveExchange(d, scopes) == Receive([kind |-> "exchange", by |-> d, scopes |-> scopes])

\* The client read the document and the epoch just before; the upload names
\* the document it replaces, and the epoch if it answers a rotation.
ReceivePut(by, rewraps) ==
    /\ rewraps => keyEpoch > 0
    /\ Receive([kind |-> "put", by |-> by, base |-> document,
                epoch |-> IF rewraps THEN keyEpoch ELSE 0])

(***************************************************************************)
(* Members.  Accounts, memberships and the binding of devices to them are  *)
(* entered from outside: the server has functions for it and no caller.    *)
(***************************************************************************)

AddMember(u, role) ==
    /\ ~IsMember(u)
    /\ members' = [members EXCEPT ![u] = role]
    /\ UNCHANGED <<accessVars, keyVars, requests>>

BindDevice(d, u) ==
    /\ Active(d) /\ devices[d].user = NoUser
    /\ IsMember(u)
    /\ devices' = [devices EXCEPT ![d].user = u]
    /\ UNCHANGED <<members, invitations, tokens, keyVars, requests>>

\* Variant with a bug: any two members who govern may stay, owners or not.
LastAdmin(u) == members[u] = "owner" /\ Cardinality({v \in Users : CanAdmin(v)}) <= 1

\* CountRole: the last owner stays.
LastOwner(u) == members[u] = "owner" /\ Cardinality(Owners) <= 1

\* Variant with a bug: the devices of the user are left as they are.
DevicesKept(u) == devices

\* RevokeDevicesOfUser.
DevicesRevoked(u) ==
    [d \in Devices |-> IF devices[d].user = u
                       THEN [devices[d] EXCEPT !.state = "revoked"]
                       ELSE devices[d]]

\* Service.RemoveMember: one transaction under the mutex.
RemoveMember(q) ==
    /\ q.kind = "remove"
    /\ requests' = requests \ {q}
    /\ IF MayGovern(q.by) /\ IsMember(q.target) /\ ~LastOwner(q.target)
       THEN /\ keyEpoch < MaxEpoch
            /\ members' = [members EXCEPT ![q.target] = "none"]
            /\ devices' = DevicesRevoked(q.target)
            /\ keyEpoch' = keyEpoch + 1
            /\ pending' = keyEpoch + 1
       ELSE UNCHANGED <<members, devices, keyEpoch, pending>>
    /\ UNCHANGED <<invitations, tokens, document>>

(***************************************************************************)
(* Devices and invitations                                                 *)
(***************************************************************************)

Register(d, origin) ==
    /\ devices[d].state = "absent"
    /\ devices' = [devices EXCEPT ![d] =
                       [state |-> "active", user |-> NoUser, from |-> origin]]

\* Service.CreateDevice, under the root token.
CreateDevice(d) ==
    /\ Register(d, Root)
    /\ UNCHANGED <<members, invitations, tokens, keyVars, requests>>

\* Service.CreateEnrollment.
CreateEnrollment(q, i) ==
    /\ q.kind = "invite"
    /\ requests' = requests \ {q}
    /\ invitations[i] = "unknown"
    /\ invitations' = [invitations EXCEPT ![i] = "open"]
    /\ UNCHANGED <<members, devices, tokens, keyVars>>

\* Variant with a bug: a consumed secret is taken again.
RedeemableTwice(i) == invitations[i] \in {"open", "consumed"}

\* ConsumeEnrollment: neither consumed nor expired.
Redeemable(i) == invitations[i] = "open"

Consume(i) ==
    /\ Redeemable(i)
    /\ invitations' = [invitations EXCEPT ![i] = "consumed"]

\* Service.EnrollDevice.
EnrollDevice(i, d) ==
    /\ Consume(i)
    /\ Register(d, i)
    /\ UNCHANGED <<members, tokens, keyVars, requests>>

\* The process dies between the two statements of EnrollDevice.
EnrollCut(i) ==
    /\ Consume(i)
    /\ requests' = {}
    /\ UNCHANGED <<members, devices, tokens, keyVars>>

ExpireInvitation(i) ==
    /\ invitations[i] = "open"
    /\ invitations' = [invitations EXCEPT ![i] = "expired"]
    /\ UNCHANGED <<members, devices, tokens, keyVars, requests>>

\* maintainEnrollments.
PruneEnrollments(i) ==
    /\ invitations[i] \in {"expired", "consumed"}
    /\ invitations' = [invitations EXCEPT ![i] = "pruned"]
    /\ UNCHANGED <<members, devices, tokens, keyVars, requests>>

\* Service.RevokeDevice, under the root token.
RevokeDevice(d) ==
    /\ devices[d].state # "absent"
    /\ devices' = [devices EXCEPT ![d].state = "revoked"]
    /\ UNCHANGED <<members, invitations, tokens, keyVars, requests>>

(***************************************************************************)
(* Access tokens                                                           *)
(***************************************************************************)

\* The device's row is read again: the gate may have seen it before a revocation.
Issuable(q) == Active(q.by) /\ q.scopes \subseteq DefaultDeviceScopes

\* Service.IssueAccessToken reads the row and narrows the scopes, without the mutex.
GrantAccessToken(q) ==
    /\ q.kind = "exchange"
    /\ requests' = (requests \ {q})
            \cup (IF Issuable(q)
                  THEN {[kind |-> "granted", by |-> q.by, scopes |-> q.scopes]} ELSE {})
    /\ UNCHANGED <<members, accessVars, keyVars>>

\* It signs the token later, whatever has become of the device.
SignAccessToken(q) ==
    /\ q.kind = "granted"
    /\ Cardinality(tokens) < MaxTokens
    /\ requests' = requests \ {q}
    /\ tokens' = tokens \cup {[device |-> q.by, scopes |-> q.scopes]}
    /\ UNCHANGED <<members, devices, invitations, keyVars>>

ExpireToken(t) ==
    /\ tokens' = tokens \ {t}
    /\ UNCHANGED <<members, devices, invitations, keyVars, requests>>

(***************************************************************************)
(* The vault key document                                                  *)
(***************************************************************************)

\* Variant with a bug: whoever may upload replaces the document.
AnyBase(q) == TRUE

\* The compare-and-swap of SetVaultKey on the document's fingerprint.
BaseIsCurrent(q) == q.base = document

\* putVaultKey: SetVaultKey under the mutex, and ClearPendingRewrap after it
\* if the upload names an epoch.
SetVaultKey(q) ==
    /\ q.kind = "put"
    /\ IF BaseIsCurrent(q)
       THEN /\ document < MaxDocuments
            /\ document' = document + 1
            /\ requests' = (requests \ {q})
                    \cup (IF q.epoch = 0 THEN {} ELSE {[kind |-> "stored", epoch |-> q.epoch]})
       ELSE /\ requests' = requests \ {q}
            /\ UNCHANGED document
    /\ UNCHANGED <<members, accessVars, keyEpoch, pending>>

\* ClearPendingRewrap reads what is pending, without the mutex.
ReadPendingRewrap(q) ==
    /\ q.kind = "stored"
    /\ requests' = (requests \ {q})
            \cup (IF pending = q.epoch THEN {[kind |-> "cleared", epoch |-> q.epoch]} ELSE {})
    /\ UNCHANGED <<members, accessVars, keyVars>>

\* ClearPendingRewrap writes 0 for what it has read.
ClearPendingRewrap(q) ==
    /\ q.kind = "cleared"
    /\ requests' = requests \ {q}
    /\ pending' = 0
    /\ UNCHANGED <<members, accessVars, keyEpoch, document>>

Crash ==
    /\ requests # {}
    /\ requests' = {}
    /\ UNCHANGED <<members, accessVars, keyVars>>

Requesters == Devices \cup {Root}

Next ==
    \/ \E by \in Requesters, u \in Users : ReceiveRemove(by, u)
    \/ \E by \in Requesters : ReceiveInvite(by)
    \/ \E d \in Devices, scopes \in TokenScopes : ReceiveExchange(d, scopes)
    \/ \E by \in Requesters, rewraps \in BOOLEAN : ReceivePut(by, rewraps)
    \/ \E u \in Users, role \in Roles : AddMember(u, role)
    \/ \E d \in Devices, u \in Users : BindDevice(d, u)
    \/ \E q \in requests : RemoveMember(q)
    \/ \E d \in Devices : CreateDevice(d)
    \/ \E q \in requests, i \in Invitations : CreateEnrollment(q, i)
    \/ \E i \in Invitations, d \in Devices : EnrollDevice(i, d)
    \/ \E i \in Invitations : EnrollCut(i)
    \/ \E i \in Invitations : ExpireInvitation(i)
    \/ \E i \in Invitations : PruneEnrollments(i)
    \/ \E d \in Devices : RevokeDevice(d)
    \/ \E q \in requests : GrantAccessToken(q)
    \/ \E q \in requests : SignAccessToken(q)
    \/ \E t \in tokens : ExpireToken(t)
    \/ \E q \in requests : SetVaultKey(q)
    \/ \E q \in requests : ReadPendingRewrap(q)
    \/ \E q \in requests : ClearPendingRewrap(q)
    \/ Crash

Spec == Init /\ [][Next]_vars

(***************************************************************************)
(* Properties                                                              *)
(***************************************************************************)

TypeOK ==
    /\ members \in [Users -> Roles \cup {"none"}]
    /\ devices \in [Devices -> DeviceRow]
    /\ invitations \in [Invitations -> {"unknown", "open", "expired", "consumed", "pruned"}]
    /\ tokens \subseteq Token
    /\ keyEpoch \in 0..MaxEpoch
    /\ pending \in 0..MaxEpoch
    /\ document \in 0..MaxDocuments
    /\ requests \subseteq Request

\* The vault never loses its last owner, however many removals that owners
\* and administrators have sent against each other are under way at once.
OwnerRemains == Owners # {}

\* A device that is bound to a user works only while the user is a member:
\* no removal leaves one of his devices behind, whenever it was enrolled.
RemovedDevicesRevoked ==
    \A d \in Devices : Active(d) /\ devices[d].user # NoUser => IsMember(devices[d].user)

\* An invitation enrols one device at most, although it may be presented
\* again, after it expired, after a crash or after the clean-up.
OneDevicePerInvitation ==
    \A d, e \in Devices :
        devices[d].from = devices[e].from /\ devices[d].from # Root => d = e

\* From its revocation on, which nothing takes back, a device passes the gate no more,
\* neither with its credential nor with any of its tokens, and no exchange of it is
\* granted.  A token may still be signed for it, by an exchange that was granted
\* before: that token opens nothing.
NothingNewAfterRevocation ==
    [][\A d \in Devices : devices[d].state = "revoked" =>
           /\ devices'[d].state = "revoked"
           /\ \A q \in requests' \ requests : "by" \in DOMAIN q => q.by # d
           /\ \A t \in tokens' \ tokens : t.device = d =>
                 [kind |-> "granted", by |-> d, scopes |-> t.scopes] \in requests]_vars

\* A key document is replaced only by one that was made from it: of two
\* administrators who seal the key for the members at once, one must start
\* over, and no member is left out of the document unseen.
NoLostDocument ==
    [][document' # document =>
           \E q \in requests \ requests' : q.kind = "put" /\ q.base = document]_vars

\* "The epoch must be the pending one": a rotation is taken as answered only
\* by an upload for that rotation's epoch.
RewrapMatchesPending ==
    [][pending # 0 /\ pending' = 0 =>
           \E q \in requests \ requests' : q.kind = "cleared" /\ q.epoch = pending]_vars
=============================================================================
