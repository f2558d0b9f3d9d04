--------------------------- MODULE WorkspaceProofs ---------------------------
(***************************************************************************)
(* Proofs about Workspace, for any number of users, tenants, invites and   *)
(* requests.  The inductive invariant says of each open request what it    *)
(* may rely on (Sound) and of each two what the row locks keep apart       *)
(* (Apart).  The last section proves that the waits for these locks form   *)
(* no cycle, and that one of the open requests can always go on.           *)
(***************************************************************************)
EXTENDS Workspace, FiniteSetTheorems, TLAPS

OnTenant == Scoped \cup {"checkRole", "softDelete", "lockInvite"} \cup Transferring \cup Accepting

\* The route a request is in.
Route(c) ==
    IF c.pc = "checkRole" THEN c.op ELSE IF c.pc \in Transferring THEN "transfer" ELSE c.pc

\* A request has the parameters its route takes, and its tenant exists.
Formed(c) ==
    /\ c.pc \in OnTenant => c.tenant \in Tenants /\ tenants[c.tenant] # NoTenant
    /\ c.pc = "checkRole" => c.op \in Scoped
    /\ c.pc = "createDefault" => c.user \in Users
    /\ Route(c) \in {"transfer", "changeRole", "removeMember", "createInvite"} => c.target \in Users
    /\ Route(c) \in {"changeRole", "createInvite"} => c.role \in {"member", "admin"}
    /\ Route(c) = "revokeInvite" => c.invite \in Invites

\* The tenant of a transfer lives and has the owner it has read, until it commits ...
OwnerKnown(c) ==
    c.pc \in Transferring => tenants[c.tenant].owner = c.owner /\ ~tenants[c.tenant].deleted

\* ... and is no owner any more once it commits.
OwnerDemoted(c) ==
    c.pc \in {"promote", "publish"} =>
        c.owner \in c.locked \/ member[c.tenant][c.owner] # "owner"

\* An accept knows its invite ...
InviteKnown(c) ==
    c.pc \in {"lockInvite"} \cup Accepting =>
        /\ c.invite \in Invites
        /\ invites[c.invite] # NoInvite
        /\ c.user = invites[c.invite].email
        /\ c.tenant = invites[c.invite].tenant
        /\ c.role = invites[c.invite].role

\* ... which stays usable while it is locked ...
InviteHeld(c) ==
    c.pc \in Accepting => ~invites[c.invite].accepted /\ ~invites[c.invite].revoked

\* ... and so does the membership it has found.
MembershipHeld(c) ==
    /\ c.pc = "upsert" => Escalates(c.found, c.role)
    /\ c.pc = "accept" =>
        /\ c.user \in c.locked
        /\ Escalates(c.found, c.role) \/ member[c.tenant][c.user] = c.found

Sound(c) ==
    /\ Formed(c) /\ OwnerKnown(c) /\ OwnerDemoted(c)
    /\ InviteKnown(c) /\ InviteHeld(c) /\ MembershipHeld(c)

\* No tenant, invite or membership row is locked twice.
Apart(c, d) ==
    /\ ~(c.pc \in Transferring /\ d.pc \in Transferring /\ c.tenant = d.tenant)
    /\ ~(c.pc \in Accepting /\ d.pc \in Accepting /\ c.invite = d.invite)
    /\ c.tenant = d.tenant => c.locked \cap d.locked = {}

IInv ==
    /\ TypeOK
    /\ OneOwner
    /\ InviteUsedOnce
    /\ \A r \in Slots : Sound(req[r])
    /\ \A q, r \in Slots : q # r => Apart(req[q], req[r])

USE WorkspaceAssumption

----------------------------------------------------------------------------
(* Requests *)

\* The routes of Minimum, one by one.
LEMMA ScopedIs ==
    Scoped = {"delete", "transfer", "changeRole", "removeMember", "createInvite", "revokeInvite"}
  BY DEF Scoped, Minimum

\* An idle slot is a request that holds nothing and relies on nothing.
LEMMA NoCallSound == NoCall \in Request /\ Sound(NoCall) /\ \A d : Apart(NoCall, d) /\ Apart(d, NoCall)
<1>1. NoCall \in Request
  BY DEF NoCall, Request, Pc
<1>2. /\ NoCall.pc = "idle" /\ NoCall.locked = {}
  BY DEF NoCall
<1>3. NoCall.pc \notin OnTenant \cup Transferring \cup Accepting
  BY <1>2, ScopedIs DEF OnTenant, Transferring, Accepting
<1>4. Route(NoCall) = "idle"
  BY <1>2, <1>3 DEF Route
<1>5. Sound(NoCall)
  BY <1>2, <1>3, <1>4
  DEF Sound, Formed, OwnerKnown, OwnerDemoted, InviteKnown, InviteHeld, MembershipHeld
<1>6. \A d : Apart(NoCall, d) /\ Apart(d, NoCall)
  BY <1>2, <1>3 DEF Apart
<1> QED
  BY <1>1, <1>5, <1>6

\* The fields of a request, one by one.
LEMMA RequestFields ==
    ASSUME NEW c \in Request
    PROVE  /\ c.pc \in Pc /\ c.op \in Scoped \cup {"none"} /\ c.user \in Users \cup {NoUser}
           /\ c.tenant \in Tenants \cup {NoTenant} /\ c.owner \in Users \cup {NoUser}
           /\ c.target \in Users \cup {NoUser} /\ c.role \in Role \cup {"none"}
           /\ c.invite \in Invites \cup {NoInvite} /\ c.found \in Role \cup {"none"}
           /\ c.locked \subseteq Users
  BY DEF Request

\* Moves changes the pc and nothing else.
LEMMA MovedFields ==
    ASSUME NEW c \in Request, NEW pc \in Pc
    PROVE  LET d == [c EXCEPT !.pc = pc] IN
           /\ d \in Request /\ d.pc = pc
           /\ d.op = c.op /\ d.user = c.user /\ d.tenant = c.tenant /\ d.owner = c.owner
           /\ d.target = c.target /\ d.role = c.role /\ d.invite = c.invite
           /\ d.found = c.found /\ d.locked = c.locked
  BY DEF Request

\* CalledBy changes the pc and the caller.
LEMMA CalledByFields ==
    ASSUME NEW c \in Request, NEW pc \in Pc, NEW u \in Users \cup {NoUser}
    PROVE  LET d == CalledBy(c, pc, u) IN
           /\ d \in Request /\ d.pc = pc /\ d.user = u
           /\ d.op = c.op /\ d.tenant = c.tenant /\ d.owner = c.owner
           /\ d.target = c.target /\ d.role = c.role /\ d.invite = c.invite
           /\ d.found = c.found /\ d.locked = c.locked
  BY DEF Request, CalledBy

\* Owning changes the pc and the owner read.
LEMMA OwningFields ==
    ASSUME NEW c \in Request, NEW pc \in Pc, NEW u \in Users \cup {NoUser}
    PROVE  LET d == Owning(c, pc, u) IN
           /\ d \in Request /\ d.pc = pc /\ d.owner = u
           /\ d.op = c.op /\ d.user = c.user /\ d.tenant = c.tenant
           /\ d.target = c.target /\ d.role = c.role /\ d.invite = c.invite
           /\ d.found = c.found /\ d.locked = c.locked
  BY DEF Request, Owning

\* Locking changes the pc and the locked rows.
LEMMA LockingFields ==
    ASSUME NEW c \in Request, NEW pc \in Pc, NEW users \in SUBSET Users
    PROVE  LET d == Locking(c, pc, users) IN
           /\ d \in Request /\ d.pc = pc /\ d.locked = users
           /\ d.op = c.op /\ d.user = c.user /\ d.tenant = c.tenant /\ d.owner = c.owner
           /\ d.target = c.target /\ d.role = c.role /\ d.invite = c.invite
           /\ d.found = c.found
  BY DEF Request, Locking

\* Finding changes the pc, the membership found and the locked rows.
LEMMA FindingFields ==
    ASSUME NEW c \in Request, NEW pc \in Pc, NEW role \in Role \cup {"none"}, NEW users \in SUBSET Users
    PROVE  LET d == Finding(c, pc, role, users) IN
           /\ d \in Request /\ d.pc = pc /\ d.found = role /\ d.locked = users
           /\ d.op = c.op /\ d.user = c.user /\ d.tenant = c.tenant /\ d.owner = c.owner
           /\ d.target = c.target /\ d.role = c.role /\ d.invite = c.invite
  BY DEF Request, Finding

\* Which of two requests comes first does not matter.
LEMMA ApartSymmetric == ASSUME NEW c, NEW d, Apart(c, d) PROVE Apart(d, c)
  BY DEF Apart

\* A request that holds no lock is apart from every other.
LEMMA LockFreeApart ==
    ASSUME NEW c, NEW d, c.pc \notin Transferring \cup Accepting, c.locked = {}
    PROVE  Apart(c, d)
  BY DEF Apart

----------------------------------------------------------------------------
(* Kinds of steps *)

\* A step that only moves a request is safe if the moved request is.
LEMMA LocalStep ==
    ASSUME IInv, NEW r \in Slots, NEW c \in Request, Becomes(r, c), TablesStay,
           Sound(c), \A q \in Slots \ {r} : Apart(c, req[q])
    PROVE  IInv'
<1>1. /\ req' = [req EXCEPT ![r] = c]
      /\ tenants' = tenants /\ member' = member /\ invites' = invites
  BY DEF Becomes, TablesStay
<1>2. req \in [Slots -> Request]
  BY DEF IInv, TypeOK
<1>3. req'[r] = c /\ \A q \in Slots \ {r} : req'[q] = req[q]
  BY <1>1, <1>2
<1>4. TypeOK'
  BY <1>1, <1>2 DEF IInv, TypeOK
<1>5. OneOwner' /\ InviteUsedOnce'
  BY <1>1 DEF IInv, OneOwner, InviteUsedOnce
<1>6. ASSUME NEW q \in Slots PROVE Sound(req[q])'
  <2>1. Sound(req'[q])
    BY <1>3 DEF IInv
  <2> QED
    BY <2>1, <1>1
    DEF Sound, Formed, OwnerKnown, OwnerDemoted, InviteKnown, InviteHeld, MembershipHeld
<1>7. ASSUME NEW p \in Slots, NEW q \in Slots, p # q PROVE Apart(req[p], req[q])'
  <2>1. CASE p = r
    BY <2>1, <1>3, <1>7
  <2>2. CASE q = r
    BY <2>2, <1>3, <1>7, ApartSymmetric
  <2>3. CASE p # r /\ q # r
    BY <2>3, <1>3, <1>7 DEF IInv
  <2> QED
    BY <2>1, <2>2, <2>3
<1> QED
  BY <1>4, <1>5, <1>6, <1>7 DEF IInv

\* A step that ends a request may change the tables in a way the others bear.
LEMMA LastStep ==
    ASSUME IInv, NEW r \in Slots, Ends(r),
           tenants' \in [Tenants -> TenantRow \cup {NoTenant}],
           member' \in [Tenants -> [Users -> Role \cup {"none"}]],
           invites' \in [Invites -> InviteRow \cup {NoInvite}],
           OneOwner', InviteUsedOnce',
           \A q \in Slots \ {r} : req'[q] = req[q] => Sound(req[q])'
    PROVE  IInv'
<1>1. req' = [req EXCEPT ![r] = NoCall]
  BY DEF Ends, Becomes
<1>2. req \in [Slots -> Request]
  BY DEF IInv, TypeOK
<1>3. req'[r] = NoCall /\ \A q \in Slots \ {r} : req'[q] = req[q]
  BY <1>1, <1>2
<1>4. TypeOK'
  BY <1>1, <1>2, NoCallSound DEF TypeOK
<1>5. ASSUME NEW q \in Slots PROVE Sound(req[q])'
  <2>1. CASE q = r
    <3>1. Sound(NoCall)'
      <4>1. /\ NoCall.pc = "idle" /\ NoCall.locked = {}
        BY DEF NoCall
      <4>2. NoCall.pc \notin OnTenant \cup Transferring \cup Accepting
        BY <4>1, ScopedIs DEF OnTenant, Transferring, Accepting
      <4>3. Route(NoCall) = "idle"
        BY <4>1, <4>2 DEF Route
      <4> QED
        BY <4>1, <4>2, <4>3
        DEF Sound, Formed, OwnerKnown, OwnerDemoted, InviteKnown, InviteHeld, MembershipHeld
    <3> QED
      BY <2>1, <3>1, <1>3
      DEF Sound, Formed, OwnerKnown, OwnerDemoted, InviteKnown, InviteHeld, MembershipHeld
  <2>2. CASE q # r
    BY <2>2, <1>3
  <2> QED
    BY <2>1, <2>2
<1>6. ASSUME NEW p \in Slots, NEW q \in Slots, p # q PROVE Apart(req[p], req[q])'
  <2>1. CASE p = r \/ q = r
    BY <2>1, <1>3, NoCallSound
  <2>2. CASE p # r /\ q # r
    BY <2>2, <1>3, <1>6 DEF IInv
  <2> QED
    BY <2>1, <2>2
<1> QED
  BY <1>4, <1>5, <1>6 DEF IInv

----------------------------------------------------------------------------
(* Steps that only move a request *)

\* The parameters of a call are those of its route.
LEMMA CallFields ==
    ASSUME NEW u \in Users, NEW t \in Tenants, NEW call \in Calls(u, t)
    PROVE  /\ call \in Request
           /\ call.op \in Scoped
           /\ call.user = u /\ call.tenant = t /\ call.locked = {}
           /\ call.op \in {"transfer", "changeRole", "removeMember", "createInvite"} => call.target \in Users
           /\ call.op \in {"changeRole", "createInvite"} => call.role \in {"member", "admin"}
           /\ call.op = "revokeInvite" => call.invite \in Invites
<1>1. ASSUME NEW op \in Scoped, NEW x \in Users \cup {NoUser}, NEW role \in Role \cup {"none"},
             NEW i \in Invites \cup {NoInvite}
      PROVE  LET c == Call(op, u, t, x, role, i) IN
             /\ c \in Request
             /\ c.op = op /\ c.user = u /\ c.tenant = t /\ c.locked = {}
             /\ c.target = x /\ c.role = role /\ c.invite = i
  BY <1>1, NoCallSound DEF Call, NoCall, Request
<1>2. CASE call = Call("delete", u, t, NoUser, "none", NoInvite)
  BY <1>1, <1>2, ScopedIs
<1>3. CASE \E op \in {"transfer", "removeMember"}, x \in Users :
              call = Call(op, u, t, x, "none", NoInvite)
  BY <1>1, <1>3, ScopedIs
<1>4. CASE \E op \in {"changeRole", "createInvite"}, x \in Users, role \in {"member", "admin"} :
              call = Call(op, u, t, x, role, NoInvite)
  BY <1>1, <1>4, ScopedIs DEF Role
<1>5. CASE \E i \in Invites : call = Call("revokeInvite", u, t, NoUser, "none", i)
  BY <1>1, <1>5, ScopedIs
<1> QED
  BY <1>2, <1>3, <1>4, <1>5 DEF Calls

\* Enter: a request without locks, of a tenant that exists.
LEMMA EnterKeeps == ASSUME IInv, NEW r \in Slots, Enter(r) PROVE IInv'
<1>0. PICK u \in Users, t \in Tenants : \E call \in Calls(u, t) :
        /\ Live(t)
        /\ Becomes(r, Owning(call, "checkRole", KnownOwner(call)))
        /\ TablesStay
  BY Zenon DEF Enter
<1>1. PICK call \in Calls(u, t) :
        /\ Live(t)
        /\ Becomes(r, Owning(call, "checkRole", KnownOwner(call)))
        /\ TablesStay
  BY Zenon, <1>0
<1> DEFINE c == Owning(call, "checkRole", KnownOwner(call))
<1>2. /\ call \in Request /\ call.op \in Scoped /\ call.tenant = t /\ call.locked = {}
      /\ call.op \in {"transfer", "changeRole", "removeMember", "createInvite"} => call.target \in Users
      /\ call.op \in {"changeRole", "createInvite"} => call.role \in {"member", "admin"}
      /\ call.op = "revokeInvite" => call.invite \in Invites
  BY <1>1, CallFields
<1>3. tenants[t] # NoTenant /\ tenants[t] \in TenantRow
  BY <1>1 DEF Live, IInv, TypeOK
<1>4. KnownOwner(call) \in Users \cup {NoUser}
  BY <1>2, <1>3 DEF TenantRow, KnownOwner
<1>5. /\ c \in Request /\ c.pc = "checkRole"
      /\ c.op = call.op /\ c.tenant = t /\ c.locked = {}
      /\ c.target = call.target /\ c.role = call.role /\ c.invite = call.invite
  <2>1. "checkRole" \in Pc
    BY DEF Pc
  <2> QED
    BY <2>1, <1>2, <1>4, OwningFields
<1>6. Becomes(r, c) /\ TablesStay
  BY <1>1
<1> HIDE DEF c
<1>7. c.pc \notin Transferring \cup Accepting \cup {"lockInvite", "createDefault"}
  BY <1>5 DEF Transferring, Accepting
<1>8. Route(c) = call.op
  BY <1>5 DEF Route
<1>9. Sound(c)
  BY <1>1, <1>2, <1>3, <1>5, <1>7, <1>8
  DEF Sound, Formed, OwnerKnown, OwnerDemoted, InviteKnown, InviteHeld, MembershipHeld, Transferring, Accepting
<1> QED
  BY <1>5, <1>6, <1>7, <1>9, LocalStep, LockFreeApart

\* CheckRole: the request goes on in its route.
LEMMA CheckRoleKeeps == ASSUME IInv, NEW r \in Slots, CheckRole(r) PROVE IInv'
<1> DEFINE call == req[r]
           u == IF call.op = "delete" THEN call.user ELSE NoUser
           c == CalledBy(call, call.op, u)
<1>1. call.pc = "checkRole" /\ Becomes(r, c) /\ TablesStay
  BY DEF CheckRole
<1>2. call \in Request /\ Sound(call)
  BY DEF IInv, TypeOK
<1>3. \A q \in Slots \ {r} : Apart(call, req[q])
  BY DEF IInv
<1> HIDE DEF call
<1>4. call.op \in Scoped /\ Route(call) = call.op
  BY <1>1, <1>2 DEF Sound, Formed, Route
<1>5. u \in Users \cup {NoUser}
  BY <1>2, RequestFields
<1>6. /\ c \in Request
      /\ c.pc = call.op /\ c.tenant = call.tenant /\ c.locked = call.locked
      /\ c.target = call.target /\ c.role = call.role /\ c.invite = call.invite
  BY <1>2, <1>4, <1>5, CalledByFields DEF Pc
<1> HIDE DEF c
<1>7. c.pc \notin Transferring \cup Accepting \cup {"lockInvite", "checkRole", "createDefault"}
  BY <1>4, <1>6, ScopedIs DEF Transferring, Accepting
<1>8. call.pc \in OnTenant /\ Route(c) = call.op
  BY <1>1, <1>6, <1>7 DEF OnTenant, Route
<1>9. Sound(c)
  BY <1>2, <1>4, <1>6, <1>7, <1>8
  DEF Sound, Formed, OwnerKnown, OwnerDemoted, InviteKnown, InviteHeld, MembershipHeld, Transferring, Accepting
<1>10. \A q \in Slots \ {r} : Apart(c, req[q])
  BY <1>3, <1>6, <1>7 DEF Apart
<1> QED
  BY <1>1, <1>6, <1>9, <1>10, LocalStep

\* What the invariant says of one request.
LEMMA OfRequest ==
    ASSUME IInv, NEW r \in Slots
    PROVE  req[r] \in Request /\ Sound(req[r]) /\ \A q \in Slots \ {r} : Apart(req[r], req[q])
  BY DEF IInv, TypeOK

\* Moves is a Becomes.
LEMMA MovesIs ==
    ASSUME IInv, NEW r \in Slots, NEW pc, Moves(r, pc)
    PROVE  Becomes(r, [req[r] EXCEPT !.pc = pc])
  BY DEF IInv, TypeOK, Moves, Becomes

\* ReadDefault: a request that holds nothing.
LEMMA ReadDefaultKeeps == ASSUME IInv, NEW r \in Slots, ReadDefault(r) PROVE IInv'
<1>1. PICK u \in Users : Becomes(r, CalledBy(NoCall, "createDefault", u)) /\ TablesStay
  BY DEF ReadDefault
<1> DEFINE c == CalledBy(NoCall, "createDefault", u)
<1>2. c \in Request /\ c.pc = "createDefault" /\ c.user = u /\ c.locked = {}
  <2>1. "createDefault" \in Pc
    BY DEF Pc
  <2>2. NoCall.locked = {}
    BY DEF NoCall
  <2> QED
    BY <2>1, <2>2, NoCallSound, CalledByFields
<1>3. Becomes(r, c) /\ TablesStay
  BY <1>1
<1> HIDE DEF c
<1>4. c.pc \notin OnTenant \cup Transferring \cup Accepting /\ Route(c) = "createDefault"
  BY <1>2, ScopedIs DEF OnTenant, Transferring, Accepting, Route
<1>5. Sound(c)
  BY <1>2, <1>4
  DEF Sound, Formed, OwnerKnown, OwnerDemoted, InviteKnown, InviteHeld, MembershipHeld,
      Transferring, Accepting, OnTenant, Route
<1> QED
  BY <1>2, <1>3, <1>4, <1>5, LocalStep, LockFreeApart

\* CountOwned: the request goes on to the UPDATE.
LEMMA CountOwnedKeeps == ASSUME IInv, NEW r \in Slots, CountOwned(r) PROVE IInv'
<1> DEFINE call == req[r]
           c == [call EXCEPT !.pc = "softDelete"]
<1>1. call.pc = "delete" /\ Becomes(r, c) /\ TablesStay
  BY MovesIs DEF CountOwned
<1>2. call \in Request /\ Sound(call) /\ \A q \in Slots \ {r} : Apart(call, req[q])
  BY OfRequest
<1> HIDE DEF call
<1>3. c \in Request /\ c.pc = "softDelete" /\ c.tenant = call.tenant /\ c.locked = call.locked
  BY <1>2, MovedFields DEF Pc
<1> HIDE DEF c
<1>4. Sound(c)
  BY <1>1, <1>2, <1>3, ScopedIs
  DEF Sound, Formed, OwnerKnown, OwnerDemoted, InviteKnown, InviteHeld, MembershipHeld,
      Transferring, Accepting, OnTenant, Route
<1>5. \A q \in Slots \ {r} : Apart(c, req[q])
  BY <1>2, <1>3 DEF Apart, Transferring, Accepting
<1> QED
  BY <1>1, <1>3, <1>4, <1>5, LocalStep

\* LockTenant: no other transfer of the tenant is open, and the owner is read
\* under the lock.
LEMMA LockTenantKeeps == ASSUME IInv, NEW r \in Slots, LockTenant(r) PROVE IInv'
<1> DEFINE call == req[r]
           o == tenants[call.tenant].owner
           c == Owning(call, "checkMember", o)
<1>1. /\ call.pc = "transfer" /\ Live(call.tenant) /\ TenantFree(call.tenant)
      /\ Becomes(r, c) /\ TablesStay
  BY DEF LockTenant
<1>2. call \in Request /\ Sound(call) /\ \A q \in Slots \ {r} : Apart(call, req[q])
  BY OfRequest
<1> HIDE DEF call
<1>3. /\ call.tenant \in Tenants /\ tenants[call.tenant] # NoTenant /\ call.target \in Users
      /\ call.pc \notin Transferring
  BY <1>1, <1>2, ScopedIs DEF Sound, Formed, OnTenant, Route, Transferring
<1>4. o \in Users
  BY <1>3 DEF IInv, TypeOK, TenantRow
<1>5. /\ c \in Request /\ c.pc = "checkMember" /\ c.owner = o /\ c.tenant = call.tenant
      /\ c.target = call.target /\ c.locked = call.locked
  <2>1. "checkMember" \in Pc
    BY DEF Pc
  <2> HIDE DEF o
  <2> QED
    BY <2>1, <1>2, <1>4, OwningFields
<1>6. c.owner = tenants[c.tenant].owner /\ ~tenants[c.tenant].deleted
  BY <1>1, <1>5 DEF Live
<1> HIDE DEF c
<1>7. Sound(c)
  BY <1>3, <1>5, <1>6
  DEF Sound, Formed, OwnerKnown, OwnerDemoted, InviteKnown, InviteHeld, MembershipHeld,
      Transferring, Accepting, OnTenant, Route
<1>8. \A q \in Slots \ {r} : Apart(c, req[q])
  BY <1>1, <1>2, <1>5 DEF Apart, TenantFree, Accepting
<1> QED
  BY <1>1, <1>5, <1>7, <1>8, LocalStep

\* CheckMember: the transfer goes on.
LEMMA CheckMemberKeeps == ASSUME IInv, NEW r \in Slots, CheckMember(r) PROVE IInv'
<1> DEFINE call == req[r]
           c == [call EXCEPT !.pc = "demote"]
<1>1. call.pc = "checkMember" /\ Becomes(r, c) /\ TablesStay
  BY MovesIs DEF CheckMember
<1>2. call \in Request /\ Sound(call) /\ \A q \in Slots \ {r} : Apart(call, req[q])
  BY OfRequest
<1> HIDE DEF call
<1>3. /\ c \in Request /\ c.pc = "demote" /\ c.tenant = call.tenant /\ c.locked = call.locked
      /\ c.owner = call.owner /\ c.target = call.target
  BY <1>2, MovedFields DEF Pc
<1> HIDE DEF c
<1>4. Sound(c)
  BY <1>1, <1>2, <1>3
  DEF Sound, Formed, OwnerKnown, OwnerDemoted, InviteKnown, InviteHeld, MembershipHeld,
      Transferring, Accepting, OnTenant, Route
<1>5. \A q \in Slots \ {r} : Apart(c, req[q])
  BY <1>1, <1>2, <1>3 DEF Apart, Transferring, Accepting
<1> QED
  BY <1>1, <1>3, <1>4, <1>5, LocalStep

\* A row that is there to be locked is not locked by another request.
LEMMA HitApart ==
    ASSUME IInv, NEW r \in Slots, NEW u \in Users, RowFree(r, u)
    PROVE  /\ Hit(r, u) \subseteq Users
           /\ \A q \in Slots \ {r} :
                 req[q].tenant = req[r].tenant => Hit(r, u) \cap req[q].locked = {}
  BY DEF Hit, RowFree, KeyFree

\* Demote: the old owner's row is locked, if it is there.
LEMMA DemoteKeeps == ASSUME IInv, NEW r \in Slots, Demote(r) PROVE IInv'
<1> DEFINE call == req[r]
           rows == Hit(r, call.owner)
           c == Locking(call, "promote", rows)
<1>1. call.pc = "demote" /\ RowFree(r, call.owner) /\ Becomes(r, c) /\ TablesStay
  BY DEF Demote
<1>2. call \in Request /\ Sound(call) /\ \A q \in Slots \ {r} : Apart(call, req[q])
  BY OfRequest
<1>3. rows = IF member[call.tenant][call.owner] = "none" THEN {} ELSE {call.owner}
  BY DEF Hit
<1>4. /\ call.tenant \in Tenants /\ tenants[call.tenant] # NoTenant /\ call.target \in Users
      /\ call.owner = tenants[call.tenant].owner /\ ~tenants[call.tenant].deleted
  BY <1>1, <1>2 DEF Sound, Formed, OwnerKnown, OnTenant, Route, Transferring
<1>5. call.owner \in Users
  BY <1>4 DEF IInv, TypeOK, TenantRow
<1>6. /\ rows \in SUBSET Users
      /\ \A q \in Slots \ {r} : req[q].tenant = call.tenant => rows \cap req[q].locked = {}
  BY <1>1, <1>5, HitApart
<1> HIDE DEF call, rows
<1>7. /\ c \in Request /\ c.pc = "promote" /\ c.tenant = call.tenant /\ c.locked = rows
      /\ c.owner = call.owner /\ c.target = call.target
  <2>1. "promote" \in Pc
    BY DEF Pc
  <2> QED
    BY <2>1, <1>2, <1>6, LockingFields
<1> HIDE DEF c
<1>8. c.owner \in c.locked \/ member[c.tenant][c.owner] # "owner"
  BY <1>3, <1>7
<1>9. Sound(c)
  BY <1>4, <1>7, <1>8
  DEF Sound, Formed, OwnerKnown, OwnerDemoted, InviteKnown, InviteHeld, MembershipHeld,
      Transferring, Accepting, OnTenant, Route
<1>10. \A q \in Slots \ {r} : Apart(c, req[q])
  BY <1>1, <1>2, <1>6, <1>7 DEF Apart, Transferring, Accepting
<1> QED
  BY <1>1, <1>7, <1>9, <1>10, LocalStep

\* Promote: so is the new owner's.
LEMMA PromoteKeeps == ASSUME IInv, NEW r \in Slots, Promote(r) PROVE IInv'
<1> DEFINE call == req[r]
           rows == Hit(r, call.target)
           c == Locking(call, "publish", call.locked \cup rows)
<1>1. call.pc = "promote" /\ RowFree(r, call.target) /\ Becomes(r, c) /\ TablesStay
  BY DEF Promote
<1>2. call \in Request /\ Sound(call) /\ \A q \in Slots \ {r} : Apart(call, req[q])
  BY OfRequest
<1>4. /\ call.tenant \in Tenants /\ tenants[call.tenant] # NoTenant /\ call.target \in Users
      /\ call.owner = tenants[call.tenant].owner /\ ~tenants[call.tenant].deleted
      /\ call.owner \in call.locked \/ member[call.tenant][call.owner] # "owner"
  BY <1>1, <1>2 DEF Sound, Formed, OwnerKnown, OwnerDemoted, OnTenant, Route, Transferring
<1>6. /\ rows \in SUBSET Users
      /\ \A q \in Slots \ {r} : req[q].tenant = call.tenant => rows \cap req[q].locked = {}
  BY <1>1, <1>4, HitApart
<1> HIDE DEF call, rows
<1>7. /\ c \in Request /\ c.pc = "publish" /\ c.tenant = call.tenant
      /\ c.locked = call.locked \cup rows
      /\ c.owner = call.owner /\ c.target = call.target
  <2>1. "publish" \in Pc
    BY DEF Pc
  <2>2. call.locked \cup rows \in SUBSET Users
    BY <1>2, <1>6, RequestFields
  <2> QED
    BY <2>1, <2>2, <1>2, LockingFields
<1> HIDE DEF c
<1>9. Sound(c)
  BY <1>4, <1>7
  DEF Sound, Formed, OwnerKnown, OwnerDemoted, InviteKnown, InviteHeld, MembershipHeld,
      Transferring, Accepting, OnTenant, Route
<1>10. \A q \in Slots \ {r} : Apart(c, req[q])
  BY <1>1, <1>2, <1>6, <1>7 DEF Apart, Transferring, Accepting
<1> QED
  BY <1>1, <1>7, <1>9, <1>10, LocalStep

\* ReadInvite: the request copies the invite.
LEMMA ReadInviteKeeps == ASSUME IInv, NEW r \in Slots, ReadInvite(r) PROVE IInv'
<1>1. PICK i \in Invites :
        /\ invites[i] # NoInvite /\ Live(invites[i].tenant)
        /\ Becomes(r, [Call("none", invites[i].email, invites[i].tenant, NoUser, invites[i].role, i)
                         EXCEPT !.pc = "lockInvite"])
        /\ TablesStay
  BY DEF ReadInvite
<1> DEFINE b == Call("none", invites[i].email, invites[i].tenant, NoUser, invites[i].role, i)
           c == [b EXCEPT !.pc = "lockInvite"]
<1>2. invites[i] \in InviteRow
  BY <1>1 DEF IInv, TypeOK
<1>3. /\ invites[i].email \in Users /\ invites[i].tenant \in Tenants
      /\ invites[i].role \in {"member", "admin"}
  BY <1>2 DEF InviteRow
<1>4. tenants[invites[i].tenant] # NoTenant
  BY <1>1 DEF Live
<1>5. /\ b \in Request /\ b.user = invites[i].email /\ b.tenant = invites[i].tenant
      /\ b.role = invites[i].role /\ b.invite = i /\ b.locked = {}
  BY <1>3, NoCallSound DEF Call, NoCall, Request, Role
<1> HIDE DEF b
<1>6. /\ c \in Request /\ c.pc = "lockInvite" /\ c.user = b.user /\ c.tenant = b.tenant
      /\ c.role = b.role /\ c.invite = b.invite /\ c.locked = {}
  BY <1>5, MovedFields DEF Pc
<1>7. Becomes(r, c) /\ TablesStay
  BY <1>1 DEF b
<1> HIDE DEF c
<1>8. Sound(c)
  BY <1>1, <1>3, <1>4, <1>5, <1>6
  DEF Sound, Formed, OwnerKnown, OwnerDemoted, InviteKnown, InviteHeld, MembershipHeld,
      Transferring, Accepting, OnTenant, Route
<1>9. c.pc \notin Transferring \cup Accepting
  BY <1>6 DEF Transferring, Accepting
<1> QED
  BY <1>6, <1>7, <1>8, <1>9, LocalStep, LockFreeApart

\* LockInvite: no other accept of the invite is open, and it is usable.
LEMMA LockInviteKeeps == ASSUME IInv, NEW r \in Slots, LockInvite(r) PROVE IInv'
<1> DEFINE call == req[r]
           c == [call EXCEPT !.pc = "readMembership"]
<1>1. /\ call.pc = "lockInvite" /\ InviteFree(call.invite) /\ Pending(call.invite)
      /\ Becomes(r, c) /\ TablesStay
  BY MovesIs DEF LockInvite
<1>2. call \in Request /\ Sound(call) /\ \A q \in Slots \ {r} : Apart(call, req[q])
  BY OfRequest
<1> HIDE DEF call
<1>3. /\ c \in Request /\ c.pc = "readMembership" /\ c.tenant = call.tenant /\ c.locked = call.locked
      /\ c.user = call.user /\ c.role = call.role /\ c.invite = call.invite
  BY <1>2, MovedFields DEF Pc
<1> HIDE DEF c
<1>4. Sound(c)
  BY <1>1, <1>2, <1>3
  DEF Sound, Formed, OwnerKnown, OwnerDemoted, InviteKnown, InviteHeld, MembershipHeld,
      Transferring, Accepting, OnTenant, Route, Pending
<1>5. \A q \in Slots \ {r} : Apart(c, req[q])
  BY <1>1, <1>2, <1>3 DEF Apart, Transferring, InviteFree
<1> QED
  BY <1>1, <1>3, <1>4, <1>5, LocalStep

\* The ranks an accept compares.
LEMMA RankOf ==
    /\ Rank["none"] = 0 /\ Rank["member"] = 1 /\ Rank["admin"] = 2 /\ Rank["owner"] = 3
  BY DEF Rank

\* An accept that finds no membership escalates.
LEMMA NoneEscalates ==
    ASSUME NEW role \in {"member", "admin"} PROVE Escalates("none", role)
  BY RankOf DEF Escalates

\* ReadMembership: the membership is locked if it is there, and if it is not
\* the accept inserts one.
LEMMA ReadMembershipKeeps == ASSUME IInv, NEW r \in Slots, ReadMembership(r) PROVE IInv'
<1> DEFINE call == req[r]
           found == member[call.tenant][call.user]
           pc == IF Escalates(found, call.role) THEN "upsert" ELSE "accept"
           rows == Hit(r, call.user)
           c == Finding(call, pc, found, rows)
<1>1. call.pc = "readMembership" /\ RowFree(r, call.user) /\ Becomes(r, c) /\ TablesStay
  BY DEF ReadMembership, Hold
<1>2. call \in Request /\ Sound(call) /\ \A q \in Slots \ {r} : Apart(call, req[q])
  BY OfRequest
<1>3. rows = IF found = "none" THEN {} ELSE {call.user}
  BY DEF Hit
<1>4. /\ call.invite \in Invites /\ invites[call.invite] # NoInvite
      /\ call.user = invites[call.invite].email /\ call.tenant = invites[call.invite].tenant
      /\ call.role = invites[call.invite].role
      /\ ~invites[call.invite].accepted /\ ~invites[call.invite].revoked
      /\ call.tenant \in Tenants /\ tenants[call.tenant] # NoTenant
  BY <1>1, <1>2 DEF Sound, Formed, InviteKnown, InviteHeld, OnTenant, Accepting
<1>5. call.user \in Users /\ call.role \in {"member", "admin"}
  BY <1>4 DEF IInv, TypeOK, InviteRow
<1>6. /\ rows \in SUBSET Users
      /\ \A q \in Slots \ {r} : req[q].tenant = call.tenant => rows \cap req[q].locked = {}
  BY <1>1, <1>5, HitApart
<1>7. found \in Role \cup {"none"}
  BY <1>4, <1>5 DEF IInv, TypeOK
<1>8. pc \in Pc /\ pc \in {"upsert", "accept"}
  BY DEF Pc
<1>9. pc = "upsert" => Escalates(found, call.role)
  OBVIOUS
<1>10. pc = "accept" => call.user \in rows
  BY <1>3, <1>5, NoneEscalates
<1>11. found = member[call.tenant][call.user]
  OBVIOUS
<1> HIDE DEF call, rows, found, pc
<1>12. /\ c \in Request /\ c.pc = pc /\ c.found = found /\ c.locked = rows
       /\ c.tenant = call.tenant /\ c.user = call.user /\ c.role = call.role /\ c.invite = call.invite
  BY <1>2, <1>6, <1>7, <1>8, FindingFields
<1> HIDE DEF c
<1>13. Sound(c)
  BY <1>4, <1>8, <1>9, <1>10, <1>11, <1>12
  DEF Sound, Formed, OwnerKnown, OwnerDemoted, InviteKnown, InviteHeld, MembershipHeld,
      Transferring, Accepting, OnTenant, Route
<1>14. \A q \in Slots \ {r} : Apart(c, req[q])
  BY <1>1, <1>2, <1>6, <1>8, <1>12 DEF Apart, Transferring, Accepting
<1> QED
  BY <1>1, <1>12, <1>13, <1>14, LocalStep

\* Upsert: the row is locked now, whether it was there or not.
LEMMA UpsertKeeps == ASSUME IInv, NEW r \in Slots, Upsert(r) PROVE IInv'
<1> DEFINE call == req[r]
           rows == {call.user}
           c == Locking(call, "accept", rows)
<1>1. call.pc = "upsert" /\ KeyFree(r, call.user) /\ Becomes(r, c) /\ TablesStay
  BY DEF Upsert
<1>2. call \in Request /\ Sound(call) /\ \A q \in Slots \ {r} : Apart(call, req[q])
  BY OfRequest
<1>3. \A q \in Slots \ {r} : req[q].tenant = call.tenant => rows \cap req[q].locked = {}
  BY <1>1 DEF KeyFree
<1>4. call.invite \in Invites /\ invites[call.invite] # NoInvite
      /\ call.user = invites[call.invite].email
  BY <1>1, <1>2 DEF Sound, InviteKnown, Accepting
<1>5. rows \in SUBSET Users
  BY <1>4 DEF IInv, TypeOK, InviteRow
<1>6. call.user \in rows
  OBVIOUS
<1> HIDE DEF call, rows
<1>7. /\ c \in Request /\ c.pc = "accept" /\ c.found = call.found /\ c.locked = rows
      /\ c.tenant = call.tenant /\ c.user = call.user /\ c.role = call.role /\ c.invite = call.invite
  <2>1. "accept" \in Pc
    BY DEF Pc
  <2> QED
    BY <2>1, <1>2, <1>5, LockingFields
<1> HIDE DEF c
<1>8. Sound(c)
  BY <1>1, <1>2, <1>6, <1>7
  DEF Sound, Formed, OwnerKnown, OwnerDemoted, InviteKnown, InviteHeld, MembershipHeld,
      Transferring, Accepting, OnTenant, Route
<1>9. \A q \in Slots \ {r} : Apart(c, req[q])
  BY <1>1, <1>2, <1>3, <1>7 DEF Apart, Transferring, Accepting
<1> QED
  BY <1>1, <1>7, <1>8, <1>9, LocalStep

\* A request that fails or dies leaves nothing behind.
LEMMA EndKeeps == ASSUME IInv, NEW r \in Slots, Ends(r), TablesStay PROVE IInv'
  BY NoCallSound, LocalStep DEF Ends

----------------------------------------------------------------------------
(* Steps that change a table *)

\* What a request relies on in tenants holds as long as tenants stays.
LEMMA TenantsStay ==
    ASSUME NEW q \in Slots, req'[q] = req[q], tenants' = tenants, Sound(req[q])
    PROVE  Formed(req[q])' /\ OwnerKnown(req[q])'
  BY DEF Sound, Formed, OwnerKnown

\* The same for the membership rows it has locked or found.
LEMMA MembersStay ==
    ASSUME NEW q \in Slots, req'[q] = req[q], member' = member, Sound(req[q])
    PROVE  OwnerDemoted(req[q])' /\ MembershipHeld(req[q])'
  BY DEF Sound, OwnerDemoted, MembershipHeld

\* The same for the invite it accepts.
LEMMA InvitesStay ==
    ASSUME NEW q \in Slots, req'[q] = req[q], invites' = invites, Sound(req[q])
    PROVE  InviteKnown(req[q])' /\ InviteHeld(req[q])'
  BY DEF Sound, InviteKnown, InviteHeld

\* A new tenant had no rows that a request could rely on.
LEMMA NewTenantBears ==
    ASSUME IInv, NEW t \in Tenants, NEW u \in Users, NEW default \in Users \cup {NoUser},
           NewTenant(t, u, default)
    PROVE  /\ tenants' \in [Tenants -> TenantRow \cup {NoTenant}]
           /\ member' \in [Tenants -> [Users -> Role \cup {"none"}]]
           /\ invites' \in [Invites -> InviteRow \cup {NoInvite}]
           /\ OneOwner' /\ InviteUsedOnce'
           /\ \A q \in Slots : req'[q] = req[q] => Sound(req[q])'
<1> DEFINE row == [owner |-> u, deleted |-> FALSE, default |-> default]
<1>1. /\ tenants[t] = NoTenant /\ invites' = invites
      /\ tenants' = [tenants EXCEPT ![t] = row]
      /\ member' = [member EXCEPT ![t][u] = "owner"]
  BY DEF NewTenant
<1>2. row \in TenantRow /\ row.owner = u
  BY DEF TenantRow
<1> HIDE DEF row
<1>3. /\ tenants \in [Tenants -> TenantRow \cup {NoTenant}]
      /\ member \in [Tenants -> [Users -> Role \cup {"none"}]]
      /\ invites \in [Invites -> InviteRow \cup {NoInvite}]
  BY DEF IInv, TypeOK
<1>4. tenants' \in [Tenants -> TenantRow \cup {NoTenant}]
  BY <1>1, <1>2, <1>3
<1>5. member' \in [Tenants -> [Users -> Role \cup {"none"}]]
  BY <1>1, <1>3 DEF Role
<1>6. /\ tenants'[t] = row /\ row # NoTenant
      /\ \A x \in Tenants \ {t} : tenants'[x] = tenants[x] /\ member'[x] = member[x]
      /\ member'[t][u] = "owner" /\ \A v \in Users \ {u} : member'[t][v] = member[t][v]
  BY <1>1, <1>2, <1>3
<1>7. OneOwner'
  BY <1>1, <1>2, <1>6 DEF IInv, OneOwner
<1>8. InviteUsedOnce'
  BY <1>1 DEF IInv, InviteUsedOnce
<1>9. ASSUME NEW q \in Slots, req'[q] = req[q] PROVE Sound(req[q])'
  <2>1. Sound(req[q])
    BY DEF IInv
  <2>2. req[q].pc \in OnTenant => req[q].tenant \in Tenants \ {t}
    BY <2>1, <1>1 DEF Sound, Formed
  <2>3. Formed(req[q])' /\ OwnerKnown(req[q])'
    BY <2>1, <2>2, <1>6, <1>9 DEF Sound, Formed, OwnerKnown, OnTenant
  <2>4. OwnerDemoted(req[q])' /\ MembershipHeld(req[q])'
    BY <2>1, <2>2, <1>6, <1>9
    DEF Sound, OwnerDemoted, MembershipHeld, OnTenant, Transferring, Accepting
  <2> QED
    BY <2>1, <2>3, <2>4, <1>1, <1>9, InvitesStay DEF Sound
<1> QED
  BY <1>1, <1>3, <1>4, <1>5, <1>7, <1>8, <1>9

\* CreateTenant leaves every request as it is.
LEMMA CreateTenantKeeps == ASSUME IInv, NEW r \in Slots, CreateTenant(r) PROVE IInv'
<1>1. PICK t \in Tenants, u \in Users : NewTenant(t, u, NoUser) /\ req' = req
  BY DEF CreateTenant
<1>2. \A q, p \in Slots : q # p => Apart(req[q], req[p])'
  BY <1>1 DEF IInv, Apart
<1>3. (req \in [Slots -> Request])'
  BY <1>1 DEF IInv, TypeOK
<1> QED
  BY <1>1, <1>2, <1>3, NewTenantBears DEF IInv, TypeOK

\* CreateDefault does the same and ends its request.
LEMMA CreateDefaultKeeps == ASSUME IInv, NEW r \in Slots, CreateDefault(r) PROVE IInv'
<1>1. PICK t \in Tenants : NewTenant(t, req[r].user, req[r].user) /\ Ends(r)
  BY DEF CreateDefault
<1>2. req[r].user \in Users
  BY OfRequest DEF CreateDefault, Sound, Formed
<1> QED
  BY <1>1, <1>2, NewTenantBears, LastStep

\* SoftDelete: a deleted tenant keeps its row and its owner.
LEMMA SoftDeleteKeeps == ASSUME IInv, NEW r \in Slots, SoftDelete(r) PROVE IInv'
<1> DEFINE t == req[r].tenant
           row == [tenants[t] EXCEPT !.deleted = TRUE]
<1>1. /\ req[r].pc = "softDelete" /\ TenantFree(t) /\ Ends(r) /\ member' = member /\ invites' = invites
      /\ tenants' = [tenants EXCEPT ![t].deleted = TRUE]
  BY DEF SoftDelete
<1>2. t \in Tenants /\ tenants[t] # NoTenant
  BY <1>1, OfRequest DEF Sound, Formed, OnTenant
<1>3. tenants \in [Tenants -> TenantRow \cup {NoTenant}]
  BY DEF IInv, TypeOK
<1>4. tenants' = [tenants EXCEPT ![t] = row]
  BY <1>1, <1>2, <1>3
<1>5. row \in TenantRow /\ row.owner = tenants[t].owner
  BY <1>2, <1>3 DEF TenantRow
<1> HIDE DEF row
<1>6. tenants' \in [Tenants -> TenantRow \cup {NoTenant}]
  BY <1>3, <1>4, <1>5
<1>7. \A x \in Tenants : tenants[x] # NoTenant => tenants'[x] # NoTenant /\ tenants'[x].owner = tenants[x].owner
  BY <1>3, <1>4, <1>5
<1>8. \A x \in Tenants \ {t} : tenants'[x] = tenants[x]
  BY <1>3, <1>4
<1>9. OneOwner' /\ InviteUsedOnce'
  BY <1>1, <1>7 DEF IInv, OneOwner, InviteUsedOnce
<1>10. ASSUME NEW q \in Slots \ {r}, req'[q] = req[q] PROVE Sound(req[q])'
  <2>1. Sound(req[q])
    BY DEF IInv
  <2>2. Formed(req[q])' /\ OwnerKnown(req[q])'
    BY <2>1, <1>1, <1>7, <1>10, <1>8 DEF Sound, Formed, OwnerKnown, OnTenant, TenantFree
  <2> QED
    BY <2>1, <2>2, <1>1, <1>10, MembersStay, InvitesStay DEF Sound
<1> QED
  BY <1>1, <1>6, <1>9, <1>10, LastStep DEF IInv, TypeOK

\* Publish: only the new owner ends up as owner, and nobody else holds a row
\* that changes.
LEMMA PublishKeeps == ASSUME IInv, NEW r \in Slots, Publish(r) PROVE IInv'
<1> DEFINE call == req[r]
           t == call.tenant
           roles == [u \in Users |-> IF u \notin call.locked THEN member[t][u]
                                     ELSE IF u = call.target THEN "owner" ELSE "admin"]
           row == [tenants[t] EXCEPT !.owner = call.target]
<1>1. /\ call.pc = "publish" /\ Ends(r) /\ invites' = invites
      /\ tenants' = [tenants EXCEPT ![t].owner = call.target]
      /\ member' = [member EXCEPT ![t] = roles]
  BY DEF Publish
<1>2. call \in Request /\ Sound(call) /\ \A q \in Slots \ {r} : Apart(call, req[q])
  BY OfRequest
<1>3. /\ t \in Tenants /\ tenants[t] # NoTenant /\ call.target \in Users
      /\ tenants[t].owner = call.owner
      /\ call.owner \in call.locked \/ member[t][call.owner] # "owner"
  BY <1>1, <1>2 DEF Sound, Formed, OwnerKnown, OwnerDemoted, OnTenant, Route, Transferring
<1>4. /\ tenants \in [Tenants -> TenantRow \cup {NoTenant}]
      /\ member \in [Tenants -> [Users -> Role \cup {"none"}]]
  BY DEF IInv, TypeOK
<1>5. tenants' = [tenants EXCEPT ![t] = row]
  BY <1>1, <1>3, <1>4
<1>6. row \in TenantRow /\ row.owner = call.target
  BY <1>3, <1>4 DEF TenantRow
<1>7. /\ roles \in [Users -> Role \cup {"none"}]
      /\ \A u \in Users : roles[u] = IF u \notin call.locked THEN member[t][u]
                                     ELSE IF u = call.target THEN "owner" ELSE "admin"
  BY <1>3, <1>4 DEF Role
<1> HIDE DEF row, roles
<1>8. /\ tenants'[t] = row /\ member'[t] = roles
      /\ \A x \in Tenants \ {t} : tenants'[x] = tenants[x] /\ member'[x] = member[x]
  BY <1>1, <1>3, <1>4, <1>5
<1>9. /\ tenants' \in [Tenants -> TenantRow \cup {NoTenant}]
      /\ member' \in [Tenants -> [Users -> Role \cup {"none"}]]
  <2> HIDE DEF t
  <2>1. tenants' \in [Tenants -> TenantRow \cup {NoTenant}]
    BY <1>3, <1>4, <1>5, <1>6
  <2>2. member' \in [Tenants -> [Users -> Role \cup {"none"}]]
    <3> DEFINE Roles == [Users -> Role \cup {"none"}]
    <3>1. member \in [Tenants -> Roles] /\ roles \in Roles /\ member' = [member EXCEPT ![t] = roles]
      BY <1>1, <1>4, <1>7
    <3> HIDE DEF Roles
    <3>2. member' \in [Tenants -> Roles]
      BY <3>1
    <3> QED
      BY <3>2 DEF Roles
  <2> QED
    BY <2>1, <2>2
<1>10. row # NoTenant
  BY <1>6
<1>11. ASSUME NEW u \in Users, roles[u] = "owner" PROVE u = call.target
  BY <1>3, <1>7, <1>11 DEF IInv, OneOwner
<1>12. OneOwner'
  BY <1>6, <1>8, <1>10, <1>11 DEF IInv, OneOwner
<1>13. InviteUsedOnce'
  BY <1>1 DEF IInv, InviteUsedOnce
<1>14. ASSUME NEW q \in Slots \ {r}, req'[q] = req[q] PROVE Sound(req[q])'
  <2> DEFINE d == req[q]
  <2>1. Sound(d) /\ Apart(call, d) /\ d \in Request
    BY <1>2, OfRequest
  <2>2. d.pc \in Transferring => d.tenant # t
    BY <2>1, <1>1 DEF Apart, Transferring
  <2>3. d.tenant = t => call.locked \cap d.locked = {}
    BY <2>1 DEF Apart
  <2>4. Formed(d)' /\ OwnerKnown(d)'
    BY <2>1, <2>2, <1>3, <1>8, <1>10, <1>14 DEF Sound, Formed, OwnerKnown, OnTenant
  <2>5. OwnerDemoted(d)'
    BY <2>1, <2>2, <1>8, <1>14 DEF Sound, Formed, OwnerDemoted, Transferring, OnTenant
  <2>6. MembershipHeld(d)'
    <3>1. SUFFICES ASSUME d.pc = "accept", d.tenant = t
                   PROVE  member'[t][d.user] = member[t][d.user]
      BY <2>1, <1>8, <1>14 DEF Sound, Formed, MembershipHeld, OnTenant, Accepting
    <3>2. d.user \in d.locked /\ d.user \in Users
      BY <3>1, <2>1, RequestFields DEF Sound, MembershipHeld
    <3> QED
      BY <3>1, <3>2, <2>3, <1>7, <1>8
  <2> QED
    BY <2>1, <2>4, <2>5, <2>6, <1>1, <1>14, InvitesStay DEF Sound
<1> QED
  BY <1>1, <1>9, <1>12, <1>13, <1>14, LastStep DEF IInv, TypeOK

\* A role other than owner may go into a row that no other request holds.
LEMMA MemberEditBears ==
    ASSUME IInv, NEW r \in Slots, NEW u \in Users, req[r].tenant \in Tenants,
           NEW role \in Role \cup {"none"},
           role # "owner" \/ role = member[req[r].tenant][u],
           role = member[req[r].tenant][u] \/ KeyFree(r, u),
           member' = [member EXCEPT ![req[r].tenant][u] = role], tenants' = tenants
    PROVE  /\ tenants' \in [Tenants -> TenantRow \cup {NoTenant}]
           /\ member' \in [Tenants -> [Users -> Role \cup {"none"}]]
           /\ OneOwner'
           /\ \A q \in Slots \ {r} : req'[q] = req[q] =>
                 OwnerDemoted(req[q])' /\ MembershipHeld(req[q])'
<1> DEFINE t == req[r].tenant
<1>1. /\ tenants \in [Tenants -> TenantRow \cup {NoTenant}]
      /\ member \in [Tenants -> [Users -> Role \cup {"none"}]]
  BY DEF IInv, TypeOK
<1>2. /\ member'[t][u] = role
      /\ \A v \in Users \ {u} : member'[t][v] = member[t][v]
      /\ \A x \in Tenants \ {t} : member'[x] = member[x]
  BY <1>1
<1>3. member' \in [Tenants -> [Users -> Role \cup {"none"}]]
  BY <1>1
<1>4. OneOwner'
  BY <1>2 DEF IInv, OneOwner
<1>5. ASSUME NEW q \in Slots \ {r}, req'[q] = req[q]
      PROVE  OwnerDemoted(req[q])' /\ MembershipHeld(req[q])'
  <2> DEFINE d == req[q]
  <2>1. Sound(d) /\ d \in Request
    BY OfRequest
  <2>2. ASSUME d.pc \in {"promote", "publish"} PROVE d.tenant \in Tenants /\ d.owner \in Users
    BY <2>1, <2>2 DEF Sound, Formed, OwnerKnown, OnTenant, Transferring, IInv, TypeOK, TenantRow
  <2>3. ASSUME d.pc = "accept" PROVE d.tenant \in Tenants /\ d.user \in Users /\ d.user \in d.locked
    BY <2>1, <2>3, RequestFields DEF Sound, Formed, MembershipHeld, OnTenant, Accepting
  <2>4. OwnerDemoted(d)'
    BY <2>1, <2>2, <1>2, <1>5 DEF Sound, OwnerDemoted
  <2>5. ASSUME d.pc = "accept" PROVE member'[d.tenant][d.user] = member[d.tenant][d.user]
    BY <2>3, <2>5, <1>2 DEF KeyFree
  <2>6. MembershipHeld(d)'
    BY <2>1, <2>5, <1>5 DEF Sound, MembershipHeld
  <2> QED
    BY <2>4, <2>6
<1> QED
  BY <1>1, <1>3, <1>4, <1>5

\* ChangeRole: the row is not locked, or there is none and nothing changes.
LEMMA ChangeRoleKeeps == ASSUME IInv, NEW r \in Slots, ChangeRole(r) PROVE IInv'
<1> DEFINE call == req[r]
           now == member[call.tenant][call.target]
           role == IF now = "none" THEN now ELSE call.role
<1>1. /\ call.pc = "changeRole" /\ RowFree(r, call.target) /\ Ends(r)
      /\ tenants' = tenants /\ invites' = invites
      /\ member' = [member EXCEPT ![call.tenant][call.target] = IF @ = "none" THEN @ ELSE call.role]
  BY DEF ChangeRole
<1>2. /\ call.tenant \in Tenants /\ call.target \in Users /\ call.role \in {"member", "admin"}
  BY <1>1, OfRequest, ScopedIs DEF Sound, Formed, OnTenant, Route, Transferring
<1>3. now \in Role \cup {"none"}
  BY <1>2 DEF IInv, TypeOK
<1>4. member' = [member EXCEPT ![call.tenant][call.target] = role]
  BY <1>1, <1>2 DEF IInv, TypeOK
<1>5. /\ role \in Role \cup {"none"} /\ (role # "owner" \/ role = now)
      /\ role = now \/ KeyFree(r, call.target)
  BY <1>1, <1>2, <1>3 DEF RowFree, Role
<1> HIDE DEF role
<1>6. /\ tenants' \in [Tenants -> TenantRow \cup {NoTenant}]
      /\ member' \in [Tenants -> [Users -> Role \cup {"none"}]]
      /\ OneOwner'
      /\ \A q \in Slots \ {r} : req'[q] = req[q] =>
            OwnerDemoted(req[q])' /\ MembershipHeld(req[q])'
  BY <1>1, <1>2, <1>4, <1>5, MemberEditBears
<1>7. \A q \in Slots \ {r} : req'[q] = req[q] => Sound(req[q])'
  BY <1>1, <1>6, OfRequest, TenantsStay, InvitesStay DEF Sound
<1>8. InviteUsedOnce' /\ invites' \in [Invites -> InviteRow \cup {NoInvite}]
  BY <1>1 DEF IInv, TypeOK, InviteUsedOnce
<1> QED
  BY <1>1, <1>6, <1>7, <1>8, LastStep

\* RemoveMember: the same, and an 'owner' row stays.
LEMMA RemoveMemberKeeps == ASSUME IInv, NEW r \in Slots, RemoveMember(r) PROVE IInv'
<1> DEFINE call == req[r]
           now == member[call.tenant][call.target]
           role == IF now = "owner" THEN now ELSE "none"
<1>1. /\ call.pc = "removeMember" /\ RowFree(r, call.target) /\ Ends(r)
      /\ tenants' = tenants /\ invites' = invites
      /\ member' = [member EXCEPT ![call.tenant][call.target] = IF @ = "owner" THEN @ ELSE "none"]
  BY DEF RemoveMember
<1>2. /\ call.tenant \in Tenants /\ call.target \in Users
  BY <1>1, OfRequest, ScopedIs DEF Sound, Formed, OnTenant, Route, Transferring
<1>3. now \in Role \cup {"none"}
  BY <1>2 DEF IInv, TypeOK
<1>4. member' = [member EXCEPT ![call.tenant][call.target] = role]
  BY <1>1, <1>2 DEF IInv, TypeOK
<1>5. /\ role \in Role \cup {"none"} /\ (role # "owner" \/ role = now)
      /\ role = now \/ KeyFree(r, call.target)
  BY <1>1, <1>2, <1>3 DEF RowFree
<1> HIDE DEF role
<1>6. /\ tenants' \in [Tenants -> TenantRow \cup {NoTenant}]
      /\ member' \in [Tenants -> [Users -> Role \cup {"none"}]]
      /\ OneOwner'
      /\ \A q \in Slots \ {r} : req'[q] = req[q] =>
            OwnerDemoted(req[q])' /\ MembershipHeld(req[q])'
  BY <1>1, <1>2, <1>4, <1>5, MemberEditBears
<1>7. \A q \in Slots \ {r} : req'[q] = req[q] => Sound(req[q])'
  BY <1>1, <1>6, OfRequest, TenantsStay, InvitesStay DEF Sound
<1>8. InviteUsedOnce' /\ invites' \in [Invites -> InviteRow \cup {NoInvite}]
  BY <1>1 DEF IInv, TypeOK, InviteUsedOnce
<1> QED
  BY <1>1, <1>6, <1>7, <1>8, LastStep

\* An invite that no open accept holds may change.
LEMMA InviteEditBears ==
    ASSUME IInv, NEW r \in Slots, NEW i \in Invites, invites[i] # NoInvite, NEW row \in InviteRow,
           row.tenant = invites[i].tenant, row.email = invites[i].email, row.role = invites[i].role,
           ~(row.accepted /\ row.revoked),
           \A q \in Slots \ {r} : req[q].pc \in Accepting /\ req[q].invite = i =>
                                     ~row.accepted /\ ~row.revoked,
           invites' = [invites EXCEPT ![i] = row]
    PROVE  /\ invites' \in [Invites -> InviteRow \cup {NoInvite}]
           /\ InviteUsedOnce'
           /\ \A q \in Slots \ {r} : req'[q] = req[q] =>
                 InviteKnown(req[q])' /\ InviteHeld(req[q])'
<1>1. invites \in [Invites -> InviteRow \cup {NoInvite}] /\ row # NoInvite
  BY DEF IInv, TypeOK
<1>2. /\ invites'[i] = row
      /\ \A j \in Invites \ {i} : invites'[j] = invites[j]
  BY <1>1
<1>3. invites' \in [Invites -> InviteRow \cup {NoInvite}]
  BY <1>1
<1>4. InviteUsedOnce'
  BY <1>2 DEF IInv, InviteUsedOnce
<1>5. ASSUME NEW q \in Slots \ {r}, req'[q] = req[q]
      PROVE  InviteKnown(req[q])' /\ InviteHeld(req[q])'
  <2>1. Sound(req[q])
    BY OfRequest
  <2>2. InviteKnown(req[q])'
    BY <2>1, <1>1, <1>2, <1>5 DEF Sound, InviteKnown
  <2>3. InviteHeld(req[q])'
    BY <2>1, <1>2, <1>5 DEF Sound, InviteKnown, InviteHeld
  <2> QED
    BY <2>2, <2>3
<1> QED
  BY <1>3, <1>4, <1>5

\* Setting one flag of an invite's row.
LEMMA InviteFlags ==
    ASSUME NEW row \in InviteRow
    PROVE  LET a == [row EXCEPT !.accepted = TRUE]
               b == [row EXCEPT !.revoked = TRUE]
               c == [row EXCEPT !.expired = TRUE] IN
           /\ row.tenant \in Tenants /\ row.email \in Users /\ row.role \in {"member", "admin"}
           /\ a \in InviteRow /\ a.tenant = row.tenant /\ a.email = row.email /\ a.role = row.role
           /\ a.accepted = TRUE /\ a.revoked = row.revoked
           /\ b \in InviteRow /\ b.tenant = row.tenant /\ b.email = row.email /\ b.role = row.role
           /\ b.revoked = TRUE /\ b.accepted = row.accepted
           /\ c \in InviteRow /\ c.tenant = row.tenant /\ c.email = row.email /\ c.role = row.role
           /\ c.accepted = row.accepted /\ c.revoked = row.revoked
  BY DEF InviteRow

\* CreateInvite: a new row that no accept could know.
LEMMA CreateInviteKeeps == ASSUME IInv, NEW r \in Slots, CreateInvite(r) PROVE IInv'
<1> DEFINE call == req[r]
           row == [tenant |-> call.tenant, email |-> call.target, role |-> call.role,
                   accepted |-> FALSE, revoked |-> FALSE, expired |-> FALSE]
<1>1. PICK i \in Invites :
        /\ call.pc = "createInvite" /\ invites[i] = NoInvite
        /\ invites' = [invites EXCEPT ![i] = row]
        /\ Ends(r) /\ tenants' = tenants /\ member' = member
  BY DEF CreateInvite
<1>2. call.tenant \in Tenants /\ call.target \in Users /\ call.role \in {"member", "admin"}
  BY <1>1, OfRequest, ScopedIs DEF Sound, Formed, OnTenant, Route, Transferring
<1>3. row \in InviteRow /\ row.accepted = FALSE
  BY <1>2 DEF InviteRow
<1> HIDE DEF row
<1>4. invites \in [Invites -> InviteRow \cup {NoInvite}]
  BY DEF IInv, TypeOK
<1>5. /\ invites'[i] = row /\ \A j \in Invites \ {i} : invites'[j] = invites[j]
      /\ invites' \in [Invites -> InviteRow \cup {NoInvite}]
  BY <1>1, <1>3, <1>4
<1>6. InviteUsedOnce'
  BY <1>3, <1>5 DEF IInv, InviteUsedOnce
<1>7. OneOwner'
  BY <1>1 DEF IInv, OneOwner
<1>8. ASSUME NEW q \in Slots \ {r}, req'[q] = req[q] PROVE Sound(req[q])'
  <2>1. Sound(req[q])
    BY OfRequest
  <2>2. InviteKnown(req[q])' /\ InviteHeld(req[q])'
    BY <2>1, <1>1, <1>5, <1>8 DEF Sound, InviteKnown, InviteHeld
  <2> QED
    BY <2>1, <2>2, <1>1, <1>8, TenantsStay, MembersStay DEF Sound
<1> QED
  BY <1>1, <1>5, <1>6, <1>7, <1>8, LastStep DEF IInv, TypeOK

\* RevokeInvite: no open accept holds the invite.
LEMMA RevokeInviteKeeps == ASSUME IInv, NEW r \in Slots, RevokeInvite(r) PROVE IInv'
<1> DEFINE i == req[r].invite
           row == [invites[i] EXCEPT !.revoked = TRUE]
<1>1. /\ req[r].pc = "revokeInvite" /\ InviteFree(i) /\ Ends(r) /\ tenants' = tenants /\ member' = member
      /\ invites' = IF invites[i] = NoInvite \/ invites[i].accepted THEN invites
                    ELSE [invites EXCEPT ![i].revoked = TRUE]
  BY DEF RevokeInvite
<1>2. CASE invites[i] = NoInvite \/ invites[i].accepted
  BY <1>1, <1>2, EndKeeps DEF TablesStay
<1>3. CASE invites[i] # NoInvite /\ ~invites[i].accepted
  <2>1. i \in Invites
    BY <1>1, OfRequest, ScopedIs DEF Sound, Formed, Route, Transferring
  <2>2. invites[i] \in InviteRow
    BY <2>1, <1>3 DEF IInv, TypeOK
  <2>3. /\ row \in InviteRow /\ row.tenant = invites[i].tenant /\ row.email = invites[i].email
        /\ row.role = invites[i].role /\ row.accepted = invites[i].accepted
    BY <2>2, InviteFlags
  <2>4. invites' = [invites EXCEPT ![i] = row]
    BY <1>1, <1>3
  <2> HIDE DEF row
  <2>5. \A q \in Slots \ {r} : ~(req[q].pc \in Accepting /\ req[q].invite = i)
    BY <1>1 DEF InviteFree
  <2>6. /\ invites' \in [Invites -> InviteRow \cup {NoInvite}]
        /\ InviteUsedOnce'
        /\ \A q \in Slots \ {r} : req'[q] = req[q] =>
              InviteKnown(req[q])' /\ InviteHeld(req[q])'
    BY <2>1, <2>3, <2>4, <2>5, <1>3, InviteEditBears
  <2>7. \A q \in Slots \ {r} : req'[q] = req[q] => Sound(req[q])'
    BY <2>6, <1>1, OfRequest, TenantsStay, MembersStay DEF Sound
  <2>8. OneOwner'
    BY <1>1 DEF IInv, OneOwner
  <2> QED
    BY <1>1, <2>6, <2>7, <2>8, LastStep DEF IInv, TypeOK
<1> QED
  BY <1>2, <1>3

\* Expire: no open accept looks at the time again.
LEMMA ExpireKeeps == ASSUME IInv, NEW i \in Invites, Expire(i) PROVE IInv'
<1> DEFINE row == [invites[i] EXCEPT !.expired = TRUE]
<1>1. /\ invites[i] # NoInvite /\ req' = req /\ tenants' = tenants /\ member' = member
      /\ invites' = [invites EXCEPT ![i] = row]
  BY DEF Expire
<1>2. invites \in [Invites -> InviteRow \cup {NoInvite}]
  BY DEF IInv, TypeOK
<1>3. invites[i] \in InviteRow
  BY <1>1, <1>2
<1>4. /\ row \in InviteRow /\ row.tenant = invites[i].tenant /\ row.email = invites[i].email
      /\ row.role = invites[i].role /\ row.accepted = invites[i].accepted
      /\ row.revoked = invites[i].revoked
  BY <1>3, InviteFlags
<1> HIDE DEF row
<1>5. /\ invites' \in [Invites -> InviteRow \cup {NoInvite}]
      /\ \A j \in Invites : (invites'[j] = NoInvite) = (invites[j] = NoInvite)
      /\ \A j \in Invites : invites[j] # NoInvite =>
            /\ invites'[j].tenant = invites[j].tenant /\ invites'[j].email = invites[j].email
            /\ invites'[j].role = invites[j].role
            /\ invites'[j].accepted = invites[j].accepted /\ invites'[j].revoked = invites[j].revoked
  BY <1>1, <1>2, <1>4
<1>6. TypeOK' /\ OneOwner' /\ InviteUsedOnce'
  BY <1>1, <1>5 DEF IInv, TypeOK, OneOwner, InviteUsedOnce
<1>7. ASSUME NEW q \in Slots PROVE Sound(req[q])'
  <2>1. Sound(req[q])
    BY DEF IInv
  <2>2. InviteKnown(req[q])' /\ InviteHeld(req[q])'
    BY <2>1, <1>1, <1>5 DEF Sound, InviteKnown, InviteHeld, Accepting
  <2> QED
    BY <2>1, <2>2, <1>1, TenantsStay, MembersStay DEF Sound
<1>8. \A q, p \in Slots : q # p => Apart(req[q], req[p])'
  BY <1>1 DEF IInv, Apart
<1> QED
  BY <1>6, <1>7, <1>8 DEF IInv

\* What an open accept has established by the time it commits.
LEMMA AcceptKnows ==
    ASSUME IInv, NEW r \in Slots, req[r].pc = "accept"
    PROVE  /\ req[r].tenant \in Tenants /\ req[r].user \in Users /\ req[r].invite \in Invites
           /\ invites[req[r].invite] \in InviteRow
           /\ ~invites[req[r].invite].accepted /\ ~invites[req[r].invite].revoked
           /\ req[r].user = invites[req[r].invite].email
           /\ req[r].tenant = invites[req[r].invite].tenant
           /\ req[r].role = invites[req[r].invite].role
           /\ req[r].role \in {"member", "admin"}
           /\ Escalates(req[r].found, req[r].role)
              \/ member[req[r].tenant][req[r].user] = req[r].found
           /\ KeyFree(r, req[r].user)
<1> DEFINE call == req[r]
           i == call.invite
<1>1. Sound(call) /\ \A q \in Slots \ {r} : Apart(call, req[q])
  BY OfRequest
<1>2. /\ i \in Invites /\ invites[i] # NoInvite
      /\ call.user = invites[i].email /\ call.tenant = invites[i].tenant
      /\ call.role = invites[i].role
      /\ ~invites[i].accepted /\ ~invites[i].revoked
  BY <1>1 DEF Sound, InviteKnown, InviteHeld, Accepting
<1>3. invites[i] \in InviteRow
  BY <1>2 DEF IInv, TypeOK
<1>4. call.tenant \in Tenants /\ call.user \in Users /\ call.role \in {"member", "admin"}
  BY <1>2, <1>3, InviteFlags
<1>5. /\ call.user \in call.locked
      /\ Escalates(call.found, call.role) \/ member[call.tenant][call.user] = call.found
  BY <1>1 DEF Sound, MembershipHeld
<1>6. KeyFree(r, call.user)
  BY <1>1, <1>5 DEF Apart, KeyFree
<1> QED
  BY <1>2, <1>3, <1>4, <1>5, <1>6

\* Accept: the invite and the membership are this request's own.
LEMMA AcceptKeeps == ASSUME IInv, NEW r \in Slots, Accept(r) PROVE IInv'
<1> DEFINE call == req[r]
           i == call.invite
           row == [invites[i] EXCEPT !.accepted = TRUE]
           grows == Escalates(call.found, call.role)
<1>1. /\ call.pc = "accept" /\ Ends(r) /\ tenants' = tenants
      /\ invites' = [invites EXCEPT ![i].accepted = TRUE]
      /\ member' = IF grows THEN [member EXCEPT ![call.tenant][call.user] = call.role] ELSE member
  BY DEF Accept
<1>2. /\ call.tenant \in Tenants /\ call.user \in Users /\ i \in Invites
      /\ invites[i] \in InviteRow /\ ~invites[i].revoked
      /\ call.role \in {"member", "admin"}
      /\ KeyFree(r, call.user)
  BY <1>1, AcceptKnows
<1>3. /\ row \in InviteRow /\ row.tenant = invites[i].tenant /\ row.email = invites[i].email
      /\ row.role = invites[i].role /\ row.revoked = invites[i].revoked
  BY <1>2, InviteFlags
<1>4. invites' = [invites EXCEPT ![i] = row] /\ invites[i] # NoInvite
  BY <1>1, <1>2
<1> HIDE DEF row, grows
<1>5. ASSUME NEW q \in Slots \ {r} PROVE ~(req[q].pc \in Accepting /\ req[q].invite = i)
  <2>1. Apart(call, req[q]) /\ call.pc \in Accepting
    BY <1>1, OfRequest DEF Accepting
  <2> QED
    BY <2>1 DEF Apart
<1>6. /\ invites' \in [Invites -> InviteRow \cup {NoInvite}]
      /\ InviteUsedOnce'
      /\ \A q \in Slots \ {r} : req'[q] = req[q] =>
            InviteKnown(req[q])' /\ InviteHeld(req[q])'
  BY <1>2, <1>3, <1>4, <1>5, InviteEditBears
<1>7. /\ member' \in [Tenants -> [Users -> Role \cup {"none"}]]
      /\ OneOwner'
      /\ \A q \in Slots \ {r} : req'[q] = req[q] =>
            OwnerDemoted(req[q])' /\ MembershipHeld(req[q])'
  <2>1. CASE grows
    <3>1. member' = [member EXCEPT ![call.tenant][call.user] = call.role]
      BY <2>1, <1>1
    <3>2. call.role \in Role \cup {"none"} /\ call.role # "owner"
      BY <1>2 DEF Role
    <3> QED
      BY <3>1, <3>2, <1>1, <1>2, MemberEditBears
  <2>2. CASE ~grows
    <3>1. member' = member
      BY <2>2, <1>1
    <3>2. OneOwner' /\ member' \in [Tenants -> [Users -> Role \cup {"none"}]]
      BY <3>1, <1>1 DEF IInv, TypeOK, OneOwner
    <3> QED
      BY <3>1, <3>2, OfRequest, MembersStay
  <2> QED
    BY <2>1, <2>2
<1>8. \A q \in Slots \ {r} : req'[q] = req[q] => Sound(req[q])'
  BY <1>1, <1>6, <1>7, OfRequest, TenantsStay DEF Sound
<1>9. tenants' \in [Tenants -> TenantRow \cup {NoTenant}]
  BY <1>1 DEF IInv, TypeOK
<1> QED
  BY <1>1, <1>6, <1>7, <1>8, <1>9, LastStep

----------------------------------------------------------------------------
(* The invariant *)

\* Init: no request is open, and a past tenant has its one owner.
LEMMA InitKeeps == Init => IInv
<1> SUFFICES ASSUME Init PROVE IInv
  OBVIOUS
<1>1. PICK past \in [Tenants -> {Unused} \cup Established] :
        /\ tenants = [t \in Tenants |-> past[t].row]
        /\ member = [t \in Tenants |-> past[t].roles]
        /\ invites = [i \in Invites |-> NoInvite]
        /\ req = [r \in Slots |-> NoCall]
  BY Zenon DEF Init
<1>2. ASSUME NEW p \in {Unused} \cup Established
      PROVE  /\ p.row \in TenantRow \cup {NoTenant}
             /\ p.roles \in [Users -> Role \cup {"none"}]
             /\ \A u \in Users : p.roles[u] = "owner" => p.row # NoTenant /\ p.row.owner = u
  <2>1. CASE p = Unused
    BY <2>1 DEF Unused
  <2>2. CASE p \in Established
    <3>1. PICK o \in Users, others \in [Users -> {"none", "member", "admin"}] :
            p = [row |-> [owner |-> o, deleted |-> FALSE, default |-> NoUser],
                 roles |-> [others EXCEPT ![o] = "owner"]]
      BY <2>2, SMTT(20) DEF Established
    <3>2. p.row \in TenantRow /\ p.row.owner = o
      BY <3>1 DEF TenantRow
    <3>3. p.roles = [others EXCEPT ![o] = "owner"]
      BY <3>1
    <3> QED
      BY <3>2, <3>3 DEF Role
  <2> QED
    BY <2>1, <2>2
<1>3. ASSUME NEW t \in Tenants
      PROVE  /\ tenants[t] \in TenantRow \cup {NoTenant}
             /\ member[t] \in [Users -> Role \cup {"none"}]
             /\ \A u \in Users : member[t][u] = "owner" => tenants[t] # NoTenant /\ tenants[t].owner = u
  BY <1>1, <1>2
<1>4. TypeOK
  <2>1. tenants \in [Tenants -> TenantRow \cup {NoTenant}]
    BY <1>1, <1>3
  <2>2. member \in [Tenants -> [Users -> Role \cup {"none"}]]
    BY <1>1, <1>3
  <2> QED
    BY <2>1, <2>2, <1>1, NoCallSound DEF TypeOK
<1>5. OneOwner /\ InviteUsedOnce
  BY <1>1, <1>3 DEF OneOwner, InviteUsedOnce
<1>6. \A r \in Slots : Sound(req[r])
  BY <1>1, NoCallSound
<1>7. \A q, r \in Slots : q # r => Apart(req[q], req[r])
  BY <1>1, NoCallSound
<1> QED
  BY <1>4, <1>5, <1>6, <1>7 DEF IInv

\* One step per action.
LEMMA NextKeeps == IInv /\ [Next]_vars => IInv'
<1> SUFFICES ASSUME IInv, [Next]_vars PROVE IInv'
  OBVIOUS
<1>1. CASE Quiet \/ UNCHANGED vars
  <2>1. tenants' = tenants /\ member' = member /\ invites' = invites /\ req' = req
    BY <1>1 DEF Quiet, vars
  <2> QED
    BY <2>1
    DEF IInv, TypeOK, OneOwner, InviteUsedOnce, Apart,
        Sound, Formed, OwnerKnown, OwnerDemoted, InviteKnown, InviteHeld, MembershipHeld
<1>2. ASSUME NEW r \in Slots,
             Enter(r) \/ CreateTenant(r) \/ ReadDefault(r) \/ ReadInvite(r)
      PROVE  IInv'
  BY <1>2, EnterKeeps, CreateTenantKeeps, ReadDefaultKeeps, ReadInviteKeeps
<1>3. ASSUME NEW r \in Slots, Refuse(r) \/ Crash(r) PROVE IInv'
  BY <1>3, EndKeeps DEF Refuse, Crash
<1>4. ASSUME NEW r \in Slots,
             \/ CheckRole(r) \/ CountOwned(r) \/ SoftDelete(r) \/ CreateDefault(r)
             \/ LockTenant(r) \/ CheckMember(r) \/ Demote(r) \/ Promote(r) \/ Publish(r)
      PROVE  IInv'
  BY <1>4, CheckRoleKeeps, CountOwnedKeeps, SoftDeleteKeeps, CreateDefaultKeeps,
     LockTenantKeeps, CheckMemberKeeps, DemoteKeeps, PromoteKeeps, PublishKeeps
<1>5. ASSUME NEW r \in Slots,
             \/ ChangeRole(r) \/ RemoveMember(r) \/ CreateInvite(r) \/ RevokeInvite(r)
             \/ LockInvite(r) \/ ReadMembership(r) \/ Upsert(r) \/ Accept(r)
      PROVE  IInv'
  BY <1>5, ChangeRoleKeeps, RemoveMemberKeeps, CreateInviteKeeps, RevokeInviteKeeps,
     LockInviteKeeps, ReadMembershipKeeps, UpsertKeeps, AcceptKeeps
<1>6. ASSUME NEW r \in Slots, Advance(r) PROVE IInv'
  BY <1>3, <1>4, <1>5, <1>6 DEF Advance
<1> QED
  BY <1>1, <1>2, <1>3, <1>6, ExpireKeeps DEF Next

\* The inductive invariant holds of every behaviour.
THEOREM Inductive == Spec => []IInv
  BY InitKeeps, NextKeeps, PTL DEF Spec

\* Every variable keeps its type.
THEOREM TypeCorrect == Spec => []TypeOK
<1>1. IInv => TypeOK
  BY DEF IInv
<1> QED
  BY <1>1, Inductive, PTL

\* No interleaving of transfers, role changes, removals, accepts and crashes
\* gives a tenant two owners.
THEOREM SingleOwner == Spec => []OneOwner
<1>1. IInv => OneOwner
  BY DEF IInv
<1> QED
  BY <1>1, Inductive, PTL

\* No invite is both accepted and revoked.
THEOREM UsedOnce == Spec => []InviteUsedOnce
<1>1. IInv => InviteUsedOnce
  BY DEF IInv
<1> QED
  BY <1>1, Inductive, PTL

\* A step leaves a deleted tenant as it is.
LEMMA DeletedStays ==
    ASSUME IInv, [Next]_vars, NEW t \in Tenants, tenants[t] # NoTenant, tenants[t].deleted
    PROVE  tenants'[t] = tenants[t]
<1>1. tenants \in [Tenants -> TenantRow \cup {NoTenant}]
  BY DEF IInv, TypeOK
<1>2. ASSUME NEW r \in Slots, SoftDelete(r) PROVE tenants'[t] = tenants[t]
  <2>1. tenants' = [tenants EXCEPT ![req[r].tenant].deleted = TRUE]
    BY <1>2 DEF SoftDelete
  <2>2. CASE t = req[r].tenant
    <3>1. tenants'[t] = [tenants[t] EXCEPT !.deleted = TRUE]
      BY <2>1, <2>2, <1>1
    <3>2. tenants[t] \in TenantRow /\ tenants[t].deleted = TRUE
      BY <1>1 DEF TenantRow
    <3> QED
      BY <3>1, <3>2 DEF TenantRow
  <2>3. CASE t # req[r].tenant
    BY <2>1, <2>3, <1>1
  <2> QED
    BY <2>2, <2>3
<1>3. ASSUME NEW r \in Slots, Publish(r) PROVE tenants'[t] = tenants[t]
  <2>1. req[r].pc \in Transferring /\ tenants' = [tenants EXCEPT ![req[r].tenant].owner = req[r].target]
    BY <1>3 DEF Publish, Transferring
  <2>2. ~tenants[req[r].tenant].deleted
    BY <2>1, OfRequest DEF Sound, OwnerKnown
  <2> QED
    BY <2>1, <2>2, <1>1
<1>4. ASSUME NEW r \in Slots, CreateTenant(r) \/ CreateDefault(r) PROVE tenants'[t] = tenants[t]
  <2>1. PICK x \in Tenants : tenants[x] = NoTenant /\ \A y \in Tenants \ {x} : tenants'[y] = tenants[y]
    BY <1>1, <1>4 DEF CreateTenant, CreateDefault, NewTenant
  <2> QED
    BY <2>1
<1>5. ASSUME NEW r \in Slots,
             \/ Enter(r) \/ ReadDefault(r) \/ ReadInvite(r) \/ Crash(r) \/ Refuse(r)
             \/ CheckRole(r) \/ CountOwned(r) \/ LockTenant(r) \/ CheckMember(r)
             \/ Demote(r) \/ Promote(r)
      PROVE  tenants' = tenants
  BY <1>5 DEF Enter, ReadDefault, ReadInvite, Crash, Refuse, CheckRole, CountOwned, LockTenant,
     CheckMember, Demote, Promote, TablesStay
<1>6. ASSUME NEW r \in Slots,
             \/ ChangeRole(r) \/ RemoveMember(r) \/ CreateInvite(r) \/ RevokeInvite(r)
             \/ LockInvite(r) \/ ReadMembership(r) \/ Upsert(r) \/ Accept(r)
      PROVE  tenants' = tenants
  BY <1>6 DEF ChangeRole, RemoveMember, CreateInvite, RevokeInvite, LockInvite, ReadMembership,
     Upsert, Accept, TablesStay
<1>7. CASE Quiet \/ UNCHANGED vars \/ \E i \in Invites : Expire(i)
  BY <1>7 DEF Quiet, vars, Expire
<1> QED
  BY <1>2, <1>3, <1>4, <1>5, <1>6, <1>7 DEF Next, Advance

\* No open transfer commits on a workspace that was deleted meanwhile, and no
\* deleted workspace comes back.
THEOREM DeletedForGood == Spec => DeletedIsFinal
<1> DEFINE Kept == \A t \in Tenants :
              (tenants[t] # NoTenant /\ tenants[t].deleted) => tenants'[t] = tenants[t]
<1>1. IInv /\ [Next]_vars => [Kept]_vars
  BY DeletedStays
<1>2. Spec => [][Kept]_vars
  BY <1>1, Inductive, PTL DEF Spec
<1> QED
  BY <1>2 DEF DeletedIsFinal

\* i becomes accepted by this step.
Accepted(i) == invites[i] # NoInvite /\ ~invites[i].accepted /\ invites'[i].accepted

\* Only the accept of an invite makes it accepted.
LEMMA OnlyAcceptAccepts ==
    ASSUME IInv, [Next]_vars, NEW i \in Invites, Accepted(i)
    PROVE  \E r \in Slots : Accept(r) /\ req[r].invite = i
<1>1. invites \in [Invites -> InviteRow \cup {NoInvite}]
  BY DEF IInv, TypeOK
<1>2. invites'[i] # invites[i] /\ invites[i] \in InviteRow
  BY <1>1 DEF Accepted
<1>3. invites' # invites
  BY <1>2
<1>4. ASSUME NEW j \in Invites, Expire(j) PROVE FALSE
  <2>1. invites' = [invites EXCEPT ![j].expired = TRUE]
    BY <1>4 DEF Expire
  <2>2. invites'[i] = [invites[i] EXCEPT !.expired = TRUE]
    BY <2>1, <1>1, <1>2
  <2> QED
    BY <2>2, <1>2, InviteFlags DEF Accepted
<1>5. ASSUME NEW r \in Slots, CreateInvite(r) PROVE FALSE
  <2>1. PICK j \in Invites : invites[j] = NoInvite /\ \A k \in Invites \ {j} : invites'[k] = invites[k]
    BY <1>1, <1>5 DEF CreateInvite
  <2> QED
    BY <2>1, <1>2 DEF Accepted
<1>6. ASSUME NEW r \in Slots, RevokeInvite(r) PROVE FALSE
  <2>1. invites' = [invites EXCEPT ![req[r].invite].revoked = TRUE]
    BY <1>3, <1>6 DEF RevokeInvite
  <2>2. invites'[i] = [invites[i] EXCEPT !.revoked = TRUE]
    BY <2>1, <1>1, <1>2
  <2> QED
    BY <2>2, <1>2, InviteFlags DEF Accepted
<1>7. ASSUME NEW r \in Slots, Accept(r) PROVE req[r].invite = i
  BY <1>1, <1>2, <1>7 DEF Accept
<1>8. PICK r \in Slots :
        Enter(r) \/ CreateTenant(r) \/ ReadDefault(r) \/ ReadInvite(r) \/ Advance(r) \/ Crash(r)
  BY <1>3, <1>4 DEF Next, Quiet, vars
<1>9. ~(Enter(r) \/ CreateTenant(r) \/ ReadDefault(r) \/ ReadInvite(r) \/ Crash(r))
  BY <1>3 DEF Enter, CreateTenant, NewTenant, ReadDefault, ReadInvite, Crash, TablesStay
<1>10. ~(CheckRole(r) \/ CountOwned(r) \/ SoftDelete(r) \/ CreateDefault(r) \/ LockTenant(r)
         \/ CheckMember(r) \/ Demote(r) \/ Promote(r) \/ Publish(r) \/ Refuse(r))
  BY <1>3 DEF CheckRole, CountOwned, SoftDelete, CreateDefault, NewTenant, LockTenant,
     CheckMember, Demote, Promote, Publish, Refuse, TablesStay
<1>11. ~(ChangeRole(r) \/ RemoveMember(r) \/ LockInvite(r) \/ ReadMembership(r) \/ Upsert(r))
  BY <1>3 DEF ChangeRole, RemoveMember, LockInvite, ReadMembership, Upsert, TablesStay
<1>12. Accept(r)
  BY <1>5, <1>6, <1>8, <1>9, <1>10, <1>11 DEF Advance
<1> QED
  BY <1>7, <1>12

\* The accept leaves the invitee the invited role or a higher one.
LEMMA AcceptStepGrants ==
    ASSUME IInv, NEW r \in Slots, Accept(r)
    PROVE  Rank[member'[req[r].tenant][req[r].user]] >= Rank[req[r].role]
<1> DEFINE call == req[r]
           i == call.invite
<1>1. /\ call.pc = "accept"
      /\ member' = IF Escalates(call.found, call.role)
                   THEN [member EXCEPT ![call.tenant][call.user] = call.role] ELSE member
  BY DEF Accept
<1>2. /\ call.tenant \in Tenants /\ call.user \in Users /\ call.role \in {"member", "admin"}
      /\ call.tenant = invites[i].tenant /\ call.user = invites[i].email
      /\ call.role = invites[i].role
      /\ Escalates(call.found, call.role) \/ member[call.tenant][call.user] = call.found
  BY <1>1, AcceptKnows
<1>3. member \in [Tenants -> [Users -> Role \cup {"none"}]] /\ call.found \in Role \cup {"none"}
  BY OfRequest, RequestFields DEF IInv, TypeOK
<1>4. ASSUME Escalates(call.found, call.role)
      PROVE  Rank[member'[call.tenant][call.user]] >= Rank[call.role]
  <2>1. member'[call.tenant][call.user] = call.role
    BY <1>1, <1>2, <1>3, <1>4
  <2> QED
    BY <2>1, <1>2, RankOf
<1>5. ASSUME ~Escalates(call.found, call.role)
      PROVE  Rank[member'[call.tenant][call.user]] >= Rank[call.role]
  <2>1. member'[call.tenant][call.user] = call.found
    BY <1>1, <1>2, <1>5
  <2> QED
    BY <2>1, <1>2, <1>3, <1>5, RankOf DEF Escalates, Role
<1> QED
  BY <1>4, <1>5

\* When an accept commits, the invitee has at least the invited role, whatever
\* the owner and the admins did to that membership meanwhile.
THEOREM AcceptEffective == Spec => AcceptGrants
<1> DEFINE Granted == \A i \in Invites : Accepted(i) =>
              Rank[member'[invites[i].tenant][invites[i].email]] >= Rank[invites[i].role]
<1>1. ASSUME IInv, [Next]_vars PROVE Granted
  <2> SUFFICES ASSUME NEW i \in Invites, Accepted(i)
               PROVE  Rank[member'[invites[i].tenant][invites[i].email]] >= Rank[invites[i].role]
    OBVIOUS
  <2>1. PICK r \in Slots : Accept(r) /\ req[r].invite = i
    BY <1>1, OnlyAcceptAccepts
  <2>2. Rank[member'[req[r].tenant][req[r].user]] >= Rank[req[r].role]
    BY <1>1, <2>1, AcceptStepGrants
  <2>3. /\ req[r].tenant = invites[i].tenant /\ req[r].user = invites[i].email
        /\ req[r].role = invites[i].role
    BY <1>1, <2>1, AcceptKnows DEF Accept
  <2> QED
    BY <2>2, <2>3, Zenon
<1>2. Spec => [][Granted]_vars
  BY <1>1, Inductive, PTL DEF Spec
<1> QED
  BY <1>2 DEF AcceptGrants, Accepted
----------------------------------------------------------------------------
(* Nobody waits forever for a lock.                                        *)

\* Membership rows are locked by a transfer once it has reached the second
\* UPDATE, and by an accept that has found or inserted its own.
Placed(c) ==
    /\ c.locked # {} => c.pc \in {"promote", "publish", "upsert", "accept"}
    /\ c.pc \in {"upsert", "accept"} => c.locked \subseteq {c.user}
    /\ c.pc = "createInvite" => c.op = "createInvite"

\* The ids that are left, and the requests that will each take one.
FreeTenants == {t \in Tenants : tenants[t] = NoTenant}
FreeInvites == {i \in Invites : invites[i] = NoInvite}
TenantTakers == {q \in Slots : req[q].pc = "createDefault"}
InviteTakers == {q \in Slots : req[q].op = "createInvite"}

Room(free, takers) == IsFiniteSet(takers) /\ Cardinality(takers) <= Cardinality(free)

WInv ==
    /\ \A r \in Slots : Placed(req[r])
    /\ Room(FreeTenants, TenantTakers)
    /\ Room(FreeInvites, InviteTakers)

OthersStay(r) == \A q \in Slots \ {r} : req'[q] = req[q]

\* A request is answered, begins, or goes on.
Leaves(r) == OthersStay(r) /\ req'[r] = NoCall

Begins(r) ==
    /\ OthersStay(r)
    /\ req'[r].locked = {}
    /\ \/ /\ req'[r].pc = "checkRole"
          /\ req'[r].op = "createInvite" => InvitesLeft
       \/ /\ req'[r].pc = "createDefault" /\ TenantsLeft
          /\ req'[r].op = "none"
       \/ req'[r].pc = "lockInvite" /\ req'[r].op = "none"

GoesOn(r) ==
    /\ OthersStay(r)
    /\ req'[r].op = req[r].op /\ req'[r].pc # "createDefault"
    /\ Placed(req'[r])

\* The other requests do not change when one does.
LEMMA OneMoves ==
    ASSUME IInv, NEW r \in Slots, NEW c, Becomes(r, c)
    PROVE  OthersStay(r) /\ req'[r] = c
BY DEF IInv, TypeOK, Becomes, OthersStay

\* A request begins with no lock, and only if an id is left for it.
LEMMA BeginKind ==
    ASSUME IInv, NEW r \in Slots, Enter(r) \/ ReadDefault(r) \/ ReadInvite(r)
    PROVE  Begins(r) /\ TablesStay
<1>1. CASE Enter(r)
  <2>1. PICK u \in Users, t \in Tenants : \E call \in Calls(u, t) :
           /\ Live(t)
           /\ call.op = "createInvite" => InvitesLeft
           /\ Becomes(r, Owning(call, "checkRole", KnownOwner(call)))
           /\ TablesStay
      BY <1>1, Zenon DEF Enter
  <2>2. PICK call \in Calls(u, t) :
           /\ Live(t)
           /\ call.op = "createInvite" => InvitesLeft
           /\ Becomes(r, Owning(call, "checkRole", KnownOwner(call)))
           /\ TablesStay
      BY <2>1, Zenon
  <2>3. call \in Request /\ call.locked = {} /\ call.tenant = t
      BY <2>2, CallFields
  <2>4. KnownOwner(call) \in Users \cup {NoUser}
      BY <2>2, <2>3 DEF Live, IInv, TypeOK, TenantRow, KnownOwner
  <2>5. "checkRole" \in Pc
      BY DEF Pc
  <2>6. LET d == Owning(call, "checkRole", KnownOwner(call)) IN
           d.pc = "checkRole" /\ d.op = call.op /\ d.locked = {}
      BY <2>3, <2>4, <2>5, OwningFields
  <2> QED
      BY <2>2, <2>6, OneMoves DEF Begins
<1>2. CASE ReadDefault(r)
  <2>1. PICK u \in Users : Becomes(r, CalledBy(NoCall, "createDefault", u))
      BY <1>2 DEF ReadDefault
  <2>2. "createDefault" \in Pc
      BY DEF Pc
  <2>3. LET d == CalledBy(NoCall, "createDefault", u) IN
           d.pc = "createDefault" /\ d.op = NoCall.op /\ d.locked = NoCall.locked
      BY <2>2, NoCallSound, CalledByFields
  <2> QED
      BY <1>2, <2>1, <2>3, OneMoves DEF Begins, ReadDefault, NoCall
<1>3. CASE ReadInvite(r)
  <2>1. PICK i \in Invites :
           Becomes(r, [Call("none", invites[i].email, invites[i].tenant, NoUser, invites[i].role, i)
                         EXCEPT !.pc = "lockInvite"])
      BY <1>3 DEF ReadInvite
  <2> DEFINE c == [Call("none", invites[i].email, invites[i].tenant, NoUser, invites[i].role, i)
                     EXCEPT !.pc = "lockInvite"]
  <2>2. c.pc = "lockInvite" /\ c.op = "none" /\ c.locked = {}
      BY DEF Call, NoCall
  <2> HIDE DEF c
  <2>3. OthersStay(r) /\ req'[r] = c
      BY <2>1, OneMoves DEF c
  <2> QED
      BY <1>3, <2>2, <2>3 DEF Begins, ReadInvite
<1> QED
    BY <1>1, <1>2, <1>3

\* A request that ends.
LEMMA LeaveKind ==
    ASSUME IInv, NEW r \in Slots, Ends(r)
    PROVE  Leaves(r)
BY OneMoves DEF Ends, Leaves

\* A request that goes on in its route.
LEMMA GoKind ==
    ASSUME IInv, WInv, NEW r \in Slots,
           \/ CheckRole(r) \/ CountOwned(r) \/ LockTenant(r) \/ CheckMember(r) \/ Demote(r)
           \/ Promote(r) \/ LockInvite(r) \/ ReadMembership(r) \/ Upsert(r)
    PROVE  GoesOn(r) /\ TablesStay
<1> DEFINE c == req[r]
<1>c. c \in Request /\ Sound(c) /\ Placed(c)
    BY OfRequest DEF WInv
<1> HIDE DEF c
<1>p. {"softDelete", "checkMember", "demote", "promote", "publish", "readMembership",
       "upsert", "accept"} \subseteq Pc
    BY DEF Pc
<1>1. CASE CheckRole(r)
  <2> DEFINE u == IF c.op = "delete" THEN c.user ELSE NoUser
  <2>1. c.pc = "checkRole" /\ Becomes(r, CalledBy(c, c.op, u)) /\ TablesStay
      BY <1>1 DEF CheckRole, c
  <2>2. c.op \in Scoped /\ c.op \in Pc /\ u \in Users \cup {NoUser}
      BY <1>c, <2>1, RequestFields DEF Sound, Formed, Pc
  <2>3. LET d == CalledBy(c, c.op, u) IN
           d.pc = c.op /\ d.op = c.op /\ d.locked = c.locked
      BY <1>c, <2>2, CalledByFields
  <2>4. OthersStay(r) /\ req'[r] = CalledBy(c, c.op, u)
      BY <2>1, OneMoves
  <2> QED
      BY <1>c, <2>1, <2>2, <2>3, <2>4, ScopedIs DEF GoesOn, Placed, c
<1>2. ASSUME NEW pc \in Pc, Moves(r, pc)
      PROVE  /\ OthersStay(r) /\ req'[r].pc = pc /\ req'[r].op = c.op
             /\ req'[r].user = c.user /\ req'[r].locked = c.locked
  <2>1. Becomes(r, [c EXCEPT !.pc = pc])
      BY <1>2, MovesIs DEF c
  <2>2. OthersStay(r) /\ req'[r] = [c EXCEPT !.pc = pc]
      BY <2>1, OneMoves
  <2> QED
      BY <1>c, <2>2, MovedFields
<1>3. CASE CountOwned(r)
    BY <1>2, <1>3, <1>c, <1>p DEF CountOwned, GoesOn, Placed, c
<1>4. CASE CheckMember(r)
    BY <1>2, <1>4, <1>c, <1>p DEF CheckMember, GoesOn, Placed, c
<1>5. CASE LockInvite(r)
    BY <1>2, <1>5, <1>c, <1>p DEF LockInvite, GoesOn, Placed, c
<1>6. CASE LockTenant(r)
  <2> DEFINE o == tenants[c.tenant].owner
             d == Owning(c, "checkMember", o)
  <2>1. c.pc = "transfer" /\ Live(c.tenant) /\ Becomes(r, d) /\ TablesStay
      BY <1>6 DEF LockTenant, c
  <2>2. c.tenant \in Tenants
      BY <1>c, <2>1, ScopedIs DEF Sound, Formed, OnTenant
  <2>3. o \in Users \cup {NoUser}
      BY <2>1, <2>2 DEF Live, IInv, TypeOK, TenantRow
  <2> HIDE DEF o
  <2>p. "checkMember" \in Pc
      BY <1>p
  <2>4. d.pc = "checkMember" /\ d.op = c.op /\ d.locked = c.locked
      BY <1>c, <2>p, <2>3, OwningFields
  <2>5. OthersStay(r) /\ req'[r] = d
      BY <2>1, OneMoves
  <2> QED
      BY <1>c, <2>1, <2>4, <2>5 DEF GoesOn, Placed, c
<1>7. ASSUME NEW pc \in Pc, NEW L \in SUBSET Users, Becomes(r, Locking(c, pc, L))
      PROVE  /\ OthersStay(r) /\ req'[r].pc = pc /\ req'[r].op = c.op
             /\ req'[r].user = c.user /\ req'[r].locked = L
  <2>1. OthersStay(r) /\ req'[r] = Locking(c, pc, L)
      BY <1>7, OneMoves
  <2> QED
      BY <1>c, <2>1, LockingFields
<1>8. CASE Demote(r)
  <2>1. c.pc = "demote" /\ Becomes(r, Locking(c, "promote", Hit(r, c.owner))) /\ TablesStay
      BY <1>8 DEF Demote, c
  <2>2. c.owner \in Users
      BY <1>c, <2>1, ScopedIs
      DEF Sound, Formed, OwnerKnown, OnTenant, Transferring, IInv, TypeOK, TenantRow
  <2>3. Hit(r, c.owner) \in SUBSET Users
      BY <2>2 DEF Hit
  <2> QED
      BY <1>7, <1>p, <2>1, <2>3 DEF GoesOn, Placed, c
<1>9. CASE Promote(r)
  <2>1. c.pc = "promote" /\ TablesStay
          /\ Becomes(r, Locking(c, "publish", c.locked \cup Hit(r, c.target)))
      BY <1>9 DEF Promote, c
  <2>2. c.target \in Users
      BY <1>c, <2>1 DEF Sound, Formed, Route, Transferring
  <2>3. c.locked \cup Hit(r, c.target) \in SUBSET Users
      BY <1>c, <2>2, RequestFields DEF Hit
  <2> QED
      BY <1>7, <1>p, <2>1, <2>3 DEF GoesOn, Placed, c
<1>u. c.pc \in Accepting => c.user \in Users
    BY <1>c DEF Sound, InviteKnown, IInv, TypeOK, InviteRow
<1>10. CASE Upsert(r)
  <2>1. c.pc = "upsert" /\ TablesStay /\ Becomes(r, Locking(c, "accept", {c.user}))
      BY <1>10 DEF Upsert, c
  <2>2. {c.user} \in SUBSET Users
      BY <1>u, <2>1 DEF Accepting
  <2> QED
      BY <1>7, <1>p, <2>1, <2>2 DEF GoesOn, Placed, c
<1>11. CASE ReadMembership(r)
  <2> DEFINE found == member[c.tenant][c.user]
             pc == IF Escalates(found, c.role) THEN "upsert" ELSE "accept"
             d == Finding(c, pc, found, Hold(r))
  <2>1. c.pc = "readMembership" /\ Becomes(r, d) /\ TablesStay
      BY <1>11 DEF ReadMembership, c
  <2>2. c.user \in Users /\ c.tenant \in Tenants
      BY <1>c, <1>u, <2>1 DEF Sound, Formed, OnTenant, Accepting
  <2>3. found \in Role \cup {"none"}
      BY <2>2 DEF IInv, TypeOK
  <2>4. Hold(r) \in SUBSET Users /\ Hold(r) \subseteq {c.user}
      BY <2>2 DEF Hold, Hit, c
  <2>5. pc \in Pc /\ pc \in {"upsert", "accept"}
      BY <1>p
  <2> HIDE DEF found, pc
  <2>6. d.pc = pc /\ d.op = c.op /\ d.user = c.user /\ d.locked = Hold(r)
      BY <1>c, <2>3, <2>4, <2>5, FindingFields
  <2>7. OthersStay(r) /\ req'[r] = d
      BY <2>1, OneMoves
  <2> QED
      BY <2>1, <2>4, <2>5, <2>6, <2>7 DEF GoesOn, Placed, c
<1> QED
    BY <1>1, <1>3, <1>4, <1>5, <1>6, <1>8, <1>9, <1>10, <1>11
\* Fewer requests need an id, or as many ids are left for them.
LEMMA RoomKept ==
    ASSUME NEW F, NEW C, NEW G, NEW D, IsFiniteSet(F), IsFiniteSet(G), Room(F, C),
           F \subseteq G, D \subseteq C
    PROVE  Room(G, D)
<1>1. IsFiniteSet(D) /\ Cardinality(D) <= Cardinality(C)
    BY FS_Subset DEF Room
<1>2. Cardinality(F) <= Cardinality(G)
    BY FS_Subset
<1>3. /\ Cardinality(C) \in Nat /\ Cardinality(D) \in Nat
      /\ Cardinality(F) \in Nat /\ Cardinality(G) \in Nat
    BY <1>1, FS_CardinalityType DEF Room
<1> QED
    BY <1>1, <1>2, <1>3 DEF Room

\* A request begins that will need one, and one more was left.
LEMMA RoomEntered ==
    ASSUME NEW F, NEW C, NEW D, NEW r, IsFiniteSet(F), Room(F, C),
           Cardinality(F) > Cardinality(C), D \subseteq C \cup {r}
    PROVE  Room(F, D)
<1>1. /\ IsFiniteSet(C \cup {r})
      /\ Cardinality(C \cup {r}) <= Cardinality(C) + 1
      /\ Cardinality(C) \in Nat /\ Cardinality(F) \in Nat
  <2>1. IsFiniteSet(C) /\ Cardinality(C) \in Nat /\ Cardinality(F) \in Nat
      BY FS_CardinalityType DEF Room
  <2>2. Cardinality(C \cup {r}) = IF r \in C THEN Cardinality(C) ELSE Cardinality(C) + 1
      BY <2>1, FS_AddElement
  <2> QED
      BY <2>1, <2>2, FS_AddElement
<1>2. IsFiniteSet(D) /\ Cardinality(D) <= Cardinality(C \cup {r})
    BY <1>1, FS_Subset
<1>3. Cardinality(C \cup {r}) \in Nat /\ Cardinality(D) \in Nat
    BY <1>1, <1>2, FS_CardinalityType
<1> QED
    BY <1>1, <1>2, <1>3 DEF Room

\* An id is taken by a request that was counted, or while one more was left.
LEMMA RoomTaken ==
    ASSUME NEW F, NEW C, NEW D, NEW x \in F, NEW r, IsFiniteSet(F), Room(F, C),
           \/ r \in C /\ D \subseteq C \ {r}
           \/ Cardinality(F) > Cardinality(C) /\ D \subseteq C
    PROVE  Room(F \ {x}, D)
<1>1. /\ IsFiniteSet(C) /\ Cardinality(C) \in Nat /\ Cardinality(F) \in Nat
      /\ Cardinality(F \ {x}) = Cardinality(F) - 1
      /\ Cardinality(C) <= Cardinality(F)
    BY FS_CardinalityType, FS_RemoveElement DEF Room
<1>2. CASE r \in C /\ D \subseteq C \ {r}
  <2>1. IsFiniteSet(C \ {r}) /\ Cardinality(C \ {r}) = Cardinality(C) - 1
      BY <1>1, <1>2, FS_RemoveElement
  <2>2. IsFiniteSet(D) /\ Cardinality(D) <= Cardinality(C \ {r})
      BY <1>2, <2>1, FS_Subset
  <2>3. Cardinality(D) \in Nat
      BY <2>2, FS_CardinalityType
  <2> QED
      BY <1>1, <2>1, <2>2, <2>3 DEF Room
<1>3. CASE Cardinality(F) > Cardinality(C) /\ D \subseteq C
  <2>1. IsFiniteSet(D) /\ Cardinality(D) <= Cardinality(C)
      BY <1>1, <1>3, FS_Subset
  <2>2. Cardinality(D) \in Nat
      BY <2>1, FS_CardinalityType
  <2> QED
      BY <1>1, <1>3, <2>1, <2>2 DEF Room
<1> QED
    BY <1>2, <1>3

\* There are only so many ids.
LEMMA FreeFinite ==
    /\ IsFiniteSet(FreeTenants) /\ IsFiniteSet(FreeInvites)
    /\ IsFiniteSet(FreeTenants') /\ IsFiniteSet(FreeInvites')
<1>1. /\ FreeTenants \subseteq Tenants /\ FreeTenants' \subseteq Tenants
      /\ FreeInvites \subseteq Invites /\ FreeInvites' \subseteq Invites
    BY DEF FreeTenants, FreeInvites
<1> QED
    BY <1>1, FewIds, FS_Subset

\* Steps that leave the rows there are.
LEMMA RowsRemain ==
    ASSUME IInv, NEW r \in Slots,
           \/ SoftDelete(r) \/ Publish(r) \/ ChangeRole(r) \/ RemoveMember(r)
           \/ RevokeInvite(r) \/ Accept(r) \/ Refuse(r) \/ Crash(r)
    PROVE  Leaves(r) /\ FreeTenants \subseteq FreeTenants' /\ FreeInvites \subseteq FreeInvites'
<1>0. Ends(r)
    BY DEF SoftDelete, Publish, ChangeRole, RemoveMember, RevokeInvite, Accept, Refuse, Crash
<1>1. Leaves(r)
    BY <1>0, LeaveKind
<1>2. Sound(req[r])
    BY OfRequest
<1>3. FreeTenants \subseteq FreeTenants'
  <2>1. CASE SoftDelete(r) \/ Publish(r)
    <3>1. req[r].tenant \in Tenants /\ tenants[req[r].tenant] # NoTenant
        BY <1>2, <2>1 DEF SoftDelete, Publish, Sound, Formed, OnTenant, Transferring
    <3>2. \A t \in Tenants : t # req[r].tenant => tenants'[t] = tenants[t]
        BY <2>1 DEF SoftDelete, Publish, IInv, TypeOK
    <3> QED
        BY <3>1, <3>2 DEF FreeTenants
  <2>2. CASE tenants' = tenants
      BY <2>2 DEF FreeTenants
  <2> QED
      BY <2>1, <2>2
      DEF ChangeRole, RemoveMember, RevokeInvite, Accept, Refuse, Crash, TablesStay
<1>4. FreeInvites \subseteq FreeInvites'
  <2>1. CASE RevokeInvite(r) \/ Accept(r)
    <3>1. \/ invites' = invites
          \/ /\ invites[req[r].invite] # NoInvite
             /\ \A i \in Invites : i # req[r].invite => invites'[i] = invites[i]
        BY <1>2, <2>1
        DEF RevokeInvite, Accept, Sound, InviteKnown, Accepting, IInv, TypeOK
    <3> QED
        BY <3>1 DEF FreeInvites
  <2>2. CASE invites' = invites
      BY <2>2 DEF FreeInvites
  <2> QED
      BY <2>1, <2>2
      DEF SoftDelete, Publish, ChangeRole, RemoveMember, Refuse, Crash, TablesStay
<1> QED
    BY <1>1, <1>3, <1>4

\* An idle request is well placed and takes no id.
LEMMA NoCallPlaced == Placed(NoCall) /\ NoCall.op = "none" /\ NoCall.pc = "idle"
BY DEF NoCall, Placed

\* A request that leaves is not counted any more.
LEMMA LeaveStep ==
    ASSUME WInv, NEW r \in Slots, Leaves(r)
    PROVE  /\ \A q \in Slots : Placed(req'[q])
           /\ TenantTakers' \subseteq TenantTakers \ {r}
           /\ InviteTakers' \subseteq InviteTakers \ {r}
BY NoCallPlaced DEF WInv, Leaves, OthersStay, TenantTakers, InviteTakers

\* Every step keeps what is said of the waits.
LEMMA WStep == ASSUME IInv, WInv, [Next]_vars PROVE WInv'
<1>1. CASE Quiet \/ UNCHANGED vars
    BY <1>1 DEF Quiet, vars, WInv, FreeTenants, FreeInvites, TenantTakers, InviteTakers
<1>f. /\ IsFiniteSet(FreeTenants) /\ IsFiniteSet(FreeInvites)
      /\ IsFiniteSet(FreeTenants') /\ IsFiniteSet(FreeInvites')
    BY FreeFinite
<1>2. ASSUME NEW r \in Slots, Begins(r), TablesStay PROVE WInv'
  <2>1. FreeTenants' = FreeTenants /\ FreeInvites' = FreeInvites
      BY <1>2 DEF TablesStay, FreeTenants, FreeInvites
  <2>2. \A q \in Slots : Placed(req'[q])
      BY <1>2 DEF WInv, Begins, OthersStay, Placed
  <2>3. Room(FreeTenants, TenantTakers')
    <3>1. CASE req'[r].pc # "createDefault"
      <4>1. TenantTakers' \subseteq TenantTakers
          BY <1>2, <3>1 DEF Begins, OthersStay, TenantTakers
      <4> QED
          BY <1>f, <4>1, RoomKept DEF WInv
    <3>2. CASE req'[r].pc = "createDefault"
      <4>1. TenantTakers' \subseteq TenantTakers \cup {r}
          BY <1>2 DEF Begins, OthersStay, TenantTakers
      <4>2. Cardinality(FreeTenants) > Cardinality(TenantTakers)
          BY <1>2, <3>2 DEF Begins, TenantsLeft, FreeTenants, TenantTakers
      <4> QED
          BY <1>f, <4>1, <4>2, RoomEntered DEF WInv
    <3> QED
        BY <3>1, <3>2
  <2>4. Room(FreeInvites, InviteTakers')
    <3>1. CASE req'[r].op # "createInvite"
      <4>1. InviteTakers' \subseteq InviteTakers
          BY <1>2, <3>1 DEF Begins, OthersStay, InviteTakers
      <4> QED
          BY <1>f, <4>1, RoomKept DEF WInv
    <3>2. CASE req'[r].op = "createInvite"
      <4>1. InviteTakers' \subseteq InviteTakers \cup {r}
          BY <1>2 DEF Begins, OthersStay, InviteTakers
      <4>2. Cardinality(FreeInvites) > Cardinality(InviteTakers)
          BY <1>2, <3>2 DEF Begins, InvitesLeft, FreeInvites, InviteTakers
      <4> QED
          BY <1>f, <4>1, <4>2, RoomEntered DEF WInv
    <3> QED
        BY <3>1, <3>2
  <2> QED
      BY <2>1, <2>2, <2>3, <2>4 DEF WInv
<1>3. ASSUME NEW r \in Slots, GoesOn(r), TablesStay PROVE WInv'
  <2>1. FreeTenants' = FreeTenants /\ FreeInvites' = FreeInvites
      BY <1>3 DEF TablesStay, FreeTenants, FreeInvites
  <2>2. \A q \in Slots : Placed(req'[q])
      BY <1>3 DEF WInv, GoesOn, OthersStay
  <2>3. TenantTakers' \subseteq TenantTakers /\ InviteTakers' \subseteq InviteTakers
      BY <1>3 DEF GoesOn, OthersStay, TenantTakers, InviteTakers
  <2> QED
      BY <1>f, <2>1, <2>2, <2>3, RoomKept DEF WInv
<1>4. ASSUME NEW r \in Slots, Leaves(r), FreeTenants \subseteq FreeTenants',
             FreeInvites \subseteq FreeInvites'
      PROVE  WInv'
  <2>1. TenantTakers' \subseteq TenantTakers /\ InviteTakers' \subseteq InviteTakers
      BY <1>4, LeaveStep
  <2>2. Room(FreeTenants', TenantTakers') /\ Room(FreeInvites', InviteTakers')
      BY <1>4, <1>f, <2>1, RoomKept DEF WInv
  <2> QED
      BY <1>4, <2>2, LeaveStep DEF WInv
<1>5. ASSUME NEW t \in Tenants, NEW u, NEW default, NewTenant(t, u, default)
      PROVE  /\ t \in FreeTenants /\ FreeTenants \ {t} \subseteq FreeTenants'
             /\ FreeInvites' = FreeInvites
    BY <1>5 DEF NewTenant, IInv, TypeOK, FreeTenants, FreeInvites
<1>6. ASSUME NEW r \in Slots, CreateTenant(r) PROVE WInv'
  <2>1. PICK t \in Tenants, u \in Users : NewTenant(t, u, NoUser)
      BY <1>6 DEF CreateTenant
  <2>2. req' = req /\ Cardinality(FreeTenants) > Cardinality(TenantTakers)
      BY <1>6 DEF CreateTenant, TenantsLeft, FreeTenants, TenantTakers
  <2>3. TenantTakers' = TenantTakers /\ InviteTakers' = InviteTakers
      BY <2>2 DEF TenantTakers, InviteTakers
  <2>4. Room(FreeTenants \ {t}, TenantTakers)
      BY <1>5, <1>f, <2>1, <2>2, RoomTaken DEF WInv
  <2>5. Room(FreeTenants', TenantTakers)
      BY <1>5, <1>f, <2>1, <2>4, RoomKept, FS_Subset
  <2> QED
      BY <1>5, <2>1, <2>2, <2>3, <2>5 DEF WInv
<1>7. ASSUME NEW r \in Slots, CreateDefault(r) PROVE WInv'
  <2>1. PICK t \in Tenants : NewTenant(t, req[r].user, req[r].user)
      BY <1>7 DEF CreateDefault
  <2>2. Leaves(r) /\ r \in TenantTakers
      BY <1>7, LeaveKind DEF CreateDefault, TenantTakers
  <2>3. Room(FreeTenants \ {t}, TenantTakers')
      BY <1>5, <1>f, <2>1, <2>2, LeaveStep, RoomTaken DEF WInv
  <2>4. Room(FreeTenants', TenantTakers')
      BY <1>5, <1>f, <2>1, <2>3, RoomKept, FS_Subset
  <2>5. Room(FreeInvites, InviteTakers')
      BY <1>f, <2>2, LeaveStep, RoomKept DEF WInv
  <2> QED
      BY <1>5, <2>1, <2>2, <2>4, <2>5, LeaveStep DEF WInv
<1>8. ASSUME NEW r \in Slots, CreateInvite(r) PROVE WInv'
  <2>1. Leaves(r) /\ r \in InviteTakers
      BY <1>8, LeaveKind DEF CreateInvite, InviteTakers, WInv, Placed
  <2>2. PICK i \in FreeInvites : FreeInvites \ {i} \subseteq FreeInvites'
      BY <1>8 DEF CreateInvite, IInv, TypeOK, FreeInvites
  <2>3. Room(FreeInvites \ {i}, InviteTakers')
      BY <1>f, <2>1, LeaveStep, RoomTaken DEF WInv
  <2>4. Room(FreeInvites', InviteTakers')
      BY <1>f, <2>2, <2>3, RoomKept, FS_Subset
  <2>5. FreeTenants' = FreeTenants
      BY <1>8 DEF CreateInvite, FreeTenants
  <2>6. Room(FreeTenants, TenantTakers')
      BY <1>f, <2>1, LeaveStep, RoomKept DEF WInv
  <2> QED
      BY <2>1, <2>4, <2>5, <2>6, LeaveStep DEF WInv
<1>9. ASSUME NEW i \in Invites, Expire(i) PROVE WInv'
  <2>1. FreeInvites \subseteq FreeInvites' /\ FreeTenants' = FreeTenants
      BY <1>9 DEF Expire, IInv, TypeOK, FreeInvites, FreeTenants
  <2>2. TenantTakers' = TenantTakers /\ InviteTakers' = InviteTakers /\ req' = req
      BY <1>9 DEF Expire, TenantTakers, InviteTakers
  <2> QED
      BY <1>f, <2>1, <2>2, RoomKept DEF WInv
<1>10. ASSUME NEW r \in Slots, Advance(r) PROVE WInv'
    BY <1>3, <1>4, <1>7, <1>8, <1>10, GoKind, RowsRemain DEF Advance
<1> QED
    BY <1>1, <1>2, <1>4, <1>6, <1>9, <1>10, BeginKind, RowsRemain DEF Next
\* The first state: nothing is held, and no id promised.
LEMMA WInit == Init => WInv
<1> SUFFICES ASSUME Init PROVE WInv
    OBVIOUS
<1>1. \A r \in Slots : req[r] = NoCall
    BY DEF Init
<1>2. TenantTakers = {} /\ InviteTakers = {}
    BY <1>1, NoCallPlaced DEF TenantTakers, InviteTakers
<1>3. IsFiniteSet({}) /\ Cardinality({}) = 0
    BY FS_EmptySet
<1>4. Cardinality(FreeTenants) \in Nat /\ Cardinality(FreeInvites) \in Nat
    BY FreeFinite, FS_CardinalityType
<1> QED
    BY <1>1, <1>2, <1>3, <1>4, NoCallPlaced DEF WInv, Room

\* The invariant holds of every reachable state.
LEMMA WaitsSound == Spec => [](IInv /\ WInv)
<1>1. IInv /\ WInv /\ [Next]_vars => WInv'
    BY WStep
<1> QED
    BY <1>1, WInit, Inductive, PTL DEF Spec

\* How far down the order of locks a request waits: for a tenant or an invite,
\* for a membership row with none of its own, for a second membership row.
Level(c) ==
    IF c.pc \in {"softDelete", "transfer", "revokeInvite", "lockInvite"} THEN 3
    ELSE IF c.pc \in OnMembers \cup {"demote", "readMembership"} \/ (c.pc = "upsert" /\ c.locked = {}) THEN 2
    ELSE IF c.pc = "promote" THEN 1 ELSE 0

\* Whoever is waited for waits further down, if at all.
LEMMA Downhill ==
    ASSUME IInv, WInv, NEW r \in Slots, NEW q \in Slots, WaitsFor(r, q)
    PROVE  Level(req[q]) < Level(req[r])
<1>1. CASE req[r].pc \in {"softDelete", "transfer", "revokeInvite", "lockInvite"}
           /\ req[q].pc \in Transferring \cup Accepting
    BY <1>1 DEF Level, Transferring, Accepting, OnMembers
<1>2. CASE /\ q # r /\ req[q].tenant = req[r].tenant
           /\ Needs(r) \cap req[q].locked # {}
  <2>1. req[q].pc \in {"promote", "publish", "upsert", "accept"} /\ req[q].locked # {}
      BY <1>2 DEF WInv, Placed
  <2>2. Level(req[q]) = IF req[q].pc = "promote" THEN 1 ELSE 0
      BY <2>1 DEF Level, OnMembers
  <2>3. Apart(req[r], req[q])
      BY <1>2, OfRequest
  <2>4. CASE req[r].pc \in OnMembers \cup {"demote", "readMembership"}
      BY <2>2, <2>4 DEF Level, OnMembers
  <2>5. CASE req[r].pc = "promote"
    <3>1. req[q].pc # "promote"
        BY <1>2, <2>3, <2>5 DEF Apart, Transferring
    <3> QED
        BY <2>2, <2>5, <3>1 DEF Level, OnMembers
  <2>6. CASE req[r].pc = "upsert"
    <3>1. Needs(r) \subseteq {req[r].user}
        BY <2>6 DEF Needs, OnMembers
    <3>2. req[r].locked \subseteq {req[r].user}
        BY <2>6 DEF WInv, Placed
    <3>3. req[r].locked = {}
        BY <1>2, <2>3, <3>1, <3>2 DEF Apart
    <3> QED
        BY <2>2, <2>6, <3>3 DEF Level, OnMembers
  <2> QED
      BY <1>2, <2>4, <2>5, <2>6 DEF Needs
<1> QED
    BY <1>1, <1>2 DEF WaitsFor

\* A chain of waits has at most four requests.
LEMMA NoCycleOfWaits == IInv /\ WInv => NoWaitCycle
<1> SUFFICES ASSUME IInv, WInv, NEW S \in SUBSET Slots, S # {},
                    \A r \in S : \E q \in S : WaitsFor(r, q)
             PROVE  FALSE
    BY DEF NoWaitCycle
<1>1. \A r \in S : \E q \in S : Level(req[q]) < Level(req[r])
    BY Downhill
<1>2. \A r \in S : Level(req[r]) \in 0..3
    BY DEF Level
<1>3. PICK p \in S : TRUE
    OBVIOUS
<1>4. PICK q \in S : Level(req[q]) < Level(req[p])
    BY <1>1
<1>5. PICK s \in S : Level(req[s]) < Level(req[q])
    BY <1>1
<1>6. PICK t \in S : Level(req[t]) < Level(req[s])
    BY <1>1
<1>7. PICK v \in S : Level(req[v]) < Level(req[t])
    BY <1>1
<1> QED
    BY <1>2, <1>4, <1>5, <1>6, <1>7

\* An id is left for every request that is about to take one.
LEMMA IdsLeft ==
    ASSUME IInv, WInv, NEW r \in Slots
    PROVE  /\ req[r].pc = "createInvite" => FreeInvites # {}
           /\ req[r].pc = "createDefault" => FreeTenants # {}
<1>1. ASSUME NEW F, NEW C, Room(F, C), r \in C PROVE F # {}
  <2>1. Cardinality(C) \in Nat /\ Cardinality(C) # 0
      BY <1>1, FS_EmptySet, FS_CardinalityType DEF Room
  <2>2. Cardinality({}) = 0
      BY FS_EmptySet
  <2> QED
      BY <1>1, <2>1, <2>2 DEF Room
<1>2. CASE req[r].pc = "createInvite"
  <2>1. r \in InviteTakers
      BY <1>2 DEF WInv, Placed, InviteTakers
  <2> QED
      BY <1>1, <1>2, <2>1 DEF WInv
<1>3. CASE req[r].pc = "createDefault"
  <2>1. r \in TenantTakers
      BY <1>3 DEF TenantTakers
  <2> QED
      BY <1>1, <1>3, <2>1 DEF WInv
<1> QED
    BY <1>2, <1>3

\* A request that is stopped waits for another open one.
LEMMA HolderWaits ==
    ASSUME IInv, WInv, NEW r \in Slots, req[r].pc # "idle", ~CanGo(r)
    PROVE  \E q \in Slots : req[q].pc # "idle" /\ WaitsFor(r, q)
<1>1. CASE req[r].pc \in {"softDelete", "transfer"} /\ ~TenantFree(req[r].tenant)
    BY <1>1 DEF TenantFree, WaitsFor, Transferring
<1>2. CASE req[r].pc \in {"revokeInvite", "lockInvite"} /\ ~InviteFree(req[r].invite)
    BY <1>2 DEF InviteFree, WaitsFor, Accepting
<1>3. ASSUME NEW u \in Needs(r),
             ~(IF req[r].pc = "upsert" THEN KeyFree(r, u) ELSE RowFree(r, u))
      PROVE  \E q \in Slots : req[q].pc # "idle" /\ WaitsFor(r, q)
  <2>1. /\ ~KeyFree(r, u)
        /\ req[r].pc = "upsert" \/ member[req[r].tenant][u] # "none"
      BY <1>3 DEF RowFree
  <2>2. PICK q \in Slots \ {r} : req[q].tenant = req[r].tenant /\ u \in req[q].locked
      BY <2>1 DEF KeyFree
  <2>3. req[q].pc # "idle"
      BY <2>2 DEF WInv, Placed
  <2> QED
      BY <1>3, <2>1, <2>2, <2>3 DEF WaitsFor
<1> QED
    BY <1>1, <1>2, <1>3, IdsLeft DEF CanGo, FreeInvites, FreeTenants

\* The waits of concurrent transfers, accepts and single statements never form
\* a cycle: the tenant's or the invite's row is locked before any membership
\* row, and only a transfer, alone on its tenant, locks two of those
\* (transfer_tenant_owner, accept_invite).
THEOREM NoCycle == Spec => []NoWaitCycle
<1> QED
    BY NoCycleOfWaits, WaitsSound, PTL

\* As long as requests are open, the guards of one of them hold.
THEOREM RequestsNeverStuck == Spec => []NeverStuck
<1>1. ASSUME IInv, WInv PROVE NeverStuck
  <2> SUFFICES ASSUME \E r \in Slots : req[r].pc # "idle"
               PROVE  \E r \in Slots : CanGo(r)
      BY DEF NeverStuck
  <2> DEFINE S == {r \in Slots : req[r].pc # "idle"}
  <2>1. PICK r \in S : \A q \in S : ~WaitsFor(r, q)
      BY <1>1, NoCycleOfWaits DEF NoWaitCycle
  <2> QED
      BY <1>1, <2>1, HolderWaits
<1> QED
    BY <1>1, WaitsSound, PTL

\* NoDeadlock, up to what ENABLED says: that a request whose guards hold can
\* take a step.
THEOREM DeadlockFree == Spec => [](GuardsMet => NoDeadlock)
<1>1. NeverStuck => (GuardsMet => NoDeadlock)
    BY DEF NoDeadlock
<1> QED
    BY <1>1, RequestsNeverStuck, PTL
=============================================================================
