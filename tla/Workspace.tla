------------------------------ MODULE Workspace ------------------------------
(***************************************************************************)
(* Workspaces (tenants), their members and their invites:                  *)
(* api/routes/tenants.py and api/routes/invites.py over lib/db.py.  A      *)
(* request runs in a slot of one of the worker processes and every         *)
(* statement it sends may interleave with those of the others.  What the   *)
(* dependency get_active_tenant_member has read is used afterwards as it   *)
(* was.  Statements outside an explicit transaction commit at once.        *)
(***************************************************************************)
EXTENDS Naturals, FiniteSets

CONSTANTS
    Slots,          \* requests in flight at the same time
    Users,
    Superadmins,    \* users with the global role
    Tenants,        \* ids of the tenants rows
    Invites,        \* ids of the tenant_invites rows
    NoUser, NoTenant, NoInvite

VARIABLES
    tenants,        \* Tenants -> row or NoTenant
    member,         \* tenant_memberships: Tenants -> Users -> role or "none"
    invites,        \* Invites -> row or NoInvite
    req             \* Slots -> the request it runs

vars == <<tenants, member, invites, req>>

Role == {"member", "admin", "owner"}

\* _ROLE_ORDER and _ROLE_RANK, with "none" for a missing row.
Rank == [none |-> 0, member |-> 1, admin |-> 2, owner |-> 3, superadmin |-> 4]

\* default: the user whose default slug (<email>-<user_id>) the row carries.
TenantRow == [owner: Users, deleted: BOOLEAN, default: Users \cup {NoUser}]

InviteRow == [tenant: Tenants, email: Users, role: {"member", "admin"},
              accepted: BOOLEAN, revoked: BOOLEAN, expired: BOOLEAN]

\* The least role each tenant-scoped route requires.
Minimum == [delete |-> "owner", transfer |-> "owner", changeRole |-> "owner",
            removeMember |-> "admin", createInvite |-> "admin", revokeInvite |-> "admin"]

Scoped == DOMAIN Minimum

\* The routes that must not touch the owner.
OnMembers == {"changeRole", "removeMember"}

ASSUME WorkspaceAssumption ==
    /\ Superadmins \subseteq Users
    /\ NoUser \notin Users
    /\ NoTenant \notin TenantRow /\ NoTenant \notin Tenants
    /\ NoInvite \notin InviteRow /\ NoInvite \notin Invites

\* The model's bounds, not the code's: ids are few.
ASSUME FewIds == IsFiniteSet(Tenants) /\ IsFiniteSet(Invites)

----------------------------------------------------------------------------
(* Requests *)

Pc == Scoped \cup {"idle", "checkRole", "softDelete", "checkMember", "demote", "promote", "publish",
                   "lockInvite", "readMembership", "upsert", "accept", "createDefault"}

Request ==
    [pc: Pc, op: Scoped \cup {"none"},
     user: Users \cup {NoUser},              \* the caller
     tenant: Tenants \cup {NoTenant},
     owner: Users \cup {NoUser},             \* owner_user_id as the request has read it
     target: Users \cup {NoUser},            \* the user_id or email it is about
     role: Role \cup {"none"},               \* the role it is about to give
     invite: Invites \cup {NoInvite},
     found: Role \cup {"none"},              \* the membership accept_invite has found
     locked: SUBSET Users]                   \* whose membership rows of tenant it has locked

NoCall == [pc |-> "idle", op |-> "none", user |-> NoUser, tenant |-> NoTenant, owner |-> NoUser,
           target |-> NoUser, role |-> "none", invite |-> NoInvite, found |-> "none",
           locked |-> {}]

\* The routes' parameters; what a route does not take keeps its empty value.
Call(op, u, t, x, role, i) ==
    [NoCall EXCEPT !.op = op, !.user = u, !.tenant = t, !.target = x, !.role = role, !.invite = i]

Calls(u, t) ==
    {Call("delete", u, t, NoUser, "none", NoInvite)}
    \cup {Call(op, u, t, x, "none", NoInvite) : op \in {"transfer", "removeMember"}, x \in Users}
    \cup {Call(op, u, t, x, role, NoInvite) :
             op \in {"changeRole", "createInvite"}, x \in Users, role \in {"member", "admin"}}
    \cup {Call("revokeInvite", u, t, NoUser, "none", i) : i \in Invites}

\* A request that goes on to pc with what it has learnt or locked.
CalledBy(call, pc, u) == [call EXCEPT !.pc = pc, !.user = u]
Owning(call, pc, u) == [call EXCEPT !.pc = pc, !.owner = u]
Locking(call, pc, users) == [call EXCEPT !.pc = pc, !.locked = users]
Finding(call, pc, role, users) == [call EXCEPT !.pc = pc, !.found = role, !.locked = users]

Becomes(r, call) == req' = [req EXCEPT ![r] = call]

Moves(r, pc) == req' = [req EXCEPT ![r].pc = pc]

Ends(r) == Becomes(r, NoCall)

TablesStay == UNCHANGED <<tenants, member, invites>>

----------------------------------------------------------------------------
(* The tables and their locks *)

Live(t) == tenants[t] # NoTenant /\ ~tenants[t].deleted

\* count_user_owned_tenants
Owned(u) == {t \in Tenants : Live(t) /\ tenants[t].owner = u}

\* ensure_default_tenant's SELECT goes by the membership row instead.
OwnedByRole(u) == {t \in Tenants : Live(t) /\ member[t][u] = "owner"}

SlugTaken(u) == \E t \in Tenants : tenants[t] # NoTenant /\ tenants[t].default = u

\* _invite_status = "pending"
Pending(i) == ~invites[i].revoked /\ ~invites[i].accepted /\ ~invites[i].expired

\* Mutant: the route locks the tenant before it calls transfer_tenant_owner,
\* which has a connection of its own.
Transferring_LockedByRoute == {"transfer", "checkMember", "demote", "promote", "publish"}

\* transfer_tenant_owner holds the tenants row from its SELECT to its COMMIT.
Transferring == {"checkMember", "demote", "promote", "publish"}

\* Mutant: the owner is read without FOR UPDATE.
TenantFree_NoLock(t) == TRUE

TenantFree(t) == \A q \in Slots : req[q].pc \in Transferring => req[q].tenant # t

\* No other transaction has locked or inserted the membership row.
KeyFree(r, u) ==
    \A q \in Slots \ {r} : req[q].tenant = req[r].tenant => u \notin req[q].locked

\* UPDATE, DELETE and SELECT FOR UPDATE wait for a row they can see; a row
\* inserted and not yet committed is not there for them.
RowFree(r, u) == member[req[r].tenant][u] = "none" \/ KeyFree(r, u)

\* accept_invite holds the invite row from its SELECT to its COMMIT.
Accepting == {"readMembership", "upsert", "accept"}

\* Mutant: the invite is read without FOR UPDATE.
InviteFree_NoLock(i) == TRUE

InviteFree(i) == \A q \in Slots : req[q].pc \in Accepting => req[q].invite # i

\* The bounds of the model: no request begins that would find no id left.
TenantsLeft ==
    Cardinality({t \in Tenants : tenants[t] = NoTenant})
        > Cardinality({q \in Slots : req[q].pc = "createDefault"})

InvitesLeft ==
    Cardinality({i \in Invites : invites[i] = NoInvite})
        > Cardinality({q \in Slots : req[q].op = "createInvite"})

----------------------------------------------------------------------------
(* Authorization: get_active_tenant_member and require_tenant_role *)

\* What get_tenant_by_id tells of the owner, for the members' routes.
KnownOwner(call) == IF call.op \in OnMembers THEN tenants[call.tenant].owner ELSE NoUser

\* The tenant row is read first, and with it owner_user_id.
Enter(r) ==
    \E u \in Users, t \in Tenants : \E call \in Calls(u, t) :
        /\ req[r].pc = "idle"
        /\ Live(t)
        /\ call.op = "createInvite" => InvitesLeft
        /\ Becomes(r, Owning(call, "checkRole", KnownOwner(call)))
        /\ TablesStay

EffectiveRole(r) ==
    LET row == IF Live(req[r].tenant) THEN member[req[r].tenant][req[r].user] ELSE "none"
    IN  IF row = "none" /\ req[r].user \in Superadmins THEN "superadmin" ELSE row

Permitted(r) == Rank[EffectiveRole(r)] >= Rank[Minimum[req[r].op]]

\* Then the membership, in a second statement.  Only DELETE /tenants/{id} needs
\* the caller afterwards.
CheckRole(r) ==
    LET call == req[r] IN
    /\ call.pc = "checkRole"
    /\ Permitted(r)
    /\ Becomes(r, CalledBy(call, call.op, IF call.op = "delete" THEN call.user ELSE NoUser))
    /\ TablesStay

----------------------------------------------------------------------------
(* The life of a tenant *)

NewTenant(t, u, default) ==
    /\ tenants[t] = NoTenant
    /\ tenants' = [tenants EXCEPT ![t] = [owner |-> u, deleted |-> FALSE, default |-> default]]
    /\ member' = [member EXCEPT ![t][u] = "owner"]
    /\ UNCHANGED invites

\* POST /tenants: one transaction, with a random slug.
CreateTenant(r) ==
    \E t \in Tenants, u \in Users :
        /\ req[r].pc = "idle"
        /\ TenantsLeft
        /\ NewTenant(t, u, NoUser)
        /\ UNCHANGED req

\* ensure_default_tenant, on the way of a redeem or of onboarding: the SELECT
\* finds no tenant the user owns...
ReadDefault(r) ==
    \E u \in Users :
        /\ req[r].pc = "idle"
        /\ TenantsLeft
        /\ OwnedByRole(u) = {}
        /\ Becomes(r, CalledBy(NoCall, "createDefault", u))
        /\ TablesStay

\* ... and a later transaction inserts one, unless the slug is taken.
CreateDefault(r) ==
    \E t \in Tenants :
        /\ req[r].pc = "createDefault"
        /\ ~SlugTaken(req[r].user)
        /\ NewTenant(t, req[r].user, req[r].user)
        /\ Ends(r)

\* The last-tenant guard: the caller owns another one.
Spare(u) == Cardinality(Owned(u)) > 1

\* DELETE /tenants/{id}: the count ...
CountOwned(r) ==
    /\ req[r].pc = "delete"
    /\ Spare(req[r].user)
    /\ Moves(r, "softDelete")
    /\ TablesStay

\* ... and the UPDATE, which waits for a transfer of the tenant.
SoftDelete(r) ==
    /\ req[r].pc = "softDelete"
    /\ TenantFree(req[r].tenant)
    /\ tenants' = [tenants EXCEPT ![req[r].tenant].deleted = TRUE]
    /\ Ends(r)
    /\ UNCHANGED <<member, invites>>

----------------------------------------------------------------------------
(* transfer_tenant_owner *)

LockTenant(r) ==
    /\ req[r].pc = "transfer"
    /\ TenantFree(req[r].tenant)
    /\ Live(req[r].tenant)
    /\ tenants[req[r].tenant].owner # req[r].target
    /\ Becomes(r, Owning(req[r], "checkMember", tenants[req[r].tenant].owner))
    /\ TablesStay

CheckMember(r) ==
    /\ req[r].pc = "checkMember"
    /\ member[req[r].tenant][req[r].target] # "none"
    /\ Moves(r, "demote")
    /\ TablesStay

\* An UPDATE locks the row it hits, and hits nothing if it is gone.
Hit(r, u) == IF member[req[r].tenant][u] = "none" THEN {} ELSE {u}

\* The old owner's row becomes 'admin' ...
Demote(r) ==
    /\ req[r].pc = "demote"
    /\ RowFree(r, req[r].owner)
    /\ Becomes(r, Locking(req[r], "promote", Hit(r, req[r].owner)))
    /\ TablesStay

\* ... the new owner's row 'owner' ...
Promote(r) ==
    /\ req[r].pc = "promote"
    /\ RowFree(r, req[r].target)
    /\ Becomes(r, Locking(req[r], "publish", req[r].locked \cup Hit(r, req[r].target)))
    /\ TablesStay

\* ... and with owner_user_id the COMMIT shows all of it.
Publish(r) ==
    LET call == req[r] IN
    /\ call.pc = "publish"
    /\ tenants' = [tenants EXCEPT ![call.tenant].owner = call.target]
    /\ member' = [member EXCEPT ![call.tenant] =
                    [u \in Users |-> IF u \notin call.locked THEN @[u]
                                     ELSE IF u = call.target THEN "owner" ELSE "admin"]]
    /\ Ends(r)
    /\ UNCHANGED invites

----------------------------------------------------------------------------
(* Members *)

\* cannot_demote_owner_use_transfer, cannot_remove_owner: against the
\* owner_user_id that the request read on entry.
NotTheOwner(r) == req[r].target # req[r].owner

\* Mutant: PATCH clears the role instead of storing it.
ChangeRole_Cleared(r) ==
    LET call == req[r] IN
    /\ call.pc = "changeRole"
    /\ NotTheOwner(r)
    /\ RowFree(r, call.target)
    /\ member' = [member EXCEPT ![call.tenant][call.target] = IF @ = "none" THEN @ ELSE "null"]
    /\ Ends(r)
    /\ UNCHANGED <<tenants, invites>>

\* PATCH /members/{user_id}: an UPDATE whatever the current role is.
ChangeRole(r) ==
    LET call == req[r] IN
    /\ call.pc = "changeRole"
    /\ NotTheOwner(r)
    /\ RowFree(r, call.target)
    /\ member' = [member EXCEPT ![call.tenant][call.target] = IF @ = "none" THEN @ ELSE call.role]
    /\ Ends(r)
    /\ UNCHANGED <<tenants, invites>>

\* DELETE /members/{user_id}: never an 'owner' row.
RemoveMember(r) ==
    LET call == req[r] IN
    /\ call.pc = "removeMember"
    /\ NotTheOwner(r)
    /\ RowFree(r, call.target)
    /\ member' = [member EXCEPT ![call.tenant][call.target] = IF @ = "owner" THEN @ ELSE "none"]
    /\ Ends(r)
    /\ UNCHANGED <<tenants, invites>>

----------------------------------------------------------------------------
(* Invites *)

CreateInvite(r) ==
    \E i \in Invites :
        /\ req[r].pc = "createInvite"
        /\ invites[i] = NoInvite
        /\ invites' = [invites EXCEPT ![i] =
              [tenant |-> req[r].tenant, email |-> req[r].target, role |-> req[r].role,
               accepted |-> FALSE, revoked |-> FALSE, expired |-> FALSE]]
        /\ Ends(r)
        /\ UNCHANGED <<tenants, member>>

\* UPDATE ... WHERE accepted_at IS NULL waits for an accept to commit.
RevokeInvite(r) ==
    LET i == req[r].invite IN
    /\ req[r].pc = "revokeInvite"
    /\ InviteFree(i)
    /\ invites' = IF invites[i] = NoInvite \/ invites[i].accepted THEN invites
                  ELSE [invites EXCEPT ![i].revoked = TRUE]
    /\ Ends(r)
    /\ UNCHANGED <<tenants, member>>

\* Seven days after its creation; one that is accepted or revoked stays so.
Expire(i) ==
    /\ invites[i] # NoInvite
    /\ Pending(i)
    /\ invites' = [invites EXCEPT ![i].expired = TRUE]
    /\ UNCHANGED <<tenants, member, req>>

\* POST /invites/accept by the invited user: the first look, without a lock.
ReadInvite(r) ==
    \E i \in Invites :
        /\ req[r].pc = "idle"
        /\ invites[i] # NoInvite
        /\ Live(invites[i].tenant)
        /\ Pending(i)
        /\ Becomes(r, [Call("none", invites[i].email, invites[i].tenant, NoUser, invites[i].role, i)
                         EXCEPT !.pc = "lockInvite"])
        /\ TablesStay

\* db.accept_invite: the second look, under FOR UPDATE.
LockInvite(r) ==
    /\ req[r].pc = "lockInvite"
    /\ InviteFree(req[r].invite)
    /\ Pending(req[r].invite)
    /\ Moves(r, "readMembership")
    /\ TablesStay

\* Mutant: the membership is read without FOR UPDATE.
Hold_Nothing(r) == {}

\* SELECT ... FOR UPDATE locks the row if there is one.
Hold(r) == Hit(r, req[r].user)

\* What accept_invite does depends on the membership it finds.
Escalates(found, role) == Rank[found] < Rank[role]

ReadMembership(r) ==
    LET found == member[req[r].tenant][req[r].user] IN
    /\ req[r].pc = "readMembership"
    /\ RowFree(r, req[r].user)
    /\ Becomes(r, Finding(req[r], IF Escalates(found, req[r].role) THEN "upsert" ELSE "accept",
                          found, Hold(r)))
    /\ TablesStay

\* INSERT ... ON CONFLICT DO UPDATE waits for whoever holds the row or inserts it.
Upsert(r) ==
    /\ req[r].pc = "upsert"
    /\ KeyFree(r, req[r].user)
    /\ Becomes(r, Locking(req[r], "accept", {req[r].user}))
    /\ TablesStay

Accept(r) ==
    LET call == req[r] IN
    /\ call.pc = "accept"
    /\ invites' = [invites EXCEPT ![call.invite].accepted = TRUE]
    /\ member' = IF Escalates(call.found, call.role)
                 THEN [member EXCEPT ![call.tenant][call.user] = call.role] ELSE member
    /\ Ends(r)
    /\ UNCHANGED tenants

----------------------------------------------------------------------------

\* The request is answered with an error, or dies with its worker: an open
\* transaction rolls back and its locks go.
Refused(r) ==
    LET call == req[r] IN
    \/ call.pc = "checkRole" /\ ~Permitted(r)
    \/ call.pc = "delete" /\ ~Spare(call.user)
    \/ /\ call.pc = "transfer" /\ TenantFree(call.tenant)
       /\ ~Live(call.tenant) \/ tenants[call.tenant].owner = call.target
    \/ call.pc = "checkMember" /\ member[call.tenant][call.target] = "none"
    \/ call.pc \in OnMembers /\ ~NotTheOwner(r)
    \/ call.pc = "lockInvite" /\ InviteFree(call.invite) /\ ~Pending(call.invite)
    \/ call.pc = "createDefault" /\ SlugTaken(call.user)

Refuse(r) == Refused(r) /\ Ends(r) /\ TablesStay

Crash(r) == req[r].pc # "idle" /\ Ends(r) /\ TablesStay

\* What earlier requests can have left of a tenant: nothing, or a workspace
\* with an owner and with members who accepted invites long gone.
Unused == [row |-> NoTenant, roles |-> [u \in Users |-> "none"]]

Established ==
    {[row |-> [owner |-> o, deleted |-> FALSE, default |-> NoUser],
      roles |-> [others EXCEPT ![o] = "owner"]] :
        o \in Users, others \in [Users -> {"none", "member", "admin"}]}

Init ==
    \E past \in [Tenants -> {Unused} \cup Established] :
        /\ tenants = [t \in Tenants |-> past[t].row]
        /\ member = [t \in Tenants |-> past[t].roles]
        /\ invites = [i \in Invites |-> NoInvite]
        /\ req = [r \in Slots |-> NoCall]

\* What the worker does for a request once it has begun.
Advance(r) ==
    \/ CheckRole(r) \/ CountOwned(r) \/ SoftDelete(r) \/ CreateDefault(r)
    \/ LockTenant(r) \/ CheckMember(r) \/ Demote(r) \/ Promote(r) \/ Publish(r)
    \/ ChangeRole(r) \/ RemoveMember(r)
    \/ CreateInvite(r) \/ RevokeInvite(r)
    \/ LockInvite(r) \/ ReadMembership(r) \/ Upsert(r) \/ Accept(r)
    \/ Refuse(r)

\* No request is open: the system may rest.
Quiet ==
    /\ \A r \in Slots : req[r].pc = "idle"
    /\ UNCHANGED vars

Next ==
    \/ \E r \in Slots :
          Enter(r) \/ CreateTenant(r) \/ ReadDefault(r) \/ ReadInvite(r) \/ Advance(r) \/ Crash(r)
    \/ \E i \in Invites : Expire(i)
    \/ Quiet

Spec == Init /\ [][Next]_vars

----------------------------------------------------------------------------
(* Properties *)

\* Every variable has its type.
TypeOK ==
    /\ tenants \in [Tenants -> TenantRow \cup {NoTenant}]
    /\ member \in [Tenants -> [Users -> Role \cup {"none"}]]
    /\ invites \in [Invites -> InviteRow \cup {NoInvite}]
    /\ req \in [Slots -> Request]

\* Only the user in owner_user_id has an 'owner' row, so a tenant never has
\* two owners, whatever transfers, role changes and accepts run at once; this
\* does not lean on the partial unique index.
OneOwner ==
    \A t \in Tenants, u \in Users :
        member[t][u] = "owner" => tenants[t] # NoTenant /\ tenants[t].owner = u

\* A deleted workspace stays deleted and keeps the owner it had, even if a
\* transfer of it was open when the delete arrived.
DeletedIsFinal ==
    [][\A t \in Tenants : (tenants[t] # NoTenant /\ tenants[t].deleted) => tenants'[t] = tenants[t]]_vars

\* An invite is accepted or revoked, never both, though both routes first look
\* at it without a lock.
InviteUsedOnce == \A i \in Invites : invites[i] # NoInvite =>
    ~(invites[i].accepted /\ invites[i].revoked)

\* When an accept commits, the invitee has at least the invited role, even if
\* an owner or admin was changing or removing that membership meanwhile.
AcceptGrants ==
    [][\A i \in Invites :
          (invites[i] # NoInvite /\ ~invites[i].accepted /\ invites'[i].accepted)
             => Rank[member'[invites[i].tenant][invites[i].email]] >= Rank[invites[i].role]]_vars

\* "Monotonic role guarantee ... An owner accepting a member-invite stays an
\* owner": no accept lowers a role.
AcceptNeverDemotes ==
    [][\A i \in Invites :
          (invites[i] # NoInvite /\ ~invites[i].accepted /\ invites'[i].accepted)
             => Rank[member'[invites[i].tenant][invites[i].email]]
                  >= Rank[member[invites[i].tenant][invites[i].email]]]_vars

\* "... we'd leave the tenant owner-less, breaking invariants": the owner of a
\* tenant is a member of it, as owner.
OwnerIsMember == \A t \in Tenants : Live(t) => member[t][tenants[t].owner] = "owner"

\* Does not hold (README): "an owner must always own at least one other tenant ...
\* so we never leave a user orphaned": whoever deletes a tenant still owns one.
LastTenantKept ==
    [][\A r \in Slots : (req[r].pc = "softDelete" /\ req'[r] # req[r] /\ tenants' # tenants)
          => \E t \in Tenants : Live(t)' /\ tenants'[t].owner = req[r].user]_vars

\* The membership rows that r's next statement locks.
Needs(r) ==
    {u \in Users :
        \/ req[r].pc = "demote" /\ u = req[r].owner
        \/ req[r].pc = "promote" /\ u = req[r].target
        \/ req[r].pc \in OnMembers /\ NotTheOwner(r) /\ u = req[r].target
        \/ req[r].pc \in {"readMembership", "upsert"} /\ u = req[r].user}

\* q holds a row that r's next statement needs: the tenant's, the invite's, or
\* a membership row, which only an INSERT awaits before it is there.
WaitsFor(r, q) ==
    \/ /\ req[r].pc \in {"softDelete", "transfer"} /\ req[q].pc \in Transferring
       /\ req[q].tenant = req[r].tenant
    \/ /\ req[r].pc \in {"revokeInvite", "lockInvite"} /\ req[q].pc \in Accepting
       /\ req[q].invite = req[r].invite
    \/ /\ q # r /\ req[q].tenant = req[r].tenant
       /\ \E u \in Needs(r) \cap req[q].locked :
             req[r].pc = "upsert" \/ member[req[r].tenant][u] # "none"

\* The guards of Advance(r).
CanGo(r) ==
    LET call == req[r] IN
    /\ call.pc # "idle"
    /\ call.pc \in {"softDelete", "transfer"} => TenantFree(call.tenant)
    /\ call.pc \in {"revokeInvite", "lockInvite"} => InviteFree(call.invite)
    /\ \A u \in Needs(r) : IF call.pc = "upsert" THEN KeyFree(r, u) ELSE RowFree(r, u)
    /\ call.pc = "createInvite" => \E i \in Invites : invites[i] = NoInvite
    /\ call.pc = "createDefault" => SlugTaken(call.user) \/ \E t \in Tenants : tenants[t] = NoTenant

\* Whatever requests are open, among any of them one waits for none of them:
\* tenant and invite rows are locked before membership rows, and of those an
\* accept locks one only.
NoWaitCycle ==
    \A S \in SUBSET Slots : S # {} => \E r \in S : \A q \in S : ~WaitsFor(r, q)

\* As long as a request is open, one can go on.
NeverStuck == (\E r \in Slots : req[r].pc # "idle") => \E r \in Slots : CanGo(r)

\* A request whose guards hold can take a step.
GuardsMet == \A r \in Slots : CanGo(r) => ENABLED Advance(r)

\* Transfers wait for tenant and membership rows, accepts for invite and
\* membership rows, single statements for any of them, and the waits form no
\* cycle: while requests are open, one of them can go on.
NoDeadlock == GuardsMet /\ NeverStuck
=============================================================================
