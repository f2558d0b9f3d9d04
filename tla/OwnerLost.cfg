CONSTANTS
    Slots = {s1, s2}
    Users = {u1, u2}
    Superadmins = {}
    Tenants = {t1}
    Invites = {i1}
    NoUser = NoUser
    NoTenant = NoTenant
    NoInvite = NoInvite
    s1 = s1
    s2 = s2
    u1 = u1
    u2 = u2
    t1 = t1
    i1 = i1

SPECIFICATION Spec
SYMMETRY Symmetry
INVARIANTS
    OwnerIsMember
