CONSTANTS
    Slots = {s1, s2}
    Users = {u1, u2, u3}
    Superadmins = {}
    Tenants = {t1, t2}
    Invites = {}
    NoUser = NoUser
    NoTenant = NoTenant
    NoInvite = NoInvite
    s1 = s1
    s2 = s2
    u1 = u1
    u2 = u2
    u3 = u3
    t1 = t1
    t2 = t2

SPECIFICATION OneSharedSpec
SYMMETRY Symmetry
INVARIANTS
    OneOwner
PROPERTIES
    DeletedIsFinal
