---------------------------- MODULE MCWorkspace -----------------------------
(* Small sets of users, tenants, invites and slots for TLC. *)
EXTENDS Workspace, TLC

Symmetry == Permutations(Slots)
                \cup Permutations(Superadmins) \cup Permutations(Users \ Superadmins)
                \cup Permutations(Tenants) \cup Permutations(Invites)

(* Instances of two workspaces start with at most one that has more members  *)
(* than its owner; the other is there to be owned beside it.                 *)
Shared(t) == \E u, v \in Users : u # v /\ member[t][u] # "none" /\ member[t][v] # "none"

OneSharedInit ==
    /\ Init
    /\ \A s, t \in Tenants : Shared(s) /\ Shared(t) => s = t

OneSharedSpec == OneSharedInit /\ [][Next]_vars
=============================================================================
