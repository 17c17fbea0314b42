------------------------- MODULE MCRoleAuthority -------------------------
(* Model values of the RoleAuthority run. *)
EXTENDS RoleAuthority, TLC

Symmetry == Permutations(Admins) \cup Permutations(Requests)
==========================================================================
