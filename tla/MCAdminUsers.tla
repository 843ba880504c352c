---------------------------- MODULE MCAdminUsers ----------------------------
(***************************************************************************)
(* Bounds for AdminUsers.  Two requests overlap on one of two accounts;    *)
(* the seeded name and one other one; two passwords, so that a write that  *)
(* brings an old one back is seen.                                         *)
(***************************************************************************)
EXTENDS AdminUsers, TLC

CONSTANTS q1, q2, u1, u2, root, other, old, new

Interchangeable == Permutations(Requests) \cup Permutations(UserIds)

=============================================================================
