----------------------------- MODULE MCSessions -----------------------------
(***************************************************************************)
(* Bounds for Sessions, and with it for AdminUsers: the same requests,     *)
(* accounts, names and passwords as MCAdminUsers, and a clock that goes    *)
(* past the day of a token that was issued at its first tick.              *)
(***************************************************************************)
EXTENDS Sessions, TLC

CONSTANTS q1, q2, u1, u2, root, other, old, new

Interchangeable == Permutations(Requests) \cup Permutations(UserIds)

=============================================================================
