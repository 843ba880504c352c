--------------------------- MODULE MCMappingCache ---------------------------
(***************************************************************************)
(* Bounds for MappingCache.  Two admin requests are enough for a refresh   *)
(* to overtake another one; a single one checks what holds when requests   *)
(* do not overlap, over more rows: two rules can then share a key and two  *)
(* providers compete for a code.                                           *)
(***************************************************************************)
EXTENDS MappingCache, TLC

CONSTANTS a1, a2, p1, p2, m1, m2, c1, c2, k1, k2, s1, s2

Interchangeable ==
    Permutations(Admins) \cup Permutations(ProviderIds) \cup Permutations(RuleIds)
    \cup Permutations(Codes) \cup Permutations(Keys) \cup Permutations(Settings)

=============================================================================
