----------------------------- MODULE Recursion ------------------------------
(***************************************************************************)
(* Recursion over a set whose elements have ranks.  A recursive definition *)
(* f[x \in D] == Def(f, x) in which Def looks only at elements of a lower  *)
(* rank defines a function that satisfies it.  Def is a constant here, so  *)
(* that an instance of this module is this principle for one definition.   *)
(***************************************************************************)
EXTENDS Integers, WellFoundedInduction, TLAPS

CONSTANTS D, rank, Def(_, _)

\* Def(g, x) depends on g below x only.
LooksBelow ==
    \A x \in D : \A g, h :
        (\A y \in D : rank[y] < rank[x] => g[y] = h[y]) => Def(g, x) = Def(h, x)

\* Induction over the naturals with a set in place of a predicate.
LEMMA NatSets ==
    ASSUME NEW S, 0 \in S, \A n \in Nat : n \in S => n + 1 \in S
    PROVE  \A n \in Nat : n \in S
<1> DEFINE T == Nat \ S
<1> SUFFICES ASSUME T # {} PROVE FALSE
  OBVIOUS
<1>1. PICK m \in T : \A k \in T : <<k, m>> \notin OpToRel(<, Nat)
  BY WFMin, NatLessThanWellFounded, Zenon
<1>2. \A k \in T : ~(k < m)
  BY <1>1, Zenon DEF OpToRel
<1>3. m \in Nat \ {0}
  OBVIOUS
<1>4. m - 1 \in Nat /\ m - 1 < m /\ (m - 1) + 1 = m
  BY <1>3
<1> QED BY <1>2, <1>4

Below(n) == {x \in D : rank[x] < n}

\* A function that satisfies the definition up to a rank.
UpTo(g, n) == g = [x \in Below(n) |-> Def(g, x)]

LEMMA UpToExists ==
    ASSUME rank \in [D -> Nat], LooksBelow
    PROVE  \A n \in Nat : \E g : UpTo(g, n)
<1> DEFINE S == {n \in Nat : \E g : UpTo(g, n)}
<1>1. 0 \in S
  <2>1. UpTo([x \in Below(0) |-> x], 0)
    BY DEF UpTo, Below
  <2> QED BY <2>1
<1>2. ASSUME NEW n \in Nat, n \in S PROVE n + 1 \in S
  <2>1. PICK g : UpTo(g, n)
    BY <1>2
  <2> DEFINE h == [x \in Below(n + 1) |-> Def(g, x)]
  <2>2. \A y \in Below(n) : g[y] = h[y]
    BY <2>1 DEF UpTo, Below
  <2>3. \A x \in Below(n + 1) : Def(g, x) = Def(h, x)
    <3> SUFFICES ASSUME NEW x \in Below(n + 1) PROVE Def(g, x) = Def(h, x)
      OBVIOUS
    <3> HIDE DEF h
    <3>1. \A y \in D : rank[y] < rank[x] => y \in Below(n)
      BY DEF Below
    <3>2. \A y \in D : rank[y] < rank[x] => g[y] = h[y]
      BY <2>2, <3>1
    <3> QED BY <3>2 DEF LooksBelow, Below
  <2>4. UpTo(h, n + 1)
    BY <2>3 DEF UpTo
  <2> HIDE DEF h
  <2> QED BY <2>4
<1>3. \A n \in Nat : n \in S
  <2> HIDE DEF S
  <2> QED BY <1>1, <1>2, NatSets
<1> QED BY <1>3

LEMMA UpToAgree ==
    ASSUME rank \in [D -> Nat], LooksBelow,
           NEW m \in Nat, NEW n \in Nat, NEW g, NEW h, UpTo(g, m), UpTo(h, n)
    PROVE  \A x \in Below(m) \cap Below(n) : g[x] = h[x]
<1> DEFINE S == {k \in Nat : \A x \in Below(m) \cap Below(n) \cap Below(k) : g[x] = h[x]}
<1>1. 0 \in S
  BY DEF Below
<1>2. ASSUME NEW k \in Nat, k \in S PROVE k + 1 \in S
  <2> SUFFICES ASSUME NEW x \in Below(m) \cap Below(n) \cap Below(k + 1) PROVE g[x] = h[x]
    OBVIOUS
  <2>1. \A y \in D : rank[y] < rank[x] => y \in Below(m) \cap Below(n) \cap Below(k)
    BY DEF Below
  <2>2. \A y \in D : rank[y] < rank[x] => g[y] = h[y]
    BY <1>2, <2>1
  <2>3. Def(g, x) = Def(h, x)
    BY <2>2 DEF LooksBelow, Below
  <2> QED BY <2>3 DEF UpTo
<1>3. \A k \in Nat : k \in S
  <2> HIDE DEF S
  <2> QED BY <1>1, <1>2, NatSets
<1> SUFFICES ASSUME NEW x \in Below(m) \cap Below(n) PROVE g[x] = h[x]
  OBVIOUS
<1>4. m \in S
  BY <1>3
<1> QED BY <1>4

\* Every such definition has a function that satisfies it.
THEOREM Recursive ==
    ASSUME rank \in [D -> Nat], LooksBelow
    PROVE  \E f : f = [x \in D |-> Def(f, x)]
<1> DEFINE G(n) == CHOOSE g : UpTo(g, n)
           f == [x \in D |-> G(rank[x] + 1)[x]]
<1>1. ASSUME NEW n \in Nat PROVE UpTo(G(n), n)
  BY UpToExists
<1> HIDE DEF G
<1>2. ASSUME NEW x \in D PROVE f[x] = Def(f, x)
  <2> DEFINE n == rank[x] + 1
  <2>1. n \in Nat /\ x \in Below(n)
    BY DEF Below
  <2>2. f[x] = Def(G(n), x)
    BY <1>1, <2>1 DEF UpTo
  <2>3. ASSUME NEW y \in D, rank[y] < rank[x] PROVE G(n)[y] = f[y]
    <3>1. rank[y] + 1 \in Nat /\ y \in Below(rank[y] + 1) \cap Below(n)
      BY <2>3 DEF Below
    <3>2. G(rank[y] + 1)[y] = G(n)[y]
      BY <1>1, <2>1, <3>1, UpToAgree
    <3> QED BY <3>2
  <2> HIDE DEF f, n
  <2>4. Def(G(n), x) = Def(f, x)
    BY <2>3 DEF LooksBelow
  <2> QED BY <2>2, <2>4
<1>3. f = [x \in D |-> Def(f, x)]
  BY <1>2
<1> HIDE DEF f
<1> QED BY <1>3

=============================================================================
