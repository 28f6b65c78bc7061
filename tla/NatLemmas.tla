----------------------------- MODULE NatLemmas -----------------------------
(***************************************************************************)
(* Facts about naturals and sets of naturals that the proof modules share: *)
(* division with remainder, least and greatest elements, and the rank of   *)
(* an element, the number of elements below it.                            *)
(***************************************************************************)
EXTENDS Integers, FiniteSets, FiniteSetTheorems, TLAPS

----------------------------------------------------------------------------
(* Division with remainder.                                                *)

\* Quotient and remainder, in the form the provers can use.
LEMMA DivMod ==
  ASSUME NEW a \in Nat, NEW s \in Nat \ {0}
  PROVE  /\ a = s * (a \div s) + (a % s)
         /\ a % s \in 0 .. (s - 1)
         /\ a \div s \in Nat
  OBVIOUS

\* A multiple of s has remainder zero.
LEMMA MultipleMod ==
  ASSUME NEW k \in Nat, NEW s \in Nat \ {0}
  PROVE  (k * s) % s = 0
  OBVIOUS

\* Multiples of s are closed under addition.
LEMMA SumMod ==
  ASSUME NEW a \in Nat, NEW b \in Nat, NEW s \in Nat \ {0}, a % s = 0, b % s = 0
  PROVE  (a + b) % s = 0
<1> DEFINE j == a \div s
           k == b \div s
<1>1. a = s * j /\ b = s * k /\ j \in Nat /\ k \in Nat
  BY DivMod
<1> HIDE DEF j, k
<1>2. a + b = (j + k) * s
  BY <1>1
<1> QED
  BY <1>1, <1>2, MultipleMod

\* A multiple of a multiple of s is a multiple of s.
LEMMA ChainMod ==
  ASSUME NEW a \in Nat, NEW b \in Nat \ {0}, NEW s \in Nat \ {0}, a % b = 0, b % s = 0
  PROVE  a % s = 0
<1> DEFINE j == a \div b
           k == b \div s
<1>1. a = b * j /\ b = s * k /\ j \in Nat /\ k \in Nat
  BY DivMod
<1> HIDE DEF j, k
<1>2. a = (k * j) * s /\ k * j \in Nat
  BY <1>1
<1> QED
  BY <1>2, MultipleMod

----------------------------------------------------------------------------
(* Least and greatest elements, and ranks.                                 *)

\* A nonempty set of naturals has a least element.
LEMMA Least ==
  ASSUME NEW S, S \subseteq Nat, S # {}
  PROVE  \E x \in S : \A y \in S : x <= y
<1> DEFINE R == {ss \in Nat \X Nat : ss[1] < ss[2]}
<1>0. IsWellFoundedOn(R, Nat)
  BY NatLessThanWellFounded, Zenon DEF OpToRel
<1>1. PICK x \in S : \A y \in S : ~(<<y, x>> \in R)
  BY <1>0, WFMin
<1>2. ASSUME NEW y \in S PROVE x <= y
  <2>1. x \in Nat /\ y \in Nat
    OBVIOUS
  <2>2. ASSUME y < x PROVE <<y, x>> \in R
    BY <2>1, <2>2
  <2> QED
    BY <1>1, <2>1, <2>2
<1> QED
  BY <1>2

\* A bounded one has a greatest.
LEMMA Greatest ==
  ASSUME NEW S, NEW n \in Nat, S \subseteq 0 .. n, S # {}
  PROVE  \E x \in S : \A y \in S : y <= x
<1>0. \A z \in S : z \in Nat
  OBVIOUS
<1> DEFINE T == {n - x : x \in S}
<1>1. T \subseteq Nat /\ T # {}
  <2>1. \A x \in S : n - x \in Nat
    OBVIOUS
  <2>2. PICK x \in S : TRUE
    OBVIOUS
  <2>3. n - x \in T
    OBVIOUS
  <2> QED
    BY <2>1, <2>3
<1>2. PICK t \in T : \A y \in T : t <= y
  BY <1>1, Least
<1>3. PICK x \in S : t = n - x
  OBVIOUS
<1>4. ASSUME NEW y \in S PROVE y <= x
  <2>1. n - y \in T /\ x \in Nat /\ y \in Nat
    BY <1>0
  <2>2. n - x <= n - y
    BY <1>2, <1>3, <2>1
  <2> QED
    BY <2>1, <2>2
<1> QED
  BY <1>4

\* The elements of a set below one of its elements.
Below(S, i) == {j \in S : j < i}

\* They are fewer than the set has.
LEMMA BelowFinite ==
  ASSUME NEW S, NEW n \in Nat, S \subseteq 0 .. n, NEW i \in S
  PROVE  /\ IsFiniteSet(Below(S, i)) /\ Cardinality(Below(S, i)) \in Nat
         /\ IsFiniteSet(S) /\ Cardinality(S) \in Nat
         /\ Cardinality(Below(S, i)) < Cardinality(S)
<1>1. IsFiniteSet(0 .. n)
  BY FS_Interval
<1>2. IsFiniteSet(S)
  BY <1>1, FS_Subset
<1>3. i \notin Below(S, i) /\ Below(S, i) \subseteq S
  BY DEF Below
<1>4. IsFiniteSet(Below(S, i)) /\ Cardinality(Below(S, i)) <= Cardinality(S)
      /\ (Cardinality(Below(S, i)) = Cardinality(S) => Below(S, i) = S)
  BY <1>2, <1>3, FS_Subset
<1>5. Cardinality(S) \in Nat /\ Cardinality(Below(S, i)) \in Nat
  BY <1>2, <1>4, FS_CardinalityType
<1> QED
  BY <1>2, <1>3, <1>4, <1>5

\* Above the greatest of the elements below i come one more than below it.
LEMMA BelowNext ==
  ASSUME NEW S, NEW n \in Nat, S \subseteq 0 .. n, NEW i \in S, NEW g \in Below(S, i),
         \A y \in Below(S, i) : y <= g
  PROVE  Cardinality(Below(S, i)) = Cardinality(Below(S, g)) + 1
<1>1. g \in S /\ g \notin Below(S, g)
  BY DEF Below
<1>n. \A y \in S : y \in Nat
  OBVIOUS
<1>2. Below(S, i) = Below(S, g) \cup {g}
  <2>1. g < i
    BY DEF Below
  <2>2. ASSUME NEW y \in S PROVE y < i <=> y < g \/ y = g
    <3>1. y < i => y <= g
      BY DEF Below
    <3> QED
      BY <1>n, <1>1, <2>1, <3>1
  <2> QED
    BY <1>1, <2>2 DEF Below
<1>3. IsFiniteSet(Below(S, g))
  BY <1>1, BelowFinite
<1> QED
  BY <1>1, <1>2, <1>3, FS_AddElement

\* Every number below the size of the set is the rank of one of its elements.
LEMMA RankExists ==
  ASSUME NEW S, NEW n \in Nat, S \subseteq 0 .. n, NEW k \in Nat, k < Cardinality(S)
  PROVE  \E i \in S : Cardinality(Below(S, i)) = k
<1>0. S # {}
  BY FS_EmptySet
<1> DEFINE T == {i \in S : Cardinality(Below(S, i)) >= k}
<1>1. T # {} /\ T \subseteq Nat
  <2>1. PICK top \in S : \A y \in S : y <= top
    BY <1>0, Greatest
  <2>2. S = Below(S, top) \cup {top} /\ top \notin Below(S, top)
    <3>1. ASSUME NEW y \in S PROVE y < top \/ y = top
      <4>1. y \in Nat /\ top \in Nat
        OBVIOUS
      <4> QED
        BY <2>1, <4>1
    <3>2. ~(top < top)
      OBVIOUS
    <3> QED
      BY <3>1, <3>2 DEF Below
  <2>3. IsFiniteSet(Below(S, top)) /\ Cardinality(Below(S, top)) \in Nat
    BY BelowFinite
  <2>4. Cardinality(S) = Cardinality(Below(S, top)) + 1
    BY <2>2, <2>3, FS_AddElement
  <2>5. top \in T
    BY <2>3, <2>4
  <2>6. \A y \in S : y \in Nat
    OBVIOUS
  <2> QED
    BY <2>5, <2>6
<1>2. PICK i \in T : \A y \in T : i <= y
  BY <1>1, Least
<1>3. i \in S /\ Cardinality(Below(S, i)) \in Nat /\ Cardinality(Below(S, i)) >= k
  BY <1>2, BelowFinite
<1>4. ASSUME Cardinality(Below(S, i)) > k PROVE FALSE
  <2>1. Below(S, i) # {}
    BY <1>3, <1>4, FS_EmptySet
  <2>2. Below(S, i) \subseteq 0 .. n
    BY DEF Below
  <2>3. PICK g \in Below(S, i) : \A y \in Below(S, i) : y <= g
    BY <2>1, <2>2, Greatest
  <2>4. Cardinality(Below(S, i)) = Cardinality(Below(S, g)) + 1
    BY <1>3, <2>3, BelowNext
  <2>5. g \in S /\ g < i
    BY DEF Below
  <2>6. Cardinality(Below(S, g)) \in Nat
    BY <2>5, BelowFinite
  <2>7. g \in T
    BY <1>4, <2>4, <2>5, <2>6
  <2> QED
    BY <1>2, <2>5, <2>7
<1> QED
  BY <1>3, <1>4

\* No two elements have the same rank.
LEMMA RankUnique ==
  ASSUME NEW S, NEW n \in Nat, S \subseteq 0 .. n, NEW i \in S, NEW j \in S,
         Cardinality(Below(S, i)) = Cardinality(Below(S, j))
  PROVE  i = j
<1>1. ASSUME NEW a \in S, NEW b \in S, a < b
      PROVE  Cardinality(Below(S, a)) < Cardinality(Below(S, b))
  <2>1. Below(S, a) = Below(Below(S, b), a) /\ a \in Below(S, b)
    <3>1. ASSUME NEW y \in S PROVE y < a => y < b
      <4>1. y \in Nat /\ a \in Nat /\ b \in Nat
        OBVIOUS
      <4> QED
        BY <1>1, <4>1
    <3> QED
      BY <1>1, <3>1 DEF Below
  <2>2. Below(S, b) \subseteq 0 .. n
    BY DEF Below
  <2> QED
    BY <2>1, <2>2, BelowFinite
<1>2. i \in Nat /\ j \in Nat
  OBVIOUS
<1>3. Cardinality(Below(S, i)) \in Nat /\ Cardinality(Below(S, j)) \in Nat
  BY BelowFinite
<1> QED
  BY <1>1, <1>2, <1>3

----------------------------------------------------------------------------
(* Descents.                                                               *)

\* Induction from n down to 0: what holds at n, and at l if it does at l + 1,
\* holds at every l.
LEMMA DownTo ==
  ASSUME NEW n \in Nat, NEW S, n \in S, \A l \in 0 .. (n - 1) : l + 1 \in S => l \in S
  PROVE  0 .. n \subseteq S
<1> DEFINE B == (0 .. n) \ S
<1> SUFFICES ASSUME B # {} PROVE FALSE
  OBVIOUS
<1>1. B \subseteq 0 .. n
  OBVIOUS
<1> HIDE DEF B
<1>2. PICK x \in B : \A y \in B : y <= x
  BY <1>1, Greatest
<1>3. x \in 0 .. n /\ x \notin S
  BY <1>2 DEF B
<1>4. x # n
  BY <1>3
<1>5. x \in 0 .. (n - 1) /\ x + 1 \in 0 .. n /\ ~(x + 1 <= x)
  BY <1>3, <1>4
<1>6. x + 1 \in S
  BY <1>2, <1>5 DEF B
<1> QED
  BY <1>3, <1>5, <1>6

\* h is a descent of n steps through D from r: each level is a step of f from
\* the one above it.
IsDescent(h, n, D, r, f) ==
    /\ h \in [0 .. n -> D] /\ h[n] = r
    /\ \A l \in 0 .. (n - 1) : h[l] = f[l][h[l + 1]]

\* Whatever the step at each level, there is a descent.
LEMMA DescentExists ==
  ASSUME NEW n \in Nat, NEW D, NEW r \in D, NEW f \in [0 .. n -> [D -> D]]
  PROVE  \E h : IsDescent(h, n, D, r, f)
<1> DEFINE Path(k, h) == /\ h \in [k .. n -> D] /\ h[n] = r
                         /\ \A l \in k .. (n - 1) : h[l] = f[l][h[l + 1]]
           S == {k \in 0 .. n : \E h : Path(k, h)}
<1>1. n \in S
  <2> DEFINE h == [x \in n .. n |-> r]
  <2>1. h \in [n .. n -> D] /\ h[n] = r
    OBVIOUS
  <2>2. \A l \in n .. (n - 1) : FALSE
    OBVIOUS
  <2> HIDE DEF h
  <2>3. Path(n, h)
    BY <2>1, <2>2
  <2> HIDE DEF Path
  <2> QED
    BY <2>3
<1>2. ASSUME NEW k \in 0 .. (n - 1), k + 1 \in S PROVE k \in S
  <2>1. PICK h : Path(k + 1, h)
    BY <1>2
  <2> DEFINE y == f[k][h[k + 1]]
             g == [x \in k .. n |-> IF x = k THEN y ELSE h[x]]
  <2>2. k \in 0 .. n /\ k + 1 \in (k + 1) .. n /\ n \in k .. n /\ n # k
    BY <1>2
  <2>3. y \in D
    BY <2>1, <2>2
  <2>4. \A x \in k .. n : x = k \/ x \in (k + 1) .. n
    OBVIOUS
  <2> HIDE DEF y
  <2>5. g \in [k .. n -> D]
    BY <2>1, <2>3, <2>4
  <2>6. g[n] = r
    BY <2>1, <2>2
  <2>7. ASSUME NEW l \in k .. (n - 1) PROVE g[l] = f[l][g[l + 1]]
    <3>1. l + 1 \in k .. n /\ l + 1 # k /\ l \in k .. n
      OBVIOUS
    <3>2. g[l + 1] = h[l + 1]
      BY <3>1
    <3>3. CASE l = k
      BY <3>1, <3>2, <3>3 DEF y
    <3>4. CASE l # k
      <4>1. l \in (k + 1) .. (n - 1)
        BY <3>4
      <4>2. h[l] = f[l][h[l + 1]]
        BY <2>1, <4>1
      <4> QED
        BY <3>1, <3>2, <3>4, <4>2
    <3> QED
      BY <3>3, <3>4
  <2> HIDE DEF g
  <2>8. Path(k, g)
    BY <2>5, <2>6, <2>7
  <2> QED
    BY <2>2, <2>8
<1> HIDE DEF S
<1>3. 0 .. n \subseteq S
  BY <1>1, <1>2, DownTo
<1>4. 0 \in S
  BY <1>3
<1>5. PICK h : Path(0, h)
  BY <1>4 DEF S
<1> QED
  BY <1>5 DEF IsDescent
=============================================================================
