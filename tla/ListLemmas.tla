----------------------------- MODULE ListLemmas -----------------------------
(***************************************************************************)
(* Induction in a form the provers can use, and what the erase loops of    *)
(* Lists leave.  The theorems of NaturalsInduction take a predicate as a   *)
(* parameter; here the parameter is a set, which first-order provers can   *)
(* instantiate: a set of naturals that is not empty has a least member.    *)
(***************************************************************************)
EXTENDS Lists, FiniteSetTheorems, FunctionTheorems, WellFoundedInduction, TLAPS

\* Some well-founded relation on Nat contains <.
LEMMA LessWellFounded ==
    \E R : IsWellFoundedOn(R, Nat) /\ \A x, y \in Nat : x < y => <<x, y>> \in R
  <1>1. IsWellFoundedOn(OpToRel(<, Nat), Nat) BY NatLessThanWellFounded
  <1>2. \A x, y \in Nat : x < y => <<x, y>> \in OpToRel(<, Nat) BY DEF OpToRel
  <1> QED BY <1>1, <1>2, Zenon

\* The least number of a set.
LEMMA LeastNat ==
    ASSUME NEW T, T \subseteq Nat, T # {}
    PROVE  \E x \in T : \A y \in T : x <= y
  <1>1. PICK R : /\ IsWellFoundedOn(R, Nat)
                 /\ \A x, y \in Nat : x < y => <<x, y>> \in R
    BY LessWellFounded
  <1>2. IsWellFoundedOn(R, Nat) BY <1>1
  <1>3. \E x \in T : \A y \in T : ~(<<y, x>> \in R) BY <1>2, WFMin, Zenon
  <1>4. PICK x \in T : \A y \in T : ~(<<y, x>> \in R) BY <1>3
  <1>5. \A y \in T : ~(y < x) BY <1>1, <1>4
  <1> QED BY <1>5

\* Induction: a set with 0 and the successor of each of its naturals has them all.
LEMMA SetInduction ==
    ASSUME NEW P, 0 \in P, \A n \in Nat : n \in P => n + 1 \in P
    PROVE  Nat \subseteq P
  <1>1. SUFFICES ASSUME Nat \ P # {} PROVE FALSE OBVIOUS
  <1>2. PICK n \in Nat \ P : \A k \in Nat \ P : n <= k BY <1>1, LeastNat
  <1>3. n # 0 /\ n - 1 \in Nat BY <1>2
  <1>4. n - 1 \in P BY <1>2, <1>3
  <1>5. (n - 1) + 1 \in P BY <1>3, <1>4
  <1> QED BY <1>2, <1>3, <1>5

\* The members of a finite set that a relation orders are numbered by how many
\* come before them: every number below the size is the number of one of them.
LEMMA Ranks ==
    ASSUME NEW S, IsFiniteSet(S), NEW R,
           \A x \in S : <<x, x>> \notin R,
           \A x, y, z \in S : <<x, y>> \in R /\ <<y, z>> \in R => <<x, z>> \in R,
           \A x, y \in S : x = y \/ <<x, y>> \in R \/ <<y, x>> \in R
    PROVE  \A k \in 1 .. Cardinality(S) :
              \E x \in S : Cardinality({y \in S : <<y, x>> \in R}) = k - 1
  <1> DEFINE below(x) == {y \in S : <<y, x>> \in R}
             n == Cardinality(S)
             rank == [x \in S |-> Cardinality(below(x))]
  <1>1. n \in Nat BY FS_CardinalityType
  <1>2. ASSUME NEW x \in S
        PROVE  IsFiniteSet(below(x)) /\ Cardinality(below(x)) \in 0 .. n - 1
    <2>1. below(x) \in SUBSET S /\ below(x) # S OBVIOUS
    <2>2. IsFiniteSet(below(x)) /\ Cardinality(below(x)) <= n /\ Cardinality(below(x)) # n
      BY <2>1, FS_Subset
    <2>3. Cardinality(below(x)) \in Nat BY <2>2, FS_CardinalityType
    <2> QED BY <1>1, <2>2, <2>3
  <1>3. ASSUME NEW x \in S, NEW y \in S, <<x, y>> \in R
        PROVE  Cardinality(below(x)) # Cardinality(below(y))
    <2>1. below(x) \in SUBSET below(y) /\ x \in below(y) /\ x \notin below(x) BY <1>3
    <2>2. below(x) # below(y) BY <2>1
    <2>3. IsFiniteSet(below(y)) BY <1>2
    <2> HIDE DEF below
    <2> QED BY <2>1, <2>2, <2>3, FS_Subset
  <1>4. \A x \in S : rank[x] = Cardinality(below(x)) OBVIOUS
  <1>5. rank \in [S -> 0 .. n - 1] BY <1>2
  <1>6. \A x, y \in S : rank[x] = rank[y] => x = y
    <2> HIDE DEF below, rank
    <2> QED BY <1>3, <1>4
  <1> HIDE DEF rank, below, n
  <1>7. rank \in Injection(S, 0 .. n - 1) BY <1>5, <1>6, Fun_IsInj
  <1>8. IsFiniteSet(0 .. n - 1) /\ Cardinality(0 .. n - 1) = n
    BY <1>1, FS_Interval
  <1>9. rank \in Surjection(S, 0 .. n - 1) BY <1>7, <1>8, FS_Injection DEF n
  <1>10. \A t \in 0 .. n - 1 : \E x \in S : rank[x] = t BY <1>9 DEF Surjection
  <1>11. ASSUME NEW k \in 1 .. n PROVE \E x \in S : Cardinality(below(x)) = k - 1
    <2>1. k - 1 \in 0 .. n - 1 BY <1>1
    <2> QED BY <1>4, <1>10, <2>1
  <1> QED BY <1>11 DEF n, below

\* w is what is left of s without the members of Drop: each element of w was at
\* a place p of s, no two at the same one and in the same order, and every
\* element of s that is not in Drop is left.
Left(w, s, Drop) ==
    \E p \in [1 .. Len(w) -> 1 .. Len(s)] :
        /\ \A k \in 1 .. Len(w) : w[k] = s[p[k]] /\ s[p[k]] \notin Drop
        /\ \A k, l \in 1 .. Len(w) : p[k] = p[l] => k = l
        /\ \A k, l \in 1 .. Len(w) : p[k] < p[l] => k < l
        /\ \A i \in 1 .. Len(s) : s[i] \notin Drop => \E k \in 1 .. Len(w) : p[k] = i

\* What the erase loops of MessageQueue::Clear leave.
LEMMA WithoutPlaces ==
    ASSUME NEW S, NEW s \in Seq(S), NEW Drop
    PROVE  Without(s, Drop) \in Seq(S) /\ Left(Without(s, Drop), s, Drop)
  <1> DEFINE kept == {i \in 1 .. Len(s) : s[i] \notin Drop}
             n == Cardinality(kept)
             below(i) == {j \in kept : j < i}
             p == [k \in 1 .. n |-> Nth(kept, k)]
             w == [k \in 1 .. n |-> s[Nth(kept, k)]]
  <1>1. Len(s) \in Nat OBVIOUS
  <1>2. kept \subseteq 1 .. Len(s) /\ kept \subseteq Nat OBVIOUS
  <1>3. IsFiniteSet(kept)
    <2>1. IsFiniteSet(1 .. Len(s)) BY <1>1, FS_Interval
    <2> QED BY <2>1, <1>2, FS_Subset
  <1>4. n \in Nat BY <1>3, FS_CardinalityType
  <1>5. \A k \in 1 .. n : \E i \in kept : Cardinality(below(i)) = k - 1
    <2> DEFINE R == {r \in Nat \X Nat : r[1] < r[2]}
    <2>1. \A i, j \in Nat : <<i, j>> \in R <=> i < j OBVIOUS
    <2> HIDE DEF R, kept
    <2>2. \A i \in kept : {j \in kept : <<j, i>> \in R} = below(i) BY <1>2, <2>1
    <2>3. \A k \in 1 .. Cardinality(kept) :
             \E x \in kept : Cardinality({y \in kept : <<y, x>> \in R}) = k - 1
      <3>1. \A x \in kept : <<x, x>> \notin R BY <1>2, <2>1
      <3>2. \A x, y, z \in kept : <<x, y>> \in R /\ <<y, z>> \in R => <<x, z>> \in R
        BY <1>2, <2>1
      <3>3. \A x, y \in kept : x = y \/ <<x, y>> \in R \/ <<y, x>> \in R
        <4> TAKE x, y \in kept
        <4>1. x \in Nat /\ y \in Nat BY <1>2
        <4>2. x = y \/ x < y \/ y < x BY <4>1
        <4> QED BY <4>1, <4>2, <2>1
      <3> QED BY <3>1, <3>2, <3>3, <1>3, Ranks
    <2> QED BY <2>2, <2>3
  <1>6. \A k \in 1 .. n : Nth(kept, k) \in kept /\ Cardinality(below(Nth(kept, k))) = k - 1
    <2> TAKE k \in 1 .. n
    <2>1. \E i \in kept : Cardinality(below(i)) = k - 1 BY <1>5
    <2> HIDE DEF kept
    <2> QED BY <2>1 DEF Nth
  <1>7. \A i \in kept : Cardinality(below(i)) \in 0 .. n - 1
    <2> TAKE i \in kept
    <2>1. below(i) \in SUBSET kept /\ i \notin below(i) BY <1>2
    <2>2. below(i) # kept BY <2>1
    <2> HIDE DEF below, kept
    <2>3. IsFiniteSet(below(i)) /\ Cardinality(below(i)) <= n /\ Cardinality(below(i)) # n
      BY <1>3, <2>1, <2>2, FS_Subset
    <2>4. Cardinality(below(i)) \in Nat BY <2>3, FS_CardinalityType
    <2> QED BY <1>4, <2>3, <2>4
  <1>8. \A i, j \in kept : i < j => Cardinality(below(i)) < Cardinality(below(j))
    <2> TAKE i, j \in kept
    <2> HAVE i < j
    <2>0. i \in Nat /\ j \in Nat BY <1>2
    <2>1. below(i) \in SUBSET below(j) /\ i \in below(j) /\ i \notin below(i) BY <1>2, <2>0
    <2>2. below(i) # below(j) BY <2>1
    <2>3. below(j) \in SUBSET kept OBVIOUS
    <2> HIDE DEF below, kept
    <2>4. IsFiniteSet(below(j)) BY <1>3, <2>3, FS_Subset
    <2>5. Cardinality(below(i)) <= Cardinality(below(j))
          /\ Cardinality(below(i)) # Cardinality(below(j))
      BY <2>1, <2>2, <2>4, FS_Subset
    <2> QED BY <2>5, <1>7, <1>4
  <1>9. w = Without(s, Drop) BY DEF Without
  <1>10. w \in Seq(S)
    <2>0. \A i \in 1 .. Len(s) : s[i] \in S OBVIOUS
    <2>1. \A k \in 1 .. n : s[Nth(kept, k)] \in S
      <3> HIDE DEF kept, n, below
      <3> QED BY <1>2, <1>6, <2>0
    <2> HIDE DEF kept, n
    <2> QED BY <1>4, <2>1
  <1>11. Len(w) = n
    <2> HIDE DEF kept, n
    <2> QED BY <1>4
  <1>12. p \in [1 .. n -> 1 .. Len(s)]
    <2> HIDE DEF below, n
    <2> QED BY <1>6, <1>2
  <1>13. \A k \in 1 .. n : p[k] \in kept /\ Cardinality(below(p[k])) = k - 1
    <2> HIDE DEF below, n, kept
    <2> QED BY <1>6
  <1>14. \A k \in 1 .. n : w[k] = s[p[k]] OBVIOUS
  <1> HIDE DEF w, p, below
  <1>15. \A k \in 1 .. n : w[k] = s[p[k]] /\ s[p[k]] \notin Drop BY <1>13, <1>14
  <1> HIDE DEF kept, n
  <1>16. \A k, l \in 1 .. n : p[k] = p[l] => k = l BY <1>13, <1>4
  <1>17. \A k, l \in 1 .. n : p[k] < p[l] => k < l
    <2> TAKE k, l \in 1 .. n
    <2> HAVE p[k] < p[l]
    <2>1. Cardinality(below(p[k])) < Cardinality(below(p[l])) BY <1>8, <1>13
    <2> QED BY <2>1, <1>13, <1>4
  <1>18. \A i \in kept : \E k \in 1 .. n : p[k] = i
    <2> TAKE i \in kept
    <2> DEFINE k == Cardinality(below(i)) + 1
    <2>1. k \in 1 .. n BY <1>4, <1>7
    <2>2. Cardinality(below(p[k])) = Cardinality(below(i)) /\ p[k] \in kept
      <3>1. k - 1 = Cardinality(below(i)) BY <1>7, <1>4
      <3> QED BY <2>1, <1>13, <3>1
    <2>3. ~(p[k] < i) /\ ~(i < p[k])
      <3> HIDE DEF k
      <3>1. Cardinality(below(i)) \in Int BY <1>7, <1>4
      <3>2. i \in kept OBVIOUS
      <3> QED BY <2>2, <1>8, <3>1, <3>2
    <2>4. p[k] = i
      <3> HIDE DEF k
      <3>1. p[k] \in Nat /\ i \in Nat BY <2>2, <1>2
      <3> QED BY <2>3, <3>1
    <2> QED BY <2>1, <2>4
  <1>19. \A i \in 1 .. Len(s) : s[i] \notin Drop => \E k \in 1 .. n : p[k] = i
    BY <1>18 DEF kept
  <1>20. \E f \in [1 .. Len(w) -> 1 .. Len(s)] :
             /\ \A k \in 1 .. Len(w) : w[k] = s[f[k]] /\ s[f[k]] \notin Drop
             /\ \A k, l \in 1 .. Len(w) : f[k] = f[l] => k = l
             /\ \A k, l \in 1 .. Len(w) : f[k] < f[l] => k < l
             /\ \A i \in 1 .. Len(s) : s[i] \notin Drop =>
                   \E k \in 1 .. Len(w) : f[k] = i
    <2>1. p \in [1 .. Len(w) -> 1 .. Len(s)] BY <1>11, <1>12
    <2> WITNESS p \in [1 .. Len(w) -> 1 .. Len(s)]
    <2> QED BY <1>11, <1>15, <1>16, <1>17, <1>19
  <1>21. Left(w, s, Drop) BY <1>20 DEF Left
  <1> QED BY <1>9, <1>10, <1>21
=============================================================================
