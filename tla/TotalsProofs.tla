----------------------------- MODULE TotalsProofs -----------------------------
(***************************************************************************)
(* What SumOver computes, for every finite set and every function from it  *)
(* to the naturals: the lemmas on which the sums over all owners rest.     *)
(***************************************************************************)
EXTENDS Totals, FiniteSetTheorems, TLAPS

\* The units are the pairs of a member and a number up to its value.
LEMMA UnitsAre ==
    ASSUME NEW S, NEW f
    PROVE  \A z : z \in Units(S, f) <=> \E x \in S : \E i \in 1 .. f[x] : z = <<x, i>>
  BY DEF Units

\* n units of one member are n units.
LEMMA Bag ==
    ASSUME NEW x, NEW n \in Nat
    PROVE  IsFiniteSet({x} \X (1 .. n)) /\ Cardinality({x} \X (1 .. n)) = n
  <1> DEFINE one == {x}
             numbers == 1 .. n
  <1>1. IsFiniteSet(one) /\ Cardinality(one) = 1
    BY FS_Singleton
  <1>2. IsFiniteSet(numbers) /\ Cardinality(numbers) = n
    <2>1. 1 \in Int /\ n \in Int
      OBVIOUS
    <2>2. IsFiniteSet(1 .. n) /\ Cardinality(1 .. n) = IF 1 > n THEN 0 ELSE n - 1 + 1
      BY <2>1, FS_Interval
    <2>3. (IF 1 > n THEN 0 ELSE n - 1 + 1) = n
      OBVIOUS
    <2> QED
      BY <2>2, <2>3
  <1> HIDE DEF one, numbers
  <1>3. IsFiniteSet(one \X numbers) /\ Cardinality(one \X numbers) = 1 * n
    BY <1>1, <1>2, FS_Product
  <1> QED
    BY <1>3 DEF one, numbers

\* There are finitely many units.
LEMMA UnitsFinite ==
    ASSUME NEW S, IsFiniteSet(S), NEW f \in [S -> Nat]
    PROVE  IsFiniteSet(Units(S, f))
  <1> DEFINE bags == {{x} \X (1 .. f[x]) : x \in S}
             bag == [x \in S |-> {x} \X (1 .. f[x])]
  <1>1. bag \in Surjection(S, bags)
    BY DEF Surjection
  <1>2. IsFiniteSet(bags)
    BY <1>1, FS_Surjection
  <1>3. \A T \in bags : IsFiniteSet(T)
    <2> TAKE T \in bags
    <2>1. PICK x \in S : T = {x} \X (1 .. f[x])
      OBVIOUS
    <2>2. f[x] \in Nat
      OBVIOUS
    <2>4. IsFiniteSet({x} \X (1 .. f[x]))
      BY <2>2, Bag
    <2> QED
      BY <2>1, <2>4
  <1> HIDE DEF bags
  <1>4. IsFiniteSet(UNION bags)
    BY <1>2, <1>3, FS_UNION
  <1> QED
    BY <1>4 DEF Units, bags

\* A sum of naturals is one.
LEMMA SumType ==
    ASSUME NEW S, IsFiniteSet(S), NEW f \in [S -> Nat]
    PROVE  SumOver(S, f) \in Nat
  BY UnitsFinite, FS_CardinalityType DEF SumOver

\* A member contributes its value.
LEMMA SumSplit ==
    ASSUME NEW S, IsFiniteSet(S), NEW f \in [S -> Nat], NEW u \in S
    PROVE  SumOver(S, f) = SumOver(S \ {u}, f) + f[u]
  <1> DEFINE rest == Units(S \ {u}, f)
             own == {u} \X (1 .. f[u])
  <1>1. Units(S, f) = rest \cup own
    BY DEF Units
  <1>2. rest \cap own = {}
    BY DEF Units
  <1>3. IsFiniteSet(Units(S, f))
    BY UnitsFinite
  <1>4. IsFiniteSet(rest) /\ IsFiniteSet(own)
    BY <1>1, <1>3, FS_Subset
  <1>5. Cardinality(rest) \in Nat
    BY <1>4, FS_CardinalityType
  <1>6. Cardinality(own) = f[u]
    <2>1. f[u] \in Nat
      OBVIOUS
    <2> QED
      BY <2>1, Bag
  <1> HIDE DEF rest, own
  <1>7. Cardinality(rest \cup own) = Cardinality(rest) + Cardinality(own) - 0
    BY <1>2, <1>4, FS_Union, FS_EmptySet
  <1>8. f[u] \in Nat
    OBVIOUS
  <1> QED
    BY <1>1, <1>5, <1>6, <1>7, <1>8 DEF SumOver, rest

\* Functions that agree have the same sum.
LEMMA SumSame ==
    ASSUME NEW S, NEW f, NEW g, \A x \in S : f[x] = g[x]
    PROVE  SumOver(S, f) = SumOver(S, g)
  <1>1. Units(S, f) = Units(S, g)
    BY DEF Units
  <1> QED
    BY <1>1 DEF SumOver

\* When one term changes, the sum changes by as much.
LEMMA SumUpdate ==
    ASSUME NEW S, IsFiniteSet(S), NEW f \in [S -> Nat], NEW g \in [S -> Nat], NEW u \in S,
           \A x \in S \ {u} : g[x] = f[x]
    PROVE  SumOver(S, g) + f[u] = SumOver(S, f) + g[u]
  <1>1. SumOver(S, f) = SumOver(S \ {u}, f) + f[u]
    BY SumSplit
  <1>2. SumOver(S, g) = SumOver(S \ {u}, g) + g[u]
    BY SumSplit
  <1>3. SumOver(S \ {u}, f) = SumOver(S \ {u}, g)
    BY SumSame
  <1>4. SumOver(S \ {u}, f) \in Nat
    <2>1. IsFiniteSet(S \ {u})
      BY FS_Subset
    <2>2. IsFiniteSet(Units(S, f)) /\ Units(S \ {u}, f) \subseteq Units(S, f)
      BY UnitsFinite DEF Units
    <2>3. IsFiniteSet(Units(S \ {u}, f))
      BY <2>2, FS_Subset
    <2> QED
      BY <2>3, FS_CardinalityType DEF SumOver
  <1>5. f[u] \in Nat /\ g[u] \in Nat
    OBVIOUS
  <1> QED
    BY <1>1, <1>2, <1>3, <1>4, <1>5

\* A term is at most the sum.
LEMMA SumBoundsTerm ==
    ASSUME NEW S, IsFiniteSet(S), NEW f \in [S -> Nat], NEW u \in S
    PROVE  f[u] <= SumOver(S, f)
  <1>1. SumOver(S, f) = SumOver(S \ {u}, f) + f[u]
    BY SumSplit
  <1>2. SumOver(S \ {u}, f) \in Nat
    <2>1. IsFiniteSet(Units(S, f)) /\ Units(S \ {u}, f) \subseteq Units(S, f)
      BY UnitsFinite DEF Units
    <2>2. IsFiniteSet(Units(S \ {u}, f))
      BY <2>1, FS_Subset
    <2> QED
      BY <2>2, FS_CardinalityType DEF SumOver
  <1>3. f[u] \in Nat
    OBVIOUS
  <1> QED
    BY <1>1, <1>2, <1>3

\* The sum of zeros is zero.
LEMMA SumZero ==
    ASSUME NEW S, NEW f, \A x \in S : f[x] = 0
    PROVE  SumOver(S, f) = 0
  <1>1. Units(S, f) = {}
    BY DEF Units
  <1> QED
    BY <1>1, FS_EmptySet DEF SumOver

\* Numbering n * k things row by row: each has a row and a place in the row.
LEMMA RowAndPlace ==
    ASSUME NEW n \in Nat, NEW k \in Nat, NEW r \in Nat, r < n * k
    PROVE  \E j \in 1 .. n : \E m \in 1 .. k : r + 1 = (j - 1) * k + m
  <1>1. k > 0
    <2> SUFFICES ASSUME k = 0 PROVE FALSE
      OBVIOUS
    <2>1. n * 0 = 0
      OBVIOUS
    <2> QED
      BY <2>1
  <1> DEFINE row == r \div k
             place == r % k
  <1>2. row * k + place = r /\ row \in Nat /\ place \in 0 .. k - 1
    BY <1>1
  <1> HIDE DEF row, place
  <1>3. row < n
    <2> SUFFICES ASSUME n <= row PROVE FALSE
      BY <1>2
    <2>1. n * k <= row * k
      BY <1>2
    <2>2. n * k \in Nat /\ row * k \in Nat
      BY <1>2
    <2> DEFINE a == n * k
               b == row * k
    <2>3. a <= b /\ a \in Nat /\ b \in Nat /\ r < a /\ b + place = r
      BY <1>2, <2>1, <2>2
    <2> HIDE DEF a, b
    <2> QED
      BY <1>2, <2>3
  <1>4. row + 1 \in 1 .. n /\ place + 1 \in 1 .. k
    BY <1>2, <1>3
  <1>5. ((row + 1) - 1) * k = row * k
    BY <1>2
  <1>6. row * k \in Nat
    BY <1>2
  <1> DEFINE b == row * k
  <1>7. r + 1 = b + (place + 1)
    <2>1. b \in Nat /\ b + place = r
      BY <1>2, <1>6
    <2> HIDE DEF b
    <2> QED
      BY <1>2, <2>1
  <1> QED
    BY <1>4, <1>5, <1>7

\* When every term grows by k for each of its shares, the sum grows by at most
\* k for each of all shares.
LEMMA SumPushed ==
    ASSUME NEW S, IsFiniteSet(S), NEW f \in [S -> Nat], NEW g \in [S -> Nat], NEW h \in [S -> Nat],
           NEW k \in Nat, \A x \in S : h[x] = f[x] + g[x] * k
    PROVE  SumOver(S, h) <= SumOver(S, f) + SumOver(S, g) * k
  <1> DEFINE old == Units(S, f)
             shares == Units(S, g) \X (1 .. k)
             all == Units(S, h)
             number(s, m) == f[s[1]] + ((s[2] - 1) * k + m)
             place == [z \in shares |-> <<z[1][1], number(z[1], z[2])>>]
             new == {place[z] : z \in shares}
  <1>1. IsFiniteSet(shares) /\ Cardinality(shares) = SumOver(S, g) * k
    <2>1. IsFiniteSet(Units(S, g))
      BY UnitsFinite
    <2>2. IsFiniteSet(1 .. k) /\ Cardinality(1 .. k) = k
      <3>1. IsFiniteSet(1 .. k) /\ Cardinality(1 .. k) = IF 1 > k THEN 0 ELSE k - 1 + 1
        BY FS_Interval
      <3>2. (IF 1 > k THEN 0 ELSE k - 1 + 1) = k
        OBVIOUS
      <3> QED
        BY <3>1, <3>2
    <2> DEFINE sharing == Units(S, g)
               ks == 1 .. k
    <2>3. IsFiniteSet(sharing) /\ IsFiniteSet(ks)
      BY <2>1, <2>2
    <2> HIDE DEF sharing, ks
    <2>4. /\ IsFiniteSet(sharing \X ks)
          /\ Cardinality(sharing \X ks) = Cardinality(sharing) * Cardinality(ks)
      BY <2>3, FS_Product
    <2> QED
      BY <2>2, <2>4 DEF SumOver, sharing, ks
  <1>2. place \in Surjection(shares, new)
    BY DEF Surjection
  <1>3. IsFiniteSet(new) /\ Cardinality(new) <= Cardinality(shares)
    <2> HIDE DEF place, new, shares
    <2> QED
      BY <1>1, <1>2, FS_Surjection
  <1>4. all \subseteq old \cup new
    <2> SUFFICES ASSUME NEW z \in all PROVE z \in old \cup new
      OBVIOUS
    <2>1. PICK x \in S : \E i \in 1 .. h[x] : z = <<x, i>>
      BY UnitsAre
    <2>2. PICK i \in 1 .. h[x] : z = <<x, i>>
      BY <2>1
    <2>3. f[x] \in Nat /\ g[x] \in Nat /\ h[x] = f[x] + g[x] * k /\ g[x] * k \in Nat
      OBVIOUS
    <2>4. CASE i <= f[x]
      <3>1. i \in 1 .. f[x]
        BY <2>3, <2>4
      <3> QED
        BY <2>2, <3>1, UnitsAre
    <2>5. CASE i > f[x]
      <3> DEFINE r == i - f[x] - 1
      <3>1. r \in Nat /\ r < g[x] * k /\ i = f[x] + (r + 1)
        BY <2>3, <2>5
      <3> HIDE DEF r
      <3>2. PICK j \in 1 .. g[x], m \in 1 .. k : r + 1 = (j - 1) * k + m
        BY <2>3, <3>1, RowAndPlace
      <3>3. <<x, j>> \in Units(S, g)
        BY UnitsAre
      <3>4. <<<<x, j>>, m>> \in shares
        BY <3>3
      <3>5. place[<<<<x, j>>, m>>] = <<x, f[x] + ((j - 1) * k + m)>>
        BY <3>4
      <3>6. place[<<<<x, j>>, m>>] = z
        BY <2>2, <3>1, <3>2, <3>5
      <3> QED
        BY <3>4, <3>6
    <2>6. i \in Int
      BY <2>3
    <2> QED
      BY <2>3, <2>4, <2>5, <2>6
  <1> HIDE DEF new, shares, place
  <1>5. IsFiniteSet(old) /\ IsFiniteSet(old \cup new)
        /\ Cardinality(old \cup new)
              = Cardinality(old) + Cardinality(new) - Cardinality(old \cap new)
    BY <1>3, UnitsFinite, FS_Union
  <1>6. Cardinality(all) <= Cardinality(old \cup new)
    BY <1>4, <1>5, FS_Subset
  <1>7. IsFiniteSet(old \cap new)
    BY <1>3, FS_Subset
  <1>8. /\ Cardinality(all) \in Nat /\ Cardinality(old) \in Nat /\ Cardinality(new) \in Nat
        /\ Cardinality(old \cap new) \in Nat /\ Cardinality(shares) \in Nat
        /\ Cardinality(old \cup new) \in Nat
    BY <1>1, <1>3, <1>5, <1>7, UnitsFinite, FS_CardinalityType
  <1>9. Cardinality(all) <= Cardinality(old) + Cardinality(shares)
    BY <1>3, <1>5, <1>6, <1>8
  <1> QED
    BY <1>1, <1>9 DEF SumOver
=============================================================================
