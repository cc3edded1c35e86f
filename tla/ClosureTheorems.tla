-------------------------- MODULE ClosureTheorems --------------------------
(***************************************************************************)
(* Induction, and what a recursive search of a finite graph computes: the  *)
(* least set that holds where it starts and that no edge leaves.  A graph  *)
(* is a function D from each member of U to those that it leads to.        *)
(***************************************************************************)
EXTENDS FiniteSetTheorems, WellFoundedInduction, TLAPS

-----------------------------------------------------------------------------
(* Induction over the naturals, as a fact about sets of them: the form     *)
(* that the provers can instantiate.                                       *)
LEMMA Least ==
  ASSUME NEW T \in SUBSET Nat, T # {}
  PROVE  \E x \in T : \A y \in T : x <= y
<1> DEFINE R == {p \in Nat \X Nat : p[1] < p[2]}
<1>1. IsWellFoundedOn(R, Nat)
  <2>1. IsWellFoundedOn(OpToRel(<, Nat), Nat)
    BY NatLessThanWellFounded
  <2>2. OpToRel(<, Nat) = R
    BY DEF OpToRel
  <2> QED BY <2>1, <2>2
<1>2. PICK x \in T : \A y \in T : ~ (<<y, x>> \in R)
  <2> HIDE DEF R
  <2> QED BY <1>1, WFMin
<1>3. ASSUME NEW y \in T PROVE x <= y
  <2>1. <<y, x>> \notin R
    BY <1>2
  <2> QED BY <2>1
<1> QED BY <1>3

LEMMA Induction ==
  ASSUME NEW S \in SUBSET Nat, 0 \in S, \A n \in S : n + 1 \in S
  PROVE  S = Nat
<1> SUFFICES ASSUME Nat \ S # {} PROVE FALSE
  OBVIOUS
<1>1. PICK x \in Nat \ S : \A y \in Nat \ S : x <= y
  BY Least
<1>2. x # 0 /\ x - 1 \in Nat /\ (x - 1) + 1 = x
  OBVIOUS
<1>3. x - 1 \in S
  BY <1>1, <1>2
<1> QED BY <1>2, <1>3

-----------------------------------------------------------------------------
(* The least closed set.                                                   *)
Leaves(D, T) == \E y \in T : ~ (D[y] \subseteq T)

Hull(D, U, S) == {x \in U : \A T \in SUBSET U : S \subseteq T /\ ~Leaves(D, T) => x \in T}

LEMMA HullClosed ==
  ASSUME NEW U, NEW D \in [U -> SUBSET U], NEW S \in SUBSET U
  PROVE  /\ S \subseteq Hull(D, U, S)
         /\ Hull(D, U, S) \subseteq U
         /\ \A y \in Hull(D, U, S) : D[y] \subseteq Hull(D, U, S)
<1>1. S \subseteq Hull(D, U, S) /\ Hull(D, U, S) \subseteq U
  BY DEF Hull
<1>2. ASSUME NEW y \in Hull(D, U, S), NEW z \in D[y]
      PROVE  z \in Hull(D, U, S)
  <2>1. z \in U
    BY <1>1
  <2>2. ASSUME NEW T \in SUBSET U, S \subseteq T, ~Leaves(D, T)
        PROVE  z \in T
    <3>1. y \in T
      BY <2>2 DEF Hull
    <3> QED BY <2>2, <3>1 DEF Leaves
  <2> QED BY <2>1, <2>2 DEF Hull
<1> QED BY <1>1, <1>2

LEMMA HullOfPoint ==
  ASSUME NEW U, NEW D \in [U -> SUBSET U], NEW x \in U
  PROVE  /\ x \in Hull(D, U, {x})
         /\ Hull(D, U, {x}) \subseteq U
         /\ \A y \in Hull(D, U, {x}) : D[y] \subseteq Hull(D, U, {x})
<1> DEFINE S == {x}
<1>1. S \in SUBSET U /\ x \in S
  OBVIOUS
<1> HIDE DEF S
<1>2. /\ S \subseteq Hull(D, U, S) /\ Hull(D, U, S) \subseteq U
      /\ \A y \in Hull(D, U, S) : D[y] \subseteq Hull(D, U, S)
  BY <1>1, HullClosed
<1> QED BY <1>1, <1>2 DEF S

LEMMA HullLeast ==
  ASSUME NEW U, NEW D, NEW S,
         NEW T \in SUBSET U, S \subseteq T, \A y \in T : D[y] \subseteq T
  PROVE  Hull(D, U, S) \subseteq T
BY DEF Hull, Leaves

(* What is reached from a member of the least closed set is in it.         *)
LEMMA HullTransitive ==
  ASSUME NEW U, NEW D \in [U -> SUBSET U], NEW S \in SUBSET U, NEW x \in Hull(D, U, S)
  PROVE  Hull(D, U, D[x]) \subseteq Hull(D, U, S)
<1>1. /\ Hull(D, U, S) \in SUBSET U
      /\ D[x] \subseteq Hull(D, U, S)
      /\ \A y \in Hull(D, U, S) : D[y] \subseteq Hull(D, U, S)
  BY HullClosed
<1> QED BY <1>1, HullLeast

LEMMA HullMonotone ==
  ASSUME NEW U, NEW D \in [U -> SUBSET U], NEW S \in SUBSET U, NEW T \in SUBSET U, S \subseteq T
  PROVE  Hull(D, U, S) \subseteq Hull(D, U, T)
<1>1. /\ Hull(D, U, T) \in SUBSET U
      /\ S \subseteq Hull(D, U, T)
      /\ \A y \in Hull(D, U, T) : D[y] \subseteq Hull(D, U, T)
  BY HullClosed
<1> QED BY <1>1, HullLeast

-----------------------------------------------------------------------------
(* The recursive function that adds what the set leads to until that       *)
(* changes nothing.                                                        *)
Grow(D, S) == S \cup UNION {D[y] : y \in S}

IsGrown(g, D, U) ==
  g = [S \in SUBSET U |-> IF Grow(D, S) = S THEN S ELSE g[Grow(D, S)]]

LEMMA GrowIs ==
  ASSUME NEW U, NEW D \in [U -> SUBSET U], NEW S \in SUBSET U
  PROVE  /\ Grow(D, S) \in SUBSET U
         /\ S \subseteq Grow(D, S)
         /\ \A y \in S : D[y] \subseteq Grow(D, S)
         /\ Grow(D, S) = S <=> \A y \in S : D[y] \subseteq S
BY DEF Grow

LEMMA HullOfGrown ==
  ASSUME NEW U, NEW D \in [U -> SUBSET U], NEW S \in SUBSET U
  PROVE  /\ Grow(D, S) = S => Hull(D, U, S) = S
         /\ Hull(D, U, Grow(D, S)) = Hull(D, U, S)
<1>1. /\ Grow(D, S) \in SUBSET U /\ S \subseteq Grow(D, S)
      /\ Grow(D, S) = S <=> \A y \in S : D[y] \subseteq S
  BY GrowIs
<1>2. Grow(D, S) = S => Hull(D, U, S) = S
  <2>1. S \subseteq Hull(D, U, S)
    BY HullClosed
  <2>2. ASSUME Grow(D, S) = S PROVE Hull(D, U, S) \subseteq S
    BY <1>1, <2>2, HullLeast
  <2> QED BY <2>1, <2>2
<1>3. Hull(D, U, S) \subseteq Hull(D, U, Grow(D, S))
  BY <1>1, HullMonotone
<1>4. Hull(D, U, Grow(D, S)) \subseteq Hull(D, U, S)
  <2>1. /\ Hull(D, U, S) \in SUBSET U /\ S \subseteq Hull(D, U, S)
        /\ \A y \in Hull(D, U, S) : D[y] \subseteq Hull(D, U, S)
    BY HullClosed
  <2>2. Grow(D, S) \subseteq Hull(D, U, S)
    BY <2>1 DEF Grow
  <2> QED BY <2>1, <2>2, HullLeast
<1> QED BY <1>2, <1>3, <1>4

(* There is such a function.                                               *)
LEMMA HullIsGrown ==
  ASSUME NEW U, NEW D \in [U -> SUBSET U]
  PROVE  IsGrown([S \in SUBSET U |-> Hull(D, U, S)], D, U)
<1> DEFINE h == [S \in SUBSET U |-> Hull(D, U, S)]
<1>1. ASSUME NEW S \in SUBSET U
      PROVE  Hull(D, U, S) = IF Grow(D, S) = S THEN S ELSE h[Grow(D, S)]
  <2>1. h[Grow(D, S)] = Hull(D, U, Grow(D, S))
    BY GrowIs
  <2> HIDE DEF h
  <2> QED BY <2>1, HullOfGrown
<1>2. h = [S \in SUBSET U |-> IF Grow(D, S) = S THEN S ELSE h[Grow(D, S)]]
  BY <1>1
<1> HIDE DEF h
<1>3. IsGrown(h, D, U)
  BY <1>2 DEF IsGrown
<1> QED BY <1>3 DEF h

LEMMA GrownIs ==
  ASSUME NEW U, NEW D \in [U -> SUBSET U], NEW g, IsGrown(g, D, U), NEW S \in SUBSET U
  PROVE  g[S] = IF Grow(D, S) = S THEN S ELSE g[Grow(D, S)]
<1> DEFINE F(c) == [R \in SUBSET U |-> IF Grow(D, R) = R THEN R ELSE c[Grow(D, R)]]
<1>1. g = F(g)
  BY DEF IsGrown
<1>2. F(g)[S] = IF Grow(D, S) = S THEN S ELSE g[Grow(D, S)]
  OBVIOUS
<1> HIDE DEF F
<1> QED BY <1>1, <1>2

(* And over a finite graph it is the only one: by induction on what is     *)
(* still missing from the set.                                             *)
LEMMA GrownIsHull ==
  ASSUME NEW U, IsFiniteSet(U), NEW D \in [U -> SUBSET U], NEW g, IsGrown(g, D, U),
         NEW S \in SUBSET U
  PROVE  g[S] = Hull(D, U, S)
<1> DEFINE Right(n) == \A R \in SUBSET U : Cardinality(U \ R) <= n => g[R] = Hull(D, U, R)
           N == {n \in Nat : Right(n)}
<1>1. \A R \in SUBSET U : IsFiniteSet(U \ R) /\ Cardinality(U \ R) \in Nat
  BY FS_Subset, FS_CardinalityType
<1>2. 0 \in N
  <2> SUFFICES ASSUME NEW R \in SUBSET U, Cardinality(U \ R) <= 0
               PROVE  g[R] = Hull(D, U, R)
    OBVIOUS
  <2>1. U \ R = {}
    BY <1>1, FS_EmptySet
  <2>2. Grow(D, R) = R
    BY <2>1, GrowIs
  <2> QED BY <2>2, GrownIs, HullOfGrown
<1>3. ASSUME NEW n \in N PROVE n + 1 \in N
  <2> SUFFICES ASSUME NEW R \in SUBSET U, Cardinality(U \ R) <= n + 1
               PROVE  g[R] = Hull(D, U, R)
    OBVIOUS
  <2>1. CASE Grow(D, R) = R
    BY <2>1, GrownIs, HullOfGrown
  <2>2. CASE Grow(D, R) # R
    <3>1. Grow(D, R) \in SUBSET U /\ R \subseteq Grow(D, R)
      BY GrowIs
    <3>2. U \ Grow(D, R) \subseteq U \ R /\ U \ Grow(D, R) # U \ R
      BY <2>2, <3>1
    <3>3. Cardinality(U \ Grow(D, R)) <= n
      <4>1. /\ Cardinality(U \ Grow(D, R)) <= Cardinality(U \ R)
            /\ Cardinality(U \ Grow(D, R)) # Cardinality(U \ R)
        BY <1>1, <3>2, FS_Subset
      <4>2. n \in Nat /\ Cardinality(U \ R) \in Nat /\ Cardinality(U \ Grow(D, R)) \in Nat
        BY <1>1, <3>1
      <4> HIDE DEF N
      <4> QED BY <4>1, <4>2
    <3>4. g[Grow(D, R)] = Hull(D, U, Grow(D, R))
      BY <3>1, <3>3
    <3> QED BY <2>2, <3>4, GrownIs, HullOfGrown
  <2> QED BY <2>1, <2>2
<1>4. N = Nat
  <2> HIDE DEF N
  <2> QED BY <1>2, <1>3, Induction DEF N
<1>5. Right(Cardinality(U \ S)) /\ Cardinality(U \ S) \in Nat
  BY <1>1, <1>4
<1>6. Cardinality(U \ S) <= Cardinality(U \ S)
  BY <1>5
<1> QED BY <1>5, <1>6

-----------------------------------------------------------------------------
(* Iteration: D applied n times to x.  A recursive function that does this *)
(* up to some number is given its values by it.                            *)
Iterates(U, D, x, f) == f[0] = x /\ \A n \in Nat : f[n + 1] = D[f[n]]
Iterate(U, D, x) == CHOOSE f \in [Nat -> U] : Iterates(U, D, x, f)

LEMMA IterateIs ==
  ASSUME NEW U, NEW D \in [U -> U], NEW x \in U
  PROVE  Iterate(U, D, x) \in [Nat -> U] /\ Iterates(U, D, x, Iterate(U, D, x))
<1> DEFINE Upto(g, m) == /\ g \in [0..m -> U] /\ g[0] = x
                         /\ \A i \in Nat : i < m => g[i + 1] = D[g[i]]
           S == {m \in Nat : \E g : Upto(g, m)}
           last(m) == (CHOOSE g : Upto(g, m))[m]
           f == [m \in Nat |-> last(m)]
<1>1. 0 \in S
  <2> DEFINE g == [i \in 0..0 |-> x]
  <2>1. Upto(g, 0)
    OBVIOUS
  <2> QED BY <2>1
<1>2. ASSUME NEW m \in S PROVE m + 1 \in S
  <2>1. PICK g : Upto(g, m)
    OBVIOUS
  <2> DEFINE h == [i \in 0..(m + 1) |-> IF i = m + 1 THEN D[g[m]] ELSE g[i]]
  <2>2. m \in Nat /\ g[m] \in U /\ D[g[m]] \in U
    BY <2>1
  <2>3. h \in [0..(m + 1) -> U] /\ h[0] = x
    BY <2>1, <2>2
  <2>4. ASSUME NEW i \in Nat, i < m + 1 PROVE h[i + 1] = D[h[i]]
    <3>1. h[i] = g[i]
      BY <2>2, <2>4
    <3>2. CASE i < m
      BY <2>1, <2>2, <3>1, <3>2
    <3>3. CASE i = m
      BY <2>2, <3>1, <3>3
    <3> QED BY <2>2, <2>4, <3>2, <3>3
  <2>5. Upto(h, m + 1)
    BY <2>3, <2>4
  <2> HIDE DEF h, Upto
  <2> QED BY <2>2, <2>5
<1>3. S = Nat
  <2> HIDE DEF S
  <2> QED BY <1>1, <1>2, Induction DEF S
<1>4. ASSUME NEW m \in Nat, NEW k \in Nat, NEW g, NEW h, Upto(g, m), Upto(h, k)
      PROVE  \A i \in Nat : i <= m /\ i <= k => g[i] = h[i]
  <2> DEFINE T == {i \in Nat : i <= m /\ i <= k => g[i] = h[i]}
  <2>1. 0 \in T
    BY <1>4
  <2>2. ASSUME NEW i \in T PROVE i + 1 \in T
    <3> SUFFICES ASSUME i + 1 <= m, i + 1 <= k PROVE g[i + 1] = h[i + 1]
      OBVIOUS
    <3>1. i < m /\ i < k /\ i \in Nat /\ g[i] = h[i]
      OBVIOUS
    <3> QED BY <1>4, <3>1
  <2>3. T = Nat
    <3> HIDE DEF T
    <3> QED BY <2>1, <2>2, Induction DEF T
  <2> QED BY <2>3
<1>5. \A m \in Nat : Upto(CHOOSE g : Upto(g, m), m)
  <2>1. \A m \in Nat : \E g : Upto(g, m)
    BY <1>3
  <2> HIDE DEF Upto
  <2> QED BY <2>1
<1>6. f \in [Nat -> U] /\ f[0] = x
  <2>1. ASSUME NEW m \in Nat PROVE last(m) \in U /\ (m = 0 => last(m) = x)
    <3>1. PICK g : g = CHOOSE c : Upto(c, m)
      OBVIOUS
    <3>2. Upto(g, m)
      <4> HIDE DEF Upto
      <4> QED BY <1>5, <3>1
    <3>3. m \in 0..m
      OBVIOUS
    <3>4. g[m] \in U /\ (m = 0 => g[m] = x)
      BY <3>2, <3>3
    <3> QED BY <3>1, <3>4
  <2> HIDE DEF last
  <2> QED BY <2>1
<1>8. ASSUME NEW n \in Nat PROVE f[n + 1] = D[f[n]]
  <2> DEFINE g == CHOOSE c : Upto(c, n + 1)
             h == CHOOSE c : Upto(c, n)
  <2>1. n + 1 \in Nat
    OBVIOUS
  <2>2. f[n + 1] = g[n + 1] /\ f[n] = h[n]
    <3> HIDE DEF Upto
    <3> QED BY <2>1
  <2>3. Upto(g, n + 1) /\ Upto(h, n)
    <3> HIDE DEF Upto
    <3> QED BY <1>5, <2>1
  <2> HIDE DEF g, h, f
  <2>4. g[n + 1] = D[g[n]]
    BY <2>3
  <2>5. g[n] = h[n]
    <3>1. n <= n + 1 /\ n <= n
      OBVIOUS
    <3> HIDE DEF Upto
    <3> QED BY <1>4, <2>1, <2>3, <3>1
  <2> QED BY <2>2, <2>4, <2>5
<1>9. Iterates(U, D, x, f)
  BY <1>6, <1>8 DEF Iterates
<1> HIDE DEF f
<1> QED BY <1>6, <1>9 DEF Iterate

(* The iterate, cut off at some number, satisfies the recursive equation.  *)
Cut(D, x, N, g) == g = [n \in 0..N |-> IF n = 0 THEN x ELSE D[g[n - 1]]]

LEMMA IterateSatisfies ==
  ASSUME NEW U, NEW D \in [U -> U], NEW x \in U, NEW N \in Nat
  PROVE  Cut(D, x, N, [n \in 0..N |-> Iterate(U, D, x)[n]])
<1> DEFINE f == Iterate(U, D, x)
           g == [n \in 0..N |-> f[n]]
<1>1. Iterates(U, D, x, f)
  BY IterateIs
<1> HIDE DEF f
<1>2. ASSUME NEW n \in 0..N PROVE f[n] = IF n = 0 THEN x ELSE D[g[n - 1]]
  <2>1. CASE n = 0
    BY <1>1, <2>1 DEF Iterates
  <2>2. CASE n # 0
    <3>1. n - 1 \in 0..N /\ n - 1 \in Nat /\ (n - 1) + 1 = n
      BY <2>2
    <3>2. f[n] = D[f[n - 1]] /\ g[n - 1] = f[n - 1]
      BY <1>1, <3>1 DEF Iterates
    <3> QED BY <2>2, <3>2
  <2> QED BY <2>1, <2>2
<1>3. g = [n \in 0..N |-> IF n = 0 THEN x ELSE D[g[n - 1]]]
  BY <1>2
<1> HIDE DEF g
<1>4. Cut(D, x, N, g)
  BY <1>3 DEF Cut
<1> QED BY <1>4 DEF f, g

(* And nothing else does.                                                  *)
LEMMA IterateOnly ==
  ASSUME NEW U, NEW D \in [U -> U], NEW x \in U, NEW N \in Nat, NEW g, Cut(D, x, N, g)
  PROVE  \A n \in 0..N : g[n] = Iterate(U, D, x)[n]
<1> DEFINE f == Iterate(U, D, x)
           F(c) == [n \in 0..N |-> IF n = 0 THEN x ELSE D[c[n - 1]]]
           S == {n \in Nat : n <= N => g[n] = f[n]}
<1>1. Iterates(U, D, x, f)
  BY IterateIs
<1>2. /\ F(g)[0] = x
      /\ \A n \in Nat : n + 1 <= N => F(g)[n + 1] = D[g[n]]
  OBVIOUS
<1> HIDE DEF f
<1>3. g = F(g)
  BY DEF Cut
<1> HIDE DEF F
<1>4. 0 \in S
  BY <1>1, <1>2, <1>3 DEF Iterates
<1>5. ASSUME NEW n \in S PROVE n + 1 \in S
  <2> SUFFICES ASSUME n + 1 <= N PROVE g[n + 1] = f[n + 1]
    OBVIOUS
  <2>1. n \in Nat /\ g[n] = f[n]
    OBVIOUS
  <2> QED BY <1>1, <1>2, <1>3, <2>1 DEF Iterates
<1>6. S = Nat
  <2> HIDE DEF S
  <2> QED BY <1>4, <1>5, Induction DEF S
<1>7. \A n \in 0..N : g[n] = f[n]
  BY <1>6
<1> QED BY <1>7 DEF f

(* So the function that the equation defines is the iterate.               *)
LEMMA IterateChosen ==
  ASSUME NEW U, NEW D \in [U -> U], NEW x \in U, NEW N \in Nat
  PROVE  \A n \in 0..N : (CHOOSE g : Cut(D, x, N, g))[n] = Iterate(U, D, x)[n]
<1>1. \E g : Cut(D, x, N, g)
  BY IterateSatisfies
<1>2. Cut(D, x, N, CHOOSE g : Cut(D, x, N, g))
  BY <1>1
<1> QED BY <1>2, IterateOnly

(* Iteration from the second element is iteration one step on.             *)
LEMMA IterateShift ==
  ASSUME NEW U, NEW D \in [U -> U], NEW x \in U
  PROVE  \A n \in Nat : Iterate(U, D, D[x])[n] = Iterate(U, D, x)[n + 1]
<1> DEFINE f == Iterate(U, D, x)
           g == Iterate(U, D, D[x])
           S == {n \in Nat : g[n] = f[n + 1]}
<1>1. Iterates(U, D, x, f) /\ Iterates(U, D, D[x], g)
  BY IterateIs
<1> HIDE DEF f, g
<1>2. 0 \in S
  BY <1>1 DEF Iterates
<1>3. ASSUME NEW n \in S PROVE n + 1 \in S
  BY <1>1, <1>3 DEF Iterates
<1>4. S = Nat
  <2> HIDE DEF S
  <2> QED BY <1>2, <1>3, Induction DEF S
<1> QED BY <1>4 DEF f, g

(* What is the same before and after each step is the same throughout.     *)
LEMMA IterateKeeps ==
  ASSUME NEW U, NEW D \in [U -> U], NEW x \in U, NEW f, \A y \in U : f[D[y]] = f[y]
  PROVE  \A n \in Nat : f[Iterate(U, D, x)[n]] = f[x]
<1> DEFINE g == Iterate(U, D, x)
           S == {n \in Nat : f[g[n]] = f[x]}
<1>1. Iterates(U, D, x, g) /\ g \in [Nat -> U]
  BY IterateIs
<1> HIDE DEF g
<1>2. 0 \in S
  BY <1>1 DEF Iterates
<1>3. ASSUME NEW n \in S PROVE n + 1 \in S
  BY <1>1, <1>3 DEF Iterates
<1>4. S = Nat
  <2> HIDE DEF S
  <2> QED BY <1>2, <1>3, Induction DEF S
<1> QED BY <1>4 DEF g

(* Once at a fixed point, always there.                                    *)
LEMMA IterateRests ==
  ASSUME NEW U, NEW D \in [U -> U], NEW x \in U, NEW m \in Nat,
         D[Iterate(U, D, x)[m]] = Iterate(U, D, x)[m]
  PROVE  \A n \in Nat : n >= m => Iterate(U, D, x)[n] = Iterate(U, D, x)[m]
<1> DEFINE g == Iterate(U, D, x)
           S == {n \in Nat : g[m + n] = g[m]}
<1>1. Iterates(U, D, x, g) /\ g \in [Nat -> U]
  BY IterateIs
<1> HIDE DEF g
<1>2. 0 \in S
  OBVIOUS
<1>3. ASSUME NEW n \in S PROVE n + 1 \in S
  <2>1. m + n \in Nat /\ m + (n + 1) = (m + n) + 1 /\ n + 1 \in Nat
    OBVIOUS
  <2>2. D[g[m]] = g[m]
    BY DEF g
  <2> QED BY <1>1, <1>3, <2>1, <2>2 DEF Iterates
<1>4. S = Nat
  <2> HIDE DEF S
  <2> QED BY <1>2, <1>3, Induction DEF S
<1>5. ASSUME NEW n \in Nat, n >= m PROVE g[n] = g[m]
  <2>1. n - m \in Nat /\ m + (n - m) = n
    BY <1>5
  <2> QED BY <1>4, <2>1
<1> QED BY <1>5 DEF g

(* Over a finite set in which every cycle is a fixed point, iteration      *)
(* comes to rest within as many steps as the set has members.              *)
Settles(U, D) ==
  \A S \in SUBSET U : S # {} /\ (\A x \in S : D[x] \in S) => \E x \in S : D[x] = x

LEMMA IterateSettles ==
  ASSUME NEW U, IsFiniteSet(U), NEW D \in [U -> U], Settles(U, D), NEW x \in U
  PROVE  LET y == Iterate(U, D, x)[Cardinality(U)] IN y \in U /\ D[y] = y
<1> DEFINE g == Iterate(U, D, x)
           N == Cardinality(U)
<1>1. Iterates(U, D, x, g) /\ g \in [Nat -> U] /\ N \in Nat
  BY IterateIs, FS_CardinalityType
<1> HIDE DEF g, N
<1>2. SUFFICES \E m \in 0..N : D[g[m]] = g[m]
  <2>1. PICK m \in 0..N : D[g[m]] = g[m]
    BY <1>2
  <2>2. m \in Nat /\ N >= m
    BY <1>1, <2>1
  <2>3. g[N] = g[m]
    BY <1>1, <2>1, <2>2, IterateRests DEF g
  <2> QED BY <1>1, <2>1, <2>2, <2>3 DEF g, N
<1>3. PICK i \in 0..N, j \in 0..N : i # j /\ g[i] = g[j]
  <2> DEFINE I == 0..N
             h == [n \in I |-> g[n]]
  <2>1. IsFiniteSet(I) /\ Cardinality(I) = N + 1
    BY <1>1, FS_Interval
  <2>2. h \in [I -> U]
    BY <1>1
  <2>3. Cardinality(U) < Cardinality(I)
    BY <1>1, <2>1 DEF N
  <2> HIDE DEF I, h
  <2>4. PICK i \in I, j \in I : i # j /\ h[i] = h[j]
    BY <2>1, <2>2, <2>3, FS_PigeonHole
  <2> QED BY <2>4 DEF I, h
<1>4. \E k \in 0..N, l \in 0..N : k < l /\ g[k] = g[l]
  BY <1>1, <1>3
<1>5. PICK k \in 0..N, l \in 0..N : k < l /\ g[k] = g[l]
  BY <1>4
<1> DEFINE S == {g[n] : n \in k..(l - 1)}
<1>6. S \in SUBSET U /\ g[k] \in S
  BY <1>1, <1>5
<1>7. ASSUME NEW y \in S PROVE D[y] \in S
  <2>1. PICK n \in k..(l - 1) : y = g[n]
    OBVIOUS
  <2>2. n \in Nat /\ D[y] = g[n + 1]
    BY <1>1, <2>1 DEF Iterates
  <2>3. CASE n = l - 1
    <3>1. D[y] = g[k] /\ k \in k..(l - 1)
      BY <1>1, <1>5, <2>2, <2>3
    <3> QED BY <3>1
  <2>4. CASE n # l - 1
    <3>1. n + 1 \in k..(l - 1)
      BY <1>1, <1>5, <2>1, <2>4
    <3> QED BY <2>2, <3>1
  <2> QED BY <2>3, <2>4
<1>8. PICK y \in S : D[y] = y
  <2> HIDE DEF S
  <2> QED BY <1>6, <1>7 DEF Settles
<1> QED BY <1>1, <1>5, <1>8
=============================================================================
