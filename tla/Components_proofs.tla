--------------------------- MODULE Components_proofs ---------------------------
(***************************************************************************)
(* That what `Components` computes by recursion, in as many rounds as the  *)
(* set has elements, are the connected components: least sets that no link *)
(* leaves, which part the set.                                             *)
(***************************************************************************)
EXTENDS Components, Integers, FiniteSetTheorems, WellFoundedInduction, TLAPS

(* Induction, stated with a set in place of a predicate.                   *)
LEMMA Induction ==
  ASSUME NEW T, 0 \in T, \A n \in Nat : n \in T => n + 1 \in T
  PROVE  Nat \subseteq T
  <1> DEFINE R == {e \in Nat \X Nat : e[1] < e[2]}
             F == Nat \ T
  <1>1. SUFFICES ASSUME F # {} PROVE FALSE
    OBVIOUS
  <1>2. IsWellFoundedOn(R, Nat)
    BY NatLessThanWellFounded DEF OpToRel
  <1> HIDE DEF R
  <1>3. PICK n \in F : \A m \in F : ~ (<<m, n>> \in R)
    BY <1>1, <1>2, WFMin
  <1>4. n # 0 /\ n - 1 \in Nat
    BY <1>3
  <1>5. <<n - 1, n>> \in R
    BY <1>4 DEF R
  <1>6. n - 1 \in T
    BY <1>3, <1>4, <1>5
  <1>7. QED
    BY <1>3, <1>4, <1>6

(* A set of numbers has a least element.                                   *)
LEMMA Least ==
  ASSUME NEW S \in SUBSET Nat, S # {}
  PROVE  \E m \in S : \A s \in S : m <= s
  <1> DEFINE T == {n \in Nat : \A s \in S : n <= s}
  <1>1. SUFFICES ASSUME \A m \in S : \E s \in S : ~ (m <= s)
                 PROVE  FALSE
    OBVIOUS
  <1>2. 0 \in T
    OBVIOUS
  <1>3. ASSUME NEW n \in Nat, n \in T
        PROVE  n + 1 \in T
    <2>1. n \notin S
      BY <1>1, <1>3
    <2>2. \A s \in S : s \in Nat /\ n <= s /\ s # n
      BY <1>3, <2>1
    <2>3. QED
      BY <2>2
  <1> HIDE DEF T
  <1>4. Nat \subseteq T
    BY <1>2, <1>3, Induction
  <1>5. PICK s : s \in S
    OBVIOUS
  <1>6. s \in Nat /\ s + 1 \in T
    BY <1>4, <1>5
  <1>7. QED
    BY <1>5, <1>6 DEF T

(* A bounded set of numbers has a greatest element.                        *)
LEMMA Greatest ==
  ASSUME NEW S \in SUBSET Nat, S # {}, NEW b \in Nat, \A s \in S : s <= b
  PROVE  \E m \in S : \A s \in S : s <= m
  <1>1. SUFFICES ASSUME \A m \in S : \E s \in S : ~ (s <= m)
                 PROVE  FALSE
    OBVIOUS
  <1> DEFINE T == {n \in Nat : \E s \in S : n <= s}
  <1>2. 0 \in T
    <2>1. PICK s : s \in S
      OBVIOUS
    <2>2. s \in Nat /\ 0 <= s
      BY <2>1
    <2>3. QED
      BY <2>1, <2>2
  <1>3. ASSUME NEW n \in Nat, n \in T
        PROVE  n + 1 \in T
    <2>1. PICK m \in S : n <= m
      BY <1>3
    <2>2. PICK s \in S : ~ (s <= m)
      BY <1>1
    <2>3. n + 1 <= s
      BY <2>1, <2>2
    <2>4. QED
      BY <2>3
  <1> HIDE DEF T
  <1>4. b + 1 \in T
    BY <1>2, <1>3, Induction
  <1>5. QED
    BY <1>4 DEF T

(* The rounds of the search from x.                                        *)
Rounds(S, near, x, k) ==
  {w \in [0 .. k -> SUBSET S] :
     w[0] = {x} /\ \A n \in 1 .. k : w[n] = Spread(near, w[n - 1])}

LEMMA SpreadIn ==
  ASSUME NEW S, NEW near \in [S -> SUBSET S], NEW A \in SUBSET S
  PROVE  Spread(near, A) \in SUBSET S /\ A \subseteq Spread(near, A)
  <1>1. \A z \in Spread(near, A) : z \in S
    BY DEF Spread
  <1>2. \A y \in A : y \in Spread(near, A)
    BY DEF Spread
  <1>3. QED
    BY <1>1, <1>2

LEMMA RoundsExist ==
  ASSUME NEW S, NEW near \in [S -> SUBSET S], NEW x \in S, NEW k \in Nat
  PROVE  Rounds(S, near, x, k) # {}
  <1> DEFINE T == {n \in Nat : Rounds(S, near, x, n) # {}}
  <1>1. 0 \in T
    <2>1. [n \in 0 .. 0 |-> {x}] \in Rounds(S, near, x, 0)
      BY DEF Rounds
    <2>2. QED
      BY <2>1
  <1>2. ASSUME NEW n \in Nat, n \in T
        PROVE  n + 1 \in T
    <2>1. PICK w : w \in Rounds(S, near, x, n)
      BY <1>2
    <2> DEFINE v == [i \in 0 .. n + 1 |-> IF i = n + 1 THEN Spread(near, w[n]) ELSE w[i]]
    <2>2. \A i \in 0 .. n : v[i] = w[i] /\ w[i] \in SUBSET S
      BY <2>1 DEF Rounds
    <2>3. v[n + 1] = Spread(near, w[n]) /\ v[n + 1] \in SUBSET S
      <3>1. w[n] \in SUBSET S
        BY <2>1 DEF Rounds
      <3>2. Spread(near, w[n]) \in SUBSET S
        BY <3>1, SpreadIn
      <3>3. v[n + 1] = Spread(near, w[n])
        OBVIOUS
      <3> HIDE DEF v
      <3>4. QED
        BY <3>2, <3>3
    <2>4. v \in [0 .. n + 1 -> SUBSET S]
      <3>1. \A i \in 0 .. n + 1 : v[i] \in SUBSET S
        <4>1. \A i \in 0 .. n + 1 : i \in 0 .. n \/ i = n + 1
          OBVIOUS
        <4> HIDE DEF v
        <4>2. QED
          BY <2>2, <2>3, <4>1
      <3>2. QED
        BY <3>1
    <2> HIDE DEF v
    <2>5. v[0] = {x}
      BY <2>1, <2>2 DEF Rounds
    <2>6. ASSUME NEW i \in 1 .. n + 1
          PROVE  v[i] = Spread(near, v[i - 1])
      <3>1. CASE i = n + 1
        BY <2>2, <2>3, <3>1
      <3>2. CASE i # n + 1
        <4>1. i \in 1 .. n /\ i \in 0 .. n /\ i - 1 \in 0 .. n
          BY <3>2
        <4>2. QED
          BY <2>1, <2>2, <4>1 DEF Rounds
      <3>3. QED
        BY <3>1, <3>2
    <2>7. v \in Rounds(S, near, x, n + 1)
      BY <2>4, <2>5, <2>6 DEF Rounds
    <2>8. QED
      BY <2>7
  <1> HIDE DEF T
  <1>3. Nat \subseteq T
    BY <1>1, <1>2, Induction
  <1>4. QED
    BY <1>3 DEF T

LEMMA ReachIsLastRound ==
  ASSUME NEW S, IsFiniteSet(S), NEW near \in [S -> SUBSET S], NEW x \in S
  PROVE  \E w \in Rounds(S, near, x, Cardinality(S)) : Reach(S, near, x) = w[Cardinality(S)]
  <1> DEFINE k == Cardinality(S)
             Recursion(w) == w = [n \in 0 .. k |-> IF n = 0 THEN {x} ELSE Spread(near, w[n - 1])]
             within == CHOOSE w : Recursion(w)
  <1>1. k \in Nat
    BY FS_CardinalityType
  <1>2. Reach(S, near, x) = within[k]
    BY DEF Reach
  <1>3. PICK w : w \in Rounds(S, near, x, k)
    BY <1>1, RoundsExist
  <1> HIDE DEF k
  <1>4. Recursion(w)
    <2>1. \A n \in 0 .. k : w[n] = IF n = 0 THEN {x} ELSE Spread(near, w[n - 1])
      BY <1>1, <1>3 DEF Rounds
    <2>2. w = [n \in 0 .. k |-> w[n]]
      BY <1>3 DEF Rounds
    <2>3. QED
      BY <2>1, <2>2
  <1>5. Recursion(within)
    <2> HIDE DEF Recursion
    <2>1. QED
      BY <1>4
  <1>6. within = w
    <2> HIDE DEF within
    <2> DEFINE T == {n \in Nat : n \in 0 .. k => within[n] = w[n]}
    <2>1. \A n \in 0 .. k : within[n] = IF n = 0 THEN {x} ELSE Spread(near, within[n - 1])
      BY <1>5
    <2>2. \A n \in 0 .. k : w[n] = IF n = 0 THEN {x} ELSE Spread(near, w[n - 1])
      BY <1>4
    <2>3. 0 \in T
      BY <1>1, <2>1, <2>2
    <2>4. ASSUME NEW n \in Nat, n \in T
          PROVE  n + 1 \in T
      <3>1. n + 1 \in 0 .. k => n \in 0 .. k /\ n + 1 # 0 /\ (n + 1) - 1 = n
        BY <1>1
      <3>2. n + 1 \in 0 .. k => within[n + 1] = Spread(near, within[n])
        BY <2>1, <3>1
      <3>3. n + 1 \in 0 .. k => w[n + 1] = Spread(near, w[n])
        BY <2>2, <3>1
      <3>4. QED
        BY <2>4, <3>1, <3>2, <3>3
    <2> HIDE DEF T
    <2>5. Nat \subseteq T
      BY <2>3, <2>4, Induction
    <2>6. \A n \in 0 .. k : within[n] = w[n]
      BY <1>1, <2>5 DEF T
    <2>7. QED
      BY <1>4, <1>5, <2>6
  <1>7. QED
    BY <1>2, <1>3, <1>6 DEF k

(* After as many rounds as there are elements another one finds nothing.   *)
LEMMA NothingAfterLast ==
  ASSUME NEW S, IsFiniteSet(S), NEW near \in [S -> SUBSET S], NEW x \in S, NEW w \in Rounds(S, near, x, Cardinality(S))
  PROVE  Spread(near, w[Cardinality(S)]) = w[Cardinality(S)]
  <1> DEFINE k == Cardinality(S)
  <1>1. k \in Nat
    BY FS_CardinalityType
  <1>2. \A A \in SUBSET S : IsFiniteSet(A) /\ Cardinality(A) \in Nat /\ Cardinality(A) <= k
    BY FS_Subset, FS_CardinalityType
  <1>3. \A A, B \in SUBSET S : A \subseteq B /\ A # B => Cardinality(A) < Cardinality(B)
    <2>1. TAKE A, B \in SUBSET S
    <2>2. HAVE A \subseteq B /\ A # B
    <2>3. Cardinality(A) <= Cardinality(B) /\ (Cardinality(A) = Cardinality(B) => A = B)
      BY <1>2, <2>2, FS_Subset
    <2>4. QED
      BY <1>2, <2>2, <2>3
  <1> HIDE DEF k
  <1>4. /\ w[0] = {x} /\ \A n \in 0 .. k : w[n] \in SUBSET S
        /\ \A n \in Nat : n + 1 \in 0 .. k => n \in 0 .. k /\ w[n + 1] = Spread(near, w[n])
    <2>1. w \in [0 .. k -> SUBSET S] /\ w[0] = {x} /\ \A n \in 1 .. k : w[n] = Spread(near, w[n - 1])
      BY DEF Rounds, k
    <2>2. \A n \in Nat : n + 1 \in 0 .. k => n \in 0 .. k /\ n + 1 \in 1 .. k /\ (n + 1) - 1 = n
      BY <1>1
    <2>3. \A n \in Nat : n + 1 \in 0 .. k => w[n + 1] = Spread(near, w[n])
      <3>1. TAKE n \in Nat
      <3>2. HAVE n + 1 \in 0 .. k
      <3>3. w[n + 1] = Spread(near, w[(n + 1) - 1])
        BY <2>1, <2>2, <3>2
      <3>4. QED
        BY <2>2, <3>2, <3>3
    <2>4. QED
      BY <2>1, <2>2, <2>3
  <1>5. SUFFICES ASSUME Spread(near, w[k]) # w[k] PROVE FALSE
    BY DEF k
  (* A round that finds nothing is the last that could have found anything.  *)
  <1>6. ASSUME NEW n \in Nat, n + 1 \in 0 .. k
        PROVE  w[n + 1] # w[n]
    <2>1. SUFFICES ASSUME w[n + 1] = w[n] PROVE FALSE
      OBVIOUS
    <2>2. Spread(near, w[n]) = w[n]
      BY <1>4, <1>6, <2>1
    <2> DEFINE T == {d \in Nat : n + d \in 0 .. k => w[n + d] = w[n]}
    <2>3. 0 \in T
      <3>1. n + 0 = n
        OBVIOUS
      <3>2. QED
        BY <3>1
    <2>4. ASSUME NEW d \in Nat, d \in T
          PROVE  d + 1 \in T
      <3>1. n + (d + 1) = (n + d) + 1 /\ n + d \in Nat
        OBVIOUS
      <3>2. (n + d) + 1 \in 0 .. k => w[(n + d) + 1] = Spread(near, w[n + d]) /\ n + d \in 0 .. k
        BY <1>4, <3>1
      <3>3. QED
        BY <2>2, <2>4, <3>1, <3>2
    <2> HIDE DEF T
    <2>5. Nat \subseteq T
      BY <2>3, <2>4, Induction
    <2>6. k - n \in Nat /\ n + (k - n) = k /\ k \in 0 .. k
      BY <1>1, <1>6
    <2>7. w[k] = w[n]
      <3>1. k - n \in T
        BY <2>5, <2>6
      <3>2. n + (k - n) \in 0 .. k => w[n + (k - n)] = w[n]
        BY <3>1 DEF T
      <3>3. QED
        BY <2>6, <3>2
    <2>8. QED
      BY <1>5, <2>2, <2>7
  <1> DEFINE U == {n \in Nat : n \in 0 .. k => n < Cardinality(w[n])}
  <1>7. 0 \in U
    <2>1. Cardinality(w[0]) # 0 /\ Cardinality(w[0]) \in Nat
      BY <1>2, <1>4, FS_EmptySet
    <2>2. QED
      BY <2>1
  <1>8. ASSUME NEW n \in Nat, n \in U
        PROVE  n + 1 \in U
    <2>1. SUFFICES ASSUME n + 1 \in 0 .. k PROVE n + 1 < Cardinality(w[n + 1])
      OBVIOUS
    <2>2. n \in 0 .. k /\ w[n] \in SUBSET S /\ w[n + 1] \in SUBSET S /\ w[n + 1] = Spread(near, w[n])
      BY <1>4, <2>1
    <2>3. w[n] \subseteq w[n + 1] /\ w[n + 1] # w[n]
      BY <1>6, <2>1, <2>2, SpreadIn
    <2>4. Cardinality(w[n]) < Cardinality(w[n + 1])
      BY <1>3, <2>2, <2>3
    <2>5. n < Cardinality(w[n])
      BY <1>8, <2>2
    <2>6. QED
      BY <1>2, <2>2, <2>4, <2>5
  <1> HIDE DEF U
  <1>9. Nat \subseteq U
    BY <1>7, <1>8, Induction
  <1>10. k < Cardinality(w[k]) /\ w[k] \in SUBSET S
    BY <1>1, <1>4, <1>9 DEF U
  <1>11. QED
    BY <1>1, <1>2, <1>10

(* A set that no link leaves.                                              *)
Sealed(near, C) == \A y \in C : near[y] \subseteq C

(* What is reached from x is the least set with x that no link leaves.     *)
LEMMA ReachIsLeast ==
  ASSUME NEW S, IsFiniteSet(S), NEW near \in [S -> SUBSET S], NEW x \in S
  PROVE  /\ Reach(S, near, x) \in SUBSET S /\ x \in Reach(S, near, x)
         /\ Sealed(near, Reach(S, near, x))
         /\ \A C : x \in C /\ Sealed(near, C) => Reach(S, near, x) \subseteq C
  <1> DEFINE k == Cardinality(S)
  <1>1. k \in Nat
    BY FS_CardinalityType
  <1>2. PICK w \in Rounds(S, near, x, k) : Reach(S, near, x) = w[k]
    BY ReachIsLastRound
  <1>3. Spread(near, w[k]) = w[k]
    BY NothingAfterLast
  <1> HIDE DEF k
  <1>4. w \in [0 .. k -> SUBSET S] /\ w[0] = {x} /\ \A n \in 1 .. k : w[n] = Spread(near, w[n - 1])
    BY <1>2 DEF Rounds
  <1>5. w[k] \in SUBSET S
    BY <1>1, <1>4
  <1>6. ASSUME NEW C
        PROVE  x \in C /\ Sealed(near, C) => w[k] \subseteq C
    <2>1. HAVE x \in C /\ Sealed(near, C)
    <2> DEFINE T == {n \in Nat : n \in 0 .. k => w[n] \subseteq C}
    <2>2. 0 \in T
      BY <1>4, <2>1
    <2>3. ASSUME NEW n \in Nat, n \in T
          PROVE  n + 1 \in T
      <3>1. n + 1 \in 0 .. k => n \in 0 .. k /\ n + 1 \in 1 .. k /\ (n + 1) - 1 = n
        BY <1>1
      <3>2. n + 1 \in 0 .. k => w[n + 1] = Spread(near, w[n])
        BY <1>4, <3>1
      <3>3. \A A : A \subseteq C => Spread(near, A) \subseteq C
        BY <2>1 DEF Sealed, Spread
      <3>4. QED
        BY <2>3, <3>1, <3>2, <3>3
    <2> HIDE DEF T
    <2>4. Nat \subseteq T
      BY <2>2, <2>3, Induction
    <2>5. QED
      BY <1>1, <2>4 DEF T
  <1>7. x \in w[k]
    <2> DEFINE T == {n \in Nat : n \in 0 .. k => x \in w[n]}
    <2>1. 0 \in T
      BY <1>4
    <2>2. ASSUME NEW n \in Nat, n \in T
          PROVE  n + 1 \in T
      <3>1. n + 1 \in 0 .. k => n \in 0 .. k /\ n + 1 \in 1 .. k /\ (n + 1) - 1 = n
        BY <1>1
      <3>2. n + 1 \in 0 .. k => w[n + 1] = Spread(near, w[n]) /\ w[n] \in SUBSET S
        BY <1>4, <3>1
      <3>3. QED
        BY <2>2, <3>1, <3>2, SpreadIn
    <2> HIDE DEF T
    <2>3. Nat \subseteq T
      BY <2>1, <2>2, Induction
    <2>4. QED
      BY <1>1, <2>3 DEF T
  <1>8. Sealed(near, w[k])
    <2>1. \A y \in w[k] : near[y] \subseteq Spread(near, w[k])
      BY DEF Spread
    <2>2. QED
      BY <1>3, <2>1 DEF Sealed
  <1>9. QED
    BY <1>2, <1>5, <1>6, <1>7, <1>8

(* With links both ways the components part the set: what is reached from  *)
(* any element of a component is that component.                           *)
Symmetric(near) == \A y \in DOMAIN near : \A z \in near[y] : y \in near[z]

LEMMA ReachIsMutual ==
  ASSUME NEW S, IsFiniteSet(S), NEW near \in [S -> SUBSET S], Symmetric(near),
         NEW x \in S, NEW y \in Reach(S, near, x)
  PROVE  Reach(S, near, y) = Reach(S, near, x)
  <1> DEFINE R == Reach(S, near, x)
             Q == Reach(S, near, y)
  <1>1. R \in SUBSET S /\ x \in R /\ Sealed(near, R) /\ \A C : x \in C /\ Sealed(near, C) => R \subseteq C
    BY ReachIsLeast
  <1>2. y \in S
    BY <1>1
  <1>3. Q \in SUBSET S /\ y \in Q /\ Sealed(near, Q) /\ \A C : y \in C /\ Sealed(near, C) => Q \subseteq C
    BY <1>2, ReachIsLeast
  <1>4. y \in R
    OBVIOUS
  <1> HIDE DEF R, Q
  <1>5. Q \subseteq R
    BY <1>1, <1>3, <1>4
  <1>6. Sealed(near, R \ Q)
    BY <1>1, <1>3 DEF Sealed, Symmetric
  <1>7. x \in Q
    BY <1>1, <1>3, <1>4, <1>6
  <1>8. R \subseteq Q
    BY <1>1, <1>3, <1>7
  <1>9. QED
    BY <1>5, <1>8 DEF R, Q

(* Sets whose elements correspond one to one are of one size.              *)
LEMMA SameSize ==
  ASSUME NEW S, IsFiniteSet(S), NEW T, NEW f \in [S -> T],
         \A x, y \in S : f[x] = f[y] => x = y, \A z \in T : \E x \in S : f[x] = z
  PROVE  IsFiniteSet(T) /\ Cardinality(T) = Cardinality(S)
  <1>1. f \in Bijection(S, T)
    BY DEF Bijection, Injection, Surjection, IsInjective
  <1>2. ExistsBijection(S, T)
    BY <1>1 DEF ExistsBijection
  <1>3. QED
    BY <1>2, FS_Bijection

(* The images of finitely many elements are finitely many.                 *)
LEMMA Image ==
  ASSUME NEW S, IsFiniteSet(S), NEW f
  PROVE  IsFiniteSet({f[x] : x \in S})
  <1> DEFINE g == [x \in S |-> f[x]]
             T == {f[x] : x \in S}
  <1>1. g \in Surjection(S, T)
    BY DEF Surjection
  <1> HIDE DEF g, T
  <1>2. IsFiniteSet(T)
    BY <1>1, FS_Surjection
  <1>3. QED
    BY <1>2 DEF T
================================================================================
