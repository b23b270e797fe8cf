---------------------------- MODULE Bindings_proofs ----------------------------
(***************************************************************************)
(* For every caller, document, integer range and number of instances: an   *)
(* instance written and read again is the one it was, nothing is read as   *)
(* less than it says, attributes stay with their instances, and            *)
(* normalizing keeps the value of settings.  Members are in one strict     *)
(* order, which is also what Python finds out through whichever class is   *)
(* asked, so nets are compared by what they connect and nothing else.      *)
(*                                                                         *)
(* The second half is about the schema, which the bindings package:        *)
(* circuits stay well formed through documents and wires, the wire keeps a *)
(* document exactly, and conversions keep what is connected.               *)
(***************************************************************************)
EXTENDS Bindings, Schema, SequenceTheorems, Components_proofs

(* The number of fields of a member.                                       *)
Width(m) == <<2, 3, 5>>[m[1] + 1]
--------------------------------------------------------------------------------

LEMMA IsSequence ==
  ASSUME NEW S, NEW N \in Nat, NEW s, s = [p \in 1 .. N |-> s[p]], \A p \in 1 .. N : s[p] \in S
  PROVE  s \in Seq(S) /\ Len(s) = N
  <1> DEFINE t == [p \in 1 .. N |-> s[p]]
  <1>1. t \in [1 .. N -> S]
    OBVIOUS
  <1> HIDE DEF t
  <1>2. t \in Seq(S) /\ Len(t) = N
    BY <1>1
  <1>3. s = t
    BY DEF t
  <1>4. QED
    BY <1>2, <1>3

Runs(V, base, step, k) ==
  {f \in [0 .. k -> V] : f[0] = base /\ \A n \in 1 .. k : f[n] = step[<<n, f[n - 1]>>]}
LEMMA Recurrence ==
  ASSUME NEW V, NEW base \in V, NEW step \in [Nat \X V -> V], NEW k \in Nat
  PROVE  Runs(V, base, step, k) # {}
  <1> DEFINE T == {m \in Nat : Runs(V, base, step, m) # {}}
  <1>1. 0 \in T
    <2>1. [n \in 0 .. 0 |-> base] \in Runs(V, base, step, 0)
      BY DEF Runs
    <2>2. QED
      BY <2>1
  <1>2. ASSUME NEW m \in Nat, m \in T
        PROVE  m + 1 \in T
    <2>1. PICK f \in [0 .. m -> V] : f[0] = base /\ \A n \in 1 .. m : f[n] = step[<<n, f[n - 1]>>]
      BY <1>2 DEF Runs
    <2> DEFINE v == step[<<m + 1, f[m]>>]
               g == [i \in 0 .. m + 1 |-> IF i = m + 1 THEN v ELSE f[i]]
    <2>2. v \in V
      BY <2>1
    <2> HIDE DEF v
    <2>3. \A i \in 0 .. m : g[i] = f[i] /\ f[i] \in V
      BY <2>1
    <2>4. g[m + 1] = v
      OBVIOUS
    <2>5. g \in [0 .. m + 1 -> V]
      BY <2>1, <2>2
    <2> HIDE DEF g
    <2>6. ASSUME NEW i \in 1 .. m + 1 PROVE g[i] = step[<<i, g[i - 1]>>]
      <3>1. CASE i = m + 1
        <4>1. g[i - 1] = f[m]
          BY <2>3, <3>1
        <4>2. QED
          BY <2>4, <3>1, <4>1 DEF v
      <3>2. CASE i # m + 1
        <4>1. i \in 1 .. m /\ i \in 0 .. m /\ i - 1 \in 0 .. m
          BY <3>2
        <4>2. QED
          BY <2>1, <2>3, <4>1
      <3>3. QED
        BY <3>1, <3>2
    <2>7. g[0] = base
      BY <2>1, <2>3
    <2>8. g \in Runs(V, base, step, m + 1)
      BY <2>5, <2>6, <2>7 DEF Runs
    <2>9. QED
      BY <2>8
  <1> HIDE DEF T
  <1>3. Nat \subseteq T
    BY <1>1, <1>2, Induction
  <1>4. QED
    BY <1>3 DEF T

LEMMA Onto ==
  ASSUME NEW S, IsFiniteSet(S), NEW f \in [S -> 1 .. Cardinality(S)],
         \A x, y \in S : f[x] = f[y] => x = y
  PROVE  \A p \in 1 .. Cardinality(S) : \E x \in S : f[x] = p
  <1>1. Cardinality(S) \in Nat
    BY FS_CardinalityType
  <1>2. IsFiniteSet(1 .. Cardinality(S)) /\ Cardinality(1 .. Cardinality(S)) = Cardinality(S)
    BY <1>1, FS_Interval
  <1>3. ASSUME NEW p \in 1 .. Cardinality(S), \A x \in S : f[x] # p
        PROVE  FALSE
    <2> DEFINE T == (1 .. Cardinality(S)) \ {p}
    <2>1. IsFiniteSet(T) /\ Cardinality(T) < Cardinality(S)
      <3>1. IsFiniteSet(T) /\ Cardinality(T) = Cardinality(1 .. Cardinality(S)) - 1
        BY <1>2, FS_RemoveElement
      <3>2. QED
        BY <1>1, <1>2, <3>1
    <2>2. f \in [S -> T]
      BY <1>3
    <2> HIDE DEF T
    <2>3. \E x, y \in S : x # y /\ f[x] = f[y]
      BY <2>1, <2>2, FS_PigeonHole
    <2>4. QED
      BY <2>3
  <1>4. QED
    BY <1>3

LEMMA PlacesTaken ==
  ASSUME NEW list, NEW I, IsFiniteSet(I), NEW before, DOMAIN before = I,
         NEW f \in [I -> 1 .. Cardinality(I)], \A i, j \in I : f[i] = f[j] => i = j,
         \A i \in I : Cardinality(before[i]) = f[i] - 1
  PROVE  /\ Arranged(list, before) = [p \in 1 .. Cardinality(I) |-> Arranged(list, before)[p]]
         /\ \A i \in I : Arranged(list, before)[f[i]] = list[i]
         /\ \A p \in 1 .. Cardinality(I) : \E i \in I : f[i] = p
  <1>1. \A p \in 1 .. Cardinality(I) : \E i \in I : f[i] = p
    BY Onto
  <1>2. Arranged(list, before) =
           [p \in 1 .. Cardinality(I) |-> list[CHOOSE i \in I : Cardinality(before[i]) = p - 1]]
    BY DEF Arranged
  <1>3. ASSUME NEW i \in I PROVE Arranged(list, before)[f[i]] = list[i]
    <2>1. \A j \in I : Cardinality(before[j]) = f[i] - 1 => j = i
      BY FS_CardinalityType
    <2>2. (CHOOSE j \in I : Cardinality(before[j]) = f[i] - 1) = i
      BY <2>1
    <2>3. f[i] \in 1 .. Cardinality(I)
      OBVIOUS
    <2>4. QED
      BY <1>2, <2>2, <2>3
  <1>4. QED
    BY <1>1, <1>2, <1>3

Linear(I, before) ==
  /\ before \in [I -> SUBSET I]
  /\ \A i \in I : i \notin before[i]
  /\ \A i, j \in I : i # j => \/ i \in before[j] /\ before[i] \subseteq before[j]
                              \/ j \in before[i] /\ before[j] \subseteq before[i]
InPlace(list, I, before, s) ==
  /\ Cardinality(I) \in Nat
  /\ s = [p \in 1 .. Cardinality(I) |-> s[p]]
  /\ \A p \in 1 .. Cardinality(I) : \E i \in I : Cardinality(before[i]) = p - 1 /\ s[p] = list[i]
  /\ \A i \in I : \E p \in 1 .. Cardinality(I) : s[p] = list[i]
LEMMA ArrangedIs ==
  ASSUME NEW list, NEW N \in Nat, NEW I \in SUBSET (1 .. N), NEW before, Linear(I, before)
  PROVE  InPlace(list, I, before, Arranged(list, before))
  <1> DEFINE k == Cardinality(I)
             f == [i \in I |-> Cardinality(before[i]) + 1]
  <1>1. IsFiniteSet(I)
    <2>1. IsFiniteSet(1 .. N)
      BY FS_Interval
    <2>2. QED
      BY <2>1, FS_Subset
  <1>2. k \in Nat
    BY <1>1, FS_CardinalityType
  <1>3. ASSUME NEW i \in I
        PROVE  /\ IsFiniteSet(before[i]) /\ Cardinality(before[i]) \in Nat /\ f[i] \in 1 .. k
    <2>1. before[i] \in SUBSET (I \ {i})
      BY DEF Linear
    <2>2. IsFiniteSet(I \ {i}) /\ Cardinality(I \ {i}) = k - 1
      BY <1>1, FS_RemoveElement
    <2>3. IsFiniteSet(before[i]) /\ Cardinality(before[i]) <= k - 1
      BY <2>1, <2>2, FS_Subset
    <2>4. Cardinality(before[i]) \in Nat
      BY <2>3, FS_CardinalityType
    <2>5. QED
      BY <1>2, <2>3, <2>4
  <1>4. ASSUME NEW i \in I, NEW j \in I, i \in before[j], before[i] \subseteq before[j]
        PROVE  f[i] # f[j]
    <2>1. before[i] \in SUBSET before[j] /\ before[i] # before[j]
      BY <1>4 DEF Linear
    <2>2. Cardinality(before[i]) # Cardinality(before[j])
      BY <1>3, <2>1, FS_Subset
    <2>3. QED
      BY <1>3, <2>2
  <1>5. f \in [I -> 1 .. Cardinality(I)]
    BY <1>3
  <1>6. \A i, j \in I : f[i] = f[j] => i = j
    <2>1. TAKE i, j \in I
    <2> HIDE DEF f
    <2>2. QED
      BY <1>4 DEF Linear
  <1>7. \A i \in I : Cardinality(before[i]) = f[i] - 1
    BY <1>3
  <1> HIDE DEF f
  <1>8. DOMAIN before = I
    BY DEF Linear
  <1>9. /\ Arranged(list, before) = [p \in 1 .. Cardinality(I) |-> Arranged(list, before)[p]]
        /\ \A i \in I : Arranged(list, before)[f[i]] = list[i]
        /\ \A p \in 1 .. Cardinality(I) : \E i \in I : f[i] = p
    BY <1>1, <1>5, <1>6, <1>7, <1>8, PlacesTaken
  <1>10. QED
    BY <1>2, <1>5, <1>7, <1>9 DEF InPlace


(* Positions compared by a relation R: those before i in a stable sort.    *)
Weak(R, N) ==
  \A i, j, k \in 1 .. N :
    /\ <<i, i>> \notin R
    /\ <<i, j>> \in R /\ <<j, k>> \in R => <<i, k>> \in R
    /\ <<i, k>> \in R => <<i, j>> \in R \/ <<j, k>> \in R
Ahead(R, N) == [i \in 1 .. N |-> {j \in 1 .. N : IF j < i THEN <<i, j>> \notin R ELSE <<j, i>> \in R}]

LEMMA AheadIsLinear ==
  ASSUME NEW N \in Nat, NEW R, Weak(R, N)
  PROVE  Linear(1 .. N, Ahead(R, N))
  <1> DEFINE I == 1 .. N
             P(j, i) == IF j < i THEN <<i, j>> \notin R ELSE <<j, i>> \in R
  <1>1. \A i, j \in I : j \in Ahead(R, N)[i] <=> P(j, i)
    BY DEF Ahead
  <1>2. Ahead(R, N) \in [I -> SUBSET I]
    BY DEF Ahead
  <1>3. \A i \in I : ~ P(i, i)
    BY DEF Weak
  <1>4. ASSUME NEW i \in I, NEW j \in I, i # j PROVE P(i, j) \/ P(j, i)
    <2>1. i < j \/ j < i
      BY <1>4
    <2>2. QED
      BY <2>1 DEF Weak
  <1>5. ASSUME NEW i \in I, NEW j \in I, NEW k \in I, P(k, i), P(i, j) PROVE P(k, j)
    <2>1. /\ <<i, i>> \notin R /\ <<j, j>> \notin R
          /\ <<j, k>> \in R => <<j, i>> \in R \/ <<i, k>> \in R
          /\ <<j, k>> \in R /\ <<k, i>> \in R => <<j, i>> \in R
          /\ <<k, i>> \in R => <<k, j>> \in R \/ <<j, i>> \in R
          /\ <<k, i>> \in R /\ <<i, j>> \in R => <<k, j>> \in R
          /\ <<i, j>> \in R => <<i, k>> \in R \/ <<k, j>> \in R
          /\ <<i, j>> \in R /\ <<j, k>> \in R => <<i, k>> \in R
      BY DEF Weak
    <2>2. QED
      BY <1>5, <2>1
  <1> HIDE DEF P
  <1>6. ASSUME NEW i \in I, NEW j \in I, P(i, j) PROVE i \in Ahead(R, N)[j] /\ Ahead(R, N)[i] \subseteq Ahead(R, N)[j]
    <2>1. ASSUME NEW k \in Ahead(R, N)[i] PROVE k \in Ahead(R, N)[j]
      <3>1. k \in I
        BY <1>2
      <3>2. QED
        BY <1>1, <1>5, <1>6, <2>1, <3>1
    <2>2. QED
      BY <1>1, <1>6, <2>1
  <1>7. \A i \in I : i \notin Ahead(R, N)[i]
    BY <1>1, <1>3
  <1>8. QED
    BY <1>2, <1>4, <1>6, <1>7 DEF Linear

LEMMA PlaceBounds ==
  ASSUME NEW N \in Nat, NEW R, Weak(R, N), NEW i \in 1 .. N
  PROVE  /\ Cardinality({j \in 1 .. N : <<j, i>> \in R}) <= Cardinality(Ahead(R, N)[i])
         /\ Cardinality(Ahead(R, N)[i]) < Cardinality({j \in 1 .. N : <<i, j>> \notin R})
         /\ Cardinality(Ahead(R, N)[i]) \in Nat
  <1> DEFINE low  == {j \in 1 .. N : <<j, i>> \in R}
             high == {j \in 1 .. N : <<i, j>> \notin R}
             mid  == Ahead(R, N)[i]
  <1>1. mid = {j \in 1 .. N : IF j < i THEN <<i, j>> \notin R ELSE <<j, i>> \in R}
    BY DEF Ahead
  <1>2. ASSUME NEW j \in 1 .. N, <<j, i>> \in R PROVE <<i, j>> \notin R
    BY <1>2 DEF Weak
  <1>3. low \in SUBSET mid /\ mid \in SUBSET high /\ i \in high /\ i \notin mid
    <2>1. <<i, i>> \notin R
      BY DEF Weak
    <2>2. QED
      BY <1>1, <1>2, <2>1
  <1>4. IsFiniteSet(high)
    <2>1. IsFiniteSet(1 .. N)
      BY FS_Interval
    <2>2. QED
      BY <2>1, FS_Subset
  <1> HIDE DEF low, high, mid
  <1>5. IsFiniteSet(mid) /\ Cardinality(mid) <= Cardinality(high) /\ Cardinality(mid) # Cardinality(high)
    BY <1>3, <1>4, FS_Subset
  <1>6. Cardinality(low) <= Cardinality(mid)
    BY <1>3, <1>5, FS_Subset
  <1>7. Cardinality(mid) \in Nat /\ Cardinality(high) \in Nat
    BY <1>4, <1>5, FS_CardinalityType
  <1>8. QED
    BY <1>5, <1>6, <1>7 DEF low, high, mid

(* Members are in a strict order.                                          *)
LEMMA MemberIsRow ==
  ASSUME NEW m \in Member
  PROVE  \E k \in Nat : k >= 2 /\ m \in Row(k) /\ DOMAIN m = 1 .. k /\ k = 2 + (IF m[1] = 0 THEN 0 ELSE IF m[1] = 1 THEN 1 ELSE 3)
           /\ \A i \in 1 .. k : m[i] \in Int
  <1>1. CASE m \in Row(2) /\ m[1] = 0
    BY <1>1 DEF Row
  <1>2. CASE m \in Row(3) /\ m[1] = 1
    BY <1>2 DEF Row
  <1>3. CASE m \in Row(5) /\ m[1] = 2
    BY <1>3 DEF Row
  <1>4. QED
    BY <1>1, <1>2, <1>3 DEF Member

LEMMA BeforeIsStrict ==
  ASSUME NEW m \in Member, NEW n \in Member, NEW o \in Member
  PROVE  /\ ~ Before(m, m)
         /\ Before(m, n) /\ Before(n, o) => Before(m, o)
         /\ m # n => Before(m, n) \/ Before(n, m)
  <1>1. PICK a \in Nat : a >= 2 /\ m \in Row(a) /\ DOMAIN m = 1 .. a /\ \A i \in 1 .. a : m[i] \in Int
    BY MemberIsRow
  <1>2. PICK b \in Nat : b >= 2 /\ n \in Row(b) /\ DOMAIN n = 1 .. b /\ \A i \in 1 .. b : n[i] \in Int
    BY MemberIsRow
  <1>3. PICK c \in Nat : c >= 2 /\ DOMAIN o = 1 .. c /\ \A i \in 1 .. c : o[i] \in Int
    BY MemberIsRow
  <1>4. ~ Before(m, m)
    BY <1>1 DEF Before
  <1>5. ASSUME Before(m, n), Before(n, o) PROVE Before(m, o)
    <2>1. PICK i \in DOMAIN m \cap DOMAIN n : m[i] < n[i] /\ \A j \in 1 .. i - 1 : m[j] = n[j]
      BY <1>5 DEF Before
    <2>2. PICK h \in DOMAIN n \cap DOMAIN o : n[h] < o[h] /\ \A j \in 1 .. h - 1 : n[j] = o[j]
      BY <1>5 DEF Before
    <2>3. CASE i < h
      <3>1. i \in DOMAIN m \cap DOMAIN o /\ m[i] < o[i]
        <4>1. i \in 1 .. a /\ i \in 1 .. c /\ i \in 1 .. h - 1
          BY <1>1, <1>2, <1>3, <2>1, <2>2, <2>3
        <4>2. n[i] = o[i]
          BY <2>2, <4>1
        <4>3. QED
          BY <1>1, <1>3, <2>1, <4>1, <4>2
      <3>2. \A j \in 1 .. i - 1 : m[j] = o[j]
        BY <1>1, <1>2, <1>3, <2>1, <2>2, <2>3
      <3>3. QED
        BY <3>1, <3>2 DEF Before
    <2>4. CASE ~ (i < h)
      <3>1. h \in DOMAIN m \cap DOMAIN o
        BY <1>1, <1>2, <1>3, <2>1, <2>2, <2>4
      <3>2. m[h] < o[h]
        <4>1. m[h] \in Int /\ n[h] \in Int /\ o[h] \in Int
          BY <1>1, <1>2, <1>3, <2>2, <3>1
        <4>2. m[h] <= n[h]
          BY <1>1, <1>2, <2>1, <2>2, <2>4, <4>1
        <4>3. QED
          BY <2>2, <4>1, <4>2
      <3>3. \A j \in 1 .. h - 1 : m[j] = o[j]
        BY <1>1, <1>2, <1>3, <2>1, <2>2, <2>4
      <3>4. QED
        BY <3>1, <3>2, <3>3 DEF Before
    <2>5. QED
      BY <2>3, <2>4
  <1>6. ASSUME m # n PROVE Before(m, n) \/ Before(n, m)
    <2> DEFINE D == {i \in Nat : i \in 1 .. a /\ i \in 1 .. b /\ m[i] # n[i]}
    <2>1. CASE D # {}
      <3>1. PICK i \in D : \A j \in D : i <= j
        BY <2>1, Least
      <3>2. i \in 1 .. a /\ i \in 1 .. b /\ m[i] # n[i] /\ \A j \in 1 .. i - 1 : m[j] = n[j]
        BY <3>1
      <3>3. m[i] < n[i] \/ n[i] < m[i]
        BY <1>1, <1>2, <3>2
      <3>4. QED
        BY <1>1, <1>2, <3>2, <3>3 DEF Before
    <2>2. CASE D = {}
      <3>1. m[1] = n[1]
        BY <1>1, <1>2, <2>2
      <3>2. a = b
        <4>1. \E k \in Nat : DOMAIN m = 1 .. k /\ k = 2 + (IF m[1] = 0 THEN 0 ELSE IF m[1] = 1 THEN 1 ELSE 3)
          BY MemberIsRow
        <4>2. \E k \in Nat : DOMAIN n = 1 .. k /\ k = 2 + (IF n[1] = 0 THEN 0 ELSE IF n[1] = 1 THEN 1 ELSE 3)
          BY MemberIsRow
        <4>3. DOMAIN m = DOMAIN n
          BY <3>1, <4>1, <4>2
        <4>4. QED
          BY <1>1, <1>2, <4>3
      <3>3. \A i \in 1 .. a : m[i] = n[i]
        BY <2>2, <3>2
      <3>4. QED
        BY <1>1, <1>2, <1>6, <3>2, <3>3 DEF Row
    <2>3. QED
      BY <2>1, <2>2
  <1>7. QED
    BY <1>4, <1>5, <1>6


(* So are lists of members.                                                *)
Differ(a, b, i) == \A j \in 1 .. i - 1 : a[j] = b[j]
LEMMA ListBeforeIs ==
  ASSUME NEW a \in Seq(Member), NEW b \in Seq(Member)
  PROVE  ListBefore(a, b) <=>
           \E i \in Nat \ {0} : /\ i <= Len(a) + 1 /\ i <= Len(b) /\ Differ(a, b, i)
                                /\ i <= Len(a) => Before(a[i], b[i])
  <1>1. Len(a) \in Nat /\ DOMAIN a = 1 .. Len(a) /\ Len(b) \in Nat /\ DOMAIN b = 1 .. Len(b)
    OBVIOUS
  <1>2. ASSUME ListBefore(a, b)
        PROVE  \E i \in Nat \ {0} : /\ i <= Len(a) + 1 /\ i <= Len(b) /\ Differ(a, b, i)
                                    /\ i <= Len(a) => Before(a[i], b[i])
    <2>1. CASE \E i \in DOMAIN a \cap DOMAIN b : Before(a[i], b[i]) /\ \A j \in 1 .. i - 1 : a[j] = b[j]
      BY <1>1, <2>1 DEF Differ
    <2>2. CASE Len(a) < Len(b) /\ \A j \in DOMAIN a : a[j] = b[j]
      <3>1. Len(a) + 1 \in Nat \ {0} /\ ~ (Len(a) + 1 <= Len(a)) /\ Len(a) + 1 <= Len(b) /\ (Len(a) + 1) - 1 = Len(a)
        BY <1>1, <2>2
      <3>2. Differ(a, b, Len(a) + 1)
        BY <1>1, <2>2, <3>1 DEF Differ
      <3>3. QED
        BY <1>1, <3>1, <3>2
    <2>3. QED
      BY <1>2, <2>1, <2>2 DEF ListBefore
  <1>3. ASSUME NEW i \in Nat \ {0}, i <= Len(a) + 1, i <= Len(b), Differ(a, b, i), i <= Len(a) => Before(a[i], b[i])
        PROVE  ListBefore(a, b)
    <2>1. CASE i <= Len(a)
      <3>1. i \in DOMAIN a \cap DOMAIN b
        BY <1>1, <1>3, <2>1
      <3>2. QED
        BY <1>3, <2>1, <3>1 DEF ListBefore, Differ
    <2>2. CASE ~ (i <= Len(a))
      <3>1. i - 1 = Len(a) /\ Len(a) < Len(b)
        BY <1>1, <1>3, <2>2
      <3>2. QED
        BY <1>1, <1>3, <3>1 DEF ListBefore, Differ
    <2>3. QED
      BY <2>1, <2>2
  <1>4. QED
    BY <1>2, <1>3

LEMMA ListBeforeIsStrict ==
  ASSUME NEW a \in Seq(Member), NEW b \in Seq(Member), NEW c \in Seq(Member)
  PROVE  /\ ~ ListBefore(a, a)
         /\ ListBefore(a, b) /\ ListBefore(b, c) => ListBefore(a, c)
         /\ a # b => ListBefore(a, b) \/ ListBefore(b, a)
  <1>1. Len(a) \in Nat /\ Len(b) \in Nat /\ Len(c) \in Nat
    OBVIOUS
  <1>2. /\ \A i \in Nat \ {0} : i <= Len(a) => a[i] \in Member
        /\ \A i \in Nat \ {0} : i <= Len(b) => b[i] \in Member
        /\ \A i \in Nat \ {0} : i <= Len(c) => c[i] \in Member
    OBVIOUS
  <1>3. ~ ListBefore(a, a)
    <2>1. SUFFICES ASSUME ListBefore(a, a) PROVE FALSE
      OBVIOUS
    <2>2. PICK i \in Nat \ {0} : i <= Len(a) /\ Before(a[i], a[i])
      BY <1>1, <2>1, ListBeforeIs
    <2>3. QED
      BY <1>2, <2>2, BeforeIsStrict
  <1>4. ASSUME ListBefore(a, b), ListBefore(b, c) PROVE ListBefore(a, c)
    <2>1. PICK i \in Nat \ {0} : /\ i <= Len(a) + 1 /\ i <= Len(b) /\ Differ(a, b, i)
                                 /\ i <= Len(a) => Before(a[i], b[i])
      BY <1>4, ListBeforeIs
    <2>2. PICK h \in Nat \ {0} : /\ h <= Len(b) + 1 /\ h <= Len(c) /\ Differ(b, c, h)
                                 /\ h <= Len(b) => Before(b[h], c[h])
      BY <1>4, ListBeforeIs
    <2>3. \A j \in 1 .. i - 1 : a[j] = b[j]
      BY <2>1 DEF Differ
    <2>4. \A j \in 1 .. h - 1 : b[j] = c[j]
      BY <2>2 DEF Differ
    <2> DEFINE g == IF i < h THEN i ELSE h
    <2>5. g \in Nat \ {0} /\ g <= i /\ g <= h /\ g <= Len(a) + 1 /\ g <= Len(c) /\ g <= Len(b)
      BY <1>1, <2>1, <2>2
    <2>6. Differ(a, c, g)
      <3>1. \A j \in 1 .. g - 1 : j \in 1 .. i - 1 /\ j \in 1 .. h - 1
        BY <2>5
      <3> HIDE DEF g
      <3>2. QED
        BY <2>3, <2>4, <3>1 DEF Differ
    <2>7. ASSUME g <= Len(a) PROVE Before(a[g], c[g])
      <3>1. a[g] \in Member /\ b[g] \in Member /\ c[g] \in Member
        <4> HIDE DEF g
        <4> QED BY <1>2, <2>5, <2>7
      <3>2. CASE i < h
        <4>1. g = i /\ i \in 1 .. h - 1
          BY <3>2
        <4>2. Before(a[i], b[i]) /\ b[i] = c[i]
          BY <2>1, <2>4, <2>7, <4>1
        <4>3. QED
          BY <4>1, <4>2
      <3>3. CASE h < i
        <4>1. g = h /\ h \in 1 .. i - 1 /\ h <= Len(b)
          BY <2>5, <3>3
        <4>2. Before(b[h], c[h]) /\ a[h] = b[h]
          BY <2>2, <2>3, <4>1
        <4>3. QED
          BY <4>1, <4>2
      <3>4. CASE h = i
        <4>1. g = h /\ g = i /\ h <= Len(b)
          BY <2>5, <3>4
        <4>2. Before(a[g], b[g]) /\ Before(b[g], c[g])
          <5> HIDE DEF g
          <5> QED BY <2>1, <2>2, <2>7, <4>1
        <4>3. QED
          BY <3>1, <4>2, BeforeIsStrict
      <3>5. QED
        BY <3>2, <3>3, <3>4
    <2> HIDE DEF g
    <2>8. QED
      BY <2>5, <2>6, <2>7, ListBeforeIs
  <1>5. ASSUME a # b PROVE ListBefore(a, b) \/ ListBefore(b, a)
    <2> DEFINE D == {i \in Nat \ {0} : i <= Len(a) /\ i <= Len(b) /\ a[i] # b[i]}
    <2>1. CASE D # {}
      <3>1. PICK i \in D : \A j \in D : i <= j
        <4>1. D \in SUBSET Nat
          OBVIOUS
        <4> HIDE DEF D
        <4> QED BY <2>1, <4>1, Least
      <3>2. i \in Nat \ {0} /\ i <= Len(a) /\ i <= Len(b) /\ a[i] # b[i] /\ \A j \in 1 .. i - 1 : a[j] = b[j]
        BY <1>1, <3>1
      <3>3. Differ(a, b, i) /\ Differ(b, a, i)
        BY <3>2 DEF Differ
      <3>4. Before(a[i], b[i]) \/ Before(b[i], a[i])
        BY <1>2, <3>2, BeforeIsStrict
      <3>5. i <= Len(a) + 1 /\ i <= Len(b) + 1
        BY <1>1, <3>2
      <3>6. QED
        BY <3>2, <3>3, <3>4, <3>5, ListBeforeIs
    <2>2. CASE D = {}
      <3>1. \A j \in Nat \ {0} : j <= Len(a) /\ j <= Len(b) => a[j] = b[j]
        BY <2>2
      <3>2. CASE Len(a) < Len(b)
        <4>1. \A j \in DOMAIN a : a[j] = b[j]
          BY <1>1, <3>1, <3>2
        <4>2. QED
          BY <3>2, <4>1 DEF ListBefore
      <3>3. CASE Len(b) < Len(a)
        <4>1. \A j \in DOMAIN b : b[j] = a[j]
          BY <1>1, <3>1, <3>3
        <4>2. QED
          BY <3>3, <4>1 DEF ListBefore
      <3>4. CASE Len(a) = Len(b)
        <4>1. \A j \in 1 .. Len(a) : a[j] = b[j]
          BY <1>1, <3>1, <3>4
        <4>2. QED
          BY <1>5, <3>4, <4>1
      <3>5. QED
        BY <1>1, <3>2, <3>3, <3>4
    <2>3. QED
      BY <2>1, <2>2
  <1>6. QED
    BY <1>3, <1>4, <1>5


(* What sorting members gives: the same members, each at a place between   *)
(* those that are less and those that are no greater.                      *)
Lower(list, m)  == {j \in 1 .. Len(list) : Before(list[j], m)}
AtMost(list, m) == {j \in 1 .. Len(list) : ~ Before(m, list[j])}
LEMMA SortMembersIs ==
  ASSUME NEW list \in Seq(Member)
  PROVE  /\ SortMembers(list) \in Seq(Member)
         /\ Len(SortMembers(list)) = Len(list)
         /\ \A p \in 1 .. Len(list) : \E i \in 1 .. Len(list) :
              /\ SortMembers(list)[p] = list[i]
              /\ Cardinality(Lower(list, list[i])) <= p - 1
              /\ p - 1 < Cardinality(AtMost(list, list[i]))
  <1> DEFINE N == Len(list)
             R == {e \in (1 .. N) \X (1 .. N) : Before(list[e[1]], list[e[2]])}
             s == SortMembers(list)
  <1>1. N \in Nat /\ DOMAIN list = 1 .. N /\ \A i \in 1 .. N : list[i] \in Member
    OBVIOUS
  <1>2. \A i, j \in 1 .. N : <<i, j>> \in R <=> Before(list[i], list[j])
    OBVIOUS
  <1>3. s = Arranged(list, Ahead(R, N))
    <2>1. s = Arranged(list, [i \in 1 .. N |->
                {j \in 1 .. N : IF j < i THEN ~ Before(list[i], list[j]) ELSE Before(list[j], list[i])}])
      BY <1>1 DEF SortMembers, Sorted
    <2>2. Ahead(R, N) = [i \in 1 .. N |->
                {j \in 1 .. N : IF j < i THEN ~ Before(list[i], list[j]) ELSE Before(list[j], list[i])}]
      <3> HIDE DEF R, N
      <3> QED BY <1>2 DEF Ahead
    <2>3. QED
      BY <2>1, <2>2
  <1> HIDE DEF R, s, N
  <1>4. Weak(R, N)
    <2>1. SUFFICES ASSUME NEW i \in 1 .. N, NEW j \in 1 .. N, NEW k \in 1 .. N
                   PROVE  /\ <<i, i>> \notin R
                          /\ <<i, j>> \in R /\ <<j, k>> \in R => <<i, k>> \in R
                          /\ <<i, k>> \in R => <<i, j>> \in R \/ <<j, k>> \in R
      BY DEF Weak
    <2>2. list[i] \in Member /\ list[j] \in Member /\ list[k] \in Member
      BY <1>1
    <2>3. /\ ~ Before(list[i], list[i])
          /\ Before(list[i], list[j]) /\ Before(list[j], list[k]) => Before(list[i], list[k])
          /\ Before(list[i], list[k]) => Before(list[i], list[j]) \/ Before(list[j], list[k])
      <3>1. Before(list[i], list[k]) => Before(list[i], list[j]) \/ Before(list[j], list[k])
        <4>1. CASE list[i] = list[j]
          BY <4>1
        <4>2. CASE list[i] # list[j]
          BY <2>2, <4>2, BeforeIsStrict
        <4>3. QED
          BY <4>1, <4>2
      <3>2. QED
        BY <2>2, <3>1, BeforeIsStrict
    <2>4. QED
      BY <1>2, <2>3
  <1>5. Linear(1 .. N, Ahead(R, N))
    BY <1>1, <1>4, AheadIsLinear
  <1>6. Cardinality(1 .. N) = N
    BY <1>1, FS_Interval
  <1>7. /\ s = [p \in 1 .. N |-> s[p]]
        /\ \A p \in 1 .. N : \E i \in 1 .. N : Cardinality(Ahead(R, N)[i]) = p - 1 /\ s[p] = list[i]
    <2>1. 1 .. N \in SUBSET (1 .. N)
      OBVIOUS
    <2>2. InPlace(list, 1 .. N, Ahead(R, N), s)
      BY <1>1, <1>3, <1>5, <2>1, ArrangedIs
    <2>3. QED
      BY <1>6, <2>2 DEF InPlace
  <1>8. s \in Seq(Member) /\ Len(s) = N
    <2>1. \A p \in 1 .. N : s[p] \in Member
      BY <1>1, <1>7
    <2>2. QED
      BY <1>1, <1>7, <2>1, IsSequence
  <1>9. ASSUME NEW p \in 1 .. N
        PROVE  \E i \in 1 .. N : /\ s[p] = list[i]
                                 /\ Cardinality(Lower(list, list[i])) <= p - 1
                                 /\ p - 1 < Cardinality(AtMost(list, list[i]))
    <2>1. PICK i \in 1 .. N : Cardinality(Ahead(R, N)[i]) = p - 1 /\ s[p] = list[i]
      BY <1>7
    <2>2. Lower(list, list[i]) = {j \in 1 .. N : <<j, i>> \in R}
      BY <1>2 DEF Lower, N
    <2>3. AtMost(list, list[i]) = {j \in 1 .. N : <<i, j>> \notin R}
      BY <1>2 DEF AtMost, N
    <2>4. /\ Cardinality({j \in 1 .. N : <<j, i>> \in R}) <= Cardinality(Ahead(R, N)[i])
          /\ Cardinality(Ahead(R, N)[i]) < Cardinality({j \in 1 .. N : <<i, j>> \notin R})
      BY <1>1, <1>4, PlaceBounds
    <2>5. Cardinality(Lower(list, list[i])) <= p - 1 /\ p - 1 < Cardinality(AtMost(list, list[i]))
      BY <2>1, <2>2, <2>3, <2>4
    <2>6. QED
      BY <2>1, <2>5
  <1>10. QED
    BY <1>8, <1>9 DEF s, N

(* So it does not matter in which order they were.                         *)
LEMMA ReverseIs ==
  ASSUME NEW S, NEW list \in Seq(S)
  PROVE  /\ Reverse(list) \in Seq(S) /\ Len(Reverse(list)) = Len(list)
         /\ \A i \in 1 .. Len(list) : Len(list) - i + 1 \in 1 .. Len(list) /\ Reverse(list)[i] = list[Len(list) - i + 1]
  BY DEF Reverse

LEMMA SameCount ==
  ASSUME NEW N \in Nat, NEW S \in SUBSET (1 .. N), NEW T \in SUBSET (1 .. N),
         \A i \in 1 .. N : i \in S <=> N - i + 1 \in T
  PROVE  Cardinality(S) = Cardinality(T) /\ Cardinality(S) \in Nat
  <1> DEFINE f == [i \in S |-> N - i + 1]
  <1>1. f \in [S -> T]
    OBVIOUS
  <1>2. \A x, y \in S : f[x] = f[y] => x = y
    OBVIOUS
  <1>3. \A z \in T : \E x \in S : f[x] = z
    <2>1. TAKE z \in T
    <2>2. N - z + 1 \in 1 .. N /\ N - (N - z + 1) + 1 = z
      OBVIOUS
    <2>3. N - z + 1 \in S
      BY <2>2
    <2>4. QED
      BY <2>2, <2>3
  <1>4. IsFiniteSet(S)
    <2>1. IsFiniteSet(1 .. N)
      BY FS_Interval
    <2>2. QED
      BY <2>1, FS_Subset
  <1> HIDE DEF f
  <1>5. Cardinality(T) = Cardinality(S)
    BY <1>1, <1>2, <1>3, <1>4, SameSize
  <1>6. QED
    BY <1>4, <1>5, FS_CardinalityType

LEMMA ReverseSorts ==
  ASSUME NEW list \in Seq(Member)
  PROVE  SortMembers(Reverse(list)) = SortMembers(list)
  <1> DEFINE N == Len(list)
             back == Reverse(list)
             s == SortMembers(list)
             t == SortMembers(back)
  <1>1. N \in Nat /\ DOMAIN list = 1 .. N /\ \A i \in 1 .. N : list[i] \in Member
    OBVIOUS
  <1>2. /\ back \in Seq(Member) /\ Len(back) = N
        /\ \A i \in 1 .. N : N - i + 1 \in 1 .. N /\ back[i] = list[N - i + 1]
    BY ReverseIs
  <1> HIDE DEF N, back
  <1>3. ASSUME NEW m PROVE /\ Cardinality(Lower(list, m)) = Cardinality(Lower(back, m))
                           /\ Cardinality(AtMost(list, m)) = Cardinality(AtMost(back, m))
                           /\ Cardinality(Lower(back, m)) \in Nat /\ Cardinality(AtMost(back, m)) \in Nat
    <2>1. Lower(back, m) \in SUBSET (1 .. N) /\ Lower(list, m) \in SUBSET (1 .. N)
      BY <1>2 DEF Lower, N
    <2>2. AtMost(back, m) \in SUBSET (1 .. N) /\ AtMost(list, m) \in SUBSET (1 .. N)
      BY <1>2 DEF AtMost, N
    <2>3. \A i \in 1 .. N : i \in Lower(back, m) <=> N - i + 1 \in Lower(list, m)
      BY <1>2 DEF Lower, N
    <2>4. \A i \in 1 .. N : i \in AtMost(back, m) <=> N - i + 1 \in AtMost(list, m)
      BY <1>2 DEF AtMost, N
    <2>5. QED
      BY <1>1, <2>1, <2>2, <2>3, <2>4, SameCount
  <1>4. /\ s \in Seq(Member) /\ Len(s) = N
        /\ \A p \in 1 .. N : \E i \in 1 .. N :
              s[p] = list[i] /\ Cardinality(Lower(list, list[i])) <= p - 1 /\ p - 1 < Cardinality(AtMost(list, list[i]))
    BY SortMembersIs DEF N
  <1>5. /\ t \in Seq(Member) /\ Len(t) = N
        /\ \A p \in 1 .. N : \E i \in 1 .. N :
              t[p] = back[i] /\ Cardinality(Lower(back, back[i])) <= p - 1 /\ p - 1 < Cardinality(AtMost(back, back[i]))
    BY <1>2, SortMembersIs
  <1> HIDE DEF s, t
  <1>6. ASSUME NEW m \in Member, NEW n \in Member, Before(m, n)
        PROVE  Cardinality(AtMost(list, m)) <= Cardinality(Lower(list, n))
    <2>1. AtMost(list, m) \subseteq Lower(list, n)
      <3>1. ASSUME NEW j \in AtMost(list, m) PROVE j \in Lower(list, n)
        <4>1. j \in 1 .. N /\ ~ Before(m, list[j]) /\ list[j] \in Member
          BY <1>1 DEF AtMost, N
        <4>2. Before(list[j], m) \/ list[j] = m
          BY <4>1, BeforeIsStrict
        <4>3. Before(list[j], n)
          BY <1>6, <4>1, <4>2, BeforeIsStrict
        <4>4. QED
          BY <4>1, <4>3 DEF Lower, N
      <3>2. QED
        BY <3>1
    <2>2. IsFiniteSet(Lower(list, n))
      <3>1. IsFiniteSet(1 .. N)
        BY <1>1, FS_Interval
      <3>2. Lower(list, n) \in SUBSET (1 .. N)
        BY DEF Lower, N
      <3>3. QED
        BY <3>1, <3>2, FS_Subset
    <2>3. QED
      BY <2>1, <2>2, FS_Subset
  <1>7. ASSUME NEW p \in 1 .. N PROVE s[p] = t[p]
    <2>1. PICK i \in 1 .. N :
            s[p] = list[i] /\ Cardinality(Lower(list, list[i])) <= p - 1 /\ p - 1 < Cardinality(AtMost(list, list[i]))
      BY <1>4
    <2>2. PICK j \in 1 .. N :
            t[p] = back[j] /\ Cardinality(Lower(back, back[j])) <= p - 1 /\ p - 1 < Cardinality(AtMost(back, back[j]))
      BY <1>5
    <2> DEFINE m == list[i]
               n == back[j]
    <2>3. m \in Member /\ n \in Member
      BY <1>1, <1>2
    <2>4. /\ Cardinality(Lower(list, m)) <= p - 1 /\ p - 1 < Cardinality(AtMost(list, m))
          /\ Cardinality(Lower(list, n)) <= p - 1 /\ p - 1 < Cardinality(AtMost(list, n))
      BY <1>3, <2>1, <2>2
    <2>5. /\ Cardinality(Lower(list, m)) \in Nat /\ Cardinality(AtMost(list, m)) \in Nat
          /\ Cardinality(Lower(list, n)) \in Nat /\ Cardinality(AtMost(list, n)) \in Nat
      BY <1>3
    <2>6. s[p] = m /\ t[p] = n
      BY <2>1, <2>2
    <2> HIDE DEF m, n
    <2>7. ~ Before(m, n)
      BY <1>1, <1>6, <2>3, <2>4, <2>5
    <2>8. ~ Before(n, m)
      BY <1>1, <1>6, <2>3, <2>4, <2>5
    <2>9. QED
      BY <2>3, <2>6, <2>7, <2>8, BeforeIsStrict
  <1>8. s = t
    BY <1>4, <1>5, <1>7
  <1>9. QED
    BY <1>8 DEF s, t, back


(* What filtering gives: the elements at the positions that are kept.      *)
Upto(kept) == [i \in kept |-> kept \cap 1 .. i - 1]
LEMMA UptoIsLinear ==
  ASSUME NEW N \in Nat, NEW kept \in SUBSET (1 .. N)
  PROVE  Linear(kept, Upto(kept))
  <1>1. \A i \in kept : Upto(kept)[i] = kept \cap 1 .. i - 1
    BY DEF Upto
  <1>2. Upto(kept) \in [kept -> SUBSET kept]
    BY DEF Upto
  <1>3. \A i \in kept : i \notin Upto(kept)[i]
    <2>1. \A i \in kept : i \in Int /\ i \notin 1 .. i - 1
      OBVIOUS
    <2>2. QED
      BY <1>1, <2>1
  <1>4. ASSUME NEW i \in kept, NEW j \in kept, i < j
        PROVE  i \in Upto(kept)[j] /\ Upto(kept)[i] \subseteq Upto(kept)[j]
    BY <1>1, <1>4
  <1>5. QED
    <2>1. \A i, j \in kept : i # j => i < j \/ j < i
      OBVIOUS
    <2>2. QED
      BY <1>2, <1>3, <1>4, <2>1 DEF Linear

Picked(list, kept) == Arranged(list, Upto(kept))
LEMMA PickedIs ==
  ASSUME NEW S, NEW list \in Seq(S), NEW kept \in SUBSET (1 .. Len(list))
  PROVE  /\ Picked(list, kept) \in Seq(S)
         /\ \A p \in 1 .. Len(Picked(list, kept)) : \E i \in kept : Picked(list, kept)[p] = list[i]
         /\ \A i \in kept : \E p \in 1 .. Len(Picked(list, kept)) : Picked(list, kept)[p] = list[i]
  <1> DEFINE s == Picked(list, kept)
             k == Cardinality(kept)
  <1>1. Len(list) \in Nat /\ \A i \in 1 .. Len(list) : list[i] \in S
    OBVIOUS
  <1>2. InPlace(list, kept, Upto(kept), s)
    BY <1>1, UptoIsLinear, ArrangedIs DEF Picked
  <1> HIDE DEF s
  <1>3. /\ k \in Nat /\ s = [p \in 1 .. k |-> s[p]]
        /\ \A p \in 1 .. k : \E i \in kept : s[p] = list[i]
        /\ \A i \in kept : \E p \in 1 .. k : s[p] = list[i]
    BY <1>2 DEF InPlace
  <1> HIDE DEF k
  <1>4. \A p \in 1 .. k : s[p] \in S
    BY <1>1, <1>3
  <1>5. s \in Seq(S) /\ Len(s) = k
    BY <1>3, <1>4, IsSequence
  <1>6. QED
    BY <1>3, <1>5 DEF s

(* Concatenating lists.                                                    *)
LEMMA FlatIs ==
  ASSUME NEW S, NEW lists \in Seq(Seq(S))
  PROVE  FlattenSeq(lists) \in Seq(S)
  <1> DEFINE N == Len(lists)
  <1>1. N \in Nat /\ \A i \in 1 .. N : lists[i] \in Seq(S)
    OBVIOUS
  <1>2. CASE N = 0
    <2>1. lists = << >>
      BY <1>2
    <2>2. QED
      BY <1>2, <2>1 DEF FlattenSeq
  <1>3. CASE N # 0
    <2> DEFINE Flat(f) == f = [i \in 1 .. N |-> IF i = 1 THEN lists[i] ELSE f[i - 1] \o lists[i]]
               flat == CHOOSE f : Flat(f)
               step == [e \in Nat \X Seq(S) |-> IF e[1] + 1 \in 1 .. N THEN e[2] \o lists[e[1] + 1] ELSE e[2]]
    <2>1. FlattenSeq(lists) = flat[N]
      BY <1>1, <1>3 DEF FlattenSeq
    <2>2. step \in [Nat \X Seq(S) -> Seq(S)]
      <3>1. ASSUME NEW n \in Nat, NEW v \in Seq(S)
            PROVE  (IF n + 1 \in 1 .. N THEN v \o lists[n + 1] ELSE v) \in Seq(S)
        <4> HIDE DEF N
        <4> QED BY <1>1
      <3>2. QED
        BY <3>1
    <2>3. \A n \in Nat, v \in Seq(S) : n + 1 \in 1 .. N => step[<<n, v>>] = v \o lists[n + 1]
      OBVIOUS
    <2>4. lists[1] \in Seq(S)
      BY <1>1, <1>3
    <2> HIDE DEF N, step, Flat
    <2>5. PICK g \in [0 .. N - 1 -> Seq(S)] : g[0] = lists[1] /\ \A n \in 1 .. N - 1 : g[n] = step[<<n, g[n - 1]>>]
      <3>1. N - 1 \in Nat
        BY <1>1, <1>3
      <3>2. Runs(Seq(S), lists[1], step, N - 1) # {}
        BY <2>2, <2>4, <3>1, Recurrence
      <3>3. QED
        BY <3>2 DEF Runs
    <2> DEFINE f == [i \in 1 .. N |-> g[i - 1]]
    <2>6. Flat(f)
      <3>1. ASSUME NEW i \in 1 .. N, i # 1 PROVE f[i] = f[i - 1] \o lists[i]
        <4>1. i - 1 \in 1 .. N - 1 /\ i - 1 \in 0 .. N - 1 /\ (i - 1) - 1 \in 0 .. N - 1 /\ i - 1 \in 1 .. N /\ i - 1 \in Nat
              /\ (i - 1) + 1 = i
          BY <1>1, <3>1
        <4>2. g[i - 1] = step[<<i - 1, g[(i - 1) - 1]>>] /\ g[(i - 1) - 1] \in Seq(S)
          BY <2>5, <4>1
        <4>3. g[i - 1] = g[(i - 1) - 1] \o lists[i]
          BY <2>3, <4>1, <4>2
        <4>4. f[i] = g[i - 1] /\ f[i - 1] = g[(i - 1) - 1]
          BY <4>1
        <4>5. QED
          BY <4>3, <4>4
      <3>2. 1 \in 1 .. N => f[1] = lists[1]
        BY <2>5
      <3>3. f = [i \in 1 .. N |-> f[i]]
        OBVIOUS
      <3> HIDE DEF f
      <3>4. \A i \in 1 .. N : f[i] = IF i = 1 THEN lists[i] ELSE f[i - 1] \o lists[i]
        BY <3>1, <3>2
      <3>5. f = [i \in 1 .. N |-> IF i = 1 THEN lists[i] ELSE f[i - 1] \o lists[i]]
        BY <3>3, <3>4
      <3>6. QED
        BY <3>5 DEF Flat
    <2>7. Flat(flat)
      BY <2>6
    <2> HIDE DEF flat, f
    <2>8. \A i \in 1 .. N : flat[i] = IF i = 1 THEN lists[i] ELSE flat[i - 1] \o lists[i]
      <3>1. flat = [i \in 1 .. N |-> IF i = 1 THEN lists[i] ELSE flat[i - 1] \o lists[i]]
        BY <2>7 DEF Flat
      <3>2. QED
        BY <3>1
    <2> DEFINE T == {n \in Nat : n + 1 \in 1 .. N => flat[n + 1] \in Seq(S)}
    <2>9. 0 \in T
      BY <1>1, <2>4, <2>8
    <2>10. ASSUME NEW n \in Nat, n \in T PROVE n + 1 \in T
      <3>1. SUFFICES ASSUME (n + 1) + 1 \in 1 .. N PROVE flat[(n + 1) + 1] \in Seq(S)
        OBVIOUS
      <3>2. n + 1 \in 1 .. N /\ (n + 1) + 1 # 1 /\ ((n + 1) + 1) - 1 = n + 1
        BY <1>1, <3>1
      <3>3. flat[n + 1] \in Seq(S)
        BY <2>10, <3>2
      <3>4. flat[(n + 1) + 1] = flat[n + 1] \o lists[(n + 1) + 1]
        BY <2>8, <3>1, <3>2
      <3>5. lists[(n + 1) + 1] \in Seq(S)
        BY <1>1, <3>1
      <3>6. QED
        BY <3>3, <3>4, <3>5, ConcatProperties
    <2> HIDE DEF T
    <2>11. Nat \subseteq T
      BY <2>9, <2>10, Induction
    <2>12. flat[N] \in Seq(S)
      <3>1. N - 1 \in Nat /\ (N - 1) + 1 = N /\ N \in 1 .. N
        BY <1>1, <1>3
      <3>2. N - 1 \in T
        BY <2>11, <3>1
      <3>3. QED
        BY <3>1, <3>2 DEF T
    <2>13. QED
      BY <2>1, <2>12
  <1>4. QED
    BY <1>2, <1>3


(* Lists of nets whose names are in a set.                                 *)
NetOf(names) == [members : Seq(Member), name : names]
LEMMA NetsAreOf ==
  ASSUME NEW list, IsNets(list)
  PROVE  \E names : NoName \in names /\ Null \notin names /\ list \in Seq(NetOf(names))
  <1> DEFINE names == {NoName} \cup {list[j].name : j \in 1 .. Len(list)}
  <1>1. Len(list) \in Nat /\ list = [j \in 1 .. Len(list) |-> list[j]] /\ \A j \in 1 .. Len(list) : IsNet(list[j])
    BY DEF IsNets
  <1>2. NoName \in names /\ Null \notin names
    BY <1>1, WireFormatsAssumption DEF IsNet
  <1>3. ASSUME NEW j \in 1 .. Len(list) PROVE list[j] \in NetOf(names)
    <2>1. list[j].name \in names
      OBVIOUS
    <2>2. list[j] = [members |-> list[j].members, name |-> list[j].name] /\ list[j].members \in Seq(Member)
      BY <1>1 DEF IsNet
    <2> HIDE DEF names
    <2>3. QED
      BY <2>1, <2>2 DEF NetOf
  <1> HIDE DEF names
  <1>4. list \in Seq(NetOf(names))
    BY <1>1, <1>3, IsSequence
  <1>5. QED
    BY <1>2, <1>4

LEMMA OfAreNets ==
  ASSUME NEW names, Null \notin names, NEW list \in Seq(NetOf(names))
  PROVE  IsNets(list)
  <1>1. Len(list) \in Nat /\ list = [j \in 1 .. Len(list) |-> list[j]] /\ \A j \in 1 .. Len(list) : list[j] \in NetOf(names)
    OBVIOUS
  <1>2. \A n \in NetOf(names) : IsNet(n)
    BY DEF NetOf, IsNet
  <1>3. QED
    BY <1>1, <1>2 DEF IsNets

Inside(n) == [members |-> SortMembers(n.members), name |-> n.name]
LEMMA SortNetsIs ==
  ASSUME NEW names, NEW list \in Seq(NetOf(names))
  PROVE  /\ SortNets(list) \in Seq(NetOf(names))
         /\ \A p \in 1 .. Len(SortNets(list)) : \E i \in 1 .. Len(list) : SortNets(list)[p] = Inside(list[i])
         /\ \A i \in 1 .. Len(list) : \E p \in 1 .. Len(SortNets(list)) : SortNets(list)[p] = Inside(list[i])
  <1> DEFINE N == Len(list)
             inside == [j \in 1 .. N |-> Inside(list[j])]
             R == {e \in (1 .. N) \X (1 .. N) : ListBefore(inside[e[1]].members, inside[e[2]].members)}
             s == SortNets(list)
  <1>1. N \in Nat /\ DOMAIN list = 1 .. N /\ \A i \in 1 .. N : list[i] \in NetOf(names)
    OBVIOUS
  <1>2. \A i \in 1 .. N : inside[i] = Inside(list[i]) /\ inside[i] \in NetOf(names) /\ inside[i].members \in Seq(Member)
    <2>1. TAKE i \in 1 .. N
    <2>2. list[i].members \in Seq(Member) /\ list[i].name \in names
      BY <1>1 DEF NetOf
    <2>3. SortMembers(list[i].members) \in Seq(Member)
      BY <2>2, SortMembersIs
    <2>4. QED
      BY <2>2, <2>3 DEF Inside, NetOf
  <1>3. DOMAIN inside = 1 .. N
    OBVIOUS
  <1>4. inside = [j \in DOMAIN list |-> [list[j] EXCEPT !.members = SortMembers(@)]]
    <2>1. \A j \in 1 .. N : [list[j] EXCEPT !.members = SortMembers(@)] = Inside(list[j])
      <3>1. TAKE j \in 1 .. N
      <3>2. list[j] \in NetOf(names)
        BY <1>1
      <3>3. QED
        BY <3>2 DEF NetOf, Inside
    <2>2. QED
      BY <1>1, <2>1
  <1> HIDE DEF inside, N
  <1>5. s = Sorted(inside, LAMBDA a, b : ListBefore(a.members, b.members))
    BY <1>4 DEF SortNets
  <1>6. \A i, j \in 1 .. N : <<i, j>> \in R <=> ListBefore(inside[i].members, inside[j].members)
    OBVIOUS
  <1> HIDE DEF R
  <1>7. s = Arranged(inside, Ahead(R, N))
    <2>1. s = Arranged(inside, [i \in 1 .. N |->
                {j \in 1 .. N : IF j < i THEN ~ ListBefore(inside[i].members, inside[j].members)
                                         ELSE ListBefore(inside[j].members, inside[i].members)}])
      BY <1>3, <1>5 DEF Sorted
    <2>2. Ahead(R, N) = [i \in 1 .. N |->
                {j \in 1 .. N : IF j < i THEN ~ ListBefore(inside[i].members, inside[j].members)
                                         ELSE ListBefore(inside[j].members, inside[i].members)}]
      BY <1>6 DEF Ahead
    <2>3. QED
      BY <2>1, <2>2
  <1> HIDE DEF s
  <1>8. Weak(R, N)
    <2>1. SUFFICES ASSUME NEW i \in 1 .. N, NEW j \in 1 .. N, NEW k \in 1 .. N
                   PROVE  /\ <<i, i>> \notin R
                          /\ <<i, j>> \in R /\ <<j, k>> \in R => <<i, k>> \in R
                          /\ <<i, k>> \in R => <<i, j>> \in R \/ <<j, k>> \in R
      BY DEF Weak
    <2> DEFINE a == inside[i].members
               b == inside[j].members
               c == inside[k].members
    <2>2. a \in Seq(Member) /\ b \in Seq(Member) /\ c \in Seq(Member)
      BY <1>2
    <2>3. /\ <<i, i>> \in R <=> ListBefore(a, a)
          /\ <<i, j>> \in R <=> ListBefore(a, b)
          /\ <<j, k>> \in R <=> ListBefore(b, c)
          /\ <<i, k>> \in R <=> ListBefore(a, c)
      BY <1>6
    <2> HIDE DEF a, b, c
    <2>4. ListBefore(a, c) => ListBefore(a, b) \/ ListBefore(b, c)
      <3>1. CASE a = b
        BY <3>1
      <3>2. CASE a # b
        BY <2>2, <3>2, ListBeforeIsStrict
      <3>3. QED
        BY <3>1, <3>2
    <2>5. QED
      BY <2>2, <2>3, <2>4, ListBeforeIsStrict
  <1>9. Linear(1 .. N, Ahead(R, N))
    BY <1>1, <1>8, AheadIsLinear DEF N
  <1>10. InPlace(inside, 1 .. N, Ahead(R, N), s)
    <2>1. 1 .. N \in SUBSET (1 .. N)
      OBVIOUS
    <2>2. QED
      BY <1>1, <1>7, <1>9, <2>1, ArrangedIs DEF N
  <1>11. Cardinality(1 .. N) = N
    <2>1. N \in Nat
      BY <1>1
    <2>2. Cardinality(1 .. N) = IF 1 > N THEN 0 ELSE N - 1 + 1
      BY <2>1, FS_Interval
    <2>3. QED
      BY <2>1, <2>2
  <1>12. /\ s = [p \in 1 .. N |-> s[p]]
         /\ \A p \in 1 .. N : \E i \in 1 .. N : s[p] = inside[i]
         /\ \A i \in 1 .. N : \E p \in 1 .. N : s[p] = inside[i]
    BY <1>10, <1>11 DEF InPlace
  <1>13. s \in Seq(NetOf(names)) /\ Len(s) = N
    <2>1. \A p \in 1 .. N : s[p] \in NetOf(names)
      BY <1>2, <1>12
    <2>2. N \in Nat
      BY DEF N
    <2>3. QED
      BY <1>12, <2>1, <2>2, IsSequence
  <1>14. QED
    BY <1>2, <1>12, <1>13 DEF s, N

LEMMA RemoveFromIs ==
  ASSUME NEW names, NoName \in names, NEW list \in Seq(NetOf(names)), NEW i
  PROVE  RemoveFrom(list, i) \in Seq(NetOf(names))
  <1> DEFINE on       == {j \in DOMAIN list : TouchesNet(list[j], i)}
             off      == {j \in DOMAIN list : ~ TouchesNet(list[j], i)}
             touching == Picked(list, on)
             flat     == FlattenSeq([x \in DOMAIN touching |-> touching[x].members])
             rest     == {j \in DOMAIN flat : ~ On(flat[j], i)}
             kept     == Picked(flat, rest)
             called   == {j \in DOMAIN touching : touching[j].name # NoName}
             named    == Picked(touching, called)
             merged   == [members |-> SortMembers(kept),
                          name    |-> IF named = << >> THEN NoName ELSE Head(named).name]
  <1>1. RemoveFrom(list, i) = Picked(list, off) \o IF kept = << >> THEN << >> ELSE <<merged>>
    BY DEF RemoveFrom, Selected, Picked, Upto
  <1>2. touching \in Seq(NetOf(names))
    <2>1. on \in SUBSET (1 .. Len(list))
      OBVIOUS
    <2> HIDE DEF on
    <2>2. QED
      BY <2>1, PickedIs
  <1>3. Picked(list, off) \in Seq(NetOf(names))
    <2>1. off \in SUBSET (1 .. Len(list))
      OBVIOUS
    <2> HIDE DEF off
    <2>2. QED
      BY <2>1, PickedIs
  <1> HIDE DEF on, off, touching
  <1>4. flat \in Seq(Member)
    <2>1. [x \in DOMAIN touching |-> touching[x].members] \in Seq(Seq(Member))
      <3>1. Len(touching) \in Nat /\ DOMAIN touching = 1 .. Len(touching)
            /\ \A x \in 1 .. Len(touching) : touching[x].members \in Seq(Member)
        <4>1. Len(touching) \in Nat /\ DOMAIN touching = 1 .. Len(touching)
              /\ \A x \in 1 .. Len(touching) : touching[x] \in NetOf(names)
          BY <1>2
        <4>2. \A n \in NetOf(names) : n.members \in Seq(Member)
          BY DEF NetOf
        <4>3. QED
          BY <4>1, <4>2
      <3>2. QED
        BY <3>1
    <2>2. QED
      BY <2>1, FlatIs
  <1> HIDE DEF flat
  <1>5. kept \in Seq(Member)
    <2>1. rest \in SUBSET (1 .. Len(flat))
      BY <1>4
    <2> HIDE DEF rest
    <2>2. QED
      BY <1>4, <2>1, PickedIs
  <1>6. named \in Seq(NetOf(names))
    <2>1. called \in SUBSET (1 .. Len(touching))
      BY <1>2
    <2> HIDE DEF called
    <2>2. QED
      BY <1>2, <2>1, PickedIs
  <1> HIDE DEF kept, named
  <1>7. merged \in NetOf(names)
    <2>1. SortMembers(kept) \in Seq(Member)
      BY <1>5, SortMembersIs
    <2>2. (IF named = << >> THEN NoName ELSE Head(named).name) \in names
      <3>1. CASE named = << >>
        BY <3>1
      <3>2. CASE named # << >>
        <4>1. Head(named) \in NetOf(names)
          BY <1>6, <3>2
        <4>2. Head(named).name \in names
          BY <4>1 DEF NetOf
        <4>3. QED
          BY <3>2, <4>2
      <3>3. QED
        BY <3>1, <3>2
    <2>3. QED
      BY <2>1, <2>2 DEF NetOf
  <1> HIDE DEF merged
  <1>8. (IF kept = << >> THEN << >> ELSE <<merged>>) \in Seq(NetOf(names))
    BY <1>7
  <1>9. QED
    BY <1>1, <1>3, <1>8, ConcatProperties
--------------------------------------------------------------------------------
(* Rows that start alike compare as what follows does.                     *)
LEMMA Fields ==
  ASSUME NEW k \in Nat \ {0}, NEW m \in Row(k + 1), NEW n \in Row(k + 1), NEW r \in Row(k), NEW q \in Row(k),
         \A i \in 1 .. k : r[i] = m[i + 1] /\ q[i] = n[i + 1], m[1] = n[1]
  PROVE  (Before(r, q) <=> Before(m, n)) /\ (r = q <=> m = n)
  <1>1. /\ DOMAIN m = 1 .. k + 1 /\ DOMAIN n = 1 .. k + 1 /\ DOMAIN r = 1 .. k /\ DOMAIN q = 1 .. k
        /\ \A i \in 1 .. k + 1 : m[i] \in Int /\ n[i] \in Int
    BY DEF Row
  <1>2. \A i \in 1 .. k + 1 : i # 1 => i - 1 \in 1 .. k /\ m[i] = r[i - 1] /\ n[i] = q[i - 1]
    <2> TAKE i \in 1 .. k + 1
    <2> HAVE i # 1
    <2>1. i - 1 \in 1 .. k /\ (i - 1) + 1 = i
      OBVIOUS
    <2>2. QED
      BY <2>1
  <1>3. ASSUME Before(r, q) PROVE Before(m, n)
    <2>1. PICK i \in 1 .. k : r[i] < q[i] /\ \A j \in 1 .. i - 1 : r[j] = q[j]
      BY <1>1, <1>3 DEF Before
    <2>2. i + 1 \in 1 .. k + 1 /\ m[i + 1] < n[i + 1]
      BY <2>1
    <2>3. ASSUME NEW j \in 1 .. (i + 1) - 1 PROVE m[j] = n[j]
      <3>1. CASE j = 1
        BY <3>1
      <3>2. CASE j # 1
        <4>1. j \in 1 .. k + 1 /\ j - 1 \in 1 .. i - 1
          BY <3>2
        <4>2. QED
          BY <1>2, <2>1, <3>2, <4>1
      <3>3. QED
        BY <3>1, <3>2
    <2>4. QED
      BY <1>1, <2>2, <2>3 DEF Before
  <1>4. ASSUME Before(m, n) PROVE Before(r, q)
    <2>1. PICK i \in 1 .. k + 1 : m[i] < n[i] /\ \A j \in 1 .. i - 1 : m[j] = n[j]
      BY <1>1, <1>4 DEF Before
    <2>2. i # 1
      BY <1>1, <2>1
    <2>3. i - 1 \in 1 .. k /\ r[i - 1] < q[i - 1]
      BY <1>2, <2>1, <2>2
    <2>4. ASSUME NEW j \in 1 .. (i - 1) - 1 PROVE r[j] = q[j]
      <3>1. j \in 1 .. k /\ j + 1 \in 1 .. i - 1
        OBVIOUS
      <3>2. QED
        BY <2>1, <3>1
    <2>5. QED
      BY <1>1, <2>3, <2>4 DEF Before
  <1>5. r = q <=> m = n
    <2>1. ASSUME r = q PROVE m = n
      <3>1. \A i \in 1 .. k + 1 : m[i] = n[i]
        BY <1>2, <2>1
      <3>2. QED
        BY <3>1 DEF Row
    <2>2. ASSUME m = n PROVE r = q
      <3>1. \A i \in 1 .. k : r[i] = q[i]
        BY <2>2
      <3>2. QED
        BY <3>1 DEF Row
    <2>3. QED
      BY <2>1, <2>2
  <1>6. QED
    BY <1>3, <1>4, <1>5

(* Rows of different kinds compare as their kinds do.                      *)
LEMMA First ==
  ASSUME NEW k \in Nat \ {0}, NEW l \in Nat \ {0}, NEW m \in Row(k), NEW n \in Row(l), m[1] # n[1]
  PROVE  Before(m, n) <=> m[1] < n[1]
  <1>1. DOMAIN m = 1 .. k /\ DOMAIN n = 1 .. l /\ 1 \in DOMAIN m \cap DOMAIN n
    BY DEF Row
  <1>2. ASSUME m[1] < n[1] PROVE Before(m, n)
    BY <1>1, <1>2 DEF Before
  <1>3. ASSUME Before(m, n) PROVE m[1] < n[1]
    <2>1. PICK i \in DOMAIN m \cap DOMAIN n : m[i] < n[i] /\ \A j \in 1 .. i - 1 : m[j] = n[j]
      BY <1>3 DEF Before
    <2>2. i = 1
      BY <1>1, <2>1
    <2>3. QED
      BY <2>1, <2>2
  <1>4. QED
    BY <1>2, <1>3

(* The fields a class reads are what follows the kind.                      *)
LEMMA RowIsSequence ==
  ASSUME NEW k \in Nat \ {0}, NEW m \in Row(k + 1)
  PROVE  LET r == SubSeq(m, 2, k + 1)
         IN  r \in Row(k) /\ \A i \in 1 .. k : r[i] = m[i + 1]
  <1> DEFINE r == SubSeq(m, 2, k + 1)
  <1>1. \A i \in 2 .. k + 1 : m[i] \in Int
    BY DEF Row
  <1>2. /\ r \in Seq(Int)
        /\ Len(r) = IF 2 <= k + 1 THEN (k + 1) - 2 + 1 ELSE 0
        /\ \A i \in 1 .. (k + 1) - 2 + 1 : r[i] = m[2 + i - 1]
    BY <1>1, SubSeqProperties
  <1> HIDE DEF r
  <1>3. Len(r) = k /\ (k + 1) - 2 + 1 = k /\ \A i \in 1 .. k : 2 + i - 1 = i + 1
    BY <1>2
  <1>4. r \in [1 .. k -> Int]
    BY <1>2, <1>3, LenProperties
  <1>5. QED
    BY <1>2, <1>3, <1>4 DEF Row, r

(* A member is as wide as its kind says.                                   *)
LEMMA Kinds ==
  ASSUME NEW m \in Member
  PROVE  /\ m[1] \in {0, 1, 2}
         /\ \E k \in Nat \ {0} : Width(m) = k + 1 /\ m \in Row(k + 1)
  <1>1. CASE m \in Row(2) /\ m[1] = 0
    <2>1. Width(m) = 1 + 1 /\ m \in Row(1 + 1)
      BY <1>1 DEF Width
    <2>2. QED
      BY <1>1, <2>1
  <1>2. CASE m \in Row(3) /\ m[1] = 1
    <2>1. Width(m) = 2 + 1 /\ m \in Row(2 + 1)
      BY <1>2 DEF Width
    <2>2. QED
      BY <1>2, <2>1
  <1>3. CASE m \in Row(5) /\ m[1] = 2
    <2>1. Width(m) = 4 + 1 /\ m \in Row(4 + 1)
      BY <1>3 DEF Width
    <2>2. QED
      BY <1>3, <2>1
  <1>4. QED
    BY <1>1, <1>2, <1>3 DEF Member

(* One class, asked directly, tells the derived order and equality.        *)
LEMMA Compared ==
  ASSUME NEW m \in Member, NEW n \in Member
  PROVE  (LT(m, n) <=> Before(m, n)) /\ (EQ(m, n) <=> m = n)
  <1>1. PICK k \in Nat \ {0} : Width(m) = k + 1 /\ m \in Row(k + 1)
    BY Kinds
  <1>2. PICK l \in Nat \ {0} : Width(n) = l + 1 /\ n \in Row(l + 1)
    BY Kinds
  <1>3. CASE m[1] = n[1]
    <2>1. k = l
      BY <1>1, <1>2, <1>3 DEF Width
    <2> DEFINE r == SubSeq(m, 2, k + 1)
               q == SubSeq(n, 2, k + 1)
    <2>2. FieldsAs(m[1], m) = r /\ FieldsAs(m[1], n) = q
      BY <1>1 DEF FieldsAs, Width
    <2>3. r \in Row(k) /\ q \in Row(k) /\ \A i \in 1 .. k : r[i] = m[i + 1] /\ q[i] = n[i + 1]
      BY <1>1, <1>2, <2>1, RowIsSequence
    <2> HIDE DEF r, q
    <2>4. (Before(r, q) <=> Before(m, n)) /\ (r = q <=> m = n)
      BY <1>1, <1>2, <1>3, <2>1, <2>3, Fields
    <2>5. QED
      BY <1>3, <2>2, <2>4 DEF LT, EQ, KindOf
  <1>4. CASE m[1] # n[1]
    <2>1. Before(m, n) <=> m[1] < n[1]
      <3>1. k + 1 \in Nat \ {0} /\ l + 1 \in Nat \ {0}
        OBVIOUS
      <3>2. QED
        BY <1>1, <1>2, <1>4, <3>1, First
    <2>2. m # n
      BY <1>4
    <2>3. QED
      BY <1>4, <2>1, <2>2 DEF LT, EQ, KindOf
  <1>5. QED
    BY <1>3, <1>4

(* `a < b` and `a == b` of NetlistPort, PortRef and PortArrayRef objects   *)
(* are the order and the equality of the core's NetMember, also when       *)
(* Python asks the second operand because its class is the derived one.    *)
THEOREM PythonOrder ==
  ASSUME NEW m \in Member, NEW n \in Member
  PROVE  /\ PyLess(m, n) <=> Before(m, n)
         /\ PyEqual(m, n) <=> m = n
  <1>1. CASE m[1] = 1 /\ n[1] = 2
    <2>1. /\ m \in Row(3) /\ n \in Row(5)
      BY <1>1 DEF Member
    <2>2. Before(m, n) /\ ~ Before(n, m) /\ m # n
      BY <1>1, <2>1, First
    <2>3. QED
      BY <1>1, <2>2, Compared DEF PyLess, PyEqual, GT
  <1>2. CASE ~ (m[1] = 1 /\ n[1] = 2)
    BY <1>2, Compared DEF PyLess, PyEqual
  <1>3. QED
    BY <1>1, <1>2
--------------------------------------------------------------------------------
(* The maps are functions: one that is not empty has an instance.          *)
IsMap(f) == f = [x \in DOMAIN f |-> f[x]]
IInv     == InstancesTyped /\ AttributesFollow /\ use \in Callers /\ IsMap(instances)

(* What is in the JSON of an instance, field by field.                     *)
LEMMA WhatIsWritten ==
  ASSUME NEW inst
  PROVE  LET d == WriteInstance(inst)
         IN  /\ DOMAIN d = {"component", "settings", "array", "netlist_id"} \ Skipped(inst)
             /\ d.component = inst.component
             /\ d.settings = Given(inst)
             /\ inst.array # NoArray => d.array = inst.array
             /\ inst.ref # NoCell => d.netlist_id = inst.ref
  BY DEF WriteInstance, Without, Skipped, Given

(* The one value read of an instance that was written: the instance, with  *)
(* {} for null settings.                                                   *)
LEMMA InstanceKept ==
  ASSUME NEW inst, inst.ref \in Cell \cup {NoCell}
  PROVE  ReadInstance(WriteInstance(inst)) =
           {[component |-> inst.component, settings |-> Given(inst),
             array |-> inst.array, ref |-> inst.ref]}
  <1> DEFINE d == WriteInstance(inst)
  <1>1. /\ DOMAIN d = {"component", "settings", "array", "netlist_id"} \ Skipped(inst)
        /\ d.component = inst.component /\ d.settings = Given(inst)
        /\ inst.array # NoArray => d.array = inst.array
        /\ inst.ref # NoCell => d.netlist_id = inst.ref
    BY WhatIsWritten
  <1> HIDE DEF d
  <1>2. /\ "array" \in DOMAIN d <=> inst.array # NoArray
        /\ "netlist_id" \in DOMAIN d <=> inst.ref # NoCell
        /\ "settings" \in DOMAIN d /\ "component" \in DOMAIN d
    BY <1>1 DEF Skipped
  <1>3. /\ Optional(d, "settings", Null) = Given(inst)
        /\ Optional(d, "array", NoArray) = inst.array
        /\ Optional(d, "netlist_id", NoCell) = inst.ref
    BY <1>1, <1>2 DEF Optional
  <1>4. ReferenceOf(d) = {inst.ref}
    BY <1>3 DEF ReferenceOf
  <1>5. DOMAIN d \subseteq LeafFields \cup {"netlist_id"}
    BY <1>1 DEF LeafFields
  <1>6. ReadInstance(d) = InstancesOf(d)
    BY <1>2, <1>5 DEF ReadInstance
  <1>7. QED
    BY <1>1, <1>3, <1>4, <1>6 DEF InstancesOf, d

(* The same for a placed one: its attributes are read with it.             *)
LEMMA PlacedInstanceKept ==
  ASSUME NEW inst, inst.ref \in Cell \cup {NoCell}, NEW extra
  PROVE  ReadPlacedInstance(WritePlacedInstance(inst, extra)) =
           {[inst  |-> [component |-> inst.component, settings |-> Given(inst),
                        array |-> inst.array, ref |-> inst.ref],
             extra |-> [cell |-> extra.cell, at |-> extra.at]]}
  <1> DEFINE d == WriteInstance(inst)
             p == WritePlacedInstance(inst, extra)
  <1>1. /\ DOMAIN d = {"component", "settings", "array", "netlist_id"} \ Skipped(inst)
        /\ d.component = inst.component /\ d.settings = Given(inst)
        /\ inst.array # NoArray => d.array = inst.array
        /\ inst.ref # NoCell => d.netlist_id = inst.ref
    BY WhatIsWritten
  <1>2. p = With(With(d, "cell", extra.cell), "placement", extra.at)
    BY DEF WritePlacedInstance
  <1> HIDE DEF d, p
  <1>3. /\ DOMAIN p = DOMAIN d \cup {"cell", "placement"}
        /\ p.cell = extra.cell /\ p.placement = extra.at
        /\ \A f \in DOMAIN d \ {"cell", "placement"} : p[f] = d[f]
    BY <1>2 DEF With
  <1>4. /\ "array" \in DOMAIN p <=> inst.array # NoArray
        /\ "netlist_id" \in DOMAIN p <=> inst.ref # NoCell
        /\ "settings" \in DOMAIN p /\ "component" \in DOMAIN p
        /\ "cell" \in DOMAIN p /\ "placement" \in DOMAIN p
    BY <1>1, <1>3 DEF Skipped
  <1>5. /\ p.component = inst.component /\ p.settings = Given(inst)
        /\ inst.array # NoArray => p.array = inst.array
        /\ inst.ref # NoCell => p.netlist_id = inst.ref
    BY <1>1, <1>3 DEF Skipped
  <1>6. /\ Optional(p, "settings", Null) = Given(inst)
        /\ Optional(p, "array", NoArray) = inst.array
        /\ Optional(p, "netlist_id", NoCell) = inst.ref
        /\ Optional(p, "cell", NoCell) = extra.cell
    BY <1>3, <1>4, <1>5 DEF Optional
  <1>7. ReferenceOf(p) = {inst.ref}
    BY <1>6 DEF ReferenceOf
  <1>8. InstancesOf(p) = {[component |-> inst.component, settings |-> Given(inst),
                           array |-> inst.array, ref |-> inst.ref]}
    BY <1>5, <1>6, <1>7 DEF InstancesOf
  <1>9. DOMAIN p \subseteq PlacedFields
    BY <1>1, <1>3 DEF LeafFields, PlacedFields
  <1>10. QED
    BY <1>3, <1>4, <1>6, <1>8, <1>9 DEF ReadPlacedInstance, p

(* A map is read when all of its elements are, each as one of its values.  *)
LEMMA AllOf ==
  ASSUME NEW read, NEW v \in All(read)
  PROVE  /\ DOMAIN v = DOMAIN read /\ IsMap(v)
         /\ \A x \in DOMAIN read : v[x] \in read[x]
  BY DEF All, IsMap

(* A reader that takes an instance takes one that is well typed, with the  *)
(* reference the text has.                                                 *)
LEMMA InstanceRead ==
  ASSUME NEW d, IsDocument(d), NEW inst \in InstancesOf(d), "component" \in DOMAIN d
  PROVE  /\ IsInstance(inst) /\ inst.component = d.component
         /\ inst.ref = Optional(d, "netlist_id", NoCell)
  BY DEF InstancesOf, ReferenceOf, IsDocument, IsInstance, Typed
--------------------------------------------------------------------------------
(* Normalizing a setting keeps its value, but for 2^63 and 2^64 as floats, *)
(* and leaves nothing to normalize.                                        *)
LEMMA ValueKept ==
  ASSUME NEW v \in Number, IsNumber(v)
  PROVE  LET w == NormalizeValue(v)
         IN  /\ w \in Number /\ NormalizeValue(w) = w
             /\ IF v.type = "float" /\ v.num \in {2 * Top63, 4 * Top63} THEN w.num = v.num - 2
                ELSE w.num = v.num
  <1> DEFINE f == v.num \div 2
             w == NormalizeValue(v)
             high == IF f <= Top63 THEN Top63 - 1 ELSE 2 * Top63 - 1
  <1>1. v.num \in Int /\ v.type \in {"int", "float"} /\ Top63 \in Nat \ {0}
    BY WireFormatsAssumption DEF Number
  <1>2. CASE w = v
    <2>1. v.num \in {2 * Top63, 4 * Top63} => Integral(v) /\ f \in {Top63, 2 * Top63}
      BY <1>1 DEF Integral
    <2>2. v.type = "float" => v.num \notin {2 * Top63, 4 * Top63}
      <3>1. SUFFICES ASSUME v.type = "float", v.num \in {2 * Top63, 4 * Top63}
                     PROVE  FALSE
        OBVIOUS
      <3>2. f \in - Top63 .. 2 * Top63
        BY <1>1, <2>1, <3>1
      <3>3. w = AsInt(Smaller(f, high))
        BY <2>1, <3>1, <3>2 DEF NormalizeValue
      <3>4. w.type = "int"
        BY <3>3 DEF AsInt
      <3>5. QED
        BY <1>2, <3>1, <3>4
    <2>3. QED
      BY <1>2, <2>2
  <1>3. CASE w # v
    <2>1. /\ IsNumber(v) /\ v.type = "float" /\ Integral(v) /\ f \in - Top63 .. 2 * Top63
          /\ w = AsInt(Smaller(f, high))
      BY <1>1, <1>3 DEF NormalizeValue
    <2>2. v.num = 2 * f /\ f \in Int
      BY <1>1, <2>1 DEF Integral
    <2>3. w = [type |-> "int", num |-> 2 * Smaller(f, high)] /\ w \in Number
      BY <1>1, <2>1, <2>2 DEF AsInt, Smaller, Number
    <2>4. NormalizeValue(w) = w
      BY <2>3 DEF NormalizeValue
    <2> HIDE DEF f, w
    <2>5. Smaller(f, high) = IF f \in {Top63, 2 * Top63} THEN f - 1 ELSE f
      BY <1>1, <2>1, <2>2 DEF Smaller
    <2>6. QED
      BY <1>1, <2>1, <2>2, <2>3, <2>4, <2>5 DEF w
  <1>4. QED
    BY <1>2, <1>3
--------------------------------------------------------------------------------
(* A netlist that is read has the instances of its text.                   *)
LEMMA PlainRead ==
  ASSUME NEW d, NEW o \in ReadNetlist(d)
  PROVE  /\ DOMAIN o.instances = DOMAIN d.instances /\ IsMap(o.instances) /\ o.extras = << >>
         /\ \A i \in DOMAIN d.instances : o.instances[i] \in ReadInstance(d.instances[i])
  <1> DEFINE read == [i \in DOMAIN d.instances |-> ReadInstance(d.instances[i])]
  <1>1. PICK insts \in All(read) : o.instances = insts /\ o.extras = << >>
    BY DEF ReadNetlist
  <1>2. /\ DOMAIN insts = DOMAIN read /\ IsMap(insts)
        /\ \A i \in DOMAIN read : insts[i] \in read[i]
    <2> HIDE DEF read
    <2> QED BY <1>1, AllOf
  <1>3. QED
    BY <1>1, <1>2

LEMMA PlacedRead ==
  ASSUME NEW d, NEW o \in ReadPlacedNetlist(d)
  PROVE  /\ DOMAIN o.instances = DOMAIN d.instances /\ IsMap(o.instances)
         /\ DOMAIN o.extras = DOMAIN d.instances
         /\ \A i \in DOMAIN d.instances : \E e \in ReadPlacedInstance(d.instances[i]) :
               o.instances[i] = e.inst /\ o.extras[i] = e.extra
  <1> DEFINE read == [i \in DOMAIN d.instances |-> ReadPlacedInstance(d.instances[i])]
  <1>1. PICK both \in All(read), list \in ReadNets(d.nets) :
          o = [instances |-> [i \in DOMAIN both |-> both[i].inst],
               extras    |-> [i \in DOMAIN both |-> both[i].extra],
               nets |-> list, ports |-> d.ports]
    <2> HIDE DEF All
    <2> QED BY DEF ReadPlacedNetlist
  <1>2. DOMAIN both = DOMAIN read /\ \A i \in DOMAIN read : both[i] \in read[i]
    <2> HIDE DEF read
    <2> QED BY <1>1, AllOf
  <1>3. QED
    BY <1>1, <1>2 DEF IsMap
--------------------------------------------------------------------------------
LEMMA ExtraFields ==
  ASSUME NEW c, NEW a, NEW x, x = [cell |-> c, at |-> a]
  PROVE  x.cell = c /\ x = [cell |-> x.cell, at |-> x.at]
  OBVIOUS

LEMMA EmptyMap == DOMAIN << >> = {} /\ IsMap(<< >>)
  BY DEF IsMap

LEMMA Initially == Init => IInv
  <1> SUFFICES ASSUME Init PROVE IInv
    OBVIOUS
  <1>1. placed = FALSE /\ instances = << >> /\ extras = << >> /\ behind = {} /\ use \in Callers
    BY DEF Init
  <1>2. InstancesTyped /\ AttributesFollow
    BY <1>1, EmptyMap DEF InstancesTyped, AttributesFollow
  <1>3. QED
    BY <1>1, <1>2, EmptyMap DEF IInv

LEMMA Untouched ==
  ASSUME IInv, UNCHANGED <<placed, instances, extras, behind, use>>
  PROVE  IInv'
  BY DEF IInv, InstancesTyped, AttributesFollow, Shown, IsMap

LEMMA CreateStep ==
  ASSUME IInv, NEW i \in Inst, NEW inst \in use.insts, NEW attributed \in BOOLEAN, NEW base \in BOOLEAN,
         CreateInst(i, inst, attributed, base)
  PROVE  IInv'
  <1> DEFINE x == IF attributed THEN [cell |-> inst.component, at |-> Here] ELSE Default
  <1>1. /\ InstancesTyped /\ AttributesFollow /\ use \in Callers /\ IsMap(instances)
        /\ IsInstance(inst)
    BY CallersAssumption DEF IInv
  <1>2. /\ placed' = placed /\ use' = use
        /\ instances' = With(instances, i, inst) /\ extras' = Attach(i, x, base)
        /\ behind' = IF ~ placed THEN {} ELSE IF base THEN behind \cup {i} ELSE behind \ {i}
    BY DEF CreateInst
  <1>3. /\ x.cell \in {NoCell, inst.component} /\ inst.component \in Cell
        /\ x = [cell |-> x.cell, at |-> x.at]
    BY <1>1 DEF Default, IsInstance, Typed
  <1> HIDE DEF x
  <1>4. /\ DOMAIN instances' = DOMAIN instances \cup {i} /\ instances'[i] = inst
        /\ \A j \in DOMAIN instances \ {i} : instances'[j] = instances[j]
        /\ IsMap(instances')
    BY <1>2 DEF With, IsMap
  <1>5. CASE placed /\ ~ base
    <2>1. /\ DOMAIN extras' = DOMAIN extras \cup {i} /\ extras'[i] = x
          /\ \A j \in DOMAIN extras \ {i} : extras'[j] = extras[j]
          /\ behind' = behind \ {i}
      BY <1>2, <1>5 DEF Attach, With
    <2>2. InstancesTyped'
      BY <1>1, <1>2, <1>3, <1>4, <2>1 DEF InstancesTyped
    <2>3. AttributesFollow'
      BY <1>1, <1>2, <1>3, <1>4, <1>5, <2>1 DEF AttributesFollow, Shown, Optional
    <2>4. QED
      BY <1>1, <1>2, <1>4, <2>2, <2>3 DEF IInv
  <1>6. CASE ~ placed \/ base
    <2>1. extras' = extras
      BY <1>2, <1>6 DEF Attach
    <2>2. InstancesTyped'
      BY <1>1, <1>2, <1>4, <1>6, <2>1 DEF InstancesTyped
    <2>3. AttributesFollow'
      <3>1. CASE placed
        BY <1>1, <1>2, <1>4, <1>6, <2>1, <3>1 DEF AttributesFollow, Shown, Optional
      <3>2. CASE ~ placed
        BY <1>1, <1>2, <1>4, <2>1, <3>2 DEF AttributesFollow, Shown, Optional, Default
      <3>3. QED
        BY <3>1, <3>2
    <2>4. QED
      BY <1>1, <1>2, <1>4, <2>2, <2>3 DEF IInv
  <1>7. QED
    BY <1>5, <1>6

LEMMA RemoveStep ==
  ASSUME IInv, NEW names \in use.removals, NEW base \in BOOLEAN, RemoveInstances(names, base)
  PROVE  IInv'
  <1> DEFINE S == ToSet(names)
  <1>1. InstancesTyped /\ AttributesFollow /\ use \in Callers /\ IsMap(instances)
    BY DEF IInv
  <1>2. S \subseteq Inst
    <2>1. names \in Seq(Inst)
      BY <1>1, CallersAssumption
    <2>2. QED
      BY <2>1 DEF ToSet
  <1>3. /\ placed' = placed /\ use' = use
        /\ instances' = Without(instances, S)
        /\ extras' = IF placed /\ ~ base THEN Without(extras, S) ELSE extras
        /\ behind' = IF ~ placed THEN {} ELSE IF base THEN behind \cup S ELSE behind \ S
    BY DEF RemoveInstances, Forget
  <1> HIDE DEF S
  <1>4. /\ DOMAIN instances' = DOMAIN instances \ S
        /\ \A j \in DOMAIN instances \ S : instances'[j] = instances[j]
        /\ IsMap(instances')
    BY <1>3 DEF Without, IsMap
  <1>5. CASE placed /\ ~ base
    <2>1. /\ DOMAIN extras' = DOMAIN extras \ S /\ behind' = behind \ S
          /\ \A j \in DOMAIN extras \ S : extras'[j] = extras[j]
      BY <1>3, <1>5 DEF Without
    <2>2. InstancesTyped'
      BY <1>1, <1>3, <1>4, <2>1 DEF InstancesTyped
    <2>3. AttributesFollow'
      BY <1>1, <1>3, <1>4, <1>5, <2>1 DEF AttributesFollow, Shown, Optional
    <2>4. QED
      BY <1>1, <1>3, <1>4, <2>2, <2>3 DEF IInv
  <1>6. CASE ~ placed \/ base
    <2>1. extras' = extras
      BY <1>3, <1>6
    <2>2. InstancesTyped'
      BY <1>1, <1>2, <1>3, <1>4, <1>6, <2>1 DEF InstancesTyped
    <2>3. AttributesFollow'
      <3>1. CASE placed
        BY <1>1, <1>3, <1>4, <1>6, <2>1, <3>1 DEF AttributesFollow, Shown, Optional
      <3>2. CASE ~ placed
        BY <1>1, <1>3, <1>4, <2>1, <3>2 DEF AttributesFollow, Shown, Optional, Default
      <3>3. QED
        BY <3>1, <3>2
    <2>4. QED
      BY <1>1, <1>3, <1>4, <2>2, <2>3 DEF IInv
  <1>7. QED
    BY <1>5, <1>6

LEMMA UpgradeStep ==
  ASSUME IInv, NEW P \in SUBSET use.names, NEW Q \in SUBSET use.names, FromNetlist(P, Q)
  PROVE  IInv'
  <1>1. InstancesTyped /\ AttributesFollow /\ use \in Callers /\ IsMap(instances)
    BY DEF IInv
  <1>2. /\ placed' = TRUE /\ use' = use /\ instances' = instances /\ behind' = {}
        /\ extras' = Within(MergeExtras(P, Q), DOMAIN instances)
    BY DEF FromNetlist, Retained
  <1>3. /\ DOMAIN extras' \subseteq DOMAIN instances
        /\ \A i \in DOMAIN extras' : /\ extras'[i].cell \in {NoCell, instances[i].component}
                                    /\ extras'[i] = [cell |-> extras'[i].cell, at |-> extras'[i].at]
    BY <1>2 DEF Within, MergeExtras, CellFor
  <1>4. InstancesTyped'
    BY <1>1, <1>2, <1>3 DEF InstancesTyped, IsInstance, Typed
  <1>5. AttributesFollow'
    BY <1>2, <1>3 DEF AttributesFollow, Shown, Optional, Default
  <1>6. QED
    BY <1>1, <1>2, <1>4, <1>5 DEF IInv

LEMMA NormalizeStep ==
  ASSUME IInv, NormalizeNetlist
  PROVE  IInv'
  <1>1. InstancesTyped /\ use \in Callers /\ IsMap(instances)
    BY DEF IInv
  <1>2. /\ placed' = FALSE /\ extras' = << >> /\ behind' = {} /\ use' = use
        /\ instances' = [i \in DOMAIN instances |->
                           With(instances[i], "settings", NormalizeValue(instances[i].settings))]
    BY DEF NormalizeNetlist
  <1>3. \A i \in DOMAIN instances : IsInstance(instances'[i])
    <2> TAKE i \in DOMAIN instances
    <2> DEFINE v == instances[i].settings
               n == instances'[i]
    <2>1. IsInstance(instances[i])
      BY <1>1 DEF InstancesTyped
    <2>2. IsNumber(NormalizeValue(v)) => NormalizeValue(v) \in Number
      <3>1. CASE IsNumber(v)
        BY <2>1, <3>1, ValueKept DEF IsInstance, Typed
      <3>2. CASE ~ IsNumber(v)
        BY <3>2 DEF NormalizeValue
      <3>3. QED
        BY <3>1, <3>2
    <2>3. /\ DOMAIN n = DOMAIN instances[i] \cup {"settings"}
          /\ n.settings = NormalizeValue(v)
          /\ \A f \in DOMAIN instances[i] : f # "settings" => n[f] = instances[i][f]
      BY <1>2 DEF With
    <2>4. n = [component |-> instances[i].component, settings |-> NormalizeValue(v),
               array |-> instances[i].array, ref |-> instances[i].ref]
      <3>1. instances[i] = [component |-> instances[i].component, settings |-> v,
                            array |-> instances[i].array, ref |-> instances[i].ref]
        BY <2>1 DEF IsInstance
      <3>2. DOMAIN instances[i] = {"component", "settings", "array", "ref"}
        BY <3>1
      <3>3. n = With(instances[i], "settings", NormalizeValue(v))
        BY <1>2
      <3> HIDE DEF n, v
      <3>4. QED
        BY <3>2, <3>3 DEF With, v
    <2> HIDE DEF n
    <2>5. QED
      BY <2>1, <2>2, <2>4 DEF IsInstance, Typed, n
  <1>4. DOMAIN instances' = DOMAIN instances /\ IsMap(instances')
    BY <1>2 DEF IsMap
  <1>5. InstancesTyped'
    BY <1>1, <1>2, <1>3, <1>4, EmptyMap DEF InstancesTyped
  <1>6. AttributesFollow'
    BY <1>2, EmptyMap DEF AttributesFollow, Shown, Optional, Default
  <1>7. QED
    BY <1>1, <1>2, <1>4, <1>5, <1>6 DEF IInv

LEMMA FlattenStep ==
  ASSUME IInv, FlattenNothing
  PROVE  IInv'
  <1>1. InstancesTyped /\ AttributesFollow /\ use \in Callers /\ IsMap(instances)
    BY DEF IInv
  <1>2. instances' = instances /\ use' = use
    BY DEF FlattenNothing
  <1>3. CASE FlattenPlain
    <2>1. placed' = FALSE /\ extras' = << >> /\ behind' = {}
      BY <1>3 DEF FlattenPlain
    <2>2. InstancesTyped'
      BY <1>1, <1>2, <2>1, EmptyMap DEF InstancesTyped
    <2>3. AttributesFollow'
      BY <2>1, EmptyMap DEF AttributesFollow, Shown, Optional, Default
    <2>4. QED
      BY <1>1, <1>2, <2>2, <2>3 DEF IInv
  <1>4. CASE FlattenPlaced
    <2>1. /\ placed /\ placed' = placed /\ behind' = behind \cap DOMAIN instances
          /\ DOMAIN extras' = DOMAIN extras \cap DOMAIN instances
          /\ \A i \in DOMAIN extras' : extras'[i] = extras[i]
      BY <1>4 DEF FlattenPlaced, Retained, Within
    <2>2. InstancesTyped'
      BY <1>1, <1>2, <2>1 DEF InstancesTyped
    <2>3. AttributesFollow'
      BY <1>1, <1>2, <2>1 DEF AttributesFollow, Shown, Optional
    <2>4. QED
      BY <1>1, <1>2, <2>2, <2>3 DEF IInv
  <1>5. QED
    BY <1>3, <1>4 DEF FlattenNothing

LEMMA ReloadStep ==
  ASSUME IInv, Reload
  PROVE  IInv'
  <1>1. InstancesTyped /\ AttributesFollow /\ use \in Callers
    BY DEF IInv
  <1>2. PICK o \in Read(Written, placed) : Become(o, placed)
    BY DEF Reload
  <1>3. /\ placed' = placed /\ instances' = o.instances /\ extras' = o.extras /\ use' = use
        /\ behind' = behind \cap DOMAIN instances
    BY <1>2 DEF Become, Reload
  <1>4. \A i \in DOMAIN instances : instances[i].ref \in Cell \cup {NoCell}
    BY <1>1 DEF InstancesTyped, IsInstance
  <1> DEFINE Back(i) == [component |-> instances[i].component, settings |-> Given(instances[i]),
                         array |-> instances[i].array, ref |-> instances[i].ref]
  <1>5. \A i \in DOMAIN instances : IsInstance(Back(i)) /\ Back(i).component = instances[i].component
    <2> TAKE i \in DOMAIN instances
    <2>1. IsInstance(instances[i])
      BY <1>1 DEF InstancesTyped
    <2>2. IsNumber(Given(instances[i])) => Given(instances[i]) \in Number
      BY <2>1 DEF IsInstance, Typed, IsNumber, Given
    <2>3. QED
      BY <2>1, <2>2 DEF IsInstance, Typed
  <1> HIDE DEF Back
  <1>6. CASE ~ placed
    <2>1. o \in ReadNetlist(WriteNetlist(instances, nets, ports))
      BY <1>6 DEF Read, Written
    <2>2. /\ DOMAIN o.instances = DOMAIN instances /\ IsMap(o.instances) /\ o.extras = << >>
          /\ \A i \in DOMAIN instances : o.instances[i] \in ReadInstance(WriteInstance(instances[i]))
      BY <2>1, PlainRead DEF WriteNetlist
    <2>3. \A i \in DOMAIN instances : o.instances[i] = Back(i)
      BY <1>4, <2>2, InstanceKept DEF Back
    <2>4. InstancesTyped'
      BY <1>1, <1>3, <1>5, <1>6, <2>2, <2>3, EmptyMap DEF InstancesTyped
    <2>5. AttributesFollow'
      BY <1>3, <2>2, EmptyMap DEF AttributesFollow, Shown, Optional, Default
    <2>6. QED
      BY <1>1, <1>3, <2>2, <2>4, <2>5 DEF IInv
  <1>7. CASE placed
    <2>1. o \in ReadPlacedNetlist(WritePlacedNetlist(instances, extras, nets, ports))
      BY <1>7 DEF Read, Written
    <2>2. /\ DOMAIN o.instances = DOMAIN instances /\ IsMap(o.instances)
          /\ DOMAIN o.extras = DOMAIN instances
          /\ \A i \in DOMAIN instances :
               \E e \in ReadPlacedInstance(WritePlacedInstance(instances[i], Shown(extras, i))) :
                 o.instances[i] = e.inst /\ o.extras[i] = e.extra
      BY <2>1, PlacedRead DEF WritePlacedNetlist
    <2>3. \A i \in DOMAIN instances :
            /\ o.instances[i] = Back(i)
            /\ o.extras[i] = [cell |-> Shown(extras, i).cell, at |-> Shown(extras, i).at]
      BY <1>4, <2>2, PlacedInstanceKept DEF Back
    <2>4. \A i \in DOMAIN instances :
            /\ o.extras[i].cell = Shown(extras, i).cell /\ o.extras[i].cell \in Cell \cup {NoCell}
            /\ o.extras[i] = [cell |-> o.extras[i].cell, at |-> o.extras[i].at]
      <3> TAKE i \in DOMAIN instances
      <3>1. o.extras[i] = [cell |-> Shown(extras, i).cell, at |-> Shown(extras, i).at]
        BY <2>3
      <3>2. Shown(extras, i).cell \in Cell \cup {NoCell}
        BY <1>1 DEF InstancesTyped, Shown, Optional, Default
      <3>3. QED
        BY <3>1, <3>2, ExtraFields
    <2>5. InstancesTyped'
      BY <1>1, <1>3, <1>5, <2>2, <2>3, <2>4 DEF InstancesTyped
    <2>6. \A i \in DOMAIN instances : Shown(extras', i) = extras'[i]
      BY <1>3, <2>2 DEF Shown, Optional
    <2>7. AttributesFollow'
      <3>1. \A i \in DOMAIN instances' \ behind' :
              Shown(extras, i).cell \in {NoCell, instances[i].component}
        BY <1>1, <1>3, <2>2 DEF AttributesFollow
      <3>2. \A i \in DOMAIN instances : instances'[i].component = instances[i].component
        BY <1>3, <1>5, <2>3
      <3>3. \A i \in DOMAIN instances : Shown(extras', i).cell = Shown(extras, i).cell
        BY <1>3, <2>4, <2>6
      <3>4. DOMAIN extras' = DOMAIN instances' /\ DOMAIN instances' = DOMAIN instances /\ placed'
        BY <1>3, <1>7, <2>2
      <3>5. QED
        BY <3>1, <3>2, <3>3, <3>4 DEF AttributesFollow
    <2>8. QED
      BY <1>1, <1>3, <2>2, <2>5, <2>7 DEF IInv
  <1>8. QED
    BY <1>6, <1>7

LEMMA LoadStep ==
  ASSUME IInv, NEW d \in use.docs, NEW asPlaced \in BOOLEAN, Load(d, asPlaced)
  PROVE  IInv'
  <1>1. InstancesTyped /\ use \in Callers
    BY DEF IInv
  <1>2. PICK o \in Read(d, asPlaced) : Become(o, asPlaced)
    BY DEF Load
  <1>3. /\ placed' = asPlaced /\ instances' = o.instances /\ extras' = o.extras /\ use' = use
        /\ behind' = {}
    BY <1>2 DEF Become, Load
  <1>4. DOMAIN d.instances \subseteq Inst /\ \A i \in DOMAIN d.instances : IsDocument(d.instances[i])
    BY <1>1, CallersAssumption
  <1>5. CASE ~ asPlaced
    <2>1. o \in ReadNetlist(d)
      BY <1>5 DEF Read
    <2>2. /\ DOMAIN o.instances = DOMAIN d.instances /\ IsMap(o.instances) /\ o.extras = << >>
          /\ \A i \in DOMAIN d.instances : o.instances[i] \in ReadInstance(d.instances[i])
      BY <2>1, PlainRead
    <2>3. \A i \in DOMAIN d.instances : IsInstance(o.instances[i])
      BY <1>4, <2>2, InstanceRead DEF ReadInstance
    <2>4. InstancesTyped'
      BY <1>3, <1>4, <1>5, <2>2, <2>3, EmptyMap DEF InstancesTyped
    <2>5. AttributesFollow'
      BY <1>3, <2>2, EmptyMap DEF AttributesFollow, Shown, Optional, Default
    <2>6. QED
      BY <1>1, <1>3, <2>2, <2>4, <2>5 DEF IInv
  <1>6. CASE asPlaced
    <2>1. o \in ReadPlacedNetlist(d)
      BY <1>6 DEF Read
    <2>2. /\ DOMAIN o.instances = DOMAIN d.instances /\ IsMap(o.instances)
          /\ DOMAIN o.extras = DOMAIN d.instances
          /\ \A i \in DOMAIN d.instances : \E e \in ReadPlacedInstance(d.instances[i]) :
                o.instances[i] = e.inst /\ o.extras[i] = e.extra
      BY <2>1, PlacedRead
    <2>3. \A i \in DOMAIN d.instances :
            /\ IsInstance(o.instances[i]) /\ o.instances[i].component \in Cell
            /\ o.extras[i].cell \in {NoCell, o.instances[i].component}
            /\ o.extras[i] = [cell |-> o.extras[i].cell, at |-> o.extras[i].at]
      <3> TAKE i \in DOMAIN d.instances
      <3>1. PICK e \in ReadPlacedInstance(d.instances[i]) : o.instances[i] = e.inst /\ o.extras[i] = e.extra
        BY <2>2
      <3>2. /\ e.inst \in InstancesOf(d.instances[i]) /\ "component" \in DOMAIN d.instances[i]
            /\ e.extra.cell = Optional(d.instances[i], "cell", NoCell)
            /\ e.extra = [cell |-> e.extra.cell, at |-> e.extra.at]
        BY <3>1 DEF ReadPlacedInstance
      <3>3. IsInstance(e.inst) /\ e.inst.component = d.instances[i].component
        BY <1>4, <3>2, InstanceRead
      <3>4. QED
        BY <1>4, <3>1, <3>2, <3>3 DEF Optional, IsDocument, IsInstance, Typed
    <2>4. InstancesTyped'
      BY <1>3, <1>4, <1>6, <2>2, <2>3 DEF InstancesTyped
    <2>5. AttributesFollow'
      BY <1>3, <1>6, <2>2, <2>3 DEF AttributesFollow, Shown, Optional
    <2>6. QED
      BY <1>1, <1>3, <2>2, <2>4, <2>5 DEF IInv
  <1>7. QED
    BY <1>5, <1>6

LEMMA Inductive == IInv /\ [Next]_vars => IInv'
  <1> SUFFICES ASSUME IInv, [Next]_vars PROVE IInv'
    OBVIOUS
  <1>1. ASSUME NEW i \in Inst, NEW inst \in use.insts, NEW attributed \in BOOLEAN, NEW base \in BOOLEAN,
               CreateInst(i, inst, attributed, base)
        PROVE  IInv'
    BY <1>1, CreateStep
  <1>2. ASSUME NEW names \in use.removals, NEW base \in BOOLEAN, RemoveInstances(names, base)
        PROVE  IInv'
    BY <1>2, RemoveStep
  <1>3. ASSUME NEW p, CreatePort(p) PROVE IInv'
    BY <1>3, Untouched DEF CreatePort
  <1>4. ASSUME NEW P \in SUBSET use.names, NEW Q \in SUBSET use.names, FromNetlist(P, Q) PROVE IInv'
    BY <1>4, UpgradeStep
  <1>5. ASSUME NEW list, NEW name, AddNet(list, name) PROVE IInv'
    BY <1>5, Untouched DEF AddNet
  <1>6. CASE SortNetlist
    BY <1>6, Untouched DEF SortNetlist
  <1>7. CASE NormalizeNetlist
    BY <1>7, NormalizeStep
  <1>8. CASE FlattenNothing
    BY <1>8, FlattenStep
  <1>9. CASE Reload
    BY <1>9, ReloadStep
  <1>10. ASSUME NEW d \in use.docs, NEW asPlaced \in BOOLEAN, Load(d, asPlaced) PROVE IInv'
    BY <1>10, LoadStep
  <1>11. ASSUME NEW members, NEW name, SetNet(members, name) PROVE IInv'
    BY <1>11, Untouched DEF SetNet, layers
  <1>12. CASE UNCHANGED vars
    BY <1>12, Untouched DEF vars, layers
  <1>13. CASE OnNet
    BY <1>11, <1>13 DEF OnNet, NewNet, GetNet, Rename, SortNet, ReloadNet, AppendTo, Extend
  <1>14. CASE Editing
    BY <1>1, <1>2, <1>3, <1>4, <1>5, <1>6, <1>7, <1>8, <1>9, <1>10, <1>14 DEF Editing
  <1>15. QED
    BY <1>12, <1>13, <1>14 DEF Next
--------------------------------------------------------------------------------
LEMMA RemoveAllIs ==
  ASSUME NEW called, NoName \in called, NEW list \in Seq(NetOf(called)), NEW S, NEW names \in Seq(S)
  PROVE  RemoveAll(list, names) \in Seq(NetOf(called))
  <1> DEFINE N == Len(names)
             V == Seq(NetOf(called))
             Then(k, v) == IF names[k] \in DOMAIN instances THEN RemoveFrom(v, names[k]) ELSE v
             step == [e \in Nat \X V |-> Then(e[1], e[2])]
             Follows(f) == f = [k \in 0 .. N |-> IF k = 0 THEN list ELSE Then(k, f[k - 1])]
             after == CHOOSE f : Follows(f)
  <1>1. N \in Nat /\ list \in V
    OBVIOUS
  <1>2. RemoveAll(list, names) = after[N]
    BY DEF RemoveAll
  <1>3. ASSUME NEW k, NEW v \in V PROVE Then(k, v) \in V
    BY RemoveFromIs
  <1> HIDE DEF V, Then
  <1>4. step \in [Nat \X V -> V] /\ \A n \in Nat, v \in V : step[<<n, v>>] = Then(n, v)
    BY <1>3
  <1> HIDE DEF N, step
  <1>5. PICK g \in [0 .. N -> V] : g[0] = list /\ \A n \in 1 .. N : g[n] = step[<<n, g[n - 1]>>]
    <2>1. Runs(V, list, step, N) # {}
      BY <1>1, <1>4, Recurrence
    <2>2. QED
      BY <2>1 DEF Runs
  <1>6. Follows(g)
    <2>1. \A k \in 0 .. N : g[k] = IF k = 0 THEN list ELSE Then(k, g[k - 1])
      <3>1. TAKE k \in 0 .. N
      <3>2. CASE k = 0
        BY <1>5, <3>2
      <3>3. CASE k # 0
        <4>1. k \in 1 .. N /\ k - 1 \in 0 .. N /\ k \in Nat
          BY <1>1, <3>3
        <4>2. g[k] = step[<<k, g[k - 1]>>] /\ g[k - 1] \in V
          BY <1>5, <4>1
        <4>3. QED
          BY <1>4, <3>3, <4>1, <4>2
      <3>4. QED
        BY <3>2, <3>3
    <2>2. g = [k \in 0 .. N |-> g[k]]
      BY <1>5
    <2>3. QED
      BY <2>1, <2>2
  <1>7. Follows(after)
    BY <1>6
  <1> HIDE DEF after
  <1>8. \A k \in 0 .. N : after[k] = IF k = 0 THEN list ELSE Then(k, after[k - 1])
    <2>1. after = [k \in 0 .. N |-> IF k = 0 THEN list ELSE Then(k, after[k - 1])]
      BY <1>7
    <2>2. QED
      BY <2>1
  <1> DEFINE T == {n \in Nat : n \in 0 .. N => after[n] \in V}
  <1>9. 0 \in T
    BY <1>1, <1>8
  <1>10. ASSUME NEW n \in Nat, n \in T PROVE n + 1 \in T
    <2>1. SUFFICES ASSUME n + 1 \in 0 .. N PROVE after[n + 1] \in V
      OBVIOUS
    <2>2. n \in 0 .. N /\ n + 1 # 0 /\ (n + 1) - 1 = n
      BY <1>1, <2>1
    <2>3. after[n] \in V
      BY <1>10, <2>2
    <2>4. after[n + 1] = Then(n + 1, after[n])
      BY <1>8, <2>1, <2>2
    <2>5. QED
      BY <1>3, <2>3, <2>4
  <1> HIDE DEF T
  <1>11. Nat \subseteq T
    BY <1>9, <1>10, Induction
  <1>12. N \in 0 .. N
    BY <1>1
  <1>13. after[N] \in V
    BY <1>1, <1>11, <1>12 DEF T
  <1>14. QED
    BY <1>2, <1>13 DEF V

LEMMA CanonicalIs ==
  ASSUME NEW m \in Member
  PROVE  Canonical(m) \in Member
  <1>1. CASE m[1] = 2
    <2>1. m \in Row(5)
      BY <1>1 DEF Member
    <2>2. m[2] \in Int /\ m[3] \in Int
      BY <2>1 DEF Row
    <2>3. <<1, m[2], m[3]>> \in Row(3) /\ <<1, m[2], m[3]>>[1] = 1
      BY <2>2 DEF Row
    <2>4. QED
      BY <2>3 DEF Canonical, Member
  <1>2. CASE m[1] # 2
    BY <1>2 DEF Canonical
  <1>3. QED
    BY <1>1, <1>2

LEMMA PushedIs ==
  ASSUME NEW list \in Seq(Member)
  PROVE  Pushed(list) \in Seq(Member)
  <1>1. [i \in DOMAIN list |-> Canonical(list[i])] \in Seq(Member)
    <2>1. Len(list) \in Nat /\ DOMAIN list = 1 .. Len(list) /\ \A i \in 1 .. Len(list) : list[i] \in Member
      OBVIOUS
    <2>2. QED
      BY <2>1, CanonicalIs
  <1>2. QED
    BY <1>1, SortMembersIs DEF Pushed

LEMMA TakenIs ==
  ASSUME NEW items \in Seq({NoMember} \cup Member)
  PROVE  Taken(items) \in Seq(Member)
  <1> DEFINE bad == {i \in DOMAIN items : items[i] = NoMember}
             k == CHOOSE i \in bad : \A j \in bad : i <= j
  <1>1. /\ Len(items) \in Nat /\ DOMAIN items = 1 .. Len(items)
        /\ \A i \in 1 .. Len(items) : items[i] = NoMember \/ items[i] \in Member
    OBVIOUS
  <1>2. CASE bad = {}
    <2>1. \A i \in 1 .. Len(items) : items[i] \in Member
      BY <1>1, <1>2
    <2>2. items = [i \in 1 .. Len(items) |-> items[i]]
      OBVIOUS
    <2>3. items \in Seq(Member)
      BY <1>1, <2>1, <2>2, IsSequence
    <2>4. QED
      BY <1>2, <2>3 DEF Taken
  <1>3. CASE bad # {}
    <2>1. k \in bad /\ \A j \in bad : k <= j
      <3>1. bad \subseteq Nat
        BY <1>1
      <3> HIDE DEF bad
      <3>2. \E i \in bad : \A j \in bad : i <= j
        BY <1>3, <3>1, Least
      <3>3. QED
        BY <3>2
    <2>2. k \in 1 .. Len(items) /\ \A j \in 1 .. k - 1 : items[j] \in Member
      BY <1>1, <2>1
    <2>3. Taken(items) = SubSeq(items, 1, k - 1)
      BY <1>3 DEF Taken
    <2> HIDE DEF k
    <2> DEFINE s == SubSeq(items, 1, k - 1)
    <2>4. /\ s \in Seq({NoMember} \cup Member) /\ Len(s) = k - 1
          /\ \A i \in 1 .. k - 1 : s[i] = items[i]
      <3>1. 1 \in 1 .. Len(items) + 1 /\ k - 1 \in 1 - 1 .. Len(items) /\ (k - 1) - 1 + 1 = k - 1
            /\ \A i \in 1 .. k - 1 : 1 + i - 1 = i
        BY <1>1, <2>2
      <3>2. QED
        BY <3>1, SubSeqProperties
    <2> HIDE DEF s
    <2>5. k - 1 \in Nat /\ s = [i \in 1 .. k - 1 |-> s[i]] /\ \A i \in 1 .. k - 1 : s[i] \in Member
      BY <1>1, <2>2, <2>4
    <2>6. s \in Seq(Member)
      BY <2>5, IsSequence
    <2>7. QED
      BY <2>3, <2>6 DEF s
  <1>4. QED
    BY <1>2, <1>3
--------------------------------------------------------------------------------
(* The nets of the netlist and of the Net object are of members, whatever  *)
(* the session did.                                                        *)
NetsTyped == IsNets(nets) /\ IsNet(net) /\ use \in Callers

LEMMA Initial == Init => NetsTyped
  <1>1. IsNets(<< >>)
    <2>1. Len(<< >>) = 0 /\ << >> = [j \in 1 .. 0 |-> << >>[j]]
      OBVIOUS
    <2>2. QED
      BY <2>1 DEF IsNets
  <1>2. IsNet([members |-> << >>, name |-> NoName])
    BY WireFormatsAssumption DEF IsNet
  <1>3. QED
    BY <1>1, <1>2 DEF Init, NetsTyped

(* Sorting, removing and adding give nets.                                 *)
LEMMA SortedNets ==
  ASSUME NEW list, IsNets(list)
  PROVE  IsNets(SortNets(list))
  <1>1. PICK names : NoName \in names /\ Null \notin names /\ list \in Seq(NetOf(names))
    BY NetsAreOf
  <1>2. SortNets(list) \in Seq(NetOf(names))
    BY <1>1, SortNetsIs
  <1>3. QED
    BY <1>1, <1>2, OfAreNets

LEMMA RemainingNets ==
  ASSUME NEW list, IsNets(list), NEW S, NEW names \in Seq(S)
  PROVE  IsNets(RemoveAll(list, names))
  <1>1. PICK called : NoName \in called /\ Null \notin called /\ list \in Seq(NetOf(called))
    BY NetsAreOf
  <1>2. RemoveAll(list, names) \in Seq(NetOf(called))
    BY <1>1, RemoveAllIs
  <1>3. QED
    BY <1>1, <1>2, OfAreNets

LEMMA AddedNets ==
  ASSUME NEW list, IsNets(list), NEW n, IsNet(n)
  PROVE  IsNets(Append(list, n))
  <1> DEFINE N == Len(list)
             S == {list[j] : j \in 1 .. N} \cup {n}
             s == Append(list, n)
  <1>1. N \in Nat /\ list = [j \in 1 .. N |-> list[j]] /\ \A j \in 1 .. N : IsNet(list[j])
    BY DEF IsNets
  <1>2. \A j \in 1 .. N : list[j] \in S
    OBVIOUS
  <1>3. n \in S /\ \A x \in S : IsNet(x)
    BY <1>1
  <1> HIDE DEF S, N
  <1>4. list \in Seq(S)
    BY <1>1, <1>2, IsSequence
  <1>5. s \in Seq(S)
    BY <1>3, <1>4
  <1> HIDE DEF s
  <1>6. Len(s) \in Nat /\ s = [j \in 1 .. Len(s) |-> s[j]] /\ \A j \in 1 .. Len(s) : s[j] \in S
    BY <1>5
  <1>7. QED
    BY <1>3, <1>6 DEF IsNets, s

(* So does reading documents that are of nets, as what is written is.      *)
LEMMA NetRead ==
  ASSUME NEW d, IsNetDocument(d), NEW n \in ReadNet(d)
  PROVE  IsNet(n)
  <1>1. CASE DOMAIN d = {"list"}
    <2>1. d.list \in Seq(Member) /\ n = [members |-> d.list, name |-> NoName]
      BY <1>1 DEF ReadNet, IsNetDocument
    <2>2. QED
      BY <2>1, WireFormatsAssumption DEF IsNet
  <1>2. CASE DOMAIN d # {"list"}
    <2> DEFINE name == Optional(d, "name", Null)
               given == IF name = Null THEN NoName ELSE name
    <2>1. "members" \in DOMAIN d /\ n = [members |-> d.members, name |-> given]
      BY <1>2 DEF ReadNet
    <2>2. given # Null
      BY WireFormatsAssumption
    <2> HIDE DEF given
    <2>3. d.members \in Seq(Member)
      BY <2>1 DEF IsNetDocument
    <2>4. QED
      BY <2>1, <2>2, <2>3 DEF IsNet
  <1>3. QED
    BY <1>1, <1>2

IsNetDocuments(docs) ==
  Len(docs) \in Nat /\ DOMAIN docs = 1 .. Len(docs) /\ \A j \in 1 .. Len(docs) : IsNetDocument(docs[j])

LEMMA NetsRead ==
  ASSUME NEW docs, IsNetDocuments(docs), NEW list \in ReadNets(docs)
  PROVE  IsNets(list)
  <1> DEFINE N == Len(docs)
             read == [j \in DOMAIN docs |-> ReadNet(docs[j])]
             S == {list[j] : j \in 1 .. N}
  <1>1. N \in Nat /\ DOMAIN docs = 1 .. N /\ \A j \in 1 .. N : IsNetDocument(docs[j])
    BY DEF IsNetDocuments
  <1>2. DOMAIN read = 1 .. N /\ \A j \in 1 .. N : read[j] = ReadNet(docs[j])
    BY <1>1
  <1>3. list \in All(read)
    BY DEF ReadNets
  <1> HIDE DEF read, N
  <1>4. DOMAIN list = 1 .. N /\ list = [j \in 1 .. N |-> list[j]] /\ \A j \in 1 .. N : list[j] \in ReadNet(docs[j])
    <2>1. DOMAIN list = DOMAIN read /\ IsMap(list) /\ \A j \in DOMAIN read : list[j] \in read[j]
      BY <1>3, AllOf
    <2>2. list = [j \in DOMAIN list |-> list[j]]
      BY <2>1 DEF IsMap
    <2>3. QED
      BY <1>2, <2>1, <2>2
  <1>5. \A j \in 1 .. N : IsNet(list[j]) /\ list[j] \in S
    BY <1>1, <1>4, NetRead
  <1> HIDE DEF S
  <1>6. Len(list) = N
    BY <1>1, <1>4, <1>5, IsSequence
  <1>7. QED
    BY <1>1, <1>4, <1>5, <1>6 DEF IsNets

LEMMA NetsOfText ==
  ASSUME NEW d, NEW asPlaced, NEW o \in Read(d, asPlaced)
  PROVE  o.nets \in ReadNets(d.nets)
  <1>1. CASE ~ asPlaced
    <2>1. o \in ReadNetlist(d)
      BY <1>1 DEF Read
    <2> DEFINE insts == All([i \in DOMAIN d.instances |-> ReadInstance(d.instances[i])])
               lists == ReadNets(d.nets)
    <2>2. \E i \in insts, n \in lists : o = [instances |-> i, extras |-> << >>, nets |-> n, ports |-> d.ports]
      BY <2>1 DEF ReadNetlist
    <2> HIDE DEF insts, lists
    <2>3. o.nets \in lists
      BY <2>2
    <2>4. QED
      BY <2>3 DEF lists
  <1>2. CASE asPlaced
    <2>1. o \in ReadPlacedNetlist(d)
      BY <1>2 DEF Read
    <2> DEFINE maps == All([i \in DOMAIN d.instances |-> ReadPlacedInstance(d.instances[i])])
               lists == ReadNets(d.nets)
    <2>2. \E both \in maps, n \in lists :
             o = [instances |-> [i \in DOMAIN both |-> both[i].inst],
                  extras    |-> [i \in DOMAIN both |-> both[i].extra],
                  nets |-> n, ports |-> d.ports]
      BY <2>1 DEF ReadPlacedNetlist
    <2> HIDE DEF maps, lists
    <2>3. o.nets \in lists
      BY <2>2
    <2>4. QED
      BY <2>3 DEF lists
  <1>3. QED
    BY <1>1, <1>2

LEMMA NetWritten ==
  ASSUME NEW n, IsNet(n)
  PROVE  IsNetDocument(WriteNet(n))
  <1> DEFINE d == WriteNet(n)
  <1>1. n.members \in Seq(Member)
    BY DEF IsNet
  <1>2. CASE n.name = NoName
    <2>1. d = [list |-> n.members]
      BY <1>2 DEF WriteNet
    <2> HIDE DEF d
    <2>2. DOMAIN d = {"list"} /\ d.list = n.members
      BY <2>1
    <2>3. \A field \in {"list", "members"} \cap DOMAIN d : d[field] \in Seq(Member)
      BY <1>1, <2>2
    <2>4. QED
      BY <2>3 DEF IsNetDocument, d
  <1>3. CASE n.name # NoName
    <2>1. d = [name |-> n.name, members |-> n.members]
      BY <1>3 DEF WriteNet
    <2> HIDE DEF d
    <2>2. DOMAIN d = {"name", "members"} /\ d.members = n.members
      BY <2>1
    <2>3. \A field \in {"list", "members"} \cap DOMAIN d : d[field] \in Seq(Member)
      BY <1>1, <2>2
    <2>4. QED
      BY <2>3 DEF IsNetDocument, d
  <1>4. QED
    BY <1>2, <1>3

LEMMA NetsWritten ==
  ASSUME IsNets(nets)
  PROVE  IsNetDocuments(Written.nets)
  <1> DEFINE N == Len(nets)
             docs == [j \in 1 .. N |-> WriteNet(nets[j])]
             S == {docs[j] : j \in 1 .. N}
  <1>1. N \in Nat /\ nets = [j \in 1 .. N |-> nets[j]] /\ \A j \in 1 .. N : IsNet(nets[j])
    BY DEF IsNets
  <1>2. Written.nets = [j \in DOMAIN nets |-> WriteNet(nets[j])]
    BY DEF Written, WritePlacedNetlist, WriteNetlist
  <1>3. DOMAIN nets = 1 .. N
    <2> HIDE DEF N
    <2> QED BY <1>1
  <1>4. Written.nets = docs
    BY <1>2, <1>3
  <1>5. \A j \in 1 .. N : IsNetDocument(docs[j]) /\ docs[j] \in S
    BY <1>1, NetWritten
  <1>6. DOMAIN docs = 1 .. N /\ docs = [j \in 1 .. N |-> docs[j]]
    OBVIOUS
  <1> HIDE DEF docs, S, N
  <1>7. Len(docs) = N
    BY <1>1, <1>5, <1>6, IsSequence
  <1>8. QED
    BY <1>1, <1>4, <1>5, <1>6, <1>7 DEF IsNetDocuments

LEMMA NetsUntouched == ASSUME NetsTyped, UNCHANGED <<nets, net, use>> PROVE NetsTyped'
  BY DEF NetsTyped

(* What becomes the Net object is a net.                                   *)
LEMMA NetStep ==
  ASSUME NetsTyped, NEW members \in Seq(Member), NEW name, name # Null, SetNet(members, name)
  PROVE  NetsTyped'
  <1>1. net' = [members |-> members, name |-> name] /\ nets' = nets /\ use' = use
    BY DEF SetNet, layers
  <1>2. IsNet(net')
    BY <1>1 DEF IsNet
  <1>3. QED
    BY <1>1, <1>2 DEF NetsTyped

LEMMA OnNetStep == ASSUME NetsTyped, OnNet PROVE NetsTyped'
  <1>1. use \in Callers /\ net.members \in Seq(Member) /\ net.name # Null
    BY DEF NetsTyped, IsNet
  <1>2. /\ use.lists \subseteq Seq(Member) /\ Null \notin use.nets
        /\ use.items \subseteq Seq({NoMember} \cup Member)
    BY <1>1, CallersAssumption
  <1>3. ASSUME NEW list \in use.lists, NEW name \in use.nets, NewNet(list, name) PROVE NetsTyped'
    <2>1. SortMembers(list) \in Seq(Member) /\ name # Null
      BY <1>2, SortMembersIs
    <2>2. QED
      BY <1>3, <2>1, NetStep DEF NewNet
  <1>4. ASSUME NEW j \in DOMAIN nets, GetNet(j) PROVE NetsTyped'
    <2>1. nets[j].members \in Seq(Member) /\ nets[j].name # Null
      <3>1. nets = [k \in 1 .. Len(nets) |-> nets[k]] /\ \A k \in 1 .. Len(nets) : IsNet(nets[k])
        BY DEF NetsTyped, IsNets
      <3>2. j \in 1 .. Len(nets)
        BY <3>1
      <3>3. QED
        BY <3>1, <3>2 DEF IsNet
    <2>2. QED
      BY <1>4, <2>1, NetStep DEF GetNet
  <1>5. ASSUME NEW name \in use.nets, Rename(name) PROVE NetsTyped'
    <2>1. name # Null
      BY <1>2
    <2>2. QED
      BY <1>1, <1>5, <2>1, NetStep DEF Rename
  <1>6. CASE SortNet
    <2>1. SortMembers(net.members) \in Seq(Member)
      BY <1>1, SortMembersIs
    <2>2. QED
      BY <1>1, <1>6, <2>1, NetStep DEF SortNet
  <1>7. CASE ReloadNet
    <2>1. PICK n \in ReadNet(WriteNet(net)) : SetNet(SortMembers(n.members), n.name)
      BY <1>7 DEF ReloadNet
    <2>2. IsNet(n)
      BY <2>1, NetWritten, NetRead DEF NetsTyped
    <2>3. SortMembers(n.members) \in Seq(Member) /\ n.name # Null
      BY <2>2, SortMembersIs DEF IsNet
    <2>4. QED
      BY <2>1, <2>3, NetStep
  <1>8. ASSUME NEW list \in use.lists, NEW m \in ToSet(list), AppendTo(m) PROVE NetsTyped'
    <2>1. m \in Member
      <3>1. list \in Seq(Member)
        BY <1>2
      <3>2. QED
        BY <3>1 DEF ToSet
    <2>2. Append(net.members, m) \in Seq(Member)
      BY <1>1, <2>1
    <2>3. SortMembers(Append(net.members, m)) \in Seq(Member)
      BY <2>2, SortMembersIs
    <2>4. QED
      BY <1>1, <1>8, <2>3, NetStep DEF AppendTo
  <1>9. ASSUME NEW items \in use.items, Extend(items) PROVE NetsTyped'
    <2>1. Taken(items) \in Seq(Member)
      BY <1>2, TakenIs
    <2> DEFINE grown == net.members \o Taken(items)
    <2>2. grown \in Seq(Member)
      BY <1>1, <2>1, ConcatProperties
    <2>3. SetNet(IF Taken(items) = items THEN SortMembers(grown) ELSE grown, net.name)
      BY <1>9 DEF Extend
    <2> HIDE DEF grown
    <2>4. (IF Taken(items) = items THEN SortMembers(grown) ELSE grown) \in Seq(Member)
      BY <2>2, SortMembersIs
    <2>5. QED
      BY <1>1, <2>3, <2>4, NetStep
  <1>10. QED
    BY <1>3, <1>4, <1>5, <1>6, <1>7, <1>8, <1>9 DEF OnNet

LEMMA EditingStep == ASSUME NetsTyped, Editing PROVE NetsTyped'
  <1>1. IsNets(nets) /\ use \in Callers /\ net.members \in Seq(Member) /\ net.name # Null
    BY DEF NetsTyped, IsNet
  <1>2. (IsNets(nets') \/ nets' = nets) /\ UNCHANGED <<net, use>>
    <2>1. ASSUME NEW i, NEW inst, NEW attributed, NEW base, CreateInst(i, inst, attributed, base)
          PROVE  nets' = nets /\ UNCHANGED <<net, use>>
      BY <2>1 DEF CreateInst
    <2>2. ASSUME NEW names \in use.removals, NEW base, RemoveInstances(names, base)
          PROVE  IsNets(nets') /\ UNCHANGED <<net, use>>
      <3>1. names \in Seq(Inst)
        BY <1>1, CallersAssumption
      <3>2. IsNets(RemoveAll(nets, names))
        BY <1>1, <3>1, RemainingNets
      <3>3. QED
        BY <2>2, <3>2 DEF RemoveInstances
    <2>3. ASSUME NEW p, CreatePort(p) PROVE nets' = nets /\ UNCHANGED <<net, use>>
      BY <2>3 DEF CreatePort
    <2>4. ASSUME NEW P, NEW Q, FromNetlist(P, Q) PROVE nets' = nets /\ UNCHANGED <<net, use>>
      BY <2>4 DEF FromNetlist
    <2>5. ASSUME NEW list \in Seq(Member), NEW name, name # Null, AddNet(list, name)
          PROVE  IsNets(nets') /\ UNCHANGED <<net, use>>
      <3>1. Pushed(list) \in Seq(Member)
        BY PushedIs
      <3>2. IsNet([members |-> Pushed(list), name |-> name])
        BY <2>5, <3>1 DEF IsNet
      <3>3. IsNets(Append(nets, [members |-> Pushed(list), name |-> name]))
        BY <1>1, <3>2, AddedNets
      <3>4. QED
        BY <2>5, <3>3 DEF AddNet
    <2>6. ASSUME NEW list \in use.lists, NEW name \in use.nets, AddNet(list, name)
          PROVE  IsNets(nets') /\ UNCHANGED <<net, use>>
      <3>1. list \in Seq(Member) /\ name # Null
        BY <1>1, CallersAssumption
      <3>2. QED
        BY <2>5, <2>6, <3>1
    <2>7. ASSUME AddNet(net.members, net.name) PROVE IsNets(nets') /\ UNCHANGED <<net, use>>
      BY <1>1, <2>5, <2>7
    <2>8. IsNets(SortNets(nets))
      BY <1>1, SortedNets
    <2>9. ASSUME SortNetlist \/ NormalizeNetlist \/ FlattenNothing
          PROVE  IsNets(nets') /\ UNCHANGED <<net, use>>
      BY <2>8, <2>9 DEF SortNetlist, NormalizeNetlist, FlattenNothing
    <2>10. ASSUME Reload PROVE IsNets(nets') /\ UNCHANGED <<net, use>>
      <3>1. PICK o \in Read(Written, placed) : Become(o, placed)
        BY <2>10 DEF Reload
      <3>2. o.nets \in ReadNets(Written.nets)
        BY <3>1, NetsOfText
      <3>3. IsNets(o.nets)
        BY <1>1, <3>2, NetsWritten, NetsRead
      <3>4. QED
        BY <3>1, <3>3 DEF Become
    <2>11. ASSUME NEW d \in use.docs, NEW asPlaced \in BOOLEAN, Load(d, asPlaced)
           PROVE  IsNets(nets') /\ UNCHANGED <<net, use>>
      <3>1. PICK o \in Read(d, asPlaced) : Become(o, asPlaced)
        BY <2>11 DEF Load
      <3>2. o.nets \in ReadNets(d.nets)
        BY <3>1, NetsOfText
      <3>3. IsNetDocuments(d.nets)
        BY <1>1, CallersAssumption DEF IsNetDocuments
      <3>4. IsNets(o.nets)
        BY <3>2, <3>3, NetsRead
      <3>5. QED
        BY <3>1, <3>4 DEF Become
    <2>12. QED
      BY <2>1, <2>2, <2>3, <2>4, <2>6, <2>7, <2>9, <2>10, <2>11 DEF Editing
  <1>3. QED
    BY <1>1, <1>2 DEF NetsTyped

LEMMA NetsInductive == NetsTyped /\ [Next]_vars => NetsTyped'
  <1>1. NetsTyped /\ UNCHANGED vars => NetsTyped'
    BY NetsUntouched DEF vars, layers
  <1>2. QED
    BY <1>1, EditingStep, OnNetStep DEF Next
--------------------------------------------------------------------------------
(* The two inductive invariants, of instances and of nets.                 *)
THEOREM Invariance == Spec => []IInv /\ []NetsTyped
  BY Initially, Inductive, Initial, NetsInductive, PTL DEF Spec

(* Every instance and net of a session is well typed: create_inst,         *)
(* normalize, editing nets, a partly failed extend and the readers of both *)
(* flavours of JSON give no other.                                         *)
THEOREM Typing == Spec => []TypeOK
  <1>1. IInv /\ NetsTyped => TypeOK
    BY DEF IInv, NetsTyped, TypeOK
  <1>2. QED
    BY <1>1, Invariance, PTL

(* PlacedNetlist shows no instance with the attributes of another one that *)
(* has or had its name, unless it was edited through the base class.       *)
THEOREM Attributes == Spec => []AttributesFollow
  BY Invariance, PTL DEF IInv

(* normalize_value keeps every number but 2^63 and 2^64, for integer types *)
(* of every width.                                                         *)
THEOREM Settings == Spec => []SettingsKeepValue
  <1>1. IInv => SettingsKeepValue
    <2>1. SUFFICES ASSUME IInv, NEW i \in DOMAIN instances, IsNumber(instances[i].settings)
                   PROVE  LET v == instances[i].settings
                              w == NormalizeValue(v)
                          IN  /\ NormalizeValue(w) = w
                              /\ IF v.type = "float" /\ v.num \in {2 * Top63, 4 * Top63}
                                 THEN w.num = v.num - 2 ELSE w.num = v.num
      BY DEF SettingsKeepValue
    <2>2. instances[i].settings \in Number
      BY <2>1 DEF IInv, InstancesTyped, IsInstance, Typed
    <2>3. QED
      BY <2>1, <2>2, ValueKept
  <1>2. QED
    BY <1>1, Invariance, PTL

(* from_json of either class refuses the text of the other as soon as it   *)
(* has an instance, and reads a netlist_id as the reference it is, or not  *)
(* at all.                                                                 *)
THEOREM Reading == Spec => []NothingReadAsLess
  <1>1. ASSUME IInv, instances # << >> PROVE Read(Written, ~ placed) = {}
    <2>1. PICK i \in DOMAIN instances : TRUE
      <3>1. SUFFICES ASSUME DOMAIN instances = {} PROVE FALSE
        OBVIOUS
      <3>2. instances = << >>
        BY <1>1, <3>1, EmptyMap DEF IInv, IsMap
      <3>3. QED
        BY <1>1, <3>2
    <2>2. CASE placed
      <3> DEFINE p == WritePlacedInstance(instances[i], Shown(extras, i))
      <3>1. "cell" \in DOMAIN p
        BY DEF WritePlacedInstance, With
      <3>2. ReadInstance(p) = {}
        BY <3>1 DEF ReadInstance, LeafFields
      <3> HIDE DEF p
      <3>3. \A o \in ReadNetlist(Written) : o.instances[i] \in ReadInstance(p)
        <4> TAKE o \in ReadNetlist(Written)
        <4>1. Written.instances = [j \in DOMAIN instances |->
                 WritePlacedInstance(instances[j], Shown(extras, j))]
          BY <2>2 DEF Written, WritePlacedNetlist
        <4>2. QED
          BY <4>1, PlainRead DEF p
      <3>4. ReadNetlist(Written) = {}
        BY <3>2, <3>3
      <3>5. QED
        BY <2>2, <3>4 DEF Read
    <2>3. CASE ~ placed
      <3> DEFINE p == WriteInstance(instances[i])
      <3>1. "placement" \notin DOMAIN p
        <4>1. DOMAIN p = {"component", "settings", "array", "netlist_id"} \ Skipped(instances[i])
          BY WhatIsWritten
        <4> HIDE DEF p
        <4>2. QED
          BY <4>1
      <3>2. ReadPlacedInstance(p) = {}
        BY <3>1 DEF ReadPlacedInstance
      <3> HIDE DEF p
      <3>3. \A o \in ReadPlacedNetlist(Written) : \E e \in ReadPlacedInstance(p) : TRUE
        <4> TAKE o \in ReadPlacedNetlist(Written)
        <4>1. Written.instances = [j \in DOMAIN instances |-> WriteInstance(instances[j])]
          BY <2>3 DEF Written, WriteNetlist
        <4>2. QED
          BY <4>1, PlacedRead DEF p
      <3>4. ReadPlacedNetlist(Written) = {}
        BY <3>2, <3>3
      <3>5. QED
        BY <2>3, <3>4 DEF Read
    <2>4. QED
      BY <2>2, <2>3
  <1>2. ASSUME IInv, NEW d \in use.docs, NEW i \in DOMAIN d.instances,
               NEW asPlaced \in BOOLEAN, NEW o \in Read(d, asPlaced)
        PROVE  o.instances[i].ref = Optional(d.instances[i], "netlist_id", NoCell)
    <2>1. IsDocument(d.instances[i])
      BY <1>2, CallersAssumption DEF IInv
    <2>2. CASE asPlaced
      <3>1. PICK e \in ReadPlacedInstance(d.instances[i]) : o.instances[i] = e.inst
        BY <1>2, <2>2, PlacedRead DEF Read
      <3>2. e.inst \in InstancesOf(d.instances[i]) /\ "component" \in DOMAIN d.instances[i]
        BY <3>1 DEF ReadPlacedInstance
      <3>3. QED
        BY <2>1, <3>1, <3>2, InstanceRead
    <2>3. CASE ~ asPlaced
      <3>1. o.instances[i] \in ReadInstance(d.instances[i])
        BY <1>2, <2>3, PlainRead DEF Read
      <3>2. QED
        BY <2>1, <3>1, InstanceRead DEF ReadInstance
    <2>4. QED
      BY <2>2, <2>3
  <1>3. ASSUME IInv, NEW d \in use.docs, NEW i \in DOMAIN d.instances,
               "netlist_id" \in DOMAIN d.instances[i]
        PROVE  ReadAs("LeafNetlistInstance", d.instances[i]) = {}
    <2>1. IsDocument(d.instances[i])
      BY <1>3, CallersAssumption DEF IInv
    <2>2. ASSUME NEW inst \in ReadInstance(d.instances[i]) PROVE inst.ref # NoCell
      <3>1. inst \in InstancesOf(d.instances[i]) /\ "component" \in DOMAIN d.instances[i]
        BY <2>2 DEF ReadInstance
      <3>2. QED
        BY <1>3, <2>1, <3>1, InstanceRead DEF IsDocument, Optional
    <2>3. QED
      BY <2>2 DEF ReadAs, Variant
  <1>4. IInv => NothingReadAsLess
    BY <1>1, <1>2, <1>3 DEF NothingReadAsLess
  <1>5. QED
    BY <1>4, Invariance, PTL

LEMMA AllOne ==
  ASSUME NEW read, NEW f, IsMap(f), DOMAIN read = DOMAIN f,
         \A x \in DOMAIN f : read[x] = {f[x]}
  PROVE  All(read) = {f}
  <1>1. \A x \in DOMAIN read : read[x] # {} /\ (CHOOSE v \in read[x] : TRUE) = f[x]
    OBVIOUS
  <1>2. [x \in DOMAIN read |-> CHOOSE v \in read[x] : TRUE] = f
    BY <1>1 DEF IsMap
  <1>3. QED
    BY <1>1, <1>2 DEF All

LEMMA NetsKept ==
  ASSUME IsNets(nets)
  PROVE  ReadNets([j \in DOMAIN nets |-> WriteNet(nets[j])]) = {nets}
  <1>0. nets = [j \in 1 .. Len(nets) |-> nets[j]] /\ \A j \in 1 .. Len(nets) : IsNet(nets[j])
    BY DEF IsNets
  <1>1. \A j \in DOMAIN nets : ReadNet(WriteNet(nets[j])) = {nets[j]}
    <2> TAKE j \in DOMAIN nets
    <2> DEFINE n == nets[j]
               d == WriteNet(n)
    <2> SUFFICES ReadNet(d) = {n}
      OBVIOUS
    <2>1. n = [members |-> n.members, name |-> n.name] /\ n.name # Null /\ NoName # Null
      <3>1. j \in 1 .. Len(nets)
        BY <1>0
      <3>2. QED
        BY <1>0, <3>1, WireFormatsAssumption DEF IsNet
    <2> HIDE DEF n
    <2>2. CASE n.name = NoName
      <3>1. DOMAIN d = {"list"} /\ d.list = n.members
        BY <2>2 DEF WriteNet
      <3> HIDE DEF d
      <3>2. QED
        BY <2>1, <2>2, <3>1 DEF ReadNet
    <2>3. CASE n.name # NoName
      <3>1. DOMAIN d = {"members", "name"} /\ d.members = n.members /\ d.name = n.name
        BY <2>3 DEF WriteNet
      <3>2. DOMAIN d # {"list"} /\ Optional(d, "name", Null) = n.name
        BY <3>1 DEF Optional
      <3> HIDE DEF d
      <3>3. QED
        BY <2>1, <3>1, <3>2 DEF ReadNet
    <2>4. QED
      BY <2>2, <2>3
  <1>2. IsMap(nets)
    BY <1>0 DEF IsMap
  <1>3. QED
    BY <1>1, <1>2, AllOne DEF ReadNets

(* to_json and from_json lose nothing in either class, however many        *)
(* instances and nets the netlist has.                                     *)
THEOREM Reloading == Spec => []ReloadKeeps
  <1>1. ASSUME IInv, IsNets(nets) PROVE ReloadKeeps
    <2> DEFINE filled == [i \in DOMAIN instances |-> Filled(instances[i])]
               shown == [i \in DOMAIN instances |-> Shown(extras, i)]
               list  == [j \in DOMAIN nets |-> WriteNet(nets[j])]
    <2>1. ReadNets(list) = {nets}
      BY <1>1, NetsKept
    <2>2. \A i \in DOMAIN instances :
            /\ instances[i].ref \in Cell \cup {NoCell}
            /\ Filled(instances[i]) =
                 [component |-> instances[i].component, settings |-> Given(instances[i]),
                  array |-> instances[i].array, ref |-> instances[i].ref]
      <3> TAKE i \in DOMAIN instances
      <3> DEFINE inst == instances[i]
      <3>1. inst = [component |-> inst.component, settings |-> inst.settings,
                    array |-> inst.array, ref |-> inst.ref]
            /\ inst.ref \in Cell \cup {NoCell}
        BY <1>1 DEF IInv, InstancesTyped, IsInstance
      <3> HIDE DEF inst
      <3>2. DOMAIN inst = {"component", "settings", "array", "ref"}
        BY <3>1
      <3>3. QED
        BY <3>1, <3>2 DEF Filled, Given, With, inst
    <2>3. \A i \in DOMAIN instances : ReadInstance(WriteInstance(instances[i])) = {filled[i]}
      BY <2>2, InstanceKept
    <2>4. \A i \in DOMAIN instances :
            ReadPlacedInstance(WritePlacedInstance(instances[i], Shown(extras, i))) =
              {[inst |-> filled[i], extra |-> shown[i]]}
      <3> TAKE i \in DOMAIN instances
      <3>1. Shown(extras, i) = [cell |-> Shown(extras, i).cell, at |-> Shown(extras, i).at]
        BY <1>1 DEF IInv, InstancesTyped, Shown, Optional, Default
      <3>2. ReadPlacedInstance(WritePlacedInstance(instances[i], Shown(extras, i))) =
              {[inst  |-> Filled(instances[i]),
                extra |-> [cell |-> Shown(extras, i).cell, at |-> Shown(extras, i).at]]}
        BY <2>2, PlacedInstanceKept
      <3>3. QED
        BY <3>1, <3>2
    <2>5. CASE ~ placed
      <3>1. Written = [instances |-> [i \in DOMAIN instances |-> WriteInstance(instances[i])],
                       nets |-> list, ports |-> ports]
        BY <2>5 DEF Written, WriteNetlist
      <3> DEFINE read == [i \in DOMAIN instances |-> ReadInstance(WriteInstance(instances[i]))]
      <3>2. All(read) = {filled}
        <4>1. IsMap(filled) /\ DOMAIN read = DOMAIN filled
              /\ \A x \in DOMAIN filled : read[x] = {filled[x]}
          BY <2>3 DEF IsMap
        <4> HIDE DEF read, filled
        <4>2. QED
          BY <4>1, AllOne
      <3>3. ReadNetlist(Written) =
              {[instances |-> filled, extras |-> << >>, nets |-> nets, ports |-> ports]}
        <4>1. [i \in DOMAIN Written.instances |-> ReadInstance(Written.instances[i])] = read
          BY <3>1
        <4>2. Written.nets = list /\ Written.ports = ports
          BY <3>1
        <4> HIDE DEF filled, list, read
        <4>3. ReadNetlist(Written) =
                {[instances |-> i, extras |-> << >>, nets |-> n, ports |-> ports] :
                   i \in All(read), n \in ReadNets(list)}
          BY <4>1, <4>2 DEF ReadNetlist
        <4>4. QED
          BY <2>1, <3>2, <4>3
      <3>4. QED
        BY <2>5, <3>3 DEF ReloadKeeps, Read
    <2>6. CASE placed
      <3> DEFINE both == [i \in DOMAIN instances |-> [inst |-> filled[i], extra |-> shown[i]]]
      <3>1. Written =
              [instances |-> [i \in DOMAIN instances |->
                                WritePlacedInstance(instances[i], Shown(extras, i))],
               nets |-> list, ports |-> ports]
        BY <2>6 DEF Written, WritePlacedNetlist
      <3> DEFINE read == [i \in DOMAIN instances |->
                            ReadPlacedInstance(WritePlacedInstance(instances[i], Shown(extras, i)))]
      <3>2. All(read) = {both}
        <4>1. IsMap(both) /\ DOMAIN read = DOMAIN both
              /\ \A x \in DOMAIN both : read[x] = {both[x]}
          BY <2>4 DEF IsMap
        <4> HIDE DEF read, both
        <4>2. QED
          BY <4>1, AllOne
      <3>3. /\ [i \in DOMAIN both |-> both[i].inst] = filled
            /\ [i \in DOMAIN both |-> both[i].extra] = shown
        OBVIOUS
      <3>4. ReadPlacedNetlist(Written) =
              {[instances |-> filled, extras |-> shown, nets |-> nets, ports |-> ports]}
        <4>1. [i \in DOMAIN Written.instances |-> ReadPlacedInstance(Written.instances[i])] = read
          BY <3>1
        <4>2. Written.nets = list /\ Written.ports = ports
          BY <3>1
        <4> HIDE DEF filled, shown, list, both, read
        <4>3. QED
          BY <2>1, <3>2, <3>3, <4>1, <4>2 DEF ReadPlacedNetlist
      <3>5. QED
        BY <2>6, <3>4 DEF ReloadKeeps, Read
    <2>7. QED
      BY <2>5, <2>6
  <1>2. NetsTyped => IsNets(nets)
    BY DEF NetsTyped
  <1>3. QED
    BY <1>1, <1>2, Invariance, PTL

(* The members of the Net object are in the same order in Python as in the *)
(* core, whatever was appended to it.                                      *)
THEOREM Ordering == Spec => []PythonOrderAgrees
  <1>1. NetsTyped => PythonOrderAgrees
    <2>1. SUFFICES ASSUME NetsTyped, NEW m \in ToSet(net.members), NEW n \in ToSet(net.members)
                   PROVE  (PyLess(m, n) <=> Before(m, n)) /\ (PyEqual(m, n) <=> m = n)
      BY DEF PythonOrderAgrees
    <2>2. net.members \in Seq(Member)
      BY <2>1 DEF NetsTyped, IsNet
    <2>3. m \in Member /\ n \in Member
      BY <2>2 DEF ToSet
    <2>4. QED
      BY <2>3, PythonOrder
  <1>2. QED
    BY <1>1, Invariance, PTL

(* The same nets, listed the other way round, are the same inside.         *)
LEMMA AnotherIs ==
  ASSUME NEW names, NEW list \in Seq(NetOf(names))
  PROVE  /\ Another(list) \in Seq(NetOf({NoName})) /\ Len(Another(list)) = Len(list)
         /\ \A i \in 1 .. Len(list) : \E k \in 1 .. Len(list) :
              Inside(Another(list)[i]).members = Inside(list[k]).members
         /\ \A k \in 1 .. Len(list) : \E i \in 1 .. Len(list) :
              Inside(Another(list)[i]).members = Inside(list[k]).members
  <1> DEFINE N == Len(list)
             back == [j \in 1 .. N |-> [members |-> Reverse(list[j].members), name |-> NoName]]
             other == Reverse(back)
  <1>1. N \in Nat /\ DOMAIN list = 1 .. N /\ \A j \in 1 .. N : list[j].members \in Seq(Member)
    <2>1. N \in Nat /\ DOMAIN list = 1 .. N /\ \A j \in 1 .. N : list[j] \in NetOf(names)
      OBVIOUS
    <2>2. \A n \in NetOf(names) : n.members \in Seq(Member)
      BY DEF NetOf
    <2>3. QED
      BY <2>1, <2>2
  <1>2. Another(list) = other
    BY <1>1 DEF Another
  <1>3. \A j \in 1 .. N : back[j] = [members |-> Reverse(list[j].members), name |-> NoName]
    OBVIOUS
  <1>4. \A j \in 1 .. N : back[j] \in NetOf({NoName}) /\ Inside(back[j]).members = Inside(list[j]).members
    <2>1. TAKE j \in 1 .. N
    <2>2. Reverse(list[j].members) \in Seq(Member)
      BY <1>1, ReverseIs
    <2>3. SortMembers(Reverse(list[j].members)) = SortMembers(list[j].members)
      BY <1>1, ReverseSorts
    <2>4. QED
      BY <1>3, <2>2, <2>3 DEF NetOf, Inside
  <1>5. back = [j \in 1 .. N |-> back[j]]
    OBVIOUS
  <1> HIDE DEF N, back
  <1>6. back \in Seq(NetOf({NoName})) /\ Len(back) = N
    BY <1>1, <1>4, <1>5, IsSequence
  <1> HIDE DEF other
  <1>7. /\ other \in Seq(NetOf({NoName})) /\ Len(other) = N
        /\ \A i \in 1 .. N : N - i + 1 \in 1 .. N /\ other[i] = back[N - i + 1]
    BY <1>6, ReverseIs DEF other
  <1>8. \A i \in 1 .. N : N - i + 1 \in 1 .. N /\ Inside(other[i]).members = Inside(list[N - i + 1]).members
    BY <1>4, <1>7
  <1>9. \A k \in 1 .. N : N - k + 1 \in 1 .. N /\ N - (N - k + 1) + 1 = k
    BY <1>1
  <1>10. QED
    BY <1>2, <1>7, <1>8, <1>9 DEF N

(* Selecting nothing.                                                      *)
LEMMA NothingSelected ==
  ASSUME NEW S, NEW list \in Seq(S)
  PROVE  Picked(list, {}) = << >>
  <1>1. {} \in SUBSET (1 .. Len(list))
    OBVIOUS
  <1>2. Picked(list, {}) \in Seq(S) /\ \A p \in 1 .. Len(Picked(list, {})) : \E i \in {} : Picked(list, {})[p] = list[i]
    BY <1>1, PickedIs
  <1> DEFINE s == Picked(list, {})
  <1>3. s \in Seq(S) /\ 1 .. Len(s) = {}
    BY <1>2
  <1> HIDE DEF s
  <1>4. s = << >>
    <2>1. Len(s) \in Nat /\ ~ 1 <= Len(s)
      BY <1>3
    <2>2. Len(s) = 0
      BY <2>1
    <2>3. QED
      BY <1>3, <2>2
  <1>5. QED
    BY <1>4 DEF s

(* find_net_difference of a netlist and one with the same nets built in    *)
(* another order, both sorted, finds none: a sorted net does not depend on *)
(* the order in which its members were connected.                          *)
THEOREM Connectivity == Spec => []LvsSeesConnectivityOnly
  <1>1. ASSUME IsNets(nets) PROVE LvsSeesConnectivityOnly
    <2>1. PICK names : NoName \in names /\ Null \notin names /\ nets \in Seq(NetOf(names))
      BY <1>1, NetsAreOf
    <2> DEFINE N == Len(nets)
               other == Another(nets)
               a == SortNets(nets)
               b == SortNets(other)
    <2>2. /\ a \in Seq(NetOf(names))
          /\ \A p \in 1 .. Len(a) : \E i \in 1 .. N : a[p] = Inside(nets[i])
          /\ \A i \in 1 .. N : \E p \in 1 .. Len(a) : a[p] = Inside(nets[i])
      BY <2>1, SortNetsIs
    <2>3. /\ other \in Seq(NetOf({NoName})) /\ Len(other) = N
          /\ \A i \in 1 .. N : \E k \in 1 .. N : Inside(other[i]).members = Inside(nets[k]).members
          /\ \A k \in 1 .. N : \E i \in 1 .. N : Inside(other[i]).members = Inside(nets[k]).members
      BY <2>1, AnotherIs
    <2>4. /\ b \in Seq(NetOf({NoName}))
          /\ \A p \in 1 .. Len(b) : \E i \in 1 .. N : b[p] = Inside(other[i])
          /\ \A i \in 1 .. N : \E p \in 1 .. Len(b) : b[p] = Inside(other[i])
      BY <2>3, SortNetsIs
    <2> HIDE DEF N, other, a, b
    <2>5. DOMAIN a = 1 .. Len(a) /\ DOMAIN b = 1 .. Len(b)
      BY <2>2, <2>4
    <2>6. \A p \in 1 .. Len(b) : \E q \in 1 .. Len(a) : a[q].members = b[p].members
      <3>1. TAKE p \in 1 .. Len(b)
      <3>2. PICK i \in 1 .. N : b[p] = Inside(other[i])
        BY <2>4
      <3>3. PICK k \in 1 .. N : Inside(other[i]).members = Inside(nets[k]).members
        BY <2>3
      <3>4. PICK q \in 1 .. Len(a) : a[q] = Inside(nets[k])
        BY <2>2
      <3>5. QED
        BY <3>2, <3>3, <3>4
    <2>7. \A q \in 1 .. Len(a) : \E p \in 1 .. Len(b) : b[p].members = a[q].members
      <3>1. TAKE q \in 1 .. Len(a)
      <3>2. PICK k \in 1 .. N : a[q] = Inside(nets[k])
        BY <2>2
      <3>3. PICK i \in 1 .. N : Inside(other[i]).members = Inside(nets[k]).members
        BY <2>3
      <3>4. PICK p \in 1 .. Len(b) : b[p] = Inside(other[i])
        BY <2>4
      <3>5. QED
        BY <3>2, <3>3, <3>4
    <2>8. {p \in DOMAIN b : ~ Among(b[p], a)} = {}
      BY <2>5, <2>6 DEF Among, SameNet
    <2>9. {q \in DOMAIN a : ~ Among(a[q], b)} = {}
      BY <2>5, <2>7 DEF Among, SameNet
    <2>10. Selected(b, LAMBDA n : ~ Among(n, a)) = Picked(b, {})
      BY <2>8 DEF Selected, Picked, Upto
    <2>11. Selected(a, LAMBDA n : ~ Among(n, b)) = Picked(a, {})
      BY <2>9 DEF Selected, Picked, Upto
    <2>12. Picked(a, {}) = << >> /\ Picked(b, {}) = << >>
      BY <2>2, <2>4, NothingSelected
    <2>13. Difference(a, b) = [missing |-> << >>, extra |-> << >>]
      BY <2>10, <2>11, <2>12 DEF Difference
    <2>14. QED
      BY <2>13 DEF LvsSeesConnectivityOnly, a, b, other
  <1>2. NetsTyped => IsNets(nets)
    BY DEF NetsTyped
  <1>3. QED
    BY <1>1, <1>2, Invariance, PTL
--------------------------------------------------------------------------------
(***************************************************************************)
(* The forms of a circuit.  A list is a function on its positions, and so  *)
(* is whatever is defined on them.                                         *)
(***************************************************************************)
LEMMA ListMade ==
  ASSUME NEW N \in Nat, NEW s, s = [i \in 1 .. N |-> s[i]]
  PROVE  IsList(s) /\ Len(s) = N /\ DOMAIN s = 1 .. N
  <1> DEFINE S == {s[i] : i \in 1 .. N}
  <1>1. \A p \in 1 .. N : s[p] \in S
    OBVIOUS
  <1> HIDE DEF S
  <1>2. s \in Seq(S) /\ Len(s) = N
    BY <1>1, IsSequence
  <1>3. DOMAIN s = 1 .. N
    <2>1. DOMAIN s = DOMAIN [i \in 1 .. N |-> s[i]]
      OBVIOUS
    <2>2. QED
      BY <2>1
  <1>4. QED
    BY <1>2, <1>3 DEF IsList

LEMMA ListIs ==
  ASSUME NEW s, IsList(s)
  PROVE  /\ Len(s) \in Nat /\ DOMAIN s = 1 .. Len(s)
         /\ s \in Seq(ToSet(s)) /\ ToSet(s) = {s[i] : i \in DOMAIN s}
         /\ IsFiniteSet(DOMAIN s)
  <1>1. Len(s) \in Nat /\ s = [i \in 1 .. Len(s) |-> s[i]]
    BY DEF IsList
  <1>2. DOMAIN s = 1 .. Len(s)
    BY <1>1, ListMade
  <1>3. \A i \in 1 .. Len(s) : s[i] \in ToSet(s)
    BY <1>2 DEF ToSet
  <1>4. s \in Seq(ToSet(s))
    BY <1>1, <1>3, IsSequence
  <1>5. IsFiniteSet(1 .. Len(s))
    BY <1>1, FS_Interval
  <1>6. QED
    BY <1>1, <1>2, <1>4, <1>5 DEF ToSet

(* Lists with the same elements in the same places are the same list.      *)
LEMMA ListSame ==
  ASSUME NEW s, IsList(s), NEW t, IsList(t), Len(s) = Len(t), \A i \in DOMAIN s : s[i] = t[i]
  PROVE  s = t
  <1>1. s = [i \in 1 .. Len(s) |-> s[i]] /\ t = [i \in 1 .. Len(s) |-> t[i]]
    BY DEF IsList
  <1>2. DOMAIN s = 1 .. Len(s)
    BY ListIs
  <1>3. [i \in 1 .. Len(s) |-> s[i]] = [i \in 1 .. Len(s) |-> t[i]]
    BY <1>2
  <1>4. QED
    BY <1>1, <1>3

(* A map with a finite domain.                                             *)
LEMMA MapMade ==
  ASSUME NEW D, IsFiniteSet(D), NEW f, f = [x \in D |-> f[x]]
  PROVE  IsFiniteMap(f) /\ DOMAIN f = D
  <1>1. DOMAIN f = D
    <2>1. DOMAIN f = DOMAIN [x \in D |-> f[x]]
      OBVIOUS
    <2>2. QED
      BY <2>1
  <1>2. QED
    BY <1>1 DEF IsFiniteMap

(***************************************************************************)
(* What a reference, a text, an instance is; `IsPin` tells the two kinds   *)
(* of references apart.                                                    *)
(***************************************************************************)
LEMMA RefIs ==
  ASSUME NEW m, IsRef(m)
  PROVE  \/ IsPin(m) /\ m = [pin |-> m.pin]
         \/ /\ ~ IsPin(m) /\ m = [inst |-> m.inst, port |-> m.port, at |-> m.at]
            /\ m.at \in Seq(Int) /\ Len(m.at) \in {0, 1, 2}
  BY DEF IsRef, Pin, Element

LEMMA RefKinds ==
  /\ \A p : IsPin(Pin(p)) /\ Pin(p).pin = p /\ IsRef(Pin(p)) /\ ~ IsBad(Pin(p))
  /\ \A i, p, at : ~ IsPin(Element(i, p, at)) /\ ~ IsBad(Element(i, p, at))
  /\ \A m : IsRef(m) => ~ IsBad(m)
  <1>1. \A p : IsPin(Pin(p)) /\ Pin(p).pin = p /\ ~ IsBad(Pin(p))
    BY DEF IsPin, Pin, IsBad
  <1>2. \A i, p, at : ~ IsPin(Element(i, p, at)) /\ ~ IsBad(Element(i, p, at))
    BY DEF IsPin, Element, IsBad
  <1>3. \A p : IsRef(Pin(p))
    BY <1>1 DEF IsRef
  <1>4. ASSUME NEW m, IsRef(m) PROVE ~ IsBad(m)
    BY <1>1, <1>2, <1>4 DEF IsRef
  <1>5. QED
    BY <1>1, <1>2, <1>3, <1>4

(* What is written for a reference is a text, whatever it spells.          *)
LEMMA UnparsedIs ==
  /\ \A m : IsRef(m) => IsText(Plain(m)) /\ IsText(Unparse(m))
  /\ \A m : m \notin DOMAIN Odd => Unparse(m) = Plain(m)
  <1>1. ASSUME NEW m, IsRef(m) PROVE IsText(Plain(m))
    BY <1>1, RefKinds DEF IsText, Plain
  <1>2. ASSUME NEW m, IsRef(m) PROVE IsText(Unparse(m))
    BY <1>1, <1>2, SchemaAssumption DEF SchemaAssumption, Unparse
  <1>3. \A m : m \notin DOMAIN Odd => Unparse(m) = Plain(m)
    BY DEF Unparse
  <1>4. QED
    BY <1>1, <1>2, <1>3

(* A text that parses is a member of a net, and one made of a member is    *)
(* that member again, unless it has an index the text form has not.        *)
LEMMA ParsedIs ==
  ASSUME NEW t, IsText(t), Parses(t)
  PROVE  IsMember(ParsePortRef(t)) /\ (IsPin(ParsePortRef(t)) <=> IsPin(t.to))
  <1>1. IsRef(t.to)
    BY DEF IsText, Parses
  <1>2. CASE IsPin(t.to)
    <2>1. ParsePortRef(t) = t.to
      BY <1>2 DEF ParsePortRef, Simplest
    <2>2. QED
      BY <1>1, <1>2, <2>1 DEF IsMember
  <1>3. CASE ~ IsPin(t.to)
    <2> DEFINE at == Indices(t.to.at)
               m  == Element(t.to.inst, t.to.port, at)
    <2>1. /\ t.to = [inst |-> t.to.inst, port |-> t.to.port, at |-> t.to.at]
          /\ t.to.at \in Seq(Int) /\ Len(t.to.at) \in {0, 1, 2}
      BY <1>1, <1>3, RefIs
    <2>2. at \in Seq(Int) /\ Len(at) \in {0, 2}
      BY <2>1 DEF Indices
    <2>3. [t.to EXCEPT !.at = Indices(@)] = m
      BY <2>1 DEF Element
    <2> HIDE DEF at
    <2>4. ParsePortRef(t) = IF at = <<1, 1>> THEN Element(t.to.inst, t.to.port, << >>) ELSE m
      <3>1. ParsePortRef(t) = Simplest(m)
        BY <1>3, <2>3 DEF ParsePortRef
      <3>2. ~ IsPin(m) /\ m.at = at
        BY RefKinds DEF Element
      <3>3. [m EXCEPT !.at = << >>] = Element(t.to.inst, t.to.port, << >>)
        BY DEF Element
      <3>4. QED
        BY <3>1, <3>2, <3>3 DEF Simplest
    <2>5. PICK a : a \in {at, << >>} /\ a # <<1, 1>> /\ ParsePortRef(t) = Element(t.to.inst, t.to.port, a)
      <3>1. << >> # <<1, 1>>
        OBVIOUS
      <3>2. QED
        BY <2>4, <3>1
    <2>6. a \in Seq(Int) /\ Len(a) \in {0, 2}
      <3>1. << >> \in Seq(Int) /\ Len(<< >>) = 0
        OBVIOUS
      <3>2. a = at \/ a = << >>
        BY <2>5
      <3>3. QED
        BY <2>2, <3>1, <3>2
    <2>7. ~ IsPin(ParsePortRef(t))
      BY <2>5, RefKinds
    <2>8. IsMember(ParsePortRef(t))
      BY <2>5, <2>6, <2>7 DEF IsMember, IsRef, Element
    <2>9. QED
      BY <1>3, <2>7, <2>8
  <1>4. QED
    BY <1>2, <1>3

LEMMA WrittenIs ==
  ASSUME NEW m, IsMember(m)
  PROVE  /\ IsText(Plain(m)) /\ Plain(m).to = m /\ ParsePortRef(Plain(m)) = m
         /\ Parses(Plain(m)) \/ (~ IsPin(m) /\ \E x \in ToSet(m.at) : x < 1)
  <1>1. IsRef(m) /\ Plain(m).to = m
    BY DEF IsMember, Plain
  <1>2. IsText(Plain(m))
    BY <1>1, UnparsedIs
  <1>3. CASE IsPin(m)
    <2>1. ParsePortRef(Plain(m)) = m
      BY <1>1, <1>3 DEF ParsePortRef, Simplest
    <2>2. Parses(Plain(m))
      BY <1>1, <1>3, RefKinds DEF Parses
    <2>3. QED
      BY <1>1, <1>2, <2>1, <2>2
  <1>4. CASE ~ IsPin(m)
    <2>1. /\ m = [inst |-> m.inst, port |-> m.port, at |-> m.at]
          /\ m.at \in Seq(Int) /\ Len(m.at) # 1 /\ m.at # <<1, 1>>
      BY <1>1, <1>4, RefIs DEF IsMember
    <2>2. Indices(m.at) = m.at
      BY <2>1 DEF Indices
    <2>3. [m EXCEPT !.at = Indices(@)] = m
      BY <2>1, <2>2
    <2>4. ParsePortRef(Plain(m)) = m
      BY <1>1, <1>4, <2>1, <2>3 DEF ParsePortRef, Simplest
    <2>5. Parses(Plain(m)) \/ \E x \in ToSet(m.at) : x < 1
      <3>1. SUFFICES ASSUME \A x \in ToSet(m.at) : ~ (x < 1) PROVE Parses(Plain(m))
        OBVIOUS
      <3>2. \A x \in ToSet(m.at) : x \in Int
        BY <2>1 DEF ToSet
      <3>3. \A x \in ToSet(m.at) : x >= 1
        BY <3>1, <3>2
      <3>4. Len(m.at) # 1
        BY <2>1
      <3>5. QED
        BY <1>1, <3>3, <3>4, RefKinds DEF Parses
    <2>6. QED
      BY <1>1, <1>2, <1>4, <2>4, <2>5
  <1>5. QED
    BY <1>3, <1>4
--------------------------------------------------------------------------------
(***************************************************************************)
(* From a document to a netlist.  Every net asked for is a list of texts,  *)
(* and comes from one place.                                               *)
(***************************************************************************)
LEMMA PairIs ==
  ASSUME NEW a, NEW b
  PROVE  IsList(<<a, b>>) /\ Len(<<a, b>>) = 2 /\ DOMAIN <<a, b>> = 1 .. 2 /\ ToSet(<<a, b>>) = {a, b}
  <1> DEFINE s == <<a, b>>
  <1>1. s \in Seq({a, b}) /\ Len(s) = 2 /\ s[1] = a /\ s[2] = b
    OBVIOUS
  <1>2. DOMAIN s = 1 .. 2
    BY <1>1
  <1>3. s = [i \in 1 .. 2 |-> s[i]]
    BY <1>1, <1>2
  <1>4. IsList(s)
    BY <1>1, <1>3 DEF IsList
  <1>5. ToSet(s) = {a, b}
    <2>1. 1 .. 2 = {1, 2}
      OBVIOUS
    <2>2. ToSet(s) = {s[i] : i \in {1, 2}}
      BY <1>2, <2>1 DEF ToSet
    <2>3. QED
      BY <1>1, <2>2
  <1>6. QED
    BY <1>1, <1>2, <1>4, <1>5

(* Where the net labelled l comes from: the net, the connection or the     *)
(* alias of the document.                                                  *)
AsNet(d, l)  == l \in DOMAIN d.nets /\ Requested(d)[l] = d.nets[l]
AsConn(d, l) == \E s \in DOMAIN d.connections :
                   l = <<"conn", s>> /\ Requested(d)[l] = <<s, d.connections[s]>>
AsPort(d, l) == \E p \in Aliased(d) :
                   l = <<"port", p>> /\ Requested(d)[l] = <<Plain(Pin(p)), d.ports[p]>>
LEMMA RequestedIs ==
  ASSUME NEW d, NEW l \in DOMAIN Requested(d)
  PROVE  AsNet(d, l) \/ AsConn(d, l) \/ AsPort(d, l)
  <1> DEFINE C == {<<"conn", s>> : s \in DOMAIN d.connections}
             P == {<<"port", p>> : p \in Aliased(d)}
             entry == IF l \in DOMAIN d.nets THEN d.nets[l]
                      ELSE IF l[1] = "conn" THEN <<l[2], d.connections[l[2]]>>
                      ELSE <<Plain(Pin(l[2])), d.ports[l[2]]>>
  <1>1. l \in C \cup DOMAIN d.nets \cup P /\ Requested(d)[l] = entry
    BY DEF Requested
  <1>2. CASE l \in DOMAIN d.nets
    BY <1>1, <1>2 DEF AsNet
  <1>3. CASE l \notin DOMAIN d.nets /\ l \in C
    <2>1. PICK s \in DOMAIN d.connections : l = <<"conn", s>>
      BY <1>3
    <2>2. entry = <<s, d.connections[s]>>
      BY <1>3, <2>1
    <2>3. QED
      BY <1>1, <2>1, <2>2 DEF AsConn
  <1>4. CASE l \notin DOMAIN d.nets /\ l \in P
    <2>1. PICK p \in Aliased(d) : l = <<"port", p>>
      BY <1>4
    <2>2. entry = <<Plain(Pin(p)), d.ports[p]>>
      BY <1>4, <2>1
    <2>3. QED
      BY <1>1, <2>1, <2>2 DEF AsPort
  <1>5. QED
    BY <1>1, <1>2, <1>3, <1>4

LEMMA RequestedMade ==
  ASSUME NEW d, IsModule(d)
  PROVE  /\ IsFiniteSet(DOMAIN Requested(d))
         /\ \A l \in DOMAIN Requested(d) : IsList(Requested(d)[l])
         /\ \A l \in DOMAIN Requested(d) : \A i \in DOMAIN Requested(d)[l] : IsText(Requested(d)[l][i])
  <1> DEFINE conn == [s \in DOMAIN d.connections |-> <<"conn", s>>]
             port == [p \in DOMAIN d.ports |-> <<"port", p>>]
             C == {conn[s] : s \in DOMAIN d.connections}
             P == {port[p] : p \in Aliased(d)}
  <1>1. /\ IsFiniteSet(DOMAIN d.connections) /\ IsFiniteSet(DOMAIN d.nets) /\ IsFiniteSet(DOMAIN d.ports)
        /\ \A l \in DOMAIN d.nets : IsList(d.nets[l]) /\ \A i \in DOMAIN d.nets[l] : IsText(d.nets[l][i])
        /\ \A p \in DOMAIN d.ports : IsText(d.ports[p])
        /\ \A s \in DOMAIN d.connections : IsText(s) /\ IsText(d.connections[s])
    BY DEF IsModule, AreLists, IsFiniteMap
  <1>2. IsFiniteSet(DOMAIN Requested(d))
    <2>1. C = {<<"conn", s>> : s \in DOMAIN d.connections} /\ P = {<<"port", p>> : p \in Aliased(d)}
      BY DEF Aliased
    <2>2. DOMAIN Requested(d) = C \cup DOMAIN d.nets \cup P
      BY <2>1 DEF Requested
    <2>3. IsFiniteSet(Aliased(d))
      <3>1. Aliased(d) \subseteq DOMAIN d.ports
        BY DEF Aliased
      <3>2. QED
        BY <1>1, <3>1, FS_Subset
    <2> HIDE DEF conn, port
    <2>4. IsFiniteSet(C) /\ IsFiniteSet(P)
      BY <1>1, <2>3, Image
    <2> HIDE DEF C, P
    <2>5. QED
      BY <1>1, <2>2, <2>4, FS_Union
  <1>3. ASSUME NEW l \in DOMAIN Requested(d)
        PROVE  /\ IsList(Requested(d)[l])
               /\ \A i \in DOMAIN Requested(d)[l] : IsText(Requested(d)[l][i])
    <2>1. CASE AsNet(d, l)
      BY <1>1, <2>1 DEF AsNet
    <2>2. CASE AsConn(d, l)
      <3>1. PICK s \in DOMAIN d.connections : Requested(d)[l] = <<s, d.connections[s]>>
        BY <2>2 DEF AsConn
      <3>2. IsList(Requested(d)[l]) /\ DOMAIN Requested(d)[l] = 1 .. 2
        BY <3>1, PairIs
      <3>3. QED
        BY <1>1, <3>1, <3>2
    <2>3. CASE AsPort(d, l)
      <3>1. PICK p \in Aliased(d) : Requested(d)[l] = <<Plain(Pin(p)), d.ports[p]>>
        BY <2>3 DEF AsPort
      <3>2. IsList(Requested(d)[l]) /\ DOMAIN Requested(d)[l] = 1 .. 2
        BY <3>1, PairIs
      <3>3. IsText(Plain(Pin(p))) /\ IsText(d.ports[p])
        BY <1>1, RefKinds, UnparsedIs DEF Aliased
      <3>4. QED
        BY <3>1, <3>2, <3>3
    <2>4. QED
      BY <2>1, <2>2, <2>3, RequestedIs
  <1>4. QED
    BY <1>2, <1>3

LEMMA DimsIs ==
  ASSUME NEW i, IsInst(i)
  PROVE  Dims(i) \in Seq(Int) /\ Len(Dims(i)) \in {0, 2}
  <1>1. i.array \in Seq(Int) /\ Len(i.array) \in {0, 2} /\ i.size \in Seq(Int) /\ Len(i.size) \in {0, 1}
    BY DEF IsInst
  <1>2. CASE i.array # << >>
    BY <1>1, <1>2 DEF Dims
  <1>3. CASE i.array = << >> /\ i.size # << >>
    <2>1. Len(i.size) # 0
      BY <1>1, <1>3
    <2>2. i.size[1] \in Int
      BY <1>1, <2>1
    <2>3. Dims(i) = <<i.size[1], 1>>
      BY <1>3 DEF Dims
    <2>4. QED
      BY <2>2, <2>3
  <1>4. CASE i.array = << >> /\ i.size = << >>
    <2>1. Dims(i) = << >>
      BY <1>4 DEF Dims
    <2>2. QED
      BY <2>1
  <1>5. QED
    BY <1>2, <1>3, <1>4

LEMMA ShapedIs ==
  ASSUME NEW d, AreInstances(d.instances)
  PROVE  /\ AreInstances(Shaped(d)) /\ DOMAIN Shaped(d) = DOMAIN d.instances
         /\ \A i \in DOMAIN d.instances :
              Shaped(d)[i] = [array |-> Dims(d.instances[i]), size |-> d.instances[i].size, beyond |-> << >>]
  <1>1. /\ IsFiniteSet(DOMAIN d.instances)
        /\ \A i \in DOMAIN d.instances : IsInst(d.instances[i])
    BY DEF AreInstances, IsFiniteMap
  <1>2. ASSUME NEW i \in DOMAIN d.instances
        PROVE  /\ Shaped(d)[i] = [array |-> Dims(d.instances[i]), size |-> d.instances[i].size, beyond |-> << >>]
               /\ IsInst(Shaped(d)[i])
    <2>1. d.instances[i].size \in Seq(Int) /\ Len(d.instances[i].size) \in {0, 1}
      BY <1>1 DEF IsInst
    <2>2. Shaped(d)[i] = [array |-> Dims(d.instances[i]), size |-> d.instances[i].size, beyond |-> << >>]
      BY DEF Shaped
    <2>3. Dims(d.instances[i]) \in Seq(Int) /\ Len(Dims(d.instances[i])) \in {0, 2}
      BY <1>1, DimsIs
    <2>4. QED
      BY <2>1, <2>2, <2>3 DEF IsInst
  <1>3. Shaped(d) = [i \in DOMAIN d.instances |-> Shaped(d)[i]] /\ DOMAIN Shaped(d) = DOMAIN d.instances
    BY DEF Shaped
  <1>4. QED
    BY <1>1, <1>2, <1>3 DEF AreInstances, IsFiniteMap

LEMMA NetlistMade ==
  ASSUME NEW d, IsModule(d), Elaborates(d)
  PROVE  IsNetlist(ToNetlist(d)) /\ Buildable(ToNetlist(d))
  <1> DEFINE R == Requested(d)
             N == [l \in DOMAIN R |-> [i \in DOMAIN R[l] |-> ParsePortRef(R[l][i])]]
  <1>1. ToNetlist(d) = [instances |-> Shaped(d), pins |-> DOMAIN d.ports, nets |-> N]
    BY DEF ToNetlist
  <1>2. /\ IsFiniteSet(DOMAIN R)
        /\ \A l \in DOMAIN R : IsList(R[l]) /\ \A i \in DOMAIN R[l] : IsText(R[l][i])
    BY RequestedMade
  <1>3. \A l \in DOMAIN R : \A t \in ToSet(R[l]) : Parses(t) /\ Exists(ParsePortRef(t), Shaped(d), DOMAIN d.ports)
    BY DEF Elaborates
  <1> HIDE DEF R
  <1>4. ASSUME NEW l \in DOMAIN R
        PROVE  /\ IsList(N[l]) /\ DOMAIN N[l] = DOMAIN R[l]
               /\ \A i \in DOMAIN N[l] : IsMember(N[l][i]) /\ Exists(N[l][i], Shaped(d), DOMAIN d.ports)
    <2>1. Len(R[l]) \in Nat /\ DOMAIN R[l] = 1 .. Len(R[l]) /\ ToSet(R[l]) = {R[l][i] : i \in DOMAIN R[l]}
      BY <1>2, ListIs
    <2>2. N[l] = [i \in 1 .. Len(R[l]) |-> N[l][i]]
      BY <2>1
    <2>3. IsList(N[l]) /\ DOMAIN N[l] = DOMAIN R[l]
      BY <2>1, <2>2, ListMade
    <2>4. ASSUME NEW i \in DOMAIN R[l]
          PROVE  IsMember(N[l][i]) /\ Exists(N[l][i], Shaped(d), DOMAIN d.ports)
      <3>1. N[l][i] = ParsePortRef(R[l][i])
        OBVIOUS
      <3>2. IsText(R[l][i]) /\ R[l][i] \in ToSet(R[l])
        BY <1>2, <2>1
      <3>3. Parses(R[l][i]) /\ Exists(ParsePortRef(R[l][i]), Shaped(d), DOMAIN d.ports)
        BY <1>3, <3>2
      <3>4. QED
        BY <3>1, <3>2, <3>3, ParsedIs
    <2>5. QED
      BY <2>3, <2>4
  <1>5. N = [l \in DOMAIN R |-> N[l]] /\ DOMAIN N = DOMAIN R
    OBVIOUS
  <1> HIDE DEF N
  <1>6. AreInstances(Shaped(d)) /\ DOMAIN Shaped(d) = DOMAIN d.instances /\ IsFiniteSet(DOMAIN d.ports)
    BY ShapedIs DEF IsModule, IsFiniteMap
  <1>7. IsNetlist(ToNetlist(d))
    <2> DEFINE nl == ToNetlist(d)
    <2>1. ASSUME NEW i \in DOMAIN Shaped(d)
          PROVE  Shaped(d)[i] = [array |-> Shaped(d)[i].array, size |-> Shaped(d)[i].size,
                                 beyond |-> Shaped(d)[i].beyond]
      <3> DEFINE inst == Shaped(d)[i]
      <3>1. AreInstances(d.instances) /\ i \in DOMAIN d.instances
        BY <1>6 DEF IsModule
      <3>2. inst = [array |-> Dims(d.instances[i]), size |-> d.instances[i].size, beyond |-> << >>]
        BY <3>1, ShapedIs
      <3> HIDE DEF inst
      <3>3. inst = [array |-> inst.array, size |-> inst.size, beyond |-> inst.beyond]
        BY <3>2
      <3>4. QED
        BY <3>3 DEF inst
    <2>2. /\ nl = [instances |-> nl.instances, pins |-> nl.pins, nets |-> nl.nets]
          /\ nl.instances = Shaped(d) /\ nl.pins = DOMAIN d.ports /\ nl.nets = N
      BY <1>1
    <2> HIDE DEF nl
    <2>3. \A i \in DOMAIN nl.instances :
            nl.instances[i] = [array |-> nl.instances[i].array, size |-> nl.instances[i].size,
                               beyond |-> nl.instances[i].beyond]
      BY <2>1, <2>2
    <2>4. AreLists(N) /\ \A l \in DOMAIN N : \A i \in DOMAIN N[l] : IsMember(N[l][i])
      BY <1>2, <1>4, <1>5 DEF AreLists, IsFiniteMap
    <2>5. IsNetlist(nl)
      BY <1>6, <2>2, <2>3, <2>4 DEF IsNetlist
    <2>6. QED
      BY <2>5 DEF nl
  <1>8. ASSUME NEW l \in DOMAIN N, NEW m \in ToSet(N[l])
        PROVE  Exists(m, Shaped(d), DOMAIN d.ports)
    BY <1>4, <1>5, ListIs
  <1>9. ASSUME NEW i \in DOMAIN Shaped(d), NEW x \in ToSet(Shaped(d)[i].array)
        PROVE  x >= 1
    <2>1. AreInstances(d.instances) /\ i \in DOMAIN d.instances
      BY <1>6 DEF IsModule
    <2>2. Shaped(d)[i] = [array |-> Dims(d.instances[i]), size |-> d.instances[i].size, beyond |-> << >>]
      BY <2>1, ShapedIs
    <2>3. Shaped(d)[i].array = Dims(d.instances[i])
      BY <2>2
    <2>4. QED
      BY <2>1, <2>3 DEF Elaborates
  <1>10. QED
    BY <1>1, <1>7, <1>8, <1>9 DEF Buildable
--------------------------------------------------------------------------------
(***************************************************************************)
(* From a netlist to a document.  A private net joins a pin and another.   *)
(***************************************************************************)
LEMMA PrivateIs ==
  ASSUME NEW list, IsList(list), Private(list)
  PROVE  /\ Len(list) = 2 /\ DOMAIN list = {1, 2}
         /\ \E i, j \in {1, 2} : /\ i # j /\ IsPin(list[i]) /\ ~ IsPin(list[j])
                                 /\ ThePin(list) = list[i].pin /\ TheOther(list) = list[j]
  <1>1. Len(list) = 2 /\ DOMAIN list = 1 .. 2 /\ Cardinality(PinsIn(list)) = 1
    BY ListIs DEF Private
  <1>2. DOMAIN list = {1, 2}
    BY <1>1
  <1>3. PinsIn(list) \subseteq {1, 2}
    BY <1>2 DEF PinsIn
  <1>4. IsFiniteSet(PinsIn(list))
    <2>1. IsFiniteSet(DOMAIN list)
      BY ListIs
    <2>2. PinsIn(list) \subseteq DOMAIN list
      BY DEF PinsIn
    <2>3. QED
      BY <2>1, <2>2, FS_Subset
  <1>5. PICK i : PinsIn(list) = {i}
    BY <1>1, <1>4, FS_Singleton
  <1>6. PICK j \in {1, 2} : j # i /\ \A k \in {1, 2} : k = i \/ k = j
    BY <1>3, <1>5
  <1>7. i \in {1, 2} /\ \A k \in {1, 2} : IsPin(list[k]) <=> k = i
    BY <1>2, <1>3, <1>5 DEF PinsIn
  <1>8. (CHOOSE k \in DOMAIN list : IsPin(list[k])) = i /\ (CHOOSE k \in DOMAIN list : ~ IsPin(list[k])) = j
    <2>1. \A k : k \in DOMAIN list /\ IsPin(list[k]) <=> k = i
      BY <1>2, <1>7
    <2>2. \A k : k \in DOMAIN list /\ ~ IsPin(list[k]) <=> k = j
      BY <1>2, <1>6, <1>7
    <2>3. QED
      BY <2>1, <2>2
  <1>9. ThePin(list) = list[i].pin /\ TheOther(list) = list[j]
    BY <1>8 DEF ThePin, TheOther
  <1>10. QED
    BY <1>1, <1>2, <1>6, <1>7, <1>9

LEMMA PrivateIf ==
  ASSUME NEW list, IsList(list), Len(list) = 2,
         NEW i \in {1, 2}, NEW j \in {1, 2}, i # j, IsPin(list[i]), ~ IsPin(list[j])
  PROVE  Private(list) /\ ThePin(list) = list[i].pin /\ TheOther(list) = list[j]
  <1>1. DOMAIN list = 1 .. 2
    BY ListIs
  <1>2. DOMAIN list = {1, 2}
    BY <1>1
  <1>3. PinsIn(list) = {i}
    BY <1>2 DEF PinsIn
  <1>4. Cardinality(PinsIn(list)) = 1
    BY <1>3, FS_Singleton
  <1>5. (CHOOSE k \in DOMAIN list : IsPin(list[k])) = i /\ (CHOOSE k \in DOMAIN list : ~ IsPin(list[k])) = j
    <2>1. \A k : k \in DOMAIN list /\ IsPin(list[k]) <=> k = i
      BY <1>2
    <2>2. \A k : k \in DOMAIN list /\ ~ IsPin(list[k]) <=> k = j
      BY <1>2
    <2>3. QED
      BY <2>1, <2>2
  <1>6. QED
    BY <1>4, <1>5 DEF Private, ThePin, TheOther

(* The document recovered when last[p] is the net that stays with pin p,   *)
(* and the nets that stay nets, each from the one net of its label.        *)
Rest(nl) == (DOMAIN nl.nets) \ PrivateNets(nl)
Stays(nl) == {last \in [Owners(nl) -> PrivateNets(nl)] : \A p \in Owners(nl) : ThePin(nl.nets[last[p]]) = p}
Recovered(nl, last) ==
  [instances   |-> Portable(nl),
   ports       |-> [p \in nl.pins |->
                      Unparse(IF p \in Owners(nl) THEN TheOther(nl.nets[last[p]]) ELSE Pin(p))],
   connections |-> << >>,
   nets        |-> Others(nl)]
LabelledBy(nl, k) == CHOOSE l \in Rest(nl) : Label(l) = k

(* Written, an instance keeps its sizes.                                   *)
LEMMA PortableIs ==
  ASSUME NEW nl, AreInstances(nl.instances)
  PROVE  /\ AreInstances(Portable(nl)) /\ DOMAIN Portable(nl) = DOMAIN nl.instances
         /\ \A i \in DOMAIN nl.instances :
              Portable(nl)[i] = [array |-> nl.instances[i].array, size |-> nl.instances[i].size]
         /\ \A i \in DOMAIN nl.instances : Dims(Portable(nl)[i]) = Dims(nl.instances[i])
         /\ \A d : d.instances = Portable(nl) => Shaped(d) = Shaped(nl)
  <1>1. /\ DOMAIN Portable(nl) = DOMAIN nl.instances
        /\ \A i \in DOMAIN nl.instances :
             Portable(nl)[i] = [array |-> nl.instances[i].array, size |-> nl.instances[i].size]
    BY DEF Portable
  <1>2. ASSUME NEW i \in DOMAIN nl.instances
        PROVE  Portable(nl)[i].array = nl.instances[i].array /\ Portable(nl)[i].size = nl.instances[i].size
    <2> DEFINE inst == Portable(nl)[i]
    <2>1. inst = [array |-> nl.instances[i].array, size |-> nl.instances[i].size]
      BY <1>1
    <2> HIDE DEF inst
    <2>2. inst.array = nl.instances[i].array /\ inst.size = nl.instances[i].size
      BY <2>1
    <2>3. QED
      BY <2>2 DEF inst
  <1>3. AreInstances(Portable(nl))
    <2>1. Portable(nl) = [i \in DOMAIN nl.instances |-> Portable(nl)[i]]
      BY DEF Portable
    <2>2. IsFiniteSet(DOMAIN nl.instances) /\ \A i \in DOMAIN nl.instances : IsInst(nl.instances[i])
      BY DEF AreInstances, IsFiniteMap
    <2>3. \A i \in DOMAIN nl.instances : IsInst(Portable(nl)[i])
      BY <1>2, <2>2 DEF IsInst
    <2>4. QED
      BY <1>1, <2>1, <2>2, <2>3 DEF AreInstances, IsFiniteMap
  <1>4. ASSUME NEW i \in DOMAIN nl.instances
        PROVE  Dims(Portable(nl)[i]) = Dims(nl.instances[i]) /\ Portable(nl)[i].size = nl.instances[i].size
    BY <1>2 DEF Dims
  <1>5. ASSUME NEW d, d.instances = Portable(nl) PROVE Shaped(d) = Shaped(nl)
    BY <1>1, <1>4, <1>5 DEF Shaped
  <1>6. QED
    BY <1>1, <1>3, <1>4, <1>5

LEMMA OthersIs ==
  ASSUME NEW nl, IsNetlist(nl)
  PROVE  /\ DOMAIN Others(nl) = {Label(l) : l \in Rest(nl)} /\ IsFiniteMap(Others(nl))
         /\ \A k \in DOMAIN Others(nl) :
              /\ LabelledBy(nl, k) \in Rest(nl) /\ Label(LabelledBy(nl, k)) = k
              /\ IsList(Others(nl)[k]) /\ Len(Others(nl)[k]) = Len(nl.nets[LabelledBy(nl, k)])
              /\ DOMAIN Others(nl)[k] = DOMAIN nl.nets[LabelledBy(nl, k)]
              /\ \A i \in DOMAIN Others(nl)[k] : Others(nl)[k][i] = Unparse(nl.nets[LabelledBy(nl, k)][i])
  <1> DEFINE D == {Label(l) : l \in Rest(nl)}
             copy(n) == [i \in DOMAIN n |-> Unparse(n[i])]
  <1>1. IsFiniteSet(DOMAIN nl.nets) /\ \A l \in DOMAIN nl.nets : IsList(nl.nets[l])
    BY DEF IsNetlist, AreLists, IsFiniteMap
  <1>2. Others(nl) = [k \in D |-> copy(nl.nets[LabelledBy(nl, k)])]
    BY DEF Others, Rest, LabelledBy
  <1>3. IsFiniteSet(D)
    <2> DEFINE f == [l \in Rest(nl) |-> Label(l)]
    <2>1. IsFiniteSet(Rest(nl))
      <3>1. Rest(nl) \subseteq DOMAIN nl.nets
        BY DEF Rest
      <3>2. QED
        BY <1>1, <3>1, FS_Subset
    <2>2. D = {f[l] : l \in Rest(nl)}
      OBVIOUS
    <2> HIDE DEF f, D
    <2>3. QED
      BY <2>1, <2>2, Image
  <1>4. DOMAIN Others(nl) = D /\ Others(nl) = [k \in D |-> Others(nl)[k]]
    BY <1>2
  <1>5. ASSUME NEW k \in D
        PROVE  /\ LabelledBy(nl, k) \in Rest(nl) /\ Label(LabelledBy(nl, k)) = k
               /\ IsList(Others(nl)[k]) /\ Len(Others(nl)[k]) = Len(nl.nets[LabelledBy(nl, k)])
               /\ DOMAIN Others(nl)[k] = DOMAIN nl.nets[LabelledBy(nl, k)]
               /\ \A i \in DOMAIN Others(nl)[k] : Others(nl)[k][i] = Unparse(nl.nets[LabelledBy(nl, k)][i])
    <2>1. \E l \in Rest(nl) : Label(l) = k
      OBVIOUS
    <2>2. LabelledBy(nl, k) \in Rest(nl) /\ Label(LabelledBy(nl, k)) = k
      BY <2>1 DEF LabelledBy
    <2> DEFINE n == nl.nets[LabelledBy(nl, k)]
               s == Others(nl)[k]
    <2>3. s = copy(n)
      BY <1>2
    <2>4. Len(n) \in Nat /\ DOMAIN n = 1 .. Len(n)
      BY <1>1, <2>2, ListIs DEF Rest
    <2> HIDE DEF n, s
    <2>5. s = [i \in 1 .. Len(n) |-> s[i]] /\ \A i \in 1 .. Len(n) : s[i] = Unparse(n[i])
      BY <2>3, <2>4
    <2>6. IsList(s) /\ Len(s) = Len(n) /\ DOMAIN s = 1 .. Len(n)
      BY <2>4, <2>5, ListMade
    <2>7. QED
      BY <2>2, <2>4, <2>5, <2>6 DEF n, s
  <1> HIDE DEF D
  <1>6. IsFiniteMap(Others(nl))
    BY <1>3, <1>4 DEF IsFiniteMap
  <1>7. QED
    BY <1>4, <1>5, <1>6 DEF D

LEMMA ModuleMade ==
  ASSUME NEW nl, IsNetlist(nl), NEW last \in Stays(nl)
  PROVE  IsModule(Recovered(nl, last))
  <1> DEFINE d == Recovered(nl, last)
             P == [p \in nl.pins |-> Unparse(IF p \in Owners(nl) THEN TheOther(nl.nets[last[p]]) ELSE Pin(p))]
  <1>1. d = [instances |-> Portable(nl), ports |-> P, connections |-> << >>, nets |-> Others(nl)]
    BY DEF Recovered
  <1>2. /\ \A l \in DOMAIN nl.nets : IsList(nl.nets[l])
        /\ \A l \in DOMAIN nl.nets : \A i \in DOMAIN nl.nets[l] : IsRef(nl.nets[l][i])
        /\ AreInstances(nl.instances) /\ IsFiniteSet(nl.pins)
    BY DEF IsNetlist, AreLists, IsMember
  <1>3. ASSUME NEW p \in Owners(nl)
        PROVE  IsRef(TheOther(nl.nets[last[p]]))
    <2>1. last[p] \in DOMAIN nl.nets /\ Private(nl.nets[last[p]])
      BY DEF Stays, PrivateNets
    <2>2. PICK j \in {1, 2} : j \in DOMAIN nl.nets[last[p]] /\ TheOther(nl.nets[last[p]]) = nl.nets[last[p]][j]
      BY <1>2, <2>1, PrivateIs
    <2>3. QED
      BY <1>2, <2>1, <2>2
  <1>4. \A m : IsRef(m) => IsText(Unparse(m))
    BY UnparsedIs
  <1>5. \A p \in nl.pins : IsText(P[p])
    BY <1>3, <1>4, RefKinds
  <1>6. P = [p \in nl.pins |-> P[p]] /\ DOMAIN P = nl.pins
    OBVIOUS
  <1> HIDE DEF P
  <1>7. IsFiniteMap(P) /\ DOMAIN P = nl.pins
    BY <1>2, <1>6, MapMade
  <1>8. IsFiniteMap(<< >>) /\ DOMAIN << >> = {}
    <2> DEFINE e == << >>
    <2>1. e = [x \in {} |-> e[x]] /\ DOMAIN e = {}
      OBVIOUS
    <2>2. IsFiniteSet({})
      BY FS_EmptySet
    <2>3. QED
      BY <2>1, <2>2 DEF IsFiniteMap
  <1>9. ASSUME NEW k \in DOMAIN Others(nl)
        PROVE  IsList(Others(nl)[k]) /\ \A i \in DOMAIN Others(nl)[k] : IsText(Others(nl)[k][i])
    <2>1. LabelledBy(nl, k) \in DOMAIN nl.nets
      BY OthersIs DEF Rest
    <2>2. /\ IsList(Others(nl)[k]) /\ DOMAIN Others(nl)[k] = DOMAIN nl.nets[LabelledBy(nl, k)]
          /\ \A i \in DOMAIN Others(nl)[k] : Others(nl)[k][i] = Unparse(nl.nets[LabelledBy(nl, k)][i])
      BY OthersIs
    <2>3. QED
      BY <1>2, <1>4, <2>1, <2>2
  <1>10. IsFiniteMap(Others(nl))
    BY OthersIs
  <1>11. d = [instances |-> d.instances, ports |-> d.ports, connections |-> d.connections, nets |-> d.nets]
         /\ d.instances = Portable(nl) /\ d.ports = P /\ d.connections = << >> /\ d.nets = Others(nl)
    BY <1>1
  <1> HIDE DEF d
  <1>12. IsModule(d)
    <2>1. AreInstances(d.instances) /\ DOMAIN d.instances = DOMAIN nl.instances
      BY <1>2, <1>11, PortableIs
    <2>3. ASSUME NEW i \in DOMAIN d.instances
          PROVE  d.instances[i] = [array |-> d.instances[i].array, size |-> d.instances[i].size]
      <3> DEFINE inst == d.instances[i]
      <3>1. inst = [array |-> nl.instances[i].array, size |-> nl.instances[i].size]
        BY <1>2, <1>11, <2>1, PortableIs
      <3> HIDE DEF inst
      <3>2. inst = [array |-> inst.array, size |-> inst.size]
        BY <3>1
      <3>3. QED
        BY <3>2 DEF inst
    <2>2. QED
      BY <1>2, <1>5, <1>7, <1>8, <1>9, <1>10, <1>11, <2>1, <2>3 DEF IsModule, AreLists
  <1>13. QED
    BY <1>12 DEF d
--------------------------------------------------------------------------------
(***************************************************************************)
(* The windows of a list, chained, are the list: each window brings one    *)
(* text more, for two texts in a row differ.                               *)
(***************************************************************************)
LEMMA ChainedWindows ==
  ASSUME NEW list, IsList(list), Len(list) >= 2,
         \A i \in 1 .. Len(list) - 1 : list[i].to # list[i + 1].to
  PROVE  /\ IsList(Chained(Windows(list))) /\ Len(Chained(Windows(list))) = Len(list)
         /\ \A i \in 1 .. Len(list) : Chained(Windows(list))[i] = Tidy(list[i])
  <1> DEFINE pairs == Windows(list)
             N == Len(list) - 1
             S == {Tidy(list[i]) : i \in 1 .. Len(list)}
             Then(k, v) == PushNew(PushNew(v, pairs[k][1]), pairs[k][2])
             Follows(f) == f = [k \in 0 .. N |-> IF k = 0 THEN << >> ELSE Then(k, f[k - 1])]
             after == CHOOSE f : Follows(f)
             Heads(n) == [i \in 1 .. n |-> Tidy(list[i])]
             g == [k \in 0 .. N |-> IF k = 0 THEN << >> ELSE Heads(k + 1)]
  <1>1. Len(list) \in Nat /\ N \in Nat /\ N >= 1 /\ DOMAIN list = 1 .. Len(list)
    BY ListIs
  <1>2. pairs = [i \in 1 .. N |-> pairs[i]] /\ \A i \in 1 .. N : pairs[i] = <<list[i].to, list[i + 1].to>>
    BY DEF Windows
  <1>3. Len(pairs) = N
    <2> HIDE DEF pairs, N
    <2>1. QED
      BY <1>1, <1>2, ListMade
  <1>4. Chained(pairs) = after[N]
    BY <1>3 DEF Chained
  <1>5. ASSUME NEW n \in 1 .. Len(list)
        PROVE  Heads(n) \in Seq(S) /\ Len(Heads(n)) = n /\ \A i \in 1 .. n : Heads(n)[i] = Tidy(list[i])
    <2>1. \A i \in 1 .. n : Heads(n)[i] = Tidy(list[i]) /\ Tidy(list[i]) \in S
      BY <1>1
    <2>2. Heads(n) = [i \in 1 .. n |-> Heads(n)[i]] /\ n \in Nat
      BY <1>1
    <2> HIDE DEF Heads, S
    <2>3. Heads(n) \in Seq(S) /\ Len(Heads(n)) = n
      BY <2>1, <2>2, IsSequence
    <2>4. QED
      BY <2>1, <2>3
  <1>6. \A i \in 1 .. Len(list) : Tidy(list[i]) \in S /\ Plain(list[i].to) = Tidy(list[i])
    BY DEF Tidy
  <1>7. \A i, j \in 1 .. Len(list) : Tidy(list[i]) = Tidy(list[j]) => list[i].to = list[j].to
    BY DEF Tidy, Plain
  <1> HIDE DEF pairs, Heads, S
  <1>8. ASSUME NEW n \in 1 .. Len(list), n + 1 \in 1 .. Len(list)
        PROVE  PushNew(Heads(n), list[n + 1].to) = Heads(n + 1)
    <2>1. Heads(n) # << >> /\ Heads(n)[Len(Heads(n))] = Tidy(list[n])
      BY <1>5
    <2>2. list[n].to # list[n + 1].to
      BY <1>1, <1>8
    <2>3. Heads(n)[Len(Heads(n))] # Plain(list[n + 1].to)
      BY <1>6, <1>7, <1>8, <2>1, <2>2
    <2>4. PushNew(Heads(n), list[n + 1].to) = Append(Heads(n), Tidy(list[n + 1]))
      BY <1>6, <1>8, <2>1, <2>3 DEF PushNew
    <2> DEFINE s == Append(Heads(n), Tidy(list[n + 1]))
    <2>5. s \in Seq(S) /\ Len(s) = n + 1 /\ \A i \in 1 .. n + 1 : s[i] = IF i = n + 1 THEN Tidy(list[n + 1]) ELSE Heads(n)[i]
      BY <1>5, <1>6, <1>8
    <2>6. Heads(n + 1) \in Seq(S) /\ Len(Heads(n + 1)) = n + 1 /\ \A i \in 1 .. n + 1 : Heads(n + 1)[i] = Tidy(list[i])
      BY <1>5, <1>8
    <2>7. \A i \in 1 .. n : Heads(n)[i] = Tidy(list[i])
      BY <1>5
    <2> HIDE DEF s
    <2>8. \A i \in 1 .. Len(s) : s[i] = Heads(n + 1)[i]
      BY <2>5, <2>6, <2>7
    <2>9. s = Heads(n + 1)
      BY <2>5, <2>6, <2>8, SeqEqual
    <2>10. QED
      BY <2>4, <2>9 DEF s
  <1>9. ASSUME NEW n \in 1 .. Len(list) PROVE PushNew(Heads(n), list[n].to) = Heads(n)
    <2>1. Heads(n) # << >> /\ Heads(n)[Len(Heads(n))] = Tidy(list[n])
      BY <1>5
    <2>2. QED
      BY <1>6, <2>1 DEF PushNew
  <1>10. PushNew(<< >>, list[1].to) = Heads(1)
    <2>1. PushNew(<< >>, list[1].to) = <<Tidy(list[1])>>
      BY <1>1, <1>6 DEF PushNew
    <2>2. Heads(1) \in Seq(S) /\ Len(Heads(1)) = 1 /\ Heads(1)[1] = Tidy(list[1])
      <3>1. 1 \in 1 .. Len(list) /\ 1 \in 1 .. 1
        BY <1>1
      <3>2. QED
        BY <1>5, <3>1
    <2>3. QED
      BY <2>1, <2>2
  <1>11. \A k \in 0 .. N : g[k] = IF k = 0 THEN << >> ELSE Then(k, g[k - 1])
    <2>1. TAKE k \in 0 .. N
    <2>2. CASE k = 0
      BY <2>2
    <2>3. CASE k # 0
      <3>1. /\ k \in 1 .. N /\ k \in 1 .. Len(list) /\ k + 1 \in 1 .. Len(list) /\ k - 1 \in 0 .. N
            /\ (k - 1) + 1 = k
        BY <1>1, <2>3
      <3>2. g[k] = Heads(k + 1) /\ g[k - 1] = IF k = 1 THEN << >> ELSE Heads(k)
        BY <2>3, <3>1
      <3>3. pairs[k][1] = list[k].to /\ pairs[k][2] = list[k + 1].to
        BY <1>2, <3>1
      <3>4. PushNew(g[k - 1], list[k].to) = Heads(k)
        BY <1>9, <1>10, <3>1, <3>2
      <3>5. Then(k, g[k - 1]) = Heads(k + 1)
        BY <1>8, <3>1, <3>3, <3>4
      <3>6. QED
        BY <2>3, <3>2, <3>5
    <2>4. QED
      BY <2>2, <2>3
  <1>12. g = [k \in 0 .. N |-> g[k]] /\ g[N] = Heads(N + 1)
    BY <1>1
  <1> HIDE DEF g, Then, N
  <1>13. Follows(g)
    BY <1>11, <1>12
  <1>14. Follows(after)
    BY <1>13
  <1> HIDE DEF after
  <1>15. \A k \in 0 .. N : after[k] = IF k = 0 THEN << >> ELSE Then(k, after[k - 1])
    <2>1. after = [k \in 0 .. N |-> IF k = 0 THEN << >> ELSE Then(k, after[k - 1])]
      BY <1>14
    <2>2. QED
      BY <2>1
  <1> DEFINE T == {n \in Nat : n \in 0 .. N => after[n] = g[n]}
  <1>16. 0 \in T
    BY <1>1, <1>11, <1>15
  <1>17. ASSUME NEW n \in Nat, n \in T PROVE n + 1 \in T
    <2>1. SUFFICES ASSUME n + 1 \in 0 .. N PROVE after[n + 1] = g[n + 1]
      OBVIOUS
    <2>2. n \in 0 .. N /\ n + 1 # 0 /\ (n + 1) - 1 = n
      BY <1>1, <2>1
    <2>3. after[n] = g[n]
      BY <1>17, <2>2
    <2>4. QED
      BY <1>11, <1>15, <2>1, <2>2, <2>3
  <1> HIDE DEF T
  <1>18. Nat \subseteq T
    BY <1>16, <1>17, Induction
  <1>19. N \in 0 .. N
    BY <1>1
  <1>20. Chained(pairs) = Heads(Len(list))
    <2>1. after[N] = g[N]
      BY <1>1, <1>18, <1>19 DEF T
    <2>2. N + 1 = Len(list)
      BY <1>1 DEF N
    <2>3. QED
      BY <1>4, <1>12, <2>1, <2>2
  <1>21. IsList(Heads(Len(list)))
    BY <1>1, <1>5, ListMade DEF Heads
  <1>22. QED
    BY <1>1, <1>5, <1>20, <1>21 DEF pairs
--------------------------------------------------------------------------------
(***************************************************************************)
(* The wire.  Of the document d it keeps everything but white space and    *)
(* the names of ports that read as something else; of a net, the list      *)
(* itself or pairs of different texts that spell it.                       *)
(***************************************************************************)
Apart(pairs) == pairs # << >> /\ \A i \in DOMAIN pairs : pairs[i][1] # pairs[i][2]
IsBus(bus, list) ==
  /\ bus = [members |-> bus.members, pairs |-> Windows(list)]
  /\ bus.members = <<list>> \/ (bus.members = << >> /\ Apart(Windows(list)))
Links(d) ==
  {Connection("conn", s, d.connections[s]) : s \in DOMAIN d.connections}
    \cup {Connection("port", Unparse(Pin(p)), d.ports[p]) : p \in DOMAIN d.ports}
IsWire(w, d) ==
  /\ w = [instances |-> d.instances, terminals |-> DOMAIN d.ports, connections |-> Links(d), buses |-> w.buses]
  /\ w.buses = [l \in DOMAIN d.nets |-> w.buses[l]]
  /\ \A l \in DOMAIN d.nets : IsBus(w.buses[l], d.nets[l])

(* A document decoded from the wire of d; the ports of d are its own when  *)
(* every name of theirs is kept.                                           *)
NamesPlain(d) == \A p \in DOMAIN d.ports : Pin(p) \notin DOMAIN Odd
SameTexts(a, b) == Len(a) = Len(b) /\ \A i \in DOMAIN b : a[i].to = b[i].to
Decoded(v, d) ==
  /\ IsModule(v)
  /\ v.instances = d.instances
  /\ NamesPlain(d) =>
       DOMAIN v.ports = DOMAIN d.ports /\ \A p \in DOMAIN d.ports : v.ports[p] = Tidy(d.ports[p])
  /\ DOMAIN v.connections = {Tidy(s) : s \in DOMAIN d.connections}
  /\ \A t \in DOMAIN v.connections :
       \E s \in DOMAIN d.connections : Tidy(s) = t /\ v.connections[t] = Tidy(d.connections[s])
  /\ DOMAIN v.nets = DOMAIN d.nets /\ \A l \in DOMAIN d.nets : SameTexts(v.nets[l], d.nets[l])

LEMMA Encoded ==
  ASSUME NEW d, IsModule(d)
  PROVE  IsWire(ToWire(d), d)
  <1> DEFINE w == ToWire(d)
             B == [l \in DOMAIN d.nets |-> [members |-> Exact(d.nets[l]), pairs |-> Windows(d.nets[l])]]
  <1>1. w = [instances |-> d.instances, terminals |-> DOMAIN d.ports, connections |-> Links(d), buses |-> B]
    BY DEF ToWire, Links
  <1>2. B = [l \in DOMAIN d.nets |-> B[l]] /\ \A l \in DOMAIN d.nets : IsBus(B[l], d.nets[l])
    BY DEF IsBus, Exact
  <1> HIDE DEF w, B
  <1>3. w.buses = B
    BY <1>1
  <1>4. IsWire(w, d)
    BY <1>1, <1>2, <1>3 DEF IsWire
  <1>5. QED
    BY <1>4 DEF w

(* Without the property, buses are still buses of the same lists.          *)
Bare(buses) == [l \in DOMAIN buses |-> [buses[l] EXCEPT !.members = << >>]]
LEMMA Stripped ==
  ASSUME NEW d, NEW w, IsWire(w, d), \A l \in DOMAIN w.buses : Apart(w.buses[l].pairs),
         NEW v, v = [w EXCEPT !.buses = Bare(@)]
  PROVE  IsWire(v, d)
  <1> DEFINE B == Bare(w.buses)
  <1>1. /\ w = [instances |-> d.instances, terminals |-> DOMAIN d.ports, connections |-> Links(d), buses |-> w.buses]
        /\ DOMAIN w.buses = DOMAIN d.nets
    BY DEF IsWire
  <1>2. v = [instances |-> d.instances, terminals |-> DOMAIN d.ports, connections |-> Links(d), buses |-> B]
    <2>1. [w EXCEPT !.buses = Bare(@)]
            = [instances |-> w.instances, terminals |-> w.terminals, connections |-> w.connections, buses |-> B]
      <3> HIDE DEF B
      <3>1. B = Bare(w.buses)
        BY DEF B
      <3>2. QED
        BY <1>1, <3>1
    <2>2. w.instances = d.instances /\ w.terminals = DOMAIN d.ports /\ w.connections = Links(d)
      BY <1>1
    <2> HIDE DEF B
    <2>3. QED
      BY <2>1, <2>2
  <1>3. ASSUME NEW l \in DOMAIN d.nets PROVE IsBus(B[l], d.nets[l])
    <2>1. w.buses[l] = [members |-> w.buses[l].members, pairs |-> Windows(d.nets[l])]
      BY DEF IsWire, IsBus
    <2>2. B[l] = [w.buses[l] EXCEPT !.members = << >>]
      BY <1>1 DEF Bare
    <2>3. [w.buses[l] EXCEPT !.members = << >>] = [members |-> << >>, pairs |-> Windows(d.nets[l])]
      BY <2>1
    <2>4. w.buses[l].pairs = Windows(d.nets[l]) /\ Apart(w.buses[l].pairs)
      BY <1>1, <2>1
    <2> HIDE DEF B
    <2>5. QED
      BY <2>2, <2>3, <2>4 DEF IsBus
  <1>4. B = [l \in DOMAIN d.nets |-> B[l]]
    BY <1>1 DEF Bare
  <1> HIDE DEF B
  <1>5. v.buses = B
    BY <1>2
  <1>6. QED
    BY <1>2, <1>3, <1>4, <1>5 DEF IsWire

LEMMA WindowsAre ==
  ASSUME NEW list, IsList(list), Apart(Windows(list))
  PROVE  Len(list) >= 2 /\ \A i \in 1 .. Len(list) - 1 : list[i].to # list[i + 1].to
  <1> DEFINE N == Len(list) - 1
             P == Windows(list)
  <1>1. Len(list) \in Nat
    BY ListIs
  <1>2. P = [i \in 1 .. N |-> P[i]] /\ DOMAIN P = 1 .. N /\ \A i \in 1 .. N : P[i] = <<list[i].to, list[i + 1].to>>
    BY DEF Windows
  <1>3. ASSUME ~ (N >= 1) PROVE FALSE
    <2>1. \A i \in 1 .. N : FALSE
      BY <1>1, <1>3
    <2> HIDE DEF N
    <2>2. P = << >>
      <3>1. P = [i \in {} |-> <<list[i].to, list[i + 1].to>>]
        <4>1. 1 .. N = {}
          BY <2>1
        <4>2. QED
          BY <4>1 DEF Windows, N
      <3>2. QED
        BY <3>1
    <2>3. QED
      BY <2>2 DEF Apart
  <1>4. QED
    BY <1>1, <1>2, <1>3 DEF Apart

LEMMA FromBusIs ==
  ASSUME NEW list, IsList(list), \A i \in DOMAIN list : IsText(list[i]),
         NEW bus, IsBus(bus, list)
  PROVE  /\ IsList(FromBus(bus)) /\ SameTexts(FromBus(bus), list)
         /\ \A i \in DOMAIN FromBus(bus) : IsText(FromBus(bus)[i])
  <1>1. bus.pairs = Windows(list)
    BY DEF IsBus
  <1>2. CASE bus.members = <<list>>
    <2>1. FromBus(bus) = list
      BY <1>2 DEF FromBus
    <2>2. QED
      BY <2>1 DEF SameTexts
  <1>3. CASE bus.members = << >> /\ Apart(Windows(list))
    <2> DEFINE s == Chained(Windows(list))
    <2>1. FromBus(bus) = s
      BY <1>1, <1>3 DEF FromBus
    <2>2. Len(list) >= 2 /\ \A i \in 1 .. Len(list) - 1 : list[i].to # list[i + 1].to
      BY <1>3, WindowsAre
    <2>3. /\ IsList(s) /\ Len(s) = Len(list)
          /\ \A i \in 1 .. Len(list) : s[i] = Tidy(list[i])
      BY <2>2, ChainedWindows
    <2>4. DOMAIN s = 1 .. Len(list) /\ DOMAIN list = 1 .. Len(list)
      <3> HIDE DEF s
      <3>1. QED
        BY <2>3, ListIs
    <2>5. \A t : IsText(t) => IsText(Tidy(t)) /\ Tidy(t).to = t.to
      BY DEF IsText, Tidy, Plain
    <2> HIDE DEF s
    <2>6. QED
      BY <2>1, <2>3, <2>4, <2>5 DEF SameTexts
  <1>4. QED
    BY <1>2, <1>3 DEF IsBus

(* The targets of a source are what the document connects it to.           *)
NameOn(p) == TerminalName(Unparse(Pin(p)).to)
LEMMA LinksAre ==
  ASSUME NEW d, NEW c \in Links(d)
  PROVE  \/ /\ c.kind = "conn"
            /\ \E s \in DOMAIN d.connections : c.source = s.to /\ c.target = d.connections[s].to
         \/ /\ c.kind = "port"
            /\ \E p \in DOMAIN d.ports : TerminalName(c.source) = NameOn(p) /\ c.target = d.ports[p].to
  <1>1. CASE c \in {Connection("conn", s, d.connections[s]) : s \in DOMAIN d.connections}
    BY <1>1 DEF Connection
  <1>2. CASE c \in {Connection("port", Unparse(Pin(p)), d.ports[p]) : p \in DOMAIN d.ports}
    BY <1>2 DEF Connection, NameOn
  <1>3. QED
    BY <1>1, <1>2 DEF Links

LEMMA LinksFrom ==
  ASSUME NEW d
  PROVE  /\ \A s \in DOMAIN d.connections :
              \E c \in Links(d) : c.kind = "conn" /\ c.source = s.to /\ c.target = d.connections[s].to
         /\ \A p \in DOMAIN d.ports :
              \E c \in Links(d) : c.kind = "port" /\ TerminalName(c.source) = NameOn(p) /\ c.target = d.ports[p].to
  <1>1. ASSUME NEW s \in DOMAIN d.connections
        PROVE  \E c \in Links(d) : c.kind = "conn" /\ c.source = s.to /\ c.target = d.connections[s].to
    <2>1. Connection("conn", s, d.connections[s]) \in Links(d)
      BY DEF Links
    <2>2. QED
      BY <2>1 DEF Connection
  <1>2. ASSUME NEW p \in DOMAIN d.ports
        PROVE  \E c \in Links(d) : c.kind = "port" /\ TerminalName(c.source) = NameOn(p) /\ c.target = d.ports[p].to
    <2>1. Connection("port", Unparse(Pin(p)), d.ports[p]) \in Links(d)
      BY DEF Links
    <2>2. QED
      BY <2>1 DEF Connection, NameOn
  <1>3. QED
    BY <1>1, <1>2

(* What `Decode` makes of the wire w: last[to] is the target that stays of *)
(* a connection from to, entry[p] that of the port p.                      *)
SourcesOf(w) == {c.source : c \in {c \in w.connections : c.kind = "conn"}}
NamesOf(w)   == {TerminalName(c.source) : c \in {c \in w.connections : c.kind = "port"}}
Ends(w)      == {c.target : c \in w.connections}
Lasts(w) == {last \in [SourcesOf(w) -> Ends(w)] : \A to \in SourcesOf(w) :
               \E c \in w.connections : c.kind = "conn" /\ c.source = to /\ c.target = last[to]}
Entries(w) == {entry \in [NamesOf(w) -> Ends(w)] : \A p \in NamesOf(w) :
                 \E c \in w.connections : c.kind = "port" /\ TerminalName(c.source) = p /\ c.target = entry[p]}
Reads(w, last, entry) ==
  [instances   |-> w.instances,
   ports       |-> [p \in w.terminals \cup NamesOf(w) |->
                      IF p \in NamesOf(w) THEN Plain(entry[p]) ELSE Unparse(Pin(p))],
   connections |-> [t \in {Plain(to) : to \in SourcesOf(w)} |-> Plain(last[t.to])],
   nets        |-> [l \in DOMAIN w.buses |-> FromBus(w.buses[l])]]

LEMMA TargetsAre ==
  ASSUME NEW d, NEW w, w.connections = Links(d)
  PROVE  /\ SourcesOf(w) = {s.to : s \in DOMAIN d.connections}
         /\ NamesOf(w) = {NameOn(p) : p \in DOMAIN d.ports}
         /\ \A last \in Lasts(w) : \A to \in SourcesOf(w) :
              \E s \in DOMAIN d.connections : s.to = to /\ last[to] = d.connections[s].to
         /\ \A entry \in Entries(w) : \A n \in NamesOf(w) :
              \E p \in DOMAIN d.ports : NameOn(p) = n /\ entry[n] = d.ports[p].to
  <1>1. \A x : x \in SourcesOf(w) <=> \E c \in Links(d) : c.kind = "conn" /\ c.source = x
    BY DEF SourcesOf
  <1>2. \A x : x \in NamesOf(w) <=> \E c \in Links(d) : c.kind = "port" /\ TerminalName(c.source) = x
    BY DEF NamesOf
  <1>3. \A c \in Links(d) :
          \/ /\ c.kind = "conn"
             /\ \E s \in DOMAIN d.connections : c.source = s.to /\ c.target = d.connections[s].to
          \/ /\ c.kind = "port"
             /\ \E p \in DOMAIN d.ports : TerminalName(c.source) = NameOn(p) /\ c.target = d.ports[p].to
    BY LinksAre
  <1>4. \A c \in Links(d) : c.kind = "conn" =>
          \E s \in DOMAIN d.connections : c.source = s.to /\ c.target = d.connections[s].to
    BY <1>3
  <1>5. \A c \in Links(d) : c.kind = "port" =>
          \E p \in DOMAIN d.ports : TerminalName(c.source) = NameOn(p) /\ c.target = d.ports[p].to
    BY <1>3
  <1>6. /\ \A s \in DOMAIN d.connections :
             \E c \in Links(d) : c.kind = "conn" /\ c.source = s.to /\ c.target = d.connections[s].to
        /\ \A p \in DOMAIN d.ports :
             \E c \in Links(d) : c.kind = "port" /\ TerminalName(c.source) = NameOn(p) /\ c.target = d.ports[p].to
    BY LinksFrom
  <1>7. SourcesOf(w) = {s.to : s \in DOMAIN d.connections}
    BY <1>1, <1>4, <1>6
  <1>8. NamesOf(w) = {NameOn(p) : p \in DOMAIN d.ports}
    BY <1>2, <1>5, <1>6
  <1>9. ASSUME NEW last \in Lasts(w), NEW to \in SourcesOf(w)
        PROVE  \E s \in DOMAIN d.connections : s.to = to /\ last[to] = d.connections[s].to
    <2>1. PICK c \in Links(d) : c.kind = "conn" /\ c.source = to /\ c.target = last[to]
      BY DEF Lasts
    <2>2. QED
      BY <1>4, <2>1
  <1>10. ASSUME NEW entry \in Entries(w), NEW n \in NamesOf(w)
         PROVE  \E p \in DOMAIN d.ports : NameOn(p) = n /\ entry[n] = d.ports[p].to
    <2>1. PICK c \in Links(d) : c.kind = "port" /\ TerminalName(c.source) = n /\ c.target = entry[n]
      BY DEF Entries
    <2>2. QED
      BY <1>5, <2>1
  <1>11. QED
    BY <1>7, <1>8, <1>9, <1>10

LEMMA ReadIs ==
  ASSUME NEW d, IsModule(d), NEW w, IsWire(w, d), NEW last \in Lasts(w), NEW entry \in Entries(w)
  PROVE  Decoded(Reads(w, last, entry), d)
  <1> DEFINE v == Reads(w, last, entry)
             D == w.terminals \cup NamesOf(w)
             P == [p \in D |-> IF p \in NamesOf(w) THEN Plain(entry[p]) ELSE Unparse(Pin(p))]
             C == [t \in {Plain(to) : to \in SourcesOf(w)} |-> Plain(last[t.to])]
             N == [l \in DOMAIN w.buses |-> FromBus(w.buses[l])]
  <1>1. v = [instances |-> w.instances, ports |-> P, connections |-> C, nets |-> N]
    BY DEF Reads
  <1>2. /\ w.instances = d.instances /\ w.terminals = DOMAIN d.ports /\ w.connections = Links(d)
        /\ DOMAIN w.buses = DOMAIN d.nets /\ \A l \in DOMAIN d.nets : IsBus(w.buses[l], d.nets[l])
    BY DEF IsWire
  <1>3. /\ IsFiniteSet(DOMAIN d.connections) /\ IsFiniteSet(DOMAIN d.nets) /\ IsFiniteSet(DOMAIN d.ports)
        /\ \A l \in DOMAIN d.nets : IsList(d.nets[l]) /\ \A i \in DOMAIN d.nets[l] : IsText(d.nets[l][i])
        /\ \A p \in DOMAIN d.ports : IsText(d.ports[p])
        /\ \A s \in DOMAIN d.connections : IsText(s) /\ IsText(d.connections[s])
        /\ AreInstances(d.instances)
        /\ \A i \in DOMAIN d.instances :
             d.instances[i] = [array |-> d.instances[i].array, size |-> d.instances[i].size]
    BY DEF IsModule, AreLists, IsFiniteMap
  <1>4. /\ SourcesOf(w) = {s.to : s \in DOMAIN d.connections}
        /\ NamesOf(w) = {NameOn(p) : p \in DOMAIN d.ports}
        /\ \A to \in SourcesOf(w) : \E s \in DOMAIN d.connections : s.to = to /\ last[to] = d.connections[s].to
        /\ \A n \in NamesOf(w) : \E p \in DOMAIN d.ports : NameOn(p) = n /\ entry[n] = d.ports[p].to
    BY <1>2, TargetsAre
  <1>5. \A t : IsText(t) => IsText(Tidy(t)) /\ Tidy(t) = Plain(t.to)
    BY DEF IsText, Tidy, Plain
  <1>6. P = [p \in D |-> P[p]] /\ DOMAIN P = D /\ IsFiniteSet(D) /\ \A p \in D : IsText(P[p])
    <2>1. IsFiniteSet(D)
      <3> DEFINE f == [p \in DOMAIN d.ports |-> NameOn(p)]
      <3>1. NamesOf(w) = {f[p] : p \in DOMAIN d.ports}
        BY <1>4
      <3> HIDE DEF f
      <3>2. IsFiniteSet(NamesOf(w))
        BY <1>3, <3>1, Image
      <3>3. QED
        BY <1>2, <1>3, <3>2, FS_Union
    <2>2. ASSUME NEW p \in D PROVE IsText(P[p])
      <3>1. CASE p \in NamesOf(w)
        <4>1. PICK q \in DOMAIN d.ports : entry[p] = d.ports[q].to
          BY <1>4, <3>1
        <4>2. P[p] = Tidy(d.ports[q])
          BY <3>1, <4>1 DEF Tidy
        <4>3. QED
          BY <1>3, <1>5, <4>2
      <3>2. CASE p \notin NamesOf(w)
        <4>1. P[p] = Unparse(Pin(p))
          BY <3>2
        <4>2. QED
          BY <4>1, RefKinds, UnparsedIs
      <3>3. QED
        BY <3>1, <3>2
    <2>3. QED
      BY <2>1, <2>2
  <1>7. ASSUME NamesPlain(d)
         PROVE  DOMAIN P = DOMAIN d.ports /\ \A p \in DOMAIN d.ports : P[p] = Tidy(d.ports[p])
    <2>1. ASSUME NEW p \in DOMAIN d.ports PROVE NameOn(p) = p
      <3>1. Unparse(Pin(p)) = Plain(Pin(p))
        BY <1>7, UnparsedIs DEF NamesPlain
      <3>2. Unparse(Pin(p)).to = Pin(p)
        BY <3>1 DEF Plain
      <3>3. QED
        BY <3>2, RefKinds DEF NameOn, TerminalName
    <2>2. NamesOf(w) = DOMAIN d.ports /\ D = DOMAIN d.ports
      BY <1>2, <1>4, <2>1
    <2>3. ASSUME NEW p \in DOMAIN d.ports PROVE P[p] = Tidy(d.ports[p])
      <3>1. P[p] = Plain(entry[p])
        BY <2>2
      <3>2. PICK q \in DOMAIN d.ports : NameOn(q) = p /\ entry[p] = d.ports[q].to
        BY <1>4, <2>2
      <3>3. q = p
        BY <2>1, <3>2
      <3>4. QED
        BY <3>1, <3>2, <3>3 DEF Tidy
    <2>4. QED
      BY <2>2, <2>3
  <1>8. DOMAIN C = {Tidy(s) : s \in DOMAIN d.connections} /\ C = [t \in DOMAIN C |-> C[t]]
    <2>1. {Plain(to) : to \in SourcesOf(w)} = {Tidy(s) : s \in DOMAIN d.connections}
      BY <1>4 DEF Tidy
    <2>2. QED
      BY <2>1
  <1>9. ASSUME NEW t \in DOMAIN C
        PROVE  \E s \in DOMAIN d.connections : Tidy(s) = t /\ C[t] = Tidy(d.connections[s])
    <2>1. PICK to \in SourcesOf(w) : t = Plain(to)
      OBVIOUS
    <2>2. t.to = to
      BY <2>1 DEF Plain
    <2>3. C[t] = Plain(last[to])
      BY <2>1, <2>2
    <2>4. PICK s \in DOMAIN d.connections : s.to = to /\ last[to] = d.connections[s].to
      BY <1>4
    <2>5. QED
      BY <2>1, <2>3, <2>4 DEF Tidy
  <1>10. /\ N = [l \in DOMAIN d.nets |-> N[l]] /\ DOMAIN N = DOMAIN d.nets
        /\ \A l \in DOMAIN d.nets : N[l] = FromBus(w.buses[l])
    BY <1>2
  <1>11. ASSUME NEW l \in DOMAIN d.nets
         PROVE  IsList(N[l]) /\ SameTexts(N[l], d.nets[l]) /\ \A i \in DOMAIN N[l] : IsText(N[l][i])
    BY <1>2, <1>3, <1>10, FromBusIs
  <1> HIDE DEF P, C, N, v, D
  <1>12. /\ v = [instances |-> v.instances, ports |-> v.ports, connections |-> v.connections, nets |-> v.nets]
         /\ v.instances = d.instances /\ v.ports = P /\ v.connections = C /\ v.nets = N
    BY <1>1, <1>2
  <1>13. IsFiniteMap(P) /\ \A p \in DOMAIN P : IsText(P[p])
    BY <1>6 DEF IsFiniteMap
  <1>14. IsFiniteMap(C) /\ \A t \in DOMAIN C : IsText(t) /\ IsText(C[t])
    <2>1. IsFiniteSet(DOMAIN C)
      <3> DEFINE f == [s \in DOMAIN d.connections |-> Tidy(s)]
      <3>1. DOMAIN C = {f[s] : s \in DOMAIN d.connections}
        BY <1>8
      <3> HIDE DEF f
      <3>2. QED
        BY <1>3, <3>1, Image
    <2>2. ASSUME NEW t \in DOMAIN C PROVE IsText(t) /\ IsText(C[t])
      BY <1>3, <1>5, <1>9
    <2>3. QED
      BY <1>8, <2>1, <2>2 DEF IsFiniteMap
  <1>15. IsFiniteMap(N)
    BY <1>3, <1>10 DEF IsFiniteMap
  <1>16. IsModule(v)
    BY <1>3, <1>10, <1>11, <1>12, <1>13, <1>14, <1>15 DEF IsModule, AreLists
  <1>17. Decoded(v, d)
    BY <1>7, <1>8, <1>9, <1>10, <1>11, <1>12, <1>16 DEF Decoded
  <1>18. QED
    BY <1>17 DEF v
--------------------------------------------------------------------------------
(***************************************************************************)
(* The forms of a session.  A wire is one of the document it was encoded   *)
(* from, and a document with a wire behind it was decoded from that.       *)
(***************************************************************************)
FormsOK ==
  /\ form \in {"netlist", "document", "wire", "failed"}
  /\ form = "netlist" => IsNetlist(value) /\ Buildable(value) /\ sent = << >>
  /\ form = "document" => /\ IsModule(value)
                          /\ sent = << >> \/ \E d : sent = <<d>> /\ IsModule(d) /\ Decoded(value, d)
  /\ form = "wire" => \E d : sent = <<d>> /\ IsModule(d) /\ IsWire(value, d)
  /\ form = "failed" => sent = << >>

(* A session starts well formed.                                           *)
LEMMA FormsBegin == Begin => FormsOK
  <1>1. SUFFICES ASSUME Begin PROVE FormsOK
    OBVIOUS
  <1>2. CASE form = "netlist" /\ value \in Netlists
    <2>1. IsNetlist(value) /\ Buildable(value)
      BY <1>2, SchemaAssumption
    <2>2. QED
      BY <1>1, <1>2, <2>1 DEF Begin, FormsOK
  <1>3. CASE form = "document" /\ value \in Documents
    <2>1. IsModule(value)
      BY <1>3, SchemaAssumption
    <2>2. QED
      BY <1>1, <1>3, <2>1 DEF Begin, FormsOK
  <1>4. QED
    BY <1>1, <1>2, <1>3 DEF Begin

(* The steps in the operators the lemmas are about.                        *)
LEMMA RecoverIs ==
  ASSUME Recover
  PROVE  \E last \in Stays(value) : value' = Recovered(value, last)
  <1>1. PICK last \in [Owners(value) -> PrivateNets(value)] :
          /\ \A p \in Owners(value) : ThePin(value.nets[last[p]]) = p
          /\ value' = [instances   |-> Portable(value),
                       ports       |-> [p \in value.pins |->
                          Unparse(IF p \in Owners(value) THEN TheOther(value.nets[last[p]]) ELSE Pin(p))],
                       connections |-> << >>,
                       nets        |-> Others(value)]
    BY DEF Recover
  <1>2. last \in Stays(value) /\ value' = Recovered(value, last)
    BY <1>1 DEF Stays, Recovered
  <1>3. QED
    BY <1>2

LEMMA DecodeIs ==
  ASSUME Decode
  PROVE  \E last \in Lasts(value), entry \in Entries(value) : value' = Reads(value, last, entry)
  <1>1. /\ Sources = SourcesOf(value) /\ Names = NamesOf(value) /\ Targets = Ends(value)
        /\ \A kind : OfKind(kind) = {c \in value.connections : c.kind = kind}
    BY DEF Sources, SourcesOf, Names, NamesOf, Targets, Ends, OfKind
  <1>2. PICK last \in [Sources -> Targets], entry \in [Names -> Targets] :
          /\ \A to \in Sources : \E c \in OfKind("conn") : c.source = to /\ c.target = last[to]
          /\ \A p \in Names : \E c \in OfKind("port") : TerminalName(c.source) = p /\ c.target = entry[p]
          /\ value' = [instances   |-> value.instances,
                       ports       |-> [p \in value.terminals \cup Names |->
                          IF p \in Names THEN Plain(entry[p]) ELSE Unparse(Pin(p))],
                       connections |-> [t \in {Plain(to) : to \in Sources} |-> Plain(last[t.to])],
                       nets        |-> [l \in DOMAIN value.buses |-> FromBus(value.buses[l])]]
    BY DEF Decode
  <1>3. last \in Lasts(value) /\ entry \in Entries(value)
    BY <1>1, <1>2 DEF Lasts, Entries
  <1>4. value' = Reads(value, last, entry)
    BY <1>1, <1>2 DEF Reads
  <1>5. QED
    BY <1>3, <1>4

LEMMA ForeignIs ==
  ASSUME Foreign
  PROVE  /\ \A l \in DOMAIN value.buses : Apart(value.buses[l].pairs)
         /\ value' = [value EXCEPT !.buses = Bare(@)]
  <1>1. \A l \in DOMAIN value.buses : Apart(value.buses[l].pairs)
    BY DEF Foreign, Apart
  <1>2. Bare(value.buses) = [l \in DOMAIN value.buses |-> [value.buses[l] EXCEPT !.members = << >>]]
    BY DEF Bare
  <1>3. QED
    BY <1>1, <1>2 DEF Foreign

(* Every conversion keeps the forms.                                       *)
LEMMA FormsKept == FormsOK /\ [Convert]_circuit => FormsOK'
  <1>1. SUFFICES ASSUME FormsOK, [Convert]_circuit PROVE FormsOK'
    OBVIOUS
  <1>2. CASE Elaborate
    <2>1. IsModule(value) /\ Elaborates(value) /\ form' = "netlist" /\ value' = ToNetlist(value) /\ sent' = << >>
      BY <1>1, <1>2 DEF Elaborate, FormsOK
    <2>2. IsNetlist(value') /\ Buildable(value')
      BY <2>1, NetlistMade
    <2>3. QED
      BY <2>1, <2>2 DEF FormsOK
  <1>3. CASE Fail
    BY <1>3 DEF Fail, FormsOK
  <1>4. CASE Recover
    <2>1. IsNetlist(value) /\ sent = << >> /\ form' = "document" /\ sent' = sent
      BY <1>1, <1>4 DEF Recover, FormsOK
    <2>2. PICK last \in Stays(value) : value' = Recovered(value, last)
      BY <1>4, RecoverIs
    <2>3. IsModule(value')
      BY <2>1, <2>2, ModuleMade
    <2>4. QED
      BY <2>1, <2>3 DEF FormsOK
  <1>5. CASE Encode
    <2>1. IsModule(value) /\ form' = "wire" /\ value' = ToWire(value) /\ sent' = <<value>>
      BY <1>1, <1>5 DEF Encode, FormsOK
    <2>2. IsWire(value', value)
      BY <2>1, Encoded
    <2>3. QED
      BY <2>1, <2>2 DEF FormsOK
  <1>6. CASE Foreign
    <2>1. form = "wire" /\ form' = "wire" /\ sent' = sent
      BY <1>6 DEF Foreign
    <2>2. PICK d : sent = <<d>> /\ IsModule(d) /\ IsWire(value, d)
      BY <1>1, <2>1 DEF FormsOK
    <2>3. IsWire(value', d)
      BY <1>6, <2>2, ForeignIs, Stripped
    <2>4. QED
      BY <2>1, <2>2, <2>3 DEF FormsOK
  <1>7. CASE Decode
    <2>1. form = "wire" /\ form' = "document" /\ sent' = sent
      BY <1>7 DEF Decode
    <2>2. PICK d : sent = <<d>> /\ IsModule(d) /\ IsWire(value, d)
      BY <1>1, <2>1 DEF FormsOK
    <2>3. PICK last \in Lasts(value), entry \in Entries(value) : value' = Reads(value, last, entry)
      BY <1>7, DecodeIs
    <2>4. Decoded(value', d)
      BY <2>2, <2>3, ReadIs
    <2>5. IsModule(value')
      BY <2>4 DEF Decoded
    <2>6. QED
      BY <2>1, <2>2, <2>4, <2>5 DEF FormsOK
  <1>8. CASE UNCHANGED circuit
    <2>1. form' = form /\ value' = value /\ sent' = sent
      BY <1>8 DEF circuit
    <2>2. QED
      BY <1>1, <2>1 DEF FormsOK
  <1>9. QED
    BY <1>1, <1>2, <1>3, <1>4, <1>5, <1>6, <1>7, <1>8 DEF Convert

(* In every state of every session.                                       *)
THEOREM Forms == Conversions => []FormsOK
  BY FormsBegin, FormsKept, PTL DEF Conversions

(* Whatever documents and wires a circuit comes through, the netlist       *)
(* elaborated from it is one the core would have built: its array          *)
(* dimensions are positive and all its members exist.                      *)
THEOREM CircuitTyping == Conversions => []CircuitOK
  <1>1. FormsOK => CircuitOK
    <2>1. SUFFICES ASSUME FormsOK PROVE CircuitOK
      OBVIOUS
    <2>2. \A d : <<d>> # << >>
      OBVIOUS
    <2>3. QED
      BY <2>1, <2>2 DEF FormsOK, CircuitOK
  <1>2. QED
    BY <1>1, Forms, PTL

(* A decoded document is the one that was encoded, but for white space.    *)
LEMMA DecodedTidied ==
  ASSUME NEW d, IsModule(d), Tidied(d), NEW v, Decoded(v, d)
  PROVE  [v EXCEPT !.nets = << >>] = [d EXCEPT !.nets = << >>]
  <1>1. /\ d = [instances |-> d.instances, ports |-> d.ports, connections |-> d.connections, nets |-> d.nets]
        /\ v = [instances |-> v.instances, ports |-> v.ports, connections |-> v.connections, nets |-> v.nets]
        /\ v.instances = d.instances
    BY DEF Decoded, IsModule
  <1>2. /\ d.ports = [p \in DOMAIN d.ports |-> d.ports[p]] /\ \A p \in DOMAIN d.ports : IsText(d.ports[p])
        /\ d.connections = [s \in DOMAIN d.connections |-> d.connections[s]]
        /\ \A s \in DOMAIN d.connections : IsText(s) /\ IsText(d.connections[s])
    BY DEF IsModule, IsFiniteMap
  <1>3. /\ v.ports = [p \in DOMAIN v.ports |-> v.ports[p]]
        /\ v.connections = [s \in DOMAIN v.connections |-> v.connections[s]]
    BY DEF Decoded, IsModule, IsFiniteMap
  <1>4. \A t : IsText(t) /\ ~ t.spaced => Tidy(t) = t
    BY DEF IsText, Tidy, Plain
  <1>5. v.ports = d.ports
    <2>1. DOMAIN v.ports = DOMAIN d.ports /\ \A p \in DOMAIN d.ports : v.ports[p] = d.ports[p]
      BY <1>2, <1>4 DEF Decoded, Tidied, NamesPlain
    <2>2. QED
      BY <1>2, <1>3, <2>1
  <1>6. v.connections = d.connections
    <2>1. \A s \in DOMAIN d.connections : Tidy(s) = s /\ Tidy(d.connections[s]) = d.connections[s]
      BY <1>2, <1>4 DEF Tidied
    <2>2. DOMAIN v.connections = DOMAIN d.connections
      BY <2>1 DEF Decoded
    <2>3. \A t \in DOMAIN v.connections : v.connections[t] = d.connections[t]
      BY <2>1 DEF Decoded
    <2>4. QED
      BY <1>2, <1>3, <2>2, <2>3
  <1>7. [d EXCEPT !.nets = << >>] = [instances |-> d.instances, ports |-> d.ports, connections |-> d.connections, nets |-> << >>]
    BY <1>1
  <1>8. [v EXCEPT !.nets = << >>] = [instances |-> v.instances, ports |-> v.ports, connections |-> v.connections, nets |-> << >>]
    BY <1>1
  <1>9. QED
    BY <1>1, <1>5, <1>6, <1>7, <1>8

(* Reading a wire gives back the document that was written, nets member    *)
(* for member, whether the lists were in the reserved property or had to   *)
(* be chained from pairs; ports too, unless a name reads as another.       *)
THEOREM WireExactness == Conversions => []WireExact
  <1>1. FormsOK => WireExact
    <2>1. SUFFICES ASSUME FormsOK, form = "document", sent # << >>
                   PROVE  /\ Tidied(sent[1]) => [value EXCEPT !.nets = << >>] = [sent[1] EXCEPT !.nets = << >>]
                          /\ DOMAIN value.nets = DOMAIN sent[1].nets
                          /\ \A l \in DOMAIN value.nets :
                               /\ Len(value.nets[l]) = Len(sent[1].nets[l])
                               /\ \A i \in DOMAIN value.nets[l] : value.nets[l][i].to = sent[1].nets[l][i].to
      BY DEF WireExact
    <2>2. PICK d : sent = <<d>> /\ IsModule(d) /\ Decoded(value, d)
      BY <2>1 DEF FormsOK
    <2>3. sent[1] = d
      BY <2>2
    <2>4. Tidied(d) => [value EXCEPT !.nets = << >>] = [d EXCEPT !.nets = << >>]
      BY <2>2, DecodedTidied
    <2>5. DOMAIN value.nets = DOMAIN d.nets /\ \A l \in DOMAIN d.nets : SameTexts(value.nets[l], d.nets[l])
      BY <2>2 DEF Decoded
    <2>6. ASSUME NEW l \in DOMAIN d.nets PROVE DOMAIN value.nets[l] = DOMAIN d.nets[l]
      <3>1. IsList(value.nets[l]) /\ IsList(d.nets[l])
        BY <2>2, <2>5 DEF Decoded, IsModule, AreLists
      <3>2. Len(value.nets[l]) = Len(d.nets[l])
        BY <2>5 DEF SameTexts
      <3>3. QED
        BY <3>1, <3>2, ListIs
    <2>7. QED
      BY <2>3, <2>4, <2>5, <2>6 DEF SameTexts
  <1>2. QED
    BY <1>1, Forms, PTL
--------------------------------------------------------------------------------
(***************************************************************************)
(* Nets with the same members, each as often: an equivalence, in which a   *)
(* private net is with private nets of the same pin only.                  *)
(***************************************************************************)
Count(a, m) == Cardinality({i \in DOMAIN a : a[i] = m})
LEMMA CountIs ==
  ASSUME NEW a, IsList(a), NEW m
  PROVE  Count(a, m) \in Nat /\ (Count(a, m) = 0 <=> \A i \in DOMAIN a : a[i] # m)
  <1> DEFINE S == {i \in DOMAIN a : a[i] = m}
  <1>1. IsFiniteSet(S)
    <2>1. S \subseteq DOMAIN a
      OBVIOUS
    <2>2. IsFiniteSet(DOMAIN a)
      BY ListIs
    <2> HIDE DEF S
    <2>3. QED
      BY <2>1, <2>2, FS_Subset
  <1>2. S = {} <=> \A i \in DOMAIN a : a[i] # m
    OBVIOUS
  <1>3. Count(a, m) = Cardinality(S)
    BY DEF Count
  <1> HIDE DEF S
  <1>4. Cardinality(S) \in Nat /\ (Cardinality(S) = 0 <=> S = {})
    BY <1>1, FS_CardinalityType, FS_EmptySet
  <1>5. QED
    BY <1>2, <1>3, <1>4

LEMMA AlikeIs ==
  ASSUME NEW a, IsList(a), NEW b, IsList(b)
  PROVE  Alike(a, b) <=> Len(a) = Len(b) /\ \A m : Count(a, m) = Count(b, m)
  <1>1. Alike(a, b) <=> Len(a) = Len(b) /\ \A m \in ToSet(a) \cup ToSet(b) : Count(a, m) = Count(b, m)
    BY DEF Alike, Count
  <1>2. ASSUME NEW m, m \notin ToSet(a) \cup ToSet(b) PROVE Count(a, m) = Count(b, m)
    <2>1. \A i \in DOMAIN a : a[i] # m
      BY <1>2, ListIs
    <2>2. \A i \in DOMAIN b : b[i] # m
      BY <1>2, ListIs
    <2>3. Count(a, m) = 0
      BY <2>1, CountIs
    <2>4. Count(b, m) = 0
      BY <2>2, CountIs
    <2>5. QED
      BY <2>3, <2>4
  <1>3. QED
    BY <1>1, <1>2

LEMMA AlikeSelf ==
  ASSUME NEW a, IsList(a)
  PROVE  Alike(a, a)
  BY AlikeIs

LEMMA AlikeSymmetric ==
  ASSUME NEW a, IsList(a), NEW b, IsList(b), Alike(a, b)
  PROVE  Alike(b, a)
  BY AlikeIs

LEMMA AlikeTransitive ==
  ASSUME NEW a, IsList(a), NEW b, IsList(b), NEW c, IsList(c), Alike(a, b), Alike(b, c)
  PROVE  Alike(a, c)
  <1>1. Len(a) = Len(b) /\ \A m : Count(a, m) = Count(b, m)
    BY AlikeIs
  <1>2. Len(b) = Len(c) /\ \A m : Count(b, m) = Count(c, m)
    BY AlikeIs
  <1>3. QED
    BY <1>1, <1>2, AlikeIs

LEMMA AlikeMember ==
  ASSUME NEW a, IsList(a), NEW b, IsList(b), Alike(a, b), NEW i \in DOMAIN a
  PROVE  \E j \in DOMAIN b : b[j] = a[i]
  <1>1. Count(a, a[i]) # 0
    BY CountIs
  <1>2. Count(b, a[i]) # 0
    BY <1>1, AlikeIs
  <1>3. QED
    BY <1>2, CountIs

LEMMA AlikePrivate ==
  ASSUME NEW a, IsList(a), NEW b, IsList(b), Alike(a, b), Private(a)
  PROVE  Private(b) /\ ThePin(b) = ThePin(a)
  <1>1. /\ Len(a) = 2 /\ DOMAIN a = {1, 2}
        /\ \E i, j \in {1, 2} : /\ i # j /\ IsPin(a[i]) /\ ~ IsPin(a[j])
                                /\ ThePin(a) = a[i].pin /\ TheOther(a) = a[j]
    BY PrivateIs
  <1>2. PICK i, j \in {1, 2} : i # j /\ IsPin(a[i]) /\ ~ IsPin(a[j]) /\ ThePin(a) = a[i].pin
    BY <1>1
  <1>3. Len(b) = 2 /\ DOMAIN b = 1 .. 2
    BY <1>1, ListIs DEF Alike
  <1>4. PICK k \in DOMAIN b : b[k] = a[i]
    BY <1>1, AlikeMember
  <1>5. PICK n \in DOMAIN b : b[n] = a[j]
    BY <1>1, AlikeMember
  <1>6. k \in {1, 2} /\ n \in {1, 2} /\ k # n
    BY <1>2, <1>3, <1>4, <1>5
  <1>7. Private(b) /\ ThePin(b) = b[k].pin
    BY <1>2, <1>3, <1>4, <1>5, <1>6, PrivateIf
  <1>8. QED
    BY <1>2, <1>4, <1>7

LEMMA AlikeTwo ==
  ASSUME NEW a, IsList(a), Len(a) = 2, NEW b, IsList(b), Len(b) = 2,
         NEW i \in {1, 2}, NEW j \in {1, 2}, i # j, a[1] = b[i], a[2] = b[j]
  PROVE  Alike(a, b)
  <1>1. DOMAIN a = {1, 2} /\ DOMAIN b = {1, 2}
    <2>1. DOMAIN a = 1 .. 2 /\ DOMAIN b = 1 .. 2
      BY ListIs
    <2>2. QED
      BY <2>1
  <1>2. ASSUME NEW m PROVE Count(a, m) = Count(b, m)
    <2> DEFINE S == {k \in DOMAIN a : a[k] = m}
               T == {k \in DOMAIN b : b[k] = m}
               f == [k \in S |-> IF k = 1 THEN i ELSE j]
    <2>1. f \in [S -> T]
      BY <1>1
    <2>2. \A x, y \in S : f[x] = f[y] => x = y
      BY <1>1
    <2>3. \A z \in T : \E x \in S : f[x] = z
      <3>1. TAKE z \in T
      <3>2. CASE z = i
        BY <1>1, <3>2
      <3>3. CASE z = j
        BY <1>1, <3>3
      <3>4. QED
        BY <1>1, <3>2, <3>3
    <2>4. IsFiniteSet(S)
      <3>1. S \subseteq DOMAIN a
        OBVIOUS
      <3>2. IsFiniteSet(DOMAIN a)
        BY ListIs
      <3> HIDE DEF S
      <3>3. QED
        BY <3>1, <3>2, FS_Subset
    <2>5. Count(a, m) = Cardinality(S) /\ Count(b, m) = Cardinality(T)
      BY DEF Count
    <2> HIDE DEF S, T, f
    <2>6. Cardinality(T) = Cardinality(S)
      BY <2>1, <2>2, <2>3, <2>4, SameSize
    <2>7. QED
      BY <2>5, <2>6
  <1>3. QED
    BY <1>2, AlikeIs

(***************************************************************************)
(* How often a net is among the nets of a netlist.                         *)
(***************************************************************************)
LEMMA CopiesIs ==
  ASSUME NEW nl, AreLists(nl.nets), NEW list, IsList(list)
  PROVE  /\ Copies(list, nl) \in Nat /\ IsFiniteSet({l \in DOMAIN nl.nets : Alike(nl.nets[l], list)})
         /\ Copies(list, nl) >= 1 <=> \E l \in DOMAIN nl.nets : Alike(nl.nets[l], list)
  <1> DEFINE S == {l \in DOMAIN nl.nets : Alike(nl.nets[l], list)}
  <1>1. IsFiniteSet(S)
    <2>1. S \subseteq DOMAIN nl.nets
      OBVIOUS
    <2>2. IsFiniteSet(DOMAIN nl.nets)
      BY DEF AreLists, IsFiniteMap
    <2> HIDE DEF S
    <2>3. QED
      BY <2>1, <2>2, FS_Subset
  <1>2. S # {} <=> \E l \in DOMAIN nl.nets : Alike(nl.nets[l], list)
    OBVIOUS
  <1>3. Copies(list, nl) = Cardinality(S)
    BY DEF Copies
  <1> HIDE DEF S
  <1>4. Cardinality(S) \in Nat /\ (Cardinality(S) = 0 <=> S = {})
    BY <1>1, FS_CardinalityType, FS_EmptySet
  <1>5. Copies(list, nl) \in Nat /\ (Copies(list, nl) >= 1 <=> \E l \in DOMAIN nl.nets : Alike(nl.nets[l], list))
    BY <1>2, <1>3, <1>4
  <1>6. QED
    BY <1>1, <1>5 DEF S

LEMMA CopiesAlike ==
  ASSUME NEW nl, AreLists(nl.nets), NEW m, IsList(m), NEW n, IsList(n), Alike(m, n)
  PROVE  Copies(m, nl) = Copies(n, nl)
  <1>1. ASSUME NEW l \in DOMAIN nl.nets PROVE Alike(nl.nets[l], m) <=> Alike(nl.nets[l], n)
    <2>1. IsList(nl.nets[l])
      BY DEF AreLists
    <2>2. Alike(n, m)
      BY AlikeSymmetric
    <2>3. QED
      BY <2>1, <2>2, AlikeTransitive
  <1>2. {l \in DOMAIN nl.nets : Alike(nl.nets[l], m)} = {l \in DOMAIN nl.nets : Alike(nl.nets[l], n)}
    BY <1>1
  <1>3. QED
    BY <1>2 DEF Copies
--------------------------------------------------------------------------------
(***************************************************************************)
(* Keeping a netlist: a netlist keeps itself, and what keeps one that      *)
(* keeps a third keeps the third, so conversions may follow each other.    *)
(***************************************************************************)
HasLists(nl) == AreInstances(nl.instances) /\ AreLists(nl.nets)

LEMMA DimsTwice ==
  ASSUME NEW i, IsInst(i), NEW j, j.array = Dims(i), j.size = i.size
  PROVE  Dims(j) = Dims(i)
  <1>1. CASE Dims(i) # << >>
    BY <1>1 DEF Dims
  <1>2. CASE Dims(i) = << >>
    <2>1. i.array = << >> /\ i.size = << >>
      <3>1. <<i.size[1], 1>> # << >>
        OBVIOUS
      <3>2. QED
        BY <1>2, <3>1 DEF Dims
    <2>2. QED
      BY <1>2, <2>1 DEF Dims
  <1>3. QED
    BY <1>1, <1>2

LEMMA ShapedTwice ==
  ASSUME NEW a, AreInstances(a.instances), NEW b, b.instances \in {a.instances, Shaped(a)}
  PROVE  /\ AreInstances(b.instances) /\ DOMAIN b.instances = DOMAIN a.instances
         /\ \A i \in DOMAIN b.instances : Dims(b.instances[i]) = Dims(a.instances[i])
         /\ Shaped(b) = Shaped(a)
  <1>1. CASE b.instances = a.instances
    BY <1>1 DEF Shaped
  <1>2. CASE b.instances = Shaped(a)
    <2>1. /\ AreInstances(b.instances) /\ DOMAIN b.instances = DOMAIN a.instances
          /\ \A i \in DOMAIN a.instances :
               b.instances[i] = [array |-> Dims(a.instances[i]), size |-> a.instances[i].size, beyond |-> << >>]
      BY <1>2, ShapedIs
    <2>2. ASSUME NEW i \in DOMAIN a.instances
          PROVE  Dims(b.instances[i]) = Dims(a.instances[i]) /\ b.instances[i].size = a.instances[i].size
      <3>1. b.instances[i] = [array |-> Dims(a.instances[i]), size |-> a.instances[i].size, beyond |-> << >>]
        BY <2>1
      <3>2. b.instances[i].array = Dims(a.instances[i]) /\ b.instances[i].size = a.instances[i].size
        BY <3>1
      <3>3. IsInst(a.instances[i])
        BY DEF AreInstances
      <3>4. QED
        BY <3>2, <3>3, DimsTwice
    <2>3. /\ DOMAIN Shaped(b) = DOMAIN b.instances /\ DOMAIN Shaped(a) = DOMAIN a.instances
          /\ \A i \in DOMAIN b.instances :
               Shaped(b)[i] = [array |-> Dims(b.instances[i]), size |-> b.instances[i].size, beyond |-> << >>]
          /\ \A i \in DOMAIN a.instances :
               Shaped(a)[i] = [array |-> Dims(a.instances[i]), size |-> a.instances[i].size, beyond |-> << >>]
      BY <2>1, ShapedIs
    <2>4. \A i \in DOMAIN a.instances : Shaped(b)[i] = Shaped(a)[i]
      BY <2>1, <2>2, <2>3
    <2>5. Shaped(b) = [i \in DOMAIN a.instances |-> Shaped(b)[i]] /\ Shaped(a) = [i \in DOMAIN a.instances |-> Shaped(a)[i]]
      BY <2>1 DEF Shaped
    <2>6. Shaped(b) = Shaped(a)
      BY <2>4, <2>5
    <2>7. QED
      BY <2>1, <2>2, <2>6
  <1>3. QED
    BY <1>1, <1>2

(* The three parts of Keeps that are about nets.                           *)
KeepsNets(a, b) ==
  \A l \in (DOMAIN a.nets) \ PrivateNets(a) : Copies(a.nets[l], a) = Copies(a.nets[l], b)
KeepsPins(a, b) ==
  \A p \in a.pins : KeptOf(p, a) # {} =>
    \E l \in KeptOf(p, a), k \in KeptOf(p, b) : Alike(a.nets[l], b.nets[k])
AddsNone(a, b) == \A l \in DOMAIN b.nets : Copies(b.nets[l], a) >= Copies(b.nets[l], b)
LEMMA KeepsIs ==
  ASSUME NEW a, NEW b
  PROVE  Keeps(a, b) <=> /\ b.instances \in {a.instances, Shaped(a)} /\ a.pins = b.pins
                         /\ KeepsNets(a, b) /\ KeepsPins(a, b) /\ AddsNone(a, b)
  BY DEF Keeps, KeepsNets, KeepsPins, AddsNone

LEMMA KeepsSelf ==
  ASSUME NEW a, HasLists(a)
  PROVE  Keeps(a, a)
  <1>1. \A l \in DOMAIN a.nets : IsList(a.nets[l])
    BY DEF HasLists, AreLists
  <1>2. KeepsNets(a, a)
    BY DEF KeepsNets
  <1>3. ASSUME NEW p \in a.pins, NEW l \in KeptOf(p, a)
        PROVE  \E j \in KeptOf(p, a), k \in KeptOf(p, a) : Alike(a.nets[j], a.nets[k])
    <2>1. l \in DOMAIN a.nets
      BY DEF KeptOf, PrivateNets
    <2>2. Alike(a.nets[l], a.nets[l])
      BY <1>1, <2>1, AlikeSelf
    <2>3. QED
      BY <2>2
  <1>4. KeepsPins(a, a)
    BY <1>3 DEF KeepsPins
  <1>5. AddsNone(a, a)
    <2>1. \A l \in DOMAIN a.nets : Copies(a.nets[l], a) \in Nat
      BY <1>1, CopiesIs DEF HasLists
    <2>2. QED
      BY <2>1 DEF AddsNone
  <1>6. QED
    BY <1>2, <1>4, <1>5, KeepsIs

(* A net that a netlist has at least once is one of its nets.              *)
LEMMA Found ==
  ASSUME NEW a, HasLists(a), NEW b, HasLists(b), NEW l \in DOMAIN b.nets,
         Copies(b.nets[l], a) >= Copies(b.nets[l], b)
  PROVE  \E k \in DOMAIN a.nets : Alike(a.nets[k], b.nets[l])
  <1>1. AreLists(a.nets) /\ AreLists(b.nets) /\ IsList(b.nets[l])
    BY DEF HasLists, AreLists
  <1>2. Alike(b.nets[l], b.nets[l])
    BY <1>1, AlikeSelf
  <1>3. Copies(b.nets[l], b) >= 1 /\ Copies(b.nets[l], b) \in Nat /\ Copies(b.nets[l], a) \in Nat
    BY <1>1, <1>2, CopiesIs
  <1>4. Copies(b.nets[l], a) >= 1
    BY <1>3
  <1>5. QED
    BY <1>1, <1>4, CopiesIs

LEMMA KeptIs ==
  ASSUME NEW nl, NEW p, NEW l
  PROVE  l \in KeptOf(p, nl) <=> l \in DOMAIN nl.nets /\ Private(nl.nets[l]) /\ ThePin(nl.nets[l]) = p
  BY DEF KeptOf, PrivateNets

LEMMA KeepsTransitive ==
  ASSUME NEW a, HasLists(a), NEW b, HasLists(b), NEW c, HasLists(c), Keeps(a, b), Keeps(b, c)
  PROVE  Keeps(a, c)
  <1>1. /\ b.instances \in {a.instances, Shaped(a)} /\ a.pins = b.pins
        /\ KeepsNets(a, b) /\ KeepsPins(a, b) /\ AddsNone(a, b)
    BY KeepsIs
  <1>2. /\ c.instances \in {b.instances, Shaped(b)} /\ b.pins = c.pins
        /\ KeepsNets(b, c) /\ KeepsPins(b, c) /\ AddsNone(b, c)
    BY KeepsIs
  <1>3. AreLists(a.nets) /\ AreLists(b.nets) /\ AreLists(c.nets) /\ AreInstances(a.instances)
    BY DEF HasLists
  <1>4. /\ \A l \in DOMAIN a.nets : IsList(a.nets[l])
        /\ \A l \in DOMAIN b.nets : IsList(b.nets[l])
        /\ \A l \in DOMAIN c.nets : IsList(c.nets[l])
    BY <1>3 DEF AreLists
  <1>5. c.instances \in {a.instances, Shaped(a)}
    <2>1. Shaped(b) = Shaped(a)
      BY <1>1, <1>3, ShapedTwice
    <2>2. QED
      BY <1>1, <1>2, <2>1
  <1>6. ASSUME NEW l \in (DOMAIN a.nets) \ PrivateNets(a)
        PROVE  Copies(a.nets[l], a) = Copies(a.nets[l], c)
    <2> DEFINE n == a.nets[l]
    <2>1. IsList(n) /\ ~ Private(n) /\ Copies(n, a) = Copies(n, b)
      BY <1>1, <1>4 DEF KeepsNets, PrivateNets
    <2>2. Alike(n, n)
      BY <2>1, AlikeSelf
    <2>3. Copies(n, a) >= 1
      BY <1>3, <2>1, <2>2, CopiesIs
    <2>4. PICK k \in DOMAIN b.nets : Alike(b.nets[k], n)
      BY <1>3, <2>1, <2>3, CopiesIs
    <2> HIDE DEF n
    <2>5. IsList(b.nets[k])
      BY <1>4
    <2>6. ~ Private(b.nets[k])
      BY <2>1, <2>4, <2>5, AlikePrivate
    <2>7. Copies(b.nets[k], b) = Copies(b.nets[k], c)
      BY <1>2, <2>6 DEF KeepsNets, PrivateNets
    <2>8. Copies(b.nets[k], b) = Copies(n, b)
      BY <1>3, <2>1, <2>4, <2>5, CopiesAlike
    <2>9. Copies(b.nets[k], c) = Copies(n, c)
      BY <1>3, <2>1, <2>4, <2>5, CopiesAlike
    <2>10. QED
      BY <2>1, <2>7, <2>8, <2>9 DEF n
  <1>7. KeepsNets(a, c)
    BY <1>6 DEF KeepsNets
  <1>8. ASSUME NEW p \in a.pins, KeptOf(p, a) # {}
        PROVE  \E l \in KeptOf(p, a), k \in KeptOf(p, c) : Alike(a.nets[l], c.nets[k])
    <2>1. PICK m \in KeptOf(p, b) : TRUE
      BY <1>1, <1>8 DEF KeepsPins
    <2>2. PICK j \in KeptOf(p, b), k \in KeptOf(p, c) : Alike(b.nets[j], c.nets[k])
      BY <1>1, <1>2, <2>1 DEF KeepsPins
    <2>3. j \in DOMAIN b.nets /\ k \in DOMAIN c.nets /\ Private(b.nets[j]) /\ ThePin(b.nets[j]) = p
      BY <2>2, KeptIs
    <2>4. Copies(b.nets[j], a) >= Copies(b.nets[j], b)
      BY <1>1, <2>3 DEF AddsNone
    <2>5. PICK i \in DOMAIN a.nets : Alike(a.nets[i], b.nets[j])
      BY <2>3, <2>4, Found
    <2>6. IsList(a.nets[i]) /\ IsList(b.nets[j]) /\ IsList(c.nets[k])
      BY <1>4, <2>3
    <2>7. Alike(b.nets[j], a.nets[i])
      BY <2>5, <2>6, AlikeSymmetric
    <2>8. Private(a.nets[i]) /\ ThePin(a.nets[i]) = p
      BY <2>3, <2>6, <2>7, AlikePrivate
    <2>9. i \in KeptOf(p, a)
      BY <2>8, KeptIs
    <2>10. Alike(a.nets[i], c.nets[k])
      BY <2>2, <2>5, <2>6, AlikeTransitive
    <2>11. QED
      BY <2>2, <2>9, <2>10
  <1>9. KeepsPins(a, c)
    BY <1>8 DEF KeepsPins
  <1>10. ASSUME NEW l \in DOMAIN c.nets
         PROVE  Copies(c.nets[l], a) >= Copies(c.nets[l], c)
    <2> DEFINE n == c.nets[l]
    <2>1. IsList(n) /\ Copies(n, b) >= Copies(n, c)
      BY <1>2, <1>4 DEF AddsNone
    <2>2. PICK k \in DOMAIN b.nets : Alike(b.nets[k], n)
      BY <2>1, Found
    <2> HIDE DEF n
    <2>3. IsList(b.nets[k]) /\ Copies(b.nets[k], a) >= Copies(b.nets[k], b)
      BY <1>1, <1>4 DEF AddsNone
    <2>4. Copies(b.nets[k], a) = Copies(n, a)
      BY <1>3, <2>1, <2>2, <2>3, CopiesAlike
    <2>5. Copies(b.nets[k], b) = Copies(n, b)
      BY <1>3, <2>1, <2>2, <2>3, CopiesAlike
    <2>6. Copies(n, a) \in Nat /\ Copies(n, b) \in Nat /\ Copies(n, c) \in Nat
      BY <1>3, <2>1, CopiesIs
    <2>7. QED
      BY <2>1, <2>3, <2>4, <2>5, <2>6 DEF n
  <1>11. AddsNone(a, c)
    BY <1>10 DEF AddsNone
  <1>12. QED
    BY <1>1, <1>2, <1>5, <1>7, <1>9, <1>11, KeepsIs

(* The same nets under other labels.                                       *)
LEMMA Relabelled ==
  ASSUME NEW a, HasLists(a), NEW b, HasLists(b), b.instances = a.instances, b.pins = a.pins,
         NEW f \in [DOMAIN a.nets -> DOMAIN b.nets],
         \A x, y \in DOMAIN a.nets : f[x] = f[y] => x = y,
         \A k \in DOMAIN b.nets : \E l \in DOMAIN a.nets : f[l] = k,
         \A l \in DOMAIN a.nets : b.nets[f[l]] = a.nets[l]
  PROVE  Keeps(a, b)
  <1>1. \A l \in DOMAIN a.nets : IsList(a.nets[l])
    BY DEF HasLists, AreLists
  <1>2. ASSUME NEW n, IsList(n) PROVE Copies(n, a) = Copies(n, b) /\ Copies(n, a) \in Nat
    <2> DEFINE S == {l \in DOMAIN a.nets : Alike(a.nets[l], n)}
               T == {l \in DOMAIN b.nets : Alike(b.nets[l], n)}
               g == [l \in S |-> f[l]]
    <2>1. IsFiniteSet(S) /\ Copies(n, a) \in Nat
      BY <1>2, CopiesIs DEF HasLists
    <2>2. g \in [S -> T] /\ \A x, y \in S : g[x] = g[y] => x = y
      OBVIOUS
    <2>3. \A z \in T : \E x \in S : g[x] = z
      OBVIOUS
    <2>4. Copies(n, a) = Cardinality(S) /\ Copies(n, b) = Cardinality(T)
      BY DEF Copies
    <2> HIDE DEF S, T, g
    <2>5. Cardinality(T) = Cardinality(S)
      BY <2>1, <2>2, <2>3, SameSize
    <2>6. QED
      BY <2>1, <2>4, <2>5
  <1>3. KeepsNets(a, b)
    BY <1>1, <1>2 DEF KeepsNets
  <1>4. ASSUME NEW p \in a.pins, NEW l \in KeptOf(p, a)
        PROVE  \E j \in KeptOf(p, a), k \in KeptOf(p, b) : Alike(a.nets[j], b.nets[k])
    <2>1. l \in DOMAIN a.nets /\ Private(a.nets[l]) /\ ThePin(a.nets[l]) = p
      BY KeptIs
    <2>2. f[l] \in KeptOf(p, b)
      BY <2>1, KeptIs
    <2>3. Alike(a.nets[l], b.nets[f[l]])
      BY <1>1, <2>1, AlikeSelf
    <2>4. QED
      BY <2>2, <2>3
  <1>5. KeepsPins(a, b)
    BY <1>4 DEF KeepsPins
  <1>6. \A k \in DOMAIN b.nets : IsList(b.nets[k])
    BY DEF HasLists, AreLists
  <1>7. AddsNone(a, b)
    BY <1>2, <1>6 DEF AddsNone
  <1>8. QED
    BY <1>3, <1>5, <1>7, KeepsIs

(* What cannot be written of a netlist could not be of the one it keeps.   *)
LEMMA StillUnwritable ==
  ASSUME NEW a, HasLists(a), NEW b, HasLists(b), Keeps(a, b), Unwritable(b)
  PROVE  Unwritable(a)
  <1>1. b.instances \in {a.instances, Shaped(a)} /\ AddsNone(a, b)
    BY KeepsIs
  <1>2. CASE \E l \in DOMAIN b.nets : \E m \in ToSet(b.nets[l]) : ~ IsPin(m) /\ \E x \in ToSet(m.at) : x < 1
    <2>1. PICK l \in DOMAIN b.nets : \E m \in ToSet(b.nets[l]) : ~ IsPin(m) /\ \E x \in ToSet(m.at) : x < 1
      BY <1>2
    <2>2. PICK m \in ToSet(b.nets[l]) : ~ IsPin(m) /\ \E x \in ToSet(m.at) : x < 1
      BY <2>1
    <2>3. PICK k \in DOMAIN a.nets : Alike(a.nets[k], b.nets[l])
      BY <1>1, Found DEF AddsNone
    <2>4. IsList(a.nets[k]) /\ IsList(b.nets[l])
      BY DEF HasLists, AreLists
    <2>5. PICK i \in DOMAIN b.nets[l] : b.nets[l][i] = m
      BY <2>2, <2>4, ListIs
    <2>6. Alike(b.nets[l], a.nets[k])
      BY <2>3, <2>4, AlikeSymmetric
    <2>7. PICK j \in DOMAIN a.nets[k] : a.nets[k][j] = m
      BY <2>4, <2>5, <2>6, AlikeMember
    <2>8. m \in ToSet(a.nets[k])
      BY <2>4, <2>7, ListIs
    <2>9. QED
      BY <2>2, <2>8 DEF Unwritable
  <1>3. CASE \E i \in DOMAIN b.instances : \E d \in ToSet(Dims(b.instances[i])) : d < 1
    <2>1. AreInstances(a.instances)
      BY DEF HasLists
    <2>2. DOMAIN b.instances = DOMAIN a.instances /\ \A i \in DOMAIN b.instances : Dims(b.instances[i]) = Dims(a.instances[i])
      BY <1>1, <2>1, ShapedTwice
    <2>3. QED
      BY <1>3, <2>2 DEF Unwritable
  <1>4. QED
    BY <1>2, <1>3 DEF Unwritable

(* Names that survive being written do so whatever the netlist went        *)
(* through: its pins and members are those of the start.                   *)
LEMMA LegibleIs ==
  ASSUME NEW nl, IsNetlist(nl), Legible(nl)
  PROVE  /\ \A p \in nl.pins : Unparse(Pin(p)) = Plain(Pin(p))
         /\ \A l \in DOMAIN nl.nets : \A i \in DOMAIN nl.nets[l] : Unparse(nl.nets[l][i]) = Plain(nl.nets[l][i])
  <1>1. \A p \in nl.pins : Unparse(Pin(p)) = Plain(Pin(p))
    BY UnparsedIs DEF Legible
  <1>2. ASSUME NEW l \in DOMAIN nl.nets, NEW i \in DOMAIN nl.nets[l]
        PROVE  Unparse(nl.nets[l][i]) = Plain(nl.nets[l][i])
    <2>1. IsList(nl.nets[l])
      BY DEF IsNetlist, AreLists
    <2>2. nl.nets[l][i] \in ToSet(nl.nets[l])
      BY <2>1, ListIs
    <2>3. QED
      BY <2>2, UnparsedIs DEF Legible
  <1>3. QED
    BY <1>1, <1>2

LEMMA StillLegible ==
  ASSUME NEW a, HasLists(a), NEW b, HasLists(b), Keeps(a, b), Legible(a)
  PROVE  Legible(b)
  <1>1. b.pins = a.pins /\ AddsNone(a, b)
    BY KeepsIs
  <1>2. ASSUME NEW l \in DOMAIN b.nets, NEW m \in ToSet(b.nets[l]) PROVE m \notin DOMAIN Odd
    <2>1. PICK k \in DOMAIN a.nets : Alike(a.nets[k], b.nets[l])
      BY <1>1, Found DEF AddsNone
    <2>2. IsList(a.nets[k]) /\ IsList(b.nets[l])
      BY DEF HasLists, AreLists
    <2>3. PICK i \in DOMAIN b.nets[l] : b.nets[l][i] = m
      BY <2>2, ListIs
    <2>4. Alike(b.nets[l], a.nets[k])
      BY <2>1, <2>2, AlikeSymmetric
    <2>5. PICK j \in DOMAIN a.nets[k] : a.nets[k][j] = m
      BY <2>2, <2>3, <2>4, AlikeMember
    <2>6. m \in ToSet(a.nets[k])
      BY <2>2, <2>5, ListIs
    <2>7. QED
      BY <2>6 DEF Legible
  <1>3. QED
    BY <1>1, <1>2 DEF Legible
--------------------------------------------------------------------------------
(***************************************************************************)
(* Labels.  Nothing a document asks for has the label of something else,   *)
(* so no net is lost; nor does the alias that stays a net take the label   *)
(* of another.                                                             *)
(***************************************************************************)
LabelsApart(d) ==
  /\ \A l \in DOMAIN d.nets : l = <<l[1], l[2]>> /\ l[1] # "port" /\ (l[1] = "conn" => DOMAIN d.connections = {})
  /\ \A p \in Aliased(d) : <<"alias", p>> \in DOMAIN d.nets => ~ IsPin(d.ports[p].to)
LabelsOK(nl) ==
  /\ \A l \in DOMAIN nl.nets : l = <<l[1], l[2]>>
  /\ \A p : <<"alias", p>> \in DOMAIN nl.nets /\ <<"port", p>> \in DOMAIN nl.nets => Private(nl.nets[<<"port", p>>])

LEMMA RequestedAt ==
  ASSUME NEW d
  PROVE  /\ \A l \in DOMAIN d.nets : l \in DOMAIN Requested(d) /\ Requested(d)[l] = d.nets[l]
         /\ \A s \in DOMAIN d.connections : <<"conn", s>> \notin DOMAIN d.nets =>
              <<"conn", s>> \in DOMAIN Requested(d) /\ Requested(d)[<<"conn", s>>] = <<s, d.connections[s]>>
         /\ \A p \in Aliased(d) : <<"port", p>> \notin DOMAIN d.nets =>
              <<"port", p>> \in DOMAIN Requested(d) /\ Requested(d)[<<"port", p>>] = <<Plain(Pin(p)), d.ports[p]>>
  <1> DEFINE D == {<<"conn", s>> : s \in DOMAIN d.connections} \cup DOMAIN d.nets \cup {<<"port", p>> : p \in Aliased(d)}
             entry(l) == IF l \in DOMAIN d.nets THEN d.nets[l]
                         ELSE IF l[1] = "conn" THEN <<l[2], d.connections[l[2]]>>
                         ELSE <<Plain(Pin(l[2])), d.ports[l[2]]>>
  <1>1. Requested(d) = [l \in D |-> entry(l)]
    BY DEF Requested
  <1> HIDE DEF entry
  <1>2. DOMAIN Requested(d) = D /\ \A l \in D : Requested(d)[l] = entry(l)
    BY <1>1
  <1>3. ASSUME NEW l \in DOMAIN d.nets PROVE l \in D /\ entry(l) = d.nets[l]
    BY DEF entry
  <1>4. ASSUME NEW s \in DOMAIN d.connections, <<"conn", s>> \notin DOMAIN d.nets
        PROVE  <<"conn", s>> \in D /\ entry(<<"conn", s>>) = <<s, d.connections[s]>>
    BY <1>4 DEF entry
  <1>5. ASSUME NEW p \in Aliased(d), <<"port", p>> \notin DOMAIN d.nets
        PROVE  <<"port", p>> \in D /\ entry(<<"port", p>>) = <<Plain(Pin(p)), d.ports[p]>>
    BY <1>5 DEF entry
  <1> HIDE DEF D
  <1>6. QED
    BY <1>2, <1>3, <1>4, <1>5

LEMMA NetsAre ==
  ASSUME NEW d, IsModule(d)
  PROVE  /\ HasLists(ToNetlist(d)) /\ DOMAIN ToNetlist(d).nets = DOMAIN Requested(d)
         /\ ToNetlist(d).instances = Shaped(d) /\ ToNetlist(d).pins = DOMAIN d.ports
         /\ \A l \in DOMAIN Requested(d) :
              /\ IsList(ToNetlist(d).nets[l]) /\ Len(ToNetlist(d).nets[l]) = Len(Requested(d)[l])
              /\ \A i \in DOMAIN Requested(d)[l] : ToNetlist(d).nets[l][i] = ParsePortRef(Requested(d)[l][i])
  <1> DEFINE R == Requested(d)
             N == [l \in DOMAIN R |-> [i \in DOMAIN R[l] |-> ParsePortRef(R[l][i])]]
  <1>1. ToNetlist(d) = [instances |-> Shaped(d), pins |-> DOMAIN d.ports, nets |-> N]
    BY DEF ToNetlist
  <1>2. IsFiniteSet(DOMAIN R) /\ \A l \in DOMAIN R : IsList(R[l])
    BY RequestedMade
  <1> HIDE DEF R
  <1>3. ASSUME NEW l \in DOMAIN R
        PROVE  IsList(N[l]) /\ Len(N[l]) = Len(R[l]) /\ \A i \in DOMAIN R[l] : N[l][i] = ParsePortRef(R[l][i])
    <2>1. Len(R[l]) \in Nat /\ DOMAIN R[l] = 1 .. Len(R[l])
      BY <1>2, ListIs
    <2>2. N[l] = [i \in 1 .. Len(R[l]) |-> N[l][i]] /\ \A i \in DOMAIN R[l] : N[l][i] = ParsePortRef(R[l][i])
      BY <2>1
    <2>3. IsList(N[l]) /\ Len(N[l]) = Len(R[l])
      BY <2>1, <2>2, ListMade
    <2>4. QED
      BY <2>2, <2>3
  <1>4. N = [l \in DOMAIN R |-> N[l]] /\ DOMAIN N = DOMAIN R
    OBVIOUS
  <1> HIDE DEF N
  <1>5. AreInstances(Shaped(d))
    BY ShapedIs DEF IsModule
  <1>6. AreLists(N)
    BY <1>2, <1>3, <1>4 DEF AreLists, IsFiniteMap
  <1>7. ToNetlist(d).nets = N /\ ToNetlist(d).instances = Shaped(d) /\ ToNetlist(d).pins = DOMAIN d.ports
    BY <1>1
  <1>8. QED
    BY <1>3, <1>4, <1>5, <1>6, <1>7 DEF HasLists, R

LEMMA TwoMembers ==
  ASSUME NEW d, IsModule(d), NEW l \in DOMAIN Requested(d), NEW s, NEW t, Requested(d)[l] = <<s, t>>
  PROVE  /\ IsList(ToNetlist(d).nets[l]) /\ Len(ToNetlist(d).nets[l]) = 2
         /\ ToNetlist(d).nets[l][1] = ParsePortRef(s) /\ ToNetlist(d).nets[l][2] = ParsePortRef(t)
  <1>1. DOMAIN <<s, t>> = 1 .. 2 /\ Len(<<s, t>>) = 2 /\ <<s, t>>[1] = s /\ <<s, t>>[2] = t
    BY PairIs
  <1>2. 1 \in 1 .. 2 /\ 2 \in 1 .. 2
    OBVIOUS
  <1>3. QED
    BY <1>1, <1>2, NetsAre

(* The labels of a netlist that was elaborated.                            *)
LEMMA LabelsElaborated ==
  ASSUME NEW d, IsModule(d), Elaborates(d), LabelsApart(d)
  PROVE  LabelsOK(ToNetlist(d))
  <1>1. DOMAIN ToNetlist(d).nets = DOMAIN Requested(d)
    BY NetsAre
  <1>2. ASSUME NEW l \in DOMAIN Requested(d) PROVE l = <<l[1], l[2]>>
    <2>1. CASE AsNet(d, l)
      BY <2>1 DEF AsNet, LabelsApart
    <2>2. CASE AsConn(d, l)
      BY <2>2 DEF AsConn
    <2>3. CASE AsPort(d, l)
      BY <2>3 DEF AsPort
    <2>4. QED
      BY <2>1, <2>2, <2>3, RequestedIs
  <1>3. ASSUME NEW p, <<"alias", p>> \in DOMAIN Requested(d), <<"port", p>> \in DOMAIN Requested(d)
        PROVE  Private(ToNetlist(d).nets[<<"port", p>>])
    <2> DEFINE a == <<"alias", p>>
               l == <<"port", p>>
               n == ToNetlist(d).nets[l]
    <2>1. a \in DOMAIN d.nets
      <3>1. a[1] = "alias" /\ \A s : a # <<"conn", s>> /\ a # <<"port", s>>
        OBVIOUS
      <3>2. ~ AsConn(d, a) /\ ~ AsPort(d, a)
        BY <3>1 DEF AsConn, AsPort
      <3>3. AsNet(d, a)
        BY <1>3, <3>2, RequestedIs
      <3>4. QED
        BY <3>3 DEF AsNet
    <2>2. p \in Aliased(d) /\ Requested(d)[l] = <<Plain(Pin(p)), d.ports[p]>>
      <3>1. l[1] = "port" /\ (\A s : l # <<"conn", s>>) /\ \A q : l = <<"port", q>> => q = p
        OBVIOUS
      <3>2. ~ AsConn(d, l)
        BY <3>1 DEF AsConn
      <3>3. ~ AsNet(d, l)
        BY <3>1 DEF AsNet, LabelsApart
      <3>4. AsPort(d, l)
        BY <1>3, <3>2, <3>3, RequestedIs
      <3>5. QED
        BY <3>1, <3>4 DEF AsPort
    <2>3. ~ IsPin(d.ports[p].to)
      BY <2>1, <2>2 DEF LabelsApart
    <2>4. IsList(n) /\ Len(n) = 2 /\ n[1] = ParsePortRef(Plain(Pin(p))) /\ n[2] = ParsePortRef(d.ports[p])
      BY <1>3, <2>2, TwoMembers
    <2>5. ToSet(Requested(d)[l]) = {Plain(Pin(p)), d.ports[p]}
      BY <2>2, PairIs
    <2>6. Parses(Plain(Pin(p))) /\ Parses(d.ports[p])
      BY <1>3, <2>5 DEF Elaborates
    <2>7. IsText(d.ports[p]) /\ IsText(Plain(Pin(p))) /\ IsPin(Plain(Pin(p)).to)
      <3>1. IsText(d.ports[p])
        BY <2>2 DEF Aliased, IsModule
      <3>2. IsPin(Plain(Pin(p)).to)
        BY RefKinds DEF Plain
      <3>3. QED
        BY <3>1, <3>2, RefKinds, UnparsedIs
    <2>8. IsPin(n[1]) /\ ~ IsPin(n[2])
      BY <2>3, <2>4, <2>6, <2>7, ParsedIs
    <2> HIDE DEF n
    <2>9. Private(n)
      BY <2>4, <2>8, PrivateIf
    <2>10. QED
      BY <2>9 DEF n
  <1>4. QED
    BY <1>1, <1>2, <1>3 DEF LabelsOK
--------------------------------------------------------------------------------
(***************************************************************************)
(* A netlist written as a document and read again: nets that stay nets are *)
(* the same under their new labels, and of a pin's private nets one stays. *)
(***************************************************************************)
LEMMA OwnersArePins ==
  ASSUME NEW nl, IsNetlist(nl), Buildable(nl)
  PROVE  Owners(nl) \subseteq nl.pins
  <1>1. ASSUME NEW p \in Owners(nl) PROVE p \in nl.pins
    <2>1. PICK l \in PrivateNets(nl) : p = ThePin(nl.nets[l])
      BY DEF Owners
    <2>2. l \in DOMAIN nl.nets /\ Private(nl.nets[l]) /\ IsList(nl.nets[l])
      BY DEF PrivateNets, IsNetlist, AreLists
    <2>3. PICK i \in {1, 2} : i \in DOMAIN nl.nets[l] /\ IsPin(nl.nets[l][i]) /\ p = nl.nets[l][i].pin
      BY <2>1, <2>2, PrivateIs
    <2>4. nl.nets[l][i] \in ToSet(nl.nets[l])
      BY <2>2, <2>3, ListIs
    <2>5. Exists(nl.nets[l][i], nl.instances, nl.pins)
      BY <2>2, <2>4 DEF Buildable
    <2>6. QED
      BY <2>3, <2>5 DEF Exists
  <1>2. QED
    BY <1>1

LEMMA AliasedAre ==
  ASSUME NEW nl, IsNetlist(nl), Buildable(nl), Legible(nl), NEW last \in Stays(nl)
  PROVE  /\ Aliased(Recovered(nl, last)) = Owners(nl)
         /\ \A p \in Owners(nl) : /\ Recovered(nl, last).ports[p] = Plain(TheOther(nl.nets[last[p]]))
                                  /\ ~ IsPin(TheOther(nl.nets[last[p]]))
         /\ \A p \in nl.pins \ Owners(nl) : Recovered(nl, last).ports[p] = Plain(Pin(p))
  <1> DEFINE P == Recovered(nl, last).ports
  <1>1. P = [p \in nl.pins |-> Unparse(IF p \in Owners(nl) THEN TheOther(nl.nets[last[p]]) ELSE Pin(p))]
    BY DEF Recovered
  <1> HIDE DEF P
  <1>2. DOMAIN P = nl.pins /\ Owners(nl) \subseteq nl.pins
    BY <1>1, OwnersArePins
  <1>3. ASSUME NEW p \in Owners(nl)
        PROVE  P[p] = Plain(TheOther(nl.nets[last[p]])) /\ ~ IsPin(TheOther(nl.nets[last[p]]))
    <2>1. P[p] = Unparse(TheOther(nl.nets[last[p]]))
      BY <1>1, <1>2
    <2>2. last[p] \in DOMAIN nl.nets /\ Private(nl.nets[last[p]])
      BY DEF Stays, PrivateNets
    <2>3. IsList(nl.nets[last[p]])
      BY <2>2 DEF IsNetlist, AreLists
    <2>4. PICK j \in DOMAIN nl.nets[last[p]] :
            TheOther(nl.nets[last[p]]) = nl.nets[last[p]][j] /\ ~ IsPin(nl.nets[last[p]][j])
      BY <2>2, <2>3, PrivateIs
    <2>5. Unparse(nl.nets[last[p]][j]) = Plain(nl.nets[last[p]][j])
      BY <2>2, LegibleIs
    <2>6. QED
      BY <2>1, <2>4, <2>5
  <1>4. \A p \in nl.pins \ Owners(nl) : P[p] = Plain(Pin(p))
    BY <1>1, LegibleIs
  <1>5. \A m, p : Plain(m) = Plain(Pin(p)) => IsPin(m)
    <2>1. \A m, n : Plain(m) = Plain(n) => m = n
      BY DEF Plain
    <2>2. QED
      BY <2>1, RefKinds
  <1>6. {p \in DOMAIN P : P[p] # Unparse(Pin(p))} = Owners(nl)
    BY <1>2, <1>3, <1>4, <1>5, LegibleIs
  <1>7. QED
    BY <1>3, <1>4, <1>6 DEF Aliased, P

LEMMA LabelsDiffer ==
  ASSUME NEW nl, LabelsOK(nl), NEW l \in Rest(nl), NEW m \in Rest(nl), Label(l) = Label(m)
  PROVE  l = m
  <1>1. /\ l \in DOMAIN nl.nets /\ m \in DOMAIN nl.nets /\ ~ Private(nl.nets[l]) /\ ~ Private(nl.nets[m])
        /\ l = <<l[1], l[2]>> /\ m = <<m[1], m[2]>>
    BY DEF Rest, PrivateNets, LabelsOK
  <1>2. CASE l[1] = "port" /\ m[1] = "port"
    BY <1>1, <1>2 DEF Label
  <1>3. CASE l[1] # "port" /\ m[1] # "port"
    BY <1>3 DEF Label
  <1>4. CASE l[1] = "port" /\ m[1] # "port"
    <2>1. m = <<"alias", l[2]>> /\ l = <<"port", l[2]>>
      BY <1>1, <1>4 DEF Label
    <2>2. QED
      BY <1>1, <2>1 DEF LabelsOK
  <1>5. CASE l[1] # "port" /\ m[1] = "port"
    <2>1. l = <<"alias", m[2]>> /\ m = <<"port", m[2]>>
      BY <1>1, <1>5 DEF Label
    <2>2. QED
      BY <1>1, <2>1 DEF LabelsOK
  <1>6. QED
    BY <1>2, <1>3, <1>4, <1>5

LEMMA LabelsRecovered ==
  ASSUME NEW nl, IsNetlist(nl), Buildable(nl), Legible(nl), LabelsOK(nl), NEW last \in Stays(nl)
  PROVE  LabelsApart(Recovered(nl, last)) /\ Clear(Recovered(nl, last))
  <1> DEFINE d == Recovered(nl, last)
  <1>1. d.connections = << >> /\ d.nets = Others(nl) /\ DOMAIN d.ports = nl.pins
    BY DEF Recovered
  <1>2. DOMAIN d.connections = {}
    BY <1>1
  <1>3. /\ Aliased(d) = Owners(nl)
        /\ \A p \in Owners(nl) : d.ports[p] = Plain(TheOther(nl.nets[last[p]])) /\ ~ IsPin(TheOther(nl.nets[last[p]]))
        /\ \A p \in nl.pins \ Owners(nl) : d.ports[p] = Plain(Pin(p))
    BY AliasedAre
  <1> HIDE DEF d
  <1>4. ASSUME NEW k \in DOMAIN d.nets PROVE k = <<k[1], k[2]>> /\ k[1] # "port"
    <2>1. PICK l \in Rest(nl) : k = Label(l)
      BY <1>1, OthersIs
    <2>2. l = <<l[1], l[2]>>
      BY DEF Rest, LabelsOK
    <2>3. QED
      BY <2>1, <2>2 DEF Label
  <1>5. \A m : Plain(m).to = m /\ Tidy(Plain(m)) = Plain(m)
    BY DEF Plain, Tidy
  <1>6. \A p \in Aliased(d) : ~ IsPin(d.ports[p].to)
    BY <1>3, <1>5
  <1>7. \A p \in DOMAIN d.ports : Tidy(d.ports[p]) = d.ports[p]
    BY <1>1, <1>3, <1>5
  <1>8. LabelsApart(d) /\ Clear(d)
    BY <1>2, <1>4, <1>6, <1>7 DEF LabelsApart, Clear
  <1>9. QED
    BY <1>8 DEF d

(* The nets read again, one by one.                                        *)
LEMMA StayNets ==
  ASSUME NEW nl, IsNetlist(nl), Buildable(nl), Legible(nl), LabelsOK(nl), NEW last \in Stays(nl), NEW l \in Rest(nl)
  PROVE  /\ Label(l) \in DOMAIN Requested(Recovered(nl, last))
         /\ Len(Requested(Recovered(nl, last))[Label(l)]) = Len(nl.nets[l])
         /\ \A i \in DOMAIN nl.nets[l] : Requested(Recovered(nl, last))[Label(l)][i] = Plain(nl.nets[l][i])
         /\ ToNetlist(Recovered(nl, last)).nets[Label(l)] = nl.nets[l]
  <1> DEFINE d == Recovered(nl, last)
             k == Label(l)
             n == ToNetlist(d).nets[k]
             r == Requested(d)[k]
  <1>1. d.nets = Others(nl) /\ IsModule(d)
    BY ModuleMade DEF Recovered
  <1> HIDE DEF d
  <1>2. k \in DOMAIN Others(nl) /\ LabelledBy(nl, k) = l
    <2>1. k \in DOMAIN Others(nl)
      BY OthersIs
    <2>2. LabelledBy(nl, k) \in Rest(nl) /\ Label(LabelledBy(nl, k)) = Label(l)
      BY <2>1, OthersIs
    <2>3. LabelledBy(nl, k) = l
      BY <2>2, LabelsDiffer
    <2>4. QED
      BY <2>1, <2>3
  <1>3. /\ IsList(Others(nl)[k]) /\ Len(Others(nl)[k]) = Len(nl.nets[l]) /\ DOMAIN Others(nl)[k] = DOMAIN nl.nets[l]
        /\ \A i \in DOMAIN nl.nets[l] : Others(nl)[k][i] = Plain(nl.nets[l][i])
    <2> DEFINE m == LabelledBy(nl, k)
    <2>1. /\ IsList(Others(nl)[k]) /\ Len(Others(nl)[k]) = Len(nl.nets[m]) /\ DOMAIN Others(nl)[k] = DOMAIN nl.nets[m]
          /\ \A i \in DOMAIN Others(nl)[k] : Others(nl)[k][i] = Unparse(nl.nets[m][i])
      BY <1>2, OthersIs
    <2>2. m = l
      BY <1>2
    <2>3. \A i \in DOMAIN nl.nets[l] : Unparse(nl.nets[l][i]) = Plain(nl.nets[l][i])
      BY LegibleIs DEF Rest
    <2> HIDE DEF m, k
    <2>4. QED
      BY <2>1, <2>2, <2>3
  <1>4. k \in DOMAIN Requested(d) /\ r = Others(nl)[k]
    BY <1>1, <1>2, RequestedAt
  <1>5. IsList(n) /\ Len(n) = Len(r) /\ \A i \in DOMAIN r : n[i] = ParsePortRef(r[i])
    BY <1>1, <1>4, NetsAre
  <1>6. IsList(nl.nets[l]) /\ \A i \in DOMAIN nl.nets[l] : IsMember(nl.nets[l][i])
    BY DEF Rest, IsNetlist, AreLists
  <1> HIDE DEF k, n, r
  <1>7. ASSUME NEW i \in DOMAIN nl.nets[l] PROVE nl.nets[l][i] = n[i]
    <2>1. n[i] = ParsePortRef(Plain(nl.nets[l][i]))
      BY <1>3, <1>4, <1>5
    <2>2. QED
      BY <1>6, <2>1, WrittenIs
  <1>8. nl.nets[l] = n
    BY <1>3, <1>4, <1>5, <1>6, <1>7, ListSame
  <1>9. QED
    BY <1>3, <1>4, <1>8 DEF d, k, n, r

LEMMA StayPins ==
  ASSUME NEW nl, IsNetlist(nl), Buildable(nl), Legible(nl), LabelsOK(nl), NEW last \in Stays(nl), NEW p \in Owners(nl)
  PROVE  /\ <<"port", p>> \in DOMAIN Requested(Recovered(nl, last))
         /\ Requested(Recovered(nl, last))[<<"port", p>>] = <<Plain(Pin(p)), Plain(TheOther(nl.nets[last[p]]))>>
         /\ last[p] \in KeptOf(p, nl) /\ <<"port", p>> \in KeptOf(p, ToNetlist(Recovered(nl, last)))
         /\ Alike(nl.nets[last[p]], ToNetlist(Recovered(nl, last)).nets[<<"port", p>>])
  <1> DEFINE d == Recovered(nl, last)
             list == nl.nets[last[p]]
             k == <<"port", p>>
             n == ToNetlist(d).nets[k]
  <1>1. IsModule(d) /\ LabelsApart(d)
    BY ModuleMade, LabelsRecovered
  <1>2. p \in Aliased(d) /\ d.ports[p] = Plain(TheOther(list))
    BY AliasedAre
  <1> HIDE DEF d
  <1>3. k \in DOMAIN Requested(d) /\ Requested(d)[k] = <<Plain(Pin(p)), Plain(TheOther(list))>>
    <2>1. k \notin DOMAIN d.nets
      <3>1. k[1] = "port"
        OBVIOUS
      <3>2. QED
        BY <1>1, <3>1 DEF LabelsApart
    <2>2. QED
      BY <1>2, <2>1, RequestedAt
  <1>4. last[p] \in DOMAIN nl.nets /\ Private(list) /\ ThePin(list) = p
    BY DEF Stays, PrivateNets
  <1>5. IsList(list) /\ \A i \in DOMAIN list : IsMember(list[i])
    BY <1>4 DEF IsNetlist, AreLists
  <1> HIDE DEF list
  <1>6. Len(list) = 2 /\ DOMAIN list = {1, 2}
    BY <1>4, <1>5, PrivateIs
  <1>7. PICK i, j \in {1, 2} : i # j /\ IsPin(list[i]) /\ ~ IsPin(list[j]) /\ ThePin(list) = list[i].pin /\ TheOther(list) = list[j]
    BY <1>4, <1>5, PrivateIs
  <1>8. IsMember(list[i]) /\ IsMember(list[j])
    BY <1>5, <1>6
  <1>9. list[i] = Pin(p)
    BY <1>4, <1>7, <1>8 DEF IsMember, IsRef
  <1>10. /\ IsList(n) /\ Len(n) = 2
         /\ n[1] = ParsePortRef(Plain(Pin(p))) /\ n[2] = ParsePortRef(Plain(TheOther(list)))
    BY <1>1, <1>3, TwoMembers
  <1>11. n[1] = list[i] /\ n[2] = list[j]
    <2>1. ParsePortRef(Plain(list[i])) = list[i]
      BY <1>8, WrittenIs
    <2>2. ParsePortRef(Plain(list[j])) = list[j]
      BY <1>8, WrittenIs
    <2>3. QED
      BY <1>7, <1>9, <1>10, <2>1, <2>2
  <1>12. k \in DOMAIN ToNetlist(d).nets
    BY <1>1, <1>3, NetsAre
  <1> HIDE DEF n
  <1>13. Alike(n, list)
    BY <1>5, <1>6, <1>7, <1>10, <1>11, AlikeTwo
  <1>14. Alike(list, n)
    BY <1>5, <1>10, <1>13, AlikeSymmetric
  <1>15. Private(n) /\ ThePin(n) = p
    BY <1>4, <1>5, <1>10, <1>14, AlikePrivate
  <1>16. last[p] \in KeptOf(p, nl)
    BY <1>4, KeptIs DEF list
  <1>17. k \in KeptOf(p, ToNetlist(d))
    BY <1>12, <1>15, KeptIs DEF n
  <1>18. QED
    BY <1>3, <1>14, <1>16, <1>17 DEF d, n, list


LEMMA RecoveredLabels ==
  ASSUME NEW nl, IsNetlist(nl), Buildable(nl), Legible(nl), LabelsOK(nl), NEW last \in Stays(nl),
         NEW k \in DOMAIN Requested(Recovered(nl, last))
  PROVE  (\E l \in Rest(nl) : k = Label(l)) \/ \E p \in Owners(nl) : k = <<"port", p>>
  <1> DEFINE d == Recovered(nl, last)
  <1>1. d.connections = << >> /\ d.nets = Others(nl)
    BY DEF Recovered
  <1>2. Aliased(d) = Owners(nl) /\ DOMAIN Others(nl) = {Label(l) : l \in Rest(nl)}
    BY AliasedAre, OthersIs
  <1>3. AsNet(d, k) \/ AsConn(d, k) \/ AsPort(d, k)
    BY RequestedIs
  <1> HIDE DEF d
  <1>4. DOMAIN d.connections = {}
    BY <1>1
  <1>5. QED
    BY <1>1, <1>2, <1>3, <1>4 DEF AsNet, AsConn, AsPort

LEMMA KeepsRecovered ==
  ASSUME NEW nl, IsNetlist(nl), Buildable(nl), Legible(nl), LabelsOK(nl), NEW last \in Stays(nl)
  PROVE  Keeps(nl, ToNetlist(Recovered(nl, last)))
  <1> DEFINE d == Recovered(nl, last)
             b == ToNetlist(d)
  <1>1. IsModule(d) /\ d.instances = Portable(nl) /\ DOMAIN d.ports = nl.pins
    BY ModuleMade DEF Recovered
  <1>2. HasLists(b) /\ DOMAIN b.nets = DOMAIN Requested(d) /\ b.instances = Shaped(d) /\ b.pins = nl.pins
    BY <1>1, NetsAre
  <1>3. Shaped(d) = Shaped(nl)
    BY <1>1, PortableIs DEF IsNetlist
  <1>4. AreLists(nl.nets) /\ AreLists(b.nets)
    BY <1>2 DEF IsNetlist, HasLists
  <1>5. (\A l \in DOMAIN nl.nets : IsList(nl.nets[l])) /\ \A k \in DOMAIN b.nets : IsList(b.nets[k])
    BY <1>4 DEF AreLists
  <1>6. \A l \in Rest(nl) : Label(l) \in DOMAIN b.nets /\ b.nets[Label(l)] = nl.nets[l]
    BY <1>2, StayNets
  <1>7. \A p \in Owners(nl) :
          /\ last[p] \in KeptOf(p, nl) /\ <<"port", p>> \in KeptOf(p, b)
          /\ Alike(nl.nets[last[p]], b.nets[<<"port", p>>])
    BY StayPins
  <1>8. \A k \in DOMAIN b.nets : (\E l \in Rest(nl) : k = Label(l)) \/ \E p \in Owners(nl) : k = <<"port", p>>
    BY <1>2, RecoveredLabels
  <1> HIDE DEF b, d
  <1>9. \A l \in Rest(nl) : l \in DOMAIN nl.nets /\ ~ Private(nl.nets[l])
    BY DEF Rest, PrivateNets
  <1>10. ASSUME NEW n, IsList(n), ~ Private(n)
         PROVE  Copies(n, nl) = Copies(n, b) /\ Copies(n, nl) \in Nat
    <2> DEFINE S == {l \in DOMAIN nl.nets : Alike(nl.nets[l], n)}
               T == {k \in DOMAIN b.nets : Alike(b.nets[k], n)}
               f == [l \in S |-> Label(l)]
    <2>1. ASSUME NEW l \in S PROVE l \in Rest(nl)
      <3>1. ~ Private(nl.nets[l])
        BY <1>5, <1>10, AlikePrivate
      <3>2. QED
        BY <3>1 DEF Rest, PrivateNets
    <2>2. f \in [S -> T]
      BY <1>6, <2>1
    <2>3. \A x, y \in S : f[x] = f[y] => x = y
      BY <2>1, LabelsDiffer
    <2>4. ASSUME NEW k \in T PROVE \E x \in S : f[x] = k
      <3>1. ~ Private(b.nets[k])
        BY <1>5, <1>10, AlikePrivate
      <3>2. \A p \in Owners(nl) : k # <<"port", p>>
        BY <1>7, <3>1, KeptIs
      <3>3. PICK l \in Rest(nl) : k = Label(l)
        BY <1>8, <3>2
      <3>4. l \in S
        BY <1>6, <1>9, <3>3
      <3>5. QED
        BY <3>3, <3>4
    <2>5. IsFiniteSet(S) /\ Copies(n, nl) \in Nat
      BY <1>4, <1>10, CopiesIs
    <2>6. Copies(n, nl) = Cardinality(S) /\ Copies(n, b) = Cardinality(T)
      BY DEF Copies
    <2> HIDE DEF S, T, f
    <2>7. Cardinality(T) = Cardinality(S)
      BY <2>2, <2>3, <2>4, <2>5, SameSize
    <2>8. QED
      BY <2>5, <2>6, <2>7
  <1>11. KeepsNets(nl, b)
    <2>1. \A l \in (DOMAIN nl.nets) \ PrivateNets(nl) : IsList(nl.nets[l]) /\ ~ Private(nl.nets[l])
      BY <1>5 DEF PrivateNets
    <2>2. QED
      BY <1>10, <2>1 DEF KeepsNets
  <1>12. KeepsPins(nl, b)
    <2>1. ASSUME NEW p \in nl.pins, NEW l \in KeptOf(p, nl)
          PROVE  \E j \in KeptOf(p, nl), k \in KeptOf(p, b) : Alike(nl.nets[j], b.nets[k])
      <3>1. p \in Owners(nl)
        BY DEF Owners, KeptOf
      <3>2. QED
        BY <1>7, <3>1
    <2>2. QED
      BY <2>1 DEF KeepsPins
  <1>13. ASSUME NEW k \in DOMAIN b.nets
         PROVE  Copies(b.nets[k], nl) >= Copies(b.nets[k], b)
    <2>1. CASE \E l \in Rest(nl) : k = Label(l)
      <3>1. IsList(b.nets[k]) /\ ~ Private(b.nets[k])
        BY <1>5, <1>6, <1>9, <2>1
      <3>2. QED
        BY <1>10, <3>1
    <2>2. CASE \E p \in Owners(nl) : k = <<"port", p>>
      <3>1. PICK p \in Owners(nl) : k = <<"port", p>>
        BY <2>2
      <3> DEFINE n == b.nets[k]
                 T == {j \in DOMAIN b.nets : Alike(b.nets[j], n)}
      <3>2. Private(n) /\ ThePin(n) = p /\ IsList(n)
        BY <1>5, <1>7, <3>1, KeptIs
      <3>3. ASSUME NEW j \in T PROVE j = k
        <4>1. IsList(b.nets[j])
          BY <1>5
        <4>2. Alike(n, b.nets[j])
          BY <3>2, <4>1, AlikeSymmetric
        <4>3. Private(b.nets[j]) /\ ThePin(b.nets[j]) = p
          BY <3>2, <4>1, <4>2, AlikePrivate
        <4>4. ~ \E l \in Rest(nl) : j = Label(l)
          BY <1>6, <1>9, <4>3
        <4>5. PICK q \in Owners(nl) : j = <<"port", q>>
          BY <1>8, <4>4
        <4>6. q = p
          BY <1>7, <4>3, <4>5, KeptIs
        <4>7. QED
          BY <3>1, <4>5, <4>6
      <3>4. k \in T
        BY <3>2, AlikeSelf
      <3>5. T = {k}
        BY <3>3, <3>4
      <3>6. Copies(n, b) = 1
        BY <3>5, FS_Singleton DEF Copies
      <3>7. last[p] \in DOMAIN nl.nets /\ Alike(nl.nets[last[p]], n)
        BY <1>7, <3>1, KeptIs
      <3>8. Copies(n, nl) >= 1
        BY <1>4, <3>2, <3>7, CopiesIs
      <3>9. QED
        BY <3>6, <3>8
    <2>3. QED
      BY <1>8, <2>1, <2>2
  <1>14. AddsNone(nl, b)
    BY <1>13 DEF AddsNone
  <1>15. b.instances \in {nl.instances, Shaped(nl)} /\ nl.pins = b.pins
    BY <1>2, <1>3
  <1>16. QED
    BY <1>11, <1>12, <1>14, <1>15, KeepsIs DEF b, d

(* It is refused only for what the text form cannot say.                   *)
LEMMA RecoveredElaborates ==
  ASSUME NEW nl, IsNetlist(nl), Buildable(nl), Legible(nl), LabelsOK(nl), NEW last \in Stays(nl), ~ Unwritable(nl)
  PROVE  Elaborates(Recovered(nl, last))
  <1> DEFINE d == Recovered(nl, last)
  <1>1. IsModule(d) /\ d.instances = Portable(nl) /\ DOMAIN d.ports = nl.pins
    BY ModuleMade DEF Recovered
  <1>2. AreInstances(nl.instances) /\ Shaped(d) = Shaped(nl)
    BY <1>1, PortableIs DEF IsNetlist
  <1>3. ASSUME NEW i \in DOMAIN nl.instances, NEW x \in ToSet(Dims(nl.instances[i])) PROVE x >= 1
    <2>1. ~ (x < 1)
      BY DEF Unwritable
    <2>2. Dims(nl.instances[i]) \in Seq(Int)
      BY <1>2, DimsIs DEF AreInstances
    <2>3. x \in Int
      BY <2>2 DEF ToSet
    <2>4. QED
      BY <2>1, <2>3
  <1>4. ASSUME NEW m, IsMember(m), Exists(m, nl.instances, nl.pins),
               NEW l \in DOMAIN nl.nets, m \in ToSet(nl.nets[l])
        PROVE  Parses(Plain(m)) /\ Exists(ParsePortRef(Plain(m)), Shaped(d), DOMAIN d.ports)
    <2>1. Parses(Plain(m))
      BY <1>4, WrittenIs DEF Unwritable
    <2>2. ParsePortRef(Plain(m)) = m
      BY <1>4, WrittenIs
    <2>3. Exists(m, Shaped(d), nl.pins)
      <3>1. CASE IsPin(m)
        BY <1>4, <3>1 DEF Exists
      <3>2. CASE ~ IsPin(m)
        <4>1. /\ m.inst \in DOMAIN nl.instances
              /\ m.at # << >> => /\ nl.instances[m.inst].array # << >>
                                 /\ m.at[1] <= nl.instances[m.inst].array[1]
                                 /\ m.at[2] <= nl.instances[m.inst].array[2]
          BY <1>4, <3>2 DEF Exists
        <4>2. DOMAIN Shaped(d) = DOMAIN nl.instances
          BY <1>2, ShapedIs
        <4>3. Shaped(d)[m.inst].array = Dims(nl.instances[m.inst])
          <5>1. Shaped(nl)[m.inst] =
                  [array |-> Dims(nl.instances[m.inst]), size |-> nl.instances[m.inst].size, beyond |-> << >>]
            BY <1>2, <4>1, ShapedIs
          <5>2. QED
            BY <1>2, <5>1
        <4>4. nl.instances[m.inst].array # << >> => Shaped(d)[m.inst].array = nl.instances[m.inst].array
          BY <4>3 DEF Dims
        <4>5. QED
          BY <3>2, <4>1, <4>2, <4>4 DEF Exists
      <3>3. QED
        BY <3>1, <3>2
    <2>4. QED
      BY <1>1, <2>1, <2>2, <2>3
  <1>5. ASSUME NEW l \in DOMAIN nl.nets, NEW i \in DOMAIN nl.nets[l]
        PROVE  /\ Parses(Plain(nl.nets[l][i]))
               /\ Exists(ParsePortRef(Plain(nl.nets[l][i])), Shaped(d), DOMAIN d.ports)
    <2>1. IsList(nl.nets[l]) /\ IsMember(nl.nets[l][i])
      BY DEF IsNetlist, AreLists
    <2>2. nl.nets[l][i] \in ToSet(nl.nets[l])
      BY <2>1, ListIs
    <2>3. Exists(nl.nets[l][i], nl.instances, nl.pins)
      BY <2>2 DEF Buildable
    <2>4. QED
      BY <1>4, <2>1, <2>2, <2>3
  <1>6. ASSUME NEW k \in DOMAIN Requested(d), NEW t \in ToSet(Requested(d)[k])
        PROVE  Parses(t) /\ Exists(ParsePortRef(t), Shaped(d), DOMAIN d.ports)
    <2>1. CASE \E l \in Rest(nl) : k = Label(l)
      <3>1. PICK l \in Rest(nl) : k = Label(l)
        BY <2>1
      <3>2. /\ Len(Requested(d)[k]) = Len(nl.nets[l])
            /\ \A i \in DOMAIN nl.nets[l] : Requested(d)[k][i] = Plain(nl.nets[l][i])
        BY <3>1, StayNets
      <3>3. l \in DOMAIN nl.nets /\ IsList(nl.nets[l]) /\ IsList(Requested(d)[k])
        BY <1>1, RequestedMade DEF Rest, IsNetlist, AreLists
      <3>4. PICK i \in DOMAIN Requested(d)[k] : t = Requested(d)[k][i]
        BY <3>3, ListIs
      <3>5. i \in DOMAIN nl.nets[l]
        BY <3>2, <3>3, <3>4, ListIs
      <3>6. QED
        BY <1>5, <3>2, <3>3, <3>4, <3>5
    <2>2. CASE \E p \in Owners(nl) : k = <<"port", p>>
      <3>1. PICK p \in Owners(nl) : k = <<"port", p>>
        BY <2>2
      <3> DEFINE list == nl.nets[last[p]]
      <3>2. /\ Requested(d)[k] = <<Plain(Pin(p)), Plain(TheOther(list))>>
            /\ last[p] \in DOMAIN nl.nets
        BY <3>1, StayPins, KeptIs
      <3>3. PICK j \in DOMAIN list : TheOther(list) = list[j]
        <4>1. Private(list) /\ IsList(list)
          BY <3>2 DEF Stays, PrivateNets, IsNetlist, AreLists
        <4> HIDE DEF list
        <4>2. QED
          BY <4>1, PrivateIs
      <3>4. t \in {Plain(Pin(p)), Plain(TheOther(list))}
        BY <3>2, PairIs
      <3>5. CASE t = Plain(Pin(p))
        <4>1. p \in nl.pins
          BY OwnersArePins
        <4>2. Parses(t) /\ ParsePortRef(t) = Pin(p)
          <5>1. IsMember(Pin(p)) /\ IsPin(Pin(p))
            BY RefKinds DEF IsMember
          <5>2. QED
            BY <3>5, <5>1, WrittenIs
        <4>3. Exists(Pin(p), Shaped(d), DOMAIN d.ports)
          BY <1>1, <4>1, RefKinds DEF Exists
        <4>4. QED
          BY <4>2, <4>3
      <3>6. CASE t = Plain(TheOther(list))
        BY <1>5, <3>2, <3>3, <3>6
      <3>7. QED
        BY <3>4, <3>5, <3>6
    <2>3. QED
      BY <2>1, <2>2, RecoveredLabels
  <1> HIDE DEF d
  <1>7. \A i \in DOMAIN d.instances : i \in DOMAIN nl.instances /\ Dims(d.instances[i]) = Dims(nl.instances[i])
    BY <1>1, <1>2, PortableIs
  <1>8. Elaborates(d)
    BY <1>3, <1>6, <1>7 DEF Elaborates
  <1>9. QED
    BY <1>8 DEF d
--------------------------------------------------------------------------------
(***************************************************************************)
(* A document decoded from a wire asks for the nets of the one that was    *)
(* encoded, with the connections relabelled: without white space, sources  *)
(* that were different are different still.                                *)
(***************************************************************************)
Moved(d, l) == IF l \in DOMAIN d.nets THEN l ELSE IF l[1] = "conn" THEN <<"conn", Tidy(l[2])>> ELSE l

LEMMA DecodedAliases ==
  ASSUME NEW d, Clear(d), NamesPlain(d), NEW v, Decoded(v, d)
  PROVE  Aliased(v) = Aliased(d) /\ DOMAIN v.ports = DOMAIN d.ports
  <1>1. DOMAIN v.ports = DOMAIN d.ports /\ \A p \in DOMAIN d.ports : v.ports[p] = Tidy(d.ports[p])
    BY DEF Decoded
  <1>2. \A p \in DOMAIN d.ports : Tidy(d.ports[p]) = Plain(Pin(p)) <=> d.ports[p] = Plain(Pin(p))
    BY DEF Clear, Tidy, Plain
  <1>3. \A p \in DOMAIN d.ports : Unparse(Pin(p)) = Plain(Pin(p))
    BY UnparsedIs DEF NamesPlain
  <1>4. QED
    BY <1>1, <1>2, <1>3 DEF Aliased

LEMMA DecodedLabels ==
  ASSUME NEW d, IsModule(d), LabelsApart(d), Clear(d), NamesPlain(d), NEW v, Decoded(v, d)
  PROVE  LabelsApart(v) /\ Clear(v)
  <1>1. /\ DOMAIN v.ports = DOMAIN d.ports /\ \A p \in DOMAIN d.ports : v.ports[p] = Tidy(d.ports[p])
        /\ DOMAIN v.connections = {Tidy(s) : s \in DOMAIN d.connections}
        /\ DOMAIN v.nets = DOMAIN d.nets
    BY DEF Decoded
  <1>2. Aliased(v) = Aliased(d) /\ Aliased(d) \subseteq DOMAIN d.ports
    BY DecodedAliases DEF Aliased
  <1>3. \A t : Tidy(t).to = t.to /\ Tidy(Tidy(t)) = Tidy(t)
    BY DEF Tidy, Plain
  <1>4. LabelsApart(v)
    BY <1>1, <1>2, <1>3 DEF LabelsApart
  <1>5. Clear(v)
    BY <1>1, <1>3 DEF Clear
  <1>6. QED
    BY <1>4, <1>5

LEMMA DecodedConnection ==
  ASSUME NEW d, Clear(d), NamesPlain(d), NEW v, Decoded(v, d), NEW s \in DOMAIN d.connections
  PROVE  Tidy(s) \in DOMAIN v.connections /\ v.connections[Tidy(s)] = Tidy(d.connections[s])
  <1>1. Tidy(s) \in DOMAIN v.connections
    BY DEF Decoded
  <1>2. PICK t \in DOMAIN d.connections : Tidy(t) = Tidy(s) /\ v.connections[Tidy(s)] = Tidy(d.connections[t])
    BY <1>1 DEF Decoded
  <1>3. t = s
    BY <1>2 DEF Clear
  <1>4. QED
    BY <1>1, <1>2, <1>3

(* Pairs that spell the same.                                              *)
LEMMA SamePair ==
  ASSUME NEW s, NEW t
  PROVE  SameTexts(<<Tidy(s), Tidy(t)>>, <<s, t>>)
  <1>1. DOMAIN <<s, t>> = 1 .. 2 /\ Len(<<s, t>>) = 2 /\ Len(<<Tidy(s), Tidy(t)>>) = 2
    BY PairIs
  <1>2. Tidy(s).to = s.to /\ Tidy(t).to = t.to
    BY DEF Tidy, Plain
  <1>3. QED
    BY <1>1, <1>2 DEF SameTexts

LEMMA MovedNets ==
  ASSUME NEW d, IsModule(d), LabelsApart(d), Clear(d), NamesPlain(d), NEW v, Decoded(v, d), NEW l \in DOMAIN Requested(d)
  PROVE  /\ Moved(d, l) \in DOMAIN Requested(v)
         /\ SameTexts(Requested(v)[Moved(d, l)], Requested(d)[l])
  <1>1. DOMAIN v.nets = DOMAIN d.nets /\ \A k \in DOMAIN d.nets : SameTexts(v.nets[k], d.nets[k])
    BY DEF Decoded
  <1>2. CASE AsNet(d, l)
    BY <1>1, <1>2, RequestedAt DEF AsNet, Moved
  <1>3. CASE AsConn(d, l)
    <2>1. PICK s \in DOMAIN d.connections : l = <<"conn", s>> /\ Requested(d)[l] = <<s, d.connections[s]>>
      BY <1>3 DEF AsConn
    <2>2. \A k \in DOMAIN d.nets : k[1] # "conn"
      BY <2>1 DEF LabelsApart
    <2>3. l[1] = "conn" /\ l[2] = s
      BY <2>1
    <2>4. Moved(d, l) = <<"conn", Tidy(s)>>
      BY <2>2, <2>3 DEF Moved
    <2>5. <<"conn", Tidy(s)>>[1] = "conn"
      OBVIOUS
    <2>6. <<"conn", Tidy(s)>> \notin DOMAIN v.nets
      BY <1>1, <2>2, <2>5
    <2>7. Tidy(s) \in DOMAIN v.connections /\ v.connections[Tidy(s)] = Tidy(d.connections[s])
      BY DecodedConnection
    <2>8. /\ <<"conn", Tidy(s)>> \in DOMAIN Requested(v)
          /\ Requested(v)[<<"conn", Tidy(s)>>] = <<Tidy(s), v.connections[Tidy(s)]>>
      BY <2>6, <2>7, RequestedAt
    <2>9. QED
      BY <2>1, <2>4, <2>7, <2>8, SamePair
  <1>4. CASE AsPort(d, l)
    <2>1. PICK p \in Aliased(d) : l = <<"port", p>> /\ Requested(d)[l] = <<Plain(Pin(p)), d.ports[p]>>
      BY <1>4 DEF AsPort
    <2>2. l[1] = "port"
      BY <2>1
    <2>3. l \notin DOMAIN d.nets
      BY <2>2 DEF LabelsApart
    <2>4. Moved(d, l) = l
      BY <2>2, <2>3 DEF Moved
    <2>5. p \in Aliased(v) /\ v.ports[p] = Tidy(d.ports[p])
      BY DecodedAliases DEF Decoded, Aliased
    <2>6. l \in DOMAIN Requested(v) /\ Requested(v)[l] = <<Plain(Pin(p)), v.ports[p]>>
      BY <1>1, <2>1, <2>3, <2>5, RequestedAt
    <2>7. Tidy(Plain(Pin(p))) = Plain(Pin(p))
      BY DEF Tidy, Plain
    <2>8. SameTexts(<<Tidy(Plain(Pin(p))), Tidy(d.ports[p])>>, <<Plain(Pin(p)), d.ports[p]>>)
      BY SamePair
    <2>9. QED
      BY <2>1, <2>4, <2>5, <2>6, <2>7, <2>8
  <1>5. QED
    BY <1>2, <1>3, <1>4, RequestedIs

LEMMA MovedApart ==
  ASSUME NEW d, LabelsApart(d), Clear(d), NEW x \in DOMAIN Requested(d), NEW y \in DOMAIN Requested(d),
         Moved(d, x) = Moved(d, y)
  PROVE  x = y
  <1>1. ASSUME NEW l \in DOMAIN Requested(d), l \notin DOMAIN d.nets
        PROVE  \/ l[1] = "conn" /\ l = <<"conn", l[2]>> /\ l[2] \in DOMAIN d.connections
                  /\ Moved(d, l) = <<"conn", Tidy(l[2])>>
               \/ l[1] = "port" /\ Moved(d, l) = l
    <2>1. CASE AsConn(d, l)
      <3>1. PICK s \in DOMAIN d.connections : l = <<"conn", s>>
        BY <2>1 DEF AsConn
      <3>2. l[1] = "conn" /\ l[2] = s
        BY <3>1
      <3>3. Moved(d, l) = <<"conn", Tidy(l[2])>>
        BY <1>1, <3>2 DEF Moved
      <3>4. QED
        BY <3>1, <3>2, <3>3
    <2>2. CASE AsPort(d, l)
      <3>1. PICK p \in Aliased(d) : l = <<"port", p>>
        BY <2>2 DEF AsPort
      <3>2. l[1] = "port"
        BY <3>1
      <3>3. QED
        BY <1>1, <3>2 DEF Moved
    <2>3. ~ AsNet(d, l)
      BY <1>1 DEF AsNet
    <2>4. QED
      BY <2>1, <2>2, <2>3, RequestedIs
  <1>2. \A l \in DOMAIN d.nets : Moved(d, l) = l
    BY DEF Moved
  <1>3. \A l \in DOMAIN d.nets : l[1] # "port" /\ (l[1] = "conn" => DOMAIN d.connections = {})
    BY DEF LabelsApart
  <1>4. \A s, t \in DOMAIN d.connections : Tidy(s) = Tidy(t) => s = t
    BY DEF Clear
  <1>5. \A z : <<"conn", z>>[1] = "conn" /\ <<"conn", z>>[2] = z
    OBVIOUS
  <1>6. CASE x \in DOMAIN d.nets /\ y \in DOMAIN d.nets
    BY <1>2, <1>6
  <1>7. CASE x \in DOMAIN d.nets /\ y \notin DOMAIN d.nets
    <2>1. Moved(d, x) = x
      BY <1>2, <1>7
    <2>2. CASE y[1] = "port" /\ Moved(d, y) = y
      BY <1>7, <2>1, <2>2
    <2>3. CASE y[2] \in DOMAIN d.connections /\ Moved(d, y) = <<"conn", Tidy(y[2])>>
      BY <1>3, <1>5, <1>7, <2>1, <2>3
    <2>4. QED
      BY <1>1, <1>7, <2>2, <2>3
  <1>8. CASE x \notin DOMAIN d.nets /\ y \in DOMAIN d.nets
    <2>1. Moved(d, y) = y
      BY <1>2, <1>8
    <2>2. CASE x[1] = "port" /\ Moved(d, x) = x
      BY <1>8, <2>1, <2>2
    <2>3. CASE x[2] \in DOMAIN d.connections /\ Moved(d, x) = <<"conn", Tidy(x[2])>>
      BY <1>3, <1>5, <1>8, <2>1, <2>3
    <2>4. QED
      BY <1>1, <1>8, <2>2, <2>3
  <1>9. CASE x \notin DOMAIN d.nets /\ y \notin DOMAIN d.nets
    <2>1. \/ x[1] = "conn" /\ x = <<"conn", x[2]>> /\ x[2] \in DOMAIN d.connections /\ Moved(d, x) = <<"conn", Tidy(x[2])>>
          \/ x[1] = "port" /\ Moved(d, x) = x
      BY <1>1, <1>9
    <2>2. \/ y[1] = "conn" /\ y = <<"conn", y[2]>> /\ y[2] \in DOMAIN d.connections /\ Moved(d, y) = <<"conn", Tidy(y[2])>>
          \/ y[1] = "port" /\ Moved(d, y) = y
      BY <1>1, <1>9
    <2>3. CASE x[1] = "conn" /\ y[1] = "conn"
      <3>1. <<"conn", Tidy(x[2])>> = <<"conn", Tidy(y[2])>>
        BY <2>1, <2>2, <2>3
      <3>2. Tidy(x[2]) = Tidy(y[2])
        BY <3>1
      <3>3. x[2] = y[2]
        BY <1>4, <2>1, <2>2, <2>3, <3>2
      <3>4. x = <<"conn", x[2]>> /\ y = <<"conn", y[2]>>
        BY <2>1, <2>2, <2>3
      <3>5. QED
        BY <3>3, <3>4
    <2>4. CASE x[1] = "conn" /\ y[1] = "port"
      <3>1. Moved(d, x) = <<"conn", Tidy(x[2])>> /\ Moved(d, y) = y
        BY <2>1, <2>2, <2>4
      <3>2. y[1] = "conn"
        BY <1>5, <3>1
      <3>3. QED
        BY <2>4, <3>2
    <2>5. CASE x[1] = "port" /\ y[1] = "conn"
      <3>1. Moved(d, y) = <<"conn", Tidy(y[2])>> /\ Moved(d, x) = x
        BY <2>1, <2>2, <2>5
      <3>2. x[1] = "conn"
        BY <1>5, <3>1
      <3>3. QED
        BY <2>5, <3>2
    <2>6. CASE x[1] = "port" /\ y[1] = "port"
      BY <2>1, <2>2, <2>6
    <2>7. QED
      BY <2>1, <2>2, <2>3, <2>4, <2>5, <2>6
  <1>10. QED
    BY <1>6, <1>7, <1>8, <1>9

LEMMA MovedOnto ==
  ASSUME NEW d, LabelsApart(d), Clear(d), NamesPlain(d), NEW v, Decoded(v, d), NEW k \in DOMAIN Requested(v)
  PROVE  \E l \in DOMAIN Requested(d) : Moved(d, l) = k
  <1>1. DOMAIN v.nets = DOMAIN d.nets /\ DOMAIN v.connections = {Tidy(s) : s \in DOMAIN d.connections}
    BY DEF Decoded
  <1>2. CASE AsNet(v, k)
    <2>1. k \in DOMAIN d.nets
      BY <1>1, <1>2 DEF AsNet
    <2>2. k \in DOMAIN Requested(d)
      BY <2>1, RequestedAt
    <2>3. Moved(d, k) = k
      BY <2>1 DEF Moved
    <2>4. QED
      BY <2>2, <2>3
  <1>3. CASE AsConn(v, k)
    <2>1. PICK t \in DOMAIN v.connections : k = <<"conn", t>>
      BY <1>3 DEF AsConn
    <2>2. PICK s \in DOMAIN d.connections : t = Tidy(s)
      BY <1>1, <2>1
    <2> DEFINE l == <<"conn", s>>
    <2>3. l[1] = "conn" /\ l[2] = s
      OBVIOUS
    <2>4. l \notin DOMAIN d.nets
      BY <2>2, <2>3 DEF LabelsApart
    <2>5. l \in DOMAIN Requested(d)
      BY <2>4, RequestedAt
    <2>6. Moved(d, l) = k
      BY <2>1, <2>2, <2>3, <2>4 DEF Moved
    <2>7. QED
      BY <2>5, <2>6
  <1>4. CASE AsPort(v, k)
    <2>1. PICK p \in Aliased(v) : k = <<"port", p>>
      BY <1>4 DEF AsPort
    <2>2. p \in Aliased(d)
      BY <2>1, DecodedAliases
    <2>3. k[1] = "port"
      BY <2>1
    <2>4. k \notin DOMAIN d.nets
      BY <2>3 DEF LabelsApart
    <2>5. k \in DOMAIN Requested(d)
      BY <2>1, <2>2, <2>4, RequestedAt
    <2>6. Moved(d, k) = k
      BY <2>3, <2>4 DEF Moved
    <2>7. QED
      BY <2>5, <2>6
  <1>5. QED
    BY <1>2, <1>3, <1>4, RequestedIs

(* Only what a text spells is parsed.                                      *)
Parsed(to) == Simplest(IF IsPin(to) THEN to ELSE [to EXCEPT !.at = Indices(@)])
Parsable(to) ==
  /\ ~ IsBad(to)
  /\ ~ IsPin(to) => \A x \in ToSet(to.at) : x >= IF Len(to.at) = 1 THEN 0 ELSE 1
LEMMA SpellingOnly ==
  ASSUME NEW s, NEW t, s.to = t.to
  PROVE  ParsePortRef(s) = ParsePortRef(t) /\ (Parses(s) <=> Parses(t))
  <1>1. ParsePortRef(s) = Parsed(s.to) /\ ParsePortRef(t) = Parsed(t.to)
    BY DEF ParsePortRef, Parsed
  <1>2. (Parses(s) <=> Parsable(s.to)) /\ (Parses(t) <=> Parsable(t.to))
    BY DEF Parses, Parsable
  <1>3. QED
    BY <1>1, <1>2

LEMMA KeepsDecoded ==
  ASSUME NEW d, IsModule(d), LabelsApart(d), Clear(d), NamesPlain(d), NEW v, Decoded(v, d)
  PROVE  Keeps(ToNetlist(d), ToNetlist(v)) /\ (Elaborates(d) => Elaborates(v))
  <1> DEFINE a == ToNetlist(d)
             b == ToNetlist(v)
             f == [l \in DOMAIN Requested(d) |-> Moved(d, l)]
  <1>1. IsModule(v) /\ v.instances = d.instances /\ DOMAIN v.ports = DOMAIN d.ports
    BY DEF Decoded
  <1>2. Shaped(v) = Shaped(d)
    BY <1>1 DEF Shaped
  <1>3. /\ HasLists(a) /\ DOMAIN a.nets = DOMAIN Requested(d) /\ a.instances = Shaped(d) /\ a.pins = DOMAIN d.ports
        /\ \A l \in DOMAIN Requested(d) :
             /\ IsList(a.nets[l]) /\ Len(a.nets[l]) = Len(Requested(d)[l])
             /\ \A i \in DOMAIN Requested(d)[l] : a.nets[l][i] = ParsePortRef(Requested(d)[l][i])
    BY NetsAre
  <1>4. /\ HasLists(b) /\ DOMAIN b.nets = DOMAIN Requested(v) /\ b.instances = Shaped(v) /\ b.pins = DOMAIN v.ports
        /\ \A l \in DOMAIN Requested(v) :
             /\ IsList(b.nets[l]) /\ Len(b.nets[l]) = Len(Requested(v)[l])
             /\ \A i \in DOMAIN Requested(v)[l] : b.nets[l][i] = ParsePortRef(Requested(v)[l][i])
    BY <1>1, NetsAre
  <1>5. \A l \in DOMAIN Requested(d) : IsList(Requested(d)[l])
    BY RequestedMade
  <1>6. \A l \in DOMAIN Requested(v) : IsList(Requested(v)[l])
    BY <1>1, RequestedMade
  <1> HIDE DEF a, b
  <1>7. f \in [DOMAIN a.nets -> DOMAIN b.nets]
    BY <1>3, <1>4, MovedNets
  <1>8. \A x, y \in DOMAIN a.nets : f[x] = f[y] => x = y
    BY <1>3, MovedApart
  <1>9. \A k \in DOMAIN b.nets : \E l \in DOMAIN a.nets : f[l] = k
    BY <1>3, <1>4, MovedOnto
  <1>10. ASSUME NEW l \in DOMAIN Requested(d)
         PROVE  /\ f[l] \in DOMAIN Requested(v) /\ DOMAIN Requested(v)[f[l]] = DOMAIN Requested(d)[l]
                /\ Len(Requested(v)[f[l]]) = Len(Requested(d)[l])
                /\ \A i \in DOMAIN Requested(d)[l] : Requested(v)[f[l]][i].to = Requested(d)[l][i].to
    <2>1. f[l] \in DOMAIN Requested(v) /\ SameTexts(Requested(v)[f[l]], Requested(d)[l])
      BY MovedNets
    <2>2. IsList(Requested(v)[f[l]]) /\ IsList(Requested(d)[l])
      BY <1>5, <1>6, <2>1
    <2> HIDE DEF f
    <2>3. QED
      BY <2>1, <2>2, ListIs DEF SameTexts
  <1> HIDE DEF f
  <1>11. ASSUME NEW l \in DOMAIN a.nets PROVE b.nets[f[l]] = a.nets[l]
    <2>1. l \in DOMAIN Requested(d) /\ f[l] \in DOMAIN Requested(v)
      BY <1>3, <1>10
    <2>2. IsList(b.nets[f[l]]) /\ IsList(a.nets[l]) /\ Len(b.nets[f[l]]) = Len(a.nets[l])
      BY <1>3, <1>4, <1>10, <2>1
    <2>3. DOMAIN b.nets[f[l]] = DOMAIN Requested(d)[l]
      <3>1. Len(b.nets[f[l]]) = Len(Requested(d)[l]) /\ IsList(Requested(d)[l])
        BY <1>3, <1>5, <2>1, <2>2
      <3>2. QED
        BY <2>2, <3>1, ListIs
    <2>4. ASSUME NEW i \in DOMAIN b.nets[f[l]] PROVE b.nets[f[l]][i] = a.nets[l][i]
      <3>1. b.nets[f[l]][i] = ParsePortRef(Requested(v)[f[l]][i])
        BY <1>4, <1>10, <2>1, <2>3
      <3>2. a.nets[l][i] = ParsePortRef(Requested(d)[l][i])
        BY <1>3, <2>1, <2>3
      <3>3. Requested(v)[f[l]][i].to = Requested(d)[l][i].to
        BY <1>10, <2>1, <2>3
      <3>4. QED
        BY <3>1, <3>2, <3>3, SpellingOnly
    <2>5. QED
      BY <2>2, <2>4, ListSame
  <1>12. Keeps(a, b)
    <2>1. b.instances = a.instances /\ b.pins = a.pins
      BY <1>1, <1>2, <1>3, <1>4
    <2>2. HasLists(a) /\ HasLists(b)
      BY <1>3, <1>4
    <2>3. QED
      BY <1>7, <1>8, <1>9, <1>11, <2>1, <2>2, Relabelled
  <1>13. ASSUME Elaborates(d), NEW k \in DOMAIN Requested(v), NEW t \in ToSet(Requested(v)[k])
         PROVE  Parses(t) /\ Exists(ParsePortRef(t), Shaped(v), DOMAIN v.ports)
    <2>1. PICK l \in DOMAIN Requested(d) : f[l] = k
      BY <1>3, <1>4, <1>9
    <2>2. PICK i \in DOMAIN Requested(v)[k] : t = Requested(v)[k][i]
      BY <1>6, ListIs
    <2>3. i \in DOMAIN Requested(d)[l] /\ t.to = Requested(d)[l][i].to
      BY <1>10, <2>1, <2>2
    <2>4. Requested(d)[l][i] \in ToSet(Requested(d)[l])
      BY <1>5, <2>3, ListIs
    <2>5. Parses(Requested(d)[l][i]) /\ Exists(ParsePortRef(Requested(d)[l][i]), Shaped(d), DOMAIN d.ports)
      BY <1>13, <2>4 DEF Elaborates
    <2>6. ParsePortRef(t) = ParsePortRef(Requested(d)[l][i]) /\ Parses(t)
      BY <2>3, <2>5, SpellingOnly
    <2>7. QED
      BY <1>1, <1>2, <2>5, <2>6
  <1>14. Elaborates(d) => Elaborates(v)
    BY <1>1, <1>13 DEF Elaborates
  <1>15. QED
    BY <1>12, <1>14 DEF a, b
--------------------------------------------------------------------------------
(***************************************************************************)
(* What a session has, in whichever form, still asks for the nets it       *)
(* started with, and can be elaborated unless the start could not be       *)
(* written.  A wire is judged by the document behind it.                   *)
(***************************************************************************)
Good(d) ==
  /\ LabelsApart(d) /\ Clear(d)
  /\ Keeps(Start, ToNetlist(d))
  /\ Elaborates(d) \/ Unwritable(Start)
KeepsOK ==
  Sound =>
    /\ HasLists(Start)
    /\ form = "netlist" => LabelsOK(value) /\ Keeps(Start, value)
    /\ form = "document" => Good(value)
    /\ form = "wire" => Good(sent[1])
    /\ form = "failed" => Unwritable(Start)

LEMMA NetLabels ==
  ASSUME NEW D, \A l \in D : l = <<"net", l[2]>>
  PROVE  \A l \in D : l[1] = "net" /\ l = <<l[1], l[2]>>
  <1>1. TAKE l \in D
  <1>2. l = <<"net", l[2]>>
    OBVIOUS
  <1>3. l[1] = "net"
    BY <1>2
  <1>4. QED
    BY <1>2, <1>3

LEMMA KeepsBegin == Begin => KeepsOK
  <1>1. SUFFICES ASSUME Begin, Sound PROVE KeepsOK
    BY DEF KeepsOK
  <1>2. origin = <<form, value>> /\ sent = << >>
    BY <1>1 DEF Begin
  <1>3. CASE form = "netlist" /\ value \in Netlists
    <2>1. Start = value
      BY <1>2, <1>3 DEF Start
    <2>2. IsNetlist(value) /\ \A l \in DOMAIN value.nets : l = <<"net", l[2]>>
      BY <1>3, SchemaAssumption
    <2>3. HasLists(value)
      BY <2>2 DEF IsNetlist, HasLists
    <2>4. \A l \in DOMAIN value.nets : l[1] = "net" /\ l = <<l[1], l[2]>>
      BY <2>2, NetLabels
    <2>5. LabelsOK(value)
      <3>1. \A p : <<"port", p>>[1] = "port"
        OBVIOUS
      <3>2. QED
        BY <2>4, <3>1 DEF LabelsOK
    <2>6. Keeps(value, value)
      BY <2>3, KeepsSelf
    <2>7. QED
      BY <1>3, <2>1, <2>3, <2>5, <2>6 DEF KeepsOK
  <1>4. CASE form = "document" /\ value \in Documents
    <2>1. Start = ToNetlist(value) /\ Clear(value) /\ Elaborates(value)
      BY <1>1, <1>2, <1>4 DEF Start, Sound
    <2>2. IsModule(value) /\ \A l \in DOMAIN value.nets : l = <<"net", l[2]>>
      BY <1>4, SchemaAssumption
    <2>3. HasLists(Start) /\ Keeps(Start, ToNetlist(value))
      BY <2>1, <2>2, NetsAre, KeepsSelf
    <2>4. \A l \in DOMAIN value.nets : l[1] = "net" /\ l = <<l[1], l[2]>>
      BY <2>2, NetLabels
    <2>5. LabelsApart(value)
      <3>1. \A p : <<"alias", p>>[1] = "alias"
        OBVIOUS
      <3>2. QED
        BY <2>4, <3>1 DEF LabelsApart
    <2>6. Good(value)
      BY <2>1, <2>3, <2>5 DEF Good
    <2>7. QED
      BY <1>4, <2>3, <2>6 DEF KeepsOK
  <1>5. QED
    BY <1>1, <1>3, <1>4 DEF Begin

LEMMA KeepsKept == FormsOK /\ KeepsOK /\ [Convert]_circuit => KeepsOK'
  <1>1. SUFFICES ASSUME FormsOK, KeepsOK, [Convert]_circuit, Sound' PROVE KeepsOK'
    BY DEF KeepsOK
  <1>2. origin' = origin
    BY <1>1 DEF Convert, Elaborate, Fail, Recover, Encode, Foreign, Decode, circuit
  <1>3. Start' = Start /\ Sound /\ Legible(Start)
    BY <1>1, <1>2 DEF Start, Sound
  <1>4. /\ HasLists(Start)
        /\ form = "netlist" => LabelsOK(value) /\ Keeps(Start, value)
        /\ form = "document" => Good(value)
        /\ form = "wire" => Good(sent[1])
        /\ form = "failed" => Unwritable(Start)
    BY <1>1, <1>3 DEF KeepsOK
  <1> DEFINE GoodOf(d) == /\ LabelsApart(d) /\ Clear(d)
                          /\ Keeps(Start, ToNetlist(d))
                          /\ Elaborates(d) \/ Unwritable(Start)
  <1>5. /\ form = "document" => GoodOf(value)
        /\ form = "wire" => GoodOf(sent[1])
    BY <1>4 DEF Good
  <1>6. SUFFICES /\ form' = "netlist" => LabelsOK(value') /\ Keeps(Start, value')
                 /\ form' = "document" => GoodOf(value')
                 /\ form' = "wire" => GoodOf(sent'[1])
                 /\ form' = "failed" => Unwritable(Start)
    BY <1>3, <1>4 DEF KeepsOK, Good
  <1> HIDE DEF GoodOf
  <1>7. CASE Elaborate
    <2>1. /\ IsModule(value) /\ Elaborates(value) /\ form = "document"
          /\ form' = "netlist" /\ value' = ToNetlist(value)
      BY <1>1, <1>7 DEF Elaborate, FormsOK
    <2>2. LabelsApart(value) /\ Keeps(Start, ToNetlist(value))
      BY <1>5, <2>1 DEF GoodOf
    <2>3. LabelsOK(ToNetlist(value))
      BY <2>1, <2>2, LabelsElaborated
    <2>4. QED
      BY <2>1, <2>2, <2>3
  <1>8. CASE Fail
    <2>1. form = "document" /\ ~ Elaborates(value) /\ form' = "failed"
      BY <1>8 DEF Fail
    <2>2. Unwritable(Start)
      BY <1>5, <2>1 DEF GoodOf
    <2>3. QED
      BY <2>1, <2>2
  <1>9. CASE Recover
    <2>1. form = "netlist" /\ IsNetlist(value) /\ Buildable(value) /\ form' = "document"
      BY <1>1, <1>9 DEF Recover, FormsOK
    <2>2. LabelsOK(value) /\ Keeps(Start, value)
      BY <1>4, <2>1
    <2>3. PICK last \in Stays(value) : value' = Recovered(value, last)
      BY <1>9, RecoverIs
    <2> DEFINE d == Recovered(value, last)
    <2>4. HasLists(value) /\ HasLists(ToNetlist(d))
      BY <2>1, <2>3, ModuleMade, NetsAre DEF IsNetlist, HasLists
    <2>5. Legible(value)
      BY <1>3, <1>4, <2>2, <2>4, StillLegible
    <2>6. LabelsApart(d) /\ Clear(d) /\ Keeps(value, ToNetlist(d))
      BY <2>1, <2>2, <2>3, <2>5, LabelsRecovered, KeepsRecovered
    <2>7. Keeps(Start, ToNetlist(d))
      BY <1>4, <2>2, <2>4, <2>6, KeepsTransitive
    <2>8. Elaborates(d) \/ Unwritable(Start)
      <3>1. Elaborates(d) \/ Unwritable(value)
        BY <2>1, <2>2, <2>3, <2>5, RecoveredElaborates
      <3>2. Unwritable(value) => Unwritable(Start)
        BY <1>4, <2>2, <2>4, StillUnwritable
      <3>3. QED
        BY <3>1, <3>2
    <2> HIDE DEF d
    <2>9. GoodOf(d)
      BY <2>6, <2>7, <2>8 DEF GoodOf
    <2>10. value' = d
      BY <2>3 DEF d
    <2>11. QED
      BY <2>1, <2>9, <2>10
  <1>10. CASE Encode
    <2>1. form = "document" /\ form' = "wire" /\ sent' = <<value>>
      BY <1>10 DEF Encode
    <2>2. sent'[1] = value
      BY <2>1
    <2>3. QED
      BY <1>5, <2>1, <2>2
  <1>11. CASE Foreign
    <2>1. form = "wire" /\ form' = "wire" /\ sent' = sent
      BY <1>11 DEF Foreign
    <2>2. sent'[1] = sent[1]
      BY <2>1
    <2>3. QED
      BY <1>5, <2>1, <2>2
  <1>12. CASE Decode
    <2>1. form = "wire" /\ form' = "document"
      BY <1>12 DEF Decode
    <2>2. PICK d : sent = <<d>> /\ IsModule(d) /\ IsWire(value, d)
      BY <1>1, <2>1 DEF FormsOK
    <2>3. sent[1] = d
      BY <2>2
    <2>4. /\ LabelsApart(d) /\ Clear(d)
          /\ Keeps(Start, ToNetlist(d))
          /\ Elaborates(d) \/ Unwritable(Start)
      BY <1>5, <2>1, <2>3 DEF GoodOf
    <2>5. NamesPlain(d)
      <3>1. HasLists(ToNetlist(d)) /\ ToNetlist(d).pins = DOMAIN d.ports
        BY <2>2, NetsAre
      <3>2. Legible(ToNetlist(d))
        BY <1>3, <1>4, <2>4, <3>1, StillLegible
      <3>3. QED
        BY <3>1, <3>2 DEF Legible, NamesPlain
    <2>6. PICK last \in Lasts(value), entry \in Entries(value) : value' = Reads(value, last, entry)
      BY <1>12, DecodeIs
    <2> DEFINE v == Reads(value, last, entry)
    <2>7. Decoded(v, d)
      BY <2>2, <2>6, ReadIs
    <2> HIDE DEF v
    <2>8. LabelsApart(v) /\ Clear(v)
      BY <2>2, <2>4, <2>5, <2>7, DecodedLabels
    <2>9. Keeps(ToNetlist(d), ToNetlist(v)) /\ (Elaborates(d) => Elaborates(v))
      BY <2>2, <2>4, <2>5, <2>7, KeepsDecoded
    <2>10. HasLists(ToNetlist(d)) /\ HasLists(ToNetlist(v))
      BY <2>2, <2>7, NetsAre DEF Decoded
    <2>11. Keeps(Start, ToNetlist(v))
      BY <1>4, <2>4, <2>9, <2>10, KeepsTransitive
    <2>12. GoodOf(v)
      BY <2>4, <2>8, <2>9, <2>11 DEF GoodOf
    <2>13. value' = v
      BY <2>6 DEF v
    <2>14. QED
      BY <2>1, <2>12, <2>13
  <1>13. CASE UNCHANGED circuit
    <2>1. form' = form /\ value' = value /\ sent' = sent
      BY <1>13 DEF circuit
    <2>2. QED
      BY <1>4, <1>5, <2>1
  <1>14. QED
    BY <1>1, <1>7, <1>8, <1>9, <1>10, <1>11, <1>12, <1>13 DEF Convert

(* Any number of conversions later, a netlist whose names survive being    *)
(* written has the pins and nets it started with, but that each pin keeps  *)
(* one of its private nets, and the instances with their sizes, as leaves; *)
(* nothing is refused but what the text form cannot say.                   *)
THEOREM ConnectivityKeeping == Conversions => []ConnectivityKept
  <1>1. KeepsOK => ConnectivityKept
    BY DEF KeepsOK, ConnectivityKept
  <1>2. QED
    BY <1>1, KeepsBegin, KeepsKept, Forms, PTL DEF Conversions
================================================================================
