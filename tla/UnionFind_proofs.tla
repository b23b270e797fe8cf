---------------------------- MODULE UnionFind_proofs ----------------------------
(***************************************************************************)
(* For every number of nets: the types, the rank order that makes `find`   *)
(* end, and the refinement of Partition (its safety part).                 *)
(***************************************************************************)
EXTENDS UnionFind, Components_proofs

(* The cursor never leaves the block of the element the find started from, *)
(* and the root found first stays a root during the second find.           *)
CursorInv ==
  /\ pc = "idle" => call = NoCall
  /\ pc # "idle" => call \in Calls /\ x \in Elem
  /\ pc = "first" => rep[x] = rep[call.a]
  /\ pc = "second" => /\ call.op = "union"
                      /\ rep[x] = rep[call.b]
                      /\ ra \in Elem
                      /\ parent[ra] = ra
                      /\ rep[ra] = rep[call.a]

(* An edge of the forest stays inside a block, and a root represents its   *)
(* own block.  With RanksGrow this is what Root(e) = rep[e] says without a *)
(* recursive definition.                                                   *)
ForestInv ==
  \A e \in Elem : /\ rep[parent[e]] = rep[e]
                  /\ parent[e] = e => rep[e] = e

IInv == TypeOK /\ RanksGrow /\ CursorInv /\ ForestInv

LEMMA InitIInv == Init => IInv
  BY NAssumption DEF Init, IInv, TypeOK, RanksGrow, CursorInv, ForestInv,
     Identity, Elem, Nil, NoCall, Calls

LEMMA ElemInt == Elem \subseteq Int /\ Nil \notin Elem
  BY NAssumption DEF Elem, Nil

(* Attaching a root to another root of at least its rank keeps the forest  *)
(* well ranked.                                                            *)
LEMMA AttachIInv ==
  ASSUME IInv, NEW w \in Elem, NEW l \in Elem, w # l,
         parent[w] = w, parent[l] = l, Attach(w, l),
         rank' \in [Elem -> Nat],
         rank'[l] = rank[l], rank'[w] > rank[l], rank'[w] >= rank[w],
         \A e \in Elem : e # w => rank'[e] = rank[e]
  PROVE  /\ parent' \in [Elem -> Elem] /\ rep' \in [Elem -> Elem]
         /\ RanksGrow' /\ ForestInv'
  <1> USE DEF IInv, TypeOK, Attach
  <1>1. parent' \in [Elem -> Elem] /\ rep' \in [Elem -> Elem]
    OBVIOUS
  <1>2. RanksGrow'
    <2> SUFFICES ASSUME NEW e \in Elem, parent'[e] # e
                 PROVE  rank'[e] < rank'[parent'[e]]
      BY DEF RanksGrow
    <2>1. CASE e = l
      BY <2>1
    <2>2. CASE e # l
      <3>1. parent'[e] = parent[e] /\ e # w
        BY <2>2
      <3>2. rank[e] < rank[parent[e]] /\ rank'[e] = rank[e]
        BY <3>1 DEF RanksGrow
      <3>3. parent[e] \in Elem /\ rank'[parent[e]] >= rank[parent[e]]
        BY DEF RanksGrow
      <3>4. rank[e] \in Nat /\ rank[parent[e]] \in Nat
        BY <3>3
      <3>5. rank'[e] \in Nat
        OBVIOUS
      <3>6. rank'[parent[e]] \in Nat
        BY <3>3
      <3>7. QED
        BY <3>1, <3>2, <3>3, <3>4, <3>5, <3>6
    <2>3. QED
      BY <2>1, <2>2
  <1>3. ForestInv'
    <2>1. rep[w] = w /\ rep[l] = l
      BY DEF ForestInv
    <2> SUFFICES ASSUME NEW e \in Elem
                 PROVE  rep'[parent'[e]] = rep'[e] /\ (parent'[e] = e => rep'[e] = e)
      BY DEF ForestInv
    <2>2. CASE e = l
      BY <2>1, <2>2
    <2>3. CASE e # l
      BY <2>1, <2>3 DEF ForestInv
    <2>4. QED
      BY <2>2, <2>3
  <1>4. QED
    BY <1>1, <1>2, <1>3

LEMMA HalveIInv == IInv /\ Halve => IInv'
  <1> SUFFICES ASSUME IInv, Halve PROVE IInv'
    OBVIOUS
  <1> USE DEF IInv, TypeOK, Halve, NextCursor, Grandparent
  <1>1. x \in Elem /\ parent[x] \in Elem /\ parent[parent[x]] \in Elem
    BY DEF CursorInv
  <1>2. TypeOK'
    BY <1>1
  <1>3. rank[x] < rank[parent[parent[x]]]
    BY <1>1 DEF RanksGrow
  <1>4. RanksGrow'
    BY <1>1, <1>3 DEF RanksGrow
  <1>5. rep[parent[parent[x]]] = rep[x]
    BY <1>1 DEF ForestInv
  <1>6. ForestInv'
    BY <1>1, <1>3, <1>5 DEF ForestInv
  <1>7. CursorInv'
    BY <1>1, <1>5 DEF CursorInv
  <1>8. QED
    BY <1>2, <1>4, <1>6, <1>7

LEMMA UnionReturnsIInv == IInv /\ UnionReturns => IInv'
  <1> SUFFICES ASSUME IInv, UnionReturns PROVE IInv'
    OBVIOUS
  <1> USE DEF IInv, TypeOK, UnionReturns
  <1>1. x \in Elem /\ ra \in Elem /\ parent[ra] = ra /\ parent[x] = x
    BY DEF CursorInv
  <1>2. CursorInv'
    BY DEF CursorInv
  <1>3. CASE ra = x
    BY <1>2, <1>3 DEF RanksGrow, ForestInv
  <1>4. CASE ra # x
    <2>1. Link(ra, x)
      BY <1>4
    <2>2. CASE Lower(ra, x) /\ Attach(x, ra) /\ UNCHANGED rank
      BY <1>1, <1>2, <1>4, <2>2, AttachIInv DEF Lower
    <2>3. CASE Lower(x, ra) /\ Attach(ra, x) /\ UNCHANGED rank
      BY <1>1, <1>2, <1>4, <2>3, AttachIInv DEF Lower
    <2>4. CASE /\ ~ Lower(ra, x) /\ ~ Lower(x, ra) /\ Attach(ra, x)
               /\ rank' = [rank EXCEPT ![ra] = @ + 1]
      <3>1. rank[ra] = rank[x]
        BY <1>1, <2>4 DEF Lower
      <3>2. /\ rank' \in [Elem -> Nat] /\ rank'[x] = rank[x] /\ rank'[ra] > rank[x]
            /\ rank'[ra] >= rank[ra] /\ \A e \in Elem : e # ra => rank'[e] = rank[e]
        BY <1>1, <1>4, <2>4, <3>1
      <3>3. QED
        BY <1>1, <1>2, <1>4, <2>4, <3>2, AttachIInv
    <2>5. QED
      BY <2>1, <2>2, <2>3, <2>4 DEF Link
  <1>5. QED
    BY <1>3, <1>4

LEMMA NextIInv == IInv /\ [Next]_vars => IInv'
  <1> SUFFICES ASSUME IInv, [Next]_vars PROVE IInv'
    OBVIOUS
  <1> USE DEF IInv, TypeOK
  <1>1. ASSUME NEW c \in Calls, Invoke(c) PROVE IInv'
    BY <1>1 DEF Invoke, RanksGrow, CursorInv, ForestInv, Calls
  <1>2. CASE Halve
    BY <1>2, HalveIInv
  <1>3. CASE FindReturns
    BY <1>3 DEF FindReturns, Found, RanksGrow, CursorInv, ForestInv
  <1>4. CASE FirstRoot
    BY <1>4 DEF FirstRoot, RanksGrow, CursorInv, ForestInv, Calls
  <1>5. CASE UnionReturns
    BY <1>5, UnionReturnsIInv
  <1>6. CASE UNCHANGED vars
    BY <1>6 DEF vars, RanksGrow, CursorInv, ForestInv
  <1>7. QED
    BY <1>1, <1>2, <1>3, <1>4, <1>5, <1>6 DEF Next, Body

LEMMA Inductive == Spec => []IInv
  BY InitIInv, NextIInv, PTL DEF Spec

(* Every variable keeps its type, whatever unions and finds are called.    *)
THEOREM Typing == Spec => []TypeOK
  <1>1. IInv => TypeOK
    BY DEF IInv
  <1>2. QED
    BY Inductive, <1>1, PTL

(* The parent vector is a forest: rank strictly increases along it, so no  *)
(* union or path halving ever closes a cycle.                              *)
THEOREM ForestIsRanked == Spec => []RanksGrow
  <1>1. IInv => RanksGrow
    BY DEF IInv
  <1>2. QED
    BY Inductive, <1>1, PTL

(* Every iteration of the loop of `find` strictly increases the rank under *)
(* the cursor: with finitely many ranks, `find` ends.                      *)
THEOREM FindEnds == Spec => FindClimbs
  <1>1. IInv /\ [Next]_vars => [Halve => rank[x'] > rank[x]]_vars
    <2> SUFFICES ASSUME IInv, Halve PROVE rank[x'] > rank[x]
      OBVIOUS
    <2> USE DEF IInv, TypeOK, Halve, NextCursor, Grandparent
    <2>1. x \in Elem /\ parent[x] \in Elem /\ parent[parent[x]] \in Elem
      BY DEF CursorInv
    <2>2. QED
      BY <2>1 DEF RanksGrow
  <1>2. QED
    BY Inductive, <1>1, PTL DEF Spec, FindClimbs
--------------------------------------------------------------------------------
(* A linked pair of roots merges exactly the two blocks of the arguments.  *)
LEMMA LinkRefines == IInv /\ UnionReturns => Abstract!Union
  <1> SUFFICES ASSUME IInv, UnionReturns PROVE Abstract!Union
    OBVIOUS
  <1> USE DEF IInv, TypeOK, UnionReturns, Abstract!Union, Abstract!NoCall, NoCall
  <1>1. /\ x \in Elem /\ ra \in Elem /\ call \in Calls /\ call.op = "union"
        /\ rep[call.a] = ra /\ rep[call.b] = x
    BY DEF CursorInv, ForestInv
  <1>2. call # NoCall
    BY <1>1 DEF Calls
  <1>3. \E winner \in {ra, x} :
           rep' = [e \in Elem |-> IF rep[e] \in {ra, x} THEN winner ELSE rep[e]]
    <2>1. CASE ra = x
      BY <1>1, <2>1
    <2>2. CASE ra # x /\ Attach(x, ra)
      BY <1>1, <2>2 DEF Attach
    <2>3. CASE ra # x /\ Attach(ra, x)
      BY <1>1, <2>3 DEF Attach
    <2>4. QED
      BY <2>1, <2>2, <2>3 DEF Link
  <1>4. QED
    BY <1>1, <1>2, <1>3

LEMMA StepRefines == IInv /\ [Next]_vars => [Abstract!Next]_(Abstract!vars)
  <1> SUFFICES ASSUME IInv, [Next]_vars PROVE [Abstract!Next]_(Abstract!vars)
    OBVIOUS
  <1> USE DEF IInv, TypeOK, Abstract!Next, Abstract!vars
  <1>1. ASSUME NEW c \in Calls, Invoke(c) PROVE Abstract!Invoke
    BY <1>1 DEF Invoke, Abstract!Invoke, Abstract!NoCall, Abstract!Calls, Calls,
       NoCall, CursorInv, Nil
  <1>2. CASE Halve
    BY <1>2 DEF Halve
  <1>3. ASSUME FindReturns PROVE Abstract!Find
    <2>1. x \in Elem /\ rep[x] = x /\ rep[x] = rep[call.a] /\ call \in Calls
      BY <1>3 DEF FindReturns, CursorInv, ForestInv
    <2>2. call # NoCall
      BY <2>1 DEF Calls, NoCall
    <2>3. QED
      BY <1>3, <2>1, <2>2 DEF FindReturns, Found, Abstract!Find, Abstract!NoCall, NoCall
  <1>4. CASE FirstRoot
    BY <1>4 DEF FirstRoot
  <1>5. CASE UnionReturns
    BY <1>5, LinkRefines
  <1>6. CASE UNCHANGED vars
    BY <1>6 DEF vars
  <1>7. QED
    BY <1>1, <1>2, <1>3, <1>4, <1>5, <1>6 DEF Next, Body

(* Path halving and union by rank implement the abstract partition: `find` *)
(* returns the representative of its argument's block, and only a `union`  *)
(* merges blocks, exactly the two blocks of its arguments.                 *)
THEOREM ImplementsPartition == Spec => Abstract!Safety
  <1>1. Init => Abstract!Init
    BY DEF Init, Abstract!Init, NoCall, Abstract!NoCall, Nil
  <1>2. QED
    BY Inductive, <1>1, StepRefines, PTL DEF Spec, Abstract!Safety
--------------------------------------------------------------------------------
(* Powers of two, from the number of subsets.                              *)
LEMMA Powers == \A k \in Nat : 2 ^ k \in Nat /\ 2 ^ (k + 1) = 2 ^ k + 2 ^ k /\ k < 2 ^ k
  <1>1. ASSUME NEW k \in Nat
        PROVE  /\ IsFiniteSet(SUBSET (1 .. k)) /\ Cardinality(SUBSET (1 .. k)) = 2 ^ k
               /\ 2 ^ k \in Nat
    <2>1. IsFiniteSet(1 .. k) /\ Cardinality(1 .. k) = k
      BY FS_Interval
    <2>2. IsFiniteSet(SUBSET (1 .. k)) /\ Cardinality(SUBSET (1 .. k)) = 2 ^ k
      BY <2>1, FS_SUBSET
    <2>3. QED
      BY <2>2, FS_CardinalityType
  <1>2. ASSUME NEW k \in Nat
        PROVE  2 ^ (k + 1) = 2 ^ k + 2 ^ k
    <2> DEFINE A == SUBSET (1 .. k)
               B == {T \cup {k + 1} : T \in A}
    <2>1. SUBSET (1 .. k + 1) = A \cup B
      <3>1. \A T : T \in SUBSET (1 .. k + 1) => T \in A \cup B
        <4>1. TAKE T
        <4>2. HAVE T \in SUBSET (1 .. k + 1)
        <4>3. CASE k + 1 \in T
          <5>1. T \ {k + 1} \in A /\ T = (T \ {k + 1}) \cup {k + 1}
            BY <4>2, <4>3
          <5>2. QED
            BY <5>1
        <4>4. CASE k + 1 \notin T
          BY <4>2, <4>4
        <4>5. QED
          BY <4>3, <4>4
      <3>2. \A T : T \in A \cup B => T \in SUBSET (1 .. k + 1)
        OBVIOUS
      <3>3. QED
        BY <3>1, <3>2
    <2>2. A \cap B = {}
      OBVIOUS
    <2> DEFINE f == [T \in A |-> T \cup {k + 1}]
    <2>3. f \in Bijection(A, B)
      <3>1. f \in [A -> B]
        OBVIOUS
      <3>2. ASSUME NEW T \in A, NEW U \in A, f[T] = f[U]
            PROVE  T = U
        <4>1. T \cup {k + 1} = U \cup {k + 1}
          BY <3>2
        <4>2. k + 1 \notin T /\ k + 1 \notin U
          OBVIOUS
        <4>3. \A i : i \in T <=> i \in U
          BY <4>1, <4>2
        <4>4. QED
          BY <4>3
      <3>3. \A U \in B : \E T \in A : f[T] = U
        OBVIOUS
      <3> HIDE DEF A, B, f
      <3>4. f \in Injection(A, B)
        BY <3>1, <3>2 DEF Injection, IsInjective
      <3>5. f \in Surjection(A, B)
        BY <3>1, <3>3 DEF Surjection
      <3>6. QED
        BY <3>4, <3>5 DEF Bijection
    <2>4. IsFiniteSet(A) /\ Cardinality(A) = 2 ^ k
      BY <1>1
    <2>5. Cardinality(SUBSET (1 .. k + 1)) = 2 ^ (k + 1)
      <3> DEFINE l == k + 1
      <3>1. l \in Nat
        OBVIOUS
      <3> HIDE DEF l
      <3>2. Cardinality(SUBSET (1 .. l)) = 2 ^ l
        BY <1>1, <3>1
      <3>3. QED
        BY <3>2 DEF l
    <2>6. IsFiniteSet(B) /\ Cardinality(A) = Cardinality(B)
      BY <2>3, <2>4, FS_Bijection DEF ExistsBijection
    <2> HIDE DEF A, B, f
    <2>7. Cardinality(A \cup B) = Cardinality(A) + Cardinality(B) - Cardinality(A \cap B)
      BY <2>4, <2>6, FS_Union
    <2>8. Cardinality(A \cap B) = 0
      BY <2>2, FS_EmptySet
    <2>9. 2 ^ k \in Nat
      BY <1>1
    <2>10. Cardinality(A \cup B) = 2 ^ (k + 1)
      BY <2>1, <2>5
    <2> DEFINE p == 2 ^ k
               q == 2 ^ (k + 1)
    <2>11. Cardinality(A) = p /\ Cardinality(A \cup B) = q /\ p \in Nat
      BY <2>4, <2>9, <2>10
    <2> HIDE DEF p, q
    <2>12. q = p + p
      BY <2>6, <2>7, <2>8, <2>11
    <2>13. QED
      BY <2>12 DEF p, q
  <1> DEFINE T == {k \in Nat : k < 2 ^ k}
  <1>3. 0 \in T
    OBVIOUS
  <1>4. ASSUME NEW k \in Nat, k \in T
        PROVE  k + 1 \in T
    <2>1. k < 2 ^ k /\ 2 ^ k \in Nat /\ 2 ^ (k + 1) = 2 ^ k + 2 ^ k
      BY <1>1, <1>2, <1>4
    <2>2. k + 1 < 2 ^ (k + 1)
      BY <2>1
    <2>3. QED
      BY <2>2
  <1> HIDE DEF T
  <1>5. Nat \subseteq T
    BY <1>3, <1>4, Induction
  <1>6. QED
    BY <1>1, <1>2, <1>5 DEF T
--------------------------------------------------------------------------------
(* Representatives are roots of the highest rank in their block, and a     *)
(* root of rank k represents at least 2^k elements.                        *)
Block(r) == {e \in Elem : rep[e] = r}
Sized ==
  /\ \A e \in Elem : parent[rep[e]] = rep[e] /\ rank[e] <= rank[rep[e]]
  /\ \A r \in Elem : parent[r] = r => 2 ^ rank[r] <= Cardinality(Block(r))

LEMMA BlocksFinite ==
  ASSUME NEW r
  PROVE  /\ IsFiniteSet(Elem) /\ Cardinality(Elem) = N
         /\ IsFiniteSet(Block(r)) /\ Cardinality(Block(r)) \in Nat /\ Cardinality(Block(r)) <= N
  <1>1. IsFiniteSet(Elem) /\ Cardinality(Elem) = N
    <2>1. IsFiniteSet(0 .. N - 1) /\ Cardinality(0 .. N - 1) = IF 0 > N - 1 THEN 0 ELSE (N - 1) - 0 + 1
      BY NAssumption, FS_Interval
    <2>2. QED
      BY <2>1, NAssumption DEF Elem
  <1>2. Block(r) \subseteq Elem
    BY DEF Block
  <1>3. IsFiniteSet(Block(r)) /\ Cardinality(Block(r)) <= N
    BY <1>1, <1>2, FS_Subset
  <1>4. QED
    BY <1>1, <1>3, FS_CardinalityType

(* Attaching a root to a root of no lower rank, whose rank it raises when  *)
(* they were equal, adds the smaller block to the larger.                  *)
LEMMA AttachSized ==
  ASSUME IInv, Sized, NEW w \in Elem, NEW l \in Elem, w # l,
         parent[w] = w, parent[l] = l, Attach(w, l),
         rank' \in [Elem -> Nat], rank[l] <= rank[w],
         \A e \in Elem : e # w => rank'[e] = rank[e],
         \/ rank'[w] = rank[w]
         \/ rank[l] = rank[w] /\ rank'[w] = rank[w] + 1
  PROVE  Sized'
  <1> USE DEF IInv, TypeOK
  <1>1. /\ parent' = [parent EXCEPT ![l] = w]
        /\ rep' = [e \in Elem |-> IF rep[e] = l THEN w ELSE rep[e]]
    BY DEF Attach
  <1>2. rep[w] = w /\ rep[l] = l
    BY DEF ForestInv
  <1>3. rank[w] \in Nat /\ rank[l] \in Nat /\ rank'[w] \in Nat /\ rank'[w] >= rank[w]
    OBVIOUS
  <1>4. ASSUME NEW e \in Elem
        PROVE  parent'[rep'[e]] = rep'[e] /\ rank'[e] <= rank'[rep'[e]]
    <2>1. rep[e] \in Elem /\ parent[rep[e]] = rep[e] /\ rank[e] <= rank[rep[e]]
          /\ rank[e] \in Nat /\ rank[rep[e]] \in Nat
      BY DEF Sized
    <2>2. CASE rep[e] = l
      <3>1. rep'[e] = w /\ parent'[w] = w /\ e # w
        BY <1>1, <1>2, <2>2
      <3>2. rank'[e] = rank[e]
        BY <3>1
      <3>3. QED
        BY <1>3, <2>1, <2>2, <3>1, <3>2
    <2>3. CASE rep[e] # l
      <3>1. rep'[e] = rep[e] /\ parent'[rep[e]] = rep[e]
        BY <1>1, <2>1, <2>3
      <3>2. CASE e = w
        BY <1>2, <1>3, <3>1, <3>2
      <3>3. CASE e # w
        <4>1. rank'[e] = rank[e]
          BY <3>3
        <4>2. rank'[rep[e]] >= rank[rep[e]] /\ rank'[rep[e]] \in Nat
          BY <1>3, <2>1
        <4>3. QED
          BY <2>1, <3>1, <4>1, <4>2
      <3>4. QED
        BY <3>2, <3>3
    <2>4. QED
      BY <2>2, <2>3
  <1>5. Block(w)' = Block(w) \cup Block(l) /\ Block(w) \cap Block(l) = {}
    <2>1. \A e \in Elem : rep'[e] = w <=> rep[e] = w \/ rep[e] = l
      BY <1>1
    <2>2. QED
      BY <2>1 DEF Block
  <1>6. Cardinality(Block(w)') = Cardinality(Block(w)) + Cardinality(Block(l))
    <2>1. /\ IsFiniteSet(Block(w)) /\ IsFiniteSet(Block(l))
          /\ Cardinality(Block(w)) \in Nat /\ Cardinality(Block(l)) \in Nat
      BY BlocksFinite
    <2>2. Cardinality(Block(w) \cup Block(l))
            = Cardinality(Block(w)) + Cardinality(Block(l)) - Cardinality(Block(w) \cap Block(l))
      BY <2>1, FS_Union
    <2>3. Cardinality(Block(w) \cap Block(l)) = 0
      BY <1>5, FS_EmptySet
    <2>4. QED
      BY <1>5, <2>1, <2>2, <2>3
  <1>7. 2 ^ rank'[w] <= Cardinality(Block(w)')
    <2> DEFINE cw == Cardinality(Block(w))
               cl == Cardinality(Block(l))
               pw == 2 ^ rank[w]
               pl == 2 ^ rank[l]
    <2>1. pw <= cw /\ pl <= cl
      BY DEF Sized
    <2>2. cw \in Nat /\ cl \in Nat /\ pw \in Nat /\ pl \in Nat
      BY <1>3, BlocksFinite, Powers
    <2>3. Cardinality(Block(w)') = cw + cl
      BY <1>6
    <2>4. CASE rank'[w] = rank[w]
      <3>1. 2 ^ rank'[w] = pw
        BY <2>4
      <3> HIDE DEF cw, cl, pw, pl
      <3>2. QED
        BY <2>1, <2>2, <2>3, <3>1
    <2>5. CASE rank[l] = rank[w] /\ rank'[w] = rank[w] + 1
      <3>1. 2 ^ rank'[w] = pw + pw /\ pl = pw
        <4> DEFINE k == rank[w]
        <4>1. k \in Nat
          BY <1>3
        <4> HIDE DEF k
        <4>2. 2 ^ (k + 1) = 2 ^ k + 2 ^ k
          BY <4>1, Powers
        <4>3. rank'[w] = k + 1 /\ rank[l] = k /\ rank[w] = k
          BY <2>5 DEF k
        <4>4. 2 ^ rank'[w] = 2 ^ (k + 1) /\ pw = 2 ^ k /\ pl = 2 ^ k
          BY <4>3
        <4>5. QED
          BY <4>2, <4>4
      <3> HIDE DEF cw, cl, pw, pl
      <3>2. QED
        BY <2>1, <2>2, <2>3, <3>1
    <2>6. QED
      BY <2>4, <2>5
  <1>8. ASSUME NEW r \in Elem, parent'[r] = r
        PROVE  2 ^ rank'[r] <= Cardinality(Block(r)')
    <2>1. CASE r = w
      BY <1>7, <2>1
    <2>2. CASE r # w
      <3>1. r # l
        BY <1>1, <1>8, <2>2
      <3>2. parent[r] = r /\ rank'[r] = rank[r]
        BY <1>1, <1>8, <2>2, <3>1
      <3>3. Block(r)' = Block(r)
        <4>1. \A e \in Elem : rep'[e] = r <=> rep[e] = r
          BY <1>1, <2>2, <3>1
        <4>2. QED
          BY <4>1 DEF Block
      <3>4. QED
        BY <3>2, <3>3 DEF Sized
    <2>3. QED
      BY <2>1, <2>2
  <1>9. QED
    BY <1>4, <1>8 DEF Sized

LEMMA SizedInit == Init => Sized
  <1> SUFFICES ASSUME Init PROVE Sized
    OBVIOUS
  <1>1. ASSUME NEW r \in Elem
        PROVE  2 ^ rank[r] <= Cardinality(Block(r))
    <2>1. Block(r) = {r} /\ rank[r] = 0
      BY <1>1 DEF Init, Block
    <2>2. Cardinality({r}) = 1 /\ 2 ^ 0 = 1
      BY FS_Singleton
    <2>3. QED
      BY <2>1, <2>2
  <1>2. QED
    BY <1>1 DEF Init, Sized, Identity

LEMMA SizedNext == IInv /\ Sized /\ [Next]_vars => Sized'
  <1> SUFFICES ASSUME IInv, Sized, [Next]_vars PROVE Sized'
    OBVIOUS
  <1>1. ASSUME UNCHANGED <<rank, rep>>, \A e \in Elem : (parent'[e] = e) <=> (parent[e] = e)
        PROVE  Sized'
    <2>1. \A r : Block(r)' = Block(r)
      BY <1>1 DEF Block
    <2>2. \A e \in Elem : rep[e] \in Elem
      BY DEF IInv, TypeOK
    <2>3. QED
      BY <1>1, <2>1, <2>2 DEF Sized
  <1>2. CASE Halve
    <2>1. x \in Elem /\ parent[x] # x /\ parent[x] \in Elem /\ parent[parent[x]] \in Elem
      BY <1>2 DEF Halve, IInv, TypeOK, CursorInv
    <2>2. parent[parent[x]] # x
      <3>1. rank[x] < rank[parent[x]]
        BY <2>1 DEF IInv, RanksGrow
      <3>2. parent[parent[x]] # parent[x] => rank[parent[x]] < rank[parent[parent[x]]]
        BY <2>1 DEF IInv, RanksGrow
      <3>3. rank[x] \in Nat /\ rank[parent[x]] \in Nat /\ rank[parent[parent[x]]] \in Nat
        BY <2>1 DEF IInv, TypeOK
      <3>4. rank[x] < rank[parent[parent[x]]]
        BY <3>1, <3>2, <3>3
      <3>5. QED
        BY <3>3, <3>4
    <2>3. \A e \in Elem : (parent'[e] = e) <=> (parent[e] = e)
      BY <1>2, <2>1, <2>2 DEF Halve, Grandparent, IInv, TypeOK
    <2>4. QED
      BY <1>1, <1>2, <2>3 DEF Halve
  <1>3. CASE UnionReturns
    <2>1. x \in Elem /\ ra \in Elem /\ parent[ra] = ra /\ parent[x] = x
      BY <1>3 DEF UnionReturns, IInv, CursorInv
    <2>2. CASE ra = x
      BY <1>1, <1>3, <2>2 DEF UnionReturns
    <2>3. CASE ra # x
      <3>1. Link(ra, x)
        BY <1>3, <2>3 DEF UnionReturns
      <3>2. rank \in [Elem -> Nat] /\ rank[ra] \in Nat /\ rank[x] \in Nat
        BY <2>1 DEF IInv, TypeOK
      <3>3. CASE Lower(ra, x) /\ Attach(x, ra) /\ UNCHANGED rank
        BY <2>1, <2>3, <3>2, <3>3, AttachSized DEF Lower
      <3>4. CASE Lower(x, ra) /\ Attach(ra, x) /\ UNCHANGED rank
        BY <2>1, <2>3, <3>2, <3>4, AttachSized DEF Lower
      <3>5. CASE /\ ~ Lower(ra, x) /\ ~ Lower(x, ra) /\ Attach(ra, x)
                 /\ rank' = [rank EXCEPT ![ra] = @ + 1]
        <4>1. rank[x] = rank[ra] /\ rank[x] <= rank[ra]
          BY <3>2, <3>5 DEF Lower
        <4>2. rank' \in [Elem -> Nat] /\ rank'[ra] = rank[ra] + 1
              /\ \A e \in Elem : e # ra => rank'[e] = rank[e]
          BY <2>1, <3>2, <3>5
        <4>3. QED
          BY <2>1, <2>3, <3>5, <4>1, <4>2, AttachSized
      <3>6. QED
        BY <3>1, <3>3, <3>4, <3>5 DEF Link
    <2>4. QED
      BY <2>2, <2>3
  <1>4. CASE (\E c \in Calls : Invoke(c)) \/ FindReturns \/ FirstRoot \/ UNCHANGED vars
    <2>1. UNCHANGED <<parent, rank, rep>>
      BY <1>4 DEF Invoke, FindReturns, FirstRoot, vars
    <2>2. QED
      BY <1>1, <2>1
  <1>5. QED
    BY <1>2, <1>3, <1>4 DEF Next, Body

(* The recursion that climbs the forest.                                   *)
LEMMA Climbing ==
  /\ Climb[0] = [e \in Elem |-> e]
  /\ \A n \in 1 .. N : Climb[n] = [e \in Elem |-> parent[Climb[n - 1][e]]]
  <1> DEFINE Step(v) == [e \in Elem |-> parent[v[e]]]
             Recursion(w, k) == w = [n \in 0 .. k |-> IF n = 0 THEN [e \in Elem |-> e] ELSE Step(w[n - 1])]
             T == {k \in Nat : \E w : Recursion(w, k)}
  <1> HIDE DEF Step
  <1>1. 0 \in T
    <2> DEFINE w == [n \in 0 .. 0 |-> [e \in Elem |-> e]]
    <2>1. Recursion(w, 0)
      OBVIOUS
    <2>2. QED
      BY <2>1
  <1>2. ASSUME NEW k \in Nat, k \in T
        PROVE  k + 1 \in T
    <2>1. PICK w : Recursion(w, k)
      BY <1>2
    <2> DEFINE v == [n \in 0 .. k + 1 |-> IF n = 0 THEN [e \in Elem |-> e] ELSE Step(w[n - 1])]
    <2>2. \A n \in 0 .. k : v[n] = w[n]
      BY <2>1
    <2>3. \A n \in 0 .. k + 1 : n # 0 => n - 1 \in 0 .. k
      OBVIOUS
    <2>4. Recursion(v, k + 1)
      <3>1. \A n \in 0 .. k + 1 : (IF n = 0 THEN [e \in Elem |-> e] ELSE Step(w[n - 1]))
                                      = (IF n = 0 THEN [e \in Elem |-> e] ELSE Step(v[n - 1]))
        <4> HIDE DEF v
        <4>1. QED
          BY <2>2, <2>3
      <3>2. v = [n \in 0 .. k + 1 |-> IF n = 0 THEN [e \in Elem |-> e] ELSE Step(w[n - 1])]
        OBVIOUS
      <3> HIDE DEF v
      <3>3. QED
        BY <3>1, <3>2
    <2> HIDE DEF Recursion
    <2>5. QED
      BY <2>4
  <1> HIDE DEF T
  <1>3. Nat \subseteq T
    BY <1>1, <1>2, Induction
  <1>4. \E w : Recursion(w, N)
    <2> HIDE DEF Recursion
    <2>1. N \in T
      BY <1>3, NAssumption
    <2>2. QED
      BY <2>1 DEF T
  <1>5. Recursion(Climb, N)
    <2>1. Climb = CHOOSE w : Recursion(w, N)
      BY DEF Climb, Step
    <2> HIDE DEF Recursion
    <2>2. QED
      BY <1>4, <2>1
  <1>6. Climb[0] = [e \in Elem |-> e]
    BY <1>5, NAssumption
  <1>7. \A n \in 1 .. N : n \in 0 .. N /\ n # 0
    BY NAssumption
  <1>8. \A n \in 1 .. N : Climb[n] = Step(Climb[n - 1])
    BY <1>5, <1>7
  <1>9. QED
    BY <1>6, <1>8 DEF Step

(* n steps up from an element end in its block, at a root or at a rank of  *)
(* at least n; and no rank reaches N.                                      *)
LEMMA RootsAreRepresentatives ==
  ASSUME IInv, Sized
  PROVE  RootIsRep
  <1> DEFINE Up(n) == \A e \in Elem : /\ Climb[n][e] \in Elem /\ rep[Climb[n][e]] = rep[e]
                                      /\ parent[Climb[n][e]] = Climb[n][e] \/ rank[Climb[n][e]] >= n
             T == {n \in Nat : n <= N => Up(n)}
  <1>1. 0 \in T
    BY Climbing DEF IInv, TypeOK
  <1>2. ASSUME NEW n \in Nat, n \in T
        PROVE  n + 1 \in T
    <2>1. SUFFICES ASSUME n + 1 <= N, NEW e \in Elem
                   PROVE  /\ Climb[n + 1][e] \in Elem /\ rep[Climb[n + 1][e]] = rep[e]
                          /\ \/ parent[Climb[n + 1][e]] = Climb[n + 1][e]
                             \/ rank[Climb[n + 1][e]] >= n + 1
      OBVIOUS
    <2> DEFINE c == Climb[n][e]
    <2>2. c \in Elem /\ rep[c] = rep[e] /\ (parent[c] = c \/ rank[c] >= n)
      BY <1>2, <2>1, NAssumption
    <2>3. Climb[n + 1][e] = parent[c]
      <3>1. n + 1 \in 1 .. N /\ (n + 1) - 1 = n
        BY <2>1, NAssumption
      <3>2. Climb[n + 1] = [f \in Elem |-> parent[Climb[(n + 1) - 1][f]]]
        BY <3>1, Climbing
      <3>3. Climb[n + 1][e] = parent[Climb[(n + 1) - 1][e]]
        BY <3>2
      <3>4. QED
        BY <3>1, <3>3
    <2> HIDE DEF c
    <2>4. parent[c] \in Elem /\ rep[parent[c]] = rep[c]
      BY <2>2 DEF IInv, TypeOK, ForestInv
    <2>5. CASE parent[c] = c
      BY <2>2, <2>3, <2>4, <2>5
    <2>6. CASE parent[c] # c
      <3>1. rank[c] < rank[parent[c]] /\ rank[c] \in Nat /\ rank[parent[c]] \in Nat
        BY <2>2, <2>4, <2>6 DEF IInv, TypeOK, RanksGrow
      <3>2. QED
        BY <2>2, <2>3, <2>4, <2>6, <3>1
    <2>7. QED
      BY <2>5, <2>6
  <1> HIDE DEF T
  <1>3. Nat \subseteq T
    BY <1>1, <1>2, Induction
  <1>4. Up(N)
    BY <1>3, NAssumption DEF T
  <1>5. \A e \in Elem : rank[e] < N
    <2>1. TAKE e \in Elem
    <2>2. /\ rep[e] \in Elem /\ parent[rep[e]] = rep[e] /\ rank[e] <= rank[rep[e]]
          /\ rank[e] \in Nat /\ rank[rep[e]] \in Nat
      BY DEF IInv, TypeOK, Sized
    <2> DEFINE k == rank[rep[e]]
               p == 2 ^ k
               b == Cardinality(Block(rep[e]))
    <2>3. p <= b
      BY <2>2 DEF Sized
    <2>4. k < p /\ p \in Nat
      BY <2>2, Powers
    <2>5. b \in Nat /\ b <= N
      BY BlocksFinite
    <2>6. rank[e] <= k /\ k \in Nat
      BY <2>2
    <2> HIDE DEF k, p, b
    <2>7. QED
      BY <2>2, <2>3, <2>4, <2>5, <2>6, NAssumption
  <1>6. ASSUME NEW e \in Elem
        PROVE  Root(e) = rep[e]
    <2> DEFINE c == Climb[N][e]
    <2>1. c \in Elem /\ rep[c] = rep[e] /\ (parent[c] = c \/ rank[c] >= N)
      BY <1>4
    <2> HIDE DEF c
    <2>2. rank[c] < N /\ rank[c] \in Nat
      BY <1>5, <2>1 DEF IInv, TypeOK
    <2>3. parent[c] = c
      BY <2>1, <2>2, NAssumption
    <2>4. rep[c] = c
      BY <2>1, <2>3 DEF IInv, ForestInv
    <2>5. QED
      BY <2>1, <2>4 DEF Root, c
  <1>7. QED
    BY <1>6 DEF RootIsRep

(* The root of an element is the representative of its block, for any      *)
(* number of nets and after any calls: grouping by root joins what was     *)
(* asked to be joined, and nothing else.                                   *)
THEOREM RootsRepresent == Spec => []RootIsRep
  <1>1. QED
    BY Inductive, SizedInit, SizedNext, RootsAreRepresentatives, PTL DEF Spec

(* A root of rank k has at least 2^k elements under it: no rank reaches    *)
(* the number of nets, and a u8 suffices for fewer than 2^256 of them.     *)
THEOREM RanksAreSmall == Spec => []RankBySize
  <1>1. IInv /\ Sized => RankBySize
    <2>1. SUFFICES ASSUME IInv, Sized, NEW r \in Elem, parent[r] = r
                   PROVE  2 ^ rank[r] <= Cardinality({e \in Elem : Root(e) = r})
      BY DEF RankBySize
    <2>2. {e \in Elem : Root(e) = r} = Block(r)
      BY <2>1, RootsAreRepresentatives DEF RootIsRep, Block
    <2>3. QED
      BY <2>1, <2>2 DEF Sized
  <1>2. QED
    BY <1>1, Inductive, SizedInit, SizedNext, PTL DEF Spec
================================================================================
