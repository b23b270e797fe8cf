----------------------------- MODULE Flatten_proofs -----------------------------
(***************************************************************************)
(* For every document, netlist and arguments: the state of the passes, the *)
(* references of the nets, the instances of the result, the warnings, and  *)
(* what the nets of the result connect.                                    *)
(***************************************************************************)
EXTENDS Flatten, Components_proofs

(* What the passes keep to.  A warning is about an instance that no later  *)
(* pass expands.                                                           *)
Known == Cell \cup {NoCell}
Sound ==
  /\ call \in Calls
  /\ pc \in {"start", "pass", "finish"} \cup Returns
  /\ passes \in 0 .. MaxPasses
  /\ IsFiniteSet(DOMAIN instances) /\ IsFiniteSet(nets)
  /\ pc = "start" => /\ passes = 0 /\ instances = call.base.instances /\ nets = call.base.nets
                     /\ DOMAIN cellOf = {} /\ eligible = {} /\ warned = {}
  /\ pc \in {"pass", "finish"} => DOMAIN cellOf = DOMAIN instances
  /\ \A i \in DOMAIN cellOf : cellOf[i] \in Known
  /\ eligible \subseteq DOMAIN instances
  /\ warned \subseteq DOMAIN instances
  /\ pc \in {"pass", "finish"} => warned \cap ToExpand = {}
--------------------------------------------------------------------------------
LEMMA Resolution ==
  ASSUME NEW inst, NEW map, NEW i, inst.ref \in Known, inst.placed \in Known, IsMap(map)
  PROVE  Resolve(inst, map, i) \in Known
  BY DEF Resolve, Mapped, IsMap, Known

(* What a pass splices in.                                                 *)
LEMMA Expanded ==
  ASSUME Sound, NEW i \in ToExpand
  PROVE  /\ i \in DOMAIN instances /\ cellOf[i] \in Document /\ cellOf[i] \in Cell
         /\ IsNetlist(Sub(i)) /\ IsMap(call.subMaps[cellOf[i]])
  BY FlattenAssumption DEF Sound, ToExpand, Inlinable, Sub, Document

LEMMA InnerIs ==
  ASSUME NEW x \in Inner
  PROVE  /\ x[1] \in ToExpand /\ x[2] \in DOMAIN Sub(x[1]).instances /\ x = <<x[1], x[2]>>
  BY DEF Inner

LEMMA InnerHas ==
  ASSUME NEW i \in ToExpand, NEW j \in DOMAIN Sub(i).instances
  PROVE  <<i, j>> \in Inner
  BY DEF Inner

Added   == {Join(x[1], x[2]) : x \in Inner}
Origin(n) == CHOOSE x \in Inner : Join(x[1], x[2]) = n
CellAt(x) == Resolve(InnerOf(x), SubMap(x), x[2])
InstAt(n) == [ref |-> InnerOf(Origin(n)).ref, placed |-> CellAt(Origin(n)), array |-> InnerOf(Origin(n)).array]

LEMMA OriginIs ==
  ASSUME NEW n \in Added
  PROVE  Origin(n) \in Inner /\ Join(Origin(n)[1], Origin(n)[2]) = n
  BY DEF Added, Origin

LEMMA CellIs ==
  ASSUME Sound, NEW x \in Inner
  PROVE  CellAt(x) \in Known
  <1>1. x[1] \in ToExpand /\ x[2] \in DOMAIN Sub(x[1]).instances
    BY InnerIs
  <1>2. IsNetlist(Sub(x[1])) /\ IsMap(SubMap(x))
    BY <1>1, Expanded DEF SubMap
  <1>3. InnerOf(x).ref \in Known /\ InnerOf(x).placed \in Known
    BY <1>1, <1>2 DEF IsNetlist, InnerOf, Known
  <1>4. QED
    BY <1>2, <1>3, Resolution DEF CellAt

(* The step that expands, its parts named.                                 *)
LEMMA ExpandIs ==
  ASSUME Expand
  PROVE  /\ Pass /\ ~ Collides /\ UNCHANGED call
         /\ instances' = [n \in Surviving \cup Added |-> IF n \in Surviving THEN instances[n] ELSE InstAt(n)]
         /\ cellOf' = [n \in Surviving \cup Added |-> IF n \in Surviving THEN cellOf[n] ELSE CellAt(Origin(n))]
         /\ eligible' = (eligible \ ToExpand) \cup Added
         /\ nets' = {n \in {Merge(P) : P \in Components(Combined, Binds)} : n.members # {}}
         /\ warned' = Reported /\ passes' = passes + 1
         /\ pc' = IF call.recursive THEN "pass" ELSE "finish"
  BY DEF Expand, Spliced, Added, InstAt, CellAt, Origin, Eligible

LEMMA InnerFinite ==
  ASSUME Sound
  PROVE  IsFiniteSet(Added) /\ IsFiniteSet(ToExpand)
  <1>1. IsFiniteSet(ToExpand)
    <2>1. ToExpand \subseteq DOMAIN instances
      BY DEF Sound, ToExpand
    <2>2. QED
      BY <2>1, FS_Subset DEF Sound
  <1> DEFINE names(i) == {Join(i, j) : j \in DOMAIN Sub(i).instances}
             f == [i \in ToExpand |-> names(i)]
  <1>2. \A i \in ToExpand : IsFiniteSet(f[i])
    <2>1. TAKE i \in ToExpand
    <2>2. IsFiniteSet(DOMAIN Sub(i).instances)
      BY Expanded DEF IsNetlist
    <2> DEFINE J == DOMAIN Sub(i).instances
               g == [j \in J |-> Join(i, j)]
    <2>3. f[i] = {g[j] : j \in J}
      OBVIOUS
    <2> HIDE DEF f, g
    <2>4. IsFiniteSet({g[j] : j \in J})
      BY <2>2, Image
    <2>5. QED
      BY <2>3, <2>4
  <1>3. Added = UNION {f[i] : i \in ToExpand}
    <2>1. \A n : n \in Added <=> \E i \in ToExpand : \E j \in DOMAIN Sub(i).instances : n = Join(i, j)
      BY InnerIs, InnerHas DEF Added
    <2>2. \A n : n \in UNION {f[i] : i \in ToExpand}
                   <=> \E i \in ToExpand : \E j \in DOMAIN Sub(i).instances : n = Join(i, j)
      OBVIOUS
    <2>3. QED
      BY <2>1, <2>2
  <1> DEFINE F == {f[i] : i \in ToExpand}
  <1> HIDE DEF f
  <1>4. IsFiniteSet(F)
    BY <1>1, Image
  <1>5. \A T \in F : IsFiniteSet(T)
    BY <1>2
  <1> HIDE DEF F
  <1>6. IsFiniteSet(UNION F)
    BY <1>4, <1>5, FS_UNION
  <1>7. QED
    BY <1>1, <1>3, <1>6 DEF F

LEMMA CombinedFinite ==
  ASSUME Sound
  PROVE  IsFiniteSet(Combined)
  <1>1. IsFiniteSet(ToExpand) /\ IsFiniteSet(nets)
    BY InnerFinite DEF Sound
  <1> DEFINE p == [n \in nets |-> OfParent(n, ToExpand)]
             f == [i \in ToExpand |-> {OfInner(i, n) : n \in Sub(i).nets}]
  <1>2. IsFiniteSet({p[n] : n \in nets})
    <2> HIDE DEF p
    <2>1. QED
      BY <1>1, Image
  <1>3. \A i \in ToExpand : IsFiniteSet(f[i])
    <2>1. TAKE i \in ToExpand
    <2>2. IsFiniteSet(Sub(i).nets)
      BY Expanded DEF IsNetlist
    <2> DEFINE J == Sub(i).nets
               g == [n \in J |-> OfInner(i, n)]
    <2>3. f[i] = {g[n] : n \in J}
      OBVIOUS
    <2> HIDE DEF f, g
    <2>4. IsFiniteSet({g[n] : n \in J})
      BY <2>2, Image
    <2>5. QED
      BY <2>3, <2>4
  <1> DEFINE F == {f[i] : i \in ToExpand}
  <1>4. Combined = {p[n] : n \in nets} \cup UNION F
    <2>1. {p[n] : n \in nets} = {OfParent(n, ToExpand) : n \in nets}
      OBVIOUS
    <2>2. F = {{OfInner(i, n) : n \in Sub(i).nets} : i \in ToExpand}
      OBVIOUS
    <2> HIDE DEF p, F
    <2>3. QED
      BY <2>1, <2>2 DEF Combined
  <1> HIDE DEF p, f
  <1>5. IsFiniteSet(F) /\ \A T \in F : IsFiniteSet(T)
    BY <1>1, <1>3, Image
  <1> HIDE DEF F
  <1>6. IsFiniteSet(UNION F)
    BY <1>5, FS_UNION
  <1>7. QED
    BY <1>2, <1>4, <1>6, FS_Union

(* The nets a pass makes, one from each component of those it combined.    *)
Near == [c \in Combined |-> {d \in Combined : Binds(c, d)}]
LEMMA MadeNets ==
  ASSUME Sound, Expand
  PROVE  /\ IsFiniteSet(nets')
         /\ \A n \in nets' : \E c \in Combined : n = Merge(Reach(Combined, Near, c))
         /\ \A c \in Combined : c.kept # {} => Merge(Reach(Combined, Near, c)) \in nets'
         /\ \A c \in Combined : /\ Reach(Combined, Near, c) \subseteq Combined
                                /\ c \in Reach(Combined, Near, c)
  <1>1. IsFiniteSet(Combined)
    BY CombinedFinite
  <1>2. Near \in [Combined -> SUBSET Combined]
    BY DEF Near
  <1>3. \A c \in Combined : Reach(Combined, Near, c) \subseteq Combined /\ c \in Reach(Combined, Near, c)
    <2> DEFINE S == Combined
    <2>1. IsFiniteSet(S) /\ Near \in [S -> SUBSET S]
      BY <1>1, <1>2
    <2> HIDE DEF S
    <2>2. \A c \in S : Reach(S, Near, c) \in SUBSET S /\ c \in Reach(S, Near, c)
      BY <2>1, ReachIsLeast
    <2>3. QED
      BY <2>2 DEF S
  <1>4. Components(Combined, Binds) = {Reach(Combined, Near, c) : c \in Combined}
    BY DEF Components, Parts, Near
  <1>5. nets' = {n \in {Merge(Reach(Combined, Near, c)) : c \in Combined} : n.members # {}}
    <2>1. {Merge(P) : P \in Components(Combined, Binds)} = {Merge(Reach(Combined, Near, c)) : c \in Combined}
      BY <1>4
    <2>2. QED
      BY <2>1, ExpandIs
  <1>6. IsFiniteSet(nets')
    <2> DEFINE f == [c \in Combined |-> Merge(Reach(Combined, Near, c))]
    <2>1. nets' \subseteq {f[c] : c \in Combined}
      BY <1>5
    <2> HIDE DEF f
    <2>2. IsFiniteSet({f[c] : c \in Combined})
      BY <1>1, Image
    <2>3. QED
      BY <2>1, <2>2, FS_Subset
  <1>7. \A c \in Combined : c.kept # {} => Merge(Reach(Combined, Near, c)).members # {}
    BY <1>3 DEF Merge
  <1>8. QED
    BY <1>3, <1>5, <1>6, <1>7
--------------------------------------------------------------------------------
LEMMA Same ==
  ASSUME UNCHANGED <<call, instances, cellOf, eligible>>
  PROVE  ToExpand' = ToExpand
  BY DEF ToExpand, Inlinable, Selected, Document, Sub

LEMMA Start == Init => Sound /\ NoDangling
  <1> SUFFICES ASSUME Init PROVE Sound /\ NoDangling
    OBVIOUS
  <1>1. IsNetlist(call.base) /\ MaxPasses \in Nat
    BY FlattenAssumption DEF Init
  <1>2. DOMAIN << >> = {}
    OBVIOUS
  <1>3. Sound
    BY <1>1, <1>2 DEF Init, Sound, IsNetlist
  <1>4. NoDangling
    BY <1>1 DEF Init, NoDangling, IsNetlist
  <1>5. QED
    BY <1>3, <1>4

LEMMA ReturnSound ==
  ASSUME Sound, NoDangling, NEW value \in Returns, Return(value)
  PROVE  Sound' /\ NoDangling'
  <1>1. value \notin {"start", "pass", "finish"}
    BY DEF Returns, Errors
  <1>2. QED
    BY <1>1 DEF Return, Sound, NoDangling

LEMMA BeginSound ==
  ASSUME Sound, NoDangling, Begin
  PROVE  Sound' /\ NoDangling'
  <1>1. /\ pc = "start" /\ pc' = "pass" /\ UNCHANGED <<call, passes, instances, nets, warned>>
        /\ cellOf' = [i \in DOMAIN instances |-> Resolve(instances[i], call.map, i)]
        /\ eligible' = Selection
    BY DEF Begin
  <1>2. instances = call.base.instances /\ warned = {} /\ call \in Calls
    BY <1>1 DEF Sound
  <1>3. \A i \in DOMAIN instances : Resolve(instances[i], call.map, i) \in Known
    BY <1>2, FlattenAssumption, Resolution DEF IsNetlist, Known
  <1>4. Sound'
    BY <1>1, <1>2, <1>3 DEF Sound, Selection
  <1>5. QED
    BY <1>1, <1>4 DEF NoDangling

(* A survivor is what it was, and is not expanded by the next pass either. *)
LEMMA Survivors ==
  ASSUME Sound, Expand, NEW i \in Surviving
  PROVE  /\ i \in DOMAIN instances /\ i \notin ToExpand /\ i \notin Added
         /\ instances'[i] = instances[i] /\ cellOf'[i] = cellOf[i]
         /\ i \in eligible' <=> i \in eligible
         /\ i \notin ToExpand'
  <1>1. i \in DOMAIN instances /\ i \notin ToExpand
    BY DEF Surviving
  <1>2. i \notin Added
    BY ExpandIs DEF Added, Collides
  <1>3. instances'[i] = instances[i] /\ cellOf'[i] = cellOf[i]
    BY ExpandIs
  <1>4. i \in eligible' <=> i \in eligible
    BY <1>1, <1>2, ExpandIs
  <1>5. call' = call
    BY ExpandIs
  <1>6. i \notin ToExpand'
    BY <1>1, <1>3, <1>4, <1>5 DEF ToExpand, Inlinable, Selected, Document, Sub
  <1>7. QED
    BY <1>1, <1>2, <1>3, <1>4, <1>6

LEMMA ExpandSound ==
  ASSUME Sound, NoDangling, Expand
  PROVE  Sound' /\ NoDangling'
  <1>1. DOMAIN instances' = Surviving \cup Added /\ DOMAIN cellOf' = Surviving \cup Added
    BY ExpandIs
  <1>2. IsFiniteSet(DOMAIN instances)'
    <2>1. IsFiniteSet(Surviving)
      <3>1. Surviving \subseteq DOMAIN instances
        BY DEF Surviving
      <3>2. QED
        BY <3>1, FS_Subset DEF Sound
    <2>2. IsFiniteSet(Surviving \cup Added)
      BY <2>1, InnerFinite, FS_Union
    <2>3. QED
      BY <1>1, <2>2
  <1>3. pc = "pass" /\ pc' \in {"pass", "finish"} /\ passes' \in 0 .. MaxPasses /\ call' \in Calls
    BY ExpandIs, FlattenAssumption DEF Pass, Sound
  <1>4. \A i \in DOMAIN cellOf' : cellOf'[i] \in Known
    <2>1. TAKE i \in DOMAIN cellOf'
    <2>2. CASE i \in Surviving
      BY <1>3, <2>2, Survivors DEF Sound
    <2>3. CASE i \notin Surviving
      <3>1. i \in Added
        BY <1>1, <2>3
      <3>2. CellAt(Origin(i)) \in Known
        BY <3>1, OriginIs, CellIs
      <3>3. cellOf'[i] = CellAt(Origin(i))
        BY <2>3, <3>1, ExpandIs
      <3>4. QED
        BY <3>2, <3>3
    <2>4. QED
      BY <2>2, <2>3
  <1>5. eligible' \subseteq DOMAIN instances'
    BY <1>1, ExpandIs DEF Sound, Surviving
  <1>6. warned' \subseteq Surviving
    <2>1. warned \subseteq Surviving
      BY <1>3 DEF Sound, Surviving
    <2>2. Skipped \subseteq Surviving
      BY DEF Skipped, Surviving, ToExpand, Sound
    <2>3. QED
      BY <2>1, <2>2, ExpandIs DEF Reported
  <1>7. warned' \cap ToExpand' = {}
    BY <1>6, Survivors
  <1>8. Sound'
    BY <1>1, <1>2, <1>3, <1>4, <1>5, <1>6, <1>7, MadeNets DEF Sound
  <1>9. \A c \in Combined : \A m \in c.kept : m.inst = << >> \/ m.inst \in Surviving \cup Added
    <2>1. TAKE c \in Combined
    <2>2. TAKE m \in c.kept
    <2>3. CASE \E n \in nets : c = OfParent(n, ToExpand)
      <3>1. PICK n \in nets : c = OfParent(n, ToExpand)
        BY <2>3
      <3>2. m \in n.members /\ ~ IsBound(m, ToExpand)
        BY <2>2, <3>1 DEF OfParent
      <3>3. QED
        BY <3>2 DEF NoDangling, IsBound, Surviving
    <2>4. CASE \E i \in ToExpand : \E n \in Sub(i).nets : c = OfInner(i, n)
      <3>1. PICK i \in ToExpand : \E n \in Sub(i).nets : c = OfInner(i, n)
        BY <2>4
      <3>2. PICK n \in Sub(i).nets : c = OfInner(i, n)
        BY <3>1
      <3>3. PICK q \in n.members : q.inst # << >> /\ m = At(q, Join(i, q.inst))
        BY <2>2, <3>2 DEF OfInner
      <3>4. q.inst \in DOMAIN Sub(i).instances
        BY <3>3, Expanded DEF IsNetlist
      <3>5. <<i, q.inst>> \in Inner
        BY <3>4, InnerHas
      <3>6. Join(i, q.inst) \in Added
        BY <3>5 DEF Added
      <3>7. QED
        BY <3>3, <3>6 DEF At
    <2>5. QED
      BY <2>3, <2>4 DEF Combined
  <1>10. NoDangling'
    <2>1. SUFFICES ASSUME NEW n \in nets', NEW m \in n.members
                   PROVE  m.inst = << >> \/ m.inst \in Surviving \cup Added
      BY <1>1 DEF NoDangling
    <2>2. PICK c \in Combined : n = Merge(Reach(Combined, Near, c))
      BY MadeNets
    <2>3. Reach(Combined, Near, c) \subseteq Combined
      BY MadeNets
    <2>4. PICK d \in Reach(Combined, Near, c) : m \in d.kept
      BY <2>2 DEF Merge
    <2>5. QED
      BY <1>9, <2>3, <2>4
  <1>11. QED
    BY <1>8, <1>10

LEMMA NothingLeftSound ==
  ASSUME Sound, NoDangling, NothingLeft
  PROVE  Sound' /\ NoDangling'
  <1>1. /\ pc = "pass" /\ ToExpand = {} /\ warned' = Reported /\ pc' = "finish"
        /\ UNCHANGED <<call, passes, instances, nets, cellOf, eligible>>
    BY DEF NothingLeft, AfterLast
  <1>2. ToExpand' = ToExpand
    BY <1>1, Same
  <1>3. Reported \subseteq DOMAIN instances
    BY DEF Reported, Skipped, Sound
  <1>4. QED
    BY <1>1, <1>2, <1>3 DEF Sound, NoDangling

LEMMA NextSound == Sound /\ NoDangling /\ [Next]_vars => Sound' /\ NoDangling'
  <1> SUFFICES ASSUME Sound, NoDangling, [Next]_vars PROVE Sound' /\ NoDangling'
    OBVIOUS
  <1>1. ASSUME \E value \in Returns : Return(value)
        PROVE  Sound' /\ NoDangling'
    BY <1>1, ReturnSound
  <1>2. CASE RejectDocument \/ RejectBase \/ FailCollision \/ FailConflict
             \/ FailUnconnected \/ FailLimit \/ Finish
    <2>1. \E value \in Returns : Return(value)
      BY <1>2 DEF RejectDocument, RejectBase, FailCollision, FailConflict, FailUnconnected,
                  FailLimit, Finish, Returns, Errors
    <2>2. QED
      BY <1>1, <2>1
  <1>3. CASE Begin \/ Expand \/ NothingLeft
    BY <1>3, BeginSound, ExpandSound, NothingLeftSound
  <1>4. CASE UNCHANGED vars
    <2>1. ToExpand' = ToExpand
      BY <1>4, Same DEF vars
    <2>2. QED
      BY <1>4, <2>1 DEF vars, Sound, NoDangling
  <1>5. QED
    BY <1>2, <1>3, <1>4 DEF Next

(* Every instance that may be expanded or was warned about exists and has  *)
(* a cell, after every pass, although names are replaced in each.          *)
THEOREM Typing == Spec => []TypeOK
  <1>1. Sound => TypeOK
    BY DEF Sound, TypeOK, Known
  <1>2. QED
    BY Start, NextSound, <1>1, PTL DEF Spec

(* No pass leaves a net on an instance that it has replaced.               *)
THEOREM NetsReferToInstances == Spec => []NoDangling
  <1>1. QED
    BY Start, NextSound, PTL DEF Spec
--------------------------------------------------------------------------------
(* The recursion that unfolds the hierarchy, level by level.               *)
LEMMA Levels ==
  /\ Depth \in Nat /\ Level[1] = Top
  /\ \A n \in 1 .. Depth : Level[n + 1] = Contents(Level[n])
  <1> DEFINE Recursion(w, k) == w = [n \in 1 .. k |-> IF n = 1 THEN Top ELSE Contents(w[n - 1])]
             T == {k \in Nat : \E w : Recursion(w, k)}
  <1>1. Depth \in Nat
    BY FlattenAssumption DEF Depth
  <1>2. 0 \in T
    <2>1. Recursion([n \in 1 .. 0 |-> Top], 0)
      OBVIOUS
    <2>2. QED
      BY <2>1
  <1>3. ASSUME NEW k \in Nat, k \in T
        PROVE  k + 1 \in T
    <2>1. PICK w : w = [n \in 1 .. k |-> IF n = 1 THEN Top ELSE Contents(w[n - 1])]
      BY <1>3
    <2> DEFINE v == [n \in 1 .. k + 1 |-> IF n = 1 THEN Top ELSE Contents(w[n - 1])]
    <2>2. \A n \in 1 .. k : v[n] = w[n]
      BY <2>1
    <2>3. \A n \in 1 .. k + 1 : n # 1 => n - 1 \in 1 .. k
      OBVIOUS
    <2>4. Recursion(v, k + 1)
      <3>1. \A n \in 1 .. k + 1 : (IF n = 1 THEN Top ELSE Contents(w[n - 1]))
                                      = (IF n = 1 THEN Top ELSE Contents(v[n - 1]))
        <4> HIDE DEF v
        <4>1. QED
          BY <2>2, <2>3
      <3>2. v = [n \in 1 .. k + 1 |-> IF n = 1 THEN Top ELSE Contents(w[n - 1])]
        OBVIOUS
      <3> HIDE DEF v
      <3>3. QED
        BY <3>1, <3>2
    <2> HIDE DEF Recursion
    <2>5. QED
      BY <2>4
  <1> HIDE DEF T
  <1>4. Nat \subseteq T
    BY <1>2, <1>3, Induction
  <1>5. \E w : Recursion(w, Depth + 1)
    <2> HIDE DEF Recursion
    <2>1. Depth + 1 \in T
      BY <1>1, <1>4
    <2>2. QED
      BY <2>1 DEF T
  <1>6. Recursion(Level, Depth + 1)
    <2>1. Level = CHOOSE w : Recursion(w, Depth + 1)
      BY DEF Level
    <2> HIDE DEF Recursion
    <2>2. QED
      BY <1>5, <2>1
  <1>7. \A n \in 1 .. Depth + 1 : Level[n] = IF n = 1 THEN Top ELSE Contents(Level[n - 1])
    BY <1>6
  <1>8. \A n \in 1 .. Depth : n + 1 \in 1 .. Depth + 1 /\ n + 1 # 1 /\ (n + 1) - 1 = n
    BY <1>1
  <1>9. Level[1] = Top
    BY <1>1, <1>7
  <1>10. ASSUME NEW n \in 1 .. Depth
         PROVE  Level[n + 1] = Contents(Level[n])
    <2>1. Level[n + 1] = Contents(Level[(n + 1) - 1])
      BY <1>7, <1>8
    <2>2. QED
      BY <1>8, <2>1
  <1>11. QED
    BY <1>1, <1>9, <1>10

LEMMA Unfolding ==
  ASSUME call' = call
  PROVE  /\ Level' = Level /\ Depth' = Depth
         /\ \A o : Unfolds(o)' <=> Unfolds(o)
         /\ \A n : Alive(n)' = Alive(n)
  <1>1. Level' = Level
    BY DEF Level, Top, Contents, Below, Child, Unfolds, Selected, Document, Resolve, Depth, Mapped
  <1>2. \A o : Unfolds(o)' <=> Unfolds(o)
    BY DEF Unfolds, Selected, Document
  <1>3. \A n : Alive(n)' = Alive(n)
    BY <1>1, <1>2 DEF Alive
  <1>4. QED
    BY <1>1, <1>2, <1>3 DEF Depth

LEMMA AliveAgain ==
  ASSUME NEW n \in 1 .. Depth
  PROVE  /\ Alive(n + 1) = Contents(Level[n]) \cup {o \in Alive(n) : ~ Unfolds(o)}
         /\ \A o \in Alive(n) : Unfolds(o) => o \in Level[n]
         /\ Level[n] \subseteq Alive(n)
  <1>1. Level[n + 1] = Contents(Level[n]) /\ Depth \in Nat
    BY Levels
  <1>2. 1 .. (n + 1) - 1 = (1 .. n - 1) \cup {n}
    BY <1>1
  <1>3. \A o : o \in UNION {Level[l] : l \in 1 .. (n + 1) - 1}
                <=> o \in Level[n] \/ o \in UNION {Level[l] : l \in 1 .. n - 1}
    <2>1. \A S, T : S = T \cup {n} => \A o : o \in UNION {Level[l] : l \in S}
                                            <=> o \in Level[n] \/ o \in UNION {Level[l] : l \in T}
      OBVIOUS
    <2>2. QED
      BY <1>2, <2>1
  <1>4. QED
    BY <1>1, <1>3 DEF Alive
--------------------------------------------------------------------------------
(* After n passes the instances are what stands side by side when n levels *)
(* have been unfolded, each once; and when the passes are over, they have  *)
(* unfolded every level that there is.                                     *)
Running == {"pass", "finish", "done"}
Stands(o) ==
  /\ o.name \in DOMAIN instances
  /\ instances[o.name].ref = o.inst.ref /\ instances[o.name].array = o.inst.array
  /\ cellOf[o.name] = o.cell
  /\ o.name \in eligible <=> o.free
Now == Alive(passes + 1)
Mirror ==
  /\ passes <= Depth
  /\ pc = "pass" /\ ~ call.recursive => passes = 0
  /\ DOMAIN instances = {o.name : o \in Now}
  /\ \A o, p \in Now : o.name = p.name => o = p
  /\ \A o \in Now : Stands(o)
  /\ pc \in {"finish", "done"} =>
        passes = Depth \/ (passes < Depth /\ \A o \in Now : ~ Unfolds(o))
Mirrored == pc \in Running => Mirror

(* The instances a pass expands are the occurrences that unfold.           *)
LEMMA Unfolders ==
  ASSUME Sound, pc \in {"pass", "finish"}, NEW o, Stands(o)
  PROVE  o.name \in ToExpand <=> Unfolds(o)
  <1>1. NoCell \notin Document
    BY FlattenAssumption DEF Sound, Document
  <1>2. QED
    BY <1>1 DEF Stands, ToExpand, Unfolds, Inlinable, Sub

TopAt(i) == [path |-> <<i>>, name |-> i, inst |-> call.base.instances[i],
             cell |-> Resolve(call.base.instances[i], call.map, i),
             free |-> call.map = NoMap \/ i \in DOMAIN call.map]
LEMMA TopIs ==
  /\ Top = {TopAt(i) : i \in DOMAIN call.base.instances}
  /\ \A i : /\ TopAt(i).name = i /\ TopAt(i).inst = call.base.instances[i]
            /\ TopAt(i).cell = Resolve(call.base.instances[i], call.map, i)
            /\ TopAt(i).free <=> call.map = NoMap \/ i \in DOMAIN call.map
  <1>1. Top = {TopAt(i) : i \in DOMAIN call.base.instances}
    BY DEF Top, TopAt
  <1>2. \A i : TopAt(i).name = i /\ TopAt(i).inst = call.base.instances[i]
    BY DEF TopAt
  <1>3. \A i : TopAt(i).cell = Resolve(call.base.instances[i], call.map, i)
    BY DEF TopAt
  <1>4. \A i : TopAt(i).free <=> call.map = NoMap \/ i \in DOMAIN call.map
    BY Zenon DEF TopAt
  <1>5. QED
    BY <1>1, <1>2, <1>3, <1>4

LEMMA BeginMirrors ==
  ASSUME Sound, Begin
  PROVE  Mirror'
  <1>1. /\ pc = "start" /\ pc' = "pass" /\ UNCHANGED <<call, passes, instances, nets, warned>>
        /\ cellOf' = [i \in DOMAIN instances |-> Resolve(instances[i], call.map, i)]
        /\ eligible' = Selection
    BY DEF Begin
  <1>2. instances = call.base.instances /\ passes = 0
    BY <1>1 DEF Sound
  <1>3. Alive(1) = Top
    <2>1. 1 .. 1 - 1 = {}
      OBVIOUS
    <2>2. Level[1] = Top
      BY Levels
    <2>3. QED
      BY <2>1, <2>2 DEF Alive
  <1>4. Now' = Top
    <2>1. passes' + 1 = 1
      BY <1>1, <1>2
    <2>2. Now' = Alive(1)
      BY <1>1, <2>1, Unfolding DEF Now
    <2>3. QED
      BY <1>3, <2>2
  <1>5. \A o \in Top : Stands(o)'
    <2>1. TAKE o \in Top
    <2>2. PICK i \in DOMAIN call.base.instances : o = TopAt(i)
      BY TopIs
    <2> HIDE DEF TopAt
    <2>3. i \in eligible' <=> call.map = NoMap \/ i \in DOMAIN call.map
      BY <1>1, <1>2 DEF Selection
    <2>4. QED
      BY <1>1, <1>2, <2>2, <2>3, TopIs DEF Stands
  <1>6. \A o, p \in Top : o.name = p.name => o = p
    BY TopIs
  <1>7. {o.name : o \in Top} = DOMAIN call.base.instances
    <2>1. \A i \in DOMAIN call.base.instances : \E o \in Top : o.name = i
      BY TopIs
    <2>2. \A o \in Top : o.name \in DOMAIN call.base.instances
      BY TopIs
    <2>3. QED
      BY <2>1, <2>2
  <1>8. Depth' = Depth /\ Depth \in Nat
    BY <1>1, Unfolding, Levels
  <1>9. QED
    BY <1>1, <1>2, <1>4, <1>5, <1>6, <1>7, <1>8 DEF Mirror

LEMMA ChildIs ==
  ASSUME NEW o, NEW j
  PROVE  /\ Child(o, j).name = Join(o.name, j)
         /\ Child(o, j).inst = call.subs[o.cell].instances[j]
         /\ Child(o, j).cell = Resolve(call.subs[o.cell].instances[j], call.subMaps[o.cell], j)
         /\ Child(o, j).free
  <1>1. Child(o, j).name = Join(o.name, j)
    BY DEF Child
  <1>2. Child(o, j).inst = call.subs[o.cell].instances[j]
    BY DEF Child
  <1>3. Child(o, j).cell = Resolve(call.subs[o.cell].instances[j], call.subMaps[o.cell], j)
    BY DEF Child
  <1>4. Child(o, j).free
    BY Zenon DEF Child
  <1>5. QED
    BY <1>1, <1>2, <1>3, <1>4

LEMMA ContentsAre ==
  ASSUME NEW level
  PROVE  \A o : o \in Contents(level) <=>
           \E q \in level : Unfolds(q) /\ \E j \in DOMAIN call.subs[q.cell].instances : o = Child(q, j)
  BY DEF Contents, Below

(* One pass, seen from an occurrence: those that unfold give way to what   *)
(* their cells contain, under the name the pass gives it.                  *)
LEMMA PassUnfolds ==
  ASSUME Sound, Mirror, Pass
  PROVE  LET n == passes + 1 IN
         /\ n \in 1 .. Depth
         /\ Alive(n + 1) = Contents(Level[n]) \cup {o \in Now : ~ Unfolds(o)}
         /\ \A o \in Contents(Level[n]) :
              \E q \in Now : /\ Unfolds(q) /\ q.name \in ToExpand
                            /\ \E j \in DOMAIN Sub(q.name).instances :
                                 /\ <<q.name, j>> \in Inner /\ o = Child(q, j)
                                 /\ cellOf[q.name] = q.cell
         /\ \A x \in Inner :
              \E q \in Now : /\ q.name = x[1] /\ Unfolds(q) /\ q \in Level[n]
                            /\ x[2] \in DOMAIN call.subs[q.cell].instances
                            /\ Child(q, x[2]) \in Contents(Level[n])
         /\ \A o \in Now : o.name \in Surviving <=> ~ Unfolds(o)
  <1> DEFINE n == passes + 1
  <1>1. pc = "pass" /\ passes < MaxPasses /\ passes \in Nat /\ MaxPasses \in Nat
    BY FlattenAssumption DEF Pass, Sound
  <1>2. n \in 1 .. Depth
    BY <1>1 DEF Mirror, Depth
  <1>3. /\ Alive(n + 1) = Contents(Level[n]) \cup {o \in Now : ~ Unfolds(o)}
        /\ \A o \in Now : Unfolds(o) => o \in Level[n]
        /\ Level[n] \subseteq Now
    <2> HIDE DEF n
    <2>1. Now = Alive(n)
      BY DEF Now, n
    <2>2. QED
      BY <1>2, <2>1, AliveAgain
  <1>4. \A o \in Now : Stands(o) /\ (o.name \in ToExpand <=> Unfolds(o))
    BY <1>1, Unfolders DEF Mirror
  <1>5. \A o \in Now : o.name \in Surviving <=> ~ Unfolds(o)
    BY <1>4 DEF Surviving, Stands
  <1> HIDE DEF n
  <1>6. ASSUME NEW o \in Contents(Level[n])
        PROVE  \E q \in Now : /\ Unfolds(q) /\ q.name \in ToExpand
                             /\ \E j \in DOMAIN Sub(q.name).instances :
                                  /\ <<q.name, j>> \in Inner /\ o = Child(q, j)
                                  /\ cellOf[q.name] = q.cell
    <2>1. PICK q \in Level[n] : Unfolds(q) /\ \E j \in DOMAIN call.subs[q.cell].instances : o = Child(q, j)
      BY ContentsAre
    <2>2. q \in Now /\ q.name \in ToExpand /\ cellOf[q.name] = q.cell
      BY <1>3, <1>4, <2>1 DEF Stands
    <2>3. Sub(q.name) = call.subs[q.cell]
      BY <2>2 DEF Sub
    <2>4. PICK j \in DOMAIN Sub(q.name).instances : o = Child(q, j)
      BY <2>1, <2>3
    <2>5. <<q.name, j>> \in Inner
      BY <2>2, InnerHas
    <2>6. QED
      BY <2>1, <2>2, <2>4, <2>5
  <1>7. ASSUME NEW x \in Inner
        PROVE  \E q \in Now : /\ q.name = x[1] /\ Unfolds(q) /\ q \in Level[n]
                             /\ x[2] \in DOMAIN call.subs[q.cell].instances
                             /\ Child(q, x[2]) \in Contents(Level[n])
    <2>1. x[1] \in ToExpand /\ x[2] \in DOMAIN Sub(x[1]).instances
      BY InnerIs
    <2>2. x[1] \in DOMAIN instances
      BY <2>1, Expanded
    <2>3. PICK q \in Now : q.name = x[1]
      BY <2>2 DEF Mirror
    <2>4. Unfolds(q) /\ cellOf[q.name] = q.cell
      BY <1>4, <2>1, <2>3 DEF Stands
    <2>5. x[2] \in DOMAIN call.subs[q.cell].instances
      BY <2>1, <2>3, <2>4 DEF Sub
    <2>6. Child(q, x[2]) \in Contents(Level[n])
      BY <1>3, <2>4, <2>5, ContentsAre
    <2>7. QED
      BY <1>3, <2>3, <2>4, <2>5, <2>6
  <1>8. QED
    BY <1>2, <1>3, <1>5, <1>6, <1>7 DEF n

LEMMA ExpandMirrors ==
  ASSUME Sound, Mirror, Expand
  PROVE  Mirror'
  <1> DEFINE n == passes + 1
             New == Contents(Level[n])
             Stay == {o \in Now : ~ Unfolds(o)}
  <1> Pass
    BY ExpandIs
  <1>1. passes' = n /\ call' = call /\ n \in 1 .. Depth /\ Depth \in Nat
    BY ExpandIs, PassUnfolds, Levels
  <1>2. Now' = New \cup Stay
    <2>1. Now' = Alive(n + 1)
      BY <1>1, Unfolding DEF Now
    <2>2. Alive(n + 1) = New \cup Stay
      BY PassUnfolds
    <2>3. QED
      BY <2>1, <2>2
  <1>3. \A o \in Stay : o \in Now /\ o.name \in Surviving /\ Stands(o)
    BY PassUnfolds DEF Mirror
  <1>4. \A x, y \in Inner : Join(x[1], x[2]) = Join(y[1], y[2]) => x = y
    BY ExpandIs DEF Collides
  <1> DEFINE Comes(o, q, j) == /\ q \in Now /\ Unfolds(q) /\ q.name \in ToExpand
                               /\ j \in DOMAIN Sub(q.name).instances
                               /\ <<q.name, j>> \in Inner /\ o = Child(q, j)
                               /\ cellOf[q.name] = q.cell
  <1>5. \A o \in New : \E q, j : Comes(o, q, j)
    BY PassUnfolds
  <1>6. ASSUME NEW o, NEW q, NEW j, Comes(o, q, j)
        PROVE  /\ o.name = Join(q.name, j) /\ o.name \in Added /\ Origin(o.name) = <<q.name, j>>
               /\ o.inst = InnerOf(<<q.name, j>>) /\ o.cell = CellAt(<<q.name, j>>) /\ o.free
    <2>1. o.name = Join(q.name, j) /\ o.free
      BY <1>6, ChildIs
    <2>2. o.name \in Added
      BY <1>6, <2>1 DEF Added
    <2>3. Origin(o.name) \in Inner /\ Join(Origin(o.name)[1], Origin(o.name)[2]) = o.name
      BY <2>2, OriginIs
    <2>4. Origin(o.name) = <<q.name, j>>
      BY <1>4, <1>6, <2>1, <2>3
    <2>5. o.inst = call.subs[q.cell].instances[j] /\ Sub(q.name) = call.subs[q.cell]
      BY <1>6, ChildIs DEF Sub
    <2>6. o.cell = Resolve(call.subs[q.cell].instances[j], call.subMaps[q.cell], j)
      BY <1>6, ChildIs
    <2>7. QED
      BY <1>6, <2>1, <2>2, <2>4, <2>5, <2>6 DEF InnerOf, CellAt, SubMap
  <1> HIDE DEF Comes
  <1>7. \A o \in New : o.name \in Added /\ o.name \notin Surviving
    BY <1>5, <1>6, Survivors
  <1>8. DOMAIN instances' = {o.name : o \in New \cup Stay}
    <2>1. DOMAIN instances' = Surviving \cup Added
      BY ExpandIs
    <2>2. \A i \in Surviving : \E o \in Stay : o.name = i
      <3>1. TAKE i \in Surviving
      <3>2. i \in DOMAIN instances
        BY DEF Surviving
      <3>3. PICK o \in Now : o.name = i
        BY <3>2 DEF Mirror
      <3>4. QED
        BY <3>3, PassUnfolds
    <2>3. \A i \in Added : \E o \in New : o.name = i
      <3>1. TAKE i \in Added
      <3>2. PICK x \in Inner : i = Join(x[1], x[2])
        BY DEF Added
      <3>3. PICK q \in Now : q.name = x[1] /\ Child(q, x[2]) \in New
        BY PassUnfolds
      <3>4. QED
        BY <3>2, <3>3, ChildIs
    <2> HIDE DEF New, Stay
    <2>4. QED
      BY <1>3, <1>7, <2>1, <2>2, <2>3
  <1>9. ASSUME NEW o \in New \cup Stay, NEW p \in New \cup Stay, o.name = p.name
        PROVE  o = p
    <2>1. CASE o \in Stay /\ p \in Stay
      BY <1>9, <2>1 DEF Mirror
    <2>2. CASE o \in New /\ p \in New
      <3>1. PICK q, j : Comes(o, q, j)
        BY <1>5, <2>2
      <3>2. PICK r, k : Comes(p, r, k)
        BY <1>5, <2>2
      <3> HIDE DEF New, Stay
      <3>3. Origin(o.name) = <<q.name, j>>
        BY <1>6, <3>1
      <3>4. Origin(p.name) = <<r.name, k>>
        BY <1>6, <3>2
      <3>5. <<q.name, j>> = <<r.name, k>>
        BY <1>9, <3>3, <3>4
      <3>6. q.name = r.name /\ j = k
        BY <3>5
      <3>7. q = r
        BY <3>1, <3>2, <3>6 DEF Comes, Mirror
      <3>8. QED
        BY <3>1, <3>2, <3>6, <3>7 DEF Comes
    <2> HIDE DEF New, Stay
    <2>3. QED
      BY <1>3, <1>7, <1>9, <2>1, <2>2
  <1>10. ASSUME NEW o \in Stay
         PROVE  Stands(o)'
    <2>1. Stands(o) /\ o.name \in Surviving
      BY <1>3
    <2>2. instances'[o.name] = instances[o.name] /\ cellOf'[o.name] = cellOf[o.name]
          /\ (o.name \in eligible' <=> o.name \in eligible)
      BY <2>1, Survivors
    <2>3. o.name \in DOMAIN instances'
      BY <2>1, ExpandIs
    <2>4. QED
      BY <2>1, <2>2, <2>3 DEF Stands
  <1>11. ASSUME NEW o \in New
         PROVE  Stands(o)'
    <2>1. PICK q, j : Comes(o, q, j)
      BY <1>5
    <2>2. /\ o.name \in Added /\ Origin(o.name) = <<q.name, j>> /\ o.free
          /\ o.inst = InnerOf(<<q.name, j>>) /\ o.cell = CellAt(<<q.name, j>>)
      BY <1>6, <2>1
    <2>3. o.name \notin Surviving
      BY <1>7
    <2>4. o.name \in DOMAIN instances' /\ instances'[o.name] = InstAt(o.name)
          /\ cellOf'[o.name] = CellAt(Origin(o.name)) /\ o.name \in eligible'
      BY <2>2, <2>3, ExpandIs
    <2>5. InstAt(o.name).ref = o.inst.ref /\ InstAt(o.name).array = o.inst.array
      BY <2>2 DEF InstAt
    <2>6. QED
      BY <2>2, <2>4, <2>5 DEF Stands
  <1>12. Depth' = Depth /\ (passes \in Nat)
    BY <1>1, Unfolding DEF Sound
  <1>13. /\ pc' = "pass" /\ ~ call'.recursive => passes' = 0
         /\ pc' \in {"finish", "done"} => passes' = Depth'
    <2>1. pc' = IF call.recursive THEN "pass" ELSE "finish"
      BY ExpandIs
    <2>2. pc = "pass"
      BY ExpandIs DEF Pass
    <2>3. ~ call.recursive => passes' = 1 /\ Depth = 1
      BY <1>1, <2>2 DEF Mirror, Depth
    <2>4. QED
      BY <1>1, <1>12, <2>1, <2>3
  <1> HIDE DEF New, Stay
  <1>14. \A o \in Now' : Stands(o)'
    BY <1>2, <1>10, <1>11
  <1>15. passes' <= Depth'
    BY <1>1, <1>12
  <1>16. DOMAIN instances' = {o.name : o \in Now'}
    BY <1>2, <1>8
  <1>17. \A o, p \in Now' : o.name = p.name => o = p
    BY <1>2, <1>9
  <1>18. QED
    BY <1>13, <1>14, <1>15, <1>16, <1>17 DEF Mirror

(* When the passes end, no level is left to unfold.                        *)
LEMMA NothingChanges ==
  ASSUME Sound, Mirror, \A o \in Now : ~ Unfolds(o)
  PROVE  \A l \in passes + 1 .. Depth + 1 : Alive(l) = Now
  <1> DEFINE k == passes + 1
             T == {l \in Nat : k + l <= Depth + 1 => Alive(k + l) = Now}
  <1>1. Depth \in Nat /\ passes \in Nat /\ k + 0 = k
    BY Levels, FlattenAssumption DEF Sound
  <1>2. 0 \in T
    BY <1>1 DEF Now
  <1>3. ASSUME NEW l \in Nat, l \in T
        PROVE  l + 1 \in T
    <2>1. SUFFICES ASSUME k + (l + 1) <= Depth + 1
                   PROVE  Alive(k + (l + 1)) = Now
      OBVIOUS
    <2>2. k + l \in 1 .. Depth /\ k + (l + 1) = (k + l) + 1 /\ k + l <= Depth + 1
      BY <1>1, <2>1
    <2>3. Alive(k + l) = Now
      BY <1>3, <2>2
    <2>4. /\ Alive((k + l) + 1) = Contents(Level[k + l]) \cup {o \in Alive(k + l) : ~ Unfolds(o)}
          /\ Level[k + l] \subseteq Alive(k + l)
      BY <2>2, AliveAgain
    <2>5. Contents(Level[k + l]) = {}
      BY <2>3, <2>4, ContentsAre
    <2>6. Alive((k + l) + 1) = {o \in Now : ~ Unfolds(o)}
      BY <2>3, <2>4, <2>5
    <2>7. {o \in Now : ~ Unfolds(o)} = Now
      OBVIOUS
    <2>8. QED
      BY <2>2, <2>6, <2>7
  <1> HIDE DEF T
  <1>4. Nat \subseteq T
    BY <1>2, <1>3, Induction
  <1>5. ASSUME NEW l \in passes + 1 .. Depth + 1
        PROVE  Alive(l) = Now
    <2>1. l - k \in Nat /\ k + (l - k) = l /\ l <= Depth + 1
      BY <1>1
    <2>2. l - k \in T
      BY <1>4, <2>1
    <2>3. QED
      BY <2>1, <2>2 DEF T
  <1>6. QED
    BY <1>5

LEMMA AllUnfolded ==
  ASSUME Sound, Mirror, pc \in {"finish", "done"}
  PROVE  /\ Now = Leaves
         /\ \A k \in 1 .. Depth : \A o \in Level[k] : Unfolds(o) => k <= passes
  <1>1. Depth \in Nat /\ passes \in Nat /\ passes <= Depth
    BY Levels, FlattenAssumption DEF Sound, Mirror
  <1>2. CASE passes = Depth
    BY <1>1, <1>2 DEF Now, Leaves
  <1>3. CASE passes < Depth /\ \A o \in Now : ~ Unfolds(o)
    <2>1. \A l \in passes + 1 .. Depth + 1 : Alive(l) = Now
      BY <1>3, NothingChanges
    <2>2. Depth + 1 \in passes + 1 .. Depth + 1
      BY <1>1
    <2>3. ASSUME NEW k \in 1 .. Depth, NEW o \in Level[k], Unfolds(o)
          PROVE  k <= passes
      <3>1. k > passes => k \in passes + 1 .. Depth + 1
        BY <1>1
      <3>2. o \in Alive(k)
        BY AliveAgain
      <3>3. QED
        BY <1>1, <1>3, <2>1, <2>3, <3>1, <3>2
    <2>4. QED
      BY <2>1, <2>2, <2>3 DEF Leaves
  <1>4. QED
    BY <1>2, <1>3 DEF Mirror

(* What warn_skipped has reported so far.                                  *)
Asked(o) == o.free /\ (o.cell = NoCell \/ Selected(o.cell))
Reports ==
  /\ \A i \in warned : call.warn /\ \E o \in Now : o.name = i /\ Asked(o) /\ ~ Unfolds(o)
  /\ pc \in {"finish", "done"} /\ call.warn /\ call.recursive =>
       \A o \in Now : Asked(o) => o.name \in warned
Faithful == pc \in Running => Mirror /\ Reports

LEMMA SkippedAre ==
  ASSUME Sound, pc \in {"pass", "finish"}, NEW o, Stands(o)
  PROVE  o.name \in Skipped <=> Asked(o) /\ ~ Unfolds(o)
  <1>1. NoCell \notin Document
    BY FlattenAssumption DEF Sound, Document
  <1>2. QED
    BY <1>1 DEF Stands, Skipped, Asked, Unfolds, Inlinable, Sub

LEMMA ReportedAre ==
  ASSUME Sound, pc = "pass", Mirror, Reports
  PROVE  /\ \A i \in Reported : call.warn /\ \E o \in Now : o.name = i /\ Asked(o) /\ ~ Unfolds(o)
         /\ call.warn => \A o \in Now : Asked(o) /\ ~ Unfolds(o) => o.name \in Reported
  <1>1. \A o \in Now : o.name \in Skipped <=> Asked(o) /\ ~ Unfolds(o)
    BY SkippedAre DEF Mirror
  <1>2. \A i \in Skipped : \E o \in Now : o.name = i
    <2>1. Skipped \subseteq DOMAIN instances
      BY DEF Skipped, Sound
    <2>2. QED
      BY <2>1 DEF Mirror
  <1>3. QED
    BY <1>1, <1>2 DEF Reported, Reports

LEMMA FaithfulNext == Sound /\ Faithful /\ [Next]_vars => Faithful'
  <1> SUFFICES ASSUME Sound, Faithful, [Next]_vars, pc' \in Running
               PROVE  Mirror' /\ Reports'
    BY DEF Faithful
  <1> USE DEF Running
  <1>1. ASSUME UNCHANGED <<call, passes, instances, nets, cellOf, eligible>>
        PROVE  /\ Now' = Now /\ Depth' = Depth
               /\ \A o : /\ Unfolds(o)' <=> Unfolds(o)
                         /\ Asked(o)' <=> Asked(o)
                         /\ Stands(o)' <=> Stands(o)
    <2>1. Now' = Now /\ Depth' = Depth /\ \A o : Unfolds(o)' <=> Unfolds(o)
      BY <1>1, Unfolding DEF Now
    <2>2. \A o : Asked(o)' <=> Asked(o)
      BY <1>1 DEF Asked, Selected
    <2>3. \A o : Stands(o)' <=> Stands(o)
      BY <1>1 DEF Stands
    <2>4. QED
      BY <2>1, <2>2, <2>3
  <1>2. CASE Begin
    <2>1. pc = "start" /\ warned' = warned /\ pc' = "pass"
      BY <1>2 DEF Begin
    <2>2. Reports'
      BY <2>1 DEF Reports, Sound
    <2>3. QED
      BY <1>2, <2>2, BeginMirrors
  <1>3. CASE Expand
    <2>1. Pass /\ pc = "pass" /\ Mirror /\ Reports
      BY <1>3, ExpandIs DEF Pass, Faithful
    <2>2. Mirror'
      BY <1>3, <2>1, ExpandMirrors
    <2>3. call' = call /\ warned' = Reported
          /\ pc' = IF call.recursive THEN "pass" ELSE "finish"
      BY <1>3, ExpandIs
    <2>4. \A o \in Now : ~ Unfolds(o) => o \in Now'
      <3>1. Alive((passes + 1) + 1) = Contents(Level[passes + 1]) \cup {o \in Now : ~ Unfolds(o)}
        BY <1>3, <2>1, PassUnfolds
      <3>2. Now' = Alive((passes + 1) + 1)
        BY <1>3, <2>3, ExpandIs, Unfolding DEF Now
      <3>3. QED
        BY <3>1, <3>2
    <2>5. \A o : (Unfolds(o)' <=> Unfolds(o)) /\ (Asked(o)' <=> Asked(o))
      BY <2>3, Unfolding DEF Asked, Selected
    <2>6. ASSUME NEW i \in warned'
          PROVE  call.warn /\ \E o \in Now' : o.name = i /\ Asked(o)' /\ ~ Unfolds(o)'
      <3>1. PICK o \in Now : o.name = i /\ Asked(o) /\ ~ Unfolds(o)
        BY <2>1, <2>3, <2>6, ReportedAre
      <3>2. call.warn
        BY <2>1, <2>3, <2>6, ReportedAre
      <3>3. QED
        BY <2>4, <2>5, <3>1, <3>2
    <2>7. Reports'
      BY <2>3, <2>6 DEF Reports
    <2>8. QED
      BY <2>2, <2>7
  <1>4. CASE NothingLeft
    <2>1. /\ pc = "pass" /\ passes < MaxPasses /\ ToExpand = {} /\ warned' = Reported /\ pc' = "finish"
          /\ UNCHANGED <<call, passes, instances, nets, cellOf, eligible>>
      BY <1>4 DEF NothingLeft, AfterLast
    <2>2. Mirror /\ Reports
      BY <2>1 DEF Faithful
    <2>3. \A o \in Now : ~ Unfolds(o)
      BY <2>1, <2>2, Unfolders DEF Mirror
    <2>4. passes < Depth
      BY <2>1, <2>2 DEF Mirror, Depth
    <2>5. Mirror'
      BY <1>1, <2>1, <2>2, <2>3, <2>4 DEF Mirror
    <2>6. Reports'
      BY <1>1, <2>1, <2>2, <2>3, ReportedAre DEF Reports
    <2>7. QED
      BY <2>5, <2>6
  <1>5. CASE Finish
    <2>1. pc = "finish" /\ pc' = "done" /\ UNCHANGED <<call, passes, instances, nets, cellOf, eligible, warned>>
      BY <1>5 DEF Finish, Return
    <2>2. Mirror /\ Reports
      BY <2>1 DEF Faithful
    <2>3. Mirror' /\ Reports'
      BY <1>1, <2>1, <2>2 DEF Mirror, Reports
    <2>4. QED
      BY <2>3
  <1>6. CASE UNCHANGED vars
    <2>1. Mirror /\ Reports
      BY <1>6 DEF Faithful, vars
    <2>2. QED
      BY <1>1, <1>6, <2>1 DEF Mirror, Reports, vars
  <1>7. CASE RejectDocument \/ RejectBase \/ FailCollision \/ FailConflict
             \/ FailUnconnected \/ FailLimit
    <2>1. pc' \in {"missing", "cyclic", "conflict", "collision", "unconnected", "limit"}
      BY <1>7 DEF RejectDocument, RejectBase, FailCollision, FailConflict, FailUnconnected, FailLimit, Return
    <2>2. QED
      BY <2>1
  <1>8. QED
    BY <1>2, <1>3, <1>4, <1>5, <1>6, <1>7 DEF Next

(* Faithful holds of every behaviour.                                      *)
THEOREM Unrolled == Spec => []Faithful
  <1>1. Init => Faithful
    BY DEF Init, Faithful, Running
  <1>2. QED
    BY <1>1, Start, NextSound, FaithfulNext, PTL DEF Spec

(* The result has exactly the leaves of the unfolding, under the names and *)
(* with the cells they have there, whatever the document and the filters:  *)
(* no pass loses an instance or gives two of them one name.                *)
THEOREM ResultIsUnfolding == Spec => []InstancesAreLeaves
  <1>1. Sound /\ Faithful => InstancesAreLeaves
    <2>1. SUFFICES ASSUME Sound, Faithful, pc = "done"
                   PROVE  InstancesAreLeaves
      BY DEF InstancesAreLeaves
    <2>2. Mirror
      BY <2>1 DEF Faithful, Running
    <2>3. Now = Leaves
      BY <2>1, <2>2, AllUnfolded
    <2>4. DOMAIN instances = {o.name : o \in Leaves}
      BY <2>2, <2>3 DEF Mirror
    <2>5. \A o, p \in Leaves : o.name = p.name => o = p
      BY <2>2, <2>3 DEF Mirror
    <2>6. \A o \in Leaves : Stands(o)
      BY <2>2, <2>3 DEF Mirror
    <2>7. QED
      BY <2>4, <2>5, <2>6 DEF InstancesAreLeaves, Stands
  <1>2. QED
    BY <1>1, Unrolled, Start, NextSound, PTL DEF Spec

(* warn_skipped reports only instances of the result that the caller could *)
(* have expected to be expanded, and after a recursive call all of them.   *)
THEOREM WarningsAreExact == Spec => []WarningsAreTrue
  <1>1. Sound /\ Faithful => WarningsAreTrue
    <2>1. SUFFICES ASSUME Sound, Faithful, pc = "done"
                   PROVE  WarningsAreTrue
      BY DEF WarningsAreTrue
    <2>2. Mirror /\ Reports
      BY <2>1 DEF Faithful, Running
    <2>3. Now = Leaves
      BY <2>1, <2>2, AllUnfolded
    <2>4. \A o : o \in Expected <=> o \in Now /\ Asked(o)
      BY <2>3 DEF Expected, Asked
    <2>5. \A i \in warned : call.warn /\ i \in {o.name : o \in Expected}
      BY <2>2, <2>4 DEF Reports
    <2>6. call.warn /\ call.recursive => {o.name : o \in Expected} \subseteq warned
      BY <2>1, <2>2, <2>4 DEF Reports
    <2>7. QED
      BY <2>5, <2>6 DEF WarningsAreTrue
  <1>2. QED
    BY <1>1, Unrolled, Start, NextSound, PTL DEF Spec
--------------------------------------------------------------------------------
(* A path tells occurrences apart: its length is the level, and two        *)
(* occurrences of one level with one path are one.                         *)
Steps == DOMAIN call.base.instances \cup UNION {DOMAIN call.subs[c].instances : c \in Document}
Placed(k) == \A o \in Level[k] :
               /\ o.path \in Seq(Steps) /\ Len(o.path) = k
               /\ \A p \in Level[k] : o.path = p.path => o = p

LEMMA ChildPath ==
  ASSUME NEW o, NEW j \in DOMAIN call.subs[o.cell].instances, Unfolds(o), o.path \in Seq(Steps)
  PROVE  /\ Child(o, j).path = Append(o.path, j) /\ j \in Steps
         /\ Child(o, j).path \in Seq(Steps) /\ Len(Child(o, j).path) = Len(o.path) + 1
  <1>1. Child(o, j).path = Append(o.path, j)
    BY DEF Child
  <1>2. o.cell \in Document
    BY DEF Unfolds
  <1>3. j \in Steps
    BY <1>2 DEF Steps
  <1>4. QED
    BY <1>1, <1>3

LEMMA Ends ==
  ASSUME NEW S, NEW s \in Seq(S), NEW t \in Seq(S), NEW i \in S, NEW j \in S,
         Append(s, i) = Append(t, j)
  PROVE  s = t /\ i = j
  <1>1. Len(Append(s, i)) = Len(s) + 1 /\ Len(Append(t, j)) = Len(t) + 1
    OBVIOUS
  <1>2. Len(s) = Len(t) /\ Len(s) \in Nat
    BY <1>1
  <1>3. i = j
    BY <1>2
  <1>4. \A k \in 1 .. Len(s) : s[k] = t[k]
    <2>1. TAKE k \in 1 .. Len(s)
    <2>2. Append(s, i)[k] = s[k] /\ Append(t, j)[k] = t[k]
      BY <1>2
    <2>3. QED
      BY <2>2
  <1>5. s = t
    BY <1>2, <1>4
  <1>6. QED
    BY <1>3, <1>5

LEMMA Paths == \A k \in 1 .. Depth + 1 : Placed(k)
  <1> DEFINE T == {k \in Nat : k + 1 \in 1 .. Depth + 1 => Placed(k + 1)}
  <1>1. Depth \in Nat /\ Level[1] = Top
    BY Levels
  <1>2. \A o \in Top : \E i \in DOMAIN call.base.instances : o = TopAt(i) /\ o.path = <<i>>
    BY TopIs DEF TopAt
  <1>3. 0 \in T
    <2>1. Placed(1)
      <3>1. SUFFICES ASSUME NEW o \in Top
                     PROVE  /\ o.path \in Seq(Steps) /\ Len(o.path) = 1
                            /\ \A p \in Top : o.path = p.path => o = p
        BY <1>1 DEF Placed
      <3>2. PICK i \in DOMAIN call.base.instances : o = TopAt(i) /\ o.path = <<i>>
        BY <1>2
      <3>3. i \in Steps
        BY DEF Steps
      <3>4. ASSUME NEW p \in Top, o.path = p.path
            PROVE  o = p
        <4>1. PICK j \in DOMAIN call.base.instances : p = TopAt(j) /\ p.path = <<j>>
          BY <1>2
        <4>2. <<i>> = <<j>>
          BY <3>2, <3>4, <4>1
        <4>3. i = j
          BY <4>2
        <4>4. QED
          BY <3>2, <4>1, <4>3
      <3>5. QED
        BY <3>2, <3>3, <3>4
    <2>2. QED
      BY <2>1
  <1>4. ASSUME NEW k \in Nat, k \in T
        PROVE  k + 1 \in T
    <2>1. SUFFICES ASSUME (k + 1) + 1 \in 1 .. Depth + 1
                   PROVE  Placed((k + 1) + 1)
      OBVIOUS
    <2> DEFINE l == k + 1
    <2>2. l \in 1 .. Depth /\ l \in 1 .. Depth + 1
      BY <1>1, <2>1
    <2>3. Placed(l)
      BY <1>4, <2>2
    <2> HIDE DEF l
    <2>4. Level[l + 1] = Contents(Level[l])
      BY <2>2, Levels
    <2>5. \A o \in Level[l + 1] : \E q \in Level[l] :
             Unfolds(q) /\ \E j \in DOMAIN call.subs[q.cell].instances : o = Child(q, j)
      BY <2>4, ContentsAre
    <2>6. ASSUME NEW o \in Level[l + 1]
          PROVE  /\ o.path \in Seq(Steps) /\ Len(o.path) = l + 1
                 /\ \A p \in Level[l + 1] : o.path = p.path => o = p
      <3>1. PICK q \in Level[l] : Unfolds(q) /\ \E j \in DOMAIN call.subs[q.cell].instances : o = Child(q, j)
        BY <2>5
      <3>2. PICK j \in DOMAIN call.subs[q.cell].instances : o = Child(q, j)
        BY <3>1
      <3>3. q.path \in Seq(Steps) /\ Len(q.path) = l
        BY <2>3 DEF Placed
      <3>4. /\ o.path = Append(q.path, j) /\ j \in Steps
            /\ o.path \in Seq(Steps) /\ Len(o.path) = l + 1
        BY <3>1, <3>2, <3>3, ChildPath
      <3>5. ASSUME NEW p \in Level[l + 1], o.path = p.path
            PROVE  o = p
        <4>1. PICK r \in Level[l] : Unfolds(r) /\ \E i \in DOMAIN call.subs[r.cell].instances : p = Child(r, i)
          BY <2>5
        <4>2. PICK i \in DOMAIN call.subs[r.cell].instances : p = Child(r, i)
          BY <4>1
        <4>3. r.path \in Seq(Steps)
          BY <2>3 DEF Placed
        <4>4. p.path = Append(r.path, i) /\ i \in Steps
          BY <4>1, <4>2, <4>3, ChildPath
        <4>5. Append(q.path, j) = Append(r.path, i)
          BY <3>4, <3>5, <4>4
        <4>6. q.path = r.path /\ j = i
          BY <3>3, <3>4, <4>3, <4>4, <4>5, Ends
        <4>7. q = r
          BY <2>3, <4>6 DEF Placed
        <4>8. QED
          BY <3>2, <4>2, <4>6, <4>7
      <3>6. QED
        BY <3>4, <3>5
    <2>7. Placed(l + 1)
      BY <2>6 DEF Placed
    <2>8. QED
      BY <2>7 DEF l
  <1> HIDE DEF T
  <1>5. Nat \subseteq T
    BY <1>3, <1>4, Induction
  <1>6. ASSUME NEW k \in 1 .. Depth + 1
        PROVE  Placed(k)
    <2>1. k - 1 \in Nat /\ (k - 1) + 1 = k
      BY <1>1
    <2>2. k - 1 \in T
      BY <1>5, <2>1
    <2>3. QED
      BY <2>1, <2>2 DEF T
  <1>7. QED
    BY <1>6
--------------------------------------------------------------------------------
(* The nets of level k are those inside the occurrences of level k that    *)
(* unfold, those of the base netlist for k = 0.  When their level has been *)
(* spliced in, each of their members on an instance is on a net; and what  *)
(* they connect to an instance that has been unfolded since is connected   *)
(* inside it, unless unconnected ports are allowed.                        *)
IsWire(k, w) ==
  IF k = 0 THEN w.at = << >> /\ w.net \in call.base.nets
  ELSE \E o \in Level[k] : /\ Unfolds(o) /\ w.at = o.path /\ w.name = o.name
                          /\ w.net \in call.subs[o.cell].nets
Pin(k, w, m) == IF k = 0 THEN m.inst ELSE Join(w.name, m.inst)
Pinned ==
  \A w : IsWire(passes, w) =>
    \A m \in w.net.members : m.inst # << >> =>
      \E n \in nets : \E p \in n.members : p.inst = Pin(passes, w, m) /\ p.port = m.port
Reaches(w, m, u) == Unfolds(u) /\ m.inst # << >> /\ u.path = Append(w.at, m.inst)
Answers(v, m, u) ==
  v.at = u.path /\ \E q \in v.net.members : q.inst = << >> /\ q.port = m.port
Answered(k) ==
  \A w : IsWire(k - 1, w) =>
    \A m \in w.net.members : \A u \in Level[k] :
      Reaches(w, m, u) => \E v : IsWire(k, v) /\ Answers(v, m, u)
Attached == pc \in Running => Pinned /\ (~ call.allow => \A k \in 1 .. passes : Answered(k))

LEMMA WireIn ==
  ASSUME Sound, NEW k \in 0 .. Depth, NEW w, IsWire(k, w)
  PROVE  \A m \in w.net.members : m.inst # << >> =>
           /\ m.inst \in Steps
           /\ k # 0 => \E o \in Level[k] :
                /\ Unfolds(o) /\ w.at = o.path /\ w.name = o.name
                /\ w.net \in call.subs[o.cell].nets
                /\ m.inst \in DOMAIN call.subs[o.cell].instances
  <1>1. TAKE m \in w.net.members
  <1>2. HAVE m.inst # << >>
  <1>3. CASE k = 0
    <2>1. w.net \in call.base.nets /\ IsNetlist(call.base)
      BY <1>3, FlattenAssumption DEF IsWire, Sound
    <2>2. m.inst \in DOMAIN call.base.instances
      BY <1>2, <2>1 DEF IsNetlist
    <2>3. QED
      BY <1>3, <2>2 DEF Steps
  <1>4. CASE k # 0
    <2>1. PICK o \in Level[k] : /\ Unfolds(o) /\ w.at = o.path /\ w.name = o.name
                               /\ w.net \in call.subs[o.cell].nets
      BY <1>4 DEF IsWire
    <2>2. o.cell \in Document
      BY <2>1 DEF Unfolds
    <2>3. IsNetlist(call.subs[o.cell])
      BY <2>2, FlattenAssumption DEF Document, Sound
    <2>4. m.inst \in DOMAIN call.subs[o.cell].instances
      BY <1>2, <2>1, <2>3 DEF IsNetlist
    <2>5. QED
      BY <2>1, <2>2, <2>4 DEF Steps
  <1>5. QED
    BY <1>3, <1>4

(* A member of a net of one level that leads to an occurrence of the next  *)
(* has that occurrence's name as its pin.                                  *)
LEMMA PinIs ==
  ASSUME Sound, NEW k \in 0 .. Depth, NEW w, IsWire(k, w), NEW m \in w.net.members,
         NEW u \in Level[k + 1], Reaches(w, m, u)
  PROVE  Pin(k, w, m) = u.name
  <1>1. m.inst \in Steps /\ u.path = Append(w.at, m.inst) /\ m.inst # << >>
    BY WireIn DEF Reaches
  <1>2. CASE k = 0
    <2>1. u \in Top
      BY <1>2, Levels
    <2>2. PICK i \in DOMAIN call.base.instances : u = TopAt(i)
      BY <2>1, TopIs
    <2>3. u.path = <<i>> /\ u.name = i
      BY <2>2 DEF TopAt
    <2>4. Append(<< >>, m.inst) = <<m.inst>>
      OBVIOUS
    <2>5. w.at = << >>
      BY <1>2 DEF IsWire
    <2>6. <<i>> = <<m.inst>>
      BY <1>1, <2>3, <2>4, <2>5
    <2>7. i = m.inst
      BY <2>6
    <2>8. QED
      BY <1>2, <2>3, <2>7 DEF Pin
  <1>3. CASE k # 0
    <2>1. k \in 1 .. Depth /\ k \in 1 .. Depth + 1
      BY <1>3, Levels
    <2>2. PICK o \in Level[k] : /\ Unfolds(o) /\ w.at = o.path /\ w.name = o.name
                               /\ w.net \in call.subs[o.cell].nets
      BY <1>3 DEF IsWire
    <2>3. PICK q \in Level[k] : Unfolds(q) /\ \E j \in DOMAIN call.subs[q.cell].instances : u = Child(q, j)
      BY <2>1, Levels, ContentsAre
    <2>4. PICK j \in DOMAIN call.subs[q.cell].instances : u = Child(q, j)
      BY <2>3
    <2>5. Placed(k)
      BY <2>1, Paths
    <2>6. o.path \in Seq(Steps) /\ q.path \in Seq(Steps)
      BY <2>5 DEF Placed
    <2>7. u.path = Append(q.path, j) /\ j \in Steps
      BY <2>3, <2>4, <2>6, ChildPath
    <2>8. Append(q.path, j) = Append(o.path, m.inst)
      BY <1>1, <2>2, <2>7
    <2>9. q.path = o.path /\ j = m.inst
      <3>1. \A s, t \in Seq(Steps) : \A a, b \in Steps : Append(s, a) = Append(t, b) => s = t /\ a = b
        BY Ends
      <3>2. q.path \in Seq(Steps) /\ o.path \in Seq(Steps) /\ j \in Steps /\ m.inst \in Steps
        BY <1>1, <2>6, <2>7
      <3>3. QED
        BY <2>8, <3>1, <3>2
    <2>10. q = o
      BY <2>5, <2>9 DEF Placed
    <2>11. u.name = Join(o.name, m.inst)
      BY <2>4, <2>9, <2>10, ChildIs
    <2>12. QED
      BY <1>3, <2>2, <2>11 DEF Pin
  <1>4. QED
    BY <1>2, <1>3

(* A pass that is not stopped finds a net inside for each bound port.      *)
LEMMA Bound ==
  ASSUME ~ Unconnected(Combined), NEW n \in nets, NEW p \in n.members, p.inst \in ToExpand
  PROVE  \E t \in Sub(p.inst).nets : \E q \in t.members : q.inst = << >> /\ q.port = p.port
  <1> DEFINE c == OfParent(n, ToExpand)
  <1>1. c \in Combined /\ c.at = << >> /\ <<p.inst, p.port>> \in c.keys
    BY DEF Combined, OfParent, IsBound
  <1> HIDE DEF c
  <1>2. <<p.inst, p.port>> \in UNION {d.keys : d \in {d \in Combined : d.at # << >>}}
    BY <1>1 DEF Unconnected
  <1>3. PICK d \in Combined : d.at # << >> /\ <<p.inst, p.port>> \in d.keys
    BY <1>2
  <1>4. \A t : OfParent(t, ToExpand).at = << >>
    BY DEF OfParent
  <1>5. PICK i \in ToExpand : \E t \in Sub(i).nets : d = OfInner(i, t)
    BY <1>3, <1>4 DEF Combined
  <1>6. PICK t \in Sub(i).nets : d = OfInner(i, t)
    BY <1>5
  <1>7. PICK q \in t.members : q.inst = << >> /\ <<p.inst, p.port>> = <<i, q.port>>
    BY <1>3, <1>6 DEF OfInner
  <1>8. p.inst = i /\ p.port = q.port
    BY <1>7
  <1>9. QED
    BY <1>7, <1>8

LEMMA ExpandAnswers ==
  ASSUME Sound, Mirror, Pinned, Expand, ~ call.allow
  PROVE  Answered(passes + 1)
  <1> Pass
    BY ExpandIs
  <1> DEFINE k == passes
  <1>1. k \in 0 .. Depth /\ k + 1 \in 1 .. Depth /\ (k + 1) - 1 = k /\ k + 1 # 0
    BY PassUnfolds, Levels, FlattenAssumption DEF Sound, Mirror
  <1> HIDE DEF k
  <1>2. SUFFICES ASSUME NEW w, IsWire(k, w), NEW m \in w.net.members,
                        NEW u \in Level[k + 1], Reaches(w, m, u)
                 PROVE  \E v : IsWire(k + 1, v) /\ Answers(v, m, u)
    <2>1. (passes + 1) - 1 = k /\ passes + 1 = k + 1
      BY <1>1 DEF k
    <2>2. QED
      BY <2>1 DEF Answered
  <1>3. Pin(k, w, m) = u.name
    BY <1>1, <1>2, PinIs
  <1>4. PICK n \in nets : \E p \in n.members : p.inst = u.name /\ p.port = m.port
    BY <1>2, <1>3 DEF Pinned, Reaches, k
  <1>5. PICK p \in n.members : p.inst = u.name /\ p.port = m.port
    BY <1>4
  <1>6. u \in Now
    <2>1. Now = Alive(k + 1)
      BY DEF Now, k
    <2>2. QED
      BY <1>1, <2>1, AliveAgain
  <1>7. u.name \in ToExpand /\ cellOf[u.name] = u.cell
    BY <1>2, <1>6, Unfolders DEF Mirror, Stands, Pass, Reaches
  <1>8. PICK t \in Sub(u.name).nets : \E q \in t.members : q.inst = << >> /\ q.port = m.port
    <2>1. ~ Unconnected(Combined)
      BY DEF Expand
    <2>2. QED
      BY <1>5, <1>7, <2>1, Bound
  <1> DEFINE v == [at |-> u.path, name |-> u.name, net |-> t]
  <1>9. v.at = u.path /\ v.name = u.name /\ v.net = t
    OBVIOUS
  <1> HIDE DEF v
  <1>10. Sub(u.name) = call.subs[u.cell]
    BY <1>7 DEF Sub
  <1>11. IsWire(k + 1, v)
    BY <1>1, <1>2, <1>8, <1>9, <1>10 DEF IsWire, Reaches
  <1>12. Answers(v, m, u)
    BY <1>8, <1>9 DEF Answers
  <1>13. QED
    BY <1>11, <1>12

LEMMA ExpandPins ==
  ASSUME Sound, Mirror, Expand
  PROVE  Pinned'
  <1> Pass
    BY ExpandIs
  <1> DEFINE k == passes + 1
  <1>1. k \in 1 .. Depth /\ k \in 0 .. Depth /\ k # 0
    BY PassUnfolds, Levels
  <1>2. passes' = k /\ call' = call
    BY ExpandIs
  <1> HIDE DEF k
  <1>3. ASSUME NEW w, IsWire(k, w), NEW m \in w.net.members, m.inst # << >>
        PROVE  \E n \in nets' : \E p \in n.members : p.inst = Join(w.name, m.inst) /\ p.port = m.port
    <2>1. PICK o \in Level[k] : /\ Unfolds(o) /\ w.at = o.path /\ w.name = o.name
                               /\ w.net \in call.subs[o.cell].nets
      BY <1>1, <1>3 DEF IsWire
    <2>2. o \in Now
      <3>1. Now = Alive(k)
        BY DEF Now, k
      <3>2. QED
        BY <1>1, <3>1, AliveAgain
    <2>3. o.name \in ToExpand /\ Sub(o.name) = call.subs[o.cell]
      BY <2>1, <2>2, Unfolders DEF Mirror, Stands, Pass, Sub
    <2> DEFINE c == OfInner(o.name, w.net)
               p == At(m, Join(o.name, m.inst))
    <2>4. c \in Combined
      BY <2>1, <2>3 DEF Combined
    <2>5. p \in c.kept
      BY <1>3 DEF OfInner
    <2>6. p.inst = Join(w.name, m.inst) /\ p.port = m.port
      BY <2>1 DEF At
    <2> HIDE DEF c, p
    <2>7. Merge(Reach(Combined, Near, c)) \in nets' /\ c \in Reach(Combined, Near, c)
      BY <2>4, <2>5, MadeNets
    <2>8. p \in Merge(Reach(Combined, Near, c)).members
      BY <2>5, <2>7 DEF Merge
    <2>9. QED
      BY <2>6, <2>7, <2>8
  <1>4. \A l, w : IsWire(l, w)' <=> IsWire(l, w)
    BY <1>2, Unfolding DEF IsWire
  <1>5. SUFFICES ASSUME NEW w, IsWire(passes, w)', NEW m \in w.net.members, m.inst # << >>
                 PROVE  \E n \in nets' : \E p \in n.members : p.inst = Pin(passes, w, m)' /\ p.port = m.port
    BY DEF Pinned
  <1>6. IsWire(k, w)
    BY <1>2, <1>4, <1>5
  <1>7. Pin(passes, w, m)' = Join(w.name, m.inst)
    BY <1>1, <1>2 DEF Pin
  <1>8. QED
    BY <1>3, <1>5, <1>6, <1>7

LEMMA AttachedNext == Sound /\ Faithful /\ Attached /\ [Next]_vars => Attached'
  <1> SUFFICES ASSUME Sound, Faithful, Attached, [Next]_vars, pc' \in Running
               PROVE  Pinned' /\ (~ call'.allow => \A k \in 1 .. passes' : Answered(k)')
    BY DEF Attached
  <1>1. ASSUME call' = call
        PROVE  /\ \A k, w : IsWire(k, w)' <=> IsWire(k, w)
               /\ \A k : Answered(k)' <=> Answered(k)
    <2>1. \A k, w : IsWire(k, w)' <=> IsWire(k, w)
      BY <1>1, Unfolding DEF IsWire
    <2>2. \A w, m, u : Reaches(w, m, u)' <=> Reaches(w, m, u)
      BY <1>1, Unfolding DEF Reaches
    <2>3. Level' = Level
      BY <1>1, Unfolding
    <2>4. \A k : Answered(k)' <=> Answered(k)
      BY <2>1, <2>2, <2>3 DEF Answered, Answers
    <2>5. QED
      BY <2>1, <2>4
  <1>2. CASE Begin
    <2>1. passes = 0 /\ passes' = 0 /\ nets' = call.base.nets /\ call' = call
      BY <1>2, FlattenAssumption DEF Begin, Sound
    <2>2. \A k \in 1 .. passes' : Answered(k)'
      BY <2>1
    <2>3. Pinned'
      BY <2>1 DEF Pinned, IsWire, Pin
    <2>4. QED
      BY <2>2, <2>3
  <1>3. CASE Expand
    <2>1. pc = "pass" /\ Mirror /\ Pinned /\ (~ call.allow => \A k \in 1 .. passes : Answered(k))
      BY <1>3, ExpandIs DEF Pass, Faithful, Attached, Running
    <2>2. Pinned'
      BY <1>3, <2>1, ExpandPins
    <2>3. call' = call /\ passes' = passes + 1 /\ passes \in Nat
      BY <1>3, ExpandIs, FlattenAssumption DEF Sound
    <2>4. ASSUME ~ call.allow, NEW k \in 1 .. passes + 1
          PROVE  Answered(k)
      <3>1. k \in 1 .. passes \/ k = passes + 1
        BY <2>3
      <3>2. Answered(passes + 1)
        BY <1>3, <2>1, <2>4, ExpandAnswers
      <3>3. QED
        BY <2>1, <2>4, <3>1, <3>2
    <2>5. QED
      BY <1>1, <2>2, <2>3, <2>4
  <1>4. ASSUME UNCHANGED <<call, passes, nets>>, pc \in Running
        PROVE  Pinned' /\ (~ call'.allow => \A k \in 1 .. passes' : Answered(k)')
    <2>1. Pinned /\ (~ call.allow => \A k \in 1 .. passes : Answered(k))
      BY <1>4 DEF Attached
    <2>2. Pinned'
      BY <1>1, <1>4, <2>1 DEF Pinned, Pin
    <2>3. QED
      BY <1>1, <1>4, <2>1, <2>2
  <1>5. CASE NothingLeft \/ Finish \/ UNCHANGED vars
    <2>1. UNCHANGED <<call, passes, nets>> /\ pc \in Running
      BY <1>5 DEF NothingLeft, Finish, Return, vars, Running
    <2>2. QED
      BY <1>4, <2>1
  <1>6. CASE RejectDocument \/ RejectBase \/ FailCollision \/ FailConflict
             \/ FailUnconnected \/ FailLimit
    <2>1. pc' \in {"missing", "cyclic", "conflict", "collision", "unconnected", "limit"}
      BY <1>6 DEF RejectDocument, RejectBase, FailCollision, FailConflict, FailUnconnected, FailLimit, Return
    <2>2. QED
      BY <2>1 DEF Running
  <1>7. QED
    BY <1>2, <1>3, <1>5, <1>6 DEF Next

(* Unless the caller allows it, every connection that a parent makes to a  *)
(* cell which was unfolded, at whatever depth, is made inside it.          *)
THEOREM NothingDropped == Spec => []NoneDropped
  <1>1. Sound /\ Faithful /\ Attached => NoneDropped
    <2>1. SUFFICES ASSUME Sound, Faithful, Attached, pc = "done", ~ call.allow
                   PROVE  NoneDropped
      BY DEF NoneDropped
    <2> DEFINE wires == Wires(Unfolded)
    <2>2. Mirror /\ Depth \in Nat /\ passes <= Depth /\ passes \in Nat
      BY <2>1, Levels, FlattenAssumption DEF Faithful, Running, Sound, Mirror
    <2>3. \A k \in 1 .. passes : Answered(k)
      BY <2>1 DEF Attached, Running
    <2>4. \A u \in Unfolded : Unfolds(u) /\ \E k \in 1 .. passes : u \in Level[k]
      BY <2>1, <2>2, AllUnfolded DEF Unfolded
    <2>5. ASSUME NEW w \in wires
          PROVE  \E k \in 0 .. passes : IsWire(k, w)
      <3>1. CASE w \in {[at |-> << >>, name |-> << >>, net |-> n] : n \in call.base.nets}
        <4>1. IsWire(0, w)
          BY <3>1 DEF IsWire
        <4>2. QED
          BY <2>2, <4>1
      <3>2. CASE \E o \in Unfolded : \E n \in call.subs[o.cell].nets : w = [at |-> o.path, name |-> o.name, net |-> n]
        <4>1. PICK o \in Unfolded : \E n \in call.subs[o.cell].nets : w = [at |-> o.path, name |-> o.name, net |-> n]
          BY <3>2
        <4>2. PICK k \in 1 .. passes : o \in Level[k]
          BY <2>4, <4>1
        <4>3. w.at = o.path /\ w.name = o.name /\ w.net \in call.subs[o.cell].nets
          BY <4>1
        <4>4. IsWire(k, w) /\ k \in 0 .. passes
          BY <2>2, <2>4, <4>2, <4>3 DEF IsWire
        <4>5. QED
          BY <4>4
      <3>3. QED
        BY <2>5, <3>1, <3>2 DEF Wires
    <2>6. ASSUME NEW k \in 1 .. passes, NEW v, IsWire(k, v)
          PROVE  [at |-> v.at, name |-> v.name, net |-> v.net] \in wires
      <3>1. PICK o \in Level[k] : /\ Unfolds(o) /\ v.at = o.path /\ v.name = o.name
                                 /\ v.net \in call.subs[o.cell].nets
        BY <2>2, <2>6 DEF IsWire
      <3>2. o \in Unfolded
        BY <2>2, <3>1 DEF Unfolded
      <3> DEFINE x == [at |-> v.at, name |-> v.name, net |-> v.net]
      <3>3. x = [at |-> o.path, name |-> o.name, net |-> v.net]
        BY <3>1
      <3> HIDE DEF x
      <3>4. x \in {[at |-> o.path, name |-> o.name, net |-> n] : n \in call.subs[o.cell].nets}
        BY <3>1, <3>3
      <3>5. x \in wires
        BY <3>2, <3>4 DEF Wires
      <3>6. QED
        BY <3>5 DEF x
    <2>7. ASSUME NEW w \in wires, NEW m \in Outer(w, {o.path : o \in Unfolded})
          PROVE  \E v \in wires : v.at = Append(w.at, m.inst) /\ \E q \in Inside(v) : q.port = m.port
      <3>1. m \in w.net.members /\ m.inst # << >>
        BY <2>7 DEF Outer
      <3>2. PICK u \in Unfolded : u.path = Append(w.at, m.inst)
        BY <2>7 DEF Outer
      <3>3. PICK l \in 0 .. passes : IsWire(l, w)
        BY <2>5, <2>7
      <3>4. PICK k \in 1 .. passes : u \in Level[k]
        BY <2>4
      <3>5. Unfolds(u) /\ Reaches(w, m, u)
        BY <2>4, <3>1, <3>2 DEF Reaches
      <3>6. k = l + 1
        <4>1. m.inst \in Steps /\ l \in 0 .. Depth
          BY <2>1, <2>2, <3>1, <3>3, WireIn
        <4>2. w.at \in Seq(Steps) /\ Len(w.at) = l
          <5>1. CASE l = 0
            <6>1. w.at = << >>
              BY <3>3, <5>1 DEF IsWire
            <6>2. << >> \in Seq(Steps) /\ Len(<< >>) = 0
              OBVIOUS
            <6>3. QED
              BY <5>1, <6>1, <6>2
          <5>2. CASE l # 0
            <6>1. PICK o \in Level[l] : w.at = o.path
              BY <3>3, <5>2 DEF IsWire
            <6>2. Placed(l)
              BY <2>2, <5>2, Paths
            <6>3. QED
              BY <6>1, <6>2 DEF Placed
          <5>3. QED
            BY <5>1, <5>2
        <4>3. Len(u.path) = l + 1
          BY <3>2, <4>1, <4>2
        <4>4. Len(u.path) = k
          <5>1. Placed(k)
            BY <2>2, Paths
          <5>2. QED
            BY <3>4, <5>1 DEF Placed
        <4>5. QED
          BY <4>3, <4>4
      <3>7. k - 1 = l
        BY <3>6
      <3>8. PICK v : IsWire(k, v) /\ Answers(v, m, u)
        BY <2>3, <3>1, <3>3, <3>4, <3>5, <3>7 DEF Answered
      <3>9. PICK q \in v.net.members : q.inst = << >> /\ q.port = m.port
        BY <3>8 DEF Answers
      <3>10. v.at = Append(w.at, m.inst) /\ v.at # << >>
        <4>1. v.at = u.path
          BY <3>8 DEF Answers
        <4>2. Len(u.path) = k /\ k # 0
          BY <2>2, <3>4, Paths DEF Placed
        <4>3. Len(<< >>) = 0
          OBVIOUS
        <4>4. QED
          BY <3>2, <4>1, <4>2, <4>3
      <3> DEFINE x == [at |-> v.at, name |-> v.name, net |-> v.net]
      <3>11. x \in wires
        BY <2>6, <3>8
      <3>12. x.at = Append(w.at, m.inst) /\ q \in Inside(x) /\ q.port = m.port
        BY <3>9, <3>10 DEF Inside
      <3> HIDE DEF x, wires
      <3>13. QED
        BY <3>11, <3>12
    <2>8. QED
      BY <2>7 DEF NoneDropped
  <1>2. Init => Attached
    BY DEF Init, Attached, Running
  <1>3. Init => Faithful
    BY DEF Init, Faithful, Running
  <1>4. QED
    BY <1>1, <1>2, <1>3, Start, NextSound, FaithfulNext, AttachedNext, PTL DEF Spec
--------------------------------------------------------------------------------
(* With fewer netlists than the pass limit, an occurrence that is still    *)
(* unfolded in the last pass has some cell above it twice.                 *)
FewCells == \A c \in Calls : IsFiniteSet(DOMAIN c.subs) /\ Cardinality(DOMAIN c.subs) < MaxPasses

Chain(k, u) == {c \in [1 .. k -> Document] : c[k] = u.cell /\ \A i \in 1 .. k - 1 : Uses(c[i], c[i + 1])}

LEMMA Chains == \A k \in 1 .. Depth : \A u \in Level[k] : Unfolds(u) => Chain(k, u) # {}
  <1> DEFINE T == {k \in Nat : k + 1 <= Depth => \A u \in Level[k + 1] : Unfolds(u) => Chain(k + 1, u) # {}}
  <1>1. 0 \in T
    <2>1. ASSUME NEW u \in Level[1], Unfolds(u)
          PROVE  Chain(1, u) # {}
      <3>1. u.cell \in Document
        BY <2>1 DEF Unfolds
      <3> DEFINE c == [i \in 1 .. 1 |-> u.cell]
      <3>2. c \in [1 .. 1 -> Document] /\ c[1] = u.cell /\ 1 .. 1 - 1 = {}
        BY <3>1
      <3> HIDE DEF c
      <3>3. c \in Chain(1, u)
        BY <3>2 DEF Chain
      <3>4. QED
        BY <3>3
    <2>2. QED
      BY <2>1
  <1>2. ASSUME NEW k \in Nat, k \in T
        PROVE  k + 1 \in T
    <2> DEFINE l == k + 1
    <2>1. SUFFICES ASSUME l + 1 <= Depth, NEW u \in Level[l + 1], Unfolds(u)
                   PROVE  Chain(l + 1, u) # {}
      OBVIOUS
    <2>2. l \in 1 .. Depth /\ l \in Nat /\ (l + 1) - 1 = l
      BY <2>1, Levels
    <2>3. \A q \in Level[l] : Unfolds(q) => Chain(l, q) # {}
      BY <1>2, <2>2
    <2> HIDE DEF l
    <2>4. PICK q \in Level[l] : Unfolds(q) /\ \E j \in DOMAIN call.subs[q.cell].instances : u = Child(q, j)
      BY <2>1, <2>2, Levels, ContentsAre
    <2>5. PICK j \in DOMAIN call.subs[q.cell].instances : u = Child(q, j)
      BY <2>4
    <2>6. Uses(q.cell, u.cell)
      BY <2>5, ChildIs DEF Uses
    <2>7. PICK c : c \in Chain(l, q)
      BY <2>3, <2>4
    <2>8. /\ c \in [1 .. l -> Document] /\ c[l] = q.cell
          /\ \A i \in 1 .. l - 1 : Uses(c[i], c[i + 1])
      BY <2>7 DEF Chain
    <2>9. u.cell \in Document
      BY <2>1 DEF Unfolds
    <2> DEFINE d == [i \in 1 .. l + 1 |-> IF i = l + 1 THEN u.cell ELSE c[i]]
    <2>10. d \in [1 .. l + 1 -> Document] /\ d[l + 1] = u.cell
      BY <2>2, <2>8, <2>9
    <2>11. \A i \in 1 .. l : d[i] = c[i]
      BY <2>2
    <2> HIDE DEF d
    <2>12. \A i \in 1 .. l : Uses(d[i], d[i + 1])
      <3>1. TAKE i \in 1 .. l
      <3>2. CASE i = l
        BY <2>2, <2>6, <2>8, <2>10, <2>11, <3>2
      <3>3. CASE i # l
        <4>1. i \in 1 .. l - 1 /\ i + 1 \in 1 .. l
          BY <2>2, <3>3
        <4>2. Uses(c[i], c[i + 1])
          BY <2>8, <4>1
        <4>3. d[i] = c[i] /\ d[i + 1] = c[i + 1]
          BY <2>11, <4>1
        <4>4. QED
          BY <4>2, <4>3
      <3>4. QED
        BY <3>2, <3>3
    <2>13. d \in Chain(l + 1, u)
      BY <2>2, <2>10, <2>12 DEF Chain
    <2>14. QED
      BY <2>13
  <1> HIDE DEF T
  <1>3. Nat \subseteq T
    BY <1>1, <1>2, Induction
  <1>4. ASSUME NEW k \in 1 .. Depth
        PROVE  \A u \in Level[k] : Unfolds(u) => Chain(k, u) # {}
    <2>1. k - 1 \in Nat /\ (k - 1) + 1 = k /\ k <= Depth
      BY Levels
    <2>2. k - 1 \in T
      BY <1>3, <2>1
    <2>3. QED
      BY <2>1, <2>2 DEF T
  <1>5. QED
    BY <1>4

LEMMA Repeats ==
  ASSUME NEW k \in Nat, NEW c \in [1 .. k -> Document],
         \A i \in 1 .. k - 1 : Uses(c[i], c[i + 1]),
         IsFiniteSet(Document), Cardinality(Document) < k
  PROVE  \E S \in SUBSET Document : S # {} /\ \A a \in S : \E b \in S : Uses(a, b)
  <1>1. IsFiniteSet(1 .. k) /\ Cardinality(1 .. k) = k
    BY FS_Interval
  <1>2. PICK a \in 1 .. k, b \in 1 .. k : a # b /\ c[a] = c[b]
    BY <1>1, FS_PigeonHole
  <1>3. PICK x \in 1 .. k, y \in 1 .. k : x < y /\ c[x] = c[y]
    <2>1. a < b \/ b < a
      BY <1>2
    <2>2. QED
      BY <1>2, <2>1
  <1> DEFINE S == {c[i] : i \in x .. y - 1}
  <1>4. S \in SUBSET Document /\ c[x] \in S
    BY <1>3
  <1>5. ASSUME NEW s \in S
        PROVE  \E t \in S : Uses(s, t)
    <2>1. PICK i \in x .. y - 1 : s = c[i]
      OBVIOUS
    <2>2. i \in 1 .. k - 1 /\ (i + 1 \in x .. y - 1 \/ i + 1 = y)
      BY <1>3
    <2>3. Uses(c[i], c[i + 1])
      BY <2>2
    <2>4. CASE i + 1 \in x .. y - 1
      BY <2>1, <2>3, <2>4
    <2>5. CASE i + 1 = y
      BY <1>3, <1>4, <2>1, <2>3, <2>5
    <2>6. QED
      BY <2>2, <2>4, <2>5
  <1> HIDE DEF S
  <1>6. QED
    BY <1>4, <1>5

Deep == pc \in Running /\ passes > 0 => \E u \in Level[passes] : Unfolds(u)

LEMMA DeepNext == Sound /\ Faithful /\ Deep /\ [Next]_vars => Deep'
  <1> SUFFICES ASSUME Sound, Faithful, Deep, [Next]_vars, pc' \in Running, passes' > 0
               PROVE  \E u \in Level'[passes'] : Unfolds(u)'
    BY DEF Deep
  <1>1. CASE Expand
    <2>1. Pass /\ passes' = passes + 1 /\ call' = call
      BY <1>1, ExpandIs
    <2>2. Mirror
      BY <2>1 DEF Pass, Faithful, Running
    <2>3. PICK i \in ToExpand : i \in DOMAIN instances
      BY <2>1, Expanded DEF Pass
    <2>4. PICK o \in Now : o.name = i
      BY <2>2, <2>3 DEF Mirror
    <2>5. Unfolds(o)
      BY <2>1, <2>2, <2>3, <2>4, Unfolders DEF Mirror, Pass
    <2>6. passes + 1 \in 1 .. Depth
      BY <2>1, <2>2, PassUnfolds
    <2>7. o \in Level[passes + 1]
      BY <2>4, <2>5, <2>6, AliveAgain DEF Now
    <2>8. QED
      BY <2>1, <2>5, <2>7, Unfolding
  <1>2. CASE Begin
    BY <1>2, FlattenAssumption DEF Begin, Sound
  <1>3. CASE NothingLeft \/ Finish \/ UNCHANGED vars
    <2>1. UNCHANGED <<call, passes>> /\ pc \in Running
      BY <1>3 DEF NothingLeft, Finish, Return, vars, Running
    <2>2. QED
      BY <2>1, Unfolding DEF Deep
  <1>4. CASE RejectDocument \/ RejectBase \/ FailCollision \/ FailConflict
             \/ FailUnconnected \/ FailLimit
    <2>1. pc' \in {"missing", "cyclic", "conflict", "collision", "unconnected", "limit"}
      BY <1>4 DEF RejectDocument, RejectBase, FailCollision, FailConflict, FailUnconnected, FailLimit, Return
    <2>2. QED
      BY <2>1 DEF Running
  <1>5. QED
    BY <1>1, <1>2, <1>3, <1>4 DEF Next

(* Names that collide belong to two occurrences that would stand side by   *)
(* side after the pass.                                                    *)
LEMMA CollisionIsReal ==
  ASSUME Sound, Mirror, Pass, Collides
  PROVE  \E o, p \in Alive(passes + 2) : o # p /\ o.name = p.name
  <1> DEFINE n == passes + 1
  <1>1. n \in 1 .. Depth /\ n + 1 = passes + 2 /\ n + 1 \in 1 .. Depth + 1
    BY PassUnfolds, Levels, FlattenAssumption DEF Sound
  <1>2. Alive(n + 1) = Level[n + 1] \cup {o \in Now : ~ Unfolds(o)} /\ Level[n + 1] = Contents(Level[n])
    BY <1>1, PassUnfolds, Levels
  <1>3. Placed(n) /\ Placed(n + 1)
    BY <1>1, Levels, Paths
  <1>4. \A x \in Inner : \E q \in Level[n] : /\ q.name = x[1] /\ Unfolds(q)
                                            /\ x[2] \in DOMAIN call.subs[q.cell].instances
                                            /\ Child(q, x[2]) \in Level[n + 1]
    BY <1>2, PassUnfolds
  <1>5. Now = Level[n] \cup {o \in UNION {Level[l] : l \in 1 .. n - 1} : ~ Unfolds(o)}
    BY DEF Now, Alive
  <1> HIDE DEF n
  <1>6. CASE \E x \in Inner : Join(x[1], x[2]) \in Surviving
    <2>1. PICK x \in Inner : Join(x[1], x[2]) \in Surviving
      BY <1>6
    <2>2. PICK q \in Level[n] : Child(q, x[2]) \in Level[n + 1]
                                /\ q.name = x[1]
      BY <1>4
    <2>3. PICK p \in Now : p.name = Join(x[1], x[2])
      BY <2>1 DEF Mirror, Surviving
    <2>4. ~ Unfolds(p)
      BY <2>1, <2>3, PassUnfolds
    <2>5. Child(q, x[2]).name = p.name
      BY <2>2, <2>3, ChildIs
    <2>6. PICK l \in 1 .. n : p \in Level[l]
      <3>1. n \in 1 .. n /\ \A l \in 1 .. n - 1 : l \in 1 .. n
        BY <1>1
      <3>2. QED
        BY <1>5, <2>3, <3>1
    <2>7. Len(p.path) = l /\ Len(Child(q, x[2]).path) = n + 1
      <3>1. Placed(l)
        BY <1>1, <2>6, Levels, Paths
      <3>2. QED
        BY <1>3, <2>2, <2>6, <3>1 DEF Placed
    <2>8. Child(q, x[2]) # p
      BY <1>1, <2>6, <2>7
    <2>9. Child(q, x[2]) \in Alive(n + 1) /\ p \in Alive(n + 1)
      BY <1>2, <2>2, <2>3, <2>4
    <2>10. QED
      BY <1>1, <2>5, <2>8, <2>9
  <1>7. CASE \E x, y \in Inner : x # y /\ Join(x[1], x[2]) = Join(y[1], y[2])
    <2>1. PICK x \in Inner, y \in Inner : x # y /\ Join(x[1], x[2]) = Join(y[1], y[2])
      BY <1>7
    <2>2. PICK q \in Level[n] : /\ q.name = x[1] /\ Unfolds(q)
                                /\ x[2] \in DOMAIN call.subs[q.cell].instances
                                /\ Child(q, x[2]) \in Level[n + 1]
      BY <1>4
    <2>3. PICK r \in Level[n] : /\ r.name = y[1] /\ Unfolds(r)
                                /\ y[2] \in DOMAIN call.subs[r.cell].instances
                                /\ Child(r, y[2]) \in Level[n + 1]
      BY <1>4
    <2>4. Child(q, x[2]).name = Child(r, y[2]).name
      BY <2>1, <2>2, <2>3, ChildIs
    <2>5. Child(q, x[2]) # Child(r, y[2])
      <3>1. SUFFICES ASSUME Child(q, x[2]) = Child(r, y[2])
                     PROVE  FALSE
        OBVIOUS
      <3>2. q.path \in Seq(Steps) /\ r.path \in Seq(Steps)
        BY <1>3 DEF Placed
      <3>3. Child(q, x[2]).path = Append(q.path, x[2]) /\ x[2] \in Steps
        BY <2>2, <3>2, ChildPath
      <3>4. Child(r, y[2]).path = Append(r.path, y[2]) /\ y[2] \in Steps
        BY <2>3, <3>2, ChildPath
      <3>5. Append(q.path, x[2]) = Append(r.path, y[2])
        BY <3>1, <3>3, <3>4
      <3>6. q.path = r.path /\ x[2] = y[2]
        <4> DEFINE s == q.path
                   t == r.path
                   i == x[2]
                   j == y[2]
        <4>1. s \in Seq(Steps) /\ t \in Seq(Steps) /\ i \in Steps /\ j \in Steps
          BY <3>2, <3>3, <3>4
        <4>2. Append(s, i) = Append(t, j)
          BY <3>5
        <4> HIDE DEF s, t, i, j
        <4>3. s = t /\ i = j
          BY <4>1, <4>2, Ends
        <4>4. QED
          BY <4>3 DEF s, t, i, j
      <3>7. q = r
        BY <1>3, <3>6 DEF Placed
      <3>8. x = <<x[1], x[2]>> /\ y = <<y[1], y[2]>>
        BY InnerIs
      <3>9. QED
        BY <2>1, <2>2, <2>3, <3>6, <3>7, <3>8
    <2>6. Child(q, x[2]) \in Alive(n + 1) /\ Child(r, y[2]) \in Alive(n + 1)
      BY <1>2, <2>2, <2>3
    <2>7. QED
      BY <1>1, <2>4, <2>5, <2>6
  <1>8. QED
    BY <1>6, <1>7 DEF Collides

LEMMA JustifiedNext ==
  ASSUME FewCells
  PROVE  Sound /\ Faithful /\ Deep /\ ErrorsJustified /\ [Next]_vars => ErrorsJustified'
  <1> SUFFICES ASSUME Sound, Faithful, Deep, ErrorsJustified, [Next]_vars
               PROVE  ErrorsJustified'
    OBVIOUS
  <1> DEFINE Twice(n) == \E o, p \in Alive(n) : o # p /\ o.name = p.name
             Cycle == \E S \in SUBSET Document : S # {} /\ \A c \in S : \E d \in S : Uses(c, d)
  <1>1. ErrorsJustified <=> /\ pc = "collision" => Twice(passes + 2)
                            /\ pc = "limit" => Cycle
    BY DEF ErrorsJustified
  <1>2. ErrorsJustified' <=> /\ pc' = "collision" => Twice(passes + 2)'
                             /\ pc' = "limit" => Cycle'
    BY DEF ErrorsJustified
  <1>3. ASSUME UNCHANGED <<call, passes>>
        PROVE  (Twice(passes + 2)' <=> Twice(passes + 2)) /\ (Cycle' <=> Cycle)
    <2>1. Alive(passes + 2)' = Alive(passes + 2)
      BY <1>3, Unfolding
    <2>2. \A c, d : Uses(c, d)' <=> Uses(c, d)
      BY <1>3 DEF Uses
    <2>3. Document' = Document
      BY <1>3 DEF Document
    <2>4. QED
      BY <2>1, <2>2, <2>3
  <1>4. CASE FailCollision
    <2>1. Pass /\ Collides /\ UNCHANGED <<call, passes>> /\ pc' = "collision"
      BY <1>4 DEF FailCollision, Return
    <2>2. Mirror
      BY <2>1 DEF Pass, Faithful, Running
    <2>3. Twice(passes + 2)
      BY <2>1, <2>2, CollisionIsReal
    <2> HIDE DEF Twice, Cycle
    <2>4. QED
      BY <1>2, <1>3, <2>1, <2>3
  <1>5. CASE FailLimit
    <2>1. pc = "pass" /\ passes = MaxPasses /\ UNCHANGED <<call, passes>> /\ pc' = "limit"
      BY <1>5 DEF FailLimit, Return
    <2>2. Mirror /\ MaxPasses \in Nat /\ Depth \in Nat
      BY <2>1, Levels, FlattenAssumption DEF Faithful, Running
    <2>3. IsFiniteSet(Document) /\ Cardinality(Document) < MaxPasses /\ Cardinality(Document) \in Nat
      BY FS_CardinalityType DEF FewCells, Sound, Document
    <2>4. PICK u \in Level[passes] : Unfolds(u)
      BY <2>1, <2>2, <2>3 DEF Deep, Running
    <2>5. passes \in 1 .. Depth
      BY <2>1, <2>2, <2>3 DEF Mirror
    <2>6. PICK c : c \in Chain(passes, u)
      BY <2>4, <2>5, Chains
    <2>7. c \in [1 .. passes -> Document] /\ \A i \in 1 .. passes - 1 : Uses(c[i], c[i + 1])
      BY <2>6 DEF Chain
    <2>8. Cycle
      BY <2>1, <2>2, <2>3, <2>7, Repeats
    <2> HIDE DEF Twice, Cycle
    <2>9. QED
      BY <1>2, <1>3, <2>1, <2>8
  <1>6. CASE UNCHANGED vars
    <2>1. UNCHANGED <<call, passes, pc>>
      BY <1>6 DEF vars
    <2> HIDE DEF Twice, Cycle
    <2>2. QED
      BY <1>1, <1>2, <1>3, <2>1
  <1>7. CASE RejectDocument \/ RejectBase \/ Begin \/ Expand \/ FailConflict
             \/ FailUnconnected \/ NothingLeft \/ Finish
    <2>1. pc' \notin {"collision", "limit"}
      BY <1>7, ExpandIs DEF RejectDocument, RejectBase, Begin, FailConflict, FailUnconnected,
                            NothingLeft, AfterLast, Finish, Return
    <2> HIDE DEF Twice, Cycle
    <2>2. QED
      BY <1>2, <2>1
  <1>8. QED
    BY <1>4, <1>5, <1>6, <1>7 DEF Next

(* A name collision is one between two instances that would both be in the *)
(* netlist, and of a document with fewer netlists than MAX_PASSES the pass *)
(* limit only stops one that contains itself.                              *)
THEOREM ErrorsHaveCauses ==
  ASSUME FewCells
  PROVE  Spec => []ErrorsJustified
  <1>1. Init => Deep /\ Faithful /\ ErrorsJustified
    BY DEF Init, Deep, Faithful, Running, ErrorsJustified
  <1>2. QED
    BY <1>1, Start, NextSound, FaithfulNext, DeepNext, JustifiedNext, PTL DEF Spec
--------------------------------------------------------------------------------
(* The reference, when k levels have been unfolded: the wires of all       *)
(* levels so far, and what they meet at.                                   *)
Opened(k)  == {o \in UNION {Level[l] : l \in 1 .. k} : Unfolds(o)}
PathsOf(k) == {o.path : o \in Opened(k)}
Web(k)     == Wires(Opened(k))
OnLevel(l, w) ==
  w = [at |-> w.at, name |-> w.name, net |-> w.net] /\ IsWire(l, w) /\ (l = 0 => w.name = << >>)

LEMMA OpenedAre ==
  ASSUME NEW k
  PROVE  \A o : o \in Opened(k) <=> Unfolds(o) /\ \E l \in 1 .. k : o \in Level[l]
  BY DEF Opened

LEMMA WebIs ==
  ASSUME NEW k \in Nat
  PROVE  \A w : w \in Web(k) <=> \E l \in 0 .. k : OnLevel(l, w)
  <1> DEFINE Based(w) == \E n \in call.base.nets : w = [at |-> << >>, name |-> << >>, net |-> n]
             Held(o, w) == \E n \in call.subs[o.cell].nets : w = [at |-> o.path, name |-> o.name, net |-> n]
  <1>1. \A w : w \in Web(k) <=> Based(w) \/ \E o \in Opened(k) : Held(o, w)
    BY DEF Web, Wires
  <1>2. \A w : Based(w) <=> OnLevel(0, w)
    BY DEF OnLevel, IsWire
  <1>3. ASSUME NEW w, NEW o, Held(o, w)
        PROVE  w = [at |-> w.at, name |-> w.name, net |-> w.net] /\ w.at = o.path /\ w.name = o.name
               /\ w.net \in call.subs[o.cell].nets
    BY <1>3
  <1>4. ASSUME NEW w, NEW o, w = [at |-> w.at, name |-> w.name, net |-> w.net], w.at = o.path,
               w.name = o.name, w.net \in call.subs[o.cell].nets
        PROVE  Held(o, w)
    BY <1>4
  <1> HIDE DEF Based, Held
  <1>5. ASSUME NEW w, NEW l \in 1 .. k
        PROVE  OnLevel(l, w) <=> \E o \in Level[l] : Unfolds(o) /\ Held(o, w)
    <2>1. l # 0
      OBVIOUS
    <2>2. QED
      BY <1>3, <1>4, <2>1 DEF OnLevel, IsWire
  <1>6. \A w : (\E o \in Opened(k) : Held(o, w)) <=> \E l \in 1 .. k : OnLevel(l, w)
    BY <1>5, OpenedAre
  <1>7. \A l : l \in 0 .. k <=> l = 0 \/ l \in 1 .. k
    OBVIOUS
  <1>8. QED
    BY <1>1, <1>2, <1>6, <1>7

LEMMA WireAt ==
  ASSUME NEW l \in 0 .. Depth, NEW w, OnLevel(l, w)
  PROVE  w.at \in Seq(Steps) /\ Len(w.at) = l
  <1>1. CASE l = 0
    <2>1. w.at = << >>
      BY <1>1 DEF OnLevel, IsWire
    <2>2. << >> \in Seq(Steps) /\ Len(<< >>) = 0
      OBVIOUS
    <2>3. QED
      BY <1>1, <2>1, <2>2
  <1>2. CASE l # 0
    <2>1. PICK o \in Level[l] : w.at = o.path
      BY <1>2 DEF OnLevel, IsWire
    <2>2. Placed(l)
      BY <1>2, Levels, Paths
    <2>3. QED
      BY <2>1, <2>2 DEF Placed
  <1>3. QED
    BY <1>1, <1>2

LEMMA SamePath ==
  ASSUME NEW j \in 1 .. Depth + 1, NEW l \in 1 .. Depth + 1,
         NEW u \in Level[j], NEW o \in Level[l], u.path = o.path
  PROVE  j = l /\ u = o
  <1>1. Placed(j) /\ Placed(l)
    BY Paths
  <1>2. Len(u.path) = j /\ Len(o.path) = l
    BY <1>1 DEF Placed
  <1>3. QED
    BY <1>1, <1>2 DEF Placed

LEMMA CellNamed ==
  ASSUME Sound
  PROVE  /\ IsNamed(call.base) /\ IsNetlist(call.base)
         /\ \A o : Unfolds(o) => IsNamed(call.subs[o.cell]) /\ IsNetlist(call.subs[o.cell])
  BY FlattenAssumption DEF Sound, Unfolds, Document

(* Names have a segment at least, at every level.                          *)
LEMMA NameIs ==
  ASSUME Sound
  PROVE  \A k \in 1 .. Depth + 1 : \A o \in Level[k] : o.name \in Seq(Segment) /\ o.name # << >>
  <1> DEFINE T == {k \in Nat : k + 1 \in 1 .. Depth + 1 =>
                     \A o \in Level[k + 1] : o.name \in Seq(Segment) /\ o.name # << >>}
  <1>1. 0 \in T
    <2>1. ASSUME NEW o \in Level[1]
          PROVE  o.name \in Seq(Segment) /\ o.name # << >>
      <3>1. PICK i \in DOMAIN call.base.instances : o = TopAt(i)
        BY Levels, TopIs
      <3>2. o.name = i
        BY <3>1, TopIs
      <3>3. QED
        BY <3>2, CellNamed DEF IsNamed
    <2>2. QED
      BY <2>1
  <1>2. ASSUME NEW k \in Nat, k \in T
        PROVE  k + 1 \in T
    <2> DEFINE l == k + 1
    <2>1. SUFFICES ASSUME l + 1 \in 1 .. Depth + 1, NEW o \in Level[l + 1]
                   PROVE  o.name \in Seq(Segment) /\ o.name # << >>
      OBVIOUS
    <2>2. l \in 1 .. Depth /\ l \in 1 .. Depth + 1
      BY <2>1, Levels
    <2>3. \A q \in Level[l] : q.name \in Seq(Segment) /\ q.name # << >>
      BY <1>2, <2>2
    <2> HIDE DEF l
    <2>4. PICK q \in Level[l] : Unfolds(q) /\ \E j \in DOMAIN call.subs[q.cell].instances : o = Child(q, j)
      BY <2>1, <2>2, Levels, ContentsAre
    <2>5. PICK j \in DOMAIN call.subs[q.cell].instances : o = Child(q, j)
      BY <2>4
    <2>6. j \in Seq(Segment)
      BY <2>4, CellNamed DEF IsNamed
    <2>7. o.name = q.name \o j
      BY <2>5, ChildIs DEF Join
    <2>8. q.name \in Seq(Segment) /\ q.name # << >>
      BY <2>3
    <2>9. Len(q.name) # 0 /\ Len(q.name) \in Nat /\ Len(j) \in Nat
      BY <2>6, <2>8
    <2>10. q.name \o j \in Seq(Segment) /\ Len(q.name \o j) = Len(q.name) + Len(j)
      BY <2>6, <2>8
    <2>11. q.name \o j # << >>
      BY <2>9, <2>10
    <2>12. QED
      BY <2>7, <2>10, <2>11
  <1> HIDE DEF T
  <1>3. Nat \subseteq T
    BY <1>1, <1>2, Induction
  <1>4. ASSUME NEW k \in 1 .. Depth + 1
        PROVE  \A o \in Level[k] : o.name \in Seq(Segment) /\ o.name # << >>
    <2>1. k - 1 \in Nat /\ (k - 1) + 1 = k
      BY Levels
    <2>2. k - 1 \in T
      BY <1>3, <2>1
    <2>3. QED
      BY <2>1, <2>2 DEF T
  <1>5. QED
    BY <1>4

(* A member of a wire on an instance leads to an occurrence one level      *)
(* below, whose name is the one that the member gets.                      *)
Hangs(l, w, m, u) ==
  /\ m.inst # << >> /\ u \in Level[l + 1]
  /\ u.path = Append(w.at, m.inst) /\ u.name = Join(w.name, m.inst)

LEMMA Leads ==
  ASSUME Sound, NEW l \in 0 .. Depth, NEW w, OnLevel(l, w), NEW m \in w.net.members, m.inst # << >>
  PROVE  \E u : Hangs(l, w, m, u)
  <1>1. CASE l = 0
    <2>1. w.at = << >> /\ w.name = << >> /\ w.net \in call.base.nets
      BY <1>1 DEF OnLevel, IsWire
    <2>2. m.inst \in DOMAIN call.base.instances /\ m.inst \in Seq(Segment)
      BY <2>1, CellNamed DEF IsNetlist, IsNamed
    <2> DEFINE u == TopAt(m.inst)
    <2>3. u.path = <<m.inst>> /\ u.name = m.inst /\ u \in Level[1]
      BY <2>2, Levels, TopIs DEF TopAt
    <2> HIDE DEF u
    <2>4. Append(<< >>, m.inst) = <<m.inst>>
      OBVIOUS
    <2>5. << >> \o m.inst = m.inst
      BY <2>2
    <2>6. l + 1 = 1
      BY <1>1
    <2>7. Hangs(l, w, m, u)
      BY <2>1, <2>3, <2>4, <2>5, <2>6 DEF Hangs, Join
    <2>8. QED
      BY <2>7
  <1>2. CASE l # 0
    <2>1. l \in 1 .. Depth /\ l \in 1 .. Depth + 1
      BY <1>2, Levels
    <2>2. PICK o \in Level[l] : /\ Unfolds(o) /\ w.at = o.path /\ w.name = o.name
                               /\ w.net \in call.subs[o.cell].nets
      BY <1>2 DEF OnLevel, IsWire
    <2>3. m.inst \in DOMAIN call.subs[o.cell].instances
      BY <2>2, CellNamed DEF IsNetlist
    <2> DEFINE u == Child(o, m.inst)
    <2>4. u \in Level[l + 1]
      BY <2>1, <2>2, <2>3, Levels, ContentsAre
    <2>5. o.path \in Seq(Steps)
      BY <2>1, <2>2, Paths DEF Placed
    <2>6. u.path = Append(o.path, m.inst) /\ u.name = Join(o.name, m.inst)
      BY <2>2, <2>3, <2>5, ChildPath, ChildIs
    <2> HIDE DEF u
    <2>7. Hangs(l, w, m, u)
      BY <2>2, <2>4, <2>6 DEF Hangs
    <2>8. QED
      BY <2>7
  <1>3. QED
    BY <1>1, <1>2

(* The ports of an occurrence that a wire connects, from outside or inside.*)
Over(w, m, u) == m.inst # << >> /\ u.path = Append(w.at, m.inst)
Under(w, m, u) == m.inst = << >> /\ w.at = u.path
Hits(w, u, p) == \E m \in w.net.members : m.port = p /\ (Over(w, m, u) \/ Under(w, m, u))
Link(k, w, v) == \E u \in Opened(k) : \E p : Hits(w, u, p) /\ Hits(v, u, p)
Meet(k, w) == Meets(w, PathsOf(k))

LEMMA LevelPath ==
  ASSUME NEW j \in 1 .. Depth + 1, NEW u \in Level[j]
  PROVE  u.path \in Seq(Steps) /\ Len(u.path) = j /\ u.path # << >>
  <1>1. u.path \in Seq(Steps) /\ Len(u.path) = j
    BY Paths DEF Placed
  <1>2. Len(<< >>) = 0 /\ j # 0
    OBVIOUS
  <1>3. QED
    BY <1>1, <1>2

LEMMA Overs ==
  ASSUME Sound, NEW l \in 0 .. Depth, NEW w, OnLevel(l, w), NEW m \in w.net.members,
         NEW j \in 1 .. Depth + 1, NEW u \in Level[j], Over(w, m, u)
  PROVE  j = l + 1 /\ u.name = Join(w.name, m.inst)
  <1>1. PICK o : Hangs(l, w, m, o)
    BY Leads DEF Over
  <1>2. l + 1 \in 1 .. Depth + 1 /\ o \in Level[l + 1] /\ u.path = o.path
    BY <1>1, Levels DEF Hangs, Over
  <1>3. j = l + 1 /\ u = o
    BY <1>2, SamePath
  <1>4. QED
    BY <1>1, <1>3 DEF Hangs

LEMMA Unders ==
  ASSUME NEW l \in 0 .. Depth, NEW w, OnLevel(l, w), NEW m \in w.net.members,
         NEW j \in 1 .. Depth + 1, NEW u \in Level[j], Under(w, m, u)
  PROVE  j = l /\ u.name = w.name /\ Unfolds(u) /\ w.net \in call.subs[u.cell].nets
  <1>1. l # 0
    BY LevelPath DEF OnLevel, IsWire, Under
  <1>2. PICK o \in Level[l] : /\ Unfolds(o) /\ w.at = o.path /\ w.name = o.name
                             /\ w.net \in call.subs[o.cell].nets
    BY <1>1 DEF OnLevel, IsWire
  <1>3. l \in 1 .. Depth + 1 /\ u.path = o.path
    BY <1>1, <1>2, Levels DEF Under
  <1>4. j = l /\ u = o
    BY <1>2, <1>3, SamePath
  <1>5. QED
    BY <1>2, <1>4

LEMMA MeetIs ==
  ASSUME NEW k \in 0 .. Depth, NEW w \in Web(k)
  PROVE  \A x : x \in Meet(k, w) <=> \E u \in Opened(k) : \E p : Hits(w, u, p) /\ x = <<u.path, p>>
  <1>1. PICK l \in 0 .. k : OnLevel(l, w)
    BY WebIs, Levels
  <1>2. \A x : x \in Meet(k, w) <=>
          \E m \in w.net.members :
             \/ m.inst # << >> /\ Append(w.at, m.inst) \in PathsOf(k) /\ x = <<Append(w.at, m.inst), m.port>>
             \/ m.inst = << >> /\ w.at # << >> /\ x = <<w.at, m.port>>
    BY DEF Meet, Meets, Outer, Inside
  <1>3. ASSUME NEW x, x \in Meet(k, w)
        PROVE  \E u \in Opened(k) : \E p : Hits(w, u, p) /\ x = <<u.path, p>>
    <2>1. PICK m \in w.net.members :
             \/ m.inst # << >> /\ Append(w.at, m.inst) \in PathsOf(k) /\ x = <<Append(w.at, m.inst), m.port>>
             \/ m.inst = << >> /\ w.at # << >> /\ x = <<w.at, m.port>>
      BY <1>2, <1>3
    <2>2. CASE m.inst # << >> /\ Append(w.at, m.inst) \in PathsOf(k) /\ x = <<Append(w.at, m.inst), m.port>>
      <3>1. PICK u \in Opened(k) : Append(w.at, m.inst) = u.path
        BY <2>2 DEF PathsOf
      <3>2. Hits(w, u, m.port)
        BY <2>2, <3>1 DEF Hits, Over
      <3>3. x = <<u.path, m.port>>
        BY <2>2, <3>1
      <3>4. QED
        BY <3>2, <3>3
    <2>3. CASE m.inst = << >> /\ w.at # << >> /\ x = <<w.at, m.port>>
      <3>1. l # 0
        BY <1>1, <2>3 DEF OnLevel, IsWire
      <3>2. PICK u \in Level[l] : Unfolds(u) /\ w.at = u.path
        BY <1>1, <3>1 DEF OnLevel, IsWire
      <3>3. Hits(w, u, m.port)
        BY <2>3, <3>2 DEF Hits, Under
      <3>4. x = <<u.path, m.port>> /\ l \in 1 .. k
        BY <2>3, <3>1, <3>2
      <3>5. u \in Opened(k)
        BY <3>2, <3>4, OpenedAre
      <3>6. QED
        BY <3>3, <3>4, <3>5
    <2>4. QED
      BY <2>1, <2>2, <2>3
  <1>4. ASSUME NEW u \in Opened(k), NEW p, Hits(w, u, p)
        PROVE  <<u.path, p>> \in Meet(k, w)
    <2>1. PICK m \in w.net.members : m.port = p /\ (Over(w, m, u) \/ Under(w, m, u))
      BY <1>4 DEF Hits
    <2>2. CASE Over(w, m, u)
      <3>1. m.inst # << >> /\ u.path = Append(w.at, m.inst) /\ u.path \in PathsOf(k)
        BY <2>2 DEF Over, PathsOf
      <3>2. QED
        BY <1>2, <2>1, <3>1
    <2>3. CASE Under(w, m, u)
      <3>1. PICK j \in 1 .. k : u \in Level[j]
        BY OpenedAre
      <3>2. j \in 1 .. Depth + 1
        BY Levels
      <3>3. m.inst = << >> /\ w.at = u.path /\ w.at # << >>
        BY <2>3, <3>1, <3>2, LevelPath DEF Under
      <3>4. QED
        BY <1>2, <2>1, <3>3
    <2>4. QED
      BY <2>1, <2>2, <2>3
  <1>5. QED
    BY <1>3, <1>4

LEMMA LinkIs ==
  ASSUME NEW k \in 0 .. Depth, NEW w \in Web(k), NEW v \in Web(k)
  PROVE  Meet(k, w) \cap Meet(k, v) # {} <=> Link(k, w, v)
  <1>1. ASSUME NEW x, x \in Meet(k, w), x \in Meet(k, v)
        PROVE  Link(k, w, v)
    <2>1. PICK u \in Opened(k) : \E p : Hits(w, u, p) /\ x = <<u.path, p>>
      BY <1>1, MeetIs
    <2>2. PICK p : Hits(w, u, p) /\ x = <<u.path, p>>
      BY <2>1
    <2>3. PICK o \in Opened(k) : \E q : Hits(v, o, q) /\ x = <<o.path, q>>
      BY <1>1, MeetIs
    <2>4. PICK q : Hits(v, o, q) /\ x = <<o.path, q>>
      BY <2>3
    <2>5. o.path = u.path /\ q = p
      <3>1. <<u.path, p>> = <<o.path, q>>
        BY <2>2, <2>4
      <3>2. QED
        BY <3>1
    <2>6. Hits(v, u, p)
      BY <2>4, <2>5 DEF Hits, Over, Under
    <2>7. QED
      BY <2>2, <2>6 DEF Link
  <1>2. ASSUME Link(k, w, v)
        PROVE  \E x : x \in Meet(k, w) /\ x \in Meet(k, v)
    <2>1. PICK u \in Opened(k) : \E p : Hits(w, u, p) /\ Hits(v, u, p)
      BY <1>2 DEF Link
    <2>2. PICK p : Hits(w, u, p) /\ Hits(v, u, p)
      BY <2>1
    <2>3. <<u.path, p>> \in Meet(k, w)
      BY <2>2, MeetIs
    <2>4. <<u.path, p>> \in Meet(k, v)
      BY <2>2, MeetIs
    <2>5. QED
      BY <2>3, <2>4
  <1>3. QED
    BY <1>1, <1>2
--------------------------------------------------------------------------------
(* There are finitely many wires, so what they connect is a component.     *)
LEMMA LevelFinite ==
  ASSUME Sound
  PROVE  \A k \in 1 .. Depth + 1 : IsFiniteSet(Level[k])
  <1> DEFINE T == {k \in Nat : k + 1 \in 1 .. Depth + 1 => IsFiniteSet(Level[k + 1])}
  <1>1. 0 \in T
    <2>1. IsFiniteSet(DOMAIN call.base.instances)
      BY CellNamed DEF IsNetlist
    <2> DEFINE I == DOMAIN call.base.instances
               f == [i \in I |-> TopAt(i)]
    <2>2. Level[1] = {f[i] : i \in I}
      BY Levels, TopIs
    <2> HIDE DEF f, I
    <2>3. IsFiniteSet({f[i] : i \in I})
      BY <2>1, Image DEF I
    <2>4. QED
      BY <2>2, <2>3
  <1>2. ASSUME NEW k \in Nat, k \in T
        PROVE  k + 1 \in T
    <2> DEFINE l == k + 1
    <2>1. SUFFICES ASSUME l + 1 \in 1 .. Depth + 1
                   PROVE  IsFiniteSet(Level[l + 1])
      OBVIOUS
    <2>2. l \in 1 .. Depth /\ IsFiniteSet(Level[l])
      BY <1>2, <2>1, Levels
    <2> HIDE DEF l
    <2> DEFINE Q == {q \in Level[l] : Unfolds(q)}
               f == [q \in Q |-> Below(q)]
               F == {f[q] : q \in Q}
    <2>3. IsFiniteSet(Q)
      BY <2>2, FS_Subset
    <2>4. \A q \in Q : IsFiniteSet(f[q])
      <3>1. TAKE q \in Q
      <3>2. IsFiniteSet(DOMAIN call.subs[q.cell].instances)
        BY CellNamed DEF IsNetlist
      <3> DEFINE J == DOMAIN call.subs[q.cell].instances
                 g == [j \in J |-> Child(q, j)]
      <3>3. f[q] = {g[j] : j \in J}
        BY DEF Below
      <3> HIDE DEF f, g, J
      <3>4. IsFiniteSet({g[j] : j \in J})
        BY <3>2, Image DEF J
      <3>5. QED
        BY <3>3, <3>4
    <2>5. Level[l + 1] = UNION F
      <3>1. F = {Below(q) : q \in Q}
        OBVIOUS
      <3> HIDE DEF F
      <3>2. QED
        BY <2>2, <3>1, Levels DEF Contents
    <2> HIDE DEF f
    <2>6. IsFiniteSet(F) /\ \A X \in F : IsFiniteSet(X)
      <3> HIDE DEF Q
      <3>1. QED
        BY <2>3, <2>4, Image
    <2> HIDE DEF F
    <2>7. QED
      BY <2>5, <2>6, FS_UNION
  <1> HIDE DEF T
  <1>3. Nat \subseteq T
    BY <1>1, <1>2, Induction
  <1>4. ASSUME NEW k \in 1 .. Depth + 1
        PROVE  IsFiniteSet(Level[k])
    <2>1. k - 1 \in Nat /\ (k - 1) + 1 = k
      BY Levels
    <2>2. k - 1 \in T
      BY <1>3, <2>1
    <2>3. QED
      BY <2>1, <2>2 DEF T
  <1>5. QED
    BY <1>4

LEMMA WebFinite ==
  ASSUME Sound, NEW k \in 0 .. Depth
  PROVE  IsFiniteSet(Web(k))
  <1> DEFINE U == Opened(k)
             base == {[at |-> << >>, name |-> << >>, net |-> n] : n \in call.base.nets}
             f == [o \in U |-> {[at |-> o.path, name |-> o.name, net |-> n] : n \in call.subs[o.cell].nets}]
             F == {f[o] : o \in U}
  <1>1. IsFiniteSet(U)
    <2> DEFINE K == 1 .. k
               g == [l \in K |-> Level[l]]
               G == {g[l] : l \in K}
    <2>1. IsFiniteSet(K)
      BY FS_Interval
    <2>2. \A l \in K : IsFiniteSet(g[l])
      BY LevelFinite, Levels
    <2>3. U \subseteq UNION G
      BY OpenedAre
    <2> HIDE DEF g, K, U
    <2>4. IsFiniteSet(G) /\ \A X \in G : IsFiniteSet(X)
      BY <2>1, <2>2, Image
    <2> HIDE DEF G
    <2>5. QED
      BY <2>3, <2>4, FS_UNION, FS_Subset
  <1>2. IsFiniteSet(base)
    <2> DEFINE N == call.base.nets
               g == [n \in N |-> [at |-> << >>, name |-> << >>, net |-> n]]
    <2>1. base = {g[n] : n \in N}
      OBVIOUS
    <2>2. IsFiniteSet(N)
      BY CellNamed DEF IsNetlist
    <2> HIDE DEF base, g, N
    <2>3. QED
      BY <2>1, <2>2, Image
  <1>3. \A o \in U : IsFiniteSet(f[o])
    <2>1. TAKE o \in U
    <2> DEFINE N == call.subs[o.cell].nets
               g == [n \in N |-> [at |-> o.path, name |-> o.name, net |-> n]]
    <2>2. f[o] = {g[n] : n \in N}
      OBVIOUS
    <2>3. Unfolds(o)
      BY OpenedAre
    <2>4. IsFiniteSet(N)
      BY <2>3, CellNamed DEF IsNetlist
    <2> HIDE DEF f, g, N
    <2>5. QED
      BY <2>2, <2>4, Image
  <1>4. Web(k) = base \cup UNION F
    <2>1. F = {{[at |-> o.path, name |-> o.name, net |-> n] : n \in call.subs[o.cell].nets} : o \in U}
      OBVIOUS
    <2> HIDE DEF F
    <2>2. QED
      BY <2>1 DEF Web, Wires
  <1> HIDE DEF f, U, base
  <1>5. IsFiniteSet(F) /\ \A X \in F : IsFiniteSet(X)
    BY <1>1, <1>3, Image
  <1> HIDE DEF F
  <1>6. IsFiniteSet(UNION F)
    BY <1>5, FS_UNION
  <1>7. QED
    BY <1>2, <1>4, <1>6, FS_Union

Linked(k)   == [w \in Web(k) |-> {v \in Web(k) : Meet(k, w) \cap Meet(k, v) # {}}]
Group(k, w) == Reach(Web(k), Linked(k), w)

LEMMA Groups ==
  ASSUME Sound, NEW k \in 0 .. Depth, NEW w \in Web(k)
  PROVE  /\ w \in Group(k, w) /\ Group(k, w) \subseteq Web(k)
         /\ \A v \in Group(k, w) : \A y \in Web(k) : Link(k, v, y) => y \in Group(k, w)
         /\ \A C \in SUBSET Web(k) :
              w \in C /\ (\A v \in C : \A y \in Web(k) : Link(k, v, y) => y \in C) => Group(k, w) \subseteq C
         /\ \A v \in Group(k, w) : Group(k, v) = Group(k, w)
  <1> DEFINE S == Web(k)
             near == Linked(k)
  <1>1. IsFiniteSet(S)
    BY WebFinite
  <1>2. near \in [S -> SUBSET S] /\ \A v, y \in S : y \in near[v] <=> Meet(k, v) \cap Meet(k, y) # {}
    BY DEF Linked
  <1>3. \A v, y \in S : y \in near[v] <=> Link(k, v, y)
    BY <1>2, LinkIs
  <1>4. Symmetric(near)
    <2>1. \A v, y \in S : Link(k, v, y) => Link(k, y, v)
      BY DEF Link
    <2>2. DOMAIN near = S
      BY DEF Linked
    <2> HIDE DEF S, near
    <2>3. QED
      BY <1>2, <1>3, <2>1, <2>2 DEF Symmetric
  <1>5. Group(k, w) = Reach(S, near, w)
    BY DEF Group
  <1>6. \A v : Group(k, v) = Reach(S, near, v)
    BY DEF Group
  <1> HIDE DEF S, near
  <1>7. w \in S
    BY DEF S
  <1> DEFINE R == Reach(S, near, w)
  <1>8. /\ R \in SUBSET S /\ w \in R /\ Sealed(near, R)
        /\ \A C : w \in C /\ Sealed(near, C) => R \subseteq C
    BY <1>1, <1>2, <1>7, ReachIsLeast
  <1>9. \A v \in R : Reach(S, near, v) = R
    BY <1>1, <1>2, <1>4, <1>7, ReachIsMutual
  <1> HIDE DEF R
  <1>10. \A v \in R : \A y \in S : Link(k, v, y) => y \in R
    BY <1>3, <1>8 DEF Sealed
  <1>11. ASSUME NEW C \in SUBSET S, w \in C, \A v \in C : \A y \in S : Link(k, v, y) => y \in C
         PROVE  R \subseteq C
    <2>1. Sealed(near, C)
      BY <1>2, <1>3, <1>11 DEF Sealed
    <2>2. QED
      BY <1>8, <1>11, <2>1
  <1>12. \A v \in R : Group(k, v) = R
    BY <1>6, <1>9
  <1>13. Group(k, w) = R
    BY <1>5 DEF R
  <1>14. QED
    BY <1>8, <1>10, <1>11, <1>12, <1>13 DEF S

(* What is connected stays connected.                                      *)
LEMMA WebGrows ==
  ASSUME NEW k \in Nat
  PROVE  /\ Web(k) \subseteq Web(k + 1) /\ Opened(k) \subseteq Opened(k + 1)
         /\ \A w, v : Link(k, w, v) => Link(k + 1, w, v)
  <1>1. \A l : l \in 0 .. k => l \in 0 .. k + 1
    OBVIOUS
  <1>2. \A l : l \in 1 .. k => l \in 1 .. k + 1
    OBVIOUS
  <1>3. Opened(k) \subseteq Opened(k + 1)
    BY <1>2, OpenedAre
  <1>4. \A w \in Web(k) : w \in Web(k + 1)
    <2>1. k + 1 \in Nat
      OBVIOUS
    <2>2. \A w : w \in Web(k + 1) <=> \E l \in 0 .. k + 1 : OnLevel(l, w)
      <3> DEFINE n == k + 1
      <3>1. n \in Nat
        BY <2>1
      <3> HIDE DEF n
      <3>2. \A w : w \in Web(n) <=> \E l \in 0 .. n : OnLevel(l, w)
        BY <3>1, WebIs
      <3>3. QED
        BY <3>2 DEF n
    <2>3. QED
      BY <1>1, <2>2, WebIs
  <1>5. \A w, v : Link(k, w, v) => Link(k + 1, w, v)
    BY <1>3 DEF Link
  <1>6. QED
    BY <1>3, <1>4, <1>5

LEMMA GroupGrows ==
  ASSUME Sound, NEW k \in 0 .. Depth, k + 1 <= Depth, NEW w \in Web(k)
  PROVE  Group(k, w) \subseteq Group(k + 1, w)
  <1> DEFINE n == k + 1
             C == Group(n, w) \cap Web(k)
  <1>1. n \in 0 .. Depth /\ k \in Nat
    BY Levels
  <1>2. Web(k) \subseteq Web(n) /\ \A u, v : Link(k, u, v) => Link(n, u, v)
    BY <1>1, WebGrows
  <1> HIDE DEF n
  <1>3. w \in Web(n)
    BY <1>2
  <1>4. w \in C
    BY <1>1, <1>3, Groups
  <1>5. \A v \in Group(n, w) : \A y \in Web(n) : Link(n, v, y) => y \in Group(n, w)
    BY <1>1, <1>3, Groups
  <1>6. \A v \in C : \A y \in Web(k) : Link(k, v, y) => y \in C
    BY <1>2, <1>5
  <1>7. C \in SUBSET Web(k)
    OBVIOUS
  <1> HIDE DEF C
  <1>8. Group(k, w) \subseteq C
    BY <1>4, <1>6, <1>7, Groups
  <1>9. QED
    BY <1>8 DEF C, n
--------------------------------------------------------------------------------
(* The pins that are left when k levels have been unfolded.                *)
LEMMA Record ==
  ASSUME Sound, NEW l \in 0 .. Depth, NEW w, OnLevel(l, w), NEW m \in w.net.members
  PROVE  At(m, m.inst) = m
  <1>1. CASE l = 0
    <2>1. w.net \in call.base.nets
      BY <1>1 DEF OnLevel, IsWire
    <2>2. QED
      BY <2>1, CellNamed DEF IsNamed, At
  <1>2. CASE l # 0
    <2>1. PICK o \in Level[l] : Unfolds(o) /\ w.net \in call.subs[o.cell].nets
      BY <1>2 DEF OnLevel, IsWire
    <2>2. QED
      BY <2>1, CellNamed DEF IsNamed, At
  <1>3. QED
    BY <1>1, <1>2

LEMMA HangsOpen ==
  ASSUME NEW k \in 0 .. Depth, NEW l \in 0 .. k, NEW w, NEW m, NEW u, Hangs(l, w, m, u)
  PROVE  Append(w.at, m.inst) \in PathsOf(k) <=> u \in Opened(k)
  <1>1. u \in Level[l + 1] /\ l + 1 \in 1 .. Depth + 1 /\ u.path = Append(w.at, m.inst)
    BY Levels DEF Hangs
  <1>2. ASSUME NEW o \in Opened(k), o.path = u.path
        PROVE  o = u
    <2>1. PICK j \in 1 .. k : o \in Level[j]
      BY OpenedAre
    <2>2. j \in 1 .. Depth + 1
      BY Levels
    <2>3. QED
      BY <1>1, <1>2, <2>1, <2>2, SamePath
  <1>3. QED
    BY <1>1, <1>2 DEF PathsOf

LEMMA PinsAre ==
  ASSUME Sound, NEW k \in 0 .. Depth, NEW l \in 0 .. k, NEW w, OnLevel(l, w)
  PROVE  \A p : p \in Pins(w, PathsOf(k)) <=>
           \E m \in w.net.members :
              \/ m.inst = << >> /\ w.at = << >> /\ p = m
              \/ \E u : Hangs(l, w, m, u) /\ u \notin Opened(k) /\ p = At(m, u.name)
  <1>1. l \in 0 .. Depth
    BY Levels
  <1>2. \A p : p \in Pins(w, PathsOf(k)) <=>
          \E m \in w.net.members :
            /\ ~ (m.inst # << >> /\ Append(w.at, m.inst) \in PathsOf(k))
            /\ ~ (m.inst = << >> /\ w.at # << >>)
            /\ p = At(m, IF m.inst = << >> THEN << >> ELSE Join(w.name, m.inst))
    BY DEF Pins, Outer, Inside
  <1>3. \A m \in w.net.members : m.inst = << >> => At(m, << >>) = m
    BY <1>1, Record
  <1>4. \A m \in w.net.members : m.inst # << >> => \E u : Hangs(l, w, m, u)
    BY <1>1, Leads
  <1>5. \A m, u : Hangs(l, w, m, u) =>
          /\ m.inst # << >> /\ u.name = Join(w.name, m.inst)
          /\ Append(w.at, m.inst) \in PathsOf(k) <=> u \in Opened(k)
    BY HangsOpen DEF Hangs
  <1>6. QED
    BY <1>2, <1>3, <1>4, <1>5
--------------------------------------------------------------------------------
(* The pass that splices in the next level: what the occurrences of that   *)
(* level are called, and which pins it takes.                              *)
LEMMA NowIs ==
  ASSUME Sound, Mirror, Pass
  PROVE  /\ passes \in 0 .. Depth /\ passes + 1 \in 0 .. Depth /\ passes + 1 \in 1 .. Depth
         /\ \A o \in Now : /\ o.name \in ToExpand <=> Unfolds(o)
                           /\ Unfolds(o) => o \in Level[passes + 1] /\ Sub(o.name) = call.subs[o.cell]
                           /\ Unfolds(o) => o \in Opened(passes + 1)
         /\ \A i \in ToExpand : \E o \in Now : o.name = i /\ Unfolds(o)
         /\ \A o, p \in Now : o.name = p.name => o = p
         /\ << >> \notin ToExpand
  <1> DEFINE n == passes + 1
  <1>1. n \in 1 .. Depth /\ n \in 0 .. Depth /\ passes \in 0 .. Depth /\ n \in 1 .. n
    BY PassUnfolds, Levels, FlattenAssumption DEF Sound, Mirror
  <1>2. Now = Alive(n)
    BY DEF Now
  <1> HIDE DEF n
  <1>3. pc = "pass" /\ \A o \in Now : Stands(o)
    BY DEF Pass, Mirror
  <1>4. \A o \in Now : o.name \in ToExpand <=> Unfolds(o)
    BY <1>3, Unfolders
  <1>5. \A o \in Now : Unfolds(o) => o \in Level[n]
    BY <1>1, <1>2, AliveAgain
  <1>6. \A o \in Now : Unfolds(o) => o \in Opened(n)
    BY <1>1, <1>5, OpenedAre
  <1>7. \A o \in Now : Unfolds(o) => Sub(o.name) = call.subs[o.cell]
    BY <1>3 DEF Stands, Sub
  <1>8. ASSUME NEW i \in ToExpand
        PROVE  \E o \in Now : o.name = i /\ Unfolds(o)
    <2>1. i \in DOMAIN instances
      BY Expanded
    <2>2. PICK o \in Now : o.name = i
      BY <2>1 DEF Mirror
    <2>3. QED
      BY <1>4, <2>2
  <1>9. << >> \notin ToExpand
    <2>1. SUFFICES ASSUME << >> \in ToExpand PROVE FALSE
      OBVIOUS
    <2>2. PICK o \in Now : o.name = << >> /\ Unfolds(o)
      BY <1>8, <2>1
    <2>3. o \in Level[n] /\ n \in 1 .. Depth + 1
      BY <1>1, <1>5, <2>2, Levels
    <2>4. QED
      BY <2>2, <2>3, NameIs
  <1>10. \A o, p \in Now : o.name = p.name => o = p
    BY DEF Mirror
  <1>11. QED
    BY <1>1, <1>4, <1>5, <1>6, <1>7, <1>8, <1>9, <1>10 DEF n

LEMMA HangsNow ==
  ASSUME Sound, Mirror, Pass, NEW l \in 0 .. passes, NEW w, NEW m, NEW u, Hangs(l, w, m, u)
  PROVE  /\ u \notin Opened(passes) => u \in Now
         /\ u \in Opened(passes + 1) <=> Unfolds(u)
  <1> DEFINE k == passes
  <1>1. k \in Nat /\ k + 1 \in 1 .. k + 1 /\ l + 1 \in 1 .. k + 1 /\ u \in Level[l + 1]
    BY NowIs, Levels DEF Hangs
  <1>2. u \in Opened(k + 1) <=> Unfolds(u)
    BY <1>1, OpenedAre
  <1>3. ASSUME u \notin Opened(k)
        PROVE  u \in Alive(k + 1)
    <2>1. CASE l + 1 = k + 1
      BY <1>1, <2>1 DEF Alive
    <2>2. CASE l + 1 # k + 1
      <3>1. l + 1 \in 1 .. k /\ l + 1 \in 1 .. (k + 1) - 1
        BY <1>1, <2>2
      <3>2. ~ Unfolds(u)
        BY <1>1, <1>3, <3>1, OpenedAre
      <3>3. u \in UNION {Level[i] : i \in 1 .. (k + 1) - 1}
        BY <1>1, <3>1
      <3>4. QED
        BY <3>2, <3>3 DEF Alive
    <2>3. QED
      BY <2>1, <2>2
  <1>4. QED
    BY <1>2, <1>3 DEF Now

LEMMA PinsStep ==
  ASSUME Sound, Mirror, Pass, NEW w \in Web(passes)
  PROVE  \A p : p \in Pins(w, PathsOf(passes + 1)) <=>
                  p \in Pins(w, PathsOf(passes)) /\ p.inst \notin ToExpand
  <1> DEFINE k == passes
             n == passes + 1
  <1>1. k \in 0 .. Depth /\ n \in 0 .. Depth /\ k \in Nat
    BY NowIs, Levels
  <1>2. PICK l \in 0 .. k : OnLevel(l, w)
    BY <1>1, WebIs
  <1>3. l \in 0 .. n
    BY <1>1
  <1>4. \A m, u : Hangs(l, w, m, u) /\ u \notin Opened(k) =>
          (u \notin Opened(n) <=> u.name \notin ToExpand)
    BY HangsNow, NowIs
  <1>5. Opened(k) \subseteq Opened(n)
    BY <1>1, WebGrows
  <1>6. \A m, u : At(m, u.name).inst = u.name
    BY DEF At
  <1>7. << >> \notin ToExpand
    BY NowIs
  <1> DEFINE pin(p, m, j) == \/ m.inst = << >> /\ w.at = << >> /\ p = m
                             \/ \E u : Hangs(l, w, m, u) /\ u \notin Opened(j) /\ p = At(m, u.name)
  <1>8. \A p : p \in Pins(w, PathsOf(k)) <=> \E m \in w.net.members : pin(p, m, k)
    BY <1>1, <1>2, PinsAre
  <1>9. \A p : p \in Pins(w, PathsOf(n)) <=> \E m \in w.net.members : pin(p, m, n)
    <2> HIDE DEF n
    <2>1. QED
      BY <1>1, <1>2, <1>3, PinsAre
  <1>10. \A p, m : pin(p, m, n) <=> pin(p, m, k) /\ p.inst \notin ToExpand
    <2> HIDE DEF n, k
    <2>1. QED
      BY <1>4, <1>5, <1>6, <1>7
  <1> HIDE DEF pin, n, k
  <1>11. \A p : p \in Pins(w, PathsOf(n)) <=> p \in Pins(w, PathsOf(k)) /\ p.inst \notin ToExpand
    BY <1>8, <1>9, <1>10
  <1>12. QED
    BY <1>11 DEF n, k
--------------------------------------------------------------------------------
(* A net shows the group of a wire: it has the pins that are left of the   *)
(* group, and one of its names if there are any.  Every net shows a group, *)
(* and every group with a pin left is shown.                               *)
PinsOf(k, w)  == UNION {Pins(v, PathsOf(k)) : v \in Group(k, w)}
NamesOf(k, w) == {v.net.name : v \in Group(k, w)} \ {NoName}
Shows(n, k, w) ==
  /\ n.members = PinsOf(k, w)
  /\ IF NamesOf(k, w) = {} THEN n.name = NoName ELSE n.name \in NamesOf(k, w)
Kept ==
  /\ \A n \in nets : \E w \in Web(passes) : Shows(n, passes, w)
  /\ \A w \in Web(passes) : PinsOf(passes, w) # {} => \E n \in nets : Shows(n, passes, w)
Connected == pc \in Running => Kept

(* Which wires a part of a pass's nets stands for.                         *)
Old(c, w) ==
  w \in Web(passes) /\ \E n \in nets : c = OfParent(n, ToExpand) /\ Shows(n, passes, w)
Fresh(c, w) ==
  /\ w = [at |-> w.at, name |-> w.name, net |-> w.net]
  /\ \E o \in Now : /\ Unfolds(o) /\ w.at = o.path /\ w.name = o.name
                    /\ w.net \in Sub(o.name).nets /\ c = OfInner(o.name, w.net)
Depicts(c, w) == Old(c, w) \/ Fresh(c, w)

LEMMA ParentIs ==
  ASSUME NEW n
  PROVE  /\ OfParent(n, ToExpand).name = n.name
         /\ \A p : p \in OfParent(n, ToExpand).kept <=> p \in n.members /\ p.inst \notin ToExpand
         /\ \A x : x \in OfParent(n, ToExpand).keys <=>
                     \E m \in n.members : m.inst \in ToExpand /\ x = <<m.inst, m.port>>
  BY DEF OfParent, IsBound

LEMMA InnerNetIs ==
  ASSUME NEW i, NEW t
  PROVE  /\ OfInner(i, t).name = t.name
         /\ \A p : p \in OfInner(i, t).kept <=>
                     \E m \in t.members : m.inst # << >> /\ p = At(m, Join(i, m.inst))
         /\ \A x : x \in OfInner(i, t).keys <=> \E m \in t.members : m.inst = << >> /\ x = <<i, m.port>>
  BY DEF OfInner

LEMMA FreshIs ==
  ASSUME Sound, Mirror, Pass, NEW c, NEW w, Fresh(c, w)
  PROVE  w \in Web(passes + 1) /\ OnLevel(passes + 1, w) /\ c \in Combined /\ w \notin Web(passes)
  <1> DEFINE n == passes + 1
  <1>1. n \in 1 .. Depth /\ n \in 0 .. Depth /\ n # 0 /\ n \in Nat /\ passes \in 0 .. Depth /\ passes \in Nat
    BY NowIs, Levels
  <1>2. PICK o \in Now : /\ Unfolds(o) /\ w.at = o.path /\ w.name = o.name
                         /\ w.net \in Sub(o.name).nets /\ c = OfInner(o.name, w.net)
    BY DEF Fresh
  <1>3. o \in Level[n] /\ Sub(o.name) = call.subs[o.cell] /\ o.name \in ToExpand
    BY <1>2, NowIs
  <1>4. OnLevel(n, w)
    <2> HIDE DEF n
    <2>1. QED
      BY <1>1, <1>2, <1>3 DEF OnLevel, IsWire, Fresh
  <1>5. w \in Web(n)
    <2> HIDE DEF n
    <2>1. n \in 0 .. n
      BY <1>1
    <2>2. QED
      BY <1>1, <1>4, <2>1, WebIs
  <1>6. w \notin Web(passes)
    <2>1. SUFFICES ASSUME w \in Web(passes) PROVE FALSE
      OBVIOUS
    <2>2. PICK l \in 0 .. passes : OnLevel(l, w)
      BY <1>1, <2>1, WebIs
    <2>3. l \in 0 .. Depth
      BY <1>1, Levels
    <2>4. Len(w.at) = l
      BY <2>2, <2>3, WireAt
    <2>5. Len(w.at) = n
      <3> HIDE DEF n
      <3>1. QED
        BY <1>1, <1>4, WireAt
    <2>6. QED
      BY <1>1, <2>4, <2>5
  <1>7. c \in Combined
    BY <1>2, <1>3 DEF Combined
  <1>8. QED
    BY <1>4, <1>5, <1>6, <1>7

LEMMA DepictsIs ==
  ASSUME Sound, Mirror, Pass, NEW c, NEW w, Depicts(c, w)
  PROVE  w \in Web(passes + 1) /\ c \in Combined
  <1>1. CASE Old(c, w)
    <2>1. passes \in Nat
      BY NowIs, Levels
    <2>2. w \in Web(passes + 1)
      BY <1>1, <2>1, WebGrows DEF Old
    <2>3. c \in Combined
      BY <1>1 DEF Old, Combined
    <2>4. QED
      BY <2>2, <2>3
  <1>2. QED
    BY <1>1, FreshIs DEF Depicts

LEMMA HitPin ==
  ASSUME Sound, Mirror, Pass, NEW w \in Web(passes), NEW o \in Now, Unfolds(o), NEW p, Hits(w, o, p)
  PROVE  \E q \in Pins(w, PathsOf(passes)) : q.inst = o.name /\ q.port = p
  <1> DEFINE k == passes
             n == passes + 1
  <1>1. k \in 0 .. Depth /\ k \in Nat /\ n \in 1 .. Depth + 1 /\ n \in 1 .. Depth /\ o \in Level[n]
    BY NowIs, Levels
  <1>2. PICK l \in 0 .. k : OnLevel(l, w)
    BY <1>1, WebIs
  <1>3. l \in 0 .. Depth
    BY <1>1, Levels
  <1>4. PICK m \in w.net.members : m.port = p /\ (Over(w, m, o) \/ Under(w, m, o))
    BY DEF Hits
  <1>5. Over(w, m, o)
    <2>1. SUFFICES ASSUME Under(w, m, o) PROVE FALSE
      BY <1>4
    <2>2. n = l
      <3> HIDE DEF n, k
      <3>1. QED
        BY <1>1, <1>2, <1>3, <2>1, Unders
    <2>3. QED
      BY <1>1, <2>2
  <1>6. n = l + 1 /\ o.name = Join(w.name, m.inst)
    <2> HIDE DEF n, k
    <2>1. QED
      BY <1>1, <1>2, <1>3, <1>5, Overs
  <1>7. Hangs(l, w, m, o)
    BY <1>1, <1>5, <1>6 DEF Hangs, Over
  <1>8. o \notin Opened(k)
    <2>1. SUFFICES ASSUME o \in Opened(k) PROVE FALSE
      OBVIOUS
    <2>2. PICK j \in 1 .. k : o \in Level[j]
      BY <2>1, OpenedAre
    <2>3. j \in 1 .. Depth + 1
      BY <1>1, Levels
    <2>4. j = n
      <3> HIDE DEF n, k
      <3>1. QED
        BY <1>1, <2>2, <2>3, SamePath
    <2>5. QED
      BY <1>1, <2>4
  <1>9. At(m, o.name) \in Pins(w, PathsOf(k))
    BY <1>1, <1>2, <1>7, <1>8, PinsAre
  <1>10. At(m, o.name).inst = o.name /\ At(m, o.name).port = p
    BY <1>4 DEF At
  <1>11. QED
    BY <1>9, <1>10

LEMMA PinHit ==
  ASSUME Sound, Mirror, Pass, NEW w \in Web(passes), NEW o \in Now, Unfolds(o),
         NEW q \in Pins(w, PathsOf(passes)), q.inst = o.name
  PROVE  Hits(w, o, q.port)
  <1>1. passes \in 0 .. Depth /\ passes \in Nat
    BY NowIs, Levels
  <1>2. PICK l \in 0 .. passes : OnLevel(l, w)
    BY <1>1, WebIs
  <1>3. o.name # << >>
    BY NowIs
  <1>4. PICK m \in w.net.members : \/ m.inst = << >> /\ w.at = << >> /\ q = m
                                   \/ \E u : Hangs(l, w, m, u) /\ u \notin Opened(passes) /\ q = At(m, u.name)
    BY <1>1, <1>2, PinsAre
  <1>5. PICK u : Hangs(l, w, m, u) /\ u \notin Opened(passes) /\ q = At(m, u.name)
    BY <1>3, <1>4
  <1>6. u \in Now
    BY <1>5, HangsNow
  <1>7. q.inst = u.name /\ q.port = m.port
    BY <1>5 DEF At
  <1>8. u = o
    BY <1>6, <1>7, NowIs
  <1>9. Over(w, m, o)
    BY <1>5, <1>8 DEF Over, Hangs
  <1>10. QED
    BY <1>7, <1>9 DEF Hits

LEMMA KeysAre ==
  ASSUME Sound, Mirror, Pass, NEW c \in Combined, NEW x \in c.keys
  PROVE  \E o \in Now : \E p : Unfolds(o) /\ x = <<o.name, p>>
  <1>1. \E i \in ToExpand : \E p : x = <<i, p>>
    <2>1. CASE \E n \in nets : c = OfParent(n, ToExpand)
      <3>1. PICK n \in nets : c = OfParent(n, ToExpand)
        BY <2>1
      <3>2. PICK m \in n.members : m.inst \in ToExpand /\ x = <<m.inst, m.port>>
        BY <3>1, ParentIs
      <3>3. QED
        BY <3>2
    <2>2. CASE \E i \in ToExpand : \E n \in Sub(i).nets : c = OfInner(i, n)
      <3>1. PICK i \in ToExpand : \E n \in Sub(i).nets : c = OfInner(i, n)
        BY <2>2
      <3>2. QED
        BY <3>1, InnerNetIs
    <2>3. QED
      BY <2>1, <2>2 DEF Combined
  <1>2. QED
    BY <1>1, NowIs

(* The keys of a part are the ports its wires hit.                         *)
LEMMA KeyHits ==
  ASSUME Sound, Mirror, Pass, NEW c, NEW w, Depicts(c, w), NEW o \in Now, Unfolds(o), NEW p
  PROVE  /\ <<o.name, p>> \in c.keys => \E v \in Group(passes + 1, w) : Hits(v, o, p)
         /\ Hits(w, o, p) => <<o.name, p>> \in c.keys
  <1> DEFINE k == passes
             n == passes + 1
  <1>1. /\ k \in 0 .. Depth /\ n \in 0 .. Depth /\ n <= Depth /\ k \in Nat
        /\ o.name \in ToExpand /\ n \in 1 .. Depth + 1 /\ o \in Level[n]
    BY NowIs, Levels
  <1>2. CASE Old(c, w)
    <2>1. w \in Web(k)
      BY <1>2 DEF Old
    <2>2. PICK t \in nets : c = OfParent(t, ToExpand) /\ Shows(t, k, w)
      BY <1>2 DEF Old
    <2>3. \A x : x \in c.keys <=> \E m \in t.members : m.inst \in ToExpand /\ x = <<m.inst, m.port>>
      BY <2>2, ParentIs
    <2>4. ASSUME <<o.name, p>> \in c.keys
          PROVE  \E v \in Group(n, w) : Hits(v, o, p)
      <3>1. PICK m \in t.members : <<o.name, p>> = <<m.inst, m.port>>
        BY <2>3, <2>4
      <3>2. m.inst = o.name /\ m.port = p
        BY <3>1
      <3>3. PICK v \in Group(k, w) : m \in Pins(v, PathsOf(k))
        BY <2>2 DEF Shows, PinsOf
      <3>4. v \in Web(k)
        BY <1>1, <2>1, <3>3, Groups
      <3>5. Hits(v, o, p)
        BY <3>2, <3>3, <3>4, PinHit
      <3>6. v \in Group(n, w)
        BY <1>1, <2>1, <3>3, GroupGrows
      <3>7. QED
        BY <3>5, <3>6
    <2>5. ASSUME Hits(w, o, p)
          PROVE  <<o.name, p>> \in c.keys
      <3>1. PICK q \in Pins(w, PathsOf(k)) : q.inst = o.name /\ q.port = p
        BY <2>1, <2>5, HitPin
      <3>2. w \in Group(k, w)
        BY <1>1, <2>1, Groups
      <3>3. q \in t.members
        BY <2>2, <3>1, <3>2 DEF Shows, PinsOf
      <3>4. QED
        BY <1>1, <2>3, <3>1, <3>3
    <2>6. QED
      BY <2>4, <2>5
  <1>3. CASE Fresh(c, w)
    <2>1. PICK u \in Now : /\ Unfolds(u) /\ w.at = u.path /\ w.name = u.name
                           /\ w.net \in Sub(u.name).nets /\ c = OfInner(u.name, w.net)
      BY <1>3 DEF Fresh
    <2>2. \A x : x \in c.keys <=> \E m \in w.net.members : m.inst = << >> /\ x = <<u.name, m.port>>
      BY <2>1, InnerNetIs
    <2>3. w \in Web(n) /\ OnLevel(n, w)
      BY <1>3, FreshIs
    <2>4. ASSUME <<o.name, p>> \in c.keys
          PROVE  \E v \in Group(n, w) : Hits(v, o, p)
      <3>1. PICK m \in w.net.members : m.inst = << >> /\ <<o.name, p>> = <<u.name, m.port>>
        BY <2>2, <2>4
      <3>2. o.name = u.name /\ m.port = p
        BY <3>1
      <3>3. o = u
        BY <2>1, <3>2, NowIs
      <3>4. Hits(w, o, p)
        BY <2>1, <3>1, <3>2, <3>3 DEF Hits, Under
      <3>5. w \in Group(n, w)
        <4> HIDE DEF n
        <4>1. QED
          BY <1>1, <2>3, Groups
      <3>6. QED
        BY <3>4, <3>5
    <2>5. ASSUME Hits(w, o, p)
          PROVE  <<o.name, p>> \in c.keys
      <3>1. PICK m \in w.net.members : m.port = p /\ (Over(w, m, o) \/ Under(w, m, o))
        BY <2>5 DEF Hits
      <3>2. Under(w, m, o)
        <4>1. SUFFICES ASSUME Over(w, m, o) PROVE FALSE
          BY <3>1
        <4>2. n = n + 1
          <5> HIDE DEF n
          <5>1. QED
            BY <1>1, <2>3, <4>1, Overs
        <4>3. QED
          BY <1>1, <4>2
      <3>3. o.name = w.name
        <4> HIDE DEF n
        <4>1. QED
          BY <1>1, <2>3, <3>2, Unders
      <3>4. QED
        BY <2>1, <2>2, <3>1, <3>2, <3>3 DEF Under
    <2>6. QED
      BY <2>4, <2>5
  <1>4. QED
    BY <1>2, <1>3 DEF Depicts
--------------------------------------------------------------------------------
(* Every part stands for a wire; every wire that matters has a part.       *)
LEMMA PartDepicts ==
  ASSUME Sound, Mirror, Pass, Kept, NEW c \in Combined
  PROVE  \E w : Depicts(c, w)
  <1>1. CASE \E n \in nets : c = OfParent(n, ToExpand)
    <2>1. PICK n \in nets : c = OfParent(n, ToExpand)
      BY <1>1
    <2>2. PICK w \in Web(passes) : Shows(n, passes, w)
      BY DEF Kept
    <2>3. Depicts(c, w)
      BY <2>1, <2>2 DEF Depicts, Old
    <2>4. QED
      BY <2>3
  <1>2. CASE \E i \in ToExpand : \E t \in Sub(i).nets : c = OfInner(i, t)
    <2>1. PICK i \in ToExpand : \E t \in Sub(i).nets : c = OfInner(i, t)
      BY <1>2
    <2>2. PICK t \in Sub(i).nets : c = OfInner(i, t)
      BY <2>1
    <2>3. PICK o \in Now : o.name = i /\ Unfolds(o)
      BY NowIs
    <2> DEFINE w == [at |-> o.path, name |-> o.name, net |-> t]
    <2>4. w = [at |-> w.at, name |-> w.name, net |-> w.net] /\ w.at = o.path /\ w.name = o.name /\ w.net = t
      OBVIOUS
    <2> HIDE DEF w
    <2>5. Depicts(c, w)
      BY <2>2, <2>3, <2>4 DEF Depicts, Fresh
    <2>6. QED
      BY <2>5
  <1>3. QED
    BY <1>1, <1>2 DEF Combined

LEMMA WireDepicted ==
  ASSUME Sound, Mirror, Pass, Kept, NEW w \in Web(passes + 1),
         \/ Pins(w, PathsOf(passes + 1)) # {}
         \/ \E o \in Now : \E p : Unfolds(o) /\ Hits(w, o, p)
  PROVE  \E c : Depicts(c, w)
  <1> DEFINE k == passes
             n == passes + 1
  <1>1. k \in 0 .. Depth /\ n \in 0 .. Depth /\ n \in 1 .. Depth /\ n # 0 /\ k \in Nat /\ n \in Nat
    BY NowIs, Levels
  <1>2. PICK l \in 0 .. n : OnLevel(l, w)
    <2> HIDE DEF n
    <2>1. w \in Web(n)
      BY DEF n
    <2>2. QED
      BY <1>1, <2>1, WebIs
  <1>3. CASE l = n
    <2>1. PICK o \in Level[n] : /\ Unfolds(o) /\ w.at = o.path /\ w.name = o.name
                               /\ w.net \in call.subs[o.cell].nets
      <3> HIDE DEF n
      <3>1. QED
        BY <1>1, <1>2, <1>3 DEF OnLevel, IsWire
    <2>2. o \in Now
      <3>1. Now = Alive(n)
        BY DEF Now
      <3> HIDE DEF n
      <3>2. QED
        BY <1>1, <3>1, AliveAgain
    <2>3. w.net \in Sub(o.name).nets
      BY <2>1, <2>2, NowIs
    <2>4. Fresh(OfInner(o.name, w.net), w)
      BY <1>2, <2>1, <2>2, <2>3 DEF Fresh, OnLevel
    <2>5. QED
      BY <2>4 DEF Depicts
  <1>4. CASE l # n
    <2>1. l \in 0 .. k
      BY <1>1, <1>4
    <2>2. w \in Web(k)
      BY <1>1, <1>2, <2>1, WebIs
    <2>3. Pins(w, PathsOf(k)) # {}
      <3>1. CASE \E o \in Now : \E p : Unfolds(o) /\ Hits(w, o, p)
        BY <2>2, <3>1, HitPin
      <3>2. CASE Pins(w, PathsOf(n)) # {}
        BY <2>2, <3>2, PinsStep
      <3>3. QED
        BY <3>1, <3>2
    <2>4. w \in Group(k, w)
      BY <1>1, <2>2, Groups
    <2>5. PinsOf(k, w) # {}
      BY <2>3, <2>4 DEF PinsOf
    <2>6. PICK t \in nets : Shows(t, k, w)
      BY <2>2, <2>5 DEF Kept
    <2>7. Depicts(OfParent(t, ToExpand), w)
      BY <2>2, <2>6 DEF Depicts, Old
    <2>8. QED
      BY <2>7
  <1>5. QED
    BY <1>3, <1>4

(* Parts that bind stand for wires that are connected, and the other way   *)
(* round.                                                                  *)
LEMMA BoundJoins ==
  ASSUME Sound, Mirror, Pass, NEW c, NEW d, NEW w, NEW v, Depicts(c, w), Depicts(d, v), Binds(c, d)
  PROVE  v \in Group(passes + 1, w)
  <1> DEFINE n == passes + 1
  <1>1. n \in 0 .. Depth /\ w \in Web(n) /\ v \in Web(n) /\ c \in Combined
    BY NowIs, DepictsIs
  <1>2. PICK x : x \in c.keys /\ x \in d.keys
    BY DEF Binds
  <1>3. PICK o \in Now : \E p : Unfolds(o) /\ x = <<o.name, p>>
    BY <1>1, <1>2, KeysAre
  <1>4. PICK p : Unfolds(o) /\ x = <<o.name, p>>
    BY <1>3
  <1>5. PICK a \in Group(n, w) : Hits(a, o, p)
    BY <1>2, <1>4, KeyHits
  <1>6. PICK b \in Group(n, v) : Hits(b, o, p)
    BY <1>2, <1>4, KeyHits
  <1>7. o \in Opened(n)
    BY <1>4, NowIs
  <1>8. Link(n, a, b)
    BY <1>5, <1>6, <1>7 DEF Link
  <1> HIDE DEF n
  <1>9. b \in Web(n) /\ v \in Group(n, v) /\ Group(n, b) = Group(n, v)
    BY <1>1, <1>6, Groups
  <1>10. b \in Group(n, w)
    BY <1>1, <1>5, <1>8, <1>9, Groups
  <1>11. Group(n, b) = Group(n, w)
    BY <1>1, <1>10, Groups
  <1>12. QED
    BY <1>9, <1>11 DEF n

LEMMA JoinedBinds ==
  ASSUME Sound, Mirror, Pass, Kept, NEW c, NEW w, Depicts(c, w), NEW v \in Web(passes + 1),
         Link(passes + 1, w, v)
  PROVE  \E d : Depicts(d, v) /\ (d = c \/ Binds(c, d))
  <1> DEFINE k == passes
             n == passes + 1
  <1>1. /\ k \in 0 .. Depth /\ n \in 0 .. Depth /\ n \in 1 .. Depth /\ k \in Nat /\ n \in Nat
        /\ w \in Web(n) /\ v \in Web(n) /\ c \in Combined
    BY NowIs, DepictsIs, Levels
  <1>2. PICK u \in Opened(n) : \E p : Hits(w, u, p) /\ Hits(v, u, p)
    BY DEF Link
  <1>3. PICK p : Hits(w, u, p) /\ Hits(v, u, p)
    BY <1>2
  <1>4. PICK j \in 1 .. n : u \in Level[j] /\ Unfolds(u)
    BY OpenedAre
  <1>5. CASE j \in 1 .. k
    <2>1. u \in Opened(k)
      BY <1>4, <1>5, OpenedAre
    <2>2. ASSUME NEW a \in Web(n), Hits(a, u, p)
          PROVE  a \in Web(k)
      <3>1. PICK l \in 0 .. n : OnLevel(l, a)
        <4> HIDE DEF n
        <4>1. QED
          BY <1>1, <2>2, WebIs
      <3>2. l \in 0 .. Depth /\ j \in 1 .. Depth + 1
        BY <1>1, Levels
      <3>3. PICK m \in a.net.members : Over(a, m, u) \/ Under(a, m, u)
        BY <2>2 DEF Hits
      <3>4. j = l + 1 \/ j = l
        <4>1. CASE Over(a, m, u)
          <5> HIDE DEF n, k
          <5>1. QED
            BY <1>4, <3>1, <3>2, <4>1, Overs
        <4>2. CASE Under(a, m, u)
          <5> HIDE DEF n, k
          <5>1. QED
            BY <1>4, <3>1, <3>2, <4>2, Unders
        <4>3. QED
          BY <3>3, <4>1, <4>2
      <3>5. l \in 0 .. k
        BY <1>1, <1>5, <3>1, <3>4
      <3>6. QED
        BY <1>1, <3>1, <3>5, WebIs
    <2>3. w \in Web(k) /\ v \in Web(k)
      BY <1>1, <1>3, <2>2
    <2>4. Link(k, w, v)
      BY <1>3, <2>1 DEF Link
    <2>5. v \in Group(k, w) /\ Group(k, v) = Group(k, w)
      BY <1>1, <2>3, <2>4, Groups
    <2>6. Old(c, w)
      BY <2>3, FreshIs DEF Depicts
    <2>7. Old(c, v)
      BY <2>3, <2>5, <2>6 DEF Old, Shows, PinsOf, NamesOf
    <2>8. QED
      BY <2>7 DEF Depicts
  <1>6. CASE j = n
    <2>1. u \in Level[n]
      BY <1>4, <1>6
    <2>2. u \in Now
      <3>1. Now = Alive(n)
        BY DEF Now
      <3> HIDE DEF n
      <3>2. QED
        BY <1>1, <2>1, <3>1, AliveAgain
    <2>3. PICK d : Depicts(d, v)
      BY <1>3, <1>4, <2>2, WireDepicted
    <2>4. <<u.name, p>> \in c.keys /\ <<u.name, p>> \in d.keys
      BY <1>3, <1>4, <2>2, <2>3, KeyHits
    <2>5. QED
      BY <2>3, <2>4 DEF Binds
  <1>7. QED
    BY <1>1, <1>5, <1>6

(* What a part contributes to its net is what is left of its wires.        *)
LEMMA PartShows ==
  ASSUME Sound, Mirror, Pass, NEW c, NEW w, Depicts(c, w)
  PROVE  /\ \A p \in Pins(w, PathsOf(passes + 1)) : p \in c.kept
         /\ \A p \in c.kept : p \in PinsOf(passes + 1, w)
         /\ c.name # NoName => c.name \in NamesOf(passes + 1, w)
         /\ w.net.name # NoName => c.name # NoName
  <1> DEFINE k == passes
             n == passes + 1
  <1>1. /\ k \in 0 .. Depth /\ n \in 0 .. Depth /\ n <= Depth /\ k \in Nat /\ w \in Web(n)
    BY NowIs, DepictsIs, Levels
  <1>2. CASE Old(c, w)
    <2>1. w \in Web(k)
      BY <1>2 DEF Old
    <2>2. PICK t \in nets : c = OfParent(t, ToExpand) /\ Shows(t, k, w)
      BY <1>2 DEF Old
    <2>3. c.name = t.name /\ \A p : p \in c.kept <=> p \in t.members /\ p.inst \notin ToExpand
      BY <2>2, ParentIs
    <2>4. w \in Group(k, w) /\ Group(k, w) \subseteq Web(k) /\ Group(k, w) \subseteq Group(n, w)
      BY <1>1, <2>1, Groups, GroupGrows
    <2>5. \A v \in Group(k, w) : \A p : p \in Pins(v, PathsOf(n)) <=>
                                          p \in Pins(v, PathsOf(k)) /\ p.inst \notin ToExpand
      BY <2>4, PinsStep
    <2>6. \A p \in Pins(w, PathsOf(n)) : p \in c.kept
      <3>1. TAKE p \in Pins(w, PathsOf(n))
      <3>2. p \in Pins(w, PathsOf(k)) /\ p.inst \notin ToExpand
        BY <2>4, <2>5
      <3>3. p \in t.members
        BY <2>2, <2>4, <3>2 DEF Shows, PinsOf
      <3>4. QED
        BY <2>3, <3>2, <3>3
    <2>7. ASSUME NEW p \in c.kept
          PROVE  p \in PinsOf(n, w)
      <3>1. p \in t.members /\ p.inst \notin ToExpand
        BY <2>3
      <3>2. PICK v \in Group(k, w) : p \in Pins(v, PathsOf(k))
        BY <2>2, <3>1 DEF Shows, PinsOf
      <3>3. p \in Pins(v, PathsOf(n)) /\ v \in Group(n, w)
        BY <2>4, <2>5, <3>1, <3>2
      <3>4. QED
        BY <3>3 DEF PinsOf
    <2>8. NamesOf(k, w) \subseteq NamesOf(n, w)
      BY <2>4 DEF NamesOf
    <2>9. c.name # NoName => c.name \in NamesOf(n, w)
      BY <2>2, <2>3, <2>8 DEF Shows
    <2>10. w.net.name # NoName => c.name # NoName
      <3>1. HAVE w.net.name # NoName
      <3>2. w.net.name \in NamesOf(k, w)
        BY <2>4, <3>1 DEF NamesOf
      <3>3. t.name \in NamesOf(k, w)
        BY <2>2, <3>2 DEF Shows
      <3>4. QED
        BY <2>3, <3>3 DEF NamesOf
    <2>11. QED
      BY <2>6, <2>7, <2>9, <2>10
  <1>3. CASE Fresh(c, w)
    <2>1. PICK o \in Now : /\ Unfolds(o) /\ w.at = o.path /\ w.name = o.name
                           /\ w.net \in Sub(o.name).nets /\ c = OfInner(o.name, w.net)
      BY <1>3 DEF Fresh
    <2>2. c.name = w.net.name
          /\ \A p : p \in c.kept <=> \E m \in w.net.members : m.inst # << >> /\ p = At(m, Join(o.name, m.inst))
      BY <2>1, InnerNetIs
    <2>3. OnLevel(n, w) /\ n \in 0 .. n /\ w.at # << >>
      <3>1. OnLevel(n, w) /\ n \in 0 .. n
        BY <1>1, <1>3, FreshIs
      <3>2. o \in Level[n] /\ n \in 1 .. Depth + 1
        BY <1>1, <2>1, NowIs, Levels
      <3>3. w.at # << >>
        <4> HIDE DEF n
        <4>1. QED
          BY <2>1, <3>2, LevelPath
      <3>4. QED
        BY <3>1, <3>3
    <2>4. \A p : p \in Pins(w, PathsOf(n)) <=>
            \E m \in w.net.members : \E u : Hangs(n, w, m, u) /\ u \notin Opened(n) /\ p = At(m, u.name)
      <3> HIDE DEF n
      <3>1. QED
        BY <1>1, <2>3, PinsAre
    <2>5. \A p \in Pins(w, PathsOf(n)) : p \in c.kept
      BY <2>1, <2>2, <2>4 DEF Hangs
    <2>6. ASSUME NEW p \in c.kept
          PROVE  p \in Pins(w, PathsOf(n))
      <3>1. PICK m \in w.net.members : m.inst # << >> /\ p = At(m, Join(o.name, m.inst))
        BY <2>2
      <3>2. PICK u : Hangs(n, w, m, u)
        <4> HIDE DEF n
        <4>1. QED
          BY <1>1, <2>3, <3>1, Leads
      <3>3. u \notin Opened(n)
        <4>1. SUFFICES ASSUME u \in Opened(n) PROVE FALSE
          OBVIOUS
        <4>2. PICK j \in 1 .. n : u \in Level[j]
          BY <4>1, OpenedAre
        <4>3. u \in Level[n + 1] /\ n + 1 \in 1 .. Depth + 1 /\ j \in 1 .. Depth + 1
          BY <1>1, <3>2, Levels DEF Hangs
        <4>4. j = n + 1
          <5> HIDE DEF n
          <5>1. QED
            BY <4>2, <4>3, SamePath
        <4>5. QED
          BY <1>1, <4>2, <4>4
      <3>4. u.name = Join(o.name, m.inst)
        BY <2>1, <3>2 DEF Hangs
      <3>5. QED
        BY <2>4, <3>1, <3>2, <3>3, <3>4
    <2>7. w \in Group(n, w)
      <3> HIDE DEF n
      <3>1. QED
        BY <1>1, Groups
    <2>8. QED
      BY <2>2, <2>5, <2>6, <2>7 DEF PinsOf, NamesOf
  <1>4. QED
    BY <1>2, <1>3 DEF Depicts

LEMMA Merged ==
  ASSUME NEW C, C # {}
  PROVE  /\ \A p : p \in Merge(C).members <=> \E d \in C : p \in d.kept
         /\ \E d \in C : Merge(C).name = d.name
         /\ (\E d \in C : d.name # NoName) => Merge(C).name # NoName
  <1> DEFINE named == {c \in C : c.name # NoName}
             parent == {c \in named : c.at = << >>}
             best == IF parent # {} THEN parent ELSE IF named # {} THEN named ELSE C
  <1>1. Names(C) = {c.name : c \in best}
    BY DEF Names
  <1>2. best # {} /\ best \subseteq C /\ (named # {} => best \subseteq named)
    OBVIOUS
  <1> HIDE DEF best
  <1>3. Merge(C).name = CHOOSE name \in Names(C) : TRUE
    BY DEF Merge
  <1>4. Merge(C).name \in Names(C)
    BY <1>1, <1>2, <1>3
  <1>5. PICK d \in best : Merge(C).name = d.name
    BY <1>1, <1>4
  <1>6. \A p : p \in Merge(C).members <=> \E c \in C : p \in c.kept
    BY DEF Merge
  <1>7. QED
    BY <1>2, <1>5, <1>6

LEMMA Reached ==
  ASSUME Sound, NEW c \in Combined
  PROVE  /\ c \in Reach(Combined, Near, c) /\ Reach(Combined, Near, c) \subseteq Combined
         /\ \A d \in Reach(Combined, Near, c) : \A e \in Combined :
              Binds(d, e) => e \in Reach(Combined, Near, c)
         /\ \A C \in SUBSET Combined :
              c \in C /\ (\A d \in C : \A e \in Combined : Binds(d, e) => e \in C)
                => Reach(Combined, Near, c) \subseteq C
  <1> DEFINE S == Combined
  <1>1. IsFiniteSet(S) /\ Near \in [S -> SUBSET S]
    BY CombinedFinite DEF Near
  <1>2. \A d, e \in S : e \in Near[d] <=> Binds(d, e)
    BY DEF Near
  <1>3. c \in S
    OBVIOUS
  <1> HIDE DEF S
  <1>4. /\ Reach(S, Near, c) \in SUBSET S /\ c \in Reach(S, Near, c)
        /\ Sealed(Near, Reach(S, Near, c))
        /\ \A C : c \in C /\ Sealed(Near, C) => Reach(S, Near, c) \subseteq C
    BY <1>1, <1>3, ReachIsLeast
  <1>5. \A d \in Reach(S, Near, c) : \A e \in S : Binds(d, e) => e \in Reach(S, Near, c)
    BY <1>2, <1>4 DEF Sealed
  <1>6. ASSUME NEW C \in SUBSET S, c \in C, \A d \in C : \A e \in S : Binds(d, e) => e \in C
        PROVE  Reach(S, Near, c) \subseteq C
    <2>1. Sealed(Near, C)
      BY <1>1, <1>2, <1>6 DEF Sealed
    <2>2. QED
      BY <1>4, <1>6, <2>1
  <1>7. QED
    BY <1>4, <1>5, <1>6 DEF S

(* The net that a pass makes of a part shows the group of the part's wire, *)
(* with the next level spliced in.                                         *)
LEMMA MergeShows ==
  ASSUME Sound, Mirror, Pass, Kept, NEW c, NEW w, Depicts(c, w)
  PROVE  Shows(Merge(Reach(Combined, Near, c)), passes + 1, w)
  <1> DEFINE n == passes + 1
             C == Reach(Combined, Near, c)
             G == Group(n, w)
  <1>1. n \in 0 .. Depth /\ w \in Web(n) /\ c \in Combined
    BY NowIs, DepictsIs
  <1>2. c \in C /\ C \subseteq Combined
    BY <1>1, Reached
  <1>3. /\ w \in G /\ G \subseteq Web(n) /\ \A v \in G : Group(n, v) = G
    <2> HIDE DEF n
    <2>1. QED
      BY <1>1, Groups
  <1>4. \A d \in C : \E v \in G : Depicts(d, v)
    <2> DEFINE X == {d \in Combined : \E v \in G : Depicts(d, v)}
    <2>1. c \in X /\ X \in SUBSET Combined
      BY <1>1, <1>3
    <2>2. ASSUME NEW d \in X, NEW e \in Combined, Binds(d, e)
          PROVE  e \in X
      <3>1. PICK v \in G : Depicts(d, v)
        OBVIOUS
      <3>2. PICK y : Depicts(e, y)
        BY PartDepicts
      <3>3. y \in Group(n, v)
        BY <2>2, <3>1, <3>2, BoundJoins
      <3>4. QED
        BY <1>3, <3>1, <3>2, <3>3
    <2> HIDE DEF X
    <2>3. C \subseteq X
      BY <1>1, <2>1, <2>2, Reached
    <2>4. QED
      BY <2>3 DEF X
  <1>5. \A v \in G : \E d \in C : Depicts(d, v)
    <2> DEFINE Y == {v \in Web(n) : \E d \in C : Depicts(d, v)}
    <2>1. w \in Y /\ Y \in SUBSET Web(n)
      BY <1>1, <1>2
    <2>2. ASSUME NEW v \in Y, NEW y \in Web(n), Link(n, v, y)
          PROVE  y \in Y
      <3>1. PICK d \in C : Depicts(d, v)
        OBVIOUS
      <3>2. PICK e : Depicts(e, y) /\ (e = d \/ Binds(d, e))
        BY <2>2, <3>1, JoinedBinds
      <3>3. e \in Combined
        BY <3>2, DepictsIs
      <3>4. e \in C
        BY <1>1, <3>1, <3>2, <3>3, Reached
      <3>5. QED
        BY <3>2, <3>4
    <2> HIDE DEF Y, n
    <2>3. G \subseteq Y
      BY <1>1, <2>1, <2>2, Groups
    <2>4. QED
      BY <2>3 DEF Y
  <1> HIDE DEF C, G
  <1>6. \A v \in G : PinsOf(n, v) = PinsOf(n, w) /\ NamesOf(n, v) = NamesOf(n, w)
    BY <1>3 DEF PinsOf, NamesOf, G
  <1>7. Merge(C).members = PinsOf(n, w)
    <2>1. ASSUME NEW p, p \in Merge(C).members
          PROVE  p \in PinsOf(n, w)
      <3>1. PICK d \in C : p \in d.kept
        BY <1>2, <2>1, Merged
      <3>2. PICK v \in G : Depicts(d, v)
        BY <1>4
      <3>3. p \in PinsOf(n, v)
        BY <3>1, <3>2, PartShows
      <3>4. QED
        BY <1>6, <3>3
    <2>2. ASSUME NEW p, p \in PinsOf(n, w)
          PROVE  p \in Merge(C).members
      <3>1. PICK v \in G : p \in Pins(v, PathsOf(n))
        BY <2>2 DEF PinsOf, G
      <3>2. PICK d \in C : Depicts(d, v)
        BY <1>5
      <3>3. p \in d.kept
        BY <3>1, <3>2, PartShows
      <3>4. QED
        BY <1>2, <3>3, Merged
    <2>3. \A p \in Merge(C).members : p \in PinsOf(n, w)
      BY <2>1
    <2>4. \A p \in PinsOf(n, w) : p \in Merge(C).members
      BY <2>2
    <2> HIDE DEF n
    <2>5. Merge(C).members = UNION {d.kept : d \in C}
      BY DEF Merge
    <2>6. QED
      BY <2>3, <2>4, <2>5 DEF PinsOf
  <1>8. \A d \in C : d.name # NoName => d.name \in NamesOf(n, w)
    <2>1. TAKE d \in C
    <2>2. PICK v \in G : Depicts(d, v)
      BY <1>4
    <2>3. d.name # NoName => d.name \in NamesOf(n, v)
      BY <2>2, PartShows
    <2>4. QED
      BY <1>6, <2>3
  <1>9. NamesOf(n, w) # {} => \E d \in C : d.name # NoName
    <2>1. HAVE NamesOf(n, w) # {}
    <2>2. PICK v \in G : v.net.name # NoName
      BY <2>1 DEF NamesOf, G
    <2>3. PICK d \in C : Depicts(d, v)
      BY <1>5
    <2>4. QED
      BY <2>2, <2>3, PartShows
  <1>10. /\ \E d \in C : Merge(C).name = d.name
         /\ (\E d \in C : d.name # NoName) => Merge(C).name # NoName
    BY <1>2, Merged
  <1>11. Shows(Merge(C), n, w)
    BY <1>7, <1>8, <1>9, <1>10 DEF Shows
  <1>12. QED
    BY <1>11 DEF C
--------------------------------------------------------------------------------
LEMMA SameShown ==
  ASSUME call' = call
  PROVE  /\ \A k : Web(k)' = Web(k)
         /\ \A k, w : PinsOf(k, w)' = PinsOf(k, w)
         /\ \A n, k, w : Shows(n, k, w)' <=> Shows(n, k, w)
  <1>1. \A k : Opened(k)' = Opened(k)
    BY Unfolding DEF Opened
  <1>2. \A k : Web(k)' = Web(k) /\ PathsOf(k)' = PathsOf(k)
    BY <1>1 DEF Web, Wires, PathsOf
  <1>3. \A k, w : Group(k, w)' = Group(k, w)
    BY <1>2 DEF Group, Linked, Meet
  <1>4. \A k, w : PinsOf(k, w)' = PinsOf(k, w) /\ NamesOf(k, w)' = NamesOf(k, w)
    BY <1>2, <1>3 DEF PinsOf, NamesOf
  <1>5. QED
    BY <1>2, <1>4 DEF Shows

(* Before the first pass every net shows itself.                           *)
LEMMA BaseShows ==
  ASSUME Sound
  PROVE  /\ \A w \in Web(0) : w.net \in call.base.nets /\ Shows(w.net, 0, w)
         /\ \A n \in call.base.nets : \E w \in Web(0) : w.net = n
  <1>1. 0 \in 0 .. Depth /\ 0 \in 0 .. 0 /\ 0 \in Nat /\ \A l \in 0 .. 0 : l = 0
    BY Levels
  <1>2. Opened(0) = {}
    BY OpenedAre
  <1>3. \A w : w \in Web(0) <=> OnLevel(0, w)
    BY <1>1, WebIs
  <1>4. ASSUME NEW w \in Web(0)
        PROVE  w.net \in call.base.nets /\ Shows(w.net, 0, w)
    <2>1. OnLevel(0, w) /\ w.at = << >> /\ w.name = << >> /\ w.net \in call.base.nets
      BY <1>3 DEF OnLevel, IsWire
    <2>2. Group(0, w) = {w}
      <3>1. {w} \in SUBSET Web(0) /\ w \in {w} /\ \A v \in {w} : \A y \in Web(0) : Link(0, v, y) => y \in {w}
        BY <1>2 DEF Link
      <3>2. Group(0, w) \subseteq {w} /\ w \in Group(0, w)
        BY <1>1, <3>1, Groups
      <3>3. QED
        BY <3>2
    <2>3. \A m \in w.net.members : m.inst # << >> =>
            /\ Join(<< >>, m.inst) = m.inst /\ At(m, m.inst) = m /\ \E u : Hangs(0, w, m, u)
      <3>1. TAKE m \in w.net.members
      <3>2. HAVE m.inst # << >>
      <3>3. m.inst \in Seq(Segment)
        BY <2>1, <3>2, CellNamed DEF IsNetlist, IsNamed
      <3>4. << >> \o m.inst = m.inst
        BY <3>3
      <3>5. QED
        BY <1>1, <2>1, <3>2, <3>4, Record, Leads DEF Join
    <2>4. \A m, u : Hangs(0, w, m, u) => u.name = Join(<< >>, m.inst) /\ m.inst # << >>
      BY <2>1 DEF Hangs
    <2>5. \A p : p \in Pins(w, PathsOf(0)) <=>
            \E m \in w.net.members : \/ m.inst = << >> /\ w.at = << >> /\ p = m
                                     \/ \E u : Hangs(0, w, m, u) /\ u \notin Opened(0) /\ p = At(m, u.name)
      BY <1>1, <2>1, PinsAre
    <2>6. \A p : p \in Pins(w, PathsOf(0)) <=> p \in w.net.members
      BY <1>2, <2>1, <2>3, <2>4, <2>5
    <2>7. PinsOf(0, w) = Pins(w, PathsOf(0))
      BY <2>2 DEF PinsOf
    <2>8. w.net.members = PinsOf(0, w)
      BY <2>6, <2>7
    <2>9. NamesOf(0, w) = {w.net.name} \ {NoName}
      BY <2>2 DEF NamesOf
    <2>10. QED
      BY <2>1, <2>8, <2>9 DEF Shows
  <1>5. ASSUME NEW n \in call.base.nets
        PROVE  \E w \in Web(0) : w.net = n
    <2> DEFINE w == [at |-> << >>, name |-> << >>, net |-> n]
    <2>1. w.at = << >> /\ w.name = << >> /\ w.net = n /\ w = [at |-> w.at, name |-> w.name, net |-> w.net]
      OBVIOUS
    <2> HIDE DEF w
    <2>2. OnLevel(0, w)
      BY <2>1 DEF OnLevel, IsWire
    <2>3. QED
      BY <1>3, <2>1, <2>2
  <1>6. QED
    BY <1>4, <1>5

LEMMA BeginKept ==
  ASSUME Sound, Begin
  PROVE  Kept'
  <1>1. passes' = 0 /\ nets' = call.base.nets /\ call' = call
    BY DEF Begin, Sound
  <1>2. \A n \in call.base.nets : \E w \in Web(0) : Shows(n, 0, w)
    BY BaseShows
  <1>3. \A w \in Web(0) : \E n \in call.base.nets : Shows(n, 0, w)
    BY BaseShows
  <1>4. QED
    BY <1>1, <1>2, <1>3, SameShown DEF Kept

LEMMA ExpandKept ==
  ASSUME Sound, Mirror, Kept, Expand
  PROVE  Kept'
  <1> Pass
    BY ExpandIs
  <1> DEFINE n == passes + 1
  <1>1. passes' = n /\ call' = call /\ n \in 0 .. Depth
    BY ExpandIs, NowIs
  <1>2. ASSUME NEW t \in nets'
        PROVE  \E w \in Web(n) : Shows(t, n, w)
    <2>1. PICK c \in Combined : t = Merge(Reach(Combined, Near, c))
      BY MadeNets
    <2>2. PICK w : Depicts(c, w)
      BY PartDepicts
    <2>3. w \in Web(n) /\ Shows(t, n, w)
      BY <2>1, <2>2, DepictsIs, MergeShows
    <2>4. QED
      BY <2>3
  <1>3. ASSUME NEW w \in Web(n), PinsOf(n, w) # {}
        PROVE  \E t \in nets' : Shows(t, n, w)
    <2>1. PICK v \in Group(n, w) : \E p : p \in Pins(v, PathsOf(n))
      BY <1>3 DEF PinsOf
    <2>2. PICK p : p \in Pins(v, PathsOf(n))
      BY <2>1
    <2>3. v \in Web(n) /\ Group(n, v) = Group(n, w)
      <3> HIDE DEF n
      <3>1. QED
        BY <1>1, Groups
    <2>4. PICK c : Depicts(c, v)
      BY <2>2, <2>3, WireDepicted
    <2>5. c \in Combined /\ p \in c.kept
      BY <2>2, <2>4, DepictsIs, PartShows
    <2> DEFINE t == Merge(Reach(Combined, Near, c))
    <2>6. t \in nets'
      BY <2>5, MadeNets
    <2>7. Shows(t, n, v)
      BY <2>4, MergeShows
    <2> HIDE DEF t, n
    <2>8. Shows(t, n, w)
      BY <2>3, <2>7 DEF Shows, PinsOf, NamesOf
    <2>9. QED
      BY <2>6, <2>8
  <1> HIDE DEF n
  <1>4. QED
    BY <1>1, <1>2, <1>3, SameShown DEF Kept

LEMMA ConnectedNext == Sound /\ Faithful /\ Connected /\ [Next]_vars => Connected'
  <1> SUFFICES ASSUME Sound, Faithful, Connected, [Next]_vars, pc' \in Running
               PROVE  Kept'
    BY DEF Connected
  <1>1. CASE Begin
    BY <1>1, BeginKept
  <1>2. CASE Expand
    <2>1. pc \in Running
      BY <1>2, ExpandIs DEF Pass, Running
    <2>2. QED
      BY <1>2, <2>1, ExpandKept DEF Faithful, Connected
  <1>3. CASE NothingLeft \/ Finish \/ UNCHANGED vars
    <2>1. UNCHANGED <<call, passes, nets>> /\ pc \in Running
      BY <1>3 DEF NothingLeft, Finish, Return, vars, Running
    <2>2. Kept
      BY <2>1 DEF Connected
    <2>3. QED
      BY <2>1, <2>2, SameShown DEF Kept
  <1>4. CASE RejectDocument \/ RejectBase \/ FailCollision \/ FailConflict
             \/ FailUnconnected \/ FailLimit
    <2>1. pc' \in {"missing", "cyclic", "conflict", "collision", "unconnected", "limit"}
      BY <1>4 DEF RejectDocument, RejectBase, FailCollision, FailConflict, FailUnconnected, FailLimit, Return
    <2>2. QED
      BY <2>1 DEF Running
  <1>5. QED
    BY <1>1, <1>2, <1>3, <1>4 DEF Next
--------------------------------------------------------------------------------
(* The groups are what the reference joins: it carries along with a wire   *)
(* what the wire meets.                                                    *)
Seen(k, w) == [wire |-> w, meets |-> Meet(k, w)]
AllSeen(k) == {Seen(k, w) : w \in Web(k)}
Nearby(k)  == [x \in AllSeen(k) |-> {y \in AllSeen(k) : x.meets \cap y.meets # {}}]
Joined(k)  == {[members |-> UNION {Pins(x.wire, PathsOf(k)) : x \in G},
                names   |-> {x.wire.net.name : x \in G} \ {NoName}] : G \in Parts(AllSeen(k), Nearby(k))}

LEMMA SeenGroup ==
  ASSUME Sound, NEW k \in 0 .. Depth, NEW w \in Web(k)
  PROVE  Reach(AllSeen(k), Nearby(k), Seen(k, w)) = {Seen(k, v) : v \in Group(k, w)}
  <1> DEFINE S == AllSeen(k)
             near == Nearby(k)
             R == Reach(S, near, Seen(k, w))
             D == {Seen(k, v) : v \in Group(k, w)}
  <1>1. IsFiniteSet(S)
    <2> DEFINE W == Web(k)
               f == [v \in W |-> Seen(k, v)]
    <2>1. S = {f[v] : v \in W}
      BY DEF AllSeen
    <2>2. IsFiniteSet(W)
      BY WebFinite
    <2> HIDE DEF S, f, W
    <2>3. QED
      BY <2>1, <2>2, Image
  <1>2. \A v : Seen(k, v).wire = v /\ Seen(k, v).meets = Meet(k, v)
    BY DEF Seen
  <1>3. \A x \in S : \E v \in Web(k) : x = Seen(k, v)
    BY DEF AllSeen
  <1>4. \A v \in Web(k) : Seen(k, v) \in S
    BY DEF AllSeen
  <1>5. near \in [S -> SUBSET S] /\ \A x, y \in S : y \in near[x] <=> x.meets \cap y.meets # {}
    BY DEF Nearby
  <1> HIDE DEF S, near
  <1>6. \A u, v \in Web(k) : Seen(k, v) \in near[Seen(k, u)] <=> Link(k, u, v)
    BY <1>2, <1>4, <1>5, LinkIs
  <1>7. Seen(k, w) \in S
    BY <1>4
  <1>8. /\ R \in SUBSET S /\ Seen(k, w) \in R /\ Sealed(near, R)
        /\ \A C : Seen(k, w) \in C /\ Sealed(near, C) => R \subseteq C
    BY <1>1, <1>5, <1>7, ReachIsLeast
  <1>9. /\ w \in Group(k, w) /\ Group(k, w) \subseteq Web(k)
        /\ \A u \in Group(k, w) : \A v \in Web(k) : Link(k, u, v) => v \in Group(k, w)
    BY Groups
  <1> HIDE DEF R
  <1>10. R \subseteq D
    <2>1. ASSUME NEW x \in D, NEW y \in near[x]
          PROVE  y \in D
      <3>1. PICK u \in Group(k, w) : x = Seen(k, u)
        OBVIOUS
      <3>2. y \in S
        BY <1>4, <1>5, <1>9, <2>1, <3>1
      <3>3. PICK v \in Web(k) : y = Seen(k, v)
        BY <1>3, <3>2
      <3>4. Link(k, u, v)
        BY <1>6, <1>9, <2>1, <3>1, <3>3
      <3>5. QED
        BY <1>9, <3>3, <3>4
    <2>2. Seen(k, w) \in D
      BY <1>9
    <2> HIDE DEF D
    <2>3. Sealed(near, D)
      BY <2>1 DEF Sealed
    <2>4. QED
      BY <1>8, <2>2, <2>3
  <1>11. D \subseteq R
    <2> DEFINE C == {v \in Web(k) : Seen(k, v) \in R}
    <2>1. w \in C /\ C \in SUBSET Web(k)
      BY <1>8
    <2>2. ASSUME NEW u \in C, NEW v \in Web(k), Link(k, u, v)
          PROVE  v \in C
      <3>1. Seen(k, u) \in R /\ Seen(k, v) \in near[Seen(k, u)]
        BY <1>6, <2>2
      <3>2. Seen(k, v) \in R
        BY <1>8, <3>1 DEF Sealed
      <3>3. QED
        BY <3>2
    <2> HIDE DEF C
    <2>3. Group(k, w) \subseteq C
      BY <2>1, <2>2, Groups
    <2>4. QED
      BY <2>3 DEF C
  <1>12. R = D
    BY <1>10, <1>11
  <1>13. QED
    BY <1>12 DEF R, S, near

LEMMA JoinedIs ==
  ASSUME Sound, NEW k \in 0 .. Depth
  PROVE  \A g : g \in Joined(k) <=> \E w \in Web(k) : g = [members |-> PinsOf(k, w), names |-> NamesOf(k, w)]
  <1> DEFINE made(G) == [members |-> UNION {Pins(x.wire, PathsOf(k)) : x \in G},
                         names   |-> {x.wire.net.name : x \in G} \ {NoName}]
             shown(w) == {Seen(k, v) : v \in Group(k, w)}
  <1>1. Parts(AllSeen(k), Nearby(k)) = {shown(w) : w \in Web(k)}
    <2>1. \A w \in Web(k) : Reach(AllSeen(k), Nearby(k), Seen(k, w)) = shown(w)
      BY SeenGroup
    <2>2. Parts(AllSeen(k), Nearby(k)) = {Reach(AllSeen(k), Nearby(k), Seen(k, w)) : w \in Web(k)}
      BY DEF Parts, AllSeen
    <2> HIDE DEF shown
    <2>3. QED
      BY <2>1, <2>2
  <1>2. ASSUME NEW w \in Web(k)
        PROVE  made(shown(w)) = [members |-> PinsOf(k, w), names |-> NamesOf(k, w)]
    <2>1. \A v : Seen(k, v).wire = v
      BY DEF Seen
    <2>2. {Pins(x.wire, PathsOf(k)) : x \in shown(w)} = {Pins(v, PathsOf(k)) : v \in Group(k, w)}
      BY <2>1
    <2>3. {x.wire.net.name : x \in shown(w)} = {v.net.name : v \in Group(k, w)}
      <3>1. \A x : x \in shown(w) <=> \E v \in Group(k, w) : x = Seen(k, v)
        OBVIOUS
      <3> HIDE DEF shown
      <3>2. \A n : (\E x \in shown(w) : n = x.wire.net.name) <=> \E v \in Group(k, w) : n = v.net.name
        BY <2>1, <3>1
      <3>3. QED
        BY <3>2
    <2> HIDE DEF shown
    <2>4. QED
      BY <2>2, <2>3 DEF PinsOf, NamesOf
  <1>3. Joined(k) = {made(G) : G \in Parts(AllSeen(k), Nearby(k))}
    BY DEF Joined
  <1> HIDE DEF made, shown
  <1>4. QED
    BY <1>1, <1>2, <1>3

(* For every document and whatever the arguments, flattening neither opens *)
(* nor shorts: the nets of the result are what the nets of all levels that *)
(* were unfolded connect, and a net has a name of one of its parts.        *)
THEOREM ConnectivitySurvives == Spec => []ConnectivityKept
  <1>1. Sound /\ Faithful /\ Connected => ConnectivityKept
    <2>1. SUFFICES ASSUME Sound, Faithful, Connected, pc = "done"
                   PROVE  ConnectivityKept
      BY DEF ConnectivityKept
    <2> DEFINE k == passes
    <2>2. Mirror /\ Kept /\ k \in 0 .. Depth
      BY <2>1, Levels, FlattenAssumption DEF Faithful, Connected, Running, Sound, Mirror
    <2>3. Unfolded = Opened(k)
      <3>1. \A o : o \in Unfolded <=> Unfolds(o) /\ \E l \in 1 .. Depth : o \in Level[l]
        BY DEF Unfolded
      <3>2. \A l \in 1 .. Depth : \A o \in Level[l] : Unfolds(o) => l \in 1 .. k
        BY <2>1, <2>2, AllUnfolded
      <3>3. \A l \in 1 .. k : l \in 1 .. Depth
        BY <2>2, Levels
      <3>4. \A o : o \in Unfolded <=> o \in Opened(k)
        BY <3>1, <3>2, <3>3, OpenedAre
      <3>5. QED
        BY <3>4 DEF Unfolded, Opened
    <2> HIDE DEF k
    <2>4. /\ \A n \in nets : \E w \in Web(k) : Shows(n, k, w)
          /\ \A w \in Web(k) : PinsOf(k, w) # {} => \E n \in nets : Shows(n, k, w)
      BY <2>2 DEF Kept, k
    <2>5. \A g : g \in Joined(k) <=> \E w \in Web(k) : g = [members |-> PinsOf(k, w), names |-> NamesOf(k, w)]
      BY <2>1, <2>2, JoinedIs
    <2>6. {n.members : n \in nets} \ {{}} = {g.members : g \in Joined(k)} \ {{}}
      <3>1. ASSUME NEW n \in nets
            PROVE  \E g \in Joined(k) : g.members = n.members
        <4>1. PICK w \in Web(k) : Shows(n, k, w)
          BY <2>4
        <4> DEFINE g == [members |-> PinsOf(k, w), names |-> NamesOf(k, w)]
        <4>2. g \in Joined(k) /\ g.members = PinsOf(k, w)
          BY <2>5
        <4> HIDE DEF g
        <4>3. QED
          BY <4>1, <4>2 DEF Shows
      <3>2. ASSUME NEW g \in Joined(k), g.members # {}
            PROVE  \E n \in nets : n.members = g.members
        BY <2>4, <2>5, <3>2 DEF Shows
      <3>3. QED
        BY <3>1, <3>2
    <2>7. \A n \in nets : n.members # {} =>
            \E g \in Joined(k) : /\ g.members = n.members
                                 /\ IF g.names = {} THEN n.name = NoName ELSE n.name \in g.names
      <3>1. TAKE n \in nets
      <3>2. PICK w \in Web(k) : Shows(n, k, w)
        BY <2>4
      <3> DEFINE g == [members |-> PinsOf(k, w), names |-> NamesOf(k, w)]
      <3>3. g \in Joined(k)
        BY <2>5
      <3>4. g.members = PinsOf(k, w) /\ g.names = NamesOf(k, w)
        OBVIOUS
      <3> HIDE DEF g
      <3>5. QED
        BY <3>2, <3>3, <3>4 DEF Shows
    <2> DEFINE paths == {o.path : o \in Unfolded}
               touch(v, w) == v.meets \cap w.meets # {}
               wires == {[wire |-> w, meets |-> Meets(w, paths)] : w \in Wires(Unfolded)}
    <2>8. paths = PathsOf(k) /\ Wires(Unfolded) = Web(k)
      BY <2>3 DEF PathsOf, Web
    <2>9. wires = AllSeen(k)
      BY <2>8 DEF AllSeen, Seen, Meet
    <2> DEFINE parts == Components(wires, touch)
    <2>10. parts = Parts(AllSeen(k), Nearby(k))
      BY <2>9 DEF Components, Nearby
    <2> DEFINE joined == {[members |-> UNION {Pins(w.wire, paths) : w \in G},
                           names   |-> {w.wire.net.name : w \in G} \ {NoName}] : G \in parts}
    <2>11. joined = Joined(k)
      <3> HIDE DEF parts, paths
      <3>1. QED
        BY <2>8, <2>10 DEF Joined
    <2>12. /\ {n.members : n \in nets} \ {{}} = {g.members : g \in joined} \ {{}}
           /\ \A n \in nets : n.members # {} =>
                \E g \in joined : /\ g.members = n.members
                                  /\ IF g.names = {} THEN n.name = NoName ELSE n.name \in g.names
      <3> HIDE DEF joined
      <3>1. QED
        BY <2>6, <2>7, <2>11
    <2>13. QED
      BY <2>12 DEF ConnectivityKept
  <1>2. Init => Faithful /\ Connected
    BY DEF Init, Faithful, Connected, Running
  <1>3. QED
    BY <1>1, <1>2, Start, NextSound, FaithfulNext, ConnectedNext, PTL DEF Spec
=============================================================================
