----------------------------- MODULE Netlist_proofs ----------------------------
(***************************************************************************)
(* For every set of names, every array shape, every number of nets and     *)
(* every sequence of calls: no reference dangles, the physical attributes  *)
(* keep to the instances, an array reference goes out of bounds only when  *)
(* its instance is replaced, and removing instances splits no net: it      *)
(* merges exactly the nets that the removed instances connected.           *)
(***************************************************************************)
EXTENDS Netlist, FiniteSetTheorems, SequenceTheorems, Components_proofs

(* The locals of remove_instances are unused outside their loop, and the    *)
(* instances of the names it has passed are gone, the one whose nets it is *)
(* draining included.                                                      *)
LocalsReset ==
  /\ pc # "drain" => surviving = << >> /\ merged = Empty /\ mergedName = NoName
  /\ pc = "idle" => names = << >> /\ before = << >>
  /\ \A x \in DOMAIN names : x < k \/ (x = k /\ pc = "drain") => names[x] \notin DOMAIN instances

IInv == TypeOK /\ LocalsReset /\ NoDangling /\ ExtrasMatch /\ NoneSplit

(* What a step adds to nets: lists related by moving, appending and taking *)
(* the first are sequences of the same kind.                               *)
LEMMA HeadTail ==
  ASSUME NEW S, NEW s \in Seq(S), s # << >>
  PROVE  /\ Head(s) \in S /\ Head(s) = s[1] /\ 1 \in DOMAIN s
         /\ Tail(s) \in Seq(S)
         /\ \A j \in DOMAIN Tail(s) : j + 1 \in DOMAIN s /\ Tail(s)[j] = s[j + 1]
         /\ \A j \in DOMAIN s : j # 1 => j - 1 \in DOMAIN Tail(s) /\ Tail(s)[j - 1] = s[j]
  OBVIOUS

LEMMA Appended ==
  ASSUME NEW S, NEW s \in Seq(S), NEW e \in S
  PROVE  /\ Append(s, e) \in Seq(S)
         /\ Len(s) + 1 \in DOMAIN Append(s, e) /\ Append(s, e)[Len(s) + 1] = e
         /\ \A j \in DOMAIN s : j \in DOMAIN Append(s, e) /\ Append(s, e)[j] = s[j]
         /\ \A j \in DOMAIN Append(s, e) : j \in DOMAIN s \/ j = Len(s) + 1
  OBVIOUS

(* A bag made from a request holds what the request resolves, only.        *)
LEMMA BagFacts ==
  ASSUME NEW request \in Requests
  PROVE  /\ BagOf(request) \in Bags
         /\ \A m \in Member : BagOf(request)[m] > 0 =>
              \E i \in DOMAIN request : Canonical(request[i]) = m
  <1> DEFINE At(m) == {i \in DOMAIN request : Canonical(request[i]) = m}
  <1>1. request \in Seq(PortMembers \cup RefMembers \cup ArrayMembers)
    BY NetlistAssumption
  <1>2. IsFiniteSet(DOMAIN request)
    <2>1. Len(request) \in Nat /\ DOMAIN request = 1 .. Len(request)
      BY <1>1
    <2>2. QED
      BY <2>1, FS_Interval
  <1>3. \A m \in Member : Cardinality(At(m)) \in Nat
    <2>1. \A m \in Member : At(m) \subseteq DOMAIN request
      OBVIOUS
    <2>2. QED
      BY <1>2, <2>1, FS_Subset, FS_CardinalityType
  <1>4. \A m \in Member : At(m) = {} => Cardinality(At(m)) = 0
    BY FS_EmptySet
  <1>5. \A m \in Member : BagOf(request)[m] = Cardinality(At(m))
    BY DEF BagOf
  <1>6. BagOf(request) \in Bags
    BY <1>3 DEF BagOf, Bags
  <1>7. \A m \in Member : BagOf(request)[m] > 0 => At(m) # {}
    <2> SUFFICES ASSUME NEW m \in Member, BagOf(request)[m] > 0, At(m) = {} PROVE FALSE
      OBVIOUS
    <2>1. BagOf(request)[m] = 0
      BY <1>4, <1>5
    <2>2. QED
      BY <2>1
  <1>8. QED
    BY <1>6, <1>7

(* What Resolves says of a request holds of what is stored for it.         *)
LEMMA ResolvedExists ==
  ASSUME NEW request \in Requests, NEW i \in DOMAIN request, Resolves(request[i]),
         NEW m \in Member, Canonical(request[i]) = m
  PROVE  Exists(m) /\ (m[1] = 2 => InArray(m))
  <1> DEFINE r == request[i]
  <1>1. r \in PortMembers \cup RefMembers \cup ArrayMembers
    BY NetlistAssumption
  <1> HIDE DEF r
  <1>2. CASE r[1] = 2 /\ IsFirst(r)
    <2>1. m = <<1, r[2], r[3]>>
      BY <1>2 DEF r, Canonical
    <2>2. r[2] \in DOMAIN instances
      BY <1>2 DEF r, Resolves
    <2>3. QED
      BY <2>1, <2>2 DEF Exists
  <1>3. CASE ~ (r[1] = 2 /\ IsFirst(r))
    <2>1. m = r
      BY <1>3 DEF r, Canonical
    <2>2. QED
      BY <1>3, <2>1 DEF r, Resolves, Exists
  <1>4. QED
    BY <1>2, <1>3
--------------------------------------------------------------------------------
THEOREM Typing == Spec => []TypeOK
  <1>1. Init => TypeOK
    BY DEF Init, TypeOK, Empty, Bags
  <1>2. TypeOK /\ [Next]_vars => TypeOK'
    <2> SUFFICES ASSUME TypeOK, [Next]_vars PROVE TypeOK'
      OBVIOUS
    <2> USE DEF TypeOK
    <2>1. ASSUME NEW p \in TopPort, CreatePort(p) PROVE TypeOK'
      BY <2>1 DEF CreatePort, locals
    <2>2. ASSUME NEW i \in Inst, NEW na \in Dim, NEW nb \in Dim, CreateInst(i, na, nb)
          PROVE  TypeOK'
      <3>1. na \in Int /\ nb \in Int
        BY NetlistAssumption
      <3>2. Array(na, nb) = NoArray \/ Array(na, nb) \in (Nat \ {0}) \X (Nat \ {0})
        BY <2>2, <3>1 DEF CreateInst, Array
      <3>3. DOMAIN instances' = DOMAIN instances \cup {i}
        BY <2>2 DEF CreateInst
      <3>4. \A j \in DOMAIN instances' : instances'[j] = IF j = i THEN Array(na, nb) ELSE instances[j]
        BY <2>2 DEF CreateInst
      <3>5. QED
        BY <2>2, <3>2, <3>3, <3>4 DEF CreateInst, locals
    <2>3. ASSUME NEW request \in Requests, NEW name \in NetName \cup {NoName},
                 CreateNet(request, name)
          PROVE  TypeOK'
      <3>1. [members |-> BagOf(request), name |-> name] \in Nets
        BY BagFacts DEF Nets
      <3>2. QED
        BY <2>3, <3>1 DEF CreateNet, locals
    <2>4. ASSUME Sort PROVE TypeOK'
      <3>1. PICK p \in [DOMAIN nets -> DOMAIN nets] : nets' = [i \in DOMAIN nets |-> nets[p[i]]]
        BY <2>4 DEF Sort
      <3>2. Len(nets) \in Nat /\ DOMAIN nets = 1 .. Len(nets) /\ \A i \in DOMAIN nets : nets[i] \in Nets
        OBVIOUS
      <3>3. nets' \in [1 .. Len(nets) -> Nets]
        BY <3>1, <3>2
      <3>4. nets' \in Seq(Nets)
        BY <3>2, <3>3
      <3>5. QED
        BY <2>4, <3>4 DEF Sort, locals
    <2>5. ASSUME NEW list \in Removals, StartRemove(list) PROVE TypeOK'
      <3>1. list \in Seq(Inst)
        BY NetlistAssumption
      <3>2. k' \in 1 .. Len(list) + 1
        BY <2>5, <3>1 DEF StartRemove
      <3>3. QED
        BY <2>5, <3>1, <3>2 DEF StartRemove
    <2>6. ASSUME SkipName PROVE TypeOK'
      BY <2>6 DEF SkipName, NextK
    <2>7. ASSUME RemoveName PROVE TypeOK'
      BY <2>7 DEF RemoveName, locals
    <2>8. ASSUME DrainOther PROVE TypeOK'
      BY <2>8, HeadTail DEF DrainOther
    <2>9. ASSUME DrainTouching PROVE TypeOK'
      <3>1. Head(nets) \in Nets /\ nets' \in Seq(Nets)
        BY <2>9, HeadTail DEF DrainTouching
      <3>2. merged' \in Bags
        BY <2>9, <3>1 DEF DrainTouching, Kept, Nets, Bags
      <3>3. mergedName' \in NetName \cup {NoName}
        BY <2>9, <3>1 DEF DrainTouching, FirstName, Nets
      <3>4. QED
        BY <2>9, <3>1, <3>2, <3>3 DEF DrainTouching
    <2>10. ASSUME EndPass PROVE TypeOK'
      <3>1. [members |-> merged, name |-> mergedName] \in Nets
        BY DEF Nets
      <3>2. Collected \in Seq(Nets)
        BY <3>1, Appended DEF Collected
      <3>3. k' \in 1 .. Len(names') + 1
        BY <2>10 DEF EndPass, NextK
      <3>4. merged' \in Bags
        BY <2>10 DEF EndPass, Empty, Bags
      <3>5. QED
        BY <2>10, <3>2, <3>3, <3>4 DEF EndPass
    <2>11. ASSUME ReturnRemove PROVE TypeOK'
      BY <2>11 DEF ReturnRemove, Purged
    <2>12. CASE UNCHANGED vars
      BY <2>12 DEF vars, locals
    <2>13. QED
      BY <2>1, <2>2, <2>3, <2>4, <2>5, <2>6, <2>7, <2>8, <2>9, <2>10, <2>11, <2>12
         DEF Next, Editing, Removing
  <1>3. QED
    BY <1>1, <1>2, PTL DEF Spec
--------------------------------------------------------------------------------
(* What exists stays, but for the instance being removed.                  *)
LEMMA ExistsStays ==
  ASSUME NEW m, Exists(m), ports \subseteq ports', DOMAIN instances \subseteq DOMAIN instances'
  PROVE  Exists(m)'
  BY DEF Exists

LEMMA ExistsSame ==
  ASSUME NEW m, UNCHANGED <<ports, instances>>
  PROVE  Exists(m)' <=> Exists(m)
  BY DEF Exists

(* LocalsReset is kept by every step.                                      *)
LEMMA LocalsResetStep ==
  ASSUME TypeOK, LocalsReset, [Next]_vars
  PROVE  LocalsReset'
  <1> USE DEF LocalsReset
  <1>1. ASSUME NEW p \in TopPort, CreatePort(p) PROVE LocalsReset'
    BY <1>1 DEF CreatePort, locals
  <1>2. ASSUME NEW i \in Inst, NEW na \in Dim, NEW nb \in Dim, CreateInst(i, na, nb)
        PROVE  LocalsReset'
    <2>1. names' = << >> /\ DOMAIN names' = {}
      BY <1>2 DEF CreateInst, locals
    <2>2. QED
      BY <1>2, <2>1 DEF CreateInst, locals
  <1>3. ASSUME NEW request \in Requests, NEW name \in NetName \cup {NoName},
               CreateNet(request, name)
        PROVE  LocalsReset'
    BY <1>3 DEF CreateNet, locals
  <1>4. ASSUME Sort PROVE LocalsReset'
    BY <1>4 DEF Sort, locals
  <1>5. ASSUME NEW list \in Removals, StartRemove(list) PROVE LocalsReset'
    <2>1. list \in Seq(Inst)
      BY NetlistAssumption
    <2>2. \A x \in DOMAIN list : ~ x < 1
      BY <2>1
    <2>3. QED
      BY <1>5, <2>2 DEF StartRemove
  <1>6. ASSUME SkipName PROVE LocalsReset'
    <2>1. \A x \in DOMAIN names : x < k + 1 => x < k \/ x = k
      BY DEF TypeOK
    <2>2. QED
      BY <1>6, <2>1 DEF SkipName, NextK
  <1>7. ASSUME RemoveName PROVE LocalsReset'
    <2>1. DOMAIN instances' = DOMAIN instances \ {names[k]}
      BY <1>7 DEF RemoveName
    <2>2. QED
      BY <1>7, <2>1 DEF RemoveName, locals
  <1>8. ASSUME DrainOther PROVE LocalsReset'
    BY <1>8 DEF DrainOther
  <1>9. ASSUME DrainTouching PROVE LocalsReset'
    BY <1>9 DEF DrainTouching
  <1>10. ASSUME EndPass PROVE LocalsReset'
    <2>1. \A x \in DOMAIN names : x < k + 1 => x < k \/ x = k
      BY DEF TypeOK
    <2>2. QED
      BY <1>10, <2>1 DEF EndPass, NextK
  <1>11. ASSUME ReturnRemove PROVE LocalsReset'
    BY <1>11 DEF ReturnRemove
  <1>12. CASE UNCHANGED vars
    BY <1>12 DEF vars, locals
  <1>13. QED
    BY <1>1, <1>2, <1>3, <1>4, <1>5, <1>6, <1>7, <1>8, <1>9, <1>10, <1>11, <1>12
       DEF Next, Editing, Removing

(* So is ExtrasMatch.                                                      *)
LEMMA ExtrasStep ==
  ASSUME TypeOK, LocalsReset, ExtrasMatch, [Next]_vars
  PROVE  ExtrasMatch'
  <1> USE DEF ExtrasMatch, Given
  <1>1. ASSUME NEW p \in TopPort, CreatePort(p) PROVE ExtrasMatch'
    BY <1>1 DEF CreatePort, locals
  <1>2. ASSUME NEW i \in Inst, NEW na \in Dim, NEW nb \in Dim, CreateInst(i, na, nb)
        PROVE  ExtrasMatch'
    <2>1. DOMAIN instances' = DOMAIN instances \cup {i}
      BY <1>2 DEF CreateInst
    <2>2. QED
      BY <1>2, <2>1 DEF CreateInst, locals
  <1>3. ASSUME NEW request \in Requests, NEW name \in NetName \cup {NoName},
               CreateNet(request, name)
        PROVE  ExtrasMatch'
    BY <1>3 DEF CreateNet, locals
  <1>4. ASSUME Sort PROVE ExtrasMatch'
    BY <1>4 DEF Sort, locals
  <1>5. ASSUME NEW list \in Removals, StartRemove(list) PROVE ExtrasMatch'
    <2>1. names = << >> /\ Given = {}
      BY <1>5 DEF StartRemove, LocalsReset, Given
    <2>2. QED
      BY <1>5, <2>1 DEF StartRemove
  <1>6. ASSUME SkipName PROVE ExtrasMatch'
    BY <1>6 DEF SkipName
  <1>7. ASSUME RemoveName PROVE ExtrasMatch'
    <2>1. DOMAIN instances' = DOMAIN instances \ {names[k]}
      BY <1>7 DEF RemoveName
    <2>2. names[k] \in Given
      BY <1>7 DEF RemoveName, TypeOK
    <2>3. QED
      BY <1>7, <2>1, <2>2 DEF RemoveName, locals
  <1>8. ASSUME DrainOther PROVE ExtrasMatch'
    BY <1>8 DEF DrainOther
  <1>9. ASSUME DrainTouching PROVE ExtrasMatch'
    BY <1>9 DEF DrainTouching
  <1>10. ASSUME EndPass PROVE ExtrasMatch'
    BY <1>10 DEF EndPass
  <1>11. ASSUME ReturnRemove PROVE ExtrasMatch'
    <2>1. \A x \in DOMAIN names : names[x] \notin DOMAIN instances
      BY <1>11 DEF ReturnRemove, LocalsReset, TypeOK
    <2>2. QED
      BY <1>11, <2>1 DEF ReturnRemove, Purged
  <1>12. CASE UNCHANGED vars
    BY <1>12 DEF vars, locals
  <1>13. QED
    BY <1>1, <1>2, <1>3, <1>4, <1>5, <1>6, <1>7, <1>8, <1>9, <1>10, <1>11, <1>12
       DEF Next, Editing, Removing
--------------------------------------------------------------------------------
LEMMA MemberOn ==
  ASSUME NEW m \in Member, NEW i, On(m, i), i \notin DOMAIN instances
  PROVE  ~ Exists(m)
  BY DEF On, Exists

(* A bag is still sound when nothing has gone.                             *)
LEMMA SoundStays ==
  ASSUME NEW b, Sound(b), ports \subseteq ports', DOMAIN instances \subseteq DOMAIN instances'
  PROVE  \A m \in Member : b[m] > 0 => Exists(m)'
  BY ExistsStays DEF Sound

(* NoDangling from its three parts, when what exists grows or stays and    *)
(* the calls is not left draining.                                         *)
LEMMA NotDraining ==
  ASSUME NoDangling, pc # "drain"
  PROVE  \A j \in DOMAIN nets : Sound(nets[j].members)
  BY DEF NoDangling, SoundOr, Sound

LEMMA Counts ==
  ASSUME NEW s \in Seq(Nets), NEW j \in DOMAIN s, NEW m \in Member
  PROVE  s[j].members[m] \in Nat
  <1>1. s[j] \in Nets
    OBVIOUS
  <1>2. s[j].members \in Bags
    BY <1>1 DEF Nets
  <1>3. QED
    BY <1>2 DEF Bags

LEMMA KeptBag ==
  ASSUME TypeOK, nets # << >>
  PROVE  /\ Kept(Head(nets).members, names[k]) \in Bags
         /\ \A m \in Member : Kept(Head(nets).members, names[k])[m] =
                                IF On(m, names[k]) THEN 0 ELSE Head(nets).members[m]
  <1> DEFINE b == Head(nets).members
  <1>1. \A m \in Member : b[m] \in Nat
    BY HeadTail, Counts DEF TypeOK
  <1>2. \A m \in Member : Kept(b, names[k])[m] = IF On(m, names[k]) THEN 0 ELSE b[m]
    BY DEF Kept
  <1>3. Kept(b, names[k]) = [m \in Member |-> Kept(b, names[k])[m]]
    BY DEF Kept
  <1> HIDE DEF b
  <1>4. Kept(b, names[k]) \in Bags
    BY <1>1, <1>2, <1>3 DEF Bags
  <1>5. QED
    BY <1>2, <1>4 DEF b

LEMMA NoDanglingStep ==
  ASSUME TypeOK, LocalsReset, NoDangling, [Next]_vars
  PROVE  NoDangling'
  <1>1. ASSUME pc # "drain", pc' # "drain", UNCHANGED <<surviving, merged>>,
               ports \subseteq ports', DOMAIN instances \subseteq DOMAIN instances',
               \A j \in DOMAIN nets' : \A m \in Member : nets'[j].members[m] > 0 => Exists(m)'
        PROVE  NoDangling'
    <2>1. \A m \in Member : merged[m] > 0 => Exists(m)'
      BY <1>1, SoundStays DEF NoDangling
    <2>2. \A j \in DOMAIN surviving : \A m \in Member : surviving[j].members[m] > 0 => Exists(m)'
      BY <1>1, SoundStays DEF NoDangling
    <2>3. QED
      BY <1>1, <2>1, <2>2 DEF NoDangling, SoundOr, Sound
  <1>2. ASSUME pc # "drain", pc' # "drain", UNCHANGED <<surviving, merged, nets>>,
               ports \subseteq ports', DOMAIN instances \subseteq DOMAIN instances'
        PROVE  NoDangling'
    <2>1. \A j \in DOMAIN nets : \A m \in Member : nets[j].members[m] > 0 => Exists(m)'
      BY <1>2, NotDraining, SoundStays
    <2>2. QED
      BY <1>1, <1>2, <2>1
  <1>3. ASSUME NEW p \in TopPort, CreatePort(p) PROVE NoDangling'
    BY <1>2, <1>3 DEF CreatePort, locals
  <1>4. ASSUME NEW i \in Inst, NEW na \in Dim, NEW nb \in Dim, CreateInst(i, na, nb)
        PROVE  NoDangling'
    <2>1. DOMAIN instances' = DOMAIN instances \cup {i}
      BY <1>4 DEF CreateInst
    <2>2. QED
      BY <1>2, <1>4, <2>1 DEF CreateInst, locals
  <1>5. ASSUME NEW request \in Requests, NEW name \in NetName \cup {NoName},
               CreateNet(request, name)
        PROVE  NoDangling'
    <2> DEFINE n == [members |-> BagOf(request), name |-> name]
    <2>1. n \in Nets /\ n.members = BagOf(request)
      BY BagFacts DEF Nets
    <2> HIDE DEF n
    <2>2. \A m \in Member : n.members[m] > 0 => Exists(m)
      <3> SUFFICES ASSUME NEW m \in Member, n.members[m] > 0 PROVE Exists(m)
        OBVIOUS
      <3>1. PICK i \in DOMAIN request : Canonical(request[i]) = m
        BY <2>1, BagFacts
      <3>2. Resolves(request[i])
        BY <1>5 DEF CreateNet
      <3>3. QED
        BY <3>1, <3>2, ResolvedExists
    <2>3. UNCHANGED <<instances, ports, pc, surviving, merged>> /\ nets' = Append(nets, n) /\ pc = "idle"
      BY <1>5 DEF CreateNet, locals, n
    <2>4. \A m \in Member : Exists(m)' <=> Exists(m)
      BY <2>3, ExistsSame
    <2>5. nets \in Seq(Nets)
      BY DEF TypeOK
    <2>6. \A j \in DOMAIN nets' : \A m \in Member : nets'[j].members[m] > 0 => Exists(m)
      <3> SUFFICES ASSUME NEW j \in DOMAIN nets', NEW m \in Member, nets'[j].members[m] > 0
                   PROVE  Exists(m)
        OBVIOUS
      <3>1. CASE j \in DOMAIN nets
        <4>1. nets'[j] = nets[j]
          BY <2>1, <2>3, <2>5, <3>1, Appended
        <4>2. QED
          BY <2>3, <3>1, <4>1, NotDraining DEF Sound
      <3>2. CASE j \notin DOMAIN nets
        <4>1. nets'[j] = n
          BY <2>1, <2>3, <2>5, <3>2, Appended
        <4>2. QED
          BY <2>2, <4>1
      <3>3. QED
        BY <3>1, <3>2
    <2>7. QED
      BY <1>1, <2>3, <2>4, <2>6
  <1>6. ASSUME Sort PROVE NoDangling'
    <2>1. PICK p \in [DOMAIN nets -> DOMAIN nets] : nets' = [i \in DOMAIN nets |-> nets[p[i]]]
      BY <1>6 DEF Sort
    <2>2. UNCHANGED <<instances, ports, pc, surviving, merged>> /\ pc = "idle"
      BY <1>6 DEF Sort, locals
    <2>3. \A j \in DOMAIN nets' : p[j] \in DOMAIN nets /\ nets'[j] = nets[p[j]]
      BY <2>1
    <2>4. \A m \in Member : Exists(m)' <=> Exists(m)
      BY <2>2, ExistsSame
    <2>5. \A j \in DOMAIN nets' : \A m \in Member : nets'[j].members[m] > 0 => Exists(m)'
      BY <2>2, <2>3, <2>4, NotDraining DEF Sound
    <2>6. QED
      BY <1>1, <2>2, <2>5
  <1>7. ASSUME NEW list \in Removals, StartRemove(list) PROVE NoDangling'
    BY <1>2, <1>7 DEF StartRemove
  <1>8. ASSUME SkipName PROVE NoDangling'
    BY <1>2, <1>8 DEF SkipName
  <1>9. ASSUME RemoveName PROVE NoDangling'
    <2>1. /\ DOMAIN instances' = DOMAIN instances \ {names[k]}
          /\ UNCHANGED <<ports, nets, names, k, surviving, merged>> /\ pc = "next" /\ pc' = "drain"
      BY <1>9 DEF RemoveName, locals
    <2>2. \A m \in Member : Exists(m) => Exists(m)' \/ On(m, names[k])
      BY <2>1 DEF Exists, On
    <2>3. \A j \in DOMAIN nets : Sound(nets[j].members)
      BY <2>1, NotDraining
    <2>4. \A m \in Member : On(m, names[k])' <=> On(m, names[k])
      BY <2>1 DEF On
    <2>5. \A j \in DOMAIN nets' : SoundOr(nets[j].members)'
      BY <2>1, <2>2, <2>3, <2>4 DEF Sound, SoundOr
    <2>6. surviving' = << >> /\ merged' = Empty
      BY <2>1 DEF LocalsReset
    <2>7. Sound(merged)'
      <3>1. \A m \in Member : Empty[m] = 0
        BY DEF Empty
      <3>2. QED
        BY <2>6, <3>1 DEF Sound
    <2>8. QED
      BY <2>1, <2>5, <2>6, <2>7 DEF NoDangling
  <1>10. ASSUME DrainOther PROVE NoDangling'
    <2>1. /\ UNCHANGED <<instances, ports, pc, names, k, merged>> /\ nets # << >>
          /\ nets' = Tail(nets) /\ surviving' = Append(surviving, Head(nets))
      BY <1>10 DEF DrainOther
    <2>2. /\ nets \in Seq(Nets) /\ surviving \in Seq(Nets)
      BY DEF TypeOK
    <2>3. \A m \in Member : (Exists(m)' <=> Exists(m)) /\ (On(m, names[k])' <=> On(m, names[k]))
      BY <2>1, ExistsSame DEF On
    <2>4. \A m \in Member : Head(nets).members[m] > 0 => Exists(m)
      <3>1. Head(nets) = nets[1] /\ 1 \in DOMAIN nets
        BY <2>1, <2>2, HeadTail
      <3>2. \A m \in Member : Head(nets).members[m] > 0 => ~ On(m, names[k])
        BY <1>10 DEF DrainOther, Touched, Touches
      <3>3. QED
        BY <3>1, <3>2 DEF NoDangling, SoundOr
    <2>5. \A j \in DOMAIN nets' : SoundOr(nets[j].members)'
      <3>1. \A j \in DOMAIN nets' : j + 1 \in DOMAIN nets /\ nets'[j] = nets[j + 1]
        BY <2>1, <2>2, HeadTail
      <3>2. QED
        BY <2>1, <2>3, <3>1 DEF NoDangling, SoundOr
    <2>6. \A j \in DOMAIN surviving' : Sound(surviving[j].members)'
      <3> SUFFICES ASSUME NEW j \in DOMAIN surviving' PROVE Sound(surviving[j].members)'
        OBVIOUS
      <3>1. (j \in DOMAIN surviving /\ surviving'[j] = surviving[j]) \/ surviving'[j] = Head(nets)
        BY <2>1, <2>2, HeadTail, Appended
      <3>2. QED
        BY <2>3, <2>4, <3>1 DEF NoDangling, Sound
    <2>7. Sound(merged)'
      BY <2>1, <2>3 DEF NoDangling, Sound
    <2>8. QED
      BY <2>5, <2>6, <2>7 DEF NoDangling
  <1>11. ASSUME DrainTouching PROVE NoDangling'
    <2> DEFINE h == Kept(Head(nets).members, names[k])
    <2>1. /\ UNCHANGED <<instances, ports, pc, names, k, surviving>> /\ nets # << >>
          /\ nets' = Tail(nets) /\ merged' = [m \in Member |-> merged[m] + h[m]]
      BY <1>11 DEF DrainTouching
    <2>2. nets \in Seq(Nets) /\ merged \in Bags
      BY DEF TypeOK
    <2>3. \A m \in Member : (Exists(m)' <=> Exists(m)) /\ (On(m, names[k])' <=> On(m, names[k]))
      BY <2>1, ExistsSame DEF On
    <2>4. h \in Bags /\ \A m \in Member : h[m] = IF On(m, names[k]) THEN 0 ELSE Head(nets).members[m]
      BY <2>1, KeptBag
    <2> HIDE DEF h
    <2>5. \A m \in Member : h[m] > 0 => Exists(m)
      <3>1. Head(nets) = nets[1] /\ 1 \in DOMAIN nets
        BY <2>1, <2>2, HeadTail
      <3>2. QED
        BY <2>4, <3>1 DEF NoDangling, SoundOr
    <2>6. \A j \in DOMAIN nets' : SoundOr(nets[j].members)'
      <3>1. \A j \in DOMAIN nets' : j + 1 \in DOMAIN nets /\ nets'[j] = nets[j + 1]
        BY <2>1, <2>2, HeadTail
      <3>2. QED
        BY <2>1, <2>3, <3>1 DEF NoDangling, SoundOr
    <2>7. \A j \in DOMAIN surviving' : Sound(surviving[j].members)'
      BY <2>1, <2>3 DEF NoDangling, Sound
    <2>8. Sound(merged)'
      <3> SUFFICES ASSUME NEW m \in Member, merged'[m] > 0 PROVE Exists(m)'
        BY DEF Sound
      <3>1. merged[m] \in Nat /\ h[m] \in Nat /\ merged'[m] = merged[m] + h[m]
        BY <2>1, <2>2, <2>4 DEF Bags
      <3>2. merged[m] > 0 \/ h[m] > 0
        BY <3>1
      <3>3. QED
        BY <2>3, <2>5, <3>2 DEF NoDangling, Sound
    <2>9. QED
      BY <2>6, <2>7, <2>8 DEF NoDangling
  <1>12. ASSUME EndPass PROVE NoDangling'
    <2>1. /\ UNCHANGED <<instances, ports>> /\ nets' = Collected /\ surviving' = << >> /\ merged' = Empty
      BY <1>12 DEF EndPass
    <2>2. surviving \in Seq(Nets) /\ [members |-> merged, name |-> mergedName] \in Nets
      BY DEF TypeOK, Nets
    <2>3. \A m \in Member : Exists(m)' <=> Exists(m)
      BY <2>1, ExistsSame
    <2>4. \A j \in DOMAIN nets' : (j \in DOMAIN surviving /\ nets'[j] = surviving[j])
                                    \/ nets'[j].members = merged
      BY <2>1, <2>2, Appended DEF Collected
    <2>5. \A j \in DOMAIN nets' : SoundOr(nets[j].members)'
      BY <2>3, <2>4 DEF NoDangling, Sound, SoundOr
    <2>6. Sound(merged)'
      <3>1. \A m \in Member : Empty[m] = 0
        BY DEF Empty
      <3>2. QED
        BY <2>1, <3>1 DEF Sound
    <2>7. QED
      BY <2>1, <2>5, <2>6 DEF NoDangling
  <1>13. ASSUME ReturnRemove PROVE NoDangling'
    BY <1>2, <1>13 DEF ReturnRemove
  <1>14. CASE UNCHANGED vars
    <2>1. \A m \in Member : (Exists(m)' <=> Exists(m)) /\ (On(m, names[k])' <=> On(m, names[k]))
      BY <1>14, ExistsSame DEF On, vars, locals
    <2>2. QED
      BY <1>14, <2>1 DEF vars, locals, NoDangling, Sound, SoundOr
  <1>15. QED
    BY <1>3, <1>4, <1>5, <1>6, <1>7, <1>8, <1>9, <1>10, <1>11, <1>12, <1>13, <1>14
       DEF Next, Editing, Removing
--------------------------------------------------------------------------------
(* Holding the survivors of a net: what holds keeps holding when more goes *)
(* and the bag grows.                                                      *)
LEMMA HoldsStays ==
  ASSUME NEW b, NEW name, NEW n, Holds(b, name, n),
         \A m \in Member : Exists(m)' => Exists(m)
  PROVE  Holds(b, name, n)'
  BY DEF Holds, Gone

LEMMA VanishedStays ==
  ASSUME NEW n, Vanished(n), \A m \in Member : Exists(m)' => Exists(m)
  PROVE  Vanished(n)'
  BY DEF Vanished, Gone

LEMMA NoneSplitStep ==
  ASSUME TypeOK, LocalsReset, NoneSplit, [Next]_vars
  PROVE  NoneSplit'
  <1>1. ASSUME pc = "idle", UNCHANGED before PROVE NoneSplit'
    BY <1>1 DEF LocalsReset, NoneSplit
  <1>2. ASSUME UNCHANGED <<before, nets, surviving, merged, mergedName>>,
               \A m \in Member : Exists(m)' => Exists(m)
        PROVE  NoneSplit'
    <2> SUFFICES ASSUME NEW x \in DOMAIN before
                 PROVE  \/ Vanished(before[x])'
                        \/ \E j \in DOMAIN nets : Holds(nets[j].members, nets[j].name, before[x])'
                        \/ \E j \in DOMAIN surviving : Holds(surviving[j].members, surviving[j].name, before[x])'
                        \/ Holds(merged, mergedName, before[x])'
      BY <1>2 DEF NoneSplit
    <2> USE <1>2
    <2>1. CASE Vanished(before[x])
      BY <2>1, VanishedStays DEF Vanished, Gone
    <2>2. CASE \E j \in DOMAIN nets : Holds(nets[j].members, nets[j].name, before[x])
      BY <2>2 DEF Holds, Gone
    <2>3. CASE \E j \in DOMAIN surviving : Holds(surviving[j].members, surviving[j].name, before[x])
      BY <2>3 DEF Holds, Gone
    <2>4. CASE Holds(merged, mergedName, before[x])
      BY <2>4 DEF Holds, Gone
    <2>5. QED
      BY <2>1, <2>2, <2>3, <2>4 DEF NoneSplit
  <1>3. ASSUME NEW p \in TopPort, CreatePort(p) PROVE NoneSplit'
    BY <1>1, <1>3 DEF CreatePort, locals
  <1>4. ASSUME NEW i \in Inst, NEW na \in Dim, NEW nb \in Dim, CreateInst(i, na, nb)
        PROVE  NoneSplit'
    BY <1>1, <1>4 DEF CreateInst, locals
  <1>5. ASSUME NEW request \in Requests, NEW name \in NetName \cup {NoName},
               CreateNet(request, name)
        PROVE  NoneSplit'
    BY <1>1, <1>5 DEF CreateNet, locals
  <1>6. ASSUME Sort PROVE NoneSplit'
    BY <1>1, <1>6 DEF Sort, locals
  <1>7. ASSUME NEW list \in Removals, StartRemove(list) PROVE NoneSplit'
    <2>1. before' = nets /\ nets' = nets
      BY <1>7 DEF StartRemove
    <2>2. \A j \in DOMAIN nets : \A m \in Member : nets[j].members[m] \in Nat
      BY Counts DEF TypeOK
    <2>3. \A j \in DOMAIN nets : \A m \in Member : nets[j].members[m] >= nets[j].members[m]
      BY <2>2
    <2>4. \A x \in DOMAIN before' : Holds(nets[x].members, nets[x].name, before[x])'
      BY <2>1, <2>3 DEF Holds
    <2>5. QED
      BY <2>1, <2>4 DEF NoneSplit
  <1>8. ASSUME SkipName PROVE NoneSplit'
    <2>1. UNCHANGED <<before, nets, surviving, merged, mergedName, ports, instances>>
      BY <1>8 DEF SkipName
    <2>2. QED
      BY <1>2, <2>1, ExistsSame
  <1>9. ASSUME RemoveName PROVE NoneSplit'
    <2>1. /\ UNCHANGED <<before, nets, surviving, merged, mergedName, ports>>
          /\ DOMAIN instances' \subseteq DOMAIN instances
      BY <1>9 DEF RemoveName, locals
    <2>2. \A m \in Member : Exists(m)' => Exists(m)
      BY <2>1 DEF Exists
    <2>3. QED
      BY <1>2, <2>1, <2>2
  <1>10. ASSUME DrainOther PROVE NoneSplit'
    <2>1. /\ UNCHANGED <<before, merged, mergedName, ports, instances>> /\ nets # << >>
          /\ nets' = Tail(nets) /\ surviving' = Append(surviving, Head(nets))
      BY <1>10 DEF DrainOther
    <2>2. \A m \in Member : Exists(m)' <=> Exists(m)
      BY <2>1, ExistsSame
    <2>3. /\ \A j \in DOMAIN nets : j # 1 => j - 1 \in DOMAIN nets' /\ nets'[j - 1] = nets[j]
          /\ Head(nets) = nets[1] /\ Head(nets) \in Nets
      BY <2>1, HeadTail DEF TypeOK
    <2>4. /\ \A j \in DOMAIN surviving : j \in DOMAIN surviving' /\ surviving'[j] = surviving[j]
          /\ Len(surviving) + 1 \in DOMAIN surviving' /\ surviving'[Len(surviving) + 1] = Head(nets)
      BY <2>1, <2>3, Appended DEF TypeOK
    <2> SUFFICES ASSUME NEW x \in DOMAIN before
                 PROVE  \/ Vanished(before[x])'
                        \/ \E j \in DOMAIN nets' : Holds(nets[j].members, nets[j].name, before[x])'
                        \/ \E j \in DOMAIN surviving' : Holds(surviving[j].members, surviving[j].name, before[x])'
                        \/ Holds(merged, mergedName, before[x])'
      BY <2>1 DEF NoneSplit
    <2>5. CASE Vanished(before[x])
      BY <2>1, <2>2, <2>5 DEF Vanished, Gone
    <2>6. CASE \E j \in DOMAIN nets : Holds(nets[j].members, nets[j].name, before[x])
      <3>1. PICK j \in DOMAIN nets : Holds(nets[j].members, nets[j].name, before[x])
        BY <2>6
      <3>2. CASE j = 1
        <4>1. PICK l \in DOMAIN surviving' : surviving'[l] = Head(nets)
          BY <2>4
        <4>2. Holds(surviving'[l].members, surviving'[l].name, before[x])
          BY <2>3, <3>1, <3>2, <4>1
        <4>3. Holds(surviving[l].members, surviving[l].name, before[x])'
          BY <2>1, <2>2, <4>2 DEF Holds, Gone
        <4>4. QED
          BY <4>3
      <3>3. CASE j # 1
        <4>1. Holds(nets'[j - 1].members, nets'[j - 1].name, before[x])
          BY <2>3, <3>1, <3>3
        <4>2. Holds(nets[j - 1].members, nets[j - 1].name, before[x])'
          BY <2>1, <2>2, <4>1 DEF Holds, Gone
        <4>3. QED
          BY <2>3, <3>3, <4>2
      <3>4. QED
        BY <3>2, <3>3
    <2>7. CASE \E j \in DOMAIN surviving : Holds(surviving[j].members, surviving[j].name, before[x])
      <3>1. PICK j \in DOMAIN surviving : Holds(surviving[j].members, surviving[j].name, before[x])
        BY <2>7
      <3>2. Holds(surviving[j].members, surviving[j].name, before[x])'
        BY <2>1, <2>2, <2>4, <3>1 DEF Holds, Gone
      <3>3. QED
        BY <2>4, <3>2
    <2>8. CASE Holds(merged, mergedName, before[x])
      BY <2>1, <2>2, <2>8 DEF Holds, Gone
    <2>9. QED
      BY <2>5, <2>6, <2>7, <2>8 DEF NoneSplit
  <1>11. ASSUME DrainTouching PROVE NoneSplit'
    <2> DEFINE h == Kept(Head(nets).members, names[k])
    <2>1. /\ UNCHANGED <<before, surviving, ports, instances>> /\ nets # << >>
          /\ nets' = Tail(nets) /\ merged' = [m \in Member |-> merged[m] + h[m]]
          /\ mergedName' = FirstName(Head(nets).name) /\ pc = "drain"
      BY <1>11 DEF DrainTouching
    <2>2. \A m \in Member : Exists(m)' <=> Exists(m)
      BY <2>1, ExistsSame
    <2>3. /\ \A j \in DOMAIN nets : j # 1 => j - 1 \in DOMAIN nets' /\ nets'[j - 1] = nets[j]
          /\ Head(nets) = nets[1] /\ Head(nets) \in Nets
      BY <2>1, HeadTail DEF TypeOK
    <2>4. h \in Bags /\ \A m \in Member : h[m] = IF On(m, names[k]) THEN 0 ELSE Head(nets).members[m]
      BY <2>1, KeptBag
    <2> HIDE DEF h
    <2>5. \A m \in Member : /\ merged[m] \in Nat /\ h[m] \in Nat /\ merged'[m] = merged[m] + h[m]
                            /\ Head(nets).members[m] \in Nat
      BY <2>1, <2>3, <2>4 DEF TypeOK, Bags, Nets
    <2>6. \A m \in Member : Exists(m) => h[m] = Head(nets).members[m]
      <3>1. names[k] \notin DOMAIN instances
        BY <2>1 DEF TypeOK, LocalsReset
      <3>2. QED
        BY <2>4, <3>1, MemberOn
    <2>7. /\ \A m \in Member : Exists(m) => merged'[m] >= merged[m] /\ merged'[m] >= Head(nets).members[m]
          /\ mergedName # NoName \/ Head(nets).name # NoName => mergedName' # NoName
      BY <2>1, <2>5, <2>6 DEF FirstName
    <2> SUFFICES ASSUME NEW x \in DOMAIN before
                 PROVE  \/ Vanished(before[x])'
                        \/ \E j \in DOMAIN nets' : Holds(nets[j].members, nets[j].name, before[x])'
                        \/ \E j \in DOMAIN surviving' : Holds(surviving[j].members, surviving[j].name, before[x])'
                        \/ Holds(merged, mergedName, before[x])'
      BY <2>1 DEF NoneSplit
    <2>8. \A m \in Member : before[x].members[m] \in Nat
      BY Counts DEF TypeOK
    <2>9. CASE Vanished(before[x])
      BY <2>1, <2>2, <2>9 DEF Vanished, Gone
    <2>10. CASE \E j \in DOMAIN nets : Holds(nets[j].members, nets[j].name, before[x])
      <3>1. PICK j \in DOMAIN nets : Holds(nets[j].members, nets[j].name, before[x])
        BY <2>10
      <3>2. CASE j = 1
        <4>1. \A m \in Member : Exists(m) => Head(nets).members[m] >= before[x].members[m]
          BY <2>3, <3>1, <3>2 DEF Holds, Gone
        <4>2. \A m \in Member : Exists(m) => merged'[m] >= before[x].members[m]
          BY <2>5, <2>7, <2>8, <4>1
        <4>3. before[x].name # NoName => mergedName' # NoName
          BY <2>3, <2>7, <3>1, <3>2 DEF Holds
        <4>4. QED
          BY <2>1, <2>2, <4>2, <4>3 DEF Holds, Gone
      <3>3. CASE j # 1
        <4>1. Holds(nets'[j - 1].members, nets'[j - 1].name, before[x])
          BY <2>3, <3>1, <3>3
        <4>2. Holds(nets[j - 1].members, nets[j - 1].name, before[x])'
          BY <2>1, <2>2, <4>1 DEF Holds, Gone
        <4>3. QED
          BY <2>3, <3>3, <4>2
      <3>4. QED
        BY <3>2, <3>3
    <2>11. CASE \E j \in DOMAIN surviving : Holds(surviving[j].members, surviving[j].name, before[x])
      BY <2>1, <2>2, <2>11 DEF Holds, Gone
    <2>12. CASE Holds(merged, mergedName, before[x])
      <3>1. \A m \in Member : Exists(m) => merged[m] >= before[x].members[m]
        BY <2>12 DEF Holds, Gone
      <3>2. \A m \in Member : Exists(m) => merged'[m] >= before[x].members[m]
        BY <2>5, <2>7, <2>8, <3>1
      <3>3. before[x].name # NoName => mergedName' # NoName
        BY <2>7, <2>12 DEF Holds
      <3>4. QED
        BY <2>1, <2>2, <3>2, <3>3 DEF Holds, Gone
    <2>13. QED
      BY <2>9, <2>10, <2>11, <2>12 DEF NoneSplit
  <1>12. ASSUME EndPass PROVE NoneSplit'
    <2>1. UNCHANGED <<before, ports, instances>> /\ nets = << >> /\ nets' = Collected
      BY <1>12 DEF EndPass
    <2>2. surviving \in Seq(Nets) /\ [members |-> merged, name |-> mergedName] \in Nets
      BY DEF TypeOK, Nets
    <2>3. \A m \in Member : Exists(m)' <=> Exists(m)
      BY <2>1, ExistsSame
    <2>4. \A j \in DOMAIN surviving : j \in DOMAIN nets' /\ nets'[j] = surviving[j]
      BY <2>1, <2>2, Appended DEF Collected
    <2> SUFFICES ASSUME NEW x \in DOMAIN before
                 PROVE  \/ Vanished(before[x])'
                        \/ \E j \in DOMAIN nets' : Holds(nets[j].members, nets[j].name, before[x])'
      BY <2>1 DEF NoneSplit
    <2>5. CASE Vanished(before[x])
      BY <2>1, <2>3, <2>5 DEF Vanished, Gone
    <2>6. CASE \E j \in DOMAIN surviving : Holds(surviving[j].members, surviving[j].name, before[x])
      <3>1. PICK j \in DOMAIN surviving : Holds(surviving[j].members, surviving[j].name, before[x])
        BY <2>6
      <3>2. Holds(nets[j].members, nets[j].name, before[x])'
        BY <2>1, <2>3, <2>4, <3>1 DEF Holds, Gone
      <3>3. QED
        BY <2>4, <3>2
    <2>7. CASE Holds(merged, mergedName, before[x]) /\ merged = Empty
      <3>1. \A m \in Member : before[x].members[m] \in Nat /\ Empty[m] = 0
        BY Counts DEF TypeOK, Empty
      <3>2. \A m \in Member : Exists(m) => Empty[m] >= before[x].members[m]
        BY <2>7 DEF Holds, Gone
      <3>3. \A m \in Member : Exists(m) => before[x].members[m] = 0
        BY <3>1, <3>2
      <3>4. QED
        BY <2>1, <2>3, <3>3 DEF Vanished, Gone
    <2>8. CASE Holds(merged, mergedName, before[x]) /\ merged # Empty
      <3>1. PICK l \in DOMAIN nets' : nets'[l] = [members |-> merged, name |-> mergedName]
        BY <2>1, <2>2, <2>8, Appended DEF Collected
      <3>2. Holds(nets'[l].members, nets'[l].name, before[x])
        BY <2>8, <3>1
      <3>3. Holds(nets[l].members, nets[l].name, before[x])'
        BY <2>1, <2>3, <3>2 DEF Holds, Gone
      <3>4. QED
        BY <3>3
    <2>9. ~ \E j \in DOMAIN nets : Holds(nets[j].members, nets[j].name, before[x])
      BY <2>1
    <2>10. QED
      BY <2>5, <2>6, <2>7, <2>8, <2>9 DEF NoneSplit
  <1>13. ASSUME ReturnRemove PROVE NoneSplit'
    BY <1>13 DEF ReturnRemove, NoneSplit
  <1>14. CASE UNCHANGED vars
    <2>1. UNCHANGED <<before, nets, surviving, merged, mergedName, ports, instances>>
      BY <1>14 DEF vars, locals
    <2>2. QED
      BY <1>2, <2>1, ExistsSame
  <1>15. QED
    BY <1>3, <1>4, <1>5, <1>6, <1>7, <1>8, <1>9, <1>10, <1>11, <1>12, <1>13, <1>14
       DEF Next, Editing, Removing
--------------------------------------------------------------------------------
LEMMA Inductive == Spec => []IInv
  <1>1. Init => LocalsReset /\ NoDangling /\ ExtrasMatch /\ NoneSplit
    <2> SUFFICES ASSUME Init PROVE LocalsReset /\ NoDangling /\ ExtrasMatch /\ NoneSplit
      OBVIOUS
    <2>1. \A m \in Member : Empty[m] = 0
      BY DEF Empty
    <2>2. QED
      BY <2>1 DEF Init, LocalsReset, NoDangling, Sound, ExtrasMatch, Given, NoneSplit
  <1>2. TypeOK /\ LocalsReset /\ NoDangling /\ ExtrasMatch /\ NoneSplit /\ [Next]_vars
          => (LocalsReset /\ NoDangling /\ ExtrasMatch /\ NoneSplit)'
    BY LocalsResetStep, NoDanglingStep, ExtrasStep, NoneSplitStep
  <1>3. QED
    BY <1>1, <1>2, Typing, PTL DEF Spec, IInv

(* References resolve, after every sequence of calls and inside them.      *)
THEOREM References == Spec => []NoDangling
  BY Inductive, PTL DEF IInv

(* The physical attributes are those of the instances.                     *)
THEOREM Attributes == Spec => []ExtrasMatch
  BY Inductive, PTL DEF IInv

(* remove_instances, however many names it is given, leaves what survives  *)
(* of every net together.                                                  *)
THEOREM RemovalKeepsNets == Spec => []NoneSplit
  BY Inductive, PTL DEF IInv

(* Only replacing its instance puts an array reference out of bounds.      *)
THEOREM Bounds == Spec => BoundsBrokenByReplacing
  <1>1. ASSUME TypeOK, NoDangling, LocalsReset, [Next]_vars, NEW m \in Member,
               m[1] = 2, OutOfBounds(m)'
        PROVE  OutOfBounds(m) \/ (m[2] \in DOMAIN instances /\ instances'[m[2]] # instances[m[2]])
    <2> USE <1>1
    <2>1. ASSUME Present(m), DOMAIN instances' \subseteq DOMAIN instances,
                 instances'[m[2]] = instances[m[2]]
          PROVE  OutOfBounds(m)
      BY <2>1 DEF OutOfBounds, InArray
    <2>2. CASE UNCHANGED <<nets, surviving, merged, instances>>
      BY <2>1, <2>2 DEF OutOfBounds, Present
    <2>3. ASSUME NEW i \in Inst, NEW na \in Dim, NEW nb \in Dim, CreateInst(i, na, nb)
          PROVE  OutOfBounds(m) \/ (m[2] \in DOMAIN instances /\ instances'[m[2]] # instances[m[2]])
      <3>1. UNCHANGED <<nets, surviving, merged>> /\ pc = "idle"
        BY <2>3 DEF CreateInst, locals
      <3>2. Present(m)
        BY <3>1 DEF OutOfBounds, Present
      <3>3. m[2] \in DOMAIN instances
        <4>1. Exists(m)
          BY <3>1, <3>2, NotDraining DEF Present, NoDangling, Sound
        <4>2. QED
          BY <4>1 DEF Exists
      <3>4. QED
        BY <3>2, <3>3 DEF OutOfBounds, InArray
    <2>4. ASSUME NEW request \in Requests, NEW name \in NetName \cup {NoName},
                 CreateNet(request, name)
          PROVE  OutOfBounds(m)
      <3> DEFINE n == [members |-> BagOf(request), name |-> name]
      <3>1. n \in Nets /\ n.members = BagOf(request)
        BY BagFacts DEF Nets
      <3> HIDE DEF n
      <3>2. nets' = Append(nets, n) /\ UNCHANGED <<instances, surviving, merged>>
        BY <2>4 DEF CreateNet, locals, n
      <3>3. n.members[m] > 0 => InArray(m)
        <4> SUFFICES ASSUME BagOf(request)[m] > 0 PROVE InArray(m)
          BY <3>1
        <4>1. PICK i \in DOMAIN request : Canonical(request[i]) = m
          BY BagFacts
        <4>2. Resolves(request[i])
          BY <2>4 DEF CreateNet
        <4>3. QED
          BY <4>1, <4>2, ResolvedExists
      <3>4. ~ InArray(m) /\ Present(m)'
        BY <3>2 DEF OutOfBounds, InArray
      <3>5. \A j \in DOMAIN nets' : (j \in DOMAIN nets /\ nets'[j] = nets[j]) \/ nets'[j] = n
        BY <3>1, <3>2, Appended DEF TypeOK
      <3>6. Present(m)
        BY <3>2, <3>3, <3>4, <3>5 DEF Present
      <3>7. QED
        BY <2>1, <3>2, <3>6
    <2>5. ASSUME Sort PROVE OutOfBounds(m)
      <3>1. PICK p \in [DOMAIN nets -> DOMAIN nets] : nets' = [i \in DOMAIN nets |-> nets[p[i]]]
        BY <2>5 DEF Sort
      <3>2. UNCHANGED <<instances, surviving, merged>>
        BY <2>5 DEF Sort, locals
      <3>3. \A j \in DOMAIN nets' : p[j] \in DOMAIN nets /\ nets'[j] = nets[p[j]]
        BY <3>1
      <3>4. Present(m)
        BY <3>2, <3>3 DEF OutOfBounds, Present
      <3>5. QED
        BY <2>1, <3>2, <3>4
    <2>6. ASSUME RemoveName PROVE OutOfBounds(m)
      <3>1. /\ instances' = [i \in DOMAIN instances \ {names[k]} |-> instances[i]]
            /\ UNCHANGED <<nets, surviving, merged>>
        BY <2>6 DEF RemoveName, locals
      <3>2. Present(m) /\ m[2] \in DOMAIN instances'
        BY <3>1 DEF OutOfBounds, Present
      <3>3. DOMAIN instances' \subseteq DOMAIN instances /\ instances'[m[2]] = instances[m[2]]
        BY <3>1, <3>2
      <3>4. QED
        BY <2>1, <3>2, <3>3
    <2>7. ASSUME DrainOther PROVE OutOfBounds(m)
      <3>1. /\ nets' = Tail(nets) /\ surviving' = Append(surviving, Head(nets)) /\ nets # << >>
            /\ UNCHANGED <<instances, merged>>
        BY <2>7 DEF DrainOther
      <3>2. /\ \A j \in DOMAIN nets' : j + 1 \in DOMAIN nets /\ nets'[j] = nets[j + 1]
            /\ 1 \in DOMAIN nets /\ Head(nets) = nets[1] /\ Head(nets) \in Nets
        BY <3>1, HeadTail DEF TypeOK
      <3>3. \A j \in DOMAIN surviving' : (j \in DOMAIN surviving /\ surviving'[j] = surviving[j])
                                           \/ surviving'[j] = nets[1]
        BY <3>1, <3>2, Appended DEF TypeOK
      <3>4. Present(m)
        BY <3>1, <3>2, <3>3 DEF OutOfBounds, Present
      <3>5. QED
        BY <2>1, <3>1, <3>4
    <2>8. ASSUME DrainTouching PROVE OutOfBounds(m)
      <3> DEFINE h == Kept(Head(nets).members, names[k])
      <3>1. /\ nets' = Tail(nets) /\ merged' = [x \in Member |-> merged[x] + h[x]] /\ nets # << >>
            /\ UNCHANGED <<instances, surviving>>
        BY <2>8 DEF DrainTouching
      <3>2. /\ \A j \in DOMAIN nets' : j + 1 \in DOMAIN nets /\ nets'[j] = nets[j + 1]
            /\ 1 \in DOMAIN nets /\ Head(nets) = nets[1]
        BY <3>1, HeadTail DEF TypeOK
      <3>3. h[m] = (IF On(m, names[k]) THEN 0 ELSE nets[1].members[m]) /\ h[m] \in Nat
        BY <3>1, <3>2, KeptBag DEF Bags
      <3> HIDE DEF h
      <3>4. merged'[m] = merged[m] + h[m] /\ merged[m] \in Nat
        BY <3>1 DEF TypeOK, Bags
      <3>5. merged'[m] > 0 => merged[m] > 0 \/ nets[1].members[m] > 0
        BY <3>3, <3>4
      <3>6. Present(m)
        BY <3>1, <3>2, <3>5 DEF OutOfBounds, Present
      <3>7. QED
        BY <2>1, <3>1, <3>6
    <2>9. ASSUME EndPass PROVE OutOfBounds(m)
      <3>1. /\ nets' = Collected /\ surviving' = << >> /\ merged' = Empty
            /\ UNCHANGED instances
        BY <2>9 DEF EndPass
      <3>2. [members |-> merged, name |-> mergedName] \in Nets
        BY DEF TypeOK, Nets
      <3>3. \A j \in DOMAIN nets' : (j \in DOMAIN surviving /\ nets'[j] = surviving[j])
                                      \/ nets'[j].members = merged
        BY <3>1, <3>2, Appended DEF Collected, TypeOK
      <3>4. Empty[m] = 0
        BY DEF Empty
      <3>5. Present(m)
        BY <3>1, <3>3, <3>4 DEF OutOfBounds, Present
      <3>6. QED
        BY <2>1, <3>1, <3>5
    <2>10. QED
      BY <2>2, <2>3, <2>4, <2>5, <2>6, <2>7, <2>8, <2>9
         DEF Next, Editing, Removing, CreatePort, StartRemove, SkipName, ReturnRemove, vars, locals
  <1>2. TypeOK /\ NoDangling /\ LocalsReset /\ [Next]_vars =>
          [\A m \in Member : m[1] = 2 /\ OutOfBounds(m)' =>
             \/ OutOfBounds(m)
             \/ m[2] \in DOMAIN instances /\ instances'[m[2]] # instances[m[2]]]_vars
    BY <1>1
  <1>3. QED
    BY <1>2, Inductive, PTL DEF Spec, BoundsBrokenByReplacing, IInv
--------------------------------------------------------------------------------
(* What remove_instances has done so far.  R are the names it has removed, *)
(* b the nets it was given; a group is a set of positions in b.  Two nets  *)
(* of b are together when a removed instance is on both.                   *)
Together(b, R, x, y) == \E i \in R : Touches(b[x].members, i) /\ Touches(b[y].members, i)
Closed(b, R, C) == \A x \in C : \A y \in DOMAIN b : Together(b, R, x, y) => y \in C

(* Q are the groups: what cannot be left, nor split.                       *)
IsGroups(b, R, Q) ==
  /\ Q \subseteq SUBSET DOMAIN b /\ {} \notin Q
  /\ \A x \in DOMAIN b : \E P \in Q : x \in P
  /\ \A P \in Q : Closed(b, R, P)
  /\ \A P \in Q : \A x \in P : \A C \in SUBSET DOMAIN b :
       x \in C /\ Closed(b, R, C) => P \subseteq C

Units(b, m, P) == UNION {{x} \X (1 .. b[x].members[m]) : x \in P}
Left(b, R, P) ==
  [m \in Member |-> IF \E i \in R : On(m, i) THEN 0 ELSE Cardinality(Units(b, m, P))]
Lost(b, R, P) == Left(b, R, P) = Empty /\ \E x \in P : Together(b, R, x, x)

Cuts(b, P, i)   == \E x \in P : Touches(b[x].members, i)
Uncut(b, R, P)  == \A i \in R : ~ Cuts(b, P, i)
Named(b, P)     == {x \in P : b[x].name # NoName}
First(b, P, x)  == \A y \in Named(b, P) : x <= y

(* The name of a net made of P, n: that of its first net when one instance *)
(* has merged it.                                                          *)
Calls(b, R, P, n) ==
  \/ Named(b, P) = {} /\ n = NoName
  \/ \E x \in Named(b, P) :
       /\ n = b[x].name
       /\ (\E i \in R : \A j \in R : Cuts(b, P, j) <=> j = i) \/ Uncut(b, R, P) => First(b, P, x)

(* The nets of a list are what is left of different groups, under one of   *)
(* their names, and those nothing has merged are in their old order.       *)
Stand(b, R, Q, list, g) ==
  /\ g \in [DOMAIN list -> Q]
  /\ \A j, l \in DOMAIN list : g[j] = g[l] => j = l
  /\ \A j \in DOMAIN list : list[j].members = Left(b, R, g[j]) /\ Calls(b, R, g[j], list[j].name)
Precede(b, R, P, S) ==
  Uncut(b, R, P) /\ Uncut(b, R, S) => \A x \in P, y \in S : x < y
InOrder(b, R, list, g) ==
  \A j, l \in DOMAIN list : j < l => Precede(b, R, g[j], g[l])

Between(b, R, list, Q, g) ==
  /\ IsGroups(b, R, Q)
  /\ Stand(b, R, Q, list, g) /\ InOrder(b, R, list, g)
  /\ \A P \in Q : (\E j \in DOMAIN list : g[j] = P) \/ Lost(b, R, P)

(* Draining the nets of i: g are the nets to come, h those set aside, W    *)
(* those merged into the bag u, which has the name n so far.               *)
Within(b, R, i, list, aside, u, n, Q, g, h, W) ==
  /\ IsGroups(b, R, Q) /\ W \subseteq Q /\ i \notin R
  /\ Stand(b, R, Q, list, g) /\ InOrder(b, R, list, g)
  /\ Stand(b, R, Q, aside, h) /\ InOrder(b, R, aside, h)
  /\ \A l \in DOMAIN list :
       /\ g[l] \notin W
       /\ \A j \in DOMAIN aside : h[j] # g[l] /\ Precede(b, R, h[j], g[l])
       /\ \A P \in W : Precede(b, R, P, g[l])
  /\ \A j \in DOMAIN aside : ~ Cuts(b, h[j], i)
  /\ \A P \in W : Cuts(b, P, i)
  /\ u = Left(b, R \cup {i}, UNION W)
  /\ \/ Named(b, UNION W) = {} /\ n = NoName
     \/ \E x \in Named(b, UNION W) :
          n = b[x].name /\ ((\A P \in W : Uncut(b, R, P)) => First(b, UNION W, x))
  /\ \A P \in Q : \/ \E j \in DOMAIN list : g[j] = P
                  \/ \E j \in DOMAIN aside : h[j] = P
                  \/ P \in W
                  \/ Lost(b, R, P)

Removed == {names[x] : x \in 1 .. k - 1}
GroupsMerged ==
  /\ pc # "idle" => \A x \in DOMAIN before : \A m \in Member :
       before[x].members[m] > 0 /\ m[1] # 0 =>
         \/ m[2] \in DOMAIN instances \/ m[2] \in Removed
         \/ pc = "drain" /\ m[2] = names[k]
  /\ pc = "next" => \E Q, g : Between(before, Removed, nets, Q, g)
  /\ pc = "drain" => \E Q, g, h, W :
       Within(before, Removed, names[k], nets, surviving, merged, mergedName, Q, g, h, W)
--------------------------------------------------------------------------------
(* A bag of groups counts its members' copies, net by net.                 *)
LEMMA Counting ==
  ASSUME NEW b \in Seq(Nets), NEW m \in Member
  PROVE  /\ \A P \in SUBSET DOMAIN b :
              /\ IsFiniteSet(Units(b, m, P)) /\ Cardinality(Units(b, m, P)) \in Nat
              /\ Cardinality(Units(b, m, P)) > 0 <=> \E x \in P : b[x].members[m] > 0
         /\ \A P, S, A \in SUBSET DOMAIN b :
              (\A x \in P : x \notin S) /\ (\A x : x \in A <=> x \in P \/ x \in S) =>
                Cardinality(Units(b, m, A)) = Cardinality(Units(b, m, P)) + Cardinality(Units(b, m, S))
         /\ \A x \in DOMAIN b : Cardinality(Units(b, m, {x})) = b[x].members[m]
  <1> DEFINE N(x) == b[x].members[m]
  <1>1. \A x \in DOMAIN b : N(x) \in Nat
    BY Counts
  <1>2. \A x \in DOMAIN b : IsFiniteSet({x} \X (1 .. N(x))) /\ Cardinality({x} \X (1 .. N(x))) = N(x)
    <2> SUFFICES ASSUME NEW x \in DOMAIN b
                 PROVE  IsFiniteSet({x} \X (1 .. N(x))) /\ Cardinality({x} \X (1 .. N(x))) = N(x)
      OBVIOUS
    <2> HIDE DEF N
    <2>1. IsFiniteSet(1 .. N(x)) /\ Cardinality(1 .. N(x)) = N(x)
      BY <1>1, FS_Interval
    <2>2. IsFiniteSet({x}) /\ Cardinality({x}) = 1
      BY FS_Singleton
    <2>3. QED
      BY <1>1, <2>1, <2>2, FS_Product
  <1> DEFINE U(P) == UNION {{x} \X (1 .. N(x)) : x \in P}
  <1>3. \A P : Units(b, m, P) = U(P)
    BY DEF Units
  <1>4. IsFiniteSet(DOMAIN b)
    <2>1. Len(b) \in Nat /\ DOMAIN b = 1 .. Len(b)
      OBVIOUS
    <2>2. QED
      BY <2>1, FS_Interval
  <1>5. \A P \in SUBSET DOMAIN b : IsFiniteSet(U(P)) /\ Cardinality(U(P)) \in Nat
    <2> SUFFICES ASSUME NEW P \in SUBSET DOMAIN b PROVE IsFiniteSet(U(P)) /\ Cardinality(U(P)) \in Nat
      OBVIOUS
    <2> DEFINE f == [x \in P |-> {x} \X (1 .. N(x))]
    <2>1. IsFiniteSet({f[x] : x \in P})
      <3>1. IsFiniteSet(P)
        BY <1>4, FS_Subset
      <3> HIDE DEF f
      <3>2. QED
        BY <3>1, Image
    <2>2. {f[x] : x \in P} = {{x} \X (1 .. N(x)) : x \in P}
      OBVIOUS
    <2>3. \A T \in {{x} \X (1 .. N(x)) : x \in P} : IsFiniteSet(T)
      BY <1>2
    <2>4. IsFiniteSet(U(P))
      BY <2>1, <2>2, <2>3, FS_UNION
    <2>5. QED
      BY <2>4, FS_CardinalityType
  <1>6. \A P \in SUBSET DOMAIN b : U(P) # {} <=> \E x \in P : N(x) > 0
    <2> SUFFICES ASSUME NEW P \in SUBSET DOMAIN b PROVE U(P) # {} <=> \E x \in P : N(x) > 0
      OBVIOUS
    <2> HIDE DEF N
    <2>1. ASSUME NEW x \in P, N(x) > 0 PROVE U(P) # {}
      <3>1. 1 \in 1 .. N(x)
        BY <1>1, <2>1
      <3>2. <<x, 1>> \in U(P)
        BY <3>1
      <3>3. QED
        BY <3>2
    <2>2. ASSUME NEW u \in U(P) PROVE \E x \in P : N(x) > 0
      <3>1. PICK x \in P : u \in {x} \X (1 .. N(x))
        OBVIOUS
      <3>2. 1 .. N(x) # {}
        BY <3>1
      <3>3. QED
        BY <1>1, <3>2
    <2>3. QED
      BY <2>1, <2>2
  <1>7. \A P, S : U(P \cup S) = U(P) \cup U(S)
    OBVIOUS
  <1>8. \A P, S : P \cap S = {} => U(P) \cap U(S) = {}
    OBVIOUS
  <1>9. \A x : U({x}) = {x} \X (1 .. N(x))
    OBVIOUS
  <1> HIDE DEF U
  <1>10. \A P \in SUBSET DOMAIN b : Cardinality(U(P)) > 0 <=> \E x \in P : N(x) > 0
    <2>1. \A P \in SUBSET DOMAIN b : Cardinality(U(P)) = 0 <=> U(P) = {}
      BY <1>5, FS_EmptySet
    <2>2. QED
      BY <1>5, <1>6, <2>1
  <1>11. ASSUME NEW P \in SUBSET DOMAIN b, NEW S \in SUBSET DOMAIN b, P \cap S = {}
         PROVE  Cardinality(U(P \cup S)) = Cardinality(U(P)) + Cardinality(U(S))
    <2>1. U(P \cup S) = U(P) \cup U(S) /\ U(P) \cap U(S) = {}
      BY <1>7, <1>8, <1>11
    <2>2. Cardinality(U(P) \cup U(S)) = Cardinality(U(P)) + Cardinality(U(S)) - Cardinality(U(P) \cap U(S))
      BY <1>5, FS_Union
    <2>3. Cardinality(U(P) \cap U(S)) = 0
      BY <2>1, FS_EmptySet
    <2>4. Cardinality(U(P)) \in Nat /\ Cardinality(U(S)) \in Nat
      BY <1>5
    <2>5. Cardinality(U(P \cup S)) = Cardinality(U(P)) + Cardinality(U(S)) - 0
      BY <2>1, <2>2, <2>3
    <2>6. QED
      BY <2>4, <2>5
  <1>12. ASSUME NEW P \in SUBSET DOMAIN b, NEW S \in SUBSET DOMAIN b, NEW A \in SUBSET DOMAIN b,
                \A x \in P : x \notin S, \A x : x \in A <=> x \in P \/ x \in S
         PROVE  Cardinality(U(A)) = Cardinality(U(P)) + Cardinality(U(S))
    <2>1. A = P \cup S /\ P \cap S = {}
      BY <1>12
    <2>2. QED
      BY <1>11, <2>1
  <1>13. QED
    BY <1>2, <1>3, <1>5, <1>9, <1>10, <1>12

(* What is left of a group once R is removed.                              *)
LEMMA LeftFacts ==
  ASSUME NEW b \in Seq(Nets), NEW R, NEW P \in SUBSET DOMAIN b
  PROVE  /\ Left(b, R, P) \in Bags
         /\ \A m \in Member : Left(b, R, P)[m] =
              IF \E i \in R : On(m, i) THEN 0 ELSE Cardinality(Units(b, m, P))
  <1>1. \A m \in Member : Left(b, R, P)[m] =
              IF \E i \in R : On(m, i) THEN 0 ELSE Cardinality(Units(b, m, P))
    BY DEF Left
  <1>2. \A m \in Member : Cardinality(Units(b, m, P)) \in Nat
    BY Counting
  <1>3. Left(b, R, P) = [m \in Member |-> Left(b, R, P)[m]]
    BY DEF Left
  <1>4. \A m \in Member : Left(b, R, P)[m] \in Nat
    BY <1>1, <1>2
  <1>5. QED
    BY <1>1, <1>3, <1>4 DEF Bags

(* A net touches an instance not yet removed when its group does.          *)
LEMMA LeftTouches ==
  ASSUME NEW b \in Seq(Nets), NEW R, NEW P \in SUBSET DOMAIN b, NEW i, i \notin R
  PROVE  Touches(Left(b, R, P), i) <=> Cuts(b, P, i)
  <1>1. ASSUME NEW m \in Member, On(m, i)
        PROVE  Left(b, R, P)[m] = Cardinality(Units(b, m, P))
    <2>1. \A j \in R : ~ On(m, j)
      BY <1>1 DEF On
    <2>2. QED
      BY <2>1, LeftFacts
  <1>2. \A m \in Member : Cardinality(Units(b, m, P)) > 0 <=> \E x \in P : b[x].members[m] > 0
    BY Counting
  <1>3. QED
    BY <1>1, <1>2 DEF Touches, Cuts

(* Removing an instance that is on no net of a group takes nothing off it. *)
LEMMA LeftAlone ==
  ASSUME NEW b \in Seq(Nets), NEW R, NEW P \in SUBSET DOMAIN b, NEW i, ~ Cuts(b, P, i)
  PROVE  Left(b, R \cup {i}, P) = Left(b, R, P)
  <1>1. ASSUME NEW m \in Member
        PROVE  Left(b, R \cup {i}, P)[m] = Left(b, R, P)[m]
    <2>1. On(m, i) => Cardinality(Units(b, m, P)) = 0
      <3>1. On(m, i) => ~ (\E x \in P : b[x].members[m] > 0)
        BY DEF Cuts, Touches
      <3>2. Cardinality(Units(b, m, P)) \in Nat
            /\ (Cardinality(Units(b, m, P)) > 0 <=> \E x \in P : b[x].members[m] > 0)
        BY Counting
      <3>3. QED
        BY <3>1, <3>2
    <2>2. /\ Left(b, R \cup {i}, P)[m] = IF \E j \in R \cup {i} : On(m, j) THEN 0 ELSE Cardinality(Units(b, m, P))
          /\ Left(b, R, P)[m] = IF \E j \in R : On(m, j) THEN 0 ELSE Cardinality(Units(b, m, P))
      BY LeftFacts
    <2>3. QED
      BY <2>1, <2>2
  <1>2. /\ Left(b, R \cup {i}, P) = [m \in Member |-> Left(b, R \cup {i}, P)[m]]
        /\ Left(b, R, P) = [m \in Member |-> Left(b, R, P)[m]]
    BY DEF Left
  <1>3. [m \in Member |-> Left(b, R \cup {i}, P)[m]] = [m \in Member |-> Left(b, R, P)[m]]
    BY <1>1
  <1>4. QED
    BY <1>2, <1>3

LEMMA LeftOfNothing ==
  ASSUME NEW b \in Seq(Nets), NEW R
  PROVE  Left(b, R, {}) = Empty
  <1>1. ASSUME NEW m \in Member PROVE Cardinality(Units(b, m, {})) = 0
    <2>1. Units(b, m, {}) = {}
      BY DEF Units
    <2>2. QED
      BY <2>1, FS_EmptySet
  <1>2. QED
    BY <1>1 DEF Left, Empty

(* Two groups that share a net are one, and a net no removed instance is   *)
(* on is a group of its own.                                               *)
LEMMA GroupsApart ==
  ASSUME NEW b, NEW R, NEW Q, IsGroups(b, R, Q)
  PROVE  /\ \A P, S \in Q : P \cap S # {} => P = S
         /\ \A P \in Q : Uncut(b, R, P) => \A x \in P : P = {x}
  <1>1. ASSUME NEW P \in Q, NEW S \in Q, P \cap S # {}
        PROVE  P \subseteq S
    <2>1. PICK x \in P : x \in S
      BY <1>1
    <2>2. S \in SUBSET DOMAIN b /\ Closed(b, R, S)
      BY DEF IsGroups
    <2>3. QED
      BY <2>1, <2>2 DEF IsGroups
  <1>2. ASSUME NEW P \in Q, Uncut(b, R, P), NEW x \in P
        PROVE  P = {x}
    <2>1. Closed(b, R, {x})
      BY <1>2 DEF Closed, Together, Uncut, Cuts
    <2>2. {x} \in SUBSET DOMAIN b
      BY DEF IsGroups
    <2>3. QED
      BY <2>1, <2>2 DEF IsGroups
  <1>3. QED
    BY <1>1, <1>2

(* Before the first name every net is a group of its own.                  *)
LEMMA FirstGroups ==
  ASSUME NEW b
  PROVE  IsGroups(b, {}, {{x} : x \in DOMAIN b})
  <1> DEFINE Q == {{x} : x \in DOMAIN b}
  <1>1. Q \subseteq SUBSET DOMAIN b /\ {} \notin Q
    OBVIOUS
  <1>2. \A x \in DOMAIN b : \E P \in Q : x \in P
    OBVIOUS
  <1>3. \A C : Closed(b, {}, C)
    BY DEF Closed, Together
  <1>4. \A P \in Q : \A x \in P : \A C \in SUBSET DOMAIN b : x \in C => P \subseteq C
    OBVIOUS
  <1>5. QED
    BY <1>1, <1>2, <1>3, <1>4 DEF IsGroups

(* Removing an instance merges the groups it is on.                        *)
LEMMA MergedGroups ==
  ASSUME NEW b, NEW R, NEW Q, IsGroups(b, R, Q), NEW i
  PROVE  LET T == {P \in Q : Cuts(b, P, i)}
         IN  IsGroups(b, R \cup {i}, (Q \ T) \cup (IF T = {} THEN {} ELSE {UNION T}))
  <1> DEFINE T == {P \in Q : Cuts(b, P, i)}
             M == IF T = {} THEN {} ELSE {UNION T}
             Z == (Q \ T) \cup M
             S == R \cup {i}
  <1>1. Q \subseteq SUBSET DOMAIN b /\ {} \notin Q
    BY DEF IsGroups
  <1>2. \A x, y : Together(b, S, x, y) <=>
           Together(b, R, x, y) \/ (Touches(b[x].members, i) /\ Touches(b[y].members, i))
    BY DEF Together
  <1>3. \A C : Closed(b, S, C) => Closed(b, R, C)
    BY <1>2 DEF Closed
  <1>4. \A P \in Z : P \in Q \ T \/ (T # {} /\ P = UNION T)
    OBVIOUS
  <1>5. \A x \in DOMAIN b : \E P \in Q : x \in P
    BY DEF IsGroups
  <1>6. Z \subseteq SUBSET DOMAIN b /\ {} \notin Z
    <2>1. \A P \in T : P \in SUBSET DOMAIN b /\ P # {}
      BY <1>1
    <2>2. UNION T \in SUBSET DOMAIN b
      BY <2>1
    <2>3. T # {} => UNION T # {}
      BY <2>1
    <2> HIDE DEF T, Z, M
    <2>4. \A P \in Z : P \in SUBSET DOMAIN b /\ P # {}
      BY <1>1, <1>4, <2>2, <2>3
    <2>5. QED
      BY <2>4
  <1>7. \A x \in DOMAIN b : \E P \in Z : x \in P
    <2> SUFFICES ASSUME NEW x \in DOMAIN b PROVE \E P \in Z : x \in P
      OBVIOUS
    <2>1. PICK P \in Q : x \in P
      BY <1>5
    <2>2. CASE P \in T
      <3>1. UNION T \in Z /\ x \in UNION T
        BY <2>1, <2>2
      <3>2. QED
        BY <3>1
    <2>3. QED
      BY <2>1, <2>2
  <1>8. \A x \in DOMAIN b : \A P \in Q : x \in P /\ Touches(b[x].members, i) => P \in T
    BY DEF Cuts
  <1> HIDE DEF Z, M
  <1>9. \A P \in Z : Closed(b, S, P)
    <2> SUFFICES ASSUME NEW P \in Z, NEW x \in P, NEW y \in DOMAIN b, Together(b, S, x, y)
                 PROVE  y \in P
      BY DEF Closed
    <2>1. x \in DOMAIN b
      BY <1>6
    <2>2. \A G \in Q : x \in G /\ Together(b, R, x, y) => y \in G
      BY DEF IsGroups, Closed
    <2>3. CASE P \in Q \ T
      <3>1. ~ Touches(b[x].members, i)
        BY <1>8, <2>1, <2>3
      <3>2. QED
        BY <1>2, <2>2, <2>3, <3>1
    <2>4. CASE P = UNION T
      <3>1. PICK G \in T : x \in G
        BY <2>4
      <3>2. PICK H \in Q : y \in H
        BY <1>5
      <3>3. CASE Together(b, R, x, y)
        BY <2>2, <2>4, <3>1, <3>3
      <3>4. CASE Touches(b[y].members, i)
        <4>1. H \in T
          BY <1>8, <3>2, <3>4
        <4>2. QED
          BY <2>4, <3>2, <4>1
      <3>5. QED
        BY <1>2, <3>3, <3>4
    <2>5. QED
      BY <1>4, <2>3, <2>4
  <1>10. ASSUME NEW P \in Z, NEW x \in P, NEW C \in SUBSET DOMAIN b, x \in C, Closed(b, S, C)
         PROVE  P \subseteq C
    <2>1. Closed(b, R, C)
      BY <1>3, <1>10
    <2>2. \A G \in Q : G \cap C # {} => G \subseteq C
      BY <2>1 DEF IsGroups
    <2>3. CASE P \in Q \ T
      BY <1>10, <2>2, <2>3
    <2>4. CASE P = UNION T
      <3>1. PICK G \in T : x \in G
        BY <1>10, <2>4
      <3>2. G \subseteq C
        BY <1>10, <2>2, <3>1
      <3>3. PICK z \in G : Touches(b[z].members, i)
        BY <3>1 DEF Cuts
      <3>4. ASSUME NEW H \in T PROVE H \subseteq C
        <4>1. PICK w \in H : Touches(b[w].members, i)
          BY DEF Cuts
        <4>2. w \in DOMAIN b
          BY <1>1, <4>1
        <4>3. Together(b, S, z, w)
          BY <1>2, <3>3, <4>1
        <4>4. w \in C
          BY <1>10, <3>2, <3>3, <4>2, <4>3 DEF Closed
        <4>5. QED
          BY <2>2, <4>1, <4>4
      <3>5. QED
        BY <2>4, <3>4
    <2>5. QED
      BY <1>4, <2>3, <2>4
  <1>11. IsGroups(b, S, Z)
    BY <1>6, <1>7, <1>9, <1>10 DEF IsGroups
  <1>12. QED
    BY <1>11 DEF Z, M

(* The groups of b are the components the property names.                  *)
LEMMA GroupsAreParts ==
  ASSUME NEW b \in Seq(Nets), NEW R, NEW Q, IsGroups(b, R, Q)
  PROVE  Q = Parts(DOMAIN b, [x \in DOMAIN b |-> {y \in DOMAIN b : Together(b, R, x, y)}])
  <1> DEFINE S == DOMAIN b
             near == [x \in S |-> {y \in S : Together(b, R, x, y)}]
  <1>1. IsFiniteSet(S)
    <2>1. Len(b) \in Nat /\ DOMAIN b = 1 .. Len(b)
      OBVIOUS
    <2>2. QED
      BY <2>1, FS_Interval
  <1>2. near \in [S -> SUBSET S]
    OBVIOUS
  <1>3. \A C \in SUBSET S : Sealed(near, C) <=> Closed(b, R, C)
    BY DEF Sealed, Closed
  <1>4. Q \subseteq SUBSET S /\ {} \notin Q /\ \A x \in S : \E P \in Q : x \in P
    BY DEF IsGroups
  <1>5. \A P \in Q : \A x \in P : Reach(S, near, x) = P
    <2> SUFFICES ASSUME NEW P \in Q, NEW x \in P PROVE Reach(S, near, x) = P
      OBVIOUS
    <2> DEFINE A == Reach(S, near, x)
    <2>1. x \in S /\ P \in SUBSET S /\ Closed(b, R, P)
      BY <1>4 DEF IsGroups
    <2> HIDE DEF near, S
    <2>2. A \in SUBSET S /\ x \in A /\ Sealed(near, A)
      BY <1>1, <1>2, <2>1, ReachIsLeast
    <2>3. \A C : x \in C /\ Sealed(near, C) => A \subseteq C
      BY <1>1, <1>2, <2>1, ReachIsLeast
    <2>4. A \subseteq P
      BY <1>3, <2>1, <2>3
    <2>5. P \subseteq A
      <3>1. Closed(b, R, A)
        BY <1>3, <2>2
      <3> HIDE DEF A
      <3>2. A \in SUBSET DOMAIN b
        BY <2>2 DEF S
      <3>3. QED
        BY <2>2, <3>1, <3>2 DEF IsGroups
    <2>6. QED
      BY <2>4, <2>5
  <1>6. Parts(S, near) = {Reach(S, near, x) : x \in S}
    BY DEF Parts
  <1> HIDE DEF near, S
  <1>7. \A P \in Q : P \in Parts(S, near)
    <2> SUFFICES ASSUME NEW P \in Q PROVE P \in Parts(S, near)
      OBVIOUS
    <2>1. PICK x : x \in P /\ x \in S
      BY <1>4
    <2>2. QED
      BY <1>5, <1>6, <2>1
  <1>8. \A x \in S : Reach(S, near, x) \in Q
    BY <1>4, <1>5
  <1>9. Parts(S, near) \subseteq Q
    BY <1>6, <1>8
  <1>10. QED
    BY <1>7, <1>9 DEF near, S

(* An instance that is on no net of a group changes nothing about it.      *)
LEMMA Unaffected ==
  ASSUME NEW b \in Seq(Nets), NEW R, NEW P \in SUBSET DOMAIN b, NEW i, i \notin R, ~ Cuts(b, P, i)
  PROVE  /\ Left(b, R \cup {i}, P) = Left(b, R, P)
         /\ Uncut(b, R \cup {i}, P) <=> Uncut(b, R, P)
         /\ \A n : Calls(b, R, P, n) => Calls(b, R \cup {i}, P, n)
         /\ Lost(b, R, P) => Lost(b, R \cup {i}, P)
  <1>1. Left(b, R \cup {i}, P) = Left(b, R, P)
    BY LeftAlone
  <1>2. Uncut(b, R \cup {i}, P) <=> Uncut(b, R, P)
    BY DEF Uncut
  <1>3. ASSUME NEW n, Calls(b, R, P, n)
        PROVE  Calls(b, R \cup {i}, P, n)
    <2>1. CASE Named(b, P) = {} /\ n = NoName
      BY <2>1 DEF Calls
    <2>2. CASE ~ (Named(b, P) = {} /\ n = NoName)
      <3>1. PICK x \in Named(b, P) :
              /\ n = b[x].name
              /\ (\E q \in R : \A j \in R : Cuts(b, P, j) <=> j = q) \/ Uncut(b, R, P) => First(b, P, x)
        BY <1>3, <2>2 DEF Calls
      <3>2. ASSUME NEW q \in R \cup {i}, \A j \in R \cup {i} : Cuts(b, P, j) <=> j = q
            PROVE  First(b, P, x)
        <4>1. q \in R
          BY <3>2
        <4>2. \A j \in R : Cuts(b, P, j) <=> j = q
          BY <3>2
        <4>3. QED
          BY <3>1, <4>1, <4>2
      <3>3. Uncut(b, R \cup {i}, P) => First(b, P, x)
        BY <1>2, <3>1
      <3>4. QED
        BY <3>1, <3>2, <3>3 DEF Calls
    <2>3. QED
      BY <2>1, <2>2
  <1>4. Lost(b, R, P) => Lost(b, R \cup {i}, P)
    BY <1>1 DEF Lost, Together
  <1>5. QED
    BY <1>1, <1>2, <1>3, <1>4

(* Before the first name.                                                  *)
LEMMA StartsBetween ==
  ASSUME NEW b \in Seq(Nets)
  PROVE  Between(b, {}, b, {{x} : x \in DOMAIN b}, [x \in DOMAIN b |-> {x}])
  <1> DEFINE Q == {{x} : x \in DOMAIN b}
             g == [x \in DOMAIN b |-> {x}]
  <1>1. ASSUME NEW x \in DOMAIN b
        PROVE  b[x].members = Left(b, {}, {x})
    <2>1. b[x] \in Nets
      OBVIOUS
    <2>2. b[x].members \in Bags
      BY <2>1 DEF Nets
    <2>3. \A m \in Member : Left(b, {}, {x})[m] = b[x].members[m]
      BY LeftFacts, Counting
    <2>4. Left(b, {}, {x}) \in Bags
      BY LeftFacts
    <2> DEFINE u == b[x].members
               v == Left(b, {}, {x})
    <2>5. u \in [Member -> Nat] /\ v \in [Member -> Nat] /\ \A m \in Member : u[m] = v[m]
      BY <2>2, <2>3, <2>4 DEF Bags
    <2> HIDE DEF u, v
    <2>6. u = v
      BY <2>5
    <2>7. QED
      BY <2>6 DEF u, v
  <1>2. ASSUME NEW x \in DOMAIN b
        PROVE  Calls(b, {}, {x}, b[x].name)
    <2>1. CASE b[x].name = NoName
      BY <2>1 DEF Calls, Named
    <2>2. CASE b[x].name # NoName
      <3>1. Named(b, {x}) = {x}
        BY <2>2 DEF Named
      <3>2. x \in Nat
        OBVIOUS
      <3>3. First(b, {x}, x)
        BY <3>1, <3>2 DEF First
      <3>4. QED
        BY <3>1, <3>3 DEF Calls
    <2>3. QED
      BY <2>1, <2>2
  <1>3. /\ g \in [DOMAIN b -> Q]
        /\ \A j \in DOMAIN b : g[j] = {j}
    OBVIOUS
  <1>4. \A j, l \in DOMAIN b : g[j] = g[l] => j = l
    OBVIOUS
  <1>5. \A P \in Q : \E j \in DOMAIN b : g[j] = P
    OBVIOUS
  <1>6. \A j, l \in DOMAIN b : j < l => Precede(b, {}, {j}, {l})
    BY DEF Precede
  <1>7. IsGroups(b, {}, Q)
    BY FirstGroups
  <1> HIDE DEF g, Q
  <1>8. Stand(b, {}, Q, b, g)
    BY <1>1, <1>2, <1>3, <1>4 DEF Stand
  <1>9. InOrder(b, {}, b, g)
    BY <1>3, <1>6 DEF InOrder
  <1>10. Between(b, {}, b, Q, g)
    BY <1>5, <1>7, <1>8, <1>9 DEF Between
  <1>11. QED
    BY <1>10 DEF g, Q

(* A name that no net mentions, because its instance is gone or never was. *)
LEMMA SkipBetween ==
  ASSUME NEW b \in Seq(Nets), NEW R, NEW list, NEW Q, NEW g, Between(b, R, list, Q, g),
         NEW i, i \in R \/ ~ Cuts(b, DOMAIN b, i)
  PROVE  Between(b, R \cup {i}, list, Q, g)
  <1>1. CASE i \in R
    <2>1. R \cup {i} = R
      BY <1>1
    <2>2. QED
      BY <2>1
  <1>2. CASE i \notin R /\ ~ Cuts(b, DOMAIN b, i)
    <2>1. Q \subseteq SUBSET DOMAIN b
      BY DEF Between, IsGroups
    <2>2. \A P \in Q : ~ Cuts(b, P, i)
      BY <1>2, <2>1 DEF Cuts
    <2>3. IsGroups(b, R \cup {i}, Q)
      <3>1. {P \in Q : Cuts(b, P, i)} = {}
        BY <2>2
      <3>2. (Q \ {}) \cup {} = Q
        OBVIOUS
      <3>3. QED
        BY <3>1, <3>2, MergedGroups DEF Between
    <2>4. \A P \in Q : /\ Left(b, R \cup {i}, P) = Left(b, R, P)
                       /\ Uncut(b, R \cup {i}, P) <=> Uncut(b, R, P)
                       /\ \A n : Calls(b, R, P, n) => Calls(b, R \cup {i}, P, n)
                       /\ Lost(b, R, P) => Lost(b, R \cup {i}, P)
      BY <1>2, <2>1, <2>2, Unaffected
    <2>5. Stand(b, R, Q, list, g) /\ InOrder(b, R, list, g)
      BY DEF Between
    <2>6. \A j \in DOMAIN list : g[j] \in Q
      BY <2>5 DEF Stand
    <2>7. Stand(b, R \cup {i}, Q, list, g)
      BY <2>4, <2>5, <2>6 DEF Stand
    <2>8. InOrder(b, R \cup {i}, list, g)
      BY <2>4, <2>5, <2>6 DEF InOrder, Precede
    <2>9. QED
      BY <2>3, <2>4, <2>7, <2>8 DEF Between
  <1>3. QED
    BY <1>1, <1>2

(* Before the first net is drained.                                        *)
LEMMA StartsWithin ==
  ASSUME NEW b \in Seq(Nets), NEW R, NEW list, NEW Q, NEW g, Between(b, R, list, Q, g),
         NEW i, i \notin R
  PROVE  Within(b, R, i, list, << >>, Empty, NoName, Q, g, << >>, {})
  <1>1. DOMAIN << >> = {} /\ << >> \in [{} -> Q]
    OBVIOUS
  <1>2. UNION {} = {} /\ Named(b, {}) = {}
    BY DEF Named
  <1>3. Empty = Left(b, R \cup {i}, {})
    BY LeftOfNothing
  <1>4. Stand(b, R, Q, << >>, << >>) /\ InOrder(b, R, << >>, << >>)
    BY <1>1 DEF Stand, InOrder
  <1>5. QED
    BY <1>1, <1>2, <1>3, <1>4 DEF Within, Between

(* A net that is not on i is set aside.                                    *)
LEMMA AsideWithin ==
  ASSUME NEW b \in Seq(Nets), NEW R, NEW i, NEW list \in Seq(Nets), list # << >>, NEW aside \in Seq(Nets),
         NEW u, NEW n, NEW Q, NEW g, NEW h, NEW W,
         Within(b, R, i, list, aside, u, n, Q, g, h, W),
         ~ Touches(Head(list).members, i)
  PROVE  Within(b, R, i, Tail(list), Append(aside, Head(list)), u, n, Q,
                [l \in DOMAIN Tail(list) |-> g[l + 1]],
                [j \in DOMAIN Append(aside, Head(list)) |-> IF j \in DOMAIN aside THEN h[j] ELSE g[1]], W)
  <1> DEFINE rest == Tail(list)
             more == Append(aside, Head(list))
             e    == Len(aside) + 1
             f    == [l \in DOMAIN rest |-> g[l + 1]]
             o    == [j \in DOMAIN more |-> IF j \in DOMAIN aside THEN h[j] ELSE g[1]]
  <1>1. /\ 1 \in DOMAIN list /\ Head(list) = list[1]
        /\ \A l \in DOMAIN rest : l \in Nat /\ 1 < l + 1 /\ l + 1 \in DOMAIN list /\ rest[l] = list[l + 1]
        /\ \A l \in DOMAIN list : l # 1 => l - 1 \in DOMAIN rest /\ l = (l - 1) + 1
    BY HeadTail
  <1>2. /\ e \in DOMAIN more /\ more[e] = list[1] /\ e \notin DOMAIN aside
        /\ \A j \in DOMAIN aside : j \in DOMAIN more /\ more[j] = aside[j] /\ j < e /\ j \in Nat
        /\ \A j \in DOMAIN more : j \in DOMAIN aside \/ j = e
    <2>1. list[1] \in Nets
      BY <1>1
    <2>2. e \notin DOMAIN aside /\ \A j \in DOMAIN aside : j < e /\ j \in Nat
      OBVIOUS
    <2>3. QED
      BY <1>1, <2>1, <2>2, Appended
  <1> HIDE DEF rest, more, e
  <1>3. /\ IsGroups(b, R, Q) /\ W \subseteq Q /\ i \notin R
        /\ Stand(b, R, Q, list, g) /\ InOrder(b, R, list, g)
        /\ Stand(b, R, Q, aside, h) /\ InOrder(b, R, aside, h)
        /\ \A l \in DOMAIN list : /\ g[l] \notin W
                                  /\ \A j \in DOMAIN aside : h[j] # g[l] /\ Precede(b, R, h[j], g[l])
                                  /\ \A P \in W : Precede(b, R, P, g[l])
        /\ \A j \in DOMAIN aside : ~ Cuts(b, h[j], i)
        /\ \A P \in Q : \/ \E j \in DOMAIN list : g[j] = P
                        \/ \E j \in DOMAIN aside : h[j] = P
                        \/ P \in W
                        \/ Lost(b, R, P)
    BY DEF Within
  <1>4. /\ \A l \in DOMAIN list : /\ g[l] \in Q
                                  /\ list[l].members = Left(b, R, g[l])
                                  /\ Calls(b, R, g[l], list[l].name)
                                  /\ \A j \in DOMAIN list : g[j] = g[l] => j = l
        /\ \A j \in DOMAIN aside : /\ h[j] \in Q
                                   /\ aside[j].members = Left(b, R, h[j])
                                   /\ Calls(b, R, h[j], aside[j].name)
                                   /\ \A l \in DOMAIN aside : h[j] = h[l] => j = l
    BY <1>3 DEF Stand
  <1>5. ~ Cuts(b, g[1], i)
    <2>1. g[1] \in SUBSET DOMAIN b
      BY <1>1, <1>3, <1>4 DEF IsGroups
    <2>2. Touches(Left(b, R, g[1]), i) <=> Cuts(b, g[1], i)
      BY <1>3, <2>1, LeftTouches
    <2>3. QED
      BY <1>1, <1>4, <2>2
  <1>6. \A l \in DOMAIN rest : f[l] = g[l + 1]
    OBVIOUS
  <1>7. o[e] = g[1] /\ \A j \in DOMAIN aside : o[j] = h[j]
    BY <1>2
  <1>8. DOMAIN f = DOMAIN rest /\ f = [l \in DOMAIN rest |-> f[l]]
        /\ DOMAIN o = DOMAIN more /\ o = [l \in DOMAIN more |-> o[l]]
    OBVIOUS
  <1> HIDE DEF f, o
  <1>9. Stand(b, R, Q, rest, f)
    <2>1. \A l \in DOMAIN rest : f[l] \in Q /\ rest[l].members = Left(b, R, f[l]) /\ Calls(b, R, f[l], rest[l].name)
      BY <1>1, <1>4, <1>6
    <2>2. \A j, l \in DOMAIN rest : f[j] = f[l] => j = l
      <3> SUFFICES ASSUME NEW j \in DOMAIN rest, NEW l \in DOMAIN rest, f[j] = f[l] PROVE j = l
        OBVIOUS
      <3>1. j + 1 = l + 1
        BY <1>1, <1>4, <1>6
      <3>2. QED
        BY <1>1, <3>1
    <2>3. f \in [DOMAIN rest -> Q]
      BY <1>8, <2>1
    <2>4. QED
      BY <2>1, <2>2, <2>3 DEF Stand
  <1>10. InOrder(b, R, rest, f)
    <2> SUFFICES ASSUME NEW j \in DOMAIN rest, NEW l \in DOMAIN rest, j < l
                 PROVE  Precede(b, R, f[j], f[l])
      BY DEF InOrder
    <2>1. j + 1 < l + 1
      BY <1>1
    <2>2. QED
      BY <1>1, <1>3, <1>6, <2>1 DEF InOrder
  <1>11. \A j \in DOMAIN aside : h[j] # g[1] /\ Precede(b, R, h[j], g[1])
    BY <1>1, <1>3
  <1>12. Stand(b, R, Q, more, o)
    <2>1. \A j \in DOMAIN more : o[j] \in Q /\ more[j].members = Left(b, R, o[j]) /\ Calls(b, R, o[j], more[j].name)
      <3> SUFFICES ASSUME NEW j \in DOMAIN more
                   PROVE  o[j] \in Q /\ more[j].members = Left(b, R, o[j]) /\ Calls(b, R, o[j], more[j].name)
        OBVIOUS
      <3>1. CASE j \in DOMAIN aside
        <4>1. o[j] = h[j] /\ more[j] = aside[j]
          BY <1>2, <1>7, <3>1
        <4>2. QED
          BY <1>4, <3>1, <4>1
      <3>2. CASE j = e
        <4>1. o[j] = g[1] /\ more[j] = list[1]
          BY <1>2, <1>7, <3>2
        <4>2. QED
          BY <1>1, <1>4, <4>1
      <3>3. QED
        BY <1>2, <3>1, <3>2
    <2>2. \A j, l \in DOMAIN more : o[j] = o[l] => j = l
      BY <1>2, <1>4, <1>7, <1>11
    <2>3. o \in [DOMAIN more -> Q]
      BY <1>8, <2>1
    <2>4. QED
      BY <2>1, <2>2, <2>3 DEF Stand
  <1>13. InOrder(b, R, more, o)
    <2> SUFFICES ASSUME NEW j \in DOMAIN more, NEW l \in DOMAIN more, j < l
                 PROVE  Precede(b, R, o[j], o[l])
      BY DEF InOrder
    <2>1. j \in DOMAIN aside
      <3>1. CASE j = e
        <4>1. l \in DOMAIN aside \/ l = e
          BY <1>2
        <4>2. e \in Nat
          BY DEF e
        <4>3. QED
          BY <1>2, <3>1, <4>1, <4>2
      <3>2. QED
        BY <1>2, <3>1
    <2>2. CASE l \in DOMAIN aside
      BY <1>3, <1>7, <2>1, <2>2 DEF InOrder
    <2>3. CASE l = e
      BY <1>7, <1>11, <2>1, <2>3
    <2>4. QED
      BY <1>2, <2>2, <2>3
  <1>14. \A l \in DOMAIN rest : /\ f[l] \notin W
                                /\ \A P \in W : Precede(b, R, P, f[l])
    BY <1>1, <1>3, <1>6
  <1>15. \A l \in DOMAIN rest : \A j \in DOMAIN more : o[j] # f[l] /\ Precede(b, R, o[j], f[l])
    <2> SUFFICES ASSUME NEW l \in DOMAIN rest, NEW j \in DOMAIN more
                 PROVE  o[j] # f[l] /\ Precede(b, R, o[j], f[l])
      OBVIOUS
    <2>1. CASE j \in DOMAIN aside
      BY <1>1, <1>3, <1>6, <1>7, <2>1
    <2>2. CASE j = e
      <3>1. g[1] # g[l + 1]
        BY <1>1, <1>4
      <3>2. Precede(b, R, g[1], g[l + 1])
        BY <1>1, <1>3 DEF InOrder
      <3>3. QED
        BY <1>6, <1>7, <2>2, <3>1, <3>2
    <2>3. QED
      BY <1>2, <2>1, <2>2
  <1>16. \A j \in DOMAIN more : ~ Cuts(b, o[j], i)
    BY <1>2, <1>3, <1>5, <1>7
  <1>17. \A P \in Q : \/ \E j \in DOMAIN rest : f[j] = P
                      \/ \E j \in DOMAIN more : o[j] = P
                      \/ P \in W
                      \/ Lost(b, R, P)
    <2> SUFFICES ASSUME NEW P \in Q
                 PROVE  \/ \E j \in DOMAIN rest : f[j] = P
                        \/ \E j \in DOMAIN more : o[j] = P
                        \/ P \in W
                        \/ Lost(b, R, P)
      OBVIOUS
    <2>1. ASSUME NEW j \in DOMAIN list, g[j] = P
          PROVE  \/ \E l \in DOMAIN rest : f[l] = P
                 \/ \E l \in DOMAIN more : o[l] = P
      <3>1. CASE j = 1
        BY <1>2, <1>7, <2>1, <3>1
      <3>2. CASE j # 1
        BY <1>1, <1>6, <2>1, <3>2
      <3>3. QED
        BY <3>1, <3>2
    <2>2. ASSUME NEW j \in DOMAIN aside, h[j] = P
          PROVE  \E l \in DOMAIN more : o[l] = P
      BY <1>2, <1>7, <2>2
    <2>3. QED
      BY <1>3, <2>1, <2>2
  <1>18. Within(b, R, i, rest, more, u, n, Q, f, o, W)
    BY <1>3, <1>9, <1>10, <1>12, <1>13, <1>14, <1>15, <1>16, <1>17 DEF Within
  <1>19. QED
    BY <1>18 DEF rest, more, f, o

(* The bag u, named n, with what i leaves of a net.                        *)
Merges(i, u, n, net, v, name) ==
  /\ v = [m \in Member |-> v[m]]
  /\ \A m \in Member : /\ On(m, i) => v[m] = u[m]
                       /\ ~ On(m, i) => v[m] = u[m] + net.members[m]
  /\ n = NoName => name = net.name
  /\ n # NoName => name = n

(* A net that is on i is merged, and lends its name if there is none yet.  *)
LEMMA MergedWithin ==
  ASSUME NEW b \in Seq(Nets), NEW R, NEW i, NEW list \in Seq(Nets), list # << >>, NEW aside \in Seq(Nets),
         NEW u, NEW n, NEW Q, NEW g, NEW h, NEW W,
         Within(b, R, i, list, aside, u, n, Q, g, h, W),
         Touches(Head(list).members, i),
         NEW v, NEW name, Merges(i, u, n, Head(list), v, name)
  PROVE  \E f, V : Within(b, R, i, Tail(list), aside, v, name, Q, f, h, V)
  <1> DEFINE rest == Tail(list)
             f    == [l \in DOMAIN rest |-> g[l + 1]]
             G    == g[1]
             V    == W \cup {G}
  <1>1. /\ 1 \in DOMAIN list /\ Head(list) = list[1]
        /\ \A l \in DOMAIN rest : l \in Nat /\ 1 < l + 1 /\ l + 1 \in DOMAIN list /\ rest[l] = list[l + 1]
        /\ \A l \in DOMAIN list : l # 1 => l - 1 \in DOMAIN rest /\ l = (l - 1) + 1
    BY HeadTail
  <1>2. \A l \in DOMAIN rest : f[l] = g[l + 1]
    OBVIOUS
  <1>3. DOMAIN f = DOMAIN rest /\ f = [l \in DOMAIN rest |-> f[l]]
    OBVIOUS
  <1> HIDE DEF rest, f
  <1>4. /\ IsGroups(b, R, Q) /\ W \subseteq Q /\ i \notin R
        /\ Stand(b, R, Q, list, g) /\ InOrder(b, R, list, g)
        /\ Stand(b, R, Q, aside, h) /\ InOrder(b, R, aside, h)
        /\ \A l \in DOMAIN list : /\ g[l] \notin W
                                  /\ \A j \in DOMAIN aside : h[j] # g[l] /\ Precede(b, R, h[j], g[l])
                                  /\ \A P \in W : Precede(b, R, P, g[l])
        /\ \A j \in DOMAIN aside : ~ Cuts(b, h[j], i)
        /\ \A P \in W : Cuts(b, P, i)
        /\ u = Left(b, R \cup {i}, UNION W)
        /\ \A P \in Q : \/ \E j \in DOMAIN list : g[j] = P
                        \/ \E j \in DOMAIN aside : h[j] = P
                        \/ P \in W
                        \/ Lost(b, R, P)
    BY DEF Within
  <1>5. \A l \in DOMAIN list : /\ g[l] \in Q
                               /\ list[l].members = Left(b, R, g[l])
                               /\ Calls(b, R, g[l], list[l].name)
                               /\ \A j \in DOMAIN list : g[j] = g[l] => j = l
    BY <1>4 DEF Stand
  <1>6. G \in Q /\ G \notin W /\ G \in SUBSET DOMAIN b /\ G # {} /\ UNION W \in SUBSET DOMAIN b
    BY <1>1, <1>4, <1>5 DEF IsGroups
  <1>7. Cuts(b, G, i)
    <2>1. Touches(Left(b, R, G), i) <=> Cuts(b, G, i)
      BY <1>4, <1>6, LeftTouches
    <2>2. QED
      BY <1>1, <1>5, <2>1
  <1>8. UNION V = (UNION W) \cup G
    OBVIOUS
  <1>9. (UNION W) \cap G = {}
    <2> SUFFICES ASSUME NEW P \in W, NEW x \in P, x \in G PROVE FALSE
      OBVIOUS
    <2>1. P = G
      BY <1>4, <1>6, GroupsApart
    <2>2. QED
      BY <1>6, <2>1
  <1>10. Head(list).members = Left(b, R, G) /\ Calls(b, R, G, Head(list).name)
    BY <1>1, <1>5
  <1>11. v = Left(b, R \cup {i}, UNION V)
    <2> DEFINE P == UNION W
               A == UNION V
               T == R \cup {i}
    <2>1. /\ P \in SUBSET DOMAIN b /\ G \in SUBSET DOMAIN b /\ A \in SUBSET DOMAIN b
          /\ \A x \in P : x \notin G
          /\ \A x : x \in A <=> x \in P \/ x \in G
      BY <1>6, <1>8, <1>9
    <2>2. ASSUME NEW m \in Member
          PROVE  Left(b, T, A)[m] = v[m]
      <3> DEFINE p   == Cardinality(Units(b, m, P))
                 q   == Cardinality(Units(b, m, G))
                 off == \E j \in R : On(m, j)
                 all == \E j \in T : On(m, j)
      <3>1. all <=> off \/ On(m, i)
        OBVIOUS
      <3> HIDE DEF P, A, T, G
      <3>2. Cardinality(Units(b, m, A)) = p + q /\ p \in Nat /\ q \in Nat
        BY <2>1, Counting
      <3>3. /\ Left(b, T, A)[m] = IF all THEN 0 ELSE p + q
            /\ Left(b, T, P)[m] = IF all THEN 0 ELSE p
            /\ Left(b, R, G)[m] = IF off THEN 0 ELSE q
        BY <2>1, <3>2, LeftFacts
      <3> HIDE DEF p, q, off, all
      <3>4. /\ On(m, i) => Left(b, T, A)[m] = Left(b, T, P)[m]
            /\ ~ On(m, i) => Left(b, T, A)[m] = Left(b, T, P)[m] + Left(b, R, G)[m]
        BY <3>1, <3>2, <3>3
      <3>5. u = Left(b, T, P)
        BY <1>4 DEF P, T
      <3>6. QED
        BY <1>10, <3>4, <3>5 DEF Merges
    <2>3. Left(b, T, A) = [m \in Member |-> Left(b, T, A)[m]]
      BY DEF Left
    <2> HIDE DEF A, T
    <2>4. QED
      BY <2>2, <2>3 DEF Merges, A, T
  <1>12. \/ Named(b, UNION V) = {} /\ name = NoName
         \/ \E x \in Named(b, UNION V) :
              name = b[x].name /\ ((\A P \in V : Uncut(b, R, P)) => First(b, UNION V, x))
    <2>1. Named(b, UNION V) = Named(b, UNION W) \cup Named(b, G)
      BY <1>8 DEF Named
    <2>2. CASE Named(b, UNION W) = {} /\ n = NoName
      <3>1. name = Head(list).name
        BY <2>2 DEF Merges
      <3>2. CASE Named(b, G) = {} /\ name = NoName
        BY <2>1, <2>2, <3>2
      <3>3. CASE ~ (Named(b, G) = {} /\ name = NoName)
        <4>1. PICK x \in Named(b, G) : name = b[x].name /\ (Uncut(b, R, G) => First(b, G, x))
          BY <1>10, <3>1, <3>3 DEF Calls
        <4>2. Named(b, UNION V) = Named(b, G)
          BY <2>1, <2>2
        <4>3. First(b, UNION V, x) <=> First(b, G, x)
          BY <4>2 DEF First
        <4>4. QED
          BY <4>1, <4>2, <4>3
      <3>4. QED
        BY <3>2, <3>3
    <2>3. CASE ~ (Named(b, UNION W) = {} /\ n = NoName)
      <3>1. PICK x \in Named(b, UNION W) :
              n = b[x].name /\ ((\A P \in W : Uncut(b, R, P)) => First(b, UNION W, x))
        BY <2>3 DEF Within
      <3>2. n # NoName /\ name = n
        BY <3>1 DEF Named, Merges
      <3>3. ASSUME \A P \in V : Uncut(b, R, P), NEW y \in Named(b, UNION V)
            PROVE  x <= y
        <4>1. CASE y \in Named(b, UNION W)
          BY <3>1, <3>3, <4>1 DEF First
        <4>2. CASE y \in Named(b, G)
          <5>1. PICK P \in W : x \in P
            BY <3>1 DEF Named
          <5>2. Precede(b, R, P, G)
            BY <1>1, <1>4, <5>1
          <5>3. x < y
            BY <3>3, <4>2, <5>1, <5>2 DEF Precede, Named
          <5>4. x \in Nat /\ y \in Nat
            BY <1>6, <3>1, <4>2 DEF Named
          <5>5. QED
            BY <5>3, <5>4
        <4>3. QED
          BY <2>1, <3>3, <4>1, <4>2
      <3>4. x \in Named(b, UNION V)
        BY <2>1, <3>1
      <3>5. (\A P \in V : Uncut(b, R, P)) => First(b, UNION V, x)
        BY <3>3 DEF First
      <3>6. QED
        BY <3>1, <3>2, <3>4, <3>5
    <2>4. QED
      BY <2>2, <2>3
  <1> HIDE DEF G, V
  <1>13. Stand(b, R, Q, rest, f)
    <2>1. \A l \in DOMAIN rest : f[l] \in Q /\ rest[l].members = Left(b, R, f[l]) /\ Calls(b, R, f[l], rest[l].name)
      <3> SUFFICES ASSUME NEW l \in DOMAIN rest
                   PROVE  f[l] \in Q /\ rest[l].members = Left(b, R, f[l]) /\ Calls(b, R, f[l], rest[l].name)
        OBVIOUS
      <3>1. l + 1 \in DOMAIN list /\ f[l] = g[l + 1] /\ rest[l] = list[l + 1]
        BY <1>1, <1>2
      <3>2. QED
        BY <1>5, <3>1
    <2>2. \A j, l \in DOMAIN rest : f[j] = f[l] => j = l
      <3> SUFFICES ASSUME NEW j \in DOMAIN rest, NEW l \in DOMAIN rest, f[j] = f[l] PROVE j = l
        OBVIOUS
      <3>1. j + 1 = l + 1
        BY <1>1, <1>2, <1>5
      <3>2. QED
        BY <1>1, <3>1
    <2>3. f \in [DOMAIN rest -> Q]
      BY <1>3, <2>1
    <2>4. QED
      BY <2>1, <2>2, <2>3 DEF Stand
  <1>14. InOrder(b, R, rest, f)
    <2> SUFFICES ASSUME NEW j \in DOMAIN rest, NEW l \in DOMAIN rest, j < l
                 PROVE  Precede(b, R, f[j], f[l])
      BY DEF InOrder
    <2>1. j + 1 < l + 1
      BY <1>1
    <2>2. QED
      BY <1>1, <1>2, <1>4, <2>1 DEF InOrder
  <1>15. \A l \in DOMAIN rest : /\ f[l] \notin V
                                /\ \A j \in DOMAIN aside : h[j] # f[l] /\ Precede(b, R, h[j], f[l])
                                /\ \A P \in V : Precede(b, R, P, f[l])
    <2> SUFFICES ASSUME NEW l \in DOMAIN rest
                 PROVE  /\ f[l] \notin V
                        /\ \A j \in DOMAIN aside : h[j] # f[l] /\ Precede(b, R, h[j], f[l])
                        /\ \A P \in V : Precede(b, R, P, f[l])
      OBVIOUS
    <2>1. l + 1 \in DOMAIN list /\ 1 < l + 1 /\ f[l] = g[l + 1] /\ 1 # l + 1
      BY <1>1, <1>2
    <2>2. f[l] # G /\ Precede(b, R, G, f[l])
      BY <1>1, <1>4, <1>5, <2>1 DEF G, InOrder
    <2>3. QED
      BY <1>4, <2>1, <2>2 DEF V
  <1>16. \A P \in V : Cuts(b, P, i)
    BY <1>4, <1>7 DEF V
  <1>17. \A P \in Q : \/ \E j \in DOMAIN rest : f[j] = P
                      \/ \E j \in DOMAIN aside : h[j] = P
                      \/ P \in V
                      \/ Lost(b, R, P)
    <2> SUFFICES ASSUME NEW P \in Q
                 PROVE  \/ \E j \in DOMAIN rest : f[j] = P
                        \/ \E j \in DOMAIN aside : h[j] = P
                        \/ P \in V
                        \/ Lost(b, R, P)
      OBVIOUS
    <2>1. ASSUME NEW j \in DOMAIN list, g[j] = P
          PROVE  P \in V \/ \E l \in DOMAIN rest : f[l] = P
      <3>1. CASE j = 1
        BY <2>1, <3>1 DEF V, G
      <3>2. CASE j # 1
        BY <1>1, <1>2, <2>1, <3>2
      <3>3. QED
        BY <3>1, <3>2
    <2>2. P \in W => P \in V
      BY DEF V
    <2>3. QED
      BY <1>4, <2>1, <2>2
  <1>18. V \subseteq Q
    BY <1>4, <1>6 DEF V
  <1>19. Within(b, R, i, rest, aside, v, name, Q, f, h, V)
    BY <1>4, <1>11, <1>12, <1>13, <1>14, <1>15, <1>16, <1>17, <1>18 DEF Within
  <1>20. QED
    BY <1>19 DEF rest

(* All nets drained: the merged ones are one group more, unless nothing is *)
(* left of them.                                                           *)
LEMMA EndsBetween ==
  ASSUME NEW b \in Seq(Nets), NEW R, NEW i, NEW list, DOMAIN list = {}, NEW aside \in Seq(Nets),
         NEW u \in Bags, NEW n \in NetName \cup {NoName}, NEW Q, NEW g, NEW h, NEW W,
         Within(b, R, i, list, aside, u, n, Q, g, h, W)
  PROVE  \E Z, o : Between(b, R \cup {i},
                           IF u = Empty THEN aside ELSE Append(aside, [members |-> u, name |-> n]),
                           Z, o)
  <1> DEFINE S == R \cup {i}
             M == UNION W
             Z == (Q \ W) \cup (IF W = {} THEN {} ELSE {M})
  <1>1. /\ IsGroups(b, R, Q) /\ W \subseteq Q /\ i \notin R
        /\ Stand(b, R, Q, aside, h) /\ InOrder(b, R, aside, h)
        /\ \A j \in DOMAIN aside : ~ Cuts(b, h[j], i)
        /\ \A P \in W : Cuts(b, P, i)
        /\ u = Left(b, S, M)
        /\ \A P \in Q : (\E j \in DOMAIN aside : h[j] = P) \/ P \in W \/ Lost(b, R, P)
    BY DEF Within
  <1>2. /\ \A j \in DOMAIN aside : /\ h[j] \in Q
                                   /\ aside[j].members = Left(b, R, h[j])
                                   /\ Calls(b, R, h[j], aside[j].name)
                                   /\ \A l \in DOMAIN aside : h[j] = h[l] => j = l
        /\ h \in [DOMAIN aside -> Q]
    BY <1>1 DEF Stand
  <1>3. Q \subseteq SUBSET DOMAIN b /\ {} \notin Q /\ M \in SUBSET DOMAIN b
    BY <1>1 DEF IsGroups
  <1>4. \A P \in Q : P \notin W => ~ Cuts(b, P, i)
    <2> SUFFICES ASSUME NEW P \in Q, P \notin W, Cuts(b, P, i) PROVE FALSE
      OBVIOUS
    <2>1. Left(b, R, P) = Empty
      BY <1>1 DEF Lost
    <2>2. Touches(Left(b, R, P), i)
      BY <1>1, <1>3, LeftTouches
    <2>3. QED
      BY <2>1, <2>2 DEF Touches, Empty
  <1>5. W = {P \in Q : Cuts(b, P, i)}
    BY <1>1, <1>4
  <1>6. IsGroups(b, S, Z)
    BY <1>1, <1>5, MergedGroups
  <1>7. \A P \in Q \ W : /\ Left(b, S, P) = Left(b, R, P)
                         /\ Uncut(b, S, P) <=> Uncut(b, R, P)
                         /\ \A q : Calls(b, R, P, q) => Calls(b, S, P, q)
                         /\ Lost(b, R, P) => Lost(b, S, P)
    BY <1>1, <1>3, <1>4, Unaffected
  <1>8. \A j \in DOMAIN aside : h[j] \in Q \ W
    BY <1>1, <1>2
  <1>9. \A P \in Z : P \in Q \ W \/ (W # {} /\ P = M)
    OBVIOUS
  <1>10. Q \ W \subseteq Z /\ (W # {} => M \in Z)
    OBVIOUS
  <1>11. W # {} => /\ Cuts(b, M, i)
                   /\ \E x \in M : Together(b, S, x, x)
    <2> SUFFICES ASSUME W # {} PROVE Cuts(b, M, i) /\ \E x \in M : Together(b, S, x, x)
      OBVIOUS
    <2>1. PICK P \in W : Cuts(b, P, i)
      BY <1>1
    <2>2. PICK x \in P : Touches(b[x].members, i)
      BY <2>1 DEF Cuts
    <2>3. QED
      BY <2>2 DEF Cuts, Together
  <1> HIDE DEF Z, M, S
  <1>12. CASE u = Empty
    <2>1. Stand(b, S, Z, aside, h)
      <3>1. h \in [DOMAIN aside -> Z]
        BY <1>2, <1>8, <1>10
      <3>2. \A j \in DOMAIN aside : aside[j].members = Left(b, S, h[j]) /\ Calls(b, S, h[j], aside[j].name)
        BY <1>2, <1>7, <1>8
      <3>3. QED
        BY <1>2, <3>1, <3>2 DEF Stand
    <2>2. InOrder(b, S, aside, h)
      BY <1>1, <1>7, <1>8 DEF InOrder, Precede
    <2>3. \A P \in Z : (\E j \in DOMAIN aside : h[j] = P) \/ Lost(b, S, P)
      <3> SUFFICES ASSUME NEW P \in Z PROVE (\E j \in DOMAIN aside : h[j] = P) \/ Lost(b, S, P)
        OBVIOUS
      <3>1. CASE P \in Q \ W
        BY <1>1, <1>7, <3>1
      <3>2. CASE W # {} /\ P = M
        BY <1>1, <1>11, <1>12, <3>2 DEF Lost
      <3>3. QED
        BY <1>9, <3>1, <3>2
    <2>4. Between(b, S, aside, Z, h)
      BY <1>6, <2>1, <2>2, <2>3 DEF Between
    <2>5. QED
      BY <1>12, <2>4 DEF S
  <1>13. CASE u # Empty
    <2> DEFINE new  == [members |-> u, name |-> n]
               more == Append(aside, new)
               e    == Len(aside) + 1
               o    == [j \in DOMAIN more |-> IF j \in DOMAIN aside THEN h[j] ELSE M]
    <2>1. /\ e \in DOMAIN more /\ more[e] = new /\ e \notin DOMAIN aside
          /\ \A j \in DOMAIN aside : j \in DOMAIN more /\ more[j] = aside[j]
          /\ \A j \in DOMAIN more : j \in DOMAIN aside \/ j = e
      <3>1. new \in Nets
        BY DEF Nets
      <3> HIDE DEF new
      <3>2. e \notin DOMAIN aside
        OBVIOUS
      <3>3. QED
        BY <3>1, <3>2, Appended
    <2>2. new.members = u /\ new.name = n
      OBVIOUS
    <2>3. o = [j \in DOMAIN more |-> o[j]] /\ DOMAIN o = DOMAIN more
      OBVIOUS
    <2>4. o[e] = M /\ \A j \in DOMAIN aside : o[j] = h[j]
      BY <2>1
    <2> HIDE DEF new, more, e, o
    <2>5. W # {}
      <3>1. W = {} => M = {}
        BY DEF M
      <3>2. QED
        BY <1>1, <1>13, <3>1, LeftOfNothing
    <2>6. Calls(b, S, M, n)
      <3>1. CASE Named(b, M) = {} /\ n = NoName
        BY <3>1 DEF Calls
      <3>2. CASE ~ (Named(b, M) = {} /\ n = NoName)
        <4>1. PICK x \in Named(b, M) : n = b[x].name /\ ((\A P \in W : Uncut(b, R, P)) => First(b, M, x))
          BY <3>2 DEF Within, M
        <4>2. ~ Uncut(b, S, M)
          BY <1>11, <2>5 DEF Uncut, S
        <4>3. ASSUME NEW q \in S, \A j \in S : Cuts(b, M, j) <=> j = q
              PROVE  First(b, M, x)
          <5>1. q = i
            BY <1>11, <2>5, <4>3 DEF S
          <5>2. \A j \in R : ~ Cuts(b, M, j)
            BY <1>1, <4>3, <5>1 DEF S
          <5>3. \A P \in W : Uncut(b, R, P)
            BY <5>2 DEF Uncut, Cuts, M
          <5>4. QED
            BY <4>1, <5>3
        <4>4. QED
          BY <4>1, <4>2, <4>3 DEF Calls
      <3>3. QED
        BY <3>1, <3>2
    <2>7. \A j \in DOMAIN aside : h[j] # M
      BY <1>1, <1>11, <2>5
    <2>8. Stand(b, S, Z, more, o)
      <3>1. \A j \in DOMAIN more : o[j] \in Z /\ more[j].members = Left(b, S, o[j]) /\ Calls(b, S, o[j], more[j].name)
        <4> SUFFICES ASSUME NEW j \in DOMAIN more
                     PROVE  o[j] \in Z /\ more[j].members = Left(b, S, o[j]) /\ Calls(b, S, o[j], more[j].name)
          OBVIOUS
        <4>1. CASE j \in DOMAIN aside
          <5>1. o[j] = h[j] /\ more[j] = aside[j] /\ h[j] \in Q \ W
            BY <1>8, <2>1, <2>4, <4>1
          <5>2. QED
            BY <1>2, <1>7, <1>10, <4>1, <5>1
        <4>2. CASE j = e
          <5>1. o[j] = M /\ more[j].members = u /\ more[j].name = n
            BY <2>1, <2>2, <2>4, <4>2
          <5>2. QED
            BY <1>1, <1>10, <2>5, <2>6, <5>1
        <4>3. QED
          BY <2>1, <4>1, <4>2
      <3>2. \A j, l \in DOMAIN more : o[j] = o[l] => j = l
        BY <1>2, <2>1, <2>4, <2>7
      <3>3. o \in [DOMAIN more -> Z]
        BY <2>3, <3>1
      <3>4. QED
        BY <3>1, <3>2, <3>3 DEF Stand
    <2>9. InOrder(b, S, more, o)
      <3> SUFFICES ASSUME NEW j \in DOMAIN more, NEW l \in DOMAIN more, j < l
                   PROVE  Precede(b, S, o[j], o[l])
        BY DEF InOrder
      <3>1. ~ Uncut(b, S, M)
        BY <1>11, <2>5 DEF Uncut, S
      <3>2. CASE j = e \/ l = e
        BY <2>4, <3>1, <3>2 DEF Precede
      <3>3. CASE j \in DOMAIN aside /\ l \in DOMAIN aside
        <4>1. Precede(b, R, h[j], h[l])
          BY <1>1, <3>3 DEF InOrder
        <4>2. h[j] \in Q \ W /\ h[l] \in Q \ W
          BY <1>8, <3>3
        <4>3. Precede(b, S, h[j], h[l])
          BY <1>7, <4>1, <4>2 DEF Precede
        <4>4. QED
          BY <2>4, <3>3, <4>3
      <3>4. QED
        BY <2>1, <3>2, <3>3
    <2>10. \A P \in Z : (\E j \in DOMAIN more : o[j] = P) \/ Lost(b, S, P)
      <3> SUFFICES ASSUME NEW P \in Z PROVE (\E j \in DOMAIN more : o[j] = P) \/ Lost(b, S, P)
        OBVIOUS
      <3>1. CASE P \in Q \ W
        BY <1>1, <1>7, <2>1, <2>4, <3>1
      <3>2. CASE P = M
        BY <2>1, <2>4, <3>2
      <3>3. QED
        BY <1>9, <3>1, <3>2
    <2>11. Between(b, S, more, Z, o)
      BY <1>6, <2>8, <2>9, <2>10 DEF Between
    <2>12. QED
      BY <1>13, <2>11 DEF S, more, new
  <1>14. QED
    BY <1>12, <1>13
--------------------------------------------------------------------------------
LEMMA RemovedNext ==
  ASSUME TypeOK, pc # "idle", k <= Len(names), names' = names, k' = NextK
  PROVE  /\ Removed' = Removed \cup {names[k]}
         /\ \A r \in Removed : r \in Removed'
  <1>1. k \in Nat \ {0}
    BY DEF TypeOK
  <1>2. 1 .. k' - 1 = (1 .. k - 1) \cup {k}
    BY <1>1 DEF NextK
  <1>3. QED
    BY <1>2 DEF Removed

(* GroupsMerged is kept by every step.                                     *)
LEMMA GroupsStep ==
  ASSUME TypeOK, LocalsReset, NoDangling, GroupsMerged, [Next]_vars
  PROVE  GroupsMerged'
  <1>1. ASSUME pc' = "idle" PROVE GroupsMerged'
    BY <1>1 DEF GroupsMerged
  <1>2. CASE UNCHANGED vars
    <2>1. Removed' = Removed
      BY <1>2 DEF Removed, vars, locals
    <2>2. QED
      BY <1>2, <2>1 DEF GroupsMerged, vars, locals
  <1>3. ASSUME NEW list \in Removals, StartRemove(list) PROVE GroupsMerged'
    <2>1. Removed' = {}
      BY <1>3 DEF StartRemove, Removed
    <2>2. /\ pc' = "next" /\ before' = nets /\ nets' = nets /\ instances' = instances
          /\ pc = "idle" /\ nets \in Seq(Nets)
      BY <1>3 DEF StartRemove, TypeOK
    <2>3. \A x \in DOMAIN nets : \A m \in Member :
             nets[x].members[m] > 0 /\ m[1] # 0 => m[2] \in DOMAIN instances
      BY <2>2, NotDraining DEF Sound, Exists
    <2>4. Between(nets, {}, nets, {{x} : x \in DOMAIN nets}, [x \in DOMAIN nets |-> {x}])
      BY <2>2, StartsBetween
    <2>5. \E Q, g : Between(nets, {}, nets, Q, g)
      BY <2>4
    <2>6. \E Q, g : Between(before', Removed', nets', Q, g)
      BY <2>1, <2>2, <2>5
    <2>7. QED
      BY <2>2, <2>3, <2>6 DEF GroupsMerged
  <1>4. CASE SkipName
    <2> DEFINE i == names[k]
    <2>1. /\ pc = "next" /\ pc' = "next" /\ before' = before /\ nets' = nets /\ instances' = instances
          /\ i \notin DOMAIN instances /\ before \in Seq(Nets)
      BY <1>4 DEF SkipName, TypeOK
    <2>2. Removed' = Removed \cup {i} /\ \A r \in Removed : r \in Removed'
      BY <1>4, RemovedNext DEF SkipName
    <2> HIDE DEF i
    <2>3. PICK Q, g : Between(before, Removed, nets, Q, g)
      BY <2>1 DEF GroupsMerged
    <2>4. i \in Removed \/ ~ Cuts(before, DOMAIN before, i)
      BY <2>1 DEF GroupsMerged, Cuts, Touches, On
    <2>5. Between(before, Removed \cup {i}, nets, Q, g)
      BY <2>1, <2>3, <2>4, SkipBetween
    <2>6. \E O, f : Between(before', Removed', nets', O, f)
      BY <2>1, <2>2, <2>5
    <2>7. QED
      BY <2>1, <2>2, <2>6 DEF GroupsMerged
  <1>5. CASE RemoveName
    <2> DEFINE i == names[k]
    <2>1. /\ pc = "next" /\ pc' = "drain" /\ before' = before /\ nets' = nets /\ names' = names /\ k' = k
          /\ surviving' = surviving /\ merged' = merged /\ mergedName' = mergedName
          /\ i \in DOMAIN instances /\ before \in Seq(Nets)
          /\ DOMAIN instances' = DOMAIN instances \ {i}
      BY <1>5 DEF RemoveName, TypeOK, locals
    <2>2. Removed' = Removed /\ i' = i
      BY <2>1 DEF Removed
    <2>3. i \notin Removed
      <3>1. \A x \in 1 .. k - 1 : x \in DOMAIN names /\ x < k
        BY <1>5 DEF RemoveName, TypeOK
      <3>2. QED
        BY <2>1, <3>1 DEF Removed, LocalsReset
    <2>4. surviving = << >> /\ merged = Empty /\ mergedName = NoName
      BY <2>1 DEF LocalsReset
    <2> HIDE DEF i
    <2>5. PICK Q, g : Between(before, Removed, nets, Q, g)
      BY <2>1 DEF GroupsMerged
    <2>6. Within(before, Removed, i, nets, << >>, Empty, NoName, Q, g, << >>, {})
      BY <2>1, <2>3, <2>5, StartsWithin
    <2>7. \E O, f, h, W : Within(before', Removed', i', nets', surviving', merged', mergedName', O, f, h, W)
      BY <2>1, <2>2, <2>4, <2>6
    <2>8. QED
      BY <2>1, <2>2, <2>7 DEF GroupsMerged, i
  <1>6. CASE DrainOther
    <2> DEFINE i == names[k]
    <2>1. /\ pc = "drain" /\ pc' = "drain" /\ before' = before /\ names' = names /\ k' = k
          /\ instances' = instances
          /\ nets # << >> /\ nets' = Tail(nets) /\ surviving' = Append(surviving, Head(nets))
          /\ merged' = merged /\ mergedName' = mergedName /\ ~ Touches(Head(nets).members, i)
          /\ before \in Seq(Nets) /\ nets \in Seq(Nets) /\ surviving \in Seq(Nets)
      BY <1>6 DEF DrainOther, TypeOK, Touched
    <2>2. Removed' = Removed /\ i' = i
      BY <2>1 DEF Removed
    <2> HIDE DEF i
    <2>3. PICK Q, g, h, W : Within(before, Removed, i, nets, surviving, merged, mergedName, Q, g, h, W)
      BY <2>1 DEF GroupsMerged, i
    <2>4. \E O, f, o, V :
             Within(before, Removed, i, Tail(nets), Append(surviving, Head(nets)), merged, mergedName, O, f, o, V)
      BY <2>1, <2>3, AsideWithin
    <2>5. \E O, f, o, V : Within(before', Removed', i', nets', surviving', merged', mergedName', O, f, o, V)
      BY <2>1, <2>2, <2>4
    <2>6. QED
      BY <2>1, <2>2, <2>5 DEF GroupsMerged, i
  <1>7. CASE DrainTouching
    <2> DEFINE i == names[k]
    <2>1. /\ pc = "drain" /\ pc' = "drain" /\ before' = before /\ names' = names /\ k' = k
          /\ instances' = instances /\ surviving' = surviving
          /\ nets # << >> /\ nets' = Tail(nets)
          /\ mergedName' = IF mergedName = NoName THEN Head(nets).name ELSE mergedName
          /\ Touches(Head(nets).members, i)
          /\ before \in Seq(Nets) /\ nets \in Seq(Nets) /\ surviving \in Seq(Nets)
      BY <1>7 DEF DrainTouching, TypeOK, Touched, FirstName
    <2>2. merged' = [m \in Member |-> merged'[m]]
          /\ \A m \in Member : merged'[m] = merged[m] + Kept(Head(nets).members, i)[m]
      BY <1>7 DEF DrainTouching
    <2>3. Removed' = Removed /\ i' = i
      BY <2>1 DEF Removed
    <2> HIDE DEF i
    <2>4. PICK Q, g, h, W : Within(before, Removed, i, nets, surviving, merged, mergedName, Q, g, h, W)
      BY <2>1 DEF GroupsMerged, i
    <2>5. \A m \in Member : /\ On(m, i) => Kept(Head(nets).members, i)[m] = 0
                            /\ ~ On(m, i) => Kept(Head(nets).members, i)[m] = Head(nets).members[m]
      BY DEF Kept
    <2>6. Merges(i, merged, mergedName, Head(nets), merged', mergedName')
      <3>1. \A m \in Member : merged[m] \in Nat /\ merged[m] = merged[m] + 0
        BY DEF TypeOK, Bags
      <3>2. \A m \in Member : /\ On(m, i) => merged'[m] = merged[m]
                              /\ ~ On(m, i) => merged'[m] = merged[m] + Head(nets).members[m]
        BY <2>2, <2>5, <3>1
      <3>3. QED
        BY <2>1, <2>2, <3>2 DEF Merges
    <2> DEFINE v  == merged'
               nm == mergedName'
    <2> HIDE DEF v, nm
    <2>7. \E f, V : Within(before, Removed, i, Tail(nets), surviving, v, nm, Q, f, h, V)
      <3>1. Merges(i, merged, mergedName, Head(nets), v, nm)
        BY <2>6 DEF v, nm
      <3>2. QED
        BY <2>1, <2>4, <3>1, MergedWithin
    <2>8. \E O, f, o, V : Within(before', Removed', i', nets', surviving', merged', mergedName', O, f, o, V)
      BY <2>1, <2>3, <2>7 DEF v, nm
    <2>9. QED
      BY <2>1, <2>3, <2>8 DEF GroupsMerged, i
  <1>8. CASE EndPass
    <2> DEFINE i == names[k]
    <2>1. /\ pc = "drain" /\ pc' = "next" /\ before' = before /\ instances' = instances
          /\ DOMAIN nets = {} /\ before \in Seq(Nets) /\ surviving \in Seq(Nets)
          /\ merged \in Bags /\ mergedName \in NetName \cup {NoName}
          /\ nets' = IF merged = Empty THEN surviving
                     ELSE Append(surviving, [members |-> merged, name |-> mergedName])
      BY <1>8 DEF EndPass, TypeOK, Collected
    <2>2. k <= Len(names) /\ names' = names /\ k' = NextK
      BY <1>8 DEF EndPass, TypeOK
    <2>3. Removed' = Removed \cup {i} /\ \A r \in Removed : r \in Removed'
      BY <2>1, <2>2, RemovedNext
    <2> HIDE DEF i
    <2>4. PICK Q, g, h, W : Within(before, Removed, i, nets, surviving, merged, mergedName, Q, g, h, W)
      BY <2>1 DEF GroupsMerged, i
    <2>5. \E Z, o : Between(before, Removed \cup {i},
                            IF merged = Empty THEN surviving
                            ELSE Append(surviving, [members |-> merged, name |-> mergedName]), Z, o)
      BY <2>1, <2>4, EndsBetween
    <2>6. \E Z, o : Between(before', Removed', nets', Z, o)
      BY <2>1, <2>3, <2>5
    <2>7. QED
      BY <2>1, <2>3, <2>6 DEF GroupsMerged, i
  <1>9. CASE ReturnRemove
    BY <1>1, <1>9 DEF ReturnRemove
  <1>10. ASSUME pc = "idle", pc' = pc PROVE GroupsMerged'
    BY <1>1, <1>10
  <1>11. ASSUME NEW p \in TopPort, CreatePort(p) PROVE GroupsMerged'
    BY <1>10, <1>11 DEF CreatePort
  <1>12. ASSUME NEW i \in Inst, NEW na \in Dim, NEW nb \in Dim, CreateInst(i, na, nb)
         PROVE  GroupsMerged'
    BY <1>10, <1>12 DEF CreateInst
  <1>13. ASSUME NEW request \in Requests, NEW name \in NetName \cup {NoName}, CreateNet(request, name)
         PROVE  GroupsMerged'
    BY <1>10, <1>13 DEF CreateNet
  <1>14. CASE Sort
    BY <1>10, <1>14 DEF Sort
  <1>15. QED
    BY <1>2, <1>3, <1>4, <1>5, <1>6, <1>7, <1>8, <1>9, <1>11, <1>12, <1>13, <1>14
       DEF Next, Editing, Removing

LEMMA Grouping == Spec => []GroupsMerged
  <1>1. Init => GroupsMerged
    BY DEF Init, GroupsMerged
  <1>2. IInv /\ GroupsMerged /\ [Next]_vars => GroupsMerged'
    BY GroupsStep DEF IInv
  <1>3. QED
    BY <1>1, <1>2, Inductive, PTL DEF Spec

(* The nets after the last name are the groups, under one of their names.  *)
LEMMA GroupsDone ==
  ASSUME TypeOK, GroupsMerged, Done
  PROVE  \E g \in Groupings : \A j \in DOMAIN nets : NameOf(g[j], nets[j].name)
  <1>1. pc = "next" /\ before \in Seq(Nets) /\ Removed = Given
    <2>1. k - 1 = Len(names)
      BY DEF Done, TypeOK
    <2>2. DOMAIN names = 1 .. Len(names)
      BY DEF TypeOK
    <2>3. QED
      BY <2>1, <2>2 DEF Done, TypeOK, Removed, Given
  <1>2. PICK Q, g : Between(before, Given, nets, Q, g)
    BY <1>1 DEF GroupsMerged
  <1>3. \A x, y : Linked(x, y) <=> Together(before, Given, x, y)
    BY DEF Linked, Together
  <1>4. Q = Groups
    <2>1. Q = Parts(DOMAIN before, [x \in DOMAIN before |-> {y \in DOMAIN before : Together(before, Given, x, y)}])
      BY <1>1, <1>2, GroupsAreParts DEF Between
    <2>2. Groups = Parts(DOMAIN before, [x \in DOMAIN before |-> {y \in DOMAIN before : Linked(x, y)}])
      BY DEF Groups, Components
    <2>3. [x \in DOMAIN before |-> {y \in DOMAIN before : Linked(x, y)}]
            = [x \in DOMAIN before |-> {y \in DOMAIN before : Together(before, Given, x, y)}]
      BY <1>3
    <2>4. QED
      BY <2>1, <2>2, <2>3
  <1>5. \A P : Rest(P) = Left(before, Given, P)
    BY DEF Rest, Left, Copies, Units
  <1>6. \A P : Lost(before, Given, P) => Disappears(P)
    BY <1>3, <1>5 DEF Lost, Disappears
  <1>7. Stand(before, Given, Q, nets, g)
    BY <1>2 DEF Between
  <1>8. g \in Groupings
    <2>1. g \in [DOMAIN nets -> Groups]
      BY <1>4, <1>7 DEF Stand
    <2>2. \A i, j \in DOMAIN nets : g[i] = g[j] => i = j
      BY <1>7 DEF Stand
    <2>3. \A j \in DOMAIN nets : nets[j].members = Rest(g[j])
      BY <1>5, <1>7 DEF Stand
    <2>4. \A P \in Groups : (\E j \in DOMAIN nets : g[j] = P) \/ Disappears(P)
      BY <1>2, <1>4, <1>6 DEF Between
    <2>5. QED
      BY <2>1, <2>2, <2>3, <2>4 DEF Groupings
  <1>9. ASSUME NEW P, NEW n, Calls(before, Given, P, n)
        PROVE  NameOf(P, n)
    <2>1. Named(before, P) = NamedIn(P)
      BY DEF Named, NamedIn
    <2>2. ASSUME NEW i \in Given, CutBy(P) = {i}
          PROVE  \E q \in Given : \A j \in Given : Cuts(before, P, j) <=> j = q
      BY <2>2 DEF CutBy, Cuts
    <2>3. QED
      BY <1>9, <2>1, <2>2 DEF Calls, NameOf, First
  <1>10. QED
    BY <1>7, <1>8, <1>9 DEF Stand

(* After remove_instances the nets are the groups of the nets it was given *)
(* that the removed instances connected, in however many passes, with all  *)
(* that survives of each, and no group is left out unless nothing of it    *)
(* survives.                                                               *)
THEOREM RemovalMerges == Spec => []RemovalMergesGroups
  <1>1. TypeOK /\ GroupsMerged => RemovalMergesGroups
    BY GroupsDone DEF RemovalMergesGroups
  <1>2. QED
    BY <1>1, Typing, Grouping, PTL

(* A merged net keeps a name of its group, that of its first named net     *)
(* when one instance merged them, and is anonymous only if all were.       *)
THEOREM NamesKept == Spec => []NamesFollowNets
  <1>1. TypeOK /\ GroupsMerged => NamesFollowNets
    BY GroupsDone DEF NamesFollowNets
  <1>2. QED
    BY <1>1, Typing, Grouping, PTL
================================================================================
