---------------------------- MODULE Normalize_proofs ----------------------------
(***************************************************************************)
(* For every netlist and all arguments: the invariant of the three loops,  *)
(* and that with a mapping in which canonical ports stand for themselves   *)
(* the nets of the result share no reference if those of the netlist       *)
(* shared none.                                                            *)
(***************************************************************************)
EXTENDS Normalize, SequenceTheorems, Components_proofs

IsSeq(s) == \E S : s \in Seq(S)

Size    == Len(call.nets)
Roots   == {rep[n] : n \in changed}
Merging == pc \in {"merge", "done", "missing"}
MergedFrom(root) == {Resolved(m) : m \in Members(Block(root))}
MergedNet(root)  == [members |-> MergedFrom(root), name |-> NameOf(Block(root))]
IsNet(net) == net = [members |-> net.members, name |-> net.name]

(* The scan has renamed the nets before its cursor and has recorded every  *)
(* canonical reference it met there, whether renaming changed it or not.   *)
Scanning ==
  /\ IsSeq(call.nets) /\ \A n \in 1 .. Size : IsNet(call.nets[n])
  /\ cursor \in 1 .. Size + 1 /\ (pc # "scan" => cursor = Size + 1)
  /\ nets = [n \in 1 .. Size |-> IF n < cursor THEN RenamedNet(call.nets[n]) ELSE call.nets[n]]
  /\ keyed = UNION {{<<key, n>> : key \in Keys(n)} : n \in 1 .. cursor - 1}
  /\ changed = {n \in 1 .. cursor - 1 : Keys(n) # {}}

(* Nets that share a canonical reference are in one block, once its key    *)
(* has been taken from the map; and nets are in one block only if no set   *)
(* of nets that shares no reference with others has one and not the other. *)
Near == [n \in changed |-> {o \in changed : Keys(n) \cap Keys(o) # {}}]
NoMore ==
  \A C \in SUBSET changed : Sealed(Near, C) =>
     \A n, o \in changed : rep[n] = rep[o] /\ n \in C => o \in C
Uniting ==
  /\ rep \in [1 .. Size -> 1 .. Size] /\ \A n \in 1 .. Size : rep[rep[n]] = rep[n]
  /\ pc = "scan" => todo = {} /\ \A n \in 1 .. Size : rep[n] = n
  /\ pc = "unite" => todo \subseteq {x[1] : x \in keyed}
  /\ pc # "scan" => \A n, o \in changed : \A key \in Keys(n) \cap Keys(o) :
                       (pc = "unite" /\ key \in todo) \/ rep[n] = rep[o]
  /\ NoMore

(* Each merged net is made of a block of its own, and every block that is  *)
(* no longer waiting has made one.                                         *)
MadeOf(from) ==
  /\ from \in [DOMAIN made -> Roots \ todo]
  /\ \A i, j \in DOMAIN made : from[i] = from[j] => i = j
  /\ \A root \in Roots \ todo : \E i \in DOMAIN made : from[i] = root
  /\ \A i \in DOMAIN made : made[i] = MergedNet(from[i])
MergedOnce ==
  /\ IsSeq(made)
  /\ pc \in {"scan", "unite"} => made = << >>
  /\ Merging => todo \subseteq Roots /\ \E from : MadeOf(from)
  /\ pc = "done" => todo = {}
  /\ pc = "missing" => \E root \in Roots : \E m \in Members(Block(root)) : Missing(m)

IInv ==
  /\ pc \in {"scan", "unite", "merge", "done", "missing"}
  /\ Scanning /\ Uniting /\ MergedOnce
--------------------------------------------------------------------------------
(* Sequences, whatever is in them.                                         *)
LEMMA SeqShape ==
  ASSUME NEW s, IsSeq(s)
  PROVE  Len(s) \in Nat /\ DOMAIN s = 1 .. Len(s) /\ s = [i \in 1 .. Len(s) |-> s[i]]
  <1>1. PICK S : s \in Seq(S)
    BY DEF IsSeq
  <1>2. QED
    BY <1>1, LenProperties

LEMMA FunctionIsSeq ==
  ASSUME NEW n \in Nat, NEW s, s = [i \in 1 .. n |-> s[i]]
  PROVE  IsSeq(s) /\ Len(s) = n
  <1>1. s \in Seq({s[i] : i \in 1 .. n})
    <2>1. s \in [1 .. n -> {s[i] : i \in 1 .. n}]
      OBVIOUS
    <2>2. QED
      BY <2>1, SeqDef
  <1>2. IsSeq(s)
    BY <1>1 DEF IsSeq
  <1>3. QED
    BY <1>1, <1>2, LenProperties

LEMMA AppendIsSeq ==
  ASSUME NEW s, IsSeq(s), NEW e
  PROVE  /\ IsSeq(Append(s, e)) /\ Len(Append(s, e)) = Len(s) + 1
         /\ DOMAIN Append(s, e) = 1 .. Len(s) + 1
         /\ \A i \in 1 .. Len(s) : Append(s, e)[i] = s[i]
         /\ Append(s, e)[Len(s) + 1] = e
  <1>1. PICK S : s \in Seq(S)
    BY DEF IsSeq
  <1>2. s \in Seq(S \cup {e})
    BY <1>1, SeqMonotonic
  <1>3. Append(s, e) \in Seq(S \cup {e})
    BY <1>2
  <1>4. QED
    BY <1>2, <1>3 DEF IsSeq

LEMMA ConcatIsSeq ==
  ASSUME NEW s, IsSeq(s), NEW t, IsSeq(t)
  PROVE  /\ IsSeq(s \o t) /\ Len(s \o t) = Len(s) + Len(t)
         /\ \A i \in 1 .. Len(s) + Len(t) : (s \o t)[i] = IF i <= Len(s) THEN s[i] ELSE t[i - Len(s)]
  <1>1. PICK S : s \in Seq(S)
    BY DEF IsSeq
  <1>2. PICK T : t \in Seq(T)
    BY DEF IsSeq
  <1>3. s \in Seq(S \cup T)
    BY <1>1, SeqMonotonic
  <1>4. t \in Seq(S \cup T)
    BY <1>2, SeqMonotonic
  <1>5. QED
    BY <1>3, <1>4, ConcatProperties DEF IsSeq
--------------------------------------------------------------------------------
(* The place of an element in a set of naturals: every place is taken, so  *)
(* the nets that are kept come out once each.                              *)
LEMMA Places ==
  ASSUME NEW N \in Nat, NEW S \in SUBSET (1 .. N)
  PROVE  /\ Cardinality(S) \in Nat
         /\ \A i \in 1 .. Cardinality(S) : \E n \in S : Cardinality(S \cap 1 .. n) = i
         /\ \A n \in S : Cardinality(S \cap 1 .. n) \in 1 .. Cardinality(S)
         /\ \A n, o \in S : Cardinality(S \cap 1 .. n) = Cardinality(S \cap 1 .. o) => n = o
  <1> DEFINE k == Cardinality(S)
             f == [n \in S |-> Cardinality(S \cap 1 .. n)]
  <1>1. IsFiniteSet(S)
    <2>1. IsFiniteSet(1 .. N)
      BY FS_Interval
    <2>2. QED
      BY <2>1, FS_Subset
  <1>2. k \in Nat
    BY <1>1, FS_CardinalityType
  <1>3. ASSUME NEW n \in S
        PROVE  /\ IsFiniteSet(S \cap 1 .. n) /\ f[n] \in 1 .. k
    <2>1. S \cap 1 .. n \in SUBSET S
      OBVIOUS
    <2>2. IsFiniteSet(S \cap 1 .. n) /\ Cardinality(S \cap 1 .. n) <= k
      BY <1>1, <2>1, FS_Subset
    <2>3. Cardinality(S \cap 1 .. n) \in Nat
      BY <2>2, FS_CardinalityType
    <2>4. n \in S \cap 1 .. n
      OBVIOUS
    <2>5. Cardinality(S \cap 1 .. n) # 0
      BY <2>2, <2>4, FS_EmptySet
    <2>6. QED
      BY <1>2, <2>2, <2>3, <2>5
  <1>4. ASSUME NEW n \in S, NEW o \in S, n < o
        PROVE  f[n] # f[o]
    <2>1. S \cap 1 .. n \in SUBSET (S \cap 1 .. o)
      BY <1>4
    <2>2. o \in S \cap 1 .. o /\ o \notin S \cap 1 .. n
      BY <1>4
    <2>3. IsFiniteSet(S \cap 1 .. o)
      BY <1>3
    <2>4. Cardinality(S \cap 1 .. o) = Cardinality(S \cap 1 .. n) => S \cap 1 .. o = S \cap 1 .. n
      BY <2>1, <2>3, FS_Subset
    <2>5. QED
      BY <2>2, <2>4
  <1>5. f \in [S -> 1 .. k] /\ \A n, o \in S : f[n] = f[o] => n = o
    <2>1. f \in [S -> 1 .. k]
      BY <1>3
    <2>2. \A n, o \in S : f[n] = f[o] => n = o
      <3>1. TAKE n, o \in S
      <3>2. n \in Int /\ o \in Int
        OBVIOUS
      <3>3. n < o \/ o < n \/ n = o
        BY <3>2
      <3> HIDE DEF f
      <3>4. QED
        BY <1>4, <3>3
    <2>3. QED
      BY <2>1, <2>2
  <1>6. IsFiniteSet(1 .. k) /\ Cardinality(1 .. k) = k
    BY <1>2, FS_Interval
  <1> HIDE DEF f
  <1>7. ASSUME NEW i \in 1 .. k, \A n \in S : f[n] # i
        PROVE  FALSE
    <2> DEFINE T == (1 .. k) \ {i}
    <2>1. IsFiniteSet(T) /\ Cardinality(T) < Cardinality(S)
      <3>1. IsFiniteSet(T) /\ Cardinality(T) = Cardinality(1 .. k) - 1
        BY <1>6, FS_RemoveElement
      <3>2. QED
        BY <1>2, <1>6, <3>1
    <2>2. f \in [S -> T]
      BY <1>5, <1>7
    <2> HIDE DEF T
    <2>3. \E n, o \in S : n # o /\ f[n] = f[o]
      BY <1>1, <2>1, <2>2, FS_PigeonHole
    <2>4. QED
      BY <1>5, <2>3
  <1>8. \A i \in 1 .. k : \E n \in S : f[n] = i
    BY <1>7
  <1>9. \A n \in S : f[n] \in 1 .. k
    BY <1>5
  <1>10. QED
    BY <1>2, <1>5, <1>8, <1>9 DEF f
--------------------------------------------------------------------------------
(* What only the arguments determine stays while they do.                  *)
LEMMA Stable ==
  ASSUME call' = call
  PROVE  /\ Size' = Size
         /\ \A m : Rename(m)' = Rename(m)
         /\ \A n : Keys(n)' = Keys(n)
         /\ \A net : RenamedNet(net)' = RenamedNet(net)
         /\ \A m : Resolved(m)' = Resolved(m)
         /\ \A m : Missing(m)' = Missing(m)
  <1>1. Mapping' = Mapping
    BY DEF Mapping
  <1>2. \A c : PortsOf(c)' = PortsOf(c)
    BY <1>1 DEF PortsOf
  <1>3. \A m : Hit(m)' = Hit(m)
    BY <1>2 DEF Hit, Matched
  <1>4. \A m : Rename(m)' = Rename(m)
    BY <1>1, <1>3 DEF Rename
  <1>5. \A n : Keys(n)' = Keys(n)
    BY <1>3, <1>4 DEF Keys
  <1>6. \A net : RenamedNet(net)' = RenamedNet(net)
    BY <1>4 DEF RenamedNet
  <1>7. \A m : Resolved(m)' = Resolved(m)
    BY <1>1, <1>2 DEF Resolved, CellPort
  <1>8. \A m : Missing(m)' = Missing(m)
    BY <1>1, <1>2 DEF Missing, CellPort
  <1>9. QED
    BY <1>4, <1>5, <1>6, <1>7, <1>8 DEF Size

LEMMA Shape ==
  ASSUME Scanning
  PROVE  /\ Size \in Nat /\ DOMAIN call.nets = 1 .. Size
         /\ DOMAIN nets = 1 .. Size /\ Len(nets) = Size /\ IsSeq(nets)
  <1>1. Size \in Nat /\ DOMAIN call.nets = 1 .. Size
    BY SeqShape DEF Scanning, Size
  <1>2. nets = [n \in 1 .. Size |-> nets[n]]
    BY DEF Scanning
  <1>3. QED
    BY <1>1, <1>2, FunctionIsSeq

LEMMA Start == Init => IInv
  <1> SUFFICES ASSUME Init PROVE IInv
    OBVIOUS
  <1>1. IsSeq(call.nets)
    BY NormalizeAssumption DEF Init, IsSeq
  <1>2. Size \in Nat /\ DOMAIN call.nets = 1 .. Size /\ call.nets = [n \in 1 .. Size |-> call.nets[n]]
    BY <1>1, SeqShape DEF Size
  <1>3. Scanning
    <2>1. \A n \in 1 .. Size : IsNet(call.nets[n])
      <3>1. call \in Calls
        BY DEF Init
      <3>2. call.nets \in Seq({[members |-> call.nets[n].members, name |-> call.nets[n].name] : n \in DOMAIN call.nets})
        BY <3>1, NormalizeAssumption
      <3> DEFINE Records == {[members |-> call.nets[n].members, name |-> call.nets[n].name] : n \in DOMAIN call.nets}
      <3>3. \A e \in Records : IsNet(e)
        BY DEF IsNet
      <3> HIDE DEF Records
      <3>4. \A n \in 1 .. Size : call.nets[n] \in Records
        BY <1>2, <3>2, ElementOfSeq DEF Records, Size
      <3>5. QED
        BY <3>3, <3>4
    <2>2. QED
      BY <1>1, <1>2, <2>1 DEF Init, Scanning
  <1>4. Uniting
    BY <1>2 DEF Init, Uniting, Identity, NoMore
  <1>5. MergedOnce
    <2>1. IsSeq(<< >>)
      BY EmptySeq DEF IsSeq
    <2>2. QED
      BY <2>1 DEF Init, MergedOnce, Merging
  <1>6. QED
    BY <1>3, <1>4, <1>5 DEF Init, IInv

LEMMA ScanStep == IInv /\ Scan => IInv'
  <1> SUFFICES ASSUME IInv, Scan PROVE IInv'
    OBVIOUS
  <1> USE Shape, Stable DEF IInv
  <1>1. cursor \in 1 .. Size /\ Size \in Nat
    BY DEF Scan, Scanning
  <1>2. pc = "scan" /\ pc' = "scan" /\ call' = call /\ cursor' = cursor + 1
    BY DEF Scan
  <1>3. Scanning'
    <2>1. /\ IsSeq(call.nets)' /\ cursor' \in 1 .. Size' + 1
          /\ \A n \in 1 .. Size' : IsNet(call.nets[n])'
      BY <1>1, <1>2 DEF Scanning, IsSeq, IsNet
    <2>2. nets' = [n \in 1 .. Size |-> IF n < cursor + 1 THEN RenamedNet(call.nets[n]) ELSE call.nets[n]]
      BY <1>1 DEF Scan, Scanning
    <2>3. nets' = [n \in 1 .. Size' |-> IF n < cursor' THEN RenamedNet(call.nets[n])' ELSE call'.nets[n]]
      BY <1>2, <2>2
    <2>4. keyed' = UNION {{<<key, n>> : key \in Keys(n)'} : n \in 1 .. cursor' - 1}
      <3>1. 1 .. cursor' - 1 = (1 .. cursor - 1) \cup {cursor}
        BY <1>1, <1>2
      <3>2. keyed' = (UNION {{<<key, n>> : key \in Keys(n)} : n \in 1 .. cursor - 1})
                        \cup {<<key, cursor>> : key \in Keys(cursor)}
        BY DEF Scan, Scanning
      <3>3. keyed' = UNION {{<<key, n>> : key \in Keys(n)} : n \in (1 .. cursor - 1) \cup {cursor}}
        BY <3>2
      <3>4. QED
        BY <1>2, <3>1, <3>3
    <2>5. changed' = {n \in 1 .. cursor' - 1 : Keys(n)' # {}}
      <3>1. changed' = {n \in 1 .. cursor : Keys(n) # {}}
        BY <1>1 DEF Scan, Scanning
      <3>2. QED
        BY <1>1, <1>2, <3>1
    <2>6. QED
      BY <1>2, <2>1, <2>3, <2>4, <2>5 DEF Scanning
  <1>4. Uniting'
    <2>1. changed' \subseteq 1 .. Size
      BY <1>1, <1>2, <1>3 DEF Scanning
    <2>2. \A n \in 1 .. Size : rep'[n] = n
      BY <1>2 DEF Scan, Uniting
    <2>3. NoMore'
      BY <2>1, <2>2 DEF NoMore
    <2>4. QED
      BY <1>2, <2>2, <2>3 DEF Scan, Uniting
  <1>5. MergedOnce'
    BY <1>2 DEF Scan, MergedOnce, Merging, IsSeq
  <1>6. QED
    BY <1>2, <1>3, <1>4, <1>5

(* The loops after the scan leave what it has recorded alone.              *)
LEMMA ScanKept ==
  ASSUME Scanning, UNCHANGED <<call, nets, changed, keyed, cursor>>, pc' # "scan" => cursor = Size + 1
  PROVE  Scanning'
  BY Stable DEF Scanning, IsSeq, IsNet

LEMMA NoMoreKept ==
  ASSUME NoMore, UNCHANGED <<call, changed, rep>>
  PROVE  NoMore'
  <1>1. Near' = Near
    BY Stable DEF Near
  <1>2. QED
    BY <1>1 DEF NoMore

LEMMA ScanDoneStep == IInv /\ ScanDone => IInv'
  <1> SUFFICES ASSUME IInv, ScanDone PROVE IInv'
    OBVIOUS
  <1> USE Shape, Stable DEF IInv
  <1>1. cursor = Size + 1
    BY DEF ScanDone, Scanning
  <1>2. Scanning'
    BY <1>1, ScanKept DEF ScanDone
  <1>3. Uniting'
    <2>1. \A n \in changed : \A key \in Keys(n) : key \in todo'
      <3>1. TAKE n \in changed
      <3>2. TAKE key \in Keys(n)
      <3>3. <<key, n>> \in keyed
        BY DEF Scanning
      <3>4. QED
        BY <3>3 DEF ScanDone
    <2>2. NoMore'
      BY NoMoreKept DEF ScanDone, Uniting
    <2>3. QED
      BY <2>1, <2>2 DEF ScanDone, Uniting
  <1>4. MergedOnce'
    BY DEF ScanDone, MergedOnce, Merging, IsSeq
  <1>5. QED
    BY <1>2, <1>3, <1>4 DEF ScanDone

LEMMA RecordedNets ==
  ASSUME Scanning, NEW key
  PROVE  Recorded(key) = {n \in 1 .. cursor - 1 : key \in Keys(n)}
  <1>1. \A n, k : <<k, n>> \in keyed <=> n \in 1 .. cursor - 1 /\ k \in Keys(n)
    BY DEF Scanning
  <1>2. \A x \in keyed : x = <<x[1], x[2]>>
    BY DEF Scanning
  <1>3. \A n : n \in Recorded(key) <=> <<key, n>> \in keyed
    BY <1>2 DEF Recorded
  <1>4. QED
    BY <1>1, <1>3

LEMMA UniteStep ==
  ASSUME IInv, NEW key, Unite(key)
  PROVE  IInv'
  <1> USE Shape, Stable DEF IInv
  <1> DEFINE roots == {rep[n] : n \in Recorded(key)}
  <1>1. PICK winner \in roots :
          rep' = [n \in DOMAIN nets |-> IF rep[n] \in roots THEN winner ELSE rep[n]]
    BY DEF Unite
  <1>2. cursor = Size + 1 /\ Size \in Nat /\ pc = "unite" /\ pc' = "unite" /\ call' = call
    BY DEF Unite, Scanning
  <1>3. Scanning'
    BY <1>2, ScanKept DEF Unite
  <1>4. \A n \in Recorded(key) : n \in 1 .. Size
    BY <1>2, RecordedNets
  <1>5. \A x \in roots : x \in 1 .. Size /\ rep[x] = x
    BY <1>4 DEF Uniting
  <1>6. rep' \in [1 .. Size -> 1 .. Size] /\ \A n \in 1 .. Size : rep'[rep'[n]] = rep'[n]
    <2> HIDE DEF roots
    <2>1. \A n \in 1 .. Size : rep'[n] = IF rep[n] \in roots THEN winner ELSE rep[n]
      BY <1>1
    <2>2. \A n \in 1 .. Size : rep[n] \in 1 .. Size /\ rep[rep[n]] = rep[n]
      BY DEF Uniting
    <2>3. winner \in 1 .. Size /\ rep[winner] = winner
      BY <1>5
    <2>4. rep' \in [1 .. Size -> 1 .. Size]
      BY <1>1, <2>2, <2>3
    <2>5. ASSUME NEW n \in 1 .. Size
          PROVE  rep'[rep'[n]] = rep'[n]
      BY <2>1, <2>2, <2>3
    <2>6. QED
      BY <2>4, <2>5
  <1>7. ASSUME NEW n \in changed, NEW o \in changed, NEW k \in Keys(n) \cap Keys(o)
        PROVE  k \in todo' \/ rep'[n] = rep'[o]
    <2>1. n \in 1 .. Size /\ o \in 1 .. Size
      BY <1>2 DEF Scanning
    <2>2. CASE k = key
      <3>1. n \in Recorded(key) /\ o \in Recorded(key)
        BY <1>2, <2>1, <2>2, RecordedNets
      <3>2. QED
        BY <1>1, <2>1, <3>1
    <2>3. CASE k # key
      <3>1. k \in todo \/ rep[n] = rep[o]
        BY <1>2 DEF Uniting
      <3>2. QED
        BY <1>1, <2>1, <2>3, <3>1 DEF Unite
    <2>4. QED
      BY <2>2, <2>3
  <1>8. NoMore'
    <2>1. changed' = changed /\ Near' = Near
      BY <1>2, Stable DEF Unite, Near
    <2>2. SUFFICES ASSUME NEW C \in SUBSET changed, Sealed(Near, C),
                          NEW n \in changed, NEW o \in changed, rep'[n] = rep'[o], n \in C
                   PROVE  o \in C
      BY <2>1 DEF NoMore
    <2>3. \A x, y \in changed : rep[x] = rep[y] /\ x \in C => y \in C
      BY <2>2 DEF Uniting, NoMore
    <2>4. n \in 1 .. Size /\ o \in 1 .. Size
      BY <1>2 DEF Scanning
    <2>5. \A x \in Recorded(key) : x \in changed /\ key \in Keys(x)
      <3>1. changed = {x \in 1 .. cursor - 1 : Keys(x) # {}}
        BY DEF Scanning
      <3>2. QED
        BY <3>1, RecordedNets
    <2>6. CASE rep[n] \in roots /\ rep[o] \in roots
      <3>1. PICK x \in Recorded(key) : rep[n] = rep[x]
        BY <2>6
      <3>2. PICK y \in Recorded(key) : rep[o] = rep[y]
        BY <2>6
      <3>3. x \in C
        BY <2>2, <2>3, <2>5, <3>1
      <3>4. y \in Near[x]
        BY <2>5 DEF Near
      <3>5. y \in C
        BY <2>2, <3>3, <3>4 DEF Sealed
      <3>6. QED
        BY <2>2, <2>3, <2>5, <3>2, <3>5
    <2>7. CASE ~ (rep[n] \in roots /\ rep[o] \in roots)
      <3> HIDE DEF roots
      <3>1. rep[n] = rep[o]
        BY <1>1, <2>2, <2>4, <2>7
      <3>2. QED
        BY <2>2, <2>3, <3>1
    <2>8. QED
      BY <2>6, <2>7
  <1>11. Uniting'
    <2>1. todo' \subseteq {x[1] : x \in keyed'} /\ changed' = changed
      BY <1>2 DEF Unite, Uniting
    <2>2. QED
      BY <1>2, <1>6, <1>7, <1>8, <2>1 DEF Uniting
  <1>9. MergedOnce'
    BY <1>2 DEF Unite, MergedOnce, Merging, IsSeq
  <1>10. QED
    BY <1>2, <1>3, <1>9, <1>11

(* The net in place i of the result, while it is one that is kept.         *)
Nth(i) == CHOOSE n \in Kept : Place(n) = i

(* The loop over the blocks, and what follows it.                          *)
LEMMA BlocksStable ==
  ASSUME UNCHANGED <<call, nets, changed, rep>>
  PROVE  /\ Roots' = Roots /\ \A root : MergedNet(root)' = MergedNet(root)
         /\ \A root : Members(Block(root))' = Members(Block(root))
  <1>1. \A m : Resolved(m)' = Resolved(m)
    BY Stable
  <1>2. \A root : Block(root)' = Block(root)
    BY DEF Block
  <1>3. \A root : Members(Block(root))' = Members(Block(root))
    BY <1>2 DEF Members
  <1>4. \A root : NameOf(Block(root))' = NameOf(Block(root))
    BY <1>2 DEF NameOf
  <1>5. QED
    BY <1>1, <1>3, <1>4 DEF Roots, MergedFrom, MergedNet

LEMMA MergingKept ==
  ASSUME Uniting, UNCHANGED <<call, changed, keyed, rep>>,
         pc # "scan", pc' \in {"merge", "done", "missing"}, pc = "unite" => todo = {}
  PROVE  Uniting'
  BY Stable, NoMoreKept DEF Uniting

LEMMA UniteDoneStep == IInv /\ UniteDone => IInv'
  <1> SUFFICES ASSUME IInv, UniteDone PROVE IInv'
    OBVIOUS
  <1> USE DEF IInv
  <1>1. /\ pc = "unite" /\ pc' = "merge" /\ todo = {}
        /\ UNCHANGED <<call, nets, changed, keyed, cursor, rep, made>>
    BY DEF UniteDone
  <1>2. Scanning'
    BY <1>1, ScanKept DEF Scanning
  <1>3. Uniting'
    BY <1>1, MergingKept
  <1>4. MergedOnce'
    <2>1. made = << >> /\ IsSeq(made) /\ DOMAIN made = {}
      BY <1>1 DEF MergedOnce
    <2>2. todo' = Roots /\ Roots' = Roots
      BY <1>1, BlocksStable DEF UniteDone, Roots
    <2>3. MadeOf([i \in {} |-> i])'
      BY <1>1, <2>1, <2>2 DEF MadeOf
    <2>4. IsSeq(made)'
      BY <1>1, <2>1 DEF IsSeq
    <2>5. QED
      BY <1>1, <2>1, <2>2, <2>3, <2>4 DEF MergedOnce, Merging
  <1>5. QED
    BY <1>1, <1>2, <1>3, <1>4

LEMMA MergeStep ==
  ASSUME IInv, NEW root, Merge(root)
  PROVE  IInv'
  <1> USE DEF IInv
  <1>1. /\ pc = "merge" /\ pc' = "merge" /\ root \in todo /\ todo' = todo \ {root}
        /\ UNCHANGED <<call, nets, changed, keyed, cursor, rep>>
    BY DEF Merge
  <1>2. Scanning'
    BY <1>1, ScanKept DEF Scanning
  <1>3. Uniting'
    BY <1>1, MergingKept
  <1>4. MergedOnce'
    <2>1. PICK from : MadeOf(from)
      BY <1>1 DEF MergedOnce, Merging
    <2> DEFINE net == MergedNet(root)
    <2>2. made' = Append(made, net)
      BY DEF Merge, MergedFrom, MergedNet
    <2> HIDE DEF net
    <2> DEFINE next == [i \in 1 .. Len(made) + 1 |-> IF i <= Len(made) THEN from[i] ELSE root]
    <2>3. /\ IsSeq(made') /\ DOMAIN made' = 1 .. Len(made) + 1 /\ Len(made) \in Nat
          /\ DOMAIN made = 1 .. Len(made)
          /\ \A i \in 1 .. Len(made) : made'[i] = made[i]
          /\ made'[Len(made) + 1] = net
      BY <2>2, AppendIsSeq, SeqShape DEF MergedOnce
    <2>4. Roots' = Roots /\ \A r : MergedNet(r)' = MergedNet(r)
      BY <1>1, BlocksStable
    <2>5. todo \subseteq Roots
      BY <1>1 DEF MergedOnce, Merging
    <2>6. \A i \in 1 .. Len(made) : next[i] = from[i] /\ from[i] \in Roots \ todo
      BY <2>1, <2>3 DEF MadeOf
    <2>7. next[Len(made) + 1] = root
      BY <2>3
    <2>8. next \in [DOMAIN made' -> Roots \ todo']
      <3>1. \A i \in DOMAIN made' : next[i] \in Roots \ todo'
        <4> HIDE DEF next
        <4>1. TAKE i \in DOMAIN made'
        <4>2. CASE i <= Len(made)
          <5>1. i \in 1 .. Len(made)
            BY <2>3, <4>2
          <5>2. next[i] \in Roots \ todo
            BY <2>6, <5>1
          <5>3. QED
            BY <1>1, <5>2
        <4>3. CASE i = Len(made) + 1
          BY <1>1, <2>5, <2>7, <4>3
        <4>4. QED
          BY <2>3, <4>2, <4>3
      <3>2. QED
        BY <2>3, <3>1
    <2>9. \A i \in DOMAIN made' : i \in 1 .. Len(made) \/ i = Len(made) + 1
      BY <2>3
    <2> HIDE DEF next
    <2>10. \A i, j \in DOMAIN made' : next[i] = next[j] => i = j
      BY <1>1, <2>1, <2>3, <2>6, <2>7, <2>9 DEF MadeOf
    <2>11. \A i \in DOMAIN made' : made'[i] = MergedNet(next[i])
      BY <2>1, <2>2, <2>3, <2>6, <2>7, <2>9 DEF MadeOf, net
    <2>15. \A r \in Roots \ todo' : \E i \in DOMAIN made' : next[i] = r
      <3>1. TAKE r \in Roots \ todo'
      <3>2. CASE r = root
        BY <2>3, <2>7, <3>2
      <3>3. CASE r # root
        <4>1. PICK i \in 1 .. Len(made) : from[i] = r
          BY <1>1, <2>1, <2>3, <3>3 DEF MadeOf
        <4>2. i \in DOMAIN made'
          BY <2>3
        <4>3. QED
          BY <2>6, <4>1, <4>2
      <3>4. QED
        BY <3>2, <3>3
    <2>12. PICK f : /\ f \in [DOMAIN made' -> Roots \ todo']
                    /\ \A i, j \in DOMAIN made' : f[i] = f[j] => i = j
                    /\ \A r \in Roots \ todo' : \E i \in DOMAIN made' : f[i] = r
                    /\ \A i \in DOMAIN made' : made'[i] = MergedNet(f[i])
      BY <2>8, <2>10, <2>11, <2>15
    <2>13. MadeOf(f)'
      BY <2>4, <2>12 DEF MadeOf
    <2>14. QED
      BY <1>1, <2>3, <2>4, <2>5, <2>13 DEF MergedOnce, Merging, IsSeq
  <1>5. QED
    BY <1>1, <1>2, <1>3, <1>4

LEMMA StopStep ==
  ASSUME IInv, Finish \/ \E root : MissingPort(root)
  PROVE  IInv'
  <1> USE DEF IInv
  <1>1. /\ pc = "merge" /\ pc' \in {"done", "missing"}
        /\ UNCHANGED <<call, nets, changed, keyed, cursor, rep, todo, made>>
    BY DEF Finish, MissingPort
  <1>2. Scanning'
    BY <1>1, ScanKept DEF Scanning
  <1>3. Uniting'
    BY <1>1, MergingKept
  <1>4. MergedOnce'
    <2>1. /\ Roots' = Roots /\ \A r : MergedNet(r)' = MergedNet(r)
          /\ \A r : Members(Block(r))' = Members(Block(r))
      BY <1>1, BlocksStable
    <2>2. PICK from : MadeOf(from)
      BY <1>1 DEF MergedOnce, Merging
    <2>3. MadeOf(from)'
      BY <1>1, <2>1, <2>2 DEF MadeOf
    <2>4. pc' = "done" => todo' = {}
      BY DEF Finish, MissingPort
    <2>5. ASSUME pc' = "missing"
          PROVE  \E root \in Roots' : \E m \in Members(Block(root))' : Missing(m)'
      <3>1. PICK root : MissingPort(root)
        BY <2>5 DEF Finish
      <3>2. root \in Roots
        BY <1>1, <3>1 DEF MissingPort, MergedOnce, Merging
      <3>3. PICK m \in Members(Block(root)) : Missing(m)
        BY <3>1 DEF MissingPort
      <3>4. QED
        BY <1>1, <2>1, <3>2, <3>3, Stable
    <2>6. QED
      BY <1>1, <2>1, <2>3, <2>4, <2>5 DEF MergedOnce, Merging, IsSeq
  <1>5. QED
    BY <1>1, <1>2, <1>3, <1>4

LEMMA ResultIsSeq ==
  ASSUME IInv
  PROVE  /\ IsSeq(Result) /\ Cardinality(Kept) \in Nat /\ Len(made) \in Nat
         /\ Kept = (1 .. Size) \ changed
         /\ Len(Result) = Cardinality(Kept) + Len(made)
         /\ \A i \in 1 .. Len(Result) :
              Result[i] = IF i <= Cardinality(Kept) THEN nets[Nth(i)] ELSE made[i - Cardinality(Kept)]
  <1>1. Size \in Nat /\ DOMAIN nets = 1 .. Size
    BY Shape DEF IInv
  <1>2. Kept = (1 .. Size) \ changed
    BY <1>1 DEF Kept
  <1>3. Cardinality(Kept) \in Nat
    BY <1>1, <1>2, Places
  <1>4. IsSeq(Unchanged) /\ Len(Unchanged) = Cardinality(Kept)
    BY <1>3, FunctionIsSeq DEF Unchanged
  <1>5. IsSeq(made) /\ Len(made) \in Nat
    BY SeqShape DEF IInv, MergedOnce
  <1>6. /\ IsSeq(Result) /\ Len(Result) = Cardinality(Kept) + Len(made)
        /\ \A i \in 1 .. Cardinality(Kept) + Len(made) :
             Result[i] = IF i <= Cardinality(Kept) THEN Unchanged[i] ELSE made[i - Cardinality(Kept)]
    BY <1>4, <1>5, ConcatIsSeq DEF Result
  <1>7. \A i \in 1 .. Cardinality(Kept) : Unchanged[i] = nets[Nth(i)]
    BY DEF Unchanged, Nth
  <1>8. \A i \in 1 .. Len(Result) :
           Result[i] = IF i <= Cardinality(Kept) THEN nets[Nth(i)] ELSE made[i - Cardinality(Kept)]
    <2>1. TAKE i \in 1 .. Len(Result)
    <2>2. CASE i <= Cardinality(Kept)
      <3>1. i \in 1 .. Cardinality(Kept)
        BY <1>3, <1>5, <1>6, <2>2
      <3>2. QED
        BY <1>6, <1>7, <2>2, <3>1
    <2>3. CASE ~ (i <= Cardinality(Kept))
      BY <1>6, <2>3
    <2>4. QED
      BY <2>2, <2>3
  <1>9. QED
    BY <1>2, <1>3, <1>5, <1>6, <1>8

(* Where a net of the result comes from: a net that is kept is in this     *)
(* place, or a block was merged for it.                                    *)
LEMMA KeptPlace ==
  ASSUME IInv, NEW i \in 1 .. Cardinality(Kept)
  PROVE  Nth(i) \in Kept /\ Place(Nth(i)) = i
  <1>1. Size \in Nat /\ Kept \in SUBSET (1 .. Size)
    BY ResultIsSeq, Shape DEF IInv
  <1>2. \A j \in 1 .. Cardinality(Kept) : \E n \in Kept : Cardinality(Kept \cap 1 .. n) = j
    BY <1>1, Places
  <1>3. \E n \in Kept : Place(n) = i
    BY <1>2 DEF Place
  <1>4. QED
    BY <1>3 DEF Nth

LEMMA PlaceIn ==
  ASSUME IInv, NEW n \in Kept
  PROVE  Place(n) \in 1 .. Cardinality(Kept)
  <1>1. Size \in Nat /\ Kept \in SUBSET (1 .. Size)
    BY ResultIsSeq, Shape DEF IInv
  <1>2. QED
    BY <1>1, Places DEF Place

LEMMA PlacesDiffer ==
  ASSUME IInv, NEW n \in Kept, NEW o \in Kept, Place(n) = Place(o)
  PROVE  n = o
  <1>1. Size \in Nat /\ Kept \in SUBSET (1 .. Size)
    BY ResultIsSeq, Shape DEF IInv
  <1>2. QED
    BY <1>1, Places DEF Place

LEMMA PlaceOf ==
  ASSUME IInv, NEW i \in 1 .. Len(Result)
  PROVE  \/ i \in 1 .. Cardinality(Kept) /\ Nth(i) \in Kept /\ Result[i] = nets[Nth(i)]
         \/ /\ i \notin 1 .. Cardinality(Kept) /\ i - Cardinality(Kept) \in DOMAIN made
            /\ Result[i] = made[i - Cardinality(Kept)]
  <1> DEFINE k == Cardinality(Kept)
  <1>1. /\ k \in Nat /\ Len(made) \in Nat /\ Len(Result) = k + Len(made)
        /\ Result[i] = IF i <= k THEN nets[Nth(i)] ELSE made[i - k]
    BY ResultIsSeq
  <1>2. DOMAIN made = 1 .. Len(made)
    BY SeqShape DEF IInv, MergedOnce
  <1>3. i \in 1 .. k => Nth(i) \in Kept
    BY KeptPlace
  <1>4. SUFFICES \/ i \in 1 .. k /\ Nth(i) \in Kept /\ Result[i] = nets[Nth(i)]
                 \/ i \notin 1 .. k /\ i - k \in DOMAIN made /\ Result[i] = made[i - k]
    OBVIOUS
  <1> HIDE DEF k
  <1>5. CASE i <= k
    BY <1>1, <1>3, <1>5
  <1>6. CASE ~ (i <= k)
    BY <1>1, <1>2, <1>6
  <1>7. QED
    BY <1>5, <1>6

LEMMA ResultsAreNets ==
  ASSUME IInv, NEW i \in 1 .. Len(Result)
  PROVE  IsNet(Result[i])
  <1>1. CASE i \in 1 .. Cardinality(Kept) /\ Nth(i) \in Kept /\ Result[i] = nets[Nth(i)]
    <2>1. Nth(i) \in 1 .. Size
      BY <1>1, ResultIsSeq
    <2>2. \A n \in 1 .. Size : nets[n] = IF n < cursor THEN RenamedNet(call.nets[n]) ELSE call.nets[n]
      BY DEF IInv, Scanning
    <2>3. \A n \in 1 .. Size : IsNet(call.nets[n]) /\ IsNet(RenamedNet(call.nets[n]))
      BY DEF IInv, Scanning, IsNet, RenamedNet
    <2>4. QED
      BY <1>1, <2>1, <2>2, <2>3
  <1>2. CASE i - Cardinality(Kept) \in DOMAIN made /\ Result[i] = made[i - Cardinality(Kept)]
    <2>1. DOMAIN made # {} => Merging
      <3>1. DOMAIN << >> = {}
        OBVIOUS
      <3>2. QED
        BY <3>1 DEF IInv, MergedOnce, Merging
    <2>2. PICK from : MadeOf(from)
      BY <1>2, <2>1 DEF IInv, MergedOnce
    <2>3. QED
      BY <1>2, <2>2 DEF MadeOf, MergedNet, IsNet
  <1>3. QED
    BY <1>1, <1>2, PlaceOf

LEMMA AgainStep == IInv /\ Again => IInv'
  <1> SUFFICES ASSUME IInv, Again PROVE IInv'
    OBVIOUS
  <1>1. call'.nets = Result /\ IsSeq(Result)
    BY ResultIsSeq DEF Again
  <1>2. /\ Len(Result) \in Nat /\ DOMAIN Result = 1 .. Len(Result)
        /\ Result = [n \in 1 .. Len(Result) |-> Result[n]]
    BY <1>1, SeqShape
  <1>3. Size' = Len(Result)
    BY <1>1 DEF Size
  <1>4. Scanning'
    <2>1. IsSeq(call.nets)' /\ \A n \in 1 .. Size' : IsNet(call.nets[n])'
      BY <1>1, <1>3, ResultsAreNets DEF IsSeq, IsNet
    <2>2. pc' = "scan" /\ cursor' = 1 /\ nets' = Result /\ keyed' = {} /\ changed' = {}
      BY DEF Again
    <2> DEFINE R == Result
    <2> HIDE DEF R
    <2>3. nets' = [n \in 1 .. Size' |-> IF n < cursor' THEN RenamedNet(call.nets[n])' ELSE call'.nets[n]]
      <3>1. R = [n \in 1 .. Size' |-> IF n < 1 THEN RenamedNet(call.nets[n])' ELSE R[n]]
        BY <1>2, <1>3 DEF R
      <3>2. QED
        BY <1>1, <2>2, <3>1 DEF R
    <2>4. QED
      BY <1>2, <1>3, <2>1, <2>2, <2>3 DEF Scanning
  <1>5. Uniting'
    <2>1. pc' = "scan" /\ todo' = {} /\ rep' = [n \in 1 .. Size' |-> n]
      BY <1>2, <1>3 DEF Again, Identity
    <2>2. changed' = {}
      BY DEF Again
    <2>3. NoMore'
      BY <2>2 DEF NoMore
    <2>4. QED
      BY <1>2, <1>3, <2>1, <2>2, <2>3 DEF Uniting
  <1>6. MergedOnce'
    <2>1. IsSeq(<< >>)
      BY EmptySeq DEF IsSeq
    <2>2. QED
      BY <2>1 DEF Again, MergedOnce, Merging, IsSeq
  <1>7. QED
    BY <1>4, <1>5, <1>6 DEF IInv, Again

LEMMA Stutter == IInv /\ UNCHANGED vars => IInv'
  <1> SUFFICES ASSUME IInv, UNCHANGED vars PROVE IInv'
    OBVIOUS
  <1>1. UNCHANGED <<call, pc, nets, changed, keyed, cursor, rep, todo, made>>
    BY DEF vars
  <1>2. Scanning'
    BY <1>1, ScanKept DEF IInv, Scanning
  <1>3. Uniting'
    BY <1>1, Stable, NoMoreKept DEF IInv, Uniting
  <1>4. /\ Roots' = Roots /\ \A r : MergedNet(r)' = MergedNet(r)
        /\ \A r : Members(Block(r))' = Members(Block(r))
        /\ \A m : Missing(m)' = Missing(m)
    BY <1>1, BlocksStable, Stable
  <1>5. \A from : MadeOf(from) => MadeOf(from)'
    BY <1>1, <1>4 DEF MadeOf
  <1>6. MergedOnce'
    BY <1>1, <1>4, <1>5 DEF IInv, MergedOnce, Merging, IsSeq
  <1>7. QED
    BY <1>1, <1>2, <1>3, <1>6 DEF IInv

(* The three loops keep to the invariant, for every netlist, whatever the  *)
(* order in which the maps are walked.                                     *)
THEOREM Invariance == Spec => []IInv
  <1>1. IInv /\ [Next]_vars => IInv'
    BY ScanStep, ScanDoneStep, UniteStep, UniteDoneStep, MergeStep, StopStep, AgainStep, Stutter DEF Next
  <1>2. QED
    BY Start, <1>1, PTL DEF Spec

(* Every index of the loops is a net, every recorded reference is on the   *)
(* net it is recorded for, and merging never makes more nets than it took. *)
THEOREM Typing == Spec => []TypeOK
  <1>1. IInv => TypeOK
    <2> SUFFICES ASSUME IInv PROVE TypeOK
      OBVIOUS
    <2>1. Size \in Nat /\ DOMAIN call.nets = 1 .. Size /\ DOMAIN nets = 1 .. Size /\ Len(nets) = Size
      BY Shape DEF IInv
    <2>2. cursor \in 1 .. Size + 1 /\ changed \subseteq 1 .. cursor - 1
      BY DEF IInv, Scanning
    <2>3. \A x \in keyed : x[2] \in changed /\ x[1] \in nets[x[2]].members
      <3>1. TAKE x \in keyed
      <3>2. PICK n \in 1 .. cursor - 1 : \E key \in Keys(n) : x = <<key, n>>
        BY DEF IInv, Scanning
      <3>3. PICK key \in Keys(n) : x = <<key, n>>
        BY <3>2
      <3>4. n \in changed
        BY <3>3 DEF IInv, Scanning
      <3>5. nets[n] = RenamedNet(call.nets[n])
        BY <2>1, <2>2 DEF IInv, Scanning
      <3>6. key \in RenamedNet(call.nets[n]).members
        BY <3>3 DEF Keys, RenamedNet
      <3>7. QED
        BY <3>3, <3>4, <3>5, <3>6
    <2>4. Roots \subseteq 1 .. Size
      BY <2>1, <2>2 DEF IInv, Uniting, Roots
    <2>5. todo \subseteq IF pc = "unite" THEN {x[1] : x \in keyed} ELSE DOMAIN nets
      BY <2>1, <2>4 DEF IInv, Uniting, MergedOnce, Merging
    <2>6. Len(made) <= Len(nets)
      <3>1. Len(made) \in Nat /\ DOMAIN made = 1 .. Len(made)
        BY SeqShape DEF IInv, MergedOnce
      <3>2. CASE ~ Merging
        BY <2>1, <3>2 DEF IInv, MergedOnce, Merging
      <3>3. CASE Merging
        <4>1. PICK from : MadeOf(from)
          BY <3>3 DEF IInv, MergedOnce
        <4>2. SUFFICES ASSUME Size < Len(made) PROVE FALSE
          BY <2>1, <3>1
        <4> DEFINE S == 1 .. Len(made)
                   T == 1 .. Size
        <4>3. IsFiniteSet(S) /\ IsFiniteSet(T) /\ Cardinality(T) < Cardinality(S)
          <5>1. \A n \in Nat : IsFiniteSet(1 .. n) /\ Cardinality(1 .. n) = n
            BY FS_Interval
          <5>2. QED
            BY <2>1, <3>1, <4>2, <5>1
        <4>4. from \in [S -> T] /\ \A i, j \in S : from[i] = from[j] => i = j
          BY <2>4, <3>1, <4>1 DEF MadeOf
        <4> HIDE DEF S, T
        <4>5. \E i, j \in S : i # j /\ from[i] = from[j]
          BY <4>3, <4>4, FS_PigeonHole
        <4>6. QED
          BY <4>4, <4>5
      <3>4. QED
        BY <3>2, <3>3
    <2>7. rep \in [DOMAIN nets -> DOMAIN nets] /\ \A n \in DOMAIN nets : rep[rep[n]] = rep[n]
      BY <2>1 DEF IInv, Uniting
    <2>8. QED
      BY <2>1, <2>2, <2>3, <2>5, <2>6, <2>7 DEF TypeOK, IInv
  <1>2. QED
    BY Invariance, <1>1, PTL
--------------------------------------------------------------------------------
(* A canonical port that stands for itself is found again, as it is.       *)
LEMMA HitAgain ==
  ASSUME WellMapped, NEW m, Hit(m)
  PROVE  Hit(Rename(m))
  <1> DEFINE c   == call.instances[m.inst]
             map == Mapping[c]
  <1>1. Matched(m) /\ c \in DOMAIN Mapping /\ m.port \in DOMAIN map
    BY DEF Hit, PortsOf
  <1>2. map[m.port] \in DOMAIN map
    BY <1>1 DEF WellMapped, Closed
  <1>3. Rename(m).inst = m.inst /\ Rename(m).port = map[m.port]
    BY DEF Rename, At
  <1>4. QED
    BY <1>1, <1>2, <1>3 DEF Hit, Matched, PortsOf

(* Nets that came to share a reference, having shared none, are in one     *)
(* block.                                                                  *)
LEMMA Meet ==
  ASSUME IInv, pc = "done", WellMapped, OnOneNet(call.nets),
         NEW n \in 1 .. Size, NEW o \in 1 .. Size, NEW m, m.inst # NoInst,
         m \in nets[n].members, m \in nets[o].members
  PROVE  n = o \/ (n \in changed /\ o \in changed /\ rep[n] = rep[o])
  <1>1. cursor = Size + 1 /\ Size \in Nat /\ DOMAIN call.nets = 1 .. Size
    BY Shape DEF IInv, Scanning
  <1>2. nets[n] = RenamedNet(call.nets[n]) /\ nets[o] = RenamedNet(call.nets[o])
    BY <1>1 DEF IInv, Scanning
  <1>3. PICK x \in call.nets[n].members : m = Rename(x)
    BY <1>2 DEF RenamedNet
  <1>4. PICK y \in call.nets[o].members : m = Rename(y)
    BY <1>2 DEF RenamedNet
  <1>5. CASE Hit(m)
    <2>1. Hit(x) /\ Hit(y)
      BY <1>3, <1>4, <1>5 DEF Rename
    <2>2. m \in Keys(n) /\ m \in Keys(o)
      BY <1>3, <1>4, <2>1 DEF Keys
    <2>3. n \in changed /\ o \in changed
      BY <1>1, <2>2 DEF IInv, Scanning
    <2>4. rep[n] = rep[o]
      BY <2>2, <2>3 DEF IInv, Uniting
    <2>5. QED
      BY <2>3, <2>4
  <1>6. CASE ~ Hit(m)
    <2>1. ~ Hit(x) /\ ~ Hit(y)
      BY <1>3, <1>4, <1>6, HitAgain
    <2>2. x = m /\ y = m
      BY <1>3, <1>4, <2>1 DEF Rename
    <2>3. QED
      BY <1>1, <1>3, <1>4, <2>2 DEF OnOneNet
  <1>7. QED
    BY <1>5, <1>6

(* A reference of a merged net is on a net of its block.                   *)
LEMMA OfBlock ==
  ASSUME NEW root, NEW m \in MergedFrom(root), m.inst # NoInst
  PROVE  \E n \in changed : rep[n] = root /\ m \in nets[n].members
  <1>1. PICK x \in Members(Block(root)) : m = Resolved(x)
    BY DEF MergedFrom
  <1>2. m = x
    BY <1>1 DEF Resolved, CellPort, At
  <1>3. QED
    BY <1>1, <1>2 DEF Members, Block

(* With canonical ports that stand for themselves, no reference is on two  *)
(* nets of the result when none was on two nets of the netlist: nets that  *)
(* come to share one are merged, and merged into one net only.             *)
THEOREM SharersAreMerged == Spec => []SharersMergedIfClosed
  <1>1. IInv => SharersMergedIfClosed
    <2> SUFFICES ASSUME IInv, pc = "done", WellMapped, OnOneNet(call.nets),
                        NEW i \in DOMAIN Result, NEW j \in DOMAIN Result, NEW m \in Result[i].members,
                        m \in Result[j].members, m.inst # NoInst
                 PROVE  i = j
      BY DEF SharersMergedIfClosed, SharersMerged, OnOneNet
    <2> DEFINE k == Cardinality(Kept)
    <2>1. /\ k \in Nat /\ Len(made) \in Nat /\ Kept = (1 .. Size) \ changed /\ Size \in Nat
          /\ i \in 1 .. k + Len(made) /\ j \in 1 .. k + Len(made)
      BY ResultIsSeq, SeqShape, Shape DEF IInv
    <2>2. \A l \in 1 .. k + Len(made) : Result[l] = IF l <= k THEN nets[Nth(l)] ELSE made[l - k]
      BY ResultIsSeq
    <2>3. PICK from : MadeOf(from)
      BY DEF IInv, MergedOnce, Merging
    <2>4. changed \subseteq 1 .. Size
      BY <2>1 DEF IInv, Scanning
    <2>5. DOMAIN made = 1 .. Len(made)
      BY SeqShape DEF IInv, MergedOnce
    <2>6. \A l \in 1 .. k + Len(made) : l \in 1 .. k =>
             /\ Result[l] = nets[Nth(l)] /\ Nth(l) \in Kept /\ Place(Nth(l)) = l
      <3>1. \A l \in 1 .. k : Nth(l) \in Kept /\ Place(Nth(l)) = l
        BY KeptPlace
      <3>2. \A l \in 1 .. k + Len(made) : l \in 1 .. k => Result[l] = nets[Nth(l)]
        <4> HIDE DEF k
        <4>1. QED
          BY <2>1, <2>2
      <3>3. QED
        BY <3>1, <3>2
    <2>7. ASSUME NEW l \in 1 .. k + Len(made), l \notin 1 .. k, m \in Result[l].members
          PROVE  /\ l - k \in DOMAIN made
                 /\ \E n \in changed : rep[n] = from[l - k] /\ m \in nets[n].members
      <3>1. l - k \in DOMAIN made /\ Result[l] = made[l - k]
        <4> HIDE DEF k
        <4>1. QED
          BY <2>1, <2>5, <2>7, <2>2
      <3>2. m \in MergedFrom(from[l - k])
        BY <2>3, <2>7, <3>1 DEF MadeOf, MergedNet
      <3>3. QED
        BY <3>1, <3>2, OfBlock
    <2> HIDE DEF k
    <2>8. CASE i \in 1 .. k /\ j \in 1 .. k
      BY <2>1, <2>6, <2>8, Meet
    <2>9. CASE i \in 1 .. k /\ j \notin 1 .. k
      <3>1. PICK n \in changed : m \in nets[n].members
        BY <2>1, <2>7, <2>9
      <3>2. Nth(i) \in Kept /\ m \in nets[Nth(i)].members
        BY <2>1, <2>6, <2>9
      <3>3. QED
        BY <2>1, <2>4, <3>1, <3>2, Meet
    <2>10. CASE i \notin 1 .. k /\ j \in 1 .. k
      <3>1. PICK n \in changed : m \in nets[n].members
        BY <2>1, <2>7, <2>10
      <3>2. Nth(j) \in Kept /\ m \in nets[Nth(j)].members
        BY <2>1, <2>6, <2>10
      <3>3. QED
        BY <2>1, <2>4, <3>1, <3>2, Meet
    <2>11. CASE i \notin 1 .. k /\ j \notin 1 .. k
      <3>1. PICK n \in changed : rep[n] = from[i - k] /\ m \in nets[n].members
        BY <2>1, <2>7, <2>11
      <3>2. PICK o \in changed : rep[o] = from[j - k] /\ m \in nets[o].members
        BY <2>1, <2>7, <2>11
      <3>3. rep[n] = rep[o]
        BY <2>4, <3>1, <3>2, Meet
      <3>4. i - k \in DOMAIN made /\ j - k \in DOMAIN made
        BY <2>1, <2>7, <2>11
      <3>5. i - k = j - k
        BY <2>3, <3>1, <3>2, <3>3, <3>4 DEF MadeOf
      <3>6. QED
        BY <2>1, <3>5
    <2>12. QED
      BY <2>8, <2>9, <2>10, <2>11
  <1>2. QED
    BY Invariance, <1>1, PTL
--------------------------------------------------------------------------------
(* When the keys are used up the blocks are the groups of nets connected   *)
(* by canonical references.                                                *)
LEMMA ReachIsBlock ==
  ASSUME IInv, Merging, NEW n \in changed
  PROVE  Reach(changed, Near, n) = Block(rep[n])
  <1> DEFINE A == Reach(changed, Near, n)
             P == Block(rep[n])
  <1>1. IsFiniteSet(changed)
    <2>1. Size \in Nat /\ changed \in SUBSET (1 .. Size)
      BY Shape DEF IInv, Scanning, Merging
    <2>2. IsFiniteSet(1 .. Size)
      BY <2>1, FS_Interval
    <2>3. QED
      BY <2>1, <2>2, FS_Subset
  <1>2. Near \in [changed -> SUBSET changed]
    BY DEF Near
  <1>3. A \in SUBSET changed /\ n \in A /\ Sealed(Near, A)
    BY <1>1, <1>2, ReachIsLeast
  <1>4. \A C : n \in C /\ Sealed(Near, C) => A \subseteq C
    BY <1>1, <1>2, ReachIsLeast
  <1> HIDE DEF A
  <1>5. A \subseteq P
    <2>1. n \in P
      BY DEF Block
    <2>2. \A y \in P : \A z \in Near[y] : z \in P
      <3>1. TAKE y \in P
      <3>2. TAKE z \in Near[y]
      <3>3. y \in changed /\ rep[y] = rep[n]
        BY DEF Block
      <3>4. z \in changed /\ Keys(y) \cap Keys(z) # {}
        BY <3>3 DEF Near
      <3>5. rep[y] = rep[z]
        BY <3>3, <3>4 DEF IInv, Uniting, Merging
      <3>6. QED
        BY <3>3, <3>4, <3>5 DEF Block
    <2> HIDE DEF P
    <2>3. Sealed(Near, P)
      BY <2>2 DEF Sealed
    <2>4. QED
      BY <1>4, <2>1, <2>3
  <1>6. P \subseteq A
    <2>1. \A o \in changed : rep[n] = rep[o] => o \in A
      BY <1>3 DEF IInv, Uniting, NoMore
    <2>2. QED
      BY <2>1 DEF Block
  <1>7. QED
    BY <1>5, <1>6 DEF A

LEMMA BlocksAreComponents ==
  ASSUME IInv, Merging
  PROVE  /\ Renamed = changed
         /\ Components(Renamed, Sharing) = {Block(root) : root \in Roots}
  <1>1. \A n : Refs(n) = Keys(n)
    BY DEF Refs, Keys
  <1>2. changed = Renamed
    BY <1>1, Shape DEF IInv, Scanning, Merging, Renamed
  <1>3. Components(Renamed, Sharing) = Parts(changed, Near)
    BY <1>1, <1>2 DEF Components, Sharing, Near
  <1>4. Parts(changed, Near) = {Reach(changed, Near, n) : n \in changed}
    BY DEF Parts
  <1>5. {Reach(changed, Near, n) : n \in changed} = {Block(rep[n]) : n \in changed}
    BY ReachIsBlock
  <1>6. QED
    BY <1>2, <1>3, <1>4, <1>5 DEF Roots

(* A block is merged as the property says.                                 *)
LEMMA MergedAsExpected ==
  ASSUME IInv, Merging, NEW root
  PROVE  Expected(Block(root)) = MergedNet(root)
  <1> DEFINE P == Block(root)
  <1>1. P \subseteq 1 .. Size /\ \A n \in 1 .. Size : nets[n] = RenamedNet(call.nets[n])
    BY Shape DEF IInv, Scanning, Merging, Block
  <1>2. \A m : AtTop(m) = Resolved(m)
    BY DEF AtTop, Resolved
  <1>3. \A n \in P : nets[n].members = {Rename(m) : m \in call.nets[n].members} /\ nets[n].name = call.nets[n].name
    <2>1. \A n \in 1 .. Size : nets[n].members = {Rename(m) : m \in call.nets[n].members} /\ nets[n].name = call.nets[n].name
      <3>1. \A net : RenamedNet(net).members = {Rename(m) : m \in net.members} /\ RenamedNet(net).name = net.name
        BY DEF RenamedNet
      <3>2. QED
        BY <1>1, <3>1
    <2> HIDE DEF P
    <2>2. QED
      BY <1>1, <2>1
  <1> HIDE DEF P
  <1>4. Members(P) = {Rename(m) : m \in UNION {call.nets[n].members : n \in P}}
    BY <1>3 DEF Members
  <1>5. {Resolved(m) : m \in Members(P)} = {AtTop(Rename(m)) : m \in UNION {call.nets[n].members : n \in P}}
    BY <1>2, <1>4
  <1>6. {n \in P : nets[n].name # NoName} = {n \in P : call.nets[n].name # NoName}
    BY <1>3
  <1> DEFINE named == {n \in P : call.nets[n].name # NoName}
  <1>7. NameOf(P) = IF named = {} THEN NoName ELSE call.nets[First(named)].name
    <2>1. NameOf(P) = IF named = {} THEN NoName ELSE nets[First(named)].name
      BY <1>6 DEF NameOf
    <2>2. named # {} => First(named) \in P
      <3>1. named \subseteq P /\ P \subseteq Nat
        BY <1>1 DEF P
      <3> HIDE DEF named
      <3>2. named # {} => First(named) \in named
        <4>1. HAVE named # {}
        <4>2. \E n \in named : \A o \in named : n <= o
          BY <3>1, <4>1, Least
        <4>3. QED
          BY <4>2 DEF First
      <3>3. QED
        BY <3>1, <3>2
    <2> HIDE DEF named
    <2>3. QED
      BY <1>3, <2>1, <2>2
  <1>8. QED
    BY <1>5, <1>7 DEF Expected, MergedNet, MergedFrom, P
(* The nets of the result and where they come from, one to one: as often   *)
(* as a net is there, as many nets and blocks have given it.               *)
LEMMA KeptAsTheyWere ==
  ASSUME IInv, Merging
  PROVE  /\ Kept = {n \in DOMAIN call.nets : Refs(n) = {}}
         /\ \A n \in Kept : nets[n] = call.nets[n]
  <1>1. /\ Size \in Nat /\ cursor = Size + 1 /\ DOMAIN call.nets = 1 .. Size /\ Kept = (1 .. Size) \ changed
    BY Shape, ResultIsSeq DEF IInv, Scanning, Merging
  <1>2. \A n : Refs(n) = Keys(n)
    BY DEF Refs, Keys
  <1>3. changed = {n \in 1 .. Size : Keys(n) # {}}
    BY <1>1 DEF IInv, Scanning
  <1>4. ASSUME NEW n \in Kept
        PROVE  nets[n] = call.nets[n]
    <2>1. n \in 1 .. Size /\ Keys(n) = {}
      BY <1>1, <1>3
    <2>2. \A m \in call.nets[n].members : ~ Hit(m)
      BY <2>1 DEF Keys
    <2>3. {Rename(m) : m \in call.nets[n].members} = call.nets[n].members
      BY <2>2 DEF Rename
    <2>4. nets[n] = RenamedNet(call.nets[n]) /\ IsNet(call.nets[n])
      BY <1>1, <2>1 DEF IInv, Scanning
    <2>5. QED
      BY <2>3, <2>4 DEF RenamedNet, IsNet
  <1>5. QED
    BY <1>1, <1>2, <1>3, <1>4

LEMMA CopiesAddUp ==
  ASSUME IInv, pc = "done", NEW net
  PROVE  Times(net, Result)
           = Cardinality({n \in {n \in DOMAIN call.nets : Refs(n) = {}} : call.nets[n] = net})
               + Cardinality({P \in Components(Renamed, Sharing) : Expected(P) = net})
  <1> DEFINE k  == Cardinality(Kept)
             D  == {i \in DOMAIN Result : Result[i] = net}
             D1 == {i \in D : i \in 1 .. k}
             D2 == {i \in D : i \notin 1 .. k}
             A  == {n \in Kept : call.nets[n] = net}
             B  == {P \in {Block(root) : root \in Roots} : Expected(P) = net}
  <1>1. /\ k \in Nat /\ Len(made) \in Nat /\ Len(Result) = k + Len(made)
        /\ DOMAIN Result = 1 .. k + Len(made) /\ DOMAIN made = 1 .. Len(made)
    BY ResultIsSeq, SeqShape DEF IInv, MergedOnce
  <1>2. IsFiniteSet(D) /\ IsFiniteSet(D1) /\ IsFiniteSet(D2)
    <2>1. IsFiniteSet(1 .. k + Len(made))
      <3>1. k + Len(made) \in Nat
        BY <1>1
      <3>2. QED
        BY <3>1, FS_Interval
    <2>2. D \subseteq 1 .. k + Len(made) /\ D1 \subseteq D /\ D2 \subseteq D
      BY <1>1
    <2>3. QED
      BY <2>1, <2>2, FS_Subset
  <1>3. Cardinality(D) = Cardinality(D1) + Cardinality(D2)
    <2>1. D1 \cup D2 = D /\ D1 \cap D2 = {}
      OBVIOUS
    <2>2. Cardinality(D1 \cup D2) = Cardinality(D1) + Cardinality(D2) - Cardinality(D1 \cap D2)
      BY <1>2, FS_Union
    <2>3. Cardinality(D1 \cap D2) = 0
      BY <2>1, FS_EmptySet
    <2>4. Cardinality(D1) \in Nat /\ Cardinality(D2) \in Nat
      BY <1>2, FS_CardinalityType
    <2>5. Cardinality(D1 \cup D2) = Cardinality(D)
      BY <2>1
    <2> HIDE DEF D, D1, D2
    <2>6. QED
      BY <2>2, <2>3, <2>4, <2>5
  <1>4. \A i \in D1 : Nth(i) \in Kept /\ Place(Nth(i)) = i /\ Result[i] = nets[Nth(i)]
    <2>1. TAKE i \in D1
    <2>2. i \in 1 .. k /\ i \in 1 .. Len(Result)
      BY <1>1
    <2>3. QED
      BY <2>2, KeptPlace, PlaceOf
  <1>5. Cardinality(D1) = Cardinality(A)
    <2> DEFINE f == [i \in D1 |-> Nth(i)]
    <2>1. \A i \in D1 : Nth(i) \in A
      BY <1>4, KeptAsTheyWere DEF Merging
    <2>2. ASSUME NEW n \in A
          PROVE  \E i \in D1 : Nth(i) = n
      <3>1. n \in Kept /\ nets[n] = net
        BY KeptAsTheyWere DEF Merging
      <3>2. Place(n) \in 1 .. k
        BY <3>1, PlaceIn
      <3>3. Nth(Place(n)) \in Kept /\ Place(Nth(Place(n))) = Place(n)
        BY <3>2, KeptPlace
      <3>4. Nth(Place(n)) = n
        BY <3>1, <3>3, PlacesDiffer
      <3>5. Place(n) \in 1 .. Len(Result)
        BY <1>1, <3>2
      <3>6. Result[Place(n)] = nets[n]
        BY <3>2, <3>4, <3>5, PlaceOf
      <3>7. QED
        BY <1>1, <3>1, <3>2, <3>4, <3>5, <3>6
    <2>3. \A i, j \in D1 : Nth(i) = Nth(j) => i = j
      BY <1>4
    <2> HIDE DEF D1, A
    <2>4. f \in [D1 -> A] /\ (\A i, j \in D1 : f[i] = f[j] => i = j) /\ \A n \in A : \E i \in D1 : f[i] = n
      BY <2>1, <2>2, <2>3
    <2> HIDE DEF f
    <2>5. QED
      BY <1>2, <2>4, SameSize
  <1>6. Cardinality(D2) = Cardinality(B)
    <2>1. PICK from : MadeOf(from)
      BY DEF IInv, MergedOnce, Merging
    <2>2. todo = {}
      BY DEF IInv, MergedOnce
    <2>3. from \in [DOMAIN made -> Roots] /\ \A root \in Roots : \E j \in DOMAIN made : from[j] = root
      BY <2>1, <2>2 DEF MadeOf
    <2>4. \A i \in D2 : i - k \in DOMAIN made /\ Result[i] = made[i - k] /\ i \in Int
      BY <1>1, PlaceOf
    <2>5. \A j \in DOMAIN made : made[j] = MergedNet(from[j]) /\ MergedNet(from[j]) = Expected(Block(from[j]))
      BY <2>1, MergedAsExpected DEF MadeOf, Merging
    <2>6. \A r, q \in Roots : Block(r) = Block(q) => r = q
      BY DEF Roots, Block
    <2> DEFINE f == [i \in D2 |-> Block(from[i - k])]
    <2>7. \A i \in D2 : Block(from[i - k]) \in B
      <3>1. TAKE i \in D2
      <3>2. from[i - k] \in Roots
        BY <2>3, <2>4
      <3>3. Expected(Block(from[i - k])) = net
        BY <2>4, <2>5
      <3>4. QED
        BY <3>2, <3>3
    <2>8. ASSUME NEW i \in D2, NEW j \in D2, Block(from[i - k]) = Block(from[j - k])
          PROVE  i = j
      <3>1. i - k \in DOMAIN made /\ j - k \in DOMAIN made /\ i \in Int /\ j \in Int
        BY <2>4
      <3>2. from[i - k] \in Roots /\ from[j - k] \in Roots
        BY <2>3, <3>1
      <3>3. from[i - k] = from[j - k]
        BY <2>6, <2>8, <3>2
      <3>4. i - k = j - k
        BY <2>1, <3>1, <3>3 DEF MadeOf
      <3> HIDE DEF k
      <3>5. QED
        BY <1>1, <3>1, <3>4
    <2>9. ASSUME NEW P \in B
          PROVE  \E i \in D2 : Block(from[i - k]) = P
      <3>1. PICK root \in Roots : P = Block(root) /\ Expected(P) = net
        OBVIOUS
      <3>2. PICK j \in DOMAIN made : from[j] = root
        BY <2>3
      <3>3. k + j \in 1 .. Len(Result) /\ k + j \notin 1 .. k /\ (k + j) - k = j
        <4> HIDE DEF k
        <4>1. QED
          BY <1>1
      <3>4. Result[k + j] = made[j]
        BY <3>3, PlaceOf
      <3>5. Result[k + j] = net
        BY <2>5, <3>1, <3>2, <3>4
      <3>6. k + j \in D2
        BY <1>1, <3>3, <3>5
      <3>7. QED
        BY <3>1, <3>2, <3>3, <3>6
    <2> HIDE DEF D2, B
    <2>10. f \in [D2 -> B] /\ (\A i, j \in D2 : f[i] = f[j] => i = j) /\ \A P \in B : \E i \in D2 : f[i] = P
      BY <2>7, <2>8, <2>9
    <2> HIDE DEF f
    <2>11. QED
      BY <1>2, <2>10, SameSize
  <1>7. Times(net, Result) = Cardinality(D)
    BY DEF Times
  <1>8. A = {n \in {n \in DOMAIN call.nets : Refs(n) = {}} : call.nets[n] = net}
    BY KeptAsTheyWere DEF Merging
  <1>9. B = {P \in Components(Renamed, Sharing) : Expected(P) = net}
    BY BlocksAreComponents DEF Merging
  <1> HIDE DEF D, D1, D2, A, B
  <1>10. QED
    BY <1>3, <1>5, <1>6, <1>7, <1>8, <1>9

(* Whatever order the maps are walked in, the result is made of the nets   *)
(* no reference of which was renamed and of one net for each group of nets *)
(* connected by canonical references; and a call that fails had a group    *)
(* with a top-level port whose canonical port is not declared.             *)
THEOREM MergedByReference == Spec => []MergedByCanonicalPort
  <1>1. IInv => MergedByCanonicalPort
    <2> SUFFICES ASSUME IInv PROVE MergedByCanonicalPort
      OBVIOUS
    <2>1. pc = "done" => \A net : Times(net, Result)
             = Cardinality({n \in {n \in DOMAIN call.nets : Refs(n) = {}} : call.nets[n] = net})
                 + Cardinality({P \in Components(Renamed, Sharing) : Expected(P) = net})
      BY CopiesAddUp
    <2>2. ASSUME pc = "missing"
          PROVE  \E P \in Components(Renamed, Sharing) : \E m \in Expected(P).members :
                    m.inst = NoInst /\ m.port \notin call.ports
      <3>1. PICK root \in Roots : \E m \in Members(Block(root)) : Missing(m)
        BY <2>2 DEF IInv, MergedOnce
      <3>2. PICK m \in Members(Block(root)) : Missing(m)
        BY <3>1
      <3>3. Resolved(m).inst = NoInst /\ Resolved(m).port \notin call.ports
        BY <3>2 DEF Missing, CellPort, Resolved, At
      <3>4. Resolved(m) \in MergedNet(root).members
        BY <3>2 DEF MergedNet, MergedFrom
      <3>5. Merging
        BY <2>2 DEF Merging
      <3>6. MergedNet(root) = Expected(Block(root)) /\ Block(root) \in Components(Renamed, Sharing)
        BY <3>5, BlocksAreComponents, MergedAsExpected
      <3>7. QED
        BY <3>3, <3>4, <3>6
    <2>3. QED
      BY <2>1, <2>2 DEF MergedByCanonicalPort
  <1>2. QED
    BY Invariance, <1>1, PTL
--------------------------------------------------------------------------------
(* A netlist that normalizing leaves as it is: a reference that has a      *)
(* canonical port is canonical and on one net only, and its net has no     *)
(* top-level port to rename.                                               *)
Normal(list) ==
  \A n \in DOMAIN list : \A m \in list[n].members : Hit(m) =>
    /\ Rename(m) = m
    /\ \A o \in DOMAIN list : m \in list[o].members => o = n
    /\ \A x \in list[n].members : AtTop(x) = x

Twice ==
  /\ NoInst \notin DOMAIN call.instances
  /\ first # << >> => call.nets = first /\ (WellMapped => Normal(first))

LEMMA SameArguments ==
  ASSUME call'.instances = call.instances, call'.cell = call.cell,
         call'.equivalent = call.equivalent, call'.mapping = call.mapping
  PROVE  /\ WellMapped' = WellMapped
         /\ \A list : Normal(list)' = Normal(list)
  <1>1. Mapping' = Mapping
    BY DEF Mapping
  <1>2. \A c : PortsOf(c)' = PortsOf(c)
    BY <1>1 DEF PortsOf
  <1>3. \A m : Hit(m)' = Hit(m)
    BY <1>2 DEF Hit, Matched
  <1>4. \A m : Rename(m)' = Rename(m)
    BY <1>1, <1>3 DEF Rename
  <1>5. \A m : AtTop(m)' = AtTop(m)
    BY <1>1, <1>2 DEF AtTop, CellPort
  <1>6. WellMapped' = WellMapped
    BY <1>1 DEF WellMapped, Closed
  <1>7. \A list : Normal(list)' = Normal(list)
    BY <1>3, <1>4, <1>5 DEF Normal
  <1>8. QED
    BY <1>6, <1>7

LEMMA RenameTwice ==
  ASSUME WellMapped, NEW m, Hit(m)
  PROVE  Rename(Rename(m)) = Rename(m)
  <1> DEFINE c   == call.instances[m.inst]
             map == Mapping[c]
  <1>1. c \in DOMAIN Mapping /\ m.port \in DOMAIN map
    BY DEF Hit, PortsOf
  <1>2. map[map[m.port]] = map[m.port]
    BY <1>1 DEF WellMapped, Closed
  <1>3. Rename(m) = [inst |-> m.inst, port |-> map[m.port], elem |-> m.elem]
    BY DEF Rename, At
  <1>4. Hit(Rename(m))
    BY HitAgain
  <1>5. QED
    BY <1>2, <1>3, <1>4 DEF Rename, At

LEMMA ResolvedIsSettled ==
  ASSUME WellMapped, NEW m
  PROVE  AtTop(Resolved(m)) = Resolved(m)
  <1>1. CASE CellPort(m)
    <2> DEFINE map == Mapping[call.cell]
    <2>1. m.inst = NoInst /\ call.cell \in DOMAIN Mapping /\ m.port \in DOMAIN map
      BY <1>1 DEF CellPort, PortsOf
    <2>2. map[m.port] \in DOMAIN map /\ map[map[m.port]] = map[m.port]
      BY <2>1 DEF WellMapped, Closed
    <2>3. Resolved(m) = [inst |-> m.inst, port |-> map[m.port], elem |-> m.elem]
      BY <1>1 DEF Resolved, At
    <2>4. CellPort(Resolved(m))
      BY <2>1, <2>2, <2>3 DEF CellPort, PortsOf
    <2>5. QED
      BY <2>2, <2>3, <2>4 DEF AtTop, At
  <1>2. CASE ~ CellPort(m)
    BY <1>2 DEF Resolved, AtTop
  <1>3. QED
    BY <1>1, <1>2

(* Only a merged net has references that have a canonical port, and they   *)
(* are keys of its block.                                                  *)
LEMMA HitsAreMerged ==
  ASSUME IInv, pc = "done", WellMapped, NoInst \notin DOMAIN call.instances,
         NEW from, MadeOf(from),
         NEW i \in DOMAIN Result, NEW m \in Result[i].members, Hit(m)
  PROVE  /\ i \in Int /\ i - Cardinality(Kept) \in DOMAIN made
         /\ Result[i] = MergedNet(from[i - Cardinality(Kept)])
         /\ Rename(m) = m
         /\ \E n \in changed : rep[n] = from[i - Cardinality(Kept)] /\ m \in Keys(n)
  <1> DEFINE k == Cardinality(Kept)
  <1>1. i \in 1 .. Len(Result) /\ i \in Int
    BY ResultIsSeq, SeqShape
  <1>2. ~ (i \in 1 .. k /\ Nth(i) \in Kept /\ Result[i] = nets[Nth(i)])
    <2>1. SUFFICES ASSUME Nth(i) \in Kept, Result[i] = nets[Nth(i)] PROVE FALSE
      OBVIOUS
    <2>2. m \in call.nets[Nth(i)].members /\ Refs(Nth(i)) = {}
      BY <2>1, KeptAsTheyWere DEF Merging
    <2>3. QED
      BY <2>2 DEF Refs
  <1>3. i - k \in DOMAIN made /\ Result[i] = made[i - k]
    BY <1>1, <1>2, PlaceOf
  <1>4. Result[i] = MergedNet(from[i - k])
    BY <1>3 DEF MadeOf
  <1>5. m.inst # NoInst
    BY DEF Hit, Matched
  <1>6. m \in MergedFrom(from[i - k])
    BY <1>4 DEF MergedNet
  <1>7. PICK n \in changed : rep[n] = from[i - k] /\ m \in nets[n].members
    BY <1>5, <1>6, OfBlock
  <1>8. n \in 1 .. Size /\ nets[n] = RenamedNet(call.nets[n])
    BY Shape DEF IInv, Scanning
  <1>9. PICK y \in call.nets[n].members : m = Rename(y)
    BY <1>7, <1>8 DEF RenamedNet
  <1>10. Hit(y)
    BY <1>9 DEF Rename
  <1>11. m \in Keys(n) /\ Rename(m) = m
    BY <1>9, <1>10, RenameTwice DEF Keys
  <1>12. QED
    BY <1>1, <1>3, <1>4, <1>7, <1>11

LEMMA ResultIsNormal ==
  ASSUME IInv, pc = "done", WellMapped, NoInst \notin DOMAIN call.instances
  PROVE  Normal(Result)
  <1> DEFINE k == Cardinality(Kept)
  <1>1. PICK from : MadeOf(from)
    BY DEF IInv, MergedOnce, Merging
  <1>2. SUFFICES ASSUME NEW i \in DOMAIN Result, NEW m \in Result[i].members, Hit(m)
                 PROVE  /\ Rename(m) = m
                        /\ \A j \in DOMAIN Result : m \in Result[j].members => j = i
                        /\ \A x \in Result[i].members : AtTop(x) = x
    BY DEF Normal
  <1>3. /\ i \in Int /\ i - k \in DOMAIN made /\ Result[i] = MergedNet(from[i - k]) /\ Rename(m) = m
        /\ \E n \in changed : rep[n] = from[i - k] /\ m \in Keys(n)
    BY <1>1, <1>2, HitsAreMerged
  <1>4. ASSUME NEW j \in DOMAIN Result, m \in Result[j].members
        PROVE  j = i
    <2>1. /\ j \in Int /\ j - k \in DOMAIN made
          /\ \E n \in changed : rep[n] = from[j - k] /\ m \in Keys(n)
      BY <1>1, <1>2, <1>4, HitsAreMerged
    <2>2. PICK n \in changed : rep[n] = from[i - k] /\ m \in Keys(n)
      BY <1>3
    <2>3. PICK o \in changed : rep[o] = from[j - k] /\ m \in Keys(o)
      BY <2>1
    <2>4. rep[n] = rep[o]
      BY <2>2, <2>3 DEF IInv, Uniting
    <2>5. i - k = j - k
      BY <1>1, <1>3, <2>1, <2>2, <2>3, <2>4 DEF MadeOf
    <2>6. k \in Nat
      BY ResultIsSeq
    <2> HIDE DEF k
    <2>7. QED
      BY <1>3, <2>1, <2>5, <2>6
  <1>5. \A x \in Result[i].members : AtTop(x) = x
    <2>1. TAKE x \in Result[i].members
    <2>2. x \in MergedFrom(from[i - k])
      BY <1>3 DEF MergedNet
    <2>3. PICK y : x = Resolved(y)
      BY <2>2 DEF MergedFrom
    <2>4. QED
      BY <1>2, <2>3, ResolvedIsSettled
  <1>6. QED
    BY <1>3, <1>4, <1>5

LEMMA TwiceHolds == Spec => []Twice
  <1>1. Init => Twice
    BY NormalizeAssumption DEF Init, Twice
  <1>2. IInv /\ Twice /\ [Next]_vars => Twice'
    <2> SUFFICES ASSUME IInv, Twice, [Next]_vars PROVE Twice'
      OBVIOUS
    <2>1. CASE UNCHANGED <<call, first>>
      <3>1. WellMapped' = WellMapped /\ \A list : Normal(list)' = Normal(list)
        BY <2>1, SameArguments
      <3>2. QED
        BY <2>1, <3>1 DEF Twice
    <2>2. CASE Again
      <3>1. /\ first' = Result /\ call'.nets = Result /\ pc = "done"
            /\ call'.instances = call.instances /\ call'.cell = call.cell
            /\ call'.equivalent = call.equivalent /\ call'.mapping = call.mapping
        BY <2>2 DEF Again
      <3>2. WellMapped' = WellMapped /\ \A list : Normal(list)' = Normal(list)
        BY <3>1, SameArguments
      <3>3. WellMapped => Normal(Result)
        BY <3>1, ResultIsNormal DEF Twice
      <3>4. PICK list : list = Result
        OBVIOUS
      <3>5. first' = list /\ call'.nets = list
        BY <3>1, <3>4
      <3>6. WellMapped' => Normal(list)'
        BY <3>2, <3>3, <3>4
      <3>7. WellMapped' => Normal(first)'
        BY <3>5, <3>6 DEF Normal
      <3>8. NoInst \notin DOMAIN call'.instances
        BY <3>1 DEF Twice
      <3>9. QED
        BY <3>5, <3>7, <3>8 DEF Twice
    <2>3. QED
      BY <2>1, <2>2 DEF Next, vars, Scan, ScanDone, UniteDone, Finish, Unite, Merge, MissingPort
  <1>3. QED
    BY <1>1, <1>2, Invariance, PTL DEF Spec

(* In a netlist that is normal no two nets share a canonical reference, so *)
(* every net is a group of its own and is merged into itself.              *)
LEMMA AloneInNormal ==
  ASSUME IInv, Merging, Normal(call.nets)
  PROVE  Components(Renamed, Sharing) = {{n} : n \in Renamed}
  <1> DEFINE near == [x \in Renamed |-> {y \in Renamed : Sharing(x, y)}]
  <1>1. IsFiniteSet(Renamed)
    <2>1. Size \in Nat /\ Renamed \in SUBSET (1 .. Size)
      BY Shape DEF IInv, Scanning, Merging, Renamed
    <2>2. IsFiniteSet(1 .. Size)
      BY <2>1, FS_Interval
    <2>3. QED
      BY <2>1, <2>2, FS_Subset
  <1>2. near \in [Renamed -> SUBSET Renamed]
    OBVIOUS
  <1>3. ASSUME NEW x \in Renamed, NEW y \in Renamed, Sharing(x, y)
        PROVE  x = y
    <2>1. PICK key : key \in Refs(x) /\ key \in Refs(y)
      BY <1>3 DEF Sharing
    <2>2. PICK m \in call.nets[x].members : Hit(m) /\ key = Rename(m)
      BY <2>1 DEF Refs
    <2>3. PICK o \in call.nets[y].members : Hit(o) /\ key = Rename(o)
      BY <2>1 DEF Refs
    <2>4. x \in DOMAIN call.nets /\ y \in DOMAIN call.nets
      BY DEF Renamed
    <2>5. Rename(m) = m /\ Rename(o) = o
      BY <2>2, <2>3, <2>4 DEF Normal
    <2>6. m \in call.nets[y].members
      BY <2>2, <2>3, <2>5
    <2>7. QED
      BY <2>2, <2>4, <2>6 DEF Normal
  <1>4. ASSUME NEW x \in Renamed
        PROVE  Reach(Renamed, near, x) = {x}
    <2> DEFINE A == Reach(Renamed, near, x)
    <2>1. Sealed(near, {x})
      BY <1>3, <1>4 DEF Sealed
    <2> HIDE DEF near
    <2>2. A \subseteq {x} /\ x \in A
      BY <1>1, <1>2, <1>4, <2>1, ReachIsLeast
    <2>3. QED
      BY <2>2
  <1>5. Components(Renamed, Sharing) = {Reach(Renamed, near, x) : x \in Renamed}
    BY DEF Components, Parts
  <1> HIDE DEF near
  <1>6. QED
    BY <1>4, <1>5

LEMMA MergedIntoItself ==
  ASSUME IInv, Merging, Normal(call.nets), NEW n \in Renamed
  PROVE  Expected({n}) = call.nets[n]
  <1> DEFINE net == call.nets[n]
             named == {o \in {n} : call.nets[o].name # NoName}
  <1>1. n \in DOMAIN call.nets /\ n \in 1 .. Size /\ \E m \in net.members : Hit(m)
    BY Shape DEF IInv, Renamed, Refs
  <1>2. net = [members |-> net.members, name |-> net.name]
    BY <1>1 DEF IInv, Scanning, IsNet
  <1>3. \A x \in net.members : AtTop(x) = x
    BY <1>1 DEF Normal
  <1>4. \A x \in net.members : Rename(x) = x
    BY <1>1 DEF Normal, Rename
  <1>5. {AtTop(Rename(m)) : m \in UNION {call.nets[o].members : o \in {n}}} = net.members
    <2>1. UNION {call.nets[o].members : o \in {n}} = net.members
      OBVIOUS
    <2>2. {AtTop(Rename(m)) : m \in net.members} = net.members
      BY <1>3, <1>4
    <2>3. QED
      BY <2>1, <2>2
  <1>6. (IF named = {} THEN NoName ELSE call.nets[First(named)].name) = net.name
    <2>1. CASE net.name = NoName
      <3>1. named = {}
        BY <2>1
      <3>2. QED
        BY <2>1, <3>1
    <2>2. CASE net.name # NoName
      <3>1. named = {n}
        BY <2>2
      <3>2. First({n}) = n
        BY <1>1 DEF First
      <3>3. QED
        BY <3>1, <3>2
    <2>3. QED
      BY <2>1, <2>2
  <1>7. QED
    BY <1>2, <1>5, <1>6 DEF Expected

LEMMA SecondIsFirst ==
  ASSUME IInv, pc = "done", Normal(call.nets), NEW net
  PROVE  Times(net, Result) = Times(net, call.nets)
  <1> DEFINE D == {n \in DOMAIN call.nets : call.nets[n] = net}
             A == {n \in {n \in DOMAIN call.nets : Refs(n) = {}} : call.nets[n] = net}
             C == {n \in Renamed : call.nets[n] = net}
             B == {P \in {{n} : n \in Renamed} : Expected(P) = net}
  <1>1. IsFiniteSet(D) /\ IsFiniteSet(A) /\ IsFiniteSet(C)
    <2>1. Size \in Nat /\ DOMAIN call.nets = 1 .. Size
      BY Shape DEF IInv
    <2>2. IsFiniteSet(1 .. Size)
      BY <2>1, FS_Interval
    <2>3. D \subseteq 1 .. Size /\ A \subseteq 1 .. Size /\ C \subseteq 1 .. Size
      BY <2>1 DEF Renamed
    <2>4. QED
      BY <2>2, <2>3, FS_Subset
  <1>2. Cardinality(D) = Cardinality(A) + Cardinality(C)
    <2>1. A \cup C = D /\ A \cap C = {}
      BY DEF Renamed
    <2>2. Cardinality(A \cup C) = Cardinality(A) + Cardinality(C) - Cardinality(A \cap C)
      BY <1>1, FS_Union
    <2>3. Cardinality(A \cap C) = 0
      BY <2>1, FS_EmptySet
    <2>4. Cardinality(A) \in Nat /\ Cardinality(C) \in Nat
      BY <1>1, FS_CardinalityType
    <2>5. Cardinality(A \cup C) = Cardinality(D)
      BY <2>1
    <2> HIDE DEF A, C, D
    <2>6. QED
      BY <2>2, <2>3, <2>4, <2>5
  <1>3. Cardinality(B) = Cardinality(C)
    <2> DEFINE f == [n \in C |-> {n}]
    <2>1. \A n \in C : {n} \in B
      BY MergedIntoItself DEF Merging
    <2>2. ASSUME NEW P \in B
          PROVE  \E n \in C : {n} = P
      <3>1. PICK n \in Renamed : P = {n} /\ Expected(P) = net
        OBVIOUS
      <3>2. call.nets[n] = net
        BY <3>1, MergedIntoItself DEF Merging
      <3>3. QED
        BY <3>1, <3>2
    <2> HIDE DEF B, C
    <2>3. f \in [C -> B] /\ (\A n, o \in C : f[n] = f[o] => n = o) /\ \A P \in B : \E n \in C : f[n] = P
      BY <2>1, <2>2
    <2> HIDE DEF f
    <2>4. QED
      BY <1>1, <2>3, SameSize
  <1>4. Times(net, Result) = Cardinality(A) + Cardinality(B)
    <2>1. Components(Renamed, Sharing) = {{n} : n \in Renamed}
      BY AloneInNormal DEF Merging
    <2>2. QED
      BY <2>1, CopiesAddUp
  <1>5. Times(net, call.nets) = Cardinality(D)
    BY DEF Times
  <1> HIDE DEF A, B, C, D
  <1>6. QED
    BY <1>2, <1>3, <1>4, <1>5

(* With canonical ports that stand for themselves, normalizing once is     *)
(* enough: a second call gives the nets of the first, each as often.       *)
THEOREM OnceIsEnough == Spec => []Idempotent
  <1>1. IInv /\ Twice => Idempotent
    <2> SUFFICES ASSUME IInv, Twice, pc = "done", first # << >>, WellMapped, NEW net
                 PROVE  Times(net, first) = Times(net, Result)
      BY DEF Idempotent
    <2>1. call.nets = first /\ Normal(first)
      BY DEF Twice
    <2>2. QED
      BY <2>1, SecondIsFirst
  <1>2. QED
    BY Invariance, TwiceHolds, <1>1, PTL
====
