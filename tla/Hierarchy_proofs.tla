---------------------------- MODULE Hierarchy_proofs ----------------------------
(***************************************************************************)
(* For every set of documents and every iteration order: the verdict of    *)
(* `validate_instance_maps` is right.                                      *)
(***************************************************************************)
EXTENDS Hierarchy, SequenceTheorems, Components_proofs

(* Nothing below S closes a cycle inside S.                                *)
AcyclicOn(S) ==
  ~ \E C \in SUBSET S : C # {} /\ \A n \in C : \E r \in C : r \in Refs(n)

(* The first loop has not met a dangling id yet, and the search is unused. *)
ScanInv ==
  pc = "scan" => /\ \A n \in Keys \ todo : Refs(n) \subseteq Keys
                 /\ stack = << >> /\ active = {} /\ done = {}

(* No marker strictly between positions i and j of the stack.              *)
Adjacent(i, j) == i < j /\ \A k \in Markers : ~ (i < k /\ k < j)

(* Every netlist the loop has started from is finished or on its way.      *)
RootsKept ==
  \A n \in Keys \ todo : n \in done \/ \E j \in DOMAIN stack : stack[j].name = n

(* What an unfinished netlist references is finished or waits above it.    *)
ChildrenAbove ==
  \A i \in Markers : \A r \in Refs(stack[i].name) :
     r \in done \/ \E j \in DOMAIN stack : i < j /\ stack[j].name = r

(* An entry is referenced by the netlist of the nearest marker below it:   *)
(* the markers spell a path.                                               *)
ParentBelow ==
  \A i \in Markers : \A j \in DOMAIN stack :
     Adjacent(i, j) => stack[j].name \in Refs(stack[i].name)

(* Every marker but the topmost has a nearest marker above it.             *)
NextMarker ==
  \A i \in Markers :
     \/ \A j \in Markers : j <= i
     \/ \E j \in Markers : Adjacent(i, j)

SearchInv ==
  pc = "dfs" => /\ Resolved
                /\ AcyclicOn(done)
                /\ RootsKept
                /\ ChildrenAbove
                /\ ParentBelow
                /\ NextMarker

IInv ==
  /\ TypeOK
  /\ ScanInv
  /\ MarkersAreActive
  /\ DoneIsClosed
  /\ SearchInv
  /\ VerdictIsRight
--------------------------------------------------------------------------------
LEMMA DocFacts ==
  ASSUME TypeOK
  PROVE  /\ Keys \subseteq Name
         /\ \A n \in Keys : refs[n] \in Seq(Name) /\ Refs(n) \subseteq Name
  BY DocsAssumption DEF TypeOK, Keys, Refs

(* Popping shortens the stack by its top and moves nothing else.           *)
LEMMA PopFacts ==
  ASSUME TypeOK, stack # << >>
  PROVE  /\ Len(stack) \in Nat \ {0}
         /\ DOMAIN stack = 1 .. Len(stack)
         /\ \A i \in DOMAIN stack : stack[i] \in Entries
         /\ Top \in Entries
         /\ Rest \in Seq(Entries)
         /\ DOMAIN Rest = 1 .. Len(stack) - 1
         /\ \A i \in DOMAIN Rest : Rest[i] = stack[i]
  BY DEF TypeOK, Top, Rest

(* Entering replaces the top by its marker and puts one entry for each     *)
(* reference above it.                                                     *)
LEMMA EnterFacts ==
  ASSUME TypeOK, Enter, Refs(Top.name) \subseteq Keys
  PROVE  /\ stack' \in Seq(Entries)
         /\ Len(stack) \in DOMAIN stack'
         /\ stack'[Len(stack)] = [name |-> Top.name, exiting |-> TRUE]
         /\ \A i \in DOMAIN stack' : i < Len(stack) =>
               i \in DOMAIN stack /\ stack'[i] = stack[i]
         /\ \A i \in DOMAIN stack' : i > Len(stack) =>
               ~ stack'[i].exiting /\ stack'[i].name \in Refs(Top.name)
         /\ \A i \in DOMAIN stack : i \in DOMAIN stack'
         /\ \A r \in Refs(Top.name) : \E i \in DOMAIN stack' :
               i > Len(stack) /\ stack'[i].name = r
         /\ DOMAIN stack' \subseteq Nat
  <1> DEFINE t == Top.name
             new == stack'
             L == Len(stack)
             R == Rest
             M == Marker(t)
             C == Children(t)
  <1>1. /\ L \in Nat \ {0} /\ Top \in Entries /\ R \in Seq(Entries) /\ Len(R) = L - 1
        /\ \A i \in 1 .. L - 1 : R[i] = stack[i]
        /\ DOMAIN stack = 1 .. L
    BY PopFacts DEF Rest, Enter, Popping
  <1>2. t \in Keys /\ refs[t] \in Seq(Name) /\ Refs(t) \subseteq Keys
    BY <1>1, DocFacts DEF Entries
  <1>3. M \in Seq(Entries) /\ Len(M) = 1 /\ M[1] = [name |-> t, exiting |-> TRUE]
    BY <1>2 DEF Marker, Entries
  <1>4. /\ C \in Seq(Entries) /\ Len(C) = Len(refs[t])
        /\ \A k \in 1 .. Len(C) : ~ C[k].exiting /\ C[k].name = refs[t][Len(refs[t]) + 1 - k]
    <2>1. Len(refs[t]) \in Nat
      BY <1>2
    <2>2. \A k \in 1 .. Len(refs[t]) : Len(refs[t]) + 1 - k \in 1 .. Len(refs[t])
      BY <2>1
    <2>3. DOMAIN refs[t] = 1 .. Len(refs[t])
      BY <1>2
    <2>4. \A k \in 1 .. Len(refs[t]) : refs[t][Len(refs[t]) + 1 - k] \in Keys
      BY <2>2, <2>3 DEF Refs
    <2>5. C = [k \in 1 .. Len(refs[t]) |->
                 [name |-> refs[t][Len(refs[t]) + 1 - k], exiting |-> FALSE]]
      BY DEF Children
    <2> HIDE DEF C
    <2>6. C \in [1 .. Len(refs[t]) -> Entries]
      BY <2>4, <2>5 DEF Entries
    <2>7. C \in Seq(Entries) /\ Len(C) = Len(refs[t])
      BY <2>1, <2>6
    <2>8. QED
      BY <2>5, <2>7
  <1>5. \A r \in Refs(t) : \E k \in 1 .. Len(C) : C[k].name = r
    <2> SUFFICES ASSUME NEW i \in DOMAIN refs[t]
                 PROVE  \E k \in 1 .. Len(C) : C[k].name = refs[t][i]
      BY DEF Refs
    <2>1. Len(refs[t]) \in Nat /\ i \in 1 .. Len(refs[t])
      BY <1>2
    <2>2. Len(refs[t]) + 1 - i \in 1 .. Len(C)
      BY <2>1, <1>4
    <2>3. C[Len(refs[t]) + 1 - i].name = refs[t][Len(refs[t]) + 1 - (Len(refs[t]) + 1 - i)]
      BY <2>2, <1>4
    <2>4. Len(refs[t]) + 1 - (Len(refs[t]) + 1 - i) = i
      BY <2>1
    <2>5. QED
      BY <2>2, <2>3, <2>4
  <1>6. \A k \in 1 .. Len(C) : C[k].name \in Refs(t)
    <2>1. Len(refs[t]) \in Nat /\ DOMAIN refs[t] = 1 .. Len(refs[t])
      BY <1>2
    <2>2. \A k \in 1 .. Len(C) : Len(refs[t]) + 1 - k \in DOMAIN refs[t]
      BY <2>1, <1>4
    <2>3. QED
      BY <2>2, <1>4 DEF Refs
  <1>7. new = (R \o M) \o C
    BY DEF Enter
  <1> HIDE DEF R, M, C, new, t
  <1>8. /\ R \o M \in Seq(Entries) /\ Len(R \o M) = L
        /\ \A i \in 1 .. L - 1 : (R \o M)[i] = R[i]
        /\ (R \o M)[L] = M[1]
    <2>1. /\ R \o M \in Seq(Entries)
          /\ Len(R \o M) = (L - 1) + 1
          /\ \A i \in 1 .. (L - 1) + 1 :
                (R \o M)[i] = IF i <= L - 1 THEN R[i] ELSE M[i - (L - 1)]
      BY <1>1, <1>3, ConcatProperties
    <2>2. L \in 1 .. (L - 1) + 1 /\ ~ (L <= L - 1) /\ L - (L - 1) = 1
      BY <1>1
    <2>3. QED
      BY <1>1, <2>1, <2>2
  <1>9. /\ new \in Seq(Entries) /\ Len(C) \in Nat
        /\ DOMAIN new = 1 .. L + Len(C)
        /\ \A i \in 1 .. L + Len(C) :
              new[i] = IF i <= L THEN (R \o M)[i] ELSE C[i - L]
    <2> DEFINE RM == R \o M
    <2>1. RM \in Seq(Entries) /\ Len(RM) = L /\ new = RM \o C
      BY <1>7, <1>8
    <2> HIDE DEF RM, L
    <2>2. C \in Seq(Entries)
      BY <1>4
    <2>3. /\ RM \o C \in Seq(Entries)
          /\ Len(RM \o C) = Len(RM) + Len(C)
          /\ \A i \in 1 .. Len(RM) + Len(C) :
                (RM \o C)[i] = IF i <= Len(RM) THEN RM[i] ELSE C[i - Len(RM)]
      BY ONLY <2>1, <2>2, ConcatProperties
    <2>4. DOMAIN new = 1 .. Len(new) /\ Len(C) \in Nat
      BY <1>4, <2>1, <2>3, LenProperties
    <2>5. QED
      BY <2>1, <2>3, <2>4 DEF RM
  <1>10. \A i \in 1 .. L : i \in DOMAIN new /\ new[i] = (R \o M)[i]
    <2> HIDE DEF L
    <2>1. L \in Nat /\ \A i \in 1 .. L : i \in 1 .. L + Len(C) /\ i <= L
      BY <1>1, <1>9
    <2>2. QED
      BY <1>9, <2>1
  <1>11. \A i \in DOMAIN new : i > L => i - L \in 1 .. Len(C) /\ new[i] = C[i - L]
    BY <1>1, <1>9
  <1>12. \A r \in Refs(t) : \E i \in DOMAIN new : i > L /\ new[i].name = r
    <2> SUFFICES ASSUME NEW r \in Refs(t) PROVE \E i \in DOMAIN new : i > L /\ new[i].name = r
      OBVIOUS
    <2>1. PICK k \in 1 .. Len(C) : C[k].name = r
      BY <1>5
    <2>2. L + k \in DOMAIN new /\ L + k > L /\ L + k - L = k
      BY <1>1, <1>9
    <2>3. new[L + k] = C[k]
      BY <1>11, <2>2
    <2>4. QED
      BY <2>1, <2>2, <2>3
  <1>13. \A i \in DOMAIN new : i > L => ~ new[i].exiting /\ new[i].name \in Refs(t)
    BY <1>4, <1>6, <1>11
  <1>14. new[L] = [name |-> t, exiting |-> TRUE] /\ L \in DOMAIN new
    BY <1>1, <1>3, <1>8, <1>10
  <1>15. \A i \in DOMAIN new : i < L => i \in DOMAIN stack /\ new[i] = stack[i]
    <2> SUFFICES ASSUME NEW i \in DOMAIN new, i < L
                 PROVE  i \in DOMAIN stack /\ new[i] = stack[i]
      OBVIOUS
    <2>1. i \in 1 .. L - 1
      BY <1>1, <1>9
    <2>2. new[i] = (R \o M)[i] /\ (R \o M)[i] = R[i] /\ R[i] = stack[i]
      <3>1. i \in 1 .. L
        BY <1>1, <2>1
      <3>2. QED
        BY <1>1, <1>8, <1>10, <2>1, <3>1
    <2>3. QED
      BY <1>1, <2>1, <2>2
  <1>16. DOMAIN stack \subseteq DOMAIN new /\ DOMAIN new \subseteq Nat
    BY <1>1, <1>9
  <1>17. QED
    BY <1>9, <1>12, <1>13, <1>14, <1>15, <1>16 DEF new, t
--------------------------------------------------------------------------------
LEMMA InitIInv == Init => IInv
  <1> SUFFICES ASSUME Init PROVE IInv
    OBVIOUS
  <1>1. TypeOK
    BY DEF Init, TypeOK, Keys, Entries
  <1>2. QED
    BY <1>1 DEF Init, IInv, ScanInv, MarkersAreActive, DoneIsClosed, SearchInv,
       VerdictIsRight, Verdicts

LEMMA ScanIInv == IInv /\ Scan => IInv'
  <1> SUFFICES ASSUME IInv, Scan PROVE IInv'
    OBVIOUS
  <1> USE DEF IInv
  <1>1. ASSUME NEW n \in Keys, ScanNetlist(n) PROVE IInv'
    <2>1. Refs(n) \subseteq Keys
      BY <1>1 DEF ScanNetlist, Dangling, Refs
    <2> USE <1>1 DEF ScanNetlist
    <2>2. TypeOK'
      BY DEF TypeOK, Keys, Entries
    <2>3. ScanInv'
      BY <2>1 DEF ScanInv, Keys, Refs
    <2>4. QED
      BY <2>2, <2>3 DEF MarkersAreActive, DoneIsClosed, Refs, SearchInv, VerdictIsRight
  <1>2. ASSUME NEW n \in Keys, ReportMissing(n) PROVE IInv'
    <2> USE <1>2 DEF ReportMissing
    <2>1. PICK i \in DOMAIN refs[n] : Dangling(n, i) /\ error' = <<n, refs[n][i]>>
      OBVIOUS
    <2>2. refs[n][i] \in Name /\ n \in Name
      BY DocFacts DEF Refs
    <2>3. TypeOK'
      BY <2>1, <2>2 DEF TypeOK, Keys, Entries, Verdicts
    <2>4. ~ Resolved'
      BY <2>1 DEF Resolved, Dangling, Refs, Keys
    <2>5. QED
      BY <2>3, <2>4 DEF ScanInv, MarkersAreActive, DoneIsClosed, Refs, SearchInv, VerdictIsRight
  <1>3. CASE ScanDone
    <2> USE <1>3 DEF ScanDone
    <2>1. TypeOK'
      BY DEF TypeOK, Keys, Entries
    <2>2. stack' = << >> /\ Markers' = {} /\ active' = {} /\ done' = {}
      BY DEF ScanInv, Markers
    <2>3. Resolved'
      BY DEF ScanInv, Resolved, Keys, Refs
    <2>4. AcyclicOn(done)' /\ RootsKept' /\ ChildrenAbove' /\ ParentBelow' /\ NextMarker'
      BY <2>2 DEF AcyclicOn, RootsKept, Keys, ChildrenAbove, ParentBelow, NextMarker
    <2>5. QED
      BY <2>1, <2>2, <2>3, <2>4 DEF ScanInv, MarkersAreActive, DoneIsClosed, SearchInv, VerdictIsRight
  <1>4. QED
    BY <1>1, <1>2, <1>3 DEF Scan
--------------------------------------------------------------------------------
(* The document does not change during the call.                           *)
LEMMA Frame ==
  ASSUME UNCHANGED refs
  PROVE  /\ Keys' = Keys
         /\ \A n : Refs(n)' = Refs(n)
         /\ Resolved' <=> Resolved
         /\ Acyclic' <=> Acyclic
  <1>1. Keys' = Keys /\ \A n : Refs(n)' = Refs(n)
    BY DEF Keys, Refs
  <1>2. Resolved' <=> Resolved
    BY <1>1 DEF Resolved
  <1>3. Acyclic' <=> Acyclic
    BY <1>1, Zenon DEF Acyclic
  <1>4. QED
    BY <1>1, <1>2, <1>3

LEMMA FrameDone ==
  ASSUME UNCHANGED <<refs, done>>
  PROVE  /\ AcyclicOn(done)' <=> AcyclicOn(done)
         /\ DoneIsClosed' <=> DoneIsClosed
  <1>1. \A n : Refs(n)' = Refs(n)
    BY DEF Refs
  <1>2. done' = done
    OBVIOUS
  <1>3. AcyclicOn(done)' <=> AcyclicOn(done)
    BY <1>1, <1>2, Zenon DEF AcyclicOn
  <1>4. DoneIsClosed' <=> DoneIsClosed
    BY <1>1, <1>2 DEF DoneIsClosed
  <1>5. QED
    BY <1>3, <1>4

LEMMA StartIInv == \A n \in Keys : IInv /\ Start(n) => IInv'
  <1> SUFFICES ASSUME NEW n \in Keys, IInv, Start(n) PROVE IInv'
    OBVIOUS
  <1> USE DEF IInv, Start
  <1>1. TypeOK'
    BY DEF TypeOK, Keys, Entries
  <1>2. Markers = {} /\ Markers' = {}
    BY DEF Markers
  <1>3. RootsKept'
    BY Frame DEF RootsKept, SearchInv
  <1>4. AcyclicOn(done)' /\ Resolved' /\ DoneIsClosed'
    BY Frame, FrameDone DEF SearchInv
  <1>5. ChildrenAbove' /\ ParentBelow' /\ NextMarker'
    BY <1>2 DEF ChildrenAbove, ParentBelow, NextMarker
  <1>6. MarkersAreActive'
    BY <1>2 DEF MarkersAreActive
  <1>7. QED
    BY <1>1, <1>3, <1>4, <1>5, <1>6 DEF ScanInv, SearchInv, VerdictIsRight

(* Adding a netlist whose references are all finished closes no cycle.     *)
LEMMA AcyclicGrows ==
  ASSUME AcyclicOn(done), DoneIsClosed, NEW n, Refs(n) \subseteq done
  PROVE  AcyclicOn(done \cup {n})
  <1>1. CASE n \in done
    <2>1. done \cup {n} = done
      BY <1>1
    <2>2. QED
      BY <2>1
  <1>2. CASE n \notin done
    <2> SUFFICES ASSUME NEW C \in SUBSET (done \cup {n}), C # {},
                        \A m \in C : \E r \in C : r \in Refs(m)
                 PROVE  FALSE
      BY DEF AcyclicOn
    <2> DEFINE D == C \ {n}
    <2>1. \A m \in D : \E r \in D : r \in Refs(m)
      BY <1>2 DEF DoneIsClosed
    <2>2. D # {}
      BY <1>2
    <2>3. D \in SUBSET done
      OBVIOUS
    <2>4. QED
      BY <2>1, <2>2, <2>3 DEF AcyclicOn
  <1>3. QED
    BY <1>1, <1>2

LEMMA ExitIInv == IInv /\ Exit => IInv'
  <1> SUFFICES ASSUME IInv, Exit PROVE IInv'
    OBVIOUS
  <1> USE DEF IInv, Exit, Popping
  <1> DEFINE L == Len(stack)
             n == Top.name
  <1>1. /\ L \in Nat \ {0} /\ DOMAIN stack = 1 .. L /\ Top = stack[L] /\ Top \in Entries
        /\ stack' \in Seq(Entries) /\ DOMAIN stack' = 1 .. L - 1
        /\ \A i \in 1 .. L - 1 : stack'[i] = stack[i]
    BY PopFacts DEF Top
  <1>2. n \in Keys /\ L \in Markers /\ n \in active
    BY <1>1 DEF Entries, Markers, MarkersAreActive
  <1>3. Markers' = Markers \ {L}
    BY <1>1 DEF Markers
  <1>4. Refs(n) \subseteq done
    BY <1>1, <1>2 DEF SearchInv, ChildrenAbove
  <1>5. done' = done \cup {n}
    BY DEF Finished
  <1> HIDE DEF n
  <1>6. TypeOK'
    BY <1>1, <1>2, <1>5 DEF TypeOK, Keys, Entries
  <1>7. MarkersAreActive'
    BY <1>1, <1>2, <1>3, <1>5 DEF MarkersAreActive, Markers, n
  <1>8. DoneIsClosed'
    BY <1>4, <1>5, Frame DEF DoneIsClosed
  <1>9. AcyclicOn(done)'
    <2>1. AcyclicOn(done \cup {n})
      BY <1>4, AcyclicGrows DEF SearchInv
    <2>2. \A m : Refs(m)' = Refs(m)
      BY Frame
    <2>3. QED
      BY <2>1, <2>2, <1>5, Zenon DEF AcyclicOn
  <1>10. Resolved'
    BY Frame DEF SearchInv
  <1>11. RootsKept'
    BY <1>1, <1>5 DEF SearchInv, RootsKept, Keys, n
  <1>12. ChildrenAbove'
    BY <1>1, <1>3, <1>5 DEF SearchInv, ChildrenAbove, Refs, n, Markers
  <1>13. ParentBelow'
    <2> SUFFICES ASSUME NEW i \in Markers', NEW j \in DOMAIN stack', Adjacent(i, j)'
                 PROVE  stack'[j].name \in Refs(stack'[i].name)
      BY Frame DEF ParentBelow
    <2>1. i \in Markers /\ i \in DOMAIN stack' /\ i # L /\ j < L /\ j \in DOMAIN stack
      BY <1>1, <1>3 DEF Markers
    <2>2. Adjacent(i, j)
      BY <1>1, <1>3, <2>1 DEF Adjacent
    <2>3. stack[j].name \in Refs(stack[i].name)
      BY <2>1, <2>2 DEF SearchInv, ParentBelow
    <2>4. QED
      BY <1>1, <2>1, <2>3
  <1>14. NextMarker'
    <2> SUFFICES ASSUME NEW i \in Markers'
                 PROVE  \/ \A j \in Markers' : j <= i
                        \/ \E j \in Markers' : Adjacent(i, j)'
      BY Zenon DEF NextMarker
    <2>1. i \in Markers /\ i < L /\ i \in Nat /\ Markers \subseteq 1 .. L
      BY <1>1, <1>3 DEF Markers
    <2>2. PICK j \in Markers : Adjacent(i, j)
      BY <1>1, <1>2, <2>1 DEF SearchInv, NextMarker
    <2>3. CASE j = L
      <3> HIDE DEF L
      <3>1. \A k \in Markers' : k <= i
        BY <1>1, <1>3, <2>1, <2>2, <2>3 DEF Adjacent
      <3>2. QED
        BY <3>1
    <2>4. CASE j # L
      <3>1. j \in Markers' /\ Adjacent(i, j)'
        BY <1>3, <2>2, <2>4 DEF Adjacent
      <3>2. QED
        BY <3>1
    <2>5. QED
      BY <2>3, <2>4
  <1>15. QED
    BY <1>6, <1>7, <1>8, <1>9, <1>10, <1>11, <1>12, <1>13, <1>14
       DEF ScanInv, SearchInv, VerdictIsRight

LEMMA SkipIInv == IInv /\ Skip => IInv'
  <1> SUFFICES ASSUME IInv, Skip PROVE IInv'
    OBVIOUS
  <1> USE DEF IInv, Skip, Popping
  <1> DEFINE L == Len(stack)
  <1>1. /\ L \in Nat \ {0} /\ DOMAIN stack = 1 .. L /\ Top = stack[L]
        /\ stack' \in Seq(Entries) /\ DOMAIN stack' = 1 .. L - 1
        /\ \A i \in 1 .. L - 1 : stack'[i] = stack[i]
    BY PopFacts DEF Top
  <1>2. Markers' = Markers /\ L \notin Markers
    BY <1>1 DEF Markers
  <1>3. TypeOK'
    BY <1>1 DEF TypeOK, Keys, Entries
  <1>4. MarkersAreActive'
    BY <1>1, <1>2 DEF MarkersAreActive, Markers
  <1>5. \A j \in DOMAIN stack :
           stack[j].name \in done \/ (j \in DOMAIN stack' /\ stack'[j].name = stack[j].name)
    <2>1. \A j \in DOMAIN stack : j = L \/ j \in 1 .. L - 1
      BY <1>1
    <2>2. QED
      BY <1>1, <2>1
  <1>6. RootsKept' /\ ChildrenAbove' /\ ParentBelow' /\ NextMarker'
    <2>1. RootsKept /\ ChildrenAbove /\ ParentBelow /\ NextMarker
      BY DEF SearchInv
    <2>2. \A i \in Markers : i \in DOMAIN stack' /\ stack'[i] = stack[i]
      BY <1>1, <1>2 DEF Markers
    <2>3. RootsKept'
      BY <2>1, <1>5, Frame DEF RootsKept
    <2>4. ChildrenAbove'
      BY <2>1, <2>2, <1>2, <1>5, Frame DEF ChildrenAbove
    <2>5. \A i, j : Adjacent(i, j)' <=> Adjacent(i, j)
      BY <1>2 DEF Adjacent
    <2>6. ParentBelow'
      BY <2>1, <2>2, <2>5, <1>1, <1>2, Frame DEF ParentBelow
    <2>7. NextMarker'
      BY <2>1, <2>5, <1>2 DEF NextMarker
    <2>8. QED
      BY <2>3, <2>4, <2>6, <2>7
  <1>7. AcyclicOn(done)' /\ Resolved' /\ DoneIsClosed'
    BY Frame, FrameDone DEF SearchInv
  <1>8. QED
    BY <1>3, <1>4, <1>5, <1>6, <1>7 DEF ScanInv, SearchInv, VerdictIsRight

(* The markers spell a path down to the netlist that references the top,   *)
(* and the top is on that path: the path is a cycle.                       *)
LEMMA ReportCycleIInv == IInv /\ ReportCycle => IInv'
  <1> SUFFICES ASSUME IInv, ReportCycle PROVE IInv'
    OBVIOUS
  <1> USE DEF IInv, ReportCycle, Popping
  <1> DEFINE L == Len(stack)
  <1>1. /\ L \in Nat \ {0} /\ DOMAIN stack = 1 .. L /\ Top = stack[L] /\ Top \in Entries
        /\ stack' \in Seq(Entries)
    BY PopFacts DEF Top
  <1>2. TypeOK'
    <2>1. Top.name \in Name /\ error' = <<Top.name>>
      BY <1>1, DocFacts DEF Entries, Reported
    <2>2. QED
      BY <1>1, <2>1 DEF TypeOK, Keys, Entries, Verdicts
  <1>3. active # {} /\ Top.name \in active /\ L \notin Markers
    BY <1>1 DEF OnPath, Markers
  <1>4. \A m \in active : \E r \in active : r \in Refs(m)
    <2> SUFFICES ASSUME NEW i \in Markers
                 PROVE  \E r \in active : r \in Refs(stack[i].name)
      BY DEF MarkersAreActive
    <2>1. i \in 1 .. L /\ i < L /\ Markers \subseteq 1 .. L
      BY <1>1, <1>3 DEF Markers
    <2>2. CASE \A j \in Markers : j <= i
      <3> HIDE DEF L
      <3>1. Adjacent(i, L)
        BY <1>1, <2>1, <2>2 DEF Adjacent
      <3>2. QED
        BY <1>1, <1>3, <3>1 DEF SearchInv, ParentBelow
    <2>3. CASE \E j \in Markers : Adjacent(i, j)
      <3>1. PICK j \in Markers : Adjacent(i, j)
        BY <2>3
      <3>2. stack[j].name \in Refs(stack[i].name) /\ stack[j].name \in active
        BY <3>1 DEF SearchInv, ParentBelow, MarkersAreActive, Markers
      <3>3. QED
        BY <3>2
    <2>4. QED
      BY <2>2, <2>3 DEF SearchInv, NextMarker
  <1>5. ~ Acyclic
    BY <1>3, <1>4 DEF Acyclic, TypeOK
  <1>6. Resolved' /\ ~ Acyclic'
    BY <1>5, Frame DEF SearchInv
  <1>7. DoneIsClosed'
    BY FrameDone
  <1>8. QED
    BY <1>2, <1>6, <1>7 DEF ScanInv, MarkersAreActive, SearchInv, VerdictIsRight

LEMMA EnterIInv == IInv /\ Enter => IInv'
  <1> SUFFICES ASSUME IInv, Enter PROVE IInv'
    OBVIOUS
  <1> USE DEF IInv, Enter, Popping
  <1> DEFINE L == Len(stack)
             n == Top.name
  <1>1. /\ L \in Nat \ {0} /\ DOMAIN stack = 1 .. L /\ Top = stack[L] /\ Top \in Entries
    BY PopFacts DEF Top
  <1>2. n \in Keys /\ Refs(n) \subseteq Keys /\ n \notin active /\ n \notin done
    BY <1>1 DEF Entries, SearchInv, Resolved, OnPath
  <1>3. /\ stack' \in Seq(Entries)
        /\ L \in DOMAIN stack' /\ stack'[L] = [name |-> n, exiting |-> TRUE]
        /\ \A i \in DOMAIN stack' : i < L => i \in DOMAIN stack /\ stack'[i] = stack[i]
        /\ \A i \in DOMAIN stack' : i > L => ~ stack'[i].exiting /\ stack'[i].name \in Refs(n)
        /\ \A i \in DOMAIN stack : i \in DOMAIN stack'
        /\ \A r \in Refs(n) : \E i \in DOMAIN stack' : i > L /\ stack'[i].name = r
        /\ DOMAIN stack' \subseteq Nat
    BY <1>2, EnterFacts
  <1>4. /\ active' = active \cup {n} /\ UNCHANGED <<refs, pc, todo, done, error>>
        /\ pc = "dfs" /\ SearchInv
    OBVIOUS
  <1>5. stack[L].name = n /\ ~ stack[L].exiting
    BY <1>1
  <1> HIDE DEF n, L, Enter
  <1>6. Markers' = Markers \cup {L} /\ L \notin Markers /\ \A i \in Markers : i < L /\ i \in Nat
    BY <1>1, <1>3, <1>5 DEF Markers
  <1>7. \A i \in Markers : stack'[i] = stack[i]
    BY <1>3, <1>6 DEF Markers
  <1>8. TypeOK'
    BY <1>2, <1>3, <1>4 DEF TypeOK, Keys, Entries
  <1>9. MarkersAreActive'
    BY <1>2, <1>3, <1>4, <1>6, <1>7 DEF MarkersAreActive
  <1>10. RootsKept'
    <2>1. \A j \in DOMAIN stack : j \in DOMAIN stack' /\ stack'[j].name = stack[j].name
      BY <1>1, <1>3, <1>5
    <2>2. QED
      BY <1>4, <2>1, Frame DEF SearchInv, RootsKept
  <1>11. ChildrenAbove'
    <2> SUFFICES ASSUME NEW i \in Markers', NEW r \in Refs(stack'[i].name)
                 PROVE  r \in done \/ \E j \in DOMAIN stack' : i < j /\ stack'[j].name = r
      BY <1>4, Frame DEF ChildrenAbove
    <2>1. CASE i = L
      BY <1>3, <2>1
    <2>2. CASE i \in Markers
      <3>1. \A j \in DOMAIN stack : j \in DOMAIN stack' /\ stack'[j].name = stack[j].name
        BY <1>1, <1>3, <1>5
      <3>2. QED
        BY <1>4, <1>7, <2>2, <3>1 DEF SearchInv, ChildrenAbove
    <2>3. QED
      BY <1>6, <2>1, <2>2
  <1>12. ParentBelow'
    <2> SUFFICES ASSUME NEW i \in Markers', NEW j \in DOMAIN stack', Adjacent(i, j)'
                 PROVE  stack'[j].name \in Refs(stack'[i].name)
      BY <1>4, Frame DEF ParentBelow
    <2>1. j \in Nat /\ L \in Nat
      BY <1>1, <1>3
    <2>2. CASE i = L
      BY <1>3, <2>1, <2>2 DEF Adjacent
    <2>3. CASE i \in Markers
      <3>1. j <= L
        BY <1>6, <2>1, <2>3 DEF Adjacent
      <3>2. Adjacent(i, j) /\ j \in DOMAIN stack /\ stack'[j].name = stack[j].name
        BY <1>1, <1>3, <1>5, <1>6, <2>1, <3>1 DEF Adjacent
      <3>3. QED
        BY <1>4, <1>7, <2>3, <3>2 DEF SearchInv, ParentBelow
    <2>4. QED
      BY <1>6, <2>2, <2>3
  <1>13. NextMarker'
    <2> SUFFICES ASSUME NEW i \in Markers'
                 PROVE  \/ \A j \in Markers' : j <= i
                        \/ \E j \in Markers' : Adjacent(i, j)'
      BY Zenon DEF NextMarker
    <2>1. L \in Nat
      BY <1>1
    <2>2. CASE i = L
      BY <1>6, <2>1, <2>2
    <2>3. CASE i \in Markers /\ \A j \in Markers : j <= i
      BY <1>6, <2>1, <2>3 DEF Adjacent
    <2>4. CASE i \in Markers /\ \E j \in Markers : Adjacent(i, j)
      <3>1. PICK j \in Markers : Adjacent(i, j)
        BY <2>4
      <3>2. Adjacent(i, j)' /\ j \in Markers'
        BY <1>6, <2>1, <3>1 DEF Adjacent
      <3>3. QED
        BY <3>2
    <2>5. QED
      BY <1>4, <1>6, <2>2, <2>3, <2>4 DEF SearchInv, NextMarker
  <1>14. AcyclicOn(done)' /\ Resolved' /\ DoneIsClosed'
    BY <1>4, Frame, FrameDone DEF SearchInv
  <1>15. QED
    BY <1>4, <1>8, <1>9, <1>10, <1>11, <1>12, <1>13, <1>14 DEF ScanInv, SearchInv, VerdictIsRight

LEMMA AcceptIInv == IInv /\ Accept => IInv'
  <1> SUFFICES ASSUME IInv, Accept PROVE IInv'
    OBVIOUS
  <1> USE DEF IInv, Accept
  <1>1. TypeOK'
    BY DEF TypeOK, Keys, Entries, Verdicts
  <1>2. done = Keys
    <2>1. DOMAIN stack = {}
      OBVIOUS
    <2>2. QED
      BY <2>1 DEF SearchInv, RootsKept, TypeOK
  <1>3. Acyclic /\ Resolved
    BY <1>2 DEF SearchInv, AcyclicOn, Acyclic
  <1>4. Acyclic' /\ Resolved'
    BY <1>3, Frame
  <1>5. DoneIsClosed'
    BY FrameDone
  <1>6. QED
    BY <1>1, <1>4, <1>5 DEF ScanInv, MarkersAreActive, SearchInv, VerdictIsRight

LEMMA NextIInv == IInv /\ [Next]_vars => IInv'
  <1>1. IInv /\ UNCHANGED vars => IInv'
    <2> SUFFICES ASSUME IInv, UNCHANGED vars PROVE IInv'
      OBVIOUS
    <2> USE DEF vars, IInv
    <2>1. TypeOK' /\ ScanInv' /\ VerdictIsRight'
      BY Frame DEF TypeOK, ScanInv, VerdictIsRight, Entries
    <2>2. MarkersAreActive' /\ DoneIsClosed'
      BY FrameDone DEF MarkersAreActive, Markers
    <2>3. SearchInv'
      BY Frame, FrameDone DEF SearchInv, RootsKept, ChildrenAbove, ParentBelow,
         NextMarker, Adjacent, Markers
    <2>4. QED
      BY <2>1, <2>2, <2>3
  <1>2. QED
    BY <1>1, ScanIInv, StartIInv, ExitIInv, SkipIInv, ReportCycleIInv, EnterIInv, AcceptIInv
       DEF Next, Search

LEMMA Inductive == Spec => []IInv
  BY InitIInv, NextIInv, PTL DEF Spec

(* Types, and that every entry of the stack is a netlist of the document:  *)
(* the unchecked lookup `maps[name]` cannot fail.                          *)
THEOREM Typing == Spec => []TypeOK
  <1>1. IInv => TypeOK
    BY DEF IInv
  <1>2. QED
    BY Inductive, <1>1, PTL

(* A document is accepted only if every reference resolves and nothing     *)
(* contains itself, rejected as dangling only if a reference dangles, and  *)
(* as cyclic only if there is a cycle.                                     *)
THEOREM Verdict == Spec => []VerdictIsRight
  <1>1. IInv => VerdictIsRight
    BY DEF IInv
  <1>2. QED
    BY Inductive, <1>1, PTL

(* The exit markers on the stack are the current path.                     *)
THEOREM Path == Spec => []MarkersAreActive
  <1>1. IInv => MarkersAreActive
    BY DEF IInv
  <1>2. QED
    BY Inductive, <1>1, PTL

(* What a finished netlist references is finished.                         *)
THEOREM Closed == Spec => []DoneIsClosed
  <1>1. IInv => DoneIsClosed
    BY DEF IInv
  <1>2. QED
    BY Inductive, <1>1, PTL
--------------------------------------------------------------------------------
(* The markers from the one of the top entry's name upwards spell a path   *)
(* from that netlist to itself.                                            *)
LEMMA CycleIsNamed ==
  ASSUME IInv, ReportCycle
  PROVE  Top.name \in Keys /\ ContainsItself(Top.name)
  <1> USE DEF IInv, ReportCycle, Popping
  <1> DEFINE L == Len(stack)
             n == Top.name
  <1>1. /\ L \in Nat \ {0} /\ DOMAIN stack = 1 .. L /\ Top = stack[L] /\ Top \in Entries
    BY PopFacts DEF Top
  <1>2. n \in Keys /\ n \in active /\ L \notin Markers
    BY <1>1 DEF OnPath, Markers, Entries
  <1>3. PICK i \in Markers : stack[i].name = n
    BY <1>2 DEF MarkersAreActive
  <1>4. Markers \subseteq 1 .. L /\ (\A j \in Markers : j < L)
    BY <1>1, <1>2 DEF Markers
  <1> HIDE DEF L, n
  <1>5. ASSUME NEW S \in SUBSET Keys, \A m \in S \cup {n} : Refs(m) \cap Keys \subseteq S
        PROVE  n \in S
    <2> DEFINE G == {j \in Markers : i <= j /\ Refs(stack[j].name) \cap Keys \subseteq S}
    <2>1. G \in SUBSET Nat /\ G # {} /\ \A j \in G : j <= L
      <3>1. i \in Nat /\ i <= i
        BY <1>1, <1>3, <1>4
      <3>2. Refs(stack[i].name) \cap Keys \subseteq S
        BY <1>3, <1>5
      <3>3. i \in G
        BY <1>3, <3>1, <3>2
      <3>4. G \subseteq 1 .. L
        BY <1>4
      <3>5. QED
        BY <1>1, <3>3, <3>4
    <2>2. PICK g \in G : \A j \in G : j <= g
      BY <1>1, <2>1, Greatest
    <2>3. CASE \A j \in Markers : j <= g
      <3>1. Adjacent(g, L)
        BY <1>1, <1>4, <2>1, <2>2, <2>3 DEF Adjacent
      <3>2. stack[L].name \in Refs(stack[g].name)
        BY <1>1, <3>1 DEF SearchInv, ParentBelow
      <3>3. QED
        <4>1. stack[L].name = n /\ n \in Keys
          BY <1>1, <1>2 DEF n
        <4>2. QED
          BY <2>2, <3>2, <4>1
    <2>4. CASE \E j \in Markers : Adjacent(g, j)
      <3>1. PICK j \in Markers : Adjacent(g, j)
        BY <2>4
      <3>2. stack[j].name \in Refs(stack[g].name)
        BY <3>1 DEF SearchInv, ParentBelow, Markers
      <3>3. g < j /\ g \in Nat /\ j \in Nat /\ i <= j
        BY <1>1, <1>4, <2>1, <3>1 DEF Adjacent
      <3>4. j \in G
        <4>1. stack[j].name \in Keys
          <5>1. stack[j] \in Entries
            BY <1>1, <3>1, PopFacts DEF Markers
          <5>2. QED
            BY <5>1 DEF Entries
        <4>2. stack[j].name \in S
          BY <2>2, <3>2, <4>1
        <4>3. Refs(stack[j].name) \cap Keys \subseteq S
          BY <1>5, <4>2
        <4>4. QED
          BY <3>1, <3>3, <4>3
      <3>5. QED
        BY <2>2, <3>3, <3>4
    <2>5. QED
      BY <2>2, <2>3, <2>4 DEF SearchInv, NextMarker
  <1>6. ContainsItself(n)
    BY <1>5 DEF ContainsItself
  <1>7. QED
    BY <1>2, <1>6 DEF n

LEMMA CulpritNext == IInv /\ ErrorNamesCulprit /\ [Next]_vars => ErrorNamesCulprit'
  <1> SUFFICES ASSUME IInv, ErrorNamesCulprit, [Next]_vars
               PROVE  ErrorNamesCulprit'
    OBVIOUS
  <1>1. refs' = refs => /\ Keys' = Keys /\ \A n : Refs(n)' = Refs(n)
                        /\ \A n : ContainsItself(n)' <=> ContainsItself(n)
    BY DEF Keys, Refs, ContainsItself
  <1>2. ASSUME NEW n \in Keys, ReportMissing(n)
        PROVE  ErrorNamesCulprit'
    <2>1. PICK i \in DOMAIN refs[n] : Dangling(n, i) /\ error' = <<n, refs[n][i]>>
      BY <1>2 DEF ReportMissing
    <2>2. pc' = "missing" /\ refs' = refs
      BY <1>2 DEF ReportMissing
    <2>3. error'[1] = n /\ error'[2] = refs[n][i]
      BY <2>1
    <2>4. error'[2] \in Refs(n) \ Keys
      BY <2>1, <2>3 DEF Dangling, Refs
    <2>5. QED
      BY <1>1, <2>2, <2>3, <2>4 DEF ErrorNamesCulprit
  <1>3. CASE ReportCycle
    <2>1. pc' = "cyclic" /\ refs' = refs /\ error' = <<Top.name>>
      BY <1>3 DEF ReportCycle, Reported
    <2>2. Top.name \in Keys /\ ContainsItself(Top.name)
      BY <1>3, CycleIsNamed
    <2> DEFINE n == Top.name
    <2>3. n \in Keys /\ ContainsItself(n) /\ error'[1] = n
      BY <2>1, <2>2
    <2> HIDE DEF n
    <2>4. QED
      BY <1>1, <2>1, <2>3 DEF ErrorNamesCulprit
  <1>4. CASE UNCHANGED vars
    BY <1>1, <1>4 DEF vars, ErrorNamesCulprit
  <1>5. CASE (\E n \in Keys : ScanNetlist(n) \/ Start(n)) \/ ScanDone \/ Exit \/ Skip \/ Enter \/ Accept
    <2>1. pc' \in {"scan", "dfs", "ok"}
      BY <1>5 DEF ScanNetlist, Start, ScanDone, Exit, Skip, Enter, Accept, Popping
    <2>2. QED
      BY <2>1 DEF ErrorNamesCulprit
  <1>6. QED
    BY <1>2, <1>3, <1>4, <1>5 DEF Next, Scan, Search

(* The error names a dangling reference and its netlist, or a netlist that *)
(* contains itself and not one that only leads to it.                      *)
THEOREM Culprit == Spec => []ErrorNamesCulprit
  <1>1. Init => ErrorNamesCulprit
    BY DEF Init, ErrorNamesCulprit
  <1>2. QED
    BY <1>1, Inductive, CulpritNext, PTL DEF Spec
================================================================================
