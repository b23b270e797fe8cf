------------------------------- MODULE UnionFind -------------------------------
(***************************************************************************)
(* The private `UnionFind` of kfnetlist-core: a parent forest with path    *)
(* halving in `find` and union by rank.  `normalize` and the flattening    *)
(* pass group nets with it.  A step of this module is one iteration of the *)
(* `while` loop of `find`, or the straight-line code around it.            *)
(*                                                                         *)
(* rep is a history variable, the partition the completed unions ask for:  *)
(* nothing reads it but the properties, the proofs and the refinement of   *)
(* Partition.                                                              *)
(***************************************************************************)
EXTENDS Integers, FiniteSets

CONSTANT N                          \* how many nets there are to group
ASSUME NAssumption == N \in Nat

Elem == 0 .. N - 1
Nil  == -1

VARIABLES
  parent, rank,   \* the two vectors of the struct
  pc,             \* "idle", or which of the call's finds is running
  x,              \* the cursor of the running find
  ra,             \* the root union found for its first argument
  call, answer,   \* the call in progress; what the last call returned
  rep             \* history: the representative of every element

vars == <<parent, rank, pc, x, ra, call, answer, rep>>

NoCall == [op |-> "none"]
Calls  == [op : {"find"}, a : Elem] \cup [op : {"union"}, a : Elem, b : Elem]

TypeOK ==
  /\ parent \in [Elem -> Elem]
  /\ rank \in [Elem -> Nat]
  /\ pc \in {"idle", "first", "second"}
  /\ x \in Elem \cup {Nil}
  /\ ra \in Elem \cup {Nil}
  /\ call \in Calls \cup {NoCall}
  /\ answer \in Elem \cup {Nil}
  /\ rep \in [Elem -> Elem]

MutIdentity == [e \in Elem |-> e + 1]      \* the range of `new` starts at 1
Identity == [e \in Elem |-> e]

Init ==
  /\ parent = Identity
  /\ rank = [e \in Elem |-> 0]
  /\ pc = "idle"
  /\ x = Nil
  /\ ra = Nil
  /\ call = NoCall
  /\ answer = Nil
  /\ rep = [e \in Elem |-> e]

(* The caller enters `find(a)` or `union(a, b)`; both begin by walking up  *)
(* from a.                                                                 *)
Invoke(c) ==
  /\ pc = "idle"
  /\ call' = c
  /\ pc' = "first"
  /\ x' = c.a
  /\ answer' = Nil
  /\ UNCHANGED <<parent, rank, ra, rep>>

MutGrandparent(e) == e                      \* self.parent[x] = x
Grandparent(e) == parent[parent[e]]

MutNextCursor == x                          \* the loop forgets to move x
NextCursor == Grandparent(x)

(* One iteration of the loop of `find`: point x at its grandparent and go  *)
(* there.                                                                  *)
Halve ==
  /\ pc # "idle"
  /\ parent[x] # x
  /\ parent' = [parent EXCEPT ![x] = Grandparent(x)]
  /\ x' = NextCursor
  /\ UNCHANGED <<rank, pc, ra, call, answer, rep>>

MutFound == call.a                          \* the argument, not the root
Found == x

FindReturns ==
  /\ pc = "first"
  /\ call.op = "find"
  /\ parent[x] = x
  /\ answer' = Found
  /\ pc' = "idle"
  /\ call' = NoCall
  /\ x' = Nil
  /\ UNCHANGED <<parent, rank, ra, rep>>

(* `let ra = self.find(a);` is done: start `self.find(b)`.                 *)
FirstRoot ==
  /\ pc = "first"
  /\ call.op = "union"
  /\ parent[x] = x
  /\ ra' = x
  /\ x' = call.b
  /\ pc' = "second"
  /\ UNCHANGED <<parent, rank, call, answer, rep>>

(* Attach the root `loser` to the root `winner`.                           *)
Attach(winner, loser) ==
  /\ parent' = [parent EXCEPT ![loser] = winner]
  /\ rep' = [e \in Elem |-> IF rep[e] = loser THEN winner ELSE rep[e]]

MutLowerEver(a, b) == FALSE                 \* every link takes the last arm
Lower(a, b) == rank[a] < rank[b]

(* The roots differ: the `match` on their ranks that ends `union`.         *)
Link(a, b) ==
  \/ /\ Lower(a, b)
     /\ Attach(b, a)
     /\ UNCHANGED rank
  \/ /\ Lower(b, a)
     /\ Attach(a, b)
     /\ UNCHANGED rank
  \/ /\ ~ Lower(a, b)
     /\ ~ Lower(b, a)
     /\ Attach(a, b)
     /\ rank' = [rank EXCEPT ![a] = @ + 1]

(* `let rb = self.find(b);` is done (x is rb): link unless the roots are   *)
(* one, and return.                                                        *)
UnionReturns ==
  /\ pc = "second"
  /\ parent[x] = x
  /\ IF ra = x THEN UNCHANGED <<parent, rank, rep>> ELSE Link(ra, x)
  /\ pc' = "idle"
  /\ call' = NoCall
  /\ x' = Nil
  /\ ra' = Nil
  /\ UNCHANGED answer

Body == Halve \/ FindReturns \/ FirstRoot \/ UnionReturns
Next == (\E c \in Calls : Invoke(c)) \/ Body

(* A call runs to completion: nothing else runs on the caller's thread.    *)
Fairness == WF_vars(Body)
Spec == Init /\ [][Next]_vars /\ Fairness
--------------------------------------------------------------------------------
(* n steps up the forest from every element.                               *)
Climb[n \in 0 .. N] ==
  IF n = 0 THEN [e \in Elem |-> e]
           ELSE [e \in Elem |-> parent[Climb[n - 1][e]]]

Root(e) == Climb[N][e]

(* Ranks strictly increase towards the root, so the forest never has a     *)
(* cycle and the loop of `find` cannot run for ever: what path halving     *)
(* relies on and never checks.                                             *)
RanksGrow == \A e \in Elem : parent[e] # e => rank[e] < rank[parent[e]]

(* A root of rank k has at least 2^k elements under it, so the u8 rank     *)
(* cannot overflow before there are 2^256 nets.                            *)
RankBySize ==
  \A r \in Elem : parent[r] = r =>
      2 ^ rank[r] <= Cardinality({e \in Elem : Root(e) = r})

(* The root of an element is the representative of its block in the        *)
(* partition the completed unions ask for: grouping nets by root neither   *)
(* merges nets that share nothing nor leaves connected ones apart.         *)
RootIsRep == \A e \in Elem : Root(e) = rep[e]

(* Each iteration of the loop of `find` goes to an element of higher rank: *)
(* the measure by which the loop ends, also after unions have reshaped the *)
(* forest between two finds.                                               *)
FindClimbs == [][Halve => rank[x'] > rank[x]]_vars

(* The structure behaves like the abstract partition.                      *)
Abstract == INSTANCE Partition
RefinesPartition == Abstract!Spec

(* Every call returns.                                                     *)
CallsReturn == (pc # "idle") ~> (pc = "idle")
================================================================================
