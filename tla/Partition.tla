------------------------------- MODULE Partition -------------------------------
(***************************************************************************)
(* What a disjoint-set structure promises its callers, `normalize` and     *)
(* `expand_pass`: a partition of Elem that only ever gets coarser, changed *)
(* by `union` calls alone, in which `find` answers with one representative *)
(* per block.  One call is in progress at a time (`&mut self`).            *)
(***************************************************************************)
EXTENDS Integers

CONSTANT Elem

VARIABLES
  rep,      \* the representative of every element
  call,     \* the call in progress, or NoCall
  answer    \* what the last call returned, -1 if it was a union or is running

vars == <<rep, call, answer>>

NoCall == [op |-> "none"]
Calls  == [op : {"find"}, a : Elem] \cup [op : {"union"}, a : Elem, b : Elem]

Init ==
  /\ rep = [e \in Elem |-> e]
  /\ call = NoCall
  /\ answer = -1

Invoke ==
  /\ call = NoCall
  /\ call' \in Calls
  /\ answer' = -1
  /\ UNCHANGED rep

Find ==
  /\ call # NoCall
  /\ call.op = "find"
  /\ answer' = rep[call.a]
  /\ call' = NoCall
  /\ UNCHANGED rep

(* The merged block keeps the representative of one of the two blocks.     *)
Union ==
  /\ call # NoCall
  /\ call.op = "union"
  /\ \E winner \in {rep[call.a], rep[call.b]} :
        rep' = [e \in Elem |-> IF rep[e] \in {rep[call.a], rep[call.b]}
                                 THEN winner ELSE rep[e]]
  /\ call' = NoCall
  /\ UNCHANGED answer

Next == Invoke \/ Find \/ Union

Safety == Init /\ [][Next]_vars
Spec == Safety /\ WF_vars(Find \/ Union)
================================================================================
