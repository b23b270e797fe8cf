------------------------------ MODULE Components -------------------------------
(***************************************************************************)
(* The connected components of a finite set under a symmetric relation:    *)
(* what merging with `UnionFind` must compute, and what merging by         *)
(* repeated passes must amount to.                                         *)
(***************************************************************************)
EXTENDS Naturals, FiniteSets

(* What can be reached from x; near[y] are the neighbours of y.            *)
Spread(near, A) == UNION {{y} \cup near[y] : y \in A}
Reach(S, near, x) ==
  LET within[n \in 0 .. Cardinality(S)] == IF n = 0 THEN {x} ELSE Spread(near, within[n - 1])
  IN  within[Cardinality(S)]
Parts(S, near) == {Reach(S, near, x) : x \in S}

Components(S, Related(_, _)) == Parts(S, [y \in S |-> {z \in S : Related(y, z)}])
================================================================================
