------------------------------ MODULE MCHierarchy ------------------------------
(* Every document over three names with up to MaxRefs references in each   *)
(* netlist: dangling ids (a name that is no key), self-references, cycles  *)
(* of two and three, diamonds, and the same cell referenced twice.         *)
EXTENDS Hierarchy, SequencesExt

CONSTANT MaxRefs
MCDocs == UNION {[K -> BoundedSeq(Name, MaxRefs)] : K \in SUBSET Name}
================================================================================
