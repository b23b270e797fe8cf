------------------------------ MODULE MCUnionFind ------------------------------
(* Five elements: enough for a tree of rank 2, for halving to skip a level *)
(* and for a link of either orientation.                                   *)
EXTENDS UnionFind
================================================================================
