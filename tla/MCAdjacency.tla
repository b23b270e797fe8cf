------------------------------- MODULE MCAdjacency -------------------------------
(***************************************************************************)
(* Two cell ports, an element of an array and a plain instance's port.     *)
(* With 20 units to a database unit the tolerance is 2 units, and 9 and 10 *)
(* are on two sides of a bucket boundary.  One half of the layouts tries   *)
(* all places around the corner of four buckets, the other all kinds of    *)
(* ports at two of them.                                                   *)
(***************************************************************************)
EXTENDS Adjacency

MCCellPort == {[cell |-> 1], [cell |-> 2]}
MCElement  == {[inst |-> "array", port |-> "o", ia |-> 0, ib |-> 1],
               [inst |-> "plain", port |-> "o", ia |-> 0, ib |-> 0]}
MCArrays   == {"array"}
MCPorts    == MCCellPort \cup MCElement

Place(x, y, angle, layer, width, type) ==
  [x |-> x, y |-> y, angle |-> angle, layer |-> layer, width |-> width, type |-> type]

AllPlaces == {Place(s[1], s[2], a, 1, 1, "optical") :
                s \in {9, 10} \X {9, 10} \cup {<<20, 20>>}, a \in {0, 45, 180}}
AllKinds == {Place(x, 9, a, k[1], k[2], k[3]) :
               x \in {9, 10}, a \in {0, 180},
               k \in {<<1, 1, "optical">>, <<1, 2, "optical">>, <<2, 1, "optical">>, <<1, 1, "other">>}}

Layout(names, places, wide) == [name : names, place : [MCPorts -> places], wide : wide]
Distinct == {[c \in MCCellPort |-> IF c.cell = 1 THEN "a" ELSE "b"]}
Same     == {[c \in MCCellPort |-> "a"]}
MCLayouts ==
  Layout(Distinct, AllPlaces, {FALSE})
    \cup Layout(Distinct \cup Same, AllKinds, BOOLEAN)
================================================================================
