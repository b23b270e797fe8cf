--------------------------------- MODULE Lists ----------------------------------
(***************************************************************************)
(* Sorting and filtering a list by the places of its elements: an element  *)
(* comes at the place of the number of those before it.                    *)
(***************************************************************************)
EXTENDS Integers, Sequences, FiniteSets

(* The elements of list at the positions in DOMAIN before; before[i] are   *)
(* the positions of those that come before list[i].                        *)
Arranged(list, before) ==
  [k \in 1 .. Cardinality(DOMAIN before) |->
     list[CHOOSE i \in DOMAIN before : Cardinality(before[i]) = k - 1]]

(* Those that Keep holds of, as they were.                                 *)
Selected(list, Keep(_)) ==
  LET kept == {i \in DOMAIN list : Keep(list[i])}
  IN  Arranged(list, [i \in kept |-> kept \cap 1 .. i - 1])

(* All, in an order of which Less is the strict part; a stable sort.       *)
Sorted(list, Less(_, _)) ==
  Arranged(list, [i \in DOMAIN list |->
                    {j \in DOMAIN list : IF j < i THEN ~ Less(list[i], list[j])
                                                  ELSE Less(list[j], list[i])}])
================================================================================
