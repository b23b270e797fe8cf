-------------------------------- MODULE Members ---------------------------------
(***************************************************************************)
(* The members of a net as tuples that start with the index of their       *)
(* variant: <<0, port>>, <<1, instance, port>>, <<2, instance, port, ia,   *)
(* ib>>.  The core sorts them by the derived `Ord`; the Python objects     *)
(* made of them compare themselves, class by class.                        *)
(***************************************************************************)
EXTENDS Integers, Sequences, Lists

(* Names are numbers in their order.                                       *)
Row(k) == [1 .. k -> Int]
Member == {m \in Row(2) : m[1] = 0} \cup {m \in Row(3) : m[1] = 1} \cup {m \in Row(5) : m[1] = 2}

(* The derived order: by the variant, then field by field.                 *)
Before(m, n) == \E i \in DOMAIN m \cap DOMAIN n :
                   m[i] < n[i] /\ \A j \in 1 .. i - 1 : m[j] = n[j]

(* Lists of members, as nets are compared: a prefix comes first.           *)
ListBefore(a, b) ==
  \/ \E i \in DOMAIN a \cap DOMAIN b :
        Before(a[i], b[i]) /\ \A j \in 1 .. i - 1 : a[j] = b[j]
  \/ Len(a) < Len(b) /\ \A j \in DOMAIN a : a[j] = b[j]

SortMembers(list) == Sorted(list, Before)
--------------------------------------------------------------------------------
(* The class of a member seen from outside: PortArrayRef is asked for      *)
(* before PortRef, its base class.                                         *)
MutKindOf(m) == IF m[1] = 2 THEN 1 ELSE m[1]
KindOf(m)    == m[1]

(* What class k reads of an object: the fields of its own layers.          *)
FieldsAs(k, m) == SubSeq(m, 2, <<2, 3, 5>>[k + 1])

(* __richcmp__ of self: what it finds out, and what the operators make of it. *)
LT(self, other) ==
  IF KindOf(other) = self[1] THEN Before(FieldsAs(self[1], self), FieldsAs(self[1], other))
  ELSE self[1] < KindOf(other)
EQ(self, other) ==
  KindOf(other) = self[1] /\ FieldsAs(self[1], self) = FieldsAs(self[1], other)
GT(self, other) == ~ LT(self, other) /\ ~ EQ(self, other)

(* `a < b` and `a == b` in Python: an operand of a subclass is asked first. *)
PyLess(a, b)  == IF a[1] = 1 /\ b[1] = 2 THEN GT(b, a) ELSE LT(a, b)
PyEqual(a, b) == IF a[1] = 1 /\ b[1] = 2 THEN EQ(b, a) ELSE EQ(a, b)
================================================================================
