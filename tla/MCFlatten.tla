------------------------------- MODULE MCFlatten -------------------------------
(* Two families of calls.  In the first the hierarchy is fixed and the nets *)
(* of every level vary; in the second the instances, the maps and the       *)
(* filters vary and the nets are few.                                       *)
EXTENDS Flatten, FiniteSetsExt, TLC

CONSTANTS x, y     \* net names

Leaf      == [ref |-> NoCell, placed |-> NoCell, array |-> FALSE]
Ref(c)    == [Leaf EXCEPT !.ref = c]
Placed(c) == [Leaf EXCEPT !.placed = c]
Array(c)  == [Ref(c) EXCEPT !.array = TRUE]

Pin(i, p)  == [inst |-> i, port |-> p, elem |-> 0]
Elem(i, p) == [inst |-> i, port |-> p, elem |-> 1]
NetsOf(members, name) ==
  {[members |-> s, name |-> name] : s \in kSubset(1, members) \cup kSubset(2, members)}
UpTo(n, S) == UNION {kSubset(k, S) : k \in 0 .. n}

NoMaps == [c \in Cell |-> NoMap]
Plain  == [map |-> NoMap, subMaps |-> NoMaps, cells |-> NoFilter, exclude |-> {},
           recursive |-> TRUE, allow |-> TRUE, warn |-> TRUE]

(* base: a is an A, b is a B.  A: b is a B, c is a leaf.  B: c is a leaf.  *)
A == CHOOSE c \in Cell : TRUE
B == CHOOSE c \in Cell : c # A
BaseNets == NetsOf({Pin(<< >>, 1), Pin(<<"a">>, 1), Elem(<<"a">>, 2), Pin(<<"b">>, 1)}, NoName)
ANets    == NetsOf({Pin(<< >>, 1), Pin(<< >>, 2), Pin(<<"b">>, 1), Pin(<<"c">>, 1)}, x)
BNets    == NetsOf({Pin(<< >>, 1), Pin(<<"c">>, 1)}, y)
Wirings ==
  {[base    |-> [instances |-> (<<"a">> :> Ref(A)) @@ (<<"b">> :> Ref(B)), nets |-> base],
    subs    |-> (A :> [instances |-> (<<"b">> :> Ref(B)) @@ (<<"c">> :> Leaf), nets |-> a])
             @@ (B :> [instances |-> <<"c">> :> Leaf, nets |-> b])]
     : base \in UpTo(2, BaseNets), a \in UpTo(2, ANets), b \in UpTo(1, BNets)}
NetOptions == {Plain, [Plain EXCEPT !.allow = FALSE]}

(* One net through everything; "a.b" may be the name of an instance of the *)
(* base and of one that expansion makes.  A net inside a cell ties its one *)
(* port to its instances.                                                  *)
Maps(i, S, j, T) ==
  {f @@ g : f \in {<< >>} \cup {i :> k : k \in S}, g \in {<< >>} \cup {j :> k : k \in T}}
Tied(insts, ports) ==
  [instances |-> insts,
   nets |-> {[members |-> ports \cup {Pin(i, 1) : i \in DOMAIN insts}, name |-> NoName]}]
Hierarchies ==
  {[base |-> Tied(base, {}), subs |-> s] :
      base \in Maps(<<"a">>, {Leaf, Ref(A), Ref(B), Placed(A), Array(A)},
                    <<"a", "b">>, {Leaf, Ref(A), Array(B)}),
      s \in {(A :> Tied(a, {Pin(<< >>, 1)})) @@ (B :> Tied(b, {Pin(<< >>, 1)})) :
               a \in Maps(<<"b">>, {Leaf, Ref(B), Placed(A)}, <<"b", "b">>, {Leaf, Placed(B)}),
               b \in Maps(<<"b">>, {Leaf, Ref(A), Placed(B)}, <<"b", "b">>, {})}
            \cup {A :> Tied(a, {}) : a \in Maps(<<"b">>, {Leaf, Ref(B)}, <<"b", "b">>, {})}}
SomeMaps == {NoMap, << >>, <<"a">> :> A, <<"a">> :> NoCell, <<"a", "b">> :> B}
Selections ==
  {[Plain EXCEPT !.map = map, !.recursive = recursive] : map \in SomeMaps, recursive \in BOOLEAN}
  \cup {[Plain EXCEPT !.map = map, !.cells = {B}] : map \in {NoMap, <<"a">> :> A}}
  \cup {[Plain EXCEPT !.map = map, !.exclude = {B}] : map \in {NoMap, <<"a">> :> A}}
  \cup {[Plain EXCEPT !.subMaps[c] = <<"b">> :> B, !.warn = warn] : c \in Cell, warn \in BOOLEAN}

Suits(h, s) == IF <<"b">> \in DOMAIN h.base.instances THEN s \in NetOptions ELSE s \in Selections
MCCalls == {c[1] @@ c[2] : c \in {c \in (Wirings \cup Hierarchies) \X (NetOptions \cup Selections) :
                                    Suits(c[1], c[2])}}
================================================================================
