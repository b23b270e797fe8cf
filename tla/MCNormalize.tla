------------------------------ MODULE MCNormalize ------------------------------
(* Three nets of one or two members over two instances and two top-level   *)
(* ports, with and without equivalent ports of the cell itself; two        *)
(* elements of an array; and mappings given by the caller.                 *)
EXTENDS Normalize, FiniteSetsExt, TLC

CONSTANTS r, s, pad, wire, top, a, b, c, x, y

Ref(i, p)  == [inst |-> i, port |-> p, elem |-> 0]
Elem(i, e) == [inst |-> i, port |-> b, elem |-> e]
Top(p)     == Ref(NoInst, p)

NetsOf(pool)  == kSubset(1, pool) \cup kSubset(2, pool)
Lists(pool)   == {<<[members |-> k, name |-> NoName], [members |-> l, name |-> x],
                    [members |-> m, name |-> y]>> : k, l, m \in NetsOf(pool)}
Args(list, declared, equivalent, mapping) ==
  [instances |-> (r :> pad) @@ (s :> pad), nets |-> list, ports |-> declared,
   cell |-> top, equivalent |-> equivalent, mapping |-> mapping]

Pads      == {Ref(r, a), Ref(r, b), Ref(s, a), Ref(s, b)}
PadList   == pad :> <<<<a, b>>>>
TopList   == top :> <<<<a, b>>>>
Overlap   == pad :> <<<<a, b>>, <<b, c>>>>
Given     == pad :> (b :> a)
MCCalls ==
  {Args(n, {a, b}, eq, NoMap) : n \in Lists(Pads \cup {Top(a), Top(b)}),
                                eq \in {PadList, PadList @@ TopList}}
  \cup {Args(n, {b}, PadList @@ TopList, NoMap) : n \in Lists({Ref(r, b), Top(a), Top(b)})}
  \cup {Args(n, {a}, eq, NoMap) : n \in Lists({Ref(r, a), Elem(r, 1), Elem(r, 2), Top(a)}),
                                   eq \in {PadList, Overlap, wire :> <<<<a, b>>>>}}
  \cup {Args(n, {}, PadList, m) : n \in Lists(Pads), m \in {Given, top :> (a :> b)}}
DocCalls == {Args(n, {}, PadList, Given) : n \in Lists(Pads)}
================================================================================
