------------------------------- MODULE MCBindings -------------------------------
(* Four callers: one is after the nets, one after the attributes of two     *)
(* instances, one reads documents of others, one normalizes numbers.        *)
EXTENDS Bindings, TLC

CONSTANTS A, B,    \* components
          Far      \* a placement

MCCell == {A, B}
MCInst == {1, 2}

Leaf   == [component |-> A, settings |-> EmptyObject, array |-> NoArray, ref |-> NoCell]
Ref    == [Leaf EXCEPT !.component = B, !.ref = A]
Array  == [Leaf EXCEPT !.array = <<2, 1>>]
Idle   == [insts |-> {Leaf}, removals |-> {}, ports |-> {}, names |-> {}, lists |-> {},
           nets |-> {}, docs |-> {}, items |-> {}, places |-> {Far}]

(* A port, a plain reference, two elements of an array.                    *)
P  == <<0, 1>>
R  == <<1, 1, 1>>
E1 == <<2, 1, 1, 1, 1>>
E2 == <<2, 1, 1, 2, 1>>
Wiring ==
  [Idle EXCEPT !.insts = {Array}, !.removals = {<<1>>}, !.ports = {1}, !.nets = {NoName, "x"},
     !.lists = {<< >>, <<E2>>, <<E1>>, <<R, P>>}, !.items = {<<R, P>>, <<P, NoMember>>, <<NoMember, R>>}]

Editor ==
  [Idle EXCEPT !.insts = {Leaf, Ref}, !.removals = {<<1>>, <<2, 1>>, <<2, 2>>}, !.names = MCInst]

(* Documents: one instance with every choice of fields, also with fields   *)
(* and values the reader must refuse; then nets of every shape.            *)
Fields(full)         == {[f \in S |-> full[f]] : S \in SUBSET DOMAIN full}
Document(inst, list) == [instances |-> 1 :> inst, nets |-> list, ports |-> {1}]
Plain == ("component" :> A) @@ ("settings" :> Null) @@ ("array" :> <<2, 1>>) @@ ("netlist_id" :> B)
Placement == ("cell" :> A) @@ ("placement" :> Far)
Odd == {"unknown" :> Null, "netlist_id" :> Null}
NetDocuments ==
  {"list" :> <<R, P>>, "members" :> <<P>>, ("members" :> <<R>>) @@ ("name" :> Null),
   ("members" :> <<P, R>>) @@ ("name" :> "x"), "name" :> "x", ("members" :> <<P>>) @@ ("label" :> "x")}
Documents ==
  {Document(inst, << >>) : inst \in Fields(Plain @@ Placement)
                             \cup {o @@ Plain : o \in Odd} \cup {o @@ Plain @@ Placement : o \in Odd}}
  \cup {Document([component |-> A], <<n>>) : n \in NetDocuments}
  \cup {Document(("component" :> A) @@ ("placement" :> Far), <<"list" :> <<R, P>>, "list" :> <<P, R>>>>)}
Reader == [Idle EXCEPT !.docs = Documents, !.names = {1}, !.removals = {<<1>>}]

Half(n)   == [type |-> "float", num |-> n]
Numbers   == {AsInt(n) : n \in {0, 2 * Top63 - 1}}
             \cup {Half(n) : n \in {2, 3, 2 * Top63, 2 * Top63 + 2, 4 * Top63, 4 * Top63 + 2,
                                    -2 * Top63, -2 * Top63 - 2}}
Reckoner == [Idle EXCEPT !.insts = {[Leaf EXCEPT !.settings = v] : v \in Numbers},
                         !.names = {1}]

MCCallers  == {Wiring, Editor, Reader, Reckoner}
MCNetsOnly == {Wiring}
================================================================================
