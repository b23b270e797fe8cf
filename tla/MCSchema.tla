-------------------------------- MODULE MCSchema --------------------------------
(***************************************************************************)
(* Netlists of up to three nets over two pins, a plain instance and an     *)
(* array of two whose elements extraction numbers from 0; netlists whose   *)
(* names spell another pin, another instance's port, an array element or   *)
(* nothing; documents with every spelling of a reference, white space and  *)
(* mistakes.                                                               *)
(***************************************************************************)
EXTENDS Schema, TLC

Ref(inst, at) == Element(inst, "o", at)
Members6 == {Pin("p"), Pin("q"), Ref("b", << >>), Ref("a", << >>), Ref("a", <<2, 1>>), Ref("a", <<0, 1>>)}
ListsTo(n, S) == UNION {[1 .. k -> S] : k \in 0 .. n}

Shape(array, size)       == [array |-> array, size |-> size]
Cell(array, size, rest)  == [array |-> array, size |-> size, beyond |-> rest]
Cells     == "a" :> Cell(<<2, 1>>, << >>, << >>) @@ "b" :> Cell(<< >>, << >>, <<"netlist_id">>)
Instances == "a" :> Shape(<<2, 1>>, << >>) @@ "b" :> Shape(<< >>, << >>)

(* The texts ` p`, `b,o`, `a<2.1>,o` and `i,j,o`.                          *)
Spaced(to) == [to |-> to, spaced |-> TRUE]
MCOdd == Pin(" p") :> Spaced(Pin("p")) @@ Pin("b,o") :> Plain(Ref("b", << >>))
           @@ Ref("a<2.1>", << >>) :> Plain(Ref("a", <<2, 1>>))
           @@ Ref("i,j", << >>) :> Plain(Bad(<<"i", "j,o">>))
OddMembers == {Pin("p"), Ref("b", << >>)} \cup DOMAIN MCOdd
OddCells   == Cells @@ "a<2.1>" :> Cell(<< >>, << >>, << >>) @@ "i,j" :> Cell(<< >>, << >>, << >>)

NetsOver(n, lists) == [{<<"net", i>> : i \in 1 .. n} -> lists]
NetlistsWith(nets) == {[instances |-> Cells, pins |-> {"p", "q"}, nets |-> n] : n \in nets}
MCNetlists ==
  NetlistsWith(NetsOver(2, ListsTo(2, Members6)) \cup NetsOver(1, ListsTo(3, Members6))
                 \cup NetsOver(3, [1 .. 2 -> {Pin("p"), Pin("q"), Ref("b", << >>)}]))
  \cup [instances : {"b" :> Cell(<< >>, size, << >>) : size \in {<<0>>, <<3>>}}, pins : {{"p"}},
        nets : NetsOver(2, ListsTo(2, {Pin("p"), Ref("b", << >>)}))]
  \cup [instances : {OddCells}, pins : {{"p", " p", "b,o"}}, nets : NetsOver(2, ListsTo(2, OddMembers))]

Spellings == {Plain(Pin("p")), Spaced(Ref("b", << >>)), Plain(Ref("a", <<0>>)), Plain(Ref("a", <<3, 1>>))}
Shapes == {Instances,
           "a" :> Shape(<< >>, <<3>>) @@ "b" :> Shape(<< >>, << >>),
           "a" :> Shape(<<2, 1>>, << >>) @@ "b" :> Shape(<< >>, <<0>>)}
Sources3 == {Plain(Ref("b", << >>)), Spaced(Ref("b", << >>)), Plain(Ref("a", <<1>>))}
MCDocuments ==
  [instances   : Shapes,
   ports       : UNION {[P -> {Plain(Pin("p")), Spaced(Pin("p")), Plain(Ref("a", <<1>>)),
                                Plain(Bad(<<"a<", "o">>)), Plain(Ref("a", <<-1>>))}] : P \in {{}, {"p"}, {"p", "q"}}},
   connections : UNION {[S -> {Plain(Pin("p")), Plain(Pin("q")), Plain(Ref("a", <<2, 1>>))}] : S \in SUBSET Sources3},
   nets        : NetsOver(0, {<< >>}) \cup NetsOver(1, ListsTo(2, Spellings))]
  \cup [instances : {Instances}, ports : [{"b,o", "o"} -> {Plain(Pin("o")), Plain(Ref("b", << >>)), Plain(Pin("b"))}],
        connections : {<< >>}, nets : NetsOver(1, ListsTo(2, {Plain(Pin("o")), Plain(Ref("b", << >>))}))]
================================================================================
