-------------------------------- MODULE Flatten --------------------------------
(***************************************************************************)
(* `flatten_netlist`: the selected instances of a netlist are replaced by  *)
(* the contents of the netlists of their cells, one level per pass, and    *)
(* the nets are rewired.  A step is one pass (`expand_pass`) or one return.*)
(*                                                                         *)
(* Instance names are sequences of segments: joining two names with the    *)
(* separator appends them, and a name that contains the separator itself   *)
(* has several segments.  A net is a set of members and a name; a netlist  *)
(* has sets of them, and maps of instances, whose order is left out.  So   *)
(* is what order decides: which of two errors is reported, and which of    *)
(* several names a merged net keeps.  Placements are in no net.            *)
(***************************************************************************)
EXTENDS Integers, Sequences, FiniteSets, Components
LOCAL INSTANCE SequencesExt

CONSTANTS
  Segment,           \* what the names of instances are made of
  Cell, NoCell,      \* names of netlists in the document, and the empty name
  NoName,            \* the lack of a net name
  NoMap, NoFilter,   \* instance_cell_map and cells when they are None
  Calls,             \* the arguments of flatten_netlist
  MaxPasses          \* MAX_PASSES

(* Netlists as the core builds them: finitely many instances and nets, the *)
(* members of the nets on instances that exist.  A name has one segment at *)
(* least, and a member is a port or an array element, by its name.         *)
IsNetlist(nl) ==
  /\ IsFiniteSet(DOMAIN nl.instances) /\ IsFiniteSet(nl.nets)
  /\ \A i \in DOMAIN nl.instances :
       nl.instances[i].ref \in Cell \cup {NoCell} /\ nl.instances[i].placed \in Cell \cup {NoCell}
  /\ \A n \in nl.nets : \A m \in n.members : m.inst = << >> \/ m.inst \in DOMAIN nl.instances
IsNamed(nl) ==
  /\ DOMAIN nl.instances \subseteq Seq(Segment) \ {<< >>}
  /\ \A n \in nl.nets : \A m \in n.members : m = [inst |-> m.inst, port |-> m.port, elem |-> m.elem]
IsMap(map) == map = NoMap \/ \A i \in DOMAIN map : map[i] \in Cell \cup {NoCell}

ASSUME FlattenAssumption ==
  /\ MaxPasses \in Nat /\ NoCell \notin Cell
  /\ \A c \in Calls :
       /\ IsNetlist(c.base) /\ IsNamed(c.base) /\ IsMap(c.map)
       /\ DOMAIN c.subs \subseteq Cell
       /\ \A d \in DOMAIN c.subs : IsNetlist(c.subs[d]) /\ IsNamed(c.subs[d]) /\ IsMap(c.subMaps[d])

VARIABLES
  call,              \* the arguments
  pc,                \* "start", "pass", "finish", or how the call returned
  passes,            \* expand_pass calls made so far
  instances, nets,   \* the netlist so far
  cellOf,            \* per instance, the cell it resolves to, or NoCell
  eligible,          \* the instances that may be expanded
  warned             \* the instances reported through warn_skipped

vars == <<call, pc, passes, instances, nets, cellOf, eligible, warned>>

Errors  == {"missing", "cyclic", "conflict", "collision", "unconnected", "limit", "unflattened"}
Returns == Errors \cup {"done"}

TypeOK ==
  /\ pc \in {"start", "pass", "finish"} \cup Returns
  /\ passes \in 0 .. MaxPasses
  /\ pc \in {"pass", "finish"} => DOMAIN cellOf = DOMAIN instances
  /\ \A i \in DOMAIN cellOf : cellOf[i] \in Cell \cup {NoCell}
  /\ eligible \subseteq DOMAIN instances
  /\ warned \subseteq DOMAIN instances

Init ==
  /\ call \in Calls
  /\ pc = "start" /\ passes = 0
  /\ instances = call.base.instances /\ nets = call.base.nets
  /\ cellOf = << >> /\ eligible = {} /\ warned = {}
--------------------------------------------------------------------------------
(* resolve_reference: an explicit reference, else the mapped cell (even    *)
(* the empty one), else the placed one.  A map may only repeat a reference.*)
Mapped(map, i)          == map # NoMap /\ i \in DOMAIN map
Conflicts(inst, map, i) == inst.ref # NoCell /\ Mapped(map, i) /\ map[i] # inst.ref
Resolve(inst, map, i) ==
  IF inst.ref # NoCell THEN inst.ref
  ELSE IF Mapped(map, i) THEN map[i] ELSE inst.placed

(* validate_instance_maps, by the contract Hierarchy has.                  *)
Document == DOMAIN call.subs
References ==
  [c \in Document |->
     SetToSeq({call.subs[c].instances[i].ref : i \in DOMAIN call.subs[c].instances} \ {NoCell})]
Hierarchy == INSTANCE Hierarchy WITH
  Name <- Cell, Docs <- {}, refs <- References,
  pc <- pc, todo <- {}, stack <- << >>, active <- {}, done <- {}, error <- << >>
Valid == Hierarchy!Resolved /\ Hierarchy!Acyclic

Return(value) ==
  /\ pc' = value
  /\ UNCHANGED <<call, passes, instances, nets, cellOf, eligible, warned>>

Dangles(i)  == instances[i].ref \notin Document \cup {NoCell}
Clashes(i)  == Conflicts(instances[i], call.map, i)

RejectDocument ==
  /\ pc = "start"
  /\ ~ Valid
  /\ Return(IF Hierarchy!Resolved THEN "cyclic" ELSE "missing")

RejectBase ==
  /\ pc = "start"
  /\ Valid
  /\ \E i \in DOMAIN instances :
        \/ Dangles(i) /\ Return("missing")
        \/ ~ Dangles(i) /\ Clashes(i) /\ Return("conflict")

Selection == {i \in DOMAIN instances : call.map = NoMap \/ i \in DOMAIN call.map}

Begin ==
  /\ pc = "start"
  /\ Valid
  /\ \A i \in DOMAIN instances : ~ Dangles(i) /\ ~ Clashes(i)
  /\ cellOf' = [i \in DOMAIN instances |-> Resolve(instances[i], call.map, i)]
  /\ eligible' = Selection
  /\ pc' = "pass"
  /\ UNCHANGED <<call, passes, instances, nets, warned>>
--------------------------------------------------------------------------------
(* expand_pass.                                                            *)
Selected(c)   == c \notin call.exclude /\ (call.cells = NoFilter \/ c \in call.cells)
Sub(i)        == call.subs[cellOf[i]]
Inlinable(i)  == cellOf[i] \in Document /\ DOMAIN Sub(i).instances # {} /\ ~ instances[i].array
ToExpand      == {i \in eligible : Selected(cellOf[i]) /\ cellOf[i] # NoCell /\ Inlinable(i)}
Skipped       == {i \in eligible : cellOf[i] = NoCell \/ (Selected(cellOf[i]) /\ ~ Inlinable(i))}
Surviving     == DOMAIN instances \ ToExpand

MutReported == IF call.warn THEN warned \cup (eligible \ ToExpand) ELSE warned
Reported    == IF call.warn THEN warned \cup Skipped ELSE warned

MutEligible(added) == eligible \cup added
Eligible(added)    == (eligible \ ToExpand) \cup added

Join(i, j)  == i \o j
Inner       == UNION {{<<i, j>> : j \in DOMAIN Sub(i).instances} : i \in ToExpand}
InnerOf(x)  == Sub(x[1]).instances[x[2]]
SubMap(x)   == call.subMaps[cellOf[x[1]]]

MutCollidesNew ==                       \* only the new names are compared
  \E x, y \in Inner : x # y /\ Join(x[1], x[2]) = Join(y[1], y[2])
MutCollidesAny ==                       \* the names being replaced count too
  \/ \E x \in Inner : Join(x[1], x[2]) \in DOMAIN instances
  \/ \E x, y \in Inner : x # y /\ Join(x[1], x[2]) = Join(y[1], y[2])
Collides ==
  \/ \E x \in Inner : Join(x[1], x[2]) \in Surviving
  \/ \E x, y \in Inner : x # y /\ Join(x[1], x[2]) = Join(y[1], y[2])

(* What a net is bound by: ports of expanded instances, seen from outside  *)
(* (an array reference binds like a plain one) or from inside.  A member   *)
(* with the instance name << >> is a top-level port of its netlist.  Those *)
(* members are dropped, the others kept.                                   *)
MutIsBound(m, expanded) == m.inst \in expanded /\ m.elem = 0
IsBound(m, expanded)    == m.inst \in expanded
At(m, i) == [inst |-> i, port |-> m.port, elem |-> m.elem]
OfParent(n, expanded) ==
  LET bound == {m \in n.members : IsBound(m, expanded)}
  IN  [at |-> << >>, name |-> n.name, kept |-> n.members \ bound,
       keys |-> {<<m.inst, m.port>> : m \in bound}]
OfInner(i, n) ==
  [at |-> i, name |-> n.name,
   kept |-> {At(m, Join(i, m.inst)) : m \in {m \in n.members : m.inst # << >>}},
   keys |-> {<<i, m.port>> : m \in {m \in n.members : m.inst = << >>}}]
Combined == LET expanded == ToExpand
            IN  {OfParent(n, expanded) : n \in nets}
                  \cup UNION {{OfInner(i, n) : n \in Sub(i).nets} : i \in expanded}

MutUnconnected(combined) ==             \* one of the net's connections suffices
  \E c \in combined : c.at = << >> /\ c.keys # {} /\
     \A d \in combined : d.at # << >> => c.keys \cap d.keys = {}
Unconnected(combined) ==
  \E c \in combined : c.at = << >> /\
     ~ c.keys \subseteq UNION {d.keys : d \in {d \in combined : d.at # << >>}}

MutBinds(c, d) == c.keys \cap d.keys # {} /\ c.at # d.at
Binds(c, d)    == c.keys \cap d.keys # {}

(* Of several names, one of the parent's nets comes before the others.     *)
Names(P) == LET named  == {c \in P : c.name # NoName}
                parent == {c \in named : c.at = << >>}
            IN  {c.name : c \in IF parent # {} THEN parent ELSE IF named # {} THEN named ELSE P}
Merge(P) == [members |-> UNION {c.kept : c \in P}, name |-> CHOOSE name \in Names(P) : TRUE]

Pass == pc = "pass" /\ passes < MaxPasses /\ ToExpand # {}

FailCollision == Pass /\ Collides /\ Return("collision")
FailConflict ==
  /\ Pass
  /\ \E x \in Inner : Conflicts(InnerOf(x), SubMap(x), x[2])
  /\ Return("conflict")

Spliced == ~ Collides /\ \A x \in Inner : ~ Conflicts(InnerOf(x), SubMap(x), x[2])

FailUnconnected ==
  /\ Pass /\ Spliced
  /\ ~ call.allow /\ Unconnected(Combined)
  /\ Return("unconnected")

Expand ==
  /\ Pass /\ Spliced
  /\ call.allow \/ ~ Unconnected(Combined)
  /\ LET origin(n)  == CHOOSE x \in Inner : Join(x[1], x[2]) = n
         cell(x)    == Resolve(InnerOf(x), SubMap(x), x[2])
         added      == {Join(x[1], x[2]) : x \in Inner}
     IN  /\ instances' = [n \in Surviving \cup added |->
                            IF n \in Surviving THEN instances[n]
                            ELSE [ref |-> InnerOf(origin(n)).ref, placed |-> cell(origin(n)),
                                  array |-> InnerOf(origin(n)).array]]
         /\ cellOf' = [n \in Surviving \cup added |->
                            IF n \in Surviving THEN cellOf[n] ELSE cell(origin(n))]
         /\ eligible' = Eligible(added)
  /\ nets' = {n \in {Merge(P) : P \in Components(Combined, Binds)} : n.members # {}}
  /\ warned' = Reported
  /\ passes' = passes + 1
  /\ pc' = IF call.recursive THEN "pass" ELSE "finish"
  /\ UNCHANGED call

MutAfterLast == "pass"                  \* the loop is not left
AfterLast    == "finish"

NothingLeft ==
  /\ pc = "pass" /\ passes < MaxPasses
  /\ ToExpand = {}
  /\ warned' = Reported
  /\ pc' = AfterLast
  /\ UNCHANGED <<call, passes, instances, nets, cellOf, eligible>>

FailLimit == pc = "pass" /\ passes = MaxPasses /\ Return("limit")

(* Without filters a recursive flattening may leave no reference behind.   *)
Finish ==
  /\ pc = "finish"
  /\ Return(IF /\ call.recursive /\ call.cells = NoFilter /\ call.exclude = {}
               /\ \E i \in eligible : instances[i].ref # NoCell
            THEN "unflattened" ELSE "done")

Next ==
  \/ RejectDocument \/ RejectBase \/ Begin
  \/ Expand \/ FailCollision \/ FailConflict \/ FailUnconnected
  \/ NothingLeft \/ FailLimit \/ Finish

(* One synchronous call, which runs until it returns.                      *)
Spec == Init /\ [][Next]_vars /\ WF_vars(Next)
--------------------------------------------------------------------------------
(* The reference: every occurrence of an instance that the call unfolds,   *)
(* by its path from the base netlist, level by level, without nets and     *)
(* passes.  An occurrence carries the name it gets, its instance, the cell *)
(* it resolves to and whether the caller's map lets it be expanded.        *)
Unfolds(o) ==
  /\ o.free /\ o.cell \in Document /\ Selected(o.cell)
  /\ DOMAIN call.subs[o.cell].instances # {} /\ ~ o.inst.array

Top == {[path |-> <<i>>, name |-> i, inst |-> call.base.instances[i],
         cell |-> Resolve(call.base.instances[i], call.map, i),
         free |-> call.map = NoMap \/ i \in DOMAIN call.map] : i \in DOMAIN call.base.instances}
Child(o, j) ==
  LET inst == call.subs[o.cell].instances[j]
  IN  [path |-> Append(o.path, j), name |-> Join(o.name, j), inst |-> inst,
       cell |-> Resolve(inst, call.subMaps[o.cell], j), free |-> TRUE]
Below(o) == {Child(o, j) : j \in DOMAIN call.subs[o.cell].instances}
Depth == IF call.recursive THEN MaxPasses ELSE 1
Contents(level) == UNION {Below(o) : o \in {o \in level : Unfolds(o)}}
Level[n \in 1 .. Depth + 1] == IF n = 1 THEN Top ELSE Contents(Level[n - 1])

(* What there is side by side when n - 1 levels have been unfolded.        *)
Alive(n) == Level[n] \cup {o \in UNION {Level[l] : l \in 1 .. n - 1} : ~ Unfolds(o)}
Leaves   == Alive(Depth + 1)
Unfolded == {o \in UNION {Level[l] : l \in 1 .. Depth} : Unfolds(o)}

(* The instances of the result are exactly the leaves of the unfolding,    *)
(* each once and with the cell it resolves to: none is lost to another of  *)
(* the same name, and what the caller did not select is as it was.         *)
InstancesAreLeaves ==
  pc = "done" =>
    LET leaves == Leaves
    IN  /\ DOMAIN instances = {o.name : o \in leaves}
        /\ \A o, p \in leaves : o.name = p.name => o = p
        /\ \A o \in leaves : /\ instances[o.name].ref = o.inst.ref
                              /\ instances[o.name].array = o.inst.array
                              /\ cellOf[o.name] = o.cell

(* The nets of the whole unfolding, each at the path of its occurrence,    *)
(* joined wherever they name the same port of an unfolded occurrence, from *)
(* its inside or its outside.                                              *)
Wires(unfolded) ==
  {[at |-> << >>, name |-> << >>, net |-> n] : n \in call.base.nets}
    \cup UNION {{[at |-> o.path, name |-> o.name, net |-> n] : n \in call.subs[o.cell].nets} : o \in unfolded}
Outer(w, paths) == {m \in w.net.members : m.inst # << >> /\ Append(w.at, m.inst) \in paths}
Inside(w)       == {m \in w.net.members : m.inst = << >> /\ w.at # << >>}
Meets(w, paths) == {<<Append(w.at, m.inst), m.port>> : m \in Outer(w, paths)}
                     \cup {<<w.at, m.port>> : m \in Inside(w)}
Pins(w, paths)  == {At(m, IF m.inst = << >> THEN << >> ELSE Join(w.name, m.inst)) :
                      m \in w.net.members \ (Outer(w, paths) \cup Inside(w))}

(* Flattening neither opens nor shorts: two pins are on one net of the     *)
(* result exactly when the nets of all levels connect them, whatever ports *)
(* a cell leaves open, ties together or feeds through, and however many    *)
(* passes and intermediate names it took.  A net with a named part has the *)
(* name of one of its parts.                                               *)
ConnectivityKept ==
  pc = "done" =>
    LET unfolded == Unfolded
        paths    == {o.path : o \in unfolded}
        touch(v, w) == v.meets \cap w.meets # {}
        wires    == {[wire |-> w, meets |-> Meets(w, paths)] : w \in Wires(unfolded)}
        joined   == {[members |-> UNION {Pins(w.wire, paths) : w \in G},
                      names   |-> {w.wire.net.name : w \in G} \ {NoName}] : G \in Components(wires, touch)}
    IN  /\ {n.members : n \in nets} \ {{}} = {g.members : g \in joined} \ {{}}
        /\ \A n \in nets : n.members # {} =>
             \E g \in joined : /\ g.members = n.members
                               /\ IF g.names = {} THEN n.name = NoName ELSE n.name \in g.names

(* Unless the caller allows it, no connection of a parent is dropped: each *)
(* reaches a net inside the cell, at every level that was unfolded.        *)
NoneDropped ==
  pc = "done" /\ ~ call.allow =>
    LET unfolded == Unfolded
        wires    == Wires(unfolded)
    IN  \A w \in wires : \A m \in Outer(w, {o.path : o \in unfolded}) :
          \E v \in wires : /\ v.at = Append(w.at, m.inst)
                           /\ \E q \in Inside(v) : q.port = m.port

(* A net never names an instance that is not there, between passes too.    *)
NoDangling ==
  \A n \in nets : \A m \in n.members : m.inst = << >> \/ m.inst \in DOMAIN instances

(* A returned error has its cause in the arguments: two occurrences of one *)
(* name that would stand side by side (not one that gives way to another), *)
(* or a cell that contains itself through the legacy cell names, which the *)
(* validation of the document does not follow.                             *)
Uses(c, d) == LET sub == call.subs[c].instances
              IN  \E j \in DOMAIN sub : Resolve(sub[j], call.subMaps[c], j) = d
ErrorsJustified ==
  /\ pc = "collision" => LET alive == Alive(passes + 2)
                         IN  \E o, p \in alive : o # p /\ o.name = p.name
  /\ pc = "limit" => \E S \in SUBSET Document : S # {} /\ \A c \in S : \E d \in S : Uses(c, d)

(* With warn_skipped, the instances reported are those left alone that the *)
(* caller could have expected to be expanded; none of them was expanded in *)
(* a later pass, and after a recursive call none was forgotten.            *)
Expected == {o \in Leaves : o.free /\ (o.cell = NoCell \/ Selected(o.cell))}
WarningsAreTrue ==
  pc = "done" =>
    LET left == {o.name : o \in Expected}
    IN  /\ warned \subseteq IF call.warn THEN left ELSE {}
        /\ call.warn /\ call.recursive => warned = left

(* The call returns, whatever the cells contain.                           *)
Terminates == <>(pc \in Returns)
================================================================================
