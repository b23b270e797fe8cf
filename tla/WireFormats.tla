------------------------------ MODULE WireFormats -------------------------------
(***************************************************************************)
(* JSON and the values it stands for: settings numbers, instances, nets    *)
(* and the two flavours of netlists.  A JSON object is a function from the *)
(* names of the fields it has.  Reading returns the set of the values read:*)
(* one, or none when the text is refused.                                  *)
(*                                                                         *)
(* `kcl` and `info` go the way of `component` and `array` and are left     *)
(* out; so is the name of an instance, which is its key in the map.  Where *)
(* an instance sits is one value.                                          *)
(***************************************************************************)
EXTENDS Integers, Members

CONSTANTS
  Cell,              \* components, cells and ids of netlists are all named by these
  NoCell,            \* the empty cell name, and the lack of a netlist id
  NoName,            \* the lack of a net name
  NoArray,           \* the lack of array dimensions
  Null, EmptyObject, \* JSON null and {}
  Origin,            \* the default placement
  Top63              \* 2^63, scaled down

ASSUME WireFormatsAssumption ==
  /\ Top63 \in Nat \ {0}
  /\ NoCell \notin Cell /\ Null \notin Cell
  /\ NoName # Null

(* A number as serde_json has it: written as an integer or as a float; num *)
(* counts halves.  Integers fit i64 or u64, and above 2^53, so at 2^63 and *)
(* at 2^64, floats are sparse: the bounds i64::MAX and u64::MAX, made      *)
(* floats, are 2^63 and 2^64.  A cast to an integer type saturates.        *)
Number      == [type : {"int", "float"}, num : Int]
IsNumber(v) == v # Null /\ v # EmptyObject
Smaller(m, n) == IF m < n THEN m ELSE n
AsInt(n)    == [type |-> "int", num |-> 2 * n]

MutIntegral(v) == v.num % 2 = 0 \/ v.num = 3   \* a float near an integer
Integral(v)    == v.num % 2 = 0

NormalizeValue(v) ==
  LET f == v.num \div 2
  IN  IF ~ IsNumber(v) \/ v.type = "int" \/ ~ Integral(v) \/ f \notin - Top63 .. 2 * Top63 THEN v
      ELSE AsInt(Smaller(f, IF f <= Top63 THEN Top63 - 1 ELSE 2 * Top63 - 1))
--------------------------------------------------------------------------------
(* Instances: a leaf has no ref.  Attributes of a placed one: cell and at. *)
Default == [cell |-> NoCell, at |-> Origin]

Optional(d, field, default) == IF field \in DOMAIN d THEN d[field] ELSE default
With(f, x, v) == [y \in DOMAIN f \cup {x} |-> IF y = x THEN v ELSE f[y]]
Without(f, S) == [x \in DOMAIN f \ S |-> f[x]]

LeafFields   == {"component", "settings", "array"}
PlacedFields == LeafFields \cup {"netlist_id", "cell", "placement"}

(* A netlist_id that is no string is an error, never the lack of one.      *)
MutReferenceAny(d)  == {Optional(d, "netlist_id", NoCell)}
MutReferenceNull(d) == {IF Optional(d, "netlist_id", Null) = Null THEN NoCell ELSE d.netlist_id}
ReferenceOf(d) == {Optional(d, "netlist_id", NoCell)} \cap (Cell \cup {NoCell})

InstancesOf(d) ==
  {[component |-> d.component,
    settings  |-> Optional(d, "settings", Null),
    array     |-> Optional(d, "array", NoArray),
    ref       |-> ref] : ref \in ReferenceOf(d)}

ReadInstance(d) ==
  IF "component" \in DOMAIN d /\ DOMAIN d \subseteq LeafFields \cup {"netlist_id"}
  THEN InstancesOf(d) ELSE {}

(* from_json of a class: the instance it yields must be of that class.     *)
Variant(inst) == IF inst.ref = NoCell THEN "LeafNetlistInstance" ELSE "RefNetlistInstance"
ReadAs(class, d) == {inst \in ReadInstance(d) : class \in {Variant(inst), "NetlistInstance"}}

(* What is not there is not written; the reference goes with the leaf.     *)
MutSkipped(inst) == {"netlist_id"} \cup {f \in {"array"} : inst.array = NoArray}
Skipped(inst) == {f \in {"netlist_id"} : inst.ref = NoCell}
                   \cup {f \in {"array"} : inst.array = NoArray}
Given(inst) == IF inst.settings = Null THEN EmptyObject ELSE inst.settings
WriteInstance(inst) ==
  Without([component |-> inst.component, array |-> inst.array, netlist_id |-> inst.ref,
           settings  |-> Given(inst)],
          Skipped(inst))

ReadPlacedInstance(d) ==
  IF {"component", "placement"} \subseteq DOMAIN d /\ DOMAIN d \subseteq PlacedFields
  THEN {[inst  |-> inst,
         extra |-> [cell |-> Optional(d, "cell", NoCell), at |-> d.placement]] : inst \in InstancesOf(d)}
  ELSE {}

WritePlacedInstance(inst, extra) ==
  With(With(WriteInstance(inst), "cell", extra.cell), "placement", extra.at)
--------------------------------------------------------------------------------
(* Nets: a bare list, or an object with the members and perhaps a name.    *)
ReadNet(d) ==
  IF DOMAIN d = {"list"} THEN {[members |-> d.list, name |-> NoName]}
  ELSE IF "members" \in DOMAIN d /\ DOMAIN d \subseteq {"members", "name"}
  THEN LET name == Optional(d, "name", Null)
       IN  {[members |-> d.members, name |-> IF name = Null THEN NoName ELSE name]}
  ELSE {}

WriteNet(net) ==
  IF net.name = NoName THEN [list |-> net.members]
  ELSE [name |-> net.name, members |-> net.members]

(* Netlists.  A map or a list is read when all of its elements are.        *)
All(read) ==
  IF \A x \in DOMAIN read : read[x] # {}
  THEN {[x \in DOMAIN read |-> CHOOSE v \in read[x] : TRUE]} ELSE {}
ReadNets(list) == All([j \in DOMAIN list |-> ReadNet(list[j])])

ReadNetlist(d) ==
  {[instances |-> insts, extras |-> << >>, nets |-> nets, ports |-> d.ports] :
     insts \in All([i \in DOMAIN d.instances |-> ReadInstance(d.instances[i])]),
     nets \in ReadNets(d.nets)}

ReadPlacedNetlist(d) ==
  {[instances |-> [i \in DOMAIN both |-> both[i].inst],
    extras    |-> [i \in DOMAIN both |-> both[i].extra],
    nets |-> nets, ports |-> d.ports] :
     both \in All([i \in DOMAIN d.instances |-> ReadPlacedInstance(d.instances[i])]),
     nets \in ReadNets(d.nets)}

WriteNetlist(instances, nets, ports) ==
  [instances |-> [i \in DOMAIN instances |-> WriteInstance(instances[i])],
   nets |-> [j \in DOMAIN nets |-> WriteNet(nets[j])], ports |-> ports]

(* An instance without attributes is written with the default ones.        *)
Shown(extras, i) == Optional(extras, i, Default)
WritePlacedNetlist(instances, extras, nets, ports) ==
  [instances |-> [i \in DOMAIN instances |-> WritePlacedInstance(instances[i], Shown(extras, i))],
   nets |-> [j \in DOMAIN nets |-> WriteNet(nets[j])], ports |-> ports]
================================================================================
