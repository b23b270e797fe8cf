-------------------------------- MODULE Bindings --------------------------------
(***************************************************************************)
(* A Python session on one netlist object and one `Net` object.  The       *)
(* netlist is a `Netlist` or a `PlacedNetlist`: a subclass that keeps the  *)
(* attributes of the instances beside the netlist of its base class, whose *)
(* methods can be called on it too (`Netlist.create_inst(placed, ...)`).   *)
(* Each call is a step; one that raises is none, but for `Net.extend`,     *)
(* which keeps what it took before.  A call that returns a new netlist     *)
(* replaces the old one.  Getters return copies, so a `Net` taken from the *)
(* netlist is from then on the caller's.                                   *)
(***************************************************************************)
EXTENDS WireFormats, SequencesExt

CONSTANTS
  Inst,              \* names of instances
  Callers,           \* what a caller passes: records of sets of arguments
  NoMember,          \* an object that is no member of a net
  MaxNets, MaxMembers, MaxLength  \* bounds: nets and members of the netlist when
                     \* a net is added, members of the Net object when it grows

(* What a value says when it is given at all.                              *)
Typed(component, settings, array) ==
  /\ component \in Cell
  /\ IsNumber(settings) => settings \in Number
  /\ array # NoArray => array \in (Nat \ {0}) \X (Nat \ {0})
IsInstance(inst) ==
  /\ inst = [component |-> inst.component, settings |-> inst.settings,
             array |-> inst.array, ref |-> inst.ref]
  /\ Typed(inst.component, inst.settings, inst.array)
  /\ inst.ref \in Cell \cup {NoCell}

(* A document that names a placed cell names the one of its component.     *)
IsDocument(d) ==
  "component" \in DOMAIN d =>
    /\ Typed(d.component, Optional(d, "settings", Null), Optional(d, "array", NoArray))
    /\ "netlist_id" \in DOMAIN d => d.netlist_id # NoCell
    /\ "cell" \in DOMAIN d => d.cell = d.component

(* A net of a document: whatever lists it has are of members.              *)
IsNetDocument(d) == \A field \in {"list", "members"} \cap DOMAIN d : d[field] \in Seq(Member)

ASSUME CallersAssumption ==
  /\ Cell # {}
  /\ \A caller \in Callers :
       /\ \A inst \in caller.insts : IsInstance(inst)
       /\ caller.names \subseteq Inst /\ caller.removals \subseteq Seq(Inst)
       /\ caller.lists \subseteq Seq(Member) /\ Null \notin caller.nets
       /\ caller.items \subseteq Seq({NoMember} \cup Member)
       /\ \A d \in caller.docs :
            /\ DOMAIN d.instances \subseteq Inst /\ \A i \in DOMAIN d.instances : IsDocument(d.instances[i])
            /\ Len(d.nets) \in Nat /\ DOMAIN d.nets = 1 .. Len(d.nets)
            /\ \A j \in DOMAIN d.nets : IsNetDocument(d.nets[j])

VARIABLES
  placed,            \* whether the netlist is a PlacedNetlist
  instances,         \* the base layer: instances, nets and declared ports
  nets, ports,
  extras,            \* the subclass layer: attributes per instance name
  net,               \* the Net object
  use,               \* the caller (fixed)
  behind             \* the names edited through the base class while the
                     \* netlist was placed, and not since (history)

layers == <<placed, instances, nets, ports, extras, behind>>
vars   == <<layers, net, use>>

Here == CHOOSE p \in use.places : TRUE

IsNet(n)     == /\ n = [members |-> n.members, name |-> n.name]
                /\ n.members \in Seq(Member) /\ n.name # Null
IsNets(list) == /\ Len(list) \in Nat /\ list = [j \in 1 .. Len(list) |-> list[j]]
                /\ \A j \in 1 .. Len(list) : IsNet(list[j])
InstancesTyped ==
  /\ placed \in BOOLEAN
  /\ DOMAIN instances \subseteq Inst /\ DOMAIN extras \subseteq Inst /\ behind \subseteq Inst
  /\ \A i \in DOMAIN instances : IsInstance(instances[i])
  /\ \A i \in DOMAIN extras : /\ extras[i] = [cell |-> extras[i].cell, at |-> extras[i].at]
                             /\ extras[i].cell \in Cell \cup {NoCell}
TypeOK == InstancesTyped /\ IsNets(nets) /\ IsNet(net)

Init ==
  /\ use \in Callers
  /\ placed = FALSE /\ instances = << >> /\ nets = << >> /\ ports = {} /\ extras = << >>
  /\ net = [members |-> << >>, name |-> NoName]
  /\ behind = {}

Within(f, S) == [i \in DOMAIN f \cap S |-> f[i]]
--------------------------------------------------------------------------------
(* Instances.  A caller that gives a cell gives the one it placed for the  *)
(* component.  base: the call is made through the base class.              *)
MutAttach(i, x, base) == extras
Attach(i, x, base)    == IF placed /\ ~ base THEN With(extras, i, x) ELSE extras

CreateInst(i, inst, attributed, base) ==
  /\ instances' = With(instances, i, inst)
  /\ extras' = Attach(i, IF attributed THEN [cell |-> inst.component, at |-> Here] ELSE Default, base)
  /\ behind' = IF ~ placed THEN {} ELSE IF base THEN behind \cup {i} ELSE behind \ {i}
  /\ UNCHANGED <<placed, nets, ports, net, use>>

On(m, i)       == m[1] # 0 /\ m[2] = i
TouchesNet(n, i) == \E m \in ToSet(n.members) : On(m, i)

(* One pass: the nets on i become one, without their members on i.         *)
RemoveFrom(list, i) ==
  LET touching == Selected(list, LAMBDA n : TouchesNet(n, i))
      kept     == Selected(FlattenSeq([x \in DOMAIN touching |-> touching[x].members]),
                           LAMBDA m : ~ On(m, i))
      named    == Selected(touching, LAMBDA n : n.name # NoName)
      merged   == [members |-> SortMembers(kept),
                   name    |-> IF named = << >> THEN NoName ELSE Head(named).name]
  IN  Selected(list, LAMBDA n : ~ TouchesNet(n, i))
      \o IF kept = << >> THEN << >> ELSE <<merged>>

RemoveAll(list, names) ==
  LET after[k \in 0 .. Len(names)] ==
        IF k = 0 THEN list
        ELSE IF names[k] \in DOMAIN instances THEN RemoveFrom(after[k - 1], names[k]) ELSE after[k - 1]
  IN  after[Len(names)]

Forget(names, base) == IF placed /\ ~ base THEN Without(extras, ToSet(names)) ELSE extras

(* remove_instances, and flatten_instances, its deprecated alias.          *)
RemoveInstances(names, base) ==
  /\ instances' = Without(instances, ToSet(names))
  /\ nets' = RemoveAll(nets, names)
  /\ extras' = Forget(names, base)
  /\ behind' = IF ~ placed THEN {} ELSE IF base THEN behind \cup ToSet(names)
                                        ELSE behind \ ToSet(names)
  /\ UNCHANGED <<placed, ports, net, use>>

CreatePort(p) ==
  /\ ports' = ports \cup {p}
  /\ UNCHANGED <<placed, instances, nets, extras, behind, net, use>>

(* PlacedNetlist.from_netlist: places for the names in P, cells for those  *)
(* in Q; what is given for names without an instance is dropped.           *)
Retained(x) == Within(x, DOMAIN instances)

CellFor(i) == IF i \in DOMAIN instances THEN instances[i].component ELSE CHOOSE c \in Cell : TRUE
MergeExtras(P, Q) ==
  [i \in P \cup Q |-> [at   |-> IF i \in P THEN Here ELSE Origin,
                       cell |-> IF i \in Q THEN CellFor(i) ELSE NoCell]]

FromNetlist(P, Q) ==
  /\ placed' = TRUE
  /\ extras' = Retained(MergeExtras(P, Q))
  /\ behind' = {}
  /\ UNCHANGED <<instances, nets, ports, net, use>>
--------------------------------------------------------------------------------
(* Nets of the netlist.                                                    *)
Canonical(m) == IF m[1] = 2 /\ m[4] = 1 /\ m[5] = 1 THEN <<1, m[2], m[3]>> ELSE m
Resolves(m) ==
  IF m[1] = 0 THEN m[2] \in ports
  ELSE /\ m[2] \in DOMAIN instances
       /\ Canonical(m)[1] = 2 => LET array == instances[m[2]].array
                                 IN  array # NoArray /\ m[4] <= array[1] /\ m[5] <= array[2]

Pushed(list) == SortMembers([i \in DOMAIN list |-> Canonical(list[i])])

Size == Len(FlattenSeq([j \in DOMAIN nets |-> nets[j].members]))
AddNet(list, name) ==
  /\ Len(nets) < MaxNets /\ Size + Len(list) <= MaxMembers
  /\ \A i \in DOMAIN list : Resolves(list[i])
  /\ nets' = Append(nets, [members |-> Pushed(list), name |-> name])
  /\ UNCHANGED <<placed, instances, ports, extras, behind, net, use>>

(* Sorting is stable and ignores the names of nets.                        *)
SortNets(list) ==
  Sorted([j \in DOMAIN list |-> [list[j] EXCEPT !.members = SortMembers(@)]],
         LAMBDA a, b : ListBefore(a.members, b.members))

SortNetlist ==
  /\ nets' = SortNets(nets)
  /\ UNCHANGED <<placed, instances, ports, extras, behind, net, use>>

(* normalize, without equivalent ports: a plain Netlist, whatever it was.  *)
NormalizeNetlist ==
  /\ placed' = FALSE /\ extras' = << >> /\ behind' = {}
  /\ instances' = [i \in DOMAIN instances |->
                     With(instances[i], "settings", NormalizeValue(instances[i].settings))]
  /\ nets' = SortNets(nets)
  /\ UNCHANGED <<ports, net, use>>

(* flatten({}, instance_cell_map={}): nothing to expand, but a new object  *)
(* of the class the call is made through.                                  *)
FlattenPlain ==
  /\ placed' = FALSE /\ extras' = << >> /\ behind' = {}
FlattenPlaced ==
  /\ placed /\ UNCHANGED placed
  /\ extras' = Retained(extras)
  /\ behind' = behind \cap DOMAIN instances
FlattenNothing ==
  /\ \A i \in DOMAIN instances : instances[i].ref = NoCell
  /\ nets' = SortNets(nets)
  /\ FlattenPlain \/ FlattenPlaced
  /\ UNCHANGED <<instances, ports, net, use>>
--------------------------------------------------------------------------------
(* JSON.  Reload is from_json of the object's own to_json; a document of   *)
(* another program may be read as either class.                            *)
Become(o, asPlaced) ==
  /\ placed' = asPlaced
  /\ instances' = o.instances /\ extras' = o.extras /\ nets' = o.nets /\ ports' = o.ports
  /\ UNCHANGED <<net, use>>

Read(d, asPlaced) == IF asPlaced THEN ReadPlacedNetlist(d) ELSE ReadNetlist(d)
Written == IF placed THEN WritePlacedNetlist(instances, extras, nets, ports)
                     ELSE WriteNetlist(instances, nets, ports)

Reload ==
  /\ \E o \in Read(Written, placed) : Become(o, placed)
  /\ behind' = behind \cap DOMAIN instances

Load(d, asPlaced) ==
  /\ \E o \in Read(d, asPlaced) : Become(o, asPlaced)
  /\ behind' = {}
--------------------------------------------------------------------------------
(* The Net object.                                                         *)
SetNet(members, name) ==
  /\ Len(members) <= MaxLength
  /\ net' = [members |-> members, name |-> name]
  /\ UNCHANGED <<layers, use>>

NewNet(list, name) == SetNet(SortMembers(list), name)
GetNet(j)          == SetNet(nets[j].members, nets[j].name)
Rename(name)       == SetNet(net.members, name)
SortNet            == SetNet(SortMembers(net.members), net.name)
ReloadNet          == \E n \in ReadNet(WriteNet(net)) : SetNet(SortMembers(n.members), n.name)
AppendTo(m)        == SetNet(SortMembers(Append(net.members, m)), net.name)

Taken(items) ==                         \* up to the first that is no member
  LET bad == {i \in DOMAIN items : items[i] = NoMember}
  IN  IF bad = {} THEN items
      ELSE SubSeq(items, 1, (CHOOSE i \in bad : \A j \in bad : i <= j) - 1)
Extend(items) ==
  LET grown == net.members \o Taken(items)
  IN  SetNet(IF Taken(items) = items THEN SortMembers(grown) ELSE grown, net.name)

Editing ==
  \/ \E i \in Inst, inst \in use.insts, attributed, base \in BOOLEAN :
        CreateInst(i, inst, attributed, base)
  \/ \E names \in use.removals, base \in BOOLEAN : RemoveInstances(names, base)
  \/ \E p \in use.ports : CreatePort(p)
  \/ \E P, Q \in SUBSET use.names : FromNetlist(P, Q)
  \/ \E list \in use.lists, name \in use.nets : AddNet(list, name)
  \/ AddNet(net.members, net.name)
  \/ SortNetlist
  \/ NormalizeNetlist
  \/ FlattenNothing
  \/ Reload
  \/ \E d \in use.docs, asPlaced \in BOOLEAN : Load(d, asPlaced)
OnNet ==
  \/ \E list \in use.lists, name \in use.nets : NewNet(list, name)
  \/ \E j \in DOMAIN nets : GetNet(j)
  \/ \E name \in use.nets : Rename(name)
  \/ SortNet
  \/ ReloadNet
  \/ \E list \in use.lists : \E m \in ToSet(list) : AppendTo(m)
  \/ \E items \in use.items : Extend(items)
Next == Editing \/ OnNet

Spec == Init /\ [][Next]_vars
--------------------------------------------------------------------------------
(* The attributes a placed netlist shows for an instance are those of its  *)
(* component, and it has none for instances that are gone, unless the name *)
(* was last edited through the base class: replacing, upgrading, removing, *)
(* flattening, reading and writing never pair an instance with attributes  *)
(* of another one of the same name.                                        *)
AttributesFollow ==
  /\ DOMAIN extras \subseteq DOMAIN instances \cup behind
  /\ \A i \in DOMAIN instances \ behind :
        Shown(extras, i).cell \in {NoCell, instances[i].component}
  /\ ~ placed => extras = << >>

(* Whatever the session did, what to_json writes is read back as the same  *)
(* class with the same nets, ports, references, settings and arrays; null  *)
(* settings have become {}, and every instance has the attributes shown.   *)
Filled(inst) == With(inst, "settings", Given(inst))
ReloadKeeps ==
  Read(Written, placed) =
    {[instances |-> [i \in DOMAIN instances |-> Filled(instances[i])],
      extras    |-> IF placed THEN [i \in DOMAIN instances |-> Shown(extras, i)] ELSE << >>,
      nets |-> nets, ports |-> ports]}

(* No text loses what it says by being read as something simpler: neither  *)
(* flavour of netlist is read as the other, and an instance with a         *)
(* netlist_id is read with that reference or not at all, and not as a leaf.*)
NothingReadAsLess ==
  /\ instances # << >> => Read(Written, ~ placed) = {}
  /\ \A d \in use.docs : \A i \in DOMAIN d.instances :
       LET inst == d.instances[i]
       IN  /\ \A asPlaced \in BOOLEAN : \A o \in Read(d, asPlaced) :
                o.instances[i].ref = Optional(inst, "netlist_id", NoCell)
           /\ "netlist_id" \in DOMAIN inst => ReadAs("LeafNetlistInstance", inst) = {}

(* Normalizing settings keeps every number: a float that is no integer     *)
(* stays one, an integral one changes its type only.  The exceptions are   *)
(* the two powers of two that bound the integer types, which lose one.     *)
SettingsKeepValue ==
  \A i \in DOMAIN instances :
    LET v == instances[i].settings
        w == NormalizeValue(v)
    IN  IsNumber(v) =>
          /\ NormalizeValue(w) = w
          /\ IF v.type = "float" /\ v.num \in {2 * Top63, 4 * Top63} THEN w.num = v.num - 2
             ELSE w.num = v.num

(* Comparing the members of a net in Python, through whichever operand's   *)
(* class Python asks, tells the order the core sorts them by.              *)
PythonOrderAgrees ==
  \A m, n \in ToSet(net.members) :
    /\ PyLess(m, n) <=> Before(m, n)
    /\ PyEqual(m, n) <=> m = n

(* find_net_difference, of two lists of nets.                              *)
MutSameNet(a, b) == a = b
SameNet(a, b)    == a.members = b.members
Among(n, list)   == \E j \in DOMAIN list : SameNet(list[j], n)
Difference(own, reference) ==
  [missing |-> Selected(reference, LAMBDA n : ~ Among(n, own)),
   extra   |-> Selected(own, LAMBDA n : ~ Among(n, reference))]

(* Once both are sorted, a netlist does not differ from one with the same  *)
(* nets that was built in another order and without names.                 *)
Another(list) ==
  Reverse([j \in DOMAIN list |-> [members |-> Reverse(list[j].members), name |-> NoName]])
LvsSeesConnectivityOnly ==
  Difference(SortNets(nets), SortNets(Another(nets))) = [missing |-> << >>, extra |-> << >>]

(* Nets with the same members are equal.                                   *)
SameMembersEqual ==
  \A a, b \in {net} \cup ToSet(nets) :
    SortMembers(a.members) = SortMembers(b.members) => SameNet(a, b)
================================================================================
