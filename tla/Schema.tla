--------------------------------- MODULE Schema ---------------------------------
(***************************************************************************)
(* The three forms of a circuit and the conversions between them: the      *)
(* netlist, the document (TopLevelModule, one module of it) and the        *)
(* protobuf wire.  A session starts from a netlist or a document and       *)
(* converts what it has, in any order and as often as it likes.            *)
(*                                                                         *)
(* References in a document are text.  A text is what it spells, and       *)
(* whether white space surrounds its parts; nonsense stays nonsense (`,o`, *)
(* which the wire makes a pin, is left out).  Names are written as they    *)
(* are: with a delimiter or white space at an edge, they spell something   *)
(* else.  Lists of nets are functions from labels, for their order means   *)
(* nothing; members of a net are in the order written (the core's sorting  *)
(* is left out).  What no conversion interprets or loses (component, info, *)
(* placements, routes, other settings) is left out.                        *)
(* Names differ from those of Bindings: one module proves about both.      *)
(***************************************************************************)
EXTENDS Integers, Sequences, FiniteSets, SequencesExt

CONSTANTS
  Netlists,    \* the netlists a session may start from
  Documents,   \* the documents a session may start from
  Odd          \* the text of each member that its text does not spell

(* What a text spells: a pin, a port of an instance, of an array element   *)
(* `inst<a.b>` (at = <<a, b>>) or `inst[n]` (at = <<n>>), or nonsense:     *)
(* its parts before and after the first comma.                             *)
Bad(parts) == [bad |-> parts]
IsBad(to)  == "bad" \in DOMAIN to
Pin(p)    == [pin |-> p]
IsPin(m)  == "pin" \in DOMAIN m
Element(i, p, at) == [inst |-> i, port |-> p, at |-> at]
Plain(to) == [to |-> to, spaced |-> FALSE]
Tidy(t)   == Plain(t.to)

(* unparse: a reference as text; nothing in a name is escaped.             *)
Unparse(m) == IF m \in DOMAIN Odd THEN Odd[m] ELSE Plain(m)

(* array is << >> or <<na, nb>>; size is the setting array_size, if any    *)
(* (<<0>> stands for any but a positive integer).  An instance of a        *)
(* netlist also has `beyond`, what no document has a place for: kcl,       *)
(* netlist_id and settings that are no mapping (<< >>: a leaf with none).  *)
Dims(i) == IF i.array # << >> THEN i.array
           ELSE IF i.size # << >> THEN <<i.size[1], 1>> ELSE << >>
--------------------------------------------------------------------------------
(* What is well formed: an instance, a reference and its text, a list.     *)
IsFiniteMap(f) == IsFiniteSet(DOMAIN f) /\ f = [x \in DOMAIN f |-> f[x]]
IsList(n) == Len(n) \in Nat /\ n = [i \in 1 .. Len(n) |-> n[i]]
IsInst(i)  == /\ i.array \in Seq(Int) /\ Len(i.array) \in {0, 2}
              /\ i.size \in Seq(Int) /\ Len(i.size) \in {0, 1}
IsRef(m)   == IF IsPin(m) THEN m = Pin(m.pin)
              ELSE m = Element(m.inst, m.port, m.at) /\ m.at \in Seq(Int) /\ Len(m.at) \in {0, 1, 2}
IsText(t)  == /\ t = [to |-> t.to, spaced |-> t.spaced] /\ t.spaced \in BOOLEAN
              /\ IF IsBad(t.to) THEN t.to = Bad(t.to.bad) ELSE IsRef(t.to)

(* A member of a net of the core: it has two indices or none, and (1, 1),  *)
(* the first element, is written without.                                  *)
IsMember(m) == IsRef(m) /\ (~ IsPin(m) => Len(m.at) # 1 /\ m.at # <<1, 1>>)

AreInstances(f) == IsFiniteMap(f) /\ \A i \in DOMAIN f : IsInst(f[i])
AreLists(f)     == IsFiniteMap(f) /\ \A l \in DOMAIN f : IsList(f[l])

IsNetlist(nl) ==
  /\ nl = [instances |-> nl.instances, pins |-> nl.pins, nets |-> nl.nets]
  /\ AreInstances(nl.instances) /\ IsFiniteSet(nl.pins) /\ AreLists(nl.nets)
  /\ \A i \in DOMAIN nl.instances : LET inst == nl.instances[i]
       IN  inst = [array |-> inst.array, size |-> inst.size, beyond |-> inst.beyond]
  /\ \A l \in DOMAIN nl.nets : \A i \in DOMAIN nl.nets[l] : IsMember(nl.nets[l][i])
IsModule(d) ==
  /\ d = [instances |-> d.instances, ports |-> d.ports, connections |-> d.connections, nets |-> d.nets]
  /\ AreInstances(d.instances) /\ AreLists(d.nets)
  /\ \A i \in DOMAIN d.instances : LET inst == d.instances[i]
       IN  inst = [array |-> inst.array, size |-> inst.size]
  /\ \A l \in DOMAIN d.nets : \A i \in DOMAIN d.nets[l] : IsText(d.nets[l][i])
  /\ IsFiniteMap(d.ports) /\ \A p \in DOMAIN d.ports : IsText(d.ports[p])
  /\ IsFiniteMap(d.connections) /\ \A s \in DOMAIN d.connections : IsText(s) /\ IsText(d.connections[s])

(* create_net: the member exists; an element has an upper bound only.      *)
Exists(m, instances, pins) ==
  IF IsPin(m) THEN m.pin \in pins
  ELSE /\ m.inst \in DOMAIN instances
       /\ m.at # << >> => /\ instances[m.inst].array # << >>
                          /\ m.at[1] <= instances[m.inst].array[1]
                          /\ m.at[2] <= instances[m.inst].array[2]

(* A netlist the core builds: array dimensions are positive, members exist.*)
Buildable(nl) ==
  /\ \A i \in DOMAIN nl.instances : \A d \in ToSet(nl.instances[i].array) : d >= 1
  /\ \A l \in DOMAIN nl.nets : \A m \in ToSet(nl.nets[l]) : Exists(m, nl.instances, nl.pins)

(* Nets are labelled apart from those that conversions make.               *)
ASSUME SchemaAssumption ==
  /\ \A nl \in Netlists : IsNetlist(nl) /\ Buildable(nl)
  /\ \A d \in Documents : IsModule(d)
  /\ \A c \in Netlists \cup Documents : \A l \in DOMAIN c.nets : l = <<"net", l[2]>>
  /\ \A m \in DOMAIN Odd : IsMember(m) /\ IsText(Odd[m]) /\ Odd[m] # Plain(m)
--------------------------------------------------------------------------------
VARIABLES
  form,        \* "netlist", "document", "wire" or "failed"
  value,       \* the circuit in that form
  origin,      \* the form and the value the session started from (history)
  sent         \* the document the wire was encoded from, if any (history)

circuit == <<form, value, origin, sent>>
--------------------------------------------------------------------------------
(* document -> netlist                                                     *)
Parses(t) ==
  /\ ~ IsBad(t.to)
  /\ ~ IsPin(t.to) => \A x \in ToSet(t.to.at) : x >= IF Len(t.to.at) = 1 THEN 0 ELSE 1
Indices(at)  == IF Len(at) = 1 THEN <<at[1] + 1, 1>> ELSE at
Simplest(m) == IF ~ IsPin(m) /\ m.at = <<1, 1>> THEN [m EXCEPT !.at = << >>] ELSE m
ParsePortRef(t) ==
  Simplest(IF IsPin(t.to) THEN t.to ELSE [t.to EXCEPT !.at = Indices(@)])

(* The nets a document asks for: its connections, its nets, and its ports  *)
(* but for those whose text is their name.  A port's own name is not       *)
(* parsed: Plain(Pin(p)) is that pin, however its name reads.              *)
Aliased(doc)   == {p \in DOMAIN doc.ports : doc.ports[p] # Unparse(Pin(p))}
Requested(doc) ==
  [l \in {<<"conn", s>> : s \in DOMAIN doc.connections} \cup DOMAIN doc.nets
           \cup {<<"port", p>> : p \in Aliased(doc)} |->
     IF l \in DOMAIN doc.nets THEN doc.nets[l]
     ELSE IF l[1] = "conn" THEN <<l[2], doc.connections[l[2]]>>
     ELSE <<Plain(Pin(l[2])), doc.ports[l[2]]>>]

(* Every instance becomes a leaf, with an empty kcl.                       *)
Shaped(doc) ==
  [i \in DOMAIN doc.instances |->
     [array |-> Dims(doc.instances[i]), size |-> doc.instances[i].size, beyond |-> << >>]]

MutElaborates(doc) ==                   \* members are not looked up
  /\ \A i \in DOMAIN doc.instances : \A d \in ToSet(Dims(doc.instances[i])) : d >= 1
  /\ \A l \in DOMAIN Requested(doc) : \A t \in ToSet(Requested(doc)[l]) : Parses(t)
Elaborates(doc) ==
  /\ \A i \in DOMAIN doc.instances : \A d \in ToSet(Dims(doc.instances[i])) : d >= 1
  /\ \A l \in DOMAIN Requested(doc) : \A t \in ToSet(Requested(doc)[l]) :
       Parses(t) /\ Exists(ParsePortRef(t), Shaped(doc), DOMAIN doc.ports)

ToNetlist(doc) ==
  [instances |-> Shaped(doc),
   pins      |-> DOMAIN doc.ports,
   nets      |-> [l \in DOMAIN Requested(doc) |->
                    [i \in DOMAIN Requested(doc)[l] |-> ParsePortRef(Requested(doc)[l][i])]]]

Elaborate ==
  /\ form = "document" /\ Elaborates(value)
  /\ form' = "netlist" /\ value' = ToNetlist(value) /\ sent' = << >>
  /\ UNCHANGED origin

Fail ==
  /\ form = "document" /\ ~ Elaborates(value)
  /\ form' = "failed" /\ value' = << >> /\ sent' = << >>
  /\ UNCHANGED origin
--------------------------------------------------------------------------------
(* netlist -> document                                                     *)
PinsIn(net) == {i \in DOMAIN net : IsPin(net[i])}

MutPrivate(net) == Cardinality(PinsIn(net)) = 1 /\ Len(net) > 1
Private(net)    == Cardinality(PinsIn(net)) = 1 /\ Len(net) = 2

PrivateNets(nl) == {l \in DOMAIN nl.nets : Private(nl.nets[l])}
ThePin(net)     == net[CHOOSE i \in DOMAIN net : IsPin(net[i])].pin
TheOther(net)   == net[CHOOSE i \in DOMAIN net : ~ IsPin(net[i])]
Owners(nl)      == {ThePin(nl.nets[l]) : l \in PrivateNets(nl)}

(* The net of an alias that stays a net, apart from a new entry's net.     *)
Label(l) == IF l[1] = "port" THEN <<"alias", l[2]>> ELSE l
Others(nl) ==
  LET rest == (DOMAIN nl.nets) \ PrivateNets(nl)
  IN  [k \in {Label(l) : l \in rest} |->
         LET net == nl.nets[CHOOSE l \in rest : Label(l) = k]
         IN  [i \in DOMAIN net |-> Unparse(net[i])]]

Portable(nl) ==
  [i \in DOMAIN nl.instances |-> [array |-> nl.instances[i].array, size |-> nl.instances[i].size]]

(* A pin's entry is its private net; the last one written stays.           *)
Recover ==
  /\ form = "netlist"
  /\ \E last \in [Owners(value) -> PrivateNets(value)] :
       /\ \A p \in Owners(value) : ThePin(value.nets[last[p]]) = p
       /\ value' = [instances   |-> Portable(value),
                    ports       |-> [p \in value.pins |->
                       Unparse(IF p \in Owners(value) THEN TheOther(value.nets[last[p]]) ELSE Pin(p))],
                    connections |-> << >>,
                    nets        |-> Others(value)]
  /\ form' = "document"
  /\ UNCHANGED <<origin, sent>>
--------------------------------------------------------------------------------
(* document <-> wire                                                       *)
Connection(kind, s, t) == [kind |-> kind, source |-> s.to, target |-> t.to]
Windows(list) == [i \in 1 .. Len(list) - 1 |-> <<list[i].to, list[i + 1].to>>]

MutExact(list) == IF Len(list) = 1 THEN << >> ELSE <<list>>
Exact(list)    == <<list>>

ToWire(doc) ==
  [instances   |-> doc.instances,
   terminals   |-> DOMAIN doc.ports,
   connections |-> {Connection("conn", s, doc.connections[s]) : s \in DOMAIN doc.connections}
                     \cup {Connection("port", Unparse(Pin(p)), doc.ports[p]) : p \in DOMAIN doc.ports},
   buses       |-> [l \in DOMAIN doc.nets |-> [members |-> Exact(doc.nets[l]),
                                               pairs   |-> Windows(doc.nets[l])]]]

Encode ==
  /\ form = "document"
  /\ form' = "wire" /\ value' = ToWire(value) /\ sent' = <<value>>
  /\ UNCHANGED origin

(* Another producer writes the pairs and not the reserved property.        *)
Foreign ==
  /\ form = "wire"
  /\ \A l \in DOMAIN value.buses :
       LET pairs == value.buses[l].pairs
       IN  pairs # << >> /\ \A i \in DOMAIN pairs : pairs[i][1] # pairs[i][2]
  /\ value' = [value EXCEPT !.buses = [l \in DOMAIN @ |-> [@[l] EXCEPT !.members = << >>]]]
  /\ UNCHANGED <<form, origin, sent>>

PushNew(list, to) ==
  IF list # << >> /\ list[Len(list)] = Plain(to) THEN list ELSE Append(list, Plain(to))
Chained(pairs) ==
  LET after[k \in 0 .. Len(pairs)] ==
        IF k = 0 THEN << >> ELSE PushNew(PushNew(after[k - 1], pairs[k][1]), pairs[k][2])
  IN  after[Len(pairs)]
FromBus(bus) == IF bus.members # << >> THEN bus.members[1] ELSE Chained(bus.pairs)

(* Connections become maps: by their source, those of ports by the part    *)
(* of it after the first comma, which is the port's name if it has none.   *)
(* Of those with the same key the last one stays.                          *)
TerminalName(to) == IF IsBad(to) THEN to.bad[2] ELSE IF IsPin(to) THEN to.pin ELSE to.port
OfKind(kind) == {c \in value.connections : c.kind = kind}
Sources      == {c.source : c \in OfKind("conn")}
Names        == {TerminalName(c.source) : c \in OfKind("port")}
Targets      == {c.target : c \in value.connections}
Decode ==
  /\ form = "wire"
  /\ \E last \in [Sources -> Targets] :
       /\ \A to \in Sources : \E c \in OfKind("conn") : c.source = to /\ c.target = last[to]
       /\ \E entry \in [Names -> Targets] :
            /\ \A p \in Names : \E c \in OfKind("port") : TerminalName(c.source) = p /\ c.target = entry[p]
            /\ value' = [instances   |-> value.instances,
                         ports       |-> [p \in value.terminals \cup Names |->
                            IF p \in Names THEN Plain(entry[p]) ELSE Unparse(Pin(p))],
                         connections |-> [t \in {Plain(to) : to \in Sources} |-> Plain(last[t.to])],
                         nets        |-> [l \in DOMAIN value.buses |-> FromBus(value.buses[l])]]
  /\ form' = "document"
  /\ UNCHANGED <<origin, sent>>

Begin ==
  /\ \/ form = "netlist"  /\ value \in Netlists
     \/ form = "document" /\ value \in Documents
  /\ origin = <<form, value>>
  /\ sent = << >>

Convert == Elaborate \/ Fail \/ Recover \/ Encode \/ Foreign \/ Decode

Conversions == Begin /\ [][Convert]_circuit
--------------------------------------------------------------------------------
(* The forms are well formed, and a netlist is one the core would build,   *)
(* whatever documents and wires it came through.                           *)
CircuitOK ==
  /\ form \in {"netlist", "document", "wire", "failed"}
  /\ form = "netlist" => IsNetlist(value) /\ Buildable(value)
  /\ form = "document" => IsModule(value)
  /\ IF form = "wire" THEN sent # << >> ELSE sent # << >> => form = "document"

(* The text of a document that the wire does not keep: white space.  It    *)
(* can make two sources, or a port and its own name, the same.             *)
Clear(doc) ==
  /\ \A s, t \in DOMAIN doc.connections : Tidy(s) = Tidy(t) => s = t
  /\ \A p \in DOMAIN doc.ports : Tidy(doc.ports[p]) = Plain(Pin(p)) => doc.ports[p] = Plain(Pin(p))

Alike(a, b) == /\ Len(a) = Len(b)
               /\ \A m \in ToSet(a) \cup ToSet(b) :
                    Cardinality({i \in DOMAIN a : a[i] = m}) = Cardinality({i \in DOMAIN b : b[i] = m})
Copies(net, nl) == Cardinality({l \in DOMAIN nl.nets : Alike(nl.nets[l], net)})

(* Every name survives being written: no pin of the netlist and no member  *)
(* of its nets reads as something else.                                    *)
Legible(nl) == /\ \A p \in nl.pins : Pin(p) \notin DOMAIN Odd
               /\ \A l \in DOMAIN nl.nets : \A m \in ToSet(nl.nets[l]) : m \notin DOMAIN Odd

(* A netlist whose names survive being written goes through documents and  *)
(* wires and back, any number of times, with its pins and nets, but for    *)
(* this: of the nets that join one pin to one instance port, each pin      *)
(* keeps one.  Its instances keep their sizes and become leaves, without   *)
(* kcl, netlist_id and settings that are no mapping; one with the setting  *)
(* array_size becomes an array.  Nothing is refused but an element the     *)
(* text form has no index for, and an array_size that is not positive.     *)
Start == IF origin[1] = "netlist" THEN origin[2] ELSE ToNetlist(origin[2])
Sound == /\ origin[1] = "document" => Clear(origin[2]) /\ Elaborates(origin[2])
         /\ Legible(Start)
KeptOf(p, nl) == {l \in PrivateNets(nl) : ThePin(nl.nets[l]) = p}
Keeps(a, b) ==
  /\ b.instances \in {a.instances, Shaped(a)} /\ a.pins = b.pins
  /\ \A l \in (DOMAIN a.nets) \ PrivateNets(a) : Copies(a.nets[l], a) = Copies(a.nets[l], b)
  /\ \A p \in a.pins : KeptOf(p, a) # {} =>
       \E l \in KeptOf(p, a), k \in KeptOf(p, b) : Alike(a.nets[l], b.nets[k])
  /\ \A l \in DOMAIN b.nets : Copies(b.nets[l], a) >= Copies(b.nets[l], b)
Unwritable(nl) ==
  \/ \E l \in DOMAIN nl.nets : \E m \in ToSet(nl.nets[l]) : ~ IsPin(m) /\ \E x \in ToSet(m.at) : x < 1
  \/ \E i \in DOMAIN nl.instances : \E d \in ToSet(Dims(nl.instances[i])) : d < 1
ConnectivityKept ==
  Sound => /\ form = "netlist" => Keeps(Start, value)
           /\ form = "failed" => Unwritable(Start)

(* What is decoded is what was encoded, but for white space and ports with *)
(* a comma or white space in their names, also from another producer's     *)
(* wire.                                                                   *)
Tidied(doc) ==
  /\ \A s \in DOMAIN doc.connections : ~ s.spaced /\ ~ doc.connections[s].spaced
  /\ \A p \in DOMAIN doc.ports : ~ doc.ports[p].spaced /\ Pin(p) \notin DOMAIN Odd
WireExact ==
  form = "document" /\ sent # << >> =>
    /\ Tidied(sent[1]) => [value EXCEPT !.nets = << >>] = [sent[1] EXCEPT !.nets = << >>]
    /\ DOMAIN value.nets = DOMAIN sent[1].nets
    /\ \A l \in DOMAIN value.nets :
         /\ Len(value.nets[l]) = Len(sent[1].nets[l])
         /\ \A i \in DOMAIN value.nets[l] : value.nets[l][i].to = sent[1].nets[l][i].to
================================================================================
