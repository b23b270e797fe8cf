------------------------------- MODULE Adjacency -------------------------------
(***************************************************************************)
(* `get_optical_nets`: the ports of a cell and of its instances are put    *)
(* into buckets by snapped position and layer, candidate pairs from a      *)
(* bucket and its neighbours are compared by `check_connection`, and every *)
(* pair that passes becomes a net; the ports that are in no pair get a net *)
(* of their own.  A step visits one bucket; the buckets come in any order. *)
(*                                                                         *)
(* Positions are in units of a Grid-th of a database unit.  A port with an *)
(* integer transform is on the grid, where comparing exactly and comparing *)
(* with the tolerance are the same; so one comparison stands for both.     *)
(* Angles are degrees.  An array element is a port of its own.  Ports have *)
(* names: an empty name would not be looked up among those already used.   *)
(***************************************************************************)
EXTENDS Integers, FiniteSets

CONSTANTS
  CellPort,    \* the ports of the cell
  Element,     \* records: inst, port, ia, ib of the instances' ports
  Arrays,      \* the instances with dimensions
  PortTypes,   \* the port types asked for
  Grid,        \* units of position per database unit
  Layouts      \* records: name of each cell port, place of each port, wide

Port == CellPort \cup Element

ASSUME AdjacencyAssumption ==
  /\ IsFiniteSet(Port) /\ CellPort \cap Element = {}
  /\ \A e \in Element : e = [inst |-> e.inst, port |-> e.port, ia |-> e.ia, ib |-> e.ib]
  /\ \A e, f \in Element :    \* a plain instance is one element
       e.inst \notin Arrays /\ e.inst = f.inst /\ e.port = f.port => e = f
  /\ Grid \in Nat \ {0}
  /\ \A l \in Layouts :
       /\ DOMAIN l.name = CellPort /\ DOMAIN l.place = Port /\ l.wide \in BOOLEAN
       /\ \A p \in Port : l.place[p].x \in Nat /\ l.place[p].y \in Nat /\ l.place[p].angle \in 0 .. 359

VARIABLES
  layout,      \* the cell
  pc,          \* "collect", "cell", "inst", "open", "done" or "collision"
  todo,        \* the buckets the loop has not visited
  connected,   \* the keys of the ports some pair has connected
  nets         \* how often each net was appended

vars == <<layout, pc, todo, connected, nets>>

(* A plain instance's port, or an element of an array.                     *)
NetRef(p) ==
  IF p \in CellPort THEN [top |-> layout.name[p]]
  ELSE IF p.inst \in Arrays THEN p ELSE [inst |-> p.inst, port |-> p.port]
Key(p) == IF p \in CellPort THEN NetRef(p) ELSE p

AnyRef == {[top |-> n] : n \in UNION {{l.name[c] : c \in CellPort} : l \in Layouts}}
            \cup Element \cup {[inst |-> e.inst, port |-> e.port] : e \in Element}
Net    == {{r, s} : r, s \in AnyRef}
Refs(g) == {NetRef(p) : p \in g}

On(r) == {n \in Net : r \in n /\ nets[n] > 0}
Pairs == {n \in Net : Cardinality(n) = 2}

(* The keys are those of the ports that are on a pair.                     *)
TypeOK ==
  /\ layout \in Layouts
  /\ pc \in {"collect", "cell", "inst", "open", "done", "collision"}
  /\ nets \in [Net -> Nat]
  /\ connected = {Key(p) : p \in {p \in Port : On(NetRef(p)) \cap Pairs # {}}}

Init ==
  /\ layout \in Layouts
  /\ pc = "collect" /\ todo = {} /\ connected = {}
  /\ nets = [n \in Net |-> 0]
--------------------------------------------------------------------------------
At(p)         == layout.place[p]
Considered(S) == {p \in S : At(p).type \in PortTypes}

(* To the nearest database unit, and down to a multiple of 90 degrees.     *)
Snap(x)       == (x + Grid \div 2) \div Grid
Quarter(a)    == a \div 90
Snapped(p)    == <<Snap(At(p).x), Snap(At(p).y)>>
Bucket(p)     == [pos |-> Snapped(p), layer |-> At(p).layer]
Shift(h, dx, dy) == [pos |-> <<h.pos[1] + dx, h.pos[2] + dy>>, layer |-> h.layer]
Within(S, H)  == {p \in Considered(S) : Bucket(p) \in H}

MutForward(h) == {Shift(h, 1, 0), Shift(h, 0, 1), Shift(h, -1, 0)}
ForwardNeighbors(h) == {Shift(h, 1, 0), Shift(h, 0, 1)}
Nearby(h)           == {Shift(h, dx, dy) : dx, dy \in -1 .. 1}

Close(p, q)  == LET dx == At(p).x - At(q).x
                    dy == At(p).y - At(q).y
                IN  100 * (dx * dx + dy * dy) < Grid * Grid
Turn(p, q, snapped) == IF snapped THEN 90 * ((Quarter(At(p).angle) - Quarter(At(q).angle)) % 4)
                                  ELSE (At(p).angle - At(q).angle) % 360

(* The bits of check_connection that are asked for.                        *)
CheckConnection(p, q, snapped) ==
  {bit \in {"position", "opposite", "same", "width", "layer", "port_type"} :
     \/ bit = "position" /\ IF snapped THEN Snapped(p) = Snapped(q) ELSE Close(p, q)
     \/ bit = "opposite" /\ Turn(p, q, snapped) = 180
     \/ bit = "same" /\ Turn(p, q, snapped) = 0
     \/ bit = "width" /\ At(p).width = At(q).width
     \/ bit = "layer" /\ At(p).layer = At(q).layer
     \/ bit = "port_type" /\ At(p).type = At(q).type}

BaseCheck     == {"position", "layer", "port_type"} \cup (IF layout.wide THEN {} ELSE {"width"})
CheckSame     == BaseCheck \cup {"same"}
CheckOpposite == BaseCheck \cup {"opposite"}

(* The pairs compared while bucket h is visited: two cell ports or two     *)
(* instance ports, both in it or one in a neighbour; and a cell port with  *)
(* the instance ports around it.                                           *)
Facing(S, h) ==
  {{p, q} : p \in Within(S, {h}), q \in Within(S, {h} \cup ForwardNeighbors(h))}
PairsOf(S, h) ==
  {n \in Facing(S, h) : \E p, q \in n : p # q /\ CheckOpposite \subseteq CheckConnection(p, q, FALSE)}
CellToInst(h) ==
  {{p, q} : p \in Within(CellPort, {h}), q \in Within(Element, Nearby(h))}
PortPairs(h) ==
  {n \in CellToInst(h) : \E p \in n \cap CellPort, q \in n \cap Element :
                            CheckSame \subseteq CheckConnection(p, q, TRUE)}

Add(groups) == nets' = [n \in Net |-> nets[n] + Cardinality({g \in groups : Refs(g) = n})]
MutKeysOf(groups) == {Key(CHOOSE p \in g : TRUE) : g \in groups}   \* one side only
KeysOf(groups)    == {Key(p) : p \in UNION groups}
Buckets(S) == {Bucket(p) : p \in Considered(S)}

Colliding == \E c, d \in Considered(CellPort) : c # d /\ layout.name[c] = layout.name[d]
Collide ==
  /\ pc = "collect" /\ Colliding
  /\ pc' = "collision"
  /\ UNCHANGED <<layout, todo, connected, nets>>

Collect ==
  /\ pc = "collect" /\ ~ Colliding
  /\ pc' = "cell" /\ todo' = Buckets(CellPort)
  /\ UNCHANGED <<layout, connected, nets>>

CellPairs(h) == PairsOf(CellPort, h) \cup PortPairs(h)
CellBucket(h) ==
  /\ pc = "cell" /\ h \in todo
  /\ Add(CellPairs(h))
  /\ connected' = connected \cup KeysOf(CellPairs(h))
  /\ todo' = todo \ {h}
  /\ UNCHANGED <<layout, pc>>

CellsDone ==
  /\ pc = "cell" /\ todo = {}
  /\ pc' = "inst" /\ todo' = Buckets(Element)
  /\ UNCHANGED <<layout, connected, nets>>

InstBucket(h) ==
  /\ pc = "inst" /\ h \in todo
  /\ Add(PairsOf(Element, h))
  /\ connected' = connected \cup KeysOf(PairsOf(Element, h))
  /\ todo' = todo \ {h}
  /\ UNCHANGED <<layout, pc>>

InstsDone ==
  /\ pc = "inst" /\ todo = {}
  /\ pc' = "open"
  /\ UNCHANGED <<layout, todo, connected, nets>>

Unconnected == {p \in Considered(Port) : Key(p) \notin connected}

OpenPorts ==
  /\ pc = "open"
  /\ Add({{p} : p \in Unconnected})
  /\ pc' = "done"
  /\ UNCHANGED <<layout, todo, connected>>

Next ==
  \/ Collide \/ Collect \/ CellsDone \/ InstsDone \/ OpenPorts
  \/ \E h \in Buckets(CellPort) : CellBucket(h)
  \/ \E h \in Buckets(Element) : InstBucket(h)

Spec == Init /\ [][Next]_vars
--------------------------------------------------------------------------------
(* What a contact is, without buckets.  Two ports of a kind face each      *)
(* other less than a tenth of a database unit apart; a cell port lies on   *)
(* an instance port with the same direction.                               *)
Alike(p, q) ==
  /\ At(p).type = At(q).type /\ At(p).layer = At(q).layer
  /\ layout.wide \/ At(p).width = At(q).width
Faces(p, q) == (p \in CellPort <=> q \in CellPort) /\ (At(p).angle + 180) % 360 = At(q).angle
Lies(p, q)  == p \in CellPort /\ q \in Element /\ At(p).angle = At(q).angle
Touching(p, q) ==
  /\ p # q /\ Alike(p, q) /\ Close(p, q)
  /\ Faces(p, q) \/ Lies(p, q) \/ Lies(q, p)

(* What the search finds of it: a cell port and an instance port have to   *)
(* snap to the same place and quarter, and two ports of a kind must not be *)
(* snapped apart in both directions at once.                               *)
Found(p, q) ==
  IF p \in CellPort <=> q \in CellPort
  THEN Touching(p, q) /\ (Snapped(p)[1] = Snapped(q)[1] \/ Snapped(p)[2] = Snapped(q)[2])
  ELSE Alike(p, q) /\ Snapped(p) = Snapped(q) /\ Quarter(At(p).angle) = Quarter(At(q).angle)

Contacts == {g \in {{p, q} : p, q \in Considered(Port)} : \E p, q \in g : Found(p, q)}

(* Each contact is found from one of its two buckets and not from the      *)
(* other, in whatever order they are visited: one net for each contact the *)
(* search can find and none for anything else.  A port asked for that      *)
(* touches nothing has a net of its own, once, and no other port has.      *)
NetsAreContacts ==
  pc = "done" =>
    /\ \A n \in Pairs : nets[n] = Cardinality({g \in Contacts : Refs(g) = n})
    /\ \A p \in Considered(Port) :
         nets[{NetRef(p)}] = IF On(NetRef(p)) \cap Pairs = {} THEN 1 ELSE 0

(* A pair that passes the check is connected, wherever the bucket          *)
(* boundaries run.                                                         *)
Passes(p, q) ==
  IF p \in CellPort <=> q \in CellPort
  THEN CheckOpposite \subseteq CheckConnection(p, q, FALSE)
  ELSE CheckSame \subseteq CheckConnection(p, q, TRUE)
ScanMissesNothing ==
  pc = "done" =>
    \A p, q \in Considered(Port) :
      p # q /\ Passes(p, q) => nets[{NetRef(p), NetRef(q)}] > 0
================================================================================
