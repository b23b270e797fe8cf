------------------------------- MODULE Normalize -------------------------------
(***************************************************************************)
(* `Netlist::normalize` with equivalent ports: every reference to a port   *)
(* that has a canonical equivalent is renamed to it, and the nets that     *)
(* were renamed are merged when they share such a reference.  A step is    *)
(* one iteration of a loop; the loops over hash maps take their entries in *)
(* any order.  The union-find is used by its contract, Partition.          *)
(*                                                                         *)
(* Members are records: inst is NoInst for a top-level port, elem is 0 for *)
(* a plain reference and tells the elements of an array apart otherwise.   *)
(* A net is the set of its members.  The numbers in the settings and the   *)
(* final sort, which only reorders, are left out.                          *)
(***************************************************************************)
EXTENDS Integers, Sequences, FiniteSets, Components
LOCAL INSTANCE SequencesExt  \* ToSet
LOCAL INSTANCE FiniteSetsExt \* Max

CONSTANTS
  NoInst, NoName, NoMap,
  Calls          \* the netlists and the arguments, [instances, nets, ports,
                 \* cell, equivalent, mapping]

ASSUME NormalizeAssumption ==
  \A c \in Calls :
    /\ NoInst \notin DOMAIN c.instances
    /\ c.nets \in Seq({[members |-> c.nets[n].members, name |-> c.nets[n].name] : n \in DOMAIN c.nets})

VARIABLES
  call,          \* the netlist and the arguments of the running call
  pc,            \* "scan", "unite", "merge", "done" or "missing"
  nets,          \* the nets, renamed up to the cursor of the scan
  changed,       \* the nets renamed
  keyed,         \* <<canonical reference, net>>, as recorded by the scan
  cursor,        \* the next net to scan
  rep,           \* the representative of every net's block
  todo,          \* the keys still to unite, then the roots still to merge
  made,          \* the merged nets
  first          \* history: the nets an earlier call with these arguments made

vars == <<call, pc, nets, changed, keyed, cursor, rep, todo, made, first>>

TypeOK ==
  /\ pc \in {"scan", "unite", "merge", "done", "missing"}
  /\ DOMAIN nets = DOMAIN call.nets
  /\ cursor \in 1 .. Len(nets) + 1
  /\ changed \subseteq 1 .. cursor - 1
  /\ \A x \in keyed : x[2] \in changed /\ x[1] \in nets[x[2]].members
  /\ rep \in [DOMAIN nets -> DOMAIN nets] /\ \A n \in DOMAIN nets : rep[rep[n]] = rep[n]
  /\ todo \subseteq IF pc = "unite" THEN {x[1] : x \in keyed} ELSE DOMAIN nets
  /\ Len(made) <= Len(nets)

Identity(list) == [n \in DOMAIN list |-> n]

Init ==
  /\ call \in Calls
  /\ pc = "scan" /\ nets = call.nets
  /\ changed = {} /\ keyed = {} /\ cursor = 1
  /\ rep = Identity(nets)
  /\ todo = {} /\ made = << >> /\ first = << >>
--------------------------------------------------------------------------------
(* Without a mapping from the caller, the first port of each list stands   *)
(* for the list; the last list that names a port wins.                     *)
LastList(lists, p) == Max({l \in DOMAIN lists : p \in ToSet(lists[l])})
Canonical(lists) ==
  [p \in UNION {ToSet(lists[l]) : l \in DOMAIN lists} |-> Head(lists[LastList(lists, p)])]
Mapping == IF call.mapping # NoMap THEN call.mapping
           ELSE [c \in DOMAIN call.equivalent |-> Canonical(call.equivalent[c])]

PortsOf(c) == IF c \in DOMAIN Mapping THEN DOMAIN Mapping[c] ELSE {}
Matched(m) == m.inst \in DOMAIN call.instances /\ call.instances[m.inst] \in DOMAIN call.equivalent
Hit(m)     == Matched(m) /\ m.port \in PortsOf(call.instances[m.inst])
At(m, p)   == [inst |-> m.inst, port |-> p, elem |-> m.elem]
Rename(m)  == IF Hit(m) THEN At(m, Mapping[call.instances[m.inst]][m.port]) ELSE m

RenamedNet(net) == [members |-> {Rename(m) : m \in net.members}, name |-> net.name]

MutKeysBefore(n) == {m \in call.nets[n].members : Hit(m)}   \* before renaming
MutKeys(n) == {Rename(m) : m \in {m \in call.nets[n].members : Hit(m) /\ Rename(m) # m}}
Keys(n)    == {Rename(m) : m \in {m \in call.nets[n].members : Hit(m)}}

Scan ==
  /\ pc = "scan" /\ cursor <= Len(nets)
  /\ nets' = [n \in DOMAIN nets |-> IF n = cursor THEN RenamedNet(nets[n]) ELSE nets[n]]
  /\ keyed' = keyed \cup {<<key, cursor>> : key \in Keys(cursor)}
  /\ changed' = IF Keys(cursor) = {} THEN changed ELSE changed \cup {cursor}
  /\ cursor' = cursor + 1
  /\ UNCHANGED <<call, pc, rep, todo, made, first>>

ScanDone ==
  /\ pc = "scan" /\ cursor > Len(nets)
  /\ pc' = "unite"
  /\ todo' = {x[1] : x \in keyed}
  /\ UNCHANGED <<call, nets, changed, keyed, cursor, rep, made, first>>

(* The nets recorded for a key come into one block.                        *)
Recorded(key) == {x[2] : x \in {x \in keyed : x[1] = key}}
Unite(key) ==
  /\ pc = "unite" /\ key \in todo
  /\ LET roots == {rep[n] : n \in Recorded(key)}
     IN  \E winner \in roots :
           rep' = [n \in DOMAIN nets |-> IF rep[n] \in roots THEN winner ELSE rep[n]]
  /\ todo' = todo \ {key}
  /\ UNCHANGED <<call, pc, nets, changed, keyed, cursor, made, first>>

UniteDone ==
  /\ pc = "unite" /\ todo = {}
  /\ pc' = "merge"
  /\ todo' = {rep[n] : n \in changed}
  /\ UNCHANGED <<call, nets, changed, keyed, cursor, rep, made, first>>

(* A top-level port in a merged net is renamed too; the canonical port     *)
(* must have been declared.                                                *)
CellPort(m) == m.inst = NoInst /\ m.port \in PortsOf(call.cell)
Missing(m)  == CellPort(m) /\ Mapping[call.cell][m.port] \notin call.ports

Resolved(m) == IF CellPort(m) THEN At(m, Mapping[call.cell][m.port]) ELSE m

First(block) == CHOOSE n \in block : \A o \in block : n <= o
MutNameOf(block) == nets[First(block)].name  \* only the first net is asked
NameOf(block) ==
  LET named == {n \in block : nets[n].name # NoName}
  IN  IF named = {} THEN NoName ELSE nets[First(named)].name

Block(root) == {n \in changed : rep[n] = root}
Members(block) == UNION {nets[n].members : n \in block}

Merge(root) ==
  /\ pc = "merge" /\ root \in todo
  /\ \A m \in Members(Block(root)) : ~ Missing(m)
  /\ made' = Append(made, [members |-> {Resolved(m) : m \in Members(Block(root))},
                           name    |-> NameOf(Block(root))])
  /\ todo' = todo \ {root}
  /\ UNCHANGED <<call, pc, nets, changed, keyed, cursor, rep, first>>

MissingPort(root) ==
  /\ pc = "merge" /\ root \in todo
  /\ \E m \in Members(Block(root)) : Missing(m)
  /\ pc' = "missing"
  /\ UNCHANGED <<call, nets, changed, keyed, cursor, rep, todo, made, first>>

(* The nets that were not renamed come first, in their old order.          *)
MutUnchanged == nets                    \* the merged nets are not deleted
Kept      == DOMAIN nets \ changed
Place(n)  == Cardinality(Kept \cap 1 .. n)
Unchanged == [i \in 1 .. Cardinality(Kept) |-> nets[CHOOSE n \in Kept : Place(n) = i]]
Result == Unchanged \o made

Finish ==
  /\ pc = "merge" /\ todo = {}
  /\ pc' = "done"
  /\ UNCHANGED <<call, nets, changed, keyed, cursor, rep, todo, made, first>>

(* The caller normalizes the result again.                                 *)
Again ==
  /\ pc = "done" /\ first = << >>
  /\ first' = Result
  /\ call' = [instances |-> call.instances, nets |-> Result, ports |-> call.ports, cell |-> call.cell,
              equivalent |-> call.equivalent, mapping |-> call.mapping]
  /\ pc' = "scan" /\ nets' = Result
  /\ changed' = {} /\ keyed' = {} /\ cursor' = 1
  /\ rep' = Identity(Result)
  /\ todo' = {} /\ made' = << >>

Next ==
  \/ Scan \/ ScanDone \/ UniteDone \/ Finish \/ Again
  \/ \E x \in keyed : Unite(x[1])
  \/ \E root \in DOMAIN nets : Merge(root) \/ MissingPort(root)

Spec == Init /\ [][Next]_vars /\ WF_vars(Next)
--------------------------------------------------------------------------------
(* The result is what the netlist and the arguments determine, in no       *)
(* matter what order the hash maps are walked: the nets no reference of    *)
(* which was renamed, as they were, and one net for each group of others   *)
(* connected by canonical references, with the name of the first of them   *)
(* that has one.                                                           *)
AtTop(m)  == IF CellPort(m) THEN At(m, Mapping[call.cell][m.port]) ELSE m
Refs(n)   == {Rename(m) : m \in {m \in call.nets[n].members : Hit(m)}}
Renamed   == {n \in DOMAIN call.nets : Refs(n) # {}}
Sharing(n, o) == Refs(n) \cap Refs(o) # {}
Expected(block) ==
  LET named == {n \in block : call.nets[n].name # NoName}
  IN  [members |-> {AtTop(Rename(m)) : m \in UNION {call.nets[n].members : n \in block}},
       name    |-> IF named = {} THEN NoName ELSE call.nets[First(named)].name]
Times(net, list) == Cardinality({i \in DOMAIN list : list[i] = net})
MergedByCanonicalPort ==
  LET blocks == Components(Renamed, Sharing)
      kept   == {n \in DOMAIN call.nets : Refs(n) = {}}
  IN  /\ pc = "done" =>
           \A net \in ToSet(Result) \cup {call.nets[n] : n \in kept} \cup {Expected(P) : P \in blocks} :
              Times(net, Result) = Cardinality({n \in kept : call.nets[n] = net})
                                     + Cardinality({P \in blocks : Expected(P) = net})
      /\ pc = "missing" => \E P \in blocks : \E m \in Expected(P).members :
                              m.inst = NoInst /\ m.port \notin call.ports

(* A reference is on one net only, if it was before.  A mapping in which a *)
(* canonical port has no entry of its own can put one on two: the nets     *)
(* that had the canonical port already are not looked at.                  *)
OnOneNet(list) ==
  \A n, o \in DOMAIN list : \A m \in list[n].members :
     m \in list[o].members /\ m.inst # NoInst => n = o
SharersMerged == pc = "done" /\ OnOneNet(call.nets) => OnOneNet(Result)

(* What normalize needs of its arguments: a canonical port stands for      *)
(* itself.                                                                 *)
Closed(map) == \A p \in DOMAIN map : map[p] \in DOMAIN map /\ map[map[p]] = map[p]
WellMapped  == \A c \in DOMAIN Mapping : Closed(Mapping[c])
SharersMergedIfClosed == WellMapped => SharersMerged

(* Normalizing a normalized netlist changes nothing.                       *)
Idempotent ==
  pc = "done" /\ first # << >> /\ WellMapped =>
    \A net \in ToSet(first) \cup ToSet(Result) : Times(net, first) = Times(net, Result)
================================================================================
