-------------------------------- MODULE Netlist --------------------------------
(***************************************************************************)
(* `PlacedNetlist`: a `Netlist` (instances, nets, top-level ports) with    *)
(* the physical attributes kept beside it, and the calls that build and    *)
(* edit it.  A call runs alone (`&mut self`); the creating calls are one   *)
(* step each, `remove_instances` is one step per iteration of its loops.   *)
(* A call refused with an error changes nothing: it is a stuttering step.  *)
(*                                                                         *)
(* Names are numbers, for their order.  A net is the bag of its members    *)
(* (`Net::from_members` sorts them) and its name.  The declared ports are  *)
(* a set: nothing here reads how often or in what order one was declared.  *)
(***************************************************************************)
EXTENDS Integers, Sequences, FiniteSets, Components

CONSTANTS
  Inst, InstPort, TopPort,  \* names of instances, of their ports, of top-level ports
  NetName, NoName,          \* names of nets, and the lack of one
  Dim, Idx,                 \* array dimensions and indices a caller passes
  Requests,                 \* the member lists passed to create_net
  Removals,                 \* the name lists passed to remove_instances
  MaxNets, MaxCopies        \* bounds: nets, and copies of a member in a net, when
                            \* a net is created (merging nets can exceed the latter)

(* A member is a tuple that starts with the variant's index, so that the   *)
(* derived `Ord` is the lexicographic order of tuples.                     *)
PortMembers  == {0} \X TopPort
RefMembers   == {1} \X Inst \X InstPort
ArrayMembers == {2} \X Inst \X InstPort \X Idx \X Idx

IsFirst(m) == m[4] = 1 /\ m[5] = 1
Member     == PortMembers \cup RefMembers \cup {m \in ArrayMembers : ~ IsFirst(m)}

ASSUME NetlistAssumption ==
  /\ Inst \subseteq Int /\ InstPort \subseteq Int /\ TopPort \subseteq Int
  /\ Dim \subseteq Int /\ Idx \subseteq Int
  /\ NoName \notin NetName
  /\ Requests \subseteq Seq(PortMembers \cup RefMembers \cup ArrayMembers)
  /\ Removals \subseteq Seq(Inst)
  /\ MaxNets \in Nat /\ MaxCopies \in Nat

VARIABLES
  instances,   \* per instance, <<na, nb>>, or << >> when it is no array
  extras,      \* the instances that have physical attributes
  ports,       \* the declared top-level ports
  nets,        \* the list of nets; what is left of it while it is drained
  pc,          \* "idle", or where remove_instances stands: "next" or "drain"
  names, k,    \* its argument and the position of its loop over it
  surviving, merged, mergedName,  \* the locals of one pass
  before       \* the nets when the call began (history)

locals == <<names, k, surviving, merged, mergedName, before>>
vars   == <<instances, extras, ports, nets, pc, locals>>

Bags    == [Member -> Nat]
Nets    == [members : Bags, name : NetName \cup {NoName}]
Empty   == [m \in Member |-> 0]
NoArray == << >>

TypeOK ==
  /\ DOMAIN instances \subseteq Inst
  /\ \A i \in DOMAIN instances : instances[i] = NoArray \/ instances[i] \in (Nat \ {0}) \X (Nat \ {0})
  /\ extras \subseteq Inst
  /\ ports \subseteq TopPort
  /\ nets \in Seq(Nets)
  /\ pc \in {"idle", "next", "drain"}
  /\ names \in Seq(Inst)
  /\ k \in 1 .. Len(names) + 1 /\ (pc = "drain" => k <= Len(names))
  /\ surviving \in Seq(Nets)
  /\ merged \in Bags
  /\ mergedName \in NetName \cup {NoName}
  /\ before \in Seq(Nets)

Init ==
  /\ instances = << >> /\ extras = {} /\ ports = {} /\ nets = << >>
  /\ pc = "idle" /\ names = << >> /\ k = 1
  /\ surviving = << >> /\ merged = Empty /\ mergedName = NoName /\ before = << >>
--------------------------------------------------------------------------------
CreatePort(p) ==
  /\ pc = "idle"
  /\ ports' = ports \cup {p}
  /\ UNCHANGED <<instances, extras, nets, pc, locals>>

(* A zero dimension means no array, whatever the other one is.             *)
MutArray(na, nb) == IF na # 0 THEN <<na, nb>> ELSE NoArray
Array(na, nb)    == IF na # 0 /\ nb # 0 THEN <<na, nb>> ELSE NoArray

CreateInst(i, na, nb) ==
  /\ pc = "idle"
  /\ na # 0 /\ nb # 0 => na >= 1 /\ nb >= 1
  /\ instances' = [j \in DOMAIN instances \cup {i} |->
                      IF j = i THEN Array(na, nb) ELSE instances[j]]
  /\ extras' = extras \cup {i}
  /\ UNCHANGED <<ports, nets, pc, locals>>

(* Array element (1, 1) is stored as a plain reference, even when the      *)
(* instance is no array; other indices have an upper bound only.           *)
Canonical(m) == IF m[1] = 2 /\ IsFirst(m) THEN <<1, m[2], m[3]>> ELSE m

InArray(m) ==
  /\ instances[m[2]] # NoArray
  /\ m[4] <= instances[m[2]][1]
  /\ m[5] <= instances[m[2]][2]

MutResolves(m) ==                       \* only one direction is checked
  \/ m[1] = 0 /\ m[2] \in ports
  \/ m[1] = 1 /\ m[2] \in DOMAIN instances
  \/ m[1] = 2 /\ m[2] \in DOMAIN instances
              /\ (IsFirst(m) \/ (instances[m[2]] # NoArray /\ m[4] <= instances[m[2]][1]))
Resolves(m) ==
  \/ m[1] = 0 /\ m[2] \in ports
  \/ m[1] = 1 /\ m[2] \in DOMAIN instances
  \/ m[1] = 2 /\ m[2] \in DOMAIN instances /\ (IsFirst(m) \/ InArray(m))

BagOf(request) ==
  [m \in Member |-> Cardinality({i \in DOMAIN request : Canonical(request[i]) = m})]

(* create_net, create_named_net and add_net: all members or none.          *)
CreateNet(request, name) ==
  /\ pc = "idle"
  /\ Len(nets) < MaxNets /\ \A j \in DOMAIN nets, m \in Member : nets[j].members[m] <= MaxCopies
  /\ \A i \in DOMAIN request : Resolves(request[i])
  /\ nets' = Append(nets, [members |-> BagOf(request), name |-> name])
  /\ UNCHANGED <<instances, extras, ports, pc, locals>>

Before(m, n) == \E i \in DOMAIN m \cap DOMAIN n :
                   m[i] < n[i] /\ \A j \in 1 .. i - 1 : m[j] = n[j]

(* The order of the sorted member lists a and b are the bags of.           *)
NetBefore(a, b) ==
  \E m \in Member :
    /\ a[m] # b[m]
    /\ \A x \in Member : Before(x, m) => a[x] = b[x]
    /\ IF a[m] > b[m] THEN   \E x \in Member : Before(m, x) /\ b[x] > 0
                      ELSE ~ \E x \in Member : Before(m, x) /\ a[x] > 0

(* A stable sort that ignores the names of the nets.                       *)
Sort ==
  /\ pc = "idle"
  /\ \E p \in [DOMAIN nets -> DOMAIN nets] :
        /\ \A i, j \in DOMAIN nets : i < j =>
             \/ NetBefore(nets[p[i]].members, nets[p[j]].members)
             \/ p[i] < p[j] /\ ~ NetBefore(nets[p[j]].members, nets[p[i]].members)
        /\ nets' = [i \in DOMAIN nets |-> nets[p[i]]]
  /\ UNCHANGED <<instances, extras, ports, pc, locals>>
--------------------------------------------------------------------------------
(* remove_instances: one pass over the nets per name.                      *)
On(m, i)      == m[1] # 0 /\ m[2] = i
Touches(b, i) == \E m \in Member : b[m] > 0 /\ On(m, i)

StartRemove(list) ==
  /\ pc = "idle"
  /\ pc' = "next"
  /\ names' = list /\ k' = 1
  /\ before' = nets
  /\ UNCHANGED <<instances, extras, ports, nets, surviving, merged, mergedName>>

NextK == k + 1

SkipName ==
  /\ pc = "next" /\ k <= Len(names)
  /\ names[k] \notin DOMAIN instances
  /\ k' = NextK
  /\ UNCHANGED <<instances, extras, ports, nets, pc, names, surviving, merged, mergedName, before>>

RemoveName ==
  /\ pc = "next" /\ k <= Len(names)
  /\ names[k] \in DOMAIN instances
  /\ instances' = [i \in DOMAIN instances \ {names[k]} |-> instances[i]]
  /\ pc' = "drain"
  /\ UNCHANGED <<extras, ports, nets, locals>>

MutTouched == \E m \in Member : Head(nets).members[m] > 0 /\ m[1] = 1 /\ m[2] = names[k]
Touched    == Touches(Head(nets).members, names[k])

DrainOther ==
  /\ pc = "drain" /\ nets # << >>
  /\ ~ Touched
  /\ surviving' = Append(surviving, Head(nets))
  /\ nets' = Tail(nets)
  /\ UNCHANGED <<instances, extras, ports, pc, names, k, merged, mergedName, before>>

MutKept(b, i) == [m \in Member |-> IF On(m, i) \/ merged[m] > 0 THEN 0 ELSE b[m]]
Kept(b, i)    == [m \in Member |-> IF On(m, i) THEN 0 ELSE b[m]]

MutFirstName(name) == name              \* the last contributing net's
FirstName(name)    == IF mergedName = NoName THEN name ELSE mergedName

DrainTouching ==
  /\ pc = "drain" /\ nets # << >>
  /\ Touched
  /\ merged' = [m \in Member |-> merged[m] + Kept(Head(nets).members, names[k])[m]]
  /\ mergedName' = FirstName(Head(nets).name)
  /\ nets' = Tail(nets)
  /\ UNCHANGED <<instances, extras, ports, pc, names, k, surviving, before>>

MutCollected == Append(surviving, [members |-> merged, name |-> NoName])
Collected    == IF merged = Empty THEN surviving
                ELSE Append(surviving, [members |-> merged, name |-> mergedName])

EndPass ==
  /\ pc = "drain" /\ nets = << >>
  /\ nets' = Collected
  /\ pc' = "next"
  /\ k' = NextK
  /\ surviving' = << >> /\ merged' = Empty /\ mergedName' = NoName
  /\ UNCHANGED <<instances, extras, ports, names, before>>

(* The nets are final; the attributes of all the names given go last.      *)
Given     == {names[x] : x \in DOMAIN names}
MutPurged == extras \ (Given \cap DOMAIN instances)
Purged    == extras \ Given

ReturnRemove ==
  /\ pc = "next" /\ k > Len(names)
  /\ extras' = Purged
  /\ pc' = "idle"
  /\ names' = << >> /\ k' = 1 /\ before' = << >>
  /\ UNCHANGED <<instances, ports, nets, surviving, merged, mergedName>>

Removing == SkipName \/ RemoveName \/ DrainOther \/ DrainTouching \/ EndPass \/ ReturnRemove
Editing ==
  \/ \E p \in TopPort : CreatePort(p)
  \/ \E i \in Inst, na, nb \in Dim : CreateInst(i, na, nb)
  \/ \E request \in Requests, name \in NetName \cup {NoName} : CreateNet(request, name)
  \/ Sort
  \/ \E list \in Removals : StartRemove(list)
Next == Editing \/ Removing

Spec == Init /\ [][Next]_vars
--------------------------------------------------------------------------------
(* No net refers to an instance or a port that does not exist, in whatever *)
(* order calls come, nor does any list inside remove_instances: what is    *)
(* left to drain may still refer to the instance just removed, no more.    *)
Exists(m)   == m[2] \in IF m[1] = 0 THEN ports ELSE DOMAIN instances
Sound(b)    == \A m \in Member : b[m] > 0 => Exists(m)
SoundOr(b)  == \A m \in Member : b[m] > 0 => Exists(m) \/ (pc = "drain" /\ On(m, names[k]))
NoDangling ==
  /\ \A j \in DOMAIN nets : SoundOr(nets[j].members)
  /\ \A j \in DOMAIN surviving : Sound(surviving[j].members)
  /\ Sound(merged)

(* The physical attributes are of existing instances, all of them; inside  *)
(* a call, names already removed may still have some.                      *)
ExtrasMatch ==
  /\ DOMAIN instances \subseteq extras
  /\ extras \subseteq DOMAIN instances \cup Given

(* remove_instances splits no net: what survives of a net stays together   *)
(* on one net, with its multiplicities, and on a named net if it was named.*)
Gone(m) == ~ Exists(m)
Holds(b, name, n) ==
  /\ \A m \in Member : Gone(m) \/ b[m] >= n.members[m]
  /\ n.name # NoName => name # NoName
Vanished(n) == \A m \in Member : Gone(m) \/ n.members[m] = 0
NoneSplit ==
  \A x \in DOMAIN before :
    \/ Vanished(before[x])
    \/ \E j \in DOMAIN nets : Holds(nets[j].members, nets[j].name, before[x])
    \/ \E j \in DOMAIN surviving : Holds(surviving[j].members, surviving[j].name, before[x])
    \/ Holds(merged, mergedName, before[x])

(* When remove_instances is done, its nets are the groups of the nets it   *)
(* was given that shared removed instances, directly or through others,    *)
(* each with the surviving members of its group: nothing is lost, and      *)
(* nothing is shorted together that no removed instance connected.  The    *)
(* list order and the number of passes leave no trace.                     *)
Linked(x, y) ==
  \E i \in Given : Touches(before[x].members, i) /\ Touches(before[y].members, i)
Groups == Components(DOMAIN before, Linked)
Copies(m, P) == UNION {{x} \X (1 .. before[x].members[m]) : x \in P}
Rest(P) ==
  [m \in Member |-> IF \E i \in Given : On(m, i) THEN 0 ELSE Cardinality(Copies(m, P))]
Disappears(P) == Rest(P) = Empty /\ \E x \in P : Linked(x, x)
Done == pc = "next" /\ k > Len(names)
Groupings ==
  {g \in [DOMAIN nets -> Groups] :
     /\ \A i, j \in DOMAIN nets : g[i] = g[j] => i = j
     /\ \A j \in DOMAIN nets : nets[j].members = Rest(g[j])
     /\ \A P \in Groups : (\E j \in DOMAIN nets : g[j] = P) \/ Disappears(P)}
RemovalMergesGroups == Done => Groupings # {}

(* A net that results from one removed instance has the name of the first  *)
(* of its contributing nets that has one; one that results from several    *)
(* has the name of one of them, and none only if none of them has one.     *)
CutBy(P)   == {i \in Given : \E x \in P : Touches(before[x].members, i)}
NamedIn(P) == {x \in P : before[x].name # NoName}
NameOf(P, name) ==
  \/ NamedIn(P) = {} /\ name = NoName
  \/ \E x \in NamedIn(P) :
       /\ name = before[x].name
       /\ \A i \in Given : CutBy(P) = {i} => \A y \in NamedIn(P) : x <= y
NamesFollowNets ==
  Done => \E g \in Groupings : \A j \in DOMAIN nets : NameOf(g[j], nets[j].name)

(* An array reference is checked when its net is created only: replacing   *)
(* the instance later can leave it out of bounds, and nothing else can.    *)
Present(m) ==
  \/ \E j \in DOMAIN nets : nets[j].members[m] > 0
  \/ \E j \in DOMAIN surviving : surviving[j].members[m] > 0
  \/ merged[m] > 0
OutOfBounds(m) == Present(m) /\ m[2] \in DOMAIN instances /\ ~ InArray(m)
BoundsBrokenByReplacing ==
  [][\A m \in Member : m[1] = 2 /\ OutOfBounds(m)' =>
        \/ OutOfBounds(m)
        \/ m[2] \in DOMAIN instances /\ instances'[m[2]] # instances[m[2]]]_vars
================================================================================
