# kfnetlist in TLA+

kfnetlist keeps photonic and electronic netlists: instances of cells, nets that
join their ports, and the top-level ports of the netlist itself. A Rust core
builds, edits, normalizes, validates and flattens netlists; Python code extracts
them from layouts. This directory models the core's algorithms as TLA+ state
machines, together with the Python objects around it, checks them with TLC on small
instances and proves the most important results with TLAPS for every value of the
constants.

Paths below are relative to `src/` of the repository checkout; `core/` stands for
`crates/kfnetlist-core/src/`, `py/` for `crates/kfnetlist-python/src/` and
`schema/` for `crates/kfnetlist-schema/src/`.

## 1. Inventory

| Component | State it keeps | Operations | What makes it correct |
|---|---|---|---|
| Union-find (`core/netlist.rs:545-582`) | parent and rank vectors | `find` with path halving, `union` by rank | no cycle ever; halving moves nobody; the roots are the partition the unions ask for |
| Netlist (`core/netlist.rs:93-362`, `core/net.rs`) | instances, nets, ports | create, add, sort, `remove_instances` | no net refers to what does not exist; removal joins exactly what the removed instances connected |
| Placed netlist (`core/placement.rs`) | a netlist and, per instance, cell and placement | the same, kept in step | the attributes are those of the instances |
| Normalize (`core/netlist.rs:364-519`) | a copy of the netlist, tables by hash | one call | equivalent ports and their nets collapse, whatever the hash order; once is enough |
| Hierarchy (`core/hierarchy.rs`) | stack, `active`, `done` | one call | accepted exactly when all references resolve without a cycle |
| Flatten (`core/flatten.rs`) | netlist, cells, eligibility, warned set, across passes | one call of many passes | connectivity of the unfolded hierarchy; every leaf once; ends |
| Wire formats (`core/instance.rs`, `core/net.rs`, `core/placement.rs`, `core/lib.rs`) | none | serde: read and write instances, nets, netlists; normalize settings | round trips; nothing is read as less than it says; numbers keep their value |
| Python bindings (`py/`) | core values; attributes beside a base class (`PlacedNetlist` extends `Netlist`); a `Net`'s members | convert and delegate; `Net.append`/`extend`; `__richcmp__` | layers stay in step by name; nets compare by their members; Python's order is the core's |
| Schema (`schema/`, `src/kfnetlist/kfnetlist_schema/`) | none | document <-> netlist, document <-> protobuf | connectivity survives |
| Optical adjacency (`src/kfnetlist/extract/_geometry.py`, `port_check.py`) | buckets of ports by snapped position | one call | every touching pair once, every port somewhere |
| Extraction (`src/kfnetlist/extract/_algo.py`, `_l2n.py`, `_parser.py`) | netlists by cell | walk of the cells | all cells, both kinds of nets, then removal, normalize, flatten |
| Shorts (`src/kfnetlist/extract/_shorts.py`) | none | one loop | pairs per layer |

How they interact. `extract` builds a netlist per cell from optical nets and from
KLayout's circuits, removes instances, normalizes and may flatten. `normalize` and
each flattening pass group nets with the union-find. `flatten_netlist` and
`hierarchy_from_json` begin with the validation of the hierarchy. The bindings call
the core on exclusively borrowed values; nothing runs concurrently and nothing is
persisted between calls.

So the hard behaviours are not races. They are
- orders nobody chose: validation, normalize and flattening walk hash maps, whose
  order differs from process to process, and must not let it show;
- loops that end, and stay correct, only because of an invariant of what earlier
  iterations left behind (path halving, the depth-first search, the passes of
  flattening and of removal);
- state that is kept by name while names are removed, renamed and made again;
- sequences of legal calls (replace an instance, remove several, normalize twice)
  that tests try one at a time;
- errors that come halfway.

`PROJECT.json` lists them, each at its line, with the properties that cover it.

## 2. Modules

| Module | Models | Uses |
|---|---|---|
| `Partition` | what a disjoint-set structure promises (abstract) | |
| `UnionFind` | `UnionFind`, one loop iteration per step | refines `Partition` |
| `Hierarchy` | `validate_instance_maps` | |
| `Components` | connected components, the reference definition of merging | |
| `Netlist` | `PlacedNetlist` and its editing calls | `Components` |
| `Normalize` | `Netlist::normalize` with equivalent ports | `Components`; the union-find by its contract |
| `Flatten` | `flatten_netlist`, `expand_pass` | `Components`; the validation by `Hierarchy`'s contract |
| `Adjacency` | `get_optical_nets` and `check_connection` | |
| `Schema` | conversions between netlist, document and protobuf | |
| `Lists` | sorting and filtering a list by the places of its elements | |
| `Members` | the members of a net and their order, derived in Rust and compared in Python | `Lists` |
| `WireFormats` | settings numbers; what serde reads and writes | `Members` |
| `Bindings` | a Python session on `Netlist`, `PlacedNetlist` and `Net` objects | `WireFormats` |
| `MC...` | constants of the runs | |
| `..._proofs` | theorems and their proofs; those about `Schema`, which the bindings package, are the second half of `Bindings_proofs` | |

Only Rust's control is kept. Strings are model values, numbers or sequences of
them; the texts of errors and warnings, settings and placements are left out unless
named below.

### UnionFind and Partition

`parent` and `rank` are the vectors. `Invoke` enters `find(a)` or `union(a, b)`;
`Halve` is one iteration of the `while` loop, with the cursor `x`; `FirstRoot` is the
point between the two finds of `union`, where `ra` is held while the second find goes
on halving; `UnionReturns` compares the roots and links. `rep` is a history variable:
the representative of each element in the partition the completed unions ask for. No
action's guard and no code variable depends on it, and it is what the refinement
mapping to `Partition` needs. `Partition` has three actions: a call begins, a find
answers with the representative of its argument, a union joins two blocks under one
of their representatives.

### Hierarchy

A document is a function from netlist names to the sequences of ids they reference.
`ScanNetlist` and `ReportMissing` are the first loop, `Start`, `Enter`, `Exit`, `Skip`,
`ReportCycle` and `Accept` the second, one stack entry per step. The `HashMap` of the
code becomes the choice of any netlist in `todo`. `MCHierarchy` takes every document
over at most three names with at most two references each, dangling ones included.

### Netlist

One state holds `instances` (array dimensions only), `extras` (whose attributes
exist), `ports` and `nets`. The creating calls are atomic because they validate before
they change anything and hold `&mut self`; a refused call changes nothing and is a
stutter. `remove_instances` is spread over one step per loop iteration, so that the
invariants also speak of its intermediate lists: `nets` is what is left of the drained
list, `surviving`, `merged` and `mergedName` are its locals. The attributes go in
`ReturnRemove`, after the nets, as in `PlacedNetlist::remove_instances`. `before` is
history: the nets at the call. Members are tuples that start with the variant's index,
so that the derived order of `NetMember` is the lexicographic one; a net is the bag of
its members, because `from_members` sorts them. `MaxNets` and `MaxCopies` bound what
`CreateNet` may do; removal itself is not bounded.

### Normalize

One step per loop iteration: `Scan` renames the references of a net and records its
canonical keys, `Unite(key)` brings the nets of a key into one block (in any order of
the keys), `Merge(root)` makes one net of a block (in any order of the blocks) or
`MissingPort(root)` gives up. `Unite` uses `Partition`'s contract, any representative
may win. `Again` normalizes the result a second time, for `Idempotent`. The numbers in
the settings are in `WireFormats`, the final sort is in `Bindings`.

### Flatten

A step is one `expand_pass`: `Expand`, or one of its errors, or `NothingLeft`. `Begin`,
`RejectDocument` and `RejectBase` are the code before the loop, `FailLimit` the pass
limit, `Finish` the code after it. Instance names are sequences of segments, joined by
appending, so that a name containing the separator can collide with a joined one. Lists
are sets: the order of the result is left out, and where the code's order decides
(which of two errors comes first, which name a merged net keeps among inner nets) the
model allows every outcome or fixes one. Validation enters by the predicates `Resolved`
and `Acyclic` of `Hierarchy`, which `VerdictIsRight` shows to be what the search
decides. `MaxPasses` is `MAX_PASSES`, lowered to 3: it must only be above the depth of
every acyclic hierarchy checked. Composition of placements (floating point) is left
out: it never decides about instances or nets.

### Adjacency

`Collect` (or `Collide`) is the bucketing, `CellBucket` and `InstBucket` one visit of a
bucket each, in any order, and `OpenPorts` the two loops that list the unconnected
ports. `CheckConnection` gives the bits of `check_connection` as a set, `Passes` asks for
the code's masks. Positions are in twentieths of a database unit, so that the tolerance
of a tenth and the rounding both matter; a port with an integer transform lies on the
grid, where the exact comparison and the one with tolerance agree, and one comparison
stands for both. KLayout's `s_trans` is external: it rounds positions to the nearest
unit and angles down to a quarter turn. An element of an array is a port of its own.

### Schema

A session holds a circuit in one of three forms and converts it: `Elaborate` or `Fail`
(`to_netlist`), `Recover` (`from_netlist`), `Encode` and `Decode` (protobuf); `Foreign`
stands for a producer that writes connection pairs without the reserved properties.
References are text in a document: a record of what they spell (pin, plain port,
`<a.b>`, `[n]`, nonsense) and whether white space surrounds them, which `terminal` trims.
`Unparse` writes a reference as text. The code escapes nothing, so a name with a comma, a
bracket or white space at an edge is written as the text of something else: the constant
`Odd` gives the text of each reference that its own text does not spell. The wire names a
port's entry by the part after its first comma (`TerminalName`), so a port called `b,o` also
comes back as a port `o`. Netlists have `beyond`, for what a document has no place for (`kcl`,
`netlist_id`, settings that are no mapping): `Portable` drops it, and `Shaped` makes every
instance a leaf without it. Members are looked up when the nets are made, after all pins and
instances are there, so `Elaborates` is one predicate: in the order of the code nothing else
can be observed, because an error leaves no netlist.
Nets are labelled, for their order means nothing; so which of two entries of a map is
written last is left open. Names of nets are lost by the document and left out. Of the
settings only `array_size` is kept, because an instance that has one and no array becomes an
array (`Dims`). The text `,o`, nonsense that the wire makes a pin, is left out.

### Members, WireFormats and Bindings

`Before` is the derived order of `NetMember`; `LT`, `EQ`, `GT` are the `__richcmp__` of
the three classes, each of which compares the kind of the operand it finds and then the
fields its own class has; `PyLess` and `PyEqual` add Python's rule that an operand of a
subclass (`PortArrayRef` extends `PortRef`) is asked first. A stable sort and a filter are
stated by place (`Lists`): an element comes at the place of the number of those before it.

A JSON object is a function from the fields it has. A reader gives the set of the values
it reads, empty when it refuses, so that "read as the other class" and "read with a field
less" can be asked. `All` is the reading of a map or a list: all of it or nothing. Numbers
count halves and carry the type they are written as; `Top63` is 2^63, and the rounding of
the bounds `i64::MAX` and `u64::MAX` to 2^63 and 2^64, with the saturating cast, is what
`NormalizeValue` does. `kcl` and `info` are read and written as `component` and `array`
are, and left out.

`Bindings` has one netlist and one `Net`. `extras` is the layer of the subclass. Every
editing call takes `base`: whether it was made through the base class
(`Netlist.create_inst(placed, ...)`), which leaves that layer behind; the history variable
`behind` holds the names edited so since they were last in step. `FromNetlist`,
`NormalizeNetlist`, `FlattenPlain`, `FlattenPlaced`, `Reload` and `Load` return another
object, of the class the code gives it. Calls that raise are no steps, except that
`Extend` keeps what it took before the item that is no member. What a caller passes is a
record of sets, fixed for a session, so that one run holds several kinds of callers:
whoever wires, edits instances, loads documents, or normalizes settings. Their calls do
not mix between callers, for their arguments have nothing to do with each other.

## 3. Runs

| Run | Instance | Distinct states | Shows |
|---|---|---|---|
| `union_find` | 5 elements, every call | 41 616 | a root of rank k has 2^k elements; roots are the partition; calls return; refines `Partition` |
| `hierarchy` | 3 names, 2 references each, every order | 54 812 | verdict right, culprit named, returns |
| `netlist_arrays` | 2 instances, dimensions -1..2, indices 0..2, 1-member nets | 59 562 | types, nothing dangles, only a replacement breaks bounds |
| `netlist_removal` | 2 instances, 1 port, 3 nets of 2 members, 2 names, removal lists up to 2 | 727 646 | attributes in step, no net split, removal merges exactly the connected groups, names follow |
| `normalize` | 3 nets of up to 2 members, 2 instances, array elements, cell ports, 7 settings of the arguments | 491 830 | merged exactly by canonical reference in every hash order, errors right, sharers merged, idempotent |
| `normalize_guide` | the mapping the user guide gives | - | violated: see findings |
| `optical` | 2 cell ports, 2 instance ports around a bucket corner, or of all kinds | 2 195 663 | the nets are exactly the contacts, once each, and one for each untouched port; connected keys right |
| `optical_corner` | the same | - | violated: see findings |
| `schema` | 3 nets over 2 pins, an array and a plain instance, one of them with `netlist_id`, settings of `array_size`; every spelling; names that spell another pin, another port, an element, or nothing | 1 659 533 | connectivity kept over any conversions, refusals justified, the wire exact |
| `flatten` | 3 levels, shared cells, all choices of a few nets per level; then colliding names, arrays, references, maps, filters | 205 778 | connectivity is that of the unfolded hierarchy, no dropped connection, nothing dangles between passes; the leaves of the unfolding exactly, errors and warnings justified, returns |
| `bindings` | 2 instances, 2 nets of 3 members in all, a `Net` of 2 members; 4 callers | 85 377 | attributes stay with their instances; what is written is read back; nothing is read as less; settings keep their value; Python's order is the core's; two netlists of the same connectivity do not differ |
| `bindings_order` | the caller that wires, alone | - | violated: see findings |

Why these bounds are enough to meet the interesting cases. Path halving needs a path of
length two, which union by rank makes from four elements; five give it a bystander and
rank 2. Cycles of length one to three, diamonds, dangling references and
netlists that lead to a cycle without being on it all exist over three names. Removing
two names in one call needs a net that touches both, one that touches the first only and one that
touches the second only: three nets, where the second pass drains what the first merged.
In normalize, transitive merging needs three nets, and two instances to chain them.
The corner of four buckets is the smallest layout in which two ports can be snapped
apart in no, one or both directions; contacts are of two ports, so two of each kind meet
in every way. A conversion looks at one net and at the entries of one pin: three nets
give a pin two private nets and a bystander, and the conversions soon repeat themselves.
In flattening, three levels make parents of what a pass made; a cell used twice, a port
left open, two ports tied and a feedthrough need two ports and two nets per level.
In a session, two instances let one be removed, replaced or left behind while the other
stays, and three members are one of each kind; the documents have every subset of an
instance's fields, the odd values a reader must refuse, and every shape of a net; the
numbers lie on, next to and beyond each of the bounds of the integer types.

`CHECK_DEADLOCK FALSE` stands where the model is of one call that returns (`hierarchy`,
`normalize`, `optical`, `flatten`) or of a session that may fail (`schema`); the others never stop.

### Fairness

Every model is of synchronous code under an exclusive borrow: once a call has begun, its
thread runs it to the end and nothing else can touch its state. That is weak fairness of
the steps inside a call, and all that is assumed; nobody is obliged to make a call
(`WF` of `Body` in `UnionFind`, of the single call's `Next` in the others; `Netlist` and
`Bindings` state none, for no property of theirs needs it). `CallsReturn` and `Terminates`
then say that no loop runs for ever.

### Findings

- `normalize_guide`: the guide on equivalent ports (`docs/source/guides/equivalent_ports.py:113-125`)
  passes `port_mapping={"pad": {"p2": "p1"}}` and promises that nets which share a member
  afterwards are merged. The scan records keys only for ports the mapping has an entry
  for (`core/netlist.rs:421`), so a net that was on `p1` already stays apart. With an
  entry for the canonical port, which the default mapping and `_build_port_mapping`
  have, `SharersMergedIfClosed` holds.

- `optical_corner`: ports of a kind are compared inside a bucket and with the buckets to
  the right and above (`_geometry.py:39`). Two ports less than a tenth of a unit apart but
  snapped apart in both directions are never compared, although they pass the check.
  `contributing/extraction.md:181` speaks of a 3x3 neighbourhood and
  `contributing/port_adjacency_extraction.md:300` says that the scan never causes false
  negatives. `NetsAreContacts` says what is found.

- `bindings_order`: `Net.extend` pushes its items one by one and sorts after the last
  (`py/net.rs:177`). When an item is no member, it raises with the items before it in the net,
  unsorted, and the net differs from one of the same members until the next call that
  sorts. The class is documented as "stored sorted" (`py/net.rs:43`), equality as independent
  of the insertion order (`docs/source/guides/open_detection.py:96`).

Seen on the way and not filed: the comment at `core/lib.rs:24` calls `normalize_value`
lossless, and a setting of exactly 2^63 or 2^64 loses one (`SettingsKeepValue` names both).
`contributing/circuit-schema.md:67-69` says "Netlist conversion retains connectivity,
instances, arrays, settings, and instance metadata". A netlist converted to a document and
back does not retain
- the second of two nets that each join one pin to one instance port (`schema/document.rs:245`);
- a single instance with a setting `array_size`: it becomes an array, or is refused if that is
  not positive (`schema/document.rs:173`);
- an array element with an index below 1, which extraction makes: it is refused
  (`schema/document.rs:138`);
- a name with a comma, a bracket or white space at an edge on a net, or of a pin: it is read as
  another reference or refused, by `parse_port_ref` (`schema/document.rs:100-160`) or
  after the wire's trimming (`schema/convert.rs:33-46`);
- `kcl`, `netlist_id` and settings that are no mapping (`schema/document.rs:185-193`, `222-236`):
  an instance that refers to another netlist comes back as a leaf.

`ConnectivityKept` is about what is left of that sentence, and names each exception: private nets and
sizes in its conclusion (`Keeps`, `Unwritable`), names in its premise (`Legible`), and the last in
`Keeps`, where instances become `Shaped` ones.

`docs/source/extraction/optical_nets.md:49` says that each optical net has two members,
while unconnected ports get a net of one. Further: the limit of 1000 passes also stops a
deeper acyclic hierarchy (`core/flatten.rs:466`); top-level ports are renamed in merged nets
only (`core/netlist.rs:484`).

## 4. Theorems

Each paragraph is about one proof module: what it proves, and the inductive
invariant that carries it.

`Components_proofs`, for every finite set and relation. `Components` computes by
recursion, in as many rounds as there are elements. Lemma `ReachIsLeast` says what that gives:
the least set with x that no link leaves; `ReachIsMutual` that with links both ways these
sets part the whole. They say nothing of the code by themselves: the theorems about merging in
the other modules rest on them. The proofs count: a round that finds something adds an element, and
one that finds nothing is the last. The module also has the induction the others use
(`Induction`, `Least`, `Greatest`), stated with a set in place of a predicate, because an
operator parameter cannot be instantiated.

`UnionFind_proofs`, for every number of elements. `Typing` and `ForestIsRanked` come from one
inductive invariant: types; ranks strictly increase along `parent`; an element and its
parent have the same representative; every representative is a root; a cursor is in the
block of the call's argument, `ra` is the representative of the first argument. That
parents stay inside a block is what makes halving harmless, and that representatives are
roots is what `Link` needs to merge two blocks by one assignment. `FindEnds` (each
iteration climbs) follows, and `ImplementsPartition` maps every step to a step of
`Partition` or a stutter. `RootsRepresent` is that climbing from any element ends at its
representative, by induction along the path, which ranks bound. `RanksAreSmall`
(a root of rank k has at least 2^k elements below it) needs a second invariant, `Sized`,
that speaks of blocks rather than of paths, so that halving does not touch it: a root's
rank bounds those of its block, and the block has 2^rank elements.

`Hierarchy_proofs`, for every set of documents. `Typing` makes the unchecked `maps[name]`
safe. `Path` (the active set is the names with a marker, once each, none of them done)
and `Closed` (references of done netlists are done) are proved with the strengthening
that the children of an active netlist are done, on the stack above its marker, or on
the path, and that markers are on a chain of references. `Verdict` follows: a cycle reported is a cycle of
references, and at `ok` the done set is everything, closed, and without a set that refers
back into itself. `Culprit`: the name in the error is one that is missing where it is
said to be, or one that contains itself, because the markers from that name upward spell
a path of references back to it.

`Netlist_proofs`, for all names, arguments and bounds. The inductive invariant is
`TypeOK`, that the locals of `remove_instances` are empty outside a pass, `NoDangling`,
`ExtrasMatch` and `NoneSplit`. The resetting of the locals is needed because `NoDangling` and
`NoneSplit` speak of them in every state. `References`, `Attributes` and
`RemovalKeepsNets` are its parts; `Bounds` is the action property that only a
replacement can put an array reference out of bounds. `RemovalMerges` and `NamesKept` are
what removal amounts to. Their invariant, `GroupsMerged`, follows the loops: between two
names the lists are the groups of the original nets connected by the names done so far
(the finest partition closed under sharing one), each with what is left of its members;
within a pass the nets set aside, the one being merged and the ones still to drain are
such groups, and the merged one is the union of those that touched the name. Which name a group
has is part of it: none, that of its first named net, or, if two removed instances made
it, that of any of its nets.

`Normalize_proofs`, for every netlist, all arguments, and every order of the hash maps.
`Invariance` is the inductive invariant: the scan has renamed the nets before its cursor
and recorded their canonical references; nets that share a reference are in one block
once its key is taken, and in one block only if references connect them (`NoMore`: no set of
nets that shares no reference with the others has one net of a block and not another); each
merged net is made of one block, and every block that is done made one. `Typing` and
`SharersAreMerged` follow. For `MergedByReference` the blocks are shown to be the
components that the reference definition names, and the positions of the result to
correspond one to one to the nets kept and to the blocks, so that the result has every
net exactly as often as it should. `OnceIsEnough`: what a call makes is `Normal`
(a reference with a canonical port is canonical and on one net only, whose top-level ports
are settled); in such a netlist every net is a component of its own, and is merged into itself.

`Flatten_proofs`, for every document, netlist and arguments. `Typing` and
`NetsReferToInstances` (between passes, too) come from `Sound`, the types of the loop's state,
and from the instances being finite. `Unrolled` relates the passes to the reference, which
has no passes: after n of them the instances are the occurrences side by side when n
levels have been unfolded (`Mirror`), one name each, with their cells and what the caller
lets expand; and what was reported are those left alone (`Reports`). `ResultIsUnfolding` and `WarningsAreExact`
follow, because the last pass unfolds nothing, or there is only one. `NothingDropped` needs
that each member of a net is the pin of a wire of some level (`Pinned`), and that a
connection of an expanded instance was answered from inside in the pass that expanded it
(`Answered`); there, that paths tell occurrences apart even where names do not.
`ErrorsHaveCauses` shows that a collision is one of two occurrences that both would
stand in the netlist, and the pass limit one of a document that contains itself: an
occurrence unfolded in the last pass has more cells above it than there are, so one of
them twice. `ConnectivitySurvives`, the main result, is that of the whole call: the reference joins the wires
of all levels at the ports of the occurrences that were unfolded, by their paths, and the
passes join nets by names, throwing away the pins they replace. The invariant (`Connected`)
is that after n passes every net shows a component of the wires of the first n levels: the
pins of it that are not on an unfolded occurrence, and one of its names; and that every
component with a pin left is shown. A pass keeps it because what it combines and what it
binds by correspond to those wires and to where they meet (`BoundJoins`, `JoinedBinds`), although two
components may show the same net, and a component without pins none.

`Adjacency_proofs`, for every cell, grid and number of ports. The nets are, at every step,
what the visited buckets hold: each pair once, counted by its references (`Invariance`). That a
pair is in one bucket only is what makes the counts add up; that two ports less than a
tenth of a unit apart are rounded to the same or adjacent units is all that is used of
the arithmetic. `Typing` and `NetsOnce` follow: when the search ends its nets are the contacts it can
find, once each, and one for each port that is on none.

`Bindings_proofs`, for every caller and any number of instances. `PythonOrder`, for members
with names and indices of any size: asked through either operand's class, `<` and `==` in
Python are the order and the equality of the core. Members of one kind are rows that start
alike, which compare as what follows the first field does (`Fields`); rows of different
kinds compare as their kinds do (`First`). The inductive invariant of a session (`IInv`) is
that instances are typed, `AttributesFollow`, that the caller stays the same and that the
instances are a map; `AttributesFollow` is inductive by itself only with the types, because
attributes that are read must be those of a component. One lemma per call that touches a
layer shows that it is kept. `InstanceKept` and `PlacedInstanceKept` say what is read of an
instance that was written, `InstanceRead` what is read of any text. From these follow
`Attributes` and `Reading` (the other class, and references). `Settings` is `ValueKept`,
arithmetic on the bounds for integers of any width. A second invariant, `NetsTyped`, is that
the nets of the netlist and the `Net` object are lists of members with a name or none;
`Typing`, `Reloading` (the round trip of the whole netlist, for as many instances and nets
as there are) and `Ordering` follow from both. It needs what sorting and removing give for
lists of any length. `Before` is a strict order (`BeforeIsStrict`); the places of a sort are
then a numbering of the list (`ArrangedIs`); and what `remove_instances` does for several
names is what it does name by name (`RemoveFromIs`, `RemoveAllIs`), by a recurrence over a
set of functions, since induction with an operator is out of reach. `Connectivity` is that
two netlists with the same nets, one built in the reverse order of the other, sort into
lists that compare as equal (`ReverseSorts`), whatever the nets are called: nets are ordered
and compared by their members, and those that tie are the same.

The schema, in the same module, for all netlists, documents and sequences of conversions.
`FormsOK` is the inductive invariant for `CircuitTyping` and `WireExactness`: each form is well formed;
a wire is one of the document it was encoded from, also after another producer's
(`Foreign`), and a document with a wire behind it was decoded from that document. The
step that matters is that windows of two, chained without repeating what they share, are the list
they came from, when no neighbours are the same. `ConnectivityKeeping` needs `KeepsOK`,
which says of each form what it still asks for: a netlist keeps the first one, a document is `Good`
(its labels do not clash, it is clear of white space that merges entries, what it
elaborates to keeps the first netlist, and it elaborates unless the first one cannot be
written), a wire is judged by the document behind it. All of it is under the premise that the
first netlist is legible; every later one then is (`StillLegible`), for its nets are among
the first one's, and so what is written is what the reference spells. It is carried by lemmas on
connectivity itself: `Alike` is an equivalence and respects which nets are private; `Keeps` is
reflexive and transitive (`KeepsSelf`, `KeepsTransitive`), which is why any number of conversions loses no
more than one; relabelling the nets keeps everything (`Relabelled`); and `KeepsRecovered`,
`KeepsDecoded` and `StillUnwritable` are the three conversions.

Assumptions: only the named `ASSUME`s of the modules (`NAssumption`, `DocsAssumption`,
`NetlistAssumption`, `NormalizeAssumption`, `FlattenAssumption`, `AdjacencyAssumption`,
`WireFormatsAssumption`, `CallersAssumption`, `SchemaAssumption`), which TLC evaluates in
the runs. `NormalizeAssumption` and `FlattenAssumption` say that netlists are what the core
builds: lists of records, finitely many instances and nets, members on instances that exist, and,
in `Flatten`, names of at least one segment (a name that splits at the separator). `CallersAssumption` says that what callers pass has the types the signatures ask
for (an item that is no member is `NoMember`, and the text of a net's name is not null), that the
nets of a document are a list, and that a caller, or a document, that names the placed cell of an
instance names the one of its component. `WireFormatsAssumption` keeps null and the absent
name or cell apart from the others. `SchemaAssumption` says that a session starts from a well
formed document or from a netlist the core builds (dimensions positive, members that exist), and that
the labels of its nets are not those that conversions make; and that `Odd` gives members texts
other than their own. `ErrorsHaveCauses` has one hypothesis more, `FewCells`: a document has fewer netlists
than `MAX_PASSES`. Without it the limit also stops a hierarchy that is merely deep (see 3).

Only model-checked: liveness (`CallsReturn`, the two `Terminates`, and the fairness half of
`RefinesPartition`, whose safety is `ImplementsPartition`), which the provers cannot reach;
every other property of the runs that pass is a theorem. Only proved: that ranks grow and
finds climb (`ForestIsRanked`, `FindEnds`), that markers are the path and done netlists
closed (`Path`, `Closed`), and the invariants themselves.

## 5. Not modelled

- The extraction pipeline (`_algo.py`, `_l2n.py`, `_parser.py`) and the shorts
  (`_shorts.py`): what decides there is KLayout's connectivity, its circuits and its
  search for the instance of a subcircuit, all external; what the code adds is a sequence
  of the calls that `Netlist`, `Normalize`, `Bindings` and `Flatten` model. Its optical half
  is `Adjacency`.
- The Python wrapper that prepares the arguments of the native flattening, and the Python
  classes of the schema: they convert and delegate.
- `detect_opens`, a query of two filters; hashes and reprs.
- Hand edits of public fields, and documents loaded with dangling references: the
  netlist calls are modelled from the empty netlist.
- Floating point arithmetic: `compose_placement`, and the rounding errors of transforms
  (`Adjacency` has every position of a finer grid instead).
- The parsing of YAML and JSON, and the document's shorthand for a single module.
- The check of the top module's name (`schema/document.rs:276`).
- Docs, tests, packaging.

## 6. Plan

Done: the union-find, hierarchy validation, netlist editing, flattening, normalize,
optical adjacency, schema conversions, wire formats and the Python bindings.

Next: `Extraction`: the per-cell build from optical nets and electrical circuits, with
`Netlist`'s calls and 0-based array indices, removal, normalize, and the placed
upgrade (`_algo.py:129-314`); KLayout's circuits as an external input. It composes
`Netlist`, `Normalize` and `Adjacency` by their contracts, and its abstract
specification is the connectivity of the layout's contacts. The numbering of array
elements (from 0 there, from 1 in the core and in documents) is what it is for.
