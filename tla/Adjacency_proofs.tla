---------------------------- MODULE Adjacency_proofs ----------------------------
(***************************************************************************)
(* For every cell, grid and number of ports: the nets are the contacts the *)
(* search can find, each once, and every port that is on none has a net of *)
(* its own, in whatever order the buckets are visited.  Of the arithmetic  *)
(* of positions only this is used: two places less than a tenth of a       *)
(* database unit apart are rounded to the same or to adjacent units.       *)
(***************************************************************************)
EXTENDS Adjacency, FiniteSetTheorems, TLAPS

(* The buckets that have been visited, and the pairs found in them.        *)
CellsVisited == IF pc \in {"collect", "collision"} THEN {}
                ELSE IF pc = "cell" THEN Buckets(CellPort) \ todo ELSE Buckets(CellPort)
InstsVisited == IF pc \in {"open", "done"} THEN Buckets(Element)
                ELSE IF pc = "inst" THEN Buckets(Element) \ todo ELSE {}
Seen  == (UNION {CellPairs(h) : h \in CellsVisited}) \cup (UNION {PairsOf(Element, h) : h \in InstsVisited})
Alone == IF pc = "done" THEN {{p} : p \in Unconnected} ELSE {}

(* The two checks a pair can pass.                                         *)
PassOpposite(p, q) == CheckOpposite \subseteq CheckConnection(p, q, FALSE)
PassSame(p, q)     == CheckSame \subseteq CheckConnection(p, q, TRUE)

(* The groups that a net stands for, and how many they are.                *)
With(groups, n) == {g \in groups : Refs(g) = n}
Counts(groups)  == [n \in Net |-> Cardinality(With(groups, n))]

(* The nets count what was found, and the keys are those of the ports of   *)
(* it.  Nothing is found twice: that is what makes the counts add up.      *)
IInv ==
  /\ layout \in Layouts
  /\ pc \in {"collect", "cell", "inst", "open", "done", "collision"}
  /\ pc \notin {"collect", "collision"} => ~ Colliding
  /\ connected = KeysOf(Seen)
  /\ nets = Counts(Seen \cup Alone)
--------------------------------------------------------------------------------
(* Arithmetic on positions, for a grid of any size.                        *)
LEMMA Division ==
  ASSUME NEW a \in Nat, NEW G \in Nat \ {0}
  PROVE  /\ a \div G \in Nat
         /\ G * (a \div G) <= a
         /\ a < G * (a \div G) + G
  OBVIOUS

LEMMA NearInSquare ==
  ASSUME NEW G \in Nat \ {0}, NEW dx \in Int, NEW dy \in Int,
         100 * (dx * dx + dy * dy) < G * G
  PROVE  dx < G /\ -dx < G
  <1>1. dx * dx \in Nat /\ dy * dy \in Nat
    OBVIOUS
  <1>2. ASSUME NEW d \in Int, d >= G PROVE d * d >= G * G
    BY <1>2
  <1>3. dx * dx = (-dx) * (-dx)
    OBVIOUS
  <1>4. QED
    BY <1>1, <1>2, <1>3

(* What is close is rounded to the same or to adjacent units: this is why  *)
(* a bucket's neighbours are enough.                                       *)
LEMMA Rounding ==
  ASSUME NEW x \in Nat, NEW y \in Nat, NEW dy \in Int,
         100 * ((x - y) * (x - y) + dy * dy) < Grid * Grid
  PROVE  Snap(x) - Snap(y) \in -1 .. 1
  <1> DEFINE G == Grid
             a == x + G \div 2
             b == y + G \div 2
             s == a \div G
             t == b \div G
  <1>1. G \in Nat \ {0}
    BY AdjacencyAssumption
  <1>2. a \in Nat /\ b \in Nat /\ a - b = x - y
    BY <1>1
  <1>3. x - y < G /\ -(x - y) < G
    BY <1>1, NearInSquare
  <1>4. a - b < G /\ b - a < G
    BY <1>1, <1>2, <1>3
  <1>5. /\ s \in Nat /\ G * s <= a /\ a < G * s + G
        /\ t \in Nat /\ G * t <= b /\ b < G * t + G
    BY <1>1, <1>2, Division
  <1>6. s = Snap(x) /\ t = Snap(y)
    BY DEF Snap
  <1> HIDE DEF a, b, s, t, G
  <1>7. ~ s >= t + 2
    <2> SUFFICES ASSUME s >= t + 2 PROVE FALSE
      OBVIOUS
    <2>1. G * s >= G * (t + 2)
      BY <1>1, <1>5
    <2>2. G * (t + 2) = G * t + 2 * G
      BY <1>1, <1>5
    <2>3. QED
      BY <1>1, <1>2, <1>4, <1>5, <2>1, <2>2
  <1>8. ~ t >= s + 2
    <2> SUFFICES ASSUME t >= s + 2 PROVE FALSE
      OBVIOUS
    <2>1. G * t >= G * (s + 2)
      BY <1>1, <1>5
    <2>2. G * (s + 2) = G * s + 2 * G
      BY <1>1, <1>5
    <2>3. QED
      BY <1>1, <1>2, <1>4, <1>5, <2>1, <2>2
  <1>9. QED
    BY <1>5, <1>6, <1>7, <1>8

LEMMA Angles ==
  ASSUME NEW a \in 0 .. 359, NEW b \in 0 .. 359
  PROVE  (a - b) % 360 = 180 <=> (a + 180) % 360 = b
  <1>1. (a - b) % 360 = IF a >= b THEN a - b ELSE a - b + 360
    OBVIOUS
  <1>2. (a + 180) % 360 = IF a < 180 THEN a + 180 ELSE a - 180
    OBVIOUS
  <1>3. QED
    BY <1>1, <1>2

LEMMA Quarters ==
  ASSUME NEW s \in 0 .. 3, NEW t \in 0 .. 3
  PROVE  90 * ((s - t) % 4) = 0 <=> s = t
  OBVIOUS
--------------------------------------------------------------------------------
(* What is at a port.                                                      *)
LEMMA Places ==
  ASSUME layout \in Layouts, NEW p \in Port
  PROVE  /\ At(p).x \in Nat /\ At(p).y \in Nat /\ At(p).angle \in 0 .. 359
         /\ Snap(At(p).x) \in Int /\ Snap(At(p).y) \in Int
         /\ Snapped(p) = <<Snap(At(p).x), Snap(At(p).y)>>
  <1>1. At(p).x \in Nat /\ At(p).y \in Nat /\ At(p).angle \in 0 .. 359
    BY AdjacencyAssumption DEF At
  <1>2. Grid \in Nat \ {0}
    BY AdjacencyAssumption
  <1>3. \A x \in Nat : Snap(x) \in Int
    BY <1>2 DEF Snap
  <1>4. QED
    BY <1>1, <1>3 DEF Snapped

(* The bits asked for say that the ports are alike, and where they are.    *)
LEMMA Checks ==
  ASSUME layout \in Layouts, NEW p \in Port, NEW q \in Port
  PROVE  /\ PassOpposite(p, q)
              <=> Alike(p, q) /\ Close(p, q) /\ (At(p).angle + 180) % 360 = At(q).angle
         /\ PassSame(p, q)
              <=> /\ Alike(p, q) /\ Snapped(p) = Snapped(q)
                  /\ Quarter(At(p).angle) = Quarter(At(q).angle)
  <1>1. At(p).angle \in 0 .. 359 /\ At(q).angle \in 0 .. 359
    BY Places
  <1>2. layout.wide \in BOOLEAN
    BY AdjacencyAssumption
  <1>3. Turn(p, q, FALSE) = 180 <=> (At(p).angle + 180) % 360 = At(q).angle
    <2>1. Turn(p, q, FALSE) = (At(p).angle - At(q).angle) % 360
      BY DEF Turn
    <2>2. \A a, b \in 0 .. 359 : (a - b) % 360 = 180 <=> (a + 180) % 360 = b
      BY Angles
    <2>3. QED
      BY <1>1, <2>1, <2>2
  <1>4. Turn(p, q, TRUE) = 0 <=> Quarter(At(p).angle) = Quarter(At(q).angle)
    <2> DEFINE s == Quarter(At(p).angle)
               t == Quarter(At(q).angle)
    <2>1. Turn(p, q, TRUE) = 90 * ((s - t) % 4)
      BY DEF Turn
    <2>2. s \in 0 .. 3 /\ t \in 0 .. 3
      <3>1. \A a \in 0 .. 359 : Quarter(a) \in 0 .. 3
        BY DEF Quarter
      <3>2. QED
        BY <1>1, <3>1
    <2> HIDE DEF s, t
    <2>3. 90 * ((s - t) % 4) = 0 <=> s = t
      BY <2>2, Quarters
    <2>4. QED
      BY <2>1, <2>3 DEF s, t
  <1>5. PassOpposite(p, q)
          <=> Alike(p, q) /\ Close(p, q) /\ Turn(p, q, FALSE) = 180
    BY <1>2 DEF PassOpposite, CheckOpposite, BaseCheck, CheckConnection, Alike
  <1>6. PassSame(p, q)
          <=> Alike(p, q) /\ Snapped(p) = Snapped(q) /\ Turn(p, q, TRUE) = 0
    BY <1>2 DEF PassSame, CheckSame, BaseCheck, CheckConnection, Alike
  <1>7. QED
    BY <1>3, <1>4, <1>5, <1>6

(* Two ports' buckets, by their coordinates.                               *)
LEMMA Shifted ==
  ASSUME layout \in Layouts, NEW p \in Port, NEW q \in Port, NEW dx \in Int, NEW dy \in Int
  PROVE  Bucket(q) = Shift(Bucket(p), dx, dy)
           <=> /\ Snap(At(q).x) = Snap(At(p).x) + dx /\ Snap(At(q).y) = Snap(At(p).y) + dy
               /\ At(p).layer = At(q).layer
  <1>1. /\ Bucket(p).pos = <<Snap(At(p).x), Snap(At(p).y)>>
        /\ Bucket(p).layer = At(p).layer
    BY Places DEF Bucket
  <1>2. Shift(Bucket(p), dx, dy)
          = [pos |-> <<Snap(At(p).x) + dx, Snap(At(p).y) + dy>>, layer |-> At(p).layer]
    BY <1>1 DEF Shift
  <1>3. Bucket(q) = [pos |-> <<Snap(At(q).x), Snap(At(q).y)>>, layer |-> At(q).layer]
    BY Places DEF Bucket
  <1>4. QED
    BY <1>2, <1>3

LEMMA SameBucket ==
  ASSUME layout \in Layouts, NEW p \in Port, NEW q \in Port
  PROVE  Bucket(q) = Bucket(p)
           <=> Snap(At(q).x) = Snap(At(p).x) /\ Snap(At(q).y) = Snap(At(p).y) /\ At(p).layer = At(q).layer
  BY Places DEF Bucket
--------------------------------------------------------------------------------
(* What the search can find between two ports of a kind, and between a     *)
(* cell port and an instance port, is what passes the check.               *)
LEMMA FoundAlike ==
  ASSUME layout \in Layouts, NEW S \in {CellPort, Element}, NEW p \in S, NEW q \in S
  PROVE  Found(p, q) <=> /\ p # q /\ PassOpposite(p, q)
                         /\ \/ Snap(At(p).x) = Snap(At(q).x)
                            \/ Snap(At(p).y) = Snap(At(q).y)
  <1>1. p \in Port /\ q \in Port
    BY DEF Port
  <1>2. (p \in CellPort <=> q \in CellPort) /\ ~ Lies(p, q) /\ ~ Lies(q, p)
    BY AdjacencyAssumption DEF Lies
  <1>3. Touching(p, q) <=> p # q /\ Alike(p, q) /\ Close(p, q) /\ (At(p).angle + 180) % 360 = At(q).angle
    BY <1>2 DEF Touching, Faces
  <1>4. /\ Snapped(p)[1] = Snap(At(p).x) /\ Snapped(p)[2] = Snap(At(p).y)
        /\ Snapped(q)[1] = Snap(At(q).x) /\ Snapped(q)[2] = Snap(At(q).y)
    BY <1>1, Places
  <1>5. PassOpposite(p, q)
          <=> Alike(p, q) /\ Close(p, q) /\ (At(p).angle + 180) % 360 = At(q).angle
    BY <1>1, Checks
  <1>6. Found(p, q) <=> /\ Touching(p, q)
                        /\ Snapped(p)[1] = Snapped(q)[1] \/ Snapped(p)[2] = Snapped(q)[2]
    BY <1>2 DEF Found
  <1>7. QED
    BY <1>3, <1>4, <1>5, <1>6

LEMMA FoundAcross ==
  ASSUME layout \in Layouts, NEW p \in CellPort, NEW q \in Element
  PROVE  /\ Found(p, q) <=> PassSame(p, q)
         /\ Found(q, p) <=> Found(p, q)
  <1>1. p \in Port /\ q \in Port /\ q \notin CellPort
    BY AdjacencyAssumption DEF Port
  <1>2. PassSame(p, q)
          <=> Alike(p, q) /\ Snapped(p) = Snapped(q) /\ Quarter(At(p).angle) = Quarter(At(q).angle)
    BY <1>1, Checks
  <1>3. Alike(p, q) <=> Alike(q, p)
    BY DEF Alike
  <1>4. QED
    BY <1>1, <1>2, <1>3 DEF Found

(* Two close ports of a kind that share a coordinate are in one bucket, or *)
(* one is in a forward neighbour of the other's.                           *)
LEMMA Neighbours ==
  ASSUME layout \in Layouts, NEW p \in Port, NEW q \in Port, Close(p, q),
         At(p).layer = At(q).layer,
         Snap(At(p).x) = Snap(At(q).x) \/ Snap(At(p).y) = Snap(At(q).y)
  PROVE  \/ Bucket(q) \in {Bucket(p)} \cup ForwardNeighbors(Bucket(p))
         \/ Bucket(p) \in {Bucket(q)} \cup ForwardNeighbors(Bucket(q))
  <1> DEFINE px == At(p).x
             py == At(p).y
             qx == At(q).x
             qy == At(q).y
  <1>1. /\ px \in Nat /\ py \in Nat /\ qx \in Nat /\ qy \in Nat
        /\ Snap(px) \in Int /\ Snap(py) \in Int /\ Snap(qx) \in Int /\ Snap(qy) \in Int
    BY Places
  <1>2. 100 * ((px - qx) * (px - qx) + (py - qy) * (py - qy)) < Grid * Grid
    BY DEF Close
  <1>3. /\ Bucket(q) = Bucket(p) <=> Snap(qx) = Snap(px) /\ Snap(qy) = Snap(py)
        /\ Bucket(q) = Shift(Bucket(p), 1, 0) <=> Snap(qx) = Snap(px) + 1 /\ Snap(qy) = Snap(py) + 0
        /\ Bucket(q) = Shift(Bucket(p), 0, 1) <=> Snap(qx) = Snap(px) + 0 /\ Snap(qy) = Snap(py) + 1
        /\ Bucket(p) = Shift(Bucket(q), 1, 0) <=> Snap(px) = Snap(qx) + 1 /\ Snap(py) = Snap(qy) + 0
        /\ Bucket(p) = Shift(Bucket(q), 0, 1) <=> Snap(px) = Snap(qx) + 0 /\ Snap(py) = Snap(qy) + 1
    <2>1. Bucket(q) = Bucket(p) <=> Snap(qx) = Snap(px) /\ Snap(qy) = Snap(py)
      BY SameBucket
    <2>2. \A dx, dy \in Int : Bucket(q) = Shift(Bucket(p), dx, dy)
                                 <=> Snap(qx) = Snap(px) + dx /\ Snap(qy) = Snap(py) + dy
      BY Shifted
    <2>3. \A dx, dy \in Int : Bucket(p) = Shift(Bucket(q), dx, dy)
                                 <=> Snap(px) = Snap(qx) + dx /\ Snap(py) = Snap(qy) + dy
      BY Shifted
    <2> HIDE DEF px, py, qx, qy
    <2>4. QED
      BY <2>1, <2>2, <2>3
  <1>4. Snap(px) = Snap(qx) \/ Snap(py) = Snap(qy)
    OBVIOUS
  <1> HIDE DEF px, py, qx, qy
  <1>5. Snap(px) - Snap(qx) \in -1 .. 1
    <2>1. py - qy \in Int
      BY <1>1
    <2>2. QED
      BY <1>1, <1>2, <2>1, Rounding
  <1>6. Snap(py) - Snap(qy) \in -1 .. 1
    <2>1. px - qx \in Int
      BY <1>1
    <2>2. 100 * ((py - qy) * (py - qy) + (px - qx) * (px - qx)) < Grid * Grid
      <3> DEFINE u == (px - qx) * (px - qx)
                 v == (py - qy) * (py - qy)
      <3>1. u \in Int /\ v \in Int
        BY <1>1
      <3>2. u + v = v + u
        BY <3>1
      <3>3. QED
        BY <1>2, <3>2
    <2>3. QED
      BY <1>1, <2>1, <2>2, Rounding
  <1>7. QED
    BY <1>1, <1>3, <1>4, <1>5, <1>6 DEF ForwardNeighbors

--------------------------------------------------------------------------------
(* What a visit finds: two ports of a kind, the first in the bucket.       *)
LEMMA InPairs ==
  ASSUME NEW S, NEW h, NEW g
  PROVE  g \in PairsOf(S, h) <=>
           \E p, q \in Considered(S) :
              /\ p # q /\ g = {p, q} /\ Bucket(p) = h
              /\ Bucket(q) \in {h} \cup ForwardNeighbors(h)
              /\ \/ PassOpposite(p, q)
                 \/ PassOpposite(q, p)
  <1> DEFINE H == {h} \cup ForwardNeighbors(h)
  <1>1. g \in Facing(S, h) <=>
          \E p, q \in Considered(S) : g = {p, q} /\ Bucket(p) = h /\ Bucket(q) \in H
    BY DEF Facing, Within
  <1>2. g \in PairsOf(S, h) <=> g \in Facing(S, h) /\ \E a, b \in g : a # b /\ PassOpposite(a, b)
    BY DEF PairsOf, PassOpposite
  <1> HIDE DEF H
  <1>3. \A p, q : g = {p, q} =>
          ((\E a, b \in g : a # b /\ PassOpposite(a, b)) <=> p # q /\ (PassOpposite(p, q) \/ PassOpposite(q, p)))
    OBVIOUS
  <1>4. g \in PairsOf(S, h) <=>
          \E p, q \in Considered(S) : /\ p # q /\ g = {p, q} /\ Bucket(p) = h /\ Bucket(q) \in H
                                      /\ PassOpposite(p, q) \/ PassOpposite(q, p)
    BY <1>1, <1>2, <1>3
  <1>5. QED
    BY <1>4 DEF H

LEMMA InPortPairs ==
  ASSUME NEW h, NEW g
  PROVE  g \in PortPairs(h) <=>
           \E p \in Considered(CellPort), q \in Considered(Element) :
              /\ g = {p, q} /\ Bucket(p) = h /\ Bucket(q) \in Nearby(h)
              /\ PassSame(p, q)
  <1>1. g \in CellToInst(h) <=>
          \E p \in Considered(CellPort), q \in Considered(Element) :
             g = {p, q} /\ Bucket(p) = h /\ Bucket(q) \in Nearby(h)
    BY DEF CellToInst, Within
  <1>2. g \in PortPairs(h) <=>
          g \in CellToInst(h) /\ \E a \in g \cap CellPort, b \in g \cap Element : PassSame(a, b)
    BY DEF PortPairs, PassSame
  <1>3. \A p \in Considered(CellPort), q \in Considered(Element) :
           (g \cap CellPort = {p} /\ g \cap Element = {q}) \/ g # {p, q}
    BY AdjacencyAssumption DEF Considered
  <1>4. g \in PortPairs(h) <=>
          \E p \in Considered(CellPort), q \in Considered(Element) :
             g = {p, q} /\ Bucket(p) = h /\ Bucket(q) \in Nearby(h) /\ PassSame(p, q)
    BY <1>1, <1>2, <1>3
  <1>5. QED
    BY <1>4

LEMMA PairsShape ==
  ASSUME NEW S, NEW h, NEW g \in PairsOf(S, h)
  PROVE  /\ \E p, q \in Considered(S) :
               p # q /\ g = {p, q} /\ Bucket(p) = h /\ Bucket(q) \in {h} \cup ForwardNeighbors(h)
         /\ g \subseteq S /\ g # {}
  <1>1. PICK p \in Considered(S), q \in Considered(S) :
          p # q /\ g = {p, q} /\ Bucket(p) = h /\ Bucket(q) \in {h} \cup ForwardNeighbors(h)
    BY InPairs
  <1>2. g \subseteq S /\ g # {}
    BY <1>1 DEF Considered
  <1>3. QED
    BY <1>1, <1>2

LEMMA PortPairsShape ==
  ASSUME NEW h, NEW g \in PortPairs(h)
  PROVE  \E p \in Considered(CellPort), q \in Considered(Element) :
            /\ g = {p, q} /\ Bucket(p) = h
            /\ g \cap CellPort = {p} /\ g \cap Element = {q}
  <1>1. PICK p \in Considered(CellPort), q \in Considered(Element) : g = {p, q} /\ Bucket(p) = h
    BY InPortPairs
  <1>2. p \in CellPort \ Element /\ q \in Element \ CellPort
    BY AdjacencyAssumption DEF Considered
  <1>3. QED
    BY <1>1, <1>2

(* A contact is found from one bucket: of two buckets only one can be the  *)
(* forward neighbour of the other.                                         *)
LEMMA NotBothForward ==
  ASSUME layout \in Layouts, NEW p \in Port, NEW q \in Port,
         Bucket(q) \in ForwardNeighbors(Bucket(p))
  PROVE  Bucket(p) \notin {Bucket(q)} \cup ForwardNeighbors(Bucket(q))
  <1>1. /\ Snap(At(p).x) \in Int /\ Snap(At(p).y) \in Int
        /\ Snap(At(q).x) \in Int /\ Snap(At(q).y) \in Int
    BY Places
  <1>2. \A dx, dy \in Int : Bucket(q) = Shift(Bucket(p), dx, dy)
           => Snap(At(q).x) = Snap(At(p).x) + dx /\ Snap(At(q).y) = Snap(At(p).y) + dy
    BY Shifted
  <1>3. \A dx, dy \in Int : Bucket(p) = Shift(Bucket(q), dx, dy)
           => Snap(At(p).x) = Snap(At(q).x) + dx /\ Snap(At(p).y) = Snap(At(q).y) + dy
    BY Shifted
  <1>4. Bucket(p) = Bucket(q) => Snap(At(p).x) = Snap(At(q).x) /\ Snap(At(p).y) = Snap(At(q).y)
    BY SameBucket
  <1>5. QED
    BY <1>1, <1>2, <1>3, <1>4 DEF ForwardNeighbors

LEMMA PairsApart ==
  ASSUME layout \in Layouts, NEW S \in {CellPort, Element}, NEW h, NEW i, h # i
  PROVE  PairsOf(S, h) \cap PairsOf(S, i) = {}
  <1> SUFFICES ASSUME NEW g \in PairsOf(S, h), g \in PairsOf(S, i) PROVE FALSE
    OBVIOUS
  <1>1. PICK p \in Considered(S), q \in Considered(S) :
           p # q /\ g = {p, q} /\ Bucket(p) = h /\ Bucket(q) \in {h} \cup ForwardNeighbors(h)
    BY PairsShape
  <1>2. PICK r \in Considered(S), s \in Considered(S) :
           r # s /\ g = {r, s} /\ Bucket(r) = i /\ Bucket(s) \in {i} \cup ForwardNeighbors(i)
    BY PairsShape
  <1>3. p \in Port /\ q \in Port
    BY DEF Considered, Port
  <1>4. r = q /\ s = p
    BY <1>1, <1>2
  <1>5. Bucket(q) \in ForwardNeighbors(Bucket(p)) /\ Bucket(p) \in {Bucket(q)} \cup ForwardNeighbors(Bucket(q))
    BY <1>1, <1>2, <1>4
  <1>6. QED
    BY <1>3, <1>5, NotBothForward

LEMMA PortPairsApart ==
  ASSUME NEW h, NEW i, h # i
  PROVE  PortPairs(h) \cap PortPairs(i) = {}
  <1> SUFFICES ASSUME NEW g \in PortPairs(h), g \in PortPairs(i) PROVE FALSE
    OBVIOUS
  <1>1. PICK p : Bucket(p) = h /\ g \cap CellPort = {p}
    BY PortPairsShape
  <1>2. PICK q : Bucket(q) = i /\ g \cap CellPort = {q}
    BY PortPairsShape
  <1>3. QED
    BY <1>1, <1>2

LEMMA KindsApart ==
  ASSUME NEW h, NEW i
  PROVE  /\ PortPairs(h) \cap PairsOf(CellPort, i) = {}
         /\ PortPairs(h) \cap PairsOf(Element, i) = {}
         /\ PairsOf(CellPort, h) \cap PairsOf(Element, i) = {}
  <1>1. \A g \in PortPairs(h) : g \cap CellPort # {} /\ g \cap Element # {}
    <2>1. TAKE g \in PortPairs(h)
    <2>2. QED
      BY PortPairsShape
  <1>2. \A j : \A g \in PairsOf(CellPort, j) : g \subseteq CellPort /\ g # {}
    BY PairsShape
  <1>3. \A g \in PairsOf(Element, i) : g \subseteq Element /\ g # {}
    BY PairsShape
  <1>4. CellPort \cap Element = {}
    BY AdjacencyAssumption
  <1>5. QED
    BY <1>1, <1>2, <1>3, <1>4

LEMMA CellPairsApart ==
  ASSUME layout \in Layouts, NEW h, NEW i
  PROVE  /\ h # i => CellPairs(h) \cap CellPairs(i) = {}
         /\ CellPairs(h) \cap PairsOf(Element, i) = {}
  <1>1. ASSUME h # i PROVE CellPairs(h) \cap CellPairs(i) = {}
    <2>1. PairsOf(CellPort, h) \cap PairsOf(CellPort, i) = {}
      BY <1>1, PairsApart
    <2>2. PortPairs(h) \cap PortPairs(i) = {}
      BY <1>1, PortPairsApart
    <2>3. PortPairs(h) \cap PairsOf(CellPort, i) = {} /\ PortPairs(i) \cap PairsOf(CellPort, h) = {}
      BY KindsApart
    <2>4. QED
      BY <2>1, <2>2, <2>3 DEF CellPairs
  <1>2. PortPairs(h) \cap PairsOf(Element, i) = {} /\ PairsOf(CellPort, h) \cap PairsOf(Element, i) = {}
    BY KindsApart
  <1>3. QED
    BY <1>1, <1>2 DEF CellPairs
--------------------------------------------------------------------------------
(* When every bucket has been visited, what was found are the contacts.    *)
LEMMA OneCoordinate ==
  ASSUME layout \in Layouts, NEW p \in Port, NEW q \in Port,
         Bucket(q) \in {Bucket(p)} \cup ForwardNeighbors(Bucket(p))
  PROVE  Snap(At(p).x) = Snap(At(q).x) \/ Snap(At(p).y) = Snap(At(q).y)
  <1>1. Snap(At(p).x) \in Int /\ Snap(At(p).y) \in Int
    BY Places
  <1>2. \A dx, dy \in Int : Bucket(q) = Shift(Bucket(p), dx, dy)
           => Snap(At(q).x) = Snap(At(p).x) + dx /\ Snap(At(q).y) = Snap(At(p).y) + dy
    BY Shifted
  <1>3. Bucket(q) = Bucket(p) => Snap(At(p).x) = Snap(At(q).x)
    BY SameBucket
  <1>4. QED
    BY <1>1, <1>2, <1>3 DEF ForwardNeighbors

LEMMA ScannedAlike ==
  ASSUME layout \in Layouts, NEW S \in {CellPort, Element}, NEW g
  PROVE  (\E h \in Buckets(S) : g \in PairsOf(S, h))
           <=> \E p, q \in Considered(S) : g = {p, q} /\ Found(p, q)
  <1>1. ASSUME NEW h \in Buckets(S), g \in PairsOf(S, h)
        PROVE  \E p, q \in Considered(S) : g = {p, q} /\ Found(p, q)
    <2>1. PICK p \in Considered(S), q \in Considered(S) :
             /\ p # q /\ g = {p, q} /\ Bucket(p) = h
             /\ Bucket(q) \in {h} \cup ForwardNeighbors(h)
             /\ PassOpposite(p, q) \/ PassOpposite(q, p)
      BY <1>1, InPairs
    <2>2. p \in S /\ q \in S /\ p \in Port /\ q \in Port
      BY DEF Considered, Port
    <2>3. Snap(At(p).x) = Snap(At(q).x) \/ Snap(At(p).y) = Snap(At(q).y)
      BY <2>1, <2>2, OneCoordinate
    <2>4. Found(p, q) \/ Found(q, p)
      BY <2>1, <2>2, <2>3, FoundAlike
    <2>5. g = {q, p}
      BY <2>1
    <2>6. QED
      BY <2>1, <2>4, <2>5
  <1>2. ASSUME NEW p \in Considered(S), NEW q \in Considered(S), g = {p, q}, Found(p, q)
        PROVE  \E h \in Buckets(S) : g \in PairsOf(S, h)
    <2>1. p \in S /\ q \in S /\ p \in Port /\ q \in Port
      BY DEF Considered, Port
    <2>2. p # q /\ PassOpposite(p, q) /\ (Snap(At(p).x) = Snap(At(q).x) \/ Snap(At(p).y) = Snap(At(q).y))
      BY <1>2, <2>1, FoundAlike
    <2>3. Close(p, q) /\ At(p).layer = At(q).layer
      BY <2>1, <2>2, Checks DEF Alike
    <2>4. \/ Bucket(q) \in {Bucket(p)} \cup ForwardNeighbors(Bucket(p))
          \/ Bucket(p) \in {Bucket(q)} \cup ForwardNeighbors(Bucket(q))
      BY <2>1, <2>2, <2>3, Neighbours
    <2>5. g = {q, p}
      BY <1>2
    <2>6. g \in PairsOf(S, Bucket(p)) \/ g \in PairsOf(S, Bucket(q))
      BY <1>2, <2>2, <2>4, <2>5, InPairs
    <2>7. QED
      BY <2>6 DEF Buckets
  <1>3. QED
    BY <1>1, <1>2

LEMMA ScannedAcross ==
  ASSUME layout \in Layouts, NEW g
  PROVE  (\E h \in Buckets(CellPort) : g \in PortPairs(h))
           <=> \E p \in Considered(CellPort), q \in Considered(Element) : g = {p, q} /\ Found(p, q)
  <1>1. ASSUME NEW h \in Buckets(CellPort), g \in PortPairs(h)
        PROVE  \E p \in Considered(CellPort), q \in Considered(Element) : g = {p, q} /\ Found(p, q)
    <2>1. PICK p \in Considered(CellPort), q \in Considered(Element) : g = {p, q} /\ PassSame(p, q)
      BY <1>1, InPortPairs
    <2>2. p \in CellPort /\ q \in Element
      BY DEF Considered
    <2>3. QED
      BY <2>1, <2>2, FoundAcross
  <1>2. ASSUME NEW p \in Considered(CellPort), NEW q \in Considered(Element), g = {p, q}, Found(p, q)
        PROVE  \E h \in Buckets(CellPort) : g \in PortPairs(h)
    <2>1. p \in CellPort /\ q \in Element /\ p \in Port /\ q \in Port
      BY DEF Considered, Port
    <2>2. PassSame(p, q)
      BY <1>2, <2>1, FoundAcross
    <2>3. Snapped(p) = Snapped(q) /\ At(p).layer = At(q).layer
      BY <2>1, <2>2, Checks DEF Alike
    <2>4. /\ Snap(At(q).x) = Snap(At(p).x) + 0 /\ Snap(At(q).y) = Snap(At(p).y) + 0
      BY <2>1, <2>3, Places
    <2>5. Bucket(q) = Shift(Bucket(p), 0, 0)
      BY <2>1, <2>3, <2>4, Shifted
    <2>6. Bucket(q) \in Nearby(Bucket(p))
      BY <2>5 DEF Nearby
    <2>7. g \in PortPairs(Bucket(p))
      BY <1>2, <2>2, <2>6, InPortPairs
    <2>8. QED
      BY <2>7 DEF Buckets
  <1>3. QED
    BY <1>1, <1>2

LEMMA Contact ==
  ASSUME NEW g
  PROVE  g \in Contacts <=> \E p, q \in Considered(Port) : g = {p, q} /\ Found(p, q)
  <1>1. ASSUME NEW p \in Port PROVE ~ Found(p, p)
    BY DEF Found, Touching
  <1>2. g \in Contacts <=> (\E p, q \in Considered(Port) : g = {p, q}) /\ \E p, q \in g : Found(p, q)
    BY DEF Contacts
  <1>3. \A p \in Considered(Port) : ~ Found(p, p)
    BY <1>1 DEF Considered
  <1>4. QED
    BY <1>2, <1>3

LEMMA AllFound ==
  ASSUME layout \in Layouts
  PROVE  (UNION {CellPairs(h) : h \in Buckets(CellPort)})
           \cup (UNION {PairsOf(Element, h) : h \in Buckets(Element)}) = Contacts
  <1> DEFINE C == Considered(CellPort)
             E == Considered(Element)
             P == Considered(Port)
             AtCells == UNION {CellPairs(h) : h \in Buckets(CellPort)}
             AtInsts == UNION {PairsOf(Element, h) : h \in Buckets(Element)}
             All == AtCells \cup AtInsts
  <1>1. P = C \cup E
    BY DEF Considered, Port
  <1>2. \A p \in C, q \in E : Found(q, p) <=> Found(p, q)
    BY FoundAcross DEF Considered
  <1>3. ASSUME NEW g
        PROVE  g \in All <=> g \in Contacts
    <2>1. g \in All <=> \/ \E h \in Buckets(CellPort) : g \in PairsOf(CellPort, h)
                        \/ \E h \in Buckets(CellPort) : g \in PortPairs(h)
                        \/ \E h \in Buckets(Element) : g \in PairsOf(Element, h)
      <3>1. g \in All <=> \/ \E h \in Buckets(CellPort) : g \in CellPairs(h)
                          \/ \E h \in Buckets(Element) : g \in PairsOf(Element, h)
        <4>1. g \in AtCells <=> \E h \in Buckets(CellPort) : g \in CellPairs(h)
          OBVIOUS
        <4>2. g \in AtInsts <=> \E h \in Buckets(Element) : g \in PairsOf(Element, h)
          OBVIOUS
        <4> HIDE DEF AtCells, AtInsts
        <4>3. QED
          BY <4>1, <4>2
      <3>2. \A h : g \in CellPairs(h) <=> g \in PairsOf(CellPort, h) \/ g \in PortPairs(h)
        BY DEF CellPairs
      <3> HIDE DEF All
      <3>3. QED
        BY <3>1, <3>2
    <2>2. (\E h \in Buckets(CellPort) : g \in PairsOf(CellPort, h)) <=> \E p, q \in C : g = {p, q} /\ Found(p, q)
      BY ScannedAlike
    <2>3. (\E h \in Buckets(Element) : g \in PairsOf(Element, h)) <=> \E p, q \in E : g = {p, q} /\ Found(p, q)
      BY ScannedAlike
    <2>4. (\E h \in Buckets(CellPort) : g \in PortPairs(h)) <=> \E p \in C, q \in E : g = {p, q} /\ Found(p, q)
      BY ScannedAcross
    <2>5. g \in Contacts <=> \E p, q \in P : g = {p, q} /\ Found(p, q)
      BY Contact
    <2> HIDE DEF C, E, P, All
    <2>6. (\E p, q \in P : g = {p, q} /\ Found(p, q))
            <=> \/ \E p, q \in C : g = {p, q} /\ Found(p, q)
                \/ \E p, q \in E : g = {p, q} /\ Found(p, q)
                \/ \E p \in C, q \in E : g = {p, q} /\ Found(p, q)
      <3>1. \A p, q : {p, q} = {q, p}
        OBVIOUS
      <3>2. QED
        BY <1>1, <1>2, <3>1
    <2>7. QED
      BY <2>1, <2>2, <2>3, <2>4, <2>5, <2>6
  <1> HIDE DEF All
  <1>4. All = Contacts
    BY <1>3
  <1>5. QED
    BY <1>4 DEF All
--------------------------------------------------------------------------------
(* References and keys tell apart what has to be told apart.               *)
LEMMA ElementRefs ==
  ASSUME NEW p \in Element, NEW q \in Element
  PROVE  /\ NetRef(p) = NetRef(q) => p = q
         /\ Key(p) = p
  <1>1. p \notin CellPort /\ q \notin CellPort
    BY AdjacencyAssumption
  <1>2. Key(p) = p
    BY <1>1 DEF Key
  <1>3. ASSUME NetRef(p) = NetRef(q) PROVE p = q
    <2>1. NetRef(p) = IF p.inst \in Arrays THEN p ELSE [inst |-> p.inst, port |-> p.port]
      BY <1>1 DEF NetRef
    <2>2. NetRef(q) = IF q.inst \in Arrays THEN q ELSE [inst |-> q.inst, port |-> q.port]
      BY <1>1 DEF NetRef
    <2>3. NetRef(p).inst = p.inst /\ NetRef(p).port = p.port
      BY <2>1
    <2>4. NetRef(q).inst = q.inst /\ NetRef(q).port = q.port
      BY <2>2
    <2>5. p.inst = q.inst /\ p.port = q.port
      BY <1>3, <2>3, <2>4
    <2>6. CASE p.inst \in Arrays
      BY <1>3, <2>1, <2>2, <2>5, <2>6
    <2>7. CASE p.inst \notin Arrays
      BY <2>5, <2>7, AdjacencyAssumption
    <2>8. QED
      BY <2>6, <2>7
  <1>4. QED
    BY <1>2, <1>3

LEMMA CellRefs ==
  ASSUME NEW p \in CellPort, NEW q \in Element
  PROVE  /\ NetRef(p) = [top |-> layout.name[p]] /\ Key(p) = NetRef(p)
         /\ NetRef(p) # NetRef(q) /\ NetRef(p) # q
  <1>1. NetRef(p) = [top |-> layout.name[p]] /\ Key(p) = NetRef(p)
    BY DEF NetRef, Key
  <1>2. q \notin CellPort /\ q = [inst |-> q.inst, port |-> q.port, ia |-> q.ia, ib |-> q.ib]
    BY AdjacencyAssumption
  <1>3. "inst" \in DOMAIN q
    BY <1>2
  <1>4. "inst" \in DOMAIN NetRef(q)
    BY <1>2, <1>3 DEF NetRef
  <1>5. "inst" \notin DOMAIN NetRef(p)
    BY <1>1
  <1>6. QED
    BY <1>1, <1>3, <1>4, <1>5

LEMMA KeysAreRefs ==
  ASSUME NEW p \in Port, NEW q \in Port
  PROVE  Key(p) = Key(q) <=> NetRef(p) = NetRef(q)
  <1>1. \A a, b \in Element : (NetRef(a) = NetRef(b) => a = b) /\ Key(a) = a
    BY ElementRefs
  <1>2. \A a \in CellPort : Key(a) = NetRef(a)
    BY DEF Key
  <1>3. \A a \in CellPort, b \in Element : NetRef(a) # NetRef(b) /\ NetRef(a) # b
    BY CellRefs
  <1>4. p \in CellPort \cup Element /\ q \in CellPort \cup Element
    BY DEF Port
  <1>5. QED
    BY <1>1, <1>2, <1>3, <1>4

LEMMA RefsApart ==
  ASSUME ~ Colliding, NEW p \in Considered(Port), NEW q \in Considered(Port), NetRef(p) = NetRef(q)
  PROVE  p = q
  <1>1. p \in CellPort \cup Element /\ q \in CellPort \cup Element
    BY DEF Considered, Port
  <1>2. \A a, b \in Element : NetRef(a) = NetRef(b) => a = b
    BY ElementRefs
  <1>3. \A a \in CellPort, b \in Element : NetRef(a) # NetRef(b)
    BY CellRefs
  <1>4. ASSUME p \in CellPort, q \in CellPort PROVE p = q
    <2>1. p \in Considered(CellPort) /\ q \in Considered(CellPort)
      BY <1>4 DEF Considered
    <2>2. [top |-> layout.name[p]] = [top |-> layout.name[q]]
      BY <1>4 DEF NetRef
    <2>3. layout.name[p] = layout.name[q]
      BY <2>2
    <2>4. QED
      BY <2>1, <2>3 DEF Colliding
  <1>5. QED
    BY <1>1, <1>2, <1>3, <1>4

LEMMA RefsAreNets ==
  ASSUME layout \in Layouts, NEW p \in Port, NEW q \in Port
  PROVE  {NetRef(p), NetRef(q)} \in Net
  <1>1. ASSUME NEW c \in CellPort PROVE NetRef(c) \in AnyRef
    <2>1. NetRef(c) = [top |-> layout.name[c]]
      BY DEF NetRef
    <2>2. layout.name[c] \in UNION {{l.name[d] : d \in CellPort} : l \in Layouts}
      OBVIOUS
    <2>3. QED
      BY <2>1, <2>2 DEF AnyRef
  <1>2. ASSUME NEW e \in Element PROVE NetRef(e) \in AnyRef
    <2>1. e \notin CellPort
      BY AdjacencyAssumption
    <2>2. QED
      BY <2>1 DEF NetRef, AnyRef
  <1>3. NetRef(p) \in AnyRef /\ NetRef(q) \in AnyRef
    BY <1>1, <1>2 DEF Port
  <1>4. QED
    BY <1>3 DEF Net
--------------------------------------------------------------------------------
(* What has been seen are pairs of different ports, and their nets are     *)
(* pairs of references.                                                    *)
LEMMA SeenShape ==
  ASSUME NEW g \in Seen
  PROVE  /\ \E p, q \in Considered(Port) : p # q /\ g = {p, q}
         /\ pc \notin {"collect", "collision"}
  <1>1. \A S \in {CellPort, Element} : Considered(S) \subseteq Considered(Port)
    BY DEF Considered, Port
  <1>2. ASSUME NEW S \in {CellPort, Element}, NEW h, g \in PairsOf(S, h)
        PROVE  \E p, q \in Considered(Port) : p # q /\ g = {p, q}
    <2>1. PICK p \in Considered(S), q \in Considered(S) : p # q /\ g = {p, q}
      BY <1>2, PairsShape
    <2>2. QED
      BY <1>1, <2>1
  <1>3. ASSUME NEW h, g \in PortPairs(h)
        PROVE  \E p, q \in Considered(Port) : p # q /\ g = {p, q}
    <2>1. PICK p \in Considered(CellPort), q \in Considered(Element) : g = {p, q}
      BY <1>3, PortPairsShape
    <2>2. p # q
      BY AdjacencyAssumption DEF Considered
    <2>3. QED
      BY <1>1, <2>1, <2>2
  <1>4. (\E h \in CellsVisited : g \in CellPairs(h)) \/ (\E h \in InstsVisited : g \in PairsOf(Element, h))
    BY DEF Seen
  <1>5. pc \notin {"collect", "collision"}
    BY <1>4 DEF CellsVisited, InstsVisited
  <1>6. QED
    BY <1>2, <1>3, <1>4, <1>5 DEF CellPairs

LEMMA TwoElements ==
  ASSUME NEW a, NEW b
  PROVE  Cardinality({a, b}) = IF a = b THEN 1 ELSE 2
  <1>1. IsFiniteSet({a}) /\ Cardinality({a}) = 1
    BY FS_Singleton
  <1>2. Cardinality({a} \cup {b}) = IF b \in {a} THEN 1 ELSE 1 + 1
    BY <1>1, FS_AddElement
  <1>3. {a} \cup {b} = {a, b}
    OBVIOUS
  <1>4. QED
    BY <1>2, <1>3

LEMMA SeenArePairs ==
  ASSUME layout \in Layouts, pc \notin {"collect", "collision"} => ~ Colliding, NEW g \in Seen
  PROVE  Refs(g) \in Pairs
  <1>1. PICK p \in Considered(Port), q \in Considered(Port) : p # q /\ g = {p, q}
    BY SeenShape
  <1>2. ~ Colliding
    BY SeenShape
  <1>3. Refs(g) = {NetRef(p), NetRef(q)}
    BY <1>1 DEF Refs
  <1>4. NetRef(p) # NetRef(q)
    BY <1>1, <1>2, RefsApart
  <1>5. {NetRef(p), NetRef(q)} \in Net
    BY RefsAreNets DEF Considered
  <1>6. QED
    BY <1>3, <1>4, <1>5, TwoElements DEF Pairs

LEMMA Finite ==
  ASSUME NEW G \in SUBSET SUBSET Port, NEW n
  PROVE  /\ IsFiniteSet(With(G, n))
         /\ Cardinality(With(G, n)) \in Nat
         /\ Cardinality(With(G, n)) > 0 <=> \E g \in G : Refs(g) = n
  <1>1. IsFiniteSet(SUBSET Port)
    BY FS_SUBSET, AdjacencyAssumption
  <1>2. IsFiniteSet(With(G, n))
    BY <1>1, FS_Subset DEF With
  <1>3. Cardinality(With(G, n)) \in Nat
    BY <1>2, FS_CardinalityType
  <1>4. Cardinality(With(G, n)) = 0 <=> With(G, n) = {}
    BY <1>2, FS_EmptySet
  <1>5. QED
    BY <1>2, <1>3, <1>4 DEF With

LEMMA CountsAdd ==
  ASSUME NEW G \in SUBSET SUBSET Port, NEW H \in SUBSET SUBSET Port, G \cap H = {}, NEW n
  PROVE  Cardinality(With(G \cup H, n))
           = Cardinality(With(G, n)) + Cardinality(With(H, n))
  <1> DEFINE A == With(G, n)
             B == With(H, n)
  <1>1. IsFiniteSet(A) /\ Cardinality(A) \in Nat
    BY Finite
  <1>2. IsFiniteSet(B) /\ Cardinality(B) \in Nat
    BY Finite
  <1>3. A \cap B = {} /\ With(G \cup H, n) = A \cup B
    BY DEF With
  <1>4. Cardinality(A \cap B) = 0
    BY <1>3, FS_EmptySet
  <1> HIDE DEF A, B
  <1>5. Cardinality(A \cup B) = Cardinality(A) + Cardinality(B) - Cardinality(A \cap B)
    BY <1>1, <1>2, FS_Union
  <1>6. Cardinality(A \cup B) = Cardinality(A) + Cardinality(B)
    BY <1>1, <1>2, <1>4, <1>5
  <1>7. QED
    BY <1>3, <1>6 DEF A, B
--------------------------------------------------------------------------------
(* A step does not move the ports.                                         *)
LEMMA Stable ==
  ASSUME layout' = layout
  PROVE  /\ \A h : CellPairs(h)' = CellPairs(h) /\ PairsOf(Element, h)' = PairsOf(Element, h)
         /\ Buckets(CellPort)' = Buckets(CellPort) /\ Buckets(Element)' = Buckets(Element)
         /\ \A G : KeysOf(G)' = KeysOf(G) /\ Counts(G)' = Counts(G)
         /\ Considered(Port)' = Considered(Port)
         /\ \A p : Key(p)' = Key(p)
         /\ Colliding' = Colliding
  <1>1. \A p : At(p)' = At(p) /\ NetRef(p)' = NetRef(p) /\ Key(p)' = Key(p)
    BY DEF At, NetRef, Key
  <1>2. \A h : CellPairs(h)' = CellPairs(h) /\ PairsOf(Element, h)' = PairsOf(Element, h)
    BY DEF CellPairs, PairsOf, PortPairs, Facing, CellToInst, Within, Considered, At, Bucket, Snapped,
           CheckOpposite, CheckSame, BaseCheck, CheckConnection, Close, Turn
  <1>3. Buckets(CellPort)' = Buckets(CellPort) /\ Buckets(Element)' = Buckets(Element)
    BY DEF Buckets, Considered, At, Bucket, Snapped
  <1>4. \A G : KeysOf(G)' = KeysOf(G) /\ Counts(G)' = Counts(G)
    BY DEF KeysOf, Counts, With, Refs, Key, NetRef
  <1>5. Considered(Port)' = Considered(Port) /\ (Colliding' = Colliding)
    BY DEF Considered, At, Colliding
  <1>6. QED
    BY <1>1, <1>2, <1>3, <1>4, <1>5

(* Groups that were not found before are counted by Add.                   *)
LEMMA Counted ==
  ASSUME layout' = layout,
         NEW G \in SUBSET SUBSET Port, NEW H \in SUBSET SUBSET Port, G \cap H = {},
         nets = Counts(G), Add(H)
  PROVE  nets' = Counts(G \cup H)
  <1>1. \A n : Cardinality(With(G \cup H, n)) = Cardinality(With(G, n)) + Cardinality(With(H, n))
    BY CountsAdd
  <1>2. \A n \in Net : nets[n] = Cardinality(With(G, n))
    BY DEF Counts
  <1>3. nets' = [n \in Net |-> nets[n] + Cardinality(With(H, n))]
    BY DEF Add, With
  <1>4. QED
    BY <1>1, <1>2, <1>3 DEF Counts
LEMMA SeenNext ==
  ASSUME layout' = layout
  PROVE  Seen' = (UNION {CellPairs(h) : h \in CellsVisited'})
                   \cup (UNION {PairsOf(Element, h) : h \in InstsVisited'})
  BY Stable DEF Seen

LEMMA Groups ==
  ASSUME NEW h
  PROVE  /\ Seen \subseteq SUBSET Port /\ Alone \subseteq SUBSET Port
         /\ CellPairs(h) \subseteq SUBSET Port /\ PairsOf(Element, h) \subseteq SUBSET Port
  <1>1. \A g \in Seen : g \subseteq Port
    BY SeenShape DEF Considered
  <1>2. Alone \subseteq SUBSET Port
    BY DEF Alone, Unconnected, Considered
  <1>3. \A S : \A g \in PairsOf(S, h) : g \subseteq S
    BY PairsShape
  <1>4. \A g \in PortPairs(h) : g \subseteq Port
    <2>1. TAKE g \in PortPairs(h)
    <2>2. PICK p \in Considered(CellPort), q \in Considered(Element) : g = {p, q}
      BY PortPairsShape
    <2>3. QED
      BY <2>2 DEF Considered, Port
  <1>5. QED
    BY <1>1, <1>2, <1>3, <1>4 DEF CellPairs, Port

(* A step that visits a bucket: it finds what no other bucket has found.   *)
LEMMA Visit ==
  ASSUME IInv, layout' = layout, pc' = pc, pc # "done",
         NEW A \in SUBSET SUBSET Port, A \cap Seen = {}, Add(A),
         connected' = connected \cup KeysOf(A), Seen' = Seen \cup A
  PROVE  IInv'
  <1>1. Alone = {} /\ Alone' = {}
    BY DEF Alone
  <1>2. Seen \in SUBSET SUBSET Port
    BY Groups
  <1>3. nets = Counts(Seen)
    BY <1>1 DEF IInv
  <1>4. nets' = Counts(Seen \cup A)
    BY <1>2, <1>3, Counted
  <1>5. KeysOf(Seen \cup A) = KeysOf(Seen) \cup KeysOf(A)
    BY DEF KeysOf
  <1>6. KeysOf(Seen)' = KeysOf(Seen') /\ Counts(Seen \cup Alone)' = Counts(Seen' \cup Alone')
    BY Stable
  <1>7. /\ connected' = KeysOf(Seen)'
        /\ nets' = Counts(Seen \cup Alone)'
    <2>1. connected = KeysOf(Seen)
      BY DEF IInv
    <2>2. connected' = KeysOf(Seen')
      BY <1>5, <2>1
    <2>3. Seen' \cup Alone' = Seen \cup A
      BY <1>1
    <2>4. QED
      BY <1>4, <1>6, <2>2, <2>3
  <1>8. layout' \in Layouts /\ pc' \in {"collect", "cell", "inst", "open", "done", "collision"}
    BY DEF IInv
  <1>9. (pc \notin {"collect", "collision"} => ~ Colliding)'
    BY Stable DEF IInv
  <1>10. QED
    BY <1>7, <1>8, <1>9 DEF IInv

(* A step that visits none: what has been found stays what it was.         *)
LEMMA Turns ==
  ASSUME IInv, layout' = layout, pc # "done", pc' # "done",
         pc' \in {"collect", "cell", "inst", "open", "collision"},
         pc' \notin {"collect", "collision"} => ~ Colliding,
         connected' = connected, nets' = nets, Seen' = Seen
  PROVE  IInv'
  <1>1. Alone = {} /\ Alone' = {}
    BY DEF Alone
  <1>2. KeysOf(Seen)' = KeysOf(Seen') /\ Counts(Seen \cup Alone)' = Counts(Seen' \cup Alone')
    BY Stable
  <1>3. connected' = KeysOf(Seen)' /\ nets' = Counts(Seen \cup Alone)'
    BY <1>1, <1>2 DEF IInv
  <1>4. (pc \notin {"collect", "collision"} => ~ Colliding)'
    BY Stable
  <1>5. QED
    BY <1>3, <1>4 DEF IInv

(* The last step: the nets of the ports that no pair has connected.        *)
LEMMA Opens ==
  ASSUME IInv, OpenPorts
  PROVE  IInv'
  <1> DEFINE A == {{p} : p \in Unconnected}
  <1>1. pc = "open" /\ pc' = "done" /\ layout' = layout /\ connected' = connected /\ Add(A)
    BY DEF OpenPorts
  <1>2. Seen' = Seen
    <2>1. CellsVisited = Buckets(CellPort) /\ InstsVisited = Buckets(Element)
      BY <1>1 DEF CellsVisited, InstsVisited
    <2>2. CellsVisited' = Buckets(CellPort) /\ InstsVisited' = Buckets(Element)
      BY <1>1, Stable DEF CellsVisited, InstsVisited
    <2>3. QED
      BY <1>1, <2>1, <2>2, SeenNext DEF Seen
  <1>3. Alone = {} /\ Alone' = A
    <2>1. Unconnected' = Unconnected
      BY <1>1, Stable DEF Unconnected
    <2>2. QED
      BY <1>1, <2>1 DEF Alone
  <1>4. A \in SUBSET SUBSET Port
    BY DEF Unconnected, Considered
  <1>5. Seen \in SUBSET SUBSET Port
    BY Groups
  <1>6. A \cap Seen = {}
    BY SeenShape
  <1> HIDE DEF A
  <1>7. nets' = Counts(Seen \cup A)
    BY <1>1, <1>3, <1>4, <1>5, <1>6, Counted DEF IInv
  <1>8. KeysOf(Seen)' = KeysOf(Seen') /\ Counts(Seen \cup Alone)' = Counts(Seen' \cup Alone')
    BY <1>1, Stable
  <1>9. connected' = KeysOf(Seen)' /\ nets' = Counts(Seen \cup Alone)'
    BY <1>1, <1>2, <1>3, <1>7, <1>8 DEF IInv
  <1>10. ~ Colliding'
    BY <1>1, Stable DEF IInv
  <1>11. QED
    BY <1>1, <1>9, <1>10 DEF IInv

THEOREM Invariance == Spec => []IInv
  <1>1. Init => IInv
    <2> SUFFICES ASSUME Init PROVE IInv
      OBVIOUS
    <2>1. Seen = {} /\ Alone = {}
      BY DEF Init, Seen, Alone, CellsVisited, InstsVisited
    <2>2. KeysOf({}) = {}
      BY DEF KeysOf
    <2>3. \A n : With({}, n) = {}
      BY DEF With
    <2>4. Counts({}) = [n \in Net |-> 0]
      BY <2>3, FS_EmptySet DEF Counts
    <2>5. Seen \cup Alone = {}
      BY <2>1
    <2>6. QED
      BY <2>1, <2>2, <2>4, <2>5 DEF Init, IInv
  <1>2. IInv /\ [Next]_vars => IInv'
    <2> SUFFICES ASSUME IInv, [Next]_vars PROVE IInv'
      OBVIOUS
    <2>1. CASE Collide
      <3>1. Seen' = Seen /\ layout' = layout
        BY <2>1, SeenNext DEF Collide, Seen, CellsVisited, InstsVisited
      <3>2. QED
        BY <2>1, <3>1, Turns DEF Collide
    <2>2. CASE Collect
      <3>1. layout' = layout /\ CellsVisited = {} /\ CellsVisited' = {} /\ InstsVisited = {} /\ InstsVisited' = {}
        BY <2>2, Stable DEF Collect, CellsVisited, InstsVisited
      <3>2. Seen' = Seen
        BY <3>1, SeenNext DEF Seen
      <3>3. QED
        BY <2>2, <3>1, <3>2, Turns DEF Collect
    <2>3. ASSUME NEW h \in Buckets(CellPort), CellBucket(h) PROVE IInv'
      <3>1. /\ layout' = layout /\ pc = "cell" /\ pc' = "cell" /\ h \in todo /\ todo' = todo \ {h}
            /\ Add(CellPairs(h)) /\ connected' = connected \cup KeysOf(CellPairs(h))
        BY <2>3 DEF CellBucket
      <3>2. CellsVisited' = CellsVisited \cup {h} /\ InstsVisited' = {} /\ InstsVisited = {}
        BY <2>3, <3>1, Stable DEF CellsVisited, InstsVisited
      <3>3. Seen' = Seen \cup CellPairs(h)
        BY <3>1, <3>2, SeenNext DEF Seen
      <3>4. h \notin CellsVisited
        BY <3>1 DEF CellsVisited
      <3>5. \A i \in CellsVisited : CellPairs(h) \cap CellPairs(i) = {}
        BY <3>4, CellPairsApart DEF IInv
      <3>6. CellPairs(h) \cap Seen = {}
        BY <3>2, <3>5 DEF Seen
      <3>7. CellPairs(h) \in SUBSET SUBSET Port
        BY Groups
      <3>8. QED
        BY <3>1, <3>3, <3>6, <3>7, Visit
    <2>4. CASE CellsDone
      <3>1. /\ layout' = layout
            /\ CellsVisited = Buckets(CellPort) /\ CellsVisited' = Buckets(CellPort)
            /\ InstsVisited = {} /\ InstsVisited' = {}
        BY <2>4, Stable DEF CellsDone, CellsVisited, InstsVisited
      <3>2. Seen' = Seen
        BY <3>1, SeenNext DEF Seen
      <3>3. QED
        BY <2>4, <3>1, <3>2, Turns DEF CellsDone, IInv
    <2>5. ASSUME NEW h \in Buckets(Element), InstBucket(h) PROVE IInv'
      <3>1. /\ layout' = layout /\ pc = "inst" /\ pc' = "inst" /\ h \in todo /\ todo' = todo \ {h}
            /\ Add(PairsOf(Element, h)) /\ connected' = connected \cup KeysOf(PairsOf(Element, h))
        BY <2>5 DEF InstBucket
      <3>2. /\ CellsVisited' = CellsVisited
            /\ InstsVisited' = InstsVisited \cup {h}
        BY <2>5, <3>1, Stable DEF CellsVisited, InstsVisited
      <3>3. Seen' = Seen \cup PairsOf(Element, h)
        BY <3>1, <3>2, SeenNext DEF Seen
      <3>4. h \notin InstsVisited
        BY <3>1 DEF InstsVisited
      <3>5. \A i \in InstsVisited : PairsOf(Element, h) \cap PairsOf(Element, i) = {}
        BY <3>4, PairsApart DEF IInv
      <3>6. \A i \in CellsVisited : CellPairs(i) \cap PairsOf(Element, h) = {}
        BY CellPairsApart DEF IInv
      <3>7. PairsOf(Element, h) \cap Seen = {}
        BY <3>5, <3>6 DEF Seen
      <3>8. PairsOf(Element, h) \in SUBSET SUBSET Port
        BY Groups
      <3>9. QED
        BY <3>1, <3>3, <3>7, <3>8, Visit
    <2>6. CASE InstsDone
      <3>1. /\ layout' = layout
            /\ CellsVisited = Buckets(CellPort) /\ CellsVisited' = Buckets(CellPort)
            /\ InstsVisited = Buckets(Element) /\ InstsVisited' = Buckets(Element)
        BY <2>6, Stable DEF InstsDone, CellsVisited, InstsVisited
      <3>2. Seen' = Seen
        BY <3>1, SeenNext DEF Seen
      <3>3. QED
        BY <2>6, <3>1, <3>2, Turns DEF InstsDone, IInv
    <2>7. CASE OpenPorts
      BY <2>7, Opens
    <2>8. CASE UNCHANGED vars
      <3>1. /\ layout' = layout /\ pc' = pc /\ todo' = todo /\ connected' = connected /\ nets' = nets
        BY <2>8 DEF vars
      <3>2. CellsVisited' = CellsVisited /\ InstsVisited' = InstsVisited
        BY <3>1, Stable DEF CellsVisited, InstsVisited
      <3>3. Seen' = Seen
        BY <3>1, <3>2, SeenNext DEF Seen
      <3>4. Alone' = Alone
        <4>1. Unconnected' = Unconnected
          BY <3>1, Stable DEF Unconnected
        <4>2. QED
          BY <3>1, <4>1 DEF Alone
      <3>5. KeysOf(Seen)' = KeysOf(Seen') /\ Counts(Seen \cup Alone)' = Counts(Seen' \cup Alone')
        BY <3>1, Stable
      <3>6. connected' = KeysOf(Seen)' /\ nets' = Counts(Seen \cup Alone)'
        BY <3>1, <3>3, <3>4, <3>5 DEF IInv
      <3>7. (pc \notin {"collect", "collision"} => ~ Colliding)'
        BY <3>1, Stable DEF IInv
      <3>8. QED
        BY <3>1, <3>6, <3>7 DEF IInv
    <2>9. QED
      BY <2>1, <2>2, <2>3, <2>4, <2>5, <2>6, <2>7, <2>8 DEF Next
  <1>3. QED
    BY <1>1, <1>2, PTL DEF Spec
--------------------------------------------------------------------------------
(* What the invariant says of a port: the pairs of references it is on are *)
(* those of what has been found.                                           *)
LEMMA CountsSeen ==
  ASSUME IInv, NEW n \in Pairs
  PROVE  nets[n] = Cardinality(With(Seen, n))
  <1>1. Cardinality(n) = 2 /\ n \in Net
    BY DEF Pairs
  <1>2. \A g \in Alone : Refs(g) # n
    <2>1. TAKE g \in Alone
    <2>2. PICK p : g = {p}
      BY DEF Alone
    <2>3. Refs(g) = {NetRef(p)}
      BY <2>2 DEF Refs
    <2>4. Cardinality({NetRef(p)}) = 1
      BY FS_Singleton
    <2>5. QED
      BY <1>1, <2>3, <2>4
  <1>3. With(Seen \cup Alone, n) = With(Seen, n)
    BY <1>2 DEF With
  <1>4. QED
    BY <1>1, <1>3 DEF IInv, Counts

LEMMA OnAPair ==
  ASSUME IInv, NEW p \in Port
  PROVE  On(NetRef(p)) \cap Pairs # {} <=> \E g \in Seen : NetRef(p) \in Refs(g)
  <1>1. ASSUME NEW n \in Pairs
        PROVE  nets[n] > 0 <=> \E g \in Seen : Refs(g) = n
    <2>1. Seen \in SUBSET SUBSET Port
      BY Groups
    <2>2. Cardinality(With(Seen, n)) > 0 <=> \E g \in Seen : Refs(g) = n
      BY <2>1, Finite
    <2>3. QED
      BY <2>2, CountsSeen
  <1>2. \A g \in Seen : Refs(g) \in Pairs
    BY SeenArePairs DEF IInv
  <1>3. \A n \in Pairs : n \in Net
    BY DEF Pairs
  <1>4. QED
    BY <1>1, <1>2, <1>3 DEF On

LEMMA KeysOfPairs ==
  ASSUME IInv
  PROVE  connected = {Key(p) : p \in {p \in Port : On(NetRef(p)) \cap Pairs # {}}}
  <1>1. connected = KeysOf(Seen)
    BY DEF IInv
  <1>2. ASSUME NEW g \in Seen, NEW q \in g
        PROVE  q \in Port /\ On(NetRef(q)) \cap Pairs # {}
    <2>1. q \in Port
      BY SeenShape DEF Considered
    <2>2. NetRef(q) \in Refs(g)
      BY DEF Refs
    <2>3. QED
      BY <2>1, <2>2, OnAPair
  <1>3. ASSUME NEW p \in Port, On(NetRef(p)) \cap Pairs # {}
        PROVE  Key(p) \in KeysOf(Seen)
    <2>1. PICK g \in Seen : NetRef(p) \in Refs(g)
      BY <1>3, OnAPair
    <2>2. PICK q \in g : NetRef(p) = NetRef(q)
      BY <2>1 DEF Refs
    <2>3. q \in Port
      BY SeenShape DEF Considered
    <2>4. Key(p) = Key(q)
      BY <2>2, <2>3, KeysAreRefs
    <2>5. QED
      BY <2>4 DEF KeysOf
  <1>4. QED
    BY <1>1, <1>2, <1>3 DEF KeysOf

(* Types, and the keys: what the two sets of connected ports hold while    *)
(* the pairs are appended are the ports that are on a pair, under the name *)
(* or the indices the last loop will look them up by.                      *)
THEOREM Typing == Spec => []TypeOK
  <1>1. IInv => TypeOK
    <2> SUFFICES ASSUME IInv PROVE TypeOK
      OBVIOUS
    <2>1. nets \in [Net -> Nat]
      <3>1. Seen \cup Alone \in SUBSET SUBSET Port
        BY Groups
      <3>2. \A n : Cardinality(With(Seen \cup Alone, n)) \in Nat
        BY <3>1, Finite
      <3>3. QED
        BY <3>2 DEF IInv, Counts
    <2>2. QED
      BY <2>1, KeysOfPairs DEF IInv, TypeOK
  <1>2. QED
    BY <1>1, Invariance, PTL

LEMMA AtTheEnd ==
  ASSUME IInv, pc = "done"
  PROVE  Seen = Contacts /\ ~ Colliding /\ layout \in Layouts
  <1>1. CellsVisited = Buckets(CellPort) /\ InstsVisited = Buckets(Element)
    BY DEF CellsVisited, InstsVisited
  <1>2. ~ Colliding /\ layout \in Layouts
    BY DEF IInv
  <1>3. QED
    BY <1>1, <1>2, AllFound DEF Seen

(* One net for each contact and none for anything else; a port that is on  *)
(* none has a net of its own, once.                                        *)
THEOREM NetsOnce == Spec => []NetsAreContacts
  <1>1. IInv => NetsAreContacts
    <2> SUFFICES ASSUME IInv, pc = "done"
                 PROVE  /\ \A n \in Pairs : nets[n] = Cardinality({g \in Contacts : Refs(g) = n})
                        /\ \A p \in Considered(Port) :
                             nets[{NetRef(p)}] = IF On(NetRef(p)) \cap Pairs = {} THEN 1 ELSE 0
      BY DEF NetsAreContacts
    <2>1. Seen = Contacts /\ ~ Colliding /\ layout \in Layouts
      BY AtTheEnd
    <2>2. ASSUME NEW n \in Pairs
          PROVE  nets[n] = Cardinality({g \in Contacts : Refs(g) = n})
      BY <2>1, CountsSeen DEF With
    <2>3. ASSUME NEW p \in Considered(Port)
          PROVE  nets[{NetRef(p)}] = IF On(NetRef(p)) \cap Pairs = {} THEN 1 ELSE 0
      <3> DEFINE n == {NetRef(p)}
      <3>1. p \in Port
        BY DEF Considered
      <3>2. n \in Net
        <4>1. {NetRef(p), NetRef(p)} \in Net
          BY <2>1, <3>1, RefsAreNets
        <4>2. QED
          BY <4>1
      <3>3. nets[n] = Cardinality(With(Seen \cup Alone, n))
        BY <3>2 DEF IInv, Counts
      <3>4. \A g \in Seen : Refs(g) # n
        <4>1. Cardinality(n) = 1
          BY FS_Singleton
        <4>2. \A g \in Seen : Cardinality(Refs(g)) = 2
          BY SeenArePairs DEF IInv, Pairs
        <4>3. QED
          BY <4>1, <4>2
      <3>5. Alone = {{q} : q \in Unconnected}
        BY DEF Alone
      <3>6. \A q \in Considered(Port) : NetRef(q) = NetRef(p) => q = p
        BY <2>1, RefsApart
      <3>7. \A q : Refs({q}) = {NetRef(q)}
        BY DEF Refs
      <3>8. With(Seen \cup Alone, n) = IF p \in Unconnected THEN {{p}} ELSE {}
        BY <3>4, <3>5, <3>6, <3>7 DEF With, Unconnected
      <3>9. p \in Unconnected <=> On(NetRef(p)) \cap Pairs = {}
        <4>1. connected = {Key(q) : q \in {q \in Port : On(NetRef(q)) \cap Pairs # {}}}
          BY KeysOfPairs
        <4>2. \A q \in Port : Key(p) = Key(q) => NetRef(p) = NetRef(q)
          BY <3>1, KeysAreRefs
        <4>3. QED
          BY <3>1, <4>1, <4>2 DEF Unconnected
      <3>10. QED
        BY <3>3, <3>8, <3>9, FS_EmptySet, FS_Singleton
    <2>4. QED
      BY <2>2, <2>3
  <1>2. QED
    BY <1>1, Invariance, PTL
================================================================================
