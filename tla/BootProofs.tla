------------------------------ MODULE BootProofs ------------------------------
(***************************************************************************)
(* Proofs about Boot, for every layout, every machine and every number of   *)
(* tasks: the walks of every root stay what was asked for, and every frame  *)
(* out of the pool has one holder.                                          *)
(***************************************************************************)
EXTENDS Boot, PageTableProofs

-----------------------------------------------------------------------------
(* Shares: a pool of frames and the holders of those that are out of it *)

Part(free, held, all) ==
  /\ free \subseteq all
  /\ \A x \in DOMAIN held : held[x] \subseteq all \ free
  /\ \A f \in all \ free : \E x \in DOMAIN held : f \in held[x]
  /\ \A x, y \in DOMAIN held : x # y => held[x] \cap held[y] = {}

(* A holder takes frames from the pool. *)
LEMMA PartTake ==
  ASSUME NEW free, NEW held, NEW all, Part(free, held, all), NEW x \in DOMAIN held,
         NEW S \in SUBSET free, NEW held1, DOMAIN held1 = DOMAIN held,
         held1[x] = held[x] \cup S, \A y \in DOMAIN held : y # x => held1[y] = held[y],
         NEW free1, free1 = free \ S
  PROVE  Part(free1, held1, all)
<1>1. free1 \subseteq all
  BY DEF Part
<1>2. \A y \in DOMAIN held1 : held1[y] \subseteq all \ free1
  BY DEF Part
<1>3. ASSUME NEW f \in all \ free1 PROVE \E y \in DOMAIN held1 : f \in held1[y]
  <2>1. CASE f \in S
    BY <2>1
  <2>2. CASE f \notin S
    <3>1. PICK y \in DOMAIN held : f \in held[y]
      BY <2>2 DEF Part
    <3> QED BY <3>1
  <2> QED BY <2>1, <2>2
<1>4. ASSUME NEW y \in DOMAIN held1, NEW z \in DOMAIN held1, y # z PROVE held1[y] \cap held1[z] = {}
  <2>1. CASE y # x /\ z # x
    BY <1>4, <2>1 DEF Part
  <2>2. CASE y = x
    BY <1>4, <2>2 DEF Part
  <2>3. CASE z = x
    BY <1>4, <2>3 DEF Part
  <2> QED BY <2>1, <2>2, <2>3
<1> QED BY <1>1, <1>2, <1>3, <1>4 DEF Part

(* Holders give all they have back. *)
LEMMA PartGive ==
  ASSUME NEW free, NEW held, NEW all, Part(free, held, all), NEW X \in SUBSET DOMAIN held,
         NEW held1, DOMAIN held1 = DOMAIN held, \A x \in X : held1[x] = {},
         \A y \in DOMAIN held \ X : held1[y] = held[y],
         NEW free1, free1 = free \cup UNION {held[x] : x \in X}
  PROVE  Part(free1, held1, all)
<1>1. \A f : f \in free1 <=> f \in free \/ \E x \in X : f \in held[x]
  OBVIOUS
<1>2. free1 \subseteq all
  BY <1>1 DEF Part
<1>3. \A y \in DOMAIN held1 : held1[y] \subseteq all \ free1
  <2> SUFFICES ASSUME NEW y \in DOMAIN held1, NEW f \in held1[y] PROVE f \in all \ free1
    OBVIOUS
  <2>1. y \in DOMAIN held \ X /\ f \in held[y]
    OBVIOUS
  <2>2. \A x \in X : f \notin held[x]
    BY <2>1 DEF Part
  <2> QED BY <1>1, <2>1, <2>2 DEF Part
<1>4. \A f \in all \ free1 : \E y \in DOMAIN held1 : f \in held1[y]
  <2> SUFFICES ASSUME NEW f \in all \ free1 PROVE \E y \in DOMAIN held1 : f \in held1[y]
    OBVIOUS
  <2>1. PICK y \in DOMAIN held : f \in held[y]
    BY <1>1 DEF Part
  <2>2. y \notin X
    BY <1>1, <2>1
  <2> QED BY <2>1, <2>2
<1>5. \A y, z \in DOMAIN held1 : y # z => held1[y] \cap held1[z] = {}
  <2> SUFFICES ASSUME NEW y \in DOMAIN held1, NEW z \in DOMAIN held1, y # z
      PROVE held1[y] \cap held1[z] = {}
    OBVIOUS
  <2>1. CASE y \in X \/ z \in X
    BY <2>1
  <2>2. CASE y \notin X /\ z \notin X
    BY <2>2 DEF Part
  <2> QED BY <2>1, <2>2
<1> QED BY <1>2, <1>3, <1>4, <1>5 DEF Part

(* A holder hands all it has over to one that has nothing. *)
LEMMA PartMove ==
  ASSUME NEW free, NEW held, NEW all, Part(free, held, all), NEW x \in DOMAIN held,
         NEW z \in DOMAIN held, x # z, held[z] = {},
         NEW held1, DOMAIN held1 = DOMAIN held, held1[x] = {}, held1[z] = held[x],
         \A y \in DOMAIN held \ {x, z} : held1[y] = held[y]
  PROVE  Part(free, held1, all)
<1>1. \A y \in DOMAIN held1 : held1[y] \subseteq all \ free
  BY DEF Part
<1>2. \A f \in all \ free : \E y \in DOMAIN held1 : f \in held1[y]
  <2> SUFFICES ASSUME NEW f \in all \ free PROVE \E y \in DOMAIN held1 : f \in held1[y]
    OBVIOUS
  <2>1. PICK y \in DOMAIN held : f \in held[y]
    BY DEF Part
  <2> QED BY <2>1
<1>3. \A y, w \in DOMAIN held1 : y # w => held1[y] \cap held1[w] = {}
  <2> SUFFICES ASSUME NEW y \in DOMAIN held1, NEW w \in DOMAIN held1, y # w
      PROVE held1[y] \cap held1[w] = {}
    OBVIOUS
  <2>1. CASE y = x \/ w = x
    BY <2>1
  <2>2. CASE y = z /\ w # x
    BY <2>2 DEF Part
  <2>3. CASE w = z /\ y # x
    BY <2>3 DEF Part
  <2>4. CASE y \notin {x, z} /\ w \notin {x, z}
    BY <2>4 DEF Part
  <2> QED BY <2>1, <2>2, <2>3, <2>4
<1> QED BY <1>1, <1>2, <1>3 DEF Part

(* Frames nobody holds join the pool or leave it. *)
LEMMA PartResize ==
  ASSUME NEW free, NEW held, NEW all, Part(free, held, all), NEW free1, NEW all1,
         free1 \subseteq all1, all1 \ free1 = all \ free
  PROVE  Part(free1, held, all1)
BY DEF Part

-----------------------------------------------------------------------------
(* map_range for one range after the other *)

(* A range that is asked for on top of others paints over them. *)
LEMMA PaintedStep ==
  ASSUME NEW map, NEW ranges, NEW n \in Nat, n # 0, NEW va \in Pages
  PROVE  Painted(map, ranges, n)[va] =
           IF Covers(ranges[n], va) THEN Target(ranges[n], va) ELSE Painted(map, ranges, n - 1)[va]
<1> DEFINE C(k) == {i \in 1 .. k : Covers(ranges[i], va)}
<1>1. ASSUME NEW k \in Nat
      PROVE  Painted(map, ranges, k)[va] =
               IF C(k) = {} THEN map[va]
               ELSE Target(ranges[CHOOSE i \in C(k) : \A j \in C(k) : j <= i], va)
  BY DEF Painted
<1>2. n - 1 \in Nat
  OBVIOUS
<1>3. CASE Covers(ranges[n], va)
  <2>1. n \in C(n) /\ \A j \in C(n) : j <= n /\ j \in Int
    BY <1>3
  <2> HIDE DEF C
  <2>2. (CHOOSE i \in C(n) : \A j \in C(n) : j <= i) = n
    BY <2>1
  <2> QED BY <1>1, <1>3, <2>1, <2>2
<1>4. CASE ~Covers(ranges[n], va)
  <2>1. C(n) = C(n - 1)
    BY <1>4
  <2> HIDE DEF C
  <2> QED BY <1>1, <1>2, <1>4, <2>1
<1> QED BY <1>3, <1>4

(* Before the first range nothing is painted. *)
LEMMA PaintedNone ==
  ASSUME NEW map, NEW ranges, NEW va \in Pages
  PROVE  Painted(map, ranges, 0)[va] = map[va]
BY DEF Painted

(* One range *)
LEMMA PaintedOne ==
  ASSUME NEW map, NEW r, NEW va \in Pages
  PROVE  Painted(map, <<r>>, 1)[va] = IF Covers(r, va) THEN Target(r, va) ELSE map[va]
<1>1. <<r>>[1] = r /\ 1 - 1 = 0 /\ 1 \in Nat
  OBVIOUS
<1> QED BY <1>1, PaintedStep, PaintedNone

(* A memory that has panicked stays as it is. *)
LEMMA PanicStays ==
  ASSUME NEW mem, NEW root, NEW r, r.n \in Nat, ~mem.ok
  PROVE  MapRange(mem, root, r) = mem
<1>1. PICK turn : IsTurns(turn, mem, root, r)
  BY MapRangeDef
<1> DEFINE Bad == {n \in 0 .. r.n : turn[n].mem # mem}
<1>2. ASSUME Bad # {} PROVE FALSE
  <2>0. Bad \in SUBSET Nat
    OBVIOUS
  <2>1. PICK n \in Bad : n = 0 \/ (n - 1 \in Nat /\ n - 1 \notin Bad)
    <3> HIDE DEF Bad
    <3> QED BY <1>2, <2>0, FirstOf
  <2>2. CASE n = 0
    BY <1>1, <2>1, <2>2 DEF IsTurns
  <2>3. CASE n # 0
    <3>1. turn[n - 1].mem = mem /\ turn[n] = MapChunk(root, r, turn[n - 1])
      BY <1>1, <2>1, <2>3 DEF IsTurns
    <3>2. turn[n] = turn[n - 1]
      BY <3>1 DEF MapChunk
    <3> QED BY <2>1, <3>1, <3>2
  <2> QED BY <2>2, <2>3
<1>3. r.n \in 0 .. r.n
  OBVIOUS
<1> QED BY <1>1, <1>2, <1>3 DEF IsTurns

(* The memories between the ranges *)
IsRounds(after, mem, root, ranges) ==
  /\ MapRanges(mem, root, ranges) = after[Len(ranges)] /\ after[0] = mem
  /\ \A n \in 0 .. Len(ranges) : n # 0 => after[n] = MapRange(after[n - 1], root, ranges[n])

(* One round after the other *)
LEMMA MapRangesDef ==
  ASSUME NEW mem, NEW root, NEW ranges, Len(ranges) \in Nat
  PROVE  \E after : IsRounds(after, mem, root, ranges)
<1> DEFINE Step(t, n) == MapRange(t, root, ranges[n])
           Upto(x, k) == x = [n \in 0 .. k |-> IF n = 0 THEN mem ELSE Step(x[n - 1], n)]
           Bad == {k \in Nat : ~ \E x : Upto(x, k)}
<1>1. ASSUME Bad # {} PROVE FALSE
  <2>0. Bad \in SUBSET Nat
    OBVIOUS
  <2>1. PICK k \in Bad : k = 0 \/ (k - 1 \in Nat /\ k - 1 \notin Bad)
    <3> HIDE DEF Bad
    <3> QED BY <1>1, <2>0, FirstOf
  <2> HIDE DEF Step
  <2>2. CASE k = 0
    <3>1. Upto([n \in 0 .. 0 |-> mem], 0)
      OBVIOUS
    <3> QED BY <2>1, <2>2, <3>1
  <2>3. CASE k # 0
    <3>1. PICK x : Upto(x, k - 1)
      BY <2>1, <2>3
    <3> DEFINE y == [n \in 0 .. k |-> IF n = k THEN Step(x[k - 1], k) ELSE x[n]]
    <3>2. k \in Nat /\ \A n \in 0 .. k - 1 : x[n] = IF n = 0 THEN mem ELSE Step(x[n - 1], n)
      BY <2>1, <3>1
    <3>3. \A n \in 0 .. k : y[n] = IF n = 0 THEN mem ELSE Step(y[n - 1], n)
      <4> TAKE n \in 0 .. k
      <4>1. CASE n = k
        BY <2>3, <3>2, <4>1
      <4>2. CASE n # k
        <5>1. n \in 0 .. k - 1 /\ (n # 0 => n - 1 \in 0 .. k - 1)
          BY <3>2, <4>2
        <5> QED BY <3>2, <5>1
      <4> QED BY <4>1, <4>2
    <3>4. Upto(y, k)
      <4>1. y = [n \in 0 .. k |-> y[n]]
        OBVIOUS
      <4> HIDE DEF y
      <4> QED BY <3>3, <4>1
    <3> QED BY <2>1, <3>4
  <2> QED BY <2>2, <2>3
<1>2. \E x : Upto(x, Len(ranges))
  BY <1>1
<1>3. Upto(CHOOSE x : Upto(x, Len(ranges)), Len(ranges))
  BY <1>2, Zenon
<1> DEFINE after == CHOOSE x : Upto(x, Len(ranges))
<1>4. MapRanges(mem, root, ranges) = after[Len(ranges)]
  BY DEF MapRanges
<1>5. after = [n \in 0 .. Len(ranges) |-> IF n = 0 THEN mem ELSE Step(after[n - 1], n)]
  BY <1>3
<1> HIDE DEF after
<1>6. /\ after[0] = mem
      /\ \A n \in 0 .. Len(ranges) : n # 0 => after[n] = Step(after[n - 1], n)
  <2> HIDE DEF Step
  <2> QED BY <1>5
<1>7. IsRounds(after, mem, root, ranges)
  BY <1>4, <1>6 DEF IsRounds
<1> QED BY <1>7


(* Where the walks of mem1 lead: for one root as the map says, elsewhere as in mem *)
Leads(mem, h, mem1, root, map) ==
  \A r : IsRoot(h, r) => \A page \in Pages :
    Lookup(mem1, r, page) = IF r = root THEN map[page] ELSE Lookup(mem, r, page)

(* Each range is too short for blocks or goes where nothing is. *)
Fits(map, ranges, n) ==
  ranges[n].n < BLOCK \/ \A page \in Pages : Covers(ranges[n], page) =>
    map[page] = Nowhere /\ \A k \in 1 .. n - 1 : ~Covers(ranges[k], page)

(* Where nothing before has painted, the map is as it was. *)
LEMMA PaintedElsewhere ==
  ASSUME NEW map, NEW ranges, NEW n \in Nat, NEW va \in Pages,
         \A k \in 1 .. n : ~Covers(ranges[k], va)
  PROVE  Painted(map, ranges, n)[va] = map[va]
BY DEF Painted

(* The ranges that were asked for are what the walks follow. *)
LEMMA MapRangesIs ==
  ASSUME NEW mem, NEW h, ShapeOf(mem, h), Filled(mem, h, NoFrame), NEW root, IsRoot(h, root),
         NEW map, \A page \in Pages : Lookup(mem, root, page) = map[page],
         NEW ranges, Len(ranges) \in Nat,
         \A n \in 1 .. Len(ranges) : IsRange(ranges[n]) /\ Fits(map, ranges, n),
         NEW mem1, mem1 = MapRanges(mem, root, ranges), mem1.ok
  PROVE  \E h1 : /\ ShapeOf(mem1, h1) /\ Filled(mem1, h1, NoFrame) /\ Extends(mem, h, mem1, h1, root)
                 /\ Leads(mem, h, mem1, root, Painted(map, ranges, Len(ranges)))
<1> DEFINE len == Len(ranges)
<1>1. PICK after : IsRounds(after, mem, root, ranges)
  BY MapRangesDef
<1> DEFINE Good(n) ==
      \E h1 : /\ ShapeOf(after[n], h1) /\ Filled(after[n], h1, NoFrame)
              /\ Extends(mem, h, after[n], h1, root)
              /\ Leads(mem, h, after[n], root, Painted(map, ranges, n))
           Bad == {n \in 0 .. len : after[n].ok /\ ~Good(n)}
<1>2. ASSUME Bad # {} PROVE FALSE
  <2>0. Bad \in SUBSET Nat
    OBVIOUS
  <2>1. PICK n \in Bad : n = 0 \/ (n - 1 \in Nat /\ n - 1 \notin Bad)
    <3> HIDE DEF Bad
    <3> QED BY <1>2, <2>0, FirstOf
  <2>2. n \in 0 .. len /\ after[n].ok /\ ~Good(n)
    BY <2>1
  <2>3. CASE n = 0
    <3>1. after[0] = mem
      BY <1>1 DEF IsRounds
    <3>2. Extends(mem, h, mem, h, root)
      BY DEF Extends
    <3>3. Leads(mem, h, mem, root, Painted(map, ranges, 0))
      BY PaintedNone DEF Leads
    <3>4. Good(0)
      BY <3>1, <3>2, <3>3
    <3> QED BY <2>2, <2>3, <3>4
  <2>4. CASE n # 0
    <3> DEFINE last == after[n - 1]
               r == ranges[n]
    <3>1. n - 1 \in 0 .. len /\ n \in 1 .. len /\ n \in Nat /\ n - 1 \in Nat
      BY <2>2, <2>4
    <3>2. after[n] = MapRange(last, root, r)
      BY <1>1, <2>2, <2>4 DEF IsRounds
    <3>3. IsRange(r) /\ r.n \in Nat /\ Fits(map, ranges, n)
      BY <3>1 DEF IsRange
    <3>4. last.ok
      BY <2>2, <3>2, <3>3, PanicStays
    <3>5. Good(n - 1)
      BY <2>1, <2>4, <3>1, <3>4
    <3>6. PICK h0 : /\ ShapeOf(last, h0) /\ Filled(last, h0, NoFrame) /\ Extends(mem, h, last, h0, root)
                    /\ Leads(mem, h, last, root, Painted(map, ranges, n - 1))
      BY <3>5
    <3>7. IsRoot(h0, root)
      BY <3>6, ExtendsRoots
    <3>8. \A page \in Pages : Covers(r, page) <=> r.va <= page /\ page < r.va + r.n
      BY DEF Covers
    <3>9. r.n < BLOCK \/ \A page \in Pages :
            r.va <= page /\ page < r.va + r.n => Lookup(last, root, page) = Nowhere
      <4> SUFFICES ASSUME ~(r.n < BLOCK), NEW page \in Pages, Covers(r, page)
          PROVE Lookup(last, root, page) = Nowhere
        BY <3>8
      <4>1. map[page] = Nowhere /\ \A k \in 1 .. n - 1 : ~Covers(ranges[k], page)
        BY <3>3 DEF Fits
      <4>2. Painted(map, ranges, n - 1)[page] = Nowhere
        BY <3>1, <4>1, PaintedElsewhere
      <4> QED BY <3>6, <4>2 DEF Leads
    <3> DEFINE next == after[n]
    <3>10. next = MapRange(last, root, r) /\ next.ok
      BY <2>2, <3>2
    <3> HIDE DEF last, r, next
    <3>11. PICK h1 : /\ ShapeOf(next, h1) /\ Filled(next, h1, NoFrame) /\ Extends(last, h0, next, h1, root)
                     /\ Paints(last, h0, next, root, r.va, r.pa, r.n, r.attrs)
      BY <3>3, <3>6, <3>7, <3>9, <3>10, MapRangeIs
    <3>12. Extends(mem, h, next, h1, root)
      BY <3>6, <3>11, ExtendsTwice
    <3>13. Leads(mem, h, next, root, Painted(map, ranges, n))
      <4> SUFFICES ASSUME NEW rt, IsRoot(h, rt), NEW page \in Pages
          PROVE Lookup(next, rt, page) =
                  IF rt = root THEN Painted(map, ranges, n)[page] ELSE Lookup(mem, rt, page)
        BY DEF Leads
      <4>1. IsRoot(h0, rt)
        BY <3>6, ExtendsRoots
      <4>2. Lookup(next, rt, page) = IF rt = root /\ Covers(r, page) THEN Target(r, page) ELSE Lookup(last, rt, page)
        BY <3>8, <3>11, <4>1 DEF Paints, Target
      <4>3. Lookup(last, rt, page) = IF rt = root THEN Painted(map, ranges, n - 1)[page] ELSE Lookup(mem, rt, page)
        BY <3>6 DEF Leads
      <4>4. Painted(map, ranges, n)[page] =
              IF Covers(r, page) THEN Target(r, page) ELSE Painted(map, ranges, n - 1)[page]
        BY <2>4, <3>1, PaintedStep DEF r
      <4> QED BY <4>2, <4>3, <4>4
    <3>14. Good(n)
      BY <3>11, <3>12, <3>13 DEF next
    <3> QED BY <2>2, <3>14
  <2> QED BY <2>3, <2>4
<1>3. mem1 = after[len] /\ len \in 0 .. len
  BY <1>1 DEF IsRounds
<1>4. Good(len)
  BY <1>2, <1>3
<1> QED BY <1>3, <1>4

-----------------------------------------------------------------------------
(* A memory with its holders.  root says where the tables of a holder begin,  *)
(* other what the rest hold, a where each page of each root leads.            *)

Users == {"building"} \X {0} \cup {"space"} \X Tasks
RootHolders == {"low", "high", "empty"} \X {0} \cup Users
FrameHolders == {"kept"} \X {0} \cup {"stack"} \X Tasks

LeavesIn(map) == {map[va].at : va \in Pages} \ {NoFrame}
OwnedBy(h, a, r) == TablesOf(h, r) \cup (IF r \in DOMAIN a THEN LeavesIn(a[r]) ELSE {})

Holding(h, a, root, other) ==
  [x \in RootHolders \cup FrameHolders |->
     IF x \in Users THEN OwnedBy(h, a, root[x])
     ELSE IF x \in RootHolders THEN TablesOf(h, root[x]) ELSE other[x]]

(* A user space has each of its frames at one place. *)
OwnSpace(h, a, r) ==
  /\ \A va, vb \in Pages : a[r][va].at = a[r][vb].at /\ a[r][va].at # NoFrame => va = vb
  /\ TablesOf(h, r) \cap LeavesIn(a[r]) = {}

Ram == RAM_BASE .. RAM_BASE + MAX_RAM - 1

Sound(mem, h, a, root, other, end) ==
  /\ ShapeOf(mem, h) /\ Filled(mem, h, NoFrame) /\ DOMAIN mem.table = Ram
  /\ \A r : IsRoot(h, r) <=> r \in DOMAIN a
  /\ \A r : r \in DOMAIN a <=> r # NoRoot /\ \E x \in RootHolders : r = root[x]
  /\ \A r \in DOMAIN a : \A va \in Pages : Lookup(mem, r, va) = a[r][va]
  /\ Part(mem.free, Holding(h, a, root, other), KernelEnd .. end - 1)
  /\ \A x \in Users : root[x] # NoRoot => OwnSpace(h, a, root[x])

(* The holders, by kind *)
LEMMA HoldersAre ==
  /\ Holders = RootHolders \cup FrameHolders /\ Users \subseteq RootHolders
  /\ RootHolders \cap FrameHolders = {}
  /\ <<"kept", 0>> \in FrameHolders /\ <<"low", 0>> \in RootHolders \ Users
  /\ <<"high", 0>> \in RootHolders \ Users /\ <<"empty", 0>> \in RootHolders \ Users
  /\ <<"building", 0>> \in Users
  /\ \A t \in Tasks : <<"space", t>> \in Users /\ <<"stack", t>> \in FrameHolders
BY DEF Holders, RootHolders, FrameHolders, Users

(* What each kind of holder holds *)
LEMMA HoldingIs ==
  ASSUME NEW h, NEW a, NEW root, NEW other
  PROVE  /\ DOMAIN Holding(h, a, root, other) = RootHolders \cup FrameHolders
         /\ \A x \in Users : Holding(h, a, root, other)[x] = OwnedBy(h, a, root[x])
         /\ \A x \in RootHolders \ Users : Holding(h, a, root, other)[x] = TablesOf(h, root[x])
         /\ \A x \in FrameHolders : Holding(h, a, root, other)[x] = other[x]
BY HoldersAre DEF Holding

(* No two holders share a root. *)
LEMMA RootsDiffer ==
  ASSUME NEW mem, NEW h, NEW a, NEW root, NEW other, NEW end, Sound(mem, h, a, root, other, end),
         NEW x \in RootHolders, NEW y \in RootHolders, x # y, root[x] # NoRoot
  PROVE  root[x] # root[y]
<1> SUFFICES ASSUME root[x] = root[y] PROVE FALSE
  OBVIOUS
<1> DEFINE held == Holding(h, a, root, other)
           r == root[x]
<1>1. IsRoot(h, r)
  BY DEF Sound
<1>2. r \in TablesOf(h, r)
  BY <1>1 DEF IsRoot, TablesOf, Place
<1>3. \A z \in RootHolders : r = root[z] => r \in held[z] /\ z \in DOMAIN held
  <2> SUFFICES ASSUME NEW z \in RootHolders, r = root[z] PROVE r \in held[z] /\ z \in DOMAIN held
    OBVIOUS
  <2>1. CASE z \in Users
    <3>1. held[z] = OwnedBy(h, a, r) /\ z \in DOMAIN held
      BY <2>1, HoldingIs
    <3> QED BY <1>2, <3>1 DEF OwnedBy
  <2>2. CASE z \notin Users
    <3>1. held[z] = TablesOf(h, r) /\ z \in DOMAIN held
      BY <2>2, HoldingIs
    <3> QED BY <1>2, <3>1
  <2> QED BY <2>1, <2>2
<1> HIDE DEF held
<1>4. r \in held[x] /\ r \in held[y] /\ x \in DOMAIN held /\ y \in DOMAIN held
  BY <1>3
<1>5. Part(mem.free, held, KernelEnd .. end - 1)
  BY DEF Sound, held
<1> QED BY <1>4, <1>5 DEF Part

(* The tables of the roots, when one root has grown *)
LEMMA TablesGrow ==
  ASSUME NEW mem, NEW h, NEW mem1, NEW h1, NEW root, Extends(mem, h, mem1, h1, root)
  PROVE  /\ TablesOf(h1, root) = TablesOf(h, root) \cup (mem.free \ mem1.free)
         /\ \A r : r # root => TablesOf(h1, r) = TablesOf(h, r)
         /\ \A r : IsRoot(h1, r) <=> IsRoot(h, r)
<1>1. \A r : IsRoot(h1, r) <=> IsRoot(h, r)
  BY DEF Extends, IsRoot, Place
<1>2. TablesOf(h1, root) = TablesOf(h, root) \cup (mem.free \ mem1.free)
  BY DEF Extends, TablesOf
<1>3. \A r : r # root => TablesOf(h1, r) = TablesOf(h, r)
  BY DEF Extends, TablesOf
<1> QED BY <1>1, <1>2, <1>3

(* What a space owns does not change while another root grows. *)
LEMMA OwnedStays ==
  ASSUME NEW h, NEW a, NEW h1, NEW a1, NEW r,
         TablesOf(h1, r) = TablesOf(h, r),
         r \in DOMAIN a1 <=> r \in DOMAIN a, r \in DOMAIN a => a1[r] = a[r]
  PROVE  /\ OwnedBy(h1, a1, r) = OwnedBy(h, a, r)
         /\ r \in DOMAIN a /\ OwnSpace(h, a, r) => OwnSpace(h1, a1, r)
BY DEF OwnedBy, OwnSpace

(* A root of the kernel's grows. *)
LEMMA SoundPaint ==
  ASSUME NEW mem, NEW h, NEW a, NEW root, NEW other, NEW end, Sound(mem, h, a, root, other, end),
         NEW x \in RootHolders \ Users, root[x] # NoRoot,
         NEW mem1, NEW h1, ShapeOf(mem1, h1), Filled(mem1, h1, NoFrame),
         Extends(mem, h, mem1, h1, root[x]),
         NEW a1, DOMAIN a1 = DOMAIN a, \A r \in DOMAIN a : r # root[x] => a1[r] = a[r],
         Leads(mem, h, mem1, root[x], a1[root[x]])
  PROVE  Sound(mem1, h1, a1, root, other, end)
<1> DEFINE r0 == root[x]
           held == Holding(h, a, root, other)
           held1 == Holding(h1, a1, root, other)
           S == mem.free \ mem1.free
<1>1. /\ TablesOf(h1, r0) = TablesOf(h, r0) \cup S
      /\ \A r : r # r0 => TablesOf(h1, r) = TablesOf(h, r)
      /\ \A r : IsRoot(h1, r) <=> IsRoot(h, r)
  BY TablesGrow
<1>2. \A y \in RootHolders : y # x => root[y] # r0
  BY RootsDiffer
<1>3. DOMAIN held1 = DOMAIN held /\ x \in DOMAIN held /\ held1[x] = held[x] \cup S
  BY <1>1, HoldingIs
<1>4. ASSUME NEW y \in DOMAIN held, y # x PROVE held1[y] = held[y]
  <2>1. CASE y \in Users
    <3>1. root[y] # r0
      BY <1>2, <1>4, <2>1, HoldersAre
    <3>2. OwnedBy(h1, a1, root[y]) = OwnedBy(h, a, root[y])
      BY <1>1, <3>1, OwnedStays
    <3> QED BY <2>1, <3>2, HoldingIs
  <2>2. CASE y \in RootHolders \ Users
    BY <1>1, <1>2, <1>4, <2>2, HoldingIs
  <2>3. CASE y \in FrameHolders
    BY <2>3, HoldingIs
  <2> QED BY <2>1, <2>2, <2>3, HoldingIs
<1>5. Part(mem1.free, held1, KernelEnd .. end - 1)
  <2>1. Part(mem.free, held, KernelEnd .. end - 1) /\ S \subseteq mem.free /\ mem1.free = mem.free \ S
    BY DEF Sound, Extends
  <2> HIDE DEF held, held1, S
  <2> QED BY <1>3, <1>4, <2>1, PartTake
<1>6. \A r \in DOMAIN a1 : \A va \in Pages : Lookup(mem1, r, va) = a1[r][va]
  BY DEF Sound, Leads
<1>7. \A y \in Users : root[y] # NoRoot => OwnSpace(h1, a1, root[y])
  <2> SUFFICES ASSUME NEW y \in Users, root[y] # NoRoot PROVE OwnSpace(h1, a1, root[y])
    OBVIOUS
  <2>1. root[y] # r0 /\ root[y] \in DOMAIN a /\ OwnSpace(h, a, root[y])
    BY <1>2, HoldersAre DEF Sound
  <2> QED BY <1>1, <2>1, OwnedStays
<1>8. DOMAIN mem1.table = Ram
  BY DEF Sound, Extends
<1>9. /\ \A r : IsRoot(h1, r) <=> r \in DOMAIN a1
      /\ \A r : r \in DOMAIN a1 <=> r # NoRoot /\ \E y \in RootHolders : r = root[y]
  BY <1>1 DEF Sound
<1> QED BY <1>5, <1>6, <1>7, <1>8, <1>9 DEF Sound

(* The frames a holder has are in memory and not free. *)
LEMMA HeldOut ==
  ASSUME NEW mem, NEW h, NEW a, NEW root, NEW other, NEW end, Sound(mem, h, a, root, other, end)
  PROVE  /\ mem.ok /\ mem.free \subseteq Nat /\ mem.free \subseteq Ram /\ mem.free \subseteq KernelEnd .. end - 1
         /\ \A x \in RootHolders : TablesOf(h, root[x]) \cap mem.free = {}
         /\ \A x \in Users : OwnedBy(h, a, root[x]) \cap mem.free = {}
         /\ \A x \in FrameHolders : other[x] \cap mem.free = {}
         /\ DOMAIN h \cap mem.free = {}
<1> DEFINE held == Holding(h, a, root, other)
<1>1. mem.ok /\ mem.free \subseteq Nat /\ DOMAIN h \cap mem.free = {} /\ mem.free \subseteq Ram
  BY DEF Sound, ShapeOf, InMemory
<1>2. \A x \in DOMAIN held : held[x] \cap mem.free = {}
  <2>1. Part(mem.free, held, KernelEnd .. end - 1)
    BY DEF Sound
  <2> HIDE DEF held
  <2> QED BY <2>1 DEF Part
<1>3. \A x \in Users : OwnedBy(h, a, root[x]) \cap mem.free = {}
  BY <1>2, HoldingIs, HoldersAre
<1>4. \A x \in FrameHolders : other[x] \cap mem.free = {}
  BY <1>2, HoldingIs, HoldersAre
<1>5. \A x \in RootHolders : TablesOf(h, root[x]) \cap mem.free = {}
  BY <1>1 DEF TablesOf
<1>6. mem.free \subseteq KernelEnd .. end - 1
  BY DEF Sound, Part
<1> QED BY <1>1, <1>3, <1>4, <1>5, <1>6

(* A user space gets a page. *)
LEMMA SoundUserPage ==
  ASSUME NEW mem, NEW h, NEW a, NEW root, NEW other, NEW end, Sound(mem, h, a, root, other, end),
         NEW x \in Users, root[x] # NoRoot, NEW va \in Pages, a[root[x]][va] = Nowhere,
         NEW attrs, attrs # "fault",
         NEW mem1, mem1 = UserPage(mem, root[x], va, attrs), mem1.ok,
         NEW a1, DOMAIN a1 = DOMAIN a, \A r \in DOMAIN a : r # root[x] => a1[r] = a[r],
         \A page \in Pages : a1[root[x]][page] =
            IF page = va THEN [at |-> Lowest(mem.free), attrs |-> attrs] ELSE a[root[x]][page]
  PROVE  /\ mem.free # {} /\ \E h1 : Sound(mem1, h1, a1, root, other, end)
         /\ mem1.free \subseteq mem.free
<1> DEFINE r0 == root[x]
           page == Lowest(mem.free)
           mem2 == Claim(mem, {page})
           r == R(va, page, 1, attrs)
<1>1. mem.free # {} /\ mem.ok /\ mem1 = MapRange(mem2, r0, r)
  BY DEF UserPage, Panicked
<1>2. page \in mem.free /\ page \in Nat
  BY <1>1, HeldOut, LowestIs
<1>3. r.va = va /\ r.pa = page /\ r.n = 1 /\ r.attrs = attrs
  BY DEF R
<1> HIDE DEF page, mem2, r
<1>4. /\ ShapeOf(mem2, h) /\ Filled(mem2, h, NoFrame) /\ SameWalks(mem, h, mem2)
      /\ mem2.free = mem.free \ {page} /\ DOMAIN mem2.table = DOMAIN mem.table
  BY <1>2, ClaimStays DEF Sound, mem2
<1>5. x \in RootHolders /\ r0 \in DOMAIN a /\ IsRoot(h, r0)
  BY HoldersAre DEF Sound
<1>6. va \in Nat /\ va < PAGES /\ PAGES \in Nat
  BY Spans DEF Pages
<1>7. IsRange(r)
  BY <1>2, <1>3, <1>6 DEF IsRange
<1>8. ASSUME NEW p \in Pages PROVE (r.va <= p /\ p < r.va + r.n) <=> p = va
  BY <1>3, <1>6 DEF Pages
<1>9. \A p \in Pages : r.va <= p /\ p < r.va + r.n => Lookup(mem2, r0, p) = Nowhere
  <2> SUFFICES ASSUME NEW p \in Pages, p = va PROVE Lookup(mem2, r0, p) = Nowhere
    BY <1>8
  <2> QED BY <1>4, <1>5 DEF Sound, SameWalks
<1>10. PICK h1 : /\ ShapeOf(mem1, h1) /\ Filled(mem1, h1, NoFrame) /\ Extends(mem2, h, mem1, h1, r0)
                 /\ Paints(mem2, h, mem1, r0, r.va, r.pa, r.n, r.attrs)
  BY <1>1, <1>4, <1>5, <1>7, <1>9, MapRangeIs
<1> DEFINE held == Holding(h, a, root, other)
           held1 == Holding(h1, a1, root, other)
           new == mem2.free \ mem1.free
           S == mem.free \ mem1.free
<1>11. /\ TablesOf(h1, r0) = TablesOf(h, r0) \cup new
       /\ \A rt : rt # r0 => TablesOf(h1, rt) = TablesOf(h, rt)
       /\ \A rt : IsRoot(h1, rt) <=> IsRoot(h, rt)
  BY <1>10, TablesGrow
<1>12. mem1.free \subseteq mem2.free /\ S = new \cup {page} /\ page \notin new /\ S \subseteq mem.free
       /\ mem1.free = mem.free \ S
  BY <1>2, <1>4, <1>10 DEF Extends
<1>13. LeavesIn(a1[r0]) = LeavesIn(a[r0]) \cup {page}
  <2>1. \A p \in Pages : a1[r0][p].at = IF p = va THEN page ELSE a[r0][p].at
    BY DEF page
  <2>2. a[r0][va].at = NoFrame /\ page # NoFrame
    BY <1>2 DEF Nowhere, NoFrame
  <2> QED BY <2>1, <2>2 DEF LeavesIn
<1>14. OwnedBy(h1, a1, r0) = OwnedBy(h, a, r0) \cup S
  BY <1>5, <1>11, <1>12, <1>13 DEF OwnedBy
<1>15. \A y \in RootHolders : y # x => root[y] # r0
  BY <1>5, RootsDiffer
<1>16. DOMAIN held1 = DOMAIN held /\ x \in DOMAIN held /\ held1[x] = held[x] \cup S
  BY <1>5, <1>14, HoldingIs
<1>17. ASSUME NEW y \in DOMAIN held, y # x PROVE held1[y] = held[y]
  <2>1. CASE y \in Users
    <3>1. root[y] # r0
      BY <1>15, <1>17, <2>1, HoldersAre
    <3>2. OwnedBy(h1, a1, root[y]) = OwnedBy(h, a, root[y])
      BY <1>11, <3>1, OwnedStays
    <3> QED BY <2>1, <3>2, HoldingIs
  <2>2. CASE y \in RootHolders \ Users
    BY <1>11, <1>15, <1>17, <2>2, HoldingIs
  <2>3. CASE y \in FrameHolders
    BY <2>3, HoldingIs
  <2> QED BY <2>1, <2>2, <2>3, HoldingIs
<1>18. Part(mem1.free, held1, KernelEnd .. end - 1)
  <2>1. Part(mem.free, held, KernelEnd .. end - 1)
    BY DEF Sound
  <2>2. S \subseteq mem.free /\ mem1.free = mem.free \ S
    BY <1>12
  <2> HIDE DEF held, held1, S, new
  <2> QED BY <1>16, <1>17, <2>1, <2>2, PartTake
<1>19. \A rt \in DOMAIN a1 : \A p \in Pages : Lookup(mem1, rt, p) = a1[rt][p]
  <2> SUFFICES ASSUME NEW rt \in DOMAIN a, NEW p \in Pages PROVE Lookup(mem1, rt, p) = a1[rt][p]
    OBVIOUS
  <2>1. IsRoot(h, rt) /\ Lookup(mem2, rt, p) = a[rt][p]
    BY <1>4 DEF Sound, SameWalks
  <2>2. Lookup(mem1, rt, p) = IF rt = r0 /\ p = va THEN [at |-> page + (p - va), attrs |-> attrs] ELSE a[rt][p]
    BY <1>3, <1>8, <1>10, <2>1 DEF Paints
  <2>3. p = va => page + (p - va) = page
    BY <1>2, <1>6
  <2> QED BY <2>2, <2>3 DEF page
<1>20. OwnSpace(h1, a1, r0)
  <2>0. OwnSpace(h, a, r0) /\ LeavesIn(a[r0]) \cap mem.free = {} /\ TablesOf(h, r0) \cap mem.free = {}
    BY <1>5, HeldOut DEF Sound, OwnedBy
  <2>1. ASSUME NEW p \in Pages, NEW q \in Pages, a1[r0][p].at = a1[r0][q].at, a1[r0][p].at # NoFrame
        PROVE  p = q
    <3>1. \A w \in Pages : a[r0][w].at # page
      <4> SUFFICES ASSUME NEW w \in Pages, a[r0][w].at = page PROVE FALSE
        OBVIOUS
      <4>1. page \in LeavesIn(a[r0])
        BY <1>2 DEF LeavesIn, NoFrame
      <4> QED BY <1>2, <2>0, <4>1
    <3>2. \A w \in Pages : a1[r0][w].at = IF w = va THEN page ELSE a[r0][w].at
      BY DEF page
    <3> QED BY <2>0, <2>1, <3>1, <3>2 DEF OwnSpace
  <2>2. TablesOf(h1, r0) \cap LeavesIn(a1[r0]) = {}
    BY <1>2, <1>11, <1>12, <1>13, <2>0 DEF OwnSpace
  <2> QED BY <2>1, <2>2 DEF OwnSpace
<1>21. \A y \in Users : root[y] # NoRoot => OwnSpace(h1, a1, root[y])
  <2> SUFFICES ASSUME NEW y \in Users, root[y] # NoRoot PROVE OwnSpace(h1, a1, root[y])
    OBVIOUS
  <2>1. CASE y = x
    BY <1>20, <2>1
  <2>2. CASE y # x
    <3>1. root[y] # r0 /\ root[y] \in DOMAIN a /\ OwnSpace(h, a, root[y])
      BY <1>15, <2>2, HoldersAre DEF Sound
    <3> QED BY <1>11, <3>1, OwnedStays
  <2> QED BY <2>1, <2>2
<1>22. DOMAIN mem1.table = Ram
  BY <1>4, <1>10 DEF Sound, Extends
<1>23. /\ \A rt : IsRoot(h1, rt) <=> rt \in DOMAIN a1
       /\ \A rt : rt \in DOMAIN a1 <=> rt # NoRoot /\ \E y \in RootHolders : rt = root[y]
  BY <1>11 DEF Sound
<1>24. Sound(mem1, h1, a1, root, other, end)
  BY <1>10, <1>18, <1>19, <1>21, <1>22, <1>23 DEF Sound
<1> QED BY <1>1, <1>12, <1>24

(* No root, nothing owned *)
LEMMA NoRootOwnsNothing ==
  ASSUME NEW mem, NEW h, NEW a, NEW root, NEW other, NEW end, Sound(mem, h, a, root, other, end),
         NEW r, r \notin DOMAIN a
  PROVE  TablesOf(h, r) = {} /\ OwnedBy(h, a, r) = {}
<1>1. TablesOf(h, r) = {}
  <2> SUFFICES ASSUME NEW f \in DOMAIN h, h[f].root = r PROVE FALSE
    BY DEF TablesOf
  <2>1. IsRoot(h, r)
    BY DEF Sound, ShapeOf, HomesOf
  <2> QED BY <2>1 DEF Sound
<1> QED BY <1>1 DEF OwnedBy

(* Every table is held. *)
LEMMA TablesHeld ==
  ASSUME NEW mem, NEW h, NEW a, NEW root, NEW other, NEW end, Sound(mem, h, a, root, other, end),
         NEW f \in DOMAIN h
  PROVE  \E x \in RootHolders :
           /\ root[x] # NoRoot /\ h[f].root = root[x] /\ root[x] \in DOMAIN a
           /\ x \in DOMAIN Holding(h, a, root, other) /\ f \in Holding(h, a, root, other)[x]
<1>1. IsRoot(h, h[f].root)
  BY DEF Sound, ShapeOf, HomesOf
<1>2. PICK x \in RootHolders : h[f].root = root[x] /\ root[x] # NoRoot /\ root[x] \in DOMAIN a
  BY <1>1 DEF Sound
<1>3. f \in TablesOf(h, root[x])
  BY <1>2 DEF TablesOf
<1>4. CASE x \in Users
  BY <1>2, <1>3, <1>4, HoldingIs DEF OwnedBy
<1>5. CASE x \notin Users
  BY <1>2, <1>3, <1>5, HoldingIs
<1> QED BY <1>4, <1>5

(* A free frame becomes a root. *)
LEMMA SoundNewRoot ==
  ASSUME NEW mem, NEW h, NEW a, NEW root, NEW other, NEW end, Sound(mem, h, a, root, other, end),
         NEW x \in RootHolders, root[x] = NoRoot, NEW new \in mem.free,
         NEW one, one = {new}, NEW mem1, mem1 = Claim(mem, one),
         NEW root1, root1[x] = new, \A y \in RootHolders : y # x => root1[y] = root[y],
         NEW a1, DOMAIN a1 = DOMAIN a \cup {new}, \A r \in DOMAIN a : a1[r] = a[r],
         \A va \in Pages : a1[new][va] = Nowhere
  PROVE  \E h1 : Sound(mem1, h1, a1, root1, other, end)
<1>0. new \in Ram /\ new # NoRoot /\ new \notin DOMAIN h /\ new \notin DOMAIN a
  <2>1. new \in Ram /\ new \notin DOMAIN h
    BY HeldOut
  <2>2. new # NoRoot
    BY <2>1, LayoutAssumption DEF Ram, NoRoot
  <2> QED BY <2>1, <2>2 DEF Sound, IsRoot
<1>1. /\ ShapeOf(mem1, h) /\ Filled(mem1, h, NoFrame) /\ SameWalks(mem, h, mem1)
      /\ mem1.free = mem.free \ {new} /\ DOMAIN mem1.table = DOMAIN mem.table
  BY ClaimStays DEF Sound
<1>2. new \in DOMAIN mem1.table /\ DOMAIN mem1.table[new] = {}
  <2>1. new \in DOMAIN mem.table
    BY <1>0 DEF Sound
  <2> QED BY <1>1, <2>1, ClaimIs DEF Zeroed
<1>3. PICK h1 : NewRooted(mem1, h, h1, new)
  <2>1. new \notin mem1.free
    BY <1>1
  <2> QED BY <1>0, <1>1, <1>2, <2>1, NewRootIs
<1>4. /\ ShapeOf(mem1, h1) /\ Filled(mem1, h1, NoFrame)
      /\ DOMAIN h1 = DOMAIN h \cup {new} /\ \A f \in DOMAIN h : h1[f] = h[f]
      /\ IsRoot(h1, new) /\ \A va \in Pages : Lookup(mem1, new, va) = Nowhere
  BY <1>3 DEF NewRooted
<1>5. TablesOf(h1, new) = {new} /\ \A r : r # new => TablesOf(h1, r) = TablesOf(h, r)
  <2>1. h1[new].root = new
    BY <1>4 DEF IsRoot, Place
  <2>2. TablesOf(h, new) = {}
    BY <1>0, NoRootOwnsNothing
  <2> QED BY <1>4, <2>1, <2>2 DEF TablesOf
<1>6. \A r : IsRoot(h1, r) <=> IsRoot(h, r) \/ r = new
  BY <1>0, <1>4 DEF IsRoot
<1>7. LeavesIn(a1[new]) = {}
  BY DEF LeavesIn, Nowhere
<1> DEFINE held == Holding(h, a, root, other)
           held1 == Holding(h1, a1, root1, other)
<1>8. DOMAIN held1 = DOMAIN held /\ x \in DOMAIN held
  BY HoldingIs
<1>9. held[x] = {} /\ held1[x] = {new}
  <2>1. NoRoot \notin DOMAIN a
    BY DEF Sound
  <2>2. TablesOf(h, NoRoot) = {} /\ OwnedBy(h, a, NoRoot) = {}
    BY <2>1, NoRootOwnsNothing
  <2>3. OwnedBy(h1, a1, new) = {new}
    BY <1>5, <1>7 DEF OwnedBy
  <2>4. CASE x \in Users
    BY <2>2, <2>3, <2>4, HoldingIs
  <2>5. CASE x \notin Users
    BY <1>5, <2>2, <2>5, HoldingIs
  <2> QED BY <2>4, <2>5
<1>10. \A y \in RootHolders : root[y] # new
  BY <1>0 DEF Sound
<1>11. ASSUME NEW y \in DOMAIN held, y # x PROVE held1[y] = held[y]
  <2>1. CASE y \in Users
    <3>1. root1[y] = root[y] /\ root[y] # new
      BY <1>10, <1>11, <2>1, HoldersAre
    <3>2. OwnedBy(h1, a1, root[y]) = OwnedBy(h, a, root[y])
      BY <1>5, <3>1, OwnedStays
    <3> QED BY <2>1, <3>1, <3>2, HoldingIs
  <2>2. CASE y \in RootHolders \ Users
    BY <1>5, <1>10, <1>11, <2>2, HoldingIs
  <2>3. CASE y \in FrameHolders
    BY <2>3, HoldingIs
  <2> QED BY <2>1, <2>2, <2>3, HoldingIs
<1>12. Part(mem1.free, held1, KernelEnd .. end - 1)
  <2>1. Part(mem.free, held, KernelEnd .. end - 1) /\ {new} \subseteq mem.free
    BY DEF Sound
  <2> DEFINE S == {new}
             free1 == mem1.free
  <2>2. held1[x] = held[x] \cup S /\ S \in SUBSET mem.free /\ free1 = mem.free \ S
    BY <1>1, <1>9
  <2>3. DOMAIN held1 = DOMAIN held /\ x \in DOMAIN held /\ \A y \in DOMAIN held : y # x => held1[y] = held[y]
    BY <1>8, <1>11
  <2> HIDE DEF held, held1, S, free1
  <2>4. Part(free1, held1, KernelEnd .. end - 1)
    BY ONLY <2>1, <2>2, <2>3, PartTake
  <2> QED BY <2>4 DEF free1
<1>13. \A r \in DOMAIN a1 : \A va \in Pages : Lookup(mem1, r, va) = a1[r][va]
  <2> SUFFICES ASSUME NEW r \in DOMAIN a1, NEW va \in Pages PROVE Lookup(mem1, r, va) = a1[r][va]
    OBVIOUS
  <2>1. CASE r = new
    BY <1>4, <2>1
  <2>2. CASE r \in DOMAIN a
    <3>1. IsRoot(h, r) /\ Lookup(mem, r, va) = a[r][va]
      BY <2>2 DEF Sound
    <3> QED BY <1>1, <2>2, <3>1 DEF SameWalks
  <2> QED BY <2>1, <2>2
<1>14. \A y \in Users : root1[y] # NoRoot => OwnSpace(h1, a1, root1[y])
  <2> SUFFICES ASSUME NEW y \in Users, root1[y] # NoRoot PROVE OwnSpace(h1, a1, root1[y])
    OBVIOUS
  <2>1. CASE y = x
    BY <1>7, <2>1 DEF OwnSpace, Nowhere
  <2>2. CASE y # x
    <3>1. root1[y] = root[y] /\ root[y] # new /\ root[y] \in DOMAIN a /\ OwnSpace(h, a, root[y])
      BY <1>10, <2>2, HoldersAre DEF Sound
    <3> QED BY <1>5, <3>1, OwnedStays
  <2> QED BY <2>1, <2>2
<1>15. \A r : r \in DOMAIN a1 <=> r # NoRoot /\ \E y \in RootHolders : r = root1[y]
  <2> SUFFICES ASSUME NEW r PROVE r \in DOMAIN a1 <=> r # NoRoot /\ \E y \in RootHolders : r = root1[y]
    OBVIOUS
  <2>1. CASE r = new
    BY <1>0, <2>1
  <2>2. CASE r # new
    BY <2>2 DEF Sound
  <2> QED BY <2>1, <2>2
<1>16. Sound(mem1, h1, a1, root1, other, end)
  BY <1>1, <1>4, <1>6, <1>12, <1>13, <1>14, <1>15 DEF Sound
<1> QED BY <1>16

(* Free frames go to a holder that has no tables. *)
LEMMA SoundTake ==
  ASSUME NEW mem, NEW h, NEW a, NEW root, NEW other, NEW end, Sound(mem, h, a, root, other, end),
         NEW x \in FrameHolders, NEW S \in SUBSET mem.free,
         NEW mem1, mem1.ok, mem1.free = mem.free \ S, DOMAIN mem1.table = DOMAIN mem.table,
         \A f \in DOMAIN mem.table \ S : mem1.table[f] = mem.table[f],
         NEW other1, other1[x] = other[x] \cup S, \A y \in FrameHolders : y # x => other1[y] = other[y]
  PROVE  Sound(mem1, h, a, root, other1, end)
<1>1. InMemory(mem1, h) /\ \A f \in DOMAIN h : mem1.table[f] = mem.table[f]
  BY DEF Sound, ShapeOf, InMemory
<1>2. ShapeOf(mem1, h) /\ Filled(mem1, h, NoFrame) /\ SameWalks(mem, h, mem1)
  BY <1>1, AllStay DEF Sound
<1> DEFINE held == Holding(h, a, root, other)
           held1 == Holding(h, a, root, other1)
<1>3. DOMAIN held1 = DOMAIN held /\ x \in DOMAIN held /\ held1[x] = held[x] \cup S
  BY HoldingIs
<1>4. ASSUME NEW y \in DOMAIN held, y # x PROVE held1[y] = held[y]
  BY <1>4, HoldingIs
<1>5. Part(mem1.free, held1, KernelEnd .. end - 1)
  <2>1. Part(mem.free, held, KernelEnd .. end - 1)
    BY DEF Sound
  <2> DEFINE free1 == mem1.free
  <2>2. S \in SUBSET mem.free /\ free1 = mem.free \ S
    OBVIOUS
  <2>3. DOMAIN held1 = DOMAIN held /\ x \in DOMAIN held /\ held1[x] = held[x] \cup S
        /\ \A y \in DOMAIN held : y # x => held1[y] = held[y]
    BY <1>3, <1>4
  <2> HIDE DEF held, held1, free1
  <2>4. Part(free1, held1, KernelEnd .. end - 1)
    BY ONLY <2>1, <2>2, <2>3, PartTake
  <2> QED BY <2>4 DEF free1
<1>6. \A r \in DOMAIN a : \A va \in Pages : Lookup(mem1, r, va) = a[r][va]
  BY <1>2 DEF Sound, SameWalks
<1> QED BY <1>2, <1>5, <1>6 DEF Sound

(* A space changes hands. *)
LEMMA SoundMove ==
  ASSUME NEW mem, NEW h, NEW a, NEW root, NEW other, NEW end, Sound(mem, h, a, root, other, end),
         NEW x \in Users, NEW z \in Users, x # z, root[z] = NoRoot,
         NEW root1, root1[x] = NoRoot, root1[z] = root[x],
         \A y \in RootHolders : y \notin {x, z} => root1[y] = root[y]
  PROVE  Sound(mem, h, a, root1, other, end)
<1> DEFINE held == Holding(h, a, root, other)
           held1 == Holding(h, a, root1, other)
<1>1. DOMAIN held1 = DOMAIN held /\ x \in DOMAIN held /\ z \in DOMAIN held
  BY HoldingIs, HoldersAre
<1>2. OwnedBy(h, a, NoRoot) = {}
  <2>1. NoRoot \notin DOMAIN a
    BY DEF Sound
  <2> QED BY <2>1, NoRootOwnsNothing
<1>3. held[z] = {} /\ held1[x] = {} /\ held1[z] = held[x]
  BY <1>2, HoldingIs
<1>4. \A y \in DOMAIN held \ {x, z} : held1[y] = held[y]
  <2> SUFFICES ASSUME NEW y \in DOMAIN held \ {x, z} PROVE held1[y] = held[y]
    OBVIOUS
  <2>1. CASE y \in Users
    BY <2>1, HoldingIs, HoldersAre
  <2>2. CASE y \in RootHolders \ Users
    BY <2>2, HoldingIs
  <2>3. CASE y \in FrameHolders
    BY <2>3, HoldingIs
  <2> QED BY <2>1, <2>2, <2>3, HoldingIs
<1>5. Part(mem.free, held1, KernelEnd .. end - 1)
  <2>1. Part(mem.free, held, KernelEnd .. end - 1)
    BY DEF Sound
  <2> HIDE DEF held, held1
  <2> QED BY <1>1, <1>3, <1>4, <2>1, PartMove
<1>6. x \in RootHolders /\ z \in RootHolders
  BY HoldersAre
<1>7. \A r : r # NoRoot => ((\E y \in RootHolders : r = root1[y]) <=> (\E y \in RootHolders : r = root[y]))
  BY <1>6
<1>8. \A y \in Users : root1[y] # NoRoot => OwnSpace(h, a, root1[y])
  BY HoldersAre DEF Sound
<1> QED BY <1>5, <1>7, <1>8 DEF Sound

(* The pool changes where nobody holds anything. *)
LEMMA SoundResize ==
  ASSUME NEW mem, NEW h, NEW a, NEW root, NEW other, NEW end, Sound(mem, h, a, root, other, end),
         NEW mem1, mem1.ok, mem1.table = mem.table, NEW end1,
         mem1.free \subseteq KernelEnd .. end1 - 1, mem1.free \subseteq Ram,
         (KernelEnd .. end1 - 1) \ mem1.free = (KernelEnd .. end - 1) \ mem.free
  PROVE  Sound(mem1, h, a, root, other, end1)
<1> DEFINE held == Holding(h, a, root, other)
<1>1. Part(mem.free, held, KernelEnd .. end - 1)
  BY DEF Sound
<1>2. \A f \in DOMAIN h : f \in (KernelEnd .. end - 1) \ mem.free
  <2> SUFFICES ASSUME NEW f \in DOMAIN h PROVE f \in (KernelEnd .. end - 1) \ mem.free
    OBVIOUS
  <2>1. PICK x \in RootHolders : x \in DOMAIN held /\ f \in held[x]
    BY TablesHeld
  <2> HIDE DEF held
  <2> QED BY <1>1, <2>1 DEF Part
<1>3. InMemory(mem1, h)
  BY <1>2 DEF Sound, ShapeOf, InMemory
<1>4. ShapeOf(mem1, h) /\ Filled(mem1, h, NoFrame) /\ SameWalks(mem, h, mem1)
  BY <1>3, AllStay DEF Sound
<1>5. Part(mem1.free, held, KernelEnd .. end1 - 1)
  <2> HIDE DEF held
  <2> QED BY <1>1, PartResize
<1>6. \A r \in DOMAIN a : \A va \in Pages : Lookup(mem1, r, va) = a[r][va]
  BY <1>4 DEF Sound, SameWalks
<1> QED BY <1>4, <1>5, <1>6 DEF Sound

(* The users X have lost their spaces and the holders Y their frames. *)
Dropped(mem, h, a, root, other, X, Y, mem1, a1, root1, other1) ==
  /\ X \subseteq Users /\ Y \subseteq FrameHolders
  /\ mem1.ok /\ mem1.table = mem.table
  /\ \A f : f \in mem1.free <=> \/ f \in mem.free \/ \E x \in X : f \in OwnedBy(h, a, root[x])
                               \/ \E y \in Y : f \in other[y]
  /\ (\A x \in X : root1[x] = NoRoot) /\ \A x \in RootHolders \ X : root1[x] = root[x]
  /\ (\A y \in Y : other1[y] = {}) /\ \A y \in FrameHolders \ Y : other1[y] = other[y]
  /\ \A r : r \in DOMAIN a1 <=> r \in DOMAIN a /\ \A x \in X : r # root[x]
  /\ \A r \in DOMAIN a1 : a1[r] = a[r]

(* Spaces and stacks go back to the pool. *)
LEMMA SoundDrop ==
  ASSUME NEW mem, NEW h, NEW a, NEW root, NEW other, NEW end, Sound(mem, h, a, root, other, end),
         KernelEnd .. end - 1 \subseteq Ram, NEW X, NEW Y, NEW mem1, NEW a1, NEW root1, NEW other1,
         Dropped(mem, h, a, root, other, X, Y, mem1, a1, root1, other1)
  PROVE  \E h1 : Sound(mem1, h1, a1, root1, other1, end)
<1> USE DEF Dropped
<1> DEFINE h1 == [f \in {g \in DOMAIN h : h[g].root \in DOMAIN a1} |-> h[f]]
<1>1. DOMAIN h1 = {f \in DOMAIN h : h[f].root \in DOMAIN a1} /\ \A f \in DOMAIN h1 : h1[f] = h[f]
  OBVIOUS
<1> HIDE DEF h1
<1> DEFINE held == Holding(h, a, root, other)
           held1 == Holding(h1, a1, root1, other1)
           all == KernelEnd .. end - 1
<1>2. Part(mem.free, held, all)
  BY DEF Sound
<1>3. \A r : r \in DOMAIN a1 => TablesOf(h1, r) = TablesOf(h, r)
  BY <1>1 DEF TablesOf
<1>4. TablesOf(h1, NoRoot) = {} /\ OwnedBy(h1, a1, NoRoot) = {}
  <2>1. NoRoot \notin DOMAIN a /\ NoRoot \notin DOMAIN a1
    BY DEF Sound
  <2>2. TablesOf(h, NoRoot) = {}
    BY <2>1, NoRootOwnsNothing
  <2> QED BY <1>1, <2>1, <2>2 DEF TablesOf, OwnedBy
<1>5. ASSUME NEW y \in RootHolders \ X, root[y] # NoRoot
      PROVE  root[y] \in DOMAIN a /\ root[y] \in DOMAIN a1
  <2>1. root[y] \in DOMAIN a
    BY <1>5 DEF Sound
  <2>2. \A x \in X : root[x] # root[y]
    <3> SUFFICES ASSUME NEW x \in X PROVE root[y] # root[x]
      OBVIOUS
    <3>1. x \in RootHolders /\ x # y
      BY HoldersAre
    <3> QED BY <1>5, <3>1, RootsDiffer
  <2> QED BY <2>1, <2>2
<1>6. ASSUME NEW y \in RootHolders \ X
      PROVE  /\ TablesOf(h1, root[y]) = TablesOf(h, root[y])
             /\ OwnedBy(h1, a1, root[y]) = OwnedBy(h, a, root[y])
             /\ root[y] # NoRoot /\ OwnSpace(h, a, root[y]) => OwnSpace(h1, a1, root[y])
  <2>1. CASE root[y] = NoRoot
    <3>1. NoRoot \notin DOMAIN a
      BY DEF Sound
    <3>2. TablesOf(h, NoRoot) = {} /\ OwnedBy(h, a, NoRoot) = {}
      BY <3>1, NoRootOwnsNothing
    <3> QED BY <1>4, <2>1, <3>2
  <2>2. CASE root[y] # NoRoot
    <3>1. root[y] \in DOMAIN a /\ root[y] \in DOMAIN a1
      BY <1>5, <2>2
    <3>2. TablesOf(h1, root[y]) = TablesOf(h, root[y])
      BY <1>3, <3>1
    <3> QED BY <3>1, <3>2, OwnedStays
  <2> QED BY <2>1, <2>2
<1> DEFINE Z == X \cup Y
<1>7. Z \in SUBSET DOMAIN held /\ DOMAIN held1 = DOMAIN held
  BY HoldingIs, HoldersAre
<1>8. ASSUME NEW z \in Z PROVE held1[z] = {}
  <2>1. CASE z \in X
    BY <1>4, <2>1, HoldingIs
  <2>2. CASE z \in Y
    BY <2>2, HoldingIs
  <2> QED BY <2>1, <2>2
<1>9. ASSUME NEW y \in DOMAIN held \ Z PROVE held1[y] = held[y]
  <2>1. CASE y \in Users
    <3>1. y \in RootHolders \ X
      BY <2>1, HoldersAre
    <3>2. held1[y] = OwnedBy(h1, a1, root[y]) /\ held[y] = OwnedBy(h, a, root[y])
      BY <2>1, <3>1, HoldingIs
    <3> QED BY <1>6, <3>1, <3>2
  <2>2. CASE y \in RootHolders \ Users
    <3>1. y \in RootHolders \ X
      BY <2>2
    <3>2. held1[y] = TablesOf(h1, root[y]) /\ held[y] = TablesOf(h, root[y])
      BY <2>2, <3>1, HoldingIs
    <3> QED BY <1>6, <3>1, <3>2
  <2>3. CASE y \in FrameHolders
    BY <2>3, HoldingIs
  <2> QED BY <2>1, <2>2, <2>3, HoldingIs
<1>10. mem1.free = mem.free \cup UNION {held[z] : z \in Z}
  <2>1. \A x \in X : held[x] = OwnedBy(h, a, root[x])
    BY HoldingIs
  <2>2. \A y \in Y : held[y] = other[y]
    BY HoldingIs
  <2>3. \A f : f \in UNION {held[z] : z \in Z} <=>
                 f \in (UNION {OwnedBy(h, a, root[x]) : x \in X}) \cup (UNION {other[y] : y \in Y})
    <3> HIDE DEF held
    <3> QED BY <2>1, <2>2
  <2> HIDE DEF held
  <2> QED BY <2>3
<1>11. Part(mem1.free, held1, all)
  <2> DEFINE free1 == mem1.free
  <2>1. /\ \A z \in Z : held1[z] = {}
        /\ \A y \in DOMAIN held \ Z : held1[y] = held[y]
        /\ free1 = mem.free \cup UNION {held[z] : z \in Z}
    BY <1>8, <1>9, <1>10
  <2> HIDE DEF held, held1, all, Z, free1
  <2>2. Part(free1, held1, all)
    BY ONLY <1>2, <1>7, <2>1, PartGive
  <2> QED BY <2>2 DEF free1
<1>12. ASSUME NEW f \in DOMAIN h1 PROVE f \notin mem1.free
  <2>1. f \in DOMAIN h /\ h[f].root \in DOMAIN a1
    BY <1>1
  <2>2. PICK y \in RootHolders : h[f].root = root[y] /\ y \in DOMAIN held /\ f \in held[y]
    BY <2>1, TablesHeld
  <2>3. y \notin X /\ y \notin Y
    BY <2>1, <2>2, HoldersAre
  <2>4. held1[y] = held[y] /\ y \in DOMAIN held1
    BY <1>7, <1>9, <2>2, <2>3
  <2> HIDE DEF held, held1, all
  <2> QED BY <1>11, <2>2, <2>4 DEF Part
<1>13. InMemory(mem1, h1)
  <2>1. mem1.free \subseteq DOMAIN mem1.table
    <3>1. mem1.free \subseteq all
      <4> HIDE DEF held1, all
      <4> QED BY <1>11 DEF Part
    <3> QED BY <3>1 DEF Sound
  <2> QED BY <1>1, <1>12, <2>1 DEF Sound, ShapeOf, InMemory
<1>14. ShapeOf(mem1, h1) /\ Filled(mem1, h1, NoFrame) /\ SameWalks(mem, h1, mem1)
  <2> DEFINE S == DOMAIN a1
  <2>1. DOMAIN h1 = {f \in DOMAIN h : h[f].root \in S}
    BY <1>1
  <2>2. \A f \in DOMAIN h1 : h1[f] = h[f] /\ mem1.table[f] = mem.table[f]
    BY <1>1
  <2>3. ShapeOf(mem, h) /\ Filled(mem, h, NoFrame)
    BY DEF Sound
  <2> HIDE DEF S
  <2> QED BY ONLY <1>13, <2>1, <2>2, <2>3, TreesStay
<1>15. \A r : IsRoot(h1, r) <=> r \in DOMAIN a1
  <2>1. ASSUME NEW r, IsRoot(h1, r) PROVE r \in DOMAIN a1
    <3>1. r \in DOMAIN h1 /\ h[r] = Place(r, 0, 0)
      BY <1>1, <2>1 DEF IsRoot
    <3> QED BY <1>1, <3>1 DEF Place
  <2>2. ASSUME NEW r \in DOMAIN a1 PROVE IsRoot(h1, r)
    <3>1. IsRoot(h, r)
      BY <2>2 DEF Sound
    <3>2. r \in DOMAIN h /\ h[r] = Place(r, 0, 0) /\ h[r].root = r
      BY <3>1 DEF IsRoot, Place
    <3> QED BY <1>1, <2>2, <3>2 DEF IsRoot
  <2> QED BY <2>1, <2>2
<1>16. \A r \in DOMAIN a1 : \A va \in Pages : Lookup(mem1, r, va) = a1[r][va]
  BY <1>14, <1>15 DEF Sound, SameWalks
<1>17. \A r : r \in DOMAIN a1 <=> r # NoRoot /\ \E y \in RootHolders : r = root1[y]
  <2>1. ASSUME NEW r \in DOMAIN a1 PROVE r # NoRoot /\ \E y \in RootHolders : r = root1[y]
    <3>1. PICK y \in RootHolders : r = root[y] /\ r # NoRoot
      BY <2>1 DEF Sound
    <3>2. y \notin X
      BY <2>1, <3>1
    <3> QED BY <3>1, <3>2
  <2>2. ASSUME NEW y \in RootHolders, root1[y] # NoRoot PROVE root1[y] \in DOMAIN a1
    BY <1>5, <2>2
  <2> QED BY <2>1, <2>2
<1>18. \A y \in Users : root1[y] # NoRoot => OwnSpace(h1, a1, root1[y])
  <2> SUFFICES ASSUME NEW y \in Users, root1[y] # NoRoot PROVE OwnSpace(h1, a1, root1[y])
    OBVIOUS
  <2>1. y \in RootHolders \ X /\ root1[y] = root[y] /\ OwnSpace(h, a, root[y])
    BY HoldersAre DEF Sound
  <2> QED BY <1>6, <2>1
<1>19. Sound(mem1, h1, a1, root1, other1, end)
  BY <1>11, <1>14, <1>15, <1>16, <1>17, <1>18 DEF Sound
<1> QED BY <1>19

(* What free_table frees of a user space, and that it frees nothing twice *)
LEMMA SpaceVisitedIs ==
  ASSUME NEW mem, NEW h, NEW a, NEW root, NEW other, NEW end, Sound(mem, h, a, root, other, end),
         NEW x \in Users, root[x] # NoRoot
  PROVE  /\ Freed(SpaceVisited(mem, root[x])) = OwnedBy(h, a, root[x])
         /\ ~FreedTwice(SpaceVisited(mem, root[x]))
<1> DEFINE r == root[x]
           tables == TablesVisited(mem, r)
           leaves == LeavesVisited(mem, r)
<1>1. r \in DOMAIN a /\ IsRoot(h, r) /\ ShapeOf(mem, h) /\ OwnSpace(h, a, r)
  BY HoldersAre DEF Sound
<1>2. \A va \in Pages : Lookup(mem, r, va) = a[r][va]
  BY <1>1 DEF Sound
<1>3. Freed(tables) = TablesOf(h, r)
  BY <1>1, TablesVisitedAre
<1>4. Freed(leaves) = LeavesIn(a[r])
  <2>1. Freed(leaves) = {Lookup(mem, r, va).at : va \in Pages} \ {NoFrame}
    BY LeavesVisitedAre
  <2> QED BY <1>2, <2>1 DEF LeavesIn
<1>5. ASSUME NEW v \in tables
      PROVE  \E va \in Pages : \E level \in 0 .. LAST_LEVEL :
               v = <<<<level, Prefix(va, level)>>, v[2]>> /\ h[v[2]] = Place(r, level, Prefix(va, level))
  <2>1. PICK va \in Pages, level \in 0 .. LAST_LEVEL :
          v = <<<<level, Prefix(va, level)>>, Path(mem.table, r, va)[level]>> /\ v[2] # NoFrame
    BY <1>5 DEF TablesVisited
  <2>2. v[2] = Path(mem.table, r, va)[level]
    BY <2>1
  <2>3. h[v[2]] = Place(r, level, Prefix(va, level))
    BY <1>1, <2>1, <2>2, PathWithin
  <2> QED BY <2>1, <2>2, <2>3
<1>6. ASSUME NEW v \in leaves
      PROVE  \E va \in Pages : v = <<<<LAST_LEVEL + 1, va>>, v[2]>> /\ a[r][va].at = v[2] /\ v[2] # NoFrame
  <2>1. PICK va \in Pages : v = <<<<LAST_LEVEL + 1, va>>, Lookup(mem, r, va).at>> /\ v[2] # NoFrame
    BY <1>6 DEF LeavesVisited
  <2>2. v[2] = a[r][va].at
    BY <1>2, <2>1
  <2> QED BY <2>1, <2>2
<1>7. ASSUME NEW v \in tables, NEW w \in tables, v[2] = w[2] PROVE v = w
  <2>1. PICK va \in Pages, k \in 0 .. LAST_LEVEL :
          v = <<<<k, Prefix(va, k)>>, v[2]>> /\ h[v[2]] = Place(r, k, Prefix(va, k))
    BY <1>5
  <2>2. PICK vb \in Pages, l \in 0 .. LAST_LEVEL :
          w = <<<<l, Prefix(vb, l)>>, w[2]>> /\ h[w[2]] = Place(r, l, Prefix(vb, l))
    BY <1>5
  <2>3. k = l /\ Prefix(va, k) = Prefix(vb, l)
    BY <1>7, <2>1, <2>2 DEF Place
  <2> QED BY <1>7, <2>1, <2>2, <2>3
<1>8. ASSUME NEW v \in leaves, NEW w \in leaves, v[2] = w[2] PROVE v = w
  <2>1. PICK va \in Pages : v = <<<<LAST_LEVEL + 1, va>>, v[2]>> /\ a[r][va].at = v[2] /\ v[2] # NoFrame
    BY <1>6
  <2>2. PICK vb \in Pages : w = <<<<LAST_LEVEL + 1, vb>>, w[2]>> /\ a[r][vb].at = w[2] /\ w[2] # NoFrame
    BY <1>6
  <2>3. va = vb
    BY <1>1, <1>8, <2>1, <2>2 DEF OwnSpace
  <2> QED BY <1>8, <2>1, <2>2, <2>3
<1>9. ASSUME NEW v \in tables, NEW w \in leaves PROVE v[2] # w[2]
  <2>1. v[2] \in Freed(tables) /\ w[2] \in Freed(leaves)
    BY DEF Freed
  <2> QED BY <1>1, <1>3, <1>4, <2>1 DEF OwnSpace
<1> HIDE DEF tables, leaves
<1>10. SpaceVisited(mem, r) = tables \cup leaves
  BY DEF SpaceVisited, tables, leaves
<1>11. Freed(tables \cup leaves) = Freed(tables) \cup Freed(leaves)
  BY DEF Freed
<1>12. Freed(SpaceVisited(mem, r)) = OwnedBy(h, a, r)
  BY <1>1, <1>3, <1>4, <1>10, <1>11 DEF OwnedBy
<1>13. ~FreedTwice(tables \cup leaves)
  BY <1>7, <1>8, <1>9 DEF FreedTwice
<1> QED BY <1>10, <1>12, <1>13

-----------------------------------------------------------------------------
(* The inductive invariant: the memory is sound for some homes of its tables, *)
(* and these facts about the state around it hold.                            *)

RootsOf(lo, hi, empty, user, tasks) ==
  [x \in RootHolders |->
     CASE x[1] = "low" -> lo [] x[1] = "high" -> hi [] x[1] = "empty" -> empty
       [] x[1] = "building" -> user [] x[1] = "space" -> tasks[x[2]].space]
OthersOf(taken, tasks) ==
  [x \in FrameHolders |-> IF x[1] = "kept" THEN taken ELSE tasks[x[2]].stack]

RootAt == RootsOf(low, high, emptySpace, building, task)
Other == OthersOf(kept, task)
SoundNow == \E h : Sound(m, h, asked, RootAt, Other, ramEnd)

Guess == RAM_BASE + DEFAULT_RAM
TaskTypes ==
  [state : {"none", "runnable", "zombie", "dead", "faulted"}, space : Nat,
   stack : SUBSET Nat, image : BOOLEAN]

BootTypes ==
  /\ machine \in Machines
  /\ ramEnd \in Nat /\ KernelEnd <= ramEnd /\ ramEnd <= RAM_BASE + MAX_RAM
  /\ ramEnd <= Guess \/ ramEnd <= NewEnd
  /\ task \in [Tasks -> TaskTypes] /\ current \in {0} \cup Tasks
  /\ todo \subseteq DOMAIN machine.devices /\ adopted \subseteq DOMAIN machine.devices
  /\ todo \cap adopted = {}

(* How far the boot has come and what that means *)
Fresh == {"reset", "built", "mapped", "low", "high", "extend", "adopt"}
HighOn == {"low", "high", "extend", "adopt", "reserve", "devices"}
Running == {"running", "text", "stack", "spawn", "image"}
Making == {"text", "stack", "spawn"}

Phases ==
  /\ pc \in Fresh \cup HighOn \cup Running \cup {"halted"}
  /\ pc = "reset" => low = NoRoot /\ high = NoRoot
  /\ pc \notin {"reset", "halted"} => low # NoRoot /\ high # NoRoot
  /\ ttbr1 \in {NoRoot, high} /\ (pc \in HighOn \cup Running => ttbr1 = high)
  /\ adopted # {} => ttbr1 = high /\ high # NoRoot
  /\ pc \in Fresh => ramEnd = Guess
  /\ pc \in Fresh \cup {"reserve"} => kept = {} /\ adopted = {}
  /\ emptySpace = NoRoot =>
       building = NoRoot /\ current = 0 /\ pc \notin Running /\ \A t \in Tasks : task[t] = NoTask
  /\ emptySpace # NoRoot => pc \in Running \cup {"halted"}
  /\ pc \in Running => (building # NoRoot <=> pc \in Making)

(* The kernel's map: the window and what it may hold besides *)
MapUpTo(end) ==
  /\ \A page \in Window : asked[high][page] = [at |-> page, attrs |-> "device"]
  /\ \A page \in Pages : asked[high][page] # Nowhere =>
       \/ page \in Window
       \/ RAM_BASE <= page /\ page < end
       \/ \E i \in adopted : page \in machine.devices[i].base .. DeviceEnd(machine.devices[i]) - 1

KernelMaps ==
  /\ high # NoRoot =>
       \A f \in KernelEnd .. ramEnd - 1 : asked[high][f] = [at |-> f, attrs |-> "data"]
  /\ pc = "adopt" => \A f \in KernelEnd .. NewEnd - 1 : asked[high][f] = [at |-> f, attrs |-> "data"]
  /\ pc \in {"built", "extend"} => MapUpTo(Guess)
  /\ pc \in {"mapped", "low", "high"} => (HasBlob /\ OutsideGuess) \/ MapUpTo(Guess)
  /\ pc \in {"adopt", "reserve"} \/ (pc = "devices" /\ todo # {}) =>
       MapUpTo(IF NewEnd > Guess THEN NewEnd ELSE Guess)
  /\ \A i \in adopted : \A pa \in machine.devices[i].base .. DeviceEnd(machine.devices[i]) - 1 :
       asked[high][pa] = [at |-> pa, attrs |-> "device"]

SpaceMaps ==
  /\ emptySpace # NoRoot => \A va \in Pages : asked[emptySpace][va] = Nowhere
  /\ pc = "text" => asked[building][USER_TEXT_VA] = Nowhere
  /\ pc \in {"text", "stack"} => asked[building][USER_STACK_VA] = Nowhere

TaskFacts ==
  /\ \A t \in Tasks : /\ task[t].space = NoRoot <=> task[t].state \in {"none", "dead"}
                      /\ task[t].space = NoRoot => task[t].stack = {}
  /\ current \in Tasks => task[current].space # NoRoot
  /\ Started => ttbr0 = RootOf(task, current)

BootInv == SoundNow /\ BootTypes /\ Phases /\ KernelMaps /\ SpaceMaps /\ TaskFacts

(* The root of each holder, read off the state *)
LEMMA RootsAre ==
  ASSUME NEW lo, NEW hi, NEW empty, NEW user, NEW tasks, NEW r, r = RootsOf(lo, hi, empty, user, tasks)
  PROVE  /\ r[<<"low", 0>>] = lo /\ r[<<"high", 0>>] = hi /\ r[<<"empty", 0>>] = empty
         /\ r[<<"building", 0>>] = user /\ \A t \in Tasks : r[<<"space", t>>] = tasks[t].space
<1>1. ASSUME NEW x \in RootHolders
      PROVE  r[x] = CASE x[1] = "low" -> lo [] x[1] = "high" -> hi [] x[1] = "empty" -> empty
                      [] x[1] = "building" -> user [] x[1] = "space" -> tasks[x[2]].space
  BY DEF RootsOf
<1>2. /\ <<"low", 0>> \in RootHolders /\ <<"high", 0>> \in RootHolders /\ <<"empty", 0>> \in RootHolders
      /\ <<"building", 0>> \in RootHolders /\ \A t \in Tasks : <<"space", t>> \in RootHolders
  BY HoldersAre
<1>3. r[<<"low", 0>>] = lo
  BY <1>1, <1>2
<1>4. r[<<"high", 0>>] = hi
  BY <1>1, <1>2
<1>5. r[<<"empty", 0>>] = empty
  BY <1>1, <1>2
<1>6. r[<<"building", 0>>] = user
  BY <1>1, <1>2
<1>7. \A t \in Tasks : r[<<"space", t>>] = tasks[t].space
  BY <1>1, <1>2
<1> QED BY <1>3, <1>4, <1>5, <1>6, <1>7

(* The frames of the holders that have no root *)
LEMMA OthersAre ==
  ASSUME NEW taken, NEW tasks, NEW r, r = OthersOf(taken, tasks)
  PROVE  r[<<"kept", 0>>] = taken /\ \A t \in Tasks : r[<<"stack", t>>] = tasks[t].stack
<1>1. ASSUME NEW x \in FrameHolders
      PROVE  r[x] = IF x[1] = "kept" THEN taken ELSE tasks[x[2]].stack
  BY DEF OthersOf
<1>2. <<"kept", 0>> \in FrameHolders /\ \A t \in Tasks : <<"stack", t>> \in FrameHolders
  BY HoldersAre
<1>3. r[<<"kept", 0>>] = taken
  BY <1>1, <1>2
<1>4. \A t \in Tasks : r[<<"stack", t>>] = tasks[t].stack
  BY <1>1, <1>2
<1> QED BY <1>3, <1>4

(* Every holder is one of these. *)
LEMMA HolderCases ==
  /\ \A x \in RootHolders : x \in {<<"low", 0>>, <<"high", 0>>, <<"empty", 0>>, <<"building", 0>>}
                            \/ \E t \in Tasks : x = <<"space", t>>
  /\ \A x \in Users : x = <<"building", 0>> \/ \E t \in Tasks : x = <<"space", t>>
  /\ \A x \in FrameHolders : x = <<"kept", 0>> \/ \E t \in Tasks : x = <<"stack", t>>
BY DEF RootHolders, FrameHolders, Users

(* The layout, fact by fact *)
LEMMA LayoutIs ==
  /\ RAM_BASE \in Nat /\ DEFAULT_RAM \in Nat /\ MAX_RAM \in Nat /\ TextStart \in Nat
  /\ RodataStart \in Nat /\ DataStart \in Nat /\ KernelEnd \in Nat
  /\ 0 < RAM_BASE /\ RAM_BASE <= TextStart /\ TextStart <= RodataStart
  /\ RodataStart <= DataStart /\ DataStart <= KernelEnd /\ KernelEnd + 1 < RAM_BASE + DEFAULT_RAM
  /\ DEFAULT_RAM <= MAX_RAM /\ RAM_BASE + MAX_RAM <= PAGES
  /\ DEVICE_BASE \in Nat /\ DEVICE_SIZE \in Nat /\ DEVICE_BASE + DEVICE_SIZE <= RAM_BASE
  /\ USER_TEXT_VA \in Pages /\ USER_STACK_VA \in Pages /\ USER_TEXT_VA # USER_STACK_VA
  /\ STACK_FRAMES \in Nat \ {0} /\ MAX_TASKS \in Nat \ {0} /\ PAGES \in Nat
BY LayoutAssumption, Spans

(* The memory and the blob of a machine *)
LEMMA MemoryIs ==
  ASSUME NEW mach \in Machines
  PROVE  /\ mach.memory.base \in Nat /\ mach.memory.n \in Nat
         /\ mach.blob.base \in Nat /\ mach.blob.n \in Nat /\ EndOf(mach.blob) = mach.blob.base + mach.blob.n
         /\ EndOf(mach.blob) <= PAGES /\ mach.blob.n < BLOCK
         /\ MemoryEnd(mach) \in Nat /\ MemoryEnd(mach) <= PAGES
         /\ mach.memory.base = RAM_BASE => MemoryEnd(mach) <= RAM_BASE + MAX_RAM
<1>1. mach.blob \in Extents /\ mach.memory \in Extents
  BY MachineAssumption
<1>2. mach.memory.base \in Nat /\ mach.memory.n \in Nat /\ mach.blob.base \in Nat /\ mach.blob.n \in Nat
  BY <1>1 DEF Extents
<1>3. Least(mach.memory.n, MAX_RAM) \in Nat /\ Least(mach.memory.n, MAX_RAM) <= MAX_RAM
  BY <1>2, LayoutIs DEF Least
<1>4. /\ MemoryEnd(mach) \in Nat
      /\ mach.memory.base = RAM_BASE => MemoryEnd(mach) <= RAM_BASE + MAX_RAM
  BY <1>2, <1>3, LayoutIs DEF MemoryEnd
<1> QED BY <1>2, <1>4, MachineAssumption DEF EndOf

(* The devices of a machine *)
LEMMA DevicesAre ==
  ASSUME NEW mach \in Machines, NEW i \in DOMAIN mach.devices, NEW d, d = mach.devices[i]
  PROVE  /\ d.base \in Nat /\ d.n \in Nat /\ EndOf(d) = d.base + d.n /\ DeviceEnd(d) = EndOf(d)
         /\ EndOf(d) <= PAGES
         /\ \/ EndOf(d) <= RAM_BASE
            \/ d.base >= RAM_BASE + DEFAULT_RAM /\ d.base >= MemoryEnd(mach)
         /\ d.base >= DEVICE_BASE \/ EndOf(d) <= DEVICE_BASE + DEVICE_SIZE
         /\ \A j \in DOMAIN mach.devices \ {i} : Meet(d, mach.devices[j]) => d.n < BLOCK
<1>1. mach.devices \in Seq(Extents)
  BY MachineAssumption
<1>2. d \in Extents
  BY <1>1
<1>3. d.base \in Nat /\ d.n \in Nat
  BY <1>2 DEF Extents
<1> QED BY <1>3, MachineAssumption DEF EndOf, DeviceEnd

(* What a holder has by the model's own walks *)
LEMMA HeldIs ==
  ASSUME NEW h, Sound(m, h, asked, RootAt, Other, ramEnd)
  PROVE  /\ \A x \in Holders : Held(x) = Holding(h, asked, RootAt, Other)[x]
         /\ \A x \in Users : Owned(RootAt[x]) = OwnedBy(h, asked, RootAt[x])
         /\ \A x \in RootHolders : Tables(RootAt[x]) = TablesOf(h, RootAt[x])
         /\ \A x \in RootHolders : RootAt[x] # NoRoot => Leaves(RootAt[x]) = LeavesIn(asked[RootAt[x]])
<1> DEFINE root == RootAt
<1>0. NoRoot \notin DOMAIN asked
  BY DEF Sound
<1>1. ASSUME NEW x \in RootHolders PROVE Tables(root[x]) = TablesOf(h, root[x])
  <2>1. CASE root[x] = NoRoot
    BY <1>0, <2>1, NoRootOwnsNothing DEF Tables
  <2>2. CASE root[x] # NoRoot
    <3>1. IsRoot(h, root[x]) /\ ShapeOf(m, h)
      BY <2>2 DEF Sound
    <3> QED BY <2>2, <3>1, TablesVisitedAre DEF Tables
  <2> QED BY <2>1, <2>2
<1>2. ASSUME NEW x \in RootHolders, root[x] # NoRoot PROVE Leaves(root[x]) = LeavesIn(asked[root[x]])
  <2>1. root[x] \in DOMAIN asked
    BY <1>2 DEF Sound
  <2>2. \A va \in Pages : Lookup(m, root[x], va) = asked[root[x]][va]
    BY <2>1 DEF Sound
  <2>3. Freed(LeavesVisited(m, root[x])) = {Lookup(m, root[x], va).at : va \in Pages} \ {NoFrame}
    BY LeavesVisitedAre
  <2> QED BY <1>2, <2>2, <2>3 DEF Leaves, LeavesIn
<1>3. ASSUME NEW x \in Users PROVE Owned(root[x]) = OwnedBy(h, asked, root[x])
  <2>0. x \in RootHolders
    BY HoldersAre
  <2>1. CASE root[x] = NoRoot
    <3>1. Leaves(root[x]) = {} /\ Tables(root[x]) = {}
      BY <2>1 DEF Leaves, Tables
    <3>2. OwnedBy(h, asked, root[x]) = {}
      BY <1>0, <2>1, NoRootOwnsNothing
    <3> QED BY <3>1, <3>2 DEF Owned
  <2>2. CASE root[x] # NoRoot
    <3>1. root[x] \in DOMAIN asked
      BY <2>0, <2>2 DEF Sound
    <3> QED BY <1>1, <1>2, <2>0, <2>2, <3>1 DEF Owned, OwnedBy
  <2> QED BY <2>1, <2>2
<1> DEFINE held == Holding(h, asked, root, Other)
<1>4. /\ root[<<"low", 0>>] = low /\ root[<<"high", 0>>] = high /\ root[<<"empty", 0>>] = emptySpace
      /\ root[<<"building", 0>>] = building /\ \A t \in Tasks : root[<<"space", t>>] = task[t].space
  BY RootsAre DEF RootAt
<1>5. Other[<<"kept", 0>>] = kept /\ \A t \in Tasks : Other[<<"stack", t>>] = task[t].stack
  BY OthersAre DEF Other
<1>6. /\ \A x \in Users : held[x] = OwnedBy(h, asked, root[x])
      /\ \A x \in RootHolders \ Users : held[x] = TablesOf(h, root[x])
      /\ \A x \in FrameHolders : held[x] = Other[x]
  BY HoldingIs
<1> HIDE DEF held, root
<1>7. ASSUME NEW x \in Holders PROVE Held(x) = held[x]
  <2>0. /\ <<"low", 0>> \in RootHolders \ Users /\ <<"high", 0>> \in RootHolders \ Users
        /\ <<"empty", 0>> \in RootHolders \ Users /\ <<"building", 0>> \in Users
        /\ <<"kept", 0>> \in FrameHolders
        /\ \A t \in Tasks : <<"space", t>> \in Users /\ <<"stack", t>> \in FrameHolders
    BY HoldersAre
  <2>1. CASE x = <<"low", 0>>
    <3>1. Held(x) = Tables(low)
      BY <2>1 DEF Held
    <3> QED BY <1>1, <1>4, <1>6, <2>0, <2>1, <3>1
  <2>2. CASE x = <<"high", 0>>
    <3>1. Held(x) = Tables(high)
      BY <2>2 DEF Held
    <3> QED BY <1>1, <1>4, <1>6, <2>0, <2>2, <3>1
  <2>3. CASE x = <<"empty", 0>>
    <3>1. Held(x) = Tables(emptySpace)
      BY <2>3 DEF Held
    <3> QED BY <1>1, <1>4, <1>6, <2>0, <2>3, <3>1
  <2>4. CASE x = <<"building", 0>>
    <3>1. Held(x) = Owned(building)
      BY <2>4 DEF Held
    <3> QED BY <1>3, <1>4, <1>6, <2>0, <2>4, <3>1
  <2>5. CASE x = <<"kept", 0>>
    <3>1. Held(x) = kept
      BY <2>5 DEF Held
    <3> QED BY <1>5, <1>6, <2>0, <2>5, <3>1
  <2>6. ASSUME NEW t \in Tasks, x = <<"space", t>> PROVE Held(x) = held[x]
    <3>1. Held(x) = Owned(task[t].space)
      BY <2>6 DEF Held
    <3> QED BY <1>3, <1>4, <1>6, <2>0, <2>6, <3>1
  <2>7. ASSUME NEW t \in Tasks, x = <<"stack", t>> PROVE Held(x) = held[x]
    <3>1. Held(x) = task[t].stack
      BY <2>7 DEF Held
    <3> QED BY <1>5, <1>6, <2>0, <2>7, <3>1
  <2>8. x \in RootHolders \cup FrameHolders
    BY HoldersAre
  <2> QED BY <2>1, <2>2, <2>3, <2>4, <2>5, <2>6, <2>7, <2>8, HolderCases
<1> QED BY <1>1, <1>2, <1>3, <1>7 DEF held, root

-----------------------------------------------------------------------------
(* What the invariant gives *)

LEMMA InvWalks ==
  ASSUME BootInv PROVE WalkIsRight
<1>1. PICK h : Sound(m, h, asked, RootAt, Other, ramEnd)
  BY DEF BootInv, SoundNow
<1> SUFFICES ASSUME NEW r \in Roots, NEW va \in Pages PROVE Lookup(m, r, va) = asked[r][va]
  BY DEF WalkIsRight
<1>2. /\ RootAt[<<"low", 0>>] = low /\ RootAt[<<"high", 0>>] = high /\ RootAt[<<"empty", 0>>] = emptySpace
      /\ RootAt[<<"building", 0>>] = building /\ \A t \in Tasks : RootAt[<<"space", t>>] = task[t].space
  BY RootsAre DEF RootAt
<1>3. r # NoRoot /\ \E x \in RootHolders : r = RootAt[x]
  BY <1>2, HoldersAre DEF Roots, TaskSpaces
<1> QED BY <1>1, <1>3 DEF Sound

(* The kernel's root is known, and its walks are what was asked for. *)
LEMMA HighIs ==
  ASSUME NEW h, Sound(m, h, asked, RootAt, Other, ramEnd), high # NoRoot
  PROVE  /\ high \in DOMAIN asked /\ IsRoot(h, high)
         /\ \A va \in Pages : Lookup(m, high, va) = asked[high][va]
<1>1. RootAt[<<"high", 0>>] = high /\ <<"high", 0>> \in RootHolders
  BY RootsAre, HoldersAre DEF RootAt
<1> QED BY <1>1 DEF Sound

(* The kernel's map of the memory is what its walks follow. *)
LEMMA InvFrames ==
  ASSUME BootInv PROVE KernelReachesItsFrames
<1>1. PICK h : Sound(m, h, asked, RootAt, Other, ramEnd)
  BY DEF BootInv, SoundNow
<1> SUFFICES ASSUME ttbr1 # NoRoot, NEW f \in KernelEnd .. ramEnd - 1
    PROVE Lookup(m, ttbr1, f) = [at |-> f, attrs |-> "data"]
  BY DEF KernelReachesItsFrames
<1>2. ttbr1 = high /\ high # NoRoot
  BY DEF BootInv, Phases
<1>3. asked[high][f] = [at |-> f, attrs |-> "data"]
  BY <1>2 DEF BootInv, KernelMaps
<1>4. f \in Pages
  BY LayoutAssumption, Spans DEF BootInv, BootTypes, Pages
<1> QED BY <1>1, <1>2, <1>3, <1>4, HighIs

(* The same for the adopted devices *)
LEMMA InvDevices ==
  ASSUME BootInv PROVE AdoptedDevicesMapped
<1>1. PICK h : Sound(m, h, asked, RootAt, Other, ramEnd)
  BY DEF BootInv, SoundNow
<1> SUFFICES ASSUME NEW i \in adopted,
                    NEW pa \in machine.devices[i].base .. DeviceEnd(machine.devices[i]) - 1
    PROVE Lookup(m, ttbr1, pa) = [at |-> pa, attrs |-> "device"]
  BY DEF AdoptedDevicesMapped
<1>2. ttbr1 = high /\ high # NoRoot
  BY DEF BootInv, Phases
<1>3. asked[high][pa] = [at |-> pa, attrs |-> "device"]
  BY DEF BootInv, KernelMaps
<1>4. pa \in Pages
  BY DevicesAre, Spans DEF BootInv, BootTypes, Pages
<1> QED BY <1>1, <1>2, <1>3, <1>4, HighIs

(* The shares of Sound are the holders' own. *)
LEMMA InvHolders ==
  ASSUME BootInv PROVE FramesHaveOneHolder
<1>1. PICK h : Sound(m, h, asked, RootAt, Other, ramEnd)
  BY DEF BootInv, SoundNow
<1> DEFINE held == Holding(h, asked, RootAt, Other)
           pairs == {<<x, Held(x)>> : x \in Holders}
<1>2. \A x \in Holders : Held(x) = held[x]
  BY <1>1, HeldIs
<1>3. Part(m.free, held, KernelEnd .. ramEnd - 1) /\ DOMAIN held = Holders
  <2>1. Part(m.free, held, KernelEnd .. ramEnd - 1)
    BY <1>1 DEF Sound
  <2>2. DOMAIN held = RootHolders \cup FrameHolders /\ Holders = RootHolders \cup FrameHolders
    BY HoldersAre, HoldingIs
  <2> QED BY <2>1, <2>2
<1> HIDE DEF held
<1>4. (KernelEnd .. ramEnd - 1) \ m.free = UNION {p[2] : p \in pairs}
  <2>0. \A x \in Holders : <<x, Held(x)>> \in pairs /\ <<x, Held(x)>>[2] = held[x]
    BY <1>2
  <2>1. \A p \in pairs : \E x \in Holders : p[2] = held[x]
    BY <1>2
  <2> HIDE DEF pairs
  <2>2. ASSUME NEW f, f \in UNION {p[2] : p \in pairs} PROVE \E x \in Holders : f \in held[x]
    <3>1. PICK p \in pairs : f \in p[2]
      BY <2>2
    <3> QED BY <2>1, <3>1
  <2>3. ASSUME NEW f, NEW x \in Holders, f \in held[x] PROVE f \in UNION {p[2] : p \in pairs}
    <3> DEFINE q == <<x, Held(x)>>
    <3>1. q \in pairs /\ f \in q[2]
      BY <2>0, <2>3
    <3> HIDE DEF q
    <3> QED BY <3>1
  <2> QED BY <1>3, <2>2, <2>3 DEF Part
<1>5. \A p, q \in pairs : p[1] # q[1] => p[2] \cap q[2] = {}
  <2> SUFFICES ASSUME NEW x \in Holders, NEW y \in Holders, x # y PROVE Held(x) \cap Held(y) = {}
    OBVIOUS
  <2> QED BY <1>2, <1>3 DEF Part
<1> QED BY <1>4, <1>5 DEF FramesHaveOneHolder

-----------------------------------------------------------------------------
(* The first state *)

LEMMA InitInv ==
  ASSUME Init PROVE BootInv
<1>0. /\ pc = "reset" /\ machine \in Machines /\ ramEnd = Guess
      /\ low = NoRoot /\ high = NoRoot /\ ttbr0 = NoRoot /\ ttbr1 = NoRoot
      /\ asked = <<>> /\ kept = {} /\ todo = {} /\ adopted = {}
      /\ emptySpace = NoRoot /\ building = NoRoot
      /\ task = [t \in Tasks |-> NoTask] /\ current = 0
  BY DEF Init, Guess
<1>1. m.ok /\ DOMAIN m.table = Ram /\ m.free = KernelEnd .. ramEnd - 1
  <2> DEFINE tables == [f \in Ram |-> Zeroed]
             all == KernelEnd .. RAM_BASE + DEFAULT_RAM - 1
  <2>1. m = Memory(tables, all)
    BY DEF Init, Ram
  <2>2. ramEnd = RAM_BASE + DEFAULT_RAM
    BY DEF Init
  <2>3. all = KernelEnd .. ramEnd - 1
    BY <2>2, LayoutIs
  <2>4. DOMAIN tables = Ram
    OBVIOUS
  <2> HIDE DEF tables, all
  <2> QED BY <2>1, <2>3, <2>4 DEF Memory
<1>2. ramEnd \in Nat /\ KernelEnd \in Nat /\ KernelEnd <= ramEnd /\ ramEnd <= RAM_BASE + MAX_RAM
  BY <1>0, LayoutIs DEF Guess
<1>3. m.free \subseteq Ram /\ Ram \subseteq Nat
  BY <1>1, <1>2, LayoutIs DEF Ram
<1>4. DOMAIN asked = {}
  BY <1>0
<1> DEFINE h == [f \in {} |-> 0]
<1>5. DOMAIN h = {}
  OBVIOUS
<1> HIDE DEF h
<1>6. ShapeOf(m, h) /\ Filled(m, h, NoFrame)
  BY <1>1, <1>3, <1>5 DEF ShapeOf, Filled, InMemory, HomesOf, OneEach, EntriesLead, Attached
<1>7. \A x \in RootHolders : RootAt[x] = NoRoot
  <2>1. \A t \in Tasks : task[t].space = NoRoot
    BY <1>0 DEF NoTask
  <2> QED BY <1>0, <2>1, RootsAre, HolderCases DEF RootAt
<1>8. \A x \in FrameHolders : Other[x] = {}
  <2>1. \A t \in Tasks : task[t].stack = {}
    BY <1>0 DEF NoTask
  <2> QED BY <1>0, <2>1, OthersAre, HolderCases DEF Other
<1>9. \A r : TablesOf(h, r) = {} /\ OwnedBy(h, asked, r) = {}
  BY <1>4, <1>5 DEF TablesOf, OwnedBy
<1> DEFINE held == Holding(h, asked, RootAt, Other)
<1>10. \A x \in DOMAIN held : held[x] = {}
  BY <1>8, <1>9, HoldingIs
<1>11. Part(m.free, held, KernelEnd .. ramEnd - 1)
  <2> HIDE DEF held
  <2> QED BY <1>1, <1>10 DEF Part
<1>12. Sound(m, h, asked, RootAt, Other, ramEnd)
  BY <1>1, <1>4, <1>5, <1>6, <1>7, <1>11, HoldersAre DEF Sound, IsRoot
<1>13. SoundNow
  BY <1>12 DEF SoundNow
<1>14. BootTypes
  <2>1. task \in [Tasks -> TaskTypes]
    BY <1>0 DEF TaskTypes, NoTask, NoRoot
  <2> QED BY <1>0, <1>2, <2>1 DEF BootTypes
<1>15. Phases
  BY <1>0 DEF Phases, Fresh, HighOn, Running, Making
<1>16. KernelMaps
  BY <1>0 DEF KernelMaps
<1>17. SpaceMaps
  BY <1>0 DEF SpaceMaps
<1>18. TaskFacts
  <2>1. \A t \in Tasks : task[t].space = NoRoot /\ task[t].state = "none" /\ task[t].stack = {}
    BY <1>0 DEF NoTask
  <2>2. current \notin Tasks
    BY <1>0, LayoutAssumption DEF Tasks
  <2> QED BY <1>0, <2>1, <2>2 DEF TaskFacts, Started
<1> QED BY <1>13, <1>14, <1>15, <1>16, <1>17, <1>18 DEF BootInv

-----------------------------------------------------------------------------
(* Steps that leave memory alone *)

LEMMA RootsEqual ==
  ASSUME NEW lo, NEW hi, NEW empty, NEW user, NEW tasks, NEW tasks1,
         \A t \in Tasks : tasks1[t].space = tasks[t].space
  PROVE  RootsOf(lo, hi, empty, user, tasks1) = RootsOf(lo, hi, empty, user, tasks)
<1> DEFINE r == RootsOf(lo, hi, empty, user, tasks)
           s == RootsOf(lo, hi, empty, user, tasks1)
<1> DEFINE F(tk, x) == CASE x[1] = "low" -> lo [] x[1] = "high" -> hi [] x[1] = "empty" -> empty
                         [] x[1] = "building" -> user [] x[1] = "space" -> tk[x[2]].space
<1>0. r = [x \in RootHolders |-> F(tasks, x)] /\ s = [x \in RootHolders |-> F(tasks1, x)]
  BY DEF RootsOf
<1>1. r = [x \in RootHolders |-> r[x]] /\ s = [x \in RootHolders |-> s[x]]
  <2> HIDE DEF r, s, F
  <2> QED BY <1>0
<1>2. ASSUME NEW x \in RootHolders PROVE r[x] = s[x]
  <2> HIDE DEF r, s
  <2>1. /\ r[<<"low", 0>>] = lo /\ r[<<"high", 0>>] = hi /\ r[<<"empty", 0>>] = empty
        /\ r[<<"building", 0>>] = user /\ \A t \in Tasks : r[<<"space", t>>] = tasks[t].space
    BY RootsAre DEF r
  <2>2. /\ s[<<"low", 0>>] = lo /\ s[<<"high", 0>>] = hi /\ s[<<"empty", 0>>] = empty
        /\ s[<<"building", 0>>] = user /\ \A t \in Tasks : s[<<"space", t>>] = tasks1[t].space
    BY RootsAre DEF s
  <2> QED BY <2>1, <2>2, HolderCases
<1> HIDE DEF r, s
<1>3. r = s
  BY <1>1, <1>2
<1> QED BY <1>3 DEF r, s

(* The other holders depend on the stacks only. *)
LEMMA OthersEqual ==
  ASSUME NEW taken, NEW tasks, NEW tasks1, \A t \in Tasks : tasks1[t].stack = tasks[t].stack
  PROVE  OthersOf(taken, tasks1) = OthersOf(taken, tasks)
<1> DEFINE r == OthersOf(taken, tasks)
           s == OthersOf(taken, tasks1)
<1>1. r = [x \in FrameHolders |-> r[x]] /\ s = [x \in FrameHolders |-> s[x]]
  BY DEF OthersOf
<1>2. ASSUME NEW x \in FrameHolders PROVE r[x] = s[x]
  <2> HIDE DEF r, s
  <2>1. r[<<"kept", 0>>] = taken /\ \A t \in Tasks : r[<<"stack", t>>] = tasks[t].stack
    BY OthersAre DEF r
  <2>2. s[<<"kept", 0>>] = taken /\ \A t \in Tasks : s[<<"stack", t>>] = tasks1[t].stack
    BY OthersAre DEF s
  <2> QED BY <2>1, <2>2, HolderCases
<1> HIDE DEF r, s
<1>3. r = s
  BY <1>1, <1>2
<1> QED BY <1>3 DEF r, s

(* A step that leaves memory, roots and stacks alone *)
LEMMA SoundStays ==
  ASSUME SoundNow, UNCHANGED <<m, asked, ramEnd, low, high, emptySpace, building, kept>>,
         \A t \in Tasks : task'[t].space = task[t].space /\ task'[t].stack = task[t].stack
  PROVE  SoundNow'
<1>1. RootAt' = RootAt
  BY RootsEqual DEF RootAt
<1>2. Other' = Other
  BY OthersEqual DEF Other
<1> QED BY <1>1, <1>2 DEF SoundNow

(* A panic *)
LEMMA StepHalt ==
  ASSUME BootInv, Halt PROVE BootInv'
<1> USE DEF BootInv, Halt, bootVars, taskVars
<1>1. SoundNow'
  BY SoundStays
<1>2. BootTypes'
  BY DEF BootTypes, NewEnd
<1>3. Phases'
  BY DEF Phases, Fresh, HighOn, Running, Making
<1>4. KernelMaps'
  BY DEF KernelMaps
<1>5. SpaceMaps'
  BY DEF SpaceMaps
<1>6. TaskFacts'
  BY DEF TaskFacts, Started, RootOf
<1> QED BY <1>1, <1>2, <1>3, <1>4, <1>5, <1>6

(* What the invariant says before the first task *)
LEMMA BeforeTasks ==
  ASSUME BootInv, pc \in Fresh \cup {"reserve", "devices"}
  PROVE  /\ emptySpace = NoRoot /\ building = NoRoot /\ current = 0 /\ \A t \in Tasks : task[t] = NoTask
         /\ current \notin Tasks
<1>1. emptySpace = NoRoot
  BY DEF BootInv, Phases, Fresh, Running
<1>2. building = NoRoot /\ current = 0 /\ \A t \in Tasks : task[t] = NoTask
  BY <1>1 DEF BootInv, Phases
<1> QED BY <1>1, <1>2, LayoutAssumption DEF Tasks

(* No task, no fact about one *)
LEMMA NoTaskFacts ==
  ASSUME TaskFacts, emptySpace' = NoRoot, UNCHANGED <<task, current>> PROVE TaskFacts'
BY DEF TaskFacts, Started

(* enable and the jump to the high half *)
LEMMA StepEnable ==
  ASSUME BootInv, EnableMmu PROVE BootInv'
<1> USE DEF BootInv, EnableMmu, taskVars
<1>0. emptySpace = NoRoot
  BY BeforeTasks DEF Fresh
<1>1. SoundNow'
  BY SoundStays
<1>2. BootTypes'
  BY DEF BootTypes, NewEnd
<1>3. Phases'
  BY DEF Phases, Fresh, HighOn, Running, Making
<1>4. KernelMaps'
  BY DEF KernelMaps, MapUpTo, HasBlob, OutsideGuess, BlobEnd
<1>5. SpaceMaps'
  BY DEF SpaceMaps
<1>6. TaskFacts'
  BY <1>0, NoTaskFacts
<1> QED BY <1>1, <1>2, <1>3, <1>4, <1>5, <1>6

(* finish_high_half *)
LEMMA StepFinish ==
  ASSUME BootInv, FinishHighHalf PROVE BootInv'
<1> USE DEF BootInv, FinishHighHalf, bootVars, taskVars
<1>0. emptySpace = NoRoot
  BY BeforeTasks DEF Fresh
<1>1. SoundNow'
  BY SoundStays
<1>2. BootTypes'
  BY DEF BootTypes, NewEnd
<1>3. Phases'
  BY DEF Phases, Fresh, HighOn, Running, Making
<1>4. KernelMaps'
  BY DEF KernelMaps, MapUpTo, HasBlob, OutsideGuess, BlobEnd
<1>5. SpaceMaps'
  BY DEF SpaceMaps
<1>6. TaskFacts'
  BY <1>0, NoTaskFacts
<1> QED BY <1>1, <1>2, <1>3, <1>4, <1>5, <1>6

(* A map may always hold more. *)
LEMMA MapMore ==
  ASSUME MapUpTo(Guess), NewEnd \in Nat
  PROVE  MapUpTo(IF NewEnd > Guess THEN NewEnd ELSE Guess)
<1> DEFINE end == IF NewEnd > Guess THEN NewEnd ELSE Guess
<1>1. Guess \in Nat /\ end \in Nat /\ Guess <= end
  BY LayoutIs DEF Guess
<1>2. \A page \in Pages : page < Guess => page < end
  BY <1>1 DEF Pages
<1> HIDE DEF end
<1>3. MapUpTo(end)
  BY <1>2 DEF MapUpTo
<1> QED BY <1>3 DEF end

(* fdt::init *)
LEMMA StepTree ==
  ASSUME BootInv, InitTree PROVE BootInv'
<1> USE DEF BootInv, InitTree, taskVars
<1>0. emptySpace = NoRoot
  BY BeforeTasks DEF Fresh
<1>1. /\ pc = "high" /\ pc' \in {"devices", "extend"} /\ (pc' = "extend" => TreeAccepted)
      /\ (todo' # {} => TreeAccepted) /\ todo' \subseteq DOMAIN machine.devices
  OBVIOUS
<1>2. UNCHANGED <<m, asked, ttbr0, machine, ramEnd, low, high, ttbr1, kept, adopted, emptySpace,
                  building, task, current>>
  OBVIOUS
<1>3. SoundNow'
  BY <1>2, SoundStays
<1>4. adopted = {}
  BY <1>1 DEF Phases, Fresh
<1>5. NewEnd \in Nat
  BY MemoryIs DEF BootTypes, NewEnd
<1>6. BootTypes'
  BY <1>1, <1>2, <1>4 DEF BootTypes, NewEnd
<1>7. Phases'
  BY <1>0, <1>1, <1>2 DEF Phases, Fresh, HighOn, Running, Making
<1>8. KernelMaps'
  <2>1. TreeAccepted => MapUpTo(Guess)
    BY <1>1 DEF KernelMaps, TreeAccepted
  <2>2. MapUpTo(Guess) => MapUpTo(IF NewEnd > Guess THEN NewEnd ELSE Guess)
    BY <1>5, MapMore
  <2>3. (MapUpTo(Guess) => MapUpTo(Guess)') /\
        (MapUpTo(IF NewEnd > Guess THEN NewEnd ELSE Guess) => MapUpTo(IF NewEnd > Guess THEN NewEnd ELSE Guess)')
    BY <1>2 DEF MapUpTo, NewEnd
  <2> QED BY <1>1, <1>2, <1>4, <2>1, <2>2, <2>3 DEF KernelMaps
<1>9. SpaceMaps'
  BY <1>0, <1>1, <1>2 DEF SpaceMaps
<1>10. TaskFacts'
  BY <1>0, <1>2, NoTaskFacts
<1> QED BY <1>3, <1>6, <1>7, <1>8, <1>9, <1>10

(* A tree that is lost has no devices. *)
LEMMA StepNoDevice ==
  ASSUME BootInv, FindNoDevice PROVE BootInv'
<1> USE DEF BootInv, FindNoDevice, taskVars
<1>0. emptySpace = NoRoot
  BY BeforeTasks DEF Fresh
<1>1. SoundNow'
  BY SoundStays
<1>2. BootTypes'
  BY DEF BootTypes, NewEnd
<1>3. Phases'
  BY DEF Phases, Fresh, HighOn, Running, Making
<1>4. KernelMaps'
  BY DEF KernelMaps
<1>5. SpaceMaps'
  BY DEF SpaceMaps
<1>6. TaskFacts'
  BY <1>0, NoTaskFacts
<1> QED BY <1>1, <1>2, <1>3, <1>4, <1>5, <1>6

-----------------------------------------------------------------------------
(* Steps that map something for the kernel *)

(* map_range for one range *)
LEMMA OneRange ==
  ASSUME NEW mem, NEW root, NEW r
  PROVE  MapRanges(mem, root, <<r>>) = MapRange(mem, root, r)
<1>1. Len(<<r>>) = 1 /\ <<r>>[1] = r
  OBVIOUS
<1>2. PICK after : IsRounds(after, mem, root, <<r>>)
  BY <1>1, MapRangesDef
<1> QED BY <1>1, <1>2 DEF IsRounds

(* What is asked for of one root is not asked of another. *)
LEMMA AskedIs ==
  ASSUME NEW root \in DOMAIN asked, NEW ranges, NEW a, a = Asked(root, ranges)
  PROVE  /\ DOMAIN a = DOMAIN asked /\ a[root] = Painted(asked[root], ranges, Len(ranges))
         /\ \A r \in DOMAIN asked : r # root => a[r] = asked[r]
BY DEF Asked, With

(* The kernel's own map grows. *)
LEMMA SoundMapped ==
  ASSUME SoundNow, high # NoRoot, NEW ranges, Len(ranges) \in Nat,
         \A n \in 1 .. Len(ranges) : IsRange(ranges[n]) /\ Fits(asked[high], ranges, n),
         m' = MapRanges(m, high, ranges), m'.ok, asked' = Asked(high, ranges),
         UNCHANGED <<ramEnd, low, high, emptySpace, building, kept, task>>
  PROVE  SoundNow'
<1> DEFINE mem1 == MapRanges(m, high, ranges)
           a1 == Asked(high, ranges)
<1>1. PICK h : Sound(m, h, asked, RootAt, Other, ramEnd)
  BY DEF SoundNow
<1>2. RootAt[<<"high", 0>>] = high /\ <<"high", 0>> \in RootHolders \ Users
  BY RootsAre, HoldersAre DEF RootAt
<1>3. /\ high \in DOMAIN asked /\ IsRoot(h, high)
      /\ \A va \in Pages : Lookup(m, high, va) = asked[high][va]
  BY <1>1, HighIs
<1>4. /\ DOMAIN a1 = DOMAIN asked /\ a1[high] = Painted(asked[high], ranges, Len(ranges))
      /\ \A r \in DOMAIN asked : r # high => a1[r] = asked[r]
  BY <1>3, AskedIs
<1>5. ShapeOf(m, h) /\ Filled(m, h, NoFrame)
  BY <1>1 DEF Sound
<1>6. mem1 = MapRanges(m, high, ranges) /\ mem1.ok
  OBVIOUS
<1> HIDE DEF mem1, a1
<1>7. PICK h1 : /\ ShapeOf(mem1, h1) /\ Filled(mem1, h1, NoFrame) /\ Extends(m, h, mem1, h1, high)
                /\ Leads(m, h, mem1, high, Painted(asked[high], ranges, Len(ranges)))
  BY <1>3, <1>5, <1>6, MapRangesIs
<1>8. Sound(mem1, h1, a1, RootAt, Other, ramEnd)
  BY <1>1, <1>2, <1>4, <1>7, SoundPaint
<1>9. m' = mem1 /\ asked' = a1 /\ RootAt' = RootAt /\ Other' = Other /\ ramEnd' = ramEnd
  BY DEF mem1, a1, RootAt, Other
<1> QED BY <1>8, <1>9 DEF SoundNow

(* The same for one range, too short for blocks or where nothing is *)
LEMMA SoundMappedOne ==
  ASSUME SoundNow, high # NoRoot, NEW r, IsRange(r),
         r.n < BLOCK \/ \A page \in Pages : Covers(r, page) => asked[high][page] = Nowhere,
         m' = MapRange(m, high, r), m'.ok, asked' = Asked(high, <<r>>),
         UNCHANGED <<ramEnd, low, high, emptySpace, building, kept, task>>
  PROVE  /\ SoundNow'
         /\ \A page \in Pages : asked'[high][page] = IF Covers(r, page) THEN Target(r, page) ELSE asked[high][page]
<1> DEFINE ranges == <<r>>
<1>1. Len(ranges) = 1 /\ ranges[1] = r
  OBVIOUS
<1>2. m' = MapRanges(m, high, ranges)
  BY OneRange
<1>3. asked' = Asked(high, ranges)
  OBVIOUS
<1>4. \A n \in 1 .. Len(ranges) : IsRange(ranges[n]) /\ Fits(asked[high], ranges, n)
  <2> SUFFICES ASSUME NEW n \in 1 .. 1 PROVE IsRange(ranges[n]) /\ Fits(asked[high], ranges, n)
    BY <1>1
  <2>1. n = 1 /\ ranges[n] = r /\ \A k \in 1 .. n - 1 : FALSE
    BY <1>1
  <2> HIDE DEF ranges
  <2> QED BY <2>1 DEF Fits
<1>5. \A page \in Pages : asked'[high][page] = IF Covers(r, page) THEN Target(r, page) ELSE asked[high][page]
  <2>1. PICK h : Sound(m, h, asked, RootAt, Other, ramEnd)
    BY DEF SoundNow
  <2>2. high \in DOMAIN asked
    BY <2>1, HighIs
  <2>3. asked'[high] = Painted(asked[high], ranges, Len(ranges))
    <3> HIDE DEF ranges
    <3> QED BY <1>3, <2>2, AskedIs
  <2>4. asked'[high] = Painted(asked[high], <<r>>, 1)
    BY <1>1, <2>3
  <2> QED BY <2>4, PaintedOne
<1> HIDE DEF ranges
<1>6. Len(ranges) \in Nat /\ SoundNow /\ high # NoRoot /\ m'.ok
  BY <1>1
<1>7. UNCHANGED <<ramEnd, low, high, emptySpace, building, kept, task>>
  OBVIOUS
<1>8. SoundNow'
  BY ONLY <1>2, <1>3, <1>4, <1>6, <1>7, SoundMapped
<1> QED BY <1>5, <1>8

(* The blob outside the guess: it is shorter than a block, so only pages are mapped. *)
LEMMA StepBlob ==
  ASSUME BootInv, MapBlob PROVE BootInv'
<1> USE DEF BootInv
<1> DEFINE r == R(machine.blob.base, machine.blob.base, machine.blob.n, "data")
<1>0. pc = "built" /\ emptySpace = NoRoot /\ high # NoRoot /\ adopted = {} /\ ramEnd = Guess
  BY BeforeTasks DEF MapBlob, Fresh, Phases
<1>1. CASE Halt
  BY <1>1, StepHalt
<1>2. CASE /\ ~(HasBlob /\ OutsideGuess) /\ pc' = "mapped"
           /\ UNCHANGED <<m, asked, ttbr0, bootVars, taskVars>>
  <2> USE <1>2 DEF bootVars, taskVars
  <2>1. SoundNow'
    BY SoundStays
  <2>2. BootTypes'
    BY DEF BootTypes, NewEnd
  <2>3. Phases'
    BY <1>0 DEF Phases, Fresh, HighOn, Running, Making
  <2>4. KernelMaps'
    <3>1. MapUpTo(Guess) /\ (MapUpTo(Guess) => MapUpTo(Guess)')
      BY <1>0 DEF KernelMaps, MapUpTo
    <3> QED BY <1>0, <3>1 DEF KernelMaps
  <2>5. SpaceMaps'
    BY <1>0 DEF SpaceMaps
  <2>6. TaskFacts'
    BY <1>0, NoTaskFacts
  <2> QED BY <2>1, <2>2, <2>3, <2>4, <2>5, <2>6
<1>3. CASE /\ HasBlob /\ OutsideGuess /\ pc' = "mapped" /\ MapRange(m, high, r).ok
           /\ m' = MapRange(m, high, r) /\ asked' = Asked(high, <<r>>)
           /\ UNCHANGED <<ttbr0, bootVars, taskVars>>
  <2>0. /\ HasBlob /\ OutsideGuess /\ pc' = "mapped" /\ m'.ok
        /\ m' = MapRange(m, high, r) /\ asked' = Asked(high, <<r>>)
        /\ UNCHANGED <<ttbr0, machine, ramEnd, low, high, ttbr1, kept, todo, adopted, emptySpace,
                       building, task, current>>
    BY <1>3 DEF bootVars, taskVars
  <2>1. /\ machine.blob.base \in Nat /\ machine.blob.n \in Nat /\ machine.blob.n < BLOCK
        /\ machine.blob.base + machine.blob.n <= PAGES
    BY MemoryIs DEF BootTypes
  <2>2. r.va = machine.blob.base /\ r.pa = machine.blob.base /\ r.n = machine.blob.n /\ r.attrs = "data"
    BY DEF R
  <2> HIDE DEF r
  <2>3. IsRange(r) /\ r.n < BLOCK
    BY <2>1, <2>2 DEF IsRange
  <2>4. /\ SoundNow'
        /\ \A page \in Pages : asked'[high][page] = IF Covers(r, page) THEN Target(r, page) ELSE asked[high][page]
    BY <1>0, <2>0, <2>3, SoundMappedOne
  <2>5. \A page \in Pages : Covers(r, page) => Target(r, page) = [at |-> page, attrs |-> "data"]
    BY <2>1, <2>2, Spans DEF Target, Pages
  <2>6. BootTypes'
    BY <2>0 DEF BootTypes, NewEnd
  <2>7. Phases'
    BY <1>0, <2>0 DEF Phases, Fresh, HighOn, Running, Making
  <2>8. KernelMaps'
    <3>1. ASSUME NEW f \in KernelEnd .. ramEnd - 1 PROVE asked'[high][f] = [at |-> f, attrs |-> "data"]
      <4>1. f \in Pages
        BY LayoutIs DEF BootTypes, Pages
      <4>2. asked[high][f] = [at |-> f, attrs |-> "data"]
        BY <1>0 DEF KernelMaps
      <4> QED BY <2>4, <2>5, <4>1, <4>2
    <3>2. (HasBlob /\ OutsideGuess)'
      BY <2>0 DEF HasBlob, OutsideGuess, BlobEnd
    <3> QED BY <1>0, <2>0, <3>1, <3>2 DEF KernelMaps
  <2>9. SpaceMaps'
    BY <1>0, <2>0 DEF SpaceMaps
  <2>10. TaskFacts'
    BY <1>0, <2>0, NoTaskFacts
  <2> QED BY <2>4, <2>6, <2>7, <2>8, <2>9, <2>10
<1> QED BY <1>1, <1>2, <1>3 DEF MapBlob

(* adopt_memory_map, the map: the new memory goes where nothing is. *)
LEMMA StepExtend ==
  ASSUME BootInv, ExtendMap PROVE BootInv'
<1> USE DEF BootInv
<1>0. /\ pc = "extend" /\ emptySpace = NoRoot /\ high # NoRoot /\ adopted = {} /\ ramEnd = Guess /\ ttbr1 = high
      /\ MapUpTo(Guess)
  BY BeforeTasks DEF ExtendMap, Fresh, Phases, HighOn, KernelMaps
<1>1. CASE Halt
  BY <1>1, StepHalt
<1>2. CASE ~Halt
  <2>0. /\ m'.ok /\ m' = MapRanges(m, high, Extension) /\ pc' = "adopt" /\ asked' = Asked(high, Extension)
        /\ UNCHANGED <<ttbr0, machine, ramEnd, low, high, ttbr1, kept, todo, adopted, emptySpace,
                       building, task, current>>
    BY <1>0, <1>2 DEF ExtendMap, bootVars, taskVars
  <2>1. NewEnd \in Nat /\ NewEnd <= PAGES /\ ramEnd \in Nat /\ RAM_BASE <= ramEnd
    BY <1>0, LayoutIs, MemoryIs DEF BootTypes, NewEnd, Guess
  <2>2. PICK h : Sound(m, h, asked, RootAt, Other, ramEnd)
    BY DEF SoundNow
  <2>3. high \in DOMAIN asked
    BY <1>0, <2>2, HighIs
  <2>4. /\ SoundNow'
        /\ \A page \in Pages : asked'[high][page] =
             IF ramEnd <= page /\ page < NewEnd THEN [at |-> page, attrs |-> "data"] ELSE asked[high][page]
    <3>1. CASE NewEnd > ramEnd
      <4> DEFINE r == Growth
      <4>1. r.va = ramEnd /\ r.pa = ramEnd /\ r.n = NewEnd - ramEnd /\ r.attrs = "data"
        BY DEF R, Growth
      <4>2. Extension = <<r>>
        BY <3>1 DEF Extension
      <4> HIDE DEF r
      <4>3. IsRange(r)
        BY <2>1, <3>1, <4>1 DEF IsRange
      <4>4. \A page \in Pages : Covers(r, page) <=> ramEnd <= page /\ page < NewEnd
        BY <2>1, <3>1, <4>1, Spans DEF Covers, Pages
      <4>5. \A page \in Pages : Covers(r, page) => Target(r, page) = [at |-> page, attrs |-> "data"]
        BY <2>1, <4>1, Spans DEF Target, Pages
      <4>6. \A page \in Pages : Covers(r, page) => asked[high][page] = Nowhere
        <5> SUFFICES ASSUME NEW page \in Pages, ramEnd <= page, asked[high][page] # Nowhere PROVE FALSE
          BY <4>4
        <5>1. page \in Window \/ page < Guess
          BY <1>0 DEF MapUpTo
        <5>2. page \in Nat
          BY DEF Pages
        <5> QED BY <1>0, <2>1, <5>1, <5>2, LayoutIs DEF Window
      <4>7. m' = MapRange(m, high, r)
        BY <2>0, <4>2, OneRange
      <4>8. /\ SoundNow'
            /\ \A page \in Pages : asked'[high][page] = IF Covers(r, page) THEN Target(r, page) ELSE asked[high][page]
        BY <1>0, <2>0, <4>2, <4>3, <4>6, <4>7, SoundMappedOne
      <4> QED BY <4>4, <4>5, <4>8
    <3>2. CASE ~(NewEnd > ramEnd)
      <4>1. Extension = <<>> /\ Len(Extension) = 0
        BY <3>2 DEF Extension
      <4>2. SoundNow'
        BY <1>0, <2>0, <4>1, SoundMapped
      <4>3. \A page \in Pages : asked'[high][page] = asked[high][page]
        <5>1. asked'[high] = Painted(asked[high], Extension, 0)
          BY <2>0, <2>3, <4>1, AskedIs
        <5> QED BY <5>1, PaintedNone
      <4>4. \A page \in Pages : ~(ramEnd <= page /\ page < NewEnd)
        BY <2>1, <3>2 DEF Pages
      <4> QED BY <4>2, <4>3, <4>4
    <3> QED BY <3>1, <3>2
  <2>5. BootTypes'
    BY <2>0 DEF BootTypes, NewEnd
  <2>6. Phases'
    BY <1>0, <2>0 DEF Phases, Fresh, HighOn, Running, Making
  <2>7. KernelMaps'
    <3>0. NewEnd' = NewEnd
      BY <2>0 DEF NewEnd
    <3>1. ASSUME NEW f \in KernelEnd .. ramEnd - 1 PROVE asked'[high][f] = [at |-> f, attrs |-> "data"]
      <4>1. f \in Pages
        BY LayoutIs DEF BootTypes, Pages
      <4>2. asked[high][f] = [at |-> f, attrs |-> "data"]
        BY <1>0 DEF KernelMaps
      <4> QED BY <2>4, <4>1, <4>2
    <3>2. ASSUME NEW f \in KernelEnd .. NewEnd - 1 PROVE asked'[high][f] = [at |-> f, attrs |-> "data"]
      <4>1. f \in Pages
        BY <2>1, LayoutIs DEF Pages
      <4>2. CASE f < ramEnd
        <5>1. f \in KernelEnd .. ramEnd - 1
          BY <2>1, <4>2, LayoutIs
        <5> QED BY <3>1, <5>1
      <4>3. CASE ramEnd <= f
        <5>1. f < NewEnd
          BY <2>1, LayoutIs
        <5> QED BY <2>4, <4>1, <4>3, <5>1
      <4> QED BY <2>1, <4>2, <4>3, LayoutIs
    <3>3. MapUpTo(IF NewEnd > Guess THEN NewEnd ELSE Guess)'
      <4> DEFINE end == IF NewEnd > Guess THEN NewEnd ELSE Guess
      <4>1. ASSUME NEW page \in Window PROVE asked'[high][page] = [at |-> page, attrs |-> "device"]
        <5>1. page \in Pages /\ ~(ramEnd <= page)
          BY <2>1, LayoutIs DEF Window, Pages
        <5>2. asked[high][page] = [at |-> page, attrs |-> "device"]
          BY <1>0 DEF MapUpTo
        <5> QED BY <2>4, <5>1, <5>2
      <4>2. ASSUME NEW page \in Pages, asked'[high][page] # Nowhere
            PROVE  page \in Window \/ (RAM_BASE <= page /\ page < end)
        <5>1. page \in Nat /\ Guess \in Nat
          BY LayoutIs DEF Pages, Guess
        <5>2. CASE ramEnd <= page /\ page < NewEnd
          BY <1>0, <2>1, <5>1, <5>2, LayoutIs
        <5>3. CASE ~(ramEnd <= page /\ page < NewEnd)
          <6>1. asked[high][page] # Nowhere
            BY <2>4, <4>2, <5>3
          <6>2. page \in Window \/ (RAM_BASE <= page /\ page < Guess)
            BY <1>0, <6>1 DEF MapUpTo
          <6> QED BY <2>1, <5>1, <6>2
        <5> QED BY <5>2, <5>3
      <4>3. end' = end
        BY <3>0 DEF Guess
      <4> HIDE DEF end
      <4>4. MapUpTo(end)'
        BY <2>0, <4>1, <4>2, <4>3 DEF MapUpTo
      <4> QED BY <4>4 DEF end
    <3> QED BY <1>0, <2>0, <3>0, <3>1, <3>2, <3>3 DEF KernelMaps
  <2>8. SpaceMaps'
    BY <1>0, <2>0 DEF SpaceMaps
  <2>9. TaskFacts'
    BY <1>0, <2>0, NoTaskFacts
  <2> QED BY <2>4, <2>5, <2>6, <2>7, <2>8, <2>9
<1> QED BY <1>1, <1>2

(* adopt_memory_map, the allocator: frames enter the pool at the end or leave it free. *)
LEMMA StepAdopt ==
  ASSUME BootInv, Adopt PROVE BootInv'
<1> USE DEF BootInv
<1>0. /\ pc = "adopt" /\ emptySpace = NoRoot /\ high # NoRoot /\ adopted = {} /\ kept = {} /\ ramEnd = Guess
      /\ MapUpTo(IF NewEnd > Guess THEN NewEnd ELSE Guess)
      /\ \A f \in KernelEnd .. NewEnd - 1 : asked[high][f] = [at |-> f, attrs |-> "data"]
  BY BeforeTasks DEF Adopt, Fresh, Phases, KernelMaps
<1>1. /\ pc' = "reserve"
      /\ UNCHANGED <<asked, ttbr0, machine, low, high, ttbr1, kept, todo, adopted, emptySpace,
                     building, task, current>>
  BY DEF Adopt, taskVars
<1>2. NewEnd \in Nat /\ ramEnd \in Nat /\ KernelEnd <= ramEnd /\ ramEnd <= RAM_BASE + MAX_RAM
  BY MemoryIs DEF BootTypes, NewEnd
<1>3. PICK h : Sound(m, h, asked, RootAt, Other, ramEnd)
  BY DEF SoundNow
<1>4. m.free \subseteq KernelEnd .. ramEnd - 1 /\ m.free \subseteq Ram
  BY <1>3, HeldOut
<1>5. Phases' /\ SpaceMaps' /\ TaskFacts'
  <2>1. Phases'
    BY <1>0, <1>1 DEF Phases, Fresh, HighOn, Running, Making
  <2>2. SpaceMaps'
    BY <1>0, <1>1 DEF SpaceMaps
  <2>3. TaskFacts'
    BY <1>0, <1>1, NoTaskFacts
  <2> QED BY <2>1, <2>2, <2>3
<1>6. CASE AdoptRefused
  <2>0. UNCHANGED <<m, ramEnd>>
    BY <1>6 DEF Adopt
  <2>1. SoundNow'
    BY <1>1, <2>0, SoundStays
  <2>2. BootTypes'
    BY <1>1, <2>0 DEF BootTypes, NewEnd
  <2>3. KernelMaps'
    <3>1. MapUpTo(IF NewEnd > Guess THEN NewEnd ELSE Guess)'
      BY <1>0, <1>1 DEF MapUpTo, NewEnd
    <3> QED BY <1>0, <1>1, <2>0, <3>1 DEF KernelMaps
  <2> QED BY <2>1, <2>2, <2>3, <1>5
<1>7. CASE ~AdoptRefused
  <2> DEFINE free1 == (m.free \cup (ramEnd .. NewEnd - 1)) \ (NewEnd .. ramEnd - 1)
  <2>0. ramEnd' = NewEnd /\ m' = Memory(m.table, free1)
    BY <1>7 DEF Adopt
  <2>1. /\ machine.memory.base = RAM_BASE /\ NewEnd <= RAM_BASE + MAX_RAM
        /\ NewEnd < ramEnd => NewEnd .. ramEnd - 1 \subseteq m.free
    BY <1>7, MemoryIs DEF AdoptRefused, BootTypes, NewEnd
  <2>2. KernelEnd <= NewEnd
    <3>1. CASE NewEnd < ramEnd
      <4>1. NewEnd \in NewEnd .. ramEnd - 1
        BY <1>2, <3>1
      <4>2. NewEnd \in KernelEnd .. ramEnd - 1
        BY <1>4, <2>1, <3>1, <4>1
      <4> QED BY <4>2, LayoutIs
    <3>2. CASE ~(NewEnd < ramEnd)
      BY <1>2, <3>2, LayoutIs
    <3> QED BY <3>1, <3>2
  <2>3. free1 \subseteq KernelEnd .. NewEnd - 1 /\ free1 \subseteq Ram
    <3> SUFFICES ASSUME NEW f \in free1 PROVE f \in KernelEnd .. NewEnd - 1 /\ f \in Ram
      OBVIOUS
    <3>1. CASE f \in m.free
      <4>1. f \in KernelEnd .. ramEnd - 1 /\ f \in Ram /\ f \notin NewEnd .. ramEnd - 1
        BY <1>4, <3>1
      <4> QED BY <1>2, <4>1, LayoutIs
    <3>2. CASE f \in ramEnd .. NewEnd - 1
      BY <1>2, <2>1, <3>2, LayoutIs DEF Ram
    <3> QED BY <3>1, <3>2
  <2>4. (KernelEnd .. NewEnd - 1) \ free1 = (KernelEnd .. ramEnd - 1) \ m.free
    <3>1. ASSUME NEW f \in (KernelEnd .. NewEnd - 1) \ free1 PROVE f \in (KernelEnd .. ramEnd - 1) \ m.free
      <4>1. f \notin NewEnd .. ramEnd - 1
        BY <1>2, LayoutIs
      <4>2. f \notin m.free /\ f \notin ramEnd .. NewEnd - 1
        BY <4>1
      <4> QED BY <1>2, <4>2, LayoutIs
    <3>2. ASSUME NEW f \in (KernelEnd .. ramEnd - 1) \ m.free PROVE f \in (KernelEnd .. NewEnd - 1) \ free1
      <4>1. f \notin ramEnd .. NewEnd - 1
        BY <1>2, LayoutIs
      <4>2. f < NewEnd
        <5> SUFFICES ASSUME ~(f < NewEnd) PROVE FALSE
          OBVIOUS
        <5>1. f \in NewEnd .. ramEnd - 1 /\ NewEnd < ramEnd
          BY <1>2, LayoutIs
        <5> QED BY <2>1, <5>1
      <4> QED BY <1>2, <4>1, <4>2, LayoutIs
    <3> HIDE DEF free1
    <3> QED BY <3>1, <3>2
  <2>5. m'.ok /\ m'.table = m.table /\ m'.free = free1
    BY <2>0 DEF Memory
  <2> HIDE DEF free1
  <2>6. Sound(m', h, asked, RootAt, Other, NewEnd)
    <3> DEFINE mem1 == m'
    <3>1. mem1.ok /\ mem1.table = m.table /\ mem1.free = free1
      BY <2>5
    <3> HIDE DEF mem1
    <3>2. Sound(mem1, h, asked, RootAt, Other, NewEnd)
      BY <1>3, <2>3, <2>4, <3>1, SoundResize
    <3> QED BY <3>2 DEF mem1
  <2>7. SoundNow'
    <3>1. RootAt' = RootAt /\ Other' = Other /\ asked' = asked
      BY <1>1 DEF RootAt, Other
    <3> QED BY <2>0, <2>6, <3>1 DEF SoundNow
  <2>8. BootTypes'
    BY <1>1, <1>2, <2>0, <2>1, <2>2 DEF BootTypes, NewEnd
  <2>9. KernelMaps'
    <3>1. MapUpTo(IF NewEnd > Guess THEN NewEnd ELSE Guess)'
      BY <1>0, <1>1 DEF MapUpTo, NewEnd
    <3> QED BY <1>0, <1>1, <2>0, <3>1 DEF KernelMaps
  <2> QED BY <2>7, <2>8, <2>9, <1>5
<1> QED BY <1>6, <1>7

(* The pool after each reservation *)
IsLeft(left) ==
  /\ Unreserved = left[Len(Regions)] /\ left[0] = m.free
  /\ \A n \in 0 .. Len(Regions) : n # 0 => left[n] = ReserveRange(left[n - 1], Regions[n])

(* One reservation after the other *)
LEMMA UnreservedDef ==
  ASSUME Len(Regions) \in Nat
  PROVE  \E left : IsLeft(left)
<1> DEFINE Step(t, n) == ReserveRange(t, Regions[n])
           Upto(x, k) == x = [n \in 0 .. k |-> IF n = 0 THEN m.free ELSE Step(x[n - 1], n)]
           Bad == {k \in Nat : ~ \E x : Upto(x, k)}
<1>1. ASSUME Bad # {} PROVE FALSE
  <2>0. Bad \in SUBSET Nat
    OBVIOUS
  <2>1. PICK k \in Bad : k = 0 \/ (k - 1 \in Nat /\ k - 1 \notin Bad)
    <3> HIDE DEF Bad
    <3> QED BY <1>1, <2>0, FirstOf
  <2> HIDE DEF Step
  <2>2. CASE k = 0
    <3>1. Upto([n \in 0 .. 0 |-> m.free], 0)
      OBVIOUS
    <3> QED BY <2>1, <2>2, <3>1
  <2>3. CASE k # 0
    <3>1. PICK x : Upto(x, k - 1)
      BY <2>1, <2>3
    <3> DEFINE y == [n \in 0 .. k |-> IF n = k THEN Step(x[k - 1], k) ELSE x[n]]
    <3>2. k \in Nat /\ \A n \in 0 .. k - 1 : x[n] = IF n = 0 THEN m.free ELSE Step(x[n - 1], n)
      BY <2>1, <3>1
    <3>3. \A n \in 0 .. k : y[n] = IF n = 0 THEN m.free ELSE Step(y[n - 1], n)
      <4> TAKE n \in 0 .. k
      <4>1. CASE n = k
        BY <2>3, <3>2, <4>1
      <4>2. CASE n # k
        <5>1. n \in 0 .. k - 1 /\ (n # 0 => n - 1 \in 0 .. k - 1)
          BY <3>2, <4>2
        <5> QED BY <3>2, <5>1
      <4> QED BY <4>1, <4>2
    <3>4. Upto(y, k)
      <4>1. y = [n \in 0 .. k |-> y[n]]
        OBVIOUS
      <4> HIDE DEF y
      <4> QED BY <3>3, <4>1
    <3> QED BY <2>1, <3>4
  <2> QED BY <2>2, <2>3
<1>2. \E x : Upto(x, Len(Regions))
  BY <1>1
<1>3. Upto(CHOOSE x : Upto(x, Len(Regions)), Len(Regions))
  BY <1>2, Zenon
<1> DEFINE left == CHOOSE x : Upto(x, Len(Regions))
<1>4. Unreserved = left[Len(Regions)]
  BY DEF Unreserved
<1>5. left = [n \in 0 .. Len(Regions) |-> IF n = 0 THEN m.free ELSE Step(left[n - 1], n)]
  BY <1>3
<1> HIDE DEF left
<1>6. left[0] = m.free /\ \A n \in 0 .. Len(Regions) : n # 0 => left[n] = Step(left[n - 1], n)
  <2> HIDE DEF Step
  <2> QED BY <1>5
<1>7. IsLeft(left)
  BY <1>4, <1>6 DEF IsLeft
<1> QED BY <1>7


(* Reservations only take frames away. *)
LEMMA UnreservedIs ==
  ASSUME machine \in Machines PROVE Unreserved \subseteq m.free
<1>1. Len(Regions) \in Nat
  <2>1. machine.blob \in Extents /\ machine.reservations \in Seq(Extents)
    BY MachineAssumption
  <2> QED BY <2>1 DEF Regions
<1>2. PICK left : IsLeft(left)
  BY <1>1, UnreservedDef
<1> DEFINE len == Len(Regions)
           Bad == {n \in 0 .. len : ~(left[n] \subseteq m.free)}
<1>3. ASSUME Bad # {} PROVE FALSE
  <2>0. Bad \in SUBSET Nat
    OBVIOUS
  <2>1. PICK n \in Bad : n = 0 \/ (n - 1 \in Nat /\ n - 1 \notin Bad)
    <3> HIDE DEF Bad
    <3> QED BY <1>3, <2>0, FirstOf
  <2>2. n \in 0 .. len /\ ~(left[n] \subseteq m.free)
    BY <2>1
  <2>3. CASE n = 0
    BY <1>2, <2>2, <2>3 DEF IsLeft
  <2>4. CASE n # 0
    <3>1. left[n - 1] \subseteq m.free
      BY <1>1, <2>1, <2>2, <2>4
    <3>2. left[n] = ReserveRange(left[n - 1], Regions[n])
      BY <1>2, <2>2, <2>4 DEF IsLeft
    <3>3. left[n] \subseteq left[n - 1]
      BY <3>2 DEF ReserveRange
    <3> QED BY <2>2, <3>1, <3>3
  <2> QED BY <2>3, <2>4
<1>4. len \in 0 .. len
  BY <1>1
<1> QED BY <1>2, <1>3, <1>4 DEF IsLeft

(* reserve_range takes frames out of the pool for good. *)
LEMMA StepReserve ==
  ASSUME BootInv, ReserveRegions PROVE BootInv'
<1> USE DEF BootInv
<1>0. /\ pc = "reserve" /\ emptySpace = NoRoot /\ high # NoRoot /\ adopted = {} /\ kept = {}
      /\ MapUpTo(IF NewEnd > Guess THEN NewEnd ELSE Guess)
  BY BeforeTasks DEF ReserveRegions, Fresh, Phases, KernelMaps
<1>1. CASE Halt
  BY <1>1, StepHalt
<1>2. CASE ~Halt
  <2>0. /\ m' = Memory(m.table, Unreserved) /\ kept' = m.free \ Unreserved /\ pc' = "devices"
        /\ UNCHANGED <<asked, ttbr0, machine, ramEnd, low, high, ttbr1, todo, adopted, emptySpace,
                       building, task, current>>
    BY <1>2 DEF ReserveRegions, taskVars
  <2>1. PICK h : Sound(m, h, asked, RootAt, Other, ramEnd)
    BY DEF SoundNow
  <2>2. Unreserved \subseteq m.free
    BY UnreservedIs DEF BootTypes
  <2> DEFINE mem1 == m'
             S == m.free \ Unreserved
  <2>3. /\ mem1.ok /\ mem1.free = m.free \ S /\ S \in SUBSET m.free
        /\ mem1.table = m.table
    BY <2>0, <2>2 DEF Memory
  <2>4. Other[<<"kept", 0>>] = {} /\ Other'[<<"kept", 0>>] = S
    BY <1>0, <2>0, OthersAre DEF Other
  <2>5. \A y \in FrameHolders : y # <<"kept", 0>> => Other'[y] = Other[y]
    BY <2>0, OthersAre, HolderCases DEF Other
  <2>6. Sound(mem1, h, asked, RootAt, Other', ramEnd)
    <3> DEFINE x == <<"kept", 0>>
               other1 == Other'
    <3>1. x \in FrameHolders /\ other1[x] = Other[x] \cup S
          /\ \A y \in FrameHolders : y # x => other1[y] = Other[y]
      BY <2>4, <2>5, HoldersAre
    <3> HIDE DEF x, other1, mem1, S
    <3>2. Sound(mem1, h, asked, RootAt, other1, ramEnd)
      BY <2>1, <2>3, <3>1, SoundTake
    <3> QED BY <3>2 DEF other1
  <2>7. SoundNow'
    <3>1. RootAt' = RootAt /\ asked' = asked /\ ramEnd' = ramEnd
      BY <2>0 DEF RootAt
    <3> QED BY <2>6, <3>1 DEF SoundNow
  <2>8. BootTypes'
    BY <2>0 DEF BootTypes, NewEnd
  <2>9. Phases'
    BY <1>0, <2>0 DEF Phases, Fresh, HighOn, Running, Making
  <2>10. KernelMaps'
    <3>1. MapUpTo(IF NewEnd > Guess THEN NewEnd ELSE Guess)'
      BY <1>0, <2>0 DEF MapUpTo, NewEnd
    <3> QED BY <1>0, <2>0, <3>1 DEF KernelMaps
  <2>11. SpaceMaps'
    BY <1>0, <2>0 DEF SpaceMaps
  <2>12. TaskFacts'
    BY <1>0, <2>0, NoTaskFacts
  <2> QED BY <2>7, <2>8, <2>9, <2>10, <2>11, <2>12
<1> QED BY <1>1, <1>2

(* One device: as big as a block, it lies where nothing is mapped. *)
LEMMA StepDevice ==
  ASSUME BootInv, AdoptDevice PROVE BootInv'
<1> USE DEF BootInv
<1> DEFINE i0 == Lowest(todo)
           d == machine.devices[i0]
           r == R(d.base, d.base, d.n, "device")
           end == IF NewEnd > Guess THEN NewEnd ELSE Guess
           page(i) == machine.devices[i].base .. DeviceEnd(machine.devices[i]) - 1
<1>0. /\ pc = "devices" /\ todo # {} /\ emptySpace = NoRoot /\ high # NoRoot /\ ttbr1 = high
      /\ MapUpTo(end)
  BY BeforeTasks DEF AdoptDevice, Fresh, Phases, KernelMaps, HighOn
<1>1. CASE Halt
  BY <1>1, StepHalt
<1>2. CASE ~Halt
  <2>0. /\ pc' = pc /\ adopted' = adopted \cup {i0} /\ todo' = todo \ {i0} /\ ~Straddles(d)
        /\ IF InWindow(d) THEN m' = m /\ asked' = asked
           ELSE m' = MapRange(m, high, r) /\ m'.ok /\ asked' = Asked(high, <<r>>)
        /\ UNCHANGED <<ttbr0, machine, ramEnd, low, high, ttbr1, kept, emptySpace, building, task, current>>
    BY <1>0, <1>2 DEF AdoptDevice, taskVars
  <2>1. i0 \in todo /\ i0 \in DOMAIN machine.devices /\ i0 \notin adopted
    <3>1. machine.devices \in Seq(Extents)
      BY MachineAssumption DEF BootTypes
    <3>2. todo \in SUBSET Nat
      BY <3>1 DEF BootTypes
    <3> QED BY <1>0, <3>2, LowestIs DEF BootTypes
  <2> HIDE DEF i0
  <2>2. /\ d.base \in Nat /\ d.n \in Nat /\ EndOf(d) = d.base + d.n /\ DeviceEnd(d) = d.base + d.n
        /\ d.base + d.n <= PAGES
        /\ d.base + d.n <= RAM_BASE \/ (d.base >= Guess /\ d.base >= NewEnd)
        /\ d.base >= DEVICE_BASE \/ d.base + d.n <= DEVICE_BASE + DEVICE_SIZE
        /\ \A j \in DOMAIN machine.devices \ {i0} : Meet(d, machine.devices[j]) => d.n < BLOCK
    BY <2>1, DevicesAre DEF BootTypes, Guess, NewEnd
  <2>3. NewEnd \in Nat /\ Guess \in Nat /\ end \in Nat /\ end \in {NewEnd, Guess}
    BY MemoryIs, LayoutIs DEF BootTypes, NewEnd, Guess
  <2>4. \A p \in Pages : p \in page(i0) <=> d.base <= p /\ p < d.base + d.n
    BY <2>2 DEF Pages
  <2>5. /\ SoundNow'
        /\ \A p \in Pages : asked'[high][p] =
             IF ~InWindow(d) /\ p \in page(i0) THEN [at |-> p, attrs |-> "device"] ELSE asked[high][p]
    <3>1. CASE InWindow(d)
      <4>1. SoundNow'
        BY <2>0, <3>1, SoundStays
      <4> QED BY <2>0, <3>1, <4>1
    <3>2. CASE ~InWindow(d)
      <4>1. r.va = d.base /\ r.pa = d.base /\ r.n = d.n /\ r.attrs = "device"
        BY DEF R
      <4> HIDE DEF r
      <4>2. IsRange(r)
        BY <2>2, <4>1 DEF IsRange
      <4>3. \A p \in Pages : Covers(r, p) <=> p \in page(i0)
        BY <2>4, <4>1 DEF Covers
      <4>4. \A p \in Pages : Covers(r, p) => Target(r, p) = [at |-> p, attrs |-> "device"]
        BY <2>2, <4>1 DEF Target, Pages
      <4>5. ASSUME ~(r.n < BLOCK), NEW p \in Pages, Covers(r, p) PROVE asked[high][p] = Nowhere
        <5> SUFFICES ASSUME asked[high][p] # Nowhere PROVE FALSE
          OBVIOUS
        <5>1. p \in Nat /\ d.base <= p /\ p < d.base + d.n
          BY <2>4, <4>3, <4>5 DEF Pages
        <5>2. \/ p \in Window \/ (RAM_BASE <= p /\ p < end) \/ \E i \in adopted : p \in page(i)
          BY <1>0 DEF MapUpTo
        <5>3. CASE p \in Window
          <6>1. d.base \notin Window /\ d.base + d.n - 1 \notin Window
            BY <2>0, <2>2, <3>2 DEF Straddles
          <6> QED BY <2>2, <5>1, <5>3, <6>1, LayoutIs DEF Window
        <5>4. CASE RAM_BASE <= p /\ p < end
          BY <2>2, <2>3, <5>1, <5>4, LayoutIs
        <5>5. ASSUME NEW i \in adopted, p \in page(i) PROVE FALSE
          <6> DEFINE e == machine.devices[i]
          <6>1. i \in DOMAIN machine.devices /\ i # i0
            BY <2>1 DEF BootTypes
          <6>2. e.base \in Nat /\ e.n \in Nat /\ EndOf(e) = e.base + e.n /\ DeviceEnd(e) = EndOf(e)
            BY <6>1, DevicesAre DEF BootTypes
          <6>3. Meet(d, e)
            BY <2>2, <5>1, <5>5, <6>2 DEF Meet
          <6> QED BY <2>2, <4>1, <4>5, <6>1, <6>3
        <5> QED BY <5>2, <5>3, <5>4, <5>5
      <4>6. m' = MapRange(m, high, r) /\ m'.ok /\ asked' = Asked(high, <<r>>)
        BY <2>0, <3>2
      <4>7. /\ SoundNow'
            /\ \A p \in Pages : asked'[high][p] = IF Covers(r, p) THEN Target(r, p) ELSE asked[high][p]
        BY <1>0, <2>0, <4>2, <4>5, <4>6, SoundMappedOne
      <4> QED BY <3>2, <4>3, <4>4, <4>7
    <3> QED BY <3>1, <3>2
  <2>6. BootTypes'
    BY <2>0, <2>1 DEF BootTypes, NewEnd
  <2>7. Phases'
    BY <1>0, <2>0 DEF Phases, Fresh, HighOn, Running, Making
  <2>8. KernelMaps'
    <3>0. NewEnd' = NewEnd /\ machine' = machine
      BY <2>0 DEF NewEnd
    <3>1. ASSUME NEW f \in KernelEnd .. ramEnd - 1 PROVE asked'[high][f] = [at |-> f, attrs |-> "data"]
      <4>1. f \in Pages /\ f \in Nat /\ KernelEnd <= f /\ f < ramEnd
        BY LayoutIs DEF BootTypes, Pages
      <4>2. asked[high][f] = [at |-> f, attrs |-> "data"]
        BY <1>0 DEF KernelMaps
      <4>3. f \notin page(i0)
        <5>1. f < Guess \/ f < NewEnd
          BY <2>3, <4>1 DEF BootTypes
        <5> QED BY <2>2, <2>3, <2>4, <4>1, <5>1, LayoutIs
      <4> QED BY <2>5, <4>1, <4>2, <4>3
    <3>2. \A p \in Window : p \in Pages /\ asked[high][p] = [at |-> p, attrs |-> "device"]
      <4>1. \A p \in Window : p \in Pages
        BY LayoutIs DEF Window, Pages
      <4>2. \A p \in Window : asked[high][p] = [at |-> p, attrs |-> "device"]
        BY <1>0 DEF MapUpTo
      <4> QED BY <4>1, <4>2
    <3>3. MapUpTo(end)'
      <4>1. ASSUME NEW p \in Window PROVE asked'[high][p] = [at |-> p, attrs |-> "device"]
        BY <2>5, <3>2
      <4>2. ASSUME NEW p \in Pages, asked'[high][p] # Nowhere
            PROVE  p \in Window \/ (RAM_BASE <= p /\ p < end) \/ \E i \in adopted' : p \in page(i)
        <5>1. CASE p \in page(i0)
          BY <2>0, <5>1
        <5>2. CASE p \notin page(i0)
          <6>1. asked[high][p] # Nowhere
            BY <2>5, <4>2, <5>2
          <6>2. p \in Window \/ (RAM_BASE <= p /\ p < end) \/ \E i \in adopted : p \in page(i)
            BY <1>0, <6>1 DEF MapUpTo
          <6> QED BY <2>0, <6>2
        <5> QED BY <5>1, <5>2
      <4>3. end' = end
        BY <3>0 DEF Guess
      <4> HIDE DEF end
      <4> QED BY <2>0, <4>1, <4>2, <4>3 DEF MapUpTo
    <3>4. ASSUME NEW i \in adopted', NEW p \in page(i) PROVE asked'[high][p] = [at |-> p, attrs |-> "device"]
      <4>1. i \in DOMAIN machine.devices
        BY <2>0, <2>1 DEF BootTypes
      <4>2. p \in Pages
        BY <4>1, DevicesAre, Spans DEF BootTypes, Pages
      <4>3. CASE i = i0 /\ ~InWindow(d)
        BY <2>5, <4>2, <4>3
      <4>4. CASE i = i0 /\ InWindow(d)
        <5>1. p \in Window
          BY <2>2, <4>4, LayoutIs DEF InWindow, Window
        <5> QED BY <2>5, <3>2, <5>1
      <4>5. CASE i # i0
        <5>1. i \in adopted
          BY <2>0, <4>5
        <5>2. asked[high][p] = [at |-> p, attrs |-> "device"]
          BY <5>1 DEF KernelMaps
        <5> QED BY <2>5, <4>2, <5>2
      <4> QED BY <4>3, <4>4, <4>5
    <3> QED BY <1>0, <2>0, <3>0, <3>1, <3>3, <3>4 DEF KernelMaps
  <2>9. SpaceMaps'
    BY <1>0, <2>0 DEF SpaceMaps
  <2>10. TaskFacts'
    BY <1>0, <2>0, NoTaskFacts
  <2> QED BY <2>5, <2>6, <2>7, <2>8, <2>9, <2>10
<1> QED BY <1>1, <1>2

-----------------------------------------------------------------------------
(* The tables that the machine starts on *)

LEMMA LayoutRanges ==
  /\ Len(Layout) = 6
  /\ Layout[1] = R(RAM_BASE, RAM_BASE, TextStart - RAM_BASE, "data")
  /\ Layout[2] = R(TextStart, TextStart, RodataStart - TextStart, "text")
  /\ Layout[3] = R(RodataStart, RodataStart, DataStart - RodataStart, "rodata")
  /\ Layout[4] = R(DataStart, DataStart, KernelEnd - DataStart, "data")
  /\ Layout[5] = R(KernelEnd, KernelEnd, RAM_BASE + DEFAULT_RAM - KernelEnd, "data")
  /\ Layout[6] = R(DEVICE_BASE, DEVICE_BASE, DEVICE_SIZE, "device")
BY DEF Layout

(* Which pages each range covers *)
LEMMA LayoutCovers ==
  ASSUME NEW page \in Pages
  PROVE  /\ Covers(Layout[1], page) <=> RAM_BASE <= page /\ page < TextStart
         /\ Covers(Layout[2], page) <=> TextStart <= page /\ page < RodataStart
         /\ Covers(Layout[3], page) <=> RodataStart <= page /\ page < DataStart
         /\ Covers(Layout[4], page) <=> DataStart <= page /\ page < KernelEnd
         /\ Covers(Layout[5], page) <=> KernelEnd <= page /\ page < Guess
         /\ Covers(Layout[6], page) <=> DEVICE_BASE <= page /\ page < DEVICE_BASE + DEVICE_SIZE
<1> USE LayoutRanges, LayoutIs DEF Pages, R
<1>1. Covers(Layout[1], page) <=> RAM_BASE <= page /\ page < TextStart
  BY DEF Covers
<1>2. Covers(Layout[2], page) <=> TextStart <= page /\ page < RodataStart
  BY DEF Covers
<1>3. Covers(Layout[3], page) <=> RodataStart <= page /\ page < DataStart
  BY DEF Covers
<1>4. Covers(Layout[4], page) <=> DataStart <= page /\ page < KernelEnd
  BY DEF Covers
<1>5. Covers(Layout[5], page) <=> KernelEnd <= page /\ page < Guess
  BY DEF Covers, Guess
<1>6. Covers(Layout[6], page) <=> DEVICE_BASE <= page /\ page < DEVICE_BASE + DEVICE_SIZE
  BY DEF Covers
<1> QED BY <1>1, <1>2, <1>3, <1>4, <1>5, <1>6

(* The ranges are apart. *)
LEMMA LayoutFits ==
  ASSUME NEW n \in 1 .. Len(Layout) PROVE IsRange(Layout[n]) /\ Fits(Unmapped, Layout, n)
<1>0. n \in {1, 2, 3, 4, 5, 6}
  BY LayoutRanges
<1>1. IsRange(Layout[n])
  <2> USE LayoutRanges, LayoutIs DEF IsRange, R
  <2>1. CASE n = 1
    BY <2>1
  <2>2. CASE n = 2
    BY <2>2
  <2>3. CASE n = 3
    BY <2>3
  <2>4. CASE n = 4
    BY <2>4
  <2>5. CASE n = 5
    BY <2>5
  <2>6. CASE n = 6
    BY <2>6
  <2> QED BY <1>0, <2>1, <2>2, <2>3, <2>4, <2>5, <2>6
<1>2. ASSUME NEW page \in Pages, Covers(Layout[n], page)
      PROVE  Unmapped[page] = Nowhere /\ \A k \in 1 .. n - 1 : ~Covers(Layout[k], page)
  <2>1. page \in Nat
    BY DEF Pages
  <2>2. ASSUME NEW k \in 1 .. n - 1, Covers(Layout[k], page) PROVE FALSE
    <3>1. k \in {1, 2, 3, 4, 5} /\ k < n
      BY <1>0
    <3> HIDE DEF Layout
    <3>2. n = 6 => page < RAM_BASE
      BY <1>2, <2>1, LayoutCovers, LayoutIs
    <3>3. RAM_BASE <= page
      BY <2>1, <2>2, <3>1, LayoutCovers, LayoutIs
    <3>4. n # 6
      BY <2>1, <3>2, <3>3, LayoutIs
    <3> QED BY <1>0, <1>2, <2>1, <2>2, <3>1, <3>4, LayoutCovers, LayoutIs
  <2> QED BY <2>2 DEF Unmapped
<1> QED BY <1>1, <1>2 DEF Fits

(* Where the pages lead *)
LEMMA FirstMap ==
  ASSUME NEW map, map = Painted(Unmapped, Layout, Len(Layout)), NEW page \in Pages
  PROVE  /\ page \in Window => map[page] = [at |-> page, attrs |-> "device"]
         /\ page \in KernelEnd .. Guess - 1 => map[page] = [at |-> page, attrs |-> "data"]
         /\ map[page] # Nowhere => page \in Window \/ (RAM_BASE <= page /\ page < Guess)
<1>0. page \in Nat /\ Guess = RAM_BASE + DEFAULT_RAM /\ Guess \in Nat
  BY LayoutIs DEF Pages, Guess
<1>1. map = Painted(Unmapped, Layout, 6)
  BY LayoutRanges
<1>2. 6 \in Nat /\ 6 # 0 /\ 6 - 1 = 5 /\ 5 \in Nat /\ 5 # 0
  OBVIOUS
<1>3. map[page] = IF Covers(Layout[6], page) THEN Target(Layout[6], page)
                  ELSE Painted(Unmapped, Layout, 5)[page]
  BY <1>1, <1>2, PaintedStep
<1>4. page \in Window <=> Covers(Layout[6], page)
  BY <1>0, LayoutCovers, LayoutIs DEF Window
<1>5. page \in Window => map[page] = [at |-> page, attrs |-> "device"]
  <2>1. Target(Layout[6], page) = [at |-> page, attrs |-> "device"]
    BY <1>0, LayoutRanges, LayoutIs DEF Target, R
  <2> QED BY <1>3, <1>4, <2>1
<1>6. page \in KernelEnd .. Guess - 1 => map[page] = [at |-> page, attrs |-> "data"]
  <2> SUFFICES ASSUME page \in KernelEnd .. Guess - 1 PROVE map[page] = [at |-> page, attrs |-> "data"]
    OBVIOUS
  <2>0. KernelEnd <= page /\ page < Guess
    BY <1>0, LayoutIs
  <2>1. Covers(Layout[5], page) /\ ~Covers(Layout[6], page)
    BY <1>0, <2>0, LayoutCovers, LayoutIs
  <2>2. Painted(Unmapped, Layout, 5)[page] = Target(Layout[5], page)
    BY <1>2, <2>1, PaintedStep
  <2>3. Target(Layout[5], page) = [at |-> page, attrs |-> "data"]
    BY <1>0, LayoutRanges, LayoutIs DEF Target, R
  <2> QED BY <1>3, <2>1, <2>2, <2>3
<1>7. ASSUME ~(page \in Window \/ (RAM_BASE <= page /\ page < Guess)) PROVE map[page] = Nowhere
  <2>1. \A k \in 1 .. 6 : ~Covers(Layout[k], page)
    <3> SUFFICES ASSUME NEW k \in {1, 2, 3, 4, 5, 6} PROVE ~Covers(Layout[k], page)
      OBVIOUS
    <3> HIDE DEF Layout
    <3>1. CASE k = 6
      BY <1>4, <1>7, <3>1
    <3>2. CASE k # 6
      BY <1>0, <1>7, <3>2, LayoutCovers, LayoutIs
    <3> QED BY <3>1, <3>2
  <2> QED BY <1>1, <2>1, PaintedElsewhere DEF Unmapped
<1> QED BY <1>5, <1>6, <1>7

(* build on an empty root *)
LEMMA BuildIs ==
  ASSUME NEW mem, NEW h, NEW a, NEW root, NEW other, NEW end, Sound(mem, h, a, root, other, end),
         NEW x \in RootHolders \ Users, root[x] # NoRoot, \A va \in Pages : a[root[x]][va] = Nowhere,
         NEW mem1, mem1 = Build(mem, root[x]), mem1.ok,
         NEW a1, DOMAIN a1 = DOMAIN a, \A r \in DOMAIN a : r # root[x] => a1[r] = a[r],
         a1[root[x]] = Painted(Unmapped, Layout, Len(Layout))
  PROVE  \E h1 : Sound(mem1, h1, a1, root, other, end)
<1> DEFINE r == root[x]
           map == Unmapped
           ranges == Layout
<1>1. mem.ok
  BY HeldOut
<1>2. mem1 = MapRanges(mem, r, ranges)
  BY <1>1 DEF Build
<1>3. r \in DOMAIN a /\ IsRoot(h, r) /\ ShapeOf(mem, h) /\ Filled(mem, h, NoFrame)
  BY DEF Sound
<1>4. \A va \in Pages : Lookup(mem, r, va) = map[va]
  BY <1>3 DEF Sound, Unmapped
<1>5. Len(ranges) \in Nat /\ \A n \in 1 .. Len(ranges) : IsRange(ranges[n]) /\ Fits(map, ranges, n)
  BY LayoutRanges, LayoutFits
<1> HIDE DEF map, ranges, r
<1>6. PICK h1 : /\ ShapeOf(mem1, h1) /\ Filled(mem1, h1, NoFrame) /\ Extends(mem, h, mem1, h1, r)
                /\ Leads(mem, h, mem1, r, Painted(map, ranges, Len(ranges)))
  BY <1>2, <1>3, <1>4, <1>5, MapRangesIs
<1>7. Leads(mem, h, mem1, root[x], a1[root[x]]) /\ Extends(mem, h, mem1, h1, root[x])
  BY <1>6 DEF map, ranges, r
<1>8. Sound(mem1, h1, a1, root, other, end)
  BY <1>6, <1>7, SoundPaint
<1> QED BY <1>8

(* Nobody holds anything at reset. *)
LEMMA ResetFree ==
  ASSUME BootInv, pc = "reset", NEW h, Sound(m, h, asked, RootAt, Other, ramEnd)
  PROVE  /\ m.free = KernelEnd .. Guess - 1 /\ DOMAIN asked = {}
         /\ \A x \in RootHolders : RootAt[x] = NoRoot
<1>0. /\ low = NoRoot /\ high = NoRoot /\ kept = {} /\ ramEnd = Guess
      /\ emptySpace = NoRoot /\ building = NoRoot /\ \A t \in Tasks : task[t] = NoTask
  BY BeforeTasks DEF BootInv, Phases, Fresh
<1>1. \A t \in Tasks : task[t].space = NoRoot /\ task[t].stack = {}
  BY <1>0 DEF NoTask
<1>2. \A x \in RootHolders : RootAt[x] = NoRoot
  BY <1>0, <1>1, RootsAre, HolderCases DEF RootAt
<1>3. \A x \in FrameHolders : Other[x] = {}
  BY <1>0, <1>1, OthersAre, HolderCases DEF Other
<1>4. DOMAIN asked = {}
  BY <1>2 DEF Sound
<1>5. TablesOf(h, NoRoot) = {} /\ OwnedBy(h, asked, NoRoot) = {}
  BY <1>4, NoRootOwnsNothing
<1> DEFINE held == Holding(h, asked, RootAt, Other)
<1>6. \A x \in DOMAIN held : held[x] = {}
  BY <1>2, <1>3, <1>5, HoldingIs
<1>7. Part(m.free, held, KernelEnd .. ramEnd - 1)
  BY DEF Sound
<1> HIDE DEF held
<1>8. m.free = KernelEnd .. ramEnd - 1
  BY <1>6, <1>7 DEF Part
<1> QED BY <1>0, <1>2, <1>4, <1>8

(* Two frames are claimed at once or one after the other. *)
LEMMA ClaimTwice ==
  ASSUME NEW mem, NEW S, NEW T, NEW U, U = S \cup T PROVE Claim(mem, U) = Claim(Claim(mem, S), T)
<1> DEFINE t0 == [x \in DOMAIN mem.table |-> IF x \in U THEN Zeroed ELSE mem.table[x]]
           t1 == [x \in DOMAIN mem.table |-> IF x \in S THEN Zeroed ELSE mem.table[x]]
           t2 == [x \in DOMAIN mem.table |-> IF x \in T THEN Zeroed ELSE t1[x]]
<1>1. t0 = t2
  BY DEF Zeroed
<1>2. mem.free \ U = (mem.free \ S) \ T
  OBVIOUS
<1>3. Claim(mem, S).table = t1 /\ Claim(mem, S).free = mem.free \ S /\ DOMAIN t1 = DOMAIN mem.table
  BY DEF Claim, Memory
<1>4. Claim(mem, U) = Memory(t0, mem.free \ U)
  BY DEF Claim
<1>5. Claim(Claim(mem, S), T) = Memory(t2, (mem.free \ S) \ T)
  <2> DEFINE c == Claim(mem, S)
  <2>1. c.table = t1 /\ c.free = mem.free \ S
    BY <1>3
  <2>2. Claim(c, T) = Memory([x \in DOMAIN c.table |-> IF x \in T THEN Zeroed ELSE c.table[x]], c.free \ T)
    BY DEF Claim
  <2> HIDE DEF c, t1
  <2>3. Claim(c, T) = Memory([x \in DOMAIN t1 |-> IF x \in T THEN Zeroed ELSE t1[x]], (mem.free \ S) \ T)
    BY <2>1, <2>2
  <2> QED BY <1>3, <2>3 DEF c
<1> HIDE DEF t0, t2
<1> QED BY <1>1, <1>2, <1>4, <1>5

(* build_tables: both roots, over the whole layout *)
LEMMA StepBuild ==
  ASSUME BootInv, BuildTables PROVE BootInv'
<1> USE DEF BootInv
<1> DEFINE lo == Lowest(m.free)
           hi == Lowest(m.free \ {lo})
           map == Painted(Unmapped, Layout, Len(Layout))
           mem0 == Claim(m, {lo, hi})
           mem1 == Build(mem0, lo)
           mem2 == Build(mem1, hi)
<1>0. pc = "reset" /\ emptySpace = NoRoot /\ building = NoRoot /\ ramEnd = Guess /\ adopted = {} /\ ttbr1 = NoRoot
  BY BeforeTasks DEF BuildTables, Phases, Fresh
<1>1. CASE Halt
  BY <1>1, StepHalt
<1>2. CASE ~Halt
  <2>0. /\ mem2.ok /\ m' = mem2 /\ pc' = "built" /\ low' = lo /\ high' = hi
        /\ asked' = [r \in {lo, hi} |-> map]
        /\ UNCHANGED <<machine, ramEnd, ttbr0, ttbr1, kept, todo, adopted, emptySpace, building, task, current>>
    BY <1>2 DEF BuildTables, taskVars
  <2>1. PICK h : Sound(m, h, asked, RootAt, Other, ramEnd)
    BY DEF SoundNow
  <2>2. /\ m.free = KernelEnd .. Guess - 1 /\ DOMAIN asked = {}
        /\ \A x \in RootHolders : RootAt[x] = NoRoot
    BY <1>0, <2>1, ResetFree
  <2>3. /\ lo \in m.free /\ hi \in m.free /\ lo # hi /\ lo # NoRoot /\ hi # NoRoot
    <3>1. m.free \in SUBSET Nat /\ KernelEnd \in m.free /\ KernelEnd + 1 \in m.free
      BY <2>2, LayoutIs DEF Guess
    <3>2. lo \in m.free
      BY <3>1, LowestIs
    <3> HIDE DEF lo
    <3>3. m.free \ {lo} # {} /\ m.free \ {lo} \in SUBSET Nat
      BY <3>1, LayoutIs
    <3>4. hi \in m.free \ {lo}
      BY <3>3, LowestIs
    <3> HIDE DEF hi
    <3>5. \A f \in m.free : f # NoRoot
      BY <2>2, LayoutIs DEF NoRoot
    <3> QED BY <3>2, <3>4, <3>5
  <2> HIDE DEF lo, hi, map
  <2> DEFINE x == <<"low", 0>>
             y == <<"high", 0>>
             half == RootsOf(lo, NoRoot, emptySpace, building, task)
             roots == RootsOf(lo, hi, emptySpace, building, task)
             a0 == [r \in {lo} |-> Unmapped]
             a1 == [r \in {lo, hi} |-> Unmapped]
             a2 == [r \in {lo, hi} |-> IF r = lo THEN map ELSE Unmapped]
             a3 == [r \in {lo, hi} |-> map]
  <2>4. x \in RootHolders \ Users /\ y \in RootHolders \ Users /\ x # y
    BY HoldersAre
  <2>5. /\ RootAt[x] = NoRoot /\ half[x] = lo /\ \A z \in RootHolders : z # x => half[z] = RootAt[z]
    <3>1. /\ RootAt[x] = NoRoot /\ RootAt[y] = NoRoot /\ RootAt[<<"empty", 0>>] = emptySpace
          /\ RootAt[<<"building", 0>>] = building /\ \A t \in Tasks : RootAt[<<"space", t>>] = task[t].space
      BY <2>2, <2>4, RootsAre DEF RootAt
    <3>2. /\ half[x] = lo /\ half[y] = NoRoot /\ half[<<"empty", 0>>] = emptySpace
          /\ half[<<"building", 0>>] = building /\ \A t \in Tasks : half[<<"space", t>>] = task[t].space
      BY RootsAre
    <3> HIDE DEF half
    <3> QED BY <3>1, <3>2, HolderCases
  <2>6. /\ half[y] = NoRoot /\ roots[y] = hi /\ roots[x] = lo /\ \A z \in RootHolders : z # y => roots[z] = half[z]
    <3>1. /\ roots[x] = lo /\ roots[y] = hi /\ roots[<<"empty", 0>>] = emptySpace
          /\ roots[<<"building", 0>>] = building /\ \A t \in Tasks : roots[<<"space", t>>] = task[t].space
      BY RootsAre
    <3>2. /\ half[x] = lo /\ half[y] = NoRoot /\ half[<<"empty", 0>>] = emptySpace
          /\ half[<<"building", 0>>] = building /\ \A t \in Tasks : half[<<"space", t>>] = task[t].space
      BY RootsAre
    <3> HIDE DEF half, roots
    <3> QED BY <3>1, <3>2, HolderCases
  <2>7. /\ DOMAIN a0 = DOMAIN asked \cup {lo} /\ \A va \in Pages : a0[lo][va] = Nowhere
        /\ \A r \in DOMAIN asked : a0[r] = asked[r]
    BY <2>2 DEF Unmapped
  <2>8. /\ DOMAIN a1 = DOMAIN a0 \cup {hi} /\ \A r \in DOMAIN a0 : a1[r] = a0[r]
        /\ \A va \in Pages : a1[hi][va] = Nowhere /\ a1[lo][va] = Nowhere
    BY DEF Unmapped
  <2>9. DOMAIN a2 = DOMAIN a1 /\ a2[lo] = map /\ \A r \in DOMAIN a1 : r # lo => a2[r] = a1[r]
    BY <2>3
  <2>10. /\ DOMAIN a3 = DOMAIN a2 /\ a3[hi] = map /\ \A r \in DOMAIN a2 : r # hi => a3[r] = a2[r]
         /\ \A va \in Pages : a2[hi][va] = Nowhere
    BY <2>3 DEF Unmapped
  <2> HIDE DEF half, roots, a0, a1, a2, a3, x, y
  <2> DEFINE S == {lo}
             T == {hi}
             U == {lo, hi}
             c == Claim(m, S)
  <2>11. U = S \cup T /\ S = {lo} /\ T = {hi} /\ mem0 = Claim(m, U)
    OBVIOUS
  <2> HIDE DEF S, T, U, mem0
  <2>12. c = Claim(m, S) /\ c.free = m.free \ {lo} /\ hi \in c.free
    BY <2>3, <2>11, ClaimIs
  <2>13. mem0 = Claim(c, T)
    BY <2>11, ClaimTwice
  <2> HIDE DEF c
  <2>14. PICK h0 : Sound(c, h0, a0, half, Other, ramEnd)
    <3>1. x \in RootHolders
      BY <2>4
    <3> QED BY ONLY <2>1, <2>3, <2>5, <2>7, <2>12, <2>11, <3>1, SoundNewRoot
  <2>15. PICK h1 : Sound(mem0, h1, a1, roots, Other, ramEnd)
    <3>1. y \in RootHolders
      BY <2>4
    <3>2. \A va \in Pages : a1[hi][va] = Nowhere
      BY <2>8
    <3>3. DOMAIN a1 = DOMAIN a0 \cup {hi} /\ \A r \in DOMAIN a0 : a1[r] = a0[r]
      BY <2>8
    <3>4. T = {hi} /\ mem0 = Claim(c, T) /\ hi \in c.free
      BY <2>12, <2>13, <2>11
    <3>5. half[y] = NoRoot /\ roots[y] = hi /\ \A z \in RootHolders : z # y => roots[z] = half[z]
      BY <2>6
    <3> QED BY ONLY <2>14, <3>1, <3>2, <3>3, <3>4, <3>5, SoundNewRoot
  <2>16. mem1.ok
    BY <2>0 DEF Build
  <2>17. mem1 = Build(mem0, roots[x]) /\ mem2 = Build(mem1, roots[y]) /\ mem2.ok
    BY <2>0, <2>6
  <2> HIDE DEF mem1, mem2
  <2>18. PICK h2 : Sound(mem1, h2, a2, roots, Other, ramEnd)
    BY <2>3, <2>4, <2>6, <2>8, <2>9, <2>15, <2>16, <2>17, BuildIs DEF map
  <2>19. PICK h3 : Sound(mem2, h3, a3, roots, Other, ramEnd)
    BY <2>3, <2>4, <2>6, <2>10, <2>17, <2>18, BuildIs DEF map
  <2>20. SoundNow'
    <3>1. RootAt' = roots /\ Other' = Other /\ asked' = a3 /\ m' = mem2 /\ ramEnd' = ramEnd
      BY <2>0 DEF RootAt, Other, roots, a3
    <3> QED BY <2>19, <3>1 DEF SoundNow
  <2>21. BootTypes'
    BY <2>0 DEF BootTypes, NewEnd
  <2>22. Phases'
    BY <1>0, <2>0, <2>3 DEF Phases, Fresh, HighOn, Running, Making
  <2>23. KernelMaps'
    <3>0. asked'[high'] = map
      BY <2>0
    <3>1. \A f \in KernelEnd .. Guess - 1 : map[f] = [at |-> f, attrs |-> "data"]
      <4> SUFFICES ASSUME NEW f \in KernelEnd .. Guess - 1 PROVE map[f] = [at |-> f, attrs |-> "data"]
        OBVIOUS
      <4>1. f \in Pages
        BY LayoutIs DEF Pages, Guess
      <4> QED BY <4>1, FirstMap DEF map
    <3>2. \A p \in Window : map[p] = [at |-> p, attrs |-> "device"]
      <4> SUFFICES ASSUME NEW p \in Window PROVE map[p] = [at |-> p, attrs |-> "device"]
        OBVIOUS
      <4>1. p \in Pages
        BY LayoutIs DEF Pages, Window
      <4> QED BY <4>1, FirstMap DEF map
    <3>3. \A p \in Pages : map[p] # Nowhere => p \in Window \/ (RAM_BASE <= p /\ p < Guess)
      BY FirstMap DEF map
    <3>4. MapUpTo(Guess)'
      BY <3>0, <3>2, <3>3 DEF MapUpTo
    <3> QED BY <1>0, <2>0, <3>0, <3>1, <3>4 DEF KernelMaps
  <2>24. SpaceMaps'
    BY <1>0, <2>0 DEF SpaceMaps
  <2>25. TaskFacts'
    BY <1>0, <2>0, NoTaskFacts
  <2> QED BY <2>20, <2>21, <2>22, <2>23, <2>24, <2>25
<1> QED BY <1>1, <1>2

-----------------------------------------------------------------------------
(* Address spaces *)

(* The root of a holder is a root. *)
LEMMA RootsKnown ==
  ASSUME NEW h, Sound(m, h, asked, RootAt, Other, ramEnd)
  PROVE  /\ low # NoRoot => low \in DOMAIN asked
         /\ high # NoRoot => high \in DOMAIN asked
         /\ emptySpace # NoRoot => emptySpace \in DOMAIN asked
         /\ building # NoRoot => building \in DOMAIN asked
         /\ \A t \in Tasks : task[t].space # NoRoot => task[t].space \in DOMAIN asked
<1>1. /\ RootAt[<<"low", 0>>] = low /\ RootAt[<<"high", 0>>] = high /\ RootAt[<<"empty", 0>>] = emptySpace
      /\ RootAt[<<"building", 0>>] = building /\ \A t \in Tasks : RootAt[<<"space", t>>] = task[t].space
  BY RootsAre DEF RootAt
<1>2. \A x \in RootHolders : RootAt[x] # NoRoot => RootAt[x] \in DOMAIN asked
  BY DEF Sound
<1> QED BY <1>1, <1>2, HoldersAre

(* No two of them are the same. *)
LEMMA RootsApart ==
  ASSUME NEW h, Sound(m, h, asked, RootAt, Other, ramEnd)
  PROVE  /\ high # NoRoot => high # emptySpace /\ high # building /\ \A t \in Tasks : high # task[t].space
         /\ emptySpace # NoRoot => emptySpace # building /\ \A t \in Tasks : emptySpace # task[t].space
         /\ building # NoRoot => \A t \in Tasks : building # task[t].space
         /\ \A t \in Tasks, s \in Tasks : t # s /\ task[t].space # NoRoot => task[t].space # task[s].space
<1>1. /\ RootAt[<<"low", 0>>] = low /\ RootAt[<<"high", 0>>] = high /\ RootAt[<<"empty", 0>>] = emptySpace
      /\ RootAt[<<"building", 0>>] = building /\ \A t \in Tasks : RootAt[<<"space", t>>] = task[t].space
  BY RootsAre DEF RootAt
<1>2. \A x \in RootHolders, y \in RootHolders : x # y /\ RootAt[x] # NoRoot => RootAt[x] # RootAt[y]
  BY RootsDiffer
<1>3. /\ <<"low", 0>> \in RootHolders /\ <<"high", 0>> \in RootHolders /\ <<"empty", 0>> \in RootHolders
      /\ <<"building", 0>> \in RootHolders /\ \A t \in Tasks : <<"space", t>> \in RootHolders
  BY HoldersAre
<1>4. high # NoRoot => high # emptySpace /\ high # building /\ \A t \in Tasks : high # task[t].space
  BY <1>1, <1>2, <1>3
<1>5. emptySpace # NoRoot => emptySpace # building /\ \A t \in Tasks : emptySpace # task[t].space
  BY <1>1, <1>2, <1>3
<1>6. building # NoRoot => \A t \in Tasks : building # task[t].space
  BY <1>1, <1>2, <1>3
<1>7. ASSUME NEW t \in Tasks, NEW s \in Tasks, t # s, task[t].space # NoRoot PROVE task[t].space # task[s].space
  BY <1>1, <1>2, <1>3, <1>7
<1> QED BY <1>4, <1>5, <1>6, <1>7

(* The kernel's map stays while tasks run. *)
LEMMA KernelMapsStay ==
  ASSUME KernelMaps, Phases, pc' \in Running, UNCHANGED <<machine, ramEnd, high, adopted>>,
         high # NoRoot => asked'[high] = asked[high]
  PROVE  KernelMaps'
<1>1. adopted # {} => high # NoRoot
  BY DEF Phases
<1> QED BY <1>1 DEF KernelMaps, Running

(* A holder without a root gets one. *)
LEMMA SoundFresh ==
  ASSUME SoundNow, m.free # {}, NEW root, root = Lowest(m.free), m' = Claim(m, {root}),
         asked' = With(root, Unmapped), NEW x \in RootHolders, RootAt[x] = NoRoot, RootAt'[x] = root,
         \A y \in RootHolders : y # x => RootAt'[y] = RootAt[y], UNCHANGED <<Other, ramEnd>>
  PROVE  /\ SoundNow' /\ root \in Nat /\ root # NoRoot /\ root \notin DOMAIN asked
         /\ \A va \in Pages : asked'[root][va] = Nowhere
         /\ \A r \in DOMAIN asked : asked'[r] = asked[r]
<1>1. PICK h : Sound(m, h, asked, RootAt, Other, ramEnd)
  BY DEF SoundNow
<1>2. m.free \subseteq Nat /\ m.free \subseteq Ram /\ DOMAIN h \cap m.free = {}
  BY <1>1, HeldOut
<1>3. root \in m.free /\ root \in Nat /\ root # NoRoot
  BY <1>2, LowestIs, LayoutIs DEF Ram, NoRoot
<1>4. root \notin DOMAIN asked
  BY <1>1, <1>2, <1>3 DEF Sound, IsRoot
<1> DEFINE a1 == asked'
           mem1 == m'
           S == {root}
           root1 == RootAt'
<1>5. /\ DOMAIN a1 = DOMAIN asked \cup {root} /\ (\A r \in DOMAIN asked : a1[r] = asked[r])
      /\ \A va \in Pages : a1[root][va] = Nowhere
  BY <1>4 DEF With, Unmapped
<1>6. S = {root} /\ mem1 = Claim(m, S) /\ RootAt[x] = NoRoot /\ root1[x] = root
      /\ \A y \in RootHolders : y # x => root1[y] = RootAt[y]
  OBVIOUS
<1> HIDE DEF a1, mem1, S, root1
<1>7. \E h1 : Sound(mem1, h1, a1, root1, Other, ramEnd)
  BY ONLY <1>1, <1>3, <1>5, <1>6, x \in RootHolders, SoundNewRoot
<1>8. SoundNow'
  BY <1>7 DEF SoundNow, mem1, a1, root1
<1> QED BY <1>3, <1>4, <1>5, <1>8 DEF a1

(* The empty space *)
LEMMA StepSpaces ==
  ASSUME BootInv, InitAddressSpaces PROVE BootInv'
<1> USE DEF BootInv
<1>0. /\ pc = "devices" /\ emptySpace = NoRoot /\ building = NoRoot /\ high # NoRoot /\ low # NoRoot /\ ttbr1 = high
      /\ current = 0 /\ current \notin Tasks /\ \A t \in Tasks : task[t] = NoTask
  BY BeforeTasks DEF InitAddressSpaces, Fresh, Phases, HighOn
<1>1. CASE Halt
  BY <1>1, StepHalt
<1>2. CASE ~Halt
  <2> DEFINE root == Lowest(m.free)
  <2>0. /\ m.free # {} /\ pc' = "running" /\ m' = Claim(m, {root}) /\ asked' = With(root, Unmapped)
        /\ emptySpace' = root /\ ttbr0' = root
        /\ UNCHANGED <<machine, ramEnd, low, high, ttbr1, kept, todo, adopted, building, task, current>>
    BY <1>2 DEF InitAddressSpaces, taskVars
  <2> HIDE DEF root
  <2>1. PICK h : Sound(m, h, asked, RootAt, Other, ramEnd)
    BY DEF SoundNow
  <2>2. /\ <<"empty", 0>> \in RootHolders /\ RootAt[<<"empty", 0>>] = NoRoot /\ RootAt'[<<"empty", 0>>] = root
        /\ \A y \in RootHolders : y # <<"empty", 0>> => RootAt'[y] = RootAt[y]
    <3>1. /\ RootAt[<<"low", 0>>] = low /\ RootAt[<<"high", 0>>] = high /\ RootAt[<<"empty", 0>>] = emptySpace
          /\ RootAt[<<"building", 0>>] = building /\ \A t \in Tasks : RootAt[<<"space", t>>] = task[t].space
      BY RootsAre DEF RootAt
    <3>2. /\ RootAt'[<<"low", 0>>] = low /\ RootAt'[<<"high", 0>>] = high /\ RootAt'[<<"empty", 0>>] = root
          /\ RootAt'[<<"building", 0>>] = building /\ \A t \in Tasks : RootAt'[<<"space", t>>] = task[t].space
      BY <2>0, RootsAre DEF RootAt
    <3> QED BY <1>0, <3>1, <3>2, HolderCases, HoldersAre
  <2>3. UNCHANGED <<Other, ramEnd>>
    BY <2>0 DEF Other
  <2>4. /\ SoundNow' /\ root \in Nat /\ root # NoRoot /\ root \notin DOMAIN asked
        /\ \A va \in Pages : asked'[root][va] = Nowhere
        /\ \A r \in DOMAIN asked : asked'[r] = asked[r]
    BY <2>0, <2>2, <2>3, SoundFresh DEF root
  <2>5. BootTypes'
    BY <2>0 DEF BootTypes, NewEnd
  <2>6. Phases'
    BY <1>0, <2>0, <2>4 DEF Phases, Fresh, HighOn, Running, Making
  <2>7. KernelMaps'
    BY <1>0, <2>0, <2>1, <2>4, RootsKnown, KernelMapsStay DEF Running
  <2>8. SpaceMaps'
    BY <2>0, <2>4 DEF SpaceMaps
  <2>9. TaskFacts'
    BY <1>0, <2>0 DEF TaskFacts, RootOf
  <2> QED BY <2>4, <2>5, <2>6, <2>7, <2>8, <2>9
<1> QED BY <1>1, <1>2

(* The root of a space that is being made *)
LEMMA StepNewSpace ==
  ASSUME BootInv, NewSpace PROVE BootInv'
<1> USE DEF BootInv
<1>0. pc = "running" /\ building = NoRoot /\ high # NoRoot /\ emptySpace # NoRoot
  BY DEF NewSpace, OnBootThread, Phases, Running, Making
<1>1. CASE Halt
  BY <1>1, StepHalt
<1>2. CASE ~Halt
  <2> DEFINE root == Lowest(m.free)
  <2>0. /\ m.free # {} /\ pc' = "text" /\ m' = Claim(m, {root}) /\ asked' = With(root, Unmapped)
        /\ building' = root
        /\ UNCHANGED <<machine, ramEnd, low, high, ttbr0, ttbr1, kept, todo, adopted, emptySpace, task, current>>
    BY <1>2 DEF NewSpace, bootVars
  <2> HIDE DEF root
  <2>1. PICK h : Sound(m, h, asked, RootAt, Other, ramEnd)
    BY DEF SoundNow
  <2>2. /\ <<"building", 0>> \in RootHolders /\ RootAt[<<"building", 0>>] = NoRoot
        /\ RootAt'[<<"building", 0>>] = root
        /\ \A y \in RootHolders : y # <<"building", 0>> => RootAt'[y] = RootAt[y]
    <3>1. /\ RootAt[<<"low", 0>>] = low /\ RootAt[<<"high", 0>>] = high /\ RootAt[<<"empty", 0>>] = emptySpace
          /\ RootAt[<<"building", 0>>] = building /\ \A t \in Tasks : RootAt[<<"space", t>>] = task[t].space
      BY RootsAre DEF RootAt
    <3>2. /\ RootAt'[<<"low", 0>>] = low /\ RootAt'[<<"high", 0>>] = high /\ RootAt'[<<"empty", 0>>] = emptySpace
          /\ RootAt'[<<"building", 0>>] = root /\ \A t \in Tasks : RootAt'[<<"space", t>>] = task[t].space
      BY <2>0, RootsAre DEF RootAt
    <3> QED BY <1>0, <3>1, <3>2, HolderCases, HoldersAre
  <2>3. UNCHANGED <<Other, ramEnd>>
    BY <2>0 DEF Other
  <2>4. /\ SoundNow' /\ root \in Nat /\ root # NoRoot /\ root \notin DOMAIN asked
        /\ \A va \in Pages : asked'[root][va] = Nowhere
        /\ \A r \in DOMAIN asked : asked'[r] = asked[r]
    BY <2>0, <2>2, <2>3, SoundFresh DEF root
  <2>5. BootTypes'
    BY <2>0 DEF BootTypes, NewEnd
  <2>6. Phases'
    BY <1>0, <2>0, <2>4 DEF Phases, Fresh, HighOn, Running, Making
  <2>7. KernelMaps'
    BY <1>0, <2>0, <2>1, <2>4, RootsKnown, KernelMapsStay DEF Running
  <2>8. SpaceMaps'
    <3>1. asked'[emptySpace] = asked[emptySpace]
      BY <1>0, <2>1, <2>4, RootsKnown
    <3> QED BY <1>0, <2>0, <2>4, <3>1, LayoutIs DEF SpaceMaps
  <2>9. TaskFacts'
    BY <1>0, <2>0 DEF TaskFacts, RootOf, Started
  <2> QED BY <2>4, <2>5, <2>6, <2>7, <2>8, <2>9
<1> QED BY <1>1, <1>2

(* A page of a space that is being made *)
LEMMA StepUserPage ==
  ASSUME BootInv, NEW at, NEW va, NEW attrs, NEW then, MapUserPage(at, va, attrs, then),
         \/ at = "text" /\ va = USER_TEXT_VA /\ attrs = "user_text" /\ then = "stack"
         \/ at = "stack" /\ va = USER_STACK_VA /\ attrs = "user_data" /\ then = "spawn"
  PROVE  BootInv' /\ m'.free \subseteq m.free
<1> USE DEF BootInv
<1>0. /\ pc = at /\ building # NoRoot /\ high # NoRoot /\ emptySpace # NoRoot /\ asked[building][va] = Nowhere
      /\ va \in Pages /\ attrs # "fault"
  BY LayoutIs DEF MapUserPage, OnBootThread, Phases, Running, Making, SpaceMaps
<1>1. CASE Halt
  BY <1>1, StepHalt DEF Halt
<1>2. CASE ~Halt
  <2> DEFINE mapped == UserPage(m, building, va, attrs)
             ranges == PageAsked(m, va, attrs)
             r == R(va, Lowest(m.free), 1, attrs)
  <2>0. /\ mapped.ok /\ m' = mapped /\ pc' = then /\ asked' = Asked(building, ranges)
        /\ UNCHANGED <<machine, ramEnd, low, high, ttbr0, ttbr1, kept, todo, adopted, emptySpace, building, task, current>>
    BY <1>2 DEF MapUserPage, bootVars, taskVars
  <2>1. PICK h : Sound(m, h, asked, RootAt, Other, ramEnd)
    BY DEF SoundNow
  <2>2. building \in DOMAIN asked /\ building # high /\ building # emptySpace
        /\ high \in DOMAIN asked /\ emptySpace \in DOMAIN asked
    BY <1>0, <2>1, RootsKnown, RootsApart
  <2>3. RootAt[<<"building", 0>>] = building /\ <<"building", 0>> \in Users
    BY RootsAre, HoldersAre DEF RootAt
  <2>4. /\ DOMAIN asked' = DOMAIN asked /\ asked'[building] = Painted(asked[building], ranges, Len(ranges))
        /\ \A q \in DOMAIN asked : q # building => asked'[q] = asked[q]
    <3> HIDE DEF ranges
    <3> QED BY <2>0, <2>2, AskedIs
  <2>5. ranges = <<r>> /\ Len(ranges) = 1
    BY DEF PageAsked
  <2>6. m.free # {}
    BY <2>0 DEF UserPage, Panicked
  <2>7. Lowest(m.free) \in Nat
    BY <2>1, <2>6, HeldOut, LowestIs
  <2>8. \A p \in Pages : asked'[building][p] =
          IF p = va THEN [at |-> Lowest(m.free), attrs |-> attrs] ELSE asked[building][p]
    <3> SUFFICES ASSUME NEW p \in Pages
        PROVE asked'[building][p] = IF p = va THEN [at |-> Lowest(m.free), attrs |-> attrs] ELSE asked[building][p]
      OBVIOUS
    <3>1. asked'[building][p] = IF Covers(r, p) THEN Target(r, p) ELSE asked[building][p]
      <4> HIDE DEF r, ranges
      <4>1. asked'[building] = Painted(asked[building], <<r>>, 1)
        BY <2>4, <2>5
      <4> QED BY <4>1, PaintedOne
    <3>2. Covers(r, p) <=> p = va
      BY <1>0 DEF Covers, R, Pages
    <3>3. p = va => Target(r, p) = [at |-> Lowest(m.free), attrs |-> attrs]
      BY <1>0, <2>7 DEF Target, R, Pages
    <3> HIDE DEF r
    <3> QED BY <3>1, <3>2, <3>3
  <2>9. SoundNow' /\ m'.free \subseteq m.free
    <3> DEFINE x == <<"building", 0>>
               a1 == asked'
               mem1 == m'
               root == RootAt
    <3>1. x \in Users /\ root[x] = building /\ root[x] # NoRoot /\ asked[root[x]][va] = Nowhere
      BY <1>0, <2>3
    <3>2. mem1 = UserPage(m, root[x], va, attrs) /\ mem1.ok
      BY <2>0, <2>3
    <3>3. DOMAIN a1 = DOMAIN asked /\ (\A q \in DOMAIN asked : q # root[x] => a1[q] = asked[q])
      BY <2>3, <2>4
    <3>4. \A p \in Pages : a1[root[x]][p] =
            IF p = va THEN [at |-> Lowest(m.free), attrs |-> attrs] ELSE asked[root[x]][p]
      BY <2>3, <2>8
    <3>5. Sound(m, h, asked, root, Other, ramEnd)
      BY <2>1
    <3> HIDE DEF x, a1, mem1, root
    <3>6. (\E h1 : Sound(mem1, h1, a1, root, Other, ramEnd)) /\ mem1.free \subseteq m.free
      BY ONLY <1>0, <3>1, <3>2, <3>3, <3>4, <3>5, SoundUserPage
    <3>7. RootAt' = RootAt /\ Other' = Other /\ ramEnd' = ramEnd
      BY <2>0 DEF RootAt, Other
    <3> QED BY <3>6, <3>7 DEF SoundNow, mem1, a1, root
  <2>10. BootTypes'
    BY <2>0 DEF BootTypes, NewEnd
  <2>11. Phases'
    BY <1>0, <2>0 DEF Phases, Fresh, HighOn, Running, Making
  <2>12. KernelMaps'
    <3>1. pc' \in Running /\ asked'[high] = asked[high]
      BY <1>0, <2>0, <2>2, <2>4 DEF Running
    <3> QED BY <2>0, <3>1, KernelMapsStay
  <2>13. SpaceMaps'
    <3>1. asked'[emptySpace] = asked[emptySpace]
      BY <2>2, <2>4
    <3>2. at = "text" => asked'[building][USER_STACK_VA] = Nowhere
      BY <1>0, <2>8, LayoutIs DEF SpaceMaps
    <3> QED BY <1>0, <2>0, <3>1, <3>2 DEF SpaceMaps
  <2>14. TaskFacts'
    BY <1>0, <2>0 DEF TaskFacts, RootOf, Started
  <2> QED BY <2>9, <2>10, <2>11, <2>12, <2>13, <2>14
<1> QED BY <1>1, <1>2

(* ... its text *)
LEMMA StepText ==
  ASSUME BootInv, MapText PROVE BootInv' /\ m'.free \subseteq m.free
BY StepUserPage DEF MapText

(* ... and its stack *)
LEMMA StepStack ==
  ASSUME BootInv, MapStack PROVE BootInv' /\ m'.free \subseteq m.free
BY StepUserPage DEF MapStack

-----------------------------------------------------------------------------
(* Tasks *)

(* Steps that change no space and no stack *)
LEMMA StepTasks ==
  ASSUME BootInv, emptySpace # NoRoot, pc' \in Running, pc' \notin Making, building = NoRoot,
         UNCHANGED <<m, asked, ttbr0, machine, ramEnd, low, high, ttbr1, kept, todo, adopted, emptySpace,
                     building, current>>,
         pc \in Running, task' \in [Tasks -> TaskTypes],
         \A t \in Tasks : /\ task'[t].space = task[t].space /\ task'[t].stack = task[t].stack
                          /\ task'[t].state \in {"none", "dead"} <=> task[t].state \in {"none", "dead"}
  PROVE  BootInv'
<1> USE DEF BootInv
<1>1. SoundNow'
  BY SoundStays
<1>2. BootTypes'
  BY DEF BootTypes, NewEnd
<1>3. Phases'
  BY DEF Phases, Fresh, HighOn, Running, Making
<1>4. KernelMaps'
  BY KernelMapsStay
<1>5. SpaceMaps'
  BY DEF SpaceMaps, Making
<1>6. TaskFacts'
  <2>1. Started
    BY DEF Started, Running
  <2>2. RootOf(task', current) = RootOf(task, current)
    BY DEF RootOf, BootTypes
  <2> QED BY <2>1, <2>2 DEF TaskFacts, RootOf
<1> QED BY <1>1, <1>2, <1>3, <1>4, <1>5, <1>6

(* record_image *)
LEMMA StepImage ==
  ASSUME BootInv, RecordImage PROVE BootInv'
<1>1. /\ pc = "image" /\ pc' = "running" /\ emptySpace # NoRoot /\ building = NoRoot
      /\ task' = [t \in Tasks |-> [task[t] EXCEPT !.image = @ \/ task[t].state # "none"]]
      /\ UNCHANGED <<m, asked, ttbr0, machine, ramEnd, low, high, ttbr1, kept, todo, adopted, emptySpace,
                     building, current>>
  BY DEF BootInv, RecordImage, OnBootThread, bootVars, Phases, Running, Making
<1>2. task \in [Tasks -> TaskTypes]
  BY DEF BootInv, BootTypes
<1>3. ASSUME NEW t \in Tasks
      PROVE  /\ task'[t] \in TaskTypes /\ task'[t].space = task[t].space
             /\ task'[t].stack = task[t].stack /\ task'[t].state = task[t].state
  BY <1>1, <1>2 DEF TaskTypes
<1>4. task' \in [Tasks -> TaskTypes]
  BY <1>1, <1>3
<1> QED BY <1>1, <1>3, <1>4, StepTasks DEF Running, Making

(* kill *)
LEMMA StepKill ==
  ASSUME BootInv, NEW k \in Tasks, Kill(k) PROVE BootInv'
<1>1. /\ pc = "running" /\ pc' = "running" /\ emptySpace # NoRoot /\ building = NoRoot
      /\ task[k].state = "faulted" /\ task' = [task EXCEPT ![k].state = "zombie"]
      /\ UNCHANGED <<m, asked, ttbr0, machine, ramEnd, low, high, ttbr1, kept, todo, adopted, emptySpace,
                     building, current>>
  BY DEF BootInv, Kill, OnBootThread, bootVars, Phases, Running, Making
<1>2. task \in [Tasks -> TaskTypes]
  BY DEF BootInv, BootTypes
<1>3. ASSUME NEW t \in Tasks
      PROVE  /\ task'[t] \in TaskTypes /\ task'[t].space = task[t].space
             /\ task'[t].stack = task[t].stack
             /\ task'[t].state \in {"none", "dead"} <=> task[t].state \in {"none", "dead"}
  BY <1>1, <1>2 DEF TaskTypes
<1>4. task' \in [Tasks -> TaskTypes]
  BY <1>1, <1>2, <1>3
<1> QED BY <1>1, <1>3, <1>4, StepTasks DEF Running, Making

(* release_dead *)
LEMMA StepRelease ==
  ASSUME BootInv, ReleaseDead PROVE BootInv'
<1>1. /\ pc = "running" /\ pc' = "running" /\ emptySpace # NoRoot /\ building = NoRoot
      /\ task' = [t \in Tasks |-> IF task[t].state = "dead" THEN NoTask ELSE task[t]]
      /\ UNCHANGED <<m, asked, ttbr0, machine, ramEnd, low, high, ttbr1, kept, todo, adopted, emptySpace,
                     building, current>>
  BY DEF BootInv, ReleaseDead, OnBootThread, bootVars, Phases, Running, Making
<1>2. task \in [Tasks -> TaskTypes]
  BY DEF BootInv, BootTypes
<1>3. ASSUME NEW t \in Tasks
      PROVE  /\ task'[t] \in TaskTypes /\ task'[t].space = task[t].space
             /\ task'[t].stack = task[t].stack
             /\ task'[t].state \in {"none", "dead"} <=> task[t].state \in {"none", "dead"}
  <2>1. CASE task[t].state = "dead"
    <3>1. task[t].space = NoRoot /\ task[t].stack = {}
      BY <2>1 DEF BootInv, TaskFacts
    <3> QED BY <1>1, <2>1, <3>1 DEF NoTask, TaskTypes, NoRoot
  <2>2. CASE task[t].state # "dead"
    BY <1>1, <1>2, <2>2
  <2> QED BY <2>1, <2>2
<1>4. task' \in [Tasks -> TaskTypes]
  BY <1>1, <1>3
<1> QED BY <1>1, <1>3, <1>4, StepTasks DEF Running, Making

(* spawn_in: a stack comes out of the pool and the space changes hands. *)
LEMMA StepSpawn ==
  ASSUME BootInv, SpawnIn PROVE BootInv' /\ m'.free \subseteq m.free
<1> USE DEF BootInv
<1>0. /\ pc = "spawn" /\ current = 0 /\ current \notin Tasks
      /\ building # NoRoot /\ high # NoRoot /\ emptySpace # NoRoot
  BY LayoutIs DEF SpawnIn, OnBootThread, Phases, Running, Making, Tasks
<1>1. CASE Halt
  BY <1>1, StepHalt DEF Halt
<1>2. CASE ~Halt
  <2> DEFINE runs == Runs(m, STACK_FRAMES)
             slots == {t \in Tasks : task[t].state = "none"}
             s == Lowest(slots)
             stack == Lowest(runs) .. Lowest(runs) + STACK_FRAMES - 1
             new == [state |-> "runnable", space |-> building, stack |-> stack, image |-> FALSE]
  <2>0. /\ runs # {} /\ slots # {} /\ pc' = "image" /\ m' = Claim(m, stack)
        /\ task' = [task EXCEPT ![s] = new] /\ building' = NoRoot
        /\ UNCHANGED <<machine, ramEnd, low, high, ttbr0, ttbr1, kept, todo, adopted, emptySpace, asked, current>>
    BY <1>2 DEF SpawnIn, bootVars
  <2>1. PICK h : Sound(m, h, asked, RootAt, Other, ramEnd)
    BY DEF SoundNow
  <2>2. m.free \subseteq Nat
    BY <2>1, HeldOut
  <2>3. stack \subseteq m.free
    <3>1. runs \in SUBSET Nat
      BY <2>2 DEF Runs
    <3>2. Lowest(runs) \in runs
      BY <2>0, <3>1, LowestIs
    <3> QED BY <3>2 DEF Runs
  <2>4. s \in Tasks /\ task[s].state = "none"
    <3>1. slots \in SUBSET Nat
      BY LayoutIs DEF Tasks
    <3>2. s \in slots
      BY <2>0, <3>1, LowestIs
    <3> QED BY <3>2
  <2>5. task[s].space = NoRoot /\ task[s].stack = {}
    BY <2>4 DEF TaskFacts
  <2>6. task \in [Tasks -> TaskTypes]
    BY DEF BootTypes
  <2>7. building \in Nat
    <3>1. building \in DOMAIN asked
      BY <1>0, <2>1, RootsKnown
    <3> QED BY <2>1, <3>1 DEF Sound, IsRoot, ShapeOf, InMemory
  <2> HIDE DEF s, stack
  <2>8. task'[s] = new /\ (\A t \in Tasks : t # s => task'[t] = task[t]) /\ DOMAIN task' = Tasks
    BY <2>0, <2>4, <2>6
  <2>9. /\ new.state = "runnable" /\ new.space = building /\ new.stack = stack /\ new \in TaskTypes
    BY <2>2, <2>3, <2>7 DEF TaskTypes
  <2> HIDE DEF new
  <2> DEFINE x == <<"stack", s>>
             b == <<"building", 0>>
             z == <<"space", s>>
             mem1 == m'
             other1 == Other'
             root1 == RootAt'
  <2>10. /\ x \in FrameHolders /\ b \in Users /\ z \in Users /\ b # z
    BY <2>4, HoldersAre
  <2>11. /\ Other[x] = {} /\ other1[x] = stack /\ other1[x] = Other[x] \cup stack
         /\ \A y \in FrameHolders : y # x => other1[y] = Other[y]
    <3>1. Other[<<"kept", 0>>] = kept /\ \A t \in Tasks : Other[<<"stack", t>>] = task[t].stack
      BY OthersAre DEF Other
    <3>2. other1[<<"kept", 0>>] = kept /\ \A t \in Tasks : other1[<<"stack", t>>] = task'[t].stack
      <4>1. other1 = OthersOf(kept, task')
        BY <2>0 DEF Other
      <4> HIDE DEF other1
      <4> QED BY <4>1, OthersAre
    <3> HIDE DEF other1
    <3> QED BY <2>4, <2>5, <2>8, <2>9, <3>1, <3>2, HolderCases
  <2>12. /\ RootAt[z] = NoRoot /\ RootAt[b] = building /\ root1[b] = NoRoot /\ root1[z] = RootAt[b]
         /\ \A y \in RootHolders : y \notin {b, z} => root1[y] = RootAt[y]
    <3>1. /\ RootAt[<<"low", 0>>] = low /\ RootAt[<<"high", 0>>] = high /\ RootAt[<<"empty", 0>>] = emptySpace
          /\ RootAt[<<"building", 0>>] = building /\ \A t \in Tasks : RootAt[<<"space", t>>] = task[t].space
      BY RootsAre DEF RootAt
    <3>2. /\ root1[<<"low", 0>>] = low /\ root1[<<"high", 0>>] = high /\ root1[<<"empty", 0>>] = emptySpace
          /\ root1[<<"building", 0>>] = NoRoot /\ \A t \in Tasks : root1[<<"space", t>>] = task'[t].space
      <4>1. root1 = RootsOf(low, high, emptySpace, NoRoot, task')
        BY <2>0 DEF RootAt
      <4> HIDE DEF root1
      <4> QED BY <4>1, RootsAre
    <3> HIDE DEF root1
    <3> QED BY <2>4, <2>5, <2>8, <2>9, <3>1, <3>2, HolderCases
  <2>13. /\ mem1.ok /\ mem1.free = m.free \ stack /\ DOMAIN mem1.table = DOMAIN m.table
         /\ \A f \in DOMAIN m.table \ stack : mem1.table[f] = m.table[f]
    BY <2>0, ClaimIs
  <2> HIDE DEF x, b, z, mem1, other1, root1
  <2>14. Sound(mem1, h, asked, RootAt, other1, ramEnd)
    <3>1. stack \in SUBSET m.free /\ other1[x] = Other[x] \cup stack
          /\ \A y \in FrameHolders : y # x => other1[y] = Other[y]
      BY <2>3, <2>11
    <3>2. x \in FrameHolders
      BY <2>10
    <3>3. mem1.ok
      BY <2>13
    <3>4. mem1.free = m.free \ stack
      BY <2>13
    <3>5. DOMAIN mem1.table = DOMAIN m.table
      BY <2>13
    <3>6. \A f \in DOMAIN m.table \ stack : mem1.table[f] = m.table[f]
      BY <2>13
    <3> QED BY ONLY <2>1, <3>1, <3>2, <3>3, <3>4, <3>5, <3>6, SoundTake
  <2>15. Sound(mem1, h, asked, root1, other1, ramEnd)
    BY ONLY <2>10, <2>12, <2>14, SoundMove
  <2>16. SoundNow' /\ m'.free \subseteq m.free
    <3>1. asked' = asked /\ ramEnd' = ramEnd
      BY <2>0
    <3> QED BY <2>13, <2>15, <3>1 DEF SoundNow, mem1, other1, root1
  <2>17. BootTypes'
    <3>1. task' \in [Tasks -> TaskTypes]
      BY <2>0, <2>6, <2>9
    <3> QED BY <2>0, <3>1 DEF BootTypes, NewEnd
  <2>18. Phases'
    BY <1>0, <2>0 DEF Phases, Fresh, HighOn, Running, Making
  <2>19. KernelMaps'
    BY <2>0, KernelMapsStay DEF Running
  <2>20. SpaceMaps'
    BY <1>0, <2>0 DEF SpaceMaps
  <2>21. TaskFacts'
    BY <1>0, <2>0, <2>8, <2>9 DEF TaskFacts, RootOf, Started
  <2> QED BY <2>16, <2>17, <2>18, <2>19, <2>20, <2>21
<1> QED BY <1>1, <1>2

(* What the reaper frees of a task, once each *)
LEMMA TaskVisitedIs ==
  ASSUME NEW h, Sound(m, h, asked, RootAt, Other, ramEnd), NEW t \in Tasks, task[t].space # NoRoot
  PROVE  /\ Freed(TaskVisited(t)) = task[t].stack \cup OwnedBy(h, asked, task[t].space)
         /\ ~FreedTwice(TaskVisited(t))
<1> DEFINE x == <<"space", t>>
           y == <<"stack", t>>
           spaces == SpaceVisited(m, task[t].space)
           stacks == {<<<<-1, f>>, f>> : f \in task[t].stack}
           held == Holding(h, asked, RootAt, Other)
<1>1. x \in Users /\ y \in FrameHolders /\ x # y /\ RootAt[x] = task[t].space /\ Other[y] = task[t].stack
  BY HoldersAre, RootsAre, OthersAre DEF RootAt, Other
<1>2. Freed(spaces) = OwnedBy(h, asked, task[t].space) /\ ~FreedTwice(spaces)
  BY <1>1, SpaceVisitedIs
<1>3. held[x] = OwnedBy(h, asked, task[t].space) /\ held[y] = task[t].stack /\ x \in DOMAIN held /\ y \in DOMAIN held
  BY <1>1, HoldingIs, HoldersAre
<1>4. Part(m.free, held, KernelEnd .. ramEnd - 1)
  BY DEF Sound
<1>5. task[t].stack \cap OwnedBy(h, asked, task[t].space) = {}
  <2> HIDE DEF held, x, y
  <2> QED BY <1>1, <1>3, <1>4 DEF Part
<1>6. TaskVisited(t) = stacks \cup spaces
  BY DEF TaskVisited
<1>7. Freed(stacks) = task[t].stack /\ \A v \in stacks : v = <<<<-1, v[2]>>, v[2]>>
  <2>1. ASSUME NEW f \in task[t].stack PROVE f \in Freed(stacks)
    <3> DEFINE v == <<<<-1, f>>, f>>
    <3>1. v \in stacks /\ v[2] = f
      OBVIOUS
    <3> HIDE DEF v, stacks
    <3> QED BY <3>1 DEF Freed
  <2>2. ASSUME NEW v \in stacks PROVE v = <<<<-1, v[2]>>, v[2]>> /\ v[2] \in task[t].stack
    <3>1. PICK f \in task[t].stack : v = <<<<-1, f>>, f>>
      OBVIOUS
    <3> QED BY <3>1
  <2> HIDE DEF stacks
  <2>3. \A f \in Freed(stacks) : f \in task[t].stack
    BY <2>2 DEF Freed
  <2> QED BY <2>1, <2>2, <2>3
<1> HIDE DEF stacks, spaces
<1>8. Freed(stacks \cup spaces) = Freed(stacks) \cup Freed(spaces)
  BY DEF Freed
<1>9. ~FreedTwice(stacks \cup spaces)
  <2> SUFFICES ASSUME NEW v \in stacks \cup spaces, NEW w \in stacks \cup spaces, v[2] = w[2], v # w PROVE FALSE
    BY DEF FreedTwice
  <2>1. CASE v \in stacks /\ w \in stacks
    BY <1>7, <2>1
  <2>2. CASE v \in spaces /\ w \in spaces
    BY <1>2, <2>2 DEF FreedTwice
  <2>3. CASE (v \in stacks /\ w \in spaces) \/ (v \in spaces /\ w \in stacks)
    <3>1. v[2] \in Freed(stacks) /\ v[2] \in Freed(spaces)
      BY <2>3 DEF Freed
    <3> QED BY <1>2, <1>5, <1>7, <3>1
  <2> QED BY <2>1, <2>2, <2>3
<1> QED BY <1>2, <1>6, <1>7, <1>8, <1>9

(* The frames of a set of visits *)
LEMMA FreedIs ==
  ASSUME NEW V PROVE \A f : f \in Freed(V) <=> \E v \in V : f = v[2]
BY DEF Freed

(* Visits that are marked with whom they are for *)
Marked(T, V) == UNION {{<<<<t, v[1]>>, v[2]>> : v \in V[t]} : t \in T}

(* If no two of them share a frame, marking loses none and doubles none. *)
LEMMA MarkedVisits ==
  ASSUME NEW T, NEW V, NEW visits, visits = Marked(T, V),
         \A t \in T : ~FreedTwice(V[t]),
         \A t, u \in T : t # u => Freed(V[t]) \cap Freed(V[u]) = {}
  PROVE  ~FreedTwice(visits) /\ \A f : f \in Freed(visits) <=> \E t \in T : f \in Freed(V[t])
<1>1. ASSUME NEW w \in visits
      PROVE  \E t \in T : \E v \in V[t] : w[2] = v[2] /\ w[1] = <<t, v[1]>> /\ w = <<<<t, v[1]>>, v[2]>>
  BY DEF Marked
<1>2. ASSUME NEW t \in T, NEW v \in V[t] PROVE \E w \in visits : w[2] = v[2]
  <2> DEFINE w == <<<<t, v[1]>>, v[2]>>
  <2>1. w \in visits /\ w[2] = v[2]
    BY DEF Marked
  <2> HIDE DEF w
  <2> QED BY <2>1
<1>3. \A f : f \in Freed(visits) <=> \E w \in visits : f = w[2]
  BY ONLY FreedIs
<1>4. ASSUME NEW t, NEW v \in V[t] PROVE v[2] \in Freed(V[t])
  BY ONLY v \in V[t], FreedIs
<1>5. ~FreedTwice(visits)
  <2> SUFFICES ASSUME NEW p \in visits, NEW q \in visits, p[2] = q[2], p # q PROVE FALSE
    BY DEF FreedTwice
  <2>1. PICK t \in T : \E v \in V[t] : p[2] = v[2] /\ p = <<<<t, v[1]>>, v[2]>>
    BY <1>1
  <2>2. PICK v \in V[t] : p[2] = v[2] /\ p = <<<<t, v[1]>>, v[2]>>
    BY <2>1
  <2>3. PICK u \in T : \E w \in V[u] : q[2] = w[2] /\ q = <<<<u, w[1]>>, w[2]>>
    BY <1>1
  <2>4. PICK w \in V[u] : q[2] = w[2] /\ q = <<<<u, w[1]>>, w[2]>>
    BY <2>3
  <2>5. v[2] = w[2]
    BY <2>2, <2>4
  <2>6. CASE t = u
    <3>1. v # w
      BY <2>2, <2>4, <2>6
    <3> QED BY <2>5, <2>6, <3>1 DEF FreedTwice
  <2>7. CASE t # u
    <3>1. v[2] \in Freed(V[t])
      BY ONLY <1>4, v \in V[t]
    <3>2. w[2] \in Freed(V[u])
      BY ONLY <1>4, w \in V[u]
    <3> QED BY <2>5, <2>7, <3>1, <3>2
  <2> QED BY <2>6, <2>7
<1>6. \A f : f \in Freed(visits) <=> \E t \in T : f \in Freed(V[t])
  <2>1. ASSUME NEW w \in visits PROVE \E t \in T : w[2] \in Freed(V[t])
    <3>1. PICK t \in T : \E v \in V[t] : w[2] = v[2]
      BY <1>1
    <3>2. w[2] \in Freed(V[t])
      BY ONLY <1>4, <3>1
    <3> QED BY <3>2
  <2>2. ASSUME NEW t \in T, NEW f \in Freed(V[t]) PROVE f \in Freed(visits)
    <3>1. PICK v \in V[t] : f = v[2]
      BY ONLY <2>2, FreedIs
    <3>2. PICK w \in visits : w[2] = v[2]
      BY <1>2
    <3> QED BY ONLY <1>3, <3>1, <3>2
  <2> QED BY <1>3, <2>1, <2>2
<1> QED BY <1>5, <1>6

(* The reaper finds every frame of the tasks that are gone, each once: it    *)
(* never panics.                                                             *)
LEMMA ReclaimedIs ==
  ASSUME NEW h, Sound(m, h, asked, RootAt, Other, ramEnd), NEW gone \in SUBSET Tasks,
         \A t \in gone : task[t].space # NoRoot,
         NEW mem, mem = Reclaimed(gone)
  PROVE  /\ mem.ok /\ mem.table = m.table
         /\ \A f : f \in mem.free <=> \/ f \in m.free \/ \E t \in gone : f \in OwnedBy(h, asked, task[t].space)
                                     \/ \E t \in gone : f \in task[t].stack
<1> DEFINE V == [t \in gone |-> TaskVisited(t)]
           visits == Marked(gone, V)
           held == Holding(h, asked, RootAt, Other)
<1>0. \A t \in gone : V[t] = TaskVisited(t)
  OBVIOUS
<1>1. mem = Release(m, visits)
  <2> DEFINE W == UNION {{<<<<t, v[1]>>, v[2]>> : v \in TaskVisited(t)} : t \in gone}
  <2>1. W = visits
    <3>1. \A t \in gone : {<<<<t, v[1]>>, v[2]>> : v \in V[t]} = {<<<<t, v[1]>>, v[2]>> : v \in TaskVisited(t)}
      BY <1>0
    <3> HIDE DEF V
    <3> QED BY <3>1 DEF Marked
  <2>2. mem = Release(m, W)
    BY DEF Reclaimed
  <2> HIDE DEF W, visits
  <2> QED BY <2>1, <2>2
<1> HIDE DEF V
<1>2. ASSUME NEW t \in gone
      PROVE  /\ <<"space", t>> \in Users /\ <<"stack", t>> \in FrameHolders
             /\ RootAt[<<"space", t>>] = task[t].space /\ Other[<<"stack", t>>] = task[t].stack
             /\ Freed(V[t]) = task[t].stack \cup OwnedBy(h, asked, task[t].space) /\ ~FreedTwice(V[t])
  <2>1. RootAt[<<"space", t>>] = task[t].space /\ Other[<<"stack", t>>] = task[t].stack
    BY RootsAre, OthersAre DEF RootAt, Other
  <2> QED BY <1>0, <2>1, TaskVisitedIs, HoldersAre
<1>3. ASSUME NEW t \in gone
      PROVE  /\ held[<<"space", t>>] = OwnedBy(h, asked, task[t].space) /\ held[<<"stack", t>>] = task[t].stack
             /\ <<"space", t>> \in DOMAIN held /\ <<"stack", t>> \in DOMAIN held
  BY <1>2, HoldingIs, HoldersAre
<1>4. Part(m.free, held, KernelEnd .. ramEnd - 1)
  BY DEF Sound
<1>5. ASSUME NEW t \in gone, NEW u \in gone, t # u PROVE Freed(V[t]) \cap Freed(V[u]) = {}
  <2> HIDE DEF held
  <2>1. /\ <<"space", t>> # <<"space", u>> /\ <<"space", t>> # <<"stack", u>>
        /\ <<"stack", t>> # <<"space", u>> /\ <<"stack", t>> # <<"stack", u>>
    BY <1>5
  <2>2. /\ held[<<"space", t>>] \cap held[<<"space", u>>] = {} /\ held[<<"space", t>>] \cap held[<<"stack", u>>] = {}
        /\ held[<<"stack", t>>] \cap held[<<"space", u>>] = {} /\ held[<<"stack", t>>] \cap held[<<"stack", u>>] = {}
    BY <1>3, <1>4, <2>1 DEF Part
  <2> QED BY <1>2, <1>3, <2>2
<1>6. ASSUME NEW t \in gone PROVE Freed(V[t]) \cap m.free = {}
  <2> DEFINE x == <<"space", t>>
             y == <<"stack", t>>
  <2>1. held[x] \cap m.free = {} /\ held[y] \cap m.free = {}
    <3>1. x \in DOMAIN held /\ y \in DOMAIN held
      BY <1>3
    <3> HIDE DEF held, x, y
    <3> QED BY <1>4, <3>1 DEF Part
  <2> HIDE DEF held
  <2> QED BY <1>2, <1>3, <2>1
<1>7. ~FreedTwice(visits) /\ \A f : f \in Freed(visits) <=> \E t \in gone : f \in Freed(V[t])
  <2>1. \A t \in gone : ~FreedTwice(V[t])
    BY <1>2
  <2>2. visits = Marked(gone, V)
    OBVIOUS
  <2>3. \A t, u \in gone : t # u => Freed(V[t]) \cap Freed(V[u]) = {}
    BY <1>5
  <2> HIDE DEF visits
  <2> QED BY ONLY <2>1, <2>2, <2>3, MarkedVisits
<1> HIDE DEF visits, held
<1>8. Freed(visits) \cap m.free = {}
  BY <1>6, <1>7
<1>9. mem = Memory(m.table, m.free \cup Freed(visits))
  BY <1>1, <1>7, <1>8 DEF Release
<1>10. mem.ok /\ mem.table = m.table /\ mem.free = m.free \cup Freed(visits)
  BY <1>9 DEF Memory
<1>11. \A t \in gone : Freed(V[t]) = task[t].stack \cup OwnedBy(h, asked, task[t].space)
  BY <1>2
<1> QED BY <1>7, <1>10, <1>11

(* Who holds which root and which frames *)
LEMMA RootsNow ==
  /\ RootAt[<<"low", 0>>] = low /\ RootAt[<<"high", 0>>] = high /\ RootAt[<<"empty", 0>>] = emptySpace
  /\ RootAt[<<"building", 0>>] = building /\ \A t \in Tasks : RootAt[<<"space", t>>] = task[t].space
BY RootsAre DEF RootAt

(* ... and the frames of those that have no root *)
LEMMA OthersNow ==
  Other[<<"kept", 0>>] = kept /\ \A t \in Tasks : Other[<<"stack", t>>] = task[t].stack
BY OthersAre DEF Other

(* What the hardware is using: the frames of the space it walks and of the   *)
(* stack it is on are held, and by no task but the current one.              *)
InUse == Owned(ttbr0) \cup StackOf(current)

(* It is out of the pool and no other task has any of it. *)
LEMMA InUseIs ==
  ASSUME BootInv, Started, NEW h, Sound(m, h, asked, RootAt, Other, ramEnd)
  PROVE  /\ InUse \cap m.free = {}
         /\ \A t \in Tasks : t # current => /\ InUse \cap OwnedBy(h, asked, task[t].space) = {}
                                            /\ InUse \cap task[t].stack = {}
<1> DEFINE held == Holding(h, asked, RootAt, Other)
<1>0. ttbr0 = RootOf(task, current) /\ emptySpace # NoRoot /\ current \in {0} \cup Tasks /\ 0 \notin Tasks
  BY LayoutIs DEF BootInv, TaskFacts, Started, BootTypes, Tasks
<1>1. /\ \A t \in Tasks : held[<<"space", t>>] = OwnedBy(h, asked, task[t].space)
      /\ \A t \in Tasks : held[<<"stack", t>>] = task[t].stack
      /\ held[<<"empty", 0>>] = TablesOf(h, emptySpace)
  <2>1. /\ RootAt[<<"empty", 0>>] = emptySpace /\ \A t \in Tasks : RootAt[<<"space", t>>] = task[t].space
    BY ONLY RootsNow
  <2>2. \A t \in Tasks : Other[<<"stack", t>>] = task[t].stack
    BY ONLY OthersNow
  <2>3. \A t \in Tasks : <<"space", t>> \in Users /\ <<"stack", t>> \in FrameHolders
    BY HoldersAre
  <2>4. <<"empty", 0>> \in RootHolders \ Users
    BY HoldersAre
  <2>5. /\ \A x \in Users : held[x] = OwnedBy(h, asked, RootAt[x])
        /\ \A x \in RootHolders \ Users : held[x] = TablesOf(h, RootAt[x])
        /\ \A x \in FrameHolders : held[x] = Other[x]
    BY HoldingIs
  <2> HIDE DEF held
  <2> QED BY <2>1, <2>2, <2>3, <2>4, <2>5
<1>2. /\ <<"empty", 0>> \in DOMAIN held
      /\ \A t \in Tasks : <<"space", t>> \in DOMAIN held /\ <<"stack", t>> \in DOMAIN held
  BY HoldingIs, HoldersAre
<1>3. Part(m.free, held, KernelEnd .. ramEnd - 1)
  BY DEF Sound
<1> HIDE DEF held
<1>4. \A x \in DOMAIN held, y \in DOMAIN held : x # y => held[x] \cap held[y] = {}
  BY <1>3 DEF Part
<1>5. \A x \in DOMAIN held : held[x] \cap m.free = {}
  BY <1>3 DEF Part
<1>6. CASE current = 0
  <2>1. ttbr0 = emptySpace /\ StackOf(current) = {}
    BY <1>0, <1>6 DEF RootOf, StackOf
  <2>2. RootAt[<<"empty", 0>>] = emptySpace /\ <<"empty", 0>> \in RootHolders
    BY ONLY RootsNow, HoldersAre
  <2>3. Tables(emptySpace) = TablesOf(h, emptySpace) /\ Leaves(emptySpace) = LeavesIn(asked[emptySpace])
    BY <1>0, <2>2, HeldIs
  <2>4. \A va \in Pages : asked[emptySpace][va].at = NoFrame
    BY <1>0 DEF BootInv, SpaceMaps, Nowhere
  <2>5. LeavesIn(asked[emptySpace]) = {}
    BY <2>4 DEF LeavesIn
  <2>6. InUse = held[<<"empty", 0>>]
    BY <1>1, <2>1, <2>3, <2>5 DEF InUse, Owned
  <2> DEFINE e == <<"empty", 0>>
  <2>7. ASSUME NEW t \in Tasks PROVE e # <<"space", t>> /\ e # <<"stack", t>>
    OBVIOUS
  <2>8. ASSUME NEW t \in Tasks
        PROVE  held[e] \cap held[<<"space", t>>] = {} /\ held[e] \cap held[<<"stack", t>>] = {}
    BY <1>2, <1>4, <2>7
  <2> QED BY <1>1, <1>2, <1>5, <2>6, <2>8
<1>7. CASE current \in Tasks
  <2> DEFINE c == <<"space", current>>
             d == <<"stack", current>>
  <2>1. ttbr0 = task[current].space /\ StackOf(current) = task[current].stack
    BY <1>0, <1>7 DEF RootOf, StackOf
  <2>2. RootAt[c] = task[current].space /\ c \in Users
    <3>1. \A t \in Tasks : RootAt[<<"space", t>>] = task[t].space
      BY ONLY RootsNow
    <3> QED BY <1>7, <3>1, HoldersAre
  <2>3. Owned(ttbr0) = OwnedBy(h, asked, task[current].space)
    BY <2>1, <2>2, HeldIs
  <2>4. InUse = held[c] \cup held[d]
    BY <1>1, <1>7, <2>1, <2>3 DEF InUse
  <2>5. ASSUME NEW t \in Tasks, t # current
        PROVE  /\ c # <<"space", t>> /\ c # <<"stack", t>> /\ d # <<"space", t>> /\ d # <<"stack", t>>
    BY <2>5
  <2>6. ASSUME NEW t \in Tasks, t # current
        PROVE  /\ held[c] \cap held[<<"space", t>>] = {} /\ held[c] \cap held[<<"stack", t>>] = {}
               /\ held[d] \cap held[<<"space", t>>] = {} /\ held[d] \cap held[<<"stack", t>>] = {}
    BY <1>2, <1>4, <1>7, <2>5, <2>6
  <2>7. held[c] \cap m.free = {} /\ held[d] \cap m.free = {}
    BY <1>2, <1>5, <1>7
  <2> HIDE DEF c, d
  <2>8. ASSUME NEW t \in Tasks, t # current
        PROVE  InUse \cap held[<<"space", t>>] = {} /\ InUse \cap held[<<"stack", t>>] = {}
    BY <2>4, <2>6, <2>8
  <2> QED BY <1>1, <2>4, <2>7, <2>8
<1> QED BY <1>0, <1>6, <1>7

(* switch_to_next, from a table in which only states differ *)
LEMMA StepSwitch ==
  ASSUME BootInv, Started, NEW tasks, tasks \in [Tasks -> TaskTypes],
         \A t \in Tasks : /\ tasks[t].space = task[t].space /\ tasks[t].stack = task[t].stack
                          /\ tasks[t].state \in {"none", "dead"} <=> task[t].state \in {"none", "dead"},
         SwitchToNext(tasks)
  PROVE  BootInv' /\ InUse \cap m'.free = {}
<1> USE DEF BootInv
<1>0. PICK h : Sound(m, h, asked, RootAt, Other, ramEnd)
  BY DEF SoundNow
<1>1. CASE Halt
  <2>1. m' = m
    BY <1>1 DEF Halt
  <2> QED BY <1>0, <1>1, <2>1, StepHalt, InUseIs
<1>2. CASE ~Halt
  <2> DEFINE gone == Victims(tasks)
             X == {<<"space", t>> : t \in gone}
             Y == {<<"stack", t>> : t \in gone}
             dead(t) == [tasks[t] EXCEPT !.state = "dead", !.space = NoRoot, !.stack = {}]
  <2>1. /\ m' = Reclaimed(gone)
        /\ asked' = AskedFor(DOMAIN asked \ {task[t].space : t \in gone})
        /\ task' = [t \in Tasks |-> IF t \in gone THEN dead(t) ELSE tasks[t]]
        /\ current' \in {0} \cup {t \in Tasks : tasks[t].state = "runnable"}
        /\ ttbr0' = IF current' = current THEN ttbr0 ELSE RootOf(tasks, current')
        /\ UNCHANGED <<pc, machine, ramEnd, low, high, ttbr1, kept, todo, adopted, emptySpace, building>>
    BY <1>2 DEF SwitchToNext, bootVars
  <2>2. gone \in SUBSET Tasks /\ current \notin gone /\ \A t \in gone : tasks[t].state = "zombie"
    BY DEF Victims
  <2>3. /\ \A t \in gone : task[t].space # NoRoot
        /\ \A t \in Tasks : tasks[t].state = "runnable" => t \notin gone /\ task[t].space # NoRoot
    BY <2>2 DEF TaskFacts
  <2> HIDE DEF gone
  <2>4. ASSUME NEW t \in gone
        PROVE  task'[t].state = "dead" /\ task'[t].space = NoRoot /\ task'[t].stack = {} /\ task'[t] \in TaskTypes
    <3>1. tasks[t] \in TaskTypes
      BY <2>2
    <3>2. task'[t] = dead(t)
      BY <2>1, <2>2
    <3>3. /\ dead(t).state = "dead" /\ dead(t).space = NoRoot /\ dead(t).stack = {}
          /\ dead(t) \in TaskTypes
      BY <3>1 DEF TaskTypes, NoRoot
    <3> QED BY <3>2, <3>3
  <2>5. \A t \in Tasks \ gone : task'[t] = tasks[t] /\ task'[t] \in TaskTypes
    BY <2>1
  <2>6. DOMAIN task' = Tasks /\ task' \in [Tasks -> TaskTypes]
    <3>1. \A t \in Tasks : task'[t] \in TaskTypes
      BY <2>4, <2>5
    <3> HIDE DEF dead
    <3> QED BY <2>1, <3>1
  <2> HIDE DEF dead
  <2>7. pc \in Running /\ high # NoRoot /\ emptySpace # NoRoot
    BY DEF Started, Phases, Running
  <2> DEFINE mem1 == m'
             a1 == asked'
             root1 == RootAt'
             other1 == Other'
  <2>8. /\ mem1.ok /\ mem1.table = m.table
        /\ \A f : f \in mem1.free <=> \/ f \in m.free \/ \E t \in gone : f \in OwnedBy(h, asked, task[t].space)
                                     \/ \E t \in gone : f \in task[t].stack
    <3>1. mem1 = Reclaimed(gone)
      BY <2>1
    <3> HIDE DEF mem1
    <3> QED BY ONLY <1>0, <2>2, <2>3, <3>1, ReclaimedIs
  <2>9. KernelEnd .. ramEnd - 1 \subseteq Ram
    BY LayoutIs DEF Ram, BootTypes
  <2>10. /\ RootAt[<<"low", 0>>] = low /\ RootAt[<<"high", 0>>] = high /\ RootAt[<<"empty", 0>>] = emptySpace
         /\ RootAt[<<"building", 0>>] = building /\ \A t \in Tasks : RootAt[<<"space", t>>] = task[t].space
    BY ONLY RootsNow
  <2>11. /\ root1[<<"low", 0>>] = low /\ root1[<<"high", 0>>] = high /\ root1[<<"empty", 0>>] = emptySpace
         /\ root1[<<"building", 0>>] = building /\ \A t \in Tasks : root1[<<"space", t>>] = task'[t].space
    <3>1. root1 = RootsOf(low, high, emptySpace, building, task')
      BY <2>1 DEF RootAt
    <3> HIDE DEF root1
    <3> QED BY <3>1, RootsAre
  <2>12. Other[<<"kept", 0>>] = kept /\ \A t \in Tasks : Other[<<"stack", t>>] = task[t].stack
    BY ONLY OthersNow
  <2>13. other1[<<"kept", 0>>] = kept /\ \A t \in Tasks : other1[<<"stack", t>>] = task'[t].stack
    <3>1. other1 = OthersOf(kept, task')
      BY <2>1 DEF Other
    <3> HIDE DEF other1
    <3> QED BY <3>1, OthersAre
  <2>14. /\ \A x : x \in X <=> \E t \in gone : x = <<"space", t>>
         /\ \A y : y \in Y <=> \E t \in gone : y = <<"stack", t>>
    OBVIOUS
  <2>15. /\ \A t \in gone : <<"space", t>> \in X /\ <<"stack", t>> \in Y
         /\ \A x \in X : \E t \in gone : x = <<"space", t>> /\ RootAt[x] = task[t].space /\ root1[x] = task'[t].space
         /\ \A y \in Y : \E t \in gone : y = <<"stack", t>> /\ Other[y] = task[t].stack /\ other1[y] = task'[t].stack
    <3> HIDE DEF X, Y, root1, other1
    <3> QED BY <2>2, <2>10, <2>11, <2>12, <2>13, <2>14
  <2> HIDE DEF X, Y, mem1, root1, other1
  <2>16. X \in SUBSET Users /\ Y \in SUBSET FrameHolders
    <3>1. \A t \in gone : <<"space", t>> \in Users /\ <<"stack", t>> \in FrameHolders
      BY <2>2, HoldersAre
    <3>2. \A x \in X : x \in Users
      BY ONLY <2>15, <3>1
    <3>3. \A y \in Y : y \in FrameHolders
      BY ONLY <2>15, <3>1
    <3> QED BY ONLY <3>2, <3>3
  <2>17. (\A x \in X : root1[x] = NoRoot) /\ \A x \in RootHolders \ X : root1[x] = RootAt[x]
    <3>1. \A t \in Tasks \ gone : root1[<<"space", t>>] = RootAt[<<"space", t>>]
      BY <2>5, <2>10, <2>11
    <3>2. \A t \in gone : task'[t].space = NoRoot
      BY <2>4
    <3>3. \A x \in X : root1[x] = NoRoot
      BY ONLY <2>15, <3>2
    <3>4. ASSUME NEW x \in RootHolders \ X PROVE root1[x] = RootAt[x]
      <4>1. ASSUME NEW t \in Tasks, x = <<"space", t>> PROVE t \in Tasks \ gone
        BY ONLY <2>15, <4>1, <3>4
      <4> QED BY ONLY <2>10, <2>11, <3>1, <3>4, <4>1, HolderCases
    <3> QED BY ONLY <3>3, <3>4
  <2>18. (\A y \in Y : other1[y] = {}) /\ \A y \in FrameHolders \ Y : other1[y] = Other[y]
    <3>1. \A t \in Tasks \ gone : other1[<<"stack", t>>] = Other[<<"stack", t>>]
      BY <2>5, <2>12, <2>13
    <3>2. \A t \in gone : task'[t].stack = {}
      BY <2>4
    <3>3. \A y \in Y : other1[y] = {}
      BY ONLY <2>15, <3>2
    <3>4. ASSUME NEW y \in FrameHolders \ Y PROVE other1[y] = Other[y]
      <4>1. ASSUME NEW t \in Tasks, y = <<"stack", t>> PROVE t \in Tasks \ gone
        BY ONLY <2>15, <4>1, <3>4
      <4> QED BY ONLY <2>12, <2>13, <3>1, <3>4, <4>1, HolderCases
    <3> QED BY ONLY <3>3, <3>4
  <2>19. /\ \A r : r \in DOMAIN a1 <=> r \in DOMAIN asked /\ \A x \in X : r # RootAt[x]
         /\ \A r \in DOMAIN a1 : a1[r] = asked[r]
    <3>1. /\ \A r : r \in DOMAIN a1 <=> r \in DOMAIN asked /\ \A t \in gone : r # task[t].space
          /\ \A r \in DOMAIN a1 : a1[r] = asked[r]
      BY <2>1 DEF AskedFor
    <3>2. \A t \in gone : \E x \in X : RootAt[x] = task[t].space
      BY <2>2, <2>10, <2>15
    <3> HIDE DEF a1
    <3> QED BY <2>15, <3>1, <3>2
  <2>20. \A f : f \in mem1.free <=> \/ f \in m.free \/ \E x \in X : f \in OwnedBy(h, asked, RootAt[x])
                                   \/ \E y \in Y : f \in Other[y]
    <3>1. \A f : (\E x \in X : f \in OwnedBy(h, asked, RootAt[x])) <=> \E t \in gone : f \in OwnedBy(h, asked, task[t].space)
      <4>1. \A t \in gone : \E x \in X : RootAt[x] = task[t].space
        BY <2>2, <2>10, <2>15
      <4>2. \A x \in X : \E t \in gone : RootAt[x] = task[t].space
        BY <2>15
      <4> QED BY ONLY <4>1, <4>2
    <3>2. \A f : (\E y \in Y : f \in Other[y]) <=> \E t \in gone : f \in task[t].stack
      <4>1. \A t \in gone : \E y \in Y : Other[y] = task[t].stack
        BY <2>2, <2>12, <2>15
      <4>2. \A y \in Y : \E t \in gone : Other[y] = task[t].stack
        BY <2>15
      <4> QED BY ONLY <4>1, <4>2
    <3> QED BY ONLY <2>8, <3>1, <3>2
  <2>21. SoundNow'
    <3> HIDE DEF a1
    <3>1. Dropped(m, h, asked, RootAt, Other, X, Y, mem1, a1, root1, other1)
      BY ONLY <2>8, <2>16, <2>17, <2>18, <2>19, <2>20 DEF Dropped
    <3>2. \E h1 : Sound(mem1, h1, a1, root1, other1, ramEnd)
      BY ONLY <1>0, <2>9, <3>1, SoundDrop
    <3> QED BY <2>1, <3>2 DEF SoundNow, mem1, a1, root1, other1
  <2>22. BootTypes'
    BY <2>1, <2>6 DEF BootTypes, NewEnd
  <2>23. Phases'
    BY <2>1, <2>7 DEF Phases, Fresh, HighOn, Running, Making
  <2>24. /\ asked'[high] = asked[high] /\ asked'[emptySpace] = asked[emptySpace]
         /\ building # NoRoot => asked'[building] = asked[building]
    <3>1. /\ high \in DOMAIN asked /\ emptySpace \in DOMAIN asked
          /\ building # NoRoot => building \in DOMAIN asked
      BY <1>0, <2>7, RootsKnown
    <3>2. /\ \A t \in Tasks : high # task[t].space /\ emptySpace # task[t].space
          /\ building # NoRoot => \A t \in Tasks : building # task[t].space
      BY <1>0, <2>7, RootsApart
    <3> QED BY <2>1, <2>2, <3>1, <3>2 DEF AskedFor
  <2>25. KernelMaps'
    BY <2>1, <2>7, <2>24, KernelMapsStay
  <2>26. SpaceMaps'
    BY <2>1, <2>7, <2>24 DEF SpaceMaps, Phases, Running, Making
  <2>27. TaskFacts'
    <3>1. ASSUME NEW t \in Tasks
          PROVE  /\ task'[t].space = NoRoot <=> task'[t].state \in {"none", "dead"}
                 /\ task'[t].space = NoRoot => task'[t].stack = {}
      BY <2>4, <2>5 DEF TaskFacts
    <3>2. current' \in Tasks => task'[current'].space # NoRoot
      BY <2>1, <2>3, <2>5, LayoutIs DEF Tasks
    <3> DEFINE next == current'
    <3>3. ttbr0' = IF next = 0 THEN emptySpace ELSE task[next].space
      BY <2>1 DEF TaskFacts, RootOf, BootTypes
    <3>4. next \in Tasks => task'[next].space = task[next].space
      BY <2>1, <2>3, <2>5, LayoutIs DEF Tasks
    <3>5. next = 0 \/ next \in Tasks
      BY <2>1
    <3>6. RootOf(task, current)' = IF next = 0 THEN emptySpace ELSE task'[next].space
      BY <2>1 DEF RootOf
    <3>7. ttbr0' = RootOf(task, current)'
      <4> HIDE DEF next
      <4> QED BY <3>3, <3>4, <3>5, <3>6
    <3> QED BY <3>1, <3>2, <3>7 DEF TaskFacts
  <2>28. InUse \cap m'.free = {}
    <3>1. /\ InUse \cap m.free = {}
          /\ \A t \in gone : InUse \cap OwnedBy(h, asked, task[t].space) = {} /\ InUse \cap task[t].stack = {}
      BY <1>0, <2>2, InUseIs
    <3>2. InUse \cap mem1.free = {}
      BY ONLY <2>8, <3>1
    <3> QED BY <3>2 DEF mem1
  <2> QED BY <2>21, <2>22, <2>23, <2>25, <2>26, <2>27, <2>28
<1> QED BY <1>1, <1>2

(* A tick, a yield or a block *)
LEMMA StepTick ==
  ASSUME BootInv, Switch PROVE BootInv' /\ InUse \cap m'.free = {}
<1>1. task \in [Tasks -> TaskTypes]
  BY DEF BootInv, BootTypes
<1> QED BY <1>1, StepSwitch DEF Switch

(* exit: the caller becomes a zombie and is still on its stack. *)
LEMMA StepExit ==
  ASSUME BootInv, Exit PROVE BootInv' /\ InUse \cap m'.free = {}
<1> DEFINE tasks == [task EXCEPT ![current].state = "zombie"]
<1>1. task \in [Tasks -> TaskTypes] /\ current \in Tasks /\ task[current].state \notin {"none", "dead"}
  BY DEF BootInv, BootTypes, TaskFacts, Exit
<1>2. ASSUME NEW t \in Tasks
      PROVE  /\ tasks[t] \in TaskTypes /\ tasks[t].space = task[t].space /\ tasks[t].stack = task[t].stack
             /\ tasks[t].state \in {"none", "dead"} <=> task[t].state \in {"none", "dead"}
  BY <1>1 DEF TaskTypes
<1>3. tasks \in [Tasks -> TaskTypes]
  BY <1>1, <1>2
<1>4. Started /\ SwitchToNext(tasks)
  BY DEF Exit
<1> HIDE DEF tasks
<1> QED BY <1>2, <1>3, <1>4, StepSwitch

(* A fault: the caller keeps its space until it is restarted or killed. *)
LEMMA StepFault ==
  ASSUME BootInv, Fault PROVE BootInv' /\ InUse \cap m'.free = {}
<1> DEFINE tasks == [task EXCEPT ![current].state = "faulted"]
<1>1. task \in [Tasks -> TaskTypes] /\ current \in Tasks /\ task[current].state \notin {"none", "dead"}
  BY DEF BootInv, BootTypes, TaskFacts, Fault
<1>2. ASSUME NEW t \in Tasks
      PROVE  /\ tasks[t] \in TaskTypes /\ tasks[t].space = task[t].space /\ tasks[t].stack = task[t].stack
             /\ tasks[t].state \in {"none", "dead"} <=> task[t].state \in {"none", "dead"}
  BY <1>1 DEF TaskTypes
<1>3. tasks \in [Tasks -> TaskTypes]
  BY <1>1, <1>2
<1>4. Started /\ SwitchToNext(tasks)
  BY DEF Fault
<1> HIDE DEF tasks
<1> QED BY <1>2, <1>3, <1>4, StepSwitch

-----------------------------------------------------------------------------
(* restart: the old space goes, a new one comes *)

(* A map with one page more *)
OnePage(map, va, f, attrs) ==
  [page \in Pages |-> IF page = va THEN [at |-> f, attrs |-> attrs] ELSE map[page]]

(* The page that UserPage asks for *)
LEMMA PagePainted ==
  ASSUME NEW map, NEW mem, NEW va \in Pages, NEW attrs, Lowest(mem.free) \in Nat
  PROVE  Painted(map, PageAsked(mem, va, attrs), 1) = OnePage(map, va, Lowest(mem.free), attrs)
<1> DEFINE r == R(va, Lowest(mem.free), 1, attrs)
           p == Painted(map, <<r>>, 1)
           q == OnePage(map, va, Lowest(mem.free), attrs)
<1>1. PageAsked(mem, va, attrs) = <<r>>
  BY DEF PageAsked
<1>2. ASSUME NEW page \in Pages PROVE Covers(r, page) <=> page = va
  BY Spans DEF Covers, R, Pages
<1>3. Target(r, va) = [at |-> Lowest(mem.free), attrs |-> attrs]
  BY Spans DEF Target, R, Pages
<1>4. ASSUME NEW page \in Pages PROVE p[page] = q[page]
  <2> HIDE DEF r
  <2>1. p[page] = IF Covers(r, page) THEN Target(r, page) ELSE map[page]
    BY PaintedOne
  <2>2. q[page] = IF page = va THEN [at |-> Lowest(mem.free), attrs |-> attrs] ELSE map[page]
    BY DEF OnePage
  <2> HIDE DEF p, q
  <2> QED BY <1>2, <1>3, <2>1, <2>2
<1>5. p = [page \in Pages |-> p[page]] /\ q = [page \in Pages |-> q[page]]
  <2>1. p = [page \in Pages |-> p[page]]
    BY DEF Painted
  <2>2. q = [page \in Pages |-> q[page]]
    BY DEF OnePage
  <2> QED BY <2>1, <2>2
<1> HIDE DEF p, q, r
<1>6. p = q
  BY <1>4, <1>5
<1> QED BY <1>1, <1>6 DEF p, q

(* build_user_space, all of it: x, who had no space, has the new one *)
SpaceMade(mem, a, root, x, new, one, ta, sa, emptied, texted, built, a1, root1) ==
  /\ x \in Users /\ root[x] = NoRoot /\ mem.free # {} /\ new = Lowest(mem.free)
  /\ one = {new} /\ emptied = Claim(mem, one)
  /\ ta # "fault" /\ texted = UserPage(emptied, new, USER_TEXT_VA, ta)
  /\ sa # "fault" /\ built = UserPage(texted, new, USER_STACK_VA, sa) /\ built.ok
  /\ root1[x] = new /\ \A y \in RootHolders : y # x => root1[y] = root[y]
  /\ DOMAIN a1 = DOMAIN a \cup {new} /\ \A r \in DOMAIN a : a1[r] = a[r]
  /\ a1[new] = Painted(Painted(Unmapped, PageAsked(emptied, USER_TEXT_VA, ta), 1),
                       PageAsked(texted, USER_STACK_VA, sa), 1)

(* Whatever is built so is sound, and came out of the pool. *)
LEMMA SpaceBuilt ==
  ASSUME NEW mem, NEW h, NEW a, NEW root, NEW other, NEW end, Sound(mem, h, a, root, other, end),
         NEW x, NEW new, NEW one, NEW ta, NEW sa, NEW emptied, NEW texted, NEW built, NEW a1, NEW root1,
         SpaceMade(mem, a, root, x, new, one, ta, sa, emptied, texted, built, a1, root1)
  PROVE  /\ \E h1 : Sound(built, h1, a1, root1, other, end)
         /\ built.free \subseteq mem.free /\ new \in Nat /\ new # NoRoot /\ new \notin DOMAIN a
<1> USE DEF SpaceMade
<1>0. /\ x \in Users /\ root[x] = NoRoot /\ one = {new} /\ emptied = Claim(mem, one) /\ ta # "fault" /\ sa # "fault"
      /\ root1[x] = new /\ \A y \in RootHolders : y # x => root1[y] = root[y]
  OBVIOUS
<1>1. x \in Users
  OBVIOUS
<1>2. ta # "fault"
  OBVIOUS
<1>3. sa # "fault"
  OBVIOUS
<1>4. mem.free \subseteq Nat /\ mem.free \subseteq Ram /\ DOMAIN h \cap mem.free = {}
  BY HeldOut
<1>5. new \in mem.free /\ new \in Nat /\ new # NoRoot
  BY <1>4, LowestIs, LayoutIs DEF Ram, NoRoot
<1>6. new \notin DOMAIN a
  BY <1>4, <1>5 DEF Sound, IsRoot
<1> DEFINE text == Painted(Unmapped, PageAsked(emptied, USER_TEXT_VA, ta), 1)
           aEmpty == [r \in DOMAIN a \cup {new} |-> IF r = new THEN Unmapped ELSE a[r]]
           aText == [r \in DOMAIN a \cup {new} |-> IF r = new THEN text ELSE a[r]]
<1>7. /\ DOMAIN aEmpty = DOMAIN a \cup {new} /\ (\A r \in DOMAIN a : aEmpty[r] = a[r])
      /\ aEmpty[new] = Unmapped
  BY <1>6
<1>8. /\ DOMAIN aText = DOMAIN a \cup {new} /\ (\A r \in DOMAIN a : aText[r] = a[r])
      /\ aText[new] = text
  BY <1>6
<1>9. a1[new] = Painted(text, PageAsked(texted, USER_STACK_VA, sa), 1)
  OBVIOUS
<1>10. \A va \in Pages : Unmapped[va] = Nowhere
  BY DEF Unmapped
<1>11. built.ok => texted.ok
  BY DEF UserPage, Panicked
<1>12. emptied.free \subseteq mem.free
  BY ClaimIs
<1> HIDE DEF text, aEmpty, aText
<1>13. \E h1 : Sound(emptied, h1, aEmpty, root1, other, end)
  <2>1. \A va \in Pages : aEmpty[new][va] = Nowhere
    BY <1>7, <1>10
  <2>2. x \in RootHolders
    BY HoldersAre
  <2> QED BY ONLY Sound(mem, h, a, root, other, end), <1>0, <1>5, <1>7, <2>1, <2>2, SoundNewRoot
<1>14. PICK h1 : Sound(emptied, h1, aEmpty, root1, other, end)
  BY <1>13
<1>15. emptied.free # {} /\ emptied.free \subseteq Nat /\ Lowest(emptied.free) \in Nat
  <2>1. emptied.free # {}
    BY <1>11 DEF UserPage, Panicked
  <2>2. emptied.free \subseteq Nat
    BY <1>14, HeldOut
  <2> QED BY <2>1, <2>2, LowestIs
<1>16. \A page \in Pages : text[page] = IF page = USER_TEXT_VA
         THEN [at |-> Lowest(emptied.free), attrs |-> ta] ELSE Unmapped[page]
  <2> SUFFICES ASSUME NEW page \in Pages
      PROVE text[page] = IF page = USER_TEXT_VA
        THEN [at |-> Lowest(emptied.free), attrs |-> ta] ELSE Unmapped[page]
    OBVIOUS
  <2>1. USER_TEXT_VA \in Pages /\ Lowest(emptied.free) \in Nat
    BY <1>15, LayoutIs
  <2>2. text = Painted(Unmapped, PageAsked(emptied, USER_TEXT_VA, ta), 1)
    BY DEF text
  <2>3. text = OnePage(Unmapped, USER_TEXT_VA, Lowest(emptied.free), ta)
    BY ONLY <2>1, <2>2, PagePainted
  <2> QED BY <2>3 DEF OnePage
<1>17. (\E h2 : Sound(texted, h2, aText, root1, other, end)) /\ texted.free \subseteq emptied.free
  <2>1. root1[x] # NoRoot /\ USER_TEXT_VA \in Pages /\ aEmpty[root1[x]][USER_TEXT_VA] = Nowhere
    BY <1>5, <1>7, <1>10, LayoutIs
  <2>2. DOMAIN aText = DOMAIN aEmpty /\ \A r \in DOMAIN aEmpty : r # root1[x] => aText[r] = aEmpty[r]
    BY <1>7, <1>8
  <2>3. \A page \in Pages : aText[root1[x]][page] =
          IF page = USER_TEXT_VA THEN [at |-> Lowest(emptied.free), attrs |-> ta] ELSE aEmpty[root1[x]][page]
    <3> SUFFICES ASSUME NEW page \in Pages
        PROVE aText[root1[x]][page] = IF page = USER_TEXT_VA
                THEN [at |-> Lowest(emptied.free), attrs |-> ta] ELSE aEmpty[root1[x]][page]
      OBVIOUS
    <3>1. aText[root1[x]][page] = text[page] /\ aEmpty[root1[x]][page] = Unmapped[page]
      BY <1>7, <1>8
    <3> QED BY <1>16, <3>1
  <2>4. texted = UserPage(emptied, root1[x], USER_TEXT_VA, ta) /\ texted.ok
    BY <1>11
  <2> QED BY ONLY <1>14, <1>1, <1>2, <2>1, <2>2, <2>3, <2>4, SoundUserPage
<1>18. PICK h2 : Sound(texted, h2, aText, root1, other, end)
  BY <1>17
<1>19. texted.free # {} /\ texted.free \subseteq Nat /\ Lowest(texted.free) \in Nat
  <2>1. texted.free # {}
    BY DEF UserPage, Panicked
  <2>2. texted.free \subseteq Nat
    BY <1>18, HeldOut
  <2> QED BY <2>1, <2>2, LowestIs
<1>20. (\E h3 : Sound(built, h3, a1, root1, other, end)) /\ built.free \subseteq texted.free
  <2>1. root1[x] # NoRoot /\ USER_STACK_VA \in Pages /\ aText[root1[x]][USER_STACK_VA] = Nowhere
    <3>1. text[USER_STACK_VA] = Unmapped[USER_STACK_VA]
      BY <1>16, LayoutIs
    <3> QED BY <1>5, <1>8, <1>10, <3>1, LayoutIs
  <2>2. DOMAIN a1 = DOMAIN aText /\ \A r \in DOMAIN aText : r # root1[x] => a1[r] = aText[r]
    BY <1>8
  <2>3. \A page \in Pages : a1[root1[x]][page] =
          IF page = USER_STACK_VA THEN [at |-> Lowest(texted.free), attrs |-> sa] ELSE aText[root1[x]][page]
    <3> SUFFICES ASSUME NEW page \in Pages
        PROVE a1[root1[x]][page] = IF page = USER_STACK_VA
                THEN [at |-> Lowest(texted.free), attrs |-> sa] ELSE aText[root1[x]][page]
      OBVIOUS
    <3>1. a1[root1[x]][page] = Painted(text, PageAsked(texted, USER_STACK_VA, sa), 1)[page]
          /\ aText[root1[x]][page] = text[page]
      BY <1>8, <1>9
    <3>2. USER_STACK_VA \in Pages /\ Lowest(texted.free) \in Nat
      BY <1>19, LayoutIs
    <3>3. Painted(text, PageAsked(texted, USER_STACK_VA, sa), 1) =
            OnePage(text, USER_STACK_VA, Lowest(texted.free), sa)
      BY ONLY <3>2, PagePainted
    <3>4. OnePage(text, USER_STACK_VA, Lowest(texted.free), sa)[page] =
            IF page = USER_STACK_VA THEN [at |-> Lowest(texted.free), attrs |-> sa] ELSE text[page]
      BY DEF OnePage
    <3> QED BY <3>1, <3>3, <3>4
  <2>4. built = UserPage(texted, root1[x], USER_STACK_VA, sa) /\ built.ok
    OBVIOUS
  <2> QED BY ONLY <1>18, <1>1, <1>3, <2>1, <2>2, <2>3, <2>4, SoundUserPage
<1> QED BY <1>5, <1>6, <1>12, <1>17, <1>20

(* destroy: every frame of the old space is found once, and it never panics. *)
LEMMA OldSpaceIs ==
  ASSUME NEW h, Sound(m, h, asked, RootAt, Other, ramEnd), NEW t \in Tasks, task[t].space # NoRoot,
         NEW mem, mem = OldSpaceFreed(t)
  PROVE  /\ mem.ok /\ mem.table = m.table
         /\ \A f : f \in mem.free <=> f \in m.free \/ f \in OwnedBy(h, asked, task[t].space)
<1> DEFINE x == <<"space", t>>
           visits == SpaceVisited(m, task[t].space)
<1>1. x \in Users /\ RootAt[x] = task[t].space
  <2>1. \A s \in Tasks : RootAt[<<"space", s>>] = task[s].space
    BY ONLY RootsNow
  <2> QED BY <2>1, HoldersAre
<1> HIDE DEF x
<1>2. OwnedBy(h, asked, task[t].space) \cap m.free = {}
  BY <1>1, HeldOut
<1>3. Freed(visits) = OwnedBy(h, asked, task[t].space) /\ ~FreedTwice(visits)
  BY <1>1, SpaceVisitedIs
<1>4. mem = Release(m, visits)
  BY DEF OldSpaceFreed, FreeTable
<1> HIDE DEF visits
<1>5. mem = Memory(m.table, m.free \cup Freed(visits))
  BY <1>2, <1>3, <1>4 DEF Release
<1> QED BY <1>3, <1>5 DEF Memory

(* restart of another task: its space goes and a new one comes. *)
LEMMA StepRestart ==
  ASSUME BootInv, NEW t \in Tasks, Restart(t) PROVE BootInv' /\ InUse \cap m'.free = {}
<1> USE DEF BootInv
<1>0. PICK h : Sound(m, h, asked, RootAt, Other, ramEnd)
  BY DEF SoundNow
<1>1. /\ Started /\ current \in Tasks /\ current # t /\ task[t].state = "faulted" /\ task[t].space # NoRoot
      /\ pc \in Running /\ high # NoRoot /\ emptySpace # NoRoot
  BY DEF Restart, Started, TaskFacts, Phases, Running
<1>2. CASE Halt
  <2>1. m' = m
    BY <1>2 DEF Halt
  <2> QED BY <1>0, <1>1, <1>2, <2>1, StepHalt, InUseIs
<1>3. CASE ~Halt
  <2> DEFINE old == task[t].space
             freed == OldSpaceFreed(t)
             root == Lowest(freed.free)
             one == {root}
             emptied == Claim(freed, one)
             texted == UserPage(emptied, root, USER_TEXT_VA, "user_text")
             built == UserPage(texted, root, USER_STACK_VA, "user_data")
             map == Painted(Painted(Unmapped, PageAsked(emptied, USER_TEXT_VA, "user_text"), 1),
                            PageAsked(texted, USER_STACK_VA, "user_data"), 1)
  <2>1. /\ freed.free # {} /\ built.ok /\ m' = built
        /\ asked' = [r \in (DOMAIN asked \ {old}) \cup {root} |-> IF r # root THEN asked[r] ELSE map]
        /\ task' = [task EXCEPT ![t].state = "runnable", ![t].space = root]
        /\ UNCHANGED <<pc, ttbr0, machine, ramEnd, low, high, ttbr1, kept, todo, adopted, emptySpace,
                       building, current>>
    BY <1>3 DEF Restart, bootVars
  <2> DEFINE x == <<"space", t>>
             X == {x}
             root1 == [RootAt EXCEPT ![x] = NoRoot]
             a1 == [r \in DOMAIN asked \ {old} |-> asked[r]]
             mem1 == freed
             root2 == RootAt'
             a2 == asked'
             mem2 == m'
             ta == "user_text"
             sa == "user_data"
  <2>2. /\ x \in Users /\ x \in RootHolders /\ RootAt[x] = old /\ DOMAIN RootAt = RootHolders
        /\ X \subseteq Users /\ \A z \in X : z = x
    <3>1. \A s \in Tasks : RootAt[<<"space", s>>] = task[s].space
      BY ONLY RootsNow
    <3>2. DOMAIN RootAt = RootHolders
      BY DEF RootAt, RootsOf
    <3> QED BY <3>1, <3>2, HoldersAre
  <2>3. /\ DOMAIN a1 = DOMAIN asked \ {old} /\ (\A r \in DOMAIN a1 : a1[r] = asked[r])
        /\ \A r : r \in DOMAIN a1 <=> r \in DOMAIN asked /\ \A z \in X : r # RootAt[z]
    BY <2>2
  <2>4. /\ root1[x] = NoRoot /\ \A y \in RootHolders : y # x => root1[y] = RootAt[y]
    BY <2>2
  <2>5. /\ mem1.ok /\ mem1.table = m.table
        /\ \A f : f \in mem1.free <=> f \in m.free \/ f \in OwnedBy(h, asked, old)
    <3>1. mem1 = OldSpaceFreed(t)
      OBVIOUS
    <3> HIDE DEF mem1
    <3> QED BY <1>0, <1>1, <3>1, OldSpaceIs
  <2>6. a2 = [r \in DOMAIN a1 \cup {root} |-> IF r # root THEN a1[r] ELSE map]
    BY <2>1, <2>3
  <2>7. \A s \in Tasks : s # t => task'[s] = task[s]
    <3> HIDE DEF root
    <3> QED BY <2>1 DEF BootTypes
  <2>8. task'[t].space = root /\ task'[t].stack = task[t].stack /\ task'[t].state = "runnable"
    BY <2>1 DEF BootTypes, TaskTypes
  <2>9. root2[x] = root /\ \A y \in RootHolders : y # x => root2[y] = RootAt[y]
    <3>1. root2 = RootsOf(low, high, emptySpace, building, task')
      BY <2>1 DEF RootAt
    <3> HIDE DEF root2, root
    <3>2. /\ root2[<<"low", 0>>] = low /\ root2[<<"high", 0>>] = high /\ root2[<<"empty", 0>>] = emptySpace
          /\ root2[<<"building", 0>>] = building /\ \A s \in Tasks : root2[<<"space", s>>] = task'[s].space
      BY ONLY <3>1, RootsAre
    <3>3. \A s \in Tasks : s # t => task'[s].space = task[s].space
      BY <2>7
    <3>4. root2[x] = root
      BY <2>8, <3>2
    <3>5. ASSUME NEW y \in RootHolders, y # x PROVE root2[y] = RootAt[y]
      <4>1. ASSUME NEW s \in Tasks, y = <<"space", s>> PROVE root2[y] = RootAt[y]
        <5>1. s # t
          BY <3>5, <4>1
        <5> QED BY <3>2, <3>3, <4>1, <5>1, RootsNow
      <4>2. ASSUME ~ \E s \in Tasks : y = <<"space", s>> PROVE root2[y] = RootAt[y]
        BY ONLY <3>2, <3>5, <4>2, RootsNow, HolderCases
      <4> QED BY <4>1, <4>2
    <3> QED BY <3>4, <3>5
  <2>10. Other' = Other
    <3>1. \A s \in Tasks : task'[s].stack = task[s].stack
      BY <2>7, <2>8
    <3> QED BY <2>1, <3>1, OthersEqual DEF Other
  <2>11. KernelEnd .. ramEnd - 1 \subseteq Ram
    BY LayoutIs DEF Ram, BootTypes
  <2> HIDE DEF root1, a1, X
  <2>12. Dropped(m, h, asked, RootAt, Other, X, {}, mem1, a1, root1, Other)
    <3>1. \A f : (\E z \in X : f \in OwnedBy(h, asked, RootAt[z])) <=> f \in OwnedBy(h, asked, old)
      BY <2>2 DEF X
    <3>2. (\A z \in X : root1[z] = NoRoot) /\ \A y \in RootHolders \ X : root1[y] = RootAt[y]
      BY <2>2, <2>4 DEF X
    <3> HIDE DEF mem1, x
    <3> QED BY ONLY <2>2, <2>3, <2>5, <3>1, <3>2 DEF Dropped
  <2>13. \E h1 : Sound(mem1, h1, a1, root1, Other, ramEnd)
    <3> HIDE DEF mem1
    <3> QED BY ONLY <1>0, <2>11, <2>12, SoundDrop
  <2>14. PICK h1 : Sound(mem1, h1, a1, root1, Other, ramEnd)
    BY <2>13
  <2>15. DOMAIN a2 = DOMAIN a1 \cup {root} /\ (\A r \in DOMAIN a1 : r # root => a2[r] = a1[r]) /\ a2[root] = map
    <3> HIDE DEF a2, map, root
    <3> QED BY <2>6
  <2>16. /\ mem1.free # {} /\ root = Lowest(mem1.free) /\ one = {root} /\ emptied = Claim(mem1, one)
         /\ texted = UserPage(emptied, root, USER_TEXT_VA, ta) /\ built = UserPage(texted, root, USER_STACK_VA, sa)
         /\ built.ok /\ ta # "fault" /\ sa # "fault" /\ mem2 = built
    BY <2>1
  <2>17. a2[root] = Painted(Painted(Unmapped, PageAsked(emptied, USER_TEXT_VA, ta), 1),
                            PageAsked(texted, USER_STACK_VA, sa), 1)
    BY <2>15
  <2> HIDE DEF mem1, root, one, emptied, texted, built, mem2, a2, root2, map, ta, sa, x
  <2>18. root \notin DOMAIN a1
    <3>1. mem1.free \subseteq Nat /\ DOMAIN h1 \cap mem1.free = {}
      BY <2>14, HeldOut
    <3>2. root \in mem1.free
      BY <2>16, <3>1, LowestIs
    <3> QED BY <2>14, <3>1, <3>2 DEF Sound, IsRoot
  <2>19. /\ \E h2 : Sound(built, h2, a2, root2, Other, ramEnd)
         /\ built.free \subseteq mem1.free /\ root \in Nat /\ root # NoRoot
    <3>1. \A r \in DOMAIN a1 : a2[r] = a1[r]
      BY <2>15, <2>18
    <3>2. DOMAIN a2 = DOMAIN a1 \cup {root}
      BY <2>15
    <3>3. \A y \in RootHolders : y # x => root2[y] = root1[y]
      BY <2>4, <2>9
    <3>4. x \in Users /\ root1[x] = NoRoot /\ root2[x] = root
      BY <2>2, <2>4, <2>9
    <3>5. SpaceMade(mem1, a1, root1, x, root, one, ta, sa, emptied, texted, built, a2, root2)
      BY ONLY <2>16, <2>17, <3>1, <3>2, <3>3, <3>4 DEF SpaceMade
    <3> QED BY ONLY <2>14, <3>5, SpaceBuilt
  <2>20. SoundNow'
    <3>1. built = m' /\ ramEnd' = ramEnd
      BY <2>1, <2>16 DEF mem2
    <3> QED BY <2>10, <2>19, <3>1 DEF SoundNow, a2, root2
  <2>21. task' \in [Tasks -> TaskTypes]
    <3>1. task \in [Tasks -> TaskTypes] /\ task' = [task EXCEPT ![t].state = "runnable", ![t].space = root]
      BY <2>1 DEF BootTypes, root, mem1
    <3>2. \A s \in Tasks : task'[s] \in TaskTypes
      BY <2>19, <3>1 DEF TaskTypes
    <3> QED BY <3>1, <3>2
  <2>22. BootTypes'
    BY <2>1, <2>21 DEF BootTypes, NewEnd
  <2>23. Phases'
    BY <1>1, <2>1 DEF Phases, Fresh, HighOn, Running, Making
  <2>24. /\ asked'[high] = asked[high] /\ asked'[emptySpace] = asked[emptySpace]
         /\ building # NoRoot => asked'[building] = asked[building]
    <3>1. /\ high \in DOMAIN asked /\ emptySpace \in DOMAIN asked
          /\ building # NoRoot => building \in DOMAIN asked
      BY <1>0, <1>1, RootsKnown
    <3>2. high # old /\ emptySpace # old /\ (building # NoRoot => building # old)
      BY <1>0, <1>1, RootsApart
    <3>3. \A r \in DOMAIN a1 : asked'[r] = asked[r]
      BY <2>3, <2>15, <2>18 DEF a2
    <3> QED BY <2>3, <3>1, <3>2, <3>3
  <2>25. KernelMaps'
    BY <1>1, <2>1, <2>24, KernelMapsStay
  <2>26. SpaceMaps'
    BY <1>1, <2>1, <2>24 DEF SpaceMaps, Phases, Running, Making
  <2>27. TaskFacts'
    <3>1. ASSUME NEW s \in Tasks
          PROVE  /\ task'[s].space = NoRoot <=> task'[s].state \in {"none", "dead"}
                 /\ task'[s].space = NoRoot => task'[s].stack = {}
      <4>1. CASE s = t
        BY <2>8, <2>19, <4>1
      <4>2. CASE s # t
        BY <2>7, <4>2 DEF TaskFacts
      <4> QED BY <4>1, <4>2
    <3>2. task'[current].space = task[current].space
      BY <1>1, <2>7
    <3> QED BY <1>1, <2>1, <3>1, <3>2 DEF TaskFacts, RootOf
  <2>28. InUse \cap m'.free = {}
    <3>1. InUse \cap m.free = {} /\ InUse \cap OwnedBy(h, asked, old) = {}
      BY <1>0, <1>1, InUseIs
    <3>2. InUse \cap mem1.free = {}
      BY <2>5, <3>1 DEF mem1
    <3>3. m'.free \subseteq mem1.free
      BY <2>16, <2>19 DEF mem2
    <3> QED BY <3>2, <3>3
  <2> QED BY <2>20, <2>22, <2>23, <2>25, <2>26, <2>27, <2>28
<1> QED BY <1>2, <1>3

(* A new root only comes out of the pool. *)
LEMMA NewSpaceTakes ==
  ASSUME NewSpace PROVE m'.free \subseteq m.free
BY DEF NewSpace, Halt, Claim, Memory

-----------------------------------------------------------------------------
(* Every step keeps the invariant, and frees nothing that is in use. *)

BootPath == \/ BuildTables \/ MapBlob \/ EnableMmu \/ FinishHighHalf \/ InitTree \/ ExtendMap \/ Adopt
             \/ ReserveRegions \/ AdoptDevice \/ FindNoDevice \/ InitAddressSpaces

(* One case per action *)
LEMMA NextInv ==
  ASSUME BootInv, [Next]_vars PROVE BootInv'
<1>1. CASE BootPath
  BY <1>1, StepBuild, StepBlob, StepEnable, StepFinish, StepTree, StepExtend, StepAdopt, StepReserve,
     StepDevice, StepNoDevice, StepSpaces DEF BootPath
<1>2. CASE NewSpace \/ MapText \/ MapStack \/ SpawnIn \/ RecordImage
  BY <1>2, StepNewSpace, StepText, StepStack, StepSpawn, StepImage
<1>3. CASE Switch \/ Exit \/ Fault
  BY <1>3, StepTick, StepExit, StepFault
<1>4. ASSUME NEW t \in Tasks, Restart(t) \/ Kill(t) PROVE BootInv'
  BY <1>4, StepRestart, StepKill
<1>5. CASE ReleaseDead
  BY <1>5, StepRelease
<1>6. CASE UNCHANGED vars
  <2> USE DEF BootInv, vars, bootVars, taskVars
  <2>0. UNCHANGED <<pc, m, asked, ttbr0, machine, ramEnd, low, high, ttbr1, kept, todo, adopted, emptySpace,
                    building, task, current>>
    BY <1>6
  <2>1. SoundNow'
    BY <2>0, SoundStays
  <2>2. BootTypes'
    BY <2>0 DEF BootTypes, NewEnd
  <2>3. Phases'
    BY <2>0 DEF Phases
  <2>4. KernelMaps'
    BY <2>0 DEF KernelMaps, MapUpTo, NewEnd, HasBlob, OutsideGuess, BlobEnd
  <2>5. SpaceMaps'
    BY <2>0 DEF SpaceMaps
  <2>6. TaskFacts'
    BY <2>0 DEF TaskFacts, Started, RootOf
  <2> QED BY <2>1, <2>2, <2>3, <2>4, <2>5, <2>6
<1> QED BY <1>1, <1>2, <1>3, <1>4, <1>5, <1>6 DEF Next, Halted, BootPath

(* Only the reaper and restart give frames back, and neither gives one in use. *)
LEMMA NextKeepsInUse ==
  ASSUME BootInv, Next, Started PROVE InUse \cap m'.free = {}
<1>0. PICK h : Sound(m, h, asked, RootAt, Other, ramEnd)
  BY DEF BootInv, SoundNow
<1>1. pc \in Running
  BY DEF BootInv, Phases, Started
<1>2. CASE BootPath
  BY <1>1, <1>2 DEF BootPath, Running, BuildTables, MapBlob, EnableMmu, FinishHighHalf, InitTree, ExtendMap,
                    Adopt, ReserveRegions, AdoptDevice, FindNoDevice, InitAddressSpaces
<1>3. CASE m'.free \subseteq m.free
  <2>1. InUse \cap m.free = {}
    BY <1>0, InUseIs
  <2> QED BY <1>3, <2>1
<1>4. CASE NewSpace \/ MapText \/ MapStack \/ SpawnIn
  BY <1>3, <1>4, NewSpaceTakes, StepText, StepStack, StepSpawn
<1>5. CASE RecordImage \/ ReleaseDead \/ \E t \in Tasks : Kill(t)
  BY <1>3, <1>5 DEF RecordImage, ReleaseDead, Kill
<1>6. CASE Switch \/ Exit \/ Fault
  BY <1>6, StepTick, StepExit, StepFault
<1>7. ASSUME NEW t \in Tasks, Restart(t) PROVE InUse \cap m'.free = {}
  BY <1>7, StepRestart
<1>8. ~Halted
  BY <1>1 DEF Halted, Running
<1> QED BY <1>2, <1>4, <1>5, <1>6, <1>7, <1>8 DEF Next, BootPath

(* The invariant holds of every behaviour. *)
LEMMA InvAlways == Spec => []BootInv
<1>1. Init => BootInv
  BY InitInv
<1>2. BootInv /\ [Next]_vars => BootInv'
  BY NextInv
<1> QED BY <1>1, <1>2, PTL DEF Spec

-----------------------------------------------------------------------------
(* What holds of every boot and of every life of every task *)

(* paging.rs map_range, lookup and free_table; tasks.rs build_user_space and  *)
(* restart: through any root that is in use, every page leads where the last  *)
(* range asked for says and the rest lead nowhere, whatever the frames of the *)
(* tables held before.                                                        *)
THEOREM WalksAreRight == Spec => []WalkIsRight
<1>1. BootInv => WalkIsRight
  BY InvWalks
<1> QED BY <1>1, InvAlways, PTL

(* main.rs adopt_memory_map, "Order matters": from the switch to the high     *)
(* half on, the kernel can reach every frame that the allocator knows as data.*)
THEOREM KernelReachesThem == Spec => []KernelReachesItsFrames
<1>1. BootInv => KernelReachesItsFrames
  BY InvFrames
<1> QED BY <1>1, InvAlways, PTL

(* main.rs map_device: a device that was adopted stays reachable, all of it,  *)
(* as device memory, though others and the memory are mapped after it.        *)
THEOREM DevicesStayMapped == Spec => []AdoptedDevicesMapped
<1>1. BootInv => AdoptedDevicesMapped
  BY InvDevices
<1> QED BY <1>1, InvAlways, PTL

(* frames.rs, tasks.rs reap_zombies and restart, paging.rs destroy: a frame   *)
(* that is out of the pool has one holder; none is leaked or held twice.      *)
THEOREM OneHolder == Spec => []FramesHaveOneHolder
<1>1. BootInv => FramesHaveOneHolder
  BY InvHolders
<1> QED BY <1>1, InvAlways, PTL

(* tasks.rs switch_to_next, reap_zombies and restart: no step frees a frame   *)
(* of the space the hardware walks or of the stack it stands on.              *)
THEOREM NothingUnderfoot == Spec => NothingFreedUnderfoot
<1>1. BootInv /\ [Next]_vars => [Started => (Owned(ttbr0) \cup StackOf(current)) \cap m'.free = {}]_vars
  <2> SUFFICES ASSUME BootInv, Next, Started PROVE (Owned(ttbr0) \cup StackOf(current)) \cap m'.free = {}
    OBVIOUS
  <2> QED BY NextKeepsInUse DEF InUse
<1> QED BY <1>1, InvAlways, PTL DEF Spec, NothingFreedUnderfoot

(* frames.rs free, "double free": the reaper may run for any tasks that have  *)
(* a space, and restart for any of them, without freeing a frame that is free *)
(* or freeing one twice.                                                      *)
FreesAreSound ==
  /\ \A gone \in SUBSET {t \in Tasks : task[t].space # NoRoot} : Reclaimed(gone).ok
  /\ \A t \in Tasks : task[t].space # NoRoot => OldSpaceFreed(t).ok

(* tasks.rs reap_zombies and restart: the double free that frames::free would *)
(* stop the machine for cannot happen, on any path a task's frames come back. *)
THEOREM FreesNeverPanic == Spec => []FreesAreSound
<1>1. BootInv => FreesAreSound
  <2> SUFFICES ASSUME BootInv PROVE FreesAreSound
    OBVIOUS
  <2>1. PICK h : Sound(m, h, asked, RootAt, Other, ramEnd)
    BY DEF BootInv, SoundNow
  <2>2. ASSUME NEW gone \in SUBSET {t \in Tasks : task[t].space # NoRoot} PROVE Reclaimed(gone).ok
    BY <2>1, ReclaimedIs
  <2>3. ASSUME NEW t \in Tasks, task[t].space # NoRoot PROVE OldSpaceFreed(t).ok
    BY <2>1, <2>3, OldSpaceIs
  <2> QED BY <2>2, <2>3 DEF FreesAreSound
<1> QED BY <1>1, InvAlways, PTL

=============================================================================
